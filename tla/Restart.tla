------------------------------- MODULE Restart -------------------------------
(***************************************************************************)
(* init again, while the receive path runs.  After sessiondisconnect or    *)
(* DOWN_ERROR, q may call init once more: setup_socket calls cb_init on    *)
(* the one global ring, makes a new socket pair over the same fd, and a    *)
(* new context thread appears beside the old ones, which are never ended.  *)
(* They all write through the one static msgbuff.                          *)
(*                                                                         *)
(* The ring holds whole frames here; Feed has it byte by byte for one      *)
(* life.  Messages write_to_buffer drops (Feed!RxTooBig) are left out.     *)
(* An init that is refused for its argument gets as far as feedreset.      *)
(***************************************************************************)
EXTENDS Naturals, Sequences, FiniteSets

CONSTANTS
    MaxInits,    \* bound on the calls of init that get as far as setup_socket
    MaxRecords,  \* bound on the records of one life
    Capacity,    \* frames the ring has space for
    SockCap,     \* '.' bytes a socket pair holds before write fails
    CallsWait    \* disconnect and cleanup of the SDK wait for its callbacks

ASSUME BoundsAssumption ==
    /\ MaxInits \in Nat /\ MaxRecords \in Nat
    /\ Capacity \in Nat \ {0} /\ SockCap \in Nat \ {0}
    /\ CallsWait \in BOOLEAN

VARIABLES
    initiated,          \* the global flag
    life, fd,           \* how often cb_init was called; the current socket pair
    cur, link,          \* session_p; sessions, as the SDK sees them
    wpc, rec, put,      \* per context thread: where it is, the record it is
                        \* writing, and what cb_write copied into the ring
    msgbuff,            \* the record last copied into msgbuff
    ring, lock, waiting,\* queue: frames, holder of k, threads asleep on o
    tokens,             \* '.' bytes per socket pair
    qpc, qsize, batch,  \* q thread; what callback has read, not yet parsed
    back,               \* where init returns to
    msg_recv,
    log, got,           \* history of this life: the records accepted, each
                        \* with its kind and since; what came out
    since,              \* history: the first record msg_recv counts from
    overlap             \* history: a callback of one context thread ran beside
                        \* another's, or beside init's reset of ring and counts

cVars    == <<wpc, rec, put, msgbuff, log>>
initVars == <<life, fd, cur, back, since>>
vars     == <<initiated, initVars, link, cVars, ring, lock, waiting, tokens,
              qpc, qsize, batch, msg_recv, got, overlap>>

Sessions == 1 .. MaxInits

Torn   == [life |-> 0, n |-> 0, kind |-> "torn", seqn |-> 0]
Record == [life: Nat, n: Nat, kind: {"s", "a", "torn"}, seqn: Nat]

Gone == qpc \in {"assert_failed", "crashed"}

Inside(s)    == wpc[s] # "idle"
OthersIn(s)  == \E o \in Sessions \ {s} : Inside(o)

\* make_msg_dict has made the record; msg_recv does not count it yet.
Made(s)      == wpc[s] \in {"copy", "write", "wait", "commit", "dot", "count"}
Uncounted(s) == Made(s) /\ rec[s].kind = "s"

Init ==
    /\ initiated = FALSE /\ life = 0 /\ fd = 0
    /\ cur = 0 /\ link = [s \in Sessions |-> "none"]
    /\ wpc = [s \in Sessions |-> "idle"]
    /\ rec = [s \in Sessions |-> Torn] /\ put = [s \in Sessions |-> Torn]
    /\ msgbuff = Torn
    /\ ring = <<>> /\ lock = 0 /\ waiting = {}
    /\ tokens = [e \in Sessions |-> 0]
    /\ qpc = "idle" /\ qsize = 0 /\ batch = <<>> /\ back = "idle"
    /\ msg_recv = 0 /\ log = <<>> /\ got = <<>> /\ since = 1
    /\ overlap = FALSE

-----------------------------------------------------------------------------
(* A context thread.                                                       *)

qVars == <<qpc, qsize, batch, got>>

\* A callback begins.  Between feedreset and cb_init it is beside init.
Enter(s, kind) ==
    /\ wpc[s] = "idle" /\ ~Gone /\ Len(log) < MaxRecords
    /\ wpc' = [wpc EXCEPT ![s] = "make"]
    /\ rec' = [rec EXCEPT ![s] = [Torn EXCEPT !.kind = kind]]
    /\ overlap' = (overlap \/ OthersIn(s) \/ qpc = "setup")
    /\ UNCHANGED <<initVars, put, msgbuff, log, ring, lock, waiting, tokens,
                   qVars, msg_recv>>

Arrive(s, kind) ==
    /\ link[s] = "up"
    /\ Enter(s, kind)
    /\ UNCHANGED <<initiated, link>>

GoesDown(s) ==
    /\ link[s] = "up"
    /\ link' = [link EXCEPT ![s] = "down"]
    /\ UNCHANGED <<initiated, initVars, cVars, ring, lock, waiting, tokens,
                   qVars, msg_recv, overlap>>

\* DOWN_ERROR: the flag is cleared first, the record made and written after.
DownError(s) ==
    /\ link[s] = "down"
    /\ link' = [link EXCEPT ![s] = "closed"]
    /\ initiated' = FALSE
    /\ Enter(s, "a")

others == <<initiated, initVars, link, qVars>>

\* Mutant: the frame is written before it is copied into msgbuff.
MakeRecordUncopied(s) ==
    /\ wpc[s] = "make" /\ ~Gone
    /\ log' = Append(log, [kind |-> rec[s].kind, since |-> since])
    /\ rec' = [rec EXCEPT ![s] = [life |-> life, n |-> Len(log) + 1,
                                  kind |-> rec[s].kind, seqn |-> msg_recv]]
    /\ wpc' = [wpc EXCEPT ![s] = "write"]
    /\ UNCHANGED <<others, put, msgbuff, ring, lock, waiting, tokens,
                   msg_recv, overlap>>

\* make_msg_dict.
MakeRecord(s) ==
    /\ wpc[s] = "make" /\ ~Gone
    /\ log' = Append(log, [kind |-> rec[s].kind, since |-> since])
    /\ rec' = [rec EXCEPT ![s] = [life |-> life, n |-> Len(log) + 1,
                                  kind |-> rec[s].kind, seqn |-> msg_recv]]
    /\ wpc' = [wpc EXCEPT ![s] = "copy"]
    /\ UNCHANGED <<others, put, msgbuff, ring, lock, waiting, tokens,
                   msg_recv, overlap>>

\* write_to_buffer's memcpys into msgbuff; two at once may mix their bytes.
Copy(s) ==
    /\ wpc[s] = "copy" /\ ~Gone
    /\ \/ msgbuff' = rec[s]
       \/ /\ \E o \in Sessions \ {s} : wpc[o] \in {"copy", "write"}
          /\ msgbuff' = Torn
    /\ wpc' = [wpc EXCEPT ![s] = "write"]
    /\ UNCHANGED <<others, rec, put, log, ring, lock, waiting, tokens,
                   msg_recv, overlap>>

\* cb_write with w = 1: the loop, and the memcpy out of msgbuff.
CbWriteWait(s) ==
    /\ wpc[s] = "write" /\ lock = 0 /\ ~Gone
    /\ Len(ring) >= Capacity
    /\ wpc' = [wpc EXCEPT ![s] = "wait"]
    /\ waiting' = waiting \union {s}
    /\ UNCHANGED <<others, rec, put, msgbuff, log, ring, lock, tokens,
                   msg_recv, overlap>>

SpuriousWake(s) ==
    /\ wpc[s] = "wait" /\ ~Gone
    /\ wpc' = [wpc EXCEPT ![s] = "write"]
    /\ waiting' = waiting \ {s}
    /\ UNCHANGED <<others, rec, put, msgbuff, log, ring, lock, tokens,
                   msg_recv, overlap>>

CbWrite(s) ==
    /\ wpc[s] = "write" /\ lock = 0 /\ ~Gone
    /\ Len(ring) < Capacity
    /\ put' = [put EXCEPT ![s] = msgbuff]
    /\ lock' = s
    /\ wpc' = [wpc EXCEPT ![s] = "commit"]
    /\ UNCHANGED <<others, rec, msgbuff, log, ring, waiting, tokens,
                   msg_recv, overlap>>

\* b->t += n and the unlock.  When cb_init came between, or made the mutex
\* anew under another holder, t moves over bytes nobody wrote there; when
\* msgbuff changed hands, its bytes may have another length.
CbWriteDone(s) ==
    /\ wpc[s] = "commit" /\ ~Gone
    /\ \E frame \in IF lock # s THEN {Torn} ELSE
                    IF put[s] = rec[s] THEN {rec[s]} ELSE {put[s], Torn} :
          ring' = Append(ring, frame)
    /\ lock' = 0
    /\ put' = [put EXCEPT ![s] = Torn]
    /\ wpc' = [wpc EXCEPT ![s] = "dot"]
    /\ UNCHANGED <<others, rec, msgbuff, log, waiting, tokens,
                   msg_recv, overlap>>

\* Mutant: the socket pair has no limit.
WriteDotUncapped(s) ==
    /\ wpc[s] = "dot" /\ ~Gone
    /\ tokens' = [tokens EXCEPT ![fd] = @ + 1]
    /\ IF rec[s].kind = "s" THEN wpc' = [wpc EXCEPT ![s] = "count"] /\ rec' = rec
       ELSE wpc' = [wpc EXCEPT ![s] = "idle"] /\ rec' = [rec EXCEPT ![s] = Torn]
    /\ UNCHANGED <<others, put, msgbuff, log, ring, lock, waiting,
                   msg_recv, overlap>>

\* write(fd[0], &dot, 1), to whatever pair fd holds by now.
WriteDot(s) ==
    /\ wpc[s] = "dot" /\ ~Gone
    /\ tokens' = IF tokens[fd] < SockCap
                 THEN [tokens EXCEPT ![fd] = tokens[fd] + 1] ELSE tokens
    /\ IF rec[s].kind = "s" THEN wpc' = [wpc EXCEPT ![s] = "count"] /\ rec' = rec
       ELSE wpc' = [wpc EXCEPT ![s] = "idle"] /\ rec' = [rec EXCEPT ![s] = Torn]
    /\ UNCHANGED <<others, put, msgbuff, log, ring, lock, waiting,
                   msg_recv, overlap>>

CountMessage(s) ==
    /\ wpc[s] = "count" /\ ~Gone
    /\ msg_recv' = msg_recv + 1
    /\ wpc' = [wpc EXCEPT ![s] = "idle"] /\ rec' = [rec EXCEPT ![s] = Torn]
    /\ UNCHANGED <<others, put, msgbuff, log, ring, lock, waiting,
                   tokens, overlap>>

-----------------------------------------------------------------------------
(* The q thread: callback.                                                 *)

apiVars == <<initiated, initVars, link, msg_recv, overlap>>

\* Every pair ever made stays registered with sd1.
RecvDot(e) ==
    /\ qpc = "idle" /\ tokens[e] > 0
    /\ tokens' = [tokens EXCEPT ![e] = @ - 1]
    /\ qpc' = "size"
    /\ UNCHANGED <<apiVars, cVars, ring, lock, waiting, qsize, batch, got>>

TakeSize ==
    /\ qpc = "size"
    /\ qsize' = Len(ring)
    /\ qpc' = IF Len(ring) > 0 THEN "read" ELSE "idle"
    /\ UNCHANGED <<apiVars, cVars, ring, lock, waiting, tokens, batch, got>>

\* Mutant: cb_read without its cds(b,o).
CbReadSilent ==
    /\ qpc = "read" /\ lock = 0
    /\ batch' = SubSeq(ring, 1, qsize)
    /\ ring' = SubSeq(ring, qsize + 1, Len(ring))
    /\ qsize' = 0
    /\ qpc' = "parse"
    /\ UNCHANGED <<apiVars, cVars, lock, waiting, tokens, got>>

\* cb_read and its cds(b,o), which wakes a thread asleep on o.
CbRead ==
    /\ qpc = "read" /\ lock = 0
    /\ batch' = SubSeq(ring, 1, qsize)
    /\ ring' = SubSeq(ring, qsize + 1, Len(ring))
    /\ IF waiting = {} THEN UNCHANGED <<wpc, waiting>>
       ELSE \E s \in waiting : /\ wpc' = [wpc EXCEPT ![s] = "write"]
                               /\ waiting' = waiting \ {s}
    /\ qsize' = 0
    /\ qpc' = "parse"
    /\ UNCHANGED <<apiVars, rec, put, msgbuff, log, lock, tokens, got>>

ParseFrame ==
    /\ qpc = "parse" /\ batch # <<>> /\ Head(batch) # Torn
    /\ got' = Append(got, IF Head(batch).life = life THEN Head(batch).n ELSE 0)
    /\ batch' = Tail(batch)
    /\ UNCHANGED <<apiVars, cVars, ring, lock, waiting, tokens, qpc, qsize>>

\* No length field, or not the right one: the assertion or d9 ends the process,
\* or a stretch of bytes is taken for a frame.
ParseTorn ==
    /\ qpc = "parse" /\ batch # <<>> /\ Head(batch) = Torn
    /\ \/ qpc' \in {"assert_failed", "crashed"} /\ UNCHANGED <<batch, got>>
       \/ /\ got' = Append(got, 0)
          /\ \E i \in 2 .. Len(batch) + 1 : batch' = SubSeq(batch, i, Len(batch))
          /\ qpc' = qpc
    /\ UNCHANGED <<apiVars, cVars, ring, lock, waiting, tokens, qsize>>

\* k(0, opts.callback, dmsgs, 0): the q function runs, and may call init.
CallHandler ==
    /\ qpc = "parse" /\ batch = <<>>
    /\ qpc' = "handler"
    /\ UNCHANGED <<apiVars, cVars, ring, lock, waiting, tokens, qsize, batch, got>>

HandlerReturns ==
    /\ qpc = "handler"
    /\ qpc' = "idle"
    /\ UNCHANGED <<apiVars, cVars, ring, lock, waiting, tokens, qsize, batch, got>>

-----------------------------------------------------------------------------
(* The q thread: init and sessiondisconnect.                               *)

AtPrompt == qpc \in {"idle", "handler"}

\* Mutant: feedreset forgets msg_recv.
FeedResetKeeps ==
    /\ msg_recv' = msg_recv
    /\ since' = IF \E s \in Sessions : Uncounted(s) THEN Len(log) ELSE Len(log) + 1

\* feedreset.  A stream message whose record is made is still to be counted;
\* a reset between the load and the store of its msg_recv++ is lost.
FeedReset ==
    \/ /\ msg_recv' = 0
       /\ since' = IF \E s \in Sessions : Uncounted(s) THEN Len(log) ELSE Len(log) + 1
    \/ (\E s \in Sessions : wpc[s] = "count") /\ UNCHANGED <<msg_recv, since>>

\* An argument that is no dictionary is refused after feedreset.
InitRefused ==
    /\ AtPrompt /\ ~initiated
    /\ FeedReset
    /\ UNCHANGED <<initiated, life, fd, cur, back, link, cVars, ring, lock, waiting,
                   tokens, qVars, overlap>>

\* init, up to setup_socket.
InitBegin ==
    /\ AtPrompt /\ ~initiated /\ life < MaxInits
    /\ back' = qpc /\ qpc' = "setup"
    /\ FeedReset
    /\ overlap' = (overlap \/ \E s \in Sessions : Inside(s))
    /\ UNCHANGED <<initiated, life, fd, cur, link, cVars, ring, lock, waiting,
                   tokens, qsize, batch, got>>

Reborn ==
    /\ life' = life + 1 /\ log' = <<>> /\ got' = <<>> /\ since' = 1
    /\ overlap' = (overlap \/ \E s \in Sessions : Inside(s))

\* Mutant: cb_init leaves h and t.
CbInitKeeps ==
    /\ qpc = "setup" /\ Reborn
    /\ lock' = 0 /\ waiting' = {}
    /\ qpc' = "pair"
    /\ UNCHANGED <<initiated, fd, cur, back, link, wpc, rec, put, msgbuff, ring,
                   tokens, qsize, batch, msg_recv>>

\* A new d, h = t = 0, a new mutex and new condition variables, whoever holds
\* or awaits the old ones.
CbInit ==
    /\ qpc = "setup" /\ Reborn
    /\ ring' = <<>> /\ lock' = 0 /\ waiting' = {}
    /\ qpc' = "pair"
    /\ UNCHANGED <<initiated, fd, cur, back, link, wpc, rec, put, msgbuff,
                   tokens, qsize, batch, msg_recv>>

\* Mutant: the old pairs are closed.
SocketpairAlone ==
    /\ qpc = "pair"
    /\ fd' = life /\ tokens' = [e \in Sessions |-> 0]
    /\ initiated' = FALSE
    /\ qpc' = "connect"
    /\ UNCHANGED <<life, cur, back, since, link, cVars, ring, lock, waiting,
                   qsize, batch, got, msg_recv, overlap>>

\* socketpair and sd1.
Socketpair ==
    /\ qpc = "pair"
    /\ fd' = life
    /\ initiated' = FALSE          \* connectToSolace
    /\ qpc' = "connect"
    /\ UNCHANGED <<life, cur, back, since, link, cVars, ring, lock, waiting, tokens,
                   qsize, batch, got, msg_recv, overlap>>

ConnectOk ==
    /\ qpc = "connect"
    /\ cur' = cur + 1 /\ link' = [link EXCEPT ![cur + 1] = "up"]
    /\ qpc' = "connected"
    /\ UNCHANGED <<initiated, life, fd, back, since, cVars, ring, lock, waiting,
                   tokens, qsize, batch, got, msg_recv, overlap>>

Closed == [s \in Sessions |-> IF link[s] = "none" THEN "none" ELSE "closed"]

\* With cleanup, which ends every session, or without.
ConnectFails ==
    /\ qpc = "connect"
    /\ \/ link' = link
       \/ link' = Closed /\ (CallsWait => \A s \in Sessions : ~Inside(s))
    /\ qpc' = back /\ back' = "idle"
    /\ UNCHANGED <<initiated, life, fd, cur, since, cVars, ring, lock, waiting,
                   tokens, qsize, batch, got, msg_recv, overlap>>

InitDone ==
    /\ qpc = "connected"
    /\ initiated' = TRUE
    /\ qpc' = back /\ back' = "idle"
    /\ UNCHANGED <<life, fd, cur, since, link, cVars, ring, lock, waiting, tokens,
                   qsize, batch, got, msg_recv, overlap>>

\* A DOWN_ERROR that is due still comes.
Disconnect ==
    /\ AtPrompt /\ initiated /\ cur > 0
    /\ CallsWait => ~Inside(cur)
    /\ initiated' = FALSE
    /\ link' = [link EXCEPT ![cur] = IF @ = "up" THEN "closed" ELSE @]
    /\ UNCHANGED <<initVars, cVars, ring, lock, waiting, tokens, qVars,
                   msg_recv, overlap>>

-----------------------------------------------------------------------------

ContextStep(s) == \/ MakeRecord(s) \/ Copy(s) \/ CbWriteWait(s) \/ CbWrite(s)
                  \/ CbWriteDone(s) \/ WriteDot(s) \/ CountMessage(s)

QStep == \/ \E e \in Sessions : RecvDot(e)
         \/ TakeSize \/ CbRead \/ ParseFrame \/ ParseTorn
         \/ CallHandler \/ HandlerReturns
         \/ CbInit \/ Socketpair \/ ConnectOk \/ ConnectFails \/ InitDone

Next ==
    \/ QStep \/ InitRefused \/ InitBegin \/ Disconnect
    \/ \E s \in Sessions :
          \/ ContextStep(s) \/ SpuriousWake(s) \/ GoesDown(s) \/ DownError(s)
          \/ \E kind \in {"s", "a"} : Arrive(s, kind)

\* Threads run on; a call into the SDK and the q function return.
Fairness == WF_vars(QStep) /\ \A s \in Sessions : WF_vars(ContextStep(s))

Spec == Init /\ [][Next]_vars /\ Fairness

-----------------------------------------------------------------------------
(* Properties.                                                             *)

\* Types.
TypeOK ==
    /\ initiated \in BOOLEAN /\ life \in 0 .. MaxInits /\ fd \in 0 .. life
    /\ cur \in 0 .. life
    /\ link \in [Sessions -> {"none", "up", "down", "closed"}]
    /\ wpc \in [Sessions -> {"idle", "make", "copy", "write", "wait", "commit",
                             "dot", "count"}]
    /\ rec \in [Sessions -> Record] /\ put \in [Sessions -> Record]
    /\ msgbuff \in Record
    /\ ring \in Seq(Record) /\ lock \in 0 .. MaxInits
    /\ waiting \subseteq Sessions
    /\ tokens \in [Sessions -> 0 .. SockCap]
    /\ qpc \in {"idle", "size", "read", "parse", "handler", "setup", "pair",
                "connect", "connected", "assert_failed", "crashed"}
    /\ qsize \in Nat /\ batch \in Seq(Record) /\ back \in {"idle", "handler"}
    /\ msg_recv \in Nat /\ since \in Nat
    /\ log \in Seq([kind: {"s", "a"}, since: Nat]) /\ got \in Seq(Nat)
    /\ overlap \in BOOLEAN

\* However inits and callbacks overlap, frames that the q thread is not about
\* to take keep it awake: some pair, old or new, has a '.', or a context thread
\* is still going to write one.
Covered == IF qpc = "size" THEN Len(ring) ELSE IF qpc = "read" THEN qsize ELSE 0
WakeupKept ==
    Len(ring) > Covered =>
        \/ \E e \in Sessions : tokens[e] > 0
        \/ \E s \in Sessions : wpc[s] = "dot"

\* seqn counts the stream messages of this life alone, or, once an init has been
\* refused for its argument, those since then, with the one that was written but
\* not yet counted; as long as no callback ran beside another callback or an
\* init that goes on.
Streams(m, n)    == Cardinality({i \in 1 .. n - 1 : i >= m /\ log[i].kind = "s"})
StreamsBefore(n) == Streams(log[n].since, n)
SeqnRestarts ==
    ~overlap => \A i \in DOMAIN ring : ring[i].seqn = StreamsBefore(ring[i].n)

\* The assertion of callback can end the process through a restart only when a
\* callback ran beside an init or another callback.
EndsOnlyOverlap == Gone => overlap

\* Unless callbacks overlapped, a thread asleep in cb_write is one the next
\* cb_read wakes, and the q thread is on its way there: frames are in the ring,
\* and it is taking them or has a '.' that makes it.  This is what the liveness
\* property that follows rests on.
SleeperHeard ==
    ~overlap => \A s \in Sessions : wpc[s] = "wait" =>
        /\ s \in waiting /\ ring # <<>>
        /\ qpc \in {"size", "read"} \/ \E e \in Sessions : tokens[e] > 0

\* A context thread comes out of its callback, in whichever life, unless its
\* callback ran beside an init, which forgets who waits on the ring.
CallbackReturns ==
    \A s \in Sessions : Inside(s) ~> (~Inside(s) \/ overlap \/ Gone)

\* Without overlap, every life of the ring is a fresh channel of records.
Channel == INSTANCE RestartChannel
           WITH accepted <- Len(log), delivered <- got, broken <- overlap
ChannelSpec == Channel!Spec

-----------------------------------------------------------------------------
(* The inductive invariant.                                                *)

LinkInv ==
    /\ qpc = "setup" => life < MaxInits
    /\ qpc \in {"pair", "connect"} => cur < life
    /\ qpc \in {"connect", "connected"} => fd > 0
    /\ \A s \in Sessions : /\ link[s] # "none" => fd > 0
                           /\ Inside(s) => link[s] # "none"
                           /\ s \in waiting => wpc[s] = "wait"
                           /\ wpc[s] = "make" => rec[s].kind \in {"s", "a"}

\* No record is of a life still to come, or numbered past this life's.
Dated(r) == r.life <= life /\ (r.life = life => r.n <= Len(log))
NumberInv ==
    /\ \A s \in Sessions : Dated(rec[s]) /\ Dated(put[s])
    /\ Dated(msgbuff)
    /\ \A i \in DOMAIN ring : Dated(ring[i])
    /\ \A i \in DOMAIN batch : Dated(batch[i])

ReadInv == qpc = "read" => qsize <= Len(ring)

\* Record n of this life.
RecordAt(n) == [life |-> life, n |-> n, kind |-> log[n].kind, seqn |-> StreamsBefore(n)]

Unwritten(s) == wpc[s] \in {"copy", "write", "wait", "commit"}

\* Without overlap at most one thread is inside, with the last record made.
ThreadInv ==
    /\ \A s, o \in Sessions : Inside(s) /\ Inside(o) => s = o
    /\ \A s \in Sessions :
          /\ qpc = "setup" => ~Inside(s)
          /\ lock = s <=> wpc[s] = "commit"
          /\ Inside(s) => rec[s].kind \in {"s", "a"}
          /\ Made(s) => Len(log) > 0 /\ rec[s] = RecordAt(Len(log))
          /\ wpc[s] \in {"write", "wait", "commit"} => msgbuff = rec[s]
          /\ wpc[s] = "commit" => put[s] = rec[s]
          /\ wpc[s] = "count" => rec[s].kind = "s"

\* got, batch and ring are the records made, without the one being written.
FeedInv ==
    /\ qpc # "parse" => batch = <<>>
    /\ \A i \in DOMAIN got : got[i] = i
    /\ \A i \in DOMAIN batch : batch[i] = RecordAt(Len(got) + i)
    /\ \A i \in DOMAIN ring : ring[i] = RecordAt(Len(got) + Len(batch) + i)
    /\ Len(got) + Len(batch) + Len(ring) =
          IF \E s \in Sessions : Unwritten(s) THEN Len(log) - 1 ELSE Len(log)

\* msg_recv counts from since on.
CountInv ==
    /\ since \in 1 .. Len(log) + 1
    /\ (\E s \in Sessions : Uncounted(s)) => since <= Len(log)
    /\ qpc = "setup" => msg_recv = 0
    /\ qpc # "setup" =>
          msg_recv = Streams(since, IF \E s \in Sessions : Uncounted(s)
                                    THEN Len(log) ELSE Len(log) + 1)

CleanInv == ~overlap => ~Gone /\ ThreadInv /\ FeedInv /\ CountInv

\* SleeperHeard, as far as the ring goes; WakeupKept has the rest.
SleepInv ==
    ~overlap => \A s \in Sessions : wpc[s] = "wait" => s \in waiting /\ ring # <<>>

IInv == /\ TypeOK /\ LinkInv /\ NumberInv /\ ReadInv /\ WakeupKept /\ CleanInv
        /\ SleepInv

-----------------------------------------------------------------------------
(* What the repository says, and the code does not do.                     *)

\* TLC refutes it as an invariant of MCRestart.cfg, also if CallsWait.
\* What the assertion at src/src/solace_k.c:363 says of every frame callback
\* finds in the ring.
MsizeInRange == qpc # "assert_failed"

=============================================================================
