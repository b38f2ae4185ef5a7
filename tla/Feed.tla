-------------------------------- MODULE Feed --------------------------------
(***************************************************************************)
(* The receive path of the library: the Solace context thread hands every  *)
(* message and session event to messageReceiveCallback and                 *)
(* common_eventCallback, which serialise it and write_to_buffer it: a      *)
(* frame (a long with the length, then the bytes) goes into the byte ring  *)
(* of cb.c, then one '.' into the socket pair.  The q main thread polls    *)
(* the other end; its callback takes one '.', reads everything that is in  *)
(* the ring and cuts it back into frames.                                  *)
(*                                                                         *)
(* wpc and rpc are the two threads' program counters.  The steps between   *)
(* them are the points where the other thread can act: the mutex hides     *)
(* the inside of cb_read and most of cb_write, but callback calls cb_size  *)
(* without it (solace_k.c:352), so the instant between the two halves of   *)
(* a wrapping write, where t is 0, is a state of its own ("wrap").         *)
(*                                                                         *)
(* It is one life of the ring, from the end of an init up to the next call *)
(* of init; Restart has several.                                           *)
(*                                                                         *)
(* msg_processed (one per frame taken) is Len(got), so it has no variable. *)
(* log, wpos, rpos, torn, got and dropped are history: what was accepted,  *)
(* how many bytes went in and out, and what came out.                      *)
(***************************************************************************)
EXTENDS CircularBuffer, Sequences

CONSTANTS
    HeaderSize,   \* sizeof(long), the length field before each frame
    MaxMsgSize,   \* MAX_MSG_SIZE: serialised messages are shorter than this
    MsgSizes,     \* lengths a serialised message may have
    SockCap,      \* '.' bytes the socket pair holds before write fails
    MaxRecords    \* bound on arrivals, to keep the model finite

ASSUME HeaderAssumption == HeaderSize \in Nat \ {0}
ASSUME MaxMsgAssumption == MaxMsgSize \in Nat /\ MaxMsgSize > 1
ASSUME SizesAssumption  == MsgSizes \subseteq Nat \ {0}
ASSUME SockAssumption   == SockCap \in Nat \ {0}
ASSUME BoundAssumption  == MaxRecords \in Nat
\* One frame fits the ring: 8 + 499 bytes against 1000000.
ASSUME FitsAssumption   == HeaderSize + MaxMsgSize <= N

VARIABLES
    d, h, t,          \* queue.d, queue.h, queue.t
    wpc, wpos, log,   \* context thread; bytes written; records accepted
    tokens,           \* '.' bytes in the socket pair
    rpc, qsize, off,  \* q thread; its locals qsize and offset
    rbuf, rpos,       \* the global rbuf; bytes read
    torn,             \* some qsize was taken in the middle of a write
    got,              \* records handed to k(0, ...), as indices into log
    msg_recv, dropped, callbackcounter, batches

ring  == <<d, h, t>>
stats == <<msg_recv, dropped, callbackcounter, batches>>
vars  == <<ring, wpc, wpos, log, tokens, rpc, qsize, off, rbuf, rpos, torn,
           got, stats>>

Torn == 0   \* in got: a frame that is not one of the records

\* 's' is a stream message, 'a' an admin message made from a session event.
Record == [at: Nat, len: Nat \ {0}, kind: {"s", "a"}, seqn: Nat]

Frame(r) == HeaderSize + r.len
End(r)   == r.at + Frame(r)
Pending  == log[Len(log)]          \* the record the context thread writes
Rest     == End(Pending) - wpos    \* its bytes not yet in the ring

\* The mutex is held across a visible state only inside a wrapping write.
LockHeld == wpc = "wrap"

Aborted == rpc \in {"assert_failed", "crashed"}   \* the process is gone

Init ==
    /\ d = [i \in Index |-> Junk] /\ h = 0 /\ t = 0
    /\ wpc = "idle" /\ wpos = 0 /\ log = <<>>
    /\ tokens = 0
    /\ rpc = "idle" /\ qsize = 0 /\ off = 0
    /\ rbuf = [i \in Index |-> Junk] /\ rpos = 0
    /\ torn = FALSE /\ got = <<>>
    /\ msg_recv = 0 /\ dropped = 0 /\ callbackcounter = 0 /\ batches = 0

-----------------------------------------------------------------------------
(* The Solace context thread.                                              *)

qVars == <<rpc, qsize, off, rbuf, rpos, torn, got, callbackcounter, batches>>

\* make_msg_dict stamps the record with msg_recv; write_to_buffer frames it.
WriteToBuffer(len, kind) ==
    /\ wpc = "idle" /\ ~Aborted
    /\ Len(log) + dropped < MaxRecords
    /\ len < MaxMsgSize
    /\ log' = Append(log, [at |-> wpos, len |-> len, kind |-> kind,
                           seqn |-> msg_recv])
    /\ wpc' = "cb_write"
    /\ UNCHANGED <<ring, wpos, tokens, qVars, msg_recv, dropped>>

RxMessage(len) == WriteToBuffer(len, "s")
RxEvent(len)   == WriteToBuffer(len, "a")

\* write_to_buffer drops the message; the callback counts it all the same.
RxTooBig(len) ==
    /\ wpc = "idle" /\ ~Aborted
    /\ Len(log) + dropped < MaxRecords
    /\ len >= MaxMsgSize
    /\ dropped' = dropped + 1
    /\ msg_recv' = msg_recv + 1
    /\ UNCHANGED <<ring, wpc, wpos, log, tokens, qVars>>

\* Mutant: a full ring is emptied instead of waited for.
FlushWhenFull ==
    /\ wpc = "cb_write" /\ ~Aborted
    /\ Frame(Pending) > CbSpace(h, t)
    /\ h' = t
    /\ UNCHANGED <<d, t, wpc, wpos, log, tokens, qVars, msg_recv, dropped>>

\* The loop of cb_write: too little space, wait on o and release the mutex.
CbWriteWait ==
    /\ wpc = "cb_write" /\ ~Aborted
    /\ Frame(Pending) > CbSpace(h, t)
    /\ wpc' = "cond_wait"
    /\ UNCHANGED <<ring, wpos, log, tokens, qVars, msg_recv, dropped>>

\* pthread_cond_wait may return without a signal.
SpuriousWake ==
    /\ wpc = "cond_wait" /\ ~Aborted
    /\ wpc' = "cb_write"
    /\ UNCHANGED <<ring, wpos, log, tokens, qVars, msg_recv, dropped>>

CbWriteAll ==
    /\ wpc = "cb_write" /\ ~Aborted
    /\ Frame(Pending) <= CbSpace(h, t)
    /\ ~Wraps(t, Frame(Pending))
    /\ d' = Fill(d, t, Frame(Pending), wpos)
    /\ t' = t + Frame(Pending)
    /\ wpos' = wpos + Frame(Pending)
    /\ wpc' = "dot"
    /\ UNCHANGED <<h, log, tokens, qVars, msg_recv, dropped>>

\* The first memcpy of a wrapping write, and t = 0.
CbWriteFirst ==
    /\ wpc = "cb_write" /\ ~Aborted
    /\ Frame(Pending) <= CbSpace(h, t)
    /\ Wraps(t, Frame(Pending))
    /\ d' = Fill(d, t, N - t, wpos)
    /\ t' = 0
    /\ wpos' = wpos + (N - t)
    /\ wpc' = "wrap"
    /\ UNCHANGED <<h, log, tokens, qVars, msg_recv, dropped>>

CbWriteRest ==
    /\ wpc = "wrap" /\ ~Aborted
    /\ d' = Fill(d, t, Rest, wpos)
    /\ t' = t + Rest
    /\ wpos' = End(Pending)
    /\ wpc' = "dot"
    /\ UNCHANGED <<h, log, tokens, qVars, msg_recv, dropped>>

\* write(fd[0], &dot, 1) on a non-blocking socket; EAGAIN is ignored.
WriteDot ==
    /\ wpc = "dot" /\ ~Aborted
    /\ tokens' = IF tokens < SockCap THEN tokens + 1 ELSE tokens
    /\ wpc' = IF Pending.kind = "s" THEN "count" ELSE "idle"
    /\ UNCHANGED <<ring, wpos, log, qVars, msg_recv, dropped>>

\* Mutant: msg_recv++ is forgotten.
CountNothing ==
    /\ wpc = "count" /\ ~Aborted
    /\ wpc' = "idle"
    /\ UNCHANGED <<ring, wpos, log, tokens, qVars, msg_recv, dropped>>

\* msg_recv++ comes after write_to_buffer has returned.
CountMessage ==
    /\ wpc = "count" /\ ~Aborted
    /\ msg_recv' = msg_recv + 1
    /\ wpc' = "idle"
    /\ UNCHANGED <<ring, wpos, log, tokens, qVars, dropped>>

-----------------------------------------------------------------------------
(* The q main thread: callback(d), called when fd[1] is readable.          *)

solaceVars == <<wpos, log, msg_recv, dropped>>

RecvDot ==
    /\ rpc = "idle" /\ tokens > 0
    /\ tokens' = tokens - 1
    /\ rpc' = "size"
    /\ UNCHANGED <<ring, wpc, qsize, off, rbuf, rpos, torn, got,
                   callbackcounter, batches, solaceVars>>

\* qsize = cb_size(&queue), without the mutex.
TakeSize ==
    /\ rpc = "size"
    /\ CbSize(h, t) > 0
    /\ qsize' = CbSize(h, t)
    /\ torn' = (torn \/ (wpc = "wrap" /\ Rest > 0))
    /\ rpc' = "read"
    /\ UNCHANGED <<ring, wpc, tokens, off, rbuf, rpos, got,
                   callbackcounter, batches, solaceVars>>

\* An earlier call already took what this '.' stood for.
NothingToRead ==
    /\ rpc = "size"
    /\ CbSize(h, t) = 0
    /\ callbackcounter' = callbackcounter + 1
    /\ rpc' = "idle"
    /\ UNCHANGED <<ring, wpc, tokens, qsize, off, rbuf, rpos, torn, got,
                   batches, solaceVars>>

\* Mutant: cb_read without its cds(b,o).
CbReadSilent ==
    /\ rpc = "read" /\ ~LockHeld
    /\ off' = 0
    /\ rbuf' = Drain(d, h, qsize, rbuf)
    /\ h' = Slot(h, qsize)
    /\ rpos' = rpos + qsize
    /\ rpc' = "parse"
    /\ UNCHANGED <<d, t, wpc, tokens, qsize, torn, got, callbackcounter,
                   batches, solaceVars>>

\* Mutant: callback empties the socket pair after it has read the ring.
CbReadTakeDots ==
    /\ rpc = "read" /\ ~LockHeld
    /\ off' = 0 /\ tokens' = 0
    /\ rbuf' = Drain(d, h, qsize, rbuf)
    /\ h' = Slot(h, qsize)
    /\ rpos' = rpos + qsize
    /\ rpc' = "signal"
    /\ UNCHANGED <<d, t, wpc, qsize, torn, got, callbackcounter, batches,
                   solaceVars>>

\* cb_read(&queue, rbuf, qsize, 0): callback ignores the result, so after a
\* refusal (-1, nothing copied, nothing signalled) it parses what rbuf holds.
CbRead ==
    /\ rpc = "read" /\ ~LockHeld
    /\ off' = 0
    /\ IF qsize > CbSize(h, t)
       THEN /\ rpc' = "parse"
            /\ UNCHANGED <<h, rbuf, rpos>>
       ELSE /\ rbuf' = Drain(d, h, qsize, rbuf)
            /\ h' = Slot(h, qsize)
            /\ rpos' = rpos + qsize
            /\ rpc' = "signal"
    /\ UNCHANGED <<d, t, wpc, tokens, qsize, torn, got, callbackcounter,
                   batches, solaceVars>>

\* cds(b,o), after the mutex is released.
SignalSpace ==
    /\ rpc = "signal"
    /\ wpc' = IF wpc = "cond_wait" THEN "cb_write" ELSE wpc
    /\ rpc' = "parse"
    /\ UNCHANGED <<ring, tokens, qsize, off, rbuf, rpos, torn, got,
                   callbackcounter, batches, solaceVars>>

\* rbuf holds the first n bytes of record k at offset off.
HasBytes(k, n) ==
    \A i \in 0 .. n - 1 : off + i \in Index /\ rbuf[off + i] = log[k].at + i

\* Mutant: offset += msize, without sizeof(long).
ParseFrameShort ==
    /\ rpc = "parse" /\ off < qsize
    /\ \E k \in DOMAIN log :
        /\ HasBytes(k, HeaderSize)
        /\ got' = Append(got, IF HasBytes(k, Frame(log[k])) THEN k ELSE Torn)
        /\ off' = off + log[k].len
    /\ UNCHANGED <<ring, wpc, tokens, rpc, qsize, rbuf, rpos, torn,
                   callbackcounter, batches, solaceVars>>

\* Mutant: only the first frame of a batch is taken.
ParseFrameOnce ==
    /\ rpc = "parse" /\ off < qsize
    /\ \E k \in DOMAIN log :
        /\ HasBytes(k, HeaderSize)
        /\ got' = Append(got, IF HasBytes(k, Frame(log[k])) THEN k ELSE Torn)
        /\ off' = qsize
    /\ UNCHANGED <<ring, wpc, tokens, rpc, qsize, rbuf, rpos, torn,
                   callbackcounter, batches, solaceVars>>

ParseFrame ==
    /\ rpc = "parse" /\ off < qsize
    /\ \E k \in DOMAIN log :
        /\ HasBytes(k, HeaderSize)
        /\ got' = Append(got, IF HasBytes(k, Frame(log[k])) THEN k ELSE Torn)
        /\ off' = off + Frame(log[k])
    /\ UNCHANGED <<ring, wpc, tokens, rpc, qsize, rbuf, rpos, torn,
                   callbackcounter, batches, solaceVars>>

\* What is at off is no record's length field: msize may be anything.
Garbage ==
    /\ rpc = "parse" /\ off < qsize
    /\ ~ \E k \in DOMAIN log : HasBytes(k, HeaderSize)

ParseGarbage ==
    /\ Garbage
    /\ \E msize \in 1 .. MaxMsgSize - 1 : off' = off + HeaderSize + msize
    /\ got' = Append(got, Torn)
    /\ UNCHANGED <<ring, wpc, tokens, rpc, qsize, rbuf, rpos, torn,
                   callbackcounter, batches, solaceVars>>

\* assert((msize > 0) && (msize < MAX_MSG_SIZE)) ends the process.
AssertFails ==
    /\ Garbage
    /\ rpc' = "assert_failed"
    /\ UNCHANGED <<ring, wpc, tokens, qsize, off, rbuf, rpos, torn, got,
                   callbackcounter, batches, solaceVars>>

\* d9 of bytes that are no record may fail, and add_rec_time then appends to a
\* null K object.
DecodeFails ==
    /\ rpc = "parse" /\ off < qsize
    /\ ~ \E k \in DOMAIN log : HasBytes(k, Frame(log[k]))
    /\ rpc' = "crashed"
    /\ UNCHANGED <<ring, wpc, tokens, qsize, off, rbuf, rpos, torn, got,
                   callbackcounter, batches, solaceVars>>

\* k(0, opts.callback, dmsgs, 0) and the return; qsize and offset are gone.
Deliver ==
    /\ rpc = "parse" /\ off >= qsize
    /\ batches' = batches + 1
    /\ callbackcounter' = callbackcounter + 1
    /\ rpc' = "idle" /\ qsize' = 0 /\ off' = 0
    /\ UNCHANGED <<ring, wpc, tokens, rbuf, rpos, torn, got, solaceVars>>

-----------------------------------------------------------------------------

Arrive == \E len \in MsgSizes : RxMessage(len) \/ RxEvent(len) \/ RxTooBig(len)

SolaceStep == \/ CbWriteWait \/ CbWriteAll \/ CbWriteFirst \/ CbWriteRest
              \/ WriteDot \/ CountMessage

QStep == \/ RecvDot \/ TakeSize \/ NothingToRead \/ CbRead \/ SignalSpace
         \/ ParseFrame \/ ParseGarbage \/ AssertFails \/ DecodeFails \/ Deliver

Next == Arrive \/ SolaceStep \/ SpuriousWake \/ QStep

\* Each thread keeps running; nothing makes messages arrive or waits end.
Fairness == WF_vars(SolaceStep) /\ WF_vars(QStep)

Spec == Init /\ [][Next]_vars /\ Fairness

-----------------------------------------------------------------------------
(* Properties.                                                             *)

TypeOK ==
    /\ d \in [Index -> Cell] /\ h \in Index /\ t \in Index
    /\ wpc \in {"idle", "cb_write", "cond_wait", "wrap", "dot", "count"}
    /\ wpos \in Nat /\ log \in Seq(Record)
    /\ tokens \in 0 .. SockCap
    /\ rpc \in {"idle", "size", "read", "signal", "parse", "assert_failed",
               "crashed"}
    /\ qsize \in Nat /\ off \in Nat
    /\ rbuf \in [Index -> Cell] /\ rpos \in Nat
    /\ torn \in BOOLEAN /\ got \in Seq(Nat)
    /\ msg_recv \in Nat /\ dropped \in Nat
    /\ callbackcounter \in Nat /\ batches \in Nat

\* Between h and t the ring holds exactly the bytes written and not yet read,
\* in order, at every instant a thread can look, also inside a wrapping write.
BytesInOrder ==
    /\ wpos = rpos + CbSize(h, t)
    /\ Holds(d, h, t, rpos)

\* A size taken without the mutex is never more than the ring still holds
\* when cb_read gets the mutex, so the call whose result callback ignores
\* never fails.
SnapshotBounded == rpc = "read" => qsize > 0 /\ qsize <= CbSize(h, t)

\* Bytes the q thread is not about to take keep it awake: a '.' is in the
\* socket pair or the context thread is still going to write one, although
\* each '.' is dropped when the socket is full and each call empties the ring.
Covered == IF rpc = "size" THEN CbSize(h, t)
           ELSE IF rpc = "read" THEN qsize ELSE 0
WakeupPending ==
    CbSize(h, t) > Covered => tokens > 0 \/ wpc \in {"wrap", "dot"}

\* A context thread asleep in cb_write either lacks the space it asked for
\* or is about to be signalled: the signal after the unlock is never lost.
NoLostSignal ==
    wpc = "cond_wait" => Frame(Pending) > CbSpace(h, t) \/ rpc = "signal"

\* While no size was taken in the middle of a write, q gets the accepted
\* records, each once, whole and in the order they arrived.
DeliveredInOrder == ~torn => \A i \in DOMAIN got : got[i] = i

\* The length assertion of callback (solace_k.c:363) can fail, and decoding a
\* frame can crash, only after a size was taken in the middle of a write.
EndsOnlyTorn == Aborted => torn

\* seqn is msg_recv at the moment a record is made.  Although msg_recv goes up
\* only after the record can already have been read, no two stream messages
\* share a seqn and records arrive with seqn in order; a session event has the
\* seqn of the stream message after it.
Counted(k) == log[k].kind = "s" /\ (k < Len(log) \/ wpc = "idle")
SeqnOrder ==
    /\ \A k \in DOMAIN log :
          log[k].seqn <= msg_recv /\ (Counted(k) => log[k].seqn < msg_recv)
    /\ \A j, k \in DOMAIN log :
          j < k => /\ log[j].seqn <= log[k].seqn
                   /\ log[j].kind = "s" => log[j].seqn < log[k].seqn

\* A context thread inside a callback comes out of it again, or the process
\* is gone: it is not left waiting for space forever.
CallbackReturns == (wpc # "idle") ~> (wpc = "idle" \/ Aborted)

\* The ring, the socket pair and the framing together implement a channel of
\* records: with the threads' fairness every accepted record is delivered,
\* unless a size was taken in the middle of a write.
Channel == INSTANCE FeedChannel
           WITH accepted <- Len(log), delivered <- got, broken <- torn
ChannelSpec == Channel!Spec

-----------------------------------------------------------------------------
(* The inductive invariant: the properties above, how the records lie in   *)
(* the byte stream, and where the two threads are in it.                   *)

\* The stream position after the first k records.
EndOf(k) == IF k = 0 THEN 0 ELSE End(log[k])

LogInv ==
    /\ \A k \in 1 .. Len(log) : log[k].len < MaxMsgSize /\ log[k].at = EndOf(k - 1)
    /\ \A j, k \in 1 .. Len(log) : j < k => End(log[j]) <= log[k].at

WriterInv ==
    /\ wpc # "idle" => Len(log) > 0
    /\ wpc \in {"cb_write", "cond_wait"} => wpos = Pending.at
    /\ wpc = "wrap" => t = 0 /\ 0 <= Rest /\ Rest < h
    /\ wpc \in {"idle", "dot", "count"} => wpos = EndOf(Len(log))

\* Every snapshot not taken in the middle of a write ends where a record ends.
AtBoundary(p) == \E k \in 0 .. Len(log) : p = EndOf(k)

ReaderInv ==
    ~torn =>
      /\ ~Aborted
      /\ Len(got) <= Len(log)
      /\ rpc \in {"idle", "size", "read"} => rpos = EndOf(Len(got))
      /\ rpc = "read" => AtBoundary(rpos + qsize)
      /\ rpc \in {"signal", "parse"} =>
            /\ off <= qsize /\ qsize < N
            /\ rpos - qsize + off = EndOf(Len(got))
            /\ AtBoundary(rpos)
            /\ \A i \in 0 .. qsize - 1 : rbuf[i] = rpos - qsize + i

IInv ==
    /\ TypeOK /\ LogInv /\ WriterInv /\ BytesInOrder /\ SnapshotBounded
    /\ WakeupPending /\ NoLostSignal /\ ReaderInv /\ DeliveredInOrder
    /\ EndsOnlyTorn /\ SeqnOrder

-----------------------------------------------------------------------------
(* What the repository says of this part, and the code does not do.        *)

\* What the assertion at solace_k.c:363 says: a length read from the ring is
\* always that of a message write_to_buffer let through.
MsizeInRange == rpc # "assert_failed"

\* TLC refutes this as an invariant of MCFeed.cfg.  What the comment at
\* solace_k.c:551 says of "batched": the number of times
\* the q main thread has called k(0, ...).
BatchedCountsCalls == rpc = "idle" => callbackcounter = batches

=============================================================================
