--------------------------- MODULE Restart_proofs ---------------------------
(***************************************************************************)
(* Invariance proofs for Restart, and that it implements RestartChannel.   *)
(* Its liveness is left to TLC.                                            *)
(***************************************************************************)
EXTENDS Restart, FiniteSetTheorems, SequenceTheorems, TLAPS

USE BoundsAssumption

-----------------------------------------------------------------------------
(* Sequences.                                                              *)

\* What callback reads, and what it leaves.
LEMMA Cut ==
    ASSUME NEW S, NEW q \in Seq(S), NEW n \in Nat, n <= Len(q)
    PROVE  /\ SubSeq(q, 1, n) \in Seq(S) /\ Len(SubSeq(q, 1, n)) = n
           /\ \A i \in 1 .. n : SubSeq(q, 1, n)[i] = q[i]
           /\ SubSeq(q, n + 1, Len(q)) \in Seq(S)
           /\ Len(SubSeq(q, n + 1, Len(q))) = Len(q) - n
           /\ \A i \in 1 .. Len(q) - n : SubSeq(q, n + 1, Len(q))[i] = q[n + i]
<1>1. \A i \in 1 .. Len(q) : q[i] \in S
    OBVIOUS
<1>2. /\ SubSeq(q, 1, n) \in Seq(S)
      /\ Len(SubSeq(q, 1, n)) = IF 1 <= n THEN n - 1 + 1 ELSE 0
      /\ \A i \in 1 .. n - 1 + 1 : SubSeq(q, 1, n)[i] = q[1 + i - 1]
    BY <1>1, SubSeqProperties
<1>3. /\ SubSeq(q, n + 1, Len(q)) \in Seq(S)
      /\ Len(SubSeq(q, n + 1, Len(q))) =
            IF n + 1 <= Len(q) THEN Len(q) - (n + 1) + 1 ELSE 0
      /\ \A i \in 1 .. Len(q) - (n + 1) + 1 :
            SubSeq(q, n + 1, Len(q))[i] = q[n + 1 + i - 1]
    <2> DEFINE a == n + 1
               b == Len(q)
    <2>1. a \in Int /\ b \in Int /\ \A i \in a .. b : q[i] \in S
        BY <1>1
    <2> HIDE DEF a, b
    <2>2. /\ SubSeq(q, a, b) \in Seq(S)
          /\ Len(SubSeq(q, a, b)) = IF a <= b THEN b - a + 1 ELSE 0
          /\ \A i \in 1 .. b - a + 1 : SubSeq(q, a, b)[i] = q[a + i - 1]
        BY <2>1, SubSeqProperties
    <2> QED BY <2>2 DEF a, b
<1> QED BY <1>2, <1>3

\* The sequences and their lengths.
LEMMA SeqTypes ==
    ASSUME TypeOK
    PROVE  /\ Len(got) \in Nat /\ Len(batch) \in Nat /\ Len(ring) \in Nat
           /\ Len(log) \in Nat /\ qsize \in Nat
           /\ DOMAIN batch = 1 .. Len(batch) /\ DOMAIN ring = 1 .. Len(ring)
           /\ DOMAIN got = 1 .. Len(got) /\ DOMAIN log = 1 .. Len(log)
           /\ ring \in Seq(Record) /\ batch \in Seq(Record) /\ got \in Seq(Nat)
<1>1. /\ ring \in Seq(Record) /\ batch \in Seq(Record) /\ got \in Seq(Nat)
      /\ log \in Seq([kind: {"s", "a"}, since: Nat]) /\ qsize \in Nat
    BY DEF TypeOK
<1> QED BY <1>1

-----------------------------------------------------------------------------
(* Types.                                                                  *)

LEMMA TornRecord == Torn \in Record
BY DEF Torn, Record

\* A callback begins.
LEMMA EnterTypes ==
    ASSUME TypeOK, NEW s \in Sessions, NEW kind \in {"s", "a"}, Enter(s, kind)
    PROVE  /\ wpc' \in [Sessions -> {"idle", "make", "copy", "write", "wait",
                                      "commit", "dot", "count"}]
           /\ rec' \in [Sessions -> Record]
           /\ overlap' \in BOOLEAN
<1>1. [Torn EXCEPT !.kind = kind] \in Record
    BY DEF Torn, Record
<1> QED BY <1>1 DEF Enter, TypeOK

LEMMA FeedResetTypes ==
    ASSUME TypeOK, FeedReset
    PROVE  msg_recv' \in Nat /\ since' \in Nat
BY DEF FeedReset, TypeOK

LEMMA TypeStep ==
    ASSUME TypeOK, LinkInv, ReadInv, [Next]_vars
    PROVE  TypeOK'
<1> USE TornRecord
<1>1. CASE UNCHANGED vars
    BY <1>1 DEF TypeOK, vars, cVars, initVars
<1>2. ASSUME NEW e \in Sessions, RecvDot(e)
      PROVE  TypeOK'
    BY <1>2 DEF RecvDot, TypeOK, apiVars, initVars, cVars
<1>3. CASE TakeSize
    BY <1>3 DEF TakeSize, TypeOK, apiVars, initVars, cVars
<1>4. CASE CbRead
    <2>1. ring \in Seq(Record) /\ qsize \in Nat /\ qsize <= Len(ring)
        BY <1>4 DEF CbRead, TypeOK, ReadInv
    <2>2. batch' \in Seq(Record) /\ ring' \in Seq(Record)
        BY <1>4, <2>1, Cut DEF CbRead
    <2>3. wpc' \in [Sessions -> {"idle", "make", "copy", "write", "wait", "commit",
                                 "dot", "count"}]
        BY <1>4 DEF CbRead, TypeOK
    <2>4. waiting' \subseteq Sessions
        BY <1>4 DEF CbRead, TypeOK
    <2> QED BY <1>4, <2>2, <2>3, <2>4 DEF CbRead, TypeOK, apiVars, initVars
<1>5. CASE ParseFrame
    <2>1. Head(batch) \in Record /\ batch' \in Seq(Record)
        BY <1>5 DEF ParseFrame, TypeOK
    <2>2. Head(batch).n \in Nat
        BY <2>1 DEF Record
    <2>3. got' \in Seq(Nat)
        BY <1>5, <2>2 DEF ParseFrame, TypeOK
    <2> QED BY <1>5, <2>1, <2>3 DEF ParseFrame, TypeOK, apiVars, initVars, cVars
<1>6. CASE ParseTorn
    <2>1. ASSUME NEW i \in 2 .. Len(batch) + 1
          PROVE  SubSeq(batch, i, Len(batch)) \in Seq(Record)
        <3>1. i - 1 \in Nat /\ i - 1 <= Len(batch) /\ batch \in Seq(Record)
            BY DEF TypeOK
        <3>2. SubSeq(batch, (i - 1) + 1, Len(batch)) \in Seq(Record)
            BY <3>1, Cut
        <3> QED BY <3>2
    <2>2. batch' \in Seq(Record)
        BY <1>6, <2>1 DEF ParseTorn, TypeOK
    <2>3. got' \in Seq(Nat)
        <3>1. got \in Seq(Nat) /\ Append(got, 0) \in Seq(Nat)
            BY DEF TypeOK
        <3> QED BY <1>6, <3>1 DEF ParseTorn
    <2>4. qpc' \in {"parse", "assert_failed", "crashed"}
        BY <1>6 DEF ParseTorn
    <2> QED
        BY <1>6, <2>2, <2>3, <2>4 DEF ParseTorn, TypeOK, apiVars, initVars, cVars
<1>7. CASE CallHandler
    BY <1>7 DEF CallHandler, TypeOK, apiVars, initVars, cVars
<1>8. CASE HandlerReturns
    BY <1>8 DEF HandlerReturns, TypeOK, apiVars, initVars, cVars
<1>9. CASE CbInit
    <2>1. life' \in 0 .. MaxInits /\ fd' \in 0 .. life' /\ cur' \in 0 .. life'
        BY <1>9 DEF CbInit, Reborn, TypeOK, LinkInv
    <2>2. /\ ring' \in Seq(Record) /\ got' \in Seq(Nat)
          /\ log' \in Seq([kind: {"s", "a"}, since: Nat]) /\ since' \in Nat
        BY <1>9 DEF CbInit, Reborn
    <2>3. lock' \in 0 .. MaxInits /\ waiting' \subseteq Sessions
        BY <1>9 DEF CbInit
    <2>4. overlap' \in BOOLEAN
        BY <1>9 DEF CbInit, Reborn, TypeOK
    <2> QED BY <1>9, <2>1, <2>2, <2>3, <2>4 DEF CbInit, TypeOK
<1>10. CASE Socketpair
    <2>1. fd' \in 0 .. life'
        BY <1>10 DEF Socketpair, TypeOK
    <2> QED BY <1>10, <2>1 DEF Socketpair, TypeOK, cVars
<1>11. CASE ConnectOk
    <2>1. cur' \in 0 .. life'
        BY <1>11 DEF ConnectOk, TypeOK, LinkInv
    <2>2. link' \in [Sessions -> {"none", "up", "down", "closed"}]
        BY <1>11 DEF ConnectOk, TypeOK
    <2> QED BY <1>11, <2>1, <2>2 DEF ConnectOk, TypeOK, cVars
<1>12. CASE ConnectFails
    BY <1>12 DEF ConnectFails, Closed, TypeOK, cVars
<1>13. CASE InitDone
    BY <1>13 DEF InitDone, TypeOK, cVars
<1>14. CASE InitBegin
    <2>1. msg_recv' \in Nat /\ since' \in Nat
        BY <1>14, FeedResetTypes DEF InitBegin
    <2> QED BY <1>14, <2>1 DEF InitBegin, AtPrompt, TypeOK, cVars
<1>27. CASE InitRefused
    <2>1. msg_recv' \in Nat /\ since' \in Nat
        BY <1>27, FeedResetTypes DEF InitRefused
    <2> QED BY <1>27, <2>1 DEF InitRefused, TypeOK, cVars, qVars
<1>15. CASE Disconnect
    BY <1>15 DEF Disconnect, TypeOK, initVars, cVars, qVars
<1>16. ASSUME NEW s \in Sessions, MakeRecord(s)
       PROVE  TypeOK'
    <2>1. rec[s].kind \in {"s", "a"}
        BY <1>16 DEF LinkInv, MakeRecord
    <2>2. log' \in Seq([kind: {"s", "a"}, since: Nat]) /\ Len(log) + 1 \in Nat
        <3>1. [kind |-> rec[s].kind, since |-> since] \in [kind: {"s", "a"}, since: Nat]
            BY <2>1 DEF TypeOK
        <3> QED BY <1>16, <3>1 DEF MakeRecord, TypeOK
    <2>3. rec' \in [Sessions -> Record]
        <3>1. [life |-> life, n |-> Len(log) + 1, kind |-> rec[s].kind,
               seqn |-> msg_recv] \in Record
            BY <2>1, <2>2 DEF TypeOK, Record
        <3> QED BY <1>16, <3>1 DEF MakeRecord, TypeOK
    <2>4. wpc' \in [Sessions -> {"idle", "make", "copy", "write", "wait", "commit",
                                 "dot", "count"}]
        BY <1>16 DEF MakeRecord, TypeOK
    <2> QED BY <1>16, <2>2, <2>3, <2>4 DEF MakeRecord, others, TypeOK, initVars, qVars
<1>17. ASSUME NEW s \in Sessions, Copy(s)
       PROVE  TypeOK'
    BY <1>17 DEF Copy, others, TypeOK, initVars, qVars
<1>18. ASSUME NEW s \in Sessions, CbWriteWait(s)
       PROVE  TypeOK'
    BY <1>18 DEF CbWriteWait, others, TypeOK, initVars, qVars
<1>19. ASSUME NEW s \in Sessions, CbWrite(s)
       PROVE  TypeOK'
    BY <1>19 DEF CbWrite, others, TypeOK, initVars, qVars, Sessions
<1>20. ASSUME NEW s \in Sessions, CbWriteDone(s)
       PROVE  TypeOK'
    <2>1. ring' \in Seq(Record)
        BY <1>20 DEF CbWriteDone, TypeOK
    <2>2. put' \in [Sessions -> Record]
        BY <1>20 DEF CbWriteDone, TypeOK
    <2>3. wpc' \in [Sessions -> {"idle", "make", "copy", "write", "wait", "commit",
                                 "dot", "count"}]
        BY <1>20 DEF CbWriteDone, TypeOK
    <2> QED
        BY <1>20, <2>1, <2>2, <2>3 DEF CbWriteDone, others, TypeOK, initVars, qVars
<1>21. ASSUME NEW s \in Sessions, WriteDot(s)
       PROVE  TypeOK'
    <2>1. tokens' \in [Sessions -> 0 .. SockCap]
        <3>1. CASE fd \in Sessions
            BY <1>21, <3>1 DEF WriteDot, TypeOK
        <3>2. CASE fd \notin Sessions
            BY <1>21, <3>2 DEF WriteDot, TypeOK
        <3> QED BY <3>1, <3>2
    <2>2. rec' \in [Sessions -> Record]
        BY <1>21 DEF WriteDot, TypeOK
    <2>3. wpc' \in [Sessions -> {"idle", "make", "copy", "write", "wait", "commit",
                                 "dot", "count"}]
        <3>1. wpc \in [Sessions -> {"idle", "make", "copy", "write", "wait", "commit",
                                    "dot", "count"}]
            BY DEF TypeOK
        <3>2. \E pc \in {"count", "idle"} : wpc' = [wpc EXCEPT ![s] = pc]
            BY <1>21 DEF WriteDot
        <3> QED BY <3>1, <3>2
    <2> QED BY <1>21, <2>1, <2>2, <2>3 DEF WriteDot, others, TypeOK, initVars, qVars
<1>22. ASSUME NEW s \in Sessions, CountMessage(s)
       PROVE  TypeOK'
    BY <1>22 DEF CountMessage, others, TypeOK, initVars, qVars
<1>23. ASSUME NEW s \in Sessions, SpuriousWake(s)
       PROVE  TypeOK'
    BY <1>23 DEF SpuriousWake, others, TypeOK, initVars, qVars
<1>24. ASSUME NEW s \in Sessions, GoesDown(s)
       PROVE  TypeOK'
    BY <1>24 DEF GoesDown, TypeOK, initVars, cVars, qVars
<1>25. ASSUME NEW s \in Sessions, DownError(s)
       PROVE  TypeOK'
    <2>1. Enter(s, "a")
        BY <1>25 DEF DownError
    <2> QED BY <1>25, <2>1, EnterTypes DEF DownError, Enter, TypeOK, initVars, qVars
<1>26. ASSUME NEW s \in Sessions, NEW kind \in {"s", "a"}, Arrive(s, kind)
       PROVE  TypeOK'
    <2>1. Enter(s, kind)
        BY <1>26 DEF Arrive
    <2> QED BY <1>26, <2>1, EnterTypes DEF Arrive, Enter, TypeOK, initVars, qVars
<1> QED
    BY <1>1, <1>2, <1>3, <1>4, <1>5, <1>6, <1>7, <1>8, <1>9, <1>10, <1>11, <1>12,
       <1>13, <1>14, <1>15, <1>16, <1>17, <1>18, <1>19, <1>20, <1>21, <1>22,
       <1>23, <1>24, <1>25, <1>26, <1>27 DEF Next, QStep, ContextStep

-----------------------------------------------------------------------------
(* Sessions and pairs.                                                     *)

LEMMA LinkStep ==
    ASSUME TypeOK, LinkInv, [Next]_vars
    PROVE  LinkInv'
<1> USE DEF LinkInv, Inside
<1>1. CASE UNCHANGED vars
    BY <1>1 DEF vars, cVars, initVars
<1>2. ASSUME NEW e \in Sessions, RecvDot(e)
      PROVE  LinkInv'
    BY <1>2 DEF RecvDot, apiVars, initVars, cVars
<1>3. CASE TakeSize \/ CallHandler \/ HandlerReturns
    BY <1>3 DEF TakeSize, CallHandler, HandlerReturns, apiVars, initVars, cVars
<1>4. CASE CbRead
    <2>1. UNCHANGED <<life, cur, fd, link, rec>> /\ qpc' = "parse"
        BY <1>4 DEF CbRead, apiVars, initVars
    <2>2. CASE waiting = {}
        BY <1>4, <2>1, <2>2 DEF CbRead
    <2>3. ASSUME NEW s \in waiting, wpc' = [wpc EXCEPT ![s] = "write"],
                 waiting' = waiting \ {s}
          PROVE  LinkInv'
        BY <2>1, <2>3 DEF TypeOK
    <2> QED BY <1>4, <2>2, <2>3 DEF CbRead
<1>5. CASE ParseFrame \/ ParseTorn
    BY <1>5 DEF ParseFrame, ParseTorn, apiVars, initVars, cVars
<1>9. CASE CbInit
    BY <1>9 DEF CbInit, Reborn, TypeOK
<1>10. CASE Socketpair
    BY <1>10 DEF Socketpair, TypeOK, cVars
<1>11. CASE ConnectOk
    <2>1. \A s \in Sessions : link[s] # "none" => link'[s] # "none"
        BY <1>11 DEF ConnectOk, TypeOK
    <2>2. fd' = fd /\ fd > 0
        BY <1>11 DEF ConnectOk
    <2> QED BY <1>11, <2>1, <2>2 DEF ConnectOk, TypeOK, cVars
<1>12. CASE ConnectFails
    <2>1. \A s \in Sessions : link'[s] # "none" <=> link[s] # "none"
        BY <1>12 DEF ConnectFails, Closed
    <2>2. qpc' \in {"idle", "handler"}
        BY <1>12 DEF ConnectFails, TypeOK
    <2> QED BY <1>12, <2>1, <2>2 DEF ConnectFails, TypeOK, cVars
<1>13. CASE InitDone
    <2>1. qpc' \in {"idle", "handler"}
        BY <1>13 DEF InitDone, TypeOK
    <2> QED BY <1>13, <2>1 DEF InitDone, cVars
<1>14. CASE InitBegin \/ InitRefused
    BY <1>14 DEF InitBegin, InitRefused, cVars, qVars
<1>15. CASE Disconnect
    <2>1. \A s \in Sessions : link'[s] # "none" <=> link[s] # "none"
        BY <1>15 DEF Disconnect, TypeOK
    <2>2. qpc' = qpc
        BY <1>15 DEF Disconnect, qVars
    <2> QED BY <1>15, <2>1, <2>2 DEF Disconnect, AtPrompt, initVars, cVars
<1>16. ASSUME NEW s \in Sessions,
              ContextStep(s) \/ SpuriousWake(s)
       PROVE  LinkInv'
    <2>1. UNCHANGED <<life, cur, fd, link, qpc>>
        BY <1>16 DEF ContextStep, MakeRecord, Copy, CbWriteWait, CbWrite, CbWriteDone,
                     WriteDot, CountMessage, SpuriousWake, others, initVars, qVars
    <2>2. wpc[s] # "idle" /\ wpc'[s] # "make"
        BY <1>16 DEF ContextStep, MakeRecord, Copy, CbWriteWait, CbWrite, CbWriteDone,
                     WriteDot, CountMessage, SpuriousWake, TypeOK
    <2>3. \A o \in Sessions \ {s} : wpc'[o] = wpc[o] /\ rec'[o] = rec[o]
        BY <1>16 DEF ContextStep, MakeRecord, Copy, CbWriteWait, CbWrite, CbWriteDone,
                     WriteDot, CountMessage, SpuriousWake, TypeOK
    <2>4. \/ waiting' = waiting /\ wpc[s] # "wait"
          \/ waiting' = waiting \union {s} /\ wpc'[s] = "wait"
          \/ waiting' = waiting \ {s}
        BY <1>16 DEF ContextStep, MakeRecord, Copy, CbWriteWait, CbWrite, CbWriteDone,
                     WriteDot, CountMessage, SpuriousWake, TypeOK
    <2> QED BY <2>1, <2>2, <2>3, <2>4
<1>24. ASSUME NEW s \in Sessions, GoesDown(s)
       PROVE  LinkInv'
    BY <1>24 DEF GoesDown, TypeOK, initVars, cVars, qVars
<1>25. ASSUME NEW s \in Sessions, NEW kind \in {"s", "a"}, Enter(s, kind),
              link[s] # "none",
              \A o \in Sessions : link'[o] # "none" <=> link[o] # "none"
       PROVE  LinkInv'
    <2>1. UNCHANGED <<life, cur, fd, qpc, waiting>> /\ wpc[s] = "idle"
        BY <1>25 DEF Enter, initVars, qVars
    <2>2. \A o \in Sessions \ {s} : wpc'[o] = wpc[o] /\ rec'[o] = rec[o]
        BY <1>25 DEF Enter, TypeOK
    <2>3. rec'[s].kind = kind
        BY <1>25 DEF Enter, TypeOK, Torn
    <2> QED BY <1>25, <2>1, <2>2, <2>3
<1>26. ASSUME NEW s \in Sessions, DownError(s)
       PROVE  LinkInv'
    BY <1>25, <1>26 DEF DownError, TypeOK
<1>27. ASSUME NEW s \in Sessions, NEW kind \in {"s", "a"}, Arrive(s, kind)
       PROVE  LinkInv'
    BY <1>25, <1>27 DEF Arrive
<1> QED
    BY <1>1, <1>2, <1>3, <1>4, <1>5, <1>9, <1>10, <1>11, <1>12, <1>13, <1>14, <1>15,
       <1>16, <1>24, <1>26, <1>27 DEF Next, QStep

-----------------------------------------------------------------------------
(* Where records are from.                                                 *)

LEMMA TornDated == TypeOK => Dated(Torn)
BY DEF Dated, Torn, TypeOK

\* Within a life the log only grows.
LEMMA DatedKept ==
    ASSUME TypeOK, TypeOK', life' = life, Len(log') >= Len(log)
    PROVE  \A r \in Record : Dated(r) => Dated(r)'
<1>1. Len(log) \in Nat /\ Len(log') \in Nat /\ life \in Nat
    BY DEF TypeOK
<1> SUFFICES ASSUME NEW r \in Record, Dated(r) PROVE Dated(r)'
    OBVIOUS
<1>2. r.life \in Nat /\ r.n \in Nat
    BY DEF Record
<1> QED BY <1>1, <1>2 DEF Dated

\* Everything NumberInv speaks of is a record.
LEMMA RecordTypes ==
    ASSUME TypeOK
    PROVE  /\ \A s \in Sessions : rec[s] \in Record /\ put[s] \in Record
           /\ msgbuff \in Record
           /\ \A i \in DOMAIN ring : ring[i] \in Record
           /\ \A i \in DOMAIN batch : batch[i] \in Record
<1>1. /\ rec \in [Sessions -> Record] /\ put \in [Sessions -> Record]
      /\ msgbuff \in Record /\ ring \in Seq(Record) /\ batch \in Seq(Record)
    BY DEF TypeOK
<1> QED BY <1>1

LEMMA NumberStep ==
    ASSUME TypeOK, TypeOK', ReadInv, NumberInv, [Next]_vars
    PROVE  NumberInv'
<1> USE TornDated, TornRecord
<1>1. ASSUME life' = life, Len(log') >= Len(log),
             UNCHANGED <<rec, put, msgbuff, ring, batch>>
      PROVE  NumberInv'
    BY <1>1, DatedKept, RecordTypes DEF NumberInv
<1>2. CASE UNCHANGED vars
    <2>1. UNCHANGED <<life, log, rec, put, msgbuff, ring, batch>>
        BY <1>2 DEF vars, cVars, initVars
    <2>2. Len(log') >= Len(log)
        <3>1. log' = log /\ Len(log) \in Nat
            BY <2>1 DEF TypeOK
        <3> QED BY <3>1
    <2> QED BY <1>1, <2>1, <2>2
<1>3. ASSUME NEW e \in Sessions, RecvDot(e)
      PROVE  NumberInv'
    BY <1>1, <1>3 DEF RecvDot, apiVars, initVars, cVars, TypeOK
<1>4. CASE TakeSize \/ CallHandler \/ HandlerReturns
    <2>1. UNCHANGED <<life, log, rec, put, msgbuff, ring, batch>>
        BY <1>4 DEF TakeSize, CallHandler, HandlerReturns, apiVars, initVars, cVars
    <2>2. Len(log') >= Len(log)
        <3>1. log' = log /\ Len(log) \in Nat
            BY <2>1 DEF TypeOK
        <3> QED BY <3>1
    <2> QED BY <1>1, <2>1, <2>2
<1>5. CASE CbRead
    <2>1. /\ life' = life /\ log' = log /\ UNCHANGED <<rec, put, msgbuff>>
          /\ batch' = SubSeq(ring, 1, qsize)
          /\ ring' = SubSeq(ring, qsize + 1, Len(ring))
          /\ ring \in Seq(Record) /\ qsize \in Nat /\ qsize <= Len(ring)
        BY <1>5 DEF CbRead, apiVars, initVars, TypeOK, ReadInv
    <2>2. /\ \A i \in DOMAIN batch' : batch'[i] = ring[i] /\ i \in DOMAIN ring
          /\ \A i \in DOMAIN ring' : ring'[i] = ring[qsize + i] /\ qsize + i \in DOMAIN ring
        BY <2>1, Cut
    <2>3. \A i \in DOMAIN batch' : Dated(batch[i])'
        BY <2>1, <2>2 DEF NumberInv, Dated
    <2>4. \A i \in DOMAIN ring' : Dated(ring[i])'
        BY <2>1, <2>2 DEF NumberInv, Dated
    <2> QED BY <2>1, <2>3, <2>4 DEF NumberInv, Dated
<1>6. CASE ParseFrame
    <2>1. life' = life /\ log' = log /\ UNCHANGED <<rec, put, msgbuff, ring>>
        BY <1>6 DEF ParseFrame, apiVars, initVars, cVars
    <2>2. \A i \in DOMAIN batch' : batch'[i] = batch[i + 1] /\ i + 1 \in DOMAIN batch
        BY <1>6 DEF ParseFrame, TypeOK
    <2> QED BY <2>1, <2>2 DEF NumberInv, Dated
<1>7. CASE ParseTorn
    <2>1. life' = life /\ log' = log /\ UNCHANGED <<rec, put, msgbuff, ring>>
        BY <1>7 DEF ParseTorn, apiVars, initVars, cVars
    <2>2. ASSUME NEW i \in 2 .. Len(batch) + 1, batch' = SubSeq(batch, i, Len(batch))
          PROVE  \A j \in DOMAIN batch' : \E m \in DOMAIN batch : batch'[j] = batch[m]
        <3>1. i - 1 \in Nat /\ i - 1 <= Len(batch) /\ batch \in Seq(Record)
            BY DEF TypeOK
        <3>2. batch' = SubSeq(batch, (i - 1) + 1, Len(batch))
            BY <2>2
        <3>3. \A j \in DOMAIN batch' : /\ batch'[j] = batch[(i - 1) + j]
                                       /\ (i - 1) + j \in DOMAIN batch
            BY <3>1, <3>2, Cut
        <3> QED BY <3>3
    <2>3. \A j \in DOMAIN batch' : \E m \in DOMAIN batch : batch'[j] = batch[m]
        BY <1>7, <2>2 DEF ParseTorn
    <2> QED BY <2>1, <2>3 DEF NumberInv, Dated
<1>8. CASE CbInit
    <2>1. life' = life + 1 /\ UNCHANGED <<rec, put, msgbuff, batch>> /\ ring' = <<>>
        BY <1>8 DEF CbInit, Reborn
    <2>2. \A r \in Record : Dated(r) => Dated(r)'
        <3>1. life \in Nat
            BY DEF TypeOK
        <3>2. \A r \in Record : r.life \in Nat
            BY DEF Record
        <3> QED BY <2>1, <3>1, <3>2 DEF Dated
    <2> QED BY <2>1, <2>2, RecordTypes DEF NumberInv
<1>9. CASE Socketpair \/ ConnectOk \/ ConnectFails \/ InitDone
    BY <1>1, <1>9 DEF Socketpair, ConnectOk, ConnectFails, InitDone, initVars, cVars, TypeOK
<1>10. CASE InitBegin \/ InitRefused \/ Disconnect
    <2>1. UNCHANGED <<life, log, rec, put, msgbuff, ring, batch>>
        BY <1>10 DEF InitBegin, InitRefused, Disconnect, initVars, cVars, qVars
    <2>2. Len(log') >= Len(log)
        <3>1. log' = log /\ Len(log) \in Nat
            BY <2>1 DEF TypeOK
        <3> QED BY <3>1
    <2> QED BY <1>1, <2>1, <2>2
<1>11. ASSUME NEW s \in Sessions, MakeRecord(s)
       PROVE  NumberInv'
    <2>1. /\ life' = life /\ Len(log') = Len(log) + 1
          /\ UNCHANGED <<put, msgbuff, ring, batch>>
          /\ \A o \in Sessions \ {s} : rec'[o] = rec[o]
          /\ rec'[s].life = life /\ rec'[s].n = Len(log')
        BY <1>11 DEF MakeRecord, others, initVars, qVars, TypeOK
    <2>2. \A r \in Record : Dated(r) => Dated(r)'
        <3>1. Len(log') >= Len(log)
            BY <2>1 DEF TypeOK
        <3> QED BY <2>1, <3>1, DatedKept
    <2>3. Dated(rec[s])'
        BY <2>1 DEF Dated, TypeOK
    <2>4. \A o \in Sessions : Dated(rec[o])'
        <3>1. \A o \in Sessions \ {s} : Dated(rec[o])'
            BY <2>1, <2>2 DEF NumberInv, TypeOK
        <3> QED BY <2>3, <3>1
    <2>5. \A o \in Sessions : Dated(put[o])'
        BY <2>1, <2>2 DEF NumberInv, TypeOK
    <2>6. Dated(msgbuff)' /\ (\A i \in DOMAIN ring : Dated(ring[i]))'
          /\ (\A i \in DOMAIN batch : Dated(batch[i]))'
        <3>1. msgbuff \in Record /\ ring \in Seq(Record) /\ batch \in Seq(Record)
            BY DEF TypeOK
        <3>2. /\ \A i \in DOMAIN ring : ring[i] \in Record
              /\ \A i \in DOMAIN batch : batch[i] \in Record
            BY <3>1
        <3>3. /\ Dated(msgbuff) /\ \A i \in DOMAIN ring : Dated(ring[i])
              /\ \A i \in DOMAIN batch : Dated(batch[i])
            BY DEF NumberInv
        <3>4. UNCHANGED <<msgbuff, ring, batch>>
            BY <2>1
        <3> QED BY <2>2, <3>1, <3>2, <3>3, <3>4
    <2> QED BY <2>4, <2>5, <2>6 DEF NumberInv
<1>12. ASSUME NEW s \in Sessions, Copy(s)
       PROVE  NumberInv'
    <2>1. life' = life /\ log' = log /\ UNCHANGED <<rec, put, ring, batch>>
        BY <1>12 DEF Copy, others, initVars, qVars
    <2>2. msgbuff' \in {rec[s], Torn}
        BY <1>12 DEF Copy
    <2> QED BY <2>1, <2>2 DEF NumberInv, Dated
<1>13. ASSUME NEW s \in Sessions, CbWrite(s)
       PROVE  NumberInv'
    <2>1. life' = life /\ log' = log /\ UNCHANGED <<rec, msgbuff, ring, batch>>
        BY <1>13 DEF CbWrite, others, initVars, qVars
    <2>2. \A o \in Sessions : put'[o] \in {put[o], msgbuff}
        BY <1>13 DEF CbWrite, TypeOK
    <2> QED BY <2>1, <2>2 DEF NumberInv, Dated
<1>14. ASSUME NEW s \in Sessions, CbWriteDone(s)
       PROVE  NumberInv'
    <2>1. life' = life /\ log' = log /\ UNCHANGED <<rec, msgbuff, batch>>
        BY <1>14 DEF CbWriteDone, others, initVars, qVars
    <2>2. \A o \in Sessions : put'[o] \in {put[o], Torn}
        BY <1>14 DEF CbWriteDone, TypeOK
    <2>3. ASSUME NEW f \in {Torn, rec[s], put[s]}, ring' = Append(ring, f)
          PROVE  \A i \in DOMAIN ring' : ring'[i] = f \/ (i \in DOMAIN ring /\ ring'[i] = ring[i])
        <3>1. ring \in Seq(Record)
            BY DEF TypeOK
        <3>2. /\ Len(ring') = Len(ring) + 1 /\ DOMAIN ring' = 1 .. Len(ring')
              /\ DOMAIN ring = 1 .. Len(ring) /\ Len(ring) \in Nat
              /\ ring'[Len(ring) + 1] = f
              /\ \A i \in 1 .. Len(ring) : ring'[i] = ring[i]
            BY <2>3, <3>1
        <3> QED BY <3>2
    <2>4. \A i \in DOMAIN ring' : \/ ring'[i] \in {Torn, rec[s], put[s]}
                                  \/ i \in DOMAIN ring /\ ring'[i] = ring[i]
        BY <1>14, <2>3 DEF CbWriteDone
    <2> QED BY <2>1, <2>2, <2>4 DEF NumberInv, Dated
<1>15. ASSUME NEW s \in Sessions, CbWriteWait(s) \/ SpuriousWake(s)
       PROVE  NumberInv'
    BY <1>1, <1>15 DEF CbWriteWait, SpuriousWake, others, initVars, qVars, TypeOK
<1>16. ASSUME NEW s \in Sessions, WriteDot(s) \/ CountMessage(s)
       PROVE  NumberInv'
    <2>1. life' = life /\ log' = log /\ UNCHANGED <<put, msgbuff, ring, batch>>
        BY <1>16 DEF WriteDot, CountMessage, others, initVars, qVars
    <2>2. \A o \in Sessions : rec'[o] \in {rec[o], Torn}
        <3>1. rec \in [Sessions -> Record]
            BY DEF TypeOK
        <3>2. rec' = rec \/ rec' = [rec EXCEPT ![s] = Torn]
            BY <1>16 DEF WriteDot, CountMessage
        <3> QED BY <3>1, <3>2
    <2> QED BY <2>1, <2>2 DEF NumberInv, Dated
<1>17. ASSUME NEW s \in Sessions, GoesDown(s)
       PROVE  NumberInv'
    BY <1>1, <1>17 DEF GoesDown, initVars, cVars, qVars, TypeOK
<1>18. ASSUME NEW s \in Sessions, NEW kind \in {"s", "a"}, Enter(s, kind)
       PROVE  NumberInv'
    <2>1. life' = life /\ log' = log /\ UNCHANGED <<put, msgbuff, ring, batch>>
        BY <1>18 DEF Enter, initVars, qVars
    <2>2. \A o \in Sessions : \/ rec'[o] = rec[o]
                              \/ rec'[o].life = Torn.life /\ rec'[o].n = Torn.n
        BY <1>18 DEF Enter, TypeOK, Torn
    <2> QED BY <2>1, <2>2 DEF NumberInv, Dated
<1> QED
    BY <1>2, <1>3, <1>4, <1>5, <1>6, <1>7, <1>8, <1>9, <1>10, <1>11, <1>12, <1>13,
       <1>14, <1>15, <1>16, <1>17, <1>18
    DEF Next, QStep, ContextStep, Arrive, DownError

-----------------------------------------------------------------------------
(* What keeps the q thread awake.                                          *)

LEMMA ReadStep ==
    ASSUME TypeOK, ReadInv, [Next]_vars
    PROVE  ReadInv'
<1> USE DEF ReadInv
<1>1. CASE UNCHANGED vars
    BY <1>1 DEF vars
<1>2. ASSUME NEW e \in Sessions, RecvDot(e)
      PROVE  ReadInv'
    BY <1>2 DEF RecvDot
<1>3. CASE TakeSize \/ CbRead \/ CallHandler \/ HandlerReturns
    BY <1>3 DEF TakeSize, CbRead, CallHandler, HandlerReturns, TypeOK
<1>4. CASE ParseFrame \/ ParseTorn
    BY <1>4 DEF ParseFrame, ParseTorn
<1>5. CASE CbInit \/ Socketpair \/ ConnectOk \/ ConnectFails \/ InitDone
    BY <1>5 DEF CbInit, Socketpair, ConnectOk, ConnectFails, InitDone, TypeOK
<1>6. CASE InitBegin \/ InitRefused \/ Disconnect
    BY <1>6 DEF InitBegin, InitRefused, Disconnect, AtPrompt, qVars
<1>7. ASSUME NEW s \in Sessions, CbWriteDone(s)
      PROVE  ReadInv'
    <2>1. Len(ring') = Len(ring) + 1 /\ Len(ring) \in Nat
        BY <1>7 DEF CbWriteDone, TypeOK
    <2> QED BY <1>7, <2>1 DEF CbWriteDone, others, qVars, TypeOK
<1>8. ASSUME NEW s \in Sessions,
             \/ MakeRecord(s) \/ Copy(s) \/ CbWriteWait(s) \/ CbWrite(s)
             \/ WriteDot(s) \/ CountMessage(s) \/ SpuriousWake(s)
      PROVE  ReadInv'
    BY <1>8 DEF MakeRecord, Copy, CbWriteWait, CbWrite, WriteDot, CountMessage,
                SpuriousWake, others, qVars
<1>9. ASSUME NEW s \in Sessions, GoesDown(s)
      PROVE  ReadInv'
    BY <1>9 DEF GoesDown, qVars
<1>10. ASSUME NEW s \in Sessions, NEW kind \in {"s", "a"}, Enter(s, kind)
       PROVE  ReadInv'
    BY <1>10 DEF Enter, qVars
<1> QED
    BY <1>1, <1>2, <1>3, <1>4, <1>5, <1>6, <1>7, <1>8, <1>9, <1>10
    DEF Next, QStep, ContextStep, Arrive, DownError

LEMMA WakeStep ==
    ASSUME TypeOK, TypeOK', LinkInv, ReadInv, WakeupKept, [Next]_vars
    PROVE  WakeupKept'
<1> DEFINE Awake == \/ \E e \in Sessions : tokens[e] > 0
                    \/ \E s \in Sessions : wpc[s] = "dot"
<1>0. WakeupKept <=> (Len(ring) > Covered => Awake)
    BY DEF WakeupKept
<1>1. ASSUME UNCHANGED <<ring, qpc, qsize, tokens>>,
             \A s \in Sessions : wpc[s] = "dot" => wpc'[s] = "dot"
      PROVE  WakeupKept'
    BY <1>1 DEF WakeupKept, Covered
<1>2. CASE UNCHANGED vars
    BY <1>1, <1>2 DEF vars, cVars
<1>3. ASSUME NEW e \in Sessions, RecvDot(e)
      PROVE  WakeupKept'
    BY <1>3 DEF RecvDot, WakeupKept, Covered, TypeOK
<1>4. CASE TakeSize
    BY <1>4 DEF TakeSize, WakeupKept, Covered, TypeOK
<1>5. CASE CbRead
    <2>1. Len(ring') = Len(ring) - qsize /\ Covered = qsize /\ Covered' = 0
        BY <1>5, Cut DEF CbRead, Covered, ReadInv, TypeOK
    <2>2. tokens' = tokens /\ \A s \in Sessions : wpc[s] = "dot" => wpc'[s] = "dot"
        BY <1>5 DEF CbRead, LinkInv, TypeOK
    <2>3. Len(ring) \in Nat /\ qsize \in Nat
        BY DEF TypeOK
    <2>4. Len(ring') > Covered' => Len(ring) > Covered
        BY <2>1, <2>3
    <2> QED BY <2>2, <2>4 DEF WakeupKept
<1>6. CASE ParseFrame \/ ParseTorn \/ CallHandler \/ HandlerReturns
    <2>1. UNCHANGED <<ring, tokens, wpc>> /\ Covered = 0 /\ Covered' = 0
        BY <1>6 DEF ParseFrame, ParseTorn, CallHandler, HandlerReturns, cVars, Covered
    <2> QED BY <2>1 DEF WakeupKept
<1>7. CASE CbInit
    <2>1. ring' = <<>> /\ Covered' = 0
        BY <1>7 DEF CbInit, Covered
    <2> QED BY <2>1 DEF WakeupKept
<1>8. CASE Socketpair \/ ConnectOk \/ ConnectFails \/ InitDone
    <2>1. UNCHANGED <<ring, tokens, wpc>> /\ Covered = 0 /\ Covered' = 0
        BY <1>8 DEF Socketpair, ConnectOk, ConnectFails, InitDone, cVars, Covered, TypeOK
    <2> QED BY <2>1 DEF WakeupKept
<1>9. CASE InitBegin
    <2>1. UNCHANGED <<ring, tokens, wpc>> /\ Covered = 0 /\ Covered' = 0
        BY <1>9 DEF InitBegin, AtPrompt, cVars, Covered
    <2> QED BY <2>1 DEF WakeupKept
<1>10. CASE InitRefused \/ Disconnect
    BY <1>1, <1>10 DEF InitRefused, Disconnect, cVars, qVars
<1>11. ASSUME NEW s \in Sessions, CbWriteDone(s)
       PROVE  WakeupKept'
    <2>1. wpc'[s] = "dot"
        BY <1>11 DEF CbWriteDone, TypeOK
    <2> QED BY <2>1 DEF WakeupKept
<1>12. ASSUME NEW s \in Sessions, WriteDot(s)
       PROVE  WakeupKept'
    <2>1. fd \in Sessions
        <3>1. link[s] # "none"
            BY <1>12 DEF WriteDot, LinkInv, Inside
        <3>2. fd > 0
            BY <3>1 DEF LinkInv
        <3>3. fd \in 0 .. life /\ life \in 0 .. MaxInits
            BY DEF TypeOK
        <3> QED BY <3>2, <3>3 DEF Sessions
    <2>2. tokens'[fd] > 0
        <3>1. tokens \in [Sessions -> 0 .. SockCap]
            BY DEF TypeOK
        <3>2. tokens' = IF tokens[fd] < SockCap
                        THEN [tokens EXCEPT ![fd] = tokens[fd] + 1] ELSE tokens
            BY <1>12 DEF WriteDot
        <3> QED BY <2>1, <3>1, <3>2
    <2> QED BY <2>1, <2>2 DEF WakeupKept
<1>13. ASSUME NEW s \in Sessions,
              \/ MakeRecord(s) \/ Copy(s) \/ CbWriteWait(s) \/ CbWrite(s)
              \/ CountMessage(s) \/ SpuriousWake(s)
       PROVE  WakeupKept'
    <2>1. UNCHANGED <<ring, qpc, qsize, tokens>>
        BY <1>13 DEF MakeRecord, Copy, CbWriteWait, CbWrite, CountMessage,
                     SpuriousWake, others, qVars
    <2>2. wpc[s] # "dot" /\ \A o \in Sessions \ {s} : wpc'[o] = wpc[o]
        BY <1>13 DEF MakeRecord, Copy, CbWriteWait, CbWrite, CountMessage,
                     SpuriousWake, TypeOK
    <2> QED BY <1>1, <2>1, <2>2
<1>14. ASSUME NEW s \in Sessions, GoesDown(s)
       PROVE  WakeupKept'
    BY <1>1, <1>14 DEF GoesDown, cVars, qVars
<1>15. ASSUME NEW s \in Sessions, NEW kind \in {"s", "a"}, Enter(s, kind)
       PROVE  WakeupKept'
    <2>1. UNCHANGED <<ring, qpc, qsize, tokens>>
        BY <1>15 DEF Enter, qVars
    <2>2. wpc[s] # "dot" /\ \A o \in Sessions \ {s} : wpc'[o] = wpc[o]
        BY <1>15 DEF Enter, TypeOK
    <2> QED BY <1>1, <2>1, <2>2
<1> QED
    BY <1>2, <1>3, <1>4, <1>5, <1>6, <1>7, <1>8, <1>9, <1>10, <1>11, <1>12, <1>13,
       <1>14, <1>15
    DEF Next, QStep, ContextStep, Arrive, DownError

-----------------------------------------------------------------------------
(* Counting the stream messages of a life.                                 *)

LEMMA StreamsFirst == \A a \in Nat : Streams(a, a) = 0
<1> SUFFICES ASSUME NEW m \in Nat PROVE Streams(m, m) = 0
    OBVIOUS
<1>1. {i \in 1 .. m - 1 : i >= m /\ log[i].kind = "s"} = {}
    OBVIOUS
<1> QED BY <1>1, FS_EmptySet DEF Streams

LEMMA StreamsNext ==
    ASSUME NEW m \in Nat, NEW n \in Nat \ {0}, m <= n
    PROVE  Streams(m, n + 1) = Streams(m, n) + (IF log[n].kind = "s" THEN 1 ELSE 0)
<1> DEFINE A == {i \in 1 .. n - 1 : i >= m /\ log[i].kind = "s"}
           B == {i \in 1 .. (n + 1) - 1 : i >= m /\ log[i].kind = "s"}
<1>1. IsFiniteSet(A)
    <2>1. IsFiniteSet(1 .. n - 1)
        BY FS_Interval
    <2> QED BY <2>1, FS_Subset
<1>2. CASE log[n].kind = "s"
    <2>1. B = A \union {n} /\ n \notin A
        BY <1>2
    <2>2. Cardinality(A \union {n}) = Cardinality(A) + 1
        BY <1>1, <2>1, FS_AddElement
    <2> QED BY <1>2, <2>1, <2>2 DEF Streams
<1>3. CASE log[n].kind # "s"
    <2>1. B = A
        BY <1>3
    <2>2. Cardinality(A) \in Nat
        BY <1>1, FS_CardinalityType
    <2>3. Streams(m, n) = Cardinality(A) /\ Streams(m, n + 1) = Cardinality(B)
        BY DEF Streams
    <2> HIDE DEF A, B
    <2> QED BY <1>3, <2>1, <2>2, <2>3
<1> QED BY <1>2, <1>3

LEMMA StreamsNextAll ==
    \A a \in Nat, b \in Nat \ {0} : a <= b =>
       Streams(a, b + 1) = Streams(a, b) + (IF log[b].kind = "s" THEN 1 ELSE 0)
BY StreamsNext

\* The same of the next state.
LEMMA StreamsPrimed ==
    /\ (\A a \in Nat : Streams(a, a) = 0)'
    /\ (\A a \in Nat, b \in Nat \ {0} : a <= b =>
           Streams(a, b + 1) = Streams(a, b) + (IF log[b].kind = "s" THEN 1 ELSE 0))'
BY StreamsFirst, StreamsNextAll, PTL

\* A longer log leaves what was said of its records.
LEMMA RecordsKept ==
    ASSUME TypeOK, NEW k, log' = Append(log, k), life' = life
    PROVE  /\ \A n \in 1 .. Len(log) : RecordAt(n)' = RecordAt(n)
           /\ \A m \in Nat, n \in 1 .. Len(log) + 1 : Streams(m, n)' = Streams(m, n)
<1>1. Len(log) \in Nat /\ \A i \in 1 .. Len(log) : log'[i] = log[i]
    BY DEF TypeOK
<1>2. ASSUME NEW m \in Nat, NEW n \in 1 .. Len(log) + 1
      PROVE  Streams(m, n)' = Streams(m, n)
    <2>1. {i \in 1 .. n - 1 : i >= m /\ log'[i].kind = "s"} =
          {i \in 1 .. n - 1 : i >= m /\ log[i].kind = "s"}
        BY <1>1
    <2> QED BY <2>1 DEF Streams
<1>3. ASSUME NEW n \in 1 .. Len(log)
      PROVE  RecordAt(n)' = RecordAt(n)
    <2>1. log'[n] = log[n]
        BY <1>1
    <2>2. {i \in 1 .. n - 1 : i >= log'[n].since /\ log'[i].kind = "s"} =
          {i \in 1 .. n - 1 : i >= log[n].since /\ log[i].kind = "s"}
        BY <1>1, <2>1
    <2>3. StreamsBefore(n)' = StreamsBefore(n)
        BY <2>2 DEF StreamsBefore, Streams
    <2> QED BY <2>1, <2>3 DEF RecordAt
<1> QED BY <1>2, <1>3

-----------------------------------------------------------------------------
(* A life without overlap.                                                 *)

\* A step of s alone, in a life without overlap.
Alone(s) ==
    /\ s \in Sessions
    /\ \A o \in Sessions \ {s} : wpc[o] = "idle" /\ wpc'[o] = "idle"
    /\ qpc # "setup" /\ qpc' = qpc /\ life' = life
    /\ UNCHANGED <<batch, got>>

LEMMA AloneStep ==
    ASSUME TypeOK, ThreadInv, NEW s \in Sessions,
           ContextStep(s) \/ SpuriousWake(s)
    PROVE  /\ Alone(s) /\ Inside(s)
           /\ Made(s) => Len(log) \in Nat \ {0}
<1>1. Inside(s)
    BY DEF ContextStep, MakeRecord, Copy, CbWriteWait, CbWrite, CbWriteDone,
           WriteDot, CountMessage, SpuriousWake, Inside
<1>2. \A o \in Sessions \ {s} : wpc[o] = "idle"
    BY <1>1 DEF ThreadInv, Inside
<1>3. \A o \in Sessions \ {s} : wpc'[o] = wpc[o]
    BY DEF ContextStep, MakeRecord, Copy, CbWriteWait, CbWrite, CbWriteDone,
           WriteDot, CountMessage, SpuriousWake, TypeOK
<1>4. UNCHANGED <<qpc, life, batch, got>>
    BY DEF ContextStep, MakeRecord, Copy, CbWriteWait, CbWrite, CbWriteDone,
           WriteDot, CountMessage, SpuriousWake, others, initVars, qVars
<1>5. qpc # "setup"
    BY <1>1 DEF ThreadInv
<1>6. Made(s) => Len(log) \in Nat \ {0}
    BY DEF ThreadInv, TypeOK
<1> QED BY <1>1, <1>2, <1>3, <1>4, <1>5, <1>6 DEF Alone

\* What ThreadInv says after such a step is about s.
LEMMA AloneThreads ==
    ASSUME TypeOK, ThreadInv, NEW s \in Sessions, Alone(s),
           /\ lock' = s <=> wpc'[s] = "commit"
           /\ lock' \in {0, s}
           /\ Inside(s)' => rec'[s].kind \in {"s", "a"}
           /\ Made(s)' => Len(log') > 0 /\ rec'[s] = RecordAt(Len(log))'
           /\ wpc'[s] \in {"write", "wait", "commit"} => msgbuff' = rec'[s]
           /\ wpc'[s] = "commit" => put'[s] = rec'[s]
           /\ wpc'[s] = "count" => rec'[s].kind = "s"
    PROVE  ThreadInv'
<1>1. \A o \in Sessions \ {s} : wpc'[o] = "idle" /\ lock' # o
    BY DEF Alone, Sessions
<1>2. qpc' # "setup"
    BY DEF Alone
<1> QED BY <1>1, <1>2 DEF ThreadInv, Inside, Made

LEMMA AloneLock ==
    ASSUME TypeOK, ThreadInv, NEW s \in Sessions, Alone(s)
    PROVE  lock \in {0, s} /\ (wpc[s] # "commit" => lock = 0) /\ s # 0
<1>1. lock \in 0 .. MaxInits /\ Sessions = 1 .. MaxInits /\ MaxInits \in Nat
    BY DEF TypeOK, Sessions
<1>2. lock \in Sessions => lock = s /\ wpc[s] = "commit"
    BY DEF Alone, ThreadInv
<1> QED BY <1>1, <1>2

LEMMA AloneWriting ==
    ASSUME NEW s \in Sessions, Alone(s)
    PROVE  /\ (\E o \in Sessions : Unwritten(o)) <=> Unwritten(s)
           /\ (\E o \in Sessions : Unwritten(o))' <=> Unwritten(s)'
           /\ (\E o \in Sessions : Uncounted(o)) <=> Uncounted(s)
           /\ (\E o \in Sessions : Uncounted(o))' <=> Uncounted(s)'
BY DEF Alone, Unwritten, Uncounted, Made

LEMMA MakeClean ==
    ASSUME IInv, TypeOK', ~overlap, NEW s \in Sessions, MakeRecord(s)
    PROVE  ThreadInv' /\ FeedInv' /\ CountInv'
<1>0. TypeOK /\ ThreadInv /\ FeedInv /\ CountInv /\ ContextStep(s)
    BY DEF IInv, CleanInv, ContextStep
<1>1. Alone(s)
    BY <1>0, AloneStep
<1>2. /\ Len(log') = Len(log) + 1 /\ Len(log) \in Nat
      /\ log'[Len(log')] = [kind |-> rec[s].kind, since |-> since]
      /\ log' = Append(log, [kind |-> rec[s].kind, since |-> since])
    <2>1. /\ log \in Seq([kind: {"s", "a"}, since: Nat])
          /\ log' = Append(log, [kind |-> rec[s].kind, since |-> since])
        BY <1>0 DEF MakeRecord, TypeOK
    <2> QED BY <2>1
<1>k. PICK k \in Nat \ {0} : k = Len(log) + 1 /\ k = Len(log')
    BY <1>2
<1>m. PICK m \in Nat : m = since /\ m = since' /\ 1 <= m /\ m <= k
    BY <1>0, <1>2, <1>k DEF CountInv, MakeRecord, others, initVars, TypeOK
<1>3. /\ \A n \in 1 .. Len(log) : RecordAt(n)' = RecordAt(n)
      /\ \A i \in Nat, n \in 1 .. Len(log) + 1 : Streams(i, n)' = Streams(i, n)
    BY <1>0, <1>1, <1>2, RecordsKept DEF Alone
<1>4. ~Made(s) /\ ~Unwritten(s) /\ ~Uncounted(s) /\ Made(s)' /\ Unwritten(s)'
    BY <1>0 DEF MakeRecord, TypeOK, Made, Unwritten, Uncounted
<1>5. Streams(m, k)' = msg_recv /\ msg_recv' = msg_recv
    <2>1. msg_recv = Streams(since, Len(log) + 1) /\ msg_recv' = msg_recv
        BY <1>0, <1>1, <1>4, AloneWriting DEF CountInv, Alone, MakeRecord
    <2>2. Streams(m, k)' = Streams(m, k)
        BY <1>k, <1>3
    <2> QED BY <1>k, <1>m, <2>1, <2>2
<1>6. rec[s].kind \in {"s", "a"}
    BY <1>0 DEF ThreadInv, MakeRecord, Inside
<1>7. rec'[s] = RecordAt(Len(log))'
    <2>1. rec'[s] = [life |-> life, n |-> Len(log'), kind |-> log'[Len(log')].kind,
                     seqn |-> msg_recv]
        <3>1. rec'[s] = [life |-> life, n |-> Len(log) + 1, kind |-> rec[s].kind,
                         seqn |-> msg_recv]
            BY <1>0 DEF MakeRecord, TypeOK
        <3>2. log'[Len(log')].kind = rec[s].kind
            BY <1>2
        <3> QED BY <1>2, <3>1, <3>2
    <2>2. StreamsBefore(Len(log))' = Streams(m, k)'
        <3>1. log'[Len(log')].since = m
            BY <1>2, <1>m
        <3> QED BY <1>k, <3>1 DEF StreamsBefore, Streams
    <2> QED BY <1>1, <1>5, <2>1, <2>2 DEF RecordAt, Alone
<1>8. ThreadInv'
    <2>1. wpc'[s] = "copy" /\ lock' = lock /\ lock \in 0 .. MaxInits
        BY <1>0 DEF MakeRecord, TypeOK
    <2>2. lock' = 0
        <3>1. wpc[s] # "commit"
            BY DEF MakeRecord
        <3> QED BY <1>0, <1>1, <2>1, <3>1, AloneLock
    <2>3. rec'[s].kind \in {"s", "a"}
        BY <1>0, <1>6 DEF MakeRecord, TypeOK
    <2> QED BY <1>0, <1>1, <1>2, <1>7, <2>1, <2>2, <2>3, AloneThreads DEF Sessions
<1>9. FeedInv'
    <2>1. UNCHANGED <<qpc, got, batch, ring>>
        BY DEF MakeRecord, others, qVars
    <2>2. Len(got) + Len(batch) + Len(ring) = Len(log)
        BY <1>0, <1>1, <1>4, AloneWriting DEF FeedInv
    <2>3. Len(got) \in Nat /\ Len(batch) \in Nat /\ Len(ring) \in Nat
          /\ DOMAIN batch = 1 .. Len(batch) /\ DOMAIN ring = 1 .. Len(ring)
        BY <1>0, SeqTypes
    <2>4. \A i \in DOMAIN batch : RecordAt(Len(got) + i)' = RecordAt(Len(got) + i)
        BY <1>3, <2>1, <2>2, <2>3
    <2>5. \A i \in DOMAIN ring : RecordAt(Len(got) + Len(batch) + i)' =
                                 RecordAt(Len(got) + Len(batch) + i)
        BY <1>3, <2>1, <2>2, <2>3
    <2>6. (\E o \in Sessions : Unwritten(o))'
        BY <1>4
    <2>7. (\A i \in DOMAIN batch : batch[i] = RecordAt(Len(got) + i))'
        BY <1>0, <2>1, <2>4 DEF FeedInv
    <2>8. (\A i \in DOMAIN ring : ring[i] = RecordAt(Len(got) + Len(batch) + i))'
        BY <1>0, <2>1, <2>5 DEF FeedInv
    <2> QED BY <1>0, <1>2, <2>1, <2>2, <2>6, <2>7, <2>8 DEF FeedInv
<1>10. CountInv'
    <2>1. Uncounted(s)' <=> rec[s].kind = "s"
        BY <1>0, <1>4 DEF Uncounted, MakeRecord, TypeOK
    <2>2. Streams(since, Len(log))' = msg_recv'
        BY <1>k, <1>m, <1>5 DEF Streams
    <2>3. CASE rec[s].kind = "s"
        <3>1. (\E o \in Sessions : Uncounted(o))' /\ qpc' # "setup"
            BY <1>1, <2>1, <2>3 DEF Alone
        <3> QED BY <1>k, <1>m, <2>2, <3>1 DEF CountInv
    <2>4. CASE rec[s].kind # "s"
        <3>1. Streams(m, k + 1)' = Streams(m, k)'
            <4>1. log'[k].kind # "s"
                BY <1>2, <1>k, <2>4
            <4>2. Streams(m, k)' \in Nat
                BY <1>0, <1>5 DEF TypeOK
            <4>3. Streams(m, k + 1)' = Streams(m, k)' + 0
                BY <1>m, <4>1, StreamsPrimed
            <4> QED BY <4>2, <4>3
        <3>2. Streams(since, Len(log) + 1)' = Streams(m, k + 1)'
            BY <1>k, <1>m DEF Streams
        <3>3. ~(\E o \in Sessions : Uncounted(o))' /\ qpc' # "setup"
            BY <1>1, <2>1, <2>4, AloneWriting DEF Alone
        <3>4. since' \in 1 .. Len(log') + 1
            BY <1>k, <1>m
        <3> QED BY <1>5, <3>1, <3>2, <3>3, <3>4 DEF CountInv
    <2> QED BY <2>3, <2>4
<1> QED BY <1>8, <1>9, <1>10

\* A step that makes no record leaves what was said of them.
LEMMA RecordsSame ==
    ASSUME log' = log, life' = life
    PROVE  /\ \A n : RecordAt(n)' = RecordAt(n)
           /\ RecordAt(Len(log))' = RecordAt(Len(log))
BY DEF RecordAt, StreamsBefore, Streams

LEMMA FeedSame ==
    ASSUME FeedInv, UNCHANGED <<log, life, got, batch, ring>>,
           qpc' # "parse" => batch = <<>>,
           (\E o \in Sessions : Unwritten(o))' <=> \E o \in Sessions : Unwritten(o)
    PROVE  FeedInv'
<1>1. \A n : RecordAt(n)' = RecordAt(n)
    BY RecordsSame
<1>2. (\A i \in DOMAIN batch : batch[i] = RecordAt(Len(got) + i))'
    BY <1>1 DEF FeedInv
<1>3. (\A i \in DOMAIN ring : ring[i] = RecordAt(Len(got) + Len(batch) + i))'
    BY <1>1 DEF FeedInv
<1> QED BY <1>2, <1>3 DEF FeedInv

LEMMA CountSame ==
    ASSUME CountInv, UNCHANGED <<log, life, msg_recv, since>>,
           qpc # "setup", qpc' # "setup",
           (\E o \in Sessions : Uncounted(o))' <=> \E o \in Sessions : Uncounted(o)
    PROVE  CountInv'
<1>1. /\ Streams(since, Len(log))' = Streams(since, Len(log))
      /\ Streams(since, Len(log) + 1)' = Streams(since, Len(log) + 1)
    BY DEF Streams
<1>2. CASE \E o \in Sessions : Uncounted(o)
    BY <1>1, <1>2 DEF CountInv
<1>3. CASE ~\E o \in Sessions : Uncounted(o)
    BY <1>1, <1>3 DEF CountInv
<1> QED BY <1>2, <1>3

\* A thread between make_msg_dict and the end of cb_write.
LEMMA CopyWriteClean ==
    ASSUME IInv, TypeOK', ~overlap, NEW s \in Sessions,
           Copy(s) \/ CbWriteWait(s) \/ SpuriousWake(s) \/ CbWrite(s)
    PROVE  ThreadInv' /\ FeedInv' /\ CountInv'
<1>0. /\ TypeOK /\ LinkInv /\ ThreadInv /\ FeedInv /\ CountInv
      /\ ContextStep(s) \/ SpuriousWake(s)
    BY DEF IInv, CleanInv, ContextStep
<1>1. Alone(s) /\ Inside(s)
    BY <1>0, AloneStep
<1>2. UNCHANGED <<rec, log, ring, msg_recv, since>>
    BY DEF Copy, CbWriteWait, SpuriousWake, CbWrite, others, initVars
<1>3. Made(s) /\ Made(s)' /\ Unwritten(s) /\ Unwritten(s)'
    BY <1>0 DEF Copy, CbWriteWait, SpuriousWake, CbWrite, Made, Unwritten, TypeOK
<1>4. Uncounted(s)' <=> Uncounted(s)
    BY <1>2, <1>3 DEF Uncounted
<1>5. FeedInv'
    BY <1>0, <1>1, <1>2, <1>3, AloneWriting, FeedSame DEF Alone, FeedInv
<1>6. CountInv'
    BY <1>0, <1>1, <1>2, <1>4, AloneWriting, CountSame DEF Alone
<1>7. ThreadInv'
    <2>1. lock \in {0, s} /\ s # 0
        BY <1>0, <1>1, AloneLock
    <2>2. rec'[s].kind \in {"s", "a"} /\ Len(log') > 0
          /\ rec'[s] = RecordAt(Len(log))
        BY <1>0, <1>1, <1>2, <1>3 DEF ThreadInv
    <2>3. RecordAt(Len(log))' = RecordAt(Len(log))
        BY <1>1, <1>2, RecordsSame DEF Alone
    <2>4. /\ lock' = s <=> wpc'[s] = "commit"
          /\ lock' \in {0, s}
          /\ wpc'[s] \in {"write", "wait", "commit"} => msgbuff' = rec'[s]
          /\ wpc'[s] = "commit" => put'[s] = rec'[s]
          /\ wpc'[s] # "count"
        <3>1. CASE Copy(s)
            BY <1>0, <1>1, <2>1, <3>1
            DEF Copy, others, ThreadInv, TypeOK, Alone, Sessions
        <3>2. CASE CbWriteWait(s)
            BY <1>0, <2>1, <3>2 DEF CbWriteWait, ThreadInv, TypeOK, Sessions
        <3>3. CASE SpuriousWake(s)
            BY <1>0, <2>1, <3>3 DEF SpuriousWake, ThreadInv, TypeOK, Sessions
        <3>4. CASE CbWrite(s)
            BY <1>0, <2>1, <3>4 DEF CbWrite, ThreadInv, TypeOK, Sessions
        <3> QED BY <3>1, <3>2, <3>3, <3>4
    <2> QED BY <1>0, <1>1, <1>2, <2>2, <2>3, <2>4, AloneThreads
<1> QED BY <1>5, <1>6, <1>7

LEMMA WriteDoneClean ==
    ASSUME IInv, TypeOK', ~overlap, NEW s \in Sessions, CbWriteDone(s)
    PROVE  ThreadInv' /\ FeedInv' /\ CountInv'
<1>0. TypeOK /\ ThreadInv /\ FeedInv /\ CountInv /\ ContextStep(s)
    BY DEF IInv, CleanInv, ContextStep
<1>1. Alone(s)
    BY <1>0, AloneStep
<1>2. UNCHANGED <<rec, log, life, got, batch, qpc, msg_recv, since>>
    BY DEF CbWriteDone, others, initVars, qVars
<1>3. Made(s) /\ Made(s)' /\ Unwritten(s) /\ ~Unwritten(s)' /\ Inside(s)
    BY <1>0 DEF CbWriteDone, Made, Unwritten, Inside, TypeOK
<1>4. Uncounted(s)' <=> Uncounted(s)
    BY <1>2, <1>3 DEF Uncounted
<1>5. ring' = Append(ring, rec[s]) /\ rec[s] = RecordAt(Len(log)) /\ Len(log) > 0
    BY <1>0, <1>3 DEF CbWriteDone, ThreadInv
<1>6. \A n : RecordAt(n)' = RecordAt(n)
    BY <1>2, RecordsSame
<1>7. FeedInv'
    <2>1. Len(got) \in Nat /\ Len(batch) \in Nat /\ Len(ring) \in Nat /\ Len(log) \in Nat
        BY <1>0, SeqTypes
    <2>2. Len(got) + Len(batch) + Len(ring) = Len(log) - 1
        BY <1>0, <1>3 DEF FeedInv
    <2>3. /\ Len(ring') = Len(ring) + 1 /\ DOMAIN ring' = 1 .. Len(ring) + 1
          /\ \A i \in 1 .. Len(ring) : ring'[i] = ring[i]
          /\ ring'[Len(ring) + 1] = rec[s] /\ DOMAIN ring = 1 .. Len(ring)
        <3>1. ring \in Seq(Record) /\ rec[s] \in Record
            BY <1>0 DEF TypeOK
        <3> QED BY <1>5, <3>1
    <2>4. Len(got) + Len(batch) + (Len(ring) + 1) = Len(log)
        BY <2>1, <2>2
    <2>5. \A i \in DOMAIN ring' : ring'[i] = RecordAt(Len(got) + Len(batch) + i)
        <3>1. ring'[Len(ring) + 1] = RecordAt(Len(got) + Len(batch) + (Len(ring) + 1))
            BY <1>5, <2>3, <2>4
        <3>2. \A i \in 1 .. Len(ring) : ring'[i] = RecordAt(Len(got) + Len(batch) + i)
            BY <1>0, <2>3 DEF FeedInv
        <3>3. \A i \in 1 .. Len(ring) + 1 : i \in 1 .. Len(ring) \/ i = Len(ring) + 1
            BY <2>1
        <3> QED BY <2>3, <3>1, <3>2, <3>3
    <2>6. (\A i \in DOMAIN ring : ring[i] = RecordAt(Len(got) + Len(batch) + i))'
        BY <1>2, <1>6, <2>5
    <2>7. (\A i \in DOMAIN batch : batch[i] = RecordAt(Len(got) + i))'
        BY <1>0, <1>2, <1>6 DEF FeedInv
    <2>8. ~(\E o \in Sessions : Unwritten(o))'
        BY <1>1, <1>3, AloneWriting
    <2> QED BY <1>0, <1>2, <2>3, <2>4, <2>6, <2>7, <2>8 DEF FeedInv
<1>8. CountInv'
    BY <1>0, <1>1, <1>2, <1>4, AloneWriting, CountSame DEF Alone
<1>9. ThreadInv'
    <2>1. lock' = 0 /\ wpc'[s] = "dot" /\ s # 0
        BY <1>0 DEF CbWriteDone, TypeOK, Sessions
    <2>2. rec'[s].kind \in {"s", "a"} /\ Len(log') > 0
        BY <1>0, <1>2, <1>3 DEF ThreadInv
    <2>3. rec'[s] = RecordAt(Len(log))'
        BY <1>2, <1>5, RecordsSame
    <2> QED BY <1>0, <1>1, <2>1, <2>2, <2>3, AloneThreads
<1> QED BY <1>7, <1>8, <1>9

\* The '.', after which a thread with an assertion or an event is through.
LEMMA DotClean ==
    ASSUME IInv, TypeOK', ~overlap, NEW s \in Sessions, WriteDot(s)
    PROVE  ThreadInv' /\ FeedInv' /\ CountInv'
<1>0. TypeOK /\ ThreadInv /\ FeedInv /\ CountInv /\ ContextStep(s)
    BY DEF IInv, CleanInv, ContextStep
<1>1. Alone(s)
    BY <1>0, AloneStep
<1>2. UNCHANGED <<log, life, got, batch, ring, qpc, msg_recv, lock, since>>
    BY DEF WriteDot, others, initVars, qVars
<1>3. Made(s) /\ ~Unwritten(s) /\ ~Unwritten(s)' /\ Inside(s)
    BY <1>0 DEF WriteDot, Made, Unwritten, Inside, TypeOK
<1>4. Uncounted(s)' <=> Uncounted(s)
    BY <1>0, <1>3 DEF Uncounted, Made, WriteDot, TypeOK
<1>5. FeedInv'
    BY <1>0, <1>1, <1>2, <1>3, AloneWriting, FeedSame DEF Alone, FeedInv
<1>6. CountInv'
    BY <1>0, <1>1, <1>2, <1>4, AloneWriting, CountSame DEF Alone
<1>7. ThreadInv'
    <2>1. lock' = 0 /\ s # 0
        BY <1>0, <1>1, <1>2, AloneLock DEF WriteDot
    <2>2. /\ wpc'[s] \in {"idle", "count"}
          /\ wpc'[s] = "count" => rec' = rec /\ rec[s].kind = "s"
        BY <1>0 DEF WriteDot, TypeOK
    <2>3. rec[s].kind \in {"s", "a"} /\ Len(log) > 0 /\ rec[s] = RecordAt(Len(log))
        BY <1>0, <1>3 DEF ThreadInv
    <2>4. RecordAt(Len(log))' = RecordAt(Len(log))
        BY <1>2, RecordsSame
    <2> QED
        BY <1>0, <1>1, <1>2, <2>1, <2>2, <2>3, <2>4, AloneThreads DEF Made, Inside
<1> QED BY <1>5, <1>6, <1>7

LEMMA CountClean ==
    ASSUME IInv, TypeOK', ~overlap, NEW s \in Sessions, CountMessage(s)
    PROVE  ThreadInv' /\ FeedInv' /\ CountInv'
<1>0. TypeOK /\ ThreadInv /\ FeedInv /\ CountInv /\ ContextStep(s)
    BY DEF IInv, CleanInv, ContextStep
<1>1. Alone(s)
    BY <1>0, AloneStep
<1>2. UNCHANGED <<log, life, got, batch, ring, qpc, lock, since>>
    BY DEF CountMessage, others, initVars, qVars
<1>3. Made(s) /\ ~Unwritten(s) /\ ~Unwritten(s)' /\ ~Uncounted(s)' /\ Inside(s)
    BY <1>0 DEF CountMessage, Made, Unwritten, Uncounted, Inside, TypeOK
<1>4. FeedInv'
    BY <1>0, <1>1, <1>2, <1>3, AloneWriting, FeedSame DEF Alone, FeedInv
<1>5. CountInv'
    <2>1. rec[s].kind = "s" /\ Made(s) /\ qpc # "setup"
        BY <1>0, <1>1, <1>3 DEF ThreadInv, CountMessage, Alone
    <2>2. \E o \in Sessions : Uncounted(o)
        BY <2>1 DEF Uncounted
    <2>3. PICK k \in Nat \ {0} : k = Len(log)
        BY <1>0, <2>1 DEF ThreadInv, TypeOK
    <2>m. PICK m \in Nat : m = since /\ 1 <= m /\ m <= k
        BY <1>0, <2>2, <2>3 DEF CountInv, TypeOK
    <2>4. msg_recv = Streams(m, k) /\ msg_recv' = msg_recv + 1
        BY <1>0, <2>1, <2>2, <2>3, <2>m DEF CountInv, CountMessage
    <2>5. log[k].kind = "s"
        BY <1>0, <2>1, <2>3 DEF ThreadInv, RecordAt
    <2>6. Streams(m, k + 1) = Streams(m, k) + 1
        BY <2>5, <2>m, StreamsNextAll
    <2>7. Streams(since, Len(log) + 1)' = Streams(m, k + 1)
        BY <1>2, <2>3, <2>m DEF Streams
    <2>8. ~(\E o \in Sessions : Uncounted(o))' /\ qpc' # "setup"
        BY <1>1, <1>2, <1>3, <2>1, AloneWriting
    <2>9. since' \in 1 .. Len(log') + 1
        BY <1>2, <2>3, <2>m
    <2> QED BY <2>4, <2>6, <2>7, <2>8, <2>9 DEF CountInv
<1>6. ThreadInv'
    <2>1. lock' = 0 /\ s # 0 /\ wpc'[s] = "idle"
        BY <1>0, <1>1, <1>2, AloneLock DEF CountMessage, TypeOK
    <2> QED BY <1>0, <1>1, <2>1, AloneThreads DEF Made, Inside
<1> QED BY <1>4, <1>5, <1>6

\* A step that leaves threads and records alone.
LEMMA QuietClean ==
    ASSUME ThreadInv, FeedInv, CountInv,
           UNCHANGED <<wpc, rec, put, msgbuff, log, life, ring, lock, batch, got,
                       msg_recv, since>>,
           qpc' = qpc \/ (qpc # "setup" /\ qpc' # "setup"),
           qpc' # "parse" => batch = <<>>
    PROVE  ThreadInv' /\ FeedInv' /\ CountInv'
<1>1. \A o \in Sessions : /\ Inside(o)' <=> Inside(o)
                          /\ Made(o)' <=> Made(o)
                          /\ Unwritten(o)' <=> Unwritten(o)
                          /\ Uncounted(o)' <=> Uncounted(o)
    BY DEF Inside, Made, Unwritten, Uncounted
<1>2. FeedInv'
    BY <1>1, FeedSame
<1>3. CountInv'
    <2>1. CASE qpc # "setup" /\ qpc' # "setup"
        BY <1>1, <2>1, CountSame
    <2>2. CASE qpc = "setup" /\ qpc' = "setup"
        BY <1>1, <2>2 DEF CountInv
    <2> QED BY <2>1, <2>2
<1>4. ThreadInv'
    <2>1. RecordAt(Len(log))' = RecordAt(Len(log))
        BY RecordsSame
    <2> QED BY <1>1, <2>1 DEF ThreadInv
<1> QED BY <1>2, <1>3, <1>4

LEMMA EnterClean ==
    ASSUME IInv, TypeOK', ~overlap', NEW s \in Sessions, NEW kind \in {"s", "a"},
           Enter(s, kind)
    PROVE  ThreadInv' /\ FeedInv' /\ CountInv'
<1>0. /\ TypeOK /\ ThreadInv /\ FeedInv /\ CountInv
      /\ ~OthersIn(s) /\ qpc # "setup"
    BY DEF IInv, CleanInv, Enter
<1>1. Alone(s) /\ wpc[s] = "idle" /\ wpc'[s] = "make"
    BY <1>0 DEF Alone, Enter, OthersIn, Inside, TypeOK, initVars, qVars
<1>2. UNCHANGED <<log, life, got, batch, ring, qpc, msg_recv, lock, since>>
    BY DEF Enter, initVars, qVars
<1>3. ~Unwritten(s) /\ ~Unwritten(s)' /\ ~Uncounted(s) /\ ~Uncounted(s)'
    BY <1>1 DEF Made, Unwritten, Uncounted
<1>4. FeedInv'
    BY <1>0, <1>1, <1>2, <1>3, AloneWriting, FeedSame DEF FeedInv
<1>5. CountInv'
    BY <1>0, <1>1, <1>2, <1>3, AloneWriting, CountSame
<1>6. ThreadInv'
    <2>1. lock' = 0 /\ s # 0
        BY <1>0, <1>1, <1>2, AloneLock
    <2>2. rec'[s].kind = kind
        BY <1>0 DEF Enter, TypeOK, Torn
    <2> QED BY <1>0, <1>1, <2>1, <2>2, AloneThreads DEF Made
<1> QED BY <1>4, <1>5, <1>6

LEMMA ReadClean ==
    ASSUME IInv, TypeOK', ~overlap, CbRead
    PROVE  ThreadInv' /\ FeedInv' /\ CountInv'
<1>0. TypeOK /\ LinkInv /\ ReadInv /\ ThreadInv /\ FeedInv /\ CountInv
    BY DEF IInv, CleanInv
<1>1. /\ UNCHANGED <<log, life, got, msg_recv, since, lock, rec, put, msgbuff>>
      /\ qpc = "read" /\ qpc' = "parse"
    BY DEF CbRead, apiVars, initVars
<1>2. \A o \in Sessions : wpc'[o] = wpc[o] \/ (wpc[o] = "wait" /\ wpc'[o] = "write")
    <2>1. ASSUME NEW s \in waiting, wpc' = [wpc EXCEPT ![s] = "write"]
          PROVE  \A o \in Sessions :
                    wpc'[o] = wpc[o] \/ (wpc[o] = "wait" /\ wpc'[o] = "write")
        BY <1>0, <2>1 DEF LinkInv, TypeOK
    <2> QED BY <2>1 DEF CbRead
<1>3. \A o \in Sessions : /\ Inside(o)' <=> Inside(o)
                          /\ Made(o)' <=> Made(o)
                          /\ Unwritten(o)' <=> Unwritten(o)
                          /\ Uncounted(o)' <=> Uncounted(o)
    BY <1>1, <1>2 DEF Inside, Made, Unwritten, Uncounted
<1>4. CountInv'
    BY <1>0, <1>1, <1>3, CountSame
<1>5. ThreadInv'
    <2>1. RecordAt(Len(log))' = RecordAt(Len(log))
        BY <1>1, RecordsSame
    <2>2. \A o \in Sessions : /\ wpc'[o] = "commit" <=> wpc[o] = "commit"
                              /\ wpc'[o] = "count" => wpc[o] = "count"
                              /\ wpc'[o] \in {"write", "wait", "commit"} =>
                                    wpc[o] \in {"write", "wait", "commit"}
        BY <1>2
    <2> QED BY <1>0, <1>1, <1>3, <2>1, <2>2 DEF ThreadInv
<1>6. FeedInv'
    <2>1. /\ batch = <<>> /\ Len(got) \in Nat /\ Len(ring) \in Nat
          /\ ring \in Seq(Record) /\ qsize \in Nat /\ qsize <= Len(ring)
          /\ DOMAIN ring = 1 .. Len(ring)
        BY <1>0, <1>1 DEF FeedInv, TypeOK, ReadInv
    <2>2. /\ batch' = SubSeq(ring, 1, qsize)
          /\ ring' = SubSeq(ring, qsize + 1, Len(ring))
        BY DEF CbRead
    <2>3. /\ Len(batch') = qsize /\ \A i \in 1 .. qsize : batch'[i] = ring[i]
          /\ Len(ring') = Len(ring) - qsize
          /\ \A i \in 1 .. Len(ring) - qsize : ring'[i] = ring[qsize + i]
          /\ DOMAIN batch' = 1 .. qsize /\ DOMAIN ring' = 1 .. Len(ring) - qsize
        <3>0. ring \in Seq(Record) /\ qsize \in Nat /\ qsize <= Len(ring)
            BY <1>0, <2>1, SeqTypes
        <3> DEFINE front == SubSeq(ring, 1, qsize)
                   rest  == SubSeq(ring, qsize + 1, Len(ring))
        <3>a. /\ front \in Seq(Record) /\ Len(front) = qsize
              /\ \A i \in 1 .. qsize : front[i] = ring[i]
              /\ rest \in Seq(Record) /\ Len(rest) = Len(ring) - qsize
              /\ \A i \in 1 .. Len(ring) - qsize : rest[i] = ring[qsize + i]
            BY <3>0, Cut
        <3>b. batch' = front /\ ring' = rest
            BY <2>2
        <3> HIDE DEF front, rest
        <3>1. batch' \in Seq(Record) /\ ring' \in Seq(Record)
            BY <3>a, <3>b
        <3>2. /\ Len(batch') = qsize /\ \A i \in 1 .. qsize : batch'[i] = ring[i]
              /\ Len(ring') = Len(ring) - qsize
              /\ \A i \in 1 .. Len(ring) - qsize : ring'[i] = ring[qsize + i]
            BY <3>a, <3>b
        <3> QED BY <3>1, <3>2
    <2>4. \A i \in 1 .. Len(ring) : ring[i] = RecordAt(Len(got) + i)
        BY <1>0, <2>1 DEF FeedInv
    <2>5. \A n : RecordAt(n)' = RecordAt(n)
        BY <1>1, RecordsSame
    <2>6. \A i \in DOMAIN batch' : batch'[i] = RecordAt(Len(got) + i)
        BY <2>1, <2>3, <2>4
    <2>7. (\A i \in DOMAIN batch : batch[i] = RecordAt(Len(got) + i))'
        BY <1>1, <2>5, <2>6
    <2>8. \A i \in DOMAIN ring' : ring'[i] = RecordAt(Len(got) + Len(batch') + i)
        <3> SUFFICES ASSUME NEW i \in 1 .. Len(ring) - qsize
                     PROVE  ring'[i] = RecordAt(Len(got) + qsize + i)
            BY <2>3
        <3>1. ring'[i] = RecordAt(Len(got) + (qsize + i))
            BY <2>1, <2>3, <2>4
        <3>2. Len(got) + (qsize + i) = Len(got) + qsize + i
            BY <2>1
        <3> QED BY <3>1, <3>2
    <2>9. (\A i \in DOMAIN ring : ring[i] = RecordAt(Len(got) + Len(batch) + i))'
        BY <1>1, <2>5, <2>8
    <2>10. Len(got) + Len(batch') + Len(ring') = Len(got) + Len(batch) + Len(ring)
        BY <2>1, <2>3
    <2> QED BY <1>0, <1>1, <1>3, <2>7, <2>9, <2>10 DEF FeedInv
<1> QED BY <1>4, <1>5, <1>6

\* The record callback finds next.
LEMMA HeadIsNext ==
    ASSUME TypeOK, FeedInv, batch # <<>>
    PROVE  /\ Head(batch) = RecordAt(Len(got) + 1) /\ Head(batch) # Torn
           /\ Head(batch).life = life /\ Head(batch).n = Len(got) + 1
           /\ Len(got) \in Nat /\ Len(got) + 1 <= Len(log)
<1>1. batch[1] = RecordAt(Len(got) + 1) /\ Head(batch) = batch[1]
    BY DEF FeedInv, TypeOK
<1>2. /\ Len(got) \in Nat /\ Len(batch) \in Nat \ {0} /\ Len(ring) \in Nat
      /\ Len(log) \in Nat
    BY DEF TypeOK
<1>3. Len(got) + 1 <= Len(log)
    BY <1>2 DEF FeedInv
<1>4. Head(batch).n # Torn.n
    BY <1>1, <1>2 DEF RecordAt, Torn
<1> QED BY <1>1, <1>2, <1>3, <1>4 DEF RecordAt

LEMMA ParseClean ==
    ASSUME IInv, TypeOK', ~overlap, ParseFrame
    PROVE  ThreadInv' /\ FeedInv' /\ CountInv'
<1>0. TypeOK /\ ThreadInv /\ FeedInv /\ CountInv
    BY DEF IInv, CleanInv
<1>1. /\ UNCHANGED <<log, life, ring, wpc, rec, put, msgbuff, lock, msg_recv, since, qpc>>
      /\ qpc = "parse" /\ batch # <<>> /\ batch' = Tail(batch)
      /\ got' = Append(got, Len(got) + 1)
    BY <1>0, HeadIsNext DEF ParseFrame, apiVars, initVars, cVars
<1>2. \A o \in Sessions : /\ Inside(o)' <=> Inside(o)
                          /\ Made(o)' <=> Made(o)
                          /\ Unwritten(o)' <=> Unwritten(o)
                          /\ Uncounted(o)' <=> Uncounted(o)
    BY <1>1 DEF Inside, Made, Unwritten, Uncounted
<1>3. CountInv'
    BY <1>0, <1>1, <1>2, CountSame
<1>4. ThreadInv'
    <2>1. RecordAt(Len(log))' = RecordAt(Len(log))
        BY <1>1, RecordsSame
    <2> QED BY <1>0, <1>1, <1>2, <2>1 DEF ThreadInv
<1>5. FeedInv'
    <2>1. /\ Len(got) \in Nat /\ Len(ring) \in Nat /\ Len(batch) \in Nat \ {0}
          /\ DOMAIN batch = 1 .. Len(batch) /\ DOMAIN ring = 1 .. Len(ring)
        BY <1>0, <1>1 DEF TypeOK
    <2>2. /\ Len(batch') = Len(batch) - 1
          /\ \A i \in 1 .. Len(batch) - 1 : batch'[i] = batch[i + 1]
          /\ DOMAIN batch' = 1 .. Len(batch) - 1
        BY <1>0, <1>1 DEF TypeOK
    <2>3. /\ Len(got') = Len(got) + 1
          /\ \A i \in DOMAIN got' : got'[i] = i
        <3>1. /\ got \in Seq(Nat) /\ DOMAIN got = 1 .. Len(got)
              /\ \A i \in DOMAIN got : got[i] = i
            <4>1. got \in Seq(Nat)
                BY <1>0 DEF TypeOK
            <4> QED BY <1>0, <4>1 DEF FeedInv
        <3>2. /\ Len(got') = Len(got) + 1 /\ DOMAIN got' = 1 .. Len(got) + 1
              /\ got'[Len(got) + 1] = Len(got) + 1
              /\ \A i \in 1 .. Len(got) : got'[i] = got[i]
            BY <1>1, <2>1, <3>1
        <3>3. \A i \in 1 .. Len(got) + 1 : i \in 1 .. Len(got) \/ i = Len(got) + 1
            BY <2>1
        <3> QED BY <3>1, <3>2, <3>3
    <2>4. \A n : RecordAt(n)' = RecordAt(n)
        BY <1>1, RecordsSame
    <2>5. \A i \in DOMAIN batch' : batch'[i] = RecordAt(Len(got') + i)
        <3> SUFFICES ASSUME NEW i \in 1 .. Len(batch) - 1
                     PROVE  batch'[i] = RecordAt(Len(got) + 1 + i)
            BY <2>2, <2>3
        <3>1. batch'[i] = RecordAt(Len(got) + (i + 1))
            <4>1. \A j \in DOMAIN batch : batch[j] = RecordAt(Len(got) + j)
                BY <1>0 DEF FeedInv
            <4>2. batch'[i] = batch[i + 1]
                BY <2>2
            <4>3. i + 1 \in DOMAIN batch
                BY <2>1
            <4> QED BY <4>1, <4>2, <4>3
        <3>2. Len(got) + (i + 1) = Len(got) + 1 + i
            BY <2>1
        <3> QED BY <3>1, <3>2
    <2>6. (\A i \in DOMAIN batch : batch[i] = RecordAt(Len(got) + i))'
        BY <2>4, <2>5
    <2>7. Len(got') + Len(batch') = Len(got) + Len(batch)
        BY <2>1, <2>2, <2>3
    <2>8. (\A i \in DOMAIN ring : ring[i] = RecordAt(Len(got) + Len(batch) + i))'
        BY <1>0, <1>1, <2>4, <2>7 DEF FeedInv
    <2> QED BY <1>0, <1>1, <1>2, <2>3, <2>6, <2>7, <2>8 DEF FeedInv
<1> QED BY <1>3, <1>4, <1>5

LEMMA CbInitClean ==
    ASSUME IInv, TypeOK', ~overlap', CbInit
    PROVE  ThreadInv' /\ FeedInv' /\ CountInv'
<1>0. /\ TypeOK /\ FeedInv /\ CountInv /\ qpc = "setup" /\ qpc' = "pair"
      /\ \A o \in Sessions : wpc[o] = "idle" /\ wpc'[o] = "idle"
    BY DEF IInv, CleanInv, CbInit, Reborn, Inside
<1>1. /\ log' = <<>> /\ got' = <<>> /\ ring' = <<>> /\ batch' = <<>>
      /\ lock' = 0 /\ msg_recv' = 0 /\ since' = 1
    BY <1>0 DEF CbInit, Reborn, FeedInv, CountInv
<1>2. ThreadInv'
    BY <1>0, <1>1 DEF ThreadInv, Inside, Made, Sessions
<1>3. FeedInv'
    BY <1>0, <1>1 DEF FeedInv, Unwritten
<1>4. CountInv'
    <2>1. (Streams(1, 1) = 0)'
        BY StreamsPrimed
    <2>2. Streams(since, Len(log) + 1)' = Streams(1, 1)'
        BY <1>1 DEF Streams
    <2>3. ~(\E o \in Sessions : Uncounted(o))'
        BY <1>0 DEF Uncounted, Made
    <2> QED BY <1>0, <1>1, <2>1, <2>2, <2>3 DEF CountInv
<1> QED BY <1>2, <1>3, <1>4

LEMMA InitBeginClean ==
    ASSUME IInv, TypeOK', ~overlap', InitBegin
    PROVE  ThreadInv' /\ FeedInv' /\ CountInv'
<1>0. /\ TypeOK /\ ThreadInv /\ FeedInv /\ qpc' = "setup"
      /\ \A o \in Sessions : wpc[o] = "idle" /\ wpc'[o] = "idle"
      /\ batch = <<>>
    BY DEF IInv, CleanInv, InitBegin, AtPrompt, Inside, cVars, FeedInv
<1>a. msg_recv' = 0 /\ since' = Len(log) + 1
    BY <1>0 DEF InitBegin, FeedReset, Uncounted, Made
<1>1. UNCHANGED <<log, life, got, batch, ring, lock>>
    BY DEF InitBegin, cVars
<1>2. ThreadInv'
    <2>1. \A o \in Sessions : lock # o
        BY <1>0 DEF ThreadInv
    <2> QED BY <1>0, <1>1, <2>1 DEF ThreadInv, Inside, Made
<1>3. FeedInv'
    <2>1. (\E o \in Sessions : Unwritten(o))' <=> \E o \in Sessions : Unwritten(o)
        BY <1>0 DEF Unwritten
    <2> QED BY <1>0, <1>1, <2>1, FeedSame
<1>4. CountInv'
    <2>1. ~(\E o \in Sessions : Uncounted(o))'
        BY <1>0 DEF Uncounted, Made
    <2>2. since' \in 1 .. Len(log') + 1
        BY <1>0, <1>1, <1>a DEF TypeOK
    <2> QED BY <1>0, <1>a, <2>1, <2>2 DEF CountInv
<1> QED BY <1>2, <1>3, <1>4

\* feedreset beside a callback: msg_recv counts from the record that is made,
\* if it is to be counted, or from the next.
LEMMA InitRefusedClean ==
    ASSUME IInv, TypeOK', ~overlap, InitRefused
    PROVE  ThreadInv' /\ FeedInv' /\ CountInv'
<1>0. /\ TypeOK /\ ThreadInv /\ FeedInv /\ CountInv /\ qpc # "setup"
      /\ qpc # "parse"
    BY DEF IInv, CleanInv, InitRefused, AtPrompt
<1>1. /\ UNCHANGED <<wpc, rec, put, msgbuff, log, life, ring, lock, batch, got>>
      /\ qpc' = qpc
    BY DEF InitRefused, cVars, qVars
<1>2. \A o \in Sessions : /\ Inside(o)' <=> Inside(o)
                          /\ Made(o)' <=> Made(o)
                          /\ Unwritten(o)' <=> Unwritten(o)
                          /\ Uncounted(o)' <=> Uncounted(o)
    BY <1>1 DEF Inside, Made, Unwritten, Uncounted
<1>3. FeedInv'
    BY <1>0, <1>1, <1>2, FeedSame DEF FeedInv
<1>4. ThreadInv'
    <2>1. RecordAt(Len(log))' = RecordAt(Len(log))
        BY <1>1, RecordsSame
    <2> QED BY <1>0, <1>1, <1>2, <2>1 DEF ThreadInv
<1>5. CountInv'
    <2>1. CASE UNCHANGED <<msg_recv, since>>
        BY <1>0, <1>1, <1>2, <2>1, CountSame
    <2>2. CASE /\ msg_recv' = 0
               /\ since' = IF \E s \in Sessions : Uncounted(s) THEN Len(log) ELSE Len(log) + 1
        <3>1. \A s \in Sessions : Uncounted(s) => Len(log) > 0
            BY <1>0 DEF ThreadInv, Uncounted
        <3>2. PICK m \in Nat : m = since'
            BY <1>0, <2>2 DEF TypeOK
        <3>3. (Streams(m, m) = 0)'
            BY StreamsPrimed
        <3>4. m = IF (\E s \in Sessions : Uncounted(s))' THEN Len(log') ELSE Len(log') + 1
            BY <1>1, <1>2, <2>2, <3>2
        <3>5. Streams(since, IF \E s \in Sessions : Uncounted(s)
                             THEN Len(log) ELSE Len(log) + 1)' = Streams(m, m)'
            BY <3>2, <3>4 DEF Streams
        <3>6. /\ since' \in 1 .. Len(log') + 1
              /\ (\E s \in Sessions : Uncounted(s))' => since' <= Len(log')
            BY <1>0, <1>1, <1>2, <2>2, <3>1 DEF TypeOK
        <3> QED BY <1>0, <1>1, <2>2, <3>3, <3>5, <3>6 DEF CountInv
    <2> QED BY <2>1, <2>2 DEF InitRefused, FeedReset
<1> QED BY <1>3, <1>4, <1>5

\* A life without overlap stays clean until callbacks overlap.
LEMMA CleanStep ==
    ASSUME IInv, TypeOK', [Next]_vars
    PROVE  CleanInv'
<1> SUFFICES ASSUME ~overlap'
             PROVE  ~Gone' /\ ThreadInv' /\ FeedInv' /\ CountInv'
    BY DEF CleanInv
<1>0. TypeOK /\ LinkInv /\ CleanInv
    BY DEF IInv
<1>1. ASSUME ~overlap,
             UNCHANGED <<wpc, rec, put, msgbuff, log, life, ring, lock, batch, got,
                         msg_recv, since>>,
             qpc' = qpc \/ (qpc # "setup" /\ qpc' # "setup"),
             qpc' # "parse" => batch = <<>>,
             qpc' # qpc => ~Gone'
      PROVE  ~Gone' /\ ThreadInv' /\ FeedInv' /\ CountInv'
    BY <1>0, <1>1, QuietClean DEF CleanInv, Gone
<1>2. ASSUME ~overlap
      PROVE  ~Gone /\ FeedInv /\ (qpc # "parse" => batch = <<>>)
    BY <1>0, <1>2 DEF CleanInv, FeedInv
<1>3. CASE UNCHANGED vars
    BY <1>1, <1>2, <1>3 DEF vars, cVars, initVars
<1>4. ASSUME NEW e \in Sessions, RecvDot(e)
      PROVE  ~Gone' /\ ThreadInv' /\ FeedInv' /\ CountInv'
    BY <1>1, <1>2, <1>4 DEF RecvDot, apiVars, initVars, cVars, Gone
<1>5. CASE TakeSize
    <2>1. qpc = "size" /\ qpc' \in {"read", "idle"}
        BY <1>5 DEF TakeSize
    <2> QED BY <1>1, <1>2, <1>5, <2>1 DEF TakeSize, apiVars, initVars, cVars, Gone
<1>6. CASE CallHandler
    BY <1>1, <1>2, <1>6 DEF CallHandler, apiVars, initVars, cVars, Gone
<1>7. CASE HandlerReturns
    BY <1>1, <1>2, <1>7 DEF HandlerReturns, apiVars, initVars, cVars, Gone
<1>8. CASE CbRead
    BY <1>8, ReadClean DEF CbRead, apiVars, Gone
<1>9. CASE ParseFrame
    <2>1. overlap' = overlap /\ qpc' = "parse"
        BY <1>9 DEF ParseFrame, apiVars
    <2> QED BY <1>9, <2>1, ParseClean DEF Gone
<1>10. CASE ParseTorn
    <2>1. ~overlap /\ batch # <<>> /\ Head(batch) = Torn
        BY <1>10 DEF ParseTorn, apiVars
    <2> QED BY <1>0, <1>2, <2>1, HeadIsNext
<1>11. CASE CbInit
    BY <1>11, CbInitClean DEF CbInit, Gone
<1>12. CASE InitBegin
    BY <1>12, InitBeginClean DEF InitBegin, Gone
<1>19. CASE InitRefused
    <2>1. overlap' = overlap /\ qpc' = qpc
        BY <1>19 DEF InitRefused, qVars
    <2> QED BY <1>2, <1>19, <2>1, InitRefusedClean DEF Gone
<1>13. CASE Socketpair \/ ConnectOk
    <2>1. /\ UNCHANGED <<wpc, rec, put, msgbuff, log, life, ring, lock, batch, got,
                         msg_recv, since, overlap>>
          /\ qpc \in {"pair", "connect"} /\ qpc' \in {"connect", "connected"}
        BY <1>13 DEF Socketpair, ConnectOk, cVars
    <2> QED BY <1>1, <1>2, <2>1 DEF Gone
<1>14. CASE ConnectFails \/ InitDone
    <2>1. /\ UNCHANGED <<wpc, rec, put, msgbuff, log, life, ring, lock, batch, got,
                         msg_recv, since, overlap>>
          /\ qpc \in {"connect", "connected"} /\ qpc' \in {"idle", "handler"}
        BY <1>0, <1>14 DEF ConnectFails, InitDone, cVars, TypeOK
    <2> QED BY <1>1, <1>2, <2>1 DEF Gone
<1>15. CASE Disconnect
    <2>1. /\ UNCHANGED <<wpc, rec, put, msgbuff, log, life, ring, lock, batch, got,
                         msg_recv, since, overlap, qpc>>
        BY <1>15 DEF Disconnect, cVars, initVars, qVars
    <2> QED BY <1>1, <1>2, <2>1
<1>16. ASSUME NEW s \in Sessions, GoesDown(s)
       PROVE  ~Gone' /\ ThreadInv' /\ FeedInv' /\ CountInv'
    <2>1. /\ UNCHANGED <<wpc, rec, put, msgbuff, log, life, ring, lock, batch, got,
                         msg_recv, since, overlap, qpc>>
        BY <1>16 DEF GoesDown, cVars, initVars, qVars
    <2> QED BY <1>1, <1>2, <2>1
<1>17. ASSUME NEW s \in Sessions, ContextStep(s) \/ SpuriousWake(s)
       PROVE  ~Gone' /\ ThreadInv' /\ FeedInv' /\ CountInv'
    <2>1. overlap' = overlap /\ qpc' = qpc
        BY <1>17 DEF ContextStep, MakeRecord, Copy, CbWriteWait, CbWrite, CbWriteDone,
                     WriteDot, CountMessage, SpuriousWake, others, qVars
    <2>2. ~Gone'
        BY <1>2, <2>1 DEF Gone
    <2> QED
        BY <1>17, <2>1, <2>2, MakeClean, CopyWriteClean, WriteDoneClean, DotClean,
           CountClean DEF ContextStep
<1>18. ASSUME NEW s \in Sessions, NEW kind \in {"s", "a"}, Enter(s, kind)
       PROVE  ~Gone' /\ ThreadInv' /\ FeedInv' /\ CountInv'
    <2>1. qpc' = qpc /\ ~Gone
        BY <1>18 DEF Enter, qVars
    <2> QED BY <1>18, <2>1, EnterClean DEF Gone
<1> QED
    BY <1>3, <1>4, <1>5, <1>6, <1>7, <1>8, <1>9, <1>10, <1>11, <1>12, <1>13, <1>14,
       <1>15, <1>16, <1>17, <1>18, <1>19
    DEF Next, QStep, Arrive, DownError

-----------------------------------------------------------------------------
(* The thread asleep in cb_write.                                          *)

LEMMA SleepStep ==
    ASSUME IInv, [Next]_vars
    PROVE  SleepInv'
<1>0. TypeOK /\ LinkInv /\ CleanInv /\ SleepInv
    BY DEF IInv
<1>1. SUFFICES ASSUME ~overlap', NEW s \in Sessions, wpc'[s] = "wait"
               PROVE  s \in waiting' /\ ring' # <<>>
    BY DEF SleepInv
<1>2. ~overlap
    BY <1>0, <1>1
    DEF TypeOK, Next, QStep, ContextStep, RecvDot, TakeSize, CbRead, ParseFrame, ParseTorn,
        CallHandler, HandlerReturns, CbInit, Reborn, Socketpair, ConnectOk, ConnectFails,
        InitDone, InitBegin, InitRefused, Disconnect, MakeRecord, Copy, CbWriteWait, CbWrite,
        CbWriteDone, WriteDot, CountMessage, SpuriousWake, GoesDown, DownError, Arrive,
        Enter, vars, apiVars
<1>3. ThreadInv
    BY <1>0, <1>2 DEF CleanInv
<1>4. wpc[s] = "wait" => s \in waiting /\ ring # <<>>
    BY <1>0, <1>2 DEF SleepInv
<1>5. CASE UNCHANGED <<wpc, waiting, ring>>
    BY <1>1, <1>4, <1>5
<1>6. ASSUME NEW o \in Sessions, ContextStep(o) \/ SpuriousWake(o)
      PROVE  s \in waiting' /\ ring' # <<>>
    <2>1. s = o
        <3>1. Alone(o)
            BY <1>0, <1>3, <1>6, AloneStep
        <3> QED BY <1>1, <3>1 DEF Alone
    <2>2. CbWriteWait(s)
        BY <1>0, <1>1, <1>6, <2>1
        DEF ContextStep, MakeRecord, Copy, CbWrite, CbWriteDone, WriteDot, CountMessage,
            SpuriousWake, TypeOK
    <2>3. Len(ring) >= Capacity /\ ring' = ring /\ waiting' = waiting \cup {s}
        BY <2>2 DEF CbWriteWait
    <2>4. ring # <<>>
        BY <2>3, BoundsAssumption
    <2> QED BY <2>3, <2>4
<1>7. ASSUME NEW o \in Sessions, NEW kind \in {"s", "a"}, Enter(o, kind)
      PROVE  s \in waiting' /\ ring' # <<>>
    <2>1. UNCHANGED <<waiting, ring>> /\ wpc' = [wpc EXCEPT ![o] = "make"]
        BY <1>7 DEF Enter
    <2> QED BY <1>0, <1>1, <1>4, <2>1 DEF TypeOK
<1>8. CASE CbRead
    <2>1. wpc[s] = "wait"
        BY <1>0, <1>1, <1>8 DEF CbRead, TypeOK
    <2>2. s \in waiting /\ \A o \in waiting : o \in Sessions /\ Inside(o)
        BY <1>0, <1>4, <2>1 DEF LinkInv, TypeOK, Inside
    <2>3. \A o \in waiting : o = s
        BY <1>3, <2>1, <2>2 DEF ThreadInv, Inside
    <2>4. wpc' = [wpc EXCEPT ![s] = "write"]
        BY <1>8, <2>2, <2>3 DEF CbRead
    <2> QED BY <1>0, <1>1, <2>4 DEF TypeOK
<1>9. CASE CbInit
    <2>1. wpc' = wpc /\ \A o \in Sessions : ~Inside(o)
        BY <1>1, <1>9 DEF CbInit, Reborn
    <2> QED BY <1>1, <2>1 DEF Inside
<1> QED
    BY <1>5, <1>6, <1>7, <1>8, <1>9
    DEF Next, QStep, RecvDot, TakeSize, ParseFrame, ParseTorn, CallHandler, HandlerReturns,
        Socketpair, ConnectOk, ConnectFails, InitDone, InitBegin, InitRefused, Disconnect, GoesDown,
        DownError, Arrive, vars, cVars

-----------------------------------------------------------------------------
(* The theorems.                                                           *)

LEMMA InitIInv == Init => IInv
<1> SUFFICES ASSUME Init PROVE IInv
    OBVIOUS
<1>1. TypeOK
    <2>1. Torn \in Record /\ 0 \in 0 .. MaxInits /\ 0 \in 0 .. SockCap
        BY TornRecord
    <2>2. ring \in Seq(Record) /\ batch \in Seq(Record) /\ got \in Seq(Nat)
          /\ log \in Seq([kind: {"s", "a"}, since: Nat])
        BY DEF Init
    <2>3. fd \in 0 .. life /\ cur \in 0 .. life
        BY DEF Init
    <2> QED BY <2>1, <2>2, <2>3 DEF Init, TypeOK
<1>2. LinkInv
    BY DEF Init, LinkInv, Inside
<1>3. NumberInv
    BY DEF Init, NumberInv, Dated, Torn
<1>4. ReadInv /\ WakeupKept
    BY DEF Init, ReadInv, WakeupKept, Covered
<1>5. CleanInv
    <2>1. ~Gone /\ ThreadInv
        BY DEF Init, Gone, ThreadInv, Inside, Made, Sessions
    <2>2. FeedInv
        BY DEF Init, FeedInv, Unwritten
    <2>3. CountInv
        <3>1. Len(log) + 1 = 1 /\ ~\E o \in Sessions : Uncounted(o)
            BY DEF Init, Uncounted, Made
        <3>2. Streams(1, 1) = 0 /\ since = 1
            BY StreamsFirst DEF Init
        <3> QED BY <3>1, <3>2 DEF Init, CountInv
    <2> QED BY <2>1, <2>2, <2>3 DEF CleanInv
<1>6. SleepInv
    BY DEF Init, SleepInv
<1> QED BY <1>1, <1>2, <1>3, <1>4, <1>5, <1>6 DEF IInv

LEMMA IndStep == IInv /\ [Next]_vars => IInv'
<1> SUFFICES ASSUME IInv, [Next]_vars PROVE IInv'
    OBVIOUS
<1>1. TypeOK /\ LinkInv /\ NumberInv /\ ReadInv /\ WakeupKept
    BY DEF IInv
<1>2. TypeOK'
    BY <1>1, TypeStep
<1> QED
    BY <1>1, <1>2, LinkStep, NumberStep, ReadStep, WakeStep, CleanStep, SleepStep
    DEF IInv

LEMMA Invariance == Spec => []IInv
BY InitIInv, IndStep, PTL DEF Spec

\* The variables keep their types, whatever inits, callbacks and the q thread do.
THEOREM TypeCorrect == Spec => []TypeOK
<1>1. IInv => TypeOK
    BY DEF IInv
<1> QED BY <1>1, Invariance, PTL

\* However many inits made new socket pairs, and whatever overlapped, frames in
\* the ring have a '.' coming in some pair.
THEOREM WakeupCorrect == Spec => []WakeupKept
<1>1. IInv => WakeupKept
    BY DEF IInv
<1> QED BY <1>1, Invariance, PTL

\* While nothing overlaps, seqn counts the stream messages of one life, or
\* those since a refused init, wherever its feedreset met a callback.
THEOREM SeqnCorrect == Spec => []SeqnRestarts
<1>1. IInv => SeqnRestarts
    BY DEF IInv, CleanInv, FeedInv, SeqnRestarts, RecordAt
<1> QED BY <1>1, Invariance, PTL

\* A restart ends the process in callback's assertion only where callbacks
\* overlapped, with an init or with each other.
THEOREM EndsCorrect == Spec => []EndsOnlyOverlap
<1>1. IInv => EndsOnlyOverlap
    BY DEF IInv, CleanInv, EndsOnlyOverlap
<1> QED BY <1>1, Invariance, PTL

\* While nothing overlaps, whoever sleeps in cb_write is heard: the next cb_read
\* wakes it, and the q thread is coming to read.
THEOREM SleeperCorrect == Spec => []SleeperHeard
<1>1. IInv => SleeperHeard
    <2> SUFFICES ASSUME IInv, ~overlap, NEW s \in Sessions, wpc[s] = "wait"
                 PROVE  /\ s \in waiting /\ ring # <<>>
                        /\ qpc \in {"size", "read"} \/ \E e \in Sessions : tokens[e] > 0
        BY DEF SleeperHeard
    <2>1. s \in waiting /\ ring # <<>>
        BY DEF IInv, SleepInv
    <2>2. Len(ring) > 0
        BY <2>1 DEF IInv, TypeOK
    <2>3. \A o \in Sessions : wpc[o] # "dot"
        BY DEF IInv, CleanInv, ThreadInv, Inside
    <2>4. qpc \notin {"size", "read"} => \E e \in Sessions : tokens[e] > 0
        BY <2>2, <2>3 DEF IInv, WakeupKept, Covered
    <2> QED BY <2>1, <2>4
<1> QED BY <1>1, Invariance, PTL

-----------------------------------------------------------------------------
(* RestartChannel.                                                         *)

LEMMA ChannelStep ==
    ASSUME IInv, [Next]_vars
    PROVE  [Channel!Next]_Channel!cvars
<1> USE DEF Channel!Next, Channel!MayBreak
<1>0. TypeOK /\ NumberInv /\ CleanInv
    BY DEF IInv
<1>1. ASSUME UNCHANGED <<log, got>>, overlap' \in {overlap, TRUE}
      PROVE  Channel!Next
    BY <1>1 DEF Channel!Break
<1>2. CASE UNCHANGED vars
    BY <1>1, <1>2 DEF vars, cVars
<1>3. ASSUME NEW e \in Sessions, RecvDot(e)
      PROVE  Channel!Next
    BY <1>1, <1>3 DEF RecvDot, apiVars, cVars
<1>4. CASE TakeSize \/ CbRead \/ CallHandler \/ HandlerReturns
    BY <1>1, <1>4 DEF TakeSize, CbRead, CallHandler, HandlerReturns, apiVars, cVars
<1>5. CASE ParseFrame
    <2>1. CASE ~overlap
        <3>1. /\ got' = Append(got, Len(got) + 1) /\ Len(got) < Len(log)
              /\ UNCHANGED <<log, overlap>>
            BY <1>0, <1>5, <2>1, HeadIsNext
            DEF ParseFrame, CleanInv, apiVars, cVars, TypeOK
        <3> QED BY <2>1, <3>1 DEF Channel!Deliver
    <2>2. CASE overlap
        <3>1. Dated(Head(batch)) /\ Head(batch) \in Record
            BY <1>0, <1>5 DEF ParseFrame, NumberInv, TypeOK
        <3>2. (IF Head(batch).life = life THEN Head(batch).n ELSE 0) \in 0 .. Len(log)
            BY <1>0, <3>1 DEF Dated, Record, TypeOK
        <3>3. UNCHANGED <<log, overlap>>
            BY <1>5 DEF ParseFrame, apiVars, cVars
        <3> QED BY <1>5, <2>2, <3>2, <3>3 DEF ParseFrame, Channel!Garble
    <2> QED BY <2>1, <2>2
<1>6. CASE ParseTorn
    <2>1. overlap
        BY <1>0, <1>6, HeadIsNext DEF ParseTorn, CleanInv
    <2>2. UNCHANGED <<log, overlap>> /\ 0 \in 0 .. Len(log)
        BY <1>0, <1>6 DEF ParseTorn, apiVars, cVars, TypeOK
    <2>3. got' = got \/ got' = Append(got, 0)
        BY <1>6 DEF ParseTorn
    <2> QED BY <1>1, <2>1, <2>2, <2>3 DEF Channel!Garble
<1>7. CASE CbInit
    <2>1. log' = <<>> /\ got' = <<>> /\ overlap' \in {overlap, TRUE}
        BY <1>0, <1>7 DEF CbInit, Reborn, TypeOK
    <2> QED BY <2>1 DEF Channel!Restart
<1>8. CASE InitBegin \/ InitRefused
    BY <1>0, <1>1, <1>8 DEF InitBegin, InitRefused, cVars, qVars, TypeOK
<1>9. CASE Socketpair \/ ConnectOk \/ ConnectFails \/ InitDone \/ Disconnect
    BY <1>1, <1>9
    DEF Socketpair, ConnectOk, ConnectFails, InitDone, Disconnect, cVars, qVars
<1>10. ASSUME NEW s \in Sessions, MakeRecord(s)
       PROVE  Channel!Next
    <2>1. Len(log') = Len(log) + 1
        BY <1>0, <1>10 DEF MakeRecord, TypeOK
    <2>2. UNCHANGED <<got, overlap>>
        BY <1>10 DEF MakeRecord, others, qVars
    <2> QED BY <2>1, <2>2 DEF Channel!Accept
<1>11. ASSUME NEW s \in Sessions,
              \/ Copy(s) \/ CbWriteWait(s) \/ CbWrite(s) \/ CbWriteDone(s)
              \/ WriteDot(s) \/ CountMessage(s) \/ SpuriousWake(s) \/ GoesDown(s)
       PROVE  Channel!Next
    BY <1>1, <1>11
    DEF Copy, CbWriteWait, CbWrite, CbWriteDone, WriteDot, CountMessage, SpuriousWake,
        GoesDown, others, qVars, cVars
<1>12. ASSUME NEW s \in Sessions, NEW kind \in {"s", "a"}, Enter(s, kind)
       PROVE  Channel!Next
    BY <1>0, <1>1, <1>12 DEF Enter, qVars, TypeOK
<1> QED
    BY <1>2, <1>3, <1>4, <1>5, <1>6, <1>7, <1>8, <1>9, <1>10, <1>11, <1>12
    DEF Next, QStep, ContextStep, Arrive, DownError

\* Every life of the ring is a fresh channel: its records come out in order and
\* once, and none of an earlier life, until callbacks overlap.
THEOREM ImplementsChannel == Spec => Channel!SafeSpec
<1>1. Init => Channel!Init
    BY DEF Init, Channel!Init
<1>2. IInv /\ [Next]_vars => [Channel!Next]_Channel!cvars
    BY ChannelStep
<1> QED BY <1>1, <1>2, Invariance, PTL DEF Spec, Channel!SafeSpec
=============================================================================
