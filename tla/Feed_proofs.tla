----------------------------- MODULE Feed_proofs -----------------------------
(***************************************************************************)
(* Invariance proofs for Feed.  IInv is inductive; each of its conjuncts   *)
(* has a lemma that says a step keeps it, with one case per action that    *)
(* can disturb it.  The theorems at the end follow from IInv.  The lemmas  *)
(* on the operators of CircularBuffer come first.                          *)
(***************************************************************************)
EXTENDS Feed, TLAPS

-----------------------------------------------------------------------------
(* What the copies of cb.c do to the bytes between h and t.                *)

\* cb_size and cb_space of any two indices are counts of bytes below n.
LEMMA SizeBounds ==
    ASSUME NEW head \in Index, NEW tail \in Index
    PROVE  /\ CbSize(head, tail) \in 0 .. N - 1
           /\ CbSpace(head, tail) \in 0 .. N - 1
           /\ CbSize(head, tail) = 0 <=> head = tail
BY NAssumption DEF Index, CbSize, CbSpace

\* Stepping over less than n cells from an index gives an index.
LEMMA SlotInRange ==
    ASSUME NEW p \in Index, NEW i \in 0 .. N - 1
    PROVE  Slot(p, i) \in Index
BY NAssumption DEF Index, Slot, Wraps

\* The memcpy calls of cb_write leave an array of cells.
LEMMA FillType ==
    ASSUME NEW cells \in [Index -> Cell], NEW p \in Index, NEW n \in Nat,
           NEW from \in Nat
    PROVE  Fill(cells, p, n, from) \in [Index -> Cell]
<1> SUFFICES ASSUME NEW j \in Index
             PROVE  (IF p <= j /\ j < p + n THEN from + (j - p) ELSE cells[j]) \in Cell
    BY DEF Fill
<1>1. CASE p <= j /\ j < p + n
    BY <1>1, NAssumption DEF Index, Cell
<1>2. CASE ~(p <= j /\ j < p + n)
    BY <1>2
<1> QED BY <1>1, <1>2

\* cb_write without a wrap, and the second half of a wrapping one: the bytes
\* already in the ring stay, the n new ones follow them.
LEMMA WriteTail ==
    ASSUME NEW cells \in [Index -> Cell], NEW head \in Index, NEW tail \in Index,
           NEW n \in Nat, NEW from \in Nat,
           Holds(cells, head, tail, from), n <= CbSpace(head, tail), tail + n < N
    PROVE  /\ tail + n \in Index
           /\ CbSize(head, tail + n) = CbSize(head, tail) + n
           /\ Holds(Fill(cells, tail, n, from + CbSize(head, tail)), head, tail + n, from)
<1>1. tail + n \in Index /\ CbSize(head, tail + n) = CbSize(head, tail) + n
    BY NAssumption DEF Index, CbSize, CbSpace
<1>2. ASSUME NEW i \in 0 .. CbSize(head, tail + n) - 1
      PROVE  Fill(cells, tail, n, from + CbSize(head, tail))[Slot(head, i)] = from + i
    <2>0. /\ CbSize(head, tail) \in 0 .. N - 1 /\ CbSize(head, tail) + n <= N - 1
          /\ i \in 0 .. N - 1
        BY <1>1, <1>2, SizeBounds, NAssumption DEF CbSpace
    <2>1. Slot(head, i) \in Index
        BY <2>0, SlotInRange
    <2>2. CASE i < CbSize(head, tail)
        <3>1. cells[Slot(head, i)] = from + i
            BY <2>0, <2>2 DEF Holds
        <3>2. ~(tail <= Slot(head, i) /\ Slot(head, i) < tail + n)
            BY <2>0, <2>2, NAssumption DEF Index, CbSize, CbSpace, Slot, Wraps
        <3> QED BY <2>1, <3>1, <3>2 DEF Fill
    <2>3. CASE ~(i < CbSize(head, tail))
        <3>1. tail <= Slot(head, i) /\ Slot(head, i) < tail + n
              /\ CbSize(head, tail) + (Slot(head, i) - tail) = i
            <4>1. /\ N \in Nat /\ n \in Nat /\ head \in 0 .. N - 1 /\ tail \in 0 .. N - 1
                  /\ i \in Nat /\ i < CbSize(head, tail) + n /\ CbSize(head, tail) <= i
                BY <1>1, <2>0, <2>3, NAssumption DEF Index
            <4>2. CASE head <= tail
                <5>1. CbSize(head, tail) = tail - head
                    BY <4>2 DEF CbSize
                <5>2. Slot(head, i) = head + i
                    BY <4>1, <5>1 DEF Slot, Wraps
                <5> QED BY <4>1, <5>1, <5>2
            <4>3. CASE ~(head <= tail)
                <5>1. CbSize(head, tail) = tail + (N - head)
                    BY <4>3 DEF CbSize
                <5>2. Slot(head, i) = head + i - N
                    BY <4>1, <5>1 DEF Slot, Wraps
                <5> QED BY <4>1, <4>3, <5>1, <5>2
            <4> QED BY <4>2, <4>3
        <3>2. from + CbSize(head, tail) + (Slot(head, i) - tail) = from + i
            <4>1. /\ CbSize(head, tail) \in Int /\ Slot(head, i) \in Int /\ tail \in Int
                  /\ from \in Int
                BY <2>0, <2>1, NAssumption DEF Index
            <4>2. \A a, b, c, e \in Int : a + b + (c - e) = a + (b + (c - e))
                OBVIOUS
            <4> QED BY <3>1, <4>1, <4>2
        <3> QED BY <2>1, <3>1, <3>2 DEF Fill
    <2> QED BY <2>2, <2>3
<1> QED BY <1>1, <1>2 DEF Holds

\* The first half of a wrapping cb_write, which ends with t = 0.
LEMMA WriteToEnd ==
    ASSUME NEW cells \in [Index -> Cell], NEW head \in Index, NEW tail \in Index,
           NEW n \in Nat, NEW from \in Nat,
           Holds(cells, head, tail, from), n <= CbSpace(head, tail), N <= tail + n
    PROVE  /\ tail + n - N < head
           /\ CbSize(head, 0) = CbSize(head, tail) + (N - tail)
           /\ Holds(Fill(cells, tail, N - tail, from + CbSize(head, tail)), head, 0, from)
<1>1. head <= tail /\ tail + n - N < head /\ CbSize(head, 0) = CbSize(head, tail) + (N - tail)
      /\ CbSize(head, tail) = tail - head /\ CbSize(head, 0) = N - head
    BY NAssumption DEF Index, CbSize, CbSpace
<1>2. ASSUME NEW i \in 0 .. CbSize(head, 0) - 1
      PROVE  Fill(cells, tail, N - tail, from + CbSize(head, tail))[Slot(head, i)] = from + i
    <2>1. Slot(head, i) = head + i /\ head + i \in Index
        BY <1>1, <1>2, NAssumption DEF Index, Slot, Wraps
    <2>2. CASE i < CbSize(head, tail)
        <3>1. cells[Slot(head, i)] = from + i
            BY <1>1, <2>2 DEF Holds, Index
        <3>2. head + i < tail
            BY <1>1, <2>2 DEF Index
        <3> QED BY <2>1, <3>1, <3>2 DEF Fill, Index
    <2>3. CASE ~(i < CbSize(head, tail))
        <3>1. /\ N \in Nat /\ i \in Nat /\ head \in 0 .. N - 1 /\ tail \in 0 .. N - 1
              /\ i < N - head /\ tail - head <= i
            BY <1>1, <2>1, <2>3, NAssumption DEF Index
        <3>2. tail <= head + i /\ head + i < tail + (N - tail)
              /\ (tail - head) + ((head + i) - tail) = i
            BY <3>1
        <3>3. from + CbSize(head, tail) + ((head + i) - tail) = from + i
            <4>1. \A a, b, c \in Int : a + b + c = a + (b + c)
                OBVIOUS
            <4>2. from \in Int /\ tail - head \in Int /\ (head + i) - tail \in Int
                BY <3>1
            <4> QED BY <1>1, <3>2, <4>1, <4>2
        <3> QED BY <2>1, <3>2, <3>3 DEF Fill
    <2> QED BY <2>2, <2>3
<1> QED BY <1>1, <1>2 DEF Holds

\* Moving the head over n of the bytes in the ring leaves the others.
LEMMA HeadMoves ==
    ASSUME NEW head \in Index, NEW tail \in Index, NEW n \in Nat, n <= CbSize(head, tail)
    PROVE  /\ Slot(head, n) \in Index
           /\ CbSize(Slot(head, n), tail) = CbSize(head, tail) - n
<1>1. CbSize(head, tail) \in 0 .. N - 1 /\ n \in 0 .. N - 1
    BY SizeBounds, NAssumption
<1> QED BY <1>1, SlotInRange, NAssumption DEF Index, CbSize, Slot, Wraps

\* cb_read of n bytes copies the first n of the ring, and leaves the others.
LEMMA ReadHead ==
    ASSUME NEW cells \in [Index -> Cell], NEW head \in Index, NEW tail \in Index,
           NEW n \in Nat, NEW from \in Nat, NEW buf \in [Index -> Cell],
           Holds(cells, head, tail, from), n <= CbSize(head, tail)
    PROVE  /\ Drain(cells, head, n, buf) \in [Index -> Cell]
           /\ \A i \in 0 .. n - 1 : Drain(cells, head, n, buf)[i] = from + i
           /\ Holds(cells, Slot(head, n), tail, from + n)
<1>0. CbSize(head, tail) \in 0 .. N - 1 /\ n \in 0 .. N - 1
    BY SizeBounds, NAssumption
<1>2. CbSize(Slot(head, n), tail) = CbSize(head, tail) - n
    BY HeadMoves
<1>3. Drain(cells, head, n, buf) \in [Index -> Cell]
    <2> SUFFICES ASSUME NEW i \in Index
                 PROVE  (IF i < n THEN cells[Slot(head, i)] ELSE buf[i]) \in Cell
        BY DEF Drain
    <2>1. Slot(head, i) \in Index
        BY SlotInRange DEF Index
    <2> QED BY <2>1
<1>4. ASSUME NEW i \in 0 .. n - 1
      PROVE  Drain(cells, head, n, buf)[i] = from + i
    <2>1. i \in Index /\ i < n /\ i \in 0 .. CbSize(head, tail) - 1
        BY <1>0, <1>4, NAssumption DEF Index
    <2> QED BY <2>1 DEF Drain, Holds
<1>5. ASSUME NEW i \in 0 .. CbSize(Slot(head, n), tail) - 1
      PROVE  cells[Slot(Slot(head, n), i)] = from + n + i
    <2>1. n + i \in 0 .. CbSize(head, tail) - 1
        BY <1>0, <1>2, <1>5
    <2>2. Slot(Slot(head, n), i) = Slot(head, n + i)
        <3>1. /\ N \in Nat /\ head \in 0 .. N - 1 /\ n \in 0 .. N - 1 /\ i \in Nat
              /\ n + i < N
            BY <1>0, <2>1, <1>2, <1>5, NAssumption DEF Index
        <3>2. CASE N <= head + n
            <4>1. Slot(head, n) = head + n - N /\ Slot(head, n + i) = head + (n + i) - N
                BY <3>1, <3>2 DEF Slot, Wraps
            <4>2. Slot(head + n - N, i) = head + n - N + i
                BY <3>1 DEF Slot, Wraps
            <4> QED BY <3>1, <4>1, <4>2
        <3>3. CASE ~(N <= head + n)
            <4>1. Slot(head, n) = head + n
                BY <3>3 DEF Slot, Wraps
            <4>2. Slot(head + n, i) = Slot(head, n + i)
                BY <3>1 DEF Slot, Wraps
            <4> QED BY <4>1, <4>2
        <3> QED BY <3>2, <3>3
    <2>3. cells[Slot(head, n + i)] = from + (n + i)
        BY <2>1 DEF Holds
    <2> QED BY <1>0, <1>5, <2>2, <2>3
<1> QED BY <1>3, <1>4, <1>5 DEF Holds

-----------------------------------------------------------------------------
(* The receive path, whose constants every proof below may use.            *)

USE HeaderAssumption, MaxMsgAssumption, SizesAssumption, SockAssumption,
    NAssumption, FitsAssumption

-----------------------------------------------------------------------------
(* What the actions of each thread have in common.                         *)

\* A step of the context thread leaves the q thread's variables alone.
Solace == Arrive \/ SolaceStep \/ SpuriousWake

\* Every step is one of the context thread or of the q thread, or a stutter.
LEMMA NextCases ==
    ASSUME [Next]_vars
    PROVE  UNCHANGED vars \/ Solace \/ QStep
BY DEF Next, Solace

LEMMA SolaceFrame ==
    ASSUME Solace
    PROVE  UNCHANGED <<qVars, h>> /\ ~Aborted
BY DEF Solace, Arrive, RxMessage, RxEvent, WriteToBuffer, RxTooBig, SolaceStep,
       CbWriteWait, CbWriteAll, CbWriteFirst, CbWriteRest, WriteDot,
       CountMessage, SpuriousWake, ring

LEMMA QFrame ==
    ASSUME QStep
    PROVE  UNCHANGED <<d, t, solaceVars>>
BY DEF QStep, RecvDot, TakeSize, NothingToRead, CbRead, SignalSpace, ParseFrame,
       ParseGarbage, AssertFails, DecodeFails, Garbage, Deliver, ring

\* The record being written is a record whose frame fits the ring.
LEMMA PendingFacts ==
    ASSUME TypeOK, LogInv, Len(log) > 0
    PROVE  /\ Pending \in Record /\ Frame(Pending) \in 1 .. N - 1
           /\ Pending.at \in Nat /\ End(Pending) = Pending.at + Frame(Pending)
           /\ EndOf(Len(log)) = End(Pending)
<1>1. Pending \in Record
    BY DEF TypeOK, Pending
<1>2. Pending.at \in Nat /\ Pending.len \in Nat \ {0} /\ Pending.len < MaxMsgSize
    <2>1. Len(log) \in 1 .. Len(log)
        BY DEF TypeOK
    <2>2. Pending.len < MaxMsgSize
        BY <2>1 DEF LogInv, Pending
    <2> QED BY <1>1, <2>2 DEF Record
<1>3. Frame(Pending) \in 1 .. N - 1
      /\ End(Pending) = Pending.at + Frame(Pending)
    BY <1>2 DEF Frame, End
<1>4. Len(log) # 0 /\ EndOf(Len(log)) = End(Pending)
    BY DEF EndOf, Pending
<1> QED BY <1>1, <1>2, <1>3, <1>4

\* Every record is a record, and its end is after its start.
LEMMA RecordFacts ==
    ASSUME TypeOK, NEW k \in DOMAIN log
    PROVE  /\ log[k] \in Record /\ log[k].at \in Nat
           /\ Frame(log[k]) \in Nat /\ Frame(log[k]) > HeaderSize
           /\ End(log[k]) = log[k].at + Frame(log[k])
           /\ log[k].kind \in {"s", "a"} /\ log[k].seqn \in Nat
<1>1. log[k] \in Record
    BY DEF TypeOK
<1> QED BY <1>1 DEF Record, Frame, End

\* Positions after more records are later.
LEMMA EndOfMonotone ==
    ASSUME TypeOK, LogInv, NEW j \in 0 .. Len(log), NEW k \in 0 .. Len(log)
    PROVE  /\ EndOf(k) \in Nat
           /\ j < k => EndOf(j) < EndOf(k)
           /\ j = k => EndOf(j) = EndOf(k)
<1>1. \A i \in 1 .. Len(log) : /\ i \in DOMAIN log
                               /\ EndOf(i) = End(log[i])
                               /\ log[i].at \in Nat /\ Frame(log[i]) \in Nat
                               /\ Frame(log[i]) > 0
                               /\ End(log[i]) = log[i].at + Frame(log[i])
    BY RecordFacts DEF EndOf, TypeOK
<1>2. Len(log) \in Nat
    BY DEF TypeOK
<1>3. EndOf(k) \in Nat
    BY <1>1, <1>2 DEF EndOf
<1>4. ASSUME j < k PROVE EndOf(j) < EndOf(k)
    <2>1. CASE j = 0
        BY <1>1, <1>2, <1>4, <2>1 DEF EndOf
    <2>2. CASE j > 0
        <3>1. End(log[j]) <= log[k].at
            BY <1>2, <1>4, <2>2 DEF LogInv
        <3> QED BY <1>1, <1>2, <1>4, <2>2, <3>1
    <2> QED BY <1>2, <2>1, <2>2
<1> QED BY <1>3, <1>4

-----------------------------------------------------------------------------
(* Type correctness.                                                       *)

LEMMA InitType == Init => TypeOK
BY DEF Init, TypeOK, Index, Cell, Junk, Record

LEMMA TypeStep ==
    ASSUME IInv, [Next]_vars
    PROVE  TypeOK'
<1> USE DEF IInv
<1>1. CASE UNCHANGED vars
    BY <1>1 DEF TypeOK, vars, ring, stats
<1>2. ASSUME NEW len \in MsgSizes, NEW kind \in {"s", "a"}, WriteToBuffer(len, kind)
      PROVE  TypeOK'
    <2>1. [at |-> wpos, len |-> len, kind |-> kind, seqn |-> msg_recv] \in Record
        BY DEF TypeOK, Record
    <2>2. log' \in Seq(Record)
        BY <1>2, <2>1 DEF WriteToBuffer, TypeOK
    <2> QED BY <1>2, <2>2 DEF WriteToBuffer, TypeOK, ring, qVars
<1>3. ASSUME NEW len \in MsgSizes, RxTooBig(len)
      PROVE  TypeOK'
    BY <1>3 DEF RxTooBig, TypeOK, ring, qVars
<1>4. CASE CbWriteWait \/ SpuriousWake
    BY <1>4 DEF CbWriteWait, SpuriousWake, TypeOK, ring, qVars
<1>16. CASE CountMessage
    BY <1>16 DEF CountMessage, TypeOK, ring, qVars
<1>5. CASE CbWriteAll
    <2>1. Frame(Pending) \in Nat
        BY <1>5, PendingFacts DEF CbWriteAll, WriterInv
    <2>2. t' \in Index
        BY <1>5, <2>1 DEF CbWriteAll, Wraps, TypeOK, Index
    <2>3. d' \in [Index -> Cell]
        BY <1>5, <2>1, FillType DEF CbWriteAll, TypeOK
    <2> QED BY <1>5, <2>1, <2>2, <2>3 DEF CbWriteAll, TypeOK, qVars
<1>6. CASE CbWriteFirst
    <2>1. N - t \in Nat
        BY DEF TypeOK, Index
    <2>2. d' \in [Index -> Cell]
        BY <1>6, <2>1, FillType DEF CbWriteFirst, TypeOK
    <2> QED BY <1>6, <2>1, <2>2 DEF CbWriteFirst, TypeOK, Index, qVars
<1>7. CASE CbWriteRest
    <2>1. Rest \in Nat /\ t = 0 /\ Rest < h /\ End(Pending) \in Nat
        BY <1>7, PendingFacts DEF CbWriteRest, WriterInv, Rest, TypeOK
    <2>2. d' \in [Index -> Cell]
        BY <1>7, <2>1, FillType DEF CbWriteRest, TypeOK
    <2>3. t' \in Index
        BY <1>7, <2>1 DEF CbWriteRest, TypeOK, Index
    <2> QED BY <1>7, <2>1, <2>2, <2>3 DEF CbWriteRest, TypeOK, qVars
<1>8. CASE WriteDot
    BY <1>8 DEF WriteDot, TypeOK, ring, qVars
<1>9. CASE RecvDot
    BY <1>9 DEF RecvDot, TypeOK, ring, solaceVars
<1>10. CASE TakeSize
    BY <1>10, SizeBounds DEF TakeSize, TypeOK, ring, solaceVars
<1>11. CASE NothingToRead
    BY <1>11 DEF NothingToRead, TypeOK, ring, solaceVars
<1>17. CASE SignalSpace
    BY <1>17 DEF SignalSpace, TypeOK, ring, solaceVars
<1>18. CASE AssertFails \/ DecodeFails
    BY <1>18 DEF AssertFails, DecodeFails, TypeOK, ring, solaceVars
<1>12. CASE CbRead
    <2>1. CASE qsize > CbSize(h, t)
        BY <1>12, <2>1 DEF CbRead, TypeOK, solaceVars
    <2>2. CASE ~(qsize > CbSize(h, t))
        <3>1. qsize <= CbSize(h, t)
            BY <2>2, SizeBounds DEF TypeOK
        <3>2. Slot(h, qsize) \in Index /\ Drain(d, h, qsize, rbuf) \in [Index -> Cell]
            <4>1. /\ d \in [Index -> Cell] /\ h \in Index /\ t \in Index
                  /\ qsize \in Nat /\ rpos \in Nat /\ rbuf \in [Index -> Cell]
                  /\ Holds(d, h, t, rpos)
                BY DEF TypeOK, BytesInOrder
            <4>2. Slot(h, qsize) \in Index
                BY <3>1, <4>1, HeadMoves
            <4> QED BY ONLY <3>1, <4>1, <4>2, ReadHead
        <3> QED BY <1>12, <2>2, <3>2 DEF CbRead, TypeOK, solaceVars
    <2> QED BY <2>1, <2>2
<1>13. CASE ParseFrame
    <2> PICK k \in DOMAIN log :
            /\ got' = Append(got, IF HasBytes(k, Frame(log[k])) THEN k ELSE Torn)
            /\ off' = off + Frame(log[k])
        BY <1>13 DEF ParseFrame
    <2>1. Frame(log[k]) \in Nat
        BY RecordFacts
    <2>2. (IF HasBytes(k, Frame(log[k])) THEN k ELSE Torn) \in Nat
        BY DEF TypeOK, Torn
    <2>3. got' \in Seq(Nat)
        BY <2>2 DEF TypeOK
    <2> QED BY <1>13, <2>1, <2>3 DEF ParseFrame, TypeOK, ring, solaceVars
<1>14. CASE ParseGarbage
    <2>1. got' \in Seq(Nat)
        BY <1>14 DEF ParseGarbage, TypeOK, Torn
    <2> QED BY <1>14, <2>1 DEF ParseGarbage, TypeOK, ring, solaceVars
<1>15. CASE Deliver
    BY <1>15 DEF Deliver, TypeOK, ring, solaceVars
<1> QED
    BY <1>1, <1>2, <1>3, <1>4, <1>5, <1>6, <1>7, <1>8, <1>9, <1>10, <1>11,
       <1>12, <1>13, <1>14, <1>15, <1>16, <1>17, <1>18
    DEF Next, Arrive, RxMessage, RxEvent, SolaceStep, QStep

-----------------------------------------------------------------------------
(* The log: only write_to_buffer extends it, at the position reached.      *)

LEMMA LogCases ==
    ASSUME [Next]_vars
    PROVE  \/ UNCHANGED log
           \/ \E len \in MsgSizes, kind \in {"s", "a"} : WriteToBuffer(len, kind)
BY DEF Next, vars, Arrive, RxMessage, RxEvent, RxTooBig, SolaceStep, CbWriteWait,
       CbWriteAll, CbWriteFirst, CbWriteRest, WriteDot, CountMessage,
       SpuriousWake, QStep, RecvDot, TakeSize, NothingToRead, CbRead,
       SignalSpace, ParseFrame, ParseGarbage, AssertFails, DecodeFails, Deliver,
       solaceVars

\* A new record starts where the last one ends; the others stay.
LEMMA LogGrows ==
    ASSUME IInv, NEW len \in MsgSizes, NEW kind \in {"s", "a"},
           WriteToBuffer(len, kind)
    PROVE  /\ Len(log') = Len(log) + 1 /\ Len(log) \in Nat
           /\ \A k \in 1 .. Len(log) : log'[k] = log[k] /\ EndOf(k)' = EndOf(k)
           /\ EndOf(0)' = EndOf(0) /\ EndOf(0) = 0
           /\ log'[Len(log) + 1] = [at |-> wpos, len |-> len, kind |-> kind,
                                     seqn |-> msg_recv]
           /\ Pending' = log'[Len(log) + 1]
           /\ wpos = EndOf(Len(log)) /\ len < MaxMsgSize
<1> USE DEF IInv
<1>1. Len(log') = Len(log) + 1 /\ Len(log) \in Nat
      /\ log'[Len(log) + 1] = [at |-> wpos, len |-> len, kind |-> kind,
                                seqn |-> msg_recv]
      /\ \A k \in 1 .. Len(log) : log'[k] = log[k]
    BY DEF WriteToBuffer, TypeOK
<1>2. \A k \in 1 .. Len(log) : EndOf(k)' = EndOf(k)
    BY <1>1 DEF EndOf, End, Frame
<1>3. wpos = EndOf(Len(log)) /\ len < MaxMsgSize
    BY DEF WriteToBuffer, WriterInv
<1> QED BY <1>1, <1>2, <1>3 DEF EndOf, Pending

LEMMA LogStep ==
    ASSUME IInv, [Next]_vars
    PROVE  LogInv'
<1> USE DEF IInv
<1>1. CASE UNCHANGED log
    BY <1>1 DEF LogInv, EndOf, End, Frame
<1>2. ASSUME NEW len \in MsgSizes, NEW kind \in {"s", "a"}, WriteToBuffer(len, kind)
      PROVE  LogInv'
    <2> DEFINE n == Len(log)
    <2>1. /\ Len(log') = n + 1 /\ n \in Nat
          /\ \A k \in 1 .. n : log'[k] = log[k] /\ EndOf(k)' = EndOf(k)
          /\ EndOf(0)' = EndOf(0)
          /\ log'[n + 1].at = EndOf(n) /\ log'[n + 1].len = len
          /\ len < MaxMsgSize
        <3>1. log'[n + 1] = [at |-> wpos, len |-> len, kind |-> kind,
                             seqn |-> msg_recv] /\ wpos = EndOf(n)
            BY <1>2, LogGrows
        <3>2. /\ Len(log') = n + 1 /\ n \in Nat /\ len < MaxMsgSize
              /\ EndOf(0)' = EndOf(0)
            BY <1>2, LogGrows
        <3>3. \A k \in 1 .. n : log'[k] = log[k] /\ EndOf(k)' = EndOf(k)
            BY <1>2, LogGrows
        <3> QED BY <3>1, <3>2, <3>3
    <2>2. ASSUME NEW k \in 1 .. n + 1
          PROVE  log'[k].len < MaxMsgSize /\ log'[k].at = EndOf(k - 1)'
        <3>1. CASE k = n + 1
            BY <2>1, <3>1
        <3>2. CASE k \in 1 .. n
            <4>1. log[k].len < MaxMsgSize /\ log[k].at = EndOf(k - 1)
                BY <3>2 DEF LogInv
            <4>2. k - 1 = 0 \/ k - 1 \in 1 .. n
                BY <2>1, <3>2
            <4> QED BY <2>1, <3>2, <4>1, <4>2
        <3> QED BY <2>1, <3>1, <3>2
    <2>3. ASSUME NEW j \in 1 .. n + 1, NEW k \in 1 .. n + 1, j < k
          PROVE  End(log'[j]) <= log'[k].at
        <3>1. j \in 1 .. n
            BY <2>1, <2>3
        <3>2. CASE k = n + 1
            <4>1. EndOf(j) <= EndOf(n) /\ EndOf(j) = End(log[j])
                BY <2>1, <3>1, EndOfMonotone DEF EndOf
            <4> QED BY <2>1, <3>1, <3>2, <4>1
        <3>3. CASE k \in 1 .. n
            BY <2>1, <2>3, <3>1, <3>3 DEF LogInv
        <3> QED BY <2>1, <3>2, <3>3
    <2>4. \A j \in 1 .. n + 1 : End(log[j])' = End(log'[j])
        BY DEF End, Frame
    <2> HIDE DEF n
    <2> QED BY <2>1, <2>2, <2>3, <2>4 DEF LogInv
<1> QED BY <1>1, <1>2, LogCases

-----------------------------------------------------------------------------
(* The ring: what each copy does to it.                                    *)

LEMMA RingCases ==
    ASSUME [Next]_vars
    PROVE  \/ UNCHANGED <<d, h, t, wpos, rpos>>
           \/ CbWriteAll \/ CbWriteFirst \/ CbWriteRest \/ CbRead
BY DEF Next, vars, ring, Arrive, RxMessage, RxEvent, WriteToBuffer, RxTooBig,
       SolaceStep, CbWriteWait, WriteDot, CountMessage, SpuriousWake, QStep,
       RecvDot, TakeSize, NothingToRead, SignalSpace, ParseFrame, ParseGarbage,
       AssertFails, DecodeFails, Deliver, solaceVars, qVars

LEMMA WriteAllRing ==
    ASSUME IInv, CbWriteAll
    PROVE  BytesInOrder' /\ CbSize(h, t)' = CbSize(h, t) + Frame(Pending)
<1>1. /\ d \in [Index -> Cell] /\ h \in Index /\ t \in Index
      /\ rpos \in Nat /\ wpos = rpos + CbSize(h, t) /\ Holds(d, h, t, rpos)
    BY DEF IInv, TypeOK, BytesInOrder
<1>2. Frame(Pending) \in Nat
    BY PendingFacts DEF CbWriteAll, IInv, WriterInv
<1>3. /\ Frame(Pending) <= CbSpace(h, t) /\ t + Frame(Pending) < N
      /\ d' = Fill(d, t, Frame(Pending), wpos) /\ t' = t + Frame(Pending)
      /\ wpos' = wpos + Frame(Pending) /\ h' = h /\ rpos' = rpos
    BY <1>1, <1>2 DEF CbWriteAll, Wraps, qVars, Index
<1>4. /\ CbSize(h, t + Frame(Pending)) = CbSize(h, t) + Frame(Pending)
      /\ Holds(Fill(d, t, Frame(Pending), wpos), h, t + Frame(Pending), rpos)
    BY <1>1, <1>2, <1>3, WriteTail
<1>5. CbSize(h, t) \in Nat
    BY <1>1, SizeBounds
<1> QED BY <1>1, <1>2, <1>3, <1>4, <1>5 DEF BytesInOrder

LEMMA WriteFirstRing ==
    ASSUME IInv, CbWriteFirst
    PROVE  /\ BytesInOrder' /\ CbSize(h, t)' = CbSize(h, t) + (N - t)
           /\ 0 <= Rest' /\ Rest' < h'
<1>1. /\ d \in [Index -> Cell] /\ h \in Index /\ t \in Index
      /\ rpos \in Nat /\ wpos = rpos + CbSize(h, t) /\ Holds(d, h, t, rpos)
    BY DEF IInv, TypeOK, BytesInOrder
<1>2. Frame(Pending) \in Nat /\ Pending.at \in Nat
      /\ End(Pending) = Pending.at + Frame(Pending) /\ wpos = Pending.at
    BY PendingFacts DEF CbWriteFirst, IInv, WriterInv
<1>3. /\ Frame(Pending) <= CbSpace(h, t) /\ N <= t + Frame(Pending)
      /\ d' = Fill(d, t, N - t, wpos) /\ t' = 0 /\ log' = log
      /\ wpos' = wpos + (N - t) /\ h' = h /\ rpos' = rpos
    BY <1>1, <1>2 DEF CbWriteFirst, Wraps, qVars, Index
<1>4. /\ t + Frame(Pending) - N < h
      /\ CbSize(h, 0) = CbSize(h, t) + (N - t)
      /\ Holds(Fill(d, t, N - t, wpos), h, 0, rpos)
    BY <1>1, <1>2, <1>3, WriteToEnd
<1>5. CbSize(h, t) \in Nat /\ N - t \in Nat
    BY <1>1, SizeBounds DEF Index
<1>6. Rest' = t + Frame(Pending) - N
    <2>1. End(Pending)' = End(Pending)
        BY <1>3 DEF End, Frame, Pending
    <2> QED BY <1>1, <1>2, <1>3, <2>1 DEF Rest, Index
<1>7. Rest' \in Nat /\ Rest' < h'
    BY <1>1, <1>2, <1>3, <1>4, <1>6 DEF Index
<1>8. CbSize(h, t)' = CbSize(h, t) + (N - t)
    BY <1>3, <1>4
<1>9. BytesInOrder'
    BY <1>1, <1>3, <1>4, <1>5, <1>8 DEF BytesInOrder
<1> QED BY <1>7, <1>8, <1>9

LEMMA WriteRestRing ==
    ASSUME IInv, CbWriteRest
    PROVE  /\ BytesInOrder' /\ CbSize(h, t)' = CbSize(h, t) + Rest
           /\ Rest \in Nat /\ wpos' = EndOf(Len(log)) /\ log' = log
<1>1. /\ d \in [Index -> Cell] /\ h \in Index /\ t \in Index
      /\ rpos \in Nat /\ wpos = rpos + CbSize(h, t) /\ Holds(d, h, t, rpos)
    BY DEF IInv, TypeOK, BytesInOrder
<1>2. /\ t = 0 /\ Rest \in Nat /\ Rest < h /\ End(Pending) = wpos + Rest
      /\ EndOf(Len(log)) = End(Pending)
    BY PendingFacts DEF CbWriteRest, IInv, WriterInv, Rest, TypeOK
<1>3. /\ d' = Fill(d, t, Rest, wpos) /\ t' = t + Rest /\ log' = log
      /\ wpos' = wpos + Rest /\ h' = h /\ rpos' = rpos
    BY <1>2 DEF CbWriteRest, qVars
<1>4. Rest <= CbSpace(h, t) /\ t + Rest < N
    BY <1>1, <1>2 DEF Index, CbSpace, CbSize
<1>5. /\ CbSize(h, t + Rest) = CbSize(h, t) + Rest
      /\ Holds(Fill(d, t, Rest, wpos), h, t + Rest, rpos)
    BY <1>1, <1>2, <1>4, WriteTail
<1>6. CbSize(h, t) \in Nat
    BY <1>1, SizeBounds
<1> QED BY <1>1, <1>2, <1>3, <1>5, <1>6 DEF BytesInOrder

\* cb_read is never refused: it takes the qsize oldest bytes.
LEMMA ReadRing ==
    ASSUME IInv, CbRead
    PROVE  /\ BytesInOrder' /\ CbSize(h, t)' = CbSize(h, t) - qsize
           /\ rpc' = "signal" /\ off' = 0 /\ rpos' = rpos + qsize
           /\ qsize' = qsize /\ qsize \in 1 .. N - 1 /\ log' = log
           /\ \A i \in 0 .. qsize - 1 : rbuf'[i] = rpos + i
<1>1. /\ d \in [Index -> Cell] /\ h \in Index /\ t \in Index
      /\ rpos \in Nat /\ wpos = rpos + CbSize(h, t) /\ Holds(d, h, t, rpos)
      /\ rbuf \in [Index -> Cell] /\ qsize \in Nat
    BY DEF IInv, TypeOK, BytesInOrder
<1>2. qsize > 0 /\ qsize <= CbSize(h, t)
    BY DEF IInv, SnapshotBounded, CbRead
<1>3. CbSize(h, t) \in 0 .. N - 1
    BY <1>1, SizeBounds
<1>4. /\ rbuf' = Drain(d, h, qsize, rbuf) /\ h' = Slot(h, qsize)
      /\ rpos' = rpos + qsize /\ rpc' = "signal" /\ off' = 0
      /\ d' = d /\ t' = t /\ qsize' = qsize /\ wpos' = wpos /\ log' = log
    BY <1>1, <1>2, <1>3 DEF CbRead, solaceVars
<1>5. /\ CbSize(Slot(h, qsize), t) = CbSize(h, t) - qsize
      /\ \A i \in 0 .. qsize - 1 : Drain(d, h, qsize, rbuf)[i] = rpos + i
      /\ Holds(d, Slot(h, qsize), t, rpos + qsize)
    <2>1. CbSize(Slot(h, qsize), t) = CbSize(h, t) - qsize
        BY <1>1, <1>2, HeadMoves
    <2>2. Holds(d, Slot(h, qsize), t, rpos + qsize)
        BY ONLY <1>1, <1>2, ReadHead
    <2>3. ASSUME NEW i \in 0 .. qsize - 1
          PROVE  Drain(d, h, qsize, rbuf)[i] = rpos + i
        BY ONLY <1>1, <1>2, <2>3, ReadHead
    <2> QED BY <2>1, <2>2, <2>3
<1> QED BY <1>1, <1>2, <1>3, <1>4, <1>5 DEF BytesInOrder

LEMMA BytesStep ==
    ASSUME IInv, [Next]_vars
    PROVE  BytesInOrder'
<1>1. CASE UNCHANGED <<d, h, t, wpos, rpos>>
    BY <1>1 DEF IInv, BytesInOrder
<1> QED BY <1>1, RingCases, WriteAllRing, WriteFirstRing, WriteRestRing, ReadRing

-----------------------------------------------------------------------------
(* The two threads' positions.                                             *)

LEMMA WriterStep ==
    ASSUME IInv, [Next]_vars
    PROVE  WriterInv'
<1>1. CASE UNCHANGED vars
    BY <1>1 DEF IInv, WriterInv, vars, ring, Rest, Pending, End, EndOf, Frame
<1>2. ASSUME NEW len \in MsgSizes, NEW kind \in {"s", "a"}, WriteToBuffer(len, kind)
      PROVE  WriterInv'
    <2>1. /\ Len(log') = Len(log) + 1 /\ Len(log) \in Nat
          /\ Pending' = [at |-> wpos, len |-> len, kind |-> kind,
                          seqn |-> msg_recv]
        BY <1>2, LogGrows
    <2> QED BY <1>2, <2>1 DEF WriteToBuffer, WriterInv
<1>3. ASSUME NEW len \in MsgSizes, RxTooBig(len)
      PROVE  WriterInv'
    BY <1>3 DEF RxTooBig, IInv, WriterInv, ring, Rest, Pending, End, EndOf, Frame
<1>4. CASE CbWriteWait \/ SpuriousWake
    BY <1>4 DEF CbWriteWait, SpuriousWake, IInv, WriterInv, Rest, Pending, End,
                EndOf, Frame
<1>5. CASE CbWriteAll
    <2>1. wpos = Pending.at /\ Len(log) > 0
        BY <1>5 DEF CbWriteAll, IInv, WriterInv
    <2>2. wpos' = EndOf(Len(log))
        BY <1>5, <2>1, PendingFacts DEF CbWriteAll, IInv
    <2> QED BY <1>5, <2>1, <2>2 DEF CbWriteAll, WriterInv, EndOf, End, Frame
<1>6. CASE CbWriteFirst
    <2>1. wpc' = "wrap" /\ t' = 0 /\ log' = log /\ Len(log) > 0
        BY <1>6 DEF CbWriteFirst, IInv, WriterInv
    <2> QED BY <1>6, <2>1, WriteFirstRing DEF WriterInv
<1>7. CASE CbWriteRest
    <2>1. wpc' = "dot" /\ Len(log) > 0
        BY <1>7 DEF CbWriteRest, IInv, WriterInv
    <2> QED BY <1>7, <2>1, WriteRestRing DEF WriterInv, EndOf, End, Frame
<1>8. CASE WriteDot
    BY <1>8 DEF WriteDot, IInv, WriterInv, EndOf, End, Frame
<1>9. CASE CountMessage
    BY <1>9 DEF CountMessage, IInv, WriterInv, EndOf, End, Frame
<1>10. CASE CbRead
    BY <1>10 DEF CbRead, LockHeld, IInv, WriterInv, solaceVars, Pending, EndOf,
                 End, Frame
<1>11. CASE SignalSpace
    BY <1>11 DEF SignalSpace, ring, IInv, WriterInv, solaceVars, Pending, Rest,
                 EndOf, End, Frame
<1>12. CASE QStep /\ ~CbRead /\ ~SignalSpace
    <2>1. UNCHANGED <<h, t, wpc, wpos, log>>
        BY <1>12 DEF QStep, RecvDot, TakeSize, NothingToRead, ParseFrame,
                     ParseGarbage, AssertFails, DecodeFails, Deliver, ring, solaceVars
    <2> QED BY <2>1 DEF IInv, WriterInv, Pending, Rest, EndOf, End, Frame
<1> QED
    BY <1>1, <1>2, <1>3, <1>4, <1>5, <1>6, <1>7, <1>8, <1>9, <1>10, <1>11, <1>12
    DEF Next, Arrive, RxMessage, RxEvent, SolaceStep

\* The context thread only adds bytes; of the q thread's steps only cb_read
\* takes some.
LEMMA SizeSteps ==
    ASSUME IInv, [Next]_vars
    PROVE  /\ CbSize(h, t) \in Nat
           /\ Solace => CbSize(h, t)' >= CbSize(h, t)
           /\ UNCHANGED vars \/ (QStep /\ ~CbRead) => UNCHANGED <<h, t>>
<1>1. CbSize(h, t) \in Nat /\ h \in Index /\ t \in Index
    BY SizeBounds DEF IInv, TypeOK
<1>2. ASSUME Solace PROVE CbSize(h, t)' >= CbSize(h, t)
    <2>1. CASE UNCHANGED <<d, h, t, wpos, rpos>>
        BY <1>1, <2>1
    <2>2. CASE CbWriteAll
        <3>1. Frame(Pending) \in Nat
            BY <2>2, PendingFacts DEF CbWriteAll, IInv, WriterInv
        <3> QED BY <1>1, <2>2, <3>1, WriteAllRing
    <2>3. CASE CbWriteFirst
        <3>1. N - t \in Nat
            BY <1>1 DEF Index
        <3> QED BY <1>1, <2>3, <3>1, WriteFirstRing
    <2>4. CASE CbWriteRest
        BY <1>1, <2>4, WriteRestRing
    <2>5. CASE CbRead
        <3>1. rpc = "read" /\ rpc' = "signal"
            BY <2>5, ReadRing DEF CbRead
        <3> QED BY <1>2, <3>1, SolaceFrame DEF qVars
    <2> QED BY <2>1, <2>2, <2>3, <2>4, <2>5, RingCases
<1>3. ASSUME QStep, ~CbRead PROVE UNCHANGED <<h, t>>
    BY <1>3 DEF QStep, RecvDot, TakeSize, NothingToRead, SignalSpace, ParseFrame,
                ParseGarbage, AssertFails, DecodeFails, Deliver, ring
<1> QED BY <1>1, <1>2, <1>3 DEF vars, ring

LEMMA SnapshotStep ==
    ASSUME IInv, [Next]_vars
    PROVE  SnapshotBounded'
<1>1. CbSize(h, t) \in Nat /\ qsize \in Nat
    BY SizeSteps DEF IInv, TypeOK
<1>2. CASE UNCHANGED vars
    BY <1>2 DEF IInv, SnapshotBounded, vars, ring
<1>3. CASE Solace
    <2>1. UNCHANGED <<rpc, qsize>> /\ CbSize(h, t)' >= CbSize(h, t)
        BY <1>3, SolaceFrame, SizeSteps DEF qVars
    <2>2. CbSize(h, t)' \in Nat
        BY TypeStep, SizeBounds DEF TypeOK
    <2> QED BY <1>1, <2>1, <2>2 DEF IInv, SnapshotBounded
<1>4. CASE TakeSize
    BY <1>1, <1>4 DEF TakeSize, SnapshotBounded, ring
<1>5. CASE QStep /\ ~TakeSize
    <2>1. rpc' # "read"
        BY <1>5, ReadRing DEF QStep, RecvDot, NothingToRead, SignalSpace, ParseFrame,
                    ParseGarbage, Garbage, AssertFails, DecodeFails, Deliver
    <2> QED BY <2>1 DEF SnapshotBounded
<1> QED BY <1>2, <1>3, <1>4, <1>5, NextCases

LEMMA WakeupStep ==
    ASSUME IInv, [Next]_vars
    PROVE  WakeupPending'
<1>1. CbSize(h, t) \in Nat /\ qsize \in Nat /\ tokens \in 0 .. SockCap
      /\ WakeupPending
    BY SizeSteps DEF IInv, TypeOK
<1>2. CASE UNCHANGED vars
    BY <1>1, <1>2 DEF WakeupPending, Covered, vars, ring
<1>3. ASSUME UNCHANGED <<h, t, rpc, qsize, tokens>>, wpc \notin {"wrap", "dot"}
      PROVE  WakeupPending'
    BY <1>1, <1>3 DEF WakeupPending, Covered
<1>4. CASE Arrive \/ CbWriteWait \/ SpuriousWake \/ CountMessage
    <2>1. UNCHANGED <<h, t, rpc, qsize, tokens>> /\ wpc \notin {"wrap", "dot"}
        BY <1>4 DEF Arrive, RxMessage, RxEvent, WriteToBuffer, RxTooBig,
                    CbWriteWait, SpuriousWake, CountMessage, ring, qVars
    <2> QED BY <1>3, <2>1
<1>5. CASE CbWriteAll \/ CbWriteFirst \/ CbWriteRest
    <2>1. wpc' \in {"wrap", "dot"}
        BY <1>5 DEF CbWriteAll, CbWriteFirst, CbWriteRest
    <2> QED BY <2>1 DEF WakeupPending
<1>6. CASE WriteDot
    <2>1. tokens' > 0
        BY <1>1, <1>6 DEF WriteDot
    <2> QED BY <2>1 DEF WakeupPending
<1>7. CASE RecvDot \/ TakeSize
    <2>1. CbSize(h, t)' = Covered'
        BY <1>7 DEF RecvDot, TakeSize, Covered, ring
    <2> QED BY <1>1, <1>7, <2>1 DEF WakeupPending, RecvDot, TakeSize, ring
<1>8. CASE NothingToRead
    BY <1>8 DEF NothingToRead, WakeupPending, Covered, ring
<1>9. CASE CbRead
    <2>1. /\ CbSize(h, t)' = CbSize(h, t) - qsize /\ Covered = qsize
          /\ Covered' = 0 /\ UNCHANGED <<tokens, wpc>>
        BY <1>9, ReadRing DEF CbRead, Covered
    <2> QED BY <1>1, <2>1 DEF WakeupPending
<1>10. CASE SignalSpace
    BY <1>1, <1>10 DEF SignalSpace, WakeupPending, Covered, ring
<1>11. CASE ParseFrame \/ ParseGarbage \/ AssertFails \/ DecodeFails \/ Deliver
    <2>1. Covered = 0 /\ Covered' = 0 /\ UNCHANGED <<h, t, tokens, wpc>>
        BY <1>11 DEF ParseFrame, ParseGarbage, AssertFails, DecodeFails, Garbage, Deliver,
                     Covered, ring
    <2> QED BY <1>1, <2>1 DEF WakeupPending
<1> QED
    BY <1>2, <1>4, <1>5, <1>6, <1>7, <1>8, <1>9, <1>10, <1>11
    DEF Next, SolaceStep, QStep

LEMMA SignalStep ==
    ASSUME IInv, [Next]_vars
    PROVE  NoLostSignal'
<1>1. NoLostSignal
    BY DEF IInv
<1>2. CASE UNCHANGED vars
    BY <1>1, <1>2 DEF NoLostSignal, Pending, Frame, vars, ring
<1>3. CASE CbWriteWait
    BY <1>3 DEF CbWriteWait, NoLostSignal, Pending, Frame, ring
<1>4. CASE Arrive \/ SpuriousWake \/ (SolaceStep /\ ~CbWriteWait)
    <2>1. wpc' # "cond_wait"
        BY <1>4 DEF Arrive, RxMessage, RxEvent, WriteToBuffer, RxTooBig,
                    SpuriousWake, SolaceStep, CbWriteAll, CbWriteFirst,
                    CbWriteRest, WriteDot, CountMessage
    <2> QED BY <2>1 DEF NoLostSignal
<1>5. CASE CbRead
    BY <1>5, ReadRing DEF NoLostSignal
<1>6. CASE SignalSpace
    BY <1>6 DEF SignalSpace, NoLostSignal
<1>7. CASE QStep /\ ~CbRead /\ ~SignalSpace
    <2>1. UNCHANGED <<h, t, wpc, log>> /\ rpc # "signal"
        BY <1>7 DEF QStep, RecvDot, TakeSize, NothingToRead, ParseFrame,
                    ParseGarbage, AssertFails, DecodeFails, Garbage, Deliver, ring, solaceVars
    <2> QED BY <1>1, <2>1 DEF NoLostSignal, Pending, Frame
<1> QED BY <1>2, <1>3, <1>4, <1>5, <1>6, <1>7, NextCases DEF Solace

-----------------------------------------------------------------------------
(* What the q thread takes out.                                            *)

\* Arrivals do not move the records already there.
LEMMA EndOfKept ==
    ASSUME IInv, [Next]_vars
    PROVE  /\ Len(log) \in Nat /\ Len(log') \in Nat /\ Len(log) <= Len(log')
           /\ \A k \in 0 .. Len(log) : EndOf(k)' = EndOf(k)
<1>1. Len(log) \in Nat
    BY DEF IInv, TypeOK
<1>2. CASE UNCHANGED log
    BY <1>1, <1>2 DEF EndOf, End, Frame
<1>3. ASSUME NEW len \in MsgSizes, NEW kind \in {"s", "a"}, WriteToBuffer(len, kind)
      PROVE  /\ Len(log') = Len(log) + 1
             /\ \A k \in 0 .. Len(log) : EndOf(k)' = EndOf(k)
    <2>1. \A k \in 1 .. Len(log) : EndOf(k)' = EndOf(k)
        BY <1>3, LogGrows
    <2>2. Len(log') = Len(log) + 1
        BY <1>3, LogGrows
    <2>3. EndOf(0)' = EndOf(0)
        BY DEF EndOf
    <2>4. \A k \in 0 .. Len(log) : k = 0 \/ k \in 1 .. Len(log)
        BY <1>1
    <2> QED BY <2>1, <2>2, <2>3, <2>4
<1> QED BY <1>1, <1>2, <1>3, LogCases

\* While nothing is torn, the q thread finds the next record, whole, at off.
LEMMA NextFrame ==
    ASSUME IInv, ~torn, rpc = "parse", off < qsize
    PROVE  /\ Len(got) + 1 \in DOMAIN log
           /\ EndOf(Len(got) + 1) = EndOf(Len(got)) + Frame(log[Len(got) + 1])
           /\ off + Frame(log[Len(got) + 1]) <= qsize
           /\ HasBytes(Len(got) + 1, Frame(log[Len(got) + 1]))
           /\ HasBytes(Len(got) + 1, HeaderSize)
           /\ \A k \in DOMAIN log : HasBytes(k, HeaderSize) => k = Len(got) + 1
<1> DEFINE g == Len(got)
<1>1. /\ g \in Nat /\ Len(log) \in Nat /\ g <= Len(log) /\ off \in Nat
      /\ qsize \in 1 .. N - 1 /\ rpos \in Nat
      /\ rpos - qsize + off = EndOf(g)
      /\ \A i \in 0 .. qsize - 1 : rbuf[i] = rpos - qsize + i
    BY DEF IInv, TypeOK, ReaderInv
<1>2. PICK k0 \in 0 .. Len(log) : rpos = EndOf(k0)
    BY DEF IInv, ReaderInv, AtBoundary
<1>3. g < k0 /\ g + 1 \in 1 .. Len(log) /\ EndOf(g + 1) <= rpos
    <2>1. ~(k0 < g) /\ k0 # g
        <3>1. EndOf(g) < EndOf(k0)
            BY <1>1, <1>2
        <3>2. g \in 0 .. Len(log)
            BY <1>1
        <3>3. k0 < g => EndOf(k0) < EndOf(g)
            BY <3>2, EndOfMonotone DEF IInv
        <3>4. EndOf(g) \in Nat /\ EndOf(k0) \in Nat
            BY <3>2, EndOfMonotone DEF IInv
        <3> QED BY <3>1, <3>3, <3>4
    <2>2. g < k0 /\ g + 1 \in 1 .. Len(log)
        BY <1>1, <2>1
    <2>3. EndOf(g + 1) <= EndOf(k0)
        <3>1. g + 1 \in 0 .. Len(log) /\ (g + 1 < k0 \/ g + 1 = k0)
            BY <1>1, <2>2
        <3>2. g + 1 < k0 => EndOf(g + 1) < EndOf(k0)
            BY <3>1, EndOfMonotone DEF IInv
        <3>3. EndOf(g + 1) \in Nat /\ EndOf(k0) \in Nat
            BY <3>1, EndOfMonotone DEF IInv
        <3> QED BY <3>1, <3>2, <3>3
    <2> QED BY <1>2, <2>2, <2>3
<1>4. /\ log[g + 1].at = EndOf(g) /\ EndOf(g + 1) = End(log[g + 1])
      /\ g + 1 \in DOMAIN log
    <2>1. log[g + 1].at = EndOf(g + 1 - 1) /\ g + 1 - 1 = g
        BY <1>1, <1>3 DEF IInv, LogInv
    <2> QED BY <1>1, <1>3, <2>1 DEF EndOf, IInv, TypeOK
<1> DEFINE f == Frame(log[g + 1])
<1>5. f \in Nat /\ f > HeaderSize /\ EndOf(g + 1) = EndOf(g) + f
      /\ EndOf(g) \in Nat
    BY <1>4, RecordFacts DEF IInv
<1> HIDE DEF f, g
<1>6. off + f <= qsize
    BY <1>1, <1>3, <1>5
<1>7. \A i \in 0 .. f - 1 : off + i \in Index /\ rbuf[off + i] = log[g + 1].at + i
    <2> SUFFICES ASSUME NEW i \in 0 .. f - 1
                 PROVE  off + i \in Index /\ rbuf[off + i] = log[g + 1].at + i
        OBVIOUS
    <2>1. off + i \in 0 .. qsize - 1 /\ off + i \in Index
        BY <1>1, <1>5, <1>6 DEF Index
    <2>2. rbuf[off + i] = rpos - qsize + (off + i)
        BY <1>1, <2>1
    <2> QED BY <1>1, <1>4, <1>5, <2>1, <2>2
<1>8. HasBytes(g + 1, f) /\ HasBytes(g + 1, HeaderSize)
    BY <1>5, <1>7 DEF HasBytes
<1>9. ASSUME NEW k \in DOMAIN log, HasBytes(k, HeaderSize)
      PROVE  k = g + 1
    <2>1. log[k].at = log[g + 1].at
        <3>1. 0 \in 0 .. HeaderSize - 1 /\ 0 \in 0 .. f - 1
            BY <1>5
        <3>2. rbuf[off + 0] = log[k].at + 0
            BY <1>9, <3>1 DEF HasBytes
        <3>3. rbuf[off + 0] = log[g + 1].at + 0
            BY <1>7, <3>1
        <3>4. log[k].at \in Nat /\ log[g + 1].at \in Nat
            BY <1>4, RecordFacts DEF IInv
        <3> QED BY <3>2, <3>3, <3>4
    <2>2. k \in 1 .. Len(log) /\ g + 1 \in 1 .. Len(log)
        BY <1>3 DEF IInv, TypeOK
    <2>3. /\ k < g + 1 => End(log[k]) <= log[g + 1].at
          /\ g + 1 < k => End(log[g + 1]) <= log[k].at
        BY <2>2 DEF IInv, LogInv
    <2>4. /\ End(log[k]) > log[k].at /\ End(log[g + 1]) > log[g + 1].at
          /\ log[k].at \in Nat /\ End(log[k]) \in Nat /\ End(log[g + 1]) \in Nat
        <3>1. TypeOK
            BY DEF IInv
        <3> QED BY <1>4, <3>1, RecordFacts
    <2> QED BY <1>1, <2>1, <2>2, <2>3, <2>4
<1> QED BY <1>4, <1>5, <1>6, <1>8, <1>9 DEF f, g

\* ReaderInv when nothing is torn, with the length of got made explicit.
LEMMA ReaderFacts ==
    ASSUME IInv, ~torn
    PROVE  /\ ~Aborted /\ Len(got) \in 0 .. Len(log) /\ Len(log) \in Nat
           /\ rpc \in {"idle", "size", "read"} => rpos = EndOf(Len(got))
           /\ rpc = "read" => AtBoundary(rpos + qsize)
           /\ rpc \in {"signal", "parse"} =>
                 /\ off <= qsize /\ qsize < N
                 /\ rpos - qsize + off = EndOf(Len(got))
                 /\ AtBoundary(rpos)
                 /\ \A i \in 0 .. qsize - 1 : rbuf[i] = rpos - qsize + i
           /\ qsize \in Nat /\ off \in Nat /\ rpos \in Nat
BY DEF IInv, ReaderInv, TypeOK

LEMMA ReaderStep ==
    ASSUME IInv, [Next]_vars
    PROVE  ReaderInv'
<1> SUFFICES ASSUME ~torn'
             PROVE  /\ ~Aborted' /\ Len(got') <= Len(log')
                    /\ rpc' \in {"idle", "size", "read"} => rpos' = EndOf(Len(got))'
                    /\ rpc' = "read" => \E k \in 0 .. Len(log') :
                                          rpos' + qsize' = EndOf(k)'
                    /\ rpc' \in {"signal", "parse"} =>
                         /\ off' <= qsize' /\ qsize' < N
                         /\ rpos' - qsize' + off' = EndOf(Len(got))'
                         /\ \E k \in 0 .. Len(log') : rpos' = EndOf(k)'
                         /\ \A i \in 0 .. qsize' - 1 : rbuf'[i] = rpos' - qsize' + i
    BY DEF ReaderInv, AtBoundary
<1>0. ~torn
    BY SolaceFrame, NextCases DEF vars, qVars, QStep, RecvDot, TakeSize,
       NothingToRead, CbRead, SignalSpace, ParseFrame, ParseGarbage, AssertFails, DecodeFails,
       Deliver
<1> DEFINE L == Len(log)
           g == Len(got)
<1>1. /\ ~Aborted /\ g \in 0 .. L /\ L \in Nat
      /\ qsize \in Nat /\ off \in Nat /\ rpos \in Nat
      /\ rpc \in {"idle", "size", "read"} => rpos = EndOf(g)
      /\ rpc = "read" => \E k \in 0 .. L : rpos + qsize = EndOf(k)
      /\ rpc \in {"signal", "parse"} =>
            /\ off <= qsize /\ qsize < N
            /\ rpos - qsize + off = EndOf(g)
            /\ \E k \in 0 .. L : rpos = EndOf(k)
            /\ \A i \in 0 .. qsize - 1 : rbuf[i] = rpos - qsize + i
    BY <1>0, ReaderFacts DEF AtBoundary
<1>2. /\ Len(log') \in Nat /\ L <= Len(log')
      /\ \A k \in 0 .. L : k \in 0 .. Len(log') /\ EndOf(k)' = EndOf(k)
    <2>1. Len(log') \in Nat /\ L <= Len(log')
        BY EndOfKept
    <2>2. \A k \in 0 .. L : EndOf(k)' = EndOf(k)
        BY EndOfKept
    <2> QED BY <1>1, <2>1, <2>2
\* The boundary after got is the same unless got grows.
<1>3. ASSUME got' = got
      PROVE  EndOf(Len(got))' = EndOf(g) /\ Len(got') <= Len(log')
    <2>1. EndOf(Len(got))' = EndOf(g)'
        BY <1>3 DEF EndOf, End, Frame
    <2> QED BY <1>1, <1>2, <1>3, <2>1
<1> HIDE DEF L, g
<1>4. CASE UNCHANGED vars \/ Solace
    <2>1. UNCHANGED <<rpc, qsize, off, rbuf, rpos, got>>
        BY <1>4, SolaceFrame DEF vars, qVars
    <2> QED BY <1>1, <1>2, <1>3, <2>1 DEF Aborted
<1>5. CASE RecvDot \/ NothingToRead
    <2>1. /\ rpc \in {"idle", "size"} /\ rpc' \in {"idle", "size"}
          /\ UNCHANGED <<rpos, got>>
        BY <1>5 DEF RecvDot, NothingToRead
    <2> QED BY <1>1, <1>3, <2>1 DEF Aborted
<1>6. CASE TakeSize
    <2>1. /\ rpc = "size" /\ rpc' = "read" /\ UNCHANGED <<rpos, got>>
          /\ qsize' = CbSize(h, t) /\ (wpc = "wrap" => Rest <= 0)
        <3>1. torn' = (torn \/ (wpc = "wrap" /\ Rest > 0))
            BY <1>6 DEF TakeSize
        <3>2. ~(wpc = "wrap" /\ Rest > 0)
            BY <1>0, <3>1
        <3>3. wpc = "wrap" => Rest \in Int
            BY PendingFacts DEF IInv, WriterInv, Rest, TypeOK
        <3> QED BY <1>6, <3>2, <3>3 DEF TakeSize
    <2>2. wpos = rpos + qsize'
        BY <2>1 DEF IInv, BytesInOrder
    <2>3. \E k \in 0 .. L : wpos = EndOf(k)
        <3>1. CASE wpc \in {"idle", "dot", "count"}
            BY <1>1, <3>1 DEF IInv, WriterInv, L
        <3>2. CASE wpc \in {"cb_write", "cond_wait"}
            <4>1. L > 0 /\ L \in 1 .. L /\ wpos = log[L].at
                BY <1>1, <3>2 DEF IInv, WriterInv, Pending, L
            <4>2. log[L].at = EndOf(L - 1) /\ L - 1 \in 0 .. L
                BY <1>1, <4>1 DEF IInv, LogInv, L
            <4> QED BY <4>1, <4>2
        <3>3. CASE wpc = "wrap"
            <4>1. Rest = 0 /\ EndOf(L) = End(Pending) /\ End(Pending) \in Nat
                  /\ wpos \in Nat
                BY <2>1, <3>3, PendingFacts DEF IInv, WriterInv, L, TypeOK, Rest
            <4> QED BY <1>1, <4>1 DEF Rest
        <3> QED BY <3>1, <3>2, <3>3 DEF IInv, TypeOK
    <2>4. \E k \in 0 .. Len(log') : rpos' + qsize' = EndOf(k)'
        BY <1>2, <2>1, <2>2, <2>3
    <2> QED BY <1>1, <1>3, <2>1, <2>4 DEF Aborted
<1>7. CASE CbRead
    <2>1. /\ rpc = "read" /\ rpc' = "signal" /\ off' = 0 /\ qsize' = qsize
          /\ rpos' = rpos + qsize /\ qsize \in 1 .. N - 1 /\ got' = got
          /\ \A i \in 0 .. qsize - 1 : rbuf'[i] = rpos + i
        BY <1>7, ReadRing DEF CbRead
    <2>2. \E k \in 0 .. Len(log') : rpos' = EndOf(k)'
        BY <1>1, <1>2, <2>1
    <2>3. rpos' - qsize' + off' = EndOf(g) /\ off' <= qsize' /\ qsize' < N
        BY <1>1, <2>1
    <2>4. ASSUME NEW i \in 0 .. qsize' - 1
          PROVE  rbuf'[i] = rpos' - qsize' + i
        BY <1>1, <2>1, <2>4
    <2> QED BY <1>3, <2>1, <2>2, <2>3, <2>4 DEF Aborted
<1>8. CASE SignalSpace
    <2>1. /\ rpc = "signal" /\ rpc' = "parse"
          /\ UNCHANGED <<qsize, off, rbuf, rpos, got>>
        BY <1>8 DEF SignalSpace
    <2> QED BY <1>1, <1>2, <1>3, <2>1 DEF Aborted
<1>9. CASE ParseFrame
    <2> DEFINE f == Frame(log[g + 1])
    <2>1. /\ g + 1 \in DOMAIN log /\ EndOf(g + 1) = EndOf(g) + f
          /\ off + f <= qsize /\ HasBytes(g + 1, f)
          /\ \A k \in DOMAIN log : HasBytes(k, HeaderSize) => k = g + 1
        BY <1>0, <1>9, NextFrame DEF ParseFrame, g
    <2>2. /\ rpc = "parse" /\ rpc' = "parse" /\ got' = Append(got, g + 1)
          /\ off' = off + f /\ UNCHANGED <<qsize, rbuf, rpos>>
        BY <1>9, <2>1 DEF ParseFrame
    <2>3. f \in Nat /\ EndOf(g) \in Nat /\ g + 1 \in 0 .. L
        BY <1>1, <2>1, RecordFacts, EndOfMonotone DEF IInv, TypeOK, L
    <2>4. Len(got') = g + 1
        BY <2>2 DEF IInv, TypeOK, g
    <2>5. EndOf(Len(got))' = EndOf(g + 1)
        <3>1. \A k \in 0 .. L : k = Len(got') => EndOf(Len(got))' = EndOf(k)'
            BY DEF EndOf, End, Frame
        <3>2. \A k \in 0 .. L : k = Len(got') => EndOf(Len(got))' = EndOf(k)
            BY <1>2, <3>1
        <3> QED BY <2>3, <2>4, <3>2
    <2>6. rpos' - qsize' + off' = EndOf(Len(got))' /\ off' <= qsize' /\ qsize' < N
        BY <1>1, <2>1, <2>2, <2>3, <2>5
    <2>7. Len(got') <= Len(log')
        BY <1>1, <1>2, <2>3, <2>4
    <2>8. \E k \in 0 .. Len(log') : rpos' = EndOf(k)'
        BY <1>1, <1>2, <2>2
    <2> QED BY <1>1, <2>2, <2>6, <2>7, <2>8 DEF Aborted
<1>10. CASE Garbage
    BY <1>0, <1>10, NextFrame DEF Garbage
<1>12. CASE DecodeFails
    BY <1>0, <1>12, NextFrame DEF DecodeFails
<1>11. CASE Deliver
    <2>1. /\ rpc = "parse" /\ off >= qsize /\ rpc' = "idle"
          /\ UNCHANGED <<rpos, got>>
        BY <1>11 DEF Deliver
    <2>2. rpos = EndOf(g)
        BY <1>1, <2>1
    <2> QED BY <1>3, <2>1, <2>2 DEF Aborted
<1> QED
    BY <1>4, <1>5, <1>6, <1>7, <1>8, <1>9, <1>10, <1>11, <1>12, NextCases
    DEF QStep, ParseGarbage, AssertFails

LEMMA DeliveredStep ==
    ASSUME IInv, [Next]_vars
    PROVE  DeliveredInOrder'
<1>1. CASE got' = got /\ (torn => torn')
    BY <1>1 DEF IInv, DeliveredInOrder
<1>2. CASE ParseFrame
    <2> SUFFICES ASSUME ~torn', NEW i \in DOMAIN got'
                 PROVE  got'[i] = i
        BY DEF DeliveredInOrder
    <2>1. ~torn /\ \A j \in DOMAIN got : got[j] = j
        BY <1>2 DEF ParseFrame, IInv, DeliveredInOrder
    <2>2. got' = Append(got, Len(got) + 1)
        BY <1>2, <2>1, NextFrame DEF ParseFrame
    <2>3. got \in Seq(Nat)
        BY DEF IInv, TypeOK
    <2> QED BY <2>1, <2>2, <2>3
<1>3. CASE ParseGarbage
    BY <1>3, NextFrame DEF ParseGarbage, Garbage, DeliveredInOrder
<1>4. CASE ~ParseFrame /\ ~ParseGarbage
    <2>1. CASE UNCHANGED vars \/ Solace
        BY <1>1, <2>1, SolaceFrame DEF vars, qVars
    <2>2. CASE QStep
        <3>1. got' = got
            BY <1>4, <2>2 DEF QStep, RecvDot, TakeSize, NothingToRead, CbRead,
                              SignalSpace, AssertFails, DecodeFails, Deliver
        <3>2. torn => torn'
            BY <1>4, <2>2 DEF QStep, RecvDot, TakeSize, NothingToRead, CbRead,
                              SignalSpace, AssertFails, DecodeFails, Deliver
        <3> QED BY <1>1, <3>1, <3>2
    <2> QED BY <2>1, <2>2, NextCases
<1> QED BY <1>2, <1>3, <1>4

-----------------------------------------------------------------------------
(* Sequence numbers.                                                       *)

LEMMA SeqnStep ==
    ASSUME IInv, [Next]_vars
    PROVE  SeqnOrder'
<1>1. /\ Len(log) \in Nat /\ DOMAIN log = 1 .. Len(log) /\ msg_recv \in Nat
      /\ SeqnOrder /\ \A k \in DOMAIN log : log[k].seqn \in Nat
    BY RecordFacts DEF IInv, TypeOK
<1>2. ASSUME NEW len \in MsgSizes, NEW kind \in {"s", "a"}, WriteToBuffer(len, kind)
      PROVE  SeqnOrder'
    <2> DEFINE n == Len(log)
    <2>1. log'[n + 1] = [at |-> wpos, len |-> len, kind |-> kind, seqn |-> msg_recv]
        BY <1>2, LogGrows
    <2>2. Len(log') = n + 1 /\ DOMAIN log' = 1 .. n + 1
          /\ \A k \in 1 .. n : log'[k] = log[k]
        BY <1>2 DEF WriteToBuffer, IInv, TypeOK
    <2>3. msg_recv' = msg_recv /\ wpc = "idle" /\ wpc' = "cb_write"
        BY <1>2 DEF WriteToBuffer
    <2>4. \A k \in 1 .. n : /\ log[k].seqn <= msg_recv
                            /\ log[k].kind = "s" => log[k].seqn < msg_recv
        BY <1>1, <2>3 DEF SeqnOrder, Counted
    <2> HIDE DEF n
    <2>5. ASSUME NEW k \in DOMAIN log'
          PROVE  log'[k].seqn <= msg_recv' /\ (Counted(k)' => log'[k].seqn < msg_recv')
        <3>1. CASE k = n + 1
            BY <1>1, <2>1, <2>2, <2>3, <3>1 DEF Counted
        <3>2. CASE k \in 1 .. n
            BY <1>1, <2>2, <2>3, <2>4, <3>2 DEF Counted
        <3> QED BY <1>1, <2>2, <3>1, <3>2 DEF n
    <2>6. ASSUME NEW j \in DOMAIN log', NEW k \in DOMAIN log', j < k
          PROVE  /\ log'[j].seqn <= log'[k].seqn
                 /\ log'[j].kind = "s" => log'[j].seqn < log'[k].seqn
        <3>1. j \in 1 .. n
            BY <1>1, <2>2, <2>6 DEF n
        <3>2. CASE k = n + 1
            BY <2>1, <2>2, <2>4, <3>1, <3>2
        <3>3. CASE k \in 1 .. n
            BY <1>1, <2>2, <2>6, <3>1, <3>3 DEF SeqnOrder, n
        <3> QED BY <1>1, <2>2, <3>2, <3>3 DEF n
    <2> QED BY <2>5, <2>6 DEF SeqnOrder
<1>3. ASSUME log' = log, msg_recv' \in {msg_recv, msg_recv + 1},
             wpc' = "idle" => \/ wpc = "idle"
                              \/ msg_recv' = msg_recv + 1
                              \/ Pending.kind # "s"
      PROVE  SeqnOrder'
    <2>1. ASSUME NEW k \in DOMAIN log
          PROVE  log[k].seqn <= msg_recv' /\ (Counted(k)' => log[k].seqn < msg_recv')
        <3>1. log[k].seqn <= msg_recv /\ (Counted(k) => log[k].seqn < msg_recv)
            BY <1>1 DEF SeqnOrder
        <3>2. CASE Counted(k) \/ msg_recv' = msg_recv + 1
            BY <1>1, <1>3, <3>1, <3>2
        <3>3. CASE ~Counted(k) /\ msg_recv' = msg_recv
            <4>1. ~Counted(k)'
                BY <1>1, <1>3, <3>3 DEF Counted, Pending
            <4> QED BY <3>1, <3>3, <4>1
        <3> QED BY <1>3, <3>2, <3>3
    <2> QED BY <1>1, <1>3, <2>1 DEF SeqnOrder
<1>4. CASE UNCHANGED vars
    BY <1>3, <1>4 DEF vars, stats
<1>5. ASSUME NEW len \in MsgSizes, RxTooBig(len)
      PROVE  SeqnOrder'
    BY <1>3, <1>5 DEF RxTooBig
<1>6. CASE CbWriteWait \/ CbWriteAll \/ CbWriteFirst \/ CbWriteRest \/ SpuriousWake
    BY <1>3, <1>6 DEF CbWriteWait, CbWriteAll, CbWriteFirst, CbWriteRest,
                      SpuriousWake
<1>7. CASE WriteDot
    BY <1>3, <1>7 DEF WriteDot
<1>8. CASE CountMessage
    BY <1>3, <1>8 DEF CountMessage
<1>9. CASE QStep
    <2>1. log' = log /\ msg_recv' = msg_recv
        BY <1>9, QFrame DEF solaceVars
    <2>2. wpc' = "idle" => wpc = "idle"
        BY <1>9 DEF QStep, RecvDot, TakeSize, NothingToRead, CbRead, SignalSpace,
                    ParseFrame, ParseGarbage, AssertFails, DecodeFails, Deliver
    <2> QED BY <1>3, <2>1, <2>2
<1> QED
    BY <1>2, <1>4, <1>5, <1>6, <1>7, <1>8, <1>9
    DEF Next, Arrive, RxMessage, RxEvent, SolaceStep

-----------------------------------------------------------------------------
(* The theorems.                                                           *)

LEMMA InitIInv == Init => IInv
<1> SUFFICES ASSUME Init PROVE IInv
    OBVIOUS
<1>1. TypeOK
    BY InitType
<1>2. BytesInOrder
    BY DEF Init, BytesInOrder, Holds, CbSize
<1>3. WakeupPending
    BY DEF Init, WakeupPending, Covered, CbSize
<1>4. LogInv /\ WriterInv /\ ReaderInv /\ SeqnOrder
    BY DEF Init, LogInv, WriterInv, ReaderInv, SeqnOrder, EndOf, Aborted
<1>5. SnapshotBounded /\ NoLostSignal /\ DeliveredInOrder /\ EndsOnlyTorn
    BY DEF Init, SnapshotBounded, NoLostSignal, DeliveredInOrder, EndsOnlyTorn,
           Aborted
<1> QED BY <1>1, <1>2, <1>3, <1>4, <1>5 DEF IInv

\* IInv holds in every reachable state, for every ring size, header and
\* message length that fit, number of records and socket capacity.
THEOREM Invariance == Spec => []IInv
<1>1. Init => IInv
    BY InitIInv
<1>2. IInv /\ [Next]_vars => IInv'
    <2> SUFFICES ASSUME IInv, [Next]_vars PROVE IInv'
        OBVIOUS
    <2>1. EndsOnlyTorn'
        BY ReaderStep DEF EndsOnlyTorn, ReaderInv
    <2> QED BY <2>1, TypeStep, LogStep, WriterStep, BytesStep, SnapshotStep,
               WakeupStep, SignalStep, ReaderStep, DeliveredStep, SeqnStep DEF IInv
<1> QED BY <1>1, <1>2, PTL DEF Spec

\* The variables of callback, cb.c and the counters keep their types.
THEOREM TypeCorrect == Spec => []TypeOK
BY Invariance, PTL DEF IInv

\* The ring holds the unread bytes in order even in the middle of a wrapping
\* cb_write.
THEOREM RingCorrect == Spec => []BytesInOrder
BY Invariance, PTL DEF IInv

\* The size callback took without the mutex can be read under it: the cb_read
\* whose result it ignores never fails.
THEOREM SnapshotCorrect == Spec => []SnapshotBounded
BY Invariance, PTL DEF IInv

\* No '.' that matters is missing.
THEOREM NoLostWakeup == Spec => []WakeupPending
BY Invariance, PTL DEF IInv

\* No signal to a cb_write that waits for space is missing.
THEOREM SignalCorrect == Spec => []NoLostSignal
BY Invariance, PTL DEF IInv

\* What callback hands to q is the accepted records in order, until a size is
\* taken in the middle of a write.
THEOREM DeliveryCorrect == Spec => []DeliveredInOrder
BY Invariance, PTL DEF IInv

\* Nor can callback's assertion fail, or d9 on what it parsed, before that.
THEOREM EndsCorrect == Spec => []EndsOnlyTorn
BY Invariance, PTL DEF IInv

\* Stream messages have distinct sequence numbers, in arrival order.
THEOREM SeqnCorrect == Spec => []SeqnOrder
BY Invariance, PTL DEF IInv

LEMMA ChannelInit == Init => Channel!Init
BY DEF Init, Channel!Init

LEMMA ChannelStep ==
    ASSUME IInv, [Next]_vars
    PROVE  [Channel!Next]_(Channel!cvars)
<1> USE DEF Channel!Next, Channel!cvars
<1>1. CASE UNCHANGED vars
    BY <1>1 DEF vars
<1>2. CASE Solace
    <2>1. UNCHANGED <<got, torn>>
        BY <1>2, SolaceFrame DEF qVars
    <2>2. UNCHANGED log \/ Len(log') = Len(log) + 1
        BY LogCases, LogGrows
    <2> QED BY <2>1, <2>2 DEF Channel!Accept
<1>3. CASE TakeSize
    <2>1. UNCHANGED <<got, log>> /\ (torn' = torn \/ torn' = TRUE)
        BY <1>3 DEF TakeSize, solaceVars, IInv, TypeOK
    <2> QED BY <2>1 DEF Channel!Break
<1>4. CASE ParseFrame
    <2>1. UNCHANGED <<torn, log>>
        BY <1>4 DEF ParseFrame, solaceVars
    <2>2. CASE torn
        <3>1. PICK k \in DOMAIN log :
                 got' = Append(got, IF HasBytes(k, Frame(log[k])) THEN k ELSE Torn)
            BY <1>4 DEF ParseFrame
        <3>2. (IF HasBytes(k, Frame(log[k])) THEN k ELSE Torn) \in 0 .. Len(log)
            BY DEF IInv, TypeOK, Torn
        <3> QED BY <2>1, <2>2, <3>1, <3>2 DEF Channel!Garble
    <2>3. CASE ~torn
        <3>1. got' = Append(got, Len(got) + 1) /\ Len(got) + 1 \in DOMAIN log
            BY <1>4, <2>3, NextFrame DEF ParseFrame
        <3>2. Len(got) < Len(log)
            BY <3>1 DEF IInv, TypeOK
        <3> QED BY <2>1, <2>3, <3>1, <3>2 DEF Channel!Deliver
    <2> QED BY <2>2, <2>3
<1>5. CASE ParseGarbage
    <2>1. torn /\ UNCHANGED <<torn, log>> /\ got' = Append(got, 0)
        BY <1>5, NextFrame DEF ParseGarbage, Garbage, solaceVars, Torn
    <2>2. 0 \in 0 .. Len(log)
        BY DEF IInv, TypeOK
    <2> QED BY <2>1, <2>2 DEF Channel!Garble
<1>6. CASE RecvDot \/ NothingToRead \/ CbRead \/ SignalSpace
            \/ AssertFails \/ DecodeFails \/ Deliver
    <2>1. UNCHANGED <<got, torn, log>>
        BY <1>6 DEF RecvDot, NothingToRead, CbRead, SignalSpace, AssertFails, DecodeFails,
                    Deliver, solaceVars
    <2> QED BY <2>1
<1> QED BY <1>1, <1>2, <1>3, <1>4, <1>5, <1>6, NextCases DEF QStep

\* The receive path implements the safety part of FeedChannel: each step is an
\* accepted record, an in-order delivery, the break, or no step of the channel.
THEOREM ImplementsChannel == Spec => Channel!SafeSpec
<1>1. IInv /\ [Next]_vars => [Channel!Next]_(Channel!cvars)
    BY ChannelStep
<1> QED BY <1>1, ChannelInit, Invariance, PTL DEF Spec, Channel!SafeSpec

=============================================================================
