--------------------------- MODULE Confirm_proofs ---------------------------
(***************************************************************************)
(* Invariance proofs for Confirm, and that it implements FeedChannel.  Its *)
(* liveness (that the waiting ends) is left to TLC.                        *)
(***************************************************************************)
EXTENDS Confirm, TLAPS

USE CapacityAssumption

-----------------------------------------------------------------------------
(* Types.                                                                  *)

LEMMA TypeStep ==
    ASSUME TypeOK, [Next]_vars
    PROVE  TypeOK'
<1>1. CASE UNCHANGED vars
    BY <1>1 DEF TypeOK, vars, qVars, cVars, bVars
<1>2. CASE BrokerTakes
    <2>1. Head(requests) \in Request /\ requests' \in Seq(Request)
        BY <1>2 DEF BrokerTakes, TypeOK
    <2>2. inbox' \in Seq(Nat)
        BY <1>2, <2>1 DEF BrokerTakes, TypeOK, Request
    <2>3. subs' \subseteq Topics
        BY <1>2, <2>1 DEF BrokerTakes, TypeOK, Request, Switch
    <2> QED BY <1>2, <2>1, <2>2, <2>3 DEF BrokerTakes, TypeOK, qVars, cVars
<1>3. CASE Publish
    BY <1>3 DEF Publish, TypeOK, qVars, cVars, Message
<1>4. CASE RxMessage
    BY <1>4 DEF RxMessage, TypeOK, qVars, bVars
<1>5. CASE CbWrite
    BY <1>5 DEF CbWrite, TypeOK, qVars, bVars
<1>6. CASE RxConfirm
    BY <1>6 DEF RxConfirm, TypeOK, qVars, bVars, cVars, NoCall
<1>7. ASSUME NEW t \in Topics, NEW on \in BOOLEAN, Call(t, on)
      PROVE  TypeOK'
    <2>1. [call |-> calls + 1, topic |-> t, on |-> on] \in Request
        BY DEF TypeOK, Request
    <2>2. requests' \in Seq(Request)
        BY <1>7, <2>1 DEF Call, TypeOK
    <2>3. shown' \subseteq Topics
        BY <1>7 DEF Call, TypeOK, Switch
    <2> QED BY <1>7, <2>2, <2>3 DEF Call, TypeOK, qVars, cVars
<1>8. CASE Timeout
    BY <1>8 DEF Timeout, TypeOK, qVars, cVars, bVars, NoCall
<1>9. CASE CbRead
    BY <1>9 DEF CbRead, TypeOK, cVars, bVars
<1>10. CASE ParseFrame
    BY <1>10 DEF ParseFrame, TypeOK, cVars, bVars
<1>11. CASE EnterCallback \/ LeaveCallback
    BY <1>11 DEF EnterCallback, LeaveCallback, TypeOK, cVars, bVars
<1> QED BY <1>1, <1>2, <1>3, <1>4, <1>5, <1>6, <1>7, <1>8, <1>9, <1>10, <1>11
        DEF Next, Broker, Context, QReads

-----------------------------------------------------------------------------
(* The index and the broker.                                               *)

\* Only a call and the broker touch the index, the requests and the
\* subscriptions.
LEMMA IndexKept ==
    ASSUME [Next]_vars, ~BrokerTakes,
           ~ \E t \in Topics, on \in BOOLEAN : Call(t, on)
    PROVE  UNCHANGED <<requests, subs, shown>>
BY DEF Next, Broker, Context, QReads, Publish, RxMessage, CbWrite, RxConfirm,
       Timeout, CbRead, ParseFrame, EnterCallback, LeaveCallback, vars, bVars

LEMMA IndexStep ==
    ASSUME TypeOK, IndexInv, [Next]_vars
    PROVE  IndexInv'
<1>0. requests \in Seq(Request) /\ DOMAIN requests = 1 .. Len(requests)
      /\ Len(requests) \in Nat
    BY DEF TypeOK
<1>1. CASE BrokerTakes
    <2> DEFINE r == Head(requests)
    <2>1. /\ requests' = Tail(requests) /\ requests # <<>>
          /\ subs' = Switch(subs, r.topic, r.on) /\ shown' = shown
        BY <1>1 DEF BrokerTakes
    <2>2. /\ Len(requests) > 0 /\ requests[1] = r
          /\ r.topic \in Topics /\ r.on \in BOOLEAN
        <3>1. Len(requests) > 0 /\ requests[1] = r
            BY <1>0, <2>1
        <3>2. requests[1] \in Request
            BY <1>0, <3>1
        <3> QED BY <3>1, <3>2 DEF Request
    <2>3. /\ DOMAIN requests' = 1 .. Len(requests) - 1
          /\ \A i \in 1 .. Len(requests) - 1 : requests'[i] = requests[i + 1]
        BY <1>0, <2>1, <2>2
    <2>4. ASSUME NEW i \in DOMAIN requests', LastAbout(i)'
          PROVE  requests'[i].topic \in shown' <=> requests'[i].on
        <3>1. i + 1 \in DOMAIN requests /\ requests'[i] = requests[i + 1]
            BY <1>0, <2>3
        <3>2. ASSUME NEW j \in DOMAIN requests,
                     requests[j].topic = requests[i + 1].topic
              PROVE  j <= i + 1
            <4>1. CASE j = 1
                BY <1>0, <2>3, <4>1
            <4>2. CASE j # 1
                <5>1. j - 1 \in DOMAIN requests' /\ requests'[j - 1] = requests[j]
                    BY <1>0, <2>3, <4>2
                <5> QED BY <1>0, <2>3, <2>4, <3>1, <3>2, <5>1 DEF LastAbout
            <4> QED BY <4>1, <4>2
        <3> QED BY <2>1, <3>1, <3>2 DEF LastAbout, IndexInv
    <2>5. ASSUME NEW t \in Topics,
                 \A i \in DOMAIN requests' : requests'[i].topic # t
          PROVE  t \in shown' <=> t \in subs'
        <3>1. ASSUME NEW j \in DOMAIN requests, requests[j].topic = t
              PROVE  j = 1
            <4>1. CASE j # 1
                <5>1. j - 1 \in DOMAIN requests' /\ requests'[j - 1] = requests[j]
                    BY <1>0, <2>3, <4>1
                <5> QED BY <2>5, <3>1, <5>1
            <4> QED BY <4>1
        <3>2. CASE r.topic = t
            <4>1. 1 \in DOMAIN requests /\ LastAbout(1)
                BY <1>0, <2>2, <3>1, <3>2 DEF LastAbout
            <4> QED BY <2>1, <2>2, <3>2, <4>1 DEF IndexInv, Switch
        <3>3. CASE r.topic # t
            <4>1. \A j \in DOMAIN requests : requests[j].topic # t
                BY <2>2, <3>1, <3>3
            <4> QED BY <2>1, <3>3, <4>1 DEF IndexInv, Switch
        <3> QED BY <3>2, <3>3
    <2> QED BY <2>4, <2>5 DEF IndexInv
<1>2. ASSUME NEW t \in Topics, NEW on \in BOOLEAN, Call(t, on)
      PROVE  IndexInv'
    <2> DEFINE r == [call |-> calls + 1, topic |-> t, on |-> on]
               n == Len(requests) + 1
    <2>1. /\ requests' = Append(requests, r) /\ subs' = subs
          /\ shown' = Switch(shown, t, on)
        BY <1>2 DEF Call
    <2>2. /\ DOMAIN requests' = 1 .. n /\ requests'[n] = r
          /\ \A i \in 1 .. Len(requests) : requests'[i] = requests[i]
        BY <1>0, <2>1
    <2>3. ASSUME NEW i \in DOMAIN requests', LastAbout(i)'
          PROVE  requests'[i].topic \in shown' <=> requests'[i].on
        <3>1. CASE i = n
            BY <2>1, <2>2, <3>1 DEF Switch
        <3>2. CASE i # n
            <4>1. i \in DOMAIN requests /\ requests'[i] = requests[i]
                BY <1>0, <2>2, <3>2
            <4>2. n \in DOMAIN requests' /\ ~(n <= i)
                BY <1>0, <2>2, <3>2
            <4>3. requests[i].topic # t
                BY <2>2, <2>3, <4>1, <4>2 DEF LastAbout
            <4>4. LastAbout(i)
                BY <1>0, <2>2, <2>3, <4>1 DEF LastAbout
            <4> QED BY <2>1, <4>1, <4>3, <4>4 DEF IndexInv, Switch
        <3> QED BY <3>1, <3>2
    <2>4. ASSUME NEW u \in Topics,
                 \A i \in DOMAIN requests' : requests'[i].topic # u
          PROVE  u \in shown' <=> u \in subs'
        <3>1. u # t
            BY <1>0, <2>2, <2>4
        <3>2. \A i \in DOMAIN requests : requests[i].topic # u
            BY <1>0, <2>2, <2>4
        <3> QED BY <2>1, <3>1, <3>2 DEF IndexInv, Switch
    <2> QED BY <2>3, <2>4 DEF IndexInv
<1>3. CASE UNCHANGED <<requests, subs, shown>>
    BY <1>3 DEF IndexInv, LastAbout
<1> QED BY <1>1, <1>2, <1>3, IndexKept

-----------------------------------------------------------------------------
(* The records.                                                            *)

LEMMA RecordStep ==
    ASSUME TypeOK, RecordInv, [Next]_vars
    PROVE  RecordInv'
<1>0. /\ delivered \in Seq(Nat) /\ batch \in Seq(Nat) /\ ring \in Seq(Nat)
      /\ accepted \in Nat
    BY DEF TypeOK
<1>1. CASE RxMessage
    BY <1>0, <1>1 DEF RxMessage, RecordInv, qVars
<1>2. CASE CbWrite
    <2>1. /\ ring' = Append(ring, accepted) /\ UNCHANGED <<delivered, batch, qpc>>
          /\ accepted' = accepted /\ cpc = "cb_write" /\ cpc' = "idle"
        BY <1>2 DEF CbWrite, qVars
    <2>2. accepted = Len(delivered) + Len(batch) + Len(ring) + 1
        BY <2>1 DEF RecordInv
    <2>3. \A i \in DOMAIN ring' : ring'[i] = Len(delivered) + Len(batch) + i
        BY <1>0, <2>1, <2>2 DEF RecordInv
    <2> QED BY <1>0, <2>1, <2>2, <2>3 DEF RecordInv
<1>3. CASE CbRead
    <2>1. batch = <<>> /\ batch' = ring /\ ring' = <<>>
          /\ UNCHANGED <<delivered, accepted, cpc>> /\ qpc' = "parse"
        BY <1>3 DEF CbRead, RecordInv, cVars
    <2> QED BY <1>0, <2>1 DEF RecordInv
<1>4. CASE ParseFrame
    <2>1. /\ batch # <<>> /\ batch' = Tail(batch)
          /\ delivered' = Append(delivered, Head(batch))
          /\ UNCHANGED <<ring, accepted, cpc, qpc>> /\ qpc = "parse"
        BY <1>4 DEF ParseFrame, cVars
    <2>2. Len(batch) > 0 /\ Head(batch) = Len(delivered) + 1
        BY <1>0, <2>1 DEF RecordInv
    <2>3. /\ Len(delivered') = Len(delivered) + 1 /\ Len(batch') = Len(batch) - 1
          /\ \A i \in DOMAIN delivered' : delivered'[i] = i
        <3>1. \A i \in 1 .. Len(delivered) : delivered[i] = i
            BY <1>0 DEF RecordInv
        <3>2. delivered' = Append(delivered, Len(delivered) + 1)
            BY <2>1, <2>2
        <3>3. /\ Len(delivered') = Len(delivered) + 1
              /\ \A i \in DOMAIN delivered' : delivered'[i] = i
            BY <1>0, <3>1, <3>2
        <3> QED BY <1>0, <2>1, <2>2, <3>3
    <2>4. \A i \in DOMAIN batch' : batch'[i] = batch[i + 1] /\ i + 1 \in DOMAIN batch
        BY <1>0, <2>1, <2>2
    <2>5. \A i \in DOMAIN batch' : batch'[i] = Len(delivered') + i
        BY <1>0, <2>1, <2>2, <2>3, <2>4 DEF RecordInv
    <2>6. \A i \in DOMAIN ring' : ring'[i] = Len(delivered') + Len(batch') + i
        BY <1>0, <2>1, <2>2, <2>3 DEF RecordInv
    <2> QED BY <1>0, <2>1, <2>2, <2>3, <2>5, <2>6 DEF RecordInv
<1>5. CASE EnterCallback \/ LeaveCallback
    BY <1>5 DEF EnterCallback, LeaveCallback, RecordInv, cVars
<1>6. CASE UNCHANGED <<qVars, cVars, ring>>
    BY <1>6 DEF RecordInv, qVars, cVars
<1>7. CASE UNCHANGED vars \/ Broker \/ RxConfirm \/ Timeout
           \/ \E t \in Topics, on \in BOOLEAN : Call(t, on)
    <2>1. UNCHANGED <<qVars, cVars, ring>>
        BY <1>7 DEF vars, Broker, BrokerTakes, Publish, RxConfirm, Timeout, Call
    <2> QED BY <1>6, <2>1
<1> QED BY <1>1, <1>2, <1>3, <1>4, <1>5, <1>7 DEF Next, Context, QReads

-----------------------------------------------------------------------------
(* The theorems.                                                           *)

LEMMA InitIInv == Init => IInv
BY DEF Init, IInv, TypeOK, IndexInv, RecordInv, LastAbout, NoCall

\* IInv holds in every reachable state, whatever the topics, the size of the
\* ring and the number of calls and messages.
THEOREM Invariance == Spec => []IInv
<1>1. IInv /\ [Next]_vars => IInv'
    BY TypeStep, IndexStep, RecordStep DEF IInv
<1> QED BY <1>1, InitIInv, PTL DEF Spec

\* The two threads' variables, the index and the broker's side keep their
\* types, and the ring never holds more than its capacity.
THEOREM TypeCorrect == Spec => []TypeOK
BY Invariance, PTL DEF IInv

\* Timeouts, late answers and repeated calls leave no lasting difference
\* between what gettopics shows and what the broker holds.
THEOREM Settles == Spec => []SettledAgrees
<1>1. IInv => SettledAgrees
    <2> SUFFICES ASSUME IInv, requests = <<>> PROVE shown = subs
        BY DEF SettledAgrees
    <2>1. \A t \in Topics : t \in shown <=> t \in subs
        <3>1. \A i \in DOMAIN requests : FALSE
            OBVIOUS
        <3> QED BY <3>1 DEF IInv, IndexInv
    <2> QED BY <2>1 DEF IInv, TypeOK
<1> QED BY <1>1, Invariance, PTL

LEMMA ChannelStep ==
    ASSUME IInv, [Next]_vars
    PROVE  [Channel!Next]_(Channel!cvars)
<1> USE DEF Channel!Next, Channel!cvars
<1>1. CASE RxMessage
    BY <1>1 DEF RxMessage, qVars, Channel!Accept
<1>2. CASE ParseFrame
    <2>1. /\ batch # <<>> /\ delivered' = Append(delivered, Head(batch))
          /\ accepted' = accepted
        BY <1>2 DEF ParseFrame, cVars
    <2>2. /\ Head(batch) = Len(delivered) + 1 /\ Len(batch) > 0
          /\ Len(delivered) < accepted
        BY <2>1 DEF IInv, TypeOK, RecordInv
    <2> QED BY <2>1, <2>2 DEF Channel!Deliver
<1>3. CASE ~RxMessage /\ ~ParseFrame
    <2>1. UNCHANGED <<accepted, delivered>>
        BY <1>3 DEF Next, Broker, BrokerTakes, Publish, Context, CbWrite,
                    RxConfirm, Timeout, Call, QReads, CbRead, EnterCallback,
                    LeaveCallback, vars, qVars, cVars
    <2> QED BY <2>1
<1> QED BY <1>1, <1>2, <1>3

\* Waiting on both sides reorders, repeats and loses no record.
THEOREM ImplementsChannel == Spec => Channel!SafeSpec
<1>1. Init => Channel!Init
    BY DEF Init, Channel!Init
<1>2. IInv /\ [Next]_vars => [Channel!Next]_(Channel!cvars)
    BY ChannelStep
<1> QED BY <1>1, <1>2, Invariance, PTL DEF Spec, Channel!SafeSpec

=============================================================================
