--------------------------- MODULE Session_proofs ---------------------------
(***************************************************************************)
(* Invariance proofs for Session.  The table of topics comes first: what   *)
(* subscribe and unsubscribe do to its rows; then one lemma per conjunct   *)
(* of IInv.                                                                *)
(***************************************************************************)
EXTENDS Session, TLAPS

USE SessionsAssumption, CountAssumption

TopicRow == [topic: Topics, subscribed: BOOLEAN]

\* The actions on the rows, and those that leave them as they are.
NoRowStep ==
    \/ ConnectOk \/ ConnectFails \/ InitDone \/ CallOk \/ CallFails
    \/ DisconnectBegin \/ DisconnectOk \/ DisconnectFails
    \/ (\E s \in Sessions : GoesDown(s) \/ DownError(s))
    \/ UNCHANGED vars

LEMMA StepCases ==
    ASSUME [Next]_vars
    PROVE  \/ InitBegin \/ InitRefused
           \/ (\E t \in Topics : SubscribeRecord(t))
           \/ (\E t \in Topics : UnsubscribeRecord(t))
           \/ NoRowStep
BY DEF Next, NoRowStep

LEMMA RowsKept ==
    ASSUME NoRowStep
    PROVE  index' = index
BY DEF NoRowStep, ConnectOk, ConnectFails, InitDone, CallOk, CallFails,
       CallReturns, DisconnectBegin, DisconnectOk, DisconnectFails, GoesDown,
       DownError, vars

\* subscribe on a known topic rewrites its row, in place.
LEMMA Resubscribed ==
    ASSUME TypeOK, NEW t \in Topics, SubscribeRecord(t), Found(t)
    PROVE  /\ index' = [i \in 1 .. Len(index) |->
                          IF index[i].topic = t THEN Row(t) ELSE index[i]]
           /\ index' \in Seq(TopicRow) /\ Len(index') = Len(index)
           /\ \A i \in 1 .. Len(index) : index'[i].topic = index[i].topic
<1>1. index \in Seq(TopicRow)
    BY DEF TypeOK, TopicRow
<1>2. DOMAIN index = 1 .. Len(index) /\ Len(index) \in Nat
    BY <1>1
<1>3. \A i \in 1 .. Len(index) : index[i] \in TopicRow
    BY <1>1
<1>4. Row(t) \in TopicRow /\ Row(t).topic = t
    BY DEF Row, TopicRow
<1>5. index' = [i \in 1 .. Len(index) |->
                  IF index[i].topic = t THEN Row(t) ELSE index[i]]
    BY <1>2 DEF SubscribeRecord
<1>6. index' \in [1 .. Len(index) -> TopicRow]
    BY <1>3, <1>4, <1>5
<1>7. index' \in Seq(TopicRow) /\ Len(index') = Len(index)
    BY ONLY <1>2, <1>6
<1>8. \A i \in 1 .. Len(index) : index'[i].topic = index[i].topic
    BY <1>4, <1>5
<1> QED BY <1>5, <1>7, <1>8

\* subscribe on a new topic adds a row at the end.
LEMMA Subscribed ==
    ASSUME TypeOK, NEW t \in Topics, SubscribeRecord(t), ~Found(t)
    PROVE  /\ index' \in Seq(TopicRow) /\ Len(index') = Len(index) + 1
           /\ \A i \in 1 .. Len(index) : index'[i] = index[i]
           /\ index'[Len(index) + 1] = Row(t)
           /\ \A i \in 1 .. Len(index) : index[i].topic # t
<1>1. index \in Seq(TopicRow)
    BY DEF TypeOK, TopicRow
<1>2. Row(t) \in TopicRow
    BY DEF Row, TopicRow
<1>3. index' = Append(index, Row(t))
    BY DEF SubscribeRecord
<1>4. \A i \in 1 .. Len(index) : index[i].topic # t
    BY <1>1 DEF Found
<1>5. /\ index' \in Seq(TopicRow) /\ Len(index') = Len(index) + 1
      /\ \A i \in 1 .. Len(index) : index'[i] = index[i]
      /\ index'[Len(index) + 1] = Row(t)
    BY ONLY <1>1, <1>2, <1>3
<1> QED BY <1>4, <1>5

\* unsubscribe marks the row of its topic, if there is one.
LEMMA Unsubscribed ==
    ASSUME TypeOK, NEW t \in Topics, UnsubscribeRecord(t)
    PROVE  /\ index' \in Seq(TopicRow) /\ Len(index') = Len(index)
           /\ \A i \in 1 .. Len(index) :
                 /\ index'[i].topic = index[i].topic
                 /\ index[i].topic = t => ~index'[i].subscribed
                 /\ index[i].topic # t => index'[i] = index[i]
<1>1. index \in Seq(TopicRow)
    BY DEF TypeOK, TopicRow
<1>2. DOMAIN index = 1 .. Len(index) /\ Len(index) \in Nat
    BY <1>1
<1>3. \A i \in 1 .. Len(index) : index[i] \in TopicRow
    BY <1>1
<1>4. index' = [i \in 1 .. Len(index) |->
                  IF index[i].topic = t
                  THEN [index[i] EXCEPT !.subscribed = FALSE] ELSE index[i]]
    BY <1>2 DEF UnsubscribeRecord
<1>5. \A r \in TopicRow : /\ [r EXCEPT !.subscribed = FALSE] \in TopicRow
                          /\ [r EXCEPT !.subscribed = FALSE].topic = r.topic
                          /\ [r EXCEPT !.subscribed = FALSE].subscribed = FALSE
    BY DEF TopicRow
<1>6. index' \in [1 .. Len(index) -> TopicRow]
    BY <1>3, <1>4, <1>5
<1>7. index' \in Seq(TopicRow) /\ Len(index') = Len(index)
    BY ONLY <1>2, <1>6
<1> QED BY <1>3, <1>4, <1>5, <1>7

-----------------------------------------------------------------------------
(* Types.                                                                  *)

LEMMA IndexStep ==
    ASSUME TypeOK, [Next]_vars
    PROVE  index' \in Seq(TopicRow) /\ Len(index') <= MaxTopicCount
<1>0. /\ index \in Seq(TopicRow) /\ Len(index) \in Nat
      /\ Len(index) <= MaxTopicCount
    BY DEF TypeOK, TopicRow
<1>1. CASE InitBegin \/ InitRefused
    <2>1. <<>> \in Seq(TopicRow) /\ Len(<<>>) = 0
        OBVIOUS
    <2>2. index' = <<>>
        BY <1>1 DEF InitBegin, InitRefused
    <2> QED BY <2>1, <2>2, CountAssumption
<1>2. ASSUME NEW t \in Topics, SubscribeRecord(t)
      PROVE  index' \in Seq(TopicRow) /\ Len(index') <= MaxTopicCount
    <2>1. Len(index) < MaxTopicCount
        BY <1>2 DEF SubscribeRecord
    <2>2. CASE Found(t)
        BY <1>0, <1>2, <2>2, Resubscribed
    <2>3. CASE ~Found(t)
        BY <1>0, <1>2, <2>1, <2>3, Subscribed
    <2> QED BY <2>2, <2>3
<1>3. ASSUME NEW t \in Topics, UnsubscribeRecord(t)
      PROVE  index' \in Seq(TopicRow) /\ Len(index') <= MaxTopicCount
    BY <1>0, <1>3, Unsubscribed
<1>4. CASE NoRowStep
    BY <1>0, <1>4, RowsKept
<1> QED BY <1>1, <1>2, <1>3, <1>4, StepCases

LEMMA TypeStep ==
    ASSUME TypeOK, InitInv, [Next]_vars
    PROVE  TypeOK'
<1> USE DEF TypeOK, Sessions
<1>0. index' \in Seq([topic: Topics, subscribed: BOOLEAN])
      /\ Len(index') <= MaxTopicCount
    BY IndexStep DEF TopicRow
<1>1. CASE InitBegin \/ InitRefused
    BY <1>0, <1>1 DEF InitBegin, InitRefused
<1>2. CASE ConnectOk
    <2>1. cur + 1 \in Sessions /\ cur' = cur + 1
        BY <1>2 DEF ConnectOk, InitInv
    <2>2. link' \in [Sessions -> {"none", "up", "down", "closed"}]
        BY <1>2, <2>1 DEF ConnectOk
    <2>3. cur' \in 0 .. MaxSessions
        BY <2>1
    <2> QED BY <1>0, <1>2, <2>2, <2>3 DEF ConnectOk
<1>3. CASE ConnectFails
    BY <1>0, <1>3 DEF ConnectFails
<1>4. CASE InitDone
    BY <1>0, <1>4 DEF InitDone
<1>5. CASE \E t \in Topics : SubscribeRecord(t) \/ UnsubscribeRecord(t)
    BY <1>0, <1>5 DEF SubscribeRecord, UnsubscribeRecord, Call
<1>6. CASE CallOk \/ CallFails
    BY <1>0, <1>6 DEF CallOk, CallFails, CallReturns, Applied
<1>7. CASE DisconnectBegin \/ DisconnectOk \/ DisconnectFails
    BY <1>0, <1>7 DEF DisconnectBegin, DisconnectOk, DisconnectFails
<1>8. CASE \E s \in Sessions : GoesDown(s)
    BY <1>0, <1>8 DEF GoesDown
<1>9. CASE \E s \in Sessions : DownError(s)
    BY <1>0, <1>9 DEF DownError
<1>10. CASE UNCHANGED vars
    BY <1>10 DEF vars
<1> QED BY <1>1, <1>2, <1>3, <1>4, <1>5, <1>6, <1>7, <1>8, <1>9, <1>10 DEF Next

-----------------------------------------------------------------------------
(* One row per topic.                                                      *)

LEMMA OneRowStep ==
    ASSUME TypeOK, OneRowPerTopic, [Next]_vars
    PROVE  OneRowPerTopic'
<1>0. DOMAIN index = 1 .. Len(index) /\ Len(index) \in Nat
    BY DEF TypeOK
<1>1. index' \in Seq(TopicRow)
    BY IndexStep
<1>2. DOMAIN index' = 1 .. Len(index')
    BY <1>1
<1>3. \A i, j \in 1 .. Len(index) : index[i].topic = index[j].topic => i = j
    BY <1>0 DEF OneRowPerTopic
<1> SUFFICES \A i, j \in 1 .. Len(index') :
                index'[i].topic = index'[j].topic => i = j
    BY <1>2 DEF OneRowPerTopic
<1>4. CASE InitBegin \/ InitRefused
    <2>1. index' = <<>> /\ Len(<<>>) = 0
        BY <1>4 DEF InitBegin, InitRefused
    <2> QED BY <2>1
<1>5. ASSUME NEW t \in Topics, SubscribeRecord(t)
      PROVE  \A i, j \in 1 .. Len(index') :
                index'[i].topic = index'[j].topic => i = j
    <2>1. CASE Found(t)
        <3>1. /\ Len(index') = Len(index)
              /\ \A i \in 1 .. Len(index) : index'[i].topic = index[i].topic
            BY <1>5, <2>1, Resubscribed
        <3> QED BY <1>3, <3>1
    <2>2. CASE ~Found(t)
        <3>1. /\ Len(index') = Len(index) + 1
              /\ \A i \in 1 .. Len(index) : index'[i] = index[i]
              /\ index'[Len(index) + 1] = Row(t)
              /\ \A i \in 1 .. Len(index) : index[i].topic # t
            BY <1>5, <2>2, Subscribed
        <3>2. Row(t).topic = t
            BY DEF Row
        <3> QED BY <1>0, <1>3, <3>1, <3>2
    <2> QED BY <2>1, <2>2
<1>6. ASSUME NEW t \in Topics, UnsubscribeRecord(t)
      PROVE  \A i, j \in 1 .. Len(index') :
                index'[i].topic = index'[j].topic => i = j
    <2>1. /\ Len(index') = Len(index)
          /\ \A i \in 1 .. Len(index) : index'[i].topic = index[i].topic
        BY <1>6, Unsubscribed
    <2> QED BY <1>3, <2>1
<1>7. CASE NoRowStep
    BY <1>3, <1>7, RowsKept
<1> QED BY <1>4, <1>5, <1>6, <1>7, StepCases

-----------------------------------------------------------------------------
(* The flag and the sessions.                                              *)

LEMMA InitInvStep ==
    ASSUME TypeOK, InitInv, [Next]_vars
    PROVE  InitInv'
<1>1. CASE qpc' \in {"connect", "connected"} /\ qpc' # qpc
    BY <1>1 DEF InitInv, Next, InitBegin, InitRefused, ConnectOk, ConnectFails,
        InitDone, SubscribeRecord, UnsubscribeRecord, Call, CallOk, CallFails,
        CallReturns, DisconnectBegin, DisconnectOk, DisconnectFails, GoesDown,
        DownError, vars
<1>2. CASE qpc' = qpc
    BY <1>2 DEF InitInv, Next, InitBegin, InitRefused, ConnectOk, ConnectFails,
        InitDone, SubscribeRecord, UnsubscribeRecord, Call, CallOk, CallFails,
        CallReturns, DisconnectBegin, DisconnectOk, DisconnectFails, GoesDown,
        DownError, vars
<1> QED BY <1>1, <1>2 DEF InitInv

LEMMA LinkInvStep ==
    ASSUME TypeOK, InitInv, LinkInv, [Next]_vars
    PROVE  LinkInv'
<1> USE DEF TypeOK, Sessions
<1>1. CASE InitBegin \/ InitRefused
    <2>1. /\ ~initiated' /\ qpc' \in {"ready", "connect"}
          /\ UNCHANGED <<cur, link, pending>>
        BY <1>1 DEF InitBegin, InitRefused
    <2> QED BY <2>1 DEF LinkInv
<1>2. CASE ConnectOk
    <2>1. cur + 1 \in Sessions /\ cur' = cur + 1 /\ pending' = pending
          /\ link' = [link EXCEPT ![cur + 1] = "up"]
        BY <1>2 DEF ConnectOk, InitInv
    <2>2. cur + 1 \notin pending
        BY <2>1 DEF LinkInv
    <2>3. \A s \in pending : s # cur + 1 /\ link'[s] = link[s]
        BY <2>1, <2>2
    <2> QED BY <2>1, <2>2, <2>3 DEF LinkInv
<1>3. CASE ConnectFails
    <2>1. ~initiated' /\ qpc' = "ready" /\ cur' = cur
        BY <1>3 DEF ConnectFails, InitInv
    <2>2. CASE UNCHANGED <<link, pending>>
        BY <2>1, <2>2 DEF LinkInv
    <2>3. CASE /\ link' = [s \in Sessions |->
                             IF link[s] = "none" THEN "none" ELSE "closed"]
               /\ pending' = {}
        BY <2>1, <2>3 DEF LinkInv
    <2> QED BY <1>3, <2>2, <2>3 DEF ConnectFails
<1>4. CASE InitDone
    BY <1>4 DEF LinkInv, InitDone
<1>5. CASE \E t \in Topics : SubscribeRecord(t) \/ UnsubscribeRecord(t)
    BY <1>5 DEF LinkInv, SubscribeRecord, UnsubscribeRecord, Call
<1>6. CASE CallOk \/ CallFails
    BY <1>6 DEF LinkInv, CallOk, CallFails, CallReturns
<1>7. CASE DisconnectBegin \/ DisconnectOk \/ DisconnectFails
    <2>1. CASE DisconnectOk
        <3>1. cur \in Sessions /\ ~initiated' /\ qpc' = "ready" /\ cur' = cur
            BY <2>1 DEF DisconnectOk, LinkInv
        <3>2. link' = [link EXCEPT ![cur] = "closed"] /\ pending' \subseteq pending
            BY <2>1 DEF DisconnectOk
        <3> QED BY <3>1, <3>2 DEF LinkInv
    <2>2. CASE DisconnectBegin
        BY <2>2 DEF LinkInv, DisconnectBegin
    <2>3. CASE DisconnectFails
        BY <2>3 DEF LinkInv, DisconnectFails
    <2> QED BY <1>7, <2>1, <2>2, <2>3
<1>8. CASE \E s \in Sessions : GoesDown(s)
    BY <1>8 DEF LinkInv, GoesDown
<1>9. CASE \E s \in Sessions : DownError(s)
    BY <1>9 DEF LinkInv, DownError
<1>10. CASE UNCHANGED vars
    BY <1>10 DEF LinkInv, vars
<1> QED BY <1>1, <1>2, <1>3, <1>4, <1>5, <1>6, <1>7, <1>8, <1>9, <1>10 DEF Next

LEMMA FreeStep ==
    ASSUME TypeOK, InitInv, NoUseAfterFree, [Next]_vars
    PROVE  NoUseAfterFree'
BY DEF TypeOK, InitInv, NoUseAfterFree, Next, InitBegin, InitRefused, ConnectOk,
       ConnectFails, InitDone, SubscribeRecord, UnsubscribeRecord, Call, CallOk,
       CallFails, CallReturns, DisconnectBegin, DisconnectOk, DisconnectFails,
       GoesDown, DownError, vars

LEMMA ForgottenStep ==
    ASSUME TypeOK, InitInv, LinkInv, NoSessionForgotten, [Next]_vars
    PROVE  NoSessionForgotten'
<1> USE DEF TypeOK, Sessions
<1>1. CASE InitBegin \/ InitRefused
    <2>1. qpc = "ready" /\ ~initiated /\ UNCHANGED <<link, stale>>
        BY <1>1 DEF InitBegin, InitRefused
    <2> QED BY <2>1 DEF NoSessionForgotten
<1>2. CASE ConnectOk
    <2>1. /\ qpc = "connect" /\ ~initiated /\ stale' = stale
          /\ cur' = cur + 1 /\ qpc' = "connected"
          /\ link' = [link EXCEPT ![cur + 1] = "up"]
        BY <1>2 DEF ConnectOk, InitInv
    <2>2. ~stale => \A s \in Sessions : link[s] # "up"
        BY <2>1 DEF NoSessionForgotten
    <2> QED BY <2>1, <2>2 DEF NoSessionForgotten
<1>3. CASE ConnectFails
    <2>1. qpc = "connect" /\ ~initiated /\ stale' = stale
        BY <1>3 DEF ConnectFails, InitInv
    <2>2. ~stale => \A s \in Sessions : link[s] # "up"
        BY <2>1 DEF NoSessionForgotten
    <2>3. \A s \in Sessions : link'[s] = "up" => link[s] = "up"
        BY <1>3 DEF ConnectFails
    <2> QED BY <2>1, <2>2, <2>3 DEF NoSessionForgotten
<1>4. CASE InitDone
    BY <1>4 DEF NoSessionForgotten, InitDone
<1>5. CASE \E t \in Topics : SubscribeRecord(t) \/ UnsubscribeRecord(t)
    BY <1>5 DEF NoSessionForgotten, SubscribeRecord, UnsubscribeRecord, Call
<1>6. CASE CallOk \/ CallFails
    BY <1>6 DEF NoSessionForgotten, CallOk, CallFails, CallReturns
<1>7. CASE DisconnectBegin \/ DisconnectOk \/ DisconnectFails
    BY <1>7 DEF NoSessionForgotten, DisconnectBegin, DisconnectOk,
                DisconnectFails
<1>8. CASE \E s \in Sessions : GoesDown(s)
    BY <1>8 DEF NoSessionForgotten, GoesDown
<1>9. ASSUME NEW s \in Sessions, DownError(s)
      PROVE  NoSessionForgotten'
    <2>1. /\ link' = link /\ cur' = cur /\ qpc' = qpc
          /\ s \in pending /\ link[s] # "up"
          /\ ~stale' => ~stale /\ (s = cur \/ ~initiated)
        BY <1>9 DEF DownError, LinkInv
    <2> QED BY <2>1 DEF NoSessionForgotten
<1>10. CASE UNCHANGED vars
    BY <1>10 DEF NoSessionForgotten, vars
<1> QED BY <1>1, <1>2, <1>3, <1>4, <1>5, <1>6, <1>7, <1>8, <1>9, <1>10 DEF Next

LEMMA DownStep ==
    ASSUME TypeOK, InitInv, LinkInv, DownInv, [Next]_vars
    PROVE  DownInv'
<1> USE DEF TypeOK, Sessions
<1>1. CASE InitBegin \/ InitRefused
    <2>1. ~initiated' /\ qpc' # "connected"
        BY <1>1 DEF InitBegin, InitRefused
    <2> QED BY <2>1 DEF DownInv
<1>2. CASE ConnectOk
    <2>1. cur + 1 \in Sessions /\ cur' = cur + 1
          /\ link' = [link EXCEPT ![cur + 1] = "up"]
        BY <1>2 DEF ConnectOk, InitInv
    <2>2. link'[cur'] = "up"
        BY <2>1
    <2> QED BY <2>2 DEF DownInv
<1>3. CASE ConnectFails
    <2>1. ~initiated' /\ qpc' # "connected"
        BY <1>3 DEF ConnectFails, InitInv
    <2> QED BY <2>1 DEF DownInv
<1>4. CASE InitDone
    BY <1>4 DEF DownInv, InitDone
<1>5. CASE \E t \in Topics : SubscribeRecord(t) \/ UnsubscribeRecord(t)
    BY <1>5 DEF DownInv, SubscribeRecord, UnsubscribeRecord, Call
<1>6. CASE CallOk \/ CallFails
    BY <1>6 DEF DownInv, CallOk, CallFails, CallReturns
<1>7. CASE DisconnectBegin \/ DisconnectOk \/ DisconnectFails
    BY <1>7 DEF DownInv, DisconnectBegin, DisconnectOk, DisconnectFails
<1>8. CASE \E s \in Sessions : GoesDown(s)
    BY <1>8 DEF DownInv, GoesDown
<1>9. ASSUME NEW s \in Sessions, DownError(s)
      PROVE  DownInv'
    <2>1. /\ ~initiated' /\ link' = link /\ cur' = cur /\ qpc' = qpc
          /\ pending' = pending \ {s}
          /\ missed' = (missed \/ (s = cur /\ qpc = "connected"))
        BY <1>9 DEF DownError
    <2> QED BY <2>1 DEF DownInv
<1>10. CASE UNCHANGED vars
    BY <1>10 DEF DownInv, vars
<1> QED BY <1>1, <1>2, <1>3, <1>4, <1>5, <1>6, <1>7, <1>8, <1>9, <1>10 DEF Next

LEMMA HeldStep ==
    ASSUME TypeOK, LinkInv, InitInv, HeldInv, [Next]_vars
    PROVE  HeldInv'
<1> USE DEF TypeOK, Sessions
<1>1. CASE InitBegin \/ InitRefused \/ InitDone
    BY <1>1 DEF HeldInv, InitBegin, InitRefused, InitDone
<1>2. CASE ConnectOk
    BY <1>2 DEF HeldInv, ConnectOk
<1>3. CASE ConnectFails
    BY <1>3 DEF HeldInv, ConnectFails
<1>4. CASE \E t \in Topics : SubscribeRecord(t) \/ UnsubscribeRecord(t)
    BY <1>4 DEF HeldInv, SubscribeRecord, UnsubscribeRecord, Call
<1>5. CASE CallOk \/ CallFails
    <2>1. cur > 0 /\ UNCHANGED <<cur, link>>
        BY <1>5 DEF CallOk, CallFails, CallReturns, LinkInv
    <2>2. subs' = subs \/ link[cur] = "up"
        BY <1>5 DEF CallOk, CallFails
    <2> QED BY <2>1, <2>2 DEF HeldInv
<1>6. CASE DisconnectBegin \/ DisconnectOk \/ DisconnectFails
    BY <1>6 DEF HeldInv, DisconnectBegin, DisconnectOk, DisconnectFails
<1>7. ASSUME NEW s \in Sessions, GoesDown(s) PROVE HeldInv'
    BY <1>7 DEF HeldInv, GoesDown
<1>8. CASE \E s \in Sessions : DownError(s)
    BY <1>8 DEF HeldInv, DownError
<1>9. CASE UNCHANGED vars
    BY <1>9 DEF HeldInv, vars
<1> QED BY <1>1, <1>2, <1>3, <1>4, <1>5, <1>6, <1>7, <1>8, <1>9 DEF Next

-----------------------------------------------------------------------------
(* What gettopics shows.                                                   *)

\* subscribe turns its topic on and leaves the others as they were.
LEMMA ShownSubscribe ==
    ASSUME TypeOK, NEW t \in Topics, SubscribeRecord(t)
    PROVE  Shown(t)' /\ \A u \in Topics : u # t => (Shown(u)' <=> Shown(u))
<1>0. DOMAIN index = 1 .. Len(index) /\ Len(index) \in Nat
    BY DEF TypeOK
<1>1. Row(t).topic = t /\ Row(t).subscribed
    BY DEF Row
<1>2. CASE Found(t)
    <2>1. /\ index' = [i \in 1 .. Len(index) |->
                         IF index[i].topic = t THEN Row(t) ELSE index[i]]
          /\ \A i \in 1 .. Len(index) : index'[i].topic = index[i].topic
        BY <1>2, Resubscribed
    <2>2. DOMAIN index' = 1 .. Len(index)
        BY <2>1
    <2>3. Shown(t)'
        BY <1>0, <1>1, <1>2, <2>1, <2>2 DEF Shown, Found
    <2>4. ASSUME NEW u \in Topics, u # t PROVE Shown(u)' <=> Shown(u)
        <3>1. \A i \in 1 .. Len(index) :
                 index[i].topic = u => index'[i] = index[i]
            BY <2>1, <2>4
        <3> QED BY <1>0, <2>1, <2>2, <3>1 DEF Shown
    <2> QED BY <2>3, <2>4
<1>3. CASE ~Found(t)
    <2>1. /\ index' \in Seq(TopicRow) /\ Len(index') = Len(index) + 1
          /\ \A i \in 1 .. Len(index) : index'[i] = index[i]
          /\ index'[Len(index) + 1] = Row(t)
        BY <1>3, Subscribed
    <2>2. DOMAIN index' = 1 .. Len(index) + 1
        BY <2>1
    <2>3. Shown(t)'
        BY <1>0, <1>1, <2>1, <2>2 DEF Shown
    <2>4. ASSUME NEW u \in Topics, u # t PROVE Shown(u)' <=> Shown(u)
        BY <1>0, <1>1, <2>1, <2>2, <2>4 DEF Shown
    <2> QED BY <2>3, <2>4
<1> QED BY <1>2, <1>3

\* unsubscribe turns its topic off and leaves the others as they were.
LEMMA ShownUnsubscribe ==
    ASSUME TypeOK, NEW t \in Topics, UnsubscribeRecord(t)
    PROVE  ~Shown(t)' /\ \A u \in Topics : u # t => (Shown(u)' <=> Shown(u))
<1>0. DOMAIN index = 1 .. Len(index) /\ Len(index) \in Nat
    BY DEF TypeOK
<1>1. /\ index' \in Seq(TopicRow) /\ Len(index') = Len(index)
      /\ \A i \in 1 .. Len(index) :
            /\ index'[i].topic = index[i].topic
            /\ index[i].topic = t => ~index'[i].subscribed
            /\ index[i].topic # t => index'[i] = index[i]
    BY Unsubscribed
<1>2. DOMAIN index' = 1 .. Len(index)
    BY <1>1
<1>3. ~Shown(t)'
    BY <1>1, <1>2 DEF Shown
<1>4. ASSUME NEW u \in Topics, u # t PROVE Shown(u)' <=> Shown(u)
    BY <1>0, <1>1, <1>2, <1>4 DEF Shown
<1> QED BY <1>3, <1>4

LEMMA ShownKept ==
    ASSUME index' = index
    PROVE  \A t \in Topics : Shown(t)' <=> Shown(t)
BY DEF Shown

LEMMA StatusStep ==
    ASSUME TypeOK, InitInv, LinkInv, StatusInv, [Next]_vars
    PROVE  StatusInv'
<1> USE DEF TypeOK, Sessions
<1>1. CASE InitBegin \/ InitRefused
    <2>1. ~initiated'
        BY <1>1 DEF InitBegin, InitRefused
    <2> QED BY <2>1 DEF StatusInv
<1>2. CASE ConnectOk \/ ConnectFails
    <2>1. ~initiated'
        BY <1>2 DEF ConnectOk, ConnectFails, InitInv
    <2> QED BY <2>1 DEF StatusInv
<1>3. CASE InitDone
    <2>1. index' = <<>> /\ subs' = {} /\ qpc' = "ready"
        BY <1>3 DEF InitDone, InitInv
    <2>2. \A t \in Topics : ~Shown(t)'
        BY <2>1 DEF Shown
    <2> QED BY <2>1, <2>2 DEF StatusInv
<1>4. ASSUME NEW t \in Topics, SubscribeRecord(t)
      PROVE  StatusInv'
    <2>1. /\ qpc = "ready" /\ initiated /\ qpc' = "subscribe" /\ arg' = t
          /\ UNCHANGED <<cur, link, subs, doubt>>
        BY <1>4 DEF SubscribeRecord, Call
    <2>2. Shown(t)' /\ \A u \in Topics : u # t => (Shown(u)' <=> Shown(u))
        BY <1>4, ShownSubscribe
    <2> QED BY <2>1, <2>2 DEF StatusInv
<1>5. ASSUME NEW t \in Topics, UnsubscribeRecord(t)
      PROVE  StatusInv'
    <2>1. /\ qpc = "ready" /\ initiated /\ qpc' = "unsubscribe" /\ arg' = t
          /\ UNCHANGED <<cur, link, subs, doubt>>
        BY <1>5 DEF UnsubscribeRecord, Call
    <2>2. ~Shown(t)' /\ \A u \in Topics : u # t => (Shown(u)' <=> Shown(u))
        BY <1>5, ShownUnsubscribe
    <2> QED BY <2>1, <2>2 DEF StatusInv
<1>6. CASE CallOk \/ CallFails
    <2>1. /\ qpc \in {"subscribe", "unsubscribe"} /\ qpc' = "ready"
          /\ UNCHANGED <<initiated, arg, cur, link, index>>
        BY <1>6 DEF CallOk, CallFails, CallReturns
    <2>2. \A t \in Topics : Shown(t)' <=> Shown(t)
        BY <2>1, ShownKept
    <2>3. /\ subs' = subs \/ subs' = Applied
          /\ \/ subs' = Applied /\ doubt' = doubt \ {arg}
             \/ doubt' = doubt \union {arg}
        BY <1>6 DEF CallOk, CallFails
    <2>4. SUFFICES ASSUME initiated, link[cur] = "up", NEW t \in Topics \ doubt'
                   PROVE  Shown(t) <=> t \in subs'
        BY <2>1, <2>2 DEF StatusInv
    <2>5. CASE t = arg
        <3>1. subs' = Applied
            BY <2>3, <2>4, <2>5
        <3>2. CASE qpc = "subscribe"
            BY <2>4, <2>5, <3>1, <3>2 DEF Applied, StatusInv
        <3>3. CASE qpc = "unsubscribe"
            BY <2>4, <2>5, <3>1, <3>3 DEF Applied, StatusInv
        <3> QED BY <2>1, <3>2, <3>3
    <2>6. CASE t # arg
        <3>1. t \in Topics \ doubt /\ (t \in subs' <=> t \in subs)
            BY <2>3, <2>4, <2>6 DEF Applied
        <3>2. Shown(t) <=> t \in subs
            BY <2>4, <2>6, <3>1 DEF StatusInv
        <3> QED BY <3>1, <3>2
    <2> QED BY <2>5, <2>6
<1>7. CASE DisconnectBegin \/ DisconnectOk \/ DisconnectFails
    <2>1. CASE DisconnectOk
        <3>1. ~initiated'
            BY <2>1 DEF DisconnectOk
        <3> QED BY <3>1 DEF StatusInv
    <2>2. CASE DisconnectBegin \/ DisconnectFails
        <3>1. /\ qpc \in {"ready", "disconnect"} /\ qpc' \in {"ready", "disconnect"}
              /\ UNCHANGED <<initiated, cur, link, subs, doubt, index>>
            BY <2>2 DEF DisconnectBegin, DisconnectFails
        <3>2. \A t \in Topics : Shown(t)' <=> Shown(t)
            BY <3>1, ShownKept
        <3> QED BY <3>1, <3>2 DEF StatusInv
    <2> QED BY <1>7, <2>1, <2>2
<1>8. ASSUME NEW s \in Sessions, GoesDown(s)
      PROVE  StatusInv'
    <2>1. /\ UNCHANGED <<initiated, qpc, arg, cur, doubt, index>>
          /\ link' = [link EXCEPT ![s] = "down"]
          /\ subs' = IF s = cur THEN {} ELSE subs
        BY <1>8 DEF GoesDown
    <2>2. \A t \in Topics : Shown(t)' <=> Shown(t)
        BY <2>1, ShownKept
    <2>3. initiated => cur \in Sessions
        BY DEF LinkInv
    <2>4. CASE s = cur
        BY <2>1, <2>3, <2>4 DEF StatusInv
    <2>5. CASE s # cur
        <3>1. subs' = subs /\ link'[cur'] = link[cur]
            BY <2>1, <2>5
        <3> QED BY <2>1, <2>2, <3>1 DEF StatusInv
    <2> QED BY <2>4, <2>5
<1>9. CASE \E s \in Sessions : DownError(s)
    <2>1. ~initiated'
        BY <1>9 DEF DownError
    <2> QED BY <2>1 DEF StatusInv
<1>10. CASE UNCHANGED vars
    BY <1>10, ShownKept DEF StatusInv, vars
<1> QED BY <1>1, <1>2, <1>3, <1>4, <1>5, <1>6, <1>7, <1>8, <1>9, <1>10 DEF Next

-----------------------------------------------------------------------------
(* The theorems.                                                           *)

LEMMA InitIInv == Init => IInv
<1> SUFFICES ASSUME Init PROVE IInv
    OBVIOUS
<1>1. TypeOK
    <2>1. <<>> \in Seq([topic: Topics, subscribed: BOOLEAN]) /\ Len(<<>>) = 0
        OBVIOUS
    <2>2. cur \in 0 .. MaxSessions /\ Len(index) <= MaxTopicCount
        BY <2>1 DEF Init
    <2> QED BY <2>1, <2>2 DEF Init, TypeOK
<1>2. OneRowPerTopic
    BY DEF Init, OneRowPerTopic
<1>3. InitInv /\ LinkInv /\ NoUseAfterFree /\ NoSessionForgotten
    BY DEF Init, InitInv, LinkInv, NoUseAfterFree, NoSessionForgotten, Sessions
<1>4. HeldInv /\ DownInv /\ StatusInv
    BY DEF Init, HeldInv, DownInv, StatusInv
<1> QED BY <1>1, <1>2, <1>3, <1>4 DEF IInv

\* The invariant is inductive: it holds for any topics and any limit.
THEOREM Invariance == Spec => []IInv
<1>1. Init => IInv
    BY InitIInv
<1>2. IInv /\ [Next]_vars => IInv'
    BY TypeStep, OneRowStep, InitInvStep, LinkInvStep, FreeStep, ForgottenStep,
       HeldStep, DownStep, StatusStep DEF IInv
<1> QED BY <1>1, <1>2, PTL DEF Spec

\* topicindex never grows past MAX_TOPIC_COUNT.
THEOREM TypeCorrect == Spec => []TypeOK
BY Invariance, PTL DEF IInv

\* topicindex has one row per topic, and never grows past MAX_TOPIC_COUNT.
THEOREM IndexCorrect == Spec => [](TypeOK /\ OneRowPerTopic)
BY Invariance, PTL DEF IInv

\* sessiondisconnect frees the strings of topicindex when no later call reads
\* or frees them.
THEOREM FreeCorrect == Spec => []NoUseAfterFree
BY Invariance, PTL DEF IInv

\* A session that is up is session_p, and checkconnect says so, unless the
\* DOWN_ERROR of an older session has cleared the flag.
THEOREM SessionsCorrect == Spec => []NoSessionForgotten
BY Invariance, PTL DEF IInv

\* gettopics agrees with the broker on every topic whose last call succeeded.
THEOREM StatusCorrect == Spec => []StatusAgrees
<1>1. IInv => StatusAgrees
    BY DEF IInv, StatusInv, StatusAgrees
<1> QED BY <1>1, Invariance, PTL

\* A dead session is reported or about to be, unless init raced with the event.
THEOREM DownCorrect == Spec => []DownIsSeen
<1>1. IInv => DownIsSeen
    BY DEF IInv, DownInv, DownIsSeen
<1> QED BY <1>1, Invariance, PTL

-----------------------------------------------------------------------------
(* The abstract connection.                                                *)

Views == [t \in Topics |-> View(t)]

\* Without the flag every topic is off.
LEMMA ViewsOff ==
    ~initiated => Views = [t \in Topics |-> "off"]
BY DEF Views, View

LEMMA ViewsOffNext ==
    ~initiated' => Views' = [t \in Topics |-> "off"]
BY DEF Views, View

\* A step that changes neither flag, rows nor doubts, and begins or ends no
\* call about a topic, changes no view.
LEMMA ViewsKept ==
    ASSUME UNCHANGED <<initiated, index, doubt, arg>>,
           qpc' = qpc \/ {qpc, qpc'} \cap {"subscribe", "unsubscribe"} = {}
    PROVE  Views' = Views
<1>1. \A t \in Topics : Shown(t)' <=> Shown(t)
    BY ShownKept
<1>2. \A t \in Topics : Unsure(t)' <=> Unsure(t)
    BY DEF Unsure
<1>3. ASSUME NEW t \in Topics PROVE View(t)' = View(t)
    BY <1>1, <1>2 DEF View
<1> QED BY <1>3 DEF Views

\* While nothing is stale, a session that is up is the one q knows.
LEMMA LiveIsCurrent ==
    ASSUME IInv, ~stale
    PROVE  /\ Live <=> cur > 0 /\ link[cur] = "up"
           /\ Live => cur \in Sessions /\ (initiated \/ qpc = "connected")
           /\ Live /\ qpc \in {"subscribe", "unsubscribe", "disconnect"} => initiated
<1>1. cur > 0 => cur \in Sessions
    BY DEF IInv, TypeOK, Sessions
<1>2. \A s \in Sessions : link[s] = "up" => s = cur /\ (initiated \/ qpc = "connected")
    BY DEF IInv, NoSessionForgotten
<1>3. \A s \in Sessions : s > 0
    BY DEF Sessions
<1> QED BY <1>1, <1>2, <1>3 DEF Live

LEMMA NotLive ==
    ASSUME ~Live, IInv
    PROVE  subs = {}
<1>1. cur > 0 => cur \in Sessions
    BY DEF IInv, TypeOK, Sessions
<1> QED BY <1>1 DEF IInv, HeldInv, Live

\* Every step is a step of the abstract connection, or none of its steps.
LEMMA ConnectionStep ==
    ASSUME IInv, [Next]_vars
    PROVE  [Conn!Next]_(Conn!cvars)
<1> DEFINE Same == UNCHANGED <<Live, initiated, subs, stale>> /\ Views' = Views
<1>0. Same => UNCHANGED Conn!cvars
    BY DEF Conn!cvars, Views
<1>a. CASE stale
    <2>1. stale' = TRUE
        BY <1>a DEF IInv, TypeOK, Next, InitBegin, InitRefused, ConnectOk, ConnectFails,
            InitDone, SubscribeRecord, UnsubscribeRecord, Call, CallOk, CallFails,
            CallReturns, DisconnectBegin, DisconnectOk, DisconnectFails, GoesDown,
            DownError, vars
    <2> QED BY <1>a, <2>1 DEF Conn!Next, Conn!Broken
<1>b. CASE ~stale
    <2>0. /\ stale = FALSE /\ initiated \in BOOLEAN
          /\ Live <=> cur > 0 /\ link[cur] = "up"
          /\ Live => cur \in Sessions /\ (initiated \/ qpc = "connected")
          /\ Live /\ qpc \in {"subscribe", "unsubscribe", "disconnect"} => initiated
        BY <1>b, LiveIsCurrent DEF IInv, TypeOK
    <2>1. CASE InitBegin \/ InitRefused
        <3>1. ~initiated /\ initiated' = FALSE /\ UNCHANGED <<link, subs, stale>>
            BY <2>1 DEF InitBegin, InitRefused
        <3>2. Views' = Views
            BY <3>1, ViewsOff, ViewsOffNext
        <3>3. Live' = Live /\ initiated' = initiated
            BY <2>0, <3>1 DEF Live
        <3> QED BY <1>0, <3>1, <3>2, <3>3
    <2>2. CASE ConnectOk
        <3>1. /\ qpc = "connect" /\ ~initiated /\ UNCHANGED <<initiated, stale>> /\ subs' = {}
              /\ link' = [link EXCEPT ![cur + 1] = "up"] /\ cur + 1 \in Sessions
              /\ link \in [Sessions -> {"none", "up", "down", "closed"}]
            BY <2>2 DEF ConnectOk, IInv, TypeOK, InitInv, Sessions
        <3>2. ~Live /\ Live'
            BY <2>0, <3>1 DEF Live
        <3>3. subs = {}
            BY <3>2, NotLive
        <3>4. Views' = Views
            BY <3>1, ViewsOff, ViewsOffNext
        <3>5. Conn!Open
            BY <3>1, <3>2, <3>3, <3>4 DEF Conn!Open, Views
        <3> QED BY <2>0, <3>1, <3>5 DEF Conn!Next, Conn!Works
    <2>3. CASE ConnectFails
        <3>1. qpc = "connect" /\ ~initiated /\ UNCHANGED <<initiated, stale>>
            BY <2>3 DEF ConnectFails, IInv, InitInv
        <3>2. ~Live
            BY <2>0, <3>1
        <3>3. subs = {}
            BY <3>2, NotLive
        <3>4. ~Live' /\ subs' = {}
            BY <2>3, <3>2, <3>3 DEF ConnectFails, Live
        <3>5. Views' = Views
            BY <3>1, ViewsOff, ViewsOffNext
        <3>6. Live' = Live
            BY <3>2, <3>4 DEF Live
        <3> QED BY <1>0, <3>1, <3>3, <3>4, <3>5, <3>6
    <2>4. CASE InitDone
        <3>1. /\ ~initiated /\ initiated' = TRUE /\ UNCHANGED <<link, subs, stale>>
              /\ index' = <<>> /\ doubt' = {} /\ qpc' = "ready"
            BY <2>4 DEF InitDone, IInv, InitInv
        <3>2. \A t \in Topics : ~Shown(t)' /\ ~Unsure(t)'
            BY <3>1 DEF Shown, Unsure
        <3>3. \A t \in Topics : View(t)' = "off"
            BY <3>2 DEF View
        <3>4. Views' = Views
            <4>1. Views' = [t \in Topics |-> "off"]
                BY <3>3 DEF Views
            <4> QED BY <3>1, <4>1, ViewsOff
        <3>5. Live' = Live
            BY <3>1 DEF Live
        <3>6. Conn!Tell
            BY <3>1, <3>4, <3>5 DEF Conn!Tell, Views
        <3> QED BY <2>0, <3>1, <3>6 DEF Conn!Next, Conn!Works
    <2>5. ASSUME NEW t \in Topics, SubscribeRecord(t) \/ UnsubscribeRecord(t)
          PROVE  Conn!Next
        <3>1. /\ qpc = "ready" /\ initiated /\ arg' = t
              /\ qpc' \in {"subscribe", "unsubscribe"}
              /\ UNCHANGED <<initiated, link, subs, doubt, stale>>
            BY <2>5 DEF SubscribeRecord, UnsubscribeRecord, Call
        <3>2. \A u \in Topics : u # t => (Shown(u)' <=> Shown(u))
            BY <2>5, ShownSubscribe, ShownUnsubscribe DEF IInv
        <3>3. Unsure(t)' /\ \A u \in Topics : u # t => (Unsure(u)' <=> Unsure(u))
            BY <3>1 DEF Unsure
        <3>4. View(t)' = "unsure" /\ \A u \in Topics : u # t => View(u)' = View(u)
            BY <3>1, <3>2, <3>3 DEF View
        <3>5. Views' = [Views EXCEPT ![t] = "unsure"]
            BY <3>4 DEF Views
        <3>6. Live' = Live
            BY <3>1 DEF Live
        <3>7. Conn!Ask(t)
            BY <3>1, <3>5, <3>6 DEF Conn!Ask, Views
        <3> QED BY <2>0, <3>1, <3>7 DEF Conn!Next, Conn!Works
    <2>6. CASE CallOk
        <3>1. /\ qpc \in {"subscribe", "unsubscribe"} /\ link[cur] = "up" /\ subs' = Applied
              /\ doubt' = doubt \ {arg} /\ qpc' = "ready" /\ arg \in Topics
              /\ UNCHANGED <<initiated, arg, index, cur, link, stale>>
            BY <2>6 DEF CallOk, CallReturns, IInv, TypeOK
        <3>2. Live /\ Live' /\ initiated
            <4>1. cur > 0
                BY <3>1 DEF IInv, LinkInv
            <4> QED BY <2>0, <3>1, <4>1 DEF Live
        <3>3. (Shown(arg) <=> qpc = "subscribe") /\ \A t \in Topics : Shown(t)' <=> Shown(t)
            BY <3>1, <3>2, ShownKept DEF IInv, StatusInv
        <3>4. Unsure(arg) /\ ~Unsure(arg)'
              /\ \A t \in Topics : t # arg => (Unsure(t)' <=> Unsure(t))
            BY <3>1 DEF Unsure
        <3>5. /\ View(arg) = "unsure"
              /\ View(arg)' = IF qpc = "subscribe" THEN "on" ELSE "off"
              /\ \A t \in Topics : t # arg => View(t)' = View(t)
            BY <3>1, <3>2, <3>3, <3>4 DEF View
        <3>6. /\ Views[arg] = "unsure"
              /\ Views' = [Views EXCEPT ![arg] = IF qpc = "subscribe" THEN "on" ELSE "off"]
            BY <3>1, <3>5 DEF Views
        <3>7. \/ qpc = "subscribe" /\ subs' = subs \cup {arg}
              \/ qpc # "subscribe" /\ subs' = subs \ {arg}
            BY <3>1 DEF Applied
        <3>8. Conn!Confirm(arg)
            BY <3>1, <3>2, <3>6, <3>7 DEF Conn!Confirm, Views
        <3> QED BY <2>0, <3>1, <3>8 DEF Conn!Next, Conn!Works
    <2>7. CASE CallFails
        <3>1. /\ qpc \in {"subscribe", "unsubscribe"}
              /\ subs' = subs \/ (link[cur] = "up" /\ subs' = Applied)
              /\ doubt' = doubt \union {arg} /\ qpc' = "ready" /\ arg \in Topics
              /\ UNCHANGED <<initiated, arg, index, cur, link, stale>>
            BY <2>7 DEF CallFails, CallReturns, IInv, TypeOK
        <3>2. Live' = Live
            BY <3>1 DEF Live
        <3>3. \A t \in Topics : Shown(t)' <=> Shown(t)
            BY <3>1, ShownKept
        <3>4. Unsure(arg) /\ \A t \in Topics : Unsure(t)' <=> Unsure(t)
            BY <3>1 DEF Unsure
        <3>5. Views' = Views
            <4>1. \A t \in Topics : View(t)' = View(t)
                BY <3>1, <3>3, <3>4 DEF View
            <4> QED BY <4>1 DEF Views
        <3>6. CASE subs' = subs
            BY <1>0, <3>1, <3>2, <3>5, <3>6
        <3>7. CASE link[cur] = "up" /\ subs' = Applied
            <4>1. cur > 0
                BY <3>1 DEF IInv, LinkInv
            <4>2. Live /\ initiated
                BY <2>0, <3>1, <3>7, <4>1
            <4>3. Views[arg] = "unsure"
                BY <3>1, <3>4, <4>2 DEF Views, View
            <4>4. subs' \in {subs \cup {arg}, subs \ {arg}}
                BY <3>7 DEF Applied
            <4>5. Conn!Unconfirmed(arg)
                BY <3>1, <3>2, <3>5, <4>2, <4>3, <4>4 DEF Conn!Unconfirmed, Views
            <4> QED BY <2>0, <3>1, <4>5 DEF Conn!Next, Conn!Works
        <3> QED BY <3>1, <3>6, <3>7
    <2>8. CASE DisconnectBegin \/ DisconnectFails
        <3>1. /\ {qpc, qpc'} \cap {"subscribe", "unsubscribe"} = {}
              /\ UNCHANGED <<initiated, arg, index, doubt, link, subs, stale>>
            BY <2>8 DEF DisconnectBegin, DisconnectFails
        <3>2. Views' = Views
            BY <3>1, ViewsKept
        <3>3. Live' = Live
            BY <3>1 DEF Live
        <3> QED BY <1>0, <3>1, <3>2, <3>3
    <2>9. CASE DisconnectOk
        <3>1. /\ qpc = "disconnect" /\ initiated' = FALSE /\ subs' = {} /\ UNCHANGED stale
              /\ link' = [link EXCEPT ![cur] = "closed"]
            BY <2>9 DEF DisconnectOk
        <3>2. ~Live'
            <4>1. \A s \in Sessions : link[s] = "up" => s = cur
                BY <1>b DEF IInv, NoSessionForgotten
            <4> QED BY <3>1, <4>1 DEF Live, IInv, TypeOK
        <3>3. CASE initiated
            <4>1. Conn!Close
                BY <3>1, <3>2, <3>3, ViewsOffNext DEF Conn!Close, Conn!AllOff, Views
            <4> QED BY <2>0, <3>1, <4>1 DEF Conn!Next, Conn!Works
        <3>4. CASE ~initiated
            <4>1. ~Live
                BY <2>0, <3>1, <3>4
            <4>2. subs = {} /\ Views' = Views
                BY <3>1, <3>4, <4>1, NotLive, ViewsOff, ViewsOffNext
            <4>3. Live' = Live
                BY <3>2, <4>1 DEF Live
            <4> QED BY <1>0, <2>0, <3>1, <3>4, <4>2, <4>3
        <3> QED BY <3>3, <3>4
    <2>10. ASSUME NEW s \in Sessions, GoesDown(s)
           PROVE  Conn!Next
        <3>1. /\ link[s] = "up" /\ link' = [link EXCEPT ![s] = "down"]
              /\ subs' = (IF s = cur THEN {} ELSE subs)
              /\ UNCHANGED <<initiated, qpc, arg, index, doubt, stale>>
            BY <2>10 DEF GoesDown
        <3>2. s = cur /\ \A u \in Sessions : link[u] = "up" => u = cur
            BY <1>b, <3>1 DEF IInv, NoSessionForgotten
        <3>3. Live /\ ~Live'
            BY <3>1, <3>2 DEF Live, IInv, TypeOK
        <3>4. Views' = Views
            BY <3>1, ViewsKept
        <3>5. Conn!Lose
            BY <3>1, <3>2, <3>3, <3>4 DEF Conn!Lose, Views
        <3> QED BY <2>0, <3>1, <3>5 DEF Conn!Next, Conn!Works
    <2>11. ASSUME NEW s \in Sessions, DownError(s)
           PROVE  [Conn!Next]_(Conn!cvars)
        <3>1. /\ s \in pending /\ initiated' = FALSE /\ UNCHANGED <<link, subs>>
              /\ stale' = (stale \/ (s # cur /\ initiated))
            BY <2>11 DEF DownError
        <3>2. Live' = Live
            BY <3>1 DEF Live
        <3>3. CASE ~initiated
            BY <1>0, <2>0, <3>1, <3>2, <3>3, ViewsOff, ViewsOffNext
        <3>4. CASE initiated /\ s # cur
            <4>1. Conn!Breaks
                BY <3>1, <3>2, <3>4 DEF Conn!Breaks
            <4> QED BY <4>1 DEF Conn!Next
        <3>5. CASE initiated /\ s = cur
            <4>1. ~Live
                <5>1. link[cur] # "up"
                    BY <3>1, <3>5 DEF IInv, LinkInv
                <5> QED BY <2>0, <5>1
            <4>2. Conn!Notice
                BY <3>1, <3>2, <3>5, <4>1, ViewsOffNext DEF Conn!Notice, Conn!AllOff, Views
            <4> QED BY <2>0, <3>1, <3>5, <4>2 DEF Conn!Next, Conn!Works
        <3> QED BY <3>3, <3>4, <3>5
    <2>12. CASE UNCHANGED vars
        <3>1. Views' = Views
            BY <2>12, ViewsKept DEF vars
        <3> QED BY <1>0, <2>12, <3>1 DEF vars, Live
    <2> QED BY <2>1, <2>2, <2>3, <2>4, <2>5, <2>6, <2>7, <2>8, <2>9, <2>10, <2>11, <2>12
            DEF Next
<1> QED BY <1>a, <1>b

\* init, the calls and the callbacks implement the abstract connection: each step
\* is a step of it, or none.
THEOREM ImplementsConnection == Spec => ConnectionSpec
<1>1. Init => Conn!Init
    <2> SUFFICES ASSUME Init PROVE Conn!Init
        OBVIOUS
    <2>1. ~Live /\ initiated = FALSE
        BY DEF Init, Live
    <2>2. Views = [t \in Topics |-> "off"]
        BY <2>1, ViewsOff
    <2> QED BY <2>1, <2>2 DEF Init, Conn!Init, Conn!AllOff, Views
<1>2. IInv /\ [Next]_vars => [Conn!Next]_(Conn!cvars)
    BY ConnectionStep
<1> QED BY <1>1, <1>2, Invariance, PTL DEF Spec, ConnectionSpec, Conn!Spec
=============================================================================
