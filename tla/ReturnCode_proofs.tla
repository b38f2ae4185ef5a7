------------------------- MODULE ReturnCode_proofs --------------------------
(***************************************************************************)
(* Invariance proofs for ReturnCode: one lemma per conjunct of IInv, one   *)
(* step per action.                                                        *)
(***************************************************************************)
EXTENDS ReturnCode, TLAPS

USE CallsAssumption

\* The steps of the context thread, and those that change nothing.
Other == RxMessage \/ RxTest \/ (\E r \in Codes : RxStore(r)) \/ DownError
         \/ UNCHANGED vars

\* Every step is one of the q thread's actions, or of Other.
LEMMA StepCases ==
    ASSUME [Next]_vars
    PROVE  \/ \E o \in Publishes : Publish(o)
           \/ \E r \in {"OK", "FAIL"} : TopicCall(r)
           \/ \E r \in {"OK", "FAIL"} : SdkCall(r)
           \/ \E r \in {"OK", "FAIL"} : EncodeDict(r)
           \/ \E r \in {"OK", "FAIL"} : EncodeDictReturns(r)
           \/ Test
           \/ \E ok \in BOOLEAN : FreeMessage(ok)
           \/ Return \/ StoreReturned \/ Verdict \/ NameError
           \/ InitCall \/ ConnectTest
           \/ \E r \in {"OK", "FAIL"} : ConnectCall(r)
           \/ \E r \in {"OK", "FAIL"} : Cleanup(r)
           \/ Other
BY DEF Next, Other

\* The context thread changes nothing of a call but rc, and says so in writer.
LEMMA OtherFrame ==
    ASSUME Other
    PROVE  /\ UNCHANGED <<qpc, ret, report, op, step, good, done, leaked,
                          crossed, calls, msg_sent, accepted, leaks, everCrossed>>
           /\ writer' = "context" \/ UNCHANGED <<rc, writer>>
BY DEF Other, RxMessage, RxTest, RxStore, DownError, qVars, vars, call, counts

\* TypeOK in four parts: what a call's progress, its flags, the counters and
\* the context thread's variables may be.
ProgressType ==
    /\ rc \in Codes /\ writer \in {"q", "context"} /\ ret \in Codes
    /\ qpc \in {"idle", "call", "encoded", "test", "free", "return", "returned",
                "verdict", "error", "connect", "connect_test", "cleanup"}
    /\ op \in {"topic", "publish", "dict", "init"} /\ step \in 1..Send
    /\ report \in [ok: BOOLEAN, code: Codes]

FlagType ==
    /\ good \in BOOLEAN /\ done \in BOOLEAN /\ leaked \in BOOLEAN
    /\ crossed \in BOOLEAN /\ everCrossed \in BOOLEAN

CountType ==
    /\ calls \in 0..MaxCalls
    /\ msg_sent \in Nat /\ accepted \in Nat /\ leaks \in Nat

ContextType ==
    /\ cCrossed \in BOOLEAN /\ initiated \in BOOLEAN
    /\ cpc \in {"idle", "payload", "destination", "timestamp"}
    /\ had \in Codes \union {"none"}
    /\ field \in {"none", "value", "default", "unset", "lost"}

\* The parts make up TypeOK.
LEMMA TypeParts == TypeOK <=> ProgressType /\ FlagType /\ CountType /\ ContextType
BY DEF TypeOK, ProgressType, FlagType, CountType, ContextType

\* ProgressType is kept by every step.
LEMMA ProgressTypeStep ==
    ASSUME ProgressType, [Next]_vars
    PROVE  ProgressType'
<1> USE DEF ProgressType, Codes, Send, call, counts, context, vars, qVars
<1>1. ASSUME NEW o \in Publishes, Publish(o) PROVE ProgressType'
    BY <1>1 DEF Publish, Publishes, Begin, Enter, Store
<1>2. ASSUME NEW r \in {"OK", "FAIL"}, TopicCall(r) PROVE ProgressType'
    BY <1>2 DEF TopicCall, Begin, Enter, Store
<1>3. ASSUME NEW r \in {"OK", "FAIL"}, SdkCall(r) PROVE ProgressType'
    BY <1>3 DEF SdkCall, Store
<1>4. ASSUME NEW r \in {"OK", "FAIL"}, EncodeDict(r) PROVE ProgressType'
    BY <1>4 DEF EncodeDict, Store, Load
<1>5. ASSUME NEW r \in {"OK", "FAIL"}, EncodeDictReturns(r) PROVE ProgressType'
    BY <1>5 DEF EncodeDictReturns, Store, Load
<1>6. CASE Test
    BY <1>6 DEF Test, TestLeaves, Load
<1>7. ASSUME NEW ok \in BOOLEAN, FreeMessage(ok) PROVE ProgressType'
    BY <1>7 DEF FreeMessage
<1>8. CASE Return
    BY <1>8 DEF Return, Load
<1>9. CASE StoreReturned
    BY <1>9 DEF StoreReturned, Store
<1>10. CASE Verdict
    <2>1. \/ report' = [ok |-> TRUE, code |-> "OK"] /\ qpc' = "idle"
          \/ report' = report /\ qpc' = "error"
        BY <1>10, Zenon DEF Verdict
    <2>2. UNCHANGED <<rc, writer, op, step, ret>>
        BY <1>10 DEF Verdict
    <2>3. qpc' \in {"idle", "error"}
        BY <2>1
    <2>4. report' \in [ok: BOOLEAN, code: Codes]
        <3>1. [ok |-> TRUE, code |-> "OK"] \in [ok: BOOLEAN, code: Codes]
            OBVIOUS
        <3> QED BY <2>1, <3>1
    <2> QED BY <2>2, <2>3, <2>4
<1>11. CASE NameError
    BY <1>11 DEF NameError, Load
<1>12. CASE Other
    <2>1. UNCHANGED <<writer, rc>> \/ (writer' = "context" /\ rc' \in Codes)
        BY <1>12 DEF Other, RxMessage, RxTest, RxStore, DownError
    <2> QED BY <1>12, <2>1, OtherFrame
<1>13. CASE InitCall
    BY <1>13 DEF InitCall, Enter
<1>14. ASSUME NEW r \in {"OK", "FAIL"}, ConnectCall(r) PROVE ProgressType'
    BY <1>14 DEF ConnectCall, Store
<1>15. CASE ConnectTest
    BY <1>15 DEF ConnectTest, Load, Connect
<1>16. ASSUME NEW r \in {"OK", "FAIL"}, Cleanup(r) PROVE ProgressType'
    BY <1>16 DEF Cleanup, Store
<1> QED BY <1>1, <1>2, <1>3, <1>4, <1>5, <1>6, <1>7, <1>8, <1>9, <1>10,
           <1>11, <1>12, <1>13, <1>14, <1>15, <1>16, StepCases

\* FlagType is kept by every step.
LEMMA FlagTypeStep ==
    ASSUME FlagType, [Next]_vars
    PROVE  FlagType'
<1> USE DEF FlagType, call, counts, context, vars, qVars
<1>1. ASSUME NEW o \in Publishes, Publish(o) PROVE FlagType'
    BY <1>1 DEF Publish, Publishes, Begin, Enter, Store
<1>2. ASSUME NEW r \in {"OK", "FAIL"}, TopicCall(r) PROVE FlagType'
    BY <1>2 DEF TopicCall, Begin, Enter, Store
<1>3. ASSUME NEW r \in {"OK", "FAIL"}, SdkCall(r) PROVE FlagType'
    BY <1>3 DEF SdkCall, Store
<1>4. ASSUME NEW r \in {"OK", "FAIL"}, EncodeDict(r) PROVE FlagType'
    BY <1>4 DEF EncodeDict, Store, Load
<1>5. ASSUME NEW r \in {"OK", "FAIL"}, EncodeDictReturns(r) PROVE FlagType'
    BY <1>5 DEF EncodeDictReturns, Store, Load
<1>6. CASE Test
    BY <1>6 DEF Test, TestLeaves, Load
<1>7. ASSUME NEW ok \in BOOLEAN, FreeMessage(ok) PROVE FlagType'
    BY <1>7 DEF FreeMessage
<1>8. CASE Return
    BY <1>8 DEF Return, Load
<1>9. CASE StoreReturned
    BY <1>9 DEF StoreReturned, Store
<1>10. CASE Verdict
    BY <1>10 DEF Verdict, Load
<1>11. CASE NameError
    BY <1>11 DEF NameError, Load
<1>12. CASE Other
    BY <1>12, OtherFrame
<1>13. CASE InitCall
    BY <1>13 DEF InitCall, Enter
<1>14. ASSUME NEW r \in {"OK", "FAIL"}, ConnectCall(r) PROVE FlagType'
    BY <1>14 DEF ConnectCall, Store
<1>15. CASE ConnectTest
    BY <1>15 DEF ConnectTest, Load, Connect
<1>16. ASSUME NEW r \in {"OK", "FAIL"}, Cleanup(r) PROVE FlagType'
    BY <1>16 DEF Cleanup, Store
<1> QED BY <1>1, <1>2, <1>3, <1>4, <1>5, <1>6, <1>7, <1>8, <1>9, <1>10,
           <1>11, <1>12, <1>13, <1>14, <1>15, <1>16, StepCases

\* CountType is kept by every step.
LEMMA CountTypeStep ==
    ASSUME CountType, [Next]_vars
    PROVE  CountType'
<1> USE DEF CountType, call, counts, context
<1>1. ASSUME NEW o, Begin(o) PROVE calls' \in 0 .. MaxCalls
                                 /\ UNCHANGED <<msg_sent, accepted, leaks>>
    BY <1>1 DEF Begin, Enter
<1>2. ASSUME NEW r, SdkCall(r) PROVE CountType'
    BY <1>2 DEF SdkCall
<1>3. ASSUME NEW ok, FreeMessage(ok) PROVE CountType'
    BY <1>3 DEF FreeMessage
<1>4. CASE Verdict
    <2>1. msg_sent' \in {msg_sent, msg_sent + 1} /\ UNCHANGED <<calls, accepted, leaks>>
        BY <1>4, Zenon DEF Verdict
    <2> QED BY <2>1
<1>5. CASE UNCHANGED <<calls, msg_sent, accepted, leaks>>
    BY <1>5
<1>6. CASE InitCall
    BY <1>6 DEF InitCall, Enter
<1> QED BY <1>1, <1>2, <1>3, <1>4, <1>5, <1>6, StepCases
        DEF Publish, TopicCall, EncodeDict, EncodeDictReturns, Test, Return,
            StoreReturned, NameError, ConnectCall, ConnectTest, Cleanup,
            Other, RxMessage, RxTest, RxStore, DownError, vars, qVars

\* ContextType is kept by every step.
LEMMA ContextTypeStep ==
    ASSUME ContextType, [Next]_vars
    PROVE  ContextType'
<1> USE DEF ContextType
<1>1. CASE RxMessage
    BY <1>1 DEF RxMessage
<1>2. ASSUME NEW r \in Codes, RxStore(r) PROVE ContextType'
    BY <1>2 DEF RxStore
<1>3. CASE RxTest
    <2>1. field' \in {"none", "value", "default", "unset", "lost"}
        BY <1>3 DEF RxTest, Outcome
    <2>2. cpc' \in {"idle", "payload", "destination", "timestamp"}
        BY <1>3 DEF RxTest
    <2>3. cCrossed' \in BOOLEAN
        BY <1>3, Zenon DEF RxTest
    <2>4. had' \in Codes \union {"none"} /\ initiated' = initiated
        BY <1>3 DEF RxTest
    <2>5. initiated' \in BOOLEAN
        BY <2>4
    <2> QED BY <2>1, <2>2, <2>3, <2>4, <2>5
<1>4. CASE UNCHANGED context
    BY <1>4 DEF context
<1>5. ASSUME NEW o, Publish(o) PROVE UNCHANGED context
    BY <1>5 DEF Publish, Begin, Enter
<1>6. ASSUME NEW r,
             TopicCall(r) \/ SdkCall(r) \/ EncodeDict(r) \/ EncodeDictReturns(r)
      PROVE  UNCHANGED context
    BY <1>6 DEF TopicCall, SdkCall, EncodeDict, EncodeDictReturns, Begin, Enter
<1>7. CASE Test \/ Return \/ StoreReturned \/ NameError
           \/ InitCall \/ ConnectTest
    BY <1>4, <1>7
    DEF Test, Return, StoreReturned, NameError, InitCall, Begin, Enter,
        ConnectTest
<1>8. ASSUME NEW ok, FreeMessage(ok) PROVE UNCHANGED context
    BY <1>8 DEF FreeMessage
<1>9. CASE UNCHANGED vars
    BY <1>4, <1>9 DEF vars
<1>10. CASE Verdict
    <2>1. UNCHANGED <<cpc, had, field, cCrossed>> /\ initiated' \in FlagAfter
        BY <1>10, Zenon DEF Verdict
    <2>2. FlagAfter \subseteq {TRUE, FALSE, initiated}
        BY DEF FlagAfter
    <2>3. initiated' \in BOOLEAN
        BY <2>1, <2>2
    <2> QED BY <2>1, <2>3
<1>11. CASE DownError
    BY <1>11 DEF DownError
<1>12. ASSUME NEW r, ConnectCall(r) \/ Cleanup(r) PROVE UNCHANGED context
    BY <1>12 DEF ConnectCall, Cleanup
<1> QED
    BY <1>1, <1>2, <1>3, <1>4, <1>5, <1>6, <1>7, <1>8, <1>9, <1>10, <1>11,
       <1>12 DEF Next

\* TypeOK is kept by every step.
LEMMA TypeStep ==
    ASSUME TypeOK, [Next]_vars
    PROVE  TypeOK'
BY TypeParts, ProgressTypeStep, FlagTypeStep, CountTypeStep, ContextTypeStep, PTL

\* A step keeps what rc stands for.
LEMMA CallStep ==
    ASSUME ProgressType, FlagType, CallInv, StepInv, [Next]_vars
    PROVE  CallInv'
<1> USE DEF Says, Succeeded, call, counts, context
<1>1. ASSUME NEW o \in Publishes, Publish(o) PROVE CallInv'
    BY <1>1 DEF CallInv, Publish, Begin, Enter, Store
<1>2. ASSUME NEW r \in {"OK", "FAIL"}, TopicCall(r) PROVE CallInv'
    BY <1>2 DEF CallInv, TopicCall, Begin, Enter, Store
<1>3. ASSUME NEW r \in {"OK", "FAIL"}, SdkCall(r) PROVE CallInv'
    BY <1>3 DEF CallInv, SdkCall, Store
<1>4. ASSUME NEW r \in {"OK", "FAIL"}, EncodeDict(r) PROVE CallInv'
    BY <1>4 DEF CallInv, EncodeDict, Store, Load
<1>5. ASSUME NEW r \in {"OK", "FAIL"}, EncodeDictReturns(r) PROVE CallInv'
    <2>1. ~done /\ step = 5
        BY <1>5 DEF StepInv, EncodeDictReturns, Encode
    <2>2. ASSUME ~crossed' PROVE ~crossed /\ (rc' = "OK" <=> good')
        BY <1>5, <2>2 DEF CallInv, EncodeDictReturns, Load, Store
    <2>3. qpc' = "test" /\ UNCHANGED <<done, step>>
        BY <1>5 DEF EncodeDictReturns
    <2>4. crossed' => everCrossed'
        BY <1>5 DEF CallInv, EncodeDictReturns, Load
    <2> QED BY <2>1, <2>2, <2>3, <2>4 DEF CallInv, Send
<1>6. CASE Test
    <2>1. crossed' => everCrossed'
        BY <1>6 DEF CallInv, Test, Load
    <2>2. UNCHANGED <<rc, writer, good, done, leaked>>
        BY <1>6 DEF Test
    <2>3. ASSUME ~crossed'
          PROVE  ~crossed /\ (done <=> good /\ step = Send) /\ (rc = "OK" <=> good)
        BY <1>6, <2>3 DEF CallInv, Test, Load
    <2>4. \/ rc = "OK" /\ step < Send /\ qpc' = "call"
          \/ ~(rc = "OK" /\ step < Send) /\ qpc' \in {"free", "return"}
        BY <1>6 DEF Test, TestLeaves
    <2>5. step \in Nat /\ step <= Send
        BY DEF ProgressType, Send
    <2>6. ASSUME ~crossed' PROVE qpc' = "call" => good /\ rc = "OK"
        BY <2>3, <2>4, <2>6
    <2>7. ASSUME ~crossed', qpc' \in {"free", "return"} PROVE rc = "OK" <=> done
        BY <2>3, <2>4, <2>5, <2>7 DEF Send
    <2>8. ~leaked
        BY <1>6 DEF StepInv, Test
    <2> QED BY <2>1, <2>2, <2>4, <2>6, <2>7, <2>8 DEF CallInv
<1>7. ASSUME NEW ok \in BOOLEAN, FreeMessage(ok) PROVE CallInv'
    BY <1>7 DEF CallInv, FreeMessage
<1>8. CASE Return
    BY <1>8 DEF CallInv, Return, Load
<1>9. CASE StoreReturned
    BY <1>9 DEF CallInv, StoreReturned, Store
<1>10. CASE Verdict
    BY <1>10 DEF CallInv, Verdict, Load
<1>11. CASE NameError
    BY <1>11 DEF CallInv, NameError, Load
<1>12. CASE Other
    <2>1. /\ UNCHANGED <<qpc, ret, step, good, done, leaked, crossed, everCrossed>>
          /\ writer' = "context" \/ UNCHANGED <<rc, writer>>
        BY <1>12, OtherFrame
    <2> QED BY <2>1 DEF CallInv
<1>13. CASE InitCall
    BY <1>13 DEF CallInv, InitCall, Enter
<1>14. ASSUME NEW r \in {"OK", "FAIL"}, ConnectCall(r) PROVE CallInv'
    BY <1>14 DEF CallInv, ConnectCall, Store
<1>15. CASE ConnectTest
    <2>1. /\ UNCHANGED <<rc, writer, good, done, leaked>> /\ ~leaked
          /\ crossed' => everCrossed'
        BY <1>15 DEF CallInv, StepInv, ConnectTest, Load
    <2>2. ASSUME ~crossed'
          PROVE  ~crossed /\ (done <=> good /\ step = Connect) /\ (rc = "OK" <=> good)
        BY <1>15, <2>2 DEF CallInv, ConnectTest, Load
    <2>3. \/ rc = "OK" /\ qpc' = "connect"
          \/ rc = "OK" /\ step = Connect /\ qpc' = "returned" /\ ret' = "OK"
          \/ rc # "OK" /\ qpc' \in {"return", "cleanup"}
        BY <1>15 DEF ConnectTest
    <2> QED BY <2>1, <2>2, <2>3 DEF CallInv
<1>16. ASSUME NEW r \in {"OK", "FAIL"}, Cleanup(r) PROVE CallInv'
    BY <1>16 DEF CallInv, Cleanup, Store
<1> QED BY <1>1, <1>2, <1>3, <1>4, <1>5, <1>6, <1>7, <1>8, <1>9, <1>10, <1>11,
           <1>12, <1>13, <1>14, <1>15, <1>16, StepCases

\* A step keeps what the call's position says.
LEMMA StepStep ==
    ASSUME ProgressType, FlagType, StepInv, [Next]_vars
    PROVE  StepInv'
<1> USE DEF StepInv, call, counts, context
<1>1. ASSUME NEW o \in Publishes, Publish(o) PROVE StepInv'
    BY <1>1 DEF Publish, Begin, Enter, Store
<1>2. ASSUME NEW r \in {"OK", "FAIL"}, TopicCall(r) PROVE StepInv'
    BY <1>2 DEF TopicCall, Begin, Enter, Store
<1>3. ASSUME NEW r \in {"OK", "FAIL"}, SdkCall(r) PROVE StepInv'
    <2>1. /\ qpc' = "test" /\ leaked' = leaked /\ step' = step
          /\ done' = (step = Send /\ good') /\ ~leaked /\ op' = op /\ op \in Publishes
        BY <1>3 DEF SdkCall
    <2> QED BY <2>1
<1>4. ASSUME NEW r \in {"OK", "FAIL"}, EncodeDict(r) PROVE StepInv'
    BY <1>4 DEF EncodeDict, Store, Load
<1>5. ASSUME NEW r \in {"OK", "FAIL"}, EncodeDictReturns(r) PROVE StepInv'
    BY <1>5 DEF EncodeDictReturns, Store, Load
<1>6. CASE Test
    <2>1. /\ qpc = "test" /\ qpc' \in {"call", "free", "return"}
          /\ UNCHANGED <<done, leaked, op>>
        BY <1>6 DEF Test, TestLeaves
    <2>2. qpc' = "call" => step < Send
        BY <1>6 DEF Test, TestLeaves
    <2>3. ~leaked /\ op \in Publishes /\ (done => step = Send)
        BY <2>1
    <2> QED BY <2>1, <2>2, <2>3 DEF Send
<1>7. ASSUME NEW ok \in BOOLEAN, FreeMessage(ok) PROVE StepInv'
    BY <1>7 DEF FreeMessage
<1>8. CASE Return
    BY <1>8 DEF Return, Load
<1>9. CASE StoreReturned
    BY <1>9 DEF StoreReturned, Store
<1>10. CASE Verdict
    BY <1>10 DEF Verdict, Load
<1>11. CASE NameError
    BY <1>11 DEF NameError, Load
<1>12. CASE Other
    BY <1>12, OtherFrame
<1>13. CASE InitCall
    BY <1>13 DEF InitCall, Enter
<1>14. ASSUME NEW r \in {"OK", "FAIL"}, ConnectCall(r) PROVE StepInv'
    BY <1>14 DEF ConnectCall
<1>15. CASE ConnectTest
    BY <1>15 DEF ConnectTest
<1>16. ASSUME NEW r \in {"OK", "FAIL"}, Cleanup(r) PROVE StepInv'
    BY <1>16 DEF Cleanup
<1> QED BY <1>1, <1>2, <1>3, <1>4, <1>5, <1>6, <1>7, <1>8, <1>9, <1>10, <1>11,
           <1>12, <1>13, <1>14, <1>15, <1>16, StepCases

\* A step that neither begins nor ends a call, sends, frees nor counts.
LEMMA Steady ==
    ASSUME \/ \E r \in {"OK", "FAIL"} : EncodeDict(r)
           \/ \E r \in {"OK", "FAIL"} : EncodeDictReturns(r)
           \/ Test \/ Return \/ StoreReturned \/ Other
           \/ ConnectTest \/ \E r \in {"OK", "FAIL"} : Cleanup(r)
    PROVE  /\ UNCHANGED <<op, done, leaked, accepted, msg_sent, leaks>>
           /\ qpc' = "idle" <=> qpc = "idle"
           /\ everCrossed => everCrossed'
<1> USE DEF Load, call, counts
<1>1. ASSUME NEW r, EncodeDict(r)
      PROVE  /\ UNCHANGED <<op, done, leaked, accepted, msg_sent, leaks>>
             /\ (qpc' = "idle" <=> qpc = "idle") /\ (everCrossed => everCrossed')
    BY <1>1 DEF EncodeDict
<1>2. ASSUME NEW r, EncodeDictReturns(r)
      PROVE  /\ UNCHANGED <<op, done, leaked, accepted, msg_sent, leaks>>
             /\ qpc' = "idle" <=> qpc = "idle"
             /\ everCrossed => everCrossed'
    BY <1>2 DEF EncodeDictReturns
<1>3. CASE Test
    BY <1>3 DEF Test, TestLeaves
<1>4. CASE Return
    BY <1>4 DEF Return
<1>5. CASE StoreReturned
    BY <1>5 DEF StoreReturned
<1>6. CASE Other
    BY <1>6, OtherFrame
<1>7. CASE ConnectTest
    BY <1>7 DEF ConnectTest
<1>8. ASSUME NEW r, Cleanup(r)
      PROVE  /\ UNCHANGED <<op, done, leaked, accepted, msg_sent, leaks>>
             /\ (qpc' = "idle" <=> qpc = "idle") /\ (everCrossed => everCrossed')
    BY <1>8 DEF Cleanup
<1> QED BY <1>1, <1>2, <1>3, <1>4, <1>5, <1>6, <1>7, <1>8

\* A step keeps the balance of the counters.
LEMMA CountStep ==
    ASSUME ProgressType, FlagType, CountType, CallInv, StepInv, CountInv, [Next]_vars
    PROVE  CountInv'
<1> USE DEF CountInv, Uncounted, Succeeded, call, counts, context
<1>1. ASSUME NEW o, Begin(o), ~done' \/ o \notin Publishes PROVE CountInv'
    <2>1. /\ qpc = "idle" /\ op' = o
          /\ UNCHANGED <<msg_sent, accepted, leaks, everCrossed>>
        BY <1>1 DEF Begin, Enter
    <2> QED BY <1>1, <2>1
<1>2. ASSUME NEW r, SdkCall(r) PROVE CountInv'
    <2>1. qpc = "call" /\ ~done /\ leaked' = FALSE /\ qpc' = "test" /\ op \in Publishes
        BY <1>2 DEF SdkCall, StepInv
    <2>2. /\ op' = op /\ accepted' = (IF done' THEN accepted + 1 ELSE accepted)
          /\ UNCHANGED <<msg_sent, leaks, everCrossed>>
        BY <1>2 DEF SdkCall
    <2> QED BY <2>1, <2>2 DEF CountType
<1>3. ASSUME NEW ok \in BOOLEAN, FreeMessage(ok) PROVE CountInv'
    <2>1. /\ qpc = "free" /\ op \in Publishes /\ ~leaked /\ qpc' # "idle"
          /\ leaked' = ~ok
          /\ leaks' = (IF done /\ ~ok THEN leaks + 1 ELSE leaks)
          /\ UNCHANGED <<op, done, msg_sent, accepted, everCrossed>>
        BY <1>3 DEF FreeMessage, StepInv
    <2>2. CASE ok
        BY <2>1, <2>2
    <2>3. CASE ~ok
        <3>1. Uncounted' = 0 /\ (done => leaks' = leaks + 1 /\ Uncounted = 1)
              /\ (~done => leaks' = leaks /\ Uncounted = 0)
            BY <2>1, <2>3
        <3>2. UNCHANGED <<msg_sent, accepted, everCrossed>>
            BY <2>1
        <3> HIDE DEF Uncounted
        <3> QED BY <3>1, <3>2 DEF CountType
    <2> QED BY <2>2, <2>3
<1>4. CASE Verdict
    <2> SUFFICES ASSUME ~everCrossed' PROVE accepted' = msg_sent' + leaks' + Uncounted'
        OBVIOUS
    <2>1. ~everCrossed /\ ~crossed /\ (rc = "OK" <=> Succeeded) /\ qpc # "idle"
        BY <1>4 DEF Verdict, Load, CallInv, Says
    <2>2. UNCHANGED <<op, done, leaked, accepted, leaks>>
        BY <1>4 DEF Verdict
    <2>3. CASE rc = "OK"
        <3>1. qpc' = "idle" /\ msg_sent' = IF op \in Publishes THEN msg_sent + 1 ELSE msg_sent
            BY <1>4, <2>3 DEF Verdict
        <3> QED BY <2>1, <2>2, <2>3, <3>1 DEF CountType
    <2>4. CASE rc # "OK"
        BY <1>4, <2>1, <2>2, <2>4 DEF Verdict
    <2> QED BY <2>3, <2>4
<1>5. CASE NameError
    <2> SUFFICES ASSUME ~everCrossed' PROVE accepted' = msg_sent' + leaks' + Uncounted'
        OBVIOUS
    <2>1. ~everCrossed /\ ~Succeeded
        BY <1>5 DEF NameError, Load, CallInv
    <2>2. qpc' = "idle" /\ UNCHANGED <<msg_sent, accepted, leaks>>
        BY <1>5 DEF NameError
    <2> QED BY <2>1, <2>2
<1>6. ASSUME \/ \E r \in {"OK", "FAIL"} : EncodeDict(r)
             \/ \E r \in {"OK", "FAIL"} : EncodeDictReturns(r)
             \/ Test \/ Return \/ StoreReturned \/ Other
             \/ ConnectTest \/ \E r \in {"OK", "FAIL"} : Cleanup(r)
      PROVE  CountInv'
    BY <1>6, Steady
<1>7. ASSUME NEW r, ConnectCall(r) PROVE CountInv'
    <2>1. op \notin Publishes
        BY <1>7 DEF StepInv, ConnectCall, Publishes
    <2>2. qpc # "idle" /\ UNCHANGED <<op, msg_sent, accepted, leaks, everCrossed>>
        BY <1>7 DEF ConnectCall
    <2> QED BY <2>1, <2>2
<1>8. CASE InitCall
    BY <1>8 DEF InitCall, Enter, Publishes
<1> QED BY <1>1, <1>2, <1>3, <1>4, <1>5, <1>6, <1>7, <1>8, StepCases
        DEF Publish, TopicCall, Publishes, ProgressType

\* A call's report is true when it is made, and no other step changes it.
LEMMA ReportStep ==
    ASSUME CallInv, ReportIsTrue, [Next]_vars
    PROVE  ReportIsTrue'
<1> USE DEF ReportIsTrue, CallInv, Says, Succeeded, call, counts, context
<1>1. CASE Verdict
    <2>1. CASE rc = "OK"
        <3>1. /\ report' = [ok |-> TRUE, code |-> "OK"]
              /\ UNCHANGED <<done, leaked>> /\ (~crossed' => ~crossed /\ Succeeded)
            BY <1>1, <2>1 DEF Verdict, Load
        <3> QED BY <3>1
    <2>2. CASE rc # "OK"
        <3>1. qpc' = "error"
            BY <1>1, <2>2 DEF Verdict
        <3> QED BY <3>1
    <2> QED BY <2>1, <2>2
<1>2. CASE NameError
    BY <1>2 DEF NameError, Load
<1>3. CASE Other
    BY <1>3, OtherFrame
<1>4. ASSUME qpc' # "idle" PROVE ReportIsTrue'
    BY <1>4
<1> QED BY <1>1, <1>2, <1>3, <1>4, StepCases
        DEF Publish, TopicCall, SdkCall, EncodeDict, EncodeDictReturns, Test,
            TestLeaves, FreeMessage, Return, StoreReturned, InitCall, ConnectCall,
            ConnectTest, Cleanup

\* A step of the q thread that stores rc says so in writer; the context thread's
\* test then counts as crossed.
LEMMA RxStep ==
    ASSUME ContextType, RxInv, [Next]_vars
    PROVE  RxInv'
<1> USE DEF RxInv, FieldIsTrue
<1>1. CASE RxMessage
    BY <1>1 DEF RxMessage
<1>2. CASE RxTest
    BY <1>2 DEF RxTest, Outcome
<1>3. ASSUME NEW r \in Codes, RxStore(r) PROVE RxInv'
    BY <1>3 DEF RxStore
<1>4. ASSUME UNCHANGED <<cpc, had, field, cCrossed>>,
             UNCHANGED <<rc, writer>> \/ writer' = "q"
      PROVE  RxInv'
    BY <1>4
<1> QED BY <1>1, <1>2, <1>3, <1>4, StepCases
        DEF Publish, TopicCall, Begin, Enter, SdkCall, EncodeDict, EncodeDictReturns, Test,
            FreeMessage, Return, StoreReturned, Verdict, NameError, InitCall,
            ConnectCall, ConnectTest, Cleanup, DownError, Other, Store, vars, context

\* The invariant holds before the first call.
LEMMA InitIInv ==
    ASSUME Init
    PROVE  IInv
<1> USE DEF Init
<1>1. TypeOK
    <2>1. [ok |-> TRUE, code |-> "OK"] \in [ok: BOOLEAN, code: Codes]
        BY DEF Codes
    <2>2. ProgressType
        BY <2>1 DEF ProgressType, Codes, Send
    <2>3. FlagType /\ ContextType
        BY DEF FlagType, ContextType
    <2>4. CountType
        BY DEF CountType
    <2> QED BY <2>2, <2>3, <2>4, TypeParts
<1>2. CallInv /\ ReportIsTrue
    BY DEF CallInv, ReportIsTrue, Says
<1>3. StepInv /\ CountInv
    BY DEF StepInv, CountInv, Uncounted
<1>4. RxInv
    BY DEF RxInv, FieldIsTrue
<1> QED BY <1>1, <1>2, <1>3, <1>4 DEF IInv

\* It is inductive.
LEMMA NextIInv ==
    ASSUME IInv, [Next]_vars
    PROVE  IInv'
<1>1. ProgressType /\ FlagType /\ CountType /\ ContextType
    BY TypeParts DEF IInv
<1> QED BY <1>1, TypeStep, CallStep, ReportStep, StepStep, CountStep,
           RxStep DEF IInv

\* The inductive invariant holds of every behaviour: of init, publishtosolace,
\* subscribetopic, unsubscribetopic and disconnect sharing rc with the callback.
THEOREM Invariance == Spec => []IInv
BY InitIInv, NextIInv, PTL DEF Spec

\* Every call keeps to its places and codes, whatever the other thread does.
THEOREM TypeCorrect == Spec => []TypeOK
<1>1. IInv => TypeOK
    BY DEF IInv
<1> QED BY <1>1, Invariance, PTL

\* init, publishtosolace and the topic calls report what the SDK did, if no load of rc
\* saw the context thread's code.
THEOREM ReportCorrect == Spec => []ReportIsTrue
<1>1. IInv => ReportIsTrue
    BY DEF IInv
<1> QED BY <1>1, Invariance, PTL

\* msg_sent counts the messages handed to the broker, under the same condition.
THEOREM SentCorrect == Spec => []SentIsAccepted
<1>1. IInv => SentIsAccepted
    BY DEF IInv, CountInv, Uncounted, SentIsAccepted, TypeOK
<1> QED BY <1>1, Invariance, PTL

\* decodeFromSolaceContainer takes its fields from the message, if no test of rc
\* read a code of the q thread.
THEOREM FieldCorrect == Spec => []FieldIsTrue
<1>1. IInv => FieldIsTrue
    BY DEF IInv, RxInv
<1> QED BY <1>1, Invariance, PTL
=============================================================================
