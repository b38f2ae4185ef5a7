----------------------------- MODULE ReturnCode -----------------------------
(***************************************************************************)
(* The global return code.  init, publishtosolace, subscribe, unsubscribe  *)
(* and sessiondisconnect (q main thread) keep every SDK result in the      *)
(* global rc and read it back to test it, to return it, and to name it in  *)
(* the error; make_msg_dict and decodeFromSolaceContainer (context thread) use *)
(* the same rc for their own calls.  It is neither locked nor atomic; the  *)
(* Makefile builds without optimisation, so each mention of rc is one      *)
(* store or one load, and these are the steps below.                       *)
(*                                                                         *)
(* writer, crossed, done and the counters are history: who stored rc last, *)
(* whether a thread has read the other's value, and what the SDK did.      *)
(***************************************************************************)
EXTENDS Naturals

CONSTANT MaxCalls   \* bound on calls, to keep the model finite

ASSUME CallsAssumption == MaxCalls \in Nat

VARIABLES
    rc, writer,                       \* the global; the thread that stored it
    qpc, op, step, ret, report,       \* the q thread and its call's outcome
    good, done, leaked, crossed,      \* of the current call
    calls, msg_sent, accepted, leaks, everCrossed,
    cpc, had, field, cCrossed,        \* the context thread
    initiated                         \* the global flag

call    == <<op, step, good, done, leaked, crossed>>
counts  == <<calls, msg_sent, accepted, leaks, everCrossed>>
context == <<cpc, had, field, cCrossed, initiated>>
vars    == <<rc, writer, qpc, ret, report, call, counts, context>>

\* The SDK calls of publishToSolace; "encode" is encodeToSolaceContainer.
Calls  == <<"alloc", "mode", "destination", "stream", "encode", "send">>
Encode == 5
Send   == 6

Publishes == {"publish", "dict"}

\* Those of connectToSolace: initialize, context_create, session_create, and
Connect == 4   \* session_connect.

Codes == {"OK", "FAIL", "NOT_FOUND"}

\* A first init has succeeded.
Init ==
    /\ rc = "OK" /\ writer = "q"
    /\ qpc = "idle" /\ op = "topic" /\ step = 1 /\ ret = "OK"
    /\ report = [ok |-> TRUE, code |-> "OK"]
    /\ good = TRUE /\ done = TRUE /\ leaked = FALSE /\ crossed = FALSE
    /\ calls = 0 /\ msg_sent = 0 /\ accepted = 0 /\ leaks = 0
    /\ everCrossed = FALSE
    /\ cpc = "idle" /\ had = "none" /\ field = "none" /\ cCrossed = FALSE
    /\ initiated = TRUE

-----------------------------------------------------------------------------
(* The q thread.                                                           *)

Store(code) == rc' = code /\ writer' = "q"

\* A load of rc by the q thread: is it the value it stored?
Load ==
    /\ crossed' = (crossed \/ writer # "q")
    /\ everCrossed' = (everCrossed \/ writer # "q")

Enter(o) ==
    /\ qpc = "idle" /\ calls < MaxCalls
    /\ initiated <=> o # "init"
    /\ calls' = calls + 1
    /\ op' = o /\ leaked' = FALSE /\ crossed' = FALSE
    /\ UNCHANGED <<ret, report, everCrossed, context>>

Begin(o) == Enter(o) /\ UNCHANGED <<msg_sent, accepted, leaks>>

\* publishtosolace; a "dict" is encoded by encodeKdbDictionaryToSolaceContainer.
Publish(o) ==
    /\ Begin(o)
    /\ Store("OK")
    /\ step' = 1 /\ good' = TRUE /\ done' = FALSE
    /\ qpc' = "call"

\* init, after DOWN_ERROR or sessiondisconnect; feedreset starts a new count.
InitCall ==
    /\ Enter("init")
    /\ msg_sent' = 0 /\ accepted' = 0 /\ leaks' = 0
    /\ step' = 1 /\ good' = TRUE /\ done' = FALSE
    /\ qpc' = "connect"
    /\ UNCHANGED <<rc, writer>>

\* One SDK call of connectToSolace stores its result.
ConnectCall(result) ==
    /\ qpc = "connect"
    /\ Store(result)
    /\ good' = (good /\ result = "OK")
    /\ done' = (step = Connect /\ good')
    /\ qpc' = "connect_test"
    /\ UNCHANGED <<op, step, leaked, crossed, ret, report, counts, context>>

\* Mutant: a connection that fails is cleaned up, and "return SOLCLIENT_OK".
ConnectTestOk ==
    /\ qpc = "connect_test"
    /\ Load
    /\ \/ /\ rc = "OK" /\ step < Connect
          /\ qpc' = "connect" /\ step' = step + 1 /\ ret' = ret
       \/ /\ ~(rc = "OK" /\ step < Connect)
          /\ qpc' = "returned" /\ step' = step /\ ret' = "OK"
    /\ UNCHANGED <<rc, writer, op, good, done, leaked, report, calls, msg_sent,
                   accepted, leaks, context>>

\* Its test: go on; "return SOLCLIENT_OK"; "return rc", if nothing was made
\* yet; or clean up.
ConnectTest ==
    /\ qpc = "connect_test"
    /\ Load
    /\ \/ /\ rc = "OK" /\ step < Connect
          /\ qpc' = "connect" /\ step' = step + 1 /\ ret' = ret
       \/ /\ rc = "OK" /\ step = Connect
          /\ qpc' = "returned" /\ step' = step /\ ret' = "OK"
       \/ /\ rc # "OK"
          /\ qpc' = IF step = 1 THEN "return" ELSE "cleanup"
          /\ step' = step /\ ret' = ret
    /\ UNCHANGED <<rc, writer, op, good, done, leaked, report, calls, msg_sent,
                   accepted, leaks, context>>

\* cleanup() has its own result in rc; then "return SOLCLIENT_FAIL".
Cleanup(result) ==
    /\ qpc = "cleanup"
    /\ Store(result)
    /\ ret' = "FAIL"
    /\ qpc' = "returned"
    /\ UNCHANGED <<call, report, counts, context>>

\* subscribeToTopic, unsubscribeFromTopic and disconnectFromSolace: one call;
\* the test after it only logs.
TopicCall(result) ==
    /\ Begin("topic")
    /\ Store(result)
    /\ done' = (result = "OK")
    /\ qpc' = "return"
    /\ UNCHANGED <<step, good>>

\* One SDK call of publishToSolace stores its result.
SdkCall(result) ==
    /\ qpc = "call" /\ ~(step = Encode /\ op = "dict")
    /\ Store(result)
    /\ good' = (good /\ result = "OK")
    /\ done' = (step = Send /\ good')
    /\ accepted' = IF done' THEN accepted + 1 ELSE accepted
    /\ qpc' = "test"
    /\ UNCHANGED <<op, step, leaked, crossed, ret, report, calls, msg_sent,
                   leaks, everCrossed, context>>

\* The dictionary encoder gives up when it finds rc to be FAIL; else it stores
\* the results of its own calls in rc.
EncodeDict(result) ==
    /\ qpc = "call" /\ step = Encode /\ op = "dict"
    /\ Load
    /\ IF rc = "FAIL" THEN UNCHANGED <<rc, writer>> /\ good' = FALSE
                      ELSE Store(result) /\ good' = (good /\ result = "OK")
    /\ qpc' = "encoded"
    /\ UNCHANGED <<op, step, done, leaked, ret, report, calls, msg_sent,
                   accepted, leaks, context>>

\* It returns rc, which encodeToSolaceContainer adds to the results of making the
\* map and of adding it to the message; publishToSolace stores the sum.
EncodeDictReturns(map) ==
    /\ qpc = "encoded"
    /\ Load
    /\ Store(IF map = "OK" THEN rc ELSE "FAIL")
    /\ good' = (good /\ map = "OK")
    /\ qpc' = "test"
    /\ UNCHANGED <<op, step, done, leaked, ret, report, calls, msg_sent,
                   accepted, leaks, context>>

TestLeaves ==
    /\ qpc' = IF rc # "OK" /\ Calls[step] = "alloc" THEN "return" ELSE "free"
    /\ step' = step

\* Mutant: there is a seventh call to make.
TestPastSend ==
    /\ qpc = "test"
    /\ Load
    /\ \/ rc = "OK" /\ qpc' = "call" /\ step' = step + 1
       \/ rc # "OK" /\ TestLeaves
    /\ UNCHANGED <<rc, writer, op, good, done, leaked, ret, report, calls,
                   msg_sent, accepted, leaks, context>>

\* "if((rc = ...) != SOLCLIENT_OK)" loads rc: go on, or goto freemessage, or,
\* after solClient_msg_alloc, return.
Test ==
    /\ qpc = "test"
    /\ Load
    /\ \/ rc = "OK" /\ step < Send /\ qpc' = "call" /\ step' = step + 1
       \/ ~(rc = "OK" /\ step < Send) /\ TestLeaves
    /\ UNCHANGED <<rc, writer, op, good, done, leaked, ret, report, calls,
                   msg_sent, accepted, leaks, context>>

\* solClient_msg_free has its result in the local rc_temp, returned if bad.
FreeMessage(ok) ==
    /\ qpc = "free"
    /\ qpc' = IF ok THEN "return" ELSE "returned"
    /\ ret' = IF ok THEN ret ELSE "FAIL"
    /\ leaked' = ~ok
    /\ leaks' = IF done /\ ~ok THEN leaks + 1 ELSE leaks
    /\ UNCHANGED <<rc, writer, op, step, good, done, crossed, report, calls,
                   msg_sent, accepted, everCrossed, context>>

\* Mutant: "return rc_temp" whatever happened before.
ReturnFreed ==
    /\ qpc = "return"
    /\ Load
    /\ ret' = "OK"
    /\ qpc' = "returned"
    /\ UNCHANGED <<rc, writer, op, step, good, done, leaked, report, calls,
                   msg_sent, accepted, leaks, context>>

\* "return rc".
Return ==
    /\ qpc = "return"
    /\ Load
    /\ ret' = rc
    /\ qpc' = "returned"
    /\ UNCHANGED <<rc, writer, op, step, good, done, leaked, report, calls,
                   msg_sent, accepted, leaks, context>>

\* The caller stores the returned code in rc once more.
StoreReturned ==
    /\ qpc = "returned"
    /\ Store(ret)
    /\ qpc' = "verdict"
    /\ UNCHANGED <<call, ret, report, counts, context>>

\* init sets the flag, and sessiondisconnect, one of the topic calls, clears it.
FlagAfter == CASE rc = "OK" /\ op = "init"  -> {TRUE}
               [] rc = "OK" /\ op = "topic" -> {initiated, FALSE}
               [] OTHER                     -> {initiated}

\* Mutant: msg_sent is incremented before the result is tested.
CountFirst ==
    /\ qpc = "verdict"
    /\ Load
    /\ msg_sent' = IF op \in Publishes THEN msg_sent + 1 ELSE msg_sent
    /\ IF rc = "OK"
       THEN qpc' = "idle" /\ report' = [ok |-> TRUE, code |-> "OK"]
       ELSE qpc' = "error" /\ report' = report
    /\ initiated' \in FlagAfter
    /\ UNCHANGED <<rc, writer, op, step, good, done, leaked, ret, calls,
                   accepted, leaks, cpc, had, field, cCrossed>>

\* The caller's test: done and, for publishtosolace, counted; or an error.
Verdict ==
    /\ qpc = "verdict"
    /\ Load
    /\ IF rc = "OK"
       THEN /\ qpc' = "idle" /\ report' = [ok |-> TRUE, code |-> "OK"]
            /\ msg_sent' = IF op \in Publishes THEN msg_sent + 1 ELSE msg_sent
       ELSE qpc' = "error" /\ UNCHANGED <<report, msg_sent>>
    /\ initiated' \in FlagAfter
    /\ UNCHANGED <<rc, writer, op, step, good, done, leaked, ret, calls,
                   accepted, leaks, cpc, had, field, cCrossed>>

\* kdberr(solClient_returnCodeToString(rc)).
NameError ==
    /\ qpc = "error"
    /\ Load
    /\ report' = [ok |-> FALSE, code |-> rc]
    /\ qpc' = "idle"
    /\ UNCHANGED <<rc, writer, op, step, good, done, leaked, ret, calls,
                   msg_sent, accepted, leaks, context>>

-----------------------------------------------------------------------------
(* The context thread.                                                     *)

qVars == <<qpc, ret, report, call, counts>>

\* A session is connected, or about to be.
Receiving == initiated \/ (op = "init" /\ step = Connect /\ qpc # "idle")

\* A message whose payload is of a known type, or one that is read raw.
RxMessage ==
    /\ cpc = "idle" /\ Receiving
    /\ cpc' \in {"payload", "destination"}
    /\ had' = "none" /\ field' = "none" /\ cCrossed' = FALSE
    /\ UNCHANGED <<rc, writer, initiated, qVars>>

\* Mutant: the sender's timestamp is not stored in rc, only tested.
RxKeep(result) ==
    /\ cpc # "idle" /\ had = "none"
    /\ result = "NOT_FOUND" => cpc = "timestamp"
    /\ had' = result
    /\ IF cpc = "timestamp" THEN UNCHANGED <<rc, writer>>
                            ELSE rc' = result /\ writer' = "context"
    /\ UNCHANGED <<cpc, field, cCrossed, initiated, qVars>>

\* solClient_msg_getBinaryAttachmentPtr, getDestination, getSenderTimestamp.
RxStore(result) ==
    /\ cpc # "idle" /\ had = "none"
    /\ result = "NOT_FOUND" => cpc = "timestamp"
    /\ had' = result
    /\ rc' = result /\ writer' = "context"
    /\ UNCHANGED <<cpc, field, cCrossed, initiated, qVars>>

\* What the record gets, by what the SDK returned and what the test then read:
\* its value, the default, a value that was never set, or the default although
\* there was a value.
Outcome(returned, seen) ==
    IF seen = "OK" THEN IF returned = "OK" THEN "value" ELSE "unset"
                   ELSE IF returned = "OK" THEN "lost"  ELSE "default"

\* The test after each call; a payload that cannot be read ends the message.
RxTest ==
    /\ cpc # "idle" /\ had # "none"
    /\ field' = Outcome(had, rc)
    /\ cCrossed' = (cCrossed \/ writer # "context")
    /\ had' = "none"
    /\ cpc' = CASE cpc = "payload" /\ rc # "OK" -> "idle"
                [] cpc = "payload" /\ rc = "OK" -> "destination"
                [] cpc = "destination"          -> "timestamp"
                [] cpc = "timestamp"            -> "idle"
    /\ UNCHANGED <<rc, writer, initiated, qVars>>

\* common_eventCallback, which does not touch rc; it may be late.
DownError ==
    /\ cpc = "idle"
    /\ initiated' = FALSE
    /\ UNCHANGED <<rc, writer, cpc, had, field, cCrossed, qVars>>

Next ==
    \/ \E o \in Publishes : Publish(o)
    \/ \E r \in {"OK", "FAIL"} : TopicCall(r) \/ SdkCall(r) \/ EncodeDict(r)
                                    \/ EncodeDictReturns(r)
    \/ InitCall \/ ConnectTest
    \/ \E r \in {"OK", "FAIL"} : ConnectCall(r) \/ Cleanup(r)
    \/ Test
    \/ \E ok \in BOOLEAN : FreeMessage(ok)
    \/ Return \/ StoreReturned \/ Verdict \/ NameError
    \/ RxMessage \/ RxTest \/ DownError
    \/ \E r \in Codes : RxStore(r)

Spec == Init /\ [][Next]_vars

-----------------------------------------------------------------------------
(* Correctness.                                                            *)

\* A call that never loaded a code the context thread had stored reports what
\* the SDK did: success exactly when every step of it succeeded and the message
\* was freed, and no error is named OK.  Stores that are overwritten before the
\* next load do no harm.
ReportIsTrue ==
    qpc = "idle" /\ ~crossed =>
        /\ report.ok <=> done /\ ~leaked
        /\ ~report.ok => report.code # "OK"

\* All variables keep their types; a publish makes its six SDK calls and stops.
TypeOK ==
    /\ rc \in Codes /\ writer \in {"q", "context"} /\ ret \in Codes
    /\ qpc \in {"idle", "call", "encoded", "test", "free", "return", "returned",
                "verdict", "error", "connect", "connect_test", "cleanup"}
    /\ op \in {"topic", "publish", "dict", "init"} /\ step \in 1..Send
    /\ report \in [ok: BOOLEAN, code: Codes]
    /\ good \in BOOLEAN /\ done \in BOOLEAN /\ leaked \in BOOLEAN
    /\ crossed \in BOOLEAN /\ everCrossed \in BOOLEAN /\ cCrossed \in BOOLEAN
    /\ initiated \in BOOLEAN /\ calls \in 0..MaxCalls
    /\ msg_sent \in Nat /\ accepted \in Nat /\ leaks \in Nat
    /\ cpc \in {"idle", "payload", "destination", "timestamp"}
    /\ had \in Codes \union {"none"}
    /\ field \in {"none", "value", "default", "unset", "lost"}

\* While no load has crossed, getstats' "sent" is the number of messages handed
\* to the broker since the last init, less those reported as errors because they
\* were not freed.
SentIsAccepted ==
    qpc = "idle" /\ ~everCrossed => msg_sent + leaks = accepted

\* A record of a stream message has its own destination and timestamp, and its
\* payload is not lost, if no test read a code the q thread had stored.
FieldIsTrue == ~cCrossed => field \notin {"unset", "lost"}

-----------------------------------------------------------------------------
(* The inductive invariant: what rc stands for at each point of a call, as *)
(* long as the q thread finds there what it stored itself.                 *)

Succeeded == done /\ ~leaked

\* rc is OK exactly if p, when the q thread stored it last.
Says(p) == writer = "q" => (rc = "OK" <=> p)

CallInv ==
    /\ crossed => everCrossed
    /\ ~crossed =>
          /\ qpc = "call" => good /\ Says(TRUE)
          /\ qpc = "encoded" => Says(good)
          /\ qpc = "test" => (done <=> good /\ step = Send) /\ Says(good)
          /\ qpc \in {"free", "return"} => ~leaked /\ Says(done)
          /\ qpc = "returned" => (ret = "OK" <=> Succeeded)
          /\ qpc = "verdict" => Says(Succeeded)
          /\ qpc = "connect" => good
          /\ qpc = "connect_test" => (done <=> good /\ step = Connect) /\ Says(good)
          /\ qpc = "cleanup" => ~done
          /\ qpc = "error" => ~Succeeded /\ Says(FALSE)

\* What is known of a call by its position, whatever has crossed.
StepInv ==
    /\ qpc \in {"call", "encoded"} => ~done
    /\ qpc \in {"call", "encoded", "test", "free"} => op \in Publishes
    /\ qpc \in {"connect", "connect_test", "cleanup"} => op = "init"
    /\ qpc = "encoded" => step = Encode
    /\ qpc = "test" /\ done => step = Send
    /\ qpc \in {"call", "encoded", "test", "free", "return", "connect",
                "connect_test", "cleanup"} => ~leaked

\* A message that is done but not yet counted is that of the call in progress.
Uncounted == IF qpc # "idle" /\ op \in Publishes /\ Succeeded THEN 1 ELSE 0

CountInv == ~everCrossed => accepted = msg_sent + leaks + Uncounted

RxInv ==
    /\ had # "none" /\ writer = "context" => rc = had
    /\ FieldIsTrue

IInv == TypeOK /\ CallInv /\ ReportIsTrue /\ StepInv /\ CountInv /\ RxInv

-----------------------------------------------------------------------------
(* What a comment says, and the code does not do.                          *)

\* src/src/solace_k.c:550: sent counts "Messages send by this API via calls to
\* publishtosolace".
SentWereSent == msg_sent <= accepted
=============================================================================
