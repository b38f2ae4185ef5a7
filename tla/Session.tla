------------------------------ MODULE Session ------------------------------
(***************************************************************************)
(* The life of a connection and the table of topics: init,                 *)
(* sessiondisconnect, subscribe and unsubscribe of solace_k.c, run by the  *)
(* q main thread, against common_eventCallback, run by the Solace context  *)
(* thread, which clears the same global flag (initiated) on DOWN_ERROR.    *)
(*                                                                         *)
(* Every q function is split at its blocking call into the SDK, the time   *)
(* in which the session can go down and its event be delivered.  The SDK   *)
(* and the broker are external: link, subs and pending are what the code   *)
(* relies on of them.  checkconnect and gettopics only read.               *)
(***************************************************************************)
EXTENDS Naturals, Sequences

CONSTANTS
    Topics,         \* topic strings
    MaxTopicCount,  \* MAX_TOPIC_COUNT, the size of topicindex
    MaxSessions     \* bound on sessions connected, to keep the model finite

ASSUME CountAssumption    == MaxTopicCount \in Nat
ASSUME SessionsAssumption == MaxSessions \in Nat

VARIABLES
    initiated,      \* the global flag
    qpc, arg,       \* where the q thread is, and the topic of its call
    index,          \* topicindex: topics and whether they show as subscribed
    freed,          \* the strings of index have been given back
    cur,            \* session_p: the number of the last session connected
    link,           \* sessions, as the SDK sees them
    subs,           \* subscriptions the broker holds for session_p
    pending,        \* sessions whose DOWN_ERROR is still to be delivered
    doubt,          \* history: topics whose last call reported an error
    missed,         \* history: session_p's DOWN_ERROR came during its init
    stale           \* history: DOWN_ERROR of an older session cleared the flag

vars == <<initiated, qpc, arg, index, freed, cur, link, subs, pending, doubt,
          missed, stale>>

Sessions == 1..MaxSessions

Row(t) == [topic |-> t, subscribed |-> TRUE]

\* findTopicInList, and the subscribed column of gettopics.
Found(t) == \E i \in DOMAIN index : index[i].topic = t
Shown(t) == \E i \in DOMAIN index : index[i].topic = t /\ index[i].subscribed

Init ==
    /\ initiated = FALSE
    /\ qpc = "ready" /\ arg \in Topics
    /\ index = <<>> /\ freed = FALSE
    /\ cur = 0 /\ link = [s \in Sessions |-> "none"]
    /\ subs = {} /\ pending = {} /\ doubt = {}
    /\ missed = FALSE /\ stale = FALSE

-----------------------------------------------------------------------------
(* init and connectToSolace.                                               *)

\* Mutant: init does not look at initiated.
InitTwice ==
    /\ qpc = "ready" /\ cur < MaxSessions
    /\ index' = <<>> /\ freed' = FALSE
    /\ initiated' = FALSE
    /\ qpc' = "connect"
    /\ UNCHANGED <<arg, cur, link, subs, pending, doubt, missed, stale>>

\* The rows are dropped, not freed; connectToSolace clears the flag again.
InitBegin ==
    /\ qpc = "ready" /\ cur < MaxSessions
    /\ ~initiated
    /\ index' = <<>> /\ freed' = FALSE
    /\ initiated' = FALSE
    /\ qpc' = "connect"
    /\ UNCHANGED <<arg, cur, link, subs, pending, doubt, missed, stale>>

\* The argument is no dictionary: init returns with the index already empty.
InitRefused ==
    /\ qpc = "ready" /\ ~initiated
    /\ index' = <<>> /\ freed' = FALSE
    /\ UNCHANGED <<initiated, qpc, arg, cur, link, subs, pending, doubt,
                   missed, stale>>

\* A new context and session; older ones are neither disconnected nor destroyed.
ConnectOk ==
    /\ qpc = "connect"
    /\ cur' = cur + 1
    /\ link' = [link EXCEPT ![cur + 1] = "up"]
    /\ subs' = {} /\ doubt' = {} /\ missed' = FALSE
    /\ qpc' = "connected"
    /\ UNCHANGED <<initiated, arg, index, freed, pending, stale>>

\* cleanup() takes every session with it; it is not reached when
\* solClient_initialize fails, and may itself fail.
ConnectFails ==
    /\ qpc = "connect"
    /\ \/ /\ link' = [s \in Sessions |->
                        IF link[s] = "none" THEN "none" ELSE "closed"]
          /\ pending' = {} /\ subs' = {}
       \/ UNCHANGED <<link, pending, subs>>
    /\ qpc' = "ready"
    /\ UNCHANGED <<initiated, arg, index, freed, cur, doubt, missed, stale>>

\* init sets the flag after solClient_session_connect has returned.
InitDone ==
    /\ qpc = "connected"
    /\ initiated' = TRUE
    /\ qpc' = "ready"
    /\ UNCHANGED <<arg, index, freed, cur, link, subs, pending, doubt, missed,
                   stale>>

-----------------------------------------------------------------------------
(* subscribe and unsubscribe.                                              *)

Call(pc, t) ==
    /\ qpc = "ready" /\ initiated
    /\ qpc' = pc /\ arg' = t
    /\ UNCHANGED <<initiated, freed, cur, link, subs, pending, doubt, missed,
                   stale>>

\* Mutants: the limit is checked too late; a known topic gets a new row; a
\* known topic keeps its unsubscribed time.
SubscribePastMax(t) ==
    /\ Call("subscribe", t)
    /\ Len(index) <= MaxTopicCount
    /\ index' = IF Found(t)
                THEN [i \in DOMAIN index |->
                        IF index[i].topic = t THEN Row(t) ELSE index[i]]
                ELSE Append(index, Row(t))

SubscribeAppends(t) ==
    /\ Call("subscribe", t)
    /\ Len(index) < MaxTopicCount
    /\ index' = Append(index, Row(t))

SubscribeKeepsOff(t) ==
    /\ Call("subscribe", t)
    /\ Len(index) < MaxTopicCount
    /\ index' = IF Found(t) THEN index ELSE Append(index, Row(t))

\* The row is written before the SDK is called; a full index refuses known
\* topics too.
SubscribeRecord(t) ==
    /\ Call("subscribe", t)
    /\ Len(index) < MaxTopicCount
    /\ index' = IF Found(t)
                THEN [i \in DOMAIN index |->
                        IF index[i].topic = t THEN Row(t) ELSE index[i]]
                ELSE Append(index, Row(t))

\* A topic that has no row is still handed to the SDK.
UnsubscribeRecord(t) ==
    /\ Call("unsubscribe", t)
    /\ index' = [i \in DOMAIN index |->
                   IF index[i].topic = t
                   THEN [index[i] EXCEPT !.subscribed = FALSE] ELSE index[i]]

\* The broker's set of subscriptions once it has acted on the call.
Applied == IF qpc = "subscribe" THEN subs \union {arg} ELSE subs \ {arg}

CallReturns ==
    /\ qpc' = "ready"
    /\ UNCHANGED <<initiated, arg, index, freed, cur, link, pending, missed,
                   stale>>

\* The broker has confirmed.  Duplicates are no error (the SDK's default).
CallOk ==
    /\ qpc \in {"subscribe", "unsubscribe"} /\ link[cur] = "up"
    /\ subs' = Applied
    /\ doubt' = doubt \ {arg}
    /\ CallReturns

\* Mutant: a failed call is taken for a lost session.
CallFailsCloses ==
    /\ qpc \in {"subscribe", "unsubscribe"}
    /\ \/ subs' = subs
       \/ link[cur] = "up" /\ subs' = Applied
    /\ doubt' = doubt \union {arg}
    /\ initiated' = FALSE
    /\ qpc' = "ready"
    /\ UNCHANGED <<arg, index, freed, cur, link, pending, missed, stale>>

\* Refused, session down, or no confirmation in time: then it may have been
\* applied all the same.  The index is not rolled back.
CallFails ==
    /\ qpc \in {"subscribe", "unsubscribe"}
    /\ \/ subs' = subs
       \/ link[cur] = "up" /\ subs' = Applied
    /\ doubt' = doubt \union {arg}
    /\ CallReturns

-----------------------------------------------------------------------------
(* sessiondisconnect.                                                      *)

DisconnectBegin ==
    /\ qpc = "ready" /\ initiated
    /\ qpc' = "disconnect"
    /\ UNCHANGED <<initiated, arg, index, freed, cur, link, subs, pending,
                   doubt, missed, stale>>

\* Mutant: the flag stays set.
DisconnectKeepsFlag ==
    /\ qpc = "disconnect"
    /\ link' = [link EXCEPT ![cur] = "closed"]
    /\ subs' = {}
    /\ pending' \in {pending, pending \ {cur}}
    /\ freed' = TRUE
    /\ qpc' = "ready"
    /\ UNCHANGED <<initiated, arg, index, cur, doubt, missed, stale>>

\* The strings are freed, topicindex.size keeps its value.  Nothing says that
\* an event already on its way is not delivered after the call.
DisconnectOk ==
    /\ qpc = "disconnect"
    /\ link' = [link EXCEPT ![cur] = "closed"]
    /\ subs' = {}
    /\ pending' \in {pending, pending \ {cur}}
    /\ initiated' = FALSE
    /\ freed' = TRUE
    /\ qpc' = "ready"
    /\ UNCHANGED <<arg, index, cur, doubt, missed, stale>>

DisconnectFails ==
    /\ qpc = "disconnect"
    /\ qpc' = "ready"
    /\ UNCHANGED <<initiated, arg, index, freed, cur, link, subs, pending,
                   doubt, missed, stale>>

-----------------------------------------------------------------------------
(* The session goes down for good; then the context thread is told.        *)

GoesDown(s) ==
    /\ link[s] = "up"
    /\ link' = [link EXCEPT ![s] = "down"]
    /\ subs' = IF s = cur THEN {} ELSE subs
    /\ pending' = pending \union {s}
    /\ UNCHANGED <<initiated, qpc, arg, index, freed, cur, doubt, missed, stale>>

\* Mutant: the event is only logged, as RECONNECTING_NOTICE is.
DownIgnored(s) ==
    /\ s \in pending
    /\ pending' = pending \ {s}
    /\ missed' = (missed \/ (s = cur /\ qpc = "connected"))
    /\ stale' = (stale \/ (s # cur /\ initiated))
    /\ UNCHANGED <<initiated, qpc, arg, index, freed, cur, link, subs, doubt>>

\* common_eventCallback: whichever session the event is about.
DownError(s) ==
    /\ s \in pending
    /\ pending' = pending \ {s}
    /\ initiated' = FALSE
    /\ missed' = (missed \/ (s = cur /\ qpc = "connected"))
    /\ stale' = (stale \/ (s # cur /\ initiated))
    /\ UNCHANGED <<qpc, arg, index, freed, cur, link, subs, doubt>>

Next ==
    \/ InitBegin \/ InitRefused \/ ConnectOk \/ ConnectFails \/ InitDone
    \/ \E t \in Topics : SubscribeRecord(t) \/ UnsubscribeRecord(t)
    \/ CallOk \/ CallFails
    \/ DisconnectBegin \/ DisconnectOk \/ DisconnectFails
    \/ \E s \in Sessions : GoesDown(s) \/ DownError(s)

Spec == Init /\ [][Next]_vars

-----------------------------------------------------------------------------
(* Correctness.                                                            *)

\* Every variable keeps its type, and the index never outgrows its arrays.
TypeOK ==
    /\ initiated \in BOOLEAN /\ freed \in BOOLEAN
    /\ missed \in BOOLEAN /\ stale \in BOOLEAN
    /\ qpc \in {"ready", "connect", "connected", "subscribe", "unsubscribe",
                "disconnect"}
    /\ arg \in Topics /\ subs \subseteq Topics /\ doubt \subseteq Topics
    /\ index \in Seq([topic: Topics, subscribed: BOOLEAN])
    /\ Len(index) <= MaxTopicCount
    /\ cur \in 0..MaxSessions
    /\ link \in [Sessions -> {"none", "up", "down", "closed"}]
    /\ pending \subseteq Sessions

\* A topic has one row, whatever the sequence of subscribe, unsubscribe and
\* init: findTopicInList finds the row that gettopics shows.
OneRowPerTopic ==
    \A i, j \in DOMAIN index : index[i].topic = index[j].topic => i = j

\* While the flag lets calls in, the strings of the index are not freed:
\* no subscribe reads, and no second disconnect frees, what is gone.
NoUseAfterFree == initiated \/ qpc # "ready" => ~freed

\* No session that is still up is forgotten: only session_p is, and then
\* checkconnect says so, so that init refuses and disconnect can reach it.
\* The exception is an event of an older session that clears the flag.
NoSessionForgotten ==
    ~stale => \A s \in Sessions :
                 link[s] = "up" => s = cur /\ (initiated \/ qpc = "connected")

\* Between calls on a connected session, gettopics shows a topic whose last
\* call succeeded as subscribed exactly when the broker has the subscription.
StatusAgrees ==
    initiated /\ qpc = "ready" /\ link[cur] = "up" =>
        \A t \in Topics \ doubt : Shown(t) <=> t \in subs

\* If checkconnect is true on a session that is down, the event is still to
\* come, unless it came before init set the flag.
DownIsSeen ==
    initiated /\ link[cur] = "down" => cur \in pending \/ missed

-----------------------------------------------------------------------------
(* The connection q relies on.                                             *)

Live == \E s \in Sessions : link[s] = "up"

\* A topic is unsure during a call about it, and after one that failed.
Unsure(t) == t \in doubt \/ (qpc \in {"subscribe", "unsubscribe"} /\ t = arg)

View(t) == IF initiated /\ Unsure(t) THEN "unsure"
           ELSE IF initiated /\ Shown(t) THEN "on" ELSE "off"

Conn == INSTANCE Connection
        WITH live <- Live, told <- initiated, held <- subs,
             view <- [t \in Topics |-> View(t)], broken <- stale

\* The calls and callbacks implement the abstract connection: checkconnect turns
\* false only over a session that has ended, no session is opened beside one
\* that is up, and what gettopics shows of a confirmed topic is so.
ConnectionSpec == Conn!Spec

-----------------------------------------------------------------------------
(* The inductive invariant: the properties, and what they rest on.         *)

\* During init the table is empty, the flag is down and room is left.
InitInv ==
    /\ qpc \in {"connect", "connected"} => index = <<>> /\ ~initiated
    /\ qpc = "connect" => cur < MaxSessions
    /\ qpc = "connected" => subs = {} /\ doubt = {}

\* Calls have a session; sessions of the future are not yet there; an event
\* on its way is about a session that was up.
LinkInv ==
    /\ initiated \/ qpc \notin {"ready", "connect"} => cur > 0
    /\ \A s \in Sessions : s > cur => link[s] = "none"
    /\ \A s \in pending : link[s] \in {"down", "closed"}

\* Only a session that is up has subscriptions.
HeldInv == subs # {} => cur > 0 /\ link[cur] = "up"

\* DownIsSeen, from the moment the session is connected.
DownInv ==
    (initiated \/ qpc = "connected") /\ link[cur] = "down" =>
        cur \in pending \/ missed

\* StatusAgrees, with the call in progress allowed its effect on the row.
StatusInv ==
    initiated /\ link[cur] = "up" =>
        /\ qpc = "subscribe" => Shown(arg)
        /\ qpc = "unsubscribe" => ~Shown(arg)
        /\ \A t \in Topics \ doubt :
              qpc \notin {"subscribe", "unsubscribe"} \/ t # arg =>
                  (Shown(t) <=> t \in subs)

IInv == /\ TypeOK /\ OneRowPerTopic /\ InitInv /\ LinkInv /\ NoUseAfterFree
        /\ NoSessionForgotten /\ HeldInv /\ DownInv /\ StatusInv

-----------------------------------------------------------------------------
(* What the documentation says, and the code does not do.                  *)

\* src/README.md:182: checkconnect "Returns a boolean based on connection
\* status".  With all events delivered, it should be false on a dead session.
CheckconnectTellsStatus ==
    initiated /\ qpc = "ready" /\ pending = {} => link[cur] = "up"

\* src/README.md:183: gettopics returns "subscription status booleans".  TLC
\* refutes this as an invariant of MCSession.cfg.
GettopicsTellsStatus ==
    initiated /\ qpc = "ready" /\ link[cur] = "up" =>
        \A t \in Topics : Shown(t) => t \in subs
=============================================================================
