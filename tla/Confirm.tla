------------------------------- MODULE Confirm -------------------------------
(***************************************************************************)
(* Two threads that wait for each other.  subscribe and unsubscribe ask    *)
(* for a confirmed request (SOLCLIENT_SUBSCRIBE_FLAGS_WAITFORCONFIRM), so   *)
(* the q thread sleeps in the SDK until the context thread hands it the    *)
(* broker's answer; the context thread may itself sleep in cb_write, inside *)
(* a callback of the SDK, until the q thread has read the ring.  A call can *)
(* be made from the top level of q, or from the user's function that       *)
(* callback runs with a batch of records.                                  *)
(*                                                                         *)
(* Records are whole here, and the '.' bytes are left out: Feed shows what *)
(* the bytes and the wake-ups do.  The broker accepts every request and    *)
(* the link stays up (Session has the other cases); its answers and the    *)
(* messages reach the context thread in one order.                         *)
(***************************************************************************)
EXTENDS Naturals, Sequences

CONSTANTS
    Topics,      \* topic strings
    Capacity,    \* records the ring holds
    MaxCalls,    \* bound on calls, to keep the model finite
    MaxMsgs      \* bound on messages

ASSUME CapacityAssumption == Capacity \in Nat \ {0}
ASSUME BoundsAssumption   == MaxCalls \in Nat /\ MaxMsgs \in Nat

VARIABLES
    qpc,         \* q thread: ready, parse or callback (in the user's function)
    calls, wait, \* calls made so far; the call that waits, or 0
    shown,       \* topics the index shows as subscribed
    batch,       \* records read from the ring, not yet cut out of rbuf
    delivered,   \* records handed over, in order
    cpc,         \* context thread: idle, or in cb_write
    accepted,    \* records the context thread took on
    ring,        \* records in the ring
    requests,    \* on their way to the broker
    subs,        \* subscriptions the broker holds
    inbox,       \* what the context thread is still to handle
    sent         \* messages published by others

qVars == <<qpc, batch, delivered>>
cVars == <<cpc, accepted>>
bVars == <<requests, subs, sent>>
vars  == <<qVars, cVars, bVars, calls, wait, shown, ring, inbox>>

NoCall  == 0
Message == 0     \* in inbox: a message; otherwise the answer to a call

Request == [call: Nat, topic: Topics, on: BOOLEAN]

Init ==
    /\ qpc = "ready" /\ batch = <<>> /\ delivered = <<>>
    /\ calls = 0 /\ wait = NoCall /\ shown = {}
    /\ cpc = "idle" /\ accepted = 0 /\ ring = <<>>
    /\ requests = <<>> /\ subs = {} /\ inbox = <<>> /\ sent = 0

Switch(S, t, on) == IF on THEN S \union {t} ELSE S \ {t}

-----------------------------------------------------------------------------
(* The broker.                                                             *)

BrokerTakes ==
    /\ requests # <<>>
    /\ requests' = Tail(requests)
    /\ subs' = Switch(subs, Head(requests).topic, Head(requests).on)
    /\ inbox' = Append(inbox, Head(requests).call)
    /\ UNCHANGED <<qVars, cVars, calls, wait, shown, ring, sent>>

Publish ==
    /\ subs # {} /\ sent < MaxMsgs
    /\ sent' = sent + 1
    /\ inbox' = Append(inbox, Message)
    /\ UNCHANGED <<qVars, cVars, calls, wait, shown, ring, requests, subs>>

-----------------------------------------------------------------------------
(* The Solace context thread: one thing at a time, in the order it came.   *)

RxMessage ==
    /\ cpc = "idle" /\ inbox # <<>> /\ Head(inbox) = Message
    /\ inbox' = Tail(inbox)
    /\ accepted' = accepted + 1
    /\ cpc' = "cb_write"
    /\ UNCHANGED <<qVars, bVars, calls, wait, shown, ring>>

\* Mutants: no look at cb_space; a full ring is emptied instead of waited for.
CbWriteUnchecked ==
    /\ cpc = "cb_write"
    /\ ring' = Append(ring, accepted)
    /\ cpc' = "idle"
    /\ UNCHANGED <<qVars, bVars, calls, wait, shown, accepted, inbox>>

CbWriteFlush ==
    /\ cpc = "cb_write"
    /\ ring' = IF Len(ring) < Capacity THEN Append(ring, accepted)
               ELSE <<accepted>>
    /\ cpc' = "idle"
    /\ UNCHANGED <<qVars, bVars, calls, wait, shown, accepted, inbox>>

\* While the ring is full the callback waits, and with it the context thread.
CbWrite ==
    /\ cpc = "cb_write" /\ Len(ring) < Capacity
    /\ ring' = Append(ring, accepted)
    /\ cpc' = "idle"
    /\ UNCHANGED <<qVars, bVars, calls, wait, shown, accepted, inbox>>

\* The answer ends the call that waits for it; one that gave up is past it.
RxConfirm ==
    /\ cpc = "idle" /\ inbox # <<>> /\ Head(inbox) # Message
    /\ inbox' = Tail(inbox)
    /\ wait' = IF wait = Head(inbox) THEN NoCall ELSE wait
    /\ UNCHANGED <<qVars, cVars, bVars, calls, shown, ring>>

-----------------------------------------------------------------------------
(* The q thread.                                                           *)

\* subscribe and unsubscribe: the row is written, then the SDK is asked.
Call(t, on) ==
    /\ qpc \in {"ready", "callback"} /\ wait = NoCall
    /\ calls < MaxCalls
    /\ shown' = Switch(shown, t, on)
    /\ requests' = Append(requests, [call |-> calls + 1, topic |-> t, on |-> on])
    /\ calls' = calls + 1 /\ wait' = calls + 1
    /\ UNCHANGED <<qVars, cVars, ring, subs, inbox, sent>>

\* Mutants: the SDK waits for ever; the row is put back after an error.
NoTimeout ==
    /\ FALSE
    /\ UNCHANGED vars

TimeoutRollsBack ==
    /\ wait # NoCall
    /\ wait' = NoCall
    /\ shown' = subs
    /\ UNCHANGED <<qVars, cVars, bVars, calls, ring, inbox>>

\* SOLCLIENT_SESSION_PROP_SUBCONFIRM_TIMEOUT_MS is over.  q gets an error, the
\* row stays as it is, and the request stays on its way.
Timeout ==
    /\ wait # NoCall
    /\ wait' = NoCall
    /\ UNCHANGED <<qVars, cVars, bVars, calls, shown, ring, inbox>>

CbRead ==
    /\ qpc = "ready" /\ wait = NoCall /\ ring # <<>>
    /\ batch' = ring /\ ring' = <<>>
    /\ qpc' = "parse"
    /\ UNCHANGED <<cVars, bVars, calls, wait, shown, delivered, inbox>>

ParseFrame ==
    /\ qpc = "parse" /\ batch # <<>>
    /\ delivered' = Append(delivered, Head(batch))
    /\ batch' = Tail(batch)
    /\ UNCHANGED <<cVars, bVars, calls, wait, shown, qpc, ring, inbox>>

\* k(0, opts.callback, dmsgs, 0) runs the user's function ...
EnterCallback ==
    /\ qpc = "parse" /\ batch = <<>>
    /\ qpc' = "callback"
    /\ UNCHANGED <<cVars, bVars, calls, wait, shown, batch, delivered, ring,
                   inbox>>

\* ... which returns, after the calls it makes have returned.
LeaveCallback ==
    /\ qpc = "callback" /\ wait = NoCall
    /\ qpc' = "ready"
    /\ UNCHANGED <<cVars, bVars, calls, wait, shown, batch, delivered, ring,
                   inbox>>

-----------------------------------------------------------------------------

Broker  == BrokerTakes \/ Publish
Context == RxMessage \/ CbWrite \/ RxConfirm
QReads  == CbRead \/ ParseFrame \/ EnterCallback \/ LeaveCallback

Next ==
    \/ Broker \/ Context \/ QReads \/ Timeout
    \/ \E t \in Topics, on \in BOOLEAN : Call(t, on)

\* Both threads keep running, the user's function ends and the SDK's timer
\* fires.  Nothing is asked of the broker.
Fairness == WF_vars(Context) /\ WF_vars(QReads) /\ WF_vars(Timeout)

Spec == Init /\ [][Next]_vars /\ Fairness

-----------------------------------------------------------------------------
(* Correctness.                                                            *)

\* Types; the ring holds no more records than it has room for.
TypeOK ==
    /\ qpc \in {"ready", "parse", "callback"}
    /\ cpc \in {"idle", "cb_write"}
    /\ batch \in Seq(Nat) /\ delivered \in Seq(Nat)
    /\ ring \in Seq(Nat) /\ Len(ring) <= Capacity
    /\ accepted \in Nat /\ sent \in Nat /\ calls \in Nat
    /\ wait \in 0 .. calls
    /\ shown \subseteq Topics /\ subs \subseteq Topics
    /\ requests \in Seq(Request) /\ inbox \in Seq(Nat)

\* When no request is on its way the index shows what the broker holds,
\* however many calls ended in a timeout, were repeated or contradicted: the
\* row not being rolled back is what keeps it true.
SettledAgrees == requests = <<>> => shown = subs

\* The context thread gets out of cb_write, although the thread that makes
\* room may itself be waiting for an answer only the context thread can bring;
\* no number of calls, one after the other, keeps it there.
CallbackResumes == (cpc = "cb_write") ~> (cpc = "idle")

\* With both kinds of waiting, records still come out of the ring one by one,
\* in order, each once, and every one of them.
Channel == INSTANCE FeedChannel WITH broken <- FALSE
ChannelSpec == Channel!Spec

-----------------------------------------------------------------------------
(* The inductive invariant.                                                *)

\* The last request on its way about a topic is what its row shows; without
\* one, the broker's subscription is.
LastAbout(i) ==
    \A j \in DOMAIN requests : requests[j].topic = requests[i].topic => j <= i

IndexInv ==
    /\ \A i \in DOMAIN requests :
          LastAbout(i) => (requests[i].topic \in shown <=> requests[i].on)
    /\ \A t \in Topics :
          (\A i \in DOMAIN requests : requests[i].topic # t) =>
              (t \in shown <=> t \in subs)

\* Each record is in one place, and the places are in order.
RecordInv ==
    /\ \A i \in DOMAIN delivered : delivered[i] = i
    /\ \A i \in DOMAIN batch : batch[i] = Len(delivered) + i
    /\ \A i \in DOMAIN ring : ring[i] = Len(delivered) + Len(batch) + i
    /\ accepted = Len(delivered) + Len(batch) + Len(ring)
                  + (IF cpc = "cb_write" THEN 1 ELSE 0)
    /\ qpc # "parse" => batch = <<>>

IInv == TypeOK /\ IndexInv /\ RecordInv

-----------------------------------------------------------------------------
(* What the documentation says, and the code does not do.                  *)

\* src/include/solclient/solClient.h:101: "applications must not block in
\* callback routines.  Waiting in callback routines can deadlock the
\* application".  The two threads would never wait for each other.
NoMutualWait ==
    ~ /\ cpc = "cb_write" /\ Len(ring) = Capacity
      /\ wait # NoCall
=============================================================================
