----------------------------- MODULE Connection -----------------------------
(***************************************************************************)
(* What a connection promises the q code that uses it: there is one at a   *)
(* time; checkconnect turns false only when it has ended; subscriptions    *)
(* change only while checkconnect is true, in a call about that topic; and *)
(* a topic shows as on or off only when the broker agrees.                 *)
(*                                                                         *)
(* The promise ends when the notice of an older connection is taken for    *)
(* one of this: the connection is then broken.                             *)
(***************************************************************************)
CONSTANT Topics

VARIABLES live,     \* the broker holds a session of ours
          told,     \* what checkconnect says
          held,     \* the subscriptions of the session
          view,     \* topics as q may rely on them: on, off, or unsure
          broken

cvars == <<live, told, held, view, broken>>

AllOff == [t \in Topics |-> "off"]

Init ==
    /\ live = FALSE /\ told = FALSE /\ held = {}
    /\ view = AllOff /\ broken = FALSE

Open  == ~live /\ ~told /\ live' = TRUE /\ UNCHANGED <<told, held, view>>

\* The flag may be raised late, over a session already lost.
Tell  == ~told /\ told' = TRUE /\ UNCHANGED <<live, held, view>>

\* A call about t begins; it is confirmed; it is not, and may or may not have
\* been carried out.
Ask(t) ==
    /\ told
    /\ view' = [view EXCEPT ![t] = "unsure"]
    /\ UNCHANGED <<live, told, held>>

Confirm(t) ==
    /\ told /\ live /\ view[t] = "unsure"
    /\ \/ view' = [view EXCEPT ![t] = "on"]  /\ held' = held \cup {t}
       \/ view' = [view EXCEPT ![t] = "off"] /\ held' = held \ {t}
    /\ UNCHANGED <<live, told>>

Unconfirmed(t) ==
    /\ told /\ live /\ view[t] = "unsure"
    /\ held' \in {held \cup {t}, held \ {t}}
    /\ UNCHANGED <<live, told, view>>

Lose   == live /\ live' = FALSE /\ held' = {} /\ UNCHANGED <<told, view>>

Notice == ~live /\ told /\ told' = FALSE /\ view' = AllOff /\ UNCHANGED <<live, held>>

Close ==
    /\ told
    /\ live' = FALSE /\ told' = FALSE /\ held' = {} /\ view' = AllOff

Works == /\ ~broken /\ broken' = FALSE
         /\ \/ Open \/ Tell \/ Lose \/ Notice \/ Close
            \/ \E t \in Topics : Ask(t) \/ Confirm(t) \/ Unconfirmed(t)

Breaks == told /\ broken' = TRUE /\ told' = FALSE /\ UNCHANGED <<live, held>>

\* Nothing is promised any more.
Broken == broken /\ broken' = TRUE

Next == Works \/ Breaks \/ Broken

Spec == Init /\ [][Next]_cvars

=============================================================================
