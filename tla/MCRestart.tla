------------------------------ MODULE MCRestart ------------------------------
(* Restart for TLC.  It stops when the process is gone, or when no init is *)
(* left, the sessions are closed or may say no more, the threads are idle  *)
(* and q has taken every '.'.  Only overlapping callbacks leave a thread   *)
(* asleep forever.                                                         *)
EXTENDS Restart

Quiet(s) == wpc[s] = "idle" \/ (overlap /\ wpc[s] = "wait")

Stopped ==
    /\ \/ Gone
       \/ /\ qpc = "idle" /\ \A e \in Sessions : tokens[e] = 0
          /\ \A s \in Sessions : Quiet(s)
    /\ UNCHANGED vars

MCSpec == Init /\ [][Next \/ Stopped]_vars /\ Fairness

\* For the larger instance: once callbacks overlap nothing new begins, and what
\* is under way runs on.
Winding == overlap /\ (QStep \/ \E s \in Sessions : ContextStep(s))
WindingSpec == Init /\ [][(~overlap /\ Next) \/ Winding \/ Stopped]_vars /\ Fairness

=============================================================================
