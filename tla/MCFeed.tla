------------------------------- MODULE MCFeed -------------------------------
(* Feed for TLC: small sizes come from the cfg files.  The program stops   *)
(* in two ways only: its assertion ends it, or nothing arrives any more    *)
(* and the q thread has taken every '.'.  Stopped names those states, so   *)
(* that TLC reports any other state without a successor as a deadlock.     *)
EXTENDS Feed

Stopped ==
    /\ \/ Aborted
       \/ /\ Len(log) + dropped = MaxRecords
          /\ wpc = "idle" /\ rpc = "idle" /\ tokens = 0
    /\ UNCHANGED vars

MCSpec == Init /\ [][Next \/ Stopped]_vars /\ Fairness

=============================================================================
