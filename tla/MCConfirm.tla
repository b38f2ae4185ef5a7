------------------------------ MODULE MCConfirm ------------------------------
(* Confirm for TLC.  Nothing is left to do when the bounds are used up and *)
(* all has been handled; Finished names those states, so that any other    *)
(* state without a successor is reported as a deadlock.                    *)
EXTENDS Confirm

Finished ==
    /\ calls = MaxCalls /\ wait = NoCall /\ requests = <<>> /\ inbox = <<>>
    /\ sent = MaxMsgs \/ subs = {}
    /\ cpc = "idle" /\ qpc = "ready" /\ ring = <<>>
    /\ UNCHANGED vars

MCSpec == Init /\ [][Next \/ Finished]_vars /\ Fairness
=============================================================================
