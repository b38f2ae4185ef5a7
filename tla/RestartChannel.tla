--------------------------- MODULE RestartChannel ---------------------------
(***************************************************************************)
(* What the receive path promises when init may be called again: every     *)
(* init begins a new life, with nothing accepted and nothing handed over,  *)
(* and in every life the records accepted are handed over in order, each   *)
(* once, and no record of an earlier life among them, until, if ever, the  *)
(* channel breaks.                                                         *)
(***************************************************************************)
EXTENDS Naturals, Sequences

VARIABLES accepted,    \* how many records were accepted in this life
          delivered,   \* what was handed over in it: a record's number, or 0
          broken

cvars == <<accepted, delivered, broken>>

Init == accepted = 0 /\ delivered = <<>> /\ broken = FALSE

\* The step that breaks the channel may be one of these three.
MayBreak == broken' \in {broken, TRUE}

Accept == accepted' = accepted + 1 /\ UNCHANGED delivered /\ MayBreak

Restart == accepted' = 0 /\ delivered' = <<>> /\ MayBreak

Break == UNCHANGED <<accepted, delivered>> /\ MayBreak

Deliver ==
    /\ ~broken /\ Len(delivered) < accepted
    /\ delivered' = Append(delivered, Len(delivered) + 1)
    /\ UNCHANGED <<accepted, broken>>

Garble ==
    /\ broken
    /\ \E x \in 0 .. accepted : delivered' = Append(delivered, x)
    /\ UNCHANGED <<accepted, broken>>

Next == Accept \/ Restart \/ Break \/ Deliver \/ Garble

SafeSpec == Init /\ [][Next]_cvars

\* A channel that is not broken hands over every record it accepted, unless a
\* new life begins first.
Spec == SafeSpec /\ WF_cvars(Deliver)

=============================================================================
