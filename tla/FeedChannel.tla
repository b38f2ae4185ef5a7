----------------------------- MODULE FeedChannel -----------------------------
(***************************************************************************)
(* What the receive path promises to the q callback function: the records  *)
(* the library accepted are handed over one by one, in order, each once,   *)
(* until, if ever, the channel breaks.  A broken channel may hand over     *)
(* anything, or nothing.                                                   *)
(***************************************************************************)
EXTENDS Naturals, Sequences

VARIABLES accepted,    \* how many records were accepted
          delivered,   \* what was handed over: a record's number, or 0
          broken

cvars == <<accepted, delivered, broken>>

Init == accepted = 0 /\ delivered = <<>> /\ broken = FALSE

Accept == accepted' = accepted + 1 /\ UNCHANGED <<delivered, broken>>

Deliver ==
    /\ ~broken /\ Len(delivered) < accepted
    /\ delivered' = Append(delivered, Len(delivered) + 1)
    /\ UNCHANGED <<accepted, broken>>

Break == broken' = TRUE /\ UNCHANGED <<accepted, delivered>>

Garble ==
    /\ broken
    /\ \E x \in 0 .. accepted : delivered' = Append(delivered, x)
    /\ UNCHANGED <<accepted, broken>>

Next == Accept \/ Deliver \/ Break \/ Garble

SafeSpec == Init /\ [][Next]_cvars

\* A channel that is not broken hands over every accepted record.
Spec == SafeSpec /\ WF_cvars(Deliver)

=============================================================================
