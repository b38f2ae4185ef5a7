------------------------------ MODULE MCSession ------------------------------
(* Session for TLC: topics are interchangeable.                            *)
EXTENDS Session, TLC

TopicSymmetry == Permutations(Topics)
=============================================================================
