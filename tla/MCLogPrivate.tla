---------------------------- MODULE MCLogPrivate -----------------------------
(* Instances of LogPrivate for TLC.                                        *)
EXTENDS LogPrivate, TLC

\* Identifiers differ in their names only.
Symmetry == Permutations(Ids)
=============================================================================
