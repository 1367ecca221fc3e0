-------------------------- MODULE MCCredentialCache --------------------------
(* Model values and small sets for TLC.                                     *)
EXTENDS CredentialCache, TLC

CONSTANTS r1, s1, s2, c1, c2, c3

\* The role's trust policy accepts one of the two subjects.
TrustedFirst == {[scope |-> r1, subject |-> s1]}

Symmetry == Permutations(Callers)
==============================================================================
