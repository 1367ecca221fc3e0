--------------------------- MODULE MCStsExchange ---------------------------
(* A role, its configurations, and tokens for TLC. *)
EXTENDS StsExchange, TLC

CONSTANTS i1, k1, c1, c2, s1, s2

\* A role as most are, one that allows less than the minimum, and one that
\* trusts tokens without expiry and has a template in its scopes.
Plain == [trusted |-> {i1}, hostExpiry |-> {}, audiences |-> {"proxy"},
          subjects |-> {"alice"}, needs |-> {}, max |-> 2]
Short == [Plain EXCEPT !.max = 0]
Lax == [Plain EXCEPT !.hostExpiry = {i1}, !.needs = {"org"}, !.max = 1]

Good == [issuer |-> i1, rs256 |-> TRUE, kid |-> k1, signed |-> TRUE,
         audience |-> "proxy", exp |-> "ahead", subject |-> "alice",
         claims |-> {}]
Forged == [Good EXCEPT !.signed = FALSE]
Endless == [Good EXCEPT !.exp = "none", !.claims = {"org"}]

MCRoles == {Plain, Short, Lax}
MCTokens == {Good, Forged, Endless}

Symmetry == Permutations(Callers) \cup Permutations(SealingKeys)
=============================================================================
