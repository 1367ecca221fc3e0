-------------------------- MODULE CredentialService --------------------------
(***************************************************************************)
(* What OidcCredentialProvider::get_credentials promises its callers,      *)
(* whatever the cache in front of the token endpoint does.                 *)
(*                                                                         *)
(* Credentials are born at the token endpoint, which issues them only to   *)
(* identities its trust policy accepts.  From then on they grow older, all *)
(* together, and copies may be dropped; nothing else happens to them.  An  *)
(* answer hands over one of the credentials that are around, issued to the *)
(* very identity that asks; if somebody else paid for it, with more than   *)
(* MinServe of life left.  The service keeps no promise to answer from     *)
(* memory, to mint once, or to mint in any order.                          *)
(***************************************************************************)
EXTENDS Naturals

CONSTANTS
    Callers,    \* concurrent requests of one process or isolate
    Identities, \* what credentials are issued to: [scope, subject]
    Trusted,    \* the identities the token endpoint accepts
    Lifetimes,  \* the lifetimes it grants, in ticks
    MinServe,   \* MIN_SERVE_SECS, in ticks
    NoAnswer    \* no caller is answered by the current step

VARIABLES
    vault,      \* the credentials that exist anywhere in the process
    answer      \* what the latest step handed to a caller

vars == <<vault, answer>>

Cred == [owner : Identities, life : Nat]

Older(cred) ==
    [cred EXCEPT !.life = IF @ = 0 THEN 0 ELSE @ - 1]

Init ==
    /\ vault = {}
    /\ answer = NoAnswer

Mint ==
    /\ \E id \in Trusted, n \in Lifetimes :
          vault' = vault \union {[owner |-> id, life |-> n]}
    /\ answer' = NoAnswer

Age ==
    /\ vault' = {Older(v) : v \in vault}
    /\ answer' = NoAnswer

Forget ==
    /\ vault' \subseteq vault
    /\ answer' = NoAnswer

Answer(c, id) ==
    /\ \E v \in vault, src \in {"cache", "exchange"} :
          /\ v.owner = id
          /\ src = "cache" => v.life > MinServe
          /\ answer' = [caller |-> c, id |-> id, ok |-> TRUE,
                        source |-> src, cred |-> v]
    /\ vault' \subseteq vault

Refuse(c, id) ==
    /\ answer' = [caller |-> c, id |-> id, ok |-> FALSE]
    /\ vault' \subseteq vault

Next ==
    \/ Mint
    \/ Age
    \/ Forget
    \/ \E c \in Callers, id \in Identities : Answer(c, id) \/ Refuse(c, id)

Spec == Init /\ [][Next]_vars
==============================================================================
