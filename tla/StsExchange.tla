----------------------------- MODULE StsExchange -----------------------------
(***************************************************************************)
(* The exchange of an identity token for a session                         *)
(* (assume_role_with_web_identity in crates/sts/src/lib.rs), through the   *)
(* key cache of JwksCache, and what a session is worth afterwards          *)
(* (sealed_token.rs, resolve_identity in crates/core/src/auth).            *)
(*                                                                         *)
(* The role is read before the keys are awaited and used after. A session  *)
(* is nowhere stored: the client holds it, sealed under the key of the     *)
(* process that minted it. Sessions do not meet, so the model follows one  *)
(* of them, any one (`session`).                                           *)
(***************************************************************************)
EXTENDS JwksCache

CONSTANTS
    RoleIds,
    Roles,          \* configurations a role may have
    Tokens,         \* identity tokens clients may present
    Requested,      \* durations they may ask for, NoDuration for none
    MinSession,     \* MIN_SESSION_DURATION_SECS
    DefaultSession, \* 3600
    MaxSession,     \* bound: the longest max_session_duration_secs
    SealingKeys,    \* values of SESSION_TOKEN_KEY
    NoRole, NoDuration, NoExchange, Panicked, NoSession

VARIABLES
    configured,     \* the configuration of each role now, or NoRole
    exchange,       \* the exchange of each caller, from the read of the role
    tokenKey,       \* the sealing key of the running process
    session

stsVars == <<configured, exchange, tokenKey, session>>
allVars == <<vars, stsVars>>

\* What the code reads of a RoleConfig. `needs` are the claims that its scopes
\* mention as templates.
Role == [trusted : SUBSET Issuers, hostExpiry : SUBSET Issuers,
         audiences : SUBSET STRING, subjects : SUBSET STRING,
         needs : SUBSET STRING, max : 0..MaxSession]

\* A token as the checks see it; `exp` is judged by the clock at the end.
Token == [issuer : Issuers, rs256 : BOOLEAN, kid : Keys, signed : BOOLEAN,
          audience : STRING, exp : {"ahead", "past", "none"},
          subject : STRING, claims : SUBSET STRING]

ASSUME StsAssumption ==
    /\ MinSession \in Nat \ {0} /\ DefaultSession \in Nat /\ MaxSession \in Nat
    /\ Requested \subseteq Nat \cup {NoDuration}
    /\ NoDuration \notin Nat
    /\ Ttl + MaxFetch + MaxSession <= Horizon
    /\ Roles \subseteq Role /\ NoRole \notin Role
    /\ Tokens \subseteq Token

\* `old` is history: how long ago the role in hand was last the configured one.
Exchange == [id : RoleIds, role : Roles, old : 0..MaxFetch + 1]

\* `issuer`, `kid` and `old` of a session are history, too.
Session == [id : RoleIds, role : Roles, sealedBy : SealingKeys,
            life : 0..MaxSession, issuer : Issuers, kid : Keys,
            old : 0..MaxFetch + MaxSession + 1]

StsTypeOK ==
    /\ configured \in [RoleIds -> Roles \cup {NoRole}]
    /\ exchange \in [Callers -> Exchange \cup {NoExchange, Panicked}]
    /\ tokenKey \in SealingKeys
    /\ session \in Session \cup {NoSession}

StsInit ==
    /\ Init
    /\ configured \in [RoleIds -> Roles \cup {NoRole}]
    /\ exchange = [c \in Callers |-> NoExchange]
    /\ tokenKey \in SealingKeys
    /\ session = NoSession

-----------------------------------------------------------------------------

\* What is checked before any key is fetched.
Admissible(role, token) ==
    /\ role # NoRole
    /\ token.issuer \in role.trusted
    /\ token.rs256

\* verify_token with validate_claims, and subject_allowed.
Verified(token, keys, role) ==
    /\ token.kid \in keys
    /\ token.signed
    /\ token.audience \in role.audiences
    /\ \/ token.exp = "ahead"
       \/ token.exp = "none" /\ token.issuer \in role.hostExpiry
    /\ token.subject \in role.subjects

\* Templates in the scopes name claims that the token must have.
Resolvable(token, role) == role.needs \subseteq token.claims

\* u64::clamp panics on an empty interval.
Clampable(role) == MinSession <= role.max

\* Mutant: only what is asked for is clamped, not the default.
DurationDefaultUnclamped(asked, role) ==
    CASE asked = NoDuration -> DefaultSession
      [] asked # NoDuration /\ asked < MinSession -> MinSession
      [] asked # NoDuration /\ asked > role.max -> role.max
      [] OTHER -> asked

\* Mutant: the maximum of the role is forgotten.
DurationUncapped(asked, role) ==
    LET wanted == IF asked = NoDuration THEN DefaultSession ELSE asked IN
    IF wanted < MinSession THEN MinSession ELSE wanted

Duration(asked, role) ==
    LET wanted == IF asked = NoDuration THEN DefaultSession ELSE asked IN
    CASE wanted < MinSession -> MinSession
      [] wanted > role.max -> role.max
      [] OTHER -> wanted

\* Unless refused at once, which leaves no trace, an exchange goes on to the
\* keys with the role it has read. What the code reads of the request only at
\* the end is chosen there (Decide).
Begin(c, id, i) ==
    /\ exchange[c] \in {NoExchange, Panicked}
    /\ \E t \in Tokens : t.issuer = i /\ Admissible(configured[id], t)
    /\ exchange' = [exchange EXCEPT ![c] =
          [id |-> id, role |-> configured[id], old |-> 0]]
    /\ GetOrFetch(c, i)
    /\ UNCHANGED <<configured, tokenKey, session>>

Await(c) ==
    /\ Proceed(c)
    /\ UNCHANGED stsVars

Abandon(c) ==
    /\ Cancel(c)
    /\ exchange' = [exchange EXCEPT ![c] = NoExchange]
    /\ UNCHANGED <<configured, tokenKey, session>>

\* Whether an exchange with this token gets as far as the duration.
Accepted(c, t) ==
    /\ lookup[c].at = "returned"
    /\ Verified(t, lookup[c].keys, exchange[c].role)

Minted(c, t, asked) ==
    LET x == exchange[c] IN
    [id |-> x.id, role |-> x.role, sealedBy |-> tokenKey,
     life |-> Duration(asked, x.role),
     issuer |-> t.issuer, kid |-> t.kid, old |-> x.old]

Grant(c, t, asked) ==
    /\ Accepted(c, t)
    /\ Clampable(exchange[c].role)
    /\ Resolvable(t, exchange[c].role)
    /\ session' \in {session, Minted(c, t, asked)}
    /\ exchange' = [exchange EXCEPT ![c] = NoExchange]
    /\ UNCHANGED <<configured, tokenKey>>

Panic(c, t) ==
    /\ Accepted(c, t)
    /\ ~Clampable(exchange[c].role)
    /\ exchange' = [exchange EXCEPT ![c] = Panicked]
    /\ UNCHANGED <<configured, tokenKey, session>>

Refuse(c, t) ==
    /\ ~Accepted(c, t) \/ ~Resolvable(t, exchange[c].role)
    /\ Accepted(c, t) => Clampable(exchange[c].role)
    /\ exchange' = [exchange EXCEPT ![c] = NoExchange]
    /\ UNCHANGED <<configured, tokenKey, session>>

\* Nothing is awaited from the answer of the cache to the end.
Decide(c) ==
    /\ Return(c)
    /\ \E t \in Tokens :
          /\ t.issuer = lookup[c].issuer
          /\ Admissible(exchange[c].role, t)
          /\ \/ \E d \in Requested : Grant(c, t, d)
             \/ Panic(c, t)
             \/ Refuse(c, t)

\* What unseal makes of a session in a request, for resolve_identity and for
\* GetCallerIdentity.
Unseals(s) ==
    CASE s = NoSession -> "unknown"
      [] s # NoSession /\ s.sealedBy # tokenKey -> "unknown"
      [] s # NoSession /\ s.sealedBy = tokenKey /\ s.life = 0 -> "expired"
      [] OTHER -> "identity"

-----------------------------------------------------------------------------
(* The world around.                                                       *)

Configure(id, r) ==
    /\ configured' = [configured EXCEPT ![id] = r]
    /\ exchange' = [c \in Callers |->
          IF /\ exchange[c] \notin {NoExchange, Panicked}
             /\ exchange[c].id = id /\ exchange[c].role = r
          THEN [exchange[c] EXCEPT !.old = 0] ELSE exchange[c]]
    /\ session' = IF session # NoSession /\ session.id = id /\ session.role = r
                  THEN [session EXCEPT !.old = 0] ELSE session
    /\ UNCHANGED <<vars, tokenKey>>

Outdated(x) == x.role # configured[x.id]

StsTick ==
    /\ Tick
    /\ exchange' = [c \in Callers |->
          IF exchange[c] \in {NoExchange, Panicked} THEN exchange[c]
          ELSE IF Outdated(exchange[c])
          THEN [exchange[c] EXCEPT !.old = Later(@, MaxFetch + 1)] ELSE exchange[c]]
    /\ session' =
          IF session = NoSession \/ session.life = 0 THEN NoSession
          ELSE [session EXCEPT
                  !.life = @ - 1,
                  !.old = IF Outdated(session)
                          THEN Later(@, MaxFetch + MaxSession + 1) ELSE @]
    /\ UNCHANGED <<configured, tokenKey>>

\* A new process, perhaps with another sealing key. Clients keep sessions.
StsRestart ==
    /\ Restart
    /\ exchange' = [c \in Callers |-> NoExchange]
    /\ tokenKey' \in SealingKeys
    /\ UNCHANGED <<configured, session>>

Issuer ==
    /\ \E i \in Issuers : Flip(i) \/ \E S \in KeySets : Publish(i, S)
    /\ UNCHANGED stsVars

StsNext ==
    \/ Issuer
    \/ \E id \in RoleIds, r \in Roles \cup {NoRole} : Configure(id, r)
    \/ \E c \in Callers, id \in RoleIds, i \in Issuers : Begin(c, id, i)
    \/ \E c \in Callers : Await(c) \/ Abandon(c) \/ Decide(c)
    \/ StsRestart
    \/ StsTick

StsSpec == StsInit /\ [][StsNext]_allVars

-----------------------------------------------------------------------------
(* Properties.                                                             *)

\* Time since a session was minted, at most.
Spent(s) == s.role.max - s.life

\* Trust in a key ends: a session identifies somebody only if the issuer
\* published the key of its token before the session was minted, by no more
\* than the staleness of the key cache (lib.rs:154-163, sealed_token.rs:99).
KeyTrustEnds ==
    Unseals(session) = "identity" =>
        \E S \in KeySets :
            /\ session.kid \in S
            /\ gone[session.issuer][S] <= MaxStale + Spent(session)

\* Trust of a role ends: a session lasts no longer than the role allowed, and
\* that role was the configured one no longer before the mint than the fetch of
\* the keys took (lib.rs:123-126 against 171-178).
RoleTrustEnds ==
    Unseals(session) = "identity" =>
        /\ session.life <= session.role.max
        /\ session.old <= MaxFetch + Spent(session)

\* The documentation lets a role have any maximum and clamps what is asked for:
\* whoever presents a good token gets an answer (lib.rs:173-176).
EveryExchangeAnswered == \A c \in Callers : exchange[c] # Panicked
=============================================================================
