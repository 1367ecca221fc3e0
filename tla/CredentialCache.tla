--------------------------- MODULE CredentialCache ---------------------------
(***************************************************************************)
(* The backend-credential cache of crates/oidc-provider: CredentialCache   *)
(* (src/cache.rs) as OidcCredentialProvider::get_credentials (src/lib.rs)  *)
(* uses it.  Several requests of one process share the map; the mutex is   *)
(* held for a lookup or an insert and never across the await of the token  *)
(* exchange, so each get_or_fetch is two atomic steps (claim, then insert  *)
(* or drop the claim) with anything in between.                            *)
(*                                                                         *)
(* Time.  The code compares absolute timestamps with `now`.  Here every    *)
(* timestamp is kept as its distance from now: `life` is expiration - now  *)
(* (0 once expired) and `claim` is now - renewing_since, which stops at    *)
(* ClaimTimeout because the code treats every older claim alike; None is   *)
(* NoClaim, beyond all of them.  Tick moves all of them at once, so time   *)
(* is unbounded and the state space is finite.                             *)
(***************************************************************************)
EXTENDS Naturals

CONSTANTS
    Callers,      \* concurrent requests
    Scopes,       \* cache_key: the IAM role ARN
    Subjects,     \* the `sub` of the minted assertion
    Trusted,      \* external: identities the role's trust policy accepts
    Lifetimes,    \* external: lifetimes the token endpoint grants, in ticks
    RefreshLead,  \* REFRESH_LEAD_SECS
    MinServe,     \* MIN_SERVE_SECS
    ClaimTimeout, \* CLAIM_TIMEOUT_SECS
    NoEntry,      \* the key is not in the map
    NoAnswer      \* the latest step answered nobody

Identities == [scope : Scopes, subject : Subjects]

Cred == [owner : Identities, life : Nat]

Entry == [cred : Cred, claim : 0..ClaimTimeout + 1]

Answers ==
    [caller : Callers, id : Identities, ok : {FALSE}] \union
    [caller : Callers, id : Identities, ok : {TRUE},
     source : {"cache", "exchange"}, cred : Cred]

ASSUME ConstantsAssumption ==
    /\ Trusted \subseteq Identities
    /\ Lifetimes \subseteq Nat
    /\ ClaimTimeout \in Nat \ {0}
    /\ MinServe \in Nat
    /\ RefreshLead \in Nat
    /\ MinServe <= RefreshLead
    /\ NoEntry \notin Entry
    /\ NoAnswer \notin Answers

VARIABLES
    entries,    \* the map behind the mutex
    call,       \* where each request stands in get_or_fetch
    answer,     \* what the latest step returned to a caller
    claimAge,   \* history: time since the caller claimed a renewal
    disturbed   \* history: a fetch of the same key ended since then

cacheVars == <<entries, call, answer>>
history   == <<claimAge, disturbed>>
vars      == <<entries, call, answer, claimAge, disturbed>>

-----------------------------------------------------------------------------
(* The pieces of claim() and get_or_fetch().                               *)

\* Mutant: the key without the subject, which an earlier revision used.
ScopedKeyWithoutSubject(id) == <<id.scope>>

\* scoped_key: the separator occurs in neither half, so the join is a pair.
ScopedKey(id) == <<id.scope, id.subject>>

Keys == {ScopedKey(id) : id \in Identities}

\* renewing_since: None
NoClaim == ClaimTimeout + 1

\* Mutant: a live claim is honoured to the very end of the credential's life.
ServableWithoutFloor(e) ==
    /\ e # NoEntry
    /\ \/ e.cred.life > RefreshLead
       \/ e.claim < ClaimTimeout /\ e.cred.life > 0

\* Mutant: a claim, once taken, is neither reaped nor overtaken.
ServableWhileClaimed(e) ==
    /\ e # NoEntry
    /\ e.cred.life > RefreshLead \/ e.claim # NoClaim


\* Action::Serve of claim(): fresh, or being renewed by someone and still
\* far enough from expiry.
Servable(e) ==
    /\ e # NoEntry
    /\ \/ e.cred.life > RefreshLead
       \/ e.claim < ClaimTimeout /\ e.cred.life > MinServe

\* Mutant: the exchange starts and nobody is told.
ClaimedEntryUnmarked(e) == e

\* entry.renewing_since = Some(now)
ClaimedEntry(e) == [e EXCEPT !.claim = 0]

\* entry.renewing_since = None
ReleasedEntry(e) == [e EXCEPT !.claim = NoClaim]

Idle == [pc |-> "idle"]

Busy(c) == call[c].pc # "idle"

KeyOf(c) == ScopedKey(call[c].id)

Min2(a, b) == IF a <= b THEN a ELSE b

OlderClaim(n) == IF n = NoClaim THEN NoClaim ELSE Min2(n + 1, ClaimTimeout)

Older(cred) == [cred EXCEPT !.life = IF @ = 0 THEN 0 ELSE @ - 1]

-----------------------------------------------------------------------------

Init ==
    /\ entries = [k \in Keys |-> NoEntry]
    /\ call = [c \in Callers |-> Idle]
    /\ answer = NoAnswer
    /\ claimAge = [c \in Callers |-> ClaimTimeout]
    /\ disturbed = [c \in Callers |-> FALSE]

\* The history of a caller that enters or leaves the exchange, and of the
\* others that are fetching the same key when its fetch ends.
Forgotten(c) ==
    /\ claimAge' = [claimAge EXCEPT ![c] = ClaimTimeout]
    /\ disturbed' = [disturbed EXCEPT ![c] = FALSE]

FetchEnded(c) ==
    /\ claimAge' = [claimAge EXCEPT ![c] = ClaimTimeout]
    /\ disturbed' = [d \in Callers |->
          d # c /\ (disturbed[d] \/ (Busy(d) /\ KeyOf(d) = KeyOf(c)))]

\* get_or_fetch, first step: claim() returns Action::Serve.
Serve(c, id) ==
    /\ call[c] = Idle
    /\ LET e == entries[ScopedKey(id)] IN
          /\ Servable(e)
          /\ answer' = [caller |-> c, id |-> id, ok |-> TRUE,
                        source |-> "cache", cred |-> e.cred]
    /\ UNCHANGED <<entries, call, history>>

\* get_or_fetch, first step: claim() returns Action::Fetch, which takes the
\* claim when there is an entry to take it on, and the exchange starts.
StartFetch(c, id) ==
    /\ call[c] = Idle
    /\ LET k == ScopedKey(id)
           e == entries[k]
       IN /\ ~Servable(e)
          /\ entries' = IF e = NoEntry THEN entries
                        ELSE [entries EXCEPT ![k] = ClaimedEntry(e)]
          /\ claimAge' = [claimAge EXCEPT ![c] =
                IF e # NoEntry /\ e.cred.life > MinServe THEN 0
                ELSE ClaimTimeout]
    /\ disturbed' = [disturbed EXCEPT ![c] = FALSE]
    /\ call' = [call EXCEPT ![c] = [pc |-> "waiting", id |-> id]]
    /\ answer' = NoAnswer

\* The token endpoint issues a credential; the response travels.
Mint(c) ==
    /\ call[c].pc = "waiting"
    /\ call[c].id \in Trusted
    /\ \E n \in Lifetimes :
          call' = [call EXCEPT ![c] =
             [pc |-> "minted", id |-> @.id,
              cred |-> [owner |-> @.id, life |-> n]]]
    /\ answer' = NoAnswer
    /\ UNCHANGED <<entries, history>>

\* Mutant: the insert updates the entry in place and leaves renewing_since.
StoreKeepingClaim(c) ==
    /\ call[c].pc = "minted"
    /\ entries' = [entries EXCEPT ![KeyOf(c)] =
          [cred |-> call[c].cred,
           claim |-> IF @ = NoEntry THEN NoClaim ELSE @.claim]]
    /\ call' = [call EXCEPT ![c] = Idle]
    /\ answer' = [caller |-> c, id |-> call[c].id, ok |-> TRUE,
                  source |-> "exchange", cred |-> call[c].cred]
    /\ FetchEnded(c)

\* get_or_fetch, second step, fetch Ok: the insert replaces the entry, and
\* with it whatever claim is on it, and the caller gets what it fetched.
Store(c) ==
    /\ call[c].pc = "minted"
    /\ entries' = [entries EXCEPT ![KeyOf(c)] =
          [cred |-> call[c].cred, claim |-> NoClaim]]
    /\ call' = [call EXCEPT ![c] = Idle]
    /\ answer' = [caller |-> c, id |-> call[c].id, ok |-> TRUE,
                  source |-> "exchange", cred |-> call[c].cred]
    /\ FetchEnded(c)

\* Mutant: on an error, whatever is cached is handed out instead.
FailServingStale(c) ==
    /\ Busy(c)
    /\ LET k == KeyOf(c) IN
          /\ entries' = IF entries[k] = NoEntry THEN entries
                        ELSE [entries EXCEPT ![k] = ReleasedEntry(@)]
          /\ answer' =
                IF entries[k] = NoEntry
                THEN [caller |-> c, id |-> call[c].id, ok |-> FALSE]
                ELSE [caller |-> c, id |-> call[c].id, ok |-> TRUE,
                      source |-> "cache", cred |-> entries[k].cred]
    /\ call' = [call EXCEPT ![c] = Idle]
    /\ FetchEnded(c)

\* get_or_fetch, second step, fetch Err (signing, transport, an unreadable
\* or refused exchange): the claim on the entry is dropped, whoever holds it.
Fail(c) ==
    /\ Busy(c)
    /\ LET k == KeyOf(c) IN
          entries' = IF entries[k] = NoEntry THEN entries
                     ELSE [entries EXCEPT ![k] = ReleasedEntry(@)]
    /\ answer' = [caller |-> c, id |-> call[c].id, ok |-> FALSE]
    /\ call' = [call EXCEPT ![c] = Idle]
    /\ FetchEnded(c)

\* The runtime drops the request's future during the exchange: no code of
\* get_or_fetch runs, and a claim stays behind.
Cancel(c) ==
    /\ Busy(c)
    /\ call' = [call EXCEPT ![c] = Idle]
    /\ answer' = NoAnswer
    /\ Forgotten(c)
    /\ UNCHANGED entries

\* A second passes, for every credential and every claim.
Tick ==
    /\ entries' = [k \in Keys |->
          IF entries[k] = NoEntry THEN NoEntry
          ELSE [cred |-> Older(entries[k].cred),
                claim |-> OlderClaim(entries[k].claim)]]
    /\ call' = [c \in Callers |->
          IF call[c].pc = "minted"
          THEN [call[c] EXCEPT !.cred = Older(@)] ELSE call[c]]
    /\ claimAge' = [c \in Callers |-> Min2(claimAge[c] + 1, ClaimTimeout)]
    /\ answer' = NoAnswer
    /\ UNCHANGED disturbed

GetOrFetch(c, id) == Serve(c, id) \/ StartFetch(c, id)

FetchReturns(c) == Store(c) \/ Fail(c) \/ Cancel(c)

Next ==
    \/ \E c \in Callers, id \in Identities : GetOrFetch(c, id)
    \/ \E c \in Callers : Mint(c) \/ FetchReturns(c)
    \/ Tick

Spec == Init /\ [][Next]_vars

\* Time passes, an exchange ends one way or another, and requests for an
\* identity keep arriving.
Fairness ==
    /\ WF_vars(Tick)
    /\ \A c \in Callers : WF_vars(FetchReturns(c))
    /\ \A id \in Identities : SF_vars(\E c \in Callers : GetOrFetch(c, id))

LiveSpec == Spec /\ Fairness

-----------------------------------------------------------------------------
(* Properties                                                              *)

Call ==
    [pc : {"idle"}] \union
    [pc : {"waiting"}, id : Identities] \union
    [pc : {"minted"}, id : Identities, cred : Cred]

\* The map holds entries or nothing, and every request is idle, waiting for
\* the exchange, or about to receive a credential.
Typed ==
    /\ entries \in [Keys -> Entry \union {NoEntry}]
    /\ call \in [Callers -> Call]
    /\ answer \in Answers \union {NoAnswer}
    /\ claimAge \in [Callers -> 0..ClaimTimeout]
    /\ disturbed \in [Callers -> BOOLEAN]

DueWhenClaimed ==
    \A k \in Keys :
        entries[k] # NoEntry /\ entries[k].claim # NoClaim
            => entries[k].cred.life <= RefreshLead

\* Types, and what an entry's two fields have to do with each other: a claim
\* lies only on a credential that is due for renewal. Claims that are left
\* behind go with the credential they were for (get_or_fetch, cache.rs:147-171).
TypeOK == Typed /\ DueWhenClaimed

\* A request is only ever answered with a credential that the token endpoint
\* issued to that request's own scope and subject, so a subject the trust
\* policy rejects gets none, however the two share the cache (scoped_key).
NoTrustBypass ==
    answer # NoAnswer /\ answer.ok =>
        /\ answer.cred.owner = answer.id
        /\ answer.id \in Trusted

\* A credential out of the cache has more than MIN_SERVE_SECS left, and one
\* inside the refresh lead is handed out only while its renewal is claimed
\* (claim() at the two Serve returns).
ServedFloor ==
    answer # NoAnswer /\ answer.ok /\ answer.source = "cache" =>
        /\ answer.cred.life > MinServe
        /\ answer.cred.life <= RefreshLead =>
              entries[ScopedKey(answer.id)].claim < ClaimTimeout

\* The caller runs a renewal it claimed less than CLAIM_TIMEOUT_SECS ago.
Renewing(c) == Busy(c) /\ claimAge[c] < ClaimTimeout

\* Renewal is single-flighted as far as the claim protects it: two callers
\* renew one key at the same time only if some other fetch of that key ended
\* since one of them took its claim (get_or_fetch drops and overwrites the
\* claim without asking whose it is).
SingleFlight ==
    \A c, d \in Callers :
        c # d /\ Renewing(c) /\ Renewing(d) /\ KeyOf(c) = KeyOf(d)
            => disturbed[c] \/ disturbed[d]

\* Every stored credential, and every one on its way to a caller, was issued
\* to the identity its key, or its caller, stands for.
CredsOwned ==
    /\ \A id \in Identities :
          entries[ScopedKey(id)] # NoEntry =>
             entries[ScopedKey(id)].cred.owner = id /\ id \in Trusted
    /\ \A c \in Callers :
          call[c].pc = "minted" =>
             call[c].cred.owner = call[c].id /\ call[c].id \in Trusted

\* The claim of a renewal that nobody disturbed is still on the entry, and
\* no older than the renewal.
ClaimKept ==
    \A c \in Callers :
        Renewing(c) /\ ~disturbed[c] =>
            /\ entries[KeyOf(c)] # NoEntry
            /\ entries[KeyOf(c)].claim <= claimAge[c]

\* The inductive invariant behind the safety properties.
CacheInv ==
    /\ TypeOK
    /\ CredsOwned
    /\ NoTrustBypass
    /\ ServedFloor
    /\ ClaimKept
    /\ SingleFlight

\* What the module docs and docs/architecture/caching.md say without that
\* condition: while one caller renews a key, no second renewal of it runs.
OneMintRuns ==
    \A c, d \in Callers :
        c # d /\ Renewing(c) /\ Renewing(d) => KeyOf(c) # KeyOf(d)

\* The key is cached and due for renewal.
Lapsing(k) == entries[k] # NoEntry /\ entries[k].cred.life <= RefreshLead

\* While requests keep coming, a key in its refresh lead does not stay
\* without anybody fetching it: a claim whose holder was cancelled is reaped.
RenewalAttempted ==
    \A k \in Keys :
        Lapsing(k) ~> (~Lapsing(k) \/ \E c \in Callers : Busy(c) /\ KeyOf(c) = k)

\* The credentials alive in the process: stored, or on their way to a caller.
Vault ==
    {entries[k].cred : k \in {x \in Keys : entries[x] # NoEntry}} \union
    {call[c].cred : c \in {x \in Callers : call[x].pc = "minted"}}

Service == INSTANCE CredentialService WITH vault <- Vault

\* Every answer of the cache is one the plain service could have given:
\* nothing invented, nothing rejuvenated, nothing that belongs to another.
ImplementsService == Service!Spec
==============================================================================
