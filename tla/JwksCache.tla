------------------------------ MODULE JwksCache ------------------------------
(***************************************************************************)
(* The cache of verification keys of `multistore-sts` (JwksCache in        *)
(* crates/sts/src/jwks.rs), between concurrent exchanges and the issuers   *)
(* that publish the keys.                                                  *)
(*                                                                         *)
(* get_or_fetch looks into the entries, then into the failures, each under *)
(* a lock of its own, and awaits the issuer under none. What it does       *)
(* between two awaits takes no time: Tick waits for it. Times are kept as  *)
(* distances from now and stop where the code no longer tells them apart.  *)
(***************************************************************************)
EXTENDS Naturals, FiniteSets

CONSTANTS
    Callers,        \* exchanges that may run at the same time
    Issuers,
    Keys,           \* key ids
    Ttl,            \* life of an entry
    FailureTtl,     \* life of a failure, the backoff
    MaxFetch,       \* longest time to an answer of an issuer
    Horizon,        \* where the history of key sets stops counting
    NoEntry,
    NoIssuer,
    NoRead

\* The code sets no limit on a fetch. MaxFetch is what the platform and the
\* issuer need; it leaves room for the backoff within the time to live.
ASSUME JwksAssumption ==
    /\ Ttl \in Nat /\ FailureTtl \in Nat \ {0} /\ MaxFetch \in Nat
    /\ MaxFetch + FailureTtl <= Ttl
    /\ Horizon \in Nat /\ Ttl + MaxFetch <= Horizon
    /\ NoEntry \notin [age : 0..Ttl, keys : SUBSET Keys]
    /\ NoIssuer \notin Issuers
    /\ NoRead \notin [item : Issuers, value : SUBSET Keys]

VARIABLES
    published,      \* the keys each issuer publishes now
    up,             \* whether its endpoints answer
    entries,        \* JwksCache::entries
    failures,       \* JwksCache::failures, FailureTtl for none or a lapsed one
    lookup,         \* each caller's place in get_or_fetch
    gone,           \* history: time since an issuer published a set of keys
    vain            \* history: the failure kept is that of a beaten fetch

cacheVars == <<entries, failures, lookup, vain>>
vars == <<published, up, entries, failures, lookup, gone, vain>>

KeySets == SUBSET Keys

\* An entry is used while it is younger than Ttl.
MaxStale == Ttl - 1 + MaxFetch

Entry == [age : 0..Ttl, keys : KeySets]

\* Places at which a caller computes, and those at which it waits.
Computing == {"missed", "stored", "returned", "failed", "backedOff"}
Waiting == {"fetching", "answered"}

Lookup == [at : Computing \cup Waiting \cup {"idle"},
           issuer : Issuers \cup {NoIssuer},
           keys : KeySets,
           time : 0..MaxFetch,
           beaten : BOOLEAN]   \* history: a fetch was stored since mine began

At(place, i, S) ==
    [at |-> place, issuer |-> i, keys |-> S, time |-> 0, beaten |-> FALSE]

Idle == At("idle", NoIssuer, {})

Fresh(i) == entries[i] # NoEntry /\ entries[i].age < Ttl

Typed ==
    /\ published \in [Issuers -> KeySets]
    /\ up \in [Issuers -> BOOLEAN]
    /\ entries \in [Issuers -> Entry \cup {NoEntry}]
    /\ failures \in [Issuers -> 0..FailureTtl]
    /\ lookup \in [Callers -> Lookup]
    /\ gone \in [Issuers -> [KeySets -> 0..Horizon]]
    /\ vain \in [Issuers -> BOOLEAN]

\* Types, and the state between the two locks of a successful fetch: a caller
\* that has stored its answer and has yet to clear the failure finds a fresh
\* entry of its issuer, whoever stored one since (jwks.rs:326-341).
TypeOK ==
    /\ Typed
    /\ \A c \in Callers : lookup[c].at = "stored" => Fresh(lookup[c].issuer)

Init ==
    /\ published \in [Issuers -> KeySets]
    /\ up = [i \in Issuers |-> TRUE]
    /\ entries = [i \in Issuers |-> NoEntry]
    /\ failures = [i \in Issuers |-> FailureTtl]
    /\ lookup = [c \in Callers |-> Idle]
    /\ gone = [i \in Issuers |->
                 [S \in KeySets |-> IF S = published[i] THEN 0 ELSE Horizon]]
    /\ vain = [i \in Issuers |-> FALSE]

-----------------------------------------------------------------------------
(* Issuers.                                                                *)

Publish(i, S) ==
    /\ published' = [published EXCEPT ![i] = S]
    /\ gone' = [gone EXCEPT ![i][S] = 0]
    /\ UNCHANGED <<up, cacheVars>>

Flip(i) ==
    /\ up' = [up EXCEPT ![i] = ~@]
    /\ UNCHANGED <<published, gone, cacheVars>>

-----------------------------------------------------------------------------
(* get_or_fetch.                                                           *)

BackingOff(i) == failures[i] < FailureTtl

InFlight(c, i) == lookup[c].at \in Waiting /\ lookup[c].issuer = i

Moves(c, l) == lookup' = [lookup EXCEPT ![c] = l]

\* Mutant: every hit renews the entry.
HitRenewing(c, i) ==
    /\ lookup[c].at = "idle"
    /\ Fresh(i)
    /\ Moves(c, At("returned", i, entries[i].keys))
    /\ entries' = [entries EXCEPT ![i].age = 0]
    /\ UNCHANGED <<published, up, failures, gone, vain>>

Hit(c, i) ==
    /\ lookup[c].at = "idle"
    /\ Fresh(i)
    /\ Moves(c, At("returned", i, entries[i].keys))
    /\ UNCHANGED <<published, up, entries, failures, gone, vain>>

\* Mutant: the failures are looked into although there is an entry.
MissUnlooked(c, i) ==
    /\ lookup[c].at = "idle"
    /\ Moves(c, At("missed", i, {}))
    /\ UNCHANGED <<published, up, entries, failures, gone, vain>>

Miss(c, i) ==
    /\ lookup[c].at = "idle"
    /\ ~Fresh(i)
    /\ Moves(c, At("missed", i, {}))
    /\ UNCHANGED <<published, up, entries, failures, gone, vain>>

\* Mutant: who is refused in the backoff begins it anew.
BackOffRenewing(c) ==
    LET i == lookup[c].issuer IN
    /\ lookup[c].at = "missed"
    /\ BackingOff(i)
    /\ failures' = [failures EXCEPT ![i] = 0]
    /\ Moves(c, At("backedOff", i, {}))
    /\ UNCHANGED <<published, up, entries, gone, vain>>

BackOff(c) ==
    LET i == lookup[c].issuer IN
    /\ lookup[c].at = "missed"
    /\ BackingOff(i)
    /\ Moves(c, At("backedOff", i, {}))
    /\ UNCHANGED <<published, up, entries, failures, gone, vain>>

StartFetch(c) ==
    LET i == lookup[c].issuer IN
    /\ lookup[c].at = "missed"
    /\ ~BackingOff(i)
    /\ Moves(c, At("fetching", i, {}))
    /\ UNCHANGED <<published, up, entries, failures, gone, vain>>

\* The issuer reads its keys; its answer is still to travel.
IssuerAnswers(c) ==
    LET i == lookup[c].issuer IN
    /\ lookup[c].at = "fetching"
    /\ up[i]
    /\ lookup' = [lookup EXCEPT ![c].at = "answered", ![c].keys = published[i]]
    /\ UNCHANGED <<published, up, entries, failures, gone, vain>>

\* Mutant: entry().or_insert, which keeps an entry that has run out.
StoreEntryIfAbsent(c) ==
    LET i == lookup[c].issuer IN
    /\ lookup[c].at = "answered"
    /\ entries' = IF entries[i] # NoEntry THEN entries
                  ELSE [entries EXCEPT ![i] = [age |-> 0, keys |-> lookup[c].keys]]
    /\ lookup' = [d \in Callers |->
          CASE d = c -> At("stored", i, lookup[c].keys)
            [] d # c /\ InFlight(d, i) -> [lookup[d] EXCEPT !.beaten = TRUE]
            [] OTHER -> lookup[d]]
    /\ vain' = [vain EXCEPT ![i] = BackingOff(i)]
    /\ UNCHANGED <<published, up, failures, gone>>

\* The answer is stored over whatever is there, stamped with its arrival.
StoreEntry(c) ==
    LET i == lookup[c].issuer IN
    /\ lookup[c].at = "answered"
    /\ entries' = [entries EXCEPT ![i] = [age |-> 0, keys |-> lookup[c].keys]]
    /\ lookup' = [d \in Callers |->
          CASE d = c -> At("stored", i, lookup[c].keys)
            [] d # c /\ InFlight(d, i) -> [lookup[d] EXCEPT !.beaten = TRUE]
            [] OTHER -> lookup[d]]
    /\ vain' = [vain EXCEPT ![i] = BackingOff(i)]
    /\ UNCHANGED <<published, up, failures, gone>>

ClearFailure(c) ==
    LET i == lookup[c].issuer IN
    /\ lookup[c].at = "stored"
    /\ failures' = [failures EXCEPT ![i] = FailureTtl]
    /\ vain' = [vain EXCEPT ![i] = FALSE]
    /\ Moves(c, At("returned", i, lookup[c].keys))
    /\ UNCHANGED <<published, up, entries, gone>>

\* No connection, or an answer that cannot be read.
FetchFails(c) ==
    LET i == lookup[c].issuer IN
    /\ lookup[c].at \in Waiting
    /\ ~up[i]
    /\ failures' = [failures EXCEPT ![i] = 0]
    /\ vain' = [vain EXCEPT ![i] = lookup[c].beaten]
    /\ Moves(c, At("failed", i, {}))
    /\ UNCHANGED <<published, up, entries, gone>>

\* The runtime drops the request at the await.
Cancel(c) ==
    /\ lookup[c].at \in Waiting
    /\ Moves(c, Idle)
    /\ UNCHANGED <<published, up, entries, failures, gone, vain>>

\* The caller takes the result.
Return(c) ==
    /\ lookup[c].at \in {"returned", "failed", "backedOff"}
    /\ Moves(c, Idle)
    /\ UNCHANGED <<published, up, entries, failures, gone, vain>>

\* The process ends, and another starts with nothing in memory.
Restart ==
    /\ entries' = [i \in Issuers |-> NoEntry]
    /\ failures' = [i \in Issuers |-> FailureTtl]
    /\ lookup' = [c \in Callers |-> Idle]
    /\ vain' = [i \in Issuers |-> FALSE]
    /\ UNCHANGED <<published, up, gone>>

\* A moment that has reached its limit stays there.
Later(t, limit) == IF t < limit THEN t + 1 ELSE t

\* The next moment comes when all callers wait, none of them overdue.
MayTick ==
    \A c \in Callers :
        /\ lookup[c].at \notin Computing
        /\ lookup[c].at \in Waiting => lookup[c].time < MaxFetch

Tick ==
    /\ MayTick
    /\ entries' = [i \in Issuers |->
          IF entries[i] = NoEntry THEN NoEntry
          ELSE [entries[i] EXCEPT !.age = Later(@, Ttl)]]
    /\ failures' = [i \in Issuers |-> Later(failures[i], FailureTtl)]
    /\ vain' = [i \in Issuers |-> vain[i] /\ failures[i] + 1 < FailureTtl]
    /\ lookup' = [c \in Callers |->
          IF lookup[c].at \in Waiting
          THEN [lookup[c] EXCEPT !.time = @ + 1] ELSE lookup[c]]
    /\ gone' = [i \in Issuers |-> [S \in KeySets |->
          IF S = published[i] THEN gone[i][S] ELSE Later(gone[i][S], Horizon)]]
    /\ UNCHANGED <<published, up>>

GetOrFetch(c, i) == Hit(c, i) \/ Miss(c, i)

Proceed(c) ==
    \/ BackOff(c) \/ StartFetch(c) \/ IssuerAnswers(c) \/ StoreEntry(c)
    \/ ClearFailure(c) \/ FetchFails(c)

Drop == Restart \/ \E c \in Callers : Cancel(c)

Next ==
    \/ \E i \in Issuers, S \in KeySets : Publish(i, S)
    \/ \E i \in Issuers : Flip(i)
    \/ \E c \in Callers, i \in Issuers : GetOrFetch(c, i)
    \/ \E c \in Callers : Proceed(c) \/ Return(c)
    \/ Drop
    \/ Tick

Spec == Init /\ [][Next]_vars

\* Time passes, whatever the callers do; a request goes on; and requests keep
\* arriving, for which a caller is free now and then only.
Fairness ==
    /\ []<><<Tick>>_vars
    /\ \A c \in Callers : WF_vars(Proceed(c) \/ Return(c))
    /\ \A i \in Issuers : SF_vars(\E c \in Callers : GetOrFetch(c, i))

LiveSpec == Spec /\ Fairness

-----------------------------------------------------------------------------
(* Properties.                                                             *)

ReadOf(c) ==
    IF lookup[c].at = "returned"
    THEN [item |-> lookup[c].issuer, value |-> lookup[c].keys]
    ELSE NoRead

Service == INSTANCE StaleReads WITH
    Readers <- Callers, Items <- Issuers, Values <- KeySets,
    source <- published, read <- [c \in Callers |-> ReadOf(c)]

Settled(i, S) == up[i] /\ published[i] = S

Current(i, S) == \A c \in Callers : lookup[c].issuer = i =>
    /\ lookup[c].at \notin {"failed", "backedOff"}
    /\ lookup[c].at = "returned" => lookup[c].keys = S

Answered(i) == \E c \in Callers :
    lookup[c].at = "returned" /\ lookup[c].issuer = i

\* A key set out of the cache, or from a fetch, is one that the issuer
\* published within the time to live and the time of a fetch. So a key that
\* was removed verifies nothing after that, and a key that was added is known
\* by then, whatever fetches race, fail or come late (jwks.rs:304-354).
ImplementsStaleReads == Service!Spec

\* A late failure does not undo a success: who is refused for a fetch that
\* failed, although another one of the same time succeeded, looked into the
\* entries in the very moment before that one was stored (jwks.rs:310-322
\* against 326-341).
BackoffEarned ==
    \A c \in Callers :
        LET i == lookup[c].issuer IN
        (lookup[c].at = "backedOff" /\ vain[i])
            => (Fresh(i) /\ entries[i].age = 0)

\* Neither the entries nor the backoff get stuck: once an issuer answers and
\* leaves its keys as they are, and requests are not dropped, requests are
\* answered again, with those keys and no others (jwks.rs:304-354).
Recovery ==
    \A i \in Issuers, S \in KeySets :
        (<>[]Settled(i, S) /\ <>[][~Drop]_vars)
            => (<>[]Current(i, S) /\ []<>Answered(i))
=============================================================================
