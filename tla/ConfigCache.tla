----------------------------- MODULE ConfigCache -----------------------------
(***************************************************************************)
(* The cache of configuration lookups of the server example                *)
(* (CachedProvider in examples/server/src/cached.rs): roles and            *)
(* credentials, found or not, between concurrent requests and the inner    *)
(* provider whose contents an operator changes.                            *)
(*                                                                         *)
(* get_role and get_credential are the same code over two maps; an item is *)
(* an id in one of them. The map is locked for the look and for the insert *)
(* but not in between, while the provider is awaited. Lookups of buckets   *)
(* go past the cache.                                                      *)
(***************************************************************************)
EXTENDS Naturals

CONSTANTS
    Callers,        \* lookups that may run at the same time
    Items,
    Values,         \* what the provider may hold for an item; one is "none"
    Ttl,
    MaxRead,        \* longest time to an answer of the provider
    Horizon,        \* where the history of values stops counting
    NoEntry, NoItem, NoValue, NoRead

\* The code sets no limit on a read of the provider; MaxRead is what it needs.
ASSUME ConfigAssumption ==
    /\ Ttl \in Nat /\ MaxRead \in Nat
    /\ Horizon \in Nat /\ Ttl + MaxRead < Horizon
    /\ NoEntry \notin [age : 0..Ttl + 1, value : Values]
    /\ NoItem \notin Items
    /\ NoValue \notin Values
    /\ NoRead \notin [item : Items, value : Values]

VARIABLES
    source,         \* what the inner provider holds
    entries,        \* CacheState
    reading,        \* each caller's place in get_role or get_credential
    gone            \* history: time since the provider held a value

vars == <<source, entries, reading, gone>>

\* An entry is used until it is older than Ttl.
MaxStale == Ttl + MaxRead

Entry == [age : 0..Ttl + 1, value : Values]

Waiting == {"asking", "answered"}

Reading == [at : Waiting \cup {"idle", "returned"},
            item : Items \cup {NoItem},
            value : Values \cup {NoValue},
            time : 0..MaxRead]

At(place, i, v) == [at |-> place, item |-> i, value |-> v, time |-> 0]

Idle == At("idle", NoItem, NoValue)

TypeOK ==
    /\ source \in [Items -> Values]
    /\ entries \in [Items -> Entry \cup {NoEntry}]
    /\ reading \in [Callers -> Reading]
    /\ gone \in [Items -> [Values -> 0..Horizon]]

Init ==
    /\ source \in [Items -> Values]
    /\ entries = [i \in Items |-> NoEntry]
    /\ reading = [c \in Callers |-> Idle]
    /\ gone = [i \in Items |->
                 [v \in Values |-> IF v = source[i] THEN 0 ELSE Horizon]]

-----------------------------------------------------------------------------

\* The operator edits the configuration.
Change(i, v) ==
    /\ source' = [source EXCEPT ![i] = v]
    /\ gone' = [gone EXCEPT ![i][v] = 0]
    /\ UNCHANGED <<entries, reading>>

\* Mutant: entries never expire.
KeptForever(i) == entries[i] # NoEntry

Kept(i) == entries[i] # NoEntry /\ entries[i].age <= Ttl

Moves(c, r) == reading' = [reading EXCEPT ![c] = r]

\* Mutant: every hit renews the entry.
HitRenewing(c, i) ==
    /\ reading[c].at = "idle"
    /\ Kept(i)
    /\ Moves(c, At("returned", i, entries[i].value))
    /\ entries' = [entries EXCEPT ![i].age = 0]
    /\ UNCHANGED <<source, gone>>

Hit(c, i) ==
    /\ reading[c].at = "idle"
    /\ Kept(i)
    /\ Moves(c, At("returned", i, entries[i].value))
    /\ UNCHANGED <<source, entries, gone>>

Miss(c, i) ==
    /\ reading[c].at = "idle"
    /\ ~Kept(i)
    /\ Moves(c, At("asking", i, NoValue))
    /\ UNCHANGED <<source, entries, gone>>

\* The provider reads the item; the answer is still to travel.
SourceAnswers(c) ==
    /\ reading[c].at = "asking"
    /\ reading' = [reading EXCEPT ![c].at = "answered",
                                  ![c].value = source[reading[c].item]]
    /\ UNCHANGED <<source, entries, gone>>

\* The answer is stored over whatever is there, stamped with its arrival.
Insert(c) ==
    LET r == reading[c] IN
    /\ r.at = "answered"
    /\ entries' = [entries EXCEPT ![r.item] = [age |-> 0, value |-> r.value]]
    /\ Moves(c, At("returned", r.item, r.value))
    /\ UNCHANGED <<source, gone>>

\* An error of the provider is not cached; a dropped request leaves no more.
ReadEnds(c) ==
    /\ reading[c].at \in Waiting
    /\ Moves(c, Idle)
    /\ UNCHANGED <<source, entries, gone>>

\* The caller takes the result.
Return(c) ==
    /\ reading[c].at = "returned"
    /\ Moves(c, Idle)
    /\ UNCHANGED <<source, entries, gone>>

\* The process ends, and another starts with nothing in memory.
Restart ==
    /\ entries' = [i \in Items |-> NoEntry]
    /\ reading' = [c \in Callers |-> Idle]
    /\ UNCHANGED <<source, gone>>

\* A moment that has reached its limit stays there.
Later(t, limit) == IF t < limit THEN t + 1 ELSE t

Tick ==
    /\ \A c \in Callers :
          /\ reading[c].at # "returned"
          /\ reading[c].at \in Waiting => reading[c].time < MaxRead
    /\ entries' = [i \in Items |->
          IF entries[i] = NoEntry THEN NoEntry
          ELSE [entries[i] EXCEPT !.age = Later(@, Ttl + 1)]]
    /\ reading' = [c \in Callers |->
          IF reading[c].at \in Waiting
          THEN [reading[c] EXCEPT !.time = @ + 1] ELSE reading[c]]
    /\ gone' = [i \in Items |-> [v \in Values |->
          IF v = source[i] THEN gone[i][v] ELSE Later(gone[i][v], Horizon)]]
    /\ UNCHANGED source

Look(c, i) == Hit(c, i) \/ Miss(c, i)

Next ==
    \/ \E i \in Items, v \in Values : Change(i, v)
    \/ \E c \in Callers, i \in Items : Look(c, i)
    \/ \E c \in Callers :
          SourceAnswers(c) \/ Insert(c) \/ ReadEnds(c) \/ Return(c)
    \/ Restart
    \/ Tick

Spec == Init /\ [][Next]_vars

-----------------------------------------------------------------------------

ReadOf(c) ==
    IF reading[c].at = "returned"
    THEN [item |-> reading[c].item, value |-> reading[c].value]
    ELSE NoRead

Service == INSTANCE StaleReads WITH
    Readers <- Callers, read <- [c \in Callers |-> ReadOf(c)]

\* What a lookup returns, found or not, is what the provider held within the
\* time to live and the time of a read, although a slow reader stores an old
\* value over a newer one, stamped as new (cached.rs:84-133).
ImplementsStaleReads == Service!Spec
=============================================================================
