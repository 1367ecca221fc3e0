--------------------------- MODULE JwksCacheProofs ---------------------------
(* Proofs about JwksCache, for any callers, issuers, keys and limits.        *)
(*                                                                           *)
(* A key set is on its way to a caller in three places: an answer that       *)
(* travels, an entry, and a result in hand. The invariant bounds its age in  *)
(* each of them. Of the backoff it says that a fetch that was beaten began   *)
(* no later than the entry that beat it was stored; so the failure it leaves *)
(* lapses before that entry does, and whoever meets the failure looked into  *)
(* the entries in the moment in which the entry was stored, just before.     *)
EXTENDS JwksCache, TLAPS

PublishedHeld == \A i \in Issuers : gone[i][published[i]] = 0

Placed(c) == lookup[c].at # "idle" => lookup[c].issuer \in Issuers

\* An answer was published since the request began.
Travels(c) ==
    lookup[c].at = "answered" =>
        gone[lookup[c].issuer][lookup[c].keys] <= lookup[c].time

InHand(c) ==
    lookup[c].at \in {"stored", "returned"} =>
        gone[lookup[c].issuer][lookup[c].keys] <= MaxStale

\* The entry that beat a fetch was stored while the fetch ran.
BeatenBy(c) ==
    (lookup[c].at \in Waiting /\ lookup[c].beaten) =>
        /\ entries[lookup[c].issuer] # NoEntry
        /\ entries[lookup[c].issuer].age <= lookup[c].time

\* An entry in use, for one who found none, was stored in this moment.
FoundNone(c) ==
    (lookup[c].at \in {"missed", "backedOff"} /\ Fresh(lookup[c].issuer)) =>
        entries[lookup[c].issuer].age = 0

\* The entry of one that has just stored it is in use.
Kept(c) == lookup[c].at = "stored" => Fresh(lookup[c].issuer)

CallerOK(c) ==
    /\ Placed(c) /\ Travels(c) /\ InHand(c)
    /\ BeatenBy(c) /\ FoundNone(c) /\ Kept(c)

Stored(i) ==
    Fresh(i) => gone[i][entries[i].keys] <= entries[i].age + MaxFetch

\* The entry outlives the failure of a fetch that it beat.
Outlives(i) ==
    vain[i] => /\ entries[i] # NoEntry
               /\ entries[i].age <= failures[i] + MaxFetch
               /\ BackingOff(i)

JwksInv ==
    /\ Typed
    /\ PublishedHeld
    /\ \A c \in Callers : CallerOK(c)
    /\ \A i \in Issuers : Stored(i) /\ Outlives(i)

-----------------------------------------------------------------------------
(* Records.                                                                  *)

LEMMA Bounds ==
    /\ Ttl \in Nat /\ FailureTtl \in Nat /\ MaxFetch \in Nat /\ Horizon \in Nat
    /\ FailureTtl >= 1 /\ MaxFetch + FailureTtl <= Ttl
    /\ MaxStale = Ttl - 1 + MaxFetch /\ MaxStale \in Nat /\ MaxFetch <= MaxStale
  BY JwksAssumption DEF MaxStale

LEMMA EntryFields ==
    ASSUME NEW e \in Entry \cup {NoEntry}, e # NoEntry
    PROVE  e.age \in 0..Ttl /\ e.keys \in KeySets
  BY DEF Entry

LEMMA EntryBuilt ==
    ASSUME NEW n \in 0..Ttl, NEW S \in KeySets
    PROVE  /\ [age |-> n, keys |-> S] \in Entry
           /\ [age |-> n, keys |-> S] # NoEntry
  BY JwksAssumption DEF Entry, KeySets

LEMMA Aged ==
    ASSUME NEW e \in Entry, NEW n
    PROVE  [e EXCEPT !.age = n] = [age |-> n, keys |-> e.keys]
  BY DEF Entry

Places == {"idle", "missed", "stored", "returned", "failed", "backedOff",
           "fetching", "answered"}

LEMMA LookupFields ==
    ASSUME NEW l \in Lookup
    PROVE  /\ l.at \in Places
           /\ l.issuer \in Issuers \cup {NoIssuer}
           /\ l.keys \in KeySets
           /\ l.time \in 0..MaxFetch
           /\ l.beaten \in BOOLEAN
  BY DEF Lookup, Computing, Waiting, Places

LEMMA AtBuilt ==
    ASSUME NEW place \in Places, NEW i \in Issuers \cup {NoIssuer},
           NEW S \in KeySets
    PROVE  /\ At(place, i, S) \in Lookup
           /\ At(place, i, S).at = place
           /\ At(place, i, S).issuer = i
           /\ At(place, i, S).keys = S
           /\ At(place, i, S).time = 0
           /\ ~At(place, i, S).beaten
  BY Bounds DEF At, Lookup, Computing, Waiting, Places

LEMMA NoKeys == {} \in KeySets
  BY DEF KeySets

LEMMA IdleBuilt == Idle \in Lookup /\ Idle.at = "idle"
  BY AtBuilt, NoKeys DEF Idle, Places

\* A caller that moves is the only one.
LEMMA MovesOne ==
    ASSUME lookup \in [Callers -> Lookup], NEW c \in Callers,
           NEW l \in Lookup, Moves(c, l)
    PROVE  /\ lookup' \in [Callers -> Lookup]
           /\ lookup'[c] = l
           /\ \A d \in Callers : d # c => lookup'[d] = lookup[d]
  BY DEF Moves

LEMMA LaterBounds ==
    ASSUME NEW limit \in Nat, NEW t \in 0..limit
    PROVE  /\ Later(t, limit) \in 0..limit
           /\ Later(t, limit) <= t + 1
           /\ Later(t, limit) = IF t = limit THEN t ELSE t + 1
           /\ t < limit => Later(t, limit) = t + 1
           /\ Later(t, limit) < limit => Later(t, limit) = t + 1
  BY DEF Later

-----------------------------------------------------------------------------
(* The invariant.                                                            *)

LEMMA InvInit == Init => JwksInv
  <1> SUFFICES ASSUME Init PROVE JwksInv
    OBVIOUS
  <1>1. \A c \in Callers : lookup[c] = Idle
    BY DEF Init
  <1>2. Typed
    <2>1. lookup \in [Callers -> Lookup]
      BY IdleBuilt DEF Init
    <2>2. gone \in [Issuers -> [KeySets -> 0..Horizon]]
      BY Bounds DEF Init
    <2>3. failures \in [Issuers -> 0..FailureTtl]
      BY Bounds DEF Init
    <2> QED BY <2>1, <2>2, <2>3 DEF Init, Typed
  <1>3. PublishedHeld
    BY DEF Init, PublishedHeld
  <1>4. \A c \in Callers : CallerOK(c)
    BY <1>1, IdleBuilt
    DEF CallerOK, Placed, Travels, InHand, BeatenBy, FoundNone, Kept, Waiting
  <1>5. \A i \in Issuers : Stored(i) /\ Outlives(i)
    BY DEF Init, Stored, Outlives, Fresh
  <1> QED BY <1>2, <1>3, <1>4, <1>5 DEF JwksInv

\* A step of one caller that changes neither the issuers nor the caches.
LEMMA InvCaller ==
    ASSUME JwksInv, NEW c \in Callers,
           lookup' \in [Callers -> Lookup],
           \A d \in Callers : d # c => lookup'[d] = lookup[d],
           UNCHANGED <<published, up, entries, failures, gone, vain>>,
           CallerOK(c)'
    PROVE  JwksInv'
  <1>1. Typed'
    BY DEF JwksInv, Typed
  <1>2. PublishedHeld'
    BY DEF JwksInv, PublishedHeld
  <1>3. \A d \in Callers : CallerOK(d)'
    <2> SUFFICES ASSUME NEW d \in Callers PROVE CallerOK(d)'
      OBVIOUS
    <2>1. CASE d = c
      BY <2>1
    <2>2. CASE d # c
      BY <2>2 DEF JwksInv, CallerOK, Placed, Travels, InHand, BeatenBy,
                  FoundNone, Kept, Fresh
    <2> QED BY <2>1, <2>2
  <1>4. \A i \in Issuers : (Stored(i) /\ Outlives(i))'
    BY DEF JwksInv, Stored, Outlives, Fresh, BackingOff
  <1> QED BY <1>1, <1>2, <1>3, <1>4 DEF JwksInv

\* In particular one to a place where nothing is held.
LEMMA InvMoves ==
    ASSUME JwksInv, NEW c \in Callers, NEW i \in Issuers \cup {NoIssuer},
           NEW place \in Places,
           place \notin {"answered", "stored", "returned"},
           place # "idle" => i \in Issuers,
           place \in {"missed", "backedOff"} =>
               (Fresh(i) => entries[i].age = 0),
           Moves(c, At(place, i, {})),
           UNCHANGED <<published, up, entries, failures, gone, vain>>
    PROVE  JwksInv'
  <1>1. /\ At(place, i, {}) \in Lookup
        /\ At(place, i, {}).at = place
        /\ At(place, i, {}).issuer = i
        /\ ~At(place, i, {}).beaten
    BY AtBuilt, NoKeys
  <1>2. /\ lookup' \in [Callers -> Lookup]
        /\ lookup'[c] = At(place, i, {})
        /\ \A d \in Callers : d # c => lookup'[d] = lookup[d]
    BY <1>1, MovesOne DEF JwksInv, Typed
  <1>3. lookup'[c].at = place /\ lookup'[c].issuer = i /\ ~lookup'[c].beaten
    BY <1>1, <1>2
  <1>4. CallerOK(c)'
    BY <1>3 DEF CallerOK, Placed, Travels, InHand, BeatenBy, FoundNone, Kept, Fresh
  <1> QED BY <1>2, <1>4, InvCaller

LEMMA InvPublish ==
    ASSUME JwksInv, NEW i \in Issuers, NEW S \in KeySets, Publish(i, S)
    PROVE  JwksInv'
  <1> USE DEF JwksInv
  <1>t. Typed /\ PublishedHeld
    OBVIOUS
  <1>1. /\ gone' \in [Issuers -> [KeySets -> 0..Horizon]]
        /\ gone'[i][S] = 0
        /\ \A j \in Issuers, R \in KeySets :
              gone'[j][R] \in 0..gone[j][R] /\ gone[j][R] \in Nat
    <2>1. \A j \in Issuers, R \in KeySets :
             /\ gone[j][R] \in 0..Horizon
             /\ gone'[j][R] = IF j = i /\ R = S THEN 0 ELSE gone[j][R]
      BY <1>t DEF Publish, Typed
    <2>2. gone' \in [Issuers -> [KeySets -> 0..Horizon]]
      BY <1>t, Bounds DEF Publish, Typed
    <2> QED BY <2>1, <2>2
  <1>2. /\ published' \in [Issuers -> KeySets]
        /\ published'[i] = S
        /\ \A j \in Issuers : j # i => published'[j] = published[j]
    BY <1>t DEF Publish, Typed
  <1>3. UNCHANGED <<up, entries, failures, lookup, vain>>
    BY DEF Publish, cacheVars
  <1>4. Typed'
    BY <1>t, <1>1, <1>2, <1>3 DEF Typed
  <1>5. PublishedHeld'
    <2> SUFFICES ASSUME NEW j \in Issuers PROVE gone'[j][published'[j]] = 0
      BY DEF PublishedHeld
    <2>1. CASE j = i
      BY <2>1, <1>1, <1>2
    <2>2. CASE j # i
      <3>1. gone[j][published[j]] = 0 /\ published[j] \in KeySets
        BY <1>t DEF PublishedHeld, Typed
      <3>2. gone'[j][published[j]] \in 0..0
        BY <3>1, <1>1
      <3> QED BY <2>2, <3>2, <1>2
    <2> QED BY <2>1, <2>2
  <1>6. \A c \in Callers : CallerOK(c)'
    <2> SUFFICES ASSUME NEW c \in Callers PROVE CallerOK(c)'
      OBVIOUS
    <2>1. (Placed(c) /\ BeatenBy(c) /\ FoundNone(c) /\ Kept(c))'
      BY <1>3 DEF CallerOK, Placed, BeatenBy, FoundNone, Kept, Fresh
    <2>2. CASE lookup[c].at \in {"answered", "stored", "returned"}
      <3>1. lookup[c].issuer \in Issuers
        BY <2>2 DEF CallerOK, Placed
      <3>2. lookup[c].keys \in KeySets /\ lookup[c].time \in Nat
        BY <1>t, LookupFields DEF Typed
      <3>3. /\ gone'[lookup[c].issuer][lookup[c].keys]
                 <= gone[lookup[c].issuer][lookup[c].keys]
            /\ gone'[lookup[c].issuer][lookup[c].keys] \in Nat
            /\ gone[lookup[c].issuer][lookup[c].keys] \in Nat
        BY <3>1, <3>2, <1>1
      <3>4. (Travels(c) /\ InHand(c))'
        BY <3>2, <3>3, <1>3, Bounds DEF CallerOK, Travels, InHand
      <3> QED BY <2>1, <3>4 DEF CallerOK
    <2>3. CASE lookup[c].at \notin {"answered", "stored", "returned"}
      BY <2>1, <2>3, <1>3 DEF CallerOK, Travels, InHand
    <2> QED BY <2>2, <2>3
  <1>7. \A j \in Issuers : (Stored(j) /\ Outlives(j))'
    <2> SUFFICES ASSUME NEW j \in Issuers PROVE (Stored(j) /\ Outlives(j))'
      OBVIOUS
    <2>1. Outlives(j)'
      BY <1>3 DEF Outlives, BackingOff
    <2>2. Stored(j)'
      <3> SUFFICES ASSUME Fresh(j)
                   PROVE  gone'[j][entries[j].keys] <= entries[j].age + MaxFetch
        BY <1>3 DEF Stored, Fresh
      <3>1. entries[j].age \in 0..Ttl /\ entries[j].keys \in KeySets
        BY <1>t, EntryFields DEF Typed, Fresh
      <3>2. gone[j][entries[j].keys] <= entries[j].age + MaxFetch
        BY DEF Stored
      <3> QED BY <3>1, <3>2, <1>1, Bounds
    <2> QED BY <2>1, <2>2
  <1> QED BY <1>4, <1>5, <1>6, <1>7

LEMMA InvHit ==
    ASSUME JwksInv, NEW c \in Callers, NEW i \in Issuers, Hit(c, i)
    PROVE  /\ JwksInv'
           /\ entries[i].keys \in KeySets
           /\ gone[i][entries[i].keys] <= MaxStale
  <1> USE DEF JwksInv
  <1> DEFINE l == At("returned", i, entries[i].keys)
  <1>t. Typed
    OBVIOUS
  <1>1. /\ entries[i].age \in 0..Ttl /\ entries[i].keys \in KeySets
        /\ entries[i].age < Ttl
        /\ gone[i][entries[i].keys] <= entries[i].age + MaxFetch
    BY <1>t, EntryFields DEF Hit, Fresh, Typed, Stored
  <1>2. gone[i][entries[i].keys] \in Nat
    BY <1>1, <1>t, Bounds DEF Typed
  <1>3. gone[i][entries[i].keys] <= MaxStale
    BY <1>1, <1>2, Bounds
  <1>4. /\ l \in Lookup /\ l.at = "returned" /\ l.issuer = i
        /\ l.keys = entries[i].keys
    BY <1>1, AtBuilt DEF Places
  <1>5. /\ lookup' \in [Callers -> Lookup]
        /\ lookup'[c] = l
        /\ \A d \in Callers : d # c => lookup'[d] = lookup[d]
    BY <1>t, <1>4, MovesOne DEF Hit, Typed
  <1>6. UNCHANGED <<published, up, entries, failures, gone, vain>>
    BY DEF Hit
  <1>7. CallerOK(c)'
    <2> HIDE DEF l
    <2> QED BY <1>3, <1>4, <1>5, <1>6
        DEF CallerOK, Placed, Travels, InHand, BeatenBy, FoundNone, Kept, Waiting
  <1> QED BY <1>1, <1>3, <1>5, <1>6, <1>7, InvCaller

LEMMA InvAnswers ==
    ASSUME JwksInv, NEW c \in Callers, IssuerAnswers(c)
    PROVE  /\ JwksInv'
           /\ lookup'[c].at = "answered" /\ lookup'[c].time = lookup[c].time
           /\ \A d \in Callers : d # c => lookup'[d] = lookup[d]
  <1> USE DEF JwksInv
  <1> DEFINE i == lookup[c].issuer
             l == lookup[c]
             q == [l EXCEPT !.at = "answered"]
             r == [q EXCEPT !.keys = published[i]]
  <1>t. Typed /\ PublishedHeld
    OBVIOUS
  <1>1. /\ i \in Issuers /\ published[i] \in KeySets
        /\ gone[i][published[i]] = 0
        /\ l \in Lookup /\ l.at = "fetching" /\ l.time \in 0..MaxFetch
    BY <1>t, LookupFields
    DEF IssuerAnswers, CallerOK, Placed, Typed, PublishedHeld
  <1>2. /\ q \in Lookup /\ q.at = "answered" /\ q.issuer = i
        /\ q.time = l.time /\ q.beaten = l.beaten
    BY <1>1 DEF Lookup, Waiting
  <1>3. /\ r \in Lookup /\ r.at = "answered" /\ r.issuer = i
        /\ r.keys = published[i] /\ r.time = l.time /\ r.beaten = l.beaten
    <2> HIDE DEF q, l
    <2> QED BY <1>1, <1>2 DEF Lookup
  <1>4. lookup' = [lookup EXCEPT ![c] = r]
    <2>1. lookup' = [lookup EXCEPT ![c] =
             [lookup[c] EXCEPT !.at = "answered", !.keys = published[i]]]
      BY <1>t DEF IssuerAnswers, Typed
    <2>2. [lookup[c] EXCEPT !.at = "answered", !.keys = published[i]] = r
      BY Zenon
    <2> QED BY <2>1, <2>2
  <1>5. /\ lookup' \in [Callers -> Lookup]
        /\ lookup'[c] = r
        /\ \A d \in Callers : d # c => lookup'[d] = lookup[d]
    BY <1>t, <1>3, <1>4 DEF Typed
  <1>6. UNCHANGED <<published, up, entries, failures, gone, vain>>
    BY DEF IssuerAnswers
  <1>7. CallerOK(c)'
    <2>1. (Placed(c) /\ Travels(c) /\ InHand(c) /\ FoundNone(c) /\ Kept(c))'
      <3> HIDE DEF r, q, l, i
      <3> QED BY <1>1, <1>3, <1>5, <1>6 DEF Placed, Travels, InHand, FoundNone,
                                             Kept
    <2>2. BeatenBy(c)'
      BY <1>1, <1>3, <1>5, <1>6 DEF CallerOK, BeatenBy, Waiting
    <2> QED BY <2>1, <2>2 DEF CallerOK
  <1> QED BY <1>3, <1>5, <1>6, <1>7, InvCaller

LEMMA InvStore ==
    ASSUME JwksInv, NEW c \in Callers, StoreEntry(c)
    PROVE  /\ JwksInv'
           /\ lookup'[c].at = "stored"
           /\ \A d \in Callers : d # c =>
                 /\ lookup'[d].at = lookup[d].at
                 /\ lookup'[d].issuer = lookup[d].issuer
                 /\ lookup'[d].keys = lookup[d].keys
                 /\ lookup'[d].time = lookup[d].time
  <1> USE DEF JwksInv
  <1> DEFINE i == lookup[c].issuer
             S == lookup[c].keys
  <1>t. Typed /\ PublishedHeld
    OBVIOUS
  <1>1. /\ i \in Issuers /\ S \in KeySets
        /\ gone[i][S] <= lookup[c].time /\ lookup[c].time \in 0..MaxFetch
    BY <1>t, LookupFields DEF StoreEntry, CallerOK, Placed, Travels, Typed
  <1>2. gone[i][S] \in Nat /\ gone[i][S] <= MaxFetch
    BY <1>1, <1>t, Bounds DEF Typed
  <1>3. /\ entries' \in [Issuers -> Entry \cup {NoEntry}]
        /\ entries'[i] = [age |-> 0, keys |-> S] /\ entries'[i] # NoEntry
        /\ \A j \in Issuers : j # i => entries'[j] = entries[j]
    BY <1>1, <1>t, EntryBuilt, Bounds DEF StoreEntry, Typed
  <1>4. /\ vain' \in [Issuers -> BOOLEAN]
        /\ vain'[i] = BackingOff(i)
        /\ \A j \in Issuers : j # i => vain'[j] = vain[j]
    BY <1>1, <1>t DEF StoreEntry, Typed, BackingOff
  <1>5. UNCHANGED <<published, up, failures, gone>>
    BY DEF StoreEntry
  <1>6. /\ lookup'[c] \in Lookup
        /\ lookup'[c].at = "stored" /\ lookup'[c].issuer = i
        /\ lookup'[c].keys = S
    <2>1. lookup'[c] = At("stored", i, S)
      BY DEF StoreEntry
    <2> QED BY <2>1, <1>1, AtBuilt DEF Places
  <1>7. ASSUME NEW d \in Callers, d # c
        PROVE  /\ lookup'[d] \in Lookup
               /\ lookup'[d].at = lookup[d].at
               /\ lookup'[d].issuer = lookup[d].issuer
               /\ lookup'[d].keys = lookup[d].keys
               /\ lookup'[d].time = lookup[d].time
               /\ lookup'[d].beaten =>
                     (lookup[d].beaten \/ lookup[d].issuer = i)
    <2>1. lookup[d] \in Lookup
      BY <1>t DEF Typed
    <2>2. CASE InFlight(d, i)
      <3>1. lookup'[d] = [lookup[d] EXCEPT !.beaten = TRUE]
        BY <1>7, <2>2 DEF StoreEntry
      <3>2. lookup[d].issuer = i
        BY <2>2 DEF InFlight
      <3> QED BY <2>1, <3>1, <3>2 DEF Lookup
    <2>3. CASE ~InFlight(d, i)
      <3>1. lookup'[d] = lookup[d]
        BY <1>7, <2>3 DEF StoreEntry
      <3> QED BY <2>1, <3>1
    <2> QED BY <2>2, <2>3
  <1> HIDE DEF i, S
  <1>8. lookup' \in [Callers -> Lookup]
    <2>1. \A d \in Callers : lookup'[d] \in Lookup
      BY <1>6, <1>7
    <2>2. lookup' = [d \in Callers |-> lookup'[d]]
      BY DEF StoreEntry
    <2> QED BY <2>1, <2>2
  <1>9. Typed'
    BY <1>t, <1>3, <1>4, <1>5, <1>8 DEF Typed
  <1>10. PublishedHeld'
    BY <1>t, <1>5 DEF PublishedHeld
  <1>11. \A d \in Callers : CallerOK(d)'
    <2> SUFFICES ASSUME NEW d \in Callers PROVE CallerOK(d)'
      OBVIOUS
    <2>1. CASE d = c
      <3>1. gone'[i][S] <= MaxStale
        BY <1>2, <1>5, Bounds
      <3>2. Kept(c)'
        BY <1>3, <1>6, Bounds DEF Kept, Fresh
      <3> QED BY <2>1, <3>1, <3>2, <1>1, <1>6
          DEF CallerOK, Placed, Travels, InHand, BeatenBy, FoundNone, Waiting
    <2>2. CASE d # c
      <3>1. (Placed(d) /\ Travels(d) /\ InHand(d))'
        BY <2>2, <1>5, <1>7 DEF CallerOK, Placed, Travels, InHand
      <3>2. CASE lookup[d].issuer = i
        <4>1. entries'[lookup'[d].issuer] # NoEntry
              /\ entries'[lookup'[d].issuer].age = 0
              /\ 0 < Ttl
          BY <2>2, <3>2, <1>3, <1>7, Bounds
        <4>2. lookup'[d].time \in Nat
          BY <2>2, <1>7, LookupFields
        <4> QED BY <3>1, <4>1, <4>2 DEF CallerOK, BeatenBy, FoundNone, Kept, Fresh
      <3>3. CASE lookup[d].issuer # i
        <4>1. lookup[d].at # "idle" =>
                entries'[lookup[d].issuer] = entries[lookup[d].issuer]
          BY <3>3, <1>3 DEF CallerOK, Placed
        <4>2. (BeatenBy(d) /\ FoundNone(d) /\ Kept(d))'
          BY <2>2, <3>3, <4>1, <1>7
          DEF CallerOK, BeatenBy, FoundNone, Kept, Fresh, Waiting
        <4> QED BY <3>1, <4>2 DEF CallerOK
      <3> QED BY <3>2, <3>3
    <2> QED BY <2>1, <2>2
  <1>12. \A j \in Issuers : (Stored(j) /\ Outlives(j))'
    <2> SUFFICES ASSUME NEW j \in Issuers PROVE (Stored(j) /\ Outlives(j))'
      OBVIOUS
    <2>1. CASE j = i
      <3>1. failures[j] \in Nat
        BY <1>t DEF Typed
      <3>2. Outlives(j)'
        BY <2>1, <3>1, <1>3, <1>4, <1>5, Bounds DEF Outlives, BackingOff
      <3>3. Stored(j)'
        BY <2>1, <1>2, <1>3, <1>5, Bounds DEF Stored
      <3> QED BY <3>2, <3>3
    <2>2. CASE j # i
      BY <2>2, <1>3, <1>4, <1>5 DEF Stored, Outlives, Fresh, BackingOff
    <2> QED BY <2>1, <2>2
  <1> QED BY <1>6, <1>7, <1>9, <1>10, <1>11, <1>12

\* A step of one caller that changes its place and the failures.
LEMMA InvFailure ==
    ASSUME JwksInv, NEW c \in Callers, NEW i \in Issuers,
           lookup' \in [Callers -> Lookup],
           \A d \in Callers : d # c => lookup'[d] = lookup[d],
           NEW t \in 0..FailureTtl, failures' = [failures EXCEPT ![i] = t],
           NEW b \in BOOLEAN, vain' = [vain EXCEPT ![i] = b],
           b => /\ entries[i] # NoEntry
                /\ entries[i].age <= t + MaxFetch
                /\ t < FailureTtl,
           UNCHANGED <<published, up, entries, gone>>,
           CallerOK(c)'
    PROVE  JwksInv'
  <1> USE DEF JwksInv
  <1>t. Typed
    OBVIOUS
  <1>1. /\ failures' \in [Issuers -> 0..FailureTtl]
        /\ failures'[i] = t
        /\ \A j \in Issuers : j # i => failures'[j] = failures[j]
    BY <1>t DEF Typed
  <1>2. /\ vain' \in [Issuers -> BOOLEAN]
        /\ vain'[i] = b
        /\ \A j \in Issuers : j # i => vain'[j] = vain[j]
    BY <1>t DEF Typed
  <1>3. Typed'
    BY <1>t, <1>1, <1>2 DEF Typed
  <1>4. PublishedHeld'
    BY DEF PublishedHeld
  <1>5. \A d \in Callers : CallerOK(d)'
    <2> SUFFICES ASSUME NEW d \in Callers PROVE CallerOK(d)'
      OBVIOUS
    <2>1. CASE d = c
      BY <2>1
    <2>2. CASE d # c
      BY <2>2 DEF CallerOK, Placed, Travels, InHand, BeatenBy, FoundNone, Kept, Fresh
    <2> QED BY <2>1, <2>2
  <1>6. \A j \in Issuers : (Stored(j) /\ Outlives(j))'
    <2> SUFFICES ASSUME NEW j \in Issuers PROVE (Stored(j) /\ Outlives(j))'
      OBVIOUS
    <2>1. Stored(j)'
      BY DEF Stored, Fresh
    <2>2. CASE j = i
      <3>1. Outlives(j)'
        BY <2>2, <1>1, <1>2 DEF Outlives, BackingOff
      <3> QED BY <2>1, <3>1
    <2>3. CASE j # i
      <3>1. Outlives(j)'
        BY <2>3, <1>1, <1>2 DEF Outlives, BackingOff
      <3> QED BY <2>1, <3>1
    <2> QED BY <2>2, <2>3
  <1> QED BY <1>3, <1>4, <1>5, <1>6

LEMMA InvClear ==
    ASSUME JwksInv, NEW c \in Callers, ClearFailure(c)
    PROVE  /\ JwksInv'
           /\ lookup[c].issuer \in Issuers /\ lookup[c].keys \in KeySets
           /\ gone[lookup[c].issuer][lookup[c].keys] <= MaxStale
  <1> USE DEF JwksInv
  <1> DEFINE l == At("returned", lookup[c].issuer, lookup[c].keys)
  <1>t. Typed
    OBVIOUS
  <1>1. /\ lookup[c].issuer \in Issuers /\ lookup[c].keys \in KeySets
        /\ gone[lookup[c].issuer][lookup[c].keys] <= MaxStale
    BY <1>t, LookupFields DEF ClearFailure, CallerOK, Placed, InHand, Typed
  <1>2. /\ l \in Lookup /\ l.at = "returned"
        /\ l.issuer = lookup[c].issuer /\ l.keys = lookup[c].keys
    BY <1>1, AtBuilt DEF Places
  <1>3. /\ lookup' \in [Callers -> Lookup]
        /\ lookup'[c] = l
        /\ \A d \in Callers : d # c => lookup'[d] = lookup[d]
    BY <1>t, <1>2, MovesOne DEF ClearFailure, Typed
  <1>4. /\ failures' = [failures EXCEPT ![lookup[c].issuer] = FailureTtl]
        /\ vain' = [vain EXCEPT ![lookup[c].issuer] = FALSE]
        /\ UNCHANGED <<published, up, entries, gone>>
    BY DEF ClearFailure
  <1>5. CallerOK(c)'
    <2> HIDE DEF l
    <2> QED BY <1>1, <1>2, <1>3, <1>4
        DEF CallerOK, Placed, Travels, InHand, BeatenBy, FoundNone, Kept, Waiting
  <1>6. FailureTtl \in 0..FailureTtl /\ FALSE \in BOOLEAN
    BY Bounds
  <1>7. JwksInv'
    <2> HIDE DEF l, JwksInv
    <2> QED BY <1>1, <1>3, <1>4, <1>5, <1>6, InvFailure
  <1> QED BY <1>1, <1>7

LEMMA InvFails ==
    ASSUME JwksInv, NEW c \in Callers, FetchFails(c)
    PROVE  JwksInv'
  <1> USE DEF JwksInv
  <1> DEFINE l == At("failed", lookup[c].issuer, {})
  <1>t. Typed
    OBVIOUS
  <1>1. /\ lookup[c].issuer \in Issuers /\ lookup[c].beaten \in BOOLEAN
        /\ lookup[c].time \in 0..MaxFetch
    BY <1>t, LookupFields DEF FetchFails, CallerOK, Placed, Typed, Waiting
  <1>2. /\ l \in Lookup /\ l.at = "failed"
        /\ l.issuer = lookup[c].issuer
    BY <1>1, AtBuilt, NoKeys DEF Places
  <1>3. /\ lookup' \in [Callers -> Lookup]
        /\ lookup'[c] = l
        /\ \A d \in Callers : d # c => lookup'[d] = lookup[d]
    BY <1>t, <1>2, MovesOne DEF FetchFails, Typed
  <1>4. /\ failures' = [failures EXCEPT ![lookup[c].issuer] = 0]
        /\ vain' = [vain EXCEPT ![lookup[c].issuer] = lookup[c].beaten]
        /\ UNCHANGED <<published, up, entries, gone>>
    BY DEF FetchFails
  <1>5. CallerOK(c)'
    <2> HIDE DEF l
    <2> QED BY <1>1, <1>2, <1>3
        DEF CallerOK, Placed, Travels, InHand, BeatenBy, FoundNone, Kept, Waiting
  <1>6. lookup[c].beaten =>
          /\ entries[lookup[c].issuer] # NoEntry
          /\ entries[lookup[c].issuer].age <= 0 + MaxFetch
          /\ 0 < FailureTtl
    <2> SUFFICES ASSUME lookup[c].beaten
                 PROVE  /\ entries[lookup[c].issuer] # NoEntry
                        /\ entries[lookup[c].issuer].age <= 0 + MaxFetch
                        /\ 0 < FailureTtl
      OBVIOUS
    <2>1. /\ entries[lookup[c].issuer] # NoEntry
          /\ entries[lookup[c].issuer].age <= lookup[c].time
      BY DEF FetchFails, CallerOK, BeatenBy
    <2>2. entries[lookup[c].issuer].age \in Nat
      BY <1>1, <1>t, <2>1, EntryFields DEF Typed
    <2> QED BY <1>1, <2>1, <2>2, Bounds
  <1>7. 0 \in 0..FailureTtl
    BY Bounds
  <1> QED
    <2> HIDE DEF l, JwksInv
    <2> QED BY <1>1, <1>3, <1>4, <1>5, <1>6, <1>7, InvFailure

LEMMA InvRestart ==
    ASSUME JwksInv, Restart
    PROVE  JwksInv'
  <1> USE DEF JwksInv
  <1>t. Typed /\ PublishedHeld
    OBVIOUS
  <1>1. Typed'
    BY <1>t, IdleBuilt, Bounds DEF Restart, Typed
  <1>2. PublishedHeld'
    BY <1>t DEF Restart, PublishedHeld
  <1>3. \A c \in Callers : CallerOK(c)'
    BY IdleBuilt DEF Restart, CallerOK, Placed, Travels, InHand, BeatenBy,
                     FoundNone, Kept, Waiting
  <1>4. \A i \in Issuers : (Stored(i) /\ Outlives(i))'
    BY DEF Restart, Stored, Outlives, Fresh
  <1> QED BY <1>1, <1>2, <1>3, <1>4

\* What a moment does to the history of a key set,
LEMMA TickGone ==
    ASSUME Typed, Tick
    PROVE  /\ gone' \in [Issuers -> [KeySets -> 0..Horizon]]
           /\ \A i \in Issuers, S \in KeySets :
                 /\ gone[i][S] \in Nat /\ gone'[i][S] \in Nat
                 /\ gone'[i][S] <= gone[i][S] + 1
                 /\ S = published[i] => gone'[i][S] = gone[i][S]
  <1>1. \A i \in Issuers, S \in KeySets : gone[i][S] \in 0..Horizon
    BY DEF Typed
  <1>2. \A i \in Issuers, S \in KeySets :
           /\ Later(gone[i][S], Horizon) \in 0..Horizon
           /\ Later(gone[i][S], Horizon) <= gone[i][S] + 1
    BY <1>1, LaterBounds, Bounds
  <1> QED BY <1>1, <1>2 DEF Tick

\* to an entry that is still in use,
LEMMA TickEntries ==
    ASSUME Typed, Tick
    PROVE  /\ entries' \in [Issuers -> Entry \cup {NoEntry}]
           /\ \A i \in Issuers : entries[i] # NoEntry =>
                 /\ entries'[i] # NoEntry
                 /\ entries'[i].keys = entries[i].keys
                 /\ entries[i].keys \in KeySets
                 /\ entries[i].age \in Nat /\ entries'[i].age \in Nat
                 /\ entries'[i].age <= entries[i].age + 1
                 /\ entries'[i].age < Ttl =>
                       entries'[i].age = entries[i].age + 1
           /\ \A i \in Issuers : entries[i] = NoEntry => entries'[i] = NoEntry
  <1>1. ASSUME NEW i \in Issuers, entries[i] # NoEntry
        PROVE  /\ entries'[i] \in Entry /\ entries'[i] # NoEntry
               /\ entries'[i].keys = entries[i].keys
               /\ entries[i].keys \in KeySets
               /\ entries[i].age \in Nat /\ entries'[i].age \in Nat
               /\ entries'[i].age <= entries[i].age + 1
               /\ entries'[i].age < Ttl => entries'[i].age = entries[i].age + 1
    <2> DEFINE n == Later(entries[i].age, Ttl)
    <2>1. /\ entries[i] \in Entry
          /\ entries[i].age \in 0..Ttl /\ entries[i].keys \in KeySets
      BY <1>1, EntryFields DEF Typed
    <2>2. entries'[i] = [entries[i] EXCEPT !.age = n]
      BY <1>1 DEF Tick
    <2>3. /\ n \in 0..Ttl /\ n <= entries[i].age + 1
          /\ n < Ttl => n = entries[i].age + 1
      BY <2>1, LaterBounds, Bounds
    <2> HIDE DEF n
    <2>4. entries'[i] = [age |-> n, keys |-> entries[i].keys]
      BY <2>1, <2>2, Aged
    <2> QED BY <2>1, <2>3, <2>4, EntryBuilt, Bounds
  <1>2. \A i \in Issuers : entries[i] = NoEntry => entries'[i] = NoEntry
    BY DEF Tick
  <1>3. entries' = [i \in Issuers |-> entries'[i]]
    BY DEF Tick
  <1> QED BY <1>1, <1>2, <1>3

\* and to a caller.
LEMMA TickLookup ==
    ASSUME Typed, Tick
    PROVE  /\ lookup' \in [Callers -> Lookup]
           /\ \A c \in Callers :
                 /\ lookup[c].at \notin Computing
                 /\ lookup'[c].at = lookup[c].at
                 /\ lookup'[c].issuer = lookup[c].issuer
                 /\ lookup'[c].keys = lookup[c].keys
                 /\ lookup'[c].beaten = lookup[c].beaten
                 /\ lookup[c].at \in Waiting =>
                       lookup'[c].time = lookup[c].time + 1
  <1>1. ASSUME NEW c \in Callers
        PROVE  /\ lookup'[c] \in Lookup
               /\ lookup[c].at \notin Computing
               /\ lookup'[c].at = lookup[c].at
               /\ lookup'[c].issuer = lookup[c].issuer
               /\ lookup'[c].keys = lookup[c].keys
               /\ lookup'[c].beaten = lookup[c].beaten
               /\ lookup[c].at \in Waiting =>
                     lookup'[c].time = lookup[c].time + 1
    <2>1. lookup[c] \in Lookup /\ lookup[c].at \notin Computing
      BY DEF Typed, Tick, MayTick
    <2>2. CASE lookup[c].at \in Waiting
      <3>1. lookup'[c] = [lookup[c] EXCEPT !.time = @ + 1]
        BY <2>2 DEF Tick
      <3>2. lookup[c].time < MaxFetch
        BY <2>2 DEF Tick, MayTick
      <3> QED BY <2>1, <3>1, <3>2, Bounds DEF Lookup
    <2>3. CASE lookup[c].at \notin Waiting
      BY <2>1, <2>3 DEF Tick
    <2> QED BY <2>2, <2>3
  <1>2. lookup' = [c \in Callers |-> lookup'[c]]
    BY DEF Tick
  <1> QED BY <1>1, <1>2

LEMMA InvTick ==
    ASSUME JwksInv, Tick
    PROVE  JwksInv'
  <1> USE DEF JwksInv
  <1>t. Typed /\ PublishedHeld
    OBVIOUS
  <1>1. /\ gone' \in [Issuers -> [KeySets -> 0..Horizon]]
        /\ \A i \in Issuers, S \in KeySets :
              /\ gone[i][S] \in Nat /\ gone'[i][S] \in Nat
              /\ gone'[i][S] <= gone[i][S] + 1
              /\ S = published[i] => gone'[i][S] = gone[i][S]
    BY <1>t, TickGone
  <1>2. /\ failures' \in [Issuers -> 0..FailureTtl]
        /\ \A i \in Issuers : failures[i] + 1 < FailureTtl =>
              failures'[i] = failures[i] + 1
    <2>1. \A i \in Issuers : failures[i] \in 0..FailureTtl
      BY <1>t DEF Typed
    <2>2. \A i \in Issuers :
             /\ Later(failures[i], FailureTtl) \in 0..FailureTtl
             /\ failures[i] + 1 < FailureTtl =>
                   Later(failures[i], FailureTtl) = failures[i] + 1
      BY <2>1, Bounds DEF Later
    <2> QED BY <2>2 DEF Tick
  <1>3. /\ vain' \in [Issuers -> BOOLEAN]
        /\ \A i \in Issuers :
              vain'[i] => (vain[i] /\ failures[i] + 1 < FailureTtl)
    BY <1>t DEF Tick, Typed
  <1>4. UNCHANGED <<published, up>>
    BY DEF Tick
  <1>5. Typed'
    BY <1>t, <1>1, <1>2, <1>3, <1>4, TickEntries, TickLookup DEF Typed
  <1>6. PublishedHeld'
    BY <1>t, <1>1, <1>4 DEF PublishedHeld, Typed
  <1>7. \A c \in Callers : CallerOK(c)'
    <2> SUFFICES ASSUME NEW c \in Callers PROVE CallerOK(c)'
      OBVIOUS
    <2>1. (Placed(c) /\ InHand(c) /\ FoundNone(c) /\ Kept(c))'
      BY <1>t, TickLookup
      DEF CallerOK, Placed, InHand, FoundNone, Kept, Computing
    <2>2. /\ lookup[c].time \in Nat /\ lookup[c].keys \in KeySets
          /\ lookup[c].at # "idle" => lookup[c].issuer \in Issuers
      BY <1>t, LookupFields DEF Typed, CallerOK, Placed
    <2>3. Travels(c)'
      <3> SUFFICES ASSUME lookup[c].at = "answered"
                   PROVE  gone'[lookup[c].issuer][lookup[c].keys]
                            <= lookup'[c].time
        BY <1>t, TickLookup DEF Travels
      <3>1. /\ gone[lookup[c].issuer][lookup[c].keys] <= lookup[c].time
            /\ lookup'[c].time = lookup[c].time + 1
        BY <1>t, TickLookup DEF CallerOK, Travels, Waiting
      <3> QED BY <2>2, <3>1, <1>1
    <2>4. BeatenBy(c)'
      <3> SUFFICES ASSUME lookup[c].at \in Waiting, lookup[c].beaten
                   PROVE  /\ entries'[lookup[c].issuer] # NoEntry
                          /\ entries'[lookup[c].issuer].age <= lookup'[c].time
        BY <1>t, TickLookup DEF BeatenBy
      <3>1. /\ entries[lookup[c].issuer] # NoEntry
            /\ entries[lookup[c].issuer].age <= lookup[c].time
            /\ lookup'[c].time = lookup[c].time + 1
            /\ lookup[c].issuer \in Issuers
        BY <1>t, <2>2, TickLookup DEF CallerOK, BeatenBy, Waiting
      <3>2. /\ entries'[lookup[c].issuer] # NoEntry
            /\ entries[lookup[c].issuer].age \in Nat
            /\ entries'[lookup[c].issuer].age \in Nat
            /\ entries'[lookup[c].issuer].age
                 <= entries[lookup[c].issuer].age + 1
        BY <1>t, <3>1, TickEntries
      <3> QED BY <2>2, <3>1, <3>2
    <2> QED BY <2>1, <2>3, <2>4 DEF CallerOK
  <1>8. \A i \in Issuers : (Stored(i) /\ Outlives(i))'
    <2> SUFFICES ASSUME NEW i \in Issuers PROVE (Stored(i) /\ Outlives(i))'
      OBVIOUS
    <2>1. Stored(i)'
      <3> SUFFICES ASSUME entries'[i] # NoEntry, entries'[i].age < Ttl
                   PROVE  gone'[i][entries'[i].keys] <= entries'[i].age + MaxFetch
        BY DEF Stored, Fresh
      <3>1. /\ entries[i] # NoEntry
            /\ entries'[i].keys = entries[i].keys /\ entries[i].keys \in KeySets
            /\ entries[i].age \in Nat
            /\ entries'[i].age = entries[i].age + 1
        BY <1>t, TickEntries
      <3>2. gone[i][entries[i].keys] <= entries[i].age + MaxFetch
        BY <3>1, Bounds DEF Stored, Fresh
      <3> QED BY <3>1, <3>2, <1>1, Bounds
    <2>2. Outlives(i)'
      <3> SUFFICES ASSUME vain'[i]
                   PROVE  /\ entries'[i] # NoEntry
                          /\ entries'[i].age <= failures'[i] + MaxFetch
                          /\ failures'[i] < FailureTtl
        BY DEF Outlives, BackingOff
      <3>1. vain[i] /\ failures'[i] = failures[i] + 1 /\ failures'[i] < FailureTtl
        BY <1>2, <1>3
      <3>2. /\ entries[i] # NoEntry
            /\ entries[i].age <= failures[i] + MaxFetch
        BY <3>1 DEF Outlives
      <3>3. /\ entries'[i] # NoEntry
            /\ entries[i].age \in Nat /\ entries'[i].age \in Nat
            /\ entries'[i].age <= entries[i].age + 1
        BY <1>t, <3>2, TickEntries
      <3>4. failures[i] \in Nat
        BY <1>t DEF Typed
      <3> QED BY <3>1, <3>2, <3>3, <3>4, Bounds
    <2> QED BY <2>1, <2>2
  <1> QED BY <1>5, <1>6, <1>7, <1>8

LEMMA InvStep ==
    ASSUME JwksInv, [Next]_vars
    PROVE  JwksInv'
  <1>1. ASSUME NEW i \in Issuers, NEW S \in KeySets, Publish(i, S)
        PROVE  JwksInv'
    BY <1>1, InvPublish
  <1>2. ASSUME NEW i \in Issuers, Flip(i)
        PROVE  JwksInv'
    BY <1>2 DEF Flip, cacheVars, JwksInv, Typed, PublishedHeld, CallerOK,
                Placed, Travels, InHand, BeatenBy, FoundNone, Kept, Fresh, Stored,
                Outlives, BackingOff
  <1>3. ASSUME NEW c \in Callers, NEW i \in Issuers, Hit(c, i)
        PROVE  JwksInv'
    BY <1>3, InvHit
  <1>4. ASSUME NEW c \in Callers, NEW i \in Issuers, Miss(c, i)
        PROVE  JwksInv'
    BY <1>4, InvMoves DEF Miss, Places
  <1>5. ASSUME NEW c \in Callers, BackOff(c)
        PROVE  JwksInv'
    <2>1. lookup[c].issuer \in Issuers
      BY <1>5 DEF BackOff, JwksInv, CallerOK, Placed
    <2>2. Fresh(lookup[c].issuer) => entries[lookup[c].issuer].age = 0
      BY <1>5 DEF BackOff, JwksInv, CallerOK, FoundNone
    <2> QED BY <1>5, <2>1, <2>2, InvMoves DEF BackOff, Places
  <1>6. ASSUME NEW c \in Callers, StartFetch(c)
        PROVE  JwksInv'
    <2>1. lookup[c].issuer \in Issuers
      BY <1>6 DEF StartFetch, JwksInv, CallerOK, Placed
    <2> QED BY <1>6, <2>1, InvMoves DEF StartFetch, Places
  <1>7. ASSUME NEW c \in Callers, IssuerAnswers(c)
        PROVE  JwksInv'
    BY <1>7, InvAnswers
  <1>8. ASSUME NEW c \in Callers, StoreEntry(c)
        PROVE  JwksInv'
    BY <1>8, InvStore
  <1>9. ASSUME NEW c \in Callers, ClearFailure(c)
        PROVE  JwksInv'
    BY <1>9, InvClear
  <1>10. ASSUME NEW c \in Callers, FetchFails(c)
         PROVE  JwksInv'
    BY <1>10, InvFails
  <1>11. ASSUME NEW c \in Callers, Cancel(c) \/ Return(c)
         PROVE  JwksInv'
    BY <1>11, InvMoves DEF Cancel, Return, Idle, Places
  <1>12. ASSUME Restart
         PROVE  JwksInv'
    BY <1>12, InvRestart
  <1>13. ASSUME Tick
         PROVE  JwksInv'
    BY <1>13, InvTick
  <1>14. ASSUME UNCHANGED vars
         PROVE  JwksInv'
    BY <1>14 DEF vars, JwksInv, Typed, PublishedHeld, CallerOK,
                 Placed, Travels, InHand, BeatenBy, FoundNone, Kept, Fresh, Stored,
                 Outlives, BackingOff
  <1> QED
    BY <1>1, <1>2, <1>3, <1>4, <1>5, <1>6, <1>7, <1>8, <1>9, <1>10, <1>11,
       <1>12, <1>13, <1>14
    DEF Next, GetOrFetch, Proceed, Drop

\* The bounds on the age of key sets, and the order of entry and failure, hold
\* in every state (jwks.rs:304-354).
THEOREM JwksInductive == Spec => []JwksInv
  BY InvInit, InvStep, PTL DEF Spec

\* Every state of the key cache is well typed, and whoever has stored keys
\* and not yet cleared the failure finds fresh keys of that issuer
\* (jwks.rs:279-301, 326-341).
THEOREM JwksTyped == Spec => []TypeOK
  <1>1. JwksInv => TypeOK
    BY DEF JwksInv, TypeOK, CallerOK, Kept
  <1> QED BY <1>1, JwksInductive, PTL

LEMMA BackoffSafe == JwksInv => BackoffEarned
  <1> SUFFICES ASSUME JwksInv, NEW c \in Callers,
                      lookup[c].at = "backedOff", vain[lookup[c].issuer]
               PROVE  /\ Fresh(lookup[c].issuer)
                      /\ entries[lookup[c].issuer].age = 0
    BY DEF BackoffEarned
  <1> DEFINE i == lookup[c].issuer
  <1>1. i \in Issuers /\ (Fresh(i) => entries[i].age = 0)
    BY DEF JwksInv, CallerOK, Placed, FoundNone
  <1>2. /\ entries[i] # NoEntry
        /\ entries[i].age <= failures[i] + MaxFetch
        /\ failures[i] < FailureTtl
    BY <1>1 DEF JwksInv, Outlives, BackingOff
  <1>3. entries[i].age \in 0..Ttl /\ failures[i] \in 0..FailureTtl
    BY <1>1, <1>2, EntryFields DEF JwksInv, Typed
  <1>4. Fresh(i)
    BY <1>2, <1>3, Bounds DEF Fresh
  <1> QED BY <1>1, <1>4

\* A failure that was beaten refuses only who looked into the entries in the
\* moment before the success was stored, for every number of callers and every
\* time to live that leaves room for the backoff (jwks.rs:310-341).
THEOREM BackoffProved == Spec => []BackoffEarned
  BY JwksInductive, BackoffSafe, PTL

-----------------------------------------------------------------------------
(* The refinement: what a caller has in hand is all that the abstract cache  *)
(* shows.                                                                    *)

reads == [c \in Callers |-> ReadOf(c)]

\* A result that replaces one caller's is a read of the abstract cache,
LEMMA Served ==
    ASSUME NEW c \in Callers, NEW i \in Issuers, NEW S \in KeySets,
           gone[i][S] <= MaxStale,
           \A d \in Callers : d # c => lookup'[d] = lookup[d],
           lookup'[c] = At("returned", i, S),
           UNCHANGED <<published, gone>>
    PROVE  Service!Next
  <1>1. reads' = [reads EXCEPT ![c] = [item |-> i, value |-> S]]
    <2>1. ReadOf(c)' = [item |-> i, value |-> S]
      BY DEF ReadOf, At
    <2>2. \A d \in Callers : d # c => ReadOf(d)' = ReadOf(d)
      BY DEF ReadOf
    <2> QED BY <2>1, <2>2 DEF reads
  <1>2. Service!Serve(c, i, S)
    BY <1>1 DEF Service!Serve, reads
  <1> QED BY <1>2 DEF Service!Next

\* and one that disappears is forgotten.
LEMMA Forgotten ==
    ASSUME NEW D \in SUBSET Callers,
           \A c \in D : ReadOf(c)' = NoRead,
           \A c \in Callers \ D : ReadOf(c)' = ReadOf(c),
           UNCHANGED <<published, gone>>
    PROVE  Service!Next
  <1>1. reads' = [c \in Callers |-> IF c \in D THEN NoRead ELSE reads[c]]
    BY DEF reads
  <1>2. Service!Forget
    BY <1>1 DEF Service!Forget, reads
  <1> QED BY <1>2 DEF Service!Next

\* A step after which every caller has what it had shows nothing,
LEMMA Unseen ==
    ASSUME \A c \in Callers : ReadOf(c)' = ReadOf(c),
           UNCHANGED <<published, gone>>
    PROVE  UNCHANGED Service!vars
  <1>1. UNCHANGED reads
    BY DEF reads
  <1> QED BY <1>1 DEF Service!vars, reads

\* such as one from a place without a result to another.
LEMMA UnseenMove ==
    ASSUME NEW c \in Callers,
           lookup[c].at # "returned", lookup'[c].at # "returned",
           \A d \in Callers : d # c => lookup'[d] = lookup[d],
           UNCHANGED <<published, gone>>
    PROVE  UNCHANGED Service!vars
  <1>1. \A d \in Callers : ReadOf(d)' = ReadOf(d)
    BY DEF ReadOf
  <1> QED BY <1>1, Unseen

LEMMA ServiceInit == Init => Service!Init
  <1> SUFFICES ASSUME Init PROVE Service!Init
    OBVIOUS
  <1>1. \A c \in Callers : ReadOf(c) = NoRead
    BY IdleBuilt DEF Init, ReadOf
  <1> QED BY <1>1 DEF Init, Service!Init

LEMMA ServiceStep ==
    ASSUME JwksInv, [Next]_vars
    PROVE  [Service!Next]_(Service!vars)
  <1>t. Typed
    BY DEF JwksInv
  <1>1. ASSUME NEW i \in Issuers, NEW S \in KeySets, Publish(i, S)
        PROVE  Service!Next
    <2>1. UNCHANGED reads
      BY <1>1 DEF Publish, cacheVars, reads, ReadOf
    <2>2. Service!Change(i, S)
      BY <1>1, <2>1 DEF Publish, Service!Change, reads
    <2> QED BY <2>2 DEF Service!Next
  <1>2. ASSUME NEW i \in Issuers, Flip(i)
        PROVE  UNCHANGED Service!vars
    <2>1. \A c \in Callers : ReadOf(c)' = ReadOf(c)
      BY <1>2 DEF Flip, cacheVars, ReadOf
    <2> QED BY <1>2, <2>1, Unseen DEF Flip
  <1>3. ASSUME NEW c \in Callers, NEW i \in Issuers, Hit(c, i)
        PROVE  Service!Next
    <2>1. /\ lookup'[c] = At("returned", i, entries[i].keys)
          /\ \A d \in Callers : d # c => lookup'[d] = lookup[d]
          /\ UNCHANGED <<published, gone>>
      BY <1>3, <1>t DEF Hit, Moves, Typed
    <2> QED BY <1>3, <2>1, InvHit, Served
  <1>4. ASSUME NEW c \in Callers, NEW i \in Issuers, Miss(c, i)
        PROVE  UNCHANGED Service!vars
    <2>1. /\ lookup[c].at = "idle" /\ lookup'[c].at = "missed"
          /\ \A d \in Callers : d # c => lookup'[d] = lookup[d]
          /\ UNCHANGED <<published, gone>>
      BY <1>4, <1>t DEF Miss, Moves, At, Typed
    <2> QED BY <2>1, UnseenMove
  <1>5. ASSUME NEW c \in Callers, BackOff(c) \/ StartFetch(c)
        PROVE  UNCHANGED Service!vars
    <2>1. /\ lookup[c].at = "missed"
          /\ lookup'[c].at \in {"backedOff", "fetching"}
          /\ \A d \in Callers : d # c => lookup'[d] = lookup[d]
          /\ UNCHANGED <<published, gone>>
      BY <1>5, <1>t DEF BackOff, StartFetch, Moves, At, Typed
    <2> QED BY <2>1, UnseenMove
  <1>6. ASSUME NEW c \in Callers, IssuerAnswers(c)
        PROVE  UNCHANGED Service!vars
    <2>1. lookup[c].at = "fetching" /\ UNCHANGED <<published, gone>>
      BY <1>6 DEF IssuerAnswers
    <2> QED BY <1>6, <2>1, InvAnswers, UnseenMove
  <1>7. ASSUME NEW c \in Callers, StoreEntry(c)
        PROVE  UNCHANGED Service!vars
    <2>1. lookup[c].at = "answered" /\ UNCHANGED <<published, gone>>
      BY <1>7 DEF StoreEntry
    <2>2. \A d \in Callers : ReadOf(d)' = ReadOf(d)
      BY <1>7, <2>1, InvStore DEF ReadOf
    <2> QED BY <2>1, <2>2, Unseen
  <1>8. ASSUME NEW c \in Callers, ClearFailure(c)
        PROVE  Service!Next
    <2>1. /\ lookup'[c] = At("returned", lookup[c].issuer, lookup[c].keys)
          /\ \A d \in Callers : d # c => lookup'[d] = lookup[d]
          /\ UNCHANGED <<published, gone>>
      BY <1>8, <1>t DEF ClearFailure, Moves, Typed
    <2> QED BY <1>8, <2>1, InvClear, Served
  <1>9. ASSUME NEW c \in Callers, FetchFails(c)
        PROVE  UNCHANGED Service!vars
    <2>1. /\ lookup[c].at # "returned" /\ lookup'[c].at = "failed"
          /\ \A d \in Callers : d # c => lookup'[d] = lookup[d]
          /\ UNCHANGED <<published, gone>>
      BY <1>9, <1>t DEF FetchFails, Moves, At, Waiting, Typed
    <2> QED BY <2>1, UnseenMove
  <1>10. ASSUME NEW c \in Callers, Cancel(c) \/ Return(c)
         PROVE  Service!Next
    <2>1. /\ lookup'[c] = Idle
          /\ \A d \in Callers : d # c => lookup'[d] = lookup[d]
          /\ UNCHANGED <<published, gone>>
      BY <1>10, <1>t DEF Cancel, Return, Moves, Typed
    <2>2. /\ ReadOf(c)' = NoRead
          /\ \A d \in Callers \ {c} : ReadOf(d)' = ReadOf(d)
      BY <2>1, IdleBuilt DEF ReadOf
    <2> QED BY <2>1, <2>2, Forgotten, {c} \in SUBSET Callers
  <1>11. ASSUME Restart
         PROVE  Service!Next
    <2>1. \A c \in Callers : ReadOf(c)' = NoRead
      BY <1>11, IdleBuilt DEF Restart, ReadOf
    <2>2. UNCHANGED <<published, gone>>
      BY <1>11 DEF Restart
    <2> QED BY <2>1, <2>2, Forgotten, Callers \in SUBSET Callers
  <1>12. ASSUME Tick
         PROVE  Service!Next
    <2>1. \A c \in Callers : ReadOf(c) = NoRead /\ ReadOf(c)' = NoRead
      BY <1>12, <1>t, TickLookup DEF ReadOf, Computing
    <2>2. UNCHANGED <<published, reads>>
      BY <1>12, <2>1 DEF Tick, reads
    <2>3. gone' = [i \in Issuers |-> [S \in KeySets |->
                     IF S = published[i] \/ gone[i][S] = Horizon
                     THEN gone[i][S] ELSE gone[i][S] + 1]]
      <3>1. \A i \in Issuers, S \in KeySets :
               Later(gone[i][S], Horizon) =
                 IF gone[i][S] = Horizon THEN gone[i][S] ELSE gone[i][S] + 1
        BY <1>t, LaterBounds, Bounds DEF Typed
      <3> QED BY <1>12, <3>1 DEF Tick
    <2>4. Service!Age
      BY <2>2, <2>3 DEF Service!Age, reads
    <2> QED BY <2>4 DEF Service!Next
  <1>13. ASSUME UNCHANGED vars
         PROVE  UNCHANGED Service!vars
    <2>1. \A c \in Callers : ReadOf(c)' = ReadOf(c)
      BY <1>13 DEF vars, ReadOf
    <2> QED BY <1>13, <2>1, Unseen DEF vars
  <1> QED
    BY <1>1, <1>2, <1>3, <1>4, <1>5, <1>6, <1>7, <1>8, <1>9, <1>10, <1>11,
       <1>12, <1>13
    DEF Next, GetOrFetch, Proceed, Drop

\* For any number of callers, and any limits that leave room for the backoff,
\* the keys that get_or_fetch returns were published within Ttl - 1 + MaxFetch:
\* a removed key is trusted no longer, whatever fetches race, fail or come late
\* (jwks.rs:304-354).
THEOREM JwksRefinement == Spec => ImplementsStaleReads
  <1>1. Spec => []JwksInv
    BY JwksInductive
  <1>2. JwksInv /\ [Next]_vars => [Service!Next]_(Service!vars)
    BY ServiceStep
  <1> QED
    BY <1>1, <1>2, ServiceInit, PTL DEF Spec, ImplementsStaleReads, Service!Spec
=============================================================================
