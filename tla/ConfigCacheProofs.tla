-------------------------- MODULE ConfigCacheProofs --------------------------
(* Proofs about ConfigCache, for any callers, items, values and limits.      *)
(*                                                                           *)
(* Three places hold a value of the provider on its way to a caller: an      *)
(* answer that travels, an entry, and a result in hand. The invariant bounds *)
(* the age of the value in each of them. A step of a caller moves a value    *)
(* from one place to the next, within the bounds; time moves all of them at  *)
(* once, and no faster than the clock of the place.                          *)
EXTENDS ConfigCache, TLAPS

\* What the provider holds is not gone.
SourceHeld == \A i \in Items : gone[i][source[i]] = 0

\* A caller that is not idle asks for an item, and has a value of it once the
\* provider has answered.
Placed(c) ==
    /\ reading[c].at # "idle" => reading[c].item \in Items
    /\ reading[c].at \in {"answered", "returned"} => reading[c].value \in Values

\* The value of an answer was held since the request began,
Travels(c) ==
    reading[c].at = "answered" =>
        gone[reading[c].item][reading[c].value] <= reading[c].time

\* that of an entry in use since the read before it was stored,
Stored(i) ==
    Kept(i) => gone[i][entries[i].value] <= entries[i].age + MaxRead

\* and that of a result as lately as the abstract cache promises.
InHand(c) ==
    reading[c].at = "returned" =>
        gone[reading[c].item][reading[c].value] <= MaxStale

ConfigInv ==
    /\ TypeOK
    /\ SourceHeld
    /\ \A c \in Callers : Placed(c) /\ Travels(c) /\ InHand(c)
    /\ \A i \in Items : Stored(i)

-----------------------------------------------------------------------------
(* Records.                                                                  *)

LEMMA Bounds ==
    /\ Ttl \in Nat /\ MaxRead \in Nat /\ Horizon \in Nat
    /\ MaxStale = Ttl + MaxRead /\ MaxStale \in Nat
  BY ConfigAssumption DEF MaxStale

LEMMA EntryFields ==
    ASSUME NEW e \in Entry \cup {NoEntry}, e # NoEntry
    PROVE  e.age \in 0..Ttl + 1 /\ e.value \in Values
  BY DEF Entry

LEMMA EntryBuilt ==
    ASSUME NEW n \in 0..Ttl + 1, NEW v \in Values
    PROVE  [age |-> n, value |-> v] \in Entry /\ [age |-> n, value |-> v] # NoEntry
  BY ConfigAssumption DEF Entry

LEMMA ReadingFields ==
    ASSUME NEW r \in Reading
    PROVE  /\ r.at \in {"idle", "asking", "answered", "returned"}
           /\ r.item \in Items \cup {NoItem}
           /\ r.value \in Values \cup {NoValue}
           /\ r.time \in 0..MaxRead
           /\ r = [at |-> r.at, item |-> r.item, value |-> r.value,
                   time |-> r.time]
  BY DEF Reading, Waiting

LEMMA AtBuilt ==
    ASSUME NEW place \in {"idle", "asking", "answered", "returned"},
           NEW i \in Items \cup {NoItem}, NEW v \in Values \cup {NoValue}
    PROVE  /\ At(place, i, v) \in Reading
           /\ At(place, i, v).at = place
           /\ At(place, i, v).item = i
           /\ At(place, i, v).value = v
           /\ At(place, i, v).time = 0
  BY Bounds DEF At, Reading, Waiting

LEMMA IdleBuilt ==
    Idle \in Reading /\ Idle.at = "idle" /\ Idle.time = 0
  BY AtBuilt DEF Idle

LEMMA AnsweredBuilt ==
    ASSUME NEW r \in Reading, NEW v \in Values
    PROVE  [r EXCEPT !.at = "answered", !.value = v] =
             [at |-> "answered", item |-> r.item, value |-> v, time |-> r.time]
  <1> DEFINE q == [r EXCEPT !.at = "answered"]
  <1>1. [q EXCEPT !.value = v] =
          [at |-> "answered", item |-> r.item, value |-> v, time |-> r.time]
    <2>1. /\ q \in Reading
          /\ q.at = "answered" /\ q.item = r.item /\ q.time = r.time
      BY DEF Reading, Waiting
    <2> HIDE DEF q
    <2>2. [q EXCEPT !.value = v] =
            [at |-> q.at, item |-> q.item, value |-> v, time |-> q.time]
      BY <2>1 DEF Reading
    <2> QED BY <2>1, <2>2
  <1>2. [r EXCEPT !.at = "answered", !.value = v] =
          [[r EXCEPT !.at = "answered"] EXCEPT !.value = v]
    BY Zenon
  <1> QED BY <1>1, <1>2

LEMMA Aged ==
    ASSUME NEW e \in Entry, NEW n
    PROVE  [e EXCEPT !.age = n] = [age |-> n, value |-> e.value]
  BY DEF Entry

\* A caller that moves is the only one.
LEMMA MovesOne ==
    ASSUME reading \in [Callers -> Reading], NEW c \in Callers,
           NEW r \in Reading, Moves(c, r)
    PROVE  /\ reading' \in [Callers -> Reading]
           /\ reading'[c] = r
           /\ \A d \in Callers : d # c => reading'[d] = reading[d]
  BY DEF Moves

LEMMA LaterBounds ==
    ASSUME NEW limit \in Nat, NEW t \in 0..limit
    PROVE  /\ Later(t, limit) \in 0..limit
           /\ Later(t, limit) <= t + 1
           /\ Later(t, limit) = IF t = limit THEN t ELSE t + 1
  BY DEF Later

-----------------------------------------------------------------------------
(* The invariant.                                                            *)

LEMMA InvInit == Init => ConfigInv
  <1> SUFFICES ASSUME Init PROVE ConfigInv
    OBVIOUS
  <1>1. \A c \in Callers : reading[c] = Idle
    BY DEF Init
  <1>2. TypeOK
    <2>1. reading \in [Callers -> Reading]
      BY IdleBuilt DEF Init
    <2>2. gone \in [Items -> [Values -> 0..Horizon]]
      BY Bounds DEF Init
    <2> QED BY <2>1, <2>2 DEF Init, TypeOK
  <1>3. SourceHeld
    BY DEF Init, SourceHeld
  <1>4. \A c \in Callers : Placed(c) /\ Travels(c) /\ InHand(c)
    BY <1>1, IdleBuilt DEF Placed, Travels, InHand
  <1>5. \A i \in Items : Stored(i)
    BY DEF Init, Stored, Kept
  <1> QED BY <1>2, <1>3, <1>4, <1>5 DEF ConfigInv

\* A step of one caller that changes neither the provider nor the entries.
LEMMA InvCaller ==
    ASSUME ConfigInv, NEW c \in Callers, NEW r \in Reading,
           reading' \in [Callers -> Reading],
           reading'[c] = r,
           \A d \in Callers : d # c => reading'[d] = reading[d],
           UNCHANGED <<source, entries, gone>>,
           Placed(c)', Travels(c)', InHand(c)'
    PROVE  ConfigInv'
  <1>1. TypeOK'
    BY DEF ConfigInv, TypeOK
  <1>2. SourceHeld'
    BY DEF ConfigInv, SourceHeld
  <1>3. \A d \in Callers : (Placed(d) /\ Travels(d) /\ InHand(d))'
    <2> SUFFICES ASSUME NEW d \in Callers
                 PROVE  (Placed(d) /\ Travels(d) /\ InHand(d))'
      OBVIOUS
    <2>1. CASE d = c
      BY <2>1
    <2>2. CASE d # c
      BY <2>2 DEF ConfigInv, Placed, Travels, InHand
    <2> QED BY <2>1, <2>2
  <1>4. \A i \in Items : Stored(i)'
    BY DEF ConfigInv, Stored, Kept
  <1> QED BY <1>1, <1>2, <1>3, <1>4 DEF ConfigInv

LEMMA InvStep ==
    ASSUME ConfigInv, [Next]_vars
    PROVE  ConfigInv'
  <1> USE DEF ConfigInv
  <1>t. TypeOK /\ SourceHeld
    OBVIOUS
  <1>1. ASSUME NEW i \in Items, NEW v \in Values, Change(i, v)
        PROVE  ConfigInv'
    <2>1. /\ gone' \in [Items -> [Values -> 0..Horizon]]
          /\ gone'[i][v] = 0
          /\ \A j \in Items, w \in Values : gone'[j][w] \in 0..gone[j][w]
      <3>1. \A j \in Items, w \in Values :
               /\ gone[j][w] \in 0..Horizon
               /\ gone'[j][w] = IF j = i /\ w = v THEN 0 ELSE gone[j][w]
        BY <1>1, <1>t DEF Change, TypeOK
      <3>2. gone' \in [Items -> [Values -> 0..Horizon]]
        BY <1>1, <1>t, Bounds DEF Change, TypeOK
      <3> QED BY <3>1, <3>2
    <2>2. /\ source' \in [Items -> Values]
          /\ source'[i] = v
          /\ \A j \in Items : j # i => source'[j] = source[j]
      BY <1>1, <1>t DEF Change, TypeOK
    <2>3. UNCHANGED <<entries, reading>>
      BY <1>1 DEF Change
    <2>4. TypeOK'
      BY <1>t, <2>1, <2>2, <2>3 DEF TypeOK
    <2>5. SourceHeld'
      <3> SUFFICES ASSUME NEW j \in Items PROVE gone'[j][source'[j]] = 0
        BY DEF SourceHeld
      <3>1. CASE j = i
        BY <3>1, <2>1, <2>2
      <3>2. CASE j # i
        <4>1. gone[j][source[j]] = 0 /\ source[j] \in Values
          BY <1>t DEF SourceHeld, TypeOK
        <4>2. gone'[j][source[j]] \in 0..0
          BY <4>1, <2>1
        <4> QED BY <3>2, <4>2, <2>2
      <3> QED BY <3>1, <3>2
    <2>6. \A c \in Callers : (Placed(c) /\ Travels(c) /\ InHand(c))'
      <3> SUFFICES ASSUME NEW c \in Callers
                   PROVE  (Placed(c) /\ Travels(c) /\ InHand(c))'
        OBVIOUS
      <3>1. Placed(c)'
        BY <2>3 DEF Placed
      <3>2. CASE reading[c].at \in {"answered", "returned"}
        <4>1. reading[c].item \in Items /\ reading[c].value \in Values
          BY <3>2 DEF Placed
        <4>2. /\ gone'[reading[c].item][reading[c].value]
                   <= gone[reading[c].item][reading[c].value]
              /\ gone'[reading[c].item][reading[c].value] \in Nat
              /\ gone[reading[c].item][reading[c].value] \in Nat
          BY <4>1, <2>1, <1>t DEF TypeOK
        <4>3. reading[c].time \in Nat
          BY <1>t, ReadingFields DEF TypeOK
        <4> QED BY <3>1, <4>2, <4>3, <2>3, Bounds DEF Travels, InHand
      <3>3. CASE reading[c].at \notin {"answered", "returned"}
        BY <3>1, <3>3, <2>3 DEF Travels, InHand
      <3> QED BY <3>2, <3>3
    <2>7. \A j \in Items : Stored(j)'
      <3> SUFFICES ASSUME NEW j \in Items, Kept(j)'
                   PROVE  gone'[j][entries'[j].value] <= entries'[j].age + MaxRead
        BY DEF Stored
      <3>1. Kept(j) /\ entries'[j] = entries[j]
        BY <2>3 DEF Kept
      <3>2. entries[j].age \in 0..Ttl + 1 /\ entries[j].value \in Values
        BY <3>1, <1>t, EntryFields DEF TypeOK, Kept
      <3>3. gone[j][entries[j].value] <= entries[j].age + MaxRead
        BY <3>1 DEF Stored
      <3>4. /\ gone'[j][entries[j].value] \in 0..gone[j][entries[j].value]
            /\ gone[j][entries[j].value] \in Nat
        BY <3>2, <2>1, <1>t DEF TypeOK
      <3> QED BY <3>1, <3>2, <3>3, <3>4, Bounds
    <2> QED BY <2>4, <2>5, <2>6, <2>7
  <1>2. ASSUME NEW c \in Callers, NEW i \in Items, Hit(c, i)
        PROVE  ConfigInv'
    <2> DEFINE r == At("returned", i, entries[i].value)
    <2>1. /\ entries[i].age \in 0..Ttl + 1 /\ entries[i].value \in Values
          /\ entries[i].age <= Ttl
          /\ gone[i][entries[i].value] <= entries[i].age + MaxRead
          /\ gone[i][entries[i].value] \in Nat
      BY <1>2, <1>t, EntryFields DEF Hit, Kept, TypeOK, Stored
    <2>2. /\ r \in Reading /\ r.at = "returned" /\ r.item = i
          /\ r.value = entries[i].value
      BY <2>1, AtBuilt
    <2>3. /\ reading' \in [Callers -> Reading]
          /\ reading'[c] = r
          /\ \A d \in Callers : d # c => reading'[d] = reading[d]
      BY <1>2, <1>t, <2>2, MovesOne DEF Hit, TypeOK
    <2>4. UNCHANGED <<source, entries, gone>>
      BY <1>2 DEF Hit
    <2>5. Placed(c)' /\ Travels(c)' /\ InHand(c)'
      <3> HIDE DEF r
      <3>1. gone'[i][entries[i].value] <= MaxStale
        BY <2>1, <2>4, Bounds
      <3> QED BY <2>1, <2>2, <2>3, <3>1 DEF Placed, Travels, InHand
    <2> QED BY <2>2, <2>3, <2>4, <2>5, InvCaller
  <1>3. ASSUME NEW c \in Callers, NEW i \in Items, Miss(c, i)
        PROVE  ConfigInv'
    <2> DEFINE r == At("asking", i, NoValue)
    <2>2. r \in Reading /\ r.at = "asking" /\ r.item = i
      BY AtBuilt
    <2>3. /\ reading' \in [Callers -> Reading]
          /\ reading'[c] = r
          /\ \A d \in Callers : d # c => reading'[d] = reading[d]
      BY <1>3, <1>t, <2>2, MovesOne DEF Miss, TypeOK
    <2>4. UNCHANGED <<source, entries, gone>>
      BY <1>3 DEF Miss
    <2>5. Placed(c)' /\ Travels(c)' /\ InHand(c)'
      <3> HIDE DEF r
      <3> QED BY <2>2, <2>3 DEF Placed, Travels, InHand
    <2> QED BY <2>2, <2>3, <2>4, <2>5, InvCaller
  <1>4. ASSUME NEW c \in Callers, SourceAnswers(c)
        PROVE  ConfigInv'
    <2> DEFINE i == reading[c].item
               r == [at |-> "answered", item |-> i, value |-> source[i],
                     time |-> reading[c].time]
    <2>1. /\ i \in Items /\ source[i] \in Values /\ gone[i][source[i]] = 0
          /\ reading[c].time \in 0..MaxRead
      BY <1>4, <1>t, ReadingFields DEF SourceAnswers, Placed, TypeOK, SourceHeld
    <2>2. r \in Reading
      BY <2>1 DEF Reading, Waiting
    <2>3. /\ reading' \in [Callers -> Reading]
          /\ reading'[c] = r
          /\ \A d \in Callers : d # c => reading'[d] = reading[d]
      <3>1. reading' = [reading EXCEPT ![c] = r]
        <4>1. reading' = [reading EXCEPT ![c] =
                  [reading[c] EXCEPT !.at = "answered", !.value = source[i]]]
          BY <1>4, <1>t DEF SourceAnswers, TypeOK
        <4>2. [reading[c] EXCEPT !.at = "answered", !.value = source[i]] = r
          <5>1. reading[c] \in Reading
            BY <1>t DEF TypeOK
          <5> QED BY <5>1, <2>1, AnsweredBuilt
        <4> QED BY <4>1, <4>2
      <3> QED BY <3>1, <2>2, <1>t DEF TypeOK
    <2>4. UNCHANGED <<source, entries, gone>>
      BY <1>4 DEF SourceAnswers
    <2>5. Placed(c)' /\ Travels(c)' /\ InHand(c)'
      BY <2>1, <2>3, <2>4 DEF Placed, Travels, InHand
    <2> QED BY <2>2, <2>3, <2>4, <2>5, InvCaller
  <1>5. ASSUME NEW c \in Callers, Insert(c)
        PROVE  ConfigInv'
    <2> DEFINE i == reading[c].item
               v == reading[c].value
               r == At("returned", i, v)
    <2>1. /\ i \in Items /\ v \in Values
          /\ gone[i][v] <= reading[c].time
          /\ reading[c].time \in 0..MaxRead
          /\ gone[i][v] \in Nat
      BY <1>5, <1>t, ReadingFields DEF Insert, Placed, Travels, TypeOK
    <2>2. /\ r \in Reading /\ r.at = "returned" /\ r.item = i /\ r.value = v
      BY <2>1, AtBuilt
    <2>3. /\ reading' \in [Callers -> Reading]
          /\ reading'[c] = r
          /\ \A d \in Callers : d # c => reading'[d] = reading[d]
      BY <1>5, <1>t, <2>2, MovesOne DEF Insert, TypeOK
    <2>4. UNCHANGED <<source, gone>>
      BY <1>5 DEF Insert
    <2>5. /\ entries' \in [Items -> Entry \cup {NoEntry}]
          /\ entries'[i] = [age |-> 0, value |-> v]
          /\ \A j \in Items : j # i => entries'[j] = entries[j]
      BY <1>5, <1>t, <2>1, EntryBuilt, Bounds DEF Insert, TypeOK
    <2> HIDE DEF r, i, v
    <2>6. TypeOK'
      BY <1>t, <2>3, <2>4, <2>5 DEF TypeOK
    <2>7. SourceHeld'
      BY <1>t, <2>4 DEF SourceHeld
    <2>8. \A d \in Callers : (Placed(d) /\ Travels(d) /\ InHand(d))'
      <3> SUFFICES ASSUME NEW d \in Callers
                   PROVE  (Placed(d) /\ Travels(d) /\ InHand(d))'
        OBVIOUS
      <3>1. CASE d = c
        <4>1. gone'[i][v] <= MaxStale
          BY <2>1, <2>4, Bounds
        <4> QED BY <3>1, <4>1, <2>1, <2>2, <2>3 DEF Placed, Travels, InHand
      <3>2. CASE d # c
        BY <3>2, <2>3, <2>4 DEF Placed, Travels, InHand
      <3> QED BY <3>1, <3>2
    <2>9. \A j \in Items : Stored(j)'
      <3> SUFFICES ASSUME NEW j \in Items PROVE Stored(j)'
        OBVIOUS
      <3>1. CASE j = i
        BY <3>1, <2>1, <2>4, <2>5, Bounds DEF Stored
      <3>2. CASE j # i
        BY <3>2, <2>4, <2>5 DEF Stored, Kept
      <3> QED BY <3>1, <3>2
    <2> QED BY <2>6, <2>7, <2>8, <2>9
  <1>6. ASSUME NEW c \in Callers, ReadEnds(c) \/ Return(c)
        PROVE  ConfigInv'
    <2>1. /\ reading' \in [Callers -> Reading]
          /\ reading'[c] = Idle
          /\ \A d \in Callers : d # c => reading'[d] = reading[d]
      BY <1>6, <1>t, IdleBuilt, MovesOne DEF ReadEnds, Return, TypeOK
    <2>2. UNCHANGED <<source, entries, gone>>
      BY <1>6 DEF ReadEnds, Return
    <2>3. Placed(c)' /\ Travels(c)' /\ InHand(c)'
      BY <2>1, IdleBuilt DEF Placed, Travels, InHand
    <2> QED BY <2>1, <2>2, <2>3, IdleBuilt, InvCaller
  <1>7. ASSUME Restart
        PROVE  ConfigInv'
    <2>1. TypeOK'
      BY <1>7, <1>t, IdleBuilt DEF Restart, TypeOK
    <2>2. SourceHeld'
      BY <1>7, <1>t DEF Restart, SourceHeld
    <2>3. \A c \in Callers : (Placed(c) /\ Travels(c) /\ InHand(c))'
      BY <1>7, IdleBuilt DEF Restart, Placed, Travels, InHand
    <2>4. \A i \in Items : Stored(i)'
      BY <1>7 DEF Restart, Stored, Kept
    <2> QED BY <2>1, <2>2, <2>3, <2>4
  <1>8. ASSUME Tick
        PROVE  ConfigInv'
    <2>1. /\ gone' \in [Items -> [Values -> 0..Horizon]]
          /\ \A i \in Items, v \in Values :
                /\ gone[i][v] \in Nat /\ gone'[i][v] \in Nat
                /\ gone'[i][v] <= gone[i][v] + 1
                /\ v = source[i] => gone'[i][v] = gone[i][v]
      <3>1. \A i \in Items, v \in Values : gone[i][v] \in 0..Horizon
        BY <1>t DEF TypeOK
      <3>2. \A i \in Items, v \in Values :
               /\ Later(gone[i][v], Horizon) \in 0..Horizon
               /\ Later(gone[i][v], Horizon) <= gone[i][v] + 1
        BY <3>1, LaterBounds, Bounds
      <3> QED BY <1>8, <3>1, <3>2 DEF Tick
    <2>2. ASSUME NEW i \in Items, entries[i] # NoEntry
          PROVE  /\ entries'[i] = [age |-> Later(entries[i].age, Ttl + 1),
                                   value |-> entries[i].value]
                 /\ entries'[i].age = Later(entries[i].age, Ttl + 1)
                 /\ entries'[i].value = entries[i].value
                 /\ entries[i].age \in 0..Ttl + 1 /\ entries[i].value \in Values
      <3>1. entries[i] \in Entry
        BY <1>t, <2>2 DEF TypeOK
      <3>2. entries'[i] = [entries[i] EXCEPT !.age = Later(entries[i].age, Ttl + 1)]
        BY <1>8, <2>2 DEF Tick
      <3>3. entries'[i] = [age |-> Later(entries[i].age, Ttl + 1),
                          value |-> entries[i].value]
        BY <3>1, <3>2, Aged
      <3> QED BY <3>1, <3>3, <2>2, EntryFields
    <2>3. \A i \in Items : entries[i] = NoEntry => entries'[i] = NoEntry
      BY <1>8 DEF Tick
    <2>4. entries' \in [Items -> Entry \cup {NoEntry}]
      <3>1. \A n \in 0..Ttl + 1 : Later(n, Ttl + 1) \in 0..Ttl + 1
        BY LaterBounds, Bounds
      <3>2. \A i \in Items : entries'[i] \in Entry \cup {NoEntry}
        BY <2>2, <2>3, <3>1, EntryBuilt
      <3>3. entries' = [i \in Items |-> entries'[i]]
        BY <1>8 DEF Tick
      <3> QED BY <3>2, <3>3
    <2>5. \A c \in Callers :
             /\ reading'[c] \in Reading
             /\ reading'[c].at = reading[c].at
             /\ reading'[c].item = reading[c].item
             /\ reading'[c].value = reading[c].value
             /\ reading[c].at \in Waiting => reading'[c].time = reading[c].time + 1
             /\ reading[c].at # "returned"
      <3> SUFFICES ASSUME NEW c \in Callers
                   PROVE  /\ reading'[c] \in Reading
                          /\ reading'[c].at = reading[c].at
                          /\ reading'[c].item = reading[c].item
                          /\ reading'[c].value = reading[c].value
                          /\ reading[c].at \in Waiting =>
                                reading'[c].time = reading[c].time + 1
                          /\ reading[c].at # "returned"
        OBVIOUS
      <3>1. reading[c] \in Reading
        BY <1>t DEF TypeOK
      <3>2. CASE reading[c].at \in Waiting
        <4>1. reading'[c] = [reading[c] EXCEPT !.time = @ + 1]
          BY <1>8, <3>2 DEF Tick
        <4>2. reading[c].time < MaxRead /\ reading[c].at # "returned"
          BY <1>8, <3>2 DEF Tick
        <4> QED BY <3>1, <4>1, <4>2, Bounds DEF Reading
      <3>3. CASE reading[c].at \notin Waiting
        BY <1>8, <3>1, <3>3 DEF Tick
      <3> QED BY <3>2, <3>3
    <2>6. UNCHANGED source
      BY <1>8 DEF Tick
    <2>7. TypeOK'
      <3>1. reading' = [c \in Callers |-> reading'[c]]
        BY <1>8 DEF Tick
      <3>2. reading' \in [Callers -> Reading]
        BY <3>1, <2>5
      <3> QED BY <1>t, <3>2, <2>1, <2>4, <2>6 DEF TypeOK
    <2>8. SourceHeld'
      BY <1>t, <2>1, <2>6 DEF SourceHeld, TypeOK
    <2>9. \A c \in Callers : (Placed(c) /\ Travels(c) /\ InHand(c))'
      <3> SUFFICES ASSUME NEW c \in Callers
                   PROVE  (Placed(c) /\ Travels(c) /\ InHand(c))'
        OBVIOUS
      <3>1. Placed(c)' /\ InHand(c)'
        BY <2>5 DEF Placed, InHand
      <3>2. Travels(c)'
        <4> SUFFICES ASSUME reading[c].at = "answered"
                     PROVE  gone'[reading[c].item][reading[c].value]
                              <= reading'[c].time
          BY <2>5 DEF Travels
        <4>1. reading[c].item \in Items /\ reading[c].value \in Values
          BY DEF Placed
        <4>2. reading[c].time \in Nat /\ reading'[c].time = reading[c].time + 1
          BY <1>t, <2>5, ReadingFields DEF TypeOK, Waiting
        <4> QED BY <4>1, <4>2, <2>1 DEF Travels
      <3> QED BY <3>1, <3>2
    <2>10. \A i \in Items : Stored(i)'
      <3> SUFFICES ASSUME NEW i \in Items, Kept(i)'
                   PROVE  gone'[i][entries'[i].value] <= entries'[i].age + MaxRead
        BY DEF Stored
      <3>1. entries[i] # NoEntry
        BY <2>3 DEF Kept
      <3>2. /\ entries'[i].age = Later(entries[i].age, Ttl + 1)
            /\ entries'[i].value = entries[i].value
            /\ entries'[i].age <= Ttl
            /\ entries[i].age \in 0..Ttl + 1 /\ entries[i].value \in Values
        <4>1. entries'[i].age <= Ttl
          BY DEF Kept
        <4> QED BY <3>1, <4>1, <2>2
      <3>3. entries'[i].age = entries[i].age + 1
        BY <3>2, Bounds DEF Later
      <3>4. gone[i][entries[i].value] <= entries[i].age + MaxRead
        BY <3>1, <3>2, <3>3, Bounds DEF Stored, Kept
      <3> QED BY <3>2, <3>3, <3>4, <2>1, Bounds
    <2> QED BY <2>7, <2>8, <2>9, <2>10
  <1>9. CASE UNCHANGED vars
    BY <1>9 DEF vars, TypeOK, SourceHeld, Placed, Travels, InHand, Stored, Kept
  <1> QED BY <1>1, <1>2, <1>3, <1>4, <1>5, <1>6, <1>7, <1>8, <1>9 DEF Next, Look

\* The bounds on the age of values hold in every state.
THEOREM ConfigInductive == Spec => []ConfigInv
  BY InvInit, InvStep, PTL DEF Spec

\* Every state of the cache is well typed (cached.rs:15-45).
THEOREM ConfigTyped == Spec => []TypeOK
  BY ConfigInductive, PTL DEF ConfigInv

-----------------------------------------------------------------------------
(* The refinement: what a caller has in hand is all that the abstract cache  *)
(* shows.                                                                    *)

reads == [c \in Callers |-> ReadOf(c)]

\* A result that replaces one caller's is a read of the abstract cache,
LEMMA Served ==
    ASSUME NEW c \in Callers, NEW i \in Items, NEW v \in Values,
           gone[i][v] <= MaxStale,
           \A d \in Callers : d # c => reading'[d] = reading[d],
           reading'[c] = At("returned", i, v),
           UNCHANGED <<source, gone>>
    PROVE  Service!Next
  <1>1. reads' = [reads EXCEPT ![c] = [item |-> i, value |-> v]]
    <2>1. ReadOf(c)' = [item |-> i, value |-> v]
      BY DEF ReadOf, At
    <2>2. \A d \in Callers : d # c => ReadOf(d)' = ReadOf(d)
      BY DEF ReadOf
    <2> QED BY <2>1, <2>2 DEF reads
  <1>2. Service!Serve(c, i, v)
    BY <1>1 DEF Service!Serve, reads
  <1> QED BY <1>2 DEF Service!Next

\* and one that disappears is forgotten.
LEMMA Forgotten ==
    ASSUME NEW S \in SUBSET Callers,
           \A c \in S : ReadOf(c)' = NoRead,
           \A c \in Callers \ S : ReadOf(c)' = ReadOf(c),
           UNCHANGED <<source, gone>>
    PROVE  Service!Next
  <1>1. reads' = [c \in Callers |-> IF c \in S THEN NoRead ELSE reads[c]]
    BY DEF reads
  <1>2. Service!Forget
    BY <1>1 DEF Service!Forget, reads
  <1> QED BY <1>2 DEF Service!Next

\* A step after which every caller has what it had shows nothing.
LEMMA Unseen ==
    ASSUME \A c \in Callers : ReadOf(c)' = ReadOf(c),
           UNCHANGED <<source, gone>>
    PROVE  UNCHANGED Service!vars
  <1>1. UNCHANGED reads
    BY DEF reads
  <1> QED BY <1>1 DEF Service!vars, reads

LEMMA ServiceInit == Init => Service!Init
  <1> SUFFICES ASSUME Init PROVE Service!Init
    OBVIOUS
  <1>1. \A c \in Callers : ReadOf(c) = NoRead
    BY IdleBuilt DEF Init, ReadOf
  <1> QED BY <1>1 DEF Init, Service!Init

LEMMA ServiceStep ==
    ASSUME ConfigInv, [Next]_vars
    PROVE  [Service!Next]_(Service!vars)
  <1> USE DEF ConfigInv
  <1>t. TypeOK
    OBVIOUS
  <1>1. ASSUME NEW i \in Items, NEW v \in Values, Change(i, v)
        PROVE  Service!Next
    <2>1. UNCHANGED reads
      BY <1>1 DEF Change, reads, ReadOf
    <2>2. Service!Change(i, v)
      BY <1>1, <2>1 DEF Change, Service!Change, reads
    <2> QED BY <2>2 DEF Service!Next
  <1>2. ASSUME NEW c \in Callers, NEW i \in Items, Hit(c, i)
        PROVE  Service!Next
    <2>1. /\ entries[i].age \in 0..Ttl /\ entries[i].value \in Values
          /\ gone[i][entries[i].value] <= entries[i].age + MaxRead
          /\ gone[i][entries[i].value] \in Nat
      <3>1. entries[i] # NoEntry /\ entries[i].age <= Ttl
        BY <1>2 DEF Hit, Kept
      <3>2. entries[i].age \in 0..Ttl + 1 /\ entries[i].value \in Values
        BY <3>1, <1>t, EntryFields DEF TypeOK
      <3>3. gone[i][entries[i].value] <= entries[i].age + MaxRead
        BY <3>1 DEF Stored, Kept
      <3> QED BY <3>1, <3>2, <3>3, <1>t, Bounds DEF TypeOK
    <2>2. gone[i][entries[i].value] <= MaxStale
      BY <2>1, Bounds
    <2>3. /\ reading'[c] = At("returned", i, entries[i].value)
          /\ \A d \in Callers : d # c => reading'[d] = reading[d]
          /\ UNCHANGED <<source, gone>>
      BY <1>2, <1>t DEF Hit, Moves, TypeOK
    <2> QED BY <2>1, <2>2, <2>3, Served
  <1>3. ASSUME NEW c \in Callers, NEW i \in Items, Miss(c, i)
        PROVE  UNCHANGED Service!vars
    <2>1. /\ reading[c].at = "idle" /\ reading'[c].at = "asking"
          /\ \A d \in Callers : d # c => reading'[d] = reading[d]
          /\ UNCHANGED <<source, gone>>
      BY <1>3, <1>t DEF Miss, Moves, At, TypeOK
    <2>2. \A d \in Callers : ReadOf(d)' = ReadOf(d)
      BY <2>1 DEF ReadOf
    <2> QED BY <2>1, <2>2, Unseen
  <1>4. ASSUME NEW c \in Callers, SourceAnswers(c)
        PROVE  UNCHANGED Service!vars
    <2>1. /\ reading[c].at = "asking" /\ reading'[c].at = "answered"
          /\ \A d \in Callers : d # c => reading'[d] = reading[d]
          /\ UNCHANGED <<source, gone>>
      <3>1. reading[c] \in Reading /\ reading \in [Callers -> Reading]
        BY <1>t DEF TypeOK
      <3>2. \A v : [reading[c] EXCEPT !.at = "answered", !.value = v].at = "answered"
        BY <3>1 DEF Reading
      <3> QED BY <1>4, <3>1, <3>2 DEF SourceAnswers
    <2>2. \A d \in Callers : ReadOf(d)' = ReadOf(d)
      BY <2>1 DEF ReadOf
    <2> QED BY <2>1, <2>2, Unseen
  <1>5. ASSUME NEW c \in Callers, Insert(c)
        PROVE  Service!Next
    <2>1. /\ reading[c].item \in Items /\ reading[c].value \in Values
          /\ gone[reading[c].item][reading[c].value] <= reading[c].time
          /\ reading[c].time \in 0..MaxRead
      BY <1>5, <1>t, ReadingFields DEF Insert, Placed, Travels, TypeOK
    <2>2. gone[reading[c].item][reading[c].value] \in Nat
      BY <2>1, <1>t, Bounds DEF TypeOK
    <2>3. gone[reading[c].item][reading[c].value] <= MaxStale
      BY <2>1, <2>2, Bounds
    <2>4. /\ reading'[c] = At("returned", reading[c].item, reading[c].value)
          /\ \A d \in Callers : d # c => reading'[d] = reading[d]
          /\ UNCHANGED <<source, gone>>
      BY <1>5, <1>t DEF Insert, Moves, TypeOK
    <2> QED BY <2>1, <2>3, <2>4, Served
  <1>6. ASSUME NEW c \in Callers, ReadEnds(c) \/ Return(c)
        PROVE  Service!Next
    <2>1. /\ reading'[c] = Idle
          /\ \A d \in Callers : d # c => reading'[d] = reading[d]
          /\ UNCHANGED <<source, gone>>
      BY <1>6, <1>t DEF ReadEnds, Return, Moves, TypeOK
    <2>2. /\ ReadOf(c)' = NoRead
          /\ \A d \in Callers \ {c} : ReadOf(d)' = ReadOf(d)
      BY <2>1, IdleBuilt DEF ReadOf
    <2> QED BY <2>1, <2>2, Forgotten, {c} \in SUBSET Callers
  <1>7. ASSUME Restart
        PROVE  Service!Next
    <2>1. \A c \in Callers : ReadOf(c)' = NoRead
      BY <1>7, IdleBuilt DEF Restart, ReadOf
    <2>2. UNCHANGED <<source, gone>>
      BY <1>7 DEF Restart
    <2> QED BY <2>1, <2>2, Forgotten, Callers \in SUBSET Callers
  <1>8. ASSUME Tick
        PROVE  Service!Next
    <2>1. \A c \in Callers : ReadOf(c) = NoRead /\ ReadOf(c)' = NoRead
      <3> SUFFICES ASSUME NEW c \in Callers
                   PROVE  ReadOf(c) = NoRead /\ ReadOf(c)' = NoRead
        OBVIOUS
      <3>1. reading[c].at # "returned" /\ reading[c] \in Reading
        BY <1>8, <1>t DEF Tick, TypeOK
      <3>2. reading'[c].at = reading[c].at
        <4>1. \A n : [reading[c] EXCEPT !.time = n].at = reading[c].at
          BY <3>1 DEF Reading
        <4> QED BY <1>8, <4>1 DEF Tick
      <3> QED BY <3>1, <3>2 DEF ReadOf
    <2>2. UNCHANGED <<source, reads>>
      BY <1>8, <2>1 DEF Tick, reads
    <2>3. gone' = [i \in Items |-> [v \in Values |->
                     IF v = source[i] \/ gone[i][v] = Horizon
                     THEN gone[i][v] ELSE gone[i][v] + 1]]
      <3>1. \A i \in Items, v \in Values :
               Later(gone[i][v], Horizon) =
                 IF gone[i][v] = Horizon THEN gone[i][v] ELSE gone[i][v] + 1
        BY <1>t, LaterBounds, Bounds DEF TypeOK
      <3> QED BY <1>8, <3>1 DEF Tick
    <2>4. Service!Age
      BY <2>2, <2>3 DEF Service!Age, reads
    <2> QED BY <2>4 DEF Service!Next
  <1>9. ASSUME UNCHANGED vars
        PROVE  UNCHANGED Service!vars
    <2>1. \A c \in Callers : ReadOf(c)' = ReadOf(c)
      BY <1>9 DEF vars, ReadOf
    <2> QED BY <1>9, <2>1, Unseen DEF vars
  <1> QED BY <1>1, <1>2, <1>3, <1>4, <1>5, <1>6, <1>7, <1>8, <1>9 DEF Next, Look

\* For any number of callers and any limits, what get_role and get_credential
\* return was held by the provider within Ttl + MaxRead, and a restart or a slow
\* reader never brings back an older value (cached.rs:84-133).
THEOREM ConfigRefinement == Spec => ImplementsStaleReads
  <1>1. Spec => []ConfigInv
    BY ConfigInductive
  <1>2. ConfigInv /\ [Next]_vars => [Service!Next]_(Service!vars)
    BY ServiceStep
  <1> QED
    BY <1>1, <1>2, ServiceInit, PTL DEF Spec, ImplementsStaleReads, Service!Spec
=============================================================================
