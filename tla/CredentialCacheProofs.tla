------------------------ MODULE CredentialCacheProofs ------------------------
(* Proofs about CredentialCache, for any callers, identities and timings.   *)
EXTENDS CredentialCache, TLAPS

\* The key determines the identity: scoped_key mixes up no two of them.
LEMMA KeyInjective ==
    ASSUME NEW i \in Identities, NEW j \in Identities,
           ScopedKey(i) = ScopedKey(j)
    PROVE  i = j
  BY DEF Identities, ScopedKey

LEMMA KeyInKeys ==
    ASSUME NEW i \in Identities
    PROVE  ScopedKey(i) \in Keys
  BY DEF Keys

LEMMA OlderType ==
    ASSUME NEW v \in Cred
    PROVE  /\ Older(v) \in Cred
           /\ Older(v).owner = v.owner
           /\ Older(v).life = IF v.life = 0 THEN 0 ELSE v.life - 1
  BY DEF Older, Cred

LEMMA EntryFields ==
    ASSUME NEW e \in Entry \union {NoEntry}, e # NoEntry
    PROVE  /\ e.cred \in Cred
           /\ e.cred.life \in Nat
           /\ e.cred.owner \in Identities
           /\ e.claim \in 0..ClaimTimeout + 1
           /\ e = [cred |-> e.cred, claim |-> e.claim]
  BY DEF Entry, Cred

LEMMA EntryBuilt ==
    ASSUME NEW v \in Cred, NEW n \in 0..ClaimTimeout + 1
    PROVE  /\ [cred |-> v, claim |-> n] \in Entry
           /\ [cred |-> v, claim |-> n] # NoEntry
  BY ConstantsAssumption DEF Entry

LEMMA EntryUpdates ==
    ASSUME NEW e \in Entry
    PROVE  /\ ClaimedEntry(e) = [cred |-> e.cred, claim |-> 0]
           /\ ReleasedEntry(e) = [cred |-> e.cred, claim |-> NoClaim]
           /\ ClaimedEntry(e) \in Entry
           /\ ReleasedEntry(e) \in Entry
           /\ ClaimedEntry(e) # NoEntry
           /\ ReleasedEntry(e) # NoEntry
           /\ ClaimedEntry(e).cred = e.cred /\ ClaimedEntry(e).claim = 0
           /\ ReleasedEntry(e).cred = e.cred /\ ReleasedEntry(e).claim = NoClaim
  BY ConstantsAssumption DEF ClaimedEntry, ReleasedEntry, NoClaim, Entry

LEMMA CallFields ==
    ASSUME NEW x \in Call
    PROVE  /\ x.pc \in {"idle", "waiting", "minted"}
           /\ x.pc = "idle" => x = Idle
           /\ x.pc # "idle" => x.id \in Identities
           /\ x.pc = "minted" => x.cred \in Cred
  BY DEF Call, Idle

LEMMA CallBuilt ==
    ASSUME NEW i \in Identities, NEW v \in Cred
    PROVE  /\ Idle \in Call
           /\ Idle.pc = "idle"
           /\ [pc |-> "waiting", id |-> i] \in Call
           /\ [pc |-> "minted", id |-> i, cred |-> v] \in Call
  BY DEF Call, Idle

-----------------------------------------------------------------------------
(* Type correctness                                                        *)

\* Every step keeps the map, the calls and the answer well formed.
LEMMA TypeStep ==
    ASSUME Typed, [Next]_vars
    PROVE  Typed'
  <1> USE DEF Typed
  <1>1. ASSUME NEW c \in Callers, NEW i \in Identities, Serve(c, i)
        PROVE  Typed'
    <2>1. /\ entries[ScopedKey(i)] \in Entry \union {NoEntry}
          /\ entries[ScopedKey(i)] # NoEntry
      BY <1>1, KeyInKeys DEF Serve, Servable
    <2>2. entries[ScopedKey(i)].cred \in Cred
      BY <2>1, EntryFields
    <2>3. answer' \in Answers \union {NoAnswer}
      BY <1>1, <2>2 DEF Serve, Answers
    <2> QED BY <1>1, <2>3 DEF Serve, history
  <1>2. ASSUME NEW c \in Callers, NEW i \in Identities, StartFetch(c, i)
        PROVE  Typed'
    <2> DEFINE k == ScopedKey(i)
    <2>1. k \in Keys
      BY KeyInKeys
    <2>2. entries' \in [Keys -> Entry \union {NoEntry}]
      <3>1. CASE entries[k] = NoEntry
        BY <1>2, <3>1 DEF StartFetch
      <3>2. CASE entries[k] # NoEntry
        <4>1. ClaimedEntry(entries[k]) \in Entry
          BY <2>1, <3>2, EntryUpdates
        <4> QED BY <1>2, <3>2, <4>1 DEF StartFetch
      <3> QED BY <3>1, <3>2
    <2>3. call' \in [Callers -> Call]
      <3>1. [pc |-> "waiting", id |-> i] \in Call
        BY DEF Call
      <3> QED BY <1>2, <3>1 DEF StartFetch
    <2>4. claimAge' \in [Callers -> 0..ClaimTimeout]
      BY <1>2, ConstantsAssumption DEF StartFetch
    <2> QED BY <1>2, <2>2, <2>3, <2>4 DEF StartFetch, Answers
  <1>3. ASSUME NEW c \in Callers, Mint(c)
        PROVE  Typed'
    <2>1. call[c].id \in Identities
      BY <1>3, CallFields DEF Mint
    <2>2. PICK n \in Lifetimes :
             call' = [call EXCEPT ![c] =
                [pc |-> "minted", id |-> call[c].id,
                 cred |-> [owner |-> call[c].id, life |-> n]]]
      BY <1>3 DEF Mint
    <2>3. [owner |-> call[c].id, life |-> n] \in Cred
      BY <2>1, ConstantsAssumption DEF Cred
    <2>4. call' \in [Callers -> Call]
      BY <2>1, <2>2, <2>3, CallBuilt
    <2> QED BY <1>3, <2>4 DEF Mint, history, Answers
  <1>4. ASSUME NEW c \in Callers, Store(c)
        PROVE  Typed'
    <2>1. /\ call[c].id \in Identities
          /\ call[c].cred \in Cred
      BY <1>4, CallFields DEF Store
    <2>2. KeyOf(c) \in Keys
      BY <2>1, KeyInKeys DEF KeyOf
    <2>3. [cred |-> call[c].cred, claim |-> NoClaim] \in Entry
      BY <2>1, EntryBuilt, ConstantsAssumption DEF NoClaim
    <2>4. entries' \in [Keys -> Entry \union {NoEntry}]
      BY <1>4, <2>2, <2>3 DEF Store
    <2>5. call' \in [Callers -> Call]
      BY <1>4, <2>1, CallBuilt DEF Store
    <2>6. answer' \in Answers \union {NoAnswer}
      BY <1>4, <2>1 DEF Store, Answers
    <2>7. /\ claimAge' \in [Callers -> 0..ClaimTimeout]
          /\ disturbed' \in [Callers -> BOOLEAN]
      BY <1>4, ConstantsAssumption DEF Store, FetchEnded
    <2> QED BY <2>4, <2>5, <2>6, <2>7
  <1>5. ASSUME NEW c \in Callers, Fail(c)
        PROVE  Typed'
    <2>1. call[c].id \in Identities
      BY <1>5, CallFields DEF Fail, Busy
    <2>2. KeyOf(c) \in Keys
      BY <2>1, KeyInKeys DEF KeyOf
    <2>3. entries' \in [Keys -> Entry \union {NoEntry}]
      <3>1. CASE entries[KeyOf(c)] = NoEntry
        BY <1>5, <3>1 DEF Fail
      <3>2. CASE entries[KeyOf(c)] # NoEntry
        <4>1. ReleasedEntry(entries[KeyOf(c)]) \in Entry
          BY <2>2, <3>2, EntryUpdates
        <4> QED BY <1>5, <3>2, <4>1 DEF Fail
      <3> QED BY <3>1, <3>2
    <2>4. call' \in [Callers -> Call]
      BY <1>5 DEF Fail, Call, Idle
    <2>5. answer' \in Answers \union {NoAnswer}
      BY <1>5, <2>1 DEF Fail, Answers
    <2>6. /\ claimAge' \in [Callers -> 0..ClaimTimeout]
          /\ disturbed' \in [Callers -> BOOLEAN]
      BY <1>5, ConstantsAssumption DEF Fail, FetchEnded
    <2> QED BY <2>3, <2>4, <2>5, <2>6
  <1>6. ASSUME NEW c \in Callers, Cancel(c)
        PROVE  Typed'
    <2>1. call' \in [Callers -> Call]
      BY <1>6 DEF Cancel, Call, Idle
    <2>2. /\ claimAge' \in [Callers -> 0..ClaimTimeout]
          /\ disturbed' \in [Callers -> BOOLEAN]
      BY <1>6, ConstantsAssumption DEF Cancel, Forgotten
    <2> QED BY <1>6, <2>1, <2>2 DEF Cancel, Answers
  <1>7. ASSUME Tick
        PROVE  Typed'
    <2>1. entries' \in [Keys -> Entry \union {NoEntry}]
      <3>1. ASSUME NEW k \in Keys, entries[k] # NoEntry
            PROVE  [cred |-> Older(entries[k].cred),
                    claim |-> OlderClaim(entries[k].claim)] \in Entry
        <4>1. /\ entries[k].cred \in Cred
              /\ entries[k].claim \in 0..ClaimTimeout + 1
          BY <3>1, EntryFields
        <4>2. Older(entries[k].cred) \in Cred
          BY <4>1, OlderType
        <4>3. OlderClaim(entries[k].claim) \in 0..ClaimTimeout + 1
          BY <4>1, ConstantsAssumption DEF OlderClaim, Min2, NoClaim
        <4> QED BY <4>2, <4>3, EntryBuilt
      <3> QED BY <1>7, <3>1 DEF Tick
    <2>2. call' \in [Callers -> Call]
      <3>1. ASSUME NEW c \in Callers, call[c].pc = "minted"
            PROVE  [call[c] EXCEPT !.cred = Older(call[c].cred)] \in Call
        <4>1. call[c] \in [pc : {"minted"}, id : Identities, cred : Cred]
          BY <3>1 DEF Call
        <4>2. Older(call[c].cred) \in Cred
          BY <4>1, OlderType
        <4> QED BY <4>1, <4>2 DEF Call
      <3> QED BY <1>7, <3>1 DEF Tick
    <2>3. claimAge' \in [Callers -> 0..ClaimTimeout]
      BY <1>7, ConstantsAssumption DEF Tick, Min2
    <2> QED BY <1>7, <2>1, <2>2, <2>3 DEF Tick, Answers
  <1>8. CASE UNCHANGED vars
    BY <1>8 DEF vars
  <1> QED
    BY <1>1, <1>2, <1>3, <1>4, <1>5, <1>6, <1>7, <1>8
       DEF Next, GetOrFetch, FetchReturns

\* A claim is taken on a credential that is due, which only gets older.
LEMMA DueStep ==
    ASSUME Typed, DueWhenClaimed, [Next]_vars
    PROVE  DueWhenClaimed'
  <1> USE DEF Typed
  <1> SUFFICES ASSUME NEW k \in Keys, entries'[k] # NoEntry,
                      entries'[k].claim # NoClaim
               PROVE  entries'[k].cred.life <= RefreshLead
    BY DEF DueWhenClaimed
  <1>e. /\ entries[k] # NoEntry =>
              /\ entries[k].cred \in Cred /\ entries[k].cred.life \in Nat
              /\ entries[k].claim \in 0..ClaimTimeout + 1
        /\ RefreshLead \in Nat /\ ClaimTimeout \in Nat
        /\ NoClaim = ClaimTimeout + 1
    BY EntryFields, ConstantsAssumption DEF Cred, NoClaim
  <1>1. CASE entries' = entries
    BY <1>1 DEF DueWhenClaimed
  <1>2. ASSUME NEW c \in Callers, NEW i \in Identities, StartFetch(c, i)
        PROVE  entries'[k].cred.life <= RefreshLead
    <2>1. CASE k = ScopedKey(i) /\ entries[k] # NoEntry
      <3>1. entries'[k] = ClaimedEntry(entries[k])
        BY <1>2, <2>1 DEF StartFetch
      <3>2. entries'[k].cred = entries[k].cred
        BY <2>1, <3>1 DEF ClaimedEntry, Entry
      <3>3. ~(entries[k].cred.life > RefreshLead)
        BY <1>2, <2>1 DEF StartFetch, Servable
      <3> QED BY <1>e, <2>1, <3>2, <3>3
    <2>2. CASE k # ScopedKey(i) \/ entries[k] = NoEntry
      <3>1. entries'[k] = entries[k]
        BY <1>2, <2>2 DEF StartFetch
      <3> QED BY <3>1 DEF DueWhenClaimed
    <2> QED BY <2>1, <2>2
  <1>3. ASSUME NEW c \in Callers, Store(c)
        PROVE  entries'[k].cred.life <= RefreshLead
    <2>1. k # KeyOf(c)
      BY <1>3 DEF Store
    <2>2. entries'[k] = entries[k]
      BY <1>3, <2>1 DEF Store
    <2> QED BY <2>2 DEF DueWhenClaimed
  <1>4. ASSUME NEW c \in Callers, Fail(c)
        PROVE  entries'[k].cred.life <= RefreshLead
    <2>1. CASE k = KeyOf(c) /\ entries[k] # NoEntry
      <3>1. entries'[k] = ReleasedEntry(entries[k])
        BY <1>4, <2>1 DEF Fail
      <3>2. entries'[k].claim = NoClaim
        BY <2>1, <3>1 DEF ReleasedEntry, Entry
      <3> QED BY <3>2
    <2>2. CASE k # KeyOf(c) \/ entries[k] = NoEntry
      <3>1. entries'[k] = entries[k]
        BY <1>4, <2>2 DEF Fail
      <3> QED BY <3>1 DEF DueWhenClaimed
    <2> QED BY <2>1, <2>2
  <1>5. ASSUME Tick
        PROVE  entries'[k].cred.life <= RefreshLead
    <2>1. /\ entries[k] # NoEntry
          /\ entries'[k].cred = Older(entries[k].cred)
          /\ entries'[k].claim = OlderClaim(entries[k].claim)
      BY <1>5 DEF Tick
    <2>2. entries[k].claim # NoClaim
      BY <2>1 DEF OlderClaim
    <2>3. entries[k].cred.life <= RefreshLead
      BY <2>1, <2>2 DEF DueWhenClaimed
    <2>4. entries'[k].cred.life <= entries[k].cred.life
          /\ entries'[k].cred.life \in Nat
      BY <1>e, <2>1 DEF Older, Cred
    <2> QED BY <1>e, <2>1, <2>3, <2>4
  <1> QED
    BY <1>1, <1>2, <1>3, <1>4, <1>5
       DEF Next, GetOrFetch, FetchReturns, Serve, Mint, Cancel, vars

\* Type correctness of the cache, for any callers, identities and timings: the
\* map, the calls and the answers stay well formed, and a claim is left on no
\* credential but one that is due for renewal (claim, get_or_fetch).
THEOREM TypeCorrect == Spec => []TypeOK
  <1>1. Init => TypeOK
    BY ConstantsAssumption
       DEF Init, TypeOK, Typed, DueWhenClaimed, Idle, Call, Answers
  <1>2. TypeOK /\ [Next]_vars => TypeOK'
    BY TypeStep, DueStep DEF TypeOK
  <1> QED BY <1>1, <1>2, PTL DEF Spec

-----------------------------------------------------------------------------
(* Ownership: no credential crosses from one identity to another            *)

LEMMA OwnedStep ==
    ASSUME Typed, Typed', CredsOwned, [Next]_vars
    PROVE  CredsOwned'
  <1> USE DEF Typed
  <1>1. ASSUME NEW c \in Callers, NEW i \in Identities, Serve(c, i)
        PROVE  CredsOwned'
    BY <1>1 DEF Serve, CredsOwned
  <1>2. ASSUME NEW c \in Callers, NEW i \in Identities, StartFetch(c, i)
        PROVE  CredsOwned'
    <2>1. ASSUME NEW j \in Identities, entries'[ScopedKey(j)] # NoEntry
          PROVE  /\ entries[ScopedKey(j)] # NoEntry
                 /\ entries'[ScopedKey(j)].cred = entries[ScopedKey(j)].cred
      <3>1. CASE entries[ScopedKey(i)] = NoEntry
        BY <1>2, <2>1, <3>1 DEF StartFetch
      <3>2. CASE entries[ScopedKey(i)] # NoEntry
        <4>1. ClaimedEntry(entries[ScopedKey(i)]).cred = entries[ScopedKey(i)].cred
          BY <3>2, KeyInKeys, EntryUpdates
        <4> QED BY <1>2, <2>1, <3>2, <4>1, KeyInKeys DEF StartFetch
      <3> QED BY <3>1, <3>2
    <2>2. \A d \in Callers : call'[d].pc = "minted" => call'[d] = call[d]
      BY <1>2 DEF StartFetch
    <2> QED BY <2>1, <2>2 DEF CredsOwned
  <1>3. ASSUME NEW c \in Callers, Mint(c)
        PROVE  CredsOwned'
    <2>1. PICK n \in Lifetimes :
             call' = [call EXCEPT ![c] =
                [pc |-> "minted", id |-> call[c].id,
                 cred |-> [owner |-> call[c].id, life |-> n]]]
      BY <1>3 DEF Mint
    <2>2. \A d \in Callers :
             call'[d].pc = "minted" =>
                call'[d].cred.owner = call'[d].id /\ call'[d].id \in Trusted
      BY <1>3, <2>1 DEF Mint, CredsOwned
    <2> QED BY <1>3, <2>2 DEF Mint, CredsOwned
  <1>4. ASSUME NEW c \in Callers, Store(c)
        PROVE  CredsOwned'
    <2>1. /\ call[c].id \in Identities
          /\ call[c].cred.owner = call[c].id
          /\ call[c].id \in Trusted
      BY <1>4, CallFields DEF Store, CredsOwned
    <2>2. ASSUME NEW j \in Identities, entries'[ScopedKey(j)] # NoEntry
          PROVE  entries'[ScopedKey(j)].cred.owner = j /\ j \in Trusted
      <3>1. CASE j = call[c].id
        BY <1>4, <2>1, <3>1, KeyInKeys DEF Store, KeyOf
      <3>2. CASE j # call[c].id
        <4>1. ScopedKey(j) # KeyOf(c)
          BY <2>1, <3>2, KeyInjective DEF KeyOf
        <4> QED BY <1>4, <2>2, <4>1, KeyInKeys DEF Store, CredsOwned
      <3> QED BY <3>1, <3>2
    <2>3. \A d \in Callers : call'[d].pc = "minted" => call'[d] = call[d]
      BY <1>4 DEF Store, Idle
    <2> QED BY <2>2, <2>3 DEF CredsOwned
  <1>5. ASSUME NEW c \in Callers, Fail(c)
        PROVE  CredsOwned'
    <2>1. ASSUME NEW j \in Identities, entries'[ScopedKey(j)] # NoEntry
          PROVE  /\ entries[ScopedKey(j)] # NoEntry
                 /\ entries'[ScopedKey(j)].cred = entries[ScopedKey(j)].cred
      <3>0. KeyOf(c) \in Keys
        BY <1>5, CallFields, KeyInKeys DEF Fail, Busy, KeyOf
      <3>1. CASE entries[KeyOf(c)] = NoEntry
        BY <1>5, <2>1, <3>1 DEF Fail
      <3>2. CASE entries[KeyOf(c)] # NoEntry
        <4>1. ReleasedEntry(entries[KeyOf(c)]).cred = entries[KeyOf(c)].cred
          BY <3>0, <3>2, EntryUpdates
        <4> QED BY <1>5, <2>1, <3>2, <4>1, KeyInKeys DEF Fail
      <3> QED BY <3>1, <3>2
    <2>2. \A d \in Callers : call'[d].pc = "minted" => call'[d] = call[d]
      BY <1>5 DEF Fail, Idle
    <2> QED BY <2>1, <2>2 DEF CredsOwned
  <1>6. ASSUME NEW c \in Callers, Cancel(c)
        PROVE  CredsOwned'
    <2>1. \A d \in Callers : call'[d].pc = "minted" => call'[d] = call[d]
      BY <1>6 DEF Cancel, Idle
    <2> QED BY <1>6, <2>1 DEF Cancel, CredsOwned
  <1>7. ASSUME Tick
        PROVE  CredsOwned'
    <2>1. ASSUME NEW j \in Identities, entries'[ScopedKey(j)] # NoEntry
          PROVE  /\ entries[ScopedKey(j)] # NoEntry
                 /\ entries'[ScopedKey(j)].cred.owner = entries[ScopedKey(j)].cred.owner
      <3>1. ScopedKey(j) \in Keys
        BY KeyInKeys
      <3>2. entries[ScopedKey(j)] # NoEntry
        BY <1>7, <2>1, <3>1 DEF Tick
      <3>3. entries'[ScopedKey(j)].cred = Older(entries[ScopedKey(j)].cred)
        BY <1>7, <3>1, <3>2 DEF Tick
      <3>4. entries[ScopedKey(j)].cred \in Cred
        BY <3>1, <3>2, EntryFields
      <3> QED BY <3>2, <3>3, <3>4, OlderType
    <2>2. ASSUME NEW d \in Callers, call'[d].pc = "minted"
          PROVE  /\ call[d].pc = "minted"
                 /\ call'[d].id = call[d].id
                 /\ call'[d].cred.owner = call[d].cred.owner
      <3>1. call[d].pc = "minted"
        BY <1>7, <2>2 DEF Tick
      <3>2. call[d] \in [pc : {"minted"}, id : Identities, cred : Cred]
        BY <3>1 DEF Call
      <3>3. call'[d] = [call[d] EXCEPT !.cred = Older(call[d].cred)]
        BY <1>7, <3>1 DEF Tick
      <3>4. Older(call[d].cred).owner = call[d].cred.owner
        BY <3>2, OlderType
      <3> QED BY <3>1, <3>2, <3>3, <3>4
    <2> QED BY <2>1, <2>2 DEF CredsOwned
  <1>8. CASE UNCHANGED vars
    BY <1>8 DEF vars, CredsOwned
  <1> QED
    BY <1>1, <1>2, <1>3, <1>4, <1>5, <1>6, <1>7, <1>8
       DEF Next, GetOrFetch, FetchReturns

-----------------------------------------------------------------------------
(* Answers: only Serve and Store hand out credentials                       *)

\* What is handed out belongs to the one who asked.
LEMMA TrustStep ==
    ASSUME Typed, CredsOwned, NoTrustBypass, [Next]_vars
    PROVE  NoTrustBypass'
  <1> USE DEF Typed
  <1>1. ASSUME NEW c \in Callers, NEW i \in Identities, Serve(c, i)
        PROVE  NoTrustBypass'
    BY <1>1 DEF Serve, Servable, CredsOwned, NoTrustBypass
  <1>2. ASSUME NEW c \in Callers, Store(c)
        PROVE  NoTrustBypass'
    BY <1>2 DEF Store, CredsOwned, NoTrustBypass
  <1>3. ASSUME NEW c \in Callers, Fail(c)
        PROVE  NoTrustBypass'
    BY <1>3 DEF Fail, NoTrustBypass
  <1>4. CASE answer' = NoAnswer
    BY <1>4 DEF NoTrustBypass
  <1>5. CASE UNCHANGED vars
    BY <1>5 DEF vars, NoTrustBypass
  <1> QED
    BY <1>1, <1>2, <1>3, <1>4, <1>5
       DEF Next, GetOrFetch, FetchReturns, StartFetch, Mint, Cancel, Tick

\* What comes out of the cache has life left, and is being renewed if it is
\* due.
LEMMA FloorStep ==
    ASSUME Typed, ServedFloor, [Next]_vars
    PROVE  ServedFloor'
  <1> USE DEF Typed
  <1>1. ASSUME NEW c \in Callers, NEW i \in Identities, Serve(c, i)
        PROVE  ServedFloor'
    <2>1. /\ entries[ScopedKey(i)] # NoEntry
          /\ entries[ScopedKey(i)] \in Entry \union {NoEntry}
      BY <1>1, KeyInKeys DEF Serve, Servable
    <2>2. /\ entries[ScopedKey(i)].cred.life \in Nat
          /\ entries[ScopedKey(i)].claim \in 0..ClaimTimeout + 1
      BY <2>1, EntryFields
    <2>3. /\ answer'.cred = entries[ScopedKey(i)].cred
          /\ answer'.id = i
          /\ entries' = entries
      BY <1>1 DEF Serve
    <2>4. entries[ScopedKey(i)].cred.life > MinServe
      BY <1>1, <2>2, ConstantsAssumption DEF Serve, Servable
    <2>5. entries[ScopedKey(i)].cred.life <= RefreshLead
             => entries[ScopedKey(i)].claim < ClaimTimeout
      BY <1>1, <2>2, ConstantsAssumption DEF Serve, Servable
    <2> QED BY <2>3, <2>4, <2>5 DEF ServedFloor
  <1>2. ASSUME NEW c \in Callers, Store(c)
        PROVE  ServedFloor'
    BY <1>2 DEF Store, ServedFloor
  <1>3. ASSUME NEW c \in Callers, Fail(c)
        PROVE  ServedFloor'
    BY <1>3 DEF Fail, ServedFloor
  <1>4. CASE answer' = NoAnswer
    BY <1>4 DEF ServedFloor
  <1>5. CASE UNCHANGED vars
    BY <1>5 DEF vars, ServedFloor
  <1> QED
    BY <1>1, <1>2, <1>3, <1>4, <1>5
       DEF Next, GetOrFetch, FetchReturns, StartFetch, Mint, Cancel, Tick

-----------------------------------------------------------------------------
(* Single flight: what the claim protects                                   *)

\* The steps that touch neither a renewal nor the entry it claimed.
LEMMA QuietRenewal ==
    ASSUME NEW d \in Callers, Renewing(d)', ~disturbed'[d],
           call[d].pc # "idle", call'[d].id = call[d].id,
           claimAge'[d] = claimAge[d], disturbed'[d] = disturbed[d]
    PROVE  /\ Renewing(d)
           /\ ~disturbed[d]
           /\ KeyOf(d)' = KeyOf(d)
  BY DEF Renewing, Busy, KeyOf

\* The claim of an undisturbed renewal stays on its entry.
LEMMA ClaimStep ==
    ASSUME Typed, Typed', ClaimKept, [Next]_vars
    PROVE  ClaimKept'
  <1> USE DEF Typed
  <1>a. SUFFICES ASSUME NEW d \in Callers, Renewing(d)', ~disturbed'[d]
                 PROVE  /\ entries'[KeyOf(d)'] # NoEntry
                        /\ entries'[KeyOf(d)'].claim <= claimAge'[d]
    BY DEF ClaimKept
  <1>b. /\ call'[d].pc # "idle"
        /\ claimAge'[d] < ClaimTimeout
    BY <1>a DEF Renewing, Busy
  <1>1. ASSUME NEW c \in Callers, NEW i \in Identities, StartFetch(c, i)
        PROVE  /\ entries'[KeyOf(d)'] # NoEntry
               /\ entries'[KeyOf(d)'].claim <= claimAge'[d]
    <2> DEFINE k == ScopedKey(i)
    <2>0. k \in Keys
      BY KeyInKeys
    <2>1. CASE d = c
      <3>1. /\ claimAge'[c] = 0
            /\ entries[k] # NoEntry
        BY <1>1, <1>b, <2>1, ConstantsAssumption DEF StartFetch
      <3>2. entries'[k] = ClaimedEntry(entries[k])
        BY <1>1, <2>0, <3>1 DEF StartFetch
      <3>3. KeyOf(d)' = k
        BY <1>1, <2>1 DEF StartFetch, KeyOf
      <3> QED BY <2>0, <2>1, <3>1, <3>2, <3>3, EntryUpdates
    <2>2. CASE d # c
      <3>1. /\ call'[d] = call[d]
            /\ claimAge'[d] = claimAge[d]
            /\ disturbed'[d] = disturbed[d]
        BY <1>1, <2>2 DEF StartFetch
      <3>2. /\ Renewing(d) /\ ~disturbed[d]
            /\ KeyOf(d)' = KeyOf(d)
        BY <1>a, <1>b, <3>1, QuietRenewal
      <3>3. /\ entries[KeyOf(d)] # NoEntry
            /\ entries[KeyOf(d)].claim <= claimAge[d]
        BY <3>2 DEF ClaimKept
      <3>4. CASE KeyOf(d) = k
        <4>1. entries'[k] = ClaimedEntry(entries[k])
          BY <1>1, <2>0, <3>3, <3>4 DEF StartFetch
        <4>2. /\ entries'[k] # NoEntry
              /\ entries'[k].claim = 0
          BY <2>0, <3>3, <3>4, <4>1, EntryUpdates
        <4>3. claimAge'[d] >= 0
          BY ConstantsAssumption
        <4> QED BY <3>2, <3>4, <4>2, <4>3
      <3>5. CASE KeyOf(d) # k
        <4>1. entries'[KeyOf(d)] = entries[KeyOf(d)]
          BY <1>1, <3>5 DEF StartFetch
        <4> QED BY <3>1, <3>2, <3>3, <4>1
      <3> QED BY <3>4, <3>5
    <2> QED BY <2>1, <2>2
  <1>2. ASSUME NEW c \in Callers, Store(c) \/ Fail(c)
        PROVE  /\ entries'[KeyOf(d)'] # NoEntry
               /\ entries'[KeyOf(d)'].claim <= claimAge'[d]
    <2>1. d # c
      BY <1>2, <1>b DEF Store, Fail, Idle
    <2>2. /\ call'[d] = call[d]
          /\ claimAge'[d] = claimAge[d]
      BY <1>2, <2>1 DEF Store, Fail, FetchEnded
    <2>3. /\ ~disturbed[d]
          /\ Busy(d) => KeyOf(d) # KeyOf(c)
      BY <1>2, <1>a, <2>1 DEF Store, Fail, FetchEnded
    <2>4. /\ Renewing(d)
          /\ KeyOf(d)' = KeyOf(d)
          /\ KeyOf(d) # KeyOf(c)
      BY <1>b, <2>2, <2>3 DEF Renewing, Busy, KeyOf
    <2>5. entries'[KeyOf(d)] = entries[KeyOf(d)]
      <3>1. KeyOf(d) \in Keys
        BY <2>4, CallFields, KeyInKeys DEF KeyOf, Renewing, Busy
      <3> QED BY <1>2, <2>4, <3>1 DEF Store, Fail
    <2> QED BY <2>2, <2>3, <2>4, <2>5 DEF ClaimKept
  <1>3. ASSUME NEW c \in Callers, Mint(c)
        PROVE  /\ entries'[KeyOf(d)'] # NoEntry
               /\ entries'[KeyOf(d)'].claim <= claimAge'[d]
    <2>1. /\ call[d].pc # "idle"
          /\ call'[d].id = call[d].id
      BY <1>3, <1>b DEF Mint
    <2>2. /\ Renewing(d) /\ ~disturbed[d]
          /\ KeyOf(d)' = KeyOf(d)
      BY <1>3, <1>a, <2>1, QuietRenewal DEF Mint, history
    <2> QED BY <1>3, <2>2 DEF Mint, history, ClaimKept
  <1>4. ASSUME NEW c \in Callers, Cancel(c)
        PROVE  /\ entries'[KeyOf(d)'] # NoEntry
               /\ entries'[KeyOf(d)'].claim <= claimAge'[d]
    <2>1. d # c
      BY <1>4, <1>b DEF Cancel, Idle
    <2>2. /\ call'[d] = call[d]
          /\ claimAge'[d] = claimAge[d]
          /\ disturbed'[d] = disturbed[d]
      BY <1>4, <2>1 DEF Cancel, Forgotten
    <2>3. /\ Renewing(d) /\ ~disturbed[d]
          /\ KeyOf(d)' = KeyOf(d)
      BY <1>a, <1>b, <2>2, QuietRenewal
    <2> QED BY <1>4, <2>2, <2>3 DEF Cancel, ClaimKept
  <1>5. ASSUME Tick
        PROVE  /\ entries'[KeyOf(d)'] # NoEntry
               /\ entries'[KeyOf(d)'].claim <= claimAge'[d]
    <2>1. /\ claimAge'[d] = claimAge[d] + 1
          /\ claimAge[d] < ClaimTimeout
      BY <1>5, <1>b, ConstantsAssumption DEF Tick, Min2
    <2>2. /\ call[d].pc # "idle"
          /\ call'[d].id = call[d].id
      <3>1. CASE call[d].pc = "minted"
        <4>1. call[d] \in [pc : {"minted"}, id : Identities, cred : Cred]
          BY <3>1 DEF Call
        <4>2. call'[d] = [call[d] EXCEPT !.cred = Older(call[d].cred)]
          BY <1>5, <3>1 DEF Tick
        <4> QED BY <4>1, <4>2
      <3>2. CASE call[d].pc # "minted"
        BY <1>5, <1>b, <3>2 DEF Tick
      <3> QED BY <3>1, <3>2
    <2>3. /\ Renewing(d)
          /\ ~disturbed[d]
          /\ KeyOf(d)' = KeyOf(d)
      BY <1>5, <1>a, <2>1, <2>2 DEF Tick, Renewing, Busy, KeyOf
    <2>4. /\ entries[KeyOf(d)] # NoEntry
          /\ entries[KeyOf(d)].claim <= claimAge[d]
      BY <2>3 DEF ClaimKept
    <2>5. KeyOf(d) \in Keys
      BY <2>2, CallFields, KeyInKeys DEF KeyOf
    <2>6. entries[KeyOf(d)] \in Entry
      BY <2>4, <2>5
    <2>7. /\ entries[KeyOf(d)].claim \in 0..ClaimTimeout + 1
          /\ entries[KeyOf(d)].cred \in Cred
      BY <2>4, <2>6, EntryFields
    <2>8. OlderClaim(entries[KeyOf(d)].claim) = entries[KeyOf(d)].claim + 1
      BY <2>1, <2>4, <2>7, ConstantsAssumption DEF OlderClaim, NoClaim, Min2
    <2>9. entries'[KeyOf(d)] = [cred |-> Older(entries[KeyOf(d)].cred),
                                claim |-> entries[KeyOf(d)].claim + 1]
      BY <1>5, <2>4, <2>5, <2>8 DEF Tick
    <2>10. entries'[KeyOf(d)] # NoEntry
      <3>1. Older(entries[KeyOf(d)].cred) \in Cred
        BY <2>7, OlderType
      <3>2. entries[KeyOf(d)].claim + 1 \in 0..ClaimTimeout + 1
        BY <2>1, <2>4, <2>7, ConstantsAssumption
      <3> QED BY <2>9, <3>1, <3>2, EntryBuilt
    <2>11. entries'[KeyOf(d)].claim <= claimAge'[d]
      BY <2>1, <2>4, <2>7, <2>9, ConstantsAssumption
    <2> QED BY <2>3, <2>10, <2>11
  <1>6. CASE UNCHANGED <<entries, call, history>>
    BY <1>6, <1>a DEF history, ClaimKept, Renewing, Busy, KeyOf
  <1> QED
    BY <1>1, <1>2, <1>3, <1>4, <1>5, <1>6
       DEF Next, GetOrFetch, FetchReturns, Serve, vars, history

\* A renewal that begins finds no live undisturbed one on its key.
LEMMA FlightStep ==
    ASSUME Typed, Typed', ClaimKept, SingleFlight, [Next]_vars
    PROVE  SingleFlight'
  <1> USE DEF Typed
  <1>1. ASSUME NEW c \in Callers, NEW i \in Identities, StartFetch(c, i)
        PROVE  SingleFlight'
    <2> DEFINE k == ScopedKey(i)
    <2>1. ASSUME NEW d \in Callers, d # c, Renewing(c)', Renewing(d)',
                 KeyOf(c)' = KeyOf(d)'
          PROVE  disturbed'[d]
      <3>1. /\ claimAge'[c] < ClaimTimeout
            /\ KeyOf(c)' = k
        BY <1>1, <2>1 DEF StartFetch, Renewing, KeyOf
      <3>2. /\ entries[k] # NoEntry
            /\ entries[k].cred.life > MinServe
            /\ ~Servable(entries[k])
        BY <1>1, <3>1, ConstantsAssumption DEF StartFetch
      <3>3. ~(entries[k].claim < ClaimTimeout)
        BY <3>2 DEF Servable
      <3>4. /\ Renewing(d)
            /\ KeyOf(d) = k
            /\ disturbed'[d] = disturbed[d]
            /\ claimAge[d] < ClaimTimeout
        BY <1>1, <2>1, <3>1 DEF StartFetch, Renewing, Busy, KeyOf
      <3>5. entries[k].claim \in 0..ClaimTimeout + 1
        BY <3>2, KeyInKeys, EntryFields
      <3>6. disturbed[d] \/ entries[k].claim <= claimAge[d]
        BY <3>4 DEF ClaimKept
      <3>7. claimAge[d] \in 0..ClaimTimeout
        OBVIOUS
      <3> QED BY <3>3, <3>4, <3>5, <3>6, <3>7, ConstantsAssumption
    <2>2. ASSUME NEW d \in Callers, d # c
          PROVE  /\ Renewing(d)' <=> Renewing(d)
                 /\ KeyOf(d)' = KeyOf(d)
                 /\ disturbed'[d] = disturbed[d]
      BY <1>1, <2>2 DEF StartFetch, Renewing, Busy, KeyOf
    <2> QED BY <2>1, <2>2 DEF SingleFlight
  <1>2. ASSUME \A d \in Callers :
                  Renewing(d)' => /\ Renewing(d)
                                  /\ KeyOf(d)' = KeyOf(d)
                                  /\ disturbed[d] => disturbed'[d]
        PROVE  SingleFlight'
    BY <1>2 DEF SingleFlight
  <1>3. ASSUME NEW c \in Callers, Store(c) \/ Fail(c) \/ Cancel(c)
        PROVE  SingleFlight'
    <2>1. ASSUME NEW d \in Callers, Renewing(d)'
          PROVE  /\ Renewing(d)
                 /\ KeyOf(d)' = KeyOf(d)
                 /\ disturbed[d] => disturbed'[d]
      <3>1. d # c
        BY <1>3, <2>1 DEF Store, Fail, Cancel, Idle, Renewing, Busy
      <3>2. call'[d] = call[d] /\ claimAge'[d] = claimAge[d]
        BY <1>3, <3>1 DEF Store, Fail, Cancel, FetchEnded, Forgotten
      <3>3. disturbed[d] => disturbed'[d]
        BY <1>3, <3>1 DEF Store, Fail, Cancel, FetchEnded, Forgotten
      <3> QED BY <2>1, <3>2, <3>3 DEF Renewing, Busy, KeyOf
    <2> QED BY <1>2, <2>1
  <1>4. ASSUME NEW c \in Callers, Mint(c)
        PROVE  SingleFlight'
    <2>1. ASSUME NEW d \in Callers
          PROVE  /\ call'[d].pc # "idle" => call[d].pc # "idle"
                 /\ call'[d].pc # "idle" => call'[d].id = call[d].id
      BY <1>4 DEF Mint
    <2>2. UNCHANGED <<claimAge, disturbed>>
      BY <1>4 DEF Mint, history
    <2> QED BY <1>2, <2>1, <2>2 DEF Renewing, Busy, KeyOf
  <1>5. ASSUME Tick
        PROVE  SingleFlight'
    <2>1. ASSUME NEW d \in Callers
          PROVE  /\ call'[d].pc = call[d].pc
                 /\ call[d].pc # "idle" => call'[d].id = call[d].id
      <3>1. CASE call[d].pc = "minted"
        <4>1. call[d] \in [pc : {"minted"}, id : Identities, cred : Cred]
          BY <3>1 DEF Call
        <4>2. call'[d] = [call[d] EXCEPT !.cred = Older(call[d].cred)]
          BY <1>5, <3>1 DEF Tick
        <4> QED BY <4>1, <4>2
      <3>2. CASE call[d].pc # "minted"
        BY <1>5, <3>2 DEF Tick
      <3> QED BY <3>1, <3>2
    <2>2. ASSUME NEW d \in Callers, claimAge'[d] < ClaimTimeout
          PROVE  claimAge[d] < ClaimTimeout
      BY <1>5, <2>2, ConstantsAssumption DEF Tick, Min2
    <2>3. disturbed' = disturbed
      BY <1>5 DEF Tick
    <2> QED BY <1>2, <2>1, <2>2, <2>3 DEF Renewing, Busy, KeyOf
  <1>6. CASE UNCHANGED <<entries, call, history>>
    BY <1>6, <1>2 DEF history, Renewing, Busy, KeyOf
  <1> QED
    BY <1>1, <1>3, <1>4, <1>5, <1>6
       DEF Next, GetOrFetch, FetchReturns, Serve, vars, history

-----------------------------------------------------------------------------
(* The theorems                                                            *)

\* CacheInv is inductive, so it holds in every reachable state.
THEOREM Inductive == Spec => []CacheInv
  <1>1. Init => CacheInv
    <2> SUFFICES ASSUME Init PROVE CacheInv
      OBVIOUS
    <2>1. TypeOK
      BY ConstantsAssumption
         DEF Init, TypeOK, Typed, DueWhenClaimed, Idle, Call, Answers
    <2>2. CredsOwned
      BY KeyInKeys DEF Init, CredsOwned, Idle
    <2>3. NoTrustBypass /\ ServedFloor
      BY DEF Init, NoTrustBypass, ServedFloor
    <2>4. ClaimKept /\ SingleFlight
      BY DEF Init, ClaimKept, SingleFlight, Renewing, Busy, Idle
    <2> QED BY <2>1, <2>2, <2>3, <2>4 DEF CacheInv
  <1>2. CacheInv /\ [Next]_vars => CacheInv'
    BY TypeStep, DueStep, OwnedStep, TrustStep, FloorStep, ClaimStep, FlightStep
       DEF CacheInv, TypeOK
  <1> QED BY <1>1, <1>2, PTL DEF Spec

\* No subject is served a credential issued to another, and none the trust
\* policy rejects is served at all (scoped_key, get_or_fetch).
THEOREM TrustSafe == Spec => []NoTrustBypass
  <1>1. CacheInv => NoTrustBypass
    BY DEF CacheInv
  <1> QED BY <1>1, Inductive, PTL

\* The cache hands out nothing with MIN_SERVE_SECS or less to live, and
\* nothing due for renewal that nobody claimed to renew (claim).
THEOREM FloorSafe == Spec => []ServedFloor
  <1>1. CacheInv => ServedFloor
    BY DEF CacheInv
  <1> QED BY <1>1, Inductive, PTL

\* Two live renewals of one key overlap only after some fetch of that key
\* ended beside one of them (claim, get_or_fetch).
THEOREM FlightSafe == Spec => []SingleFlight
  <1>1. CacheInv => SingleFlight
    BY DEF CacheInv
  <1> QED BY <1>1, Inductive, PTL

-----------------------------------------------------------------------------
(* The cache implements the plain credential service                        *)

LEMMA InVault ==
    ASSUME NEW v
    PROVE  v \in Vault <=>
              \/ \E k \in Keys : entries[k] # NoEntry /\ v = entries[k].cred
              \/ \E c \in Callers : call[c].pc = "minted" /\ v = call[c].cred
  BY DEF Vault

LEMMA InVaultNext ==
    ASSUME NEW v
    PROVE  v \in Vault' <=>
              \/ \E k \in Keys : entries'[k] # NoEntry /\ v = entries'[k].cred
              \/ \E c \in Callers : call'[c].pc = "minted" /\ v = call'[c].cred
  BY DEF Vault

\* The steps that bring no credential into the process.
LEMMA VaultShrinks ==
    ASSUME \A k \in Keys : entries'[k] # NoEntry =>
              entries'[k].cred \in Vault,
           \A c \in Callers : call'[c].pc = "minted" =>
              call[c].pc = "minted" /\ call'[c].cred = call[c].cred
    PROVE  Vault' \subseteq Vault
  <1> SUFFICES ASSUME NEW v \in Vault' PROVE v \in Vault
    OBVIOUS
  <1> QED BY InVault, InVaultNext

\* Each step of the cache is a step of the service, or none.
LEMMA ServiceStep ==
    ASSUME Typed, Typed', CredsOwned, [Next]_vars
    PROVE  [Service!Next]_(Service!vars)
  <1> USE DEF Typed
  <1>1. ASSUME NEW c \in Callers, NEW i \in Identities, Serve(c, i)
        PROVE  Service!Next
    <2> DEFINE e == entries[ScopedKey(i)]
    <2>1. /\ e # NoEntry
          /\ e \in Entry \union {NoEntry}
      BY <1>1, KeyInKeys DEF Serve, Servable
    <2>2. e.cred.life \in Nat
      BY <2>1, EntryFields
    <2>3. /\ e.cred \in Vault
          /\ e.cred.owner = i
          /\ e.cred.life > MinServe
      BY <1>1, <2>1, <2>2, KeyInKeys, InVault, ConstantsAssumption
         DEF Serve, Servable, CredsOwned
    <2>4. answer' = [caller |-> c, id |-> i, ok |-> TRUE,
                     source |-> "cache", cred |-> e.cred]
      BY <1>1 DEF Serve
    <2>5. Vault' \subseteq Vault
      BY <1>1 DEF Serve, Vault
    <2>6. Service!Answer(c, i)
      BY <2>3, <2>4, <2>5 DEF Service!Answer
    <2> QED BY <2>6 DEF Service!Next
  <1>2. ASSUME NEW c \in Callers, NEW i \in Identities, StartFetch(c, i)
        PROVE  Service!Next
    <2>1. ASSUME NEW k \in Keys, entries'[k] # NoEntry
          PROVE  entries'[k].cred \in Vault
      <3>1. CASE entries[ScopedKey(i)] = NoEntry \/ k # ScopedKey(i)
        <4>1. entries'[k] = entries[k]
          BY <1>2, <3>1 DEF StartFetch
        <4> QED BY <2>1, <4>1, InVault
      <3>2. CASE entries[ScopedKey(i)] # NoEntry /\ k = ScopedKey(i)
        <4>1. entries'[k] = ClaimedEntry(entries[k])
          BY <1>2, <3>2 DEF StartFetch
        <4> QED BY <3>2, <4>1, EntryUpdates, InVault
      <3> QED BY <3>1, <3>2
    <2>2. \A d \in Callers : call'[d].pc = "minted" =>
              call[d].pc = "minted" /\ call'[d].cred = call[d].cred
      BY <1>2 DEF StartFetch
    <2>3. Vault' \subseteq Vault
      BY <2>1, <2>2, VaultShrinks
    <2> QED BY <1>2, <2>3 DEF StartFetch, Service!Forget, Service!Next
  <1>3. ASSUME NEW c \in Callers, Mint(c)
        PROVE  Service!Next
    <2>1. PICK n \in Lifetimes :
             call' = [call EXCEPT ![c] =
                [pc |-> "minted", id |-> call[c].id,
                 cred |-> [owner |-> call[c].id, life |-> n]]]
      BY <1>3 DEF Mint
    <2> DEFINE new == [owner |-> call[c].id, life |-> n]
    <2>2. /\ call[c].pc = "waiting"
          /\ call'[c].pc = "minted"
          /\ call'[c].cred = new
          /\ entries' = entries
          /\ \A d \in Callers : d # c => call'[d] = call[d]
      BY <1>3, <2>1 DEF Mint
    <2>3. ASSUME NEW v
          PROVE  v \in Vault' <=> v \in Vault \union {new}
      BY <2>2, InVault, InVaultNext
    <2>4. Vault' = Vault \union {new}
      BY <2>3
    <2>5. Service!Mint
      BY <1>3, <2>4 DEF Mint, Service!Mint
    <2> QED BY <2>5 DEF Service!Next
  <1>4. ASSUME NEW c \in Callers, Store(c)
        PROVE  Service!Next
    <2>1. /\ call[c].id \in Identities
          /\ call[c].pc = "minted"
          /\ call[c].cred.owner = call[c].id
          /\ call[c].cred \in Vault
      BY <1>4, CallFields, InVault DEF Store, CredsOwned
    <2>2. ASSUME NEW k \in Keys, entries'[k] # NoEntry
          PROVE  entries'[k].cred \in Vault
      BY <1>4, <2>1, <2>2, InVault DEF Store
    <2>3. \A d \in Callers : call'[d].pc = "minted" =>
              call[d].pc = "minted" /\ call'[d].cred = call[d].cred
      BY <1>4 DEF Store, Idle
    <2>4. Vault' \subseteq Vault
      BY <2>2, <2>3, VaultShrinks
    <2>5. Service!Answer(c, call[c].id)
      BY <1>4, <2>1, <2>4 DEF Store, Service!Answer
    <2> QED BY <2>1, <2>5 DEF Service!Next
  <1>5. ASSUME NEW c \in Callers, Fail(c)
        PROVE  Service!Next
    <2>1. call[c].id \in Identities
      BY <1>5, CallFields DEF Fail, Busy
    <2>2. ASSUME NEW k \in Keys, entries'[k] # NoEntry
          PROVE  entries'[k].cred \in Vault
      <3>1. CASE entries[KeyOf(c)] = NoEntry \/ k # KeyOf(c)
        <4>1. entries'[k] = entries[k]
          BY <1>5, <3>1 DEF Fail
        <4> QED BY <2>2, <4>1, InVault
      <3>2. CASE entries[KeyOf(c)] # NoEntry /\ k = KeyOf(c)
        <4>1. entries'[k] = ReleasedEntry(entries[k])
          BY <1>5, <3>2 DEF Fail
        <4> QED BY <3>2, <4>1, EntryUpdates, InVault
      <3> QED BY <3>1, <3>2
    <2>3. \A d \in Callers : call'[d].pc = "minted" =>
              call[d].pc = "minted" /\ call'[d].cred = call[d].cred
      BY <1>5 DEF Fail, Idle
    <2>4. Vault' \subseteq Vault
      BY <2>2, <2>3, VaultShrinks
    <2>5. Service!Refuse(c, call[c].id)
      BY <1>5, <2>4 DEF Fail, Service!Refuse
    <2> QED BY <2>1, <2>5 DEF Service!Next
  <1>6. ASSUME NEW c \in Callers, Cancel(c)
        PROVE  Service!Next
    <2>1. \A d \in Callers : call'[d].pc = "minted" =>
              call[d].pc = "minted" /\ call'[d].cred = call[d].cred
      BY <1>6 DEF Cancel, Idle
    <2>2. Vault' \subseteq Vault
      BY <1>6, <2>1, VaultShrinks, InVault DEF Cancel
    <2> QED BY <1>6, <2>2 DEF Cancel, Service!Forget, Service!Next
  <1>7. ASSUME Tick
        PROVE  Service!Next
    <2>1. \A v : Service!Older(v) = Older(v)
      BY DEF Service!Older, Older
    <2>2. ASSUME NEW k \in Keys
          PROVE  /\ entries'[k] # NoEntry <=> entries[k] # NoEntry
                 /\ entries[k] # NoEntry => entries'[k].cred = Older(entries[k].cred)
      <3>1. CASE entries[k] = NoEntry
        BY <1>7, <3>1 DEF Tick
      <3>2. CASE entries[k] # NoEntry
        <4>1. entries'[k] = [cred |-> Older(entries[k].cred),
                             claim |-> OlderClaim(entries[k].claim)]
          BY <1>7, <3>2 DEF Tick
        <4>2. /\ Older(entries[k].cred) \in Cred
              /\ OlderClaim(entries[k].claim) \in 0..ClaimTimeout + 1
          BY <3>2, EntryFields, OlderType, ConstantsAssumption
             DEF OlderClaim, Min2, NoClaim
        <4> QED BY <3>2, <4>1, <4>2, EntryBuilt
      <3> QED BY <3>1, <3>2
    <2>3. ASSUME NEW d \in Callers
          PROVE  /\ call'[d].pc = "minted" <=> call[d].pc = "minted"
                 /\ call[d].pc = "minted" => call'[d].cred = Older(call[d].cred)
      <3>1. CASE call[d].pc = "minted"
        <4>1. call[d] \in [pc : {"minted"}, id : Identities, cred : Cred]
          BY <3>1 DEF Call
        <4>2. call'[d] = [call[d] EXCEPT !.cred = Older(call[d].cred)]
          BY <1>7, <3>1 DEF Tick
        <4> QED BY <3>1, <4>1, <4>2
      <3>2. CASE call[d].pc # "minted"
        BY <1>7, <3>2 DEF Tick
      <3> QED BY <3>1, <3>2
    <2>4. ASSUME NEW w
          PROVE  w \in Vault' <=> \E v \in Vault : w = Older(v)
      BY <2>2, <2>3, InVault, InVaultNext
    <2>5. Vault' = {Service!Older(v) : v \in Vault}
      BY <2>1, <2>4
    <2> QED BY <1>7, <2>5 DEF Tick, Service!Age, Service!Next
  <1>8. CASE UNCHANGED vars
    BY <1>8 DEF vars, Vault, Service!vars
  <1> QED
    BY <1>1, <1>2, <1>3, <1>4, <1>5, <1>6, <1>7, <1>8
       DEF Next, GetOrFetch, FetchReturns

\* The cache, with all its races, gives no answer the plain service could
\* not give: credentials are neither invented nor rejuvenated on the way.
THEOREM Refinement == Spec => ImplementsService
  <1>1. Init => Service!Init
    BY DEF Init, Service!Init, Vault, Idle
  <1>2. CacheInv /\ CacheInv' /\ [Next]_vars => [Service!Next]_(Service!vars)
    BY ServiceStep DEF CacheInv, TypeOK
  <1> QED BY <1>1, <1>2, Inductive, PTL DEF Spec, ImplementsService, Service!Spec
==============================================================================
