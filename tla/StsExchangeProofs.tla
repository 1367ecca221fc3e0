-------------------------- MODULE StsExchangeProofs --------------------------
(* Proofs about StsExchange, for any roles, tokens, sealing keys and limits. *)
(*                                                                           *)
(* Every step of an exchange is one of the key cache or leaves it alone, so  *)
(* the invariant of JwksCache and its refinement carry over. To them come    *)
(* the age of a role in the hands of an exchange, which the time of its      *)
(* fetch bounds, and what a session rests on, which grows old as fast as     *)
(* the session is spent.                                                     *)
EXTENDS StsExchange, JwksCacheProofs, Integers

\* An exchange in progress has held its role no longer than it waits for keys.
RoleInHand(c) ==
    lookup[c].at # "idle" =>
        /\ exchange[c] \in Exchange
        /\ lookup[c].at = "missed" => exchange[c].old = 0
        /\ lookup[c].at \in Waiting => exchange[c].old <= lookup[c].time
        /\ exchange[c].old <= MaxFetch

RoleOfSession ==
    session # NoSession =>
        /\ session.life <= session.role.max
        /\ session.old <= MaxFetch + Spent(session)

KeyOfSession ==
    session # NoSession =>
        \E S \in KeySets :
            /\ session.kid \in S
            /\ gone[session.issuer][S] <= MaxStale + Spent(session)

StsInv ==
    /\ JwksInv
    /\ StsTypeOK
    /\ \A c \in Callers : RoleInHand(c)
    /\ RoleOfSession
    /\ KeyOfSession

-----------------------------------------------------------------------------
(* Values.                                                                   *)

LEMMA StsBounds ==
    /\ MinSession \in Nat /\ MinSession >= 1
    /\ DefaultSession \in Nat /\ MaxSession \in Nat
    /\ \A r \in Roles : r \in Role /\ r.max \in 0..MaxSession
    /\ \A t \in Tokens : t \in Token /\ t.issuer \in Issuers /\ t.kid \in Keys
  BY StsAssumption DEF Role, Token

LEMMA ExchangeFields ==
    ASSUME NEW x \in Exchange
    PROVE  /\ x.id \in RoleIds /\ x.role \in Roles
           /\ x.old \in 0..MaxFetch + 1
           /\ \A n \in 0..MaxFetch + 1 :
                 /\ [x EXCEPT !.old = n] \in Exchange
                 /\ [x EXCEPT !.old = n].old = n
  BY DEF Exchange

LEMMA SessionFields ==
    ASSUME NEW s \in Session
    PROVE  /\ s.id \in RoleIds /\ s.role \in Roles
           /\ s.life \in 0..MaxSession /\ s.role.max \in 0..MaxSession
           /\ s.issuer \in Issuers /\ s.kid \in Keys
           /\ s.old \in 0..MaxFetch + MaxSession + 1
  BY StsBounds DEF Session

\* What a session lasts is within what its role allows.
LEMMA DurationBounds ==
    ASSUME NEW asked \in Requested, NEW r \in Roles, Clampable(r)
    PROVE  Duration(asked, r) \in 0..r.max
  BY StsBounds, StsAssumption DEF Duration, Clampable

-----------------------------------------------------------------------------
(* The key cache in the exchange.                                            *)

LEMMA StsProjects ==
    ASSUME [StsNext]_allVars
    PROVE  [Next]_vars
  BY DEF StsNext, allVars, Issuer, Configure, Begin, Await, Abandon, Decide,
         StsRestart, StsTick, Next, Drop

LEMMA ProceedMoves ==
    ASSUME JwksInv, NEW c \in Callers, Proceed(c)
    PROVE  /\ \A d \in Callers : d # c =>
                 /\ lookup'[d].at = lookup[d].at
                 /\ lookup'[d].time = lookup[d].time
           /\ lookup[c].at # "idle"
           /\ \/ lookup[c].at = "missed" /\ lookup'[c].at = "backedOff"
              \/ /\ lookup[c].at = "missed"
                 /\ lookup'[c].at = "fetching" /\ lookup'[c].time = 0
              \/ /\ lookup[c].at \in Waiting
                 /\ lookup'[c].at = "answered"
                 /\ lookup'[c].time = lookup[c].time
              \/ lookup'[c].at \in {"stored", "returned", "failed"}
           /\ gone' = gone
  <1>t. lookup \in [Callers -> Lookup]
    BY DEF JwksInv, Typed
  <1>1. CASE BackOff(c) \/ StartFetch(c) \/ ClearFailure(c) \/ FetchFails(c)
    BY <1>1, <1>t
    DEF BackOff, StartFetch, ClearFailure, FetchFails, Moves, At, Waiting
  <1>2. CASE IssuerAnswers(c)
    BY <1>2, InvAnswers DEF IssuerAnswers, Waiting
  <1>3. CASE StoreEntry(c)
    BY <1>3, InvStore DEF StoreEntry
  <1> QED BY <1>1, <1>2, <1>3 DEF Proceed

\* Time and restarts apart, nothing makes a key set older.
LEMMA GoneShrinks ==
    ASSUME Typed, Issuer
    PROVE  \A j \in Issuers, R \in KeySets :
              /\ gone'[j][R] \in Nat /\ gone[j][R] \in Nat
              /\ gone'[j][R] <= gone[j][R]
  <1>1. \A j \in Issuers, R \in KeySets : gone[j][R] \in 0..Horizon
    BY DEF Typed
  <1>2. ASSUME NEW i \in Issuers, Flip(i)
        PROVE  gone' = gone
    BY <1>2 DEF Flip
  <1>3. ASSUME NEW i \in Issuers, NEW S \in KeySets, Publish(i, S)
        PROVE  \A j \in Issuers, R \in KeySets :
                  gone'[j][R] = IF j = i /\ R = S THEN 0 ELSE gone[j][R]
    BY <1>3 DEF Publish, Typed
  <1> QED BY <1>1, <1>2, <1>3, Bounds DEF Issuer

-----------------------------------------------------------------------------
(* The invariant.                                                            *)

LEMMA StsInvInit == StsInit => StsInv
  <1> SUFFICES ASSUME StsInit PROVE StsInv
    OBVIOUS
  <1>1. JwksInv
    BY InvInit DEF StsInit
  <1>2. StsTypeOK
    BY DEF StsInit, StsTypeOK
  <1>3. (\A c \in Callers : RoleInHand(c)) /\ RoleOfSession /\ KeyOfSession
    BY IdleBuilt DEF StsInit, Init, RoleInHand, RoleOfSession, KeyOfSession
  <1> QED BY <1>1, <1>2, <1>3 DEF StsInv

\* A session that nobody touches keeps what it rests on.
LEMMA SessionStays ==
    ASSUME StsInv, session' = session,
           \A j \in Issuers, R \in KeySets :
              /\ gone'[j][R] \in Nat /\ gone[j][R] \in Nat
              /\ gone'[j][R] <= gone[j][R]
    PROVE  RoleOfSession' /\ KeyOfSession'
  <1>1. RoleOfSession'
    BY DEF StsInv, RoleOfSession, Spent
  <1>2. KeyOfSession'
    <2> SUFFICES ASSUME session # NoSession
                 PROVE  \E S \in KeySets :
                           /\ session.kid \in S
                           /\ gone'[session.issuer][S]
                                <= MaxStale + Spent(session)
      BY DEF KeyOfSession, Spent
    <2>1. PICK S \in KeySets :
             /\ session.kid \in S
             /\ gone[session.issuer][S] <= MaxStale + Spent(session)
      BY DEF StsInv, KeyOfSession
    <2>2. session \in Session
      BY DEF StsInv, StsTypeOK
    <2>3. session.issuer \in Issuers /\ Spent(session) \in Int
      BY <2>2, SessionFields DEF Spent
    <2>4. gone'[session.issuer][S] <= MaxStale + Spent(session)
      BY <2>1, <2>3, Bounds
    <2> QED BY <2>1, <2>4
  <1> QED BY <1>1, <1>2

LEMMA GoneNat ==
    ASSUME Typed, gone' = gone
    PROVE  \A j \in Issuers, R \in KeySets :
              /\ gone'[j][R] \in Nat /\ gone[j][R] \in Nat
              /\ gone'[j][R] <= gone[j][R]
  BY Bounds DEF Typed

\* A step that ends an exchange, or none, and leaves the others.
LEMMA InvEnds ==
    ASSUME StsInv, JwksInv', NEW c \in Callers,
           NEW e \in {NoExchange, Panicked},
           exchange' = [exchange EXCEPT ![c] = e],
           \A d \in Callers : d # c => lookup'[d] = lookup[d],
           lookup'[c].at = "idle"
    PROVE  /\ \A d \in Callers : RoleInHand(d)'
           /\ exchange' \in [Callers -> Exchange \cup {NoExchange, Panicked}]
  <1>1. exchange \in [Callers -> Exchange \cup {NoExchange, Panicked}]
    BY DEF StsInv, StsTypeOK
  <1>2. \A d \in Callers : RoleInHand(d)'
    <2> SUFFICES ASSUME NEW d \in Callers PROVE RoleInHand(d)'
      OBVIOUS
    <2>1. CASE d = c
      BY <1>1, <2>1 DEF RoleInHand
    <2>2. CASE d # c
      BY <1>1, <2>2 DEF StsInv, RoleInHand
    <2> QED BY <2>1, <2>2
  <1> QED BY <1>1, <1>2

LEMMA InvBegin ==
    ASSUME StsInv, JwksInv', NEW c \in Callers, NEW id \in RoleIds,
           NEW i \in Issuers, Begin(c, id, i)
    PROVE  StsInv'
  <1> DEFINE x == [id |-> id, role |-> configured[id], old |-> 0]
  <1>t. Typed /\ StsTypeOK
    BY DEF StsInv, JwksInv
  <1>1. configured[id] \in Roles
    BY <1>t DEF Begin, Admissible, StsTypeOK
  <1>2. x \in Exchange /\ x.old = 0
    BY <1>1, Bounds DEF Exchange
  <1>3. exchange' = [exchange EXCEPT ![c] = x]
    BY DEF Begin
  <1>4. /\ UNCHANGED <<gone, configured, tokenKey, session>>
        /\ \A d \in Callers : d # c => lookup'[d] = lookup[d]
        /\ lookup'[c].at \in {"returned", "missed"}
    BY <1>t DEF Begin, GetOrFetch, Hit, Miss, Moves, At, Typed
  <1> HIDE DEF x
  <1>5. StsTypeOK'
    BY <1>t, <1>2, <1>3, <1>4 DEF StsTypeOK
  <1>6. \A d \in Callers : RoleInHand(d)'
    <2> SUFFICES ASSUME NEW d \in Callers PROVE RoleInHand(d)'
      OBVIOUS
    <2>1. CASE d = c
      BY <1>t, <2>1, <1>2, <1>3, <1>4, Bounds DEF RoleInHand, StsTypeOK, Waiting
    <2>2. CASE d # c
      BY <1>t, <2>2, <1>3, <1>4 DEF StsInv, RoleInHand, StsTypeOK
    <2> QED BY <2>1, <2>2
  <1> QED BY <1>t, <1>4, <1>5, <1>6, GoneNat, SessionStays DEF StsInv

LEMMA InvAwait ==
    ASSUME StsInv, JwksInv', NEW c \in Callers, Await(c)
    PROVE  StsInv'
  <1>t. Typed /\ StsTypeOK /\ JwksInv
    BY DEF StsInv, JwksInv
  <1>1. UNCHANGED <<exchange, configured, tokenKey, session>>
    BY DEF Await, stsVars
  <1>2. StsTypeOK'
    BY <1>t, <1>1 DEF StsTypeOK
  <1>3. \A d \in Callers : RoleInHand(d)'
    <2> SUFFICES ASSUME NEW d \in Callers, lookup'[d].at # "idle"
                 PROVE  /\ exchange[d] \in Exchange
                        /\ lookup'[d].at = "missed" => exchange[d].old = 0
                        /\ lookup'[d].at \in Waiting =>
                              exchange[d].old <= lookup'[d].time
                        /\ exchange[d].old <= MaxFetch
      BY <1>1 DEF RoleInHand
    <2>0. lookup[d].at # "idle"
      BY <1>t, ProceedMoves DEF Await
    <2>1. /\ exchange[d] \in Exchange
          /\ lookup[d].at = "missed" => exchange[d].old = 0
          /\ lookup[d].at \in Waiting => exchange[d].old <= lookup[d].time
          /\ exchange[d].old <= MaxFetch
      BY <2>0 DEF StsInv, RoleInHand
    <2>2. CASE d # c
      BY <1>t, <2>1, <2>2, ProceedMoves DEF Await
    <2>3. CASE d = c
      <3>1. \/ lookup[d].at = "missed" /\ lookup'[d].at = "backedOff"
            \/ /\ lookup[d].at = "missed"
               /\ lookup'[d].at = "fetching" /\ lookup'[d].time = 0
            \/ /\ lookup[d].at \in Waiting
               /\ lookup'[d].at = "answered"
               /\ lookup'[d].time = lookup[d].time
            \/ lookup'[d].at \in {"stored", "returned", "failed"}
        BY <1>t, <2>3, ProceedMoves DEF Await
      <3> QED BY <2>1, <3>1 DEF Waiting
    <2> QED BY <2>2, <2>3
  <1>4. gone' = gone
    BY <1>t, ProceedMoves DEF Await
  <1> QED BY <1>t, <1>1, <1>2, <1>3, <1>4, GoneNat, SessionStays DEF StsInv

LEMMA InvAbandon ==
    ASSUME StsInv, JwksInv', NEW c \in Callers, Abandon(c)
    PROVE  StsInv'
  <1>t. Typed /\ StsTypeOK
    BY DEF StsInv, JwksInv
  <1>1. /\ \A d \in Callers : d # c => lookup'[d] = lookup[d]
        /\ lookup'[c].at = "idle"
        /\ exchange' = [exchange EXCEPT ![c] = NoExchange]
        /\ UNCHANGED <<gone, configured, tokenKey, session>>
    BY <1>t, IdleBuilt DEF Abandon, Cancel, Moves, Typed
  <1>2. /\ \A d \in Callers : RoleInHand(d)'
        /\ exchange' \in [Callers -> Exchange \cup {NoExchange, Panicked}]
    BY <1>1, InvEnds
  <1>3. StsTypeOK'
    BY <1>t, <1>1, <1>2 DEF StsTypeOK
  <1> QED BY <1>t, <1>1, <1>2, <1>3, GoneNat, SessionStays DEF StsInv

\* What a new session rests on.
LEMMA InvMinted ==
    ASSUME StsInv, NEW c \in Callers, NEW t \in Tokens, NEW asked \in Requested,
           t.issuer = lookup[c].issuer, Grant(c, t, asked),
           session' = Minted(c, t, asked), gone' = gone
    PROVE  /\ session' \in Session
           /\ RoleOfSession'
           /\ KeyOfSession'
  <1> DEFINE x == exchange[c]
             n == Duration(asked, x.role)
  <1>t. Typed /\ StsTypeOK
    BY DEF StsInv, JwksInv
  <1>1. /\ x.id \in RoleIds /\ x.role \in Roles
        /\ x.old \in 0..MaxFetch + 1 /\ x.old <= MaxFetch
    BY ExchangeFields DEF Grant, Accepted, StsInv, RoleInHand
  <1>2. n \in 0..x.role.max /\ x.role.max \in 0..MaxSession
    BY <1>1, DurationBounds, StsBounds DEF Grant
  <1> HIDE DEF n
  <1>3. session' = [id |-> x.id, role |-> x.role, sealedBy |-> tokenKey,
                    life |-> n, issuer |-> t.issuer, kid |-> t.kid,
                    old |-> x.old]
    BY DEF Minted, n
  <1>4. t.issuer \in Issuers /\ t.kid \in Keys
    BY StsBounds
  <1> HIDE DEF x
  <1>5. session' \in Session
    BY <1>t, <1>1, <1>2, <1>3, <1>4, Bounds, StsBounds DEF Session, StsTypeOK
  <1>6. RoleOfSession'
    BY <1>1, <1>2, <1>3, Bounds DEF RoleOfSession, Spent
  <1>7. KeyOfSession'
    <2>1. /\ lookup[c].at = "returned" /\ t.kid \in lookup[c].keys
          /\ lookup[c].keys \in KeySets
      BY <1>t, LookupFields DEF Grant, Accepted, Verified, Typed
    <2>2. gone[t.issuer][lookup[c].keys] <= MaxStale
      BY <2>1 DEF StsInv, JwksInv, CallerOK, InHand
    <2>3. gone[t.issuer][lookup[c].keys] \in Nat
      BY <1>t, <1>4, <2>1, Bounds DEF Typed
    <2>4. /\ session'.kid \in lookup[c].keys
          /\ gone'[session'.issuer][lookup[c].keys]
               <= MaxStale + (session'.role.max - session'.life)
      BY <1>2, <1>3, <2>1, <2>2, <2>3, Bounds
    <2> QED BY <2>1, <2>4 DEF KeyOfSession, Spent
  <1> QED BY <1>5, <1>6, <1>7

LEMMA InvDecide ==
    ASSUME StsInv, JwksInv', NEW c \in Callers, Decide(c)
    PROVE  StsInv'
  <1>t. Typed /\ StsTypeOK
    BY DEF StsInv, JwksInv
  <1>1. /\ \A d \in Callers : d # c => lookup'[d] = lookup[d]
        /\ lookup'[c].at = "idle"
        /\ gone' = gone
    BY <1>t, IdleBuilt DEF Decide, Return, Moves, Typed
  <1>2. PICK t \in Tokens :
           /\ t.issuer = lookup[c].issuer
           /\ Admissible(exchange[c].role, t)
           /\ \/ \E asked \in Requested : Grant(c, t, asked)
              \/ Panic(c, t)
              \/ Refuse(c, t)
    BY DEF Decide
  <1>3. ASSUME Panic(c, t) \/ Refuse(c, t)
        PROVE  StsInv'
    <2>1. PICK e \in {NoExchange, Panicked} :
             exchange' = [exchange EXCEPT ![c] = e]
      BY <1>3 DEF Panic, Refuse
    <2>2. UNCHANGED <<configured, tokenKey, session>>
      BY <1>3 DEF Panic, Refuse
    <2>3. /\ \A d \in Callers : RoleInHand(d)'
          /\ exchange' \in [Callers -> Exchange \cup {NoExchange, Panicked}]
      BY <1>1, <2>1, <2>2, InvEnds
    <2>4. StsTypeOK'
      BY <1>t, <2>2, <2>3 DEF StsTypeOK
    <2> QED BY <1>t, <1>1, <2>2, <2>3, <2>4, GoneNat, SessionStays DEF StsInv
  <1>4. ASSUME NEW asked \in Requested, Grant(c, t, asked)
        PROVE  StsInv'
    <2>1. /\ exchange' = [exchange EXCEPT ![c] = NoExchange]
          /\ UNCHANGED <<configured, tokenKey>>
          /\ session' = session \/ session' = Minted(c, t, asked)
      BY <1>4 DEF Grant
    <2>2. /\ \A d \in Callers : RoleInHand(d)'
          /\ exchange' \in [Callers -> Exchange \cup {NoExchange, Panicked}]
      BY <1>1, <2>1, InvEnds
    <2>3. CASE session' = session
      <3>1. StsTypeOK'
        BY <1>t, <2>1, <2>2, <2>3 DEF StsTypeOK
      <3> QED BY <1>t, <1>1, <2>2, <2>3, <3>1, GoneNat, SessionStays DEF StsInv
    <2>4. CASE session' = Minted(c, t, asked)
      <3>1. session' \in Session /\ RoleOfSession' /\ KeyOfSession'
        BY <1>1, <1>2, <1>4, <2>4, InvMinted
      <3>2. StsTypeOK'
        BY <1>t, <2>1, <2>2, <3>1 DEF StsTypeOK
      <3> QED BY <2>2, <3>1, <3>2 DEF StsInv
    <2> QED BY <2>1, <2>3, <2>4
  <1> QED BY <1>2, <1>3, <1>4

LEMMA InvConfigure ==
    ASSUME StsInv, JwksInv', NEW id \in RoleIds, NEW r \in Roles \cup {NoRole},
           Configure(id, r)
    PROVE  StsInv'
  <1>t. Typed /\ StsTypeOK
    BY DEF StsInv, JwksInv
  <1>1. /\ UNCHANGED <<gone, lookup, tokenKey>>
        /\ configured' \in [RoleIds -> Roles \cup {NoRole}]
    BY <1>t DEF Configure, vars, StsTypeOK
  <1>2. ASSUME NEW c \in Callers
        PROVE  \/ exchange'[c] = exchange[c]
               \/ /\ exchange[c] \in Exchange
                  /\ exchange'[c] \in Exchange /\ exchange'[c].old = 0
    <2>1. CASE /\ exchange[c] \notin {NoExchange, Panicked}
               /\ exchange[c].id = id /\ exchange[c].role = r
      <3>1. exchange[c] \in Exchange
        BY <1>t, <2>1 DEF StsTypeOK
      <3>2. exchange'[c] = [exchange[c] EXCEPT !.old = 0]
        BY <2>1 DEF Configure
      <3>3. 0 \in 0..MaxFetch + 1
        BY Bounds
      <3> QED BY <3>1, <3>2, <3>3, ExchangeFields
    <2>2. CASE ~(/\ exchange[c] \notin {NoExchange, Panicked}
                 /\ exchange[c].id = id /\ exchange[c].role = r)
      BY <2>2 DEF Configure
    <2> QED BY <2>1, <2>2
  <1>3. exchange' \in [Callers -> Exchange \cup {NoExchange, Panicked}]
    <2>1. \A c \in Callers : exchange'[c] \in Exchange \cup {NoExchange, Panicked}
      BY <1>t, <1>2 DEF StsTypeOK
    <2>2. exchange' = [c \in Callers |-> exchange'[c]]
      BY DEF Configure
    <2> QED BY <2>1, <2>2
  <1>4. \A c \in Callers : RoleInHand(c)'
    <2> SUFFICES ASSUME NEW c \in Callers PROVE RoleInHand(c)'
      OBVIOUS
    <2>1. RoleInHand(c)
      BY DEF StsInv
    <2>2. CASE exchange'[c] = exchange[c]
      BY <1>1, <2>1, <2>2 DEF RoleInHand
    <2>3. CASE exchange'[c] \in Exchange /\ exchange'[c].old = 0
      <3>1. lookup[c].time \in Nat
        BY <1>t, LookupFields DEF Typed
      <3> QED BY <1>1, <2>3, <3>1, Bounds DEF RoleInHand
    <2> QED BY <1>2, <2>2, <2>3
  <1>5. /\ session' \in Session \cup {NoSession}
        /\ RoleOfSession' /\ KeyOfSession'
    <2>1. CASE session' = session
      BY <1>t, <1>1, <2>1, GoneNat, SessionStays DEF StsTypeOK
    <2>2. CASE session # NoSession /\ session' = [session EXCEPT !.old = 0]
      <3>1. session \in Session
        BY <1>t, <2>2 DEF StsTypeOK
      <3>2. /\ session' \in Session /\ session'.role = session.role
            /\ session'.life = session.life /\ session'.old = 0
            /\ session'.kid = session.kid /\ session'.issuer = session.issuer
        BY <2>2, <3>1, Bounds, StsBounds DEF Session
      <3>3. session.life <= session.role.max
        BY <2>2 DEF StsInv, RoleOfSession
      <3>4. session.life \in Nat /\ session.role.max \in Nat
        BY <3>1, SessionFields
      <3>5. RoleOfSession'
        BY <3>2, <3>3, <3>4, Bounds DEF RoleOfSession, Spent
      <3>6. KeyOfSession'
        BY <1>1, <2>2, <3>2 DEF StsInv, KeyOfSession, Spent
      <3> QED BY <3>2, <3>5, <3>6
    <2> QED BY <2>1, <2>2 DEF Configure
  <1> QED BY <1>t, <1>1, <1>3, <1>4, <1>5 DEF StsInv, StsTypeOK

LEMMA InvStsRestart ==
    ASSUME StsInv, JwksInv', StsRestart
    PROVE  StsInv'
  <1>t. Typed /\ StsTypeOK
    BY DEF StsInv, JwksInv
  <1>1. StsTypeOK'
    BY <1>t DEF StsRestart, StsTypeOK
  <1>2. \A c \in Callers : RoleInHand(c)'
    BY IdleBuilt DEF StsRestart, Restart, RoleInHand
  <1>3. gone' = gone /\ session' = session
    BY DEF StsRestart, Restart
  <1> QED BY <1>t, <1>1, <1>2, <1>3, GoneNat, SessionStays DEF StsInv

LEMMA InvIssuer ==
    ASSUME StsInv, JwksInv', Issuer
    PROVE  StsInv'
  <1>t. Typed /\ StsTypeOK
    BY DEF StsInv, JwksInv
  <1>1. UNCHANGED <<lookup, stsVars>>
    BY DEF Issuer, Flip, Publish, cacheVars
  <1>2. StsTypeOK'
    BY <1>t, <1>1 DEF stsVars, StsTypeOK
  <1>3. \A c \in Callers : RoleInHand(c)'
    BY <1>1 DEF stsVars, StsInv, RoleInHand
  <1>4. session' = session
    BY <1>1 DEF stsVars
  <1> QED BY <1>t, <1>2, <1>3, <1>4, GoneShrinks, SessionStays DEF StsInv

LEMMA InvStsTick ==
    ASSUME StsInv, JwksInv', StsTick
    PROVE  StsInv'
  <1>t. Typed /\ StsTypeOK /\ Tick
    BY DEF StsInv, JwksInv, StsTick
  <1>1. UNCHANGED <<configured, tokenKey>>
    BY DEF StsTick
  <1>2. ASSUME NEW c \in Callers
        PROVE  /\ exchange'[c] \in Exchange \cup {NoExchange, Panicked}
               /\ exchange[c] \in Exchange =>
                     /\ exchange'[c] \in Exchange
                     /\ exchange'[c].old <= exchange[c].old + 1
                     /\ exchange[c].old \in Nat /\ exchange'[c].old \in Nat
    <2> DEFINE n == Later(exchange[c].old, MaxFetch + 1)
    <2>1. CASE /\ exchange[c] \notin {NoExchange, Panicked}
               /\ Outdated(exchange[c])
      <3>1. exchange[c] \in Exchange
        BY <1>t, <2>1 DEF StsTypeOK
      <3>2. /\ n \in 0..MaxFetch + 1 /\ n <= exchange[c].old + 1
            /\ exchange[c].old \in 0..MaxFetch + 1
        BY <3>1, ExchangeFields, LaterBounds, Bounds
      <3>3. exchange'[c] = [exchange[c] EXCEPT !.old = n]
        BY <2>1 DEF StsTick
      <3> HIDE DEF n
      <3> QED BY <3>1, <3>2, <3>3, ExchangeFields, Bounds
    <2>2. CASE \/ exchange[c] \in {NoExchange, Panicked}
               \/ ~Outdated(exchange[c])
      <3>1. exchange'[c] = exchange[c]
        BY <2>2 DEF StsTick
      <3> QED BY <1>t, <3>1, ExchangeFields, Bounds DEF StsTypeOK
    <2> QED BY <2>1, <2>2
  <1>3. exchange' \in [Callers -> Exchange \cup {NoExchange, Panicked}]
    <2>1. exchange' = [c \in Callers |-> exchange'[c]]
      BY DEF StsTick
    <2> QED BY <1>2, <2>1
  <1>4. \A c \in Callers : RoleInHand(c)'
    <2> SUFFICES ASSUME NEW c \in Callers, lookup'[c].at # "idle"
                 PROVE  /\ exchange'[c] \in Exchange
                        /\ lookup'[c].at = "missed" => exchange'[c].old = 0
                        /\ lookup'[c].at \in Waiting =>
                              exchange'[c].old <= lookup'[c].time
                        /\ exchange'[c].old <= MaxFetch
      BY DEF RoleInHand
    <2>1. /\ lookup[c].at \in Waiting /\ lookup'[c].at = lookup[c].at
          /\ lookup'[c].time = lookup[c].time + 1
      <3>1. lookup[c].at \in Places
        BY <1>t, LookupFields DEF Typed
      <3>2. lookup[c].at \notin Computing /\ lookup'[c].at = lookup[c].at
        BY <1>t, TickLookup
      <3> QED BY <1>t, <3>1, <3>2, TickLookup DEF Places, Computing, Waiting
    <2>2. /\ exchange[c] \in Exchange /\ exchange[c].old <= lookup[c].time
      BY <2>1 DEF StsInv, RoleInHand, Waiting
    <2>3. lookup[c].time \in Nat /\ lookup'[c].time \in 0..MaxFetch
      <3>1. lookup[c] \in Lookup /\ lookup'[c] \in Lookup
        BY <1>t, TickLookup DEF Typed
      <3> QED BY <3>1, LookupFields
    <2> QED BY <1>2, <2>1, <2>2, <2>3, Bounds DEF Waiting
  <1>5. /\ session' \in Session \cup {NoSession}
        /\ RoleOfSession' /\ KeyOfSession'
    <2>1. CASE session' = NoSession
      BY <2>1 DEF RoleOfSession, KeyOfSession
    <2>2. CASE session # NoSession /\ session.life # 0
      <3> DEFINE n == IF Outdated(session)
                      THEN Later(session.old, MaxFetch + MaxSession + 1)
                      ELSE session.old
      <3>1. session \in Session
        BY <1>t, <2>2 DEF StsTypeOK
      <3>2. /\ session.life \in Nat /\ session.life >= 1
            /\ session.life <= MaxSession
            /\ session.role.max \in Nat
            /\ session.old \in 0..MaxFetch + MaxSession + 1
            /\ session.issuer \in Issuers
        BY <2>2, <3>1, SessionFields, StsBounds
      <3>3. n \in 0..MaxFetch + MaxSession + 1 /\ n <= session.old + 1
        BY <3>2, LaterBounds, Bounds, StsBounds
      <3>4. session' = [session EXCEPT !.life = @ - 1, !.old = n]
        BY <2>2 DEF StsTick
      <3> HIDE DEF n
      <3>5. /\ session' \in Session /\ session'.role = session.role
            /\ session'.life = session.life - 1 /\ session'.old = n
            /\ session'.kid = session.kid /\ session'.issuer = session.issuer
        <4>1. session.life - 1 \in 0..MaxSession
          BY <3>2, StsBounds
        <4> DEFINE k == session.life - 1
                   p == [session EXCEPT !.life = k]
                   q == [p EXCEPT !.old = n]
        <4>2. session' = q
          BY <3>4, Zenon
        <4> HIDE DEF k
        <4>3. /\ p \in Session /\ p.life = k /\ p.role = session.role
              /\ p.kid = session.kid /\ p.issuer = session.issuer
          BY <3>1, <4>1 DEF Session, k
        <4> HIDE DEF p
        <4>4. /\ q \in Session /\ q.life = k /\ q.old = n
              /\ q.role = session.role /\ q.kid = session.kid
              /\ q.issuer = session.issuer
          BY <3>3, <4>3 DEF Session
        <4> HIDE DEF q
        <4> QED BY <4>2, <4>4 DEF k
      <3>6. RoleOfSession'
        <4>1. /\ session.life <= session.role.max
              /\ session.old <= MaxFetch + (session.role.max - session.life)
          BY <2>2 DEF StsInv, RoleOfSession, Spent
        <4> QED BY <3>2, <3>3, <3>5, <4>1, Bounds DEF RoleOfSession, Spent
      <3>7. KeyOfSession'
        <4>1. PICK S \in KeySets :
                 /\ session.kid \in S
                 /\ gone[session.issuer][S]
                      <= MaxStale + (session.role.max - session.life)
          BY <2>2 DEF StsInv, KeyOfSession, Spent
        <4>2. /\ gone[session.issuer][S] \in Nat
              /\ gone'[session.issuer][S] \in Nat
              /\ gone'[session.issuer][S] <= gone[session.issuer][S] + 1
          BY <1>t, <3>2, TickGone
        <4>3. gone'[session.issuer][S]
                <= MaxStale + (session.role.max - (session.life - 1))
          BY <3>2, <4>1, <4>2, Bounds
        <4> QED BY <3>5, <4>1, <4>3 DEF KeyOfSession, Spent
      <3> QED BY <3>5, <3>6, <3>7
    <2> QED BY <2>1, <2>2 DEF StsTick
  <1> QED BY <1>t, <1>1, <1>3, <1>4, <1>5 DEF StsInv, StsTypeOK

LEMMA StsInvStep ==
    ASSUME StsInv, [StsNext]_allVars
    PROVE  StsInv'
  <1>1. JwksInv'
    BY StsProjects, InvStep DEF StsInv
  <1>2. CASE UNCHANGED allVars
    BY <1>1, <1>2 DEF allVars, vars, stsVars, StsInv, StsTypeOK, RoleInHand,
                      RoleOfSession, KeyOfSession, Spent
  <1>3. CASE StsNext
    BY <1>1, <1>3, InvIssuer, InvConfigure, InvBegin, InvAwait, InvAbandon,
       InvDecide, InvStsRestart, InvStsTick
    DEF StsNext
  <1> QED BY <1>2, <1>3

-----------------------------------------------------------------------------

\* What sessions and exchanges rest on is as recent as claimed in every state.
THEOREM StsInductive == StsSpec => []StsInv
  BY StsInvInit, StsInvStep, PTL DEF StsSpec

\* Every state of the exchange is well typed: no session lasts longer than the
\* longest maximum (lib.rs:171-188).
THEOREM StsTyped == StsSpec => []StsTypeOK
  BY StsInductive, PTL DEF StsInv

\* Trust in a removed key ends with the cache, the fetch and the session, for
\* any limits, tokens and roles (lib.rs:154-163, sealed_token.rs:99).
THEOREM KeyTrust == StsSpec => []KeyTrustEnds
  <1>1. StsInv => KeyTrustEnds
    <2>1. Unseals(session) = "identity" => session # NoSession
      BY DEF Unseals
    <2> QED BY <2>1 DEF StsInv, KeyOfSession, KeyTrustEnds
  <1> QED BY <1>1, StsInductive, PTL

\* Trust of a role that was changed or removed ends with the fetch that was
\* under way and the longest session that it allowed (lib.rs:123-178).
THEOREM RoleTrust == StsSpec => []RoleTrustEnds
  <1>1. StsInv => RoleTrustEnds
    <2>1. Unseals(session) = "identity" => session # NoSession
      BY DEF Unseals
    <2> QED BY <2>1 DEF StsInv, RoleOfSession, RoleTrustEnds
  <1> QED BY <1>1, StsInductive, PTL

\* The exchange uses the key cache as JwksCache says, so what it reads is as
\* recent as the abstract cache promises (lib.rs:137-163).
THEOREM ExchangeRefinement == StsSpec => ImplementsStaleReads
  <1>1. StsInit => Init
    BY DEF StsInit
  <1>2. [StsNext]_allVars => [Next]_vars
    BY StsProjects
  <1>3. StsSpec => Spec
    BY <1>1, <1>2, PTL DEF StsSpec, Spec
  <1> QED BY <1>3, JwksRefinement, PTL
=============================================================================
