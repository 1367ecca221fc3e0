-------------------------- MODULE BatchDeleteProofs --------------------------
(* Proofs about BatchDelete, for any credentials, requests and limits.       *)
(*                                                                           *)
(* Every step of a batch is one of the config cache or leaves it alone, so   *)
(* the invariant of ConfigCache and its refinement carry over. To them come  *)
(* the age of the credential with which a batch waits for its partition, and *)
(* what the answer of a batch says of the keys it was asked for.             *)
EXTENDS BatchDelete, ConfigCacheProofs, SequenceTheorems

Admitted == [at : {"admitted"}, item : Items, credential : Values,
             time : 0..MaxWait]

\* The credential was held within the staleness of the cache and the wait,
\* and it was in force then.
RecentCredential(c) ==
    In(c, "admitted") =>
        /\ batch[c] \in Admitted
        /\ batch[c].credential # Absent /\ batch[c].credential.enabled
        /\ gone[batch[c].item][batch[c].credential] <= MaxStale + batch[c].time

\* What an answer says, when the backend has erased the keys in D.
Truthful(request, answer, D) ==
    LET asked == ToSet(request.keys)
        kept == {k \in asked : Apply(k) \notin D}
    IN /\ D \subseteq {Apply(k) : k \in asked}
       /\ answer # Failed =>
             /\ answer.errors = kept
             /\ answer.deleted = IF request.quiet THEN {} ELSE asked \ kept

TrueAnswer(c) ==
    In(c, "done") =>
        Truthful(batch[c].request, batch[c].answer, batch[c].erased)

BatchInv ==
    /\ ConfigInv
    /\ batch \in [Callers -> Batch \cup {NoBatch}]
    /\ \A c \in Callers : RecentCredential(c) /\ TrueAnswer(c)

-----------------------------------------------------------------------------
(* Keys and reports.                                                       *)

LEMMA KeysAreSequences ==
    /\ BackendPrefix \in Seq(STRING)
    /\ \A k \in Keys : k \in Seq(STRING)
  BY BatchAssumption

\* The names of the client come back from the names of the backend,
LEMMA StripUndoesApply ==
    \A k \in Keys : Strip(Apply(k)) = k
  <1> SUFFICES ASSUME NEW k \in Keys  PROVE Strip(Apply(k)) = k
    OBVIOUS
  <1> DEFINE p == BackendPrefix
             a == p \o k
  <1>1. p \in Seq(STRING) /\ k \in Seq(STRING)
    BY KeysAreSequences
  <1>2. /\ Len(p) \in Nat /\ Len(k) \in Nat
        /\ a \in Seq(STRING) /\ Len(a) = Len(p) + Len(k)
        /\ \A i \in 1..Len(p) : a[i] = p[i]
        /\ \A i \in 1..Len(k) : a[Len(p) + i] = k[i]
    BY <1>1, ConcatProperties, LenProperties
  <1>3. \A i \in 1..Len(a) : a[i] \in STRING
    BY <1>2, ElementOfSeq
  <1> HIDE DEF p, a
  <1>4. SubSeq(a, 1, Len(p)) = p
    <2>1. /\ SubSeq(a, 1, Len(p)) \in Seq(STRING)
          /\ Len(SubSeq(a, 1, Len(p))) = Len(p)
          /\ \A i \in 1..Len(p) : SubSeq(a, 1, Len(p))[i] = p[i]
      BY <1>2, <1>3, SubSeqProperties
    <2> QED BY <1>1, <2>1, SeqEqual
  <1>5. SubSeq(a, Len(p) + 1, Len(a)) = k
    <2> DEFINE rest == SubSeq(a, Len(p) + 1, Len(a))
    <2>1. /\ rest \in Seq(STRING)
          /\ Len(rest) = Len(k)
          /\ \A i \in 1..Len(k) : rest[i] = a[Len(p) + i]
      BY <1>2, <1>3, SubSeqProperties
    <2> HIDE DEF rest
    <2>2. rest = k
      BY <1>1, <1>2, <2>1, SeqEqual
    <2> QED BY <2>2 DEF rest
  <1>6. SubSeq(p, 1, Len(p)) = p
    BY <1>1, SubSeqFull
  <1>7. IsPrefix(p, a)
    BY <1>2, <1>4, <1>6 DEF IsPrefix
  <1> QED BY <1>5, <1>7 DEF Strip, Apply, p, a

LEMMA ApplyInjective ==
    \A k, m \in Keys : Apply(k) = Apply(m) => k = m
  BY StripUndoesApply

LEMMA AskedAreKeys ==
    \A r \in Requests : ToSet(r.keys) \subseteq Keys /\ r.quiet \in BOOLEAN
  <1> SUFFICES ASSUME NEW r \in Requests
               PROVE  ToSet(r.keys) \subseteq Keys /\ r.quiet \in BOOLEAN
    OBVIOUS
  <1>1. r.keys \in Seq(Keys) /\ r.quiet \in BOOLEAN
    BY BatchAssumption DEF Request
  <1>2. \A i \in DOMAIN r.keys : r.keys[i] \in Keys
    BY <1>1, ElementOfSeq, LenProperties
  <1> QED BY <1>1, <1>2 DEF ToSet

\* so each key of an answer is one that was asked for, and the errors and the
\* deletions part the keys that were asked for as the backend did.
LEMMA ReportIsTrue ==
    ASSUME NEW r \in Requests, NEW v,
           NEW D, D \subseteq Forwarded(r, v)
    PROVE  /\ Report(r, v, D) \in Answer
           /\ Truthful(r, Report(r, v, D), D)
  <1> DEFINE asked == ToSet(r.keys)
             sent == Forwarded(r, v)
             kept == {k \in asked : Apply(k) \notin D}
  <1>1. asked \subseteq Keys /\ r.quiet \in BOOLEAN
    BY AskedAreKeys
  <1>2. sent = {Apply(k) : k \in {x \in asked : Allows(v, x)}}
    BY DEF Forwarded
  <1>3. \A k \in asked : Apply(k) \in sent <=> Allows(v, k)
    BY <1>1, <1>2, ApplyInjective, Zenon
  <1> HIDE DEF asked, sent
  <1>4. {Strip(k) : k \in sent \cap D} = asked \ kept
    <2>1. \A k \in sent \cap D : Strip(k) \in asked \ kept
      BY <1>1, <1>2, StripUndoesApply
    <2>2. \A k \in asked \ kept : Apply(k) \in sent \cap D /\ Strip(Apply(k)) = k
      BY <1>1, StripUndoesApply DEF sent
    <2> HIDE DEF kept
    <2> QED BY <2>1, <2>2
  <1>5. Denied(r, v) \cup {Strip(k) : k \in sent \ D} = kept
    <2>1. Denied(r, v) = {k \in asked : ~Allows(v, k)}
      BY DEF Denied, asked
    <2>2. \A k \in sent \ D : Strip(k) \in kept
      BY <1>1, <1>2, StripUndoesApply
    <2>3. \A k \in kept :
             \/ k \in Denied(r, v)
             \/ Apply(k) \in sent \ D /\ Strip(Apply(k)) = k
      BY <1>1, <1>3, <2>1, StripUndoesApply
    <2>4. Denied(r, v) \subseteq kept
      BY <1>3, <2>1 DEF sent
    <2> HIDE DEF kept
    <2> QED BY <2>2, <2>3, <2>4
  <1>6. D \subseteq {Apply(k) : k \in asked}
    BY <1>2 DEF sent
  <1>7. kept \subseteq Keys
    BY <1>1
  <1>8. Report(r, v, D) =
           [deleted |-> IF r.quiet THEN {} ELSE asked \ kept, errors |-> kept]
    BY <1>4, <1>5 DEF Report, sent
  <1> QED BY <1>1, <1>6, <1>7, <1>8 DEF Answer, Truthful, asked

-----------------------------------------------------------------------------

LEMMA BatchProjects ==
    ASSUME [BatchNext]_allVars
    PROVE  [Next]_vars
  BY DEF BatchNext, allVars, Outside, Begin, Await, LookupEnds, Admit, Refuse,
         Send, AnswerAtOnce, GiveUp, BackendReports, BackendFails, Done,
         Finish, BatchRestart, BatchTick, Next

\* A moment makes a value older by no more than itself,
LEMMA ValueAges ==
    ASSUME TypeOK, [Next]_vars
    PROVE  \A i \in Items, v \in Values :
              /\ gone[i][v] \in Nat /\ gone'[i][v] \in Nat
              /\ gone'[i][v] <= gone[i][v] + 1
  <1>1. \A i \in Items, v \in Values : gone[i][v] \in 0..Horizon
    BY DEF TypeOK
  <1>2. ASSUME NEW j \in Items, NEW w \in Values, Change(j, w)
        PROVE  \A i \in Items, v \in Values :
                  gone'[i][v] = IF i = j /\ v = w THEN 0 ELSE gone[i][v]
    BY <1>2 DEF Change, TypeOK
  <1>3. CASE Tick
    <2>1. \A i \in Items, v \in Values :
             /\ Later(gone[i][v], Horizon) \in 0..Horizon
             /\ Later(gone[i][v], Horizon) <= gone[i][v] + 1
      BY <1>1, LaterBounds, Bounds
    <2> QED BY <1>1, <1>3, <2>1, Bounds DEF Tick
  <1>4. CASE gone' = gone
    BY <1>1, <1>4, Bounds
  <1>5. \/ \E j \in Items, w \in Values : Change(j, w)
        \/ Tick
        \/ gone' = gone
    BY DEF Next, Look, Hit, Miss, SourceAnswers, Insert, ReadEnds, Return,
           Restart, vars
  <1> QED BY <1>1, <1>2, <1>3, <1>4, <1>5, Bounds

\* and nothing else makes it older.
NoneAges == \A i \in Items, v \in Values : gone'[i][v] <= gone[i][v]

LEMMA OnlyTimeAges ==
    ASSUME TypeOK,
           \/ gone' = gone
           \/ \E i \in Items, v \in Values : Change(i, v)
    PROVE  NoneAges
  <1>1. \A i \in Items, v \in Values : gone[i][v] \in 0..Horizon
    BY DEF TypeOK
  <1>2. ASSUME NEW j \in Items, NEW w \in Values, Change(j, w)
        PROVE  \A i \in Items, v \in Values :
                  gone'[i][v] = IF i = j /\ v = w THEN 0 ELSE gone[i][v]
    BY <1>2 DEF Change, TypeOK
  <1> QED BY <1>1, <1>2, Bounds DEF NoneAges

LEMMA BatchInvInit == BatchInit => BatchInv
  BY InvInit DEF BatchInit, BatchInv, RecentCredential, TrueAnswer, In

\* A step that leaves the batch of a caller alone, at a moment.
LEMMA RecentStays ==
    ASSUME BatchInv, [Next]_vars, NoneAges, NEW c \in Callers,
           batch'[c] = batch[c]
    PROVE  RecentCredential(c)' /\ TrueAnswer(c)'
  <1>0. TrueAnswer(c)'
    BY DEF BatchInv, TrueAnswer, In
  <1> SUFFICES ASSUME In(c, "admitted")
               PROVE  /\ batch[c] \in Admitted
                      /\ batch[c].credential # Absent
                      /\ batch[c].credential.enabled
                      /\ gone'[batch[c].item][batch[c].credential]
                           <= MaxStale + batch[c].time
    BY <1>0 DEF RecentCredential, In
  <1>1. /\ batch[c] \in Admitted
        /\ batch[c].credential # Absent
        /\ batch[c].credential.enabled
        /\ batch[c].item \in Items /\ batch[c].credential \in Values
        /\ batch[c].time \in 0..MaxWait
        /\ gone[batch[c].item][batch[c].credential] <= MaxStale + batch[c].time
    BY DEF BatchInv, RecentCredential, Admitted
  <1>2. /\ gone[batch[c].item][batch[c].credential] \in Nat
        /\ gone'[batch[c].item][batch[c].credential] \in Nat
        /\ gone'[batch[c].item][batch[c].credential]
             <= gone[batch[c].item][batch[c].credential]
    BY <1>1, ValueAges DEF BatchInv, ConfigInv, NoneAges
  <1> QED BY <1>1, <1>2, Bounds, BatchAssumption

\* The batch of one caller changes.
LEMMA BatchMovesTo ==
    ASSUME BatchInv, [Next]_vars, NoneAges, NEW c \in Callers,
           NEW b \in Batch \cup {NoBatch}, Becomes(c, b),
           RecentCredential(c)', TrueAnswer(c)'
    PROVE  BatchInv'
  <1>1. /\ batch' \in [Callers -> Batch \cup {NoBatch}]
        /\ \A d \in Callers : d # c => batch'[d] = batch[d]
    BY DEF BatchInv, Becomes
  <1>2. \A d \in Callers : d # c => RecentCredential(d)' /\ TrueAnswer(d)'
    BY <1>1, RecentStays
  <1> QED BY <1>1, <1>2, InvStep DEF BatchInv

\* It changes to one that neither waits for its partition nor is answered.
LEMMA BatchMoves ==
    ASSUME BatchInv, [Next]_vars, NoneAges, NEW c \in Callers,
           NEW b \in Batch \cup {NoBatch}, Becomes(c, b),
           b = NoBatch \/ b.at \notin {"admitted", "done"}
    PROVE  BatchInv'
  <1>1. batch'[c] = b
    BY DEF BatchInv, Becomes
  <1>2. RecentCredential(c)' /\ TrueAnswer(c)'
    BY <1>1 DEF RecentCredential, TrueAnswer, In
  <1> QED BY <1>2, BatchMovesTo

\* It is answered, or fails.
LEMMA BatchAnswered ==
    ASSUME BatchInv, [Next]_vars, NoneAges, NEW c \in Callers,
           NEW r \in Requests, NEW v \in Values, NEW D, NEW answer,
           D \subseteq Forwarded(r, v),
           answer = Report(r, v, D) \/ answer = Failed,
           Becomes(c, [at |-> "done", request |-> r, credential |-> v,
                       answer |-> answer, erased |-> D])
    PROVE  BatchInv'
  <1> DEFINE b == [at |-> "done", request |-> r, credential |-> v,
                   answer |-> answer, erased |-> D]
  <1>1. /\ answer \in Answer \cup {Failed}
        /\ Truthful(r, answer, D)
    <2>1. Report(r, v, D) \in Answer /\ Truthful(r, Report(r, v, D), D)
      BY ReportIsTrue
    <2>2. CASE answer = Failed
      BY <2>1, <2>2 DEF Truthful
    <2> QED BY <2>1, <2>2
  <1>2. D \subseteq BackendKeys
    BY AskedAreKeys DEF Forwarded, BackendKeys
  <1>3. b \in Batch \cup {NoBatch}
    BY <1>1, <1>2 DEF Batch
  <1>4. batch'[c] = b
    BY DEF BatchInv, Becomes
  <1>5. /\ b.at = "done" /\ b.request = r /\ b.answer = answer /\ b.erased = D
    OBVIOUS
  <1> HIDE DEF b
  <1>6. RecentCredential(c)' /\ TrueAnswer(c)'
    BY <1>1, <1>4, <1>5 DEF RecentCredential, TrueAnswer, In
  <1>7. Becomes(c, b)
    BY DEF b
  <1> QED BY <1>3, <1>6, <1>7, BatchMovesTo

LEMMA BatchStays ==
    ASSUME BatchInv, [Next]_vars, NoneAges, UNCHANGED batch
    PROVE  BatchInv'
  <1>1. \A c \in Callers : RecentCredential(c)' /\ TrueAnswer(c)'
    BY RecentStays
  <1> QED BY <1>1, InvStep DEF BatchInv

LEMMA InvAdmit ==
    ASSUME BatchInv, [Next]_vars, NEW c \in Callers, Admit(c)
    PROVE  BatchInv'
  <1> DEFINE i == reading[c].item
             v == reading[c].value
             b == [at |-> "admitted", item |-> i, credential |-> v, time |-> 0]
  <1>t. TypeOK /\ ConfigInv
    BY DEF BatchInv, ConfigInv
  <1>1. Becomes(c, b) /\ batch'[c] = b
    BY DEF BatchInv, Admit, Becomes
  <1>2. gone' = gone /\ NoneAges
    <2>1. gone' = gone
      BY DEF Admit, Return
    <2> QED BY <1>t, <2>1, OnlyTimeAges
  <1>3. /\ i \in Items /\ v \in Values /\ gone[i][v] <= MaxStale
        /\ v # Absent /\ v.enabled
    BY <1>t DEF ConfigInv, Admit, Return, Placed, InHand
  <1>4. /\ b \in Batch
        /\ RecentCredential(c)' /\ TrueAnswer(c)'
    <2>1. 0 \in 0..MaxWait
      BY BatchAssumption
    <2>2. /\ b \in Admitted /\ b \in Batch
          /\ b.item = i /\ b.credential = v /\ b.time = 0
          /\ b.at = "admitted"
      BY <1>3, <2>1 DEF Admitted, Batch
    <2>3. gone'[i][v] <= MaxStale + 0
      BY <1>2, <1>3, Bounds
    <2> HIDE DEF b, i, v
    <2> QED BY <1>1, <1>3, <2>2, <2>3 DEF RecentCredential, TrueAnswer, In
  <1> HIDE DEF b
  <1> QED BY <1>1, <1>2, <1>4, BatchMovesTo

LEMMA InvSend ==
    ASSUME BatchInv, [Next]_vars, NEW c \in Callers, NEW r \in Requests,
           Send(c, r) \/ AnswerAtOnce(c, r)
    PROVE  BatchInv'
  <1> DEFINE v == batch[c].credential
  <1>1. v \in Values
    BY DEF BatchInv, RecentCredential, Admitted, Send, AnswerAtOnce
  <1>2. NoneAges
    <2>1. gone' = gone
      BY DEF Send, AnswerAtOnce, vars
    <2> QED BY <2>1, OnlyTimeAges DEF BatchInv, ConfigInv
  <1>3. CASE Send(c, r)
    <2> DEFINE b == [at |-> "sent", request |-> r, credential |-> v]
    <2>1. b \in Batch /\ b.at \notin {"admitted", "done"}
      BY <1>1 DEF Batch
    <2>2. Becomes(c, b)
      BY <1>3 DEF Send
    <2> HIDE DEF b
    <2> QED BY <1>2, <2>1, <2>2, BatchMoves
  <1>4. CASE AnswerAtOnce(c, r)
    <2>1. Becomes(c, [at |-> "done", request |-> r, credential |-> v,
                      answer |-> Report(r, v, {}), erased |-> {}])
      BY <1>4 DEF AnswerAtOnce
    <2> HIDE DEF v
    <2> QED BY <1>1, <1>2, <2>1, BatchAnswered
  <1> QED BY <1>3, <1>4

LEMMA SentBatch ==
    ASSUME BatchInv, NEW c \in Callers, In(c, "sent")
    PROVE  batch[c].request \in Requests /\ batch[c].credential \in Values
  <1>1. batch[c] \in Batch /\ batch[c].at = "sent"
    BY DEF BatchInv, In
  <1> QED BY <1>1 DEF Batch

LEMMA InvAnswered ==
    ASSUME BatchInv, [Next]_vars, NEW c \in Callers,
           BackendReports(c) \/ BackendFails(c)
    PROVE  BatchInv'
  <1> DEFINE r == batch[c].request
             v == batch[c].credential
  <1>1. r \in Requests /\ v \in Values
    BY SentBatch DEF BackendReports, BackendFails
  <1> DEFINE Answers(D, answer) ==
                 /\ Done(c, D, answer)
                 /\ answer = Report(r, v, D) \/ answer = Failed
  <1>0. PICK D \in SUBSET Forwarded(r, v) : \E answer : Answers(D, answer)
    BY DEF BackendReports, BackendFails, Sent
  <1>2. PICK answer : Answers(D, answer)
    BY <1>0
  <1>3. NoneAges
    <2>1. gone' = gone
      BY <1>2 DEF Done, vars
    <2> QED BY <2>1, OnlyTimeAges DEF BatchInv, ConfigInv
  <1>4. Becomes(c, [at |-> "done", request |-> r, credential |-> v,
                    answer |-> answer, erased |-> D])
    BY <1>2 DEF Done
  <1> HIDE DEF r, v
  <1> QED BY <1>1, <1>2, <1>3, <1>4, BatchAnswered

LEMMA InvBatchTick ==
    ASSUME BatchInv, [Next]_vars, BatchTick
    PROVE  BatchInv'
  <1>1. batch' = [c \in Callers |-> batch'[c]]
    BY DEF BatchTick
  <1>2. ASSUME NEW c \in Callers
        PROVE  /\ batch'[c] \in Batch \cup {NoBatch}
               /\ RecentCredential(c)' /\ TrueAnswer(c)'
    <2>1. CASE In(c, "admitted")
      <3>1. batch'[c] = [batch[c] EXCEPT !.time = @ + 1]
        BY <2>1 DEF BatchTick
      <3>2. /\ batch[c] \in Admitted
            /\ batch[c].credential # Absent
            /\ batch[c].credential.enabled
            /\ gone[batch[c].item][batch[c].credential]
                 <= MaxStale + batch[c].time
        BY <2>1 DEF BatchInv, RecentCredential
      <3>3. batch[c].time < MaxWait
        BY <2>1 DEF BatchTick, InTime
      <3>4. /\ batch[c].item \in Items /\ batch[c].credential \in Values
            /\ batch[c].time \in Nat
            /\ batch'[c] \in Admitted
            /\ batch'[c].item = batch[c].item
            /\ batch'[c].credential = batch[c].credential
            /\ batch'[c].time = batch[c].time + 1
        BY <3>1, <3>2, <3>3, BatchAssumption DEF Admitted
      <3>5. /\ gone[batch[c].item][batch[c].credential] \in Nat
            /\ gone'[batch[c].item][batch[c].credential] \in Nat
            /\ gone'[batch[c].item][batch[c].credential]
                 <= gone[batch[c].item][batch[c].credential] + 1
        BY <3>4, ValueAges DEF BatchInv, ConfigInv
      <3>6. gone'[batch'[c].item][batch'[c].credential]
              <= MaxStale + batch'[c].time
        BY <3>2, <3>4, <3>5, Bounds
      <3>7. batch'[c].at = "admitted" /\ batch'[c] \in Batch
        BY <3>4 DEF Admitted, Batch
      <3> QED BY <3>2, <3>4, <3>6, <3>7 DEF RecentCredential, TrueAnswer, In
    <2>2. CASE ~In(c, "admitted")
      BY <2>2 DEF BatchTick, BatchInv, RecentCredential, TrueAnswer, In
    <2> QED BY <2>1, <2>2
  <1> QED BY <1>1, <1>2, InvStep DEF BatchInv

LEMMA BatchInvStep ==
    ASSUME BatchInv, [BatchNext]_allVars
    PROVE  BatchInv'
  <1>t. TypeOK /\ [Next]_vars
    BY BatchProjects DEF BatchInv, ConfigInv
  <1>n. NoBatch \in Batch \cup {NoBatch}
    OBVIOUS
  <1>1. CASE UNCHANGED allVars
    <2>1. UNCHANGED batch /\ gone' = gone
      BY <1>1 DEF allVars, vars
    <2> QED BY <1>t, <2>1, OnlyTimeAges, BatchStays
  <1>2. CASE Outside
    <2>1. UNCHANGED batch /\ NoneAges
      BY <1>t, <1>2, OnlyTimeAges DEF Outside
    <2> QED BY <1>t, <2>1, BatchStays
  <1>3. ASSUME NEW c \in Callers, NEW i \in Items, Begin(c, i)
        PROVE  BatchInv'
    <2>1. gone' = gone /\ Becomes(c, [at |-> "resolving"])
      BY <1>3 DEF Begin, Look, Hit, Miss
    <2>2. /\ [at |-> "resolving"].at \notin {"admitted", "done"}
          /\ [at |-> "resolving"] \in Batch \cup {NoBatch}
      BY DEF Batch
    <2> QED BY <1>t, <2>1, <2>2, OnlyTimeAges, BatchMoves
  <1>4. ASSUME NEW c \in Callers, Await(c)
        PROVE  BatchInv'
    <2>1. UNCHANGED batch /\ gone' = gone
      BY <1>4 DEF Await, SourceAnswers, Insert
    <2> QED BY <1>t, <2>1, OnlyTimeAges, BatchStays
  <1>5. ASSUME NEW c \in Callers, LookupEnds(c) \/ Refuse(c)
        PROVE  BatchInv'
    <2>1. gone' = gone /\ Becomes(c, NoBatch)
      BY <1>5 DEF LookupEnds, Refuse, ReadEnds, Return
    <2> QED BY <1>t, <1>n, <2>1, OnlyTimeAges, BatchMoves
  <1>6. ASSUME NEW c \in Callers, Admit(c)
        PROVE  BatchInv'
    BY <1>t, <1>6, InvAdmit
  <1>7. ASSUME NEW c \in Callers, NEW r \in Requests,
               Send(c, r) \/ AnswerAtOnce(c, r)
        PROVE  BatchInv'
    BY <1>t, <1>7, InvSend
  <1>8. ASSUME NEW c \in Callers, GiveUp(c) \/ Finish(c)
        PROVE  BatchInv'
    <2>1. gone' = gone /\ Becomes(c, NoBatch)
      BY <1>8 DEF GiveUp, Finish, vars
    <2> QED BY <1>t, <1>n, <2>1, OnlyTimeAges, BatchMoves
  <1>9. ASSUME NEW c \in Callers, BackendReports(c) \/ BackendFails(c)
        PROVE  BatchInv'
    BY <1>t, <1>9, InvAnswered
  <1>10. CASE BatchRestart
    <2>1. /\ batch' \in [Callers -> Batch \cup {NoBatch}]
          /\ \A c \in Callers : RecentCredential(c)' /\ TrueAnswer(c)'
      BY <1>10 DEF BatchRestart, RecentCredential, TrueAnswer, In
    <2> QED BY <1>t, <2>1, InvStep DEF BatchInv
  <1>11. CASE BatchTick
    BY <1>t, <1>11, InvBatchTick
  <1> QED
    BY <1>1, <1>2, <1>3, <1>4, <1>5, <1>6, <1>7, <1>8, <1>9, <1>10, <1>11
    DEF BatchNext

-----------------------------------------------------------------------------

\* The credential with which a batch sorts its keys was in force as lately as
\* the cache and the wait allow, and an answer is true, for any number of
\* requests and any credentials (identity.rs:95-122, proxy.rs:1484-1565).
THEOREM BatchInductive == BatchSpec => []BatchInv
  BY BatchInvInit, BatchInvStep, PTL DEF BatchSpec

\* A batch waits no longer than its bound, and what it remembers and answers
\* are keys of the client and erased keys of the backend (proxy.rs:1484-1565).
THEOREM BatchTyped == BatchSpec => []BatchTypeOK
  <1>1. BatchInv => BatchTypeOK
    BY DEF BatchInv, ConfigInv, BatchTypeOK
  <1> QED BY <1>1, BatchInductive, PTL

\* A result names as errors exactly the keys asked for that are still there,
\* and as deleted, unless the client is quiet, exactly the others, whatever
\* the backend erased and whichever keys it was denied (proxy.rs:1484-1565).
THEOREM BatchReportsTrue == BatchSpec => []ReportTrue
  <1>1. BatchInv => ReportTrue
    BY DEF BatchInv, TrueAnswer, Truthful, ReportTrue
  <1> QED BY <1>1, BatchInductive, PTL

\* A batch goes out only with a credential that had been admitted,
LEMMA OnlySendSends ==
    ASSUME BatchInv, [BatchNext]_allVars, NEW c \in Callers,
           In(c, "admitted"), In(c, "sent")'
    PROVE  \E r \in Requests : Send(c, r)
  <1>1. batch \in [Callers -> Batch \cup {NoBatch}]
    BY DEF BatchInv
  <1>2. batch[c].at = "admitted" /\ batch[c] # NoBatch
        /\ batch'[c].at = "sent" /\ batch'[c] # NoBatch
    BY DEF In
  <1>3. ASSUME NEW d \in Callers, NEW b, Becomes(d, b), b = NoBatch \/ b.at # "sent"
        PROVE  FALSE
    BY <1>1, <1>2, <1>3 DEF Becomes
  <1>4. ASSUME UNCHANGED batch
        PROVE  FALSE
    BY <1>2, <1>4
  <1>5. ~BatchTick
    <2> SUFFICES ASSUME BatchTick PROVE FALSE
      OBVIOUS
    <2>1. batch'[c] = [batch[c] EXCEPT !.time = @ + 1]
      BY DEF BatchTick
    <2>2. batch[c] \in Admitted
      BY DEF BatchInv, RecentCredential
    <2> QED BY <1>2, <2>1, <2>2 DEF Admitted
  <1>6. ~BatchRestart
    BY <1>2 DEF BatchRestart
  <1>7. ~(UNCHANGED allVars \/ Outside)
    BY <1>4 DEF allVars, Outside
  <1>8. \A d \in Callers : ~Await(d)
    BY <1>4 DEF Await
  <1>9. \A d \in Callers, i \in Items : ~Begin(d, i)
    <2>1. [at |-> "resolving"].at # "sent"
      OBVIOUS
    <2> QED BY <1>3, <2>1 DEF Begin
  <1>10. \A d \in Callers : ~(LookupEnds(d) \/ Refuse(d) \/ GiveUp(d) \/ Finish(d))
    BY <1>3 DEF LookupEnds, Refuse, GiveUp, Finish
  <1>11. \A d \in Callers : ~Admit(d)
    <2> SUFFICES ASSUME NEW d \in Callers, Admit(d) PROVE FALSE
      OBVIOUS
    <2>1. PICK b : Becomes(d, b) /\ b.at = "admitted"
      BY DEF Admit
    <2> QED BY <1>3, <2>1
  <1>12. \A d \in Callers : \A D, a : ~Done(d, D, a)
    <2> SUFFICES ASSUME NEW d \in Callers, NEW D, NEW a, Done(d, D, a) PROVE FALSE
      OBVIOUS
    <2>1. PICK b : Becomes(d, b) /\ b.at = "done"
      BY DEF Done
    <2> QED BY <1>3, <2>1
  <1>13. \A d \in Callers : ~(BackendReports(d) \/ BackendFails(d))
    BY <1>12 DEF BackendReports, BackendFails
  <1>14. \A d \in Callers, r \in Requests : ~AnswerAtOnce(d, r)
    <2> SUFFICES ASSUME NEW d \in Callers, NEW r \in Requests, AnswerAtOnce(d, r)
                 PROVE  FALSE
      OBVIOUS
    <2>1. PICK b : Becomes(d, b) /\ b.at = "done"
      BY DEF AnswerAtOnce
    <2> QED BY <1>3, <2>1
  <1>15. PICK d \in Callers, r \in Requests : Send(d, r)
    BY <1>5, <1>6, <1>7, <1>8, <1>9, <1>10, <1>11, <1>13, <1>14 DEF BatchNext
  <1>16. d = c
    <2>1. PICK b : Becomes(d, b)
      BY <1>15 DEF Send
    <2>2. d # c => batch'[c] = batch[c]
      BY <1>1, <2>1 DEF Becomes
    <2> QED BY <1>2, <2>2
  <1> QED BY <1>15, <1>16

\* and each key in it is one which that credential grants.
LEMMA SendsWhatIsGranted ==
    ASSUME BatchInv, NEW c \in Callers, NEW r \in Requests, Send(c, r),
           NEW k \in Keys, Apply(k) \in Sent(c)'
    PROVE  /\ batch[c].credential \in Values
           /\ Grants(batch[c].credential, k)
           /\ gone[batch[c].item][batch[c].credential] <= MaxStale + MaxWait
  <1> DEFINE v == batch[c].credential
  <1>1. /\ batch[c] \in Admitted /\ v # Absent /\ v.enabled
        /\ gone[batch[c].item][v] <= MaxStale + batch[c].time
    BY DEF BatchInv, RecentCredential, Send
  <1>2. /\ v \in Values /\ batch[c].item \in Items
        /\ batch[c].time \in 0..MaxWait
    BY <1>1 DEF Admitted
  <1>3. gone[batch[c].item][v] \in 0..Horizon
    BY <1>2 DEF BatchInv, ConfigInv, TypeOK
  <1>4. gone[batch[c].item][v] <= MaxStale + MaxWait
    <2>1. /\ gone[batch[c].item][v] \in Nat
          /\ batch[c].time \in Nat /\ batch[c].time <= MaxWait
          /\ MaxWait \in Nat /\ MaxStale \in Nat
      BY <1>2, <1>3, Bounds, BatchAssumption
    <2>2. gone[batch[c].item][v] <= MaxStale + batch[c].time
      BY <1>1
    <2> HIDE DEF v
    <2> QED BY <2>1, <2>2
  <1>5. Sent(c)' = Forwarded(r, v)
    <2>1. batch'[c] = [at |-> "sent", request |-> r, credential |-> v]
      BY DEF BatchInv, Send, Becomes
    <2> QED BY <2>1 DEF Sent
  <1>6. PICK x \in ToSet(r.keys) : Allows(v, x) /\ Apply(k) = Apply(x)
    BY <1>5 DEF Forwarded
  <1>7. x = k
    BY <1>6, AskedAreKeys, ApplyInjective
  <1> QED BY <1>1, <1>2, <1>4, <1>6, <1>7 DEF Grants

\* A revoked credential, and a scope that was narrowed, deletes nothing once
\* the cache may no longer be behind and no request that began before is on
\* its way (cached.rs:108-133, identity.rs:95-122, proxy.rs:1487-1532).
THEOREM BatchRevocation == BatchSpec => RevocationTakesHold
  <1> DEFINE Granted ==
        \A c \in Callers : In(c, "admitted") /\ In(c, "sent")' =>
           \A k \in Keys : Apply(k) \in Sent(c)' =>
              \E v \in Values :
                 /\ Grants(v, k)
                 /\ gone[batch[c].item][v] <= MaxStale + MaxWait
  <1>1. BatchInv /\ [BatchNext]_allVars => Granted
    BY OnlySendSends, SendsWhatIsGranted
  <1>2. BatchInv /\ [BatchNext]_allVars => [Granted]_allVars
    BY <1>1
  <1> HIDE DEF Granted
  <1>3. BatchSpec => [][Granted]_allVars
    BY <1>2, BatchInductive, PTL DEF BatchSpec
  <1> QED BY <1>3 DEF RevocationTakesHold, Granted

\* A batch uses the config cache as ConfigCache says, so what it is told is as
\* recent as the abstract cache promises (identity.rs:95-104, cached.rs:108-133).
THEOREM BatchRefinement == BatchSpec => ImplementsStaleReads
  <1>1. BatchInit => Init
    BY DEF BatchInit
  <1>2. [BatchNext]_allVars => [Next]_vars
    BY BatchProjects
  <1>3. BatchSpec => Spec
    BY <1>1, <1>2, PTL DEF BatchSpec, Spec
  <1> QED BY <1>3, ConfigRefinement, PTL
=============================================================================
