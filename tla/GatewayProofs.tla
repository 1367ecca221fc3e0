---------------------------- MODULE GatewayProofs ----------------------------
(* Proofs about Gateway, for any slots, callers, scopes, buckets, requests. *)
(*                                                                         *)
(* An action changes one slot.  The invariant is therefore taken apart into*)
(* what holds of each slot, which the action has to restore for its own    *)
(* slot only, and what relates the slots to the shared usage.              *)
EXTENDS Gateway, TLAPS, FiniteSetTheorems, SequenceTheorems

\* What PipelineInv says of one slot.
SlotInv(r) ==
    /\ Vacant(r) /\ Cleared(r) /\ BodyKept(r) /\ Charged(r)
    /\ \A t \in touched[r] : Permitted(Who(r), t) \/ ListsBeyond(Who(r), Op(r))
    /\ (\/ body[r] = "buffered"
        \/ body[r] = "taken" /\ Op(r).kind \notin Reads \union {"DeleteObject"})
       => ~TooLarge(r)
    /\ phase[r] = "settling" /\ body[r] = "taken" =>
          reply[r].who = Who(r) /\ reply[r].bucket = Op(r).bucket

\* What a step leaves alone in a slot, and in all slots but one.
Kept(s) ==
    /\ phase'[s] = phase[s] /\ request'[s] = request[s] /\ body'[s] = body[s]
    /\ reply'[s] = reply[s] /\ charge'[s] = charge[s] /\ touched'[s] = touched[s]

Only(r) == \A s \in Slots \ {r} : Kept(s)

LEMMA Parts ==
    PipelineInv <=> TypeOK /\ Reserved /\ \A r \in Slots : SlotInv(r)
  BY DEF PipelineInv, SlotInv, Mediated, NoOversizedBody, SentIsAttributed

LEMMA PartsAfter ==
    ASSUME TypeOK', Reserved', \A r \in Slots : SlotInv(r)'
    PROVE  PipelineInv'
  BY DEF PipelineInv, SlotInv, Mediated, NoOversizedBody, SentIsAttributed

LEMMA KeptInv ==
    ASSUME NEW s \in Slots, SlotInv(s), Kept(s)
    PROVE  SlotInv(s)'
  <1> USE DEF Kept, Op, Who, Declared
  <1>1. Op(s)' = Op(s) /\ Who(s)' = Who(s) /\ Declared(s)' = Declared(s)
    OBVIOUS
  <1>2. TooLarge(s)' = TooLarge(s)
    BY DEF TooLarge
  <1>3. (Vacant(s) /\ BodyKept(s) /\ Charged(s))'
    BY DEF SlotInv, Vacant, BodyKept, Charged, TooLarge
  <1>4. Cleared(s)'
    <2>1. /\ Forwards(s)' = Forwards(s)
          /\ NeedsBody(s)' = NeedsBody(s)
          /\ Copies(s)' = Copies(s)
      BY DEF Forwards, NeedsBody, Copies, IsS3, TooLarge
    <2> QED
      BY <2>1 DEF SlotInv, Cleared
  <1> QED
    BY <1>2, <1>3, <1>4 DEF SlotInv

\* It suffices to restore the invariant of the slot that moved.
LEMMA OneSlot ==
    ASSUME NEW r \in Slots, \A s \in Slots : SlotInv(s), Only(r), SlotInv(r)'
    PROVE  \A s \in Slots : SlotInv(s)'
  <1> SUFFICES ASSUME NEW s \in Slots
               PROVE  SlotInv(s)'
    OBVIOUS
  <1>1. CASE s = r
    BY <1>1
  <1>2. CASE s # r
    BY <1>2, KeptInv DEF Only
  <1> QED
    BY <1>1, <1>2

-----------------------------------------------------------------------------
(* Requests and permissions                                                *)

LEMMA ArrivalFields ==
    ASSUME NEW r \in Slots, request[r] \in Arrivals
    PROVE  /\ Op(r).kind \in Kinds
           /\ Op(r).bucket \in Buckets \union {NoBucket}
           /\ Op(r).key \in Keys \union {NoKey}
           /\ Op(r).asked \in Seq(KeyPrefixes)
           /\ Op(r).batch \in SUBSET Keys
           /\ Op(r).bucket = NoBucket <=> Op(r).kind \in {"ListBuckets", "Unparsable"}
           /\ Op(r).kind = "CopyObject" => Op(r).source \in Source
           /\ Who(r) \in Callers
           /\ Known(Declared(r)) \in 0..MaxBytes
  <1>1. request[r] \in Arrival
    BY GatewayAssumption
  <1>2. Op(r) \in Operation /\ Who(r) \in Callers /\ Declared(r) \in Lengths
    BY <1>1 DEF Arrival, Op, Who, Declared
  <1>3. Known(Declared(r)) \in 0..MaxBytes
    BY <1>2, GatewayAssumption DEF Known, Lengths
  <1> QED
    BY <1>2, <1>3 DEF Operation

LEMMA ActionOfKind ==
    ASSUME NEW op
    PROVE  /\ op.kind = "CopyObject" => ActionOf(op) = "PutObject"
           /\ op.kind = "DeleteObjects" => ActionOf(op) = "DeleteObject"
           /\ op.kind \in Reads \union Multipart \union
                 {"PutObject", "DeleteObject", "ListBucket", "UploadPart"}
                 => ActionOf(op) = op.kind
  BY DEF ActionOf, Reads, Multipart

LEMMA ResolvesPermits ==
    ASSUME NEW who, NEW bucket, NEW action, NEW key,
           Resolves(who, bucket, action, key, FALSE)
    PROVE  Permitted(who, Touch(action, bucket, key))
  BY DEF Resolves, Authorized, Permitted, Touch

LEMMA TouchType ==
    ASSUME NEW action \in Actions, NEW bucket \in Buckets,
           NEW key \in Keys \union {NoKey}
    PROVE  Touch(action, bucket, key) \in Touches
  BY DEF Touch, Touches

LEMMA ReplyType ==
    ASSUME NEW status \in {"ok", "error", "limited"}, NEW who \in Callers,
           NEW bucket \in Buckets \union {NoBucket}, NEW bytes \in 0..MaxBytes
    PROVE  /\ Reply(status, who, bucket, bytes) \in Replies
           /\ Reply("error", Nobody, NoBucket, 0) \in Replies
  BY DEF Reply, Replies

-----------------------------------------------------------------------------
(* The usage and the slots.  Only the quota check admits a request, and    *)
(* only settling adds to the usage; every other step frees what an         *)
(* admitted request had reserved, or keeps it.                             *)

LEMMA AdmittedFinite ==
    ASSUME NEW m \in Meters
    PROVE  /\ IsFiniteSet(Admitted(m))
           /\ Cardinality(Admitted(m)) \in Nat
           /\ Cardinality(Slots) \in Nat
           /\ Cardinality(Admitted(m)) <= Cardinality(Slots)
  BY GatewayAssumption, FS_Subset, FS_CardinalityType DEF Admitted

LEMMA AdmittedSmaller ==
    ASSUME NEW m \in Meters, Admitted(m)' \subseteq Admitted(m)
    PROVE  /\ Cardinality(Admitted(m)') \in Nat
           /\ Cardinality(Admitted(m)') <= Cardinality(Admitted(m))
  BY AdmittedFinite, FS_Subset, FS_CardinalityType

LEMMA Monotone ==
    ASSUME NEW i \in Nat, NEW j \in Nat, i <= j
    PROVE  /\ MaxBytes * i \in Nat /\ MaxBytes * j \in Nat
           /\ MaxBytes * i <= MaxBytes * j
  <1>1. MaxBytes \in Nat
    BY GatewayAssumption
  <1>2. PICK d \in Nat : j = i + d
    <2>1. j - i \in Nat /\ j = i + (j - i)
      OBVIOUS
    <2> QED BY <2>1
  <1>3. MaxBytes * j = MaxBytes * i + MaxBytes * d
    BY <1>1, <1>2
  <1>4. MaxBytes * d \in Nat /\ MaxBytes * i \in Nat
    BY <1>1, <1>2
  <1> QED
    BY <1>3, <1>4

LEMMA LimitType ==
    ASSUME NEW m \in Meters, Quota[m.bucket] # Unlimited
    PROVE  /\ Quota[m.bucket] \in Nat
           /\ MaxBytes \in Nat
           /\ MaxBytes * Cardinality(Slots) \in Nat
           /\ Quota[m.bucket] + MaxBytes * Cardinality(Slots) < UsageCap
  <1>1. m.bucket \in Buckets
    BY DEF Meters
  <1> QED
    BY <1>1, GatewayAssumption, AdmittedFinite, Monotone

\* The room that is reserved for a meter, in one step of arithmetic.
LEMMA RoomKept ==
    ASSUME TypeOK, Reserved, NEW m \in Meters, NEW n \in Nat,
           n <= moved[m], Admitted(m)' \subseteq Admitted(m),
           Quota[m.bucket] # Unlimited
    PROVE  n + MaxBytes * Cardinality(Admitted(m)')
              <= Quota[m.bucket] + MaxBytes * Cardinality(Slots)
  <1>1. moved[m] + MaxBytes * Cardinality(Admitted(m))
           <= Quota[m.bucket] + MaxBytes * Cardinality(Slots)
    BY DEF Reserved
  <1>2. /\ MaxBytes * Cardinality(Admitted(m)') \in Nat
        /\ MaxBytes * Cardinality(Admitted(m)) \in Nat
        /\ MaxBytes * Cardinality(Admitted(m)') <= MaxBytes * Cardinality(Admitted(m))
    BY AdmittedFinite, AdmittedSmaller, Monotone
  <1>3. moved[m] \in Nat
    BY GatewayAssumption DEF TypeOK
  <1> QED
    BY <1>1, <1>2, <1>3, LimitType

\* A step that adds nothing to the usage and admits nobody.
LEMMA ReservedKept ==
    ASSUME TypeOK, Reserved, UNCHANGED usage,
           \A m \in Meters : Admitted(m)' \subseteq Admitted(m)
    PROVE  Reserved'
  <1> SUFFICES ASSUME NEW m \in Meters
               PROVE  /\ moved'[m] <= used'[m]
                      /\ Quota[m.bucket] # Unlimited =>
                            moved'[m] + MaxBytes * Cardinality(Admitted(m)')
                               <= Quota[m.bucket] + MaxBytes * Cardinality(Slots)
    BY DEF Reserved
  <1>1. moved' = moved /\ used' = used
    BY DEF usage
  <1>2. moved[m] \in Nat
    BY GatewayAssumption DEF TypeOK
  <1> QED
    BY <1>1, <1>2, RoomKept DEF Reserved

\* Slots that do not move are admitted as they were.
LEMMA AdmittedByOthers ==
    ASSUME NEW r \in Slots, Only(r), NEW m \in Meters, NEW s \in Slots \ {r}
    PROVE  s \in Admitted(m)' <=> s \in Admitted(m)
  BY DEF Only, Kept, Admitted, Meter, Op, Who

LEMMA NoneAdmitted ==
    ASSUME NEW r \in Slots, Only(r), NEW m \in Meters,
           \/ charge'[r] # "admitted"
           \/ charge'[r] = charge[r] /\ request'[r] = request[r]
    PROVE  Admitted(m)' \subseteq Admitted(m)
  <1>1. r \in Admitted(m)' => r \in Admitted(m)
    BY DEF Admitted, Meter, Op, Who
  <1> QED
    BY <1>1, AdmittedByOthers DEF Admitted

-----------------------------------------------------------------------------
(* The three ways a step of a slot can end: it leaves the slot, it knows   *)
(* the answer, or it moves on.                                             *)

LEMMA LeaveKeeps ==
    ASSUME TypeOK, NEW r \in Slots, Leave(r), \A s \in Slots : SlotInv(s)
    PROVE  /\ Only(r)
           /\ \A s \in Slots : SlotInv(s)'
           /\ \A m \in Meters : Admitted(m)' \subseteq Admitted(m)
           /\ used' \in [Meters -> 0..UsageCap] /\ moved' \in [Meters -> 0..UsageCap]
                 => TypeOK'
  <1> USE DEF Leave, TypeOK
  <1>1. Only(r)
    BY DEF Only, Kept
  <1>2. /\ phase'[r] = "idle" /\ body'[r] = "stream" /\ charge'[r] = "none"
        /\ touched'[r] = {}
    OBVIOUS
  <1>3. SlotInv(r)'
    BY <1>2 DEF SlotInv, Vacant, Cleared, BodyKept, Charged, Resolved, Unresolved
  <1>4. used' \in [Meters -> 0..UsageCap] /\ moved' \in [Meters -> 0..UsageCap]
           => TypeOK'
    BY DEF Phases
  <1> QED
    BY <1>1, <1>2, <1>3, <1>4, OneSlot, NoneAdmitted

\* A slot that leaves without touching the usage.
LEMMA LeaveSafe ==
    ASSUME PipelineInv, NEW r \in Slots, Leave(r), UNCHANGED usage
    PROVE  PipelineInv'
  <1>1. TypeOK /\ Reserved /\ \A s \in Slots : SlotInv(s)
    BY Parts
  <1>2. used' \in [Meters -> 0..UsageCap] /\ moved' \in [Meters -> 0..UsageCap]
    BY <1>1 DEF usage, TypeOK
  <1>3. TypeOK' /\ Reserved' /\ \A s \in Slots : SlotInv(s)'
    BY <1>1, <1>2, LeaveKeeps, ReservedKept
  <1> QED
    BY <1>3, PartsAfter

\* A slot that settles, with an answer that fits its request.
LEMMA SettlingSafe ==
    ASSUME PipelineInv, NEW r \in Slots, NEW answer \in Replies,
           phase[r] \notin {"idle", "settling"}, Settling(r, answer),
           answer.bucket \in {Op(r).bucket, NoBucket},
           charge[r] = "none" => answer.bytes = 0 \/ answer.status = "limited",
           \/ body' = body
           \/ body[r] = "buffered" /\ body' = [body EXCEPT ![r] = "taken"],
           body'[r] = "taken" => answer.who = Who(r) /\ answer.bucket = Op(r).bucket,
           UNCHANGED <<request, usage, charge, touched>>
    PROVE  PipelineInv'
  <1>1. TypeOK /\ Reserved /\ \A s \in Slots : SlotInv(s)
    BY Parts
  <1>2. Only(r)
    BY <1>1 DEF TypeOK, Only, Kept, Settling, Goto
  <1>3. /\ phase'[r] = "settling" /\ reply'[r] = answer /\ request'[r] = request[r]
        /\ charge'[r] = charge[r] /\ touched'[r] = touched[r]
    BY <1>1 DEF TypeOK, Settling, Goto
  <1>4. Op(r)' = Op(r) /\ Who(r)' = Who(r) /\ TooLarge(r)' = TooLarge(r)
    BY <1>3 DEF Op, Who, TooLarge, Declared
  <1>5. (Vacant(r) /\ Cleared(r) /\ BodyKept(r) /\ Charged(r))'
    BY <1>1, <1>3, <1>4
    DEF SlotInv, Vacant, Cleared, BodyKept, Charged, Resolved, Unresolved
  <1>6. \A t \in touched'[r] :
            Permitted(Who(r)', t) \/ ListsBeyond(Who(r)', Op(r)')
    BY <1>1, <1>3, <1>4 DEF SlotInv
  <1>7. (\/ body'[r] = "buffered"
         \/ body'[r] = "taken" /\ Op(r)'.kind \notin Reads \union {"DeleteObject"})
        => ~TooLarge(r)'
    BY <1>1, <1>4 DEF SlotInv, TypeOK
  <1>8. SlotInv(r)'
    BY <1>3, <1>4, <1>5, <1>6, <1>7 DEF SlotInv
  <1>9. TypeOK'
    BY <1>1 DEF TypeOK, Settling, Goto, Phases, usage
  <1>10. Reserved'
    BY <1>1, <1>2, <1>3, NoneAdmitted, ReservedKept
  <1> QED
    BY <1>1, <1>2, <1>8, <1>9, <1>10, OneSlot, PartsAfter

\* error_result names nobody, so the body of its request must not have gone.
LEMMA RejectSafe ==
    ASSUME PipelineInv, NEW r \in Slots, phase[r] \notin {"idle", "settling"},
           body[r] # "taken", Reject(r),
           UNCHANGED <<request, body, usage, charge, touched>>
    PROVE  PipelineInv'
  <1> DEFINE answer == Reply("error", Nobody, NoBucket, 0)
  <1>1. answer \in Replies /\ answer.bucket = NoBucket /\ answer.bytes = 0
    BY DEF Replies, Reply
  <1>2. Settling(r, answer)
    BY DEF Reject
  <1> HIDE DEF answer
  <1> QED
    BY <1>1, <1>2, SettlingSafe

\* An answer of the proxy or the backend, with some number of bytes.
LEMMA AnswerSafe ==
    ASSUME PipelineInv, NEW r \in Slots, NEW status \in {"ok", "error", "limited"},
           NEW bytes \in 0..MaxBytes, phase[r] \notin {"idle", "settling"},
           Settling(r, Reply(status, Who(r), Op(r).bucket, bytes)),
           charge[r] = "none" => status = "limited",
           \/ body' = body
           \/ body[r] = "buffered" /\ body' = [body EXCEPT ![r] = "taken"],
           UNCHANGED <<request, usage, charge, touched>>
    PROVE  PipelineInv'
  <1> DEFINE answer == Reply(status, Who(r), Op(r).bucket, bytes)
  <1>1. request[r] \in Arrivals
    BY Parts DEF SlotInv, Vacant
  <1>2. answer \in Replies
    BY <1>1, ArrivalFields, ReplyType
  <1>3. /\ answer.status = status /\ answer.who = Who(r)
        /\ answer.bucket = Op(r).bucket
    BY DEF Reply
  <1>4. Settling(r, answer)
    OBVIOUS
  <1> HIDE DEF answer
  <1> QED
    BY <1>2, <1>3, <1>4, SettlingSafe

\* A slot that moves on and only changes its phase.
LEMMA MoveSafe ==
    ASSUME PipelineInv, NEW r \in Slots, NEW p \in Phases \ {"idle", "settling"},
           phase[r] # "idle", Goto(r, p),
           UNCHANGED <<request, body, reply, usage, charge, touched>>,
           Cleared(r)', BodyKept(r)', Charged(r)'
    PROVE  PipelineInv'
  <1>1. TypeOK /\ Reserved /\ \A s \in Slots : SlotInv(s)
    BY Parts
  <1>2. Only(r)
    BY <1>1 DEF TypeOK, Only, Kept, Goto
  <1>3. phase'[r] = p
    BY <1>1 DEF TypeOK, Goto
  <1>4. TypeOK'
    BY <1>1 DEF TypeOK, Goto, usage
  <1>5. Op(r)' = Op(r) /\ Who(r)' = Who(r) /\ TooLarge(r)' = TooLarge(r)
    BY DEF Op, Who, TooLarge, Declared
  <1>6. SlotInv(r)'
    BY <1>1, <1>3, <1>5 DEF SlotInv, Vacant
  <1>7. Reserved'
    BY <1>1, <1>2, NoneAdmitted, ReservedKept
  <1> QED
    BY <1>1, <1>2, <1>4, <1>6, <1>7, OneSlot, PartsAfter

-----------------------------------------------------------------------------
(* One lemma for each action that does not simply leave or answer.         *)

LEMMA ArriveSafe ==
    ASSUME PipelineInv, NEW r \in Slots, NEW a \in Arrivals, Arrive(r, a)
    PROVE  PipelineInv'
  <1>1. TypeOK /\ Reserved /\ \A s \in Slots : SlotInv(s)
    BY Parts
  <1>2. Only(r)
    BY <1>1 DEF TypeOK, Only, Kept, Arrive, Goto
  <1>3. /\ phase'[r] = "routing" /\ request'[r] = a /\ body'[r] = "stream"
        /\ charge'[r] = "none" /\ touched'[r] = {}
    BY <1>1 DEF TypeOK, Arrive, Goto, SlotInv, Vacant
  <1>4. TypeOK'
    BY <1>1 DEF TypeOK, Arrive, Goto, Phases, usage
  <1>5. SlotInv(r)'
    BY <1>3 DEF SlotInv, Vacant, Cleared, BodyKept, Charged, Resolved, Unresolved
  <1>6. Reserved'
    <2>1. charge'[r] # "admitted" /\ UNCHANGED usage
      BY <1>3 DEF Arrive
    <2> QED
      BY <1>1, <1>2, <2>1, NoneAdmitted, ReservedKept
  <1> QED
    BY <1>1, <1>2, <1>4, <1>5, <1>6, OneSlot, PartsAfter

LEMMA ClassifySafe ==
    ASSUME PipelineInv, NEW r \in Slots, Classify(r)
    PROVE  PipelineInv'
  <1> DEFINE p == IF NeedsBufferedBody(Op(r)) THEN "collecting" ELSE "identifying"
  <1>1. phase[r] = "routing" /\ SlotInv(r) /\ TypeOK
    BY Parts DEF Classify
  <1>2. CASE Leave(r)
    BY <1>2, LeaveSafe DEF Classify, usage
  <1>3. CASE /\ NeedsBufferedBody(Op(r)) => ~TooLarge(r)
             /\ Goto(r, p)
             /\ UNCHANGED <<request, body, reply, charge, touched>>
    <2>1. p \in Phases \ {"idle", "settling"} /\ p \in {"collecting", "identifying"}
      BY DEF Phases
    <2>2. phase'[r] = p /\ UNCHANGED <<request, body, reply, usage, charge, touched>>
      BY <1>1, <1>3 DEF TypeOK, Goto, Classify, usage
    <2>3. Op(r)' = Op(r) /\ TooLarge(r)' = TooLarge(r)
      BY <2>2 DEF Op, TooLarge, Declared
    <2>4. BodyKept(r)'
      <3>1. body'[r] = "stream"
        BY <1>1, <2>2 DEF SlotInv, BodyKept
      <3> QED
        BY <1>3, <2>2, <2>3, <3>1 DEF BodyKept, Resolved, NeedsBufferedBody
    <2>5. Cleared(r)' /\ Charged(r)'
      BY <1>1, <2>1, <2>2 DEF SlotInv, Cleared, Charged, Resolved, Unresolved
    <2> HIDE DEF p
    <2> QED
      BY <1>1, <1>3, <2>1, <2>2, <2>4, <2>5, MoveSafe
  <1> QED
    BY <1>2, <1>3 DEF Classify

LEMMA CollectSafe ==
    ASSUME PipelineInv, NEW r \in Slots, Collect(r)
    PROVE  PipelineInv'
  <1>1. TypeOK /\ Reserved /\ \A s \in Slots : SlotInv(s)
    BY Parts
  <1>2. Only(r)
    BY <1>1 DEF TypeOK, Only, Kept, Collect, Goto
  <1>3. /\ phase[r] = "collecting" /\ phase'[r] = "identifying"
        /\ body'[r] = "buffered" /\ request'[r] = request[r]
        /\ charge'[r] = charge[r] /\ touched'[r] = touched[r]
    BY <1>1 DEF TypeOK, Collect, Goto
  <1>4. TypeOK'
    BY <1>1 DEF TypeOK, Collect, Goto, Phases, usage
  <1>5. Op(r)' = Op(r) /\ Who(r)' = Who(r) /\ TooLarge(r)' = TooLarge(r)
    BY <1>3 DEF Op, Who, TooLarge, Declared
  <1>6. NeedsBufferedBody(Op(r)) /\ ~TooLarge(r)
    BY <1>1, <1>3 DEF SlotInv, BodyKept
  <1>7. BodyKept(r)'
    BY <1>3, <1>5, <1>6 DEF BodyKept, Resolved, NeedsBufferedBody
  <1>8. SlotInv(r)'
    BY <1>1, <1>3, <1>5, <1>6, <1>7
    DEF SlotInv, Vacant, Cleared, Charged, Resolved, Unresolved
  <1>9. Reserved'
    <2>1. UNCHANGED usage
      BY DEF Collect
    <2> QED
      BY <1>1, <1>2, <1>3, <2>1, NoneAdmitted, ReservedKept
  <1> QED
    BY <1>1, <1>2, <1>4, <1>8, <1>9, OneSlot, PartsAfter

\* Before it is sent, the body of a request has not been taken.
LEMMA NotTaken ==
    ASSUME PipelineInv, NEW r \in Slots,
           phase[r] \in {"identifying", "locating"} \union (Resolved \ {"awaiting"})
    PROVE  /\ body[r] # "taken"
           /\ phase[r] \notin {"idle", "settling"}
           /\ NeedsBufferedBody(Op(r)) <=> body[r] = "buffered"
  BY Parts DEF SlotInv, BodyKept, Resolved

\* The phases between reading the body and sending it.
LEMMA MoveBeforeSending ==
    ASSUME PipelineInv, NEW r \in Slots,
           phase[r] \in {"identifying", "locating"} \union (Resolved \ {"awaiting"}),
           NEW p \in {"locating"} \union (Resolved \ {"awaiting"}),
           Goto(r, p), UNCHANGED <<request, body, reply, usage, charge, touched>>,
           Cleared(r)', Charged(r)'
    PROVE  PipelineInv'
  <1>1. TypeOK /\ SlotInv(r)
    BY Parts
  <1>2. p \in Phases \ {"idle", "settling"}
    BY DEF Phases, Resolved
  <1>3. phase'[r] = p /\ Op(r)' = Op(r) /\ body'[r] = body[r]
    BY <1>1 DEF TypeOK, Goto, Op
  <1>4. BodyKept(r)'
    BY <1>1, <1>3 DEF SlotInv, BodyKept, Resolved, NeedsBufferedBody
  <1> QED
    BY <1>2, <1>4, NotTaken, MoveSafe

LEMMA IdentifySafe ==
    ASSUME PipelineInv, NEW r \in Slots, Identify(r)
    PROVE  PipelineInv'
  <1>1. TypeOK /\ SlotInv(r) /\ phase[r] = "identifying" /\ request[r] \in Arrivals
    BY Parts DEF Identify, SlotInv, Vacant
  <1>2. CASE Reject(r)
    BY <1>1, <1>2, NotTaken, RejectSafe DEF Identify
  <1>3. CASE Goto(r, IF Op(r).bucket = NoBucket THEN "screening" ELSE "locating")
             /\ UNCHANGED reply
    <2> DEFINE p == IF Op(r).bucket = NoBucket THEN "screening" ELSE "locating"
    <2>1. p \in {"locating"} \union (Resolved \ {"awaiting"})
      BY DEF Resolved
    <2>2. /\ phase'[r] = p /\ Op(r)' = Op(r)
          /\ UNCHANGED <<request, body, reply, usage, charge, touched>>
      BY <1>1, <1>3 DEF TypeOK, Goto, Identify, Op, usage
    <2>3. Cleared(r)' /\ Charged(r)'
      BY <1>1, <2>2 DEF SlotInv, Cleared, Charged, Resolved, Unresolved
    <2>4. Goto(r, p)
      BY <1>3
    <2> HIDE DEF p
    <2> QED
      BY <1>1, <2>1, <2>2, <2>3, <2>4, MoveBeforeSending
  <1> QED
    BY <1>2, <1>3 DEF Identify

LEMMA LocateSafe ==
    ASSUME PipelineInv, NEW r \in Slots, Locate(r)
    PROVE  PipelineInv'
  <1>1. TypeOK /\ SlotInv(r) /\ phase[r] = "locating"
    BY Parts DEF Locate
  <1>2. CASE Reject(r)
    BY <1>1, <1>2, NotTaken, RejectSafe DEF Locate
  <1>3. CASE /\ Resolves(Who(r), Op(r).bucket, ActionOf(Op(r)), AuthKey(Op(r)),
                         Op(r).kind = "DeleteObjects")
             /\ Goto(r, "screening") /\ UNCHANGED reply
    <2>1. /\ phase'[r] = "screening"
          /\ UNCHANGED <<request, body, reply, usage, charge, touched>>
      BY <1>1, <1>3 DEF TypeOK, Goto, Locate, usage
    <2>2. Op(r)' = Op(r) /\ Who(r)' = Who(r)
      BY <2>1 DEF Op, Who
    <2>3. Cleared(r)'
      BY <1>3, <2>1, <2>2 DEF Cleared, Resolves, Authorized
    <2>4. Charged(r)'
      BY <1>1, <2>1 DEF SlotInv, Charged, Resolved, Unresolved
    <2> QED
      BY <1>1, <1>3, <2>1, <2>3, <2>4, MoveBeforeSending DEF Resolved
  <1> QED
    BY <1>2, <1>3 DEF Locate

LEMMA ScreeningSafe ==
    ASSUME PipelineInv, NEW r \in Slots, ChainFails(r) \/ RateLimited(r)
    PROVE  PipelineInv'
  <1>1. CASE ChainFails(r)
    BY <1>1, NotTaken, RejectSafe DEF ChainFails, Resolved
  <1>2. CASE RateLimited(r)
    <2>1. PICK bytes \in 0..MaxBytes :
             Settling(r, Reply("limited", Who(r), Op(r).bucket, bytes))
      BY <1>2 DEF RateLimited, Respond
    <2> QED
      BY <1>2, <2>1, AnswerSafe DEF RateLimited
  <1> QED
    BY <1>1, <1>2

\* A request leaves the middleware chain, with its charge.
LEMMA AdmitKeeps ==
    ASSUME PipelineInv, NEW r \in Slots, phase[r] = "screening",
           Goto(r, "dispatching"), NEW c \in {"admitted", "unchecked"},
           charge' = [charge EXCEPT ![r] = c],
           UNCHANGED <<request, body, reply, usage, touched>>
    PROVE  /\ TypeOK' /\ Only(r) /\ charge'[r] = c
           /\ \A s \in Slots : SlotInv(s)'
  <1>1. TypeOK /\ \A s \in Slots : SlotInv(s)
    BY Parts
  <1>2. Only(r)
    BY <1>1 DEF TypeOK, Only, Kept, Goto
  <1>3. /\ phase'[r] = "dispatching" /\ charge'[r] = c
        /\ UNCHANGED <<request, body, reply, touched>>
    BY <1>1 DEF TypeOK, Goto
  <1>4. TypeOK'
    BY <1>1 DEF TypeOK, Goto, Phases, usage
  <1>5. Op(r)' = Op(r) /\ Who(r)' = Who(r) /\ TooLarge(r)' = TooLarge(r)
    BY <1>3 DEF Op, Who, TooLarge, Declared
  <1>6. (Vacant(r) /\ Charged(r))'
    BY <1>1, <1>3 DEF SlotInv, Vacant, Charged, Resolved, Unresolved
  <1>7. BodyKept(r)'
    BY <1>1, <1>3, <1>5 DEF SlotInv, BodyKept, Resolved, NeedsBufferedBody
  <1>8. Cleared(r)'
    BY <1>1, <1>3, <1>5 DEF SlotInv, Cleared, Resolved, Resolves, Authorized
  <1>9. SlotInv(r)'
    BY <1>1, <1>3, <1>5, <1>6, <1>7, <1>8 DEF SlotInv
  <1> QED
    BY <1>1, <1>2, <1>3, <1>4, <1>9, OneSlot

\* A check that admits a request has found room for it: what is recorded is
\* within the quota, and no more requests are admitted than there are slots.
LEMMA AdmitReserved ==
    ASSUME PipelineInv, NEW r \in Slots, Only(r), UNCHANGED <<request, usage>>,
           request[r] \in Arrivals, Limited(r) => ~OverQuota(r)
    PROVE  Reserved'
  <1>1. TypeOK /\ Reserved
    BY Parts
  <1> SUFFICES ASSUME NEW m \in Meters
               PROVE  /\ moved'[m] <= used'[m]
                      /\ Quota[m.bucket] # Unlimited =>
                            moved'[m] + MaxBytes * Cardinality(Admitted(m)')
                               <= Quota[m.bucket] + MaxBytes * Cardinality(Slots)
    BY DEF Reserved
  <1>2. /\ moved'[m] = moved[m] /\ used'[m] = used[m] /\ moved[m] <= used[m]
        /\ moved[m] \in Nat /\ used[m] \in Nat
    BY <1>1, GatewayAssumption DEF usage, TypeOK, Reserved
  <1>3. CASE Quota[m.bucket] = Unlimited
    BY <1>2, <1>3
  <1>4. CASE Quota[m.bucket] # Unlimited /\ m # Meter(r)
    <2>1. r \notin Admitted(m)'
      BY <1>4 DEF Admitted, Meter, Op, Who
    <2>2. Admitted(m)' \subseteq Admitted(m)
      BY <2>1, AdmittedByOthers DEF Admitted
    <2> QED
      BY <1>1, <1>2, <2>2, RoomKept, <1>4
  <1>5. CASE Quota[m.bucket] # Unlimited /\ m = Meter(r)
    <2>1. m.bucket = Op(r).bucket /\ m.bucket \in Buckets
      BY <1>5 DEF Meter, Meters
    <2>2. Limited(r)
      BY <1>5, <2>1, GatewayAssumption DEF Limited
    <2>3. Known(Declared(r)) \in Nat
      BY ArrivalFields, GatewayAssumption
    <2>4. used[m] <= Quota[m.bucket]
      BY <1>2, <1>5, <2>1, <2>2, <2>3, LimitType DEF OverQuota
    <2>5. Admitted(m)' \subseteq Slots
      BY DEF Admitted
    <2>6. Cardinality(Admitted(m)') \in Nat /\ Cardinality(Slots) \in Nat
          /\ Cardinality(Admitted(m)') <= Cardinality(Slots)
      BY <2>5, GatewayAssumption, FS_Subset, FS_CardinalityType
    <2>7. /\ MaxBytes * Cardinality(Admitted(m)') \in Nat
          /\ MaxBytes * Cardinality(Admitted(m)') <= MaxBytes * Cardinality(Slots)
      BY <2>6, Monotone
    <2> QED
      BY <1>2, <1>5, <2>4, <2>7, LimitType
  <1> QED
    BY <1>3, <1>4, <1>5

LEMMA QuotaCheckSafe ==
    ASSUME PipelineInv, NEW r \in Slots, QuotaCheck(r) \/ QuotaCheckFailsOpen(r)
    PROVE  PipelineInv'
  <1>1. TypeOK /\ Reserved /\ SlotInv(r) /\ phase[r] = "screening"
    BY Parts DEF QuotaCheck, QuotaCheckFailsOpen
  <1>2. request[r] \in Arrivals /\ UNCHANGED <<request, usage>>
    BY <1>1 DEF SlotInv, Vacant, QuotaCheck, QuotaCheckFailsOpen, usage
  <1>3. CASE QuotaCheck(r) /\ Limited(r) /\ OverQuota(r)
    <2>1. PICK bytes \in 0..MaxBytes :
             Settling(r, Reply("limited", Who(r), Op(r).bucket, bytes))
      BY <1>3 DEF QuotaCheck, Respond
    <2>2. UNCHANGED <<request, body, usage, charge, touched>>
      BY <1>3 DEF QuotaCheck
    <2> QED
      BY <1>1, <2>1, <2>2, AnswerSafe
  <1>4. CASE QuotaCheck(r) /\ ~(Limited(r) /\ OverQuota(r))
    <2>1. /\ Goto(r, "dispatching") /\ charge' = [charge EXCEPT ![r] = "admitted"]
          /\ UNCHANGED <<request, body, reply, usage, touched>>
      BY <1>4 DEF QuotaCheck
    <2>2. TypeOK' /\ Only(r) /\ \A s \in Slots : SlotInv(s)'
      BY <1>1, <2>1, AdmitKeeps
    <2>3. Reserved'
      BY <1>2, <1>4, <2>2, AdmitReserved
    <2> QED
      BY <2>2, <2>3, PartsAfter
  <1>5. CASE QuotaCheckFailsOpen(r)
    <2>1. /\ Goto(r, "dispatching") /\ charge' = [charge EXCEPT ![r] = "unchecked"]
          /\ UNCHANGED <<request, body, reply, usage, touched>>
      BY <1>5 DEF QuotaCheckFailsOpen
    <2>2. /\ TypeOK' /\ Only(r) /\ \A s \in Slots : SlotInv(s)'
          /\ charge'[r] = "unchecked"
      BY <1>1, <2>1, AdmitKeeps
    <2>3. Reserved'
      BY <1>1, <1>2, <2>2, NoneAdmitted, ReservedKept
    <2> QED
      BY <2>2, <2>3, PartsAfter
  <1> QED
    BY <1>3, <1>4, <1>5

LEMMA DispatchSafe ==
    ASSUME PipelineInv, NEW r \in Slots, Dispatch(r) \/ DispatchFails(r)
    PROVE  PipelineInv'
  <1>1. /\ TypeOK /\ SlotInv(r) /\ phase[r] = "dispatching"
        /\ charge[r] # "none"
        /\ UNCHANGED <<request, body, usage, charge, touched>>
    BY Parts DEF Dispatch, DispatchFails, SlotInv, Charged, Resolved
  <1>2. CASE DispatchFails(r)
    BY <1>1, <1>2, NotTaken, RejectSafe DEF DispatchFails, Resolved
  <1>3. CASE Respond(r, "ok")
    <2>1. PICK bytes \in 0..MaxBytes :
             Settling(r, Reply("ok", Who(r), Op(r).bucket, bytes))
      BY <1>3 DEF Respond
    <2> QED
      BY <1>1, <2>1, AnswerSafe
  <1>4. ASSUME NEW p \in {"forwarding", "needsBody", "sourcing"},
               Goto(r, p), UNCHANGED reply,
               p = "forwarding" => Forwards(r),
               p = "needsBody" => NeedsBody(r),
               p = "sourcing" => Copies(r)
        PROVE  PipelineInv'
    <2>1. phase'[r] = p /\ Op(r)' = Op(r) /\ Who(r)' = Who(r)
      BY <1>1, <1>4 DEF TypeOK, Goto, Op, Who
    <2>2. /\ Forwards(r)' = Forwards(r)
          /\ NeedsBody(r)' = NeedsBody(r)
          /\ Copies(r)' = Copies(r)
      BY <1>1, <2>1
      DEF Forwards, NeedsBody, Copies, IsS3, TooLarge, Declared, Op
    <2>3. Cleared(r)'
      BY <1>1, <1>4, <2>1, <2>2 DEF SlotInv, Cleared, Resolved, Resolves, Authorized
    <2>4. Charged(r)'
      BY <1>1, <2>1 DEF SlotInv, Charged, Resolved, Unresolved
    <2>5. p \in Resolved \ {"awaiting"}
      BY DEF Resolved
    <2> QED
      BY <1>1, <1>4, <2>3, <2>4, <2>5, MoveBeforeSending DEF Resolved
  <1> QED
    BY <1>2, <1>3, <1>4 DEF Dispatch

\* What is sent to the backend is permitted, and a body that is sent fits.
LEMMA SendSafe ==
    ASSUME PipelineInv, NEW r \in Slots, NEW p \in {"inChain", "awaiting"},
           NEW touches \in SUBSET Touches,
           phase[r] \in Resolved \ {"awaiting", "screening"},
           Goto(r, p), Send(r, touches),
           \A t \in touches :
               Permitted(Who(r), t) \/ ListsBeyond(Who(r), Op(r)),
           p = "inChain" => body' = body,
           p = "awaiting" =>
              /\ body' = [body EXCEPT ![r] = "taken"]
              /\ Op(r).kind \notin Reads \union {"DeleteObject"} => ~TooLarge(r),
           UNCHANGED <<request, reply, usage, charge>>
    PROVE  PipelineInv'
  <1>1. TypeOK /\ Reserved /\ \A s \in Slots : SlotInv(s)
    BY Parts
  <1>2. Only(r)
    BY <1>1 DEF TypeOK, Only, Kept, Goto, Send
  <1>3. /\ phase'[r] = p /\ request'[r] = request[r] /\ charge'[r] = charge[r]
        /\ touched'[r] = touched[r] \union touches
        /\ body'[r] = IF p = "awaiting" THEN "taken" ELSE body[r]
    BY <1>1 DEF TypeOK, Goto, Send
  <1>4. TypeOK'
    <2>1. touched' \in [Slots -> SUBSET Touches]
      BY <1>1 DEF TypeOK, Send
    <2>2. /\ phase' \in [Slots -> Phases]
          /\ body' \in [Slots -> {"stream", "buffered", "taken"}]
      BY <1>1 DEF TypeOK, Goto, Phases
    <2> QED
      BY <1>1, <2>1, <2>2 DEF TypeOK, usage
  <1>5. Op(r)' = Op(r) /\ Who(r)' = Who(r) /\ TooLarge(r)' = TooLarge(r)
    BY <1>3 DEF Op, Who, TooLarge, Declared
  <1>6. phase[r] # "idle" /\ phase[r] # "settling" /\ phase[r] \in Resolved
    BY DEF Resolved
  <1>7. (Vacant(r) /\ Charged(r))'
    BY <1>1, <1>3, <1>6 DEF SlotInv, Vacant, Charged, Resolved, Unresolved
  <1>8. BodyKept(r)'
    BY <1>1, <1>3, <1>5 DEF SlotInv, BodyKept, Resolved, NeedsBufferedBody
  <1>9. Cleared(r)'
    BY <1>1, <1>3, <1>5, <1>6 DEF SlotInv, Cleared, Resolves, Authorized
  <1>10. \A t \in touched'[r] :
            Permitted(Who(r)', t) \/ ListsBeyond(Who(r)', Op(r)')
    BY <1>1, <1>3, <1>5 DEF SlotInv
  <1>11. (\/ body'[r] = "buffered"
          \/ body'[r] = "taken" /\ Op(r)'.kind \notin Reads \union {"DeleteObject"})
         => ~TooLarge(r)'
    BY <1>1, <1>3, <1>5 DEF SlotInv
  <1>12. SlotInv(r)'
    BY <1>3, <1>7, <1>8, <1>9, <1>10, <1>11 DEF SlotInv
  <1>13. Reserved'
    BY <1>1, <1>2, <1>3, NoneAdmitted, ReservedKept
  <1> QED
    BY <1>1, <1>2, <1>4, <1>12, <1>13, OneSlot, PartsAfter

\* A resolved request may act under its own action, bucket and key.
LEMMA OwnTouch ==
    ASSUME PipelineInv, NEW r \in Slots, phase[r] \in Resolved,
           Op(r).kind \in (Actions \ {"ListBucket"}) \union {"CopyObject"}
    PROVE  LET t == Touch(ActionOf(Op(r)), Op(r).bucket, Op(r).key)
           IN  t \in Touches /\ Permitted(Who(r), t)
  <1>1. request[r] \in Arrivals /\ Cleared(r)
    BY Parts DEF SlotInv, Vacant, Resolved
  <1>2. Op(r).bucket # NoBucket /\ Op(r).kind # "DeleteObjects"
    BY <1>1, ArrivalFields DEF Actions, Reads, Multipart
  <1>3. Resolves(Who(r), Op(r).bucket, ActionOf(Op(r)), Op(r).key, FALSE)
    BY <1>1, <1>2 DEF Cleared, AuthKey
  <1>4. ActionOf(Op(r)) \in Actions
    <2>1. Op(r).kind \in Kinds
      BY <1>1, ArrivalFields
    <2> QED
      BY <2>1, ActionOfKind DEF Actions, Kinds, Reads, Multipart
  <1>5. Op(r).bucket \in Buckets /\ Op(r).key \in Keys \union {NoKey}
    BY <1>1, <1>2, ArrivalFields
  <1> QED
    BY <1>3, <1>4, <1>5, ResolvesPermits, TouchType

\* What begins with a prefix begins with the prefixes of that prefix.
LEMMA PrefixTransitive ==
    ASSUME NEW p \in Seq(Nat), NEW q \in Seq(Nat), NEW k \in Seq(Nat),
           IsPrefix(p, q), IsPrefix(q, k)
    PROVE  IsPrefix(p, k)
  <1>1. /\ Len(p) \in Nat /\ Len(q) \in Nat /\ Len(k) \in Nat
        /\ Len(p) <= Len(q) /\ Len(q) <= Len(k)
    BY LenProperties DEF IsPrefix
  <1>2. ASSUME NEW i \in 1..Len(p)
        PROVE  SubSeq(p, 1, Len(p))[i] = SubSeq(k, 1, Len(p))[i]
    <2>1. i \in 1..Len(q) /\ 1 \in Nat
      BY <1>1
    <2>2. SubSeq(q, 1, Len(q)) = SubSeq(k, 1, Len(q))
      BY DEF IsPrefix
    <2>3. SubSeq(q, 1, Len(q))[i] = q[i] /\ SubSeq(k, 1, Len(q))[i] = k[i]
      BY <1>1, <2>1
    <2>4. SubSeq(p, 1, Len(p))[i] = SubSeq(q, 1, Len(p))[i]
      BY DEF IsPrefix
    <2>5. SubSeq(q, 1, Len(p))[i] = q[i] /\ SubSeq(k, 1, Len(p))[i] = k[i]
      BY <1>1, <2>1
    <2> QED
      BY <2>2, <2>3, <2>4, <2>5
  <1>3. SubSeq(p, 1, Len(p)) = SubSeq(k, 1, Len(p))
    BY <1>1, <1>2
  <1> QED
    BY <1>1, <1>3 DEF IsPrefix

\* Whatever begins with an authorized prefix is permitted, unless the prefix
\* equals one of a scope that does not end in a slash.
LEMMA PrefixPermits ==
    ASSUME NEW s \in Scope, NEW p \in Seq(Nat), NEW k \in Seq(Nat),
           WithinPrefixes(s, p), IsPrefix(p, k),
           ~(p # <<>> /\ Last(p) # Slash /\ p \in s.prefixes)
    PROVE  WithinPrefixes(s, k)
  <1>1. CASE s.prefixes = {}
    BY <1>1 DEF WithinPrefixes
  <1>2. CASE s.prefixes # {}
    <2>1. PICK q \in s.prefixes : key_matches_prefix(p, q)
      BY <1>2 DEF WithinPrefixes
    <2>2. q \in Seq(Nat) /\ Slash \in Nat
      BY GatewayAssumption DEF Scope
    <2>3. CASE q = <<>> \/ Last(q) = Slash
      <3>1. IsPrefix(q, p)
        BY <2>1, <2>3 DEF key_matches_prefix
      <3>2. IsPrefix(q, k)
        BY <2>2, <3>1, PrefixTransitive
      <3>3. key_matches_prefix(k, q)
        BY <2>3, <3>2 DEF key_matches_prefix
      <3> QED
        BY <3>3 DEF WithinPrefixes
    <2>4. CASE ~(q = <<>> \/ Last(q) = Slash)
      <3>1. p # q
        BY <2>4
      <3>2. IsPrefix(Append(q, Slash), p)
        BY <2>1, <2>4, <3>1 DEF key_matches_prefix
      <3>3. Append(q, Slash) \in Seq(Nat)
        BY <2>2
      <3>4. IsPrefix(Append(q, Slash), k)
        BY <3>2, <3>3, PrefixTransitive
      <3>5. key_matches_prefix(k, q)
        BY <2>4, <3>4 DEF key_matches_prefix
      <3> QED
        BY <3>5 DEF WithinPrefixes
    <2> QED
      BY <2>3, <2>4
  <1> QED
    BY <1>1, <1>2

\* A listing is about keys that are permitted, but for the two exceptions.
LEMMA ListedPermitted ==
    ASSUME PipelineInv, NEW r \in Slots, phase[r] \in Resolved,
           Op(r).kind = "ListBucket", NEW k \in Listed(Op(r))
    PROVE  LET t == Touch("ListBucket", Op(r).bucket, k)
           IN  /\ t \in Touches
               /\ Permitted(Who(r), t) \/ ListsBeyond(Who(r), Op(r))
  <1> DEFINE p == LastPrefix(Op(r))
             t == Touch("ListBucket", Op(r).bucket, k)
  <1>1. request[r] \in Arrivals /\ Cleared(r)
    BY Parts DEF SlotInv, Vacant, Resolved
  <1>2. /\ Op(r).bucket \in Buckets /\ Op(r).bucket # NoBucket
        /\ Op(r).asked \in Seq(KeyPrefixes) /\ Who(r) \in Callers
    BY <1>1, ArrivalFields, GatewayAssumption
  <1>3. ActionOf(Op(r)) = "ListBucket"
    BY ActionOfKind
  <1>4. /\ Op(r).bucket \in Registered
        /\ Authorized(Who(r), Op(r).bucket, "ListBucket", FirstPrefix(Op(r)), FALSE)
    BY <1>1, <1>2, <1>3 DEF Cleared, Resolves, AuthKey
  <1>5. k \in Keys /\ IsPrefix(p, k)
    BY DEF Listed
  <1>6. t \in Touches
    BY <1>2, <1>5, TouchType DEF Actions
  <1>7. /\ t.action = "ListBucket" /\ t.bucket = Op(r).bucket /\ t.key = k
    BY DEF Touch
  <1>8. Permitted(Who(r), t) \/ ListsBeyond(Who(r), Op(r))
    <2>1. CASE Who(r) = Anonymous
      BY <2>1, <1>4, <1>7 DEF Authorized, Permitted
    <2>2. CASE Who(r) # Anonymous /\ ~ListsBeyond(Who(r), Op(r))
      <3>1. PICK s \in Scopes[Who(r)] :
               /\ Grants(s, Op(r).bucket, "ListBucket")
               /\ WithinPrefixes(s, FirstPrefix(Op(r)))
        BY <2>2, <1>4 DEF Authorized
      <3>2. FirstPrefix(Op(r)) = p
        BY <2>2 DEF ListsBeyond
      <3>3. ~(p # <<>> /\ Last(p) # Slash /\ p \in s.prefixes)
        BY <2>2, <3>1 DEF ListsBeyond
      <3>4. s \in Scope /\ k \in Seq(Nat)
        BY <1>2, <1>5, <2>2, GatewayAssumption DEF Callers
      <3>5. p \in Seq(Nat)
        <4>1. CASE Op(r).asked = <<>>
          BY <4>1 DEF LastPrefix
        <4>2. CASE Op(r).asked # <<>>
          <5>1. Last(Op(r).asked) \in KeyPrefixes
            BY <1>2, <4>2 DEF Last
          <5> QED
            BY <4>2, <5>1, GatewayAssumption DEF LastPrefix
        <4> QED
          BY <4>1, <4>2
      <3> HIDE DEF p, t
      <3>6. WithinPrefixes(s, k)
        BY <1>5, <3>1, <3>2, <3>3, <3>4, <3>5, PrefixPermits
      <3> QED
        BY <1>4, <1>7, <2>2, <3>1, <3>6 DEF Permitted
    <2> QED
      BY <2>1, <2>2
  <1> QED
    BY <1>6, <1>8

LEMMA StartListSafe ==
    ASSUME PipelineInv, NEW r \in Slots, StartList(r)
    PROVE  PipelineInv'
  <1> DEFINE touches ==
          {Touch("ListBucket", Op(r).bucket, k) : k \in Listed(Op(r))}
  <1>1. /\ phase[r] = "dispatching" /\ phase[r] \in Resolved \ {"awaiting", "screening"}
        /\ Op(r).kind = "ListBucket"
        /\ Goto(r, "inChain") /\ Send(r, touches)
        /\ UNCHANGED <<request, body, reply, usage, charge>>
    BY DEF StartList, Resolved
  <1>2. /\ touches \in SUBSET Touches
        /\ \A t \in touches : Permitted(Who(r), t) \/ ListsBeyond(Who(r), Op(r))
    BY <1>1, ListedPermitted
  <1> HIDE DEF touches
  <1> QED
    BY <1>1, <1>2, SendSafe

\* The destination was resolved as a write, and the source as a read.
LEMMA StartCopySafe ==
    ASSUME PipelineInv, NEW r \in Slots, StartCopy(r)
    PROVE  PipelineInv'
  <1> DEFINE s == Op(r).source
             t == Touch("PutObject", Op(r).bucket, Op(r).key)
             u == Touch(SourceAction(s), s.bucket, s.key)
  <1>1. /\ phase[r] = "sourcing" /\ phase[r] \in Resolved \ {"awaiting", "screening"}
        /\ Goto(r, "inChain") /\ Send(r, {t, u}) /\ SourceResolves(r)
        /\ UNCHANGED <<request, body, reply, usage, charge>>
    BY DEF StartCopy, Resolved
  <1>2. Op(r).kind = "CopyObject" /\ request[r] \in Arrivals
    BY <1>1, Parts DEF SlotInv, Cleared, Copies, Vacant
  <1>3. t \in Touches /\ Permitted(Who(r), t)
    BY <1>1, <1>2, OwnTouch, ActionOfKind
  <1>4. u \in Touches /\ Permitted(Who(r), u)
    <2>1. s.bucket \in Buckets /\ s.key \in Keys
      BY <1>2, ArrivalFields DEF Source
    <2>2. SourceAction(s) \in Actions
      BY DEF SourceAction, Actions, Reads
    <2> QED
      BY <1>1, <2>1, <2>2, ResolvesPermits, TouchType DEF SourceResolves
  <1> HIDE DEF t, u, s
  <1> QED
    BY <1>1, <1>3, <1>4, SendSafe

LEMMA CopyFailsSafe ==
    ASSUME PipelineInv, NEW r \in Slots, CopyFails(r)
    PROVE  PipelineInv'
  BY NotTaken, RejectSafe DEF CopyFails, Resolved

LEMMA ChainReturnsSafe ==
    ASSUME PipelineInv, NEW r \in Slots, ChainReturns(r)
    PROVE  PipelineInv'
  <1>1. /\ phase[r] = "inChain" /\ charge[r] # "none"
        /\ UNCHANGED <<request, body, usage, charge, touched>>
    BY Parts DEF ChainReturns, SlotInv, Charged, Resolved
  <1>2. CASE Reject(r)
    BY <1>1, <1>2, NotTaken, RejectSafe DEF Resolved
  <1>3. CASE Respond(r, "ok")
    <2>1. PICK bytes \in 0..MaxBytes :
             Settling(r, Reply("ok", Who(r), Op(r).bucket, bytes))
      BY <1>3 DEF Respond
    <2> QED
      BY <1>1, <2>1, AnswerSafe
  <1> QED
    BY <1>2, <1>3 DEF ChainReturns

LEMMA ForwardSafe ==
    ASSUME PipelineInv, NEW r \in Slots, Forward(r)
    PROVE  PipelineInv'
  <1> DEFINE t == Touch(Op(r).kind, Op(r).bucket, Op(r).key)
  <1>1. phase[r] = "forwarding" /\ phase[r] \in Resolved \ {"awaiting", "screening"}
        /\ UNCHANGED usage
    BY DEF Forward, Resolved
  <1>2. CASE Leave(r)
    BY <1>1, <1>2, LeaveSafe
  <1>3. CASE /\ Goto(r, "awaiting") /\ body' = [body EXCEPT ![r] = "taken"]
             /\ Send(r, {t}) /\ UNCHANGED <<request, reply, charge>>
    <2>1. Forwards(r)
      BY <1>1, Parts DEF SlotInv, Cleared
    <2>2. Op(r).kind \in Reads \union {"DeleteObject"} \/ ~TooLarge(r)
      BY <2>1 DEF Forwards
    <2>3. Op(r).kind \in Reads \union {"DeleteObject", "PutObject", "UploadPart"}
      BY <2>1 DEF Forwards
    <2>4. t \in Touches /\ Permitted(Who(r), t)
      BY <1>1, <2>3, OwnTouch, ActionOfKind DEF Actions, Reads
    <2>5. {t} \in SUBSET Touches /\ \A u \in {t} : Permitted(Who(r), u)
      BY <2>4
    <2>6. Goto(r, "awaiting") /\ Send(r, {t})
          /\ UNCHANGED <<request, reply, usage, charge>>
      BY <1>1, <1>3
    <2> HIDE DEF t
    <2> QED
      BY <1>1, <1>3, <2>2, <2>5, <2>6, SendSafe
  <1> QED
    BY <1>2, <1>3 DEF Forward

\* The keys of a batch are authorized one by one, for a registered bucket.
LEMMA AllowedTouches ==
    ASSUME PipelineInv, NEW r \in Slots, phase[r] = "needsBody",
           NEW k \in AllowedKeys(r)
    PROVE  LET t == Touch(ActionOf(Op(r)), Op(r).bucket, k)
           IN  t \in Touches /\ Permitted(Who(r), t)
  <1>1. phase[r] \in Resolved /\ request[r] \in Arrivals /\ Cleared(r)
    BY Parts DEF Resolved, SlotInv, Vacant
  <1>2. Op(r).kind \in Multipart \union {"DeleteObjects"}
    BY <1>1 DEF Cleared, NeedsBody
  <1>3. CASE Op(r).kind \in Multipart
    <2>1. k = Op(r).key
      BY <1>3 DEF AllowedKeys, Multipart
    <2>2. Op(r).kind \in Actions \ {"ListBucket"}
      BY <1>3 DEF Actions, Multipart
    <2> QED
      BY <1>1, <2>1, <2>2, OwnTouch
  <1>4. CASE Op(r).kind = "DeleteObjects"
    <2>1. ActionOf(Op(r)) = "DeleteObject" /\ "DeleteObject" \in Actions
      BY <1>4, ActionOfKind DEF Actions
    <2>2. Op(r).bucket \in Buckets /\ Op(r).bucket # NoBucket
      BY <1>1, <1>4, ArrivalFields, GatewayAssumption
    <2>3. Op(r).bucket \in Registered
      BY <1>1, <2>2 DEF Cleared, Resolves
    <2>4. k \in Keys /\ KeyAuthorized(Who(r), Op(r).bucket, "DeleteObject", k)
      BY <1>1, <1>4, ArrivalFields DEF AllowedKeys
    <2> QED
      BY <2>1, <2>2, <2>3, <2>4, TouchType DEF KeyAuthorized, Permitted, Touch
  <1> QED
    BY <1>2, <1>3, <1>4

LEMMA SendBufferedSafe ==
    ASSUME PipelineInv, NEW r \in Slots, SendBuffered(r)
    PROVE  PipelineInv'
  <1> DEFINE touches == {Touch(ActionOf(Op(r)), Op(r).bucket, k) : k \in AllowedKeys(r)}
  <1>1. /\ phase[r] = "needsBody" /\ phase[r] \in Resolved \ {"awaiting", "screening"}
        /\ UNCHANGED <<request, usage, charge>>
    BY DEF SendBuffered, Resolved
  <1>2. body[r] = "buffered" /\ charge[r] # "none" /\ ~TooLarge(r)
    <2>1. SlotInv(r) /\ NeedsBody(r)
      BY <1>1, Parts DEF SlotInv, Cleared
    <2>2. body[r] = "buffered"
      BY <1>1, <2>1 DEF SlotInv, BodyKept, Resolved, NeedsBody, NeedsBufferedBody
    <2> QED
      BY <1>1, <2>1, <2>2 DEF SlotInv, Charged, Resolved
  <1>3. body' = [body EXCEPT ![r] = "taken"] /\ HandleWithBody(r)
    BY <1>2 DEF SendBuffered
  <1>4. CASE Goto(r, "awaiting") /\ Send(r, touches) /\ UNCHANGED reply
    <2>1. touches \in SUBSET Touches /\ \A t \in touches : Permitted(Who(r), t)
      BY <1>1, AllowedTouches
    <2> HIDE DEF touches
    <2> QED
      BY <1>1, <1>2, <1>3, <1>4, <2>1, SendSafe
  <1>5. ASSUME NEW status \in {"ok", "error"}, Respond(r, status), UNCHANGED touched
        PROVE  PipelineInv'
    <2>1. PICK bytes \in 0..MaxBytes :
             Settling(r, Reply(status, Who(r), Op(r).bucket, bytes))
      BY <1>5 DEF Respond
    <2> QED
      BY <1>1, <1>2, <1>3, <1>5, <2>1, AnswerSafe
  <1> QED
    BY <1>3, <1>4, <1>5 DEF HandleWithBody

\* The backend has answered, or failed: the answer names the request.
LEMMA ReturnsSafe ==
    ASSUME PipelineInv, NEW r \in Slots,
           ForwardReturns(r) \/ ForwardErrs(r) \/ BufferedReturns(r)
    PROVE  PipelineInv'
  <1>1. /\ phase[r] = "awaiting" /\ charge[r] # "none" /\ request[r] \in Arrivals
        /\ UNCHANGED <<request, body, usage, charge, touched>>
    BY Parts
    DEF ForwardReturns, ForwardErrs, BufferedReturns, SlotInv, Charged, Vacant, Resolved
  <1>2. \A length \in Lengths : Transferred(r, length) \in 0..MaxBytes
    BY <1>1, ArrivalFields, GatewayAssumption DEF Transferred, Lengths, Known
  <1>3. PICK status \in {"ok", "error"}, bytes \in 0..MaxBytes :
           Settling(r, Reply(status, Who(r), Op(r).bucket, bytes))
    <2>1. CASE ForwardReturns(r)
      BY <2>1, <1>2 DEF ForwardReturns
    <2>2. CASE ForwardErrs(r)
      BY <2>2, <1>2 DEF ForwardErrs, Lengths
    <2>3. CASE BufferedReturns(r)
      BY <2>3 DEF BufferedReturns, Respond
    <2> QED
      BY <2>1, <2>2, <2>3
  <1> QED
    BY <1>1, <1>3, AnswerSafe

-----------------------------------------------------------------------------
(* The two actions that change the usage.                                  *)

LEMMA CappedBounds ==
    ASSUME NEW i \in Nat, NEW j \in Nat, i <= j
    PROVE  /\ Capped(i) \in 0..UsageCap
           /\ Capped(i) <= i
           /\ Capped(i) <= Capped(j)
  BY GatewayAssumption DEF Capped

\* An admitted request that settles gives back what it had reserved.
LEMMA RoomReturned ==
    ASSUME TypeOK, Reserved, NEW r \in Slots, Only(r), NEW m \in Meters,
           r \in Admitted(m), charge'[r] # "admitted",
           Quota[m.bucket] # Unlimited, NEW n \in 0..MaxBytes
    PROVE  moved[m] + n + MaxBytes * Cardinality(Admitted(m)')
              <= Quota[m.bucket] + MaxBytes * Cardinality(Slots)
  <1>1. Admitted(m)' \subseteq Admitted(m) \ {r}
    BY NoneAdmitted DEF Admitted
  <1>2. /\ Cardinality(Admitted(m) \ {r}) = Cardinality(Admitted(m)) - 1
        /\ IsFiniteSet(Admitted(m) \ {r})
    BY AdmittedFinite, FS_RemoveElement
  <1> DEFINE k == Cardinality(Admitted(m)')
             l == Cardinality(Admitted(m) \ {r})
  <1>3. k \in Nat /\ l \in Nat /\ k <= l /\ Cardinality(Admitted(m)) = l + 1
    <2>1. k \in Nat /\ l \in Nat /\ k <= l
      BY <1>1, <1>2, FS_Subset, FS_CardinalityType
    <2> QED
      BY <1>2, <2>1, AdmittedFinite
  <1>4. MaxBytes * (l + 1) = MaxBytes * l + MaxBytes
    BY <1>3, GatewayAssumption
  <1>5. moved[m] \in Nat /\ n \in Nat /\ n <= MaxBytes /\ MaxBytes \in Nat
    BY GatewayAssumption DEF TypeOK
  <1>6. moved[m] + MaxBytes * (l + 1) <= Quota[m.bucket] + MaxBytes * Cardinality(Slots)
    BY <1>3 DEF Reserved
  <1>7. MaxBytes * k \in Nat /\ MaxBytes * l \in Nat /\ MaxBytes * k <= MaxBytes * l
    BY <1>3, Monotone
  <1> HIDE DEF k, l
  <1>8. moved[m] + n + MaxBytes * k <= moved[m] + (MaxBytes * l + MaxBytes)
    BY <1>5, <1>7
  <1>9. moved[m] + n + MaxBytes * k <= Quota[m.bucket] + MaxBytes * Cardinality(Slots)
    BY <1>4, <1>5, <1>6, <1>7, <1>8, LimitType
  <1> QED
    BY <1>9 DEF k

\* What settling adds for one meter, and what stays reserved for it.
LEMMA SettleSafe ==
    ASSUME PipelineInv, NEW r \in Slots, Settle(r)
    PROVE  PipelineInv'
  <1>1. /\ TypeOK /\ Reserved /\ \A s \in Slots : SlotInv(s)
        /\ phase[r] = "settling" /\ Leave(r)
    BY Parts DEF Settle
  <1>2. CASE ~Recordable(r)
    BY <1>1, <1>2, LeaveSafe DEF Settle
  <1>3. CASE Recordable(r)
    <2> DEFINE full == reply[r].status = "limited" \/ charge[r] = "unchecked"
    <2>1. /\ reply[r] \in Replies /\ reply[r].bucket = Op(r).bucket
          /\ charge[r] = "none" => reply[r].status = "limited"
      BY <1>1, <1>3 DEF SlotInv, Charged, Recordable
    <2>2. PICK n \in 0..MaxBytes : n = reply[r].bytes /\ n \in Nat
      BY <1>3, <2>1, GatewayAssumption DEF Replies, Recordable
    <2>3. PICK m \in Meters : m = Meter(r)
      <3>1. request[r] \in Arrivals /\ Op(r).bucket \in Buckets
        BY <1>1, <1>3, <2>1 DEF SlotInv, Vacant, Replies, Recordable
      <3> QED
        BY <3>1, ArrivalFields DEF Meter, Meters
    <2>4. /\ used' = [used EXCEPT ![m] = Capped(@ + n)]
          /\ moved' = IF full THEN moved ELSE [moved EXCEPT ![m] = Capped(@ + n)]
      BY <1>3, <2>2, <2>3 DEF Settle
    <2> HIDE DEF full
    <2>5. used[m] \in Nat /\ moved[m] \in Nat /\ moved[m] <= used[m]
      BY <1>1, <2>3, GatewayAssumption DEF TypeOK, Reserved
    <2>6. /\ Capped(used[m] + n) \in 0..UsageCap /\ Capped(moved[m] + n) \in 0..UsageCap
          /\ Capped(moved[m] + n) <= Capped(used[m] + n)
          /\ Capped(moved[m] + n) <= moved[m] + n
      BY <2>2, <2>5, CappedBounds
    <2>7. /\ used' \in [Meters -> 0..UsageCap] /\ moved' \in [Meters -> 0..UsageCap]
      BY <1>1, <2>4, <2>6 DEF TypeOK
    <2>8. /\ TypeOK' /\ Only(r) /\ \A s \in Slots : SlotInv(s)'
          /\ \A x \in Meters : Admitted(x)' \subseteq Admitted(x)
      BY <1>1, <2>7, LeaveKeeps
    <2>9. moved'[m] <= used'[m]
      <3>1. moved[m] <= Capped(used[m] + n)
        BY <1>1, <2>2, <2>3, <2>5, GatewayAssumption DEF Capped, TypeOK
      <3> QED
        BY <1>1, <2>3, <2>4, <2>6, <3>1 DEF TypeOK
    <2>10. ASSUME Quota[m.bucket] # Unlimited
           PROVE  moved'[m] + MaxBytes * Cardinality(Admitted(m)')
                     <= Quota[m.bucket] + MaxBytes * Cardinality(Slots)
      <3>1. CASE full
        BY <2>3, <2>4, <2>5, <2>8, <2>10, <3>1, <1>1, RoomKept
      <3>2. CASE ~full
        <4>1. r \in Admitted(m) /\ charge'[r] # "admitted"
          BY <1>1, <2>1, <2>3, <3>2 DEF TypeOK, Admitted, Leave, full
        <4>2. moved[m] + n + MaxBytes * Cardinality(Admitted(m)')
                 <= Quota[m.bucket] + MaxBytes * Cardinality(Slots)
          BY <1>1, <2>2, <2>3, <2>8, <2>10, <4>1, RoomReturned
        <4>3. moved'[m] = Capped(moved[m] + n)
          BY <1>1, <2>3, <2>4, <3>2 DEF TypeOK
        <4>4. MaxBytes * Cardinality(Admitted(m)') \in Nat
          BY <2>3, <2>8, AdmittedSmaller, Monotone
        <4>5. moved'[m] \in Nat /\ moved'[m] <= moved[m] + n
          BY <2>6, <4>3, GatewayAssumption
        <4> QED
          BY <2>2, <2>3, <2>5, <2>10, <4>2, <4>4, <4>5, LimitType
      <3> QED
        BY <3>1, <3>2
    <2>11. ASSUME NEW x \in Meters, x # m
           PROVE  /\ moved'[x] <= used'[x]
                  /\ Quota[x.bucket] # Unlimited =>
                        moved'[x] + MaxBytes * Cardinality(Admitted(x)')
                           <= Quota[x.bucket] + MaxBytes * Cardinality(Slots)
      <3>1. moved'[x] = moved[x] /\ used'[x] = used[x] /\ moved[x] \in Nat
        BY <1>1, <2>4, <2>11, GatewayAssumption DEF TypeOK
      <3> QED
        BY <1>1, <2>8, <3>1, RoomKept DEF Reserved
    <2>12. Reserved'
      BY <2>9, <2>10, <2>11 DEF Reserved
    <2> QED
      BY <2>8, <2>12, PartsAfter
  <1> QED
    BY <1>2, <1>3

LEMMA ExpireSafe ==
    ASSUME PipelineInv, NEW m \in Meters, Expire(m)
    PROVE  PipelineInv'
  <1>1. TypeOK /\ Reserved /\ \A s \in Slots : SlotInv(s)
    BY Parts
  <1>2. /\ \A s \in Slots : Kept(s)
        /\ UNCHANGED <<phase, request, body, reply, charge, touched>>
    BY DEF Expire, Kept
  <1>3. used[m] \in Nat /\ moved[m] \in Nat /\ moved[m] <= used[m]
        /\ used[m] <= UsageCap /\ UsageCap \in Nat
    BY <1>1, GatewayAssumption DEF TypeOK, Reserved
  <1>4. PICK a \in 0..moved[m], b \in 0..(used[m] - moved[m]) :
           /\ a + b < used[m]
           /\ used' = [used EXCEPT ![m] = a + b]
           /\ moved' = [moved EXCEPT ![m] = a]
    BY DEF Expire
  <1>5. /\ a \in Nat /\ a <= a + b /\ a <= moved[m]
        /\ a \in 0..UsageCap /\ a + b \in 0..UsageCap
    BY <1>3, <1>4
  <1>6. TypeOK'
    BY <1>1, <1>2, <1>4, <1>5 DEF TypeOK
  <1>7. \A x \in Meters : Admitted(x)' = Admitted(x)
    BY <1>2 DEF Admitted, Meter, Op, Who
  <1>8. ASSUME NEW x \in Meters
        PROVE  /\ moved'[x] \in Nat /\ moved'[x] <= moved[x]
               /\ moved'[x] <= used'[x]
    BY <1>1, <1>4, <1>5, GatewayAssumption DEF TypeOK, Reserved
  <1>9. Reserved'
    BY <1>1, <1>7, <1>8, RoomKept DEF Reserved
  <1> QED
    BY <1>1, <1>2, <1>6, <1>9, KeptInv, PartsAfter

-----------------------------------------------------------------------------
(* The inductive invariant                                                 *)

LEMMA InitSafe ==
    Init => PipelineInv
  <1> SUFFICES ASSUME Init
               PROVE  PipelineInv
    OBVIOUS
  <1> USE DEF Init
  <1>1. TypeOK
    BY GatewayAssumption DEF TypeOK, Phases
  <1>2. \A r \in Slots : SlotInv(r)
    BY DEF SlotInv, Vacant, Cleared, BodyKept, Charged, Resolved, Unresolved
  <1>3. ASSUME NEW m \in Meters
        PROVE  /\ moved[m] <= used[m]
               /\ Quota[m.bucket] # Unlimited =>
                     moved[m] + MaxBytes * Cardinality(Admitted(m))
                        <= Quota[m.bucket] + MaxBytes * Cardinality(Slots)
    <2>1. moved[m] = 0 /\ used[m] = 0
      OBVIOUS
    <2>2. /\ MaxBytes * Cardinality(Admitted(m)) \in Nat
          /\ MaxBytes * Cardinality(Admitted(m)) <= MaxBytes * Cardinality(Slots)
      BY AdmittedFinite, Monotone
    <2> QED
      BY <2>1, <2>2, LimitType
  <1>4. Reserved
    BY <1>3 DEF Reserved
  <1> QED
    BY <1>1, <1>2, <1>4, Parts

LEMMA StepSafe ==
    ASSUME PipelineInv, [Next]_vars
    PROVE  PipelineInv'
  <1>1. ASSUME NEW r \in Slots, NEW a \in Arrivals, Arrive(r, a)
        PROVE  PipelineInv'
    BY <1>1, ArriveSafe
  <1>2. ASSUME NEW r \in Slots,
               \/ RouteAnswers(r) \/ CollectFails(r)
               \/ SettleUnrecorded(r) \/ Drop(r)
        PROVE  PipelineInv'
    BY <1>2, LeaveSafe DEF RouteAnswers, CollectFails, SettleUnrecorded, Drop
  <1>3. ASSUME NEW r \in Slots,
               \/ Classify(r) \/ Collect(r) \/ Identify(r) \/ Locate(r)
               \/ ChainFails(r) \/ RateLimited(r)
               \/ QuotaCheck(r) \/ QuotaCheckFailsOpen(r)
        PROVE  PipelineInv'
    BY <1>3, ClassifySafe, CollectSafe, IdentifySafe, LocateSafe, ScreeningSafe,
       QuotaCheckSafe
  <1>4. ASSUME NEW r \in Slots,
               \/ Dispatch(r) \/ DispatchFails(r) \/ StartList(r)
               \/ StartCopy(r) \/ CopyFails(r) \/ ChainReturns(r)
        PROVE  PipelineInv'
    BY <1>4, DispatchSafe, StartListSafe, StartCopySafe, CopyFailsSafe,
       ChainReturnsSafe
  <1>5. ASSUME NEW r \in Slots,
               \/ Forward(r) \/ ForwardReturns(r) \/ ForwardErrs(r)
               \/ SendBuffered(r) \/ BufferedReturns(r) \/ Settle(r)
        PROVE  PipelineInv'
    BY <1>5, ForwardSafe, SendBufferedSafe, ReturnsSafe, SettleSafe
  <1>6. ASSUME NEW m \in Meters, Expire(m)
        PROVE  PipelineInv'
    BY <1>6, ExpireSafe
  <1>7. CASE UNCHANGED vars
    <2>1. /\ UNCHANGED <<phase, request, body, reply, used, charge, touched, moved>>
          /\ TypeOK /\ Reserved /\ \A s \in Slots : SlotInv(s)
      BY <1>7, Parts DEF vars
    <2>2. \A s \in Slots : SlotInv(s)'
      BY <2>1, KeptInv DEF Kept
    <2>3. TypeOK'
      BY <2>1 DEF TypeOK
    <2>4. Reserved'
      BY <2>1, ReservedKept DEF usage, Admitted, Meter, Op, Who
    <2> QED
      BY <2>2, <2>3, <2>4, PartsAfter
  <1> QED
    BY <1>1, <1>2, <1>3, <1>4, <1>5, <1>6, <1>7 DEF Next

\* The whole invariant holds in every reachable state: every answer, charge
\* and phase of handle_request is as its parts say.
THEOREM PipelineInductive == Spec => []PipelineInv
  <1>1. Init => PipelineInv
    BY InitSafe
  <1>2. PipelineInv /\ [Next]_vars => PipelineInv'
    BY StepSafe
  <1> QED
    BY <1>1, <1>2, PTL DEF Spec

-----------------------------------------------------------------------------
(* What follows from it                                                    *)

\* Every variable of the pipeline keeps its type.
THEOREM PipelineTyped == Spec => []TypeOK
  <1>1. PipelineInv => TypeOK
    BY DEF PipelineInv
  <1> QED
    BY <1>1, PipelineInductive, PTL

\* Whatever scopes are configured, and whatever arrives, the backend is asked
\* only for what the caller of the request is permitted, key by key; but for
\* listings whose query names several prefixes, or a prefix that equals one of
\* a scope without a slash at its end, which ListsBeyond describes
\* (authorize.rs:12-62, list.rs:60).
THEOREM PipelineMediated == Spec => []Mediated
  <1>1. PipelineInv => Mediated
    BY DEF PipelineInv
  <1> QED
    BY <1>1, PipelineInductive, PTL

\* The classifier and the dispatch agree on every operation, so an arm finds
\* the body where it expects it.
THEOREM PipelineBodies == Spec => []BodyWhereExpected
  <1>1. PipelineInv => BodyWhereExpected
    <2> SUFFICES ASSUME PipelineInv, NEW r \in Slots
                 PROVE  /\ phase[r] = "needsBody" => body[r] = "buffered"
                        /\ phase[r] = "forwarding" => body[r] = "stream"
      BY DEF BodyWhereExpected
    <2>1. Cleared(r) /\ BodyKept(r)
      BY DEF PipelineInv
    <2>2. CASE phase[r] = "needsBody"
      BY <2>1, <2>2
      DEF Cleared, BodyKept, Resolved, NeedsBody, NeedsBufferedBody
    <2>3. CASE phase[r] = "forwarding"
      BY <2>1, <2>3
      DEF Cleared, BodyKept, Resolved, Forwards, NeedsBufferedBody, Reads, Multipart
    <2> QED
      BY <2>2, <2>3
  <1> QED
    BY <1>1, PipelineInductive, PTL

\* No upload declared larger than max_request_body_size is held or sent.
THEOREM PipelineBounded == Spec => []NoOversizedBody
  <1>1. PipelineInv => NoOversizedBody
    BY DEF PipelineInv
  <1> QED
    BY <1>1, PipelineInductive, PTL

\* A request whose body was sent is reported under its caller and bucket.
THEOREM PipelineAttributed == Spec => []SentIsAttributed
  <1>1. PipelineInv => SentIsAttributed
    BY DEF PipelineInv
  <1> QED
    BY <1>1, PipelineInductive, PTL

\* However many requests are in flight, those that the quota check admitted
\* exceed the quota by at most one longest body for each slot.
THEOREM PipelineQuota == Spec => []QuotaOvershoot
  <1>1. PipelineInv => QuotaOvershoot
    <2> SUFFICES ASSUME PipelineInv, NEW m \in Meters, Quota[m.bucket] # Unlimited
                 PROVE  moved[m] <= Quota[m.bucket] + MaxBytes * Cardinality(Slots)
      BY DEF QuotaOvershoot
    <2>1. moved[m] \in Nat
      BY GatewayAssumption DEF PipelineInv, TypeOK
    <2>2. moved[m] + MaxBytes * Cardinality(Admitted(m))
             <= Quota[m.bucket] + MaxBytes * Cardinality(Slots)
      BY DEF PipelineInv, Reserved
    <2>3. MaxBytes * Cardinality(Admitted(m)) \in Nat
      BY AdmittedFinite, Monotone
    <2> QED
      BY <2>1, <2>2, <2>3, LimitType
  <1> QED
    BY <1>1, PipelineInductive, PTL
==============================================================================
