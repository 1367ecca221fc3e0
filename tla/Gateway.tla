------------------------------- MODULE Gateway -------------------------------
(***************************************************************************)
(* ProxyGateway::handle_request (crates/core/src/proxy.rs) and the metering*)
(* middleware around it: what happens to a request between its arrival and *)
(* its answer, for several requests in flight at once.                     *)
(*                                                                         *)
(* Each await of the code is a boundary between two steps, and a request   *)
(* may be dropped at any of them.  A request passes the router, may have   *)
(* its body buffered, is identified, its bucket resolved and authorized,   *)
(* screened by the middleware chain, dispatched, sent to the backend, and  *)
(* settled: after_dispatch reports it to the usage recorder.  The requests *)
(* share the recorded usage, which the quota check of one reads long before*)
(* its own bytes are added.                                                *)
(*                                                                         *)
(* Bodies and objects are represented by their lengths, a time window by   *)
(* the recorded bytes that leave it.  A key or a prefix is the sequence of *)
(* its characters, since the boundary of a segment decides what a prefix   *)
(* matches; the empty key is that of an operation without one.             *)
(***************************************************************************)
EXTENDS Naturals, FiniteSets, SequencesExt

CONSTANTS
    Slots,         \* requests in flight at the same time
    Arrivals,      \* the requests that clients send
    Principals,    \* callers that hold credentials
    Anonymous,     \* the caller that sends no Authorization header
    Buckets,       \* bucket names that occur in requests
    Keys,          \* object keys
    KeyPrefixes,   \* prefixes that occur in scopes and in queries
    Slash,         \* the character that ends a segment of a key
    Scopes,        \* allowed_scopes of each principal
    Registered,    \* buckets of the configuration
    AnonymousRead, \* buckets with anonymous_access
    S3Backed,      \* buckets whose backend is S3
    Store,         \* endpoint and region behind each bucket
    Quota,         \* limit_bytes of each bucket, or Unlimited
    Unlimited,
    MaxBody,       \* max_request_body_size
    MaxBytes,      \* bound: the longest body of a request or an answer
    UsageCap,      \* bound: recorded usage beyond it is over every quota
    NoLength,      \* no Content-Length
    NoBucket, NoSource, Nobody, NoRequest, NoReply

NoKey == <<>>

Callers == Principals \union {Anonymous}

Reads == {"GetObject", "HeadObject"}

Multipart == {"CreateMultipartUpload", "CompleteMultipartUpload",
              "AbortMultipartUpload"}

Kinds == Reads \union Multipart \union
    {"PutObject", "DeleteObject", "ListBucket", "ListBuckets", "UploadPart",
     "DeleteObjects", "CopyObject", "Unparsable"}

Actions == Reads \union Multipart \union
    {"PutObject", "DeleteObject", "ListBucket", "UploadPart",
     "GetObjectVersion"}

Scope ==
    [bucket : Buckets, actions : SUBSET Actions, prefixes : SUBSET KeyPrefixes]

Source == [bucket : Buckets, key : Keys, versioned : BOOLEAN]

\* `asked` are the values of the `prefix` parameters in the query of a list,
\* in their order: a query may have none, one, or several.
Operation ==
    {op \in [kind : Kinds, bucket : Buckets \union {NoBucket},
             key : Keys \union {NoKey}, asked : Seq(KeyPrefixes),
             batch : SUBSET Keys, source : Source \union {NoSource}] :
        /\ op.bucket = NoBucket <=> op.kind \in {"ListBuckets", "Unparsable"}
        /\ op.kind = "CopyObject" => op.source # NoSource}

Lengths == (0..MaxBytes) \union {NoLength}

Arrival ==
    [op : Operation, who : Callers, declared : Lengths,
     framing : {"plain", "unsigned", "signed"}]

Meters == [bucket : Buckets, who : Callers]

ASSUME GatewayAssumption ==
    /\ IsFiniteSet(Slots)
    /\ Arrivals \subseteq Arrival
    /\ Anonymous \notin Principals
    /\ Slash \in Nat
    /\ Keys \subseteq Seq(Nat) /\ KeyPrefixes \subseteq Seq(Nat)
    /\ Scopes \in [Principals -> SUBSET Scope]
    /\ Registered \subseteq Buckets
    /\ AnonymousRead \subseteq Buckets
    /\ S3Backed \subseteq Buckets
    /\ Store \in [Buckets -> {"here", "there"}]
    /\ Quota \in [Buckets -> Nat \union {Unlimited}]
    /\ MaxBytes \in Nat \ {0} /\ MaxBody \in 0..MaxBytes
    /\ UsageCap \in Nat
    /\ \A b \in Buckets :
          Quota[b] # Unlimited =>
             Quota[b] + MaxBytes * Cardinality(Slots) < UsageCap
    /\ NoLength \notin Nat /\ Unlimited \notin Nat
    /\ NoBucket \notin Buckets /\ NoSource \notin Source
    /\ Nobody \notin Callers

VARIABLES
    phase,      \* where handle_request stands for each slot
    request,    \* the request in the slot
    body,       \* its body: still a stream, read into memory, or handed on
    reply,      \* the answer that after_dispatch will report
    used,       \* bytes the meter holds for a bucket and a caller
    charge,     \* history: how the quota check let the request pass
    touched,    \* history: what the backend was asked to act on for it
    moved       \* history: the part of `used` that is not refusals, nor
                \* requests that passed while the meter was out of reach

vars == <<phase, request, body, reply, used, charge, touched, moved>>

Op(r) == request[r].op
Who(r) == request[r].who
Declared(r) == request[r].declared
Meter(r) == [bucket |-> Op(r).bucket, who |-> Who(r)]

Known(length) == IF length = NoLength THEN 0 ELSE length

Touch(action, bucket, key) == [action |-> action, bucket |-> bucket, key |-> key]

Reply(status, who, bucket, bytes) ==
    [status |-> status, who |-> who, bucket |-> bucket, bytes |-> bytes]

-----------------------------------------------------------------------------
(* Authorization: types.rs (action), auth/authorize.rs, static-config.     *)

ActionOf(op) ==
    CASE op.kind = "CopyObject" -> "PutObject"
      [] op.kind = "DeleteObjects" -> "DeleteObject"
      [] op.kind = "ListBuckets" -> "ListBucket"
      [] OTHER -> op.kind

\* The synthetic GetObject with which a copy authorizes its source.
SourceAction(source) ==
    IF source.versioned THEN "GetObjectVersion" ELSE "GetObject"

Grants(scope, bucket, action) ==
    scope.bucket = bucket /\ action \in scope.actions

\* A prefix that ends in a slash, and the empty one, match what begins with
\* them; another one matches itself and what continues it with a slash.
key_matches_prefix(key, prefix) ==
    IF prefix = <<>> \/ Last(prefix) = Slash
    THEN IsPrefix(prefix, key)
    ELSE key = prefix \/ IsPrefix(Append(prefix, Slash), key)

WithinPrefixes(scope, key) ==
    scope.prefixes = {} \/ \E p \in scope.prefixes : key_matches_prefix(key, p)

AnonymousMay(bucket, action) ==
    bucket \in AnonymousRead /\ action \in Reads \union {"ListBucket"}

\* authorize(): `deferred` is ignore_prefix, set for a batch delete.
Authorized(who, bucket, action, key, deferred) ==
    IF who = Anonymous THEN AnonymousMay(bucket, action)
    ELSE \E s \in Scopes[who] :
            Grants(s, bucket, action) /\ (deferred \/ WithinPrefixes(s, key))

\* authorize() looks for the first `prefix` of the query of a list,
FirstPrefix(op) == IF op.asked = <<>> THEN <<>> ELSE Head(op.asked)

\* parse_list_query_params keeps the last one.
LastPrefix(op) == IF op.asked = <<>> THEN <<>> ELSE Last(op.asked)

\* The key that authorize() judges an operation by.
AuthKey(op) == IF op.kind = "ListBucket" THEN FirstPrefix(op) ELSE op.key

\* Mutant: the keys of a batch are taken to be covered by the coarse check.
KeyAuthorizedCoarsely(who, bucket, action, key) ==
    who # Anonymous /\ \E s \in Scopes[who] : Grants(s, bucket, action)

\* key_authorized()
KeyAuthorized(who, bucket, action, key) ==
    /\ who # Anonymous
    /\ \E s \in Scopes[who] : Grants(s, bucket, action) /\ WithinPrefixes(s, key)

\* BucketRegistry::get_bucket
Resolves(who, bucket, action, key, deferred) ==
    bucket \in Registered /\ Authorized(who, bucket, action, key, deferred)

\* Mutant: the classifier misses the batch delete.
NeedsBufferedBodyMultipartOnly(op) == op.kind \in Multipart

\* op_needs_buffered_body
NeedsBufferedBody(op) == op.kind \in Multipart \union {"DeleteObjects"}

\* check_upload_size
TooLarge(r) == Declared(r) # NoLength /\ Declared(r) > MaxBody

-----------------------------------------------------------------------------
(* Ends of a step.                                                         *)

\* The slot is empty again; nothing of the request reaches the recorder.
Leave(r) ==
    /\ phase' = [phase EXCEPT ![r] = "idle"]
    /\ request' = [request EXCEPT ![r] = NoRequest]
    /\ body' = [body EXCEPT ![r] = "stream"]
    /\ reply' = [reply EXCEPT ![r] = NoReply]
    /\ charge' = [charge EXCEPT ![r] = "none"]
    /\ touched' = [touched EXCEPT ![r] = {}]

Goto(r, p) == phase' = [phase EXCEPT ![r] = p]

\* The answer is known, and after_dispatch comes next.
Settling(r, answer) ==
    /\ Goto(r, "settling")
    /\ reply' = [reply EXCEPT ![r] = answer]

\* Mutant: the metadata of an error keeps the bucket but not the caller.
RejectNamingBucket(r) == Settling(r, Reply("error", Nobody, Op(r).bucket, 0))

\* error_result: the metadata that goes with the error names nobody, so the
\* length of its body is recorded nowhere.
Reject(r) == Settling(r, Reply("error", Nobody, NoBucket, 0))

\* A Response that the chain returned as Ok, with the metadata of the request.
Respond(r, status) ==
    \E bytes \in 0..MaxBytes :
        Settling(r, Reply(status, Who(r), Op(r).bucket, bytes))

Send(r, touches) ==
    touched' = [touched EXCEPT ![r] = @ \union touches]

usage == <<used, moved>>

-----------------------------------------------------------------------------

Init ==
    /\ phase = [r \in Slots |-> "idle"]
    /\ request = [r \in Slots |-> NoRequest]
    /\ body = [r \in Slots |-> "stream"]
    /\ reply = [r \in Slots |-> NoReply]
    /\ used = [m \in Meters |-> 0]
    /\ charge = [r \in Slots |-> "none"]
    /\ touched = [r \in Slots |-> {}]
    /\ moved = [m \in Meters |-> 0]

Arrive(r, a) ==
    /\ phase[r] = "idle"
    /\ Goto(r, "routing")
    /\ request' = [request EXCEPT ![r] = a]
    /\ UNCHANGED <<body, reply, usage, charge, touched>>

\* A route handler (STS, OIDC discovery) answers, and nothing else happens;
\* Router::dispatch turns whatever it returns into a Response.
RouteAnswers(r) ==
    /\ phase[r] = "routing"
    /\ Leave(r)
    /\ UNCHANGED usage

\* No route matched.  A buffered operation whose declared body is too large
\* is refused by an early error, before any middleware hears of it.
Classify(r) ==
    /\ phase[r] = "routing"
    /\ \/ /\ NeedsBufferedBody(Op(r)) /\ TooLarge(r)
          /\ Leave(r)
       \/ /\ NeedsBufferedBody(Op(r)) /\ ~TooLarge(r)
          /\ Goto(r, "collecting")
          /\ UNCHANGED <<request, body, reply, charge, touched>>
       \/ /\ ~NeedsBufferedBody(Op(r))
          /\ Goto(r, "identifying")
          /\ UNCHANGED <<request, body, reply, charge, touched>>
    /\ UNCHANGED usage

\* collect_body
Collect(r) ==
    /\ phase[r] = "collecting"
    /\ Goto(r, "identifying")
    /\ body' = [body EXCEPT ![r] = "buffered"]
    /\ UNCHANGED <<request, reply, usage, charge, touched>>

CollectFails(r) ==
    /\ phase[r] = "collecting"
    /\ Leave(r)
    /\ UNCHANGED usage

\* parse_s3_request and resolve_identity; a signature may fail to verify.
Identify(r) ==
    /\ phase[r] = "identifying"
    /\ \/ Reject(r)
       \/ /\ Op(r).kind # "Unparsable"
          /\ Goto(r, IF Op(r).bucket = NoBucket THEN "screening" ELSE "locating")
          /\ UNCHANGED reply
    /\ UNCHANGED <<request, body, usage, charge, touched>>

\* get_bucket, which authorizes
Locate(r) ==
    /\ phase[r] = "locating"
    /\ IF Resolves(Who(r), Op(r).bucket, ActionOf(Op(r)), AuthKey(Op(r)),
                   Op(r).kind = "DeleteObjects")
       THEN Goto(r, "screening") /\ UNCHANGED reply
       ELSE Reject(r)
    /\ UNCHANGED <<request, body, usage, charge, touched>>

\* A backend-auth middleware that cannot obtain credentials, or any other
\* Err out of the chain.
ChainFails(r) ==
    /\ phase[r] = "screening"
    /\ Reject(r)
    /\ UNCHANGED <<request, body, usage, charge, touched>>

\* The rate limiter answers 503.
RateLimited(r) ==
    /\ phase[r] = "screening"
    /\ Respond(r, "limited")
    /\ UNCHANGED <<request, body, usage, charge, touched>>

Limited(r) == Op(r).bucket # NoBucket /\ Quota[Op(r).bucket] # Unlimited

\* Mutant: the request is compared with the quota, the recorded use is not.
OverQuotaAlone(r) == Known(Declared(r)) > Quota[Op(r).bucket]

\* BandwidthMeter::handle_check
OverQuota(r) == used[Meter(r)] + Known(Declared(r)) > Quota[Op(r).bucket]

\* MeteringMiddleware::handle with DoBandwidthMeter::check_quota: the check
\* reads what is recorded at this moment.
QuotaCheck(r) ==
    /\ phase[r] = "screening"
    /\ IF Limited(r) /\ OverQuota(r)
       THEN Respond(r, "limited") /\ UNCHANGED charge
       ELSE /\ Goto(r, "dispatching")
            /\ charge' = [charge EXCEPT ![r] = "admitted"]
            /\ UNCHANGED reply
    /\ UNCHANGED <<request, body, usage, touched>>

\* The meter cannot be reached: the request passes.
QuotaCheckFailsOpen(r) ==
    /\ phase[r] = "screening"
    /\ Limited(r)
    /\ Goto(r, "dispatching")
    /\ charge' = [charge EXCEPT ![r] = "unchecked"]
    /\ UNCHANGED <<request, body, reply, usage, touched>>

-----------------------------------------------------------------------------
(* dispatch_operation: what it makes of each kind of operation.            *)

IsS3(r) == Op(r).bucket \in S3Backed

\* Mutant: the size of a part is not checked.
ForwardsUnchecked(r) ==
    \/ Op(r).kind \in Reads \union {"DeleteObject"}
    \/ /\ Op(r).kind = "PutObject"
       /\ ~TooLarge(r)
       /\ \/ request[r].framing = "plain"
          \/ request[r].framing = "unsigned" /\ IsS3(r)
    \/ /\ Op(r).kind = "UploadPart"
       /\ IsS3(r)
       /\ request[r].framing # "signed"

\* The arms that end in HandlerAction::Forward: plain reads and deletes, and
\* uploads that fit; aws-chunked ones pass on S3 only, and only unsigned.
Forwards(r) ==
    \/ Op(r).kind \in Reads \union {"DeleteObject"}
    \/ /\ Op(r).kind = "PutObject"
       /\ ~TooLarge(r)
       /\ \/ request[r].framing = "plain"
          \/ request[r].framing = "unsigned" /\ IsS3(r)
    \/ /\ Op(r).kind = "UploadPart"
       /\ IsS3(r)
       /\ ~TooLarge(r)
       /\ request[r].framing # "signed"

\* The arms that end in HandlerAction::NeedsBody.
NeedsBody(r) ==
    \/ Op(r).kind \in Multipart /\ IsS3(r)
    \/ Op(r).kind = "DeleteObjects" /\ IsS3(r) /\ ~TooLarge(r)

Copies(r) == Op(r).kind = "CopyObject" /\ IsS3(r)

\* A registry that cannot list, a signer, a store or a URL that cannot be
\* built, an upload that is too large or wrongly framed, a backend that is
\* not S3.
DispatchFails(r) ==
    /\ phase[r] = "dispatching"
    /\ ~NeedsBody(r) /\ ~Copies(r)
    /\ Reject(r)
    /\ UNCHANGED <<request, body, usage, charge, touched>>

\* Until something is sent, only the phase and the answer change.
Dispatch(r) ==
    /\ phase[r] = "dispatching"
    /\ \/ Op(r).kind = "ListBuckets" /\ Respond(r, "ok")
       \/ Forwards(r) /\ Goto(r, "forwarding") /\ UNCHANGED reply
       \/ NeedsBody(r) /\ Goto(r, "needsBody") /\ UNCHANGED reply
       \/ Copies(r) /\ Goto(r, "sourcing") /\ UNCHANGED reply
    /\ UNCHANGED <<request, body, usage, charge, touched>>

Listed(op) == {k \in Keys : IsPrefix(LastPrefix(op), k)}

\* handle_list calls the backend inside the chain, for the keys that begin
\* with the prefix; the pages that show them are in Listing.
StartList(r) ==
    /\ phase[r] = "dispatching"
    /\ Op(r).kind = "ListBucket"
    /\ Goto(r, "inChain")
    /\ Send(r, {Touch("ListBucket", Op(r).bucket, k) : k \in Listed(Op(r))})
    /\ UNCHANGED <<request, body, reply, usage, charge>>

\* The source of a copy is resolved as the read that it is.
SourceResolves(r) ==
    LET s == Op(r).source IN
       Resolves(Who(r), s.bucket, SourceAction(s), s.key, FALSE)

\* same_s3_endpoint
SameStore(a, b) == a \in S3Backed /\ b \in S3Backed /\ Store[a] = Store[b]

\* The CopyObject arm and execute_copy, which sends inside the chain.
StartCopy(r) ==
    /\ phase[r] = "sourcing"
    /\ LET s == Op(r).source IN
          /\ SourceResolves(r) /\ SameStore(Op(r).bucket, s.bucket)
          /\ Send(r, {Touch("PutObject", Op(r).bucket, Op(r).key),
                      Touch(SourceAction(s), s.bucket, s.key)})
    /\ Goto(r, "inChain")
    /\ UNCHANGED <<request, body, reply, usage, charge>>

\* The source is denied or elsewhere, or no copy request can be built.
CopyFails(r) ==
    /\ phase[r] = "sourcing"
    /\ Reject(r)
    /\ UNCHANGED <<request, body, usage, charge, touched>>

\* The backend answers a list or a copy; an Err of the call is an Err of the
\* chain.
ChainReturns(r) ==
    /\ phase[r] = "inChain"
    /\ Respond(r, "ok") \/ Reject(r)
    /\ UNCHANGED <<request, body, usage, charge, touched>>

-----------------------------------------------------------------------------
(* handle_request after resolution: Forward and NeedsBody.                 *)

\* body.take() and backend.forward; without a body, an early error.
Forward(r) ==
    /\ phase[r] = "forwarding"
    /\ IF body[r] = "stream"
       THEN /\ Goto(r, "awaiting")
            /\ body' = [body EXCEPT ![r] = "taken"]
            /\ Send(r, {Touch(Op(r).kind, Op(r).bucket, Op(r).key)})
            /\ UNCHANGED <<request, reply, charge>>
       ELSE Leave(r)
    /\ UNCHANGED usage

\* The keys a buffered operation acts on: those of a batch that the caller
\* may delete one by one, or its own.
AllowedKeys(r) ==
    IF Op(r).kind = "DeleteObjects"
    THEN {k \in Op(r).batch :
             KeyAuthorized(Who(r), Op(r).bucket, "DeleteObject", k)}
    ELSE {Op(r).key}

\* handle_with_body up to the call of the backend: a batch none of whose
\* keys is allowed is answered at once, and so is a body that cannot be
\* parsed or a request that cannot be signed.
HandleWithBody(r) ==
    \/ /\ AllowedKeys(r) # {}
       /\ Goto(r, "awaiting")
       /\ Send(r, {Touch(ActionOf(Op(r)), Op(r).bucket, k) : k \in AllowedKeys(r)})
       /\ UNCHANGED reply
    \/ AllowedKeys(r) = {} /\ Respond(r, "ok") /\ UNCHANGED touched
    \/ Respond(r, "error") /\ UNCHANGED touched

\* prebuffered.take(); without a buffered body, an error that is reported
\* like any other answer.
SendBuffered(r) ==
    /\ phase[r] = "needsBody"
    /\ IF body[r] = "buffered"
       THEN body' = [body EXCEPT ![r] = "taken"] /\ HandleWithBody(r)
       ELSE /\ Settling(r, Reply("error", Who(r), Op(r).bucket, Known(Declared(r))))
            /\ UNCHANGED <<body, touched>>
    /\ UNCHANGED <<request, usage, charge>>

\* The length after_dispatch reports: that of the answer, else the declared
\* one, else none.
Transferred(r, length) == Known(IF length = NoLength THEN Declared(r) ELSE length)

\* The backend answers what was forwarded.
ForwardReturns(r) ==
    /\ phase[r] = "awaiting" /\ ~NeedsBufferedBody(Op(r))
    /\ \E length \in Lengths :
          Settling(r, Reply("ok", Who(r), Op(r).bucket, Transferred(r, length)))
    /\ UNCHANGED <<request, body, usage, charge, touched>>

\* Mutant: the failure of a forward takes the way of every other error.
ForwardErrsAnonymously(r) ==
    /\ phase[r] = "awaiting" /\ ~NeedsBufferedBody(Op(r))
    /\ Reject(r)
    /\ UNCHANGED <<request, body, usage, charge, touched>>

\* backend.forward fails: the answer carries no length.
ForwardErrs(r) ==
    /\ phase[r] = "awaiting" /\ ~NeedsBufferedBody(Op(r))
    /\ Settling(r, Reply("error", Who(r), Op(r).bucket, Transferred(r, NoLength)))
    /\ UNCHANGED <<request, body, usage, charge, touched>>

\* send_raw returns, or fails; handle_with_body makes a Response of both.
BufferedReturns(r) ==
    /\ phase[r] = "awaiting" /\ NeedsBufferedBody(Op(r))
    /\ Respond(r, "ok") \/ Respond(r, "error")
    /\ UNCHANGED <<request, body, usage, charge, touched>>

\* DoBandwidthMeter::record_operation drops what has no bucket, no caller or
\* no bytes, and what belongs to a bucket without a quota.
Recordable(r) ==
    /\ reply[r].who # Nobody /\ reply[r].bucket # NoBucket
    /\ reply[r].bytes # 0
    /\ Quota[reply[r].bucket] # Unlimited

Capped(n) == IF n > UsageCap THEN UsageCap ELSE n

\* after_dispatch records the answer, which then goes to the client.
Settle(r) ==
    /\ phase[r] = "settling"
    /\ IF Recordable(r)
       THEN LET m == Meter(r) IN
              /\ used' = [used EXCEPT ![m] = Capped(@ + reply[r].bytes)]
              /\ moved' =
                    IF reply[r].status = "limited" \/ charge[r] = "unchecked"
                    THEN moved
                    ELSE [moved EXCEPT ![m] = Capped(@ + reply[r].bytes)]
       ELSE UNCHANGED usage
    /\ Leave(r)

\* The meter cannot be reached: the answer goes out unrecorded.
SettleUnrecorded(r) ==
    /\ phase[r] = "settling"
    /\ Leave(r)
    /\ UNCHANGED usage

\* The runtime drops the request's future at an await.
Drop(r) ==
    /\ phase[r] # "idle"
    /\ Leave(r)
    /\ UNCHANGED usage

\* Recorded bytes leave the window.
Expire(m) ==
    /\ \E a \in 0..moved[m], b \in 0..(used[m] - moved[m]) :
          /\ a + b < used[m]
          /\ used' = [used EXCEPT ![m] = a + b]
          /\ moved' = [moved EXCEPT ![m] = a]
    /\ UNCHANGED <<phase, request, body, reply, charge, touched>>

Next ==
    \/ \E r \in Slots, a \in Arrivals : Arrive(r, a)
    \/ \E r \in Slots :
          \/ RouteAnswers(r) \/ Classify(r)
          \/ Collect(r) \/ CollectFails(r)
          \/ Identify(r) \/ Locate(r)
          \/ ChainFails(r) \/ RateLimited(r)
          \/ QuotaCheck(r) \/ QuotaCheckFailsOpen(r)
          \/ Dispatch(r) \/ DispatchFails(r) \/ StartList(r)
          \/ StartCopy(r) \/ CopyFails(r) \/ ChainReturns(r)
          \/ Forward(r) \/ ForwardReturns(r) \/ ForwardErrs(r)
          \/ SendBuffered(r) \/ BufferedReturns(r)
          \/ Settle(r) \/ SettleUnrecorded(r) \/ Drop(r)
    \/ \E m \in Meters : Expire(m)

Spec == Init /\ [][Next]_vars

-----------------------------------------------------------------------------
(* Properties                                                              *)

Phases == {"idle", "routing", "collecting", "identifying", "locating",
           "screening", "dispatching", "forwarding", "needsBody", "sourcing",
           "inChain", "awaiting", "settling"}

Replies ==
    [status : {"ok", "error", "limited"}, who : Callers,
     bucket : Buckets \union {NoBucket}, bytes : 0..MaxBytes] \union
    [status : {"error"}, who : {Nobody}, bucket : {NoBucket}, bytes : {0}]

Touches == [action : Actions, bucket : Buckets, key : Keys \union {NoKey}]

\* Types; an answer names its caller and its bucket, or neither.
TypeOK ==
    /\ phase \in [Slots -> Phases]
    /\ request \in [Slots -> Arrivals \union {NoRequest}]
    /\ body \in [Slots -> {"stream", "buffered", "taken"}]
    /\ reply \in [Slots -> Replies \union {NoReply}]
    /\ used \in [Meters -> 0..UsageCap]
    /\ charge \in [Slots -> {"none", "admitted", "unchecked"}]
    /\ touched \in [Slots -> SUBSET Touches]
    /\ moved \in [Meters -> 0..UsageCap]

\* What a caller may do, key by key: read a bucket open to everybody, or act
\* within one of its scopes.
Permitted(who, touch) ==
    /\ touch.bucket \in Registered
    /\ \/ who = Anonymous /\ AnonymousMay(touch.bucket, touch.action)
       \/ /\ who # Anonymous
          /\ \E s \in Scopes[who] :
                /\ Grants(s, touch.bucket, touch.action)
                /\ WithinPrefixes(s, touch.key)

\* A listing that shows more than was authorized: because its query names
\* another prefix first, or because the prefix was authorized as the equal of
\* a prefix of a scope without a slash at its end, and goes on past a segment.
ListsBeyond(who, op) ==
    LET p == LastPrefix(op) IN
    /\ op.kind = "ListBucket" /\ who # Anonymous
    /\ \/ FirstPrefix(op) # p
       \/ /\ p # <<>> /\ Last(p) # Slash
          /\ \E s \in Scopes[who] :
                Grants(s, op.bucket, "ListBucket") /\ p \in s.prefixes

\* The backend is asked only for what the caller is permitted, object by
\* object: also for each key of a batch, whose bucket-level check ignores
\* prefixes (authorize.rs:68), for the source of a copy, which the check of
\* its destination says nothing of (proxy.rs:1080), and for each key that a
\* listing is about, although a listing is authorized by a prefix alone
\* (authorize.rs:54-62).  ListsBeyond has the two exceptions to the last.
Mediated ==
    \A r \in Slots : \A t \in touched[r] :
        Permitted(Who(r), t) \/ ListsBeyond(Who(r), Op(r))

\* What docs/configuration/roles.md and the comment on key_matches_prefix say
\* of a prefix, without these exceptions: no listing is about a key outside
\* the prefixes of the caller's scopes.
ListingsMediated ==
    \A r \in Slots : \A t \in touched[r] :
        t.action = "ListBucket" => Permitted(Who(r), t)

\* The classifier that runs ahead of resolution and the dispatch that runs
\* after it agree (proxy.rs:339): what is dispatched to NeedsBody finds its
\* body in memory, read before the first await of resolution, and what is
\* dispatched to Forward finds it unread.
BodyWhereExpected ==
    \A r \in Slots :
        /\ phase[r] = "needsBody" => body[r] = "buffered"
        /\ phase[r] = "forwarding" => body[r] = "stream"

\* No upload that declares more than max_request_body_size is read into
\* memory, or streamed to the backend, by any of the ways a body can take.
NoOversizedBody ==
    \A r \in Slots :
        (\/ body[r] = "buffered"
         \/ body[r] = "taken" /\ Op(r).kind \notin Reads \union {"DeleteObject"})
        => ~TooLarge(r)

\* Once its body has gone to the backend, a request is reported under its own
\* caller and bucket, however the backend answers; only lists and copies,
\* which call the backend inside the chain, can be reported without.
SentIsAttributed ==
    \A r \in Slots :
        phase[r] = "settling" /\ body[r] = "taken" =>
            reply[r].who = Who(r) /\ reply[r].bucket = Op(r).bucket

\* A check reads the usage long before the request adds its own.  What
\* requests that were not refused, nor let through by a meter out of reach,
\* have added to a window stays within the quota and one longest body for
\* each slot.
QuotaOvershoot ==
    \A m \in Meters :
        Quota[m.bucket] # Unlimited =>
            moved[m] <= Quota[m.bucket] + MaxBytes * Cardinality(Slots)

(* The inductive invariant behind the safety properties.                   *)

Unresolved == {"routing", "collecting", "identifying", "locating"}

Resolved == {"screening", "dispatching", "forwarding", "needsBody",
             "sourcing", "inChain", "awaiting"}

\* An idle slot holds nothing of the request that left it.
Vacant(r) ==
    IF phase[r] = "idle"
    THEN body[r] = "stream" /\ charge[r] = "none" /\ touched[r] = {}
    ELSE request[r] \in Arrivals

\* A resolved request was authorized for its bucket, and stands where the
\* arm of its operation sends it.
Cleared(r) ==
    /\ phase[r] \in Resolved /\ Op(r).bucket # NoBucket =>
          Resolves(Who(r), Op(r).bucket, ActionOf(Op(r)), AuthKey(Op(r)),
                   Op(r).kind = "DeleteObjects")
    /\ phase[r] = "forwarding" => Forwards(r)
    /\ phase[r] = "needsBody" => NeedsBody(r)
    /\ phase[r] = "sourcing" => Copies(r)

\* A body is buffered if the classifier says so, and taken when it is sent.
BodyKept(r) ==
    /\ phase[r] = "routing" => body[r] = "stream"
    /\ phase[r] = "collecting" =>
          body[r] = "stream" /\ NeedsBufferedBody(Op(r)) /\ ~TooLarge(r)
    /\ phase[r] \in {"identifying", "locating"} \union (Resolved \ {"awaiting"}) =>
          body[r] = IF NeedsBufferedBody(Op(r)) THEN "buffered" ELSE "stream"
    /\ phase[r] = "awaiting" => body[r] = "taken"

\* The quota check stands between resolution and dispatch, and an answer
\* that comes without it has no bytes to record, or is a refusal.
Charged(r) ==
    /\ phase[r] \in Unresolved \union {"screening"} => charge[r] = "none"
    /\ phase[r] \in Resolved \ {"screening"} => charge[r] # "none"
    /\ phase[r] = "settling" =>
          /\ reply[r] \in Replies
          /\ reply[r].bucket \in {Op(r).bucket, NoBucket}
          /\ charge[r] = "none" => reply[r].bytes = 0 \/ reply[r].status = "limited"

\* The requests that the quota check admitted and that have not settled.
Admitted(m) == {r \in Slots : charge[r] = "admitted" /\ Meter(r) = m}

\* Each of them may still add a longest body.
Reserved ==
    \A m \in Meters :
        /\ moved[m] <= used[m]
        /\ Quota[m.bucket] # Unlimited =>
              moved[m] + MaxBytes * Cardinality(Admitted(m))
                 <= Quota[m.bucket] + MaxBytes * Cardinality(Slots)

PipelineInv ==
    /\ TypeOK
    /\ \A r \in Slots : Vacant(r) /\ Cleared(r) /\ BodyKept(r) /\ Charged(r)
    /\ Mediated
    /\ NoOversizedBody
    /\ SentIsAttributed
    /\ Reserved
==============================================================================
