----------------------------- MODULE BatchDelete -----------------------------
(***************************************************************************)
(* A batch delete with a long-lived credential, from the lookup of the     *)
(* credential through the ConfigCache of the server example                *)
(* (resolve_identity in crates/core/src/auth/identity.rs) to the answer    *)
(* (execute_delete_objects in crates/core/src/proxy.rs, api/delete.rs).    *)
(*                                                                         *)
(* The credential is read once. The bucket and the middleware are awaited  *)
(* before its scopes sort the keys, and the backend after. The backend     *)
(* erases some of what it is sent; how it tells is the rest of the story.  *)
(*                                                                         *)
(* A key is the sequence of its segments. Objects may be put back at any   *)
(* time, so what matters of the backend is what this request erased. A     *)
(* list of keys in an answer is the set of them: their order is left out.  *)
(***************************************************************************)
EXTENDS ConfigCache, FiniteSets, SequencesExt

CONSTANTS
    Keys,           \* keys clients may name
    BackendPrefix,  \* backend_prefix of the bucket, <<>> for none
    Requests,       \* bodies clients may send
    MaxKeys,        \* DeleteRequest::MAX_KEYS
    MaxWait,        \* longest time from the identity to the partition
    Absent,         \* the value of an unknown access key
    Failed,         \* the answer of a request that ends in an error
    NoBatch

VARIABLE batch      \* the request of each caller

allVars == <<vars, batch>>

\* A credential has its scopes for deletes in the bucket: sets of prefixes.
Credential == [enabled : BOOLEAN, scopes : SUBSET SUBSET Keys]

Request == [keys : Seq(Keys), quiet : BOOLEAN]

ASSUME BatchAssumption ==
    /\ Values \subseteq Credential \cup {Absent}
    /\ Absent \in Values
    /\ Keys \subseteq Seq(STRING)
    /\ BackendPrefix \in Seq(STRING)
    /\ Requests \subseteq Request
    /\ MaxKeys \in Nat /\ MaxWait \in Nat
    /\ Ttl + MaxRead + MaxWait < Horizon

-----------------------------------------------------------------------------
(* Keys and reports.                                                       *)

Apply(key) == BackendPrefix \o key

\* Mutant: the report names the keys as the backend does.
StripNothing(key) == key

Strip(key) ==
    IF IsPrefix(BackendPrefix, key)
    THEN SubSeq(key, Len(BackendPrefix) + 1, Len(key)) ELSE key

\* key_authorized: a scope without prefixes is for the whole bucket.
Allows(credential, key) ==
    \E scope \in credential.scopes :
        scope = {} \/ \E p \in scope : IsPrefix(p, key)

\* Mutant: the check for the bucket stands for the checks of the keys.
ForwardedCoarsely(request, credential) ==
    {Apply(k) : k \in ToSet(request.keys)}

Forwarded(request, credential) ==
    {Apply(k) : k \in {x \in ToSet(request.keys) : Allows(credential, x)}}

Denied(request, credential) ==
    {k \in ToSet(request.keys) : ~Allows(credential, k)}

\* What the client reads when the backend has erased the keys in D and
\* reported on each key.
Report(request, credential, D) ==
    LET sent == Forwarded(request, credential)
    IN [deleted |-> IF request.quiet THEN {} ELSE {Strip(k) : k \in sent \cap D},
        errors |-> Denied(request, credential) \cup {Strip(k) : k \in sent \ D}]

WellFormed(request) == Len(request.keys) \in 1..MaxKeys

-----------------------------------------------------------------------------

BackendKeys == {Apply(k) : k \in Keys}

Answer == [deleted : SUBSET Keys, errors : SUBSET Keys]

\* `erased` is history: what the backend has erased for this request.
Batch ==
    [at : {"resolving"}]
        \cup [at : {"admitted"}, item : Items, credential : Values,
              time : 0..MaxWait]
        \cup [at : {"sent"}, request : Requests, credential : Values]
        \cup [at : {"done"}, request : Requests, credential : Values,
              answer : Answer \cup {Failed}, erased : SUBSET BackendKeys]

BatchTypeOK ==
    /\ TypeOK
    /\ batch \in [Callers -> Batch \cup {NoBatch}]

BatchInit ==
    /\ Init
    /\ batch = [c \in Callers |-> NoBatch]

In(c, place) == batch[c] # NoBatch /\ batch[c].at = place

Becomes(c, b) == batch' = [batch EXCEPT ![c] = b]

Begin(c, i) ==
    /\ batch[c] = NoBatch
    /\ Look(c, i)
    /\ Becomes(c, [at |-> "resolving"])

Await(c) ==
    /\ SourceAnswers(c) \/ Insert(c)
    /\ UNCHANGED batch

LookupEnds(c) ==
    /\ ReadEnds(c)
    /\ Becomes(c, NoBatch)

\* The credential is in force and some scope of it lets delete in the bucket.
Admit(c) ==
    LET v == reading[c].value IN
    /\ Return(c)
    /\ v # Absent /\ v.enabled /\ v.scopes # {}
    /\ Becomes(c, [at |-> "admitted", item |-> reading[c].item,
                   credential |-> v, time |-> 0])

\* For the credential, or for its expiry or the signature.
Refuse(c) ==
    /\ Return(c)
    /\ Becomes(c, NoBatch)

\* The request was read before the lookup; it is chosen where it matters.
Send(c, request) ==
    LET v == batch[c].credential IN
    /\ In(c, "admitted")
    /\ WellFormed(request)
    /\ Forwarded(request, v) # {}
    /\ Becomes(c, [at |-> "sent", request |-> request, credential |-> v])
    /\ UNCHANGED vars

\* Nothing is left to send, and the backend is not asked.
AnswerAtOnce(c, request) ==
    LET v == batch[c].credential IN
    /\ In(c, "admitted")
    /\ WellFormed(request)
    /\ Forwarded(request, v) = {}
    /\ Becomes(c, [at |-> "done", request |-> request, credential |-> v,
                   answer |-> Report(request, v, {}), erased |-> {}])
    /\ UNCHANGED vars

\* Malformed, refused by the bucket or by a middleware, or dropped.
GiveUp(c) ==
    /\ In(c, "admitted") \/ In(c, "sent")
    /\ Becomes(c, NoBatch)
    /\ UNCHANGED vars

Done(c, D, answer) ==
    LET b == batch[c] IN
    /\ Becomes(c, [at |-> "done", request |-> b.request,
                   credential |-> b.credential, answer |-> answer,
                   erased |-> D])
    /\ UNCHANGED vars

Sent(c) == Forwarded(batch[c].request, batch[c].credential)

BackendReports(c) ==
    /\ In(c, "sent")
    /\ \E D \in SUBSET Sent(c) :
          Done(c, D, Report(batch[c].request, batch[c].credential, D))

\* Rejected, unreadable or lost on the way; some keys may be gone all the same.
BackendFails(c) ==
    /\ In(c, "sent")
    /\ \E D \in SUBSET Sent(c) : Done(c, D, Failed)

Finish(c) ==
    /\ In(c, "done")
    /\ Becomes(c, NoBatch)
    /\ UNCHANGED vars

Outside ==
    /\ \E i \in Items, v \in Values : Change(i, v)
    /\ UNCHANGED batch

BatchRestart ==
    /\ Restart
    /\ batch' = [c \in Callers |-> NoBatch]

InTime == \A c \in Callers : In(c, "admitted") => batch[c].time < MaxWait

BatchTick ==
    /\ Tick
    /\ InTime
    /\ batch' = [c \in Callers |->
          IF In(c, "admitted") THEN [batch[c] EXCEPT !.time = @ + 1]
          ELSE batch[c]]

BatchNext ==
    \/ Outside
    \/ \E c \in Callers, i \in Items : Begin(c, i)
    \/ \E c \in Callers : Await(c) \/ LookupEnds(c) \/ Admit(c) \/ Refuse(c)
    \/ \E c \in Callers, r \in Requests : Send(c, r) \/ AnswerAtOnce(c, r)
    \/ \E c \in Callers :
          GiveUp(c) \/ BackendReports(c) \/ BackendFails(c) \/ Finish(c)
    \/ BatchRestart
    \/ BatchTick

BatchSpec == BatchInit /\ [][BatchNext]_allVars

-----------------------------------------------------------------------------
(* Properties.                                                             *)

\* A batch that is answered with a result is answered with the truth: the
\* errors name those of the keys asked for that are not deleted, in the names
\* of the client, and the rest is deleted, said or (when quiet) unsaid; and
\* nothing is deleted that was not asked for (proxy.rs:1484-1565).
ReportTrue ==
    \A c \in Callers : In(c, "done") =>
        LET b == batch[c]
            asked == ToSet(b.request.keys)
            kept == {k \in asked : Apply(k) \notin b.erased}
        IN /\ b.erased \subseteq {Apply(k) : k \in asked}
           /\ b.answer # Failed =>
                 /\ b.answer.errors = kept
                 /\ b.answer.deleted =
                       IF b.request.quiet THEN {} ELSE asked \ kept

Grants(v, key) == v # Absent /\ v.enabled /\ Allows(v, key)

\* A revocation takes hold, and so does a narrower scope: a delete goes to the
\* backend for a key only if the provider held a credential that grants it no
\* longer ago than the cache may be behind and the request took to get there
\* (cached.rs:108-133, identity.rs:95-122, proxy.rs:1487-1532).
RevocationTakesHold ==
    [][\A c \in Callers : In(c, "admitted") /\ In(c, "sent")' =>
          \A k \in Keys : Apply(k) \in Sent(c)' =>
             \E v \in Values :
                /\ Grants(v, k)
                /\ gone[batch[c].item][v] <= MaxStale + MaxWait]_allVars
=============================================================================
