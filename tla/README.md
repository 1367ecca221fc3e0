# Specifications of multistore

TLA+ models of the S3 gateway in this repository, the TLC configurations that
check them, and TLAPS proofs of what matters most. Paths are relative to the
root of the repository.

## The system

A client sends an S3 request. A runtime (the axum server, AWS Lambda or
Cloudflare Workers) hands its head and its body to
`ProxyGateway::handle_request` in `crates/core/src/proxy.rs`, which

1. asks the router for a handler (STS, OIDC discovery) that answers at once,
2. reads the body of a few operations into memory, before anything is awaited,
3. identifies the caller, resolves the bucket, and authorizes the operation,
4. runs the middleware chain (backend credentials, rate limit, quota) down to
   `dispatch_operation`, which answers, forwards, or asks for the body,
5. sends the request to the backend and reports the outcome to every
   middleware (`after_dispatch`), where the bytes are recorded.

Many requests are in flight in one process. They share the credential cache,
the JWKS cache and the meters, and the runtime may drop any of them at any
await.

### Inventory

| Component | State | Operations | What is hard | What makes it correct |
|---|---|---|---|---|
| Gateway pipeline (`core/src/proxy.rs`, `middleware.rs`, `router.rs`) | per request: body, identity, bucket, pending operation | `handle_request`, `resolve_request`, `dispatch_operation`, `handle_with_body` | decisions taken before an await and relied on after it; a body that can be read once; errors from six places; dropped requests | nothing reaches a backend unauthorized; the body is where dispatch looks for it; the outcome is reported under the right caller |
| Authorization and registry (`core/src/auth/authorize.rs`, `static-config`) | configuration | `authorize`, `key_authorized`, `get_bucket`, `list_buckets` | batch keys and copy sources are checked apart from the request, listings by a prefix | every object touched is covered by a scope |
| Metering (`metering`, `examples/cf-workers/src/metering.rs`) | none of its own | `check_quota`, `record_operation` | check and record lie an exchange apart; both fail open | the overshoot is bounded |
| Bandwidth meter (`examples/cf-workers/src/bandwidth.rs`) | entries in memory and in storage, an alarm | `/check`, `/record`, `alarm` | eviction, failing writes, a late alarm, a window that changes | refusals and passes follow from what was recorded |
| Rate limiter (`examples/cf-workers/src/rate_limit.rs`) | kept by the platform | `limit` | fails open | |
| Backend credential cache (`oidc-provider/src/cache.rs`) | credentials and renewal claims by key | `get_or_fetch` | no lock across the exchange; expiry; claims whose holder is gone | right owner, enough life, one renewal, and a renewal in the end |
| Backend OIDC auth (`oidc-provider/src/backend_auth.rs`, `exchange/`) | none | `resolve_aws`, exchanges | errors of three services | |
| Listing (`core/src/api/list.rs`, `handle_list`) | none; the page token is the client's | list pages V1 and V2 | two key spaces, markers that travel through the client | the pages together are the listing |
| Key mapping (`apply_backend_prefix`, `build_object_path`, `build_backend_url`) | none | key to backend key, and back | three functions for one mapping, a setting that nothing validates | they agree and are inverse |
| Batch delete (`core/src/api/delete.rs`) | none | `execute_delete_objects` | partial refusal, partial failure, a credential read long before | every key is reported truly; a revoked credential deletes nothing for long |
| Request parsing (`core/src/api/request.rs`) | none | `parse_s3_request` | many shapes of one operation | |
| Request authentication (`core/src/auth/identity.rs`, `sigv4.rs`) | none | `resolve_identity` | two kinds of credentials | an expired or disabled one identifies nobody |
| STS and sealed tokens (`sts`) | the sealing key | `assume_role_with_web_identity`, `seal`, `unseal` | key rotation, clamped lifetimes, a role read before an await and used after | trust in a key and in a role ends in bounded time |
| JWKS cache (`sts/src/jwks.rs`) | entries and failures, under two locks | `get_or_fetch` | racing fetches, negative caching, key rotation | staleness is bounded, a late failure does not undo a success, and an issuer that recovers is used again |
| Config cache (`examples/server/src/cached.rs`) | roles, credentials with a time stamp | `get_role`, `get_credential` | slow reads overwrite newer values and stamp the old one as new | staleness is bounded all the same |
| Path mapping (`path-mapping`) | none | `parse`, `rewrite_request`, `MappedRegistry` | aliases of one object | |
| Runtimes, signing, discovery | none | I/O and formatting | | |
| Documentation site (`docs/.vitepress`) | none | titles and links of menus | | |

The hazards that these rows summarise are listed one by one, with the line at
which each bites and the property that would catch it, under `hazards` in
`PROJECT.json`.

## Modules

| Module | Models |
|---|---|
| `CredentialService` | what the credential cache promises: credentials are issued, age, are forgotten, and are handed to their owner |
| `CredentialCache` | `CredentialCache::get_or_fetch` as `get_credentials` uses it; implements `CredentialService` |
| `MCCredentialCache` | its callers and subjects for TLC |
| `CredentialCacheProofs` | theorems about `CredentialCache` |
| `Gateway` | `handle_request` with authorization, metering and the shared usage |
| `MCGateway` | callers, scopes, buckets and requests for TLC |
| `GatewayProofs` | theorems about `Gateway` |
| `BandwidthMeter` | the Durable Object behind the quota |
| `BandwidthMeterProofs` | theorems about `BandwidthMeter` |
| `Listing` | the key space of a bucket, and paged listings of it while others write |
| `MCListing` | keys, prefixes and settings for TLC |
| `ListingProofs` | theorems about `Listing` |
| `StaleReads` | what a cache with a time to live promises: each value read was the source's a bounded time ago |
| `JwksCache` | `JwksCache::get_or_fetch` between exchanges and issuers; implements `StaleReads` |
| `JwksCacheProofs` | theorems about `JwksCache` |
| `StsExchange` | `assume_role_with_web_identity` over `JwksCache`, and the session it mints |
| `MCStsExchange` | roles and tokens for TLC |
| `StsExchangeProofs` | theorems about `StsExchange`, from those about `JwksCache` |
| `ConfigCache` | `CachedProvider` of the server example; implements `StaleReads` |
| `ConfigCacheProofs` | theorems about `ConfigCache` |
| `BatchDelete` | a batch delete with a credential out of `ConfigCache` |
| `MCBatchDelete` | credentials and requests for TLC |
| `BatchDeleteProofs` | theorems about `BatchDelete`, from those about `ConfigCache` |

Operators whose comment begins with "Mutant" are variants of the definition
that follows them, with a mistake somebody could make in that code. They occur
in no specification; each shows that a property notices the mistake.

### CredentialCache

`entries` is the map, one entry for each `scoped_key`; an entry is a
credential and its renewal claim. `call` says where each request stands:
`get_or_fetch` holds the mutex for the lookup (`Serve`, `StartFetch`) and for
the outcome (`Store`, `Fail`) and never across the exchange, so these are its
atomic steps. `Mint` is the token endpoint, `Cancel` the runtime dropping a
future in the exchange, with the claim left behind.

Timestamps are kept as distances from now. A credential has a `life` that
counts down to 0, a claim an age that stops at `ClaimTimeout`, since the code
treats all older claims alike. `Tick` moves them together. Time is unbounded,
the state space finite, and no bound on the clock is needed. `claimAge` and
`disturbed` are history: no action reads them.

`scoped_key` joins scope and subject with a separator that occurs in neither;
the model takes the pair. The trust policy is a set of identities.

### Gateway

`phase` is the place of a request in `handle_request`; two phases are
separated by an await of the code. `body` follows `body` and `prebuffered`,
`reply` is what `after_dispatch` will see, `used` what the meter holds.
`charge`, `touched` and `moved` are history.

| Phase | Code | Steps out of it |
|---|---|---|
| `routing` | router, classifier, size check | `RouteAnswers`, `Classify` |
| `collecting` | `collect_body` | `Collect`, `CollectFails` |
| `identifying` | `parse_s3_request`, `resolve_identity` | `Identify` |
| `locating` | `get_bucket` with `authorize` | `Locate` |
| `screening` | the middleware chain | `ChainFails`, `RateLimited`, `QuotaCheck`, `QuotaCheckFailsOpen` |
| `dispatching` | `dispatch_operation` | `Dispatch`, `DispatchFails`, `StartList` |
| `sourcing`, `inChain` | copy source, calls inside the chain | `StartCopy`, `CopyFails`, `ChainReturns` |
| `forwarding`, `needsBody` | the match on `HandlerAction` | `Forward`, `SendBuffered` |
| `awaiting` | the backend | `ForwardReturns`, `ForwardErrs`, `BufferedReturns` |
| `settling` | `after_dispatch` | `Settle`, `SettleUnrecorded` |

`Drop` may end a request in any phase. The chain is that of the cf-workers
example: backend credentials, rate limit, quota. What a middleware before the
quota check may do to a request is to fail or to answer it, so the order of
those two is left open.

Lengths stand for bodies. Keys and prefixes are sequences of characters, as
`key_matches_prefix` compares them. A list carries the values of the `prefix`
parameters of its query in their order, `asked`: `authorize` judges the first
(`FirstPrefix`), `handle_list` asks the backend for the last (`LastPrefix`). What
a listing touches is every key that begins with it (`Listed`), whatever page it
is shown on. The sliding window of the meter is a counter from which
bytes may leave at any time (`Expire`), which is weaker than any window; the
window itself is `BandwidthMeter`. Handlers of routes are opaque, because
`Router::dispatch` makes a response of whatever they return.

### BandwidthMeter

Entries differ in age and bytes and are only summed, so a series of entries is
a function from ages to bytes. Handlers are steps, because the platform holds
back events while an object waits for its storage; `RecordFails` is a handler
that returns early from a failing write, `Evict` the loss of the object in
memory. `window` is configuration and may change at any time. `log` and `firm`
are history: all that was recorded, and the part whose record succeeded under
a window that has not been widened since. The sum over a window is a recursive
function of its length, so that it can be reasoned about.

### Listing

`objects` are the keys in the backend, `empties` those without data, `config`
the `backend_prefix`, which may be any text, as nothing validates it. A key of a
client gets to the backend in three ways:

| Mapping | Code | Used by |
|---|---|---|
| `BackendKey` | `apply_backend_prefix`, `build_list_prefix` | listings, `DeleteBatch`, sources of copies |
| `PathKey` | `build_object_path`: `BackendKey` through `Path::parse`, which drops a slash at either end and refuses empty segments | presigned requests: `Put`, `Delete` |
| `UploadKey` | `build_backend_url` | raw-signed requests: `Upload` |

`ClientKey` is the way back (`rewrite_key`). The three agree exactly for the
settings that are `Regular`: none, or one that has segments and no empty one
once the slashes at its end are dropped. With an empty setting, say, an upload
goes to `/a` and everything else looks for `a`. `FoundWhereWritten`,
`ShownIsReadable`, `ShownIsAsked` and `Complete` are about regular settings, and
without that condition TLC finds each of them violated; types, `OnceEach` and
`TokenAdvances` hold under every setting. `StartListing` is a client's query;
each `List` is `handle_list` once: the mapping of prefix and offset, one page of
the backend, `collect_list_entries`, and the token or marker of the answer, with
which the client goes on (`Continue`). A page with a key that object_store
cannot parse is an error and changes nothing. Writes and deletes happen between
pages. `held`, `steady` and `pages` are history.

A bucket holds finitely many objects, any finite set in the proofs. Keys are
sequences of character codes, because prefixes, order and the slash at an end
are what this code is about. The backend and object_store are external: a page
is the first entries after the token or the offset, with keys that share the
text up to the next slash rolled up; a `Path` has no slash at either end, and
object_store refuses keys with empty segments. The keys that nobody wrote
through the gateway (`Foreign`) have none. A token is the last entry of its
page. The delimiter is the slash, as object_store's own, or absent.

### StaleReads

A source holds a value for each item and changes it without notice. `gone` is
the time since it last held each value, up to a horizon that stands for "long
ago or never". A reader may be given any value with `gone` at most `MaxStale`,
and that is all. Two caches of the code, written apart and with different
mistakes to make, are shown to implement it.

### JwksCache

`published` and `up` are the issuers, `entries` and `failures` the two maps,
`lookup` the place of each exchange in `get_or_fetch`. The maps have a lock
each, so the look into the entries (`Hit`, `Miss`), the look into the failures
(`BackOff`, `StartFetch`), the insert of an answer (`StoreEntry`) and the
removal of the failure (`ClearFailure`) are steps of their own, with those of
other exchanges in between. A fetch is two steps (`IssuerAnswers`, then
`StoreEntry`), since an answer may travel while the issuer changes its keys.
`FetchFails` is any of the errors that set the backoff; `Cancel` is a dropped
request, `Restart` a new process with empty maps.

Times are distances from now again: the age of an entry stops at `Ttl`, that of
a failure at `FailureTtl`, where the code takes both for absent. What a caller
computes between two awaits takes no time: `Tick` waits for whoever is at such
a place (`Computing`). `gone`, `vain` (the failure kept is that of a fetch
which a success beat) and `beaten` are history.

| Place | Code | Steps out of it |
|---|---|---|
| `idle` | before the call | `Hit`, `Miss` |
| `missed` | between the two looks | `BackOff`, `StartFetch` |
| `fetching`, `answered` | the await of the issuer | `IssuerAnswers`, `StoreEntry`, `FetchFails`, `Cancel` |
| `stored` | between the two writes | `ClearFailure` |
| `returned`, `failed`, `backedOff` | the result | `Return` |

### StsExchange

Extends `JwksCache` and uses its steps. `configured` is what an operator has
set for each role, `exchange` holds the role that an exchange has read,
`tokenKey` the sealing key of the process. `Begin` is
`assume_role_with_web_identity` up to the await (role, issuer, algorithm), and
`Decide` all of it after the await: `Verified` the checks of the token,
`Duration` the clamp, `Resolvable` the templates, then `Grant`, `Refuse` or, if
the maximum of the role is below the minimum session, `Panic`. What the code
reads of the request only at the end is chosen there. `Unseals` is `unseal` as
`resolve_identity` and GetCallerIdentity use it.

Sessions are stored nowhere, since the client holds them. They do not meet
either, so the model follows one of them, any one. It counts down its `life`;
`issuer`, `kid` and `old` (time since the role it rests on was last the
configured one) are history.

### ConfigCache

`source` is the provider behind the cache, `entries` the cached answers with
their ages, `reading` the place of each lookup. `get_role` and `get_credential`
are one code over two maps, so an item is an id in either; "not found" is one
of the values, as it is cached like any other. An error is not cached
(`ReadEnds`). `Insert` overwrites whatever is there and stamps it with the time
of the arrival. An entry is used until it is older than `Ttl`, where that of
the JWKS cache is used while younger: hence the two forms of `MaxStale`.

### BatchDelete

Extends `ConfigCache`. `batch` is the request of each caller: `resolving` in the
lookup of its credential, `admitted` once the credential is in force and lets
it into the bucket, `sent` while the backend works, `done` with the answer.
`Forwarded` and `Denied` are the partition by `key_authorized`, `Report` the
merge with the result of the backend in the names of the client, in normal and
quiet mode; `Apply` and `Strip` add and take off the bucket's prefix. The
backend erases any subset of what it is sent and then tells (`BackendReports`)
or does not (`BackendFails`). `erased` is history. Objects may be put back at
any time, so their presence is no state here; a request chooses its body where
the code reads it. A key is the sequence of its segments. The keys of an answer
are sets: their order in the document, and an error that is repeated because a
key was asked for twice, are left out.

## Runs

| Run | Question | Bounds |
|---|---|---|
| `shared` | Can requests that share a cache get what is not theirs, what is about to expire, or two renewals? Does a lapsing credential get renewed? | 3 callers, 1 role, 2 subjects of which 1 is trusted, lifetimes on both sides of the refresh lead |
| `onemint` (violated) | Is there only ever one renewal, as the documentation says? | as `shared`, one lifetime |
| `pipeline` | Can any request, from anybody, touch what it may not, miss its body, or be misattributed? | 1 slot; 12 kinds of operation, 3 callers, 5 buckets, 2 keys, 4 prefixes, queries with up to two of them, bodies below and above the limit, 3 framings |
| `scopes` (violated) | Does a prefix of a scope end at the segment, for listings too? | 1 slot, 1 caller, listings of 1 bucket by at most one prefix |
| `quota` | How far past a quota do concurrent requests get? | 2 slots, quota 2, bodies up to 2 |
| `window` | Are refusals and passes earned? | windows 1 and 2, limit 2, records of 1 or 2 |
| `pages` | Is a file found where it was written, and is what a client lists readable, asked for, complete, and shown once, whatever is written in between? | 5 settings, 3 files, 3 foreign keys, 3 queries, pages of 1 or 2 keys, 1 write |
| `markers` (violated) | Do the markers of V1 page as tokens do? | as `pages` |
| `keys` | How old are the keys an exchange verifies with, can a late failure undo a success, and is an issuer that recovers used again? | 3 callers, 1 issuer, 1 key that comes and goes |
| `federation` | For how long does a session rest on a key or a role that is gone? | 2 callers, 3 configurations of a role, 3 tokens, 2 sealing keys, sessions up to 2 |
| `shortrole` (violated) | Does every good token get an answer? | as `federation` |
| `revocation` | Are reports of a batch true, and when does a revocation take hold? | 2 callers, 1 access key, 4 states of its credential, 5 requests, 3 keys |

Why the bounds are enough:

- `shared`: the claim logic tells apart a credential's life above the lead,
  between floor and lead, and below the floor, and a claim that is fresh, old
  or absent. Lead 4, floor 1 and timeout 2, with lifetimes of 5 and 2, leave
  room for each combination and for a claim to time out while the credential
  lives. Three callers are one to renew, one to disturb it and one to profit.
  The theorems hold for any number.
- `pipeline`: requests meet only in the usage, which no property of this run
  reads, so one slot is enough. Among the buckets are one open to everybody,
  one with scopes by prefix, one that is not S3, one in another store and one
  that does not exist. The keys are `d/x` and `d-`, the prefixes `d`, `d/`, `d-`
  and the empty one: those on which a comparison of characters and one of
  segments differ. A query has no prefix, one, or two in either order.
- `quota`: two slots are the smallest number at which one request's check
  overlaps another's record; usage is capped above the bound under test, so
  that a larger value would be seen (`UsageCap`).
- `window`: `MaxMoved` bounds the bytes recorded within the longest window. It
  is above the limit, so that checks are refused, and is itself kept by the
  model's guards on records only.
- `pages`: the settings are none, `p/`, `/`, `/p` and `p//a`: the two kinds that
  are regular and the three that are not. The files are one, one in a folder of
  its name, and one named as the prefix; the foreign keys are the marker of the
  root, the marker of the folder and a key that sorts just before the root. So a
  page can end inside a folder, hold common prefixes only, or hold nothing but
  markers. Six entries are the most a listing can have, hence `MaxPages`. One
  write is enough to come between any two pages; `MaxWrites` counts over the
  whole behaviour, for under a setting that is not regular each write may leave
  an object that no delete removes. The run has about a million states.
- `keys`: callers of different issuers share nothing, so one issuer is enough.
  Three callers are one whose fetch succeeds, one whose fetch fails late, and one
  that is refused for it. With one key the issuer publishes it or nothing, and a
  value that comes back is told from one that stayed by `gone`. A backoff of 2
  within a life of 3, with fetches of 1, lets an entry outlive the failure and
  the other way round (after a restart).
- `federation`: one exchange holds an old role while another fills the cache.
  The maxima of the roles lie below, at and above the minimum session; the
  sessions last as long as an entry. `Horizon` is the sum of the
  bounds, one past which nothing counts.
- `revocation`: one access key, since items share nothing. Two callers are a
  slow reader and the one that it overwrites. The credentials are for all keys,
  for one prefix, disabled and absent; the requests have a key allowed and one
  denied, a key twice, none, and one too many.

`CHECK_DEADLOCK` is on everywhere.

Fairness occurs in two runs. In `shared`, time passes, an exchange ends one way
or another (the HTTP client has a timeout, the runtime drops what hangs), and
requests for an identity keep arriving, strongly fair because a slot for them
must be free at the time. Nothing is assumed about success: `FetchReturns` may
always be a failure or a cancellation, and `RenewalAttempted` promises an
attempt. In `keys`, time does not stop, each request goes on when it can, and
requests keep arriving. Nothing is assumed about issuers or about dropped
requests: `Recovery` has as its premises that the issuer answers and leaves its
keys alone from some time on, and that drops end, because a request that is
dropped whenever it is about to store an answer leaves nothing behind.

`MaxFetch`, `MaxRead` and `MaxWait` are bounds of the environment, not of the
code, which sets no timeout on the fetch of keys, the read of the provider or
the wait for a middleware. Every bound on staleness contains them, and without
them nothing is bounded.

The type invariants say, besides the types, what the fields of one state have
to do with each other: a renewal is claimed only on a credential that is due
(`DueWhenClaimed`), a caller between the two writes of a success finds a fresh
entry, an answer to a batch names keys of the client and none of the backend, a
reply names its caller and its bucket or neither.

`Mediated` judges each key for itself, and for listings it has two exceptions
(`ListsBeyond`), because a listing is authorized by one string: a query whose
first and last `prefix` differ is authorized for the one and made with the other,
and a `prefix` that equals one of a scope without a slash at its end also matches
keys that go on past the segment. TLC refutes it without either of them.

### What the violated runs show

- `OneMintRuns`: the documentation of the cache says that one mint runs. A
  fetch that ends clears or overwrites the claim on the entry without asking
  whose it is. If a request outlives its own claim, or started while the key
  was absent, its end erases the claim of the renewal that runs by then, and a
  second renewal starts beside it. `SingleFlight` is what does hold: two
  renewals overlap only if another fetch of the key ended since one of them
  took its claim.
- `MarkersComplete`: `NextMarker` is a key of the backend, and the marker that
  comes back is prefixed once more. In a bucket with a prefix the next page
  begins too late or too early, and objects are missed or shown twice.
  `Complete`, `OnceEach` and `TokenAdvances` are what holds for V2. They say
  nothing of V1, where a truncated page of common prefixes has no marker at all
  (`stuck`).
- `ListingsMediated`: the documentation of scopes, and the comment on
  `key_matches_prefix`, say that a prefix without a slash at its end does not
  match what merely begins with it. That is true of keys. A listing by that very
  prefix is authorized, since it equals the scope's, and shows `d-` as well as
  what lies in `d/`. `Mediated` is what holds, with this exception and the other.
- `EveryExchangeAnswered`: the documentation lets a role have any maximum and
  says that durations are clamped into `[900, max_session_duration_secs]`. For a
  maximum below 900 the interval is empty and `u64::clamp` panics.

Some sentences of the documentation are not of the code but no run is spent on
them. UploadPart is listed with the buffered operations and is streamed. A
comment on the alarm of the meter says that all entries are stale when it
fires, which a window that is widened in between makes untrue. Caching of
bucket lookups is documented for the server example, whose cache passes them
on. A credential that is disabled is revoked "immediately" according to
`docs/configuration/credentials.md`; with the cache of the server example it
is revoked within its time to live, which is what `RevocationTakesHold` says.
The comment at `api/request.rs:245` says that every backend URL builder must
agree on what a key addresses: they do for regular settings of `backend_prefix`
and for no other (`OneMapping`). An object without data whose key is the prefix
asked for is taken for a directory marker and hidden, although a comment and a
test in `api/list.rs` mean keys with a slash at their end; `TakenForMarker` is
the exact exception that `Complete` makes.

## Proofs

`tlapm` checks every theorem for all values of the constants that satisfy the
named assumptions (`ConstantsAssumption`, `GatewayAssumption`,
`MeterAssumption`, `ListingAssumption`, `JwksAssumption`, `StsAssumption`,
`ConfigAssumption`, `BatchAssumption`). TLC evaluates these assumptions in each
run. They are of four kinds: that markers such as `NoEntry` are no ordinary
values, that limits are natural numbers, that keys and prefixes are sequences
(of clients' keys, that `validate_key` accepts them), and that history counts
far enough. Nothing is assumed of a `backend_prefix` but that it is text.
`MeterAssumption` also asks for a longest window. One says more of the system:
`MaxFetch + FailureTtl <= Ttl`, a fetch and the backoff fit into the life of an
entry. The code has a backoff of 30 seconds, and the runtimes a life of 15
minutes.

`CredentialCacheProofs`. The inductive invariant is `CacheInv`. `NoTrustBypass`
and `SingleFlight` are not inductive as they stand. The first needs
`CredsOwned`: each stored credential, and each on its way to a caller, was
issued to the identity its key or caller stands for. This is where
`KeyInjective` enters, and only there. The second needs `ClaimKept`: the claim
of an undisturbed renewal is still on its entry, and no older than the
renewal, so the next caller is served instead. `ServedFloor` is about the
current step alone. `Refinement` maps `vault` to the credentials in the map
and on their way, and shows that each step of the cache is a step of
`CredentialService` or a stutter: `Tick` is `Age`, `Mint` is `Mint`, and all
others drop credentials or answer with one of them.

`GatewayProofs`. The inductive invariant is `PipelineInv`. Its parts say of each
slot what the code relies on and never checks again: a request past resolution
was authorized for its own action, bucket and key (`Cleared`); its body is
buffered exactly when the classifier says so, until the one step that takes it
(`BodyKept`); no answer with bytes reaches the recorder without a quota check or
a refusal (`Charged`); an empty slot holds nothing (`Vacant`). The types are
inductive only together with these: an answer has a type because the request
behind it has one. An action changes one slot, so a frame lemma (`OneSlot`)
leaves only that slot to restore, and most actions end in one of five ways, each
a lemma (`LeaveSafe`, `SettlingSafe`, `MoveSafe`, `SendSafe`, `AdmitReserved`).
For `Mediated` a listing needs more than `Cleared`, which is about the prefix
that was authorized: if that is also the one it is made with, and no prefix of a
scope without a slash, then each key that begins with it is within the same
prefix of the same scope (`PrefixPermits`). `Mediated`, `NoOversizedBody` and
`SentIsAttributed` are parts of `PipelineInv`; `BodyWhereExpected` follows from
`BodyKept` and `Cleared`, because `NeedsBody` implies `NeedsBufferedBody` and
`Forwards` excludes it. `QuotaOvershoot` needs `Reserved`: each request that the
check admitted and that has not settled reserves a longest body. A check admits
only when the recorded usage is within the quota, and no more requests are
admitted than there are slots; a request that settles adds at most what it had
reserved.

`ListingProofs`. `OneMapping` and `RoundTrip` are about keys alone. The first
says for which settings the mappings agree, in both directions: `Regular` is
sufficient because then neither `Path::parse` nor the slash that
`build_backend_url` always pushes changes anything, and necessary because
otherwise the two keys differ in length, or the presigned one is refused. The
second, which holds for every setting, says that `ClientKey` undoes
`BackendKey`. Both need what `trim_end_matches` returns, which rests on the
least-number principle of the library. The invariants have the parts that depend
on the mapping under the condition `Regular`, and the others without.
`ShownIsReadable` is not inductive: that a delimited listing filters out the one
marker it could show needs `Stored`, which says that under a regular setting
only markers end in a slash, that they hold no data, and that no key has an
empty segment, so that `Trimmed` and `Location` drop the same slash. `ListInv`
adds that an idle client has no pages, since the property reads the query they
answered.

The properties of the pages together have the inductive invariant `PagingInv`:
`ListInv` and five more parts. `StockInv`: the files that the clients hold are
in the backend, under their names, which is `FoundWhereWritten` by `OneMapping`.
`TokenInv`: a token is an entry of the listing and past its start, and no page
shows anything past it. `PagesInv` says of the pages what `ShownIsAsked` and
`OnceEach` say, of the keys in the backend instead of those shown; two such keys
are never shown as one, as `ReadablePage` leads back from each. `AskedInv` is
`Complete` before the end: an object that was there throughout is still to come
after the token, or it was shown, or taken for a marker. What a page does to
these is the order of keys. `Less` is taken to the first place where two keys
differ (`LessAt`), from which follow that it is a total order, that a common
prefix does not matter (`CommonPrefix`: client and backend sort alike), and that
a key outside a folder lies before or after all of the folder, so that the
rolled-up entry is passed as a whole (`RolledIsWhole`). A page is the first
entries of a finite set, so there is a last one, which is the token
(`LatestExists`); `PendingAfterToken` says that what is then still to come is
what has not been shown.

`JwksCacheProofs`. `JwksInv` bounds, for each place a key set can be at, the time
since its issuer published it: by the time of the fetch while an answer
travels, by `MaxFetch` and the age of the entry once it is stored, by `MaxStale` for
what is returned. Saturation is what makes this delicate: below the horizon
`gone` is a true distance, and `Ttl + MaxFetch <= Horizon` keeps the bounds
below it. From it follows `JwksRefinement`: every step is one of `StaleReads`
or a stutter. `BackoffEarned` needs `BeatenBy`, `FoundNone` and `Outlives`: a
fetch that was beaten lies within `MaxFetch` of the entry that beat it, so a
failure it leaves has lapsed before the entry has, by the assumption above; a
caller refused for it found no entry, so it looked before the success.

`StsExchangeProofs`. `StsInv` adds to `JwksInv` how old the role in hand is
(`RoleInHand`), the role of the session (`RoleOfSession`) and its key
(`KeyOfSession`). The last two say for the session what the first and the cache
say for the exchange at the moment of the mint; from then on the spent part of
the session is the slack. A step of `StsExchange` is a step of `JwksCache` or
leaves it alone, so `JwksInv` and `ExchangeRefinement` carry over.

`ConfigCacheProofs` does for `ConfigCache` what `JwksCacheProofs` does for the
keys. There is no negative cache, but the provider's answer is stamped with its
arrival and not with its reading, so the bound of an entry contains `MaxRead`
beside its age.

`BatchDeleteProofs`. `BatchInv` adds two parts to `ConfigInv`.
`RecentCredential` is the age of the credential of an admitted batch: at most
the staleness of the cache and the time waited. `TrueAnswer` is `ReportTrue` for
one caller. It rests on the names coming back: `Strip` undoes `Apply`, and
`Apply` gives no two keys one name, so the result of the backend can be read in
the names of the client.
`RevocationTakesHold` is a property of steps: only `Send` brings an admitted batch
to the backend, it sends what the credential in hand allows, and
`RecentCredential` bounds the age of that. That the batch uses the cache as
`ConfigCache` says is `BatchRefinement`.

`BandwidthMeterProofs`. Refusals and passes compare a sum over what is in memory
with a sum over what was recorded, so `MeterInv` compares the series age by age:
what memory, storage and `firm` hold was recorded (`Recorded`), and what `firm`
holds inside the window is also in storage, and in memory whenever that is
loaded (`KeptIn`). A sum over a longer window, or of a larger series, is larger;
these facts about the recursive `Sum` hold for every window although induction
is out of reach, by looking at the least window at which one would fail.
`AlarmWaits` says why the alarm, which drops everything, drops nothing that
counts: what `firm` holds inside the window has left it before the alarm fires.

Induction over data is replaced in this way throughout, where it is needed: the
naturals at which a statement fails, if there were any, would have a least one.
The library proves that principle, and the rest is one step.

Only model-checked: `RenewalAttempted` and `Recovery`, because liveness under
fairness is out of the prover's reach, and the properties of the violated runs.
A theorem states each other property of a passing run.

## Plan

What is left, the most consequential first:

1. `Listing`: an abstract listing that hands out each key once, which a client
   that follows the tokens should see, as a refinement; `ListRewrite`.
2. `QuotaMeter`: `Gateway`'s counter as an abstraction of `BandwidthMeter`, by
   refinement.
3. `PathMapping` as an algorithm over bounded paths: no two client paths of one
   object are judged differently.
4. The request parser: the kind of operation from method and query.

## Not modelled

Signature arithmetic, encryption, XML and URL formatting, CORS, logging, the
translation of platform requests in the runtimes, and the loading of
configuration files: pure functions or I/O without state that another request
could meet. The documentation site under `docs/.vitepress` is constant menu data
without behaviour.

- Backend credentials: cold misses are not single-flighted by design, and the
  models do not claim it.
- Listings: `ListRewrite`, URL encoding and a `max-keys` of 0 are left out, and
  so are relative segments (`.`, `..`) in a `backend_prefix`, which `Path::parse`
  refuses and a URL resolves. A query that repeats another parameter than
  `prefix` is made with its last value, as the code does, and judged by none.
- Pipeline: a request that is dropped after its backend answered leaves its
  bytes unrecorded; `Gateway` has this step, and no property forbids it.
- Key cache: the format of a key set is one value, and which of the errors of a
  fetch set the backoff is not told apart, since all do.
- Exchange: the read of the role itself takes no time, and comes from the
  provider and not from `ConfigCache`; with the server example the staleness of
  the latter adds to that of the role. The clock is assumed not to step back.
  `resolve_template` is reduced to the claims that a scope needs. It puts the
  value of a claim into the scope and scans it again, so a value that holds its
  own placeholder would not come to an end; no property speaks of it.
- Batch delete: signature and expiry of a long-lived credential are a refusal
  that may happen (`Refuse`). The backend is assumed to report on each key it
  was sent, as S3 does; `parse_backend_result` does not check it. Versions of
  objects are left out.
- OIDC discovery and the signing of assertions have no state.
