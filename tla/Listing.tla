------------------------------- MODULE Listing -------------------------------
(***************************************************************************)
(* The key space of one bucket as its clients see it: how a client's key   *)
(* becomes a key of the backend (apply_backend_prefix and build_backend_url*)
(* in crates/core/src/proxy.rs and backend/multipart.rs), and how a listing*)
(* turns the backend's keys into the client's again (handle_list in        *)
(* proxy.rs, api/list.rs).                                                 *)
(*                                                                         *)
(* One client lists the bucket page by page; between two pages, others     *)
(* write and delete.  Each page is one call of the backend, whose own      *)
(* paging is modelled from how handle_list uses it.  No key of a client has*)
(* an empty segment, since validate_key refuses it; a backend_prefix may be*)
(* any text, also an empty one, for nothing validates it.                  *)
(*                                                                         *)
(* A key is a sequence of characters, a character its code; the delimiter, *)
(* when there is one, is the slash.  An object has data or none.           *)
(***************************************************************************)
EXTENDS Naturals, FiniteSets, SequencesExt

CONSTANTS
    Slash,       \* the character "/"
    Configs,     \* settings of backend_prefix
    NoPrefix,    \* backend_prefix is not set
    Files,       \* keys that clients write
    Foreign,     \* keys of the backend that no client wrote
    Queries,     \* prefixes that a client asks for
    Starts,      \* start-after, or the first marker
    NoStart,
    Limits,      \* max-keys
    MaxWrites,   \* bound: writes to the bucket
    MaxPages,    \* bound: pages that a client asks for
    NoToken

EndsInSlash(k) == k # <<>> /\ Last(k) = Slash

\* trim_end_matches('/')
Trimmed(s) ==
    SubSeq(s, 1, CHOOSE n \in 0..Len(s) :
                    /\ n = 0 \/ s[n] # Slash
                    /\ \A i \in (n + 1)..Len(s) : s[i] = Slash)

\* A key without empty segments, but perhaps with a slash at its end.
Segmented(k) ==
    /\ k \in Seq(Nat) /\ k # <<>> /\ k[1] # Slash
    /\ \A i \in 2..Len(k) : ~(k[i - 1] = Slash /\ k[i] = Slash)

ASSUME ListingAssumption ==
    /\ Slash \in Nat
    /\ Configs \subseteq Seq(Nat) \union {NoPrefix}
    /\ \A f \in Files : Segmented(f) /\ ~EndsInSlash(f)
    /\ \A k \in Foreign : Segmented(k)
    /\ Queries \subseteq Seq(Nat)
    /\ Starts \subseteq Seq(Nat) \union {NoStart}
    /\ Limits \subseteq Nat \ {0}
    /\ MaxWrites \in Nat /\ MaxPages \in Nat
    /\ NoStart \notin Seq(Nat) /\ NoToken \notin Seq(Nat)

VARIABLES
    config,     \* backend_prefix of the bucket
    objects,    \* keys of the objects in the backend
    empties,    \* those of them that hold no data
    held,       \* history: the client keys whose object was not deleted
    steady,     \* history: those held, and not written, since the listing began
    query,      \* what the client asks for, and where its next page begins
    phase,      \* of the client: idle, listing, ended (no more pages), stuck
    pages,      \* history: the pages that the client was shown
    writes      \* bound

vars == <<config, objects, empties, held, steady, query, phase, pages, writes>>
bucket == <<objects, empties, held>>

-----------------------------------------------------------------------------
(* Keys                                                                    *)

\* The order in which a backend lists its keys.
Less(s, t) ==
    \/ IsStrictPrefix(s, t)
    \/ \E i \in 1..Len(s) :
          /\ i <= Len(t) /\ s[i] < t[i]
          /\ \A j \in 1..(i - 1) : s[j] = t[j]

\* backend_prefix without its slashes, empty when there is none
Root == IF config = NoPrefix THEN <<>> ELSE Trimmed(config)

\* strip_prefix of collect_list_entries
Base == IF Root = <<>> THEN <<>> ELSE Append(Root, Slash)

\* apply_backend_prefix and build_list_prefix
BackendKey(key) == Base \o key

\* object_store's Path has neither a slash before the key nor one after it,
Unrooted(raw) == IF raw # <<>> /\ Head(raw) = Slash THEN Tail(raw) ELSE raw
Location(raw) ==
    LET path == Unrooted(raw) IN IF EndsInSlash(path) THEN Front(path) ELSE path

\* and Path::parse refuses an empty segment.
Parses(raw) == Unrooted(raw) = <<>> \/ Segmented(Unrooted(raw))

\* build_object_path, for presigned requests
PathKey(key) == Location(BackendKey(key))

\* Mutant: the raw-signed path does not trim what the presigned path trims.
UploadKeyUntrimmed(key) ==
    IF config = NoPrefix THEN key ELSE Append(config, Slash) \o key

\* build_backend_url, for uploads in parts and destinations of copies
UploadKey(key) ==
    IF config = NoPrefix THEN key ELSE Append(Trimmed(config), Slash) \o key

\* Mutant: the prefix is stripped, the slash after it stays.
ClientKeyWithSlash(raw) ==
    IF IsPrefix(Root, raw) THEN SubSeq(raw, Len(Root) + 1, Len(raw)) ELSE raw

\* rewrite_key, for a bucket without a ListRewrite
ClientKey(raw) ==
    IF IsPrefix(Base, raw) THEN SubSeq(raw, Len(Base) + 1, Len(raw)) ELSE raw

-----------------------------------------------------------------------------
(* One page of the backend                                                 *)

Full == BackendKey(query.prefix)

\* A key with a delimiter after the prefix is shown as a common prefix.
Entry(raw) ==
    LET slashes == {i \in (Len(Full) + 1)..Len(raw) : raw[i] = Slash}
    IN  IF query.delimited /\ slashes # {} THEN SubSeq(raw, 1, Min(slashes)) ELSE raw

IsRolled(e) == query.delimited /\ Len(e) > Len(Full) /\ EndsInSlash(e)

\* start-after, and the marker of the page before it in a V1 listing.
After == IF query.v2 \/ query.token = NoToken THEN query.start ELSE query.token

\* Mutant: start-after and marker go to the backend as the client gave them.
OffsetUnmapped == After

\* The offset that handle_list sends along.
Offset == IF After = NoStart THEN NoStart ELSE BackendKey(After)

\* What comes after the place where the page before it ended.
IsPending(raw) ==
    /\ IsPrefix(Full, raw)
    /\ IF query.v2 /\ query.token # NoToken
       THEN Less(query.token, raw) /\ ~(IsRolled(query.token) /\ IsPrefix(query.token, raw))
       ELSE Offset = NoStart \/ Less(Offset, raw)

First(entries, n) ==
    {e \in entries : Cardinality({f \in entries : Less(f, e)}) < n}

Latest(entries) == CHOOSE e \in entries : \A f \in entries : f = e \/ Less(f, e)

Pending == {Entry(raw) : raw \in {o \in objects : IsPending(o)}}

-----------------------------------------------------------------------------
(* What handle_list makes of a batch of entries                            *)

\* Mutant: NextMarker is taken from what is left after the markers are gone.
KeyedWithData(batch) == {e \in batch : ~IsRolled(e) /\ e \notin empties}

\* The objects and the common_prefixes of a ListResult.
Keyed(batch) == {e \in batch : ~IsRolled(e)}

Rolled(batch) == {e \in batch : IsRolled(e)}

\* is_directory_marker
IsDirectoryMarker(e, folders) ==
    e \in empties /\ Location(e) \in folders \union {Root, Trimmed(Full)}

\* collect_list_entries: each entry with the key of the backend behind it.
Page(batch) ==
    LET folders == {Location(f) : f \in Rolled(batch)}
    IN  [contents |-> {[raw |-> e, key |-> ClientKey(Location(e))] :
                          e \in {f \in Keyed(batch) : ~IsDirectoryMarker(f, folders)}},
         prefixes |-> {[raw |-> e, key |-> ClientKey(Append(Location(e), Slash))] :
                          e \in Rolled(batch)}]

\* NextMarker: where the last object is, in the backend.
NextMarker(batch) == Location(Latest(Keyed(batch)))

\* Mutant: the token is the last object of the page, as NextMarker is.
NextTokenOfObjects(batch) ==
    IF Keyed(batch) = {} THEN query.token ELSE Latest(Keyed(batch))

\* Mutant: the token is rewritten as the keys are.
NextTokenStripped(batch) == ClientKey(Latest(batch))

\* NextContinuationToken: the backend's token, passed through.
NextToken(batch) == Latest(batch)

-----------------------------------------------------------------------------

NoQuery == [v2 |-> TRUE, prefix |-> <<>>, delimited |-> FALSE, start |-> NoStart,
            limit |-> 1, token |-> NoToken]

\* The bucket holds some files that its clients put there and some other keys;
\* a key that ends in a slash is the marker of a folder and holds no data.
Init ==
    /\ config \in Configs
    /\ held \in SUBSET {f \in Files : Parses(BackendKey(f))} /\ IsFiniteSet(held)
    /\ \E others \in SUBSET Foreign :
          /\ IsFiniteSet(others)
          /\ objects = {PathKey(f) : f \in held} \union others
    /\ \E files \in SUBSET {PathKey(f) : f \in held} :
          empties = files \union {o \in objects : EndsInSlash(o)}
    /\ steady = {}
    /\ query = NoQuery
    /\ phase = "idle"
    /\ pages = <<>>
    /\ writes = 0

Write(raw, f, data) ==
    /\ phase = "listing" /\ writes < MaxWrites
    /\ writes' = writes + 1
    /\ objects' = objects \union {raw}
    /\ empties' = IF data THEN empties \ {raw} ELSE empties \union {raw}
    /\ held' = held \union {f}
    /\ steady' = steady \ {f}
    /\ UNCHANGED <<config, query, phase, pages>>

\* PutObject, by a presigned URL
Put(f, data) == Parses(BackendKey(f)) /\ Write(PathKey(f), f, data)

\* CompleteMultipartUpload, CopyObject or an aws-chunked PutObject
Upload(f, data) == Write(UploadKey(f), f, data)

Erase(raw, f) ==
    /\ f \in held
    /\ phase = "listing" /\ writes < MaxWrites
    /\ writes' = writes + 1
    /\ objects' = objects \ {raw}
    /\ empties' = empties \ {raw}
    /\ held' = held \ {f}
    /\ steady' = steady \ {f}
    /\ UNCHANGED <<config, query, phase, pages>>

\* DeleteObject, by a presigned URL
Delete(f) == Parses(BackendKey(f)) /\ Erase(PathKey(f), f)

\* DeleteObjects, with the key in the body
DeleteBatch(f) == Erase(BackendKey(f), f)

\* A client begins to list.
StartListing(q) ==
    /\ phase = "idle"
    /\ phase' = "listing"
    /\ query' = q
    /\ steady' = held
    /\ UNCHANGED <<config, bucket, pages, writes>>

\* The client that reads an answer continues with the token (V2) or the
\* marker (V1), as long as the page says IsTruncated.
Continue(batch, truncated) ==
    \/ ~truncated /\ phase' = "ended" /\ UNCHANGED query
    \/ /\ truncated /\ query.v2
       /\ query' = [query EXCEPT !.token = NextToken(batch)]
       /\ UNCHANGED phase
    \/ /\ truncated /\ ~query.v2 /\ Keyed(batch) # {}
       /\ query' = [query EXCEPT !.token = NextMarker(batch)]
       /\ UNCHANGED phase
    \/ /\ truncated /\ ~query.v2 /\ Keyed(batch) = {}
       /\ phase' = "stuck" /\ UNCHANGED query

\* handle_list; a page with a key that object_store cannot parse is an error,
\* and the client learns nothing from it.
List ==
    /\ phase = "listing"
    /\ Len(pages) < MaxPages
    /\ LET pending == Pending
           batch == First(pending, query.limit)
       IN  /\ \A e \in batch : Parses(e)
           /\ pages' = Append(pages, Page(batch))
           /\ Continue(batch, batch # pending)
    /\ UNCHANGED <<config, bucket, steady, writes>>

\* The client is done with its listing, or gives it up.
Leave ==
    /\ phase # "idle"
    /\ phase' = "idle"
    /\ pages' = <<>>
    /\ query' = NoQuery
    /\ steady' = {}
    /\ UNCHANGED <<config, bucket, writes>>

Request ==
    [v2 : BOOLEAN, prefix : Queries, delimited : BOOLEAN, start : Starts,
     limit : Limits, token : {NoToken}]

Next ==
    \/ \E f \in Files, data \in BOOLEAN : Put(f, data) \/ Upload(f, data)
    \/ \E f \in Files : Delete(f) \/ DeleteBatch(f)
    \/ \E q \in Request : StartListing(q)
    \/ List
    \/ Leave

Spec == Init /\ [][Next]_vars

-----------------------------------------------------------------------------
(* Properties                                                              *)

\* Types; a token or a marker comes with a page, and only a V1 listing with a
\* delimiter can be left without one.
TypeOK ==
    /\ config \in Configs
    /\ \A o \in objects : o \in Seq(Nat) /\ o # <<>>
    /\ empties \subseteq objects
    /\ held \subseteq Files /\ steady \subseteq held
    /\ query.v2 \in BOOLEAN /\ query.delimited \in BOOLEAN
    /\ query.prefix \in Seq(Nat)
    /\ query.start \in Seq(Nat) \union {NoStart}
    /\ query.token # NoToken => pages # <<>> /\ query.token \in Seq(Nat)
    /\ phase \in {"idle", "listing", "ended", "stuck"}
    /\ phase = "stuck" => ~query.v2 /\ query.delimited
    /\ Len(pages) <= MaxPages
    /\ writes \in 0..MaxWrites

AllContents == UNION {pages[i].contents : i \in DOMAIN pages}
AllPrefixes == UNION {pages[i].prefixes : i \in DOMAIN pages}

\* Under these settings of backend_prefix, and no other, an upload and a
\* presigned request for one key address one object (ListingProofs, OneMapping):
\* not when it is empty or only slashes, nor when it begins with a slash or has
\* an empty segment, though every setting is accepted.
Regular == config = NoPrefix \/ Segmented(Root)

\* By whatever path an object was written, and whatever was written, deleted
\* or listed since, the presigned requests for its key find it.
FoundWhereWritten ==
    Regular => \A f \in held : PathKey(f) \in objects

\* What a client lists it can also read: the key shown for an object leads
\* back to that object through the mapping that every other operation uses.
\* Only the marker of a folder is shown under a key of no object, and only
\* in a listing without a delimiter.
ShownIsReadable ==
    Regular =>
        /\ \A c \in AllContents :
              \/ PathKey(c.key) = c.raw
              \/ EndsInSlash(c.raw) /\ ~query.delimited
        /\ \A c \in AllPrefixes : BackendKey(c.key) = c.raw

\* A listing shows nothing outside the prefix that was asked for, and nothing
\* up to start-after, in the client's own order of its keys.
ShownIsAsked ==
    \A c \in AllContents : Regular /\ ~EndsInSlash(c.raw) =>
        /\ IsPrefix(query.prefix, c.key)
        /\ (query.v2 /\ query.start # NoStart) => Less(query.start, c.key)

\* Whatever is written between two pages, a client that follows the tokens is
\* shown no object and no common prefix twice.
OnceEach ==
    query.v2 =>
        \A i, j \in DOMAIN pages : i # j =>
            /\ pages[i].contents \intersect pages[j].contents = {}
            /\ pages[i].prefixes \intersect pages[j].prefixes = {}

\* The client keys that the listing was asked for.
Asked ==
    {f \in steady : /\ IsPrefix(query.prefix, f)
                    /\ query.start = NoStart \/ Less(query.start, f)}

IsShown(f) ==
    \/ \E c \in AllContents : c.key = f
    \/ \E c \in AllPrefixes : IsPrefix(c.key, f)

\* An object without data whose key is also that of a folder shown, or is the
\* prefix itself, is taken for a directory marker.
TakenForMarker(f) ==
    /\ PathKey(f) \in empties
    /\ \/ \E c \in AllPrefixes : c.key = Append(f, Slash)
       \/ f = Trimmed(query.prefix)

\* A client that follows the tokens to the end has been shown every object
\* that was there all along, by either path that writes objects.
Complete ==
    Regular /\ query.v2 /\ phase = "ended" =>
        \A f \in Asked : IsShown(f) \/ TakenForMarker(f)

\* Each page of a V2 listing that is not its last one moves the token forward
\* in the order of the keys, also when every entry of the page was filtered
\* out: a client that follows the tokens comes to an end.
TokenAdvances ==
    [][query.v2 /\ pages' # pages /\ phase' = "listing" =>
          query.token = NoToken \/ Less(query.token, query'.token)]_vars

\* The documentation offers markers (V1) for paging as it offers tokens (V2):
\* a client that follows them to the end would then be shown everything.
MarkersComplete ==
    Regular /\ ~query.v2 /\ phase = "ended" =>
        \A f \in Asked : IsShown(f) \/ TakenForMarker(f)
==============================================================================
