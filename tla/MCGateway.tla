------------------------------ MODULE MCGateway ------------------------------
(* Callers, buckets and requests on which Gateway is model-checked.        *)
EXTENDS Gateway, TLC

CONSTANTS reader, writer, anon, open, deep, away, far, ghost, s1, s2

MCPrincipals == {reader, writer}
MCBuckets == {open, deep, away, far, ghost}
\* The key `d/x` is within the prefix `d`; `d-` only begins with it.
a == <<1, 0, 2>>
b == <<1, 3>>
MCKeys == {a, b}

pre == <<1>>
dir == <<1, 0>>
all == <<>>
MCKeyPrefixes == {pre, dir, all, b}

\* The reader reads everything in `deep`, versions in `open`, and deletes one
\* half of `deep`; the writer writes the other way round.
MCScopes == [p \in MCPrincipals |->
    IF p = reader
    THEN {[bucket |-> deep, actions |-> Reads \union {"ListBucket"}, prefixes |-> {}],
          [bucket |-> open, actions |-> {"GetObjectVersion"}, prefixes |-> {pre}],
          [bucket |-> deep, actions |-> {"DeleteObject"}, prefixes |-> {pre}]}
    ELSE {[bucket |-> deep, actions |-> Actions \ Reads, prefixes |-> {pre}],
          [bucket |-> open, actions |-> {"PutObject", "GetObject"}, prefixes |-> {all}],
          [bucket |-> away, actions |-> Actions, prefixes |-> {}],
          [bucket |-> far, actions |-> Actions, prefixes |-> {}]}]

MCRegistered == {open, deep, away, far}
MCAnonymousRead == {open}
MCS3Backed == {open, deep, far}
MCStore == [x \in MCBuckets |-> IF x = far THEN "there" ELSE "here"]

Plain(kind, bucket, key) ==
    [kind |-> kind, bucket |-> bucket, key |-> key, asked |-> <<>>, batch |-> {},
     source |-> NoSource]

List(bucket, asked) == [Plain("ListBucket", bucket, NoKey) EXCEPT !.asked = asked]

\* Queries with one prefix.
MCAsked == {<<p>> : p \in MCKeyPrefixes}

\* Every kind of operation, on every bucket and key it can name.
MCOperations ==
    {Plain(k, x, y) : k \in {"GetObject", "DeleteObject"}, x \in MCBuckets, y \in MCKeys}
    \union {Plain(k, x, y) :
               k \in Multipart \union {"HeadObject", "PutObject", "UploadPart"},
               x \in MCBuckets, y \in MCKeys \union {NoKey}}
    \union {List(x, ps) : x \in MCBuckets,
               ps \in MCAsked \union {<<>>, <<dir, b>>, <<b, dir>>, <<dir, dir>>}}
    \union {Plain("ListBuckets", NoBucket, NoKey), Plain("Unparsable", NoBucket, NoKey)}
    \union {[Plain("DeleteObjects", x, NoKey) EXCEPT !.batch = ks] :
               x \in MCBuckets, ks \in SUBSET MCKeys \ {{}}}
    \union {[Plain("CopyObject", x, b) EXCEPT !.source =
                [bucket |-> y, key |-> k, versioned |-> v]] :
               x \in {open, deep, away, far}, y \in MCBuckets, k \in MCKeys, v \in BOOLEAN}

\* Bodies: none declared, one that fits, one too large; plain or aws-chunked.
MCArrivals ==
    [op : MCOperations, who : MCPrincipals \union {anon},
     declared : {NoLength, 0, 2}, framing : {"plain", "unsigned", "signed"}]

\* Listings by the writer, whose prefix in `deep` is `d`.
ListArrivals ==
    [op : {List(deep, ps) : ps \in MCAsked \union {<<>>}}, who : {writer},
     declared : {NoLength}, framing : {"plain"}]

NoQuota == [x \in MCBuckets |-> Unlimited]

\* Few requests, all of them on one bucket with a quota.
QuotaArrivals ==
    {[op |-> Plain(k, deep, a), who |-> writer, declared |-> n, framing |-> "plain"] :
       k \in {"PutObject", "DeleteObject"}, n \in {NoLength, 1}}

QuotaScopes == [p \in {writer} |-> {[bucket |-> deep, actions |-> Actions, prefixes |-> {}]}]
QuotaOfTwo == [x \in {deep} |-> 2]
OneStore == [x \in {deep} |-> "here"]

Symmetry == Permutations({s1, s2})
==============================================================================
