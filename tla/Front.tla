------------------------------- MODULE Front -------------------------------
(***************************************************************************)
(* What stands before the handlers: the middleware that decides who asks,  *)
(* and the router that decides which handler is asked, and about what.     *)
(*                                                                         *)
(* Repository names contain slashes, so the router looks for words such as *)
(* "manifests" in the path, and a name may contain those words as well.    *)
(*                                                                         *)
(* A path is the sequence of what stands between its slashes, without the  *)
(* leading one: "/v2/" is <<"v2", "">>.  Requests share nothing but the    *)
(* configuration, which never changes.                                     *)
(***************************************************************************)
EXTENDS Naturals, Sequences, Tables

CONSTANTS
    Slot,           \* slots for requests
    Segment,        \* what stands between two slashes
    RepoSegment,    \* those a repository name may contain
    LeadingSegment, \* those it may begin with
    LongName,       \* names of more than 256 characters
    TagName,        \* those that are tags
    Digest,         \* those that are digests
    UploadId,       \* those that are ids of upload sessions
    User,           \* "username:password"
    Key,            \* secrets that tokens are signed with
    NoSecret,       \* no secret is configured
    Tenant,
    DefaultTenant,
    NoClaim,        \* a token without a tenant, or with an empty one
    Path,           \* bound: the paths of requests
    Header,         \* bound: their Authorization headers
    Configuration   \* bound: the configurations of the server

ASSUME SegmentAssumption ==
    /\ LeadingSegment \subseteq RepoSegment
    /\ RepoSegment \cup TagName \cup Digest \cup UploadId \subseteq Segment \ {""}

\* A digest has a colon, which neither names nor tags nor the router's words
\* have.
ASSUME DigestAssumption ==
    Digest \cap (RepoSegment \cup TagName \cup {"uploads"}) = {}

ASSUME TenantAssumption == DefaultTenant \in Tenant

ASSUME PathAssumption == Path \subseteq Seq(Segment) \ {<<>>}

\* A header that is absent, unreadable or of another scheme is "none".  A
\* token that is no JWT is one that no configured secret has signed.  A token
\* is expired when the JWT library says so: 60 seconds after its time, and
\* never if it names none.
ASSUME HeaderAssumption ==
    Header \subseteq
        [scheme : {"none"}]
        \cup [scheme : {"Basic"}, user : User]
        \cup [scheme : {"Bearer"}, key : Key, expired : BOOLEAN,
              claim : Tenant \cup {NoClaim}]

ASSUME ConfigurationAssumption ==
    Configuration \subseteq
        [enabled : BOOLEAN, anonymous_pull : BOOLEAN,
         jwt_secret : Key \cup {NoSecret}, basic_credentials : SUBSET User]

VARIABLES
    config,     \* AuthConfig
    req         \* slot -> the request in it and what became of it

vars == <<config, req>>

Method == {"GET", "HEAD", "POST", "PUT", "PATCH", "DELETE"}

-----------------------------------------------------------------------------
(* Names, references and operations *)

RepoName ==
    {n \in Seq(RepoSegment) \ LongName : n # <<>> /\ n[1] \in LeadingSegment}

\* How a URL below /v2/ names what it is about, in the order of the checks:
\* after the repository's name come the words, and after them a reference
\* unless the URL ends there.
Pattern == <<
    [kind |-> "manifest",  words |-> <<"manifests">>,            ends |-> FALSE],
    [kind |-> "upload",    words |-> <<"blobs", "uploads">>,     ends |-> FALSE],
    [kind |-> "uploads",   words |-> <<"blobs", "uploads", "">>, ends |-> TRUE],
    [kind |-> "uploads",   words |-> <<"blobs", "uploads">>,     ends |-> TRUE],
    [kind |-> "blob",      words |-> <<"blobs">>,                ends |-> FALSE],
    [kind |-> "tags",      words |-> <<"tags", "list">>,         ends |-> TRUE],
    [kind |-> "referrers", words |-> <<"referrers">>,            ends |-> FALSE]>>

\* The handlers of each kind.
Operation == [
    manifest  |-> [GET |-> "get_manifest", HEAD |-> "head_manifest",
                   PUT |-> "put_manifest", DELETE |-> "delete_manifest"],
    upload    |-> [GET |-> "get_upload", PATCH |-> "patch_upload",
                   PUT |-> "complete_upload", DELETE |-> "cancel_upload"],
    uploads   |-> [POST |-> "start_upload"],
    blob      |-> [GET |-> "get_blob", HEAD |-> "head_blob",
                   DELETE |-> "delete_blob"],
    tags      |-> [GET |-> "list_tags"],
    referrers |-> [GET |-> "get_referrers"]]

\* The routes that name no repository.
Fixed == {
    [path |-> <<"v2", "">>,            by |-> [GET  |-> "version_check",
                                               HEAD |-> "version_check"]],
    [path |-> <<"v2", "_catalog">>,    by |-> [GET  |-> "list_repositories"]],
    [path |-> <<"api", "v1", "info">>, by |-> [GET  |-> "get_info",
                                               HEAD |-> "get_info"]],
    [path |-> <<"api", "v1", "gc">>,   by |-> [POST |-> "start_gc"]]}
    \cup {[path |-> <<"api", "v1", "gc", job>>, by |-> [GET  |-> "get_gc_job",
                                                        HEAD |-> "get_gc_job"]] :
              job \in Segment \ {""}}

Health == {<<"healthz">>, <<"readyz">>}

\* Handlers that change nothing but the pull count of a tag.
Reading == {"version_check", "get_manifest", "head_manifest", "get_blob",
            "head_blob", "get_upload", "list_tags", "get_referrers",
            "list_repositories"}

Handlers == Reading \cup {"put_manifest", "delete_manifest", "patch_upload",
                          "complete_upload", "cancel_upload", "start_upload",
                          "delete_blob", "get_info", "start_gc", "get_gc_job"}

\* Replies given without a handler.
Refusal == {"401", "404", "405", "NAME_INVALID", "MANIFEST_UNKNOWN",
            "BLOB_UPLOAD_UNKNOWN", "DIGEST_INVALID", "UNSUPPORTED"}

\* Whether the segments a, what follows the words, are a reference of kind k.
ValidReference(k, a) ==
    CASE k = "manifest"            -> Len(a) = 1 /\ a[1] \in Digest \cup TagName
      [] k = "upload"              -> Len(a) = 1 /\ a[1] \in UploadId
      [] k \in {"blob", "referrers"} -> Len(a) = 1 /\ a[1] \in Digest
      [] OTHER                     -> a = <<>>

InvalidReference(k) ==
    CASE k = "manifest" -> "MANIFEST_UNKNOWN"
      [] k = "upload"   -> "BLOB_UPLOAD_UNKNOWN"
      [] OTHER          -> "DIGEST_INVALID"

-----------------------------------------------------------------------------
(* Splitting a path *)

\* Where the words w stand in p with a slash on either side.
Places(p, w) ==
    {i \in 2..(Len(p) - Len(w)) : SubSeq(p, i, i + Len(w) - 1) = w}

Cut(p, i, w) == <<SubSeq(p, 1, i - 1), SubSeq(p, i + Len(w), Len(p))>>

\* A faulty split: the first place of the words, and only the last segment after
\* them.
SplitFirst(p, w) ==
    {<<SubSeq(p, 1, i - 1), <<p[Len(p)]>>>> :
        i \in {k \in Places(p, w) : \A j \in Places(p, w) : k <= j}}

\* split_last_segment: the last place decides, even if nothing stands before
\* or after it there.
SplitLast(p, w) ==
    {c \in {Cut(p, i, w) :
                i \in {k \in Places(p, w) : \A j \in Places(p, w) : j <= k}} :
        c[1] # <<"">> /\ c[2] # <<"">>}

StripSuffix(p, w) ==
    {<<SubSeq(p, 1, Len(p) - Len(w)), <<>>>> :
        i \in {k \in {Len(p) - Len(w)} :
                   k > 0 /\ SubSeq(p, k + 1, Len(p)) = w}}

\* What the pattern x finds in p: at most one pair of a name and a reference.
Found(p, x) ==
    IF x.ends THEN StripSuffix(p, x.words) ELSE SplitLast(p, x.words)

\* A faulty order: whatever finds anything may decide.
FindsAnything(k, p) == Found(p, Pattern[k]) # {}

\* The pattern that decides: the first that finds anything.
IsDeciding(k, p) ==
    /\ Found(p, Pattern[k]) # {}
    /\ \A j \in 1..(k - 1) : Found(p, Pattern[j]) = {}

-----------------------------------------------------------------------------
(* Who asks *)

Info(t, a) == [tenant |-> t, authenticated |-> a]

Anonymous == Info(DefaultTenant, FALSE)

ParseTenant(claim) == IF claim = NoClaim THEN DefaultTenant ELSE claim

\* Faulty: without a secret any token is accepted, and its tenant believed.
BearerTrusting(h) ==
    IF config.jwt_secret = NoSecret \/ (h.key = config.jwt_secret /\ ~h.expired)
    THEN Info(ParseTenant(h.claim), TRUE)
    ELSE Anonymous

\* Faulty: the claim is the tenant as it stands.
BearerUnparsed(h) ==
    IF config.jwt_secret = NoSecret
    THEN Info(DefaultTenant, TRUE)
    ELSE IF h.key = config.jwt_secret /\ ~h.expired
         THEN Info(h.claim, TRUE)
         ELSE Anonymous

\* Without a secret any token is accepted, for the default tenant.
ValidateBearer(h) ==
    IF config.jwt_secret = NoSecret
    THEN Info(DefaultTenant, TRUE)
    ELSE IF h.key = config.jwt_secret /\ ~h.expired
         THEN Info(ParseTenant(h.claim), TRUE)
         ELSE Anonymous

ValidateBasic(h) ==
    IF config.basic_credentials = {} \/ h.user \in config.basic_credentials
    THEN Info(DefaultTenant, TRUE)
    ELSE Anonymous

AuthInfo(h) ==
    CASE h.scheme = "Bearer" -> ValidateBearer(h)
      [] h.scheme = "Basic"  -> ValidateBasic(h)
      [] OTHER               -> Anonymous

DataPlane(p) == Len(p) > 1 /\ p[1] = "v2"

\* Faulty: the methods decide, on whatever path.
PassesByMethod(m, p, info) ==
    \/ ~config.enabled
    \/ info.authenticated
    \/ config.anonymous_pull /\ m \in {"GET", "HEAD"}

\* Whether the middleware lets a request pass.
Passes(m, p, info) ==
    \/ ~config.enabled
    \/ info.authenticated
    \/ config.anonymous_pull /\ m \in {"GET", "HEAD"} /\ DataPlane(p)

-----------------------------------------------------------------------------
(* Requests *)

RequestState ==
    [pc : {"route", "done"}, method : Method, path : Path, header : Header,
     digest : BOOLEAN,              \* whether the query has a valid digest
     info : [tenant : Tenant, authenticated : BOOLEAN],
     op : Handlers \cup Refusal \cup {"none", "health"},
     name : Seq(Segment), ref : Seq(Segment)]

At(r, p) == r \in DOMAIN req /\ req[r].pc = p

Arrived(m, p, d, h, i) ==
    [pc |-> "route", method |-> m, path |-> p, header |-> h, digest |-> d,
     info |-> i, op |-> "none", name |-> <<>>, ref |-> <<>>]

Done(q, o, n, a) ==
    [q EXCEPT !.pc = "done", !.op = o, !.name = n, !.ref = a]

Answer(r, o, n, a) == req' = With(req, r, Done(req[r], o, n, a))

Refuse(r, code) == Answer(r, code, <<>>, <<>>)

\* The routes of the health checks are outside the middleware; readyz may say
\* that the database does not answer.
CheckHealth(r, m, p, d, h) ==
    /\ r \notin DOMAIN req
    /\ p \in Health
    /\ \E o \in IF m \in {"GET", "HEAD"} THEN {"health"} ELSE {"405"} :
          req' = With(req, r, Done(Arrived(m, p, d, h, Anonymous), o, <<>>, <<>>))
    /\ UNCHANGED config

\* auth_middleware.
Authenticate(r, m, p, d, h) ==
    /\ r \notin DOMAIN req
    /\ p \notin Health
    /\ LET q == Arrived(m, p, d, h, AuthInfo(h)) IN
       req' = With(req, r, IF Passes(m, p, AuthInfo(h))
                           THEN q ELSE Done(q, "401", <<>>, <<>>))
    /\ UNCHANGED config

\* A URL with the repository n and the reference a.
RouteNamed(r, k, n, a) ==
    LET by == Operation[k]
        m  == req[r].method
    IN  IF n \notin RepoName THEN Refuse(r, "NAME_INVALID")
        ELSE IF ~ValidReference(k, a) THEN Refuse(r, InvalidReference(k))
        ELSE IF m \notin DOMAIN by THEN Refuse(r, "405")
        ELSE IF by[m] = "delete_manifest" /\ a[1] \notin Digest
             THEN Refuse(r, "UNSUPPORTED")
        ELSE IF by[m] = "complete_upload" /\ ~req[r].digest
             THEN Refuse(r, "DIGEST_INVALID")
        ELSE Answer(r, by[m], n, a)

DispatchNamed(r) ==
    /\ At(r, "route")
    /\ DataPlane(req[r].path)
    /\ LET rest == Tail(req[r].path) IN
       \E k \in DOMAIN Pattern :
          /\ IsDeciding(k, rest)
          /\ \E c \in Found(rest, Pattern[k]) :
                RouteNamed(r, Pattern[k].kind, c[1], c[2])
    /\ UNCHANGED config

DispatchFixed(r) ==
    /\ At(r, "route")
    /\ \E f \in Fixed :
          /\ f.path = req[r].path
          /\ IF req[r].method \in DOMAIN f.by
             THEN Answer(r, f.by[req[r].method], <<>>, <<>>)
             ELSE Refuse(r, "405")
    /\ UNCHANGED config

DispatchUnknown(r) ==
    /\ At(r, "route")
    /\ \A f \in Fixed : f.path # req[r].path
    /\ DataPlane(req[r].path) =>
          \A k \in DOMAIN Pattern : Found(Tail(req[r].path), Pattern[k]) = {}
    /\ Refuse(r, "404")
    /\ UNCHANGED config

\* The reply, of the handler or not, is sent.
Reply(r) ==
    /\ At(r, "done")
    /\ req' = Without(req, r)
    /\ UNCHANGED config

-----------------------------------------------------------------------------
Init ==
    /\ config \in Configuration
    /\ req = Empty

\* The guard is here too, so that TLC does not enumerate requests in vain.
Receive(r) ==
    /\ r \notin DOMAIN req
    /\ \E m \in Method, p \in Path, d \in BOOLEAN, h \in Header :
          Authenticate(r, m, p, d, h) \/ CheckHealth(r, m, p, d, h)

Next ==
    \E r \in Slot :
        \/ Receive(r)
        \/ DispatchNamed(r) \/ DispatchFixed(r) \/ DispatchUnknown(r)
        \/ Reply(r)

Spec == Init /\ [][Next]_vars

-----------------------------------------------------------------------------
(* Properties *)

\* Every variable has its type.
TypeOK ==
    /\ config \in Configuration
    /\ IsTable(req, Slot, RequestState)

\* The pattern k with the first i segments of rest as the name, and as the
\* reference what is left after the words.
Parts(rest, k, i) ==
    <<k, SubSeq(rest, 1, i),
      SubSeq(rest, i + Len(Pattern[k].words) + 1, Len(rest))>>

\* rest is the URL of a valid name and a valid reference, those of u.
IsReading(rest, u) ==
    /\ rest = u[2] \o Pattern[u[1]].words \o u[3]
    /\ u[2] \in RepoName
    /\ ValidReference(Pattern[u[1]].kind, u[3])

\* The ways to read rest as such a URL.
Readings(rest) ==
    {u \in {Parts(rest, k, i) : k \in DOMAIN Pattern, i \in 1..Len(rest)} :
        IsReading(rest, u)}

\* A request with the URL of an object is handed to a handler for that object
\* or refused: never to one for another object, repository or kind, however
\* many of the router's words are part of the repository's name.
RoutedOrRefused ==
    \A r \in DOMAIN req :
        At(r, "done") /\ DataPlane(req[r].path) =>
            \A u \in Readings(Tail(req[r].path)) :
                \/ req[r].op \in Refusal
                \/ /\ \E m \in DOMAIN Operation[Pattern[u[1]].kind] :
                         req[r].op = Operation[Pattern[u[1]].kind][m]
                   /\ req[r].name = u[2]
                   /\ req[r].ref = u[3]

\* No segment but the first is one of the words that decide before the others.
IsPlain(n) == \A i \in 2..Len(n) : n[i] \notin {"manifests", "blobs"}

\* A request that is let pass reaches its handler if it is about a manifest or
\* if its repository has a plain name: no such name is out of reach.
PlainNamesRouted ==
    \A r \in DOMAIN req :
        At(r, "done") /\ req[r].op # "401" /\ DataPlane(req[r].path) =>
            \A u \in Readings(Tail(req[r].path)) :
                LET k == Pattern[u[1]].kind
                    m == req[r].method
                IN  /\ k = "manifest" \/ IsPlain(u[2])
                    /\ m \in DOMAIN Operation[k]
                    /\ Operation[k][m] = "delete_manifest" => u[3][1] \in Digest
                    /\ Operation[k][m] = "complete_upload" => req[r].digest
                    => req[r].op = Operation[k][m]

\* With authentication enabled, an anonymous request never reaches a handler
\* that writes, nor one outside /v2/, although the middleware looks at methods
\* and prefixes and the router at paths.
AnonymousOnlyReads ==
    \A r \in DOMAIN req :
        /\ config.enabled
        /\ ~req[r].info.authenticated
        /\ req[r].op \in Handlers
        => config.anonymous_pull /\ req[r].op \in Reading

\* A request acts for a tenant other than the default one only if it brings a
\* token for that tenant which the configured secret has signed and which the
\* JWT library does not call expired.
TenantNeedsToken ==
    \A r \in DOMAIN req :
        req[r].info.tenant # DefaultTenant =>
            /\ req[r].header.scheme = "Bearer"
            /\ req[r].header.key = config.jwt_secret
            /\ ~req[r].header.expired
            /\ req[r].header.claim = req[r].info.tenant
=============================================================================
