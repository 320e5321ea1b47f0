----------------------------- MODULE Manifests -----------------------------
(***************************************************************************)
(* Manifests, tags and referrers: PUT, GET and DELETE of                   *)
(* /v2/<name>/manifests/<reference>.                                       *)
(*                                                                         *)
(* The bytes of a manifest are a file named by their digest; what a        *)
(* repository knows of it are rows of manifests, tags and referrers, which *)
(* put_manifest and delete_manifest change in one transaction each.  The   *)
(* transactions begin with a write, so SQLite runs them one after the      *)
(* other; the checks before, the file and the statements of a GET are      *)
(* steps of their own.  A manifest stands for its bytes and for its        *)
(* digest.                                                                 *)
(***************************************************************************)
EXTENDS Naturals, Sequences, FiniteSets, Tables

CONSTANTS
    Request,    \* slots for requests in flight
    Repo,       \* repository ids
    Blob,       \* digests of blobs
    Manifest,   \* the manifests clients push
    Tag,        \* tag names
    None,       \* no tag, or no subject
    Kind,       \* manifest -> "image" or "index", what its bytes parse as
    Refs,       \* manifest -> digests it names: config and layers, or manifests
    Subject,    \* manifest -> the manifest its "subject" names, or None
    MaxPulls,   \* bound: pulls counted for a tag
    Faults      \* the faults of this instance, among "drop" and "crash"

ASSUME KindAssumption == Kind \in [Manifest -> {"image", "index"}]
ASSUME RefsAssumption ==
    \A m \in Manifest :
        Refs[m] \in Seq(IF Kind[m] = "image" THEN Blob ELSE Manifest)
ASSUME SubjectAssumption == Subject \in [Manifest -> Manifest \cup {None}]
ASSUME NoneAssumption == None \notin Manifest \cup Tag
ASSUME BoundAssumption == MaxPulls \in Nat

VARIABLES
    stored,     \* manifests whose bytes are on disk
    rows,       \* <<repo, manifest>> -> media type, the rows of manifests
    tags,       \* <<repo, tag>> -> the manifest it points to and its pull_count
    referrers,  \* <<repo, subject, manifest>>, the rows of referrers
    links,      \* <<repo, blob>>, the rows of repo_blob_links
    req,        \* slot -> state of the request in flight in it
    removed     \* history: <<repo, blob or manifest>> once deleted

db   == <<rows, tags, referrers>>
vars == <<stored, db, links, req, removed>>

\* The media types put_manifest tells apart; "other" is every other one.
Type == {"image", "index", "other"}

TagRow == [digest : Manifest, pulls : Nat]

RequestState == [pc   : {"check", "write", "commit",
                         "resolve", "row", "bytes", "count"},
                 repo : Repo,
                 tag  : Tag \cup {None},            \* None: by digest
                 m    : Manifest \cup {None},
                 type : Type,
                 todo : Seq(Blob \cup Manifest)]    \* references to look up

-----------------------------------------------------------------------------
(* Steps of a request *)

At(r, p) == r \in DOMAIN req /\ req[r].pc = p

Goto(r, p) == req' = [req EXCEPT ![r].pc = p]

End(r) == req' = Without(req, r)

Begin(r, pc, p, t, m, type, todo) ==
    /\ r \notin DOMAIN req
    /\ req' = With(req, r, [pc |-> pc, repo |-> p, tag |-> t, m |-> m,
                            type |-> type, todo |-> todo])

HasRow(p, m) == <<p, m>> \in DOMAIN rows

\* Config and layers must be linked, the manifests of an index known, in the
\* repository pushed to.
Present(type, p, x) ==
    IF type = "image" THEN <<p, x>> \in links ELSE HasRow(p, x)

\* The rows of the repository's tags on manifest m.
TagsOn(p, m) == {k \in DOMAIN tags : k[1] = p /\ tags[k].digest = m}

PullsOf(k) == IF k \in DOMAIN tags THEN tags[k].pulls ELSE 0

-----------------------------------------------------------------------------
(* Steps as a faulty implementation would take them.  They are no part of   *)
(* the system: each shows that a property of this module can fail.          *)

\* Only the first reference is looked up.
CheckConfigOnly(r) ==
    /\ At(r, "check")
    /\ req[r].todo # <<>>
    /\ IF Present(req[r].type, req[r].repo, Head(req[r].todo))
       THEN req' = [req EXCEPT ![r].todo = <<>>]
       ELSE End(r)
    /\ UNCHANGED <<stored, db, links, removed>>

\* The rows are committed before the bytes are written.
WriteManifestLater(r) ==
    /\ At(r, "check")
    /\ req[r].todo = <<>>
    /\ Goto(r, "commit")
    /\ UNCHANGED <<stored, db, links, removed>>

\* A push by digest writes a tag row as well.
CommitTaggingDigest(r) ==
    /\ At(r, "commit")
    /\ LET p == req[r].repo  m == req[r].m  t == req[r].tag IN
       /\ rows' = With(rows, <<p, m>>, req[r].type)
       /\ tags' = With(tags, <<p, t>>, [digest |-> m, pulls |-> PullsOf(<<p, t>>)])
       /\ referrers' = referrers \cup
                       {<<p, s, m>> : s \in {Subject[m]} \ {None}}
    /\ End(r)
    /\ UNCHANGED <<stored, links, removed>>

\* The upsert of a tag resets its pull count.
CommitResettingPulls(r) ==
    /\ At(r, "commit")
    /\ LET p == req[r].repo  m == req[r].m  t == req[r].tag IN
       /\ rows' = With(rows, <<p, m>>, req[r].type)
       /\ tags' = IF t = None THEN tags
                  ELSE With(tags, <<p, t>>, [digest |-> m, pulls |-> 0])
       /\ referrers' = referrers \cup
                       {<<p, s, m>> : s \in {Subject[m]} \ {None}}
    /\ End(r)
    /\ UNCHANGED <<stored, links, removed>>

\* Tags go on pointing to a deleted manifest.
DeleteKeepingTags(p, m) ==
    /\ HasRow(p, m)
    /\ rows' = Without(rows, <<p, m>>)
    /\ referrers' = {x \in referrers : ~(x[1] = p /\ x[3] = m)}
    /\ removed' = removed \cup {<<p, m>>}
    /\ UNCHANGED <<stored, tags, links, req>>

\* The rows that name the manifest as their subject are deleted.
DeleteReferrersOf(p, m) ==
    /\ HasRow(p, m)
    /\ rows' = Without(rows, <<p, m>>)
    /\ tags' = [k \in DOMAIN tags \ TagsOn(p, m) |-> tags[k]]
    /\ referrers' = {x \in referrers : ~(x[1] = p /\ x[2] = m)}
    /\ removed' = removed \cup {<<p, m>>}
    /\ UNCHANGED <<stored, links, req>>

\* The tag is taken for the digest it points to.
ResolveTagUnchecked(r) ==
    /\ At(r, "resolve")
    /\ Goto(r, "row")
    /\ UNCHANGED <<stored, db, links, removed>>

-----------------------------------------------------------------------------
(* PUT: put_manifest *)

\* By tag, or by the digest of the body.  Bytes that do not parse as the
\* declared type are refused; other types are not parsed.
PutManifest(r, p, t, m, type) ==
    /\ type \in {Kind[m], "other"}
    /\ Begin(r, "check", p, t, m, type, IF type = "other" THEN <<>> ELSE Refs[m])
    /\ UNCHANGED <<stored, db, links, removed>>

\* validate_manifest_references, one query for each.
CheckReference(r) ==
    /\ At(r, "check")
    /\ req[r].todo # <<>>
    /\ IF Present(req[r].type, req[r].repo, Head(req[r].todo))
       THEN req' = [req EXCEPT ![r].todo = Tail(@)]
       ELSE End(r)
    /\ UNCHANGED <<stored, db, links, removed>>

References(r) ==
    /\ At(r, "check")
    /\ req[r].todo = <<>>
    /\ Goto(r, "write")
    /\ UNCHANGED <<stored, db, links, removed>>

\* atomic_write: a file that is there already is kept.
WriteManifest(r) ==
    /\ At(r, "write")
    /\ stored' = stored \cup {req[r].m}
    /\ Goto(r, "commit")
    /\ UNCHANGED <<db, links, removed>>

\* One transaction.  The upsert of a tag keeps its pull_count.
CommitManifest(r) ==
    /\ At(r, "commit")
    /\ LET p == req[r].repo  m == req[r].m  t == req[r].tag IN
       /\ rows' = With(rows, <<p, m>>, req[r].type)
       /\ tags' = IF t = None THEN tags
                  ELSE With(tags, <<p, t>>, [digest |-> m, pulls |-> PullsOf(<<p, t>>)])
       /\ referrers' = referrers \cup
                       {<<p, s, m>> : s \in {Subject[m]} \ {None}}
    /\ End(r)
    /\ UNCHANGED <<stored, links, removed>>

-----------------------------------------------------------------------------
(* GET and HEAD: get_manifest, head_manifest (its first two steps) *)

GetByTag(r, p, t) ==
    /\ Begin(r, "resolve", p, t, None, "other", <<>>)
    /\ UNCHANGED <<stored, db, links, removed>>

GetByDigest(r, p, m) ==
    /\ Begin(r, "row", p, None, m, "other", <<>>)
    /\ UNCHANGED <<stored, db, links, removed>>

ResolveTag(r) ==
    /\ At(r, "resolve")
    /\ LET k == <<req[r].repo, req[r].tag>> IN
       IF k \in DOMAIN tags
       THEN req' = [req EXCEPT ![r].pc = "row", ![r].m = tags[k].digest]
       ELSE End(r)
    /\ UNCHANGED <<stored, db, links, removed>>

FindRow(r) ==
    /\ At(r, "row")
    /\ IF HasRow(req[r].repo, req[r].m) THEN Goto(r, "bytes") ELSE End(r)
    /\ UNCHANGED <<stored, db, links, removed>>

ReadBytes(r) ==
    /\ At(r, "bytes")
    /\ IF req[r].m \in stored THEN Goto(r, "count") ELSE End(r)
    /\ UNCHANGED <<stored, db, links, removed>>

\* One update of every tag of the repository on the digest served.
CountPull(r) ==
    /\ At(r, "count")
    /\ \A k \in DOMAIN tags : tags[k].pulls < MaxPulls
    /\ tags' = [k \in DOMAIN tags |->
                  IF k \in TagsOn(req[r].repo, req[r].m)
                  THEN [tags[k] EXCEPT !.pulls = @ + 1] ELSE tags[k]]
    /\ End(r)
    /\ UNCHANGED <<stored, rows, referrers, links, removed>>

-----------------------------------------------------------------------------
(* DELETE: delete_manifest.  Without a row the transaction is rolled back. *)

DeleteManifest(p, m) ==
    /\ HasRow(p, m)
    /\ rows' = Without(rows, <<p, m>>)
    /\ tags' = [k \in DOMAIN tags \ TagsOn(p, m) |-> tags[k]]
    /\ referrers' = {x \in referrers : ~(x[1] = p /\ x[3] = m)}
    /\ removed' = removed \cup {<<p, m>>}
    /\ UNCHANGED <<stored, links, req>>

-----------------------------------------------------------------------------
(* The rest of the registry, and faults *)

\* A blob is pushed, uploaded or mounted.
LinkBlob(p, b) ==
    /\ links' = links \cup {<<p, b>>}
    /\ UNCHANGED <<stored, db, req, removed>>

UnlinkBlob(p, b) ==
    /\ <<p, b>> \in links
    /\ links' = links \ {<<p, b>>}
    /\ removed' = removed \cup {<<p, b>>}
    /\ UNCHANGED <<stored, db, req>>

\* The handler is dropped or fails; an open transaction is rolled back.
DropRequest(r) ==
    /\ "drop" \in Faults
    /\ r \in DOMAIN req
    /\ End(r)
    /\ UNCHANGED <<stored, db, links, removed>>

Crash ==
    /\ "crash" \in Faults
    /\ req' = Empty
    /\ UNCHANGED <<stored, db, links, removed>>

-----------------------------------------------------------------------------
Init ==
    /\ stored = {}
    /\ rows = Empty
    /\ tags = Empty
    /\ referrers = {}
    /\ links = {}
    /\ req = Empty
    /\ removed = {}

Arrive(r) ==
    \E p \in Repo :
        \/ \E t \in Tag \cup {None}, m \in Manifest, type \in Type :
              PutManifest(r, p, t, m, type)
        \/ \E t \in Tag : GetByTag(r, p, t)
        \/ \E m \in Manifest : GetByDigest(r, p, m)

Handle(r) ==
    \/ CheckReference(r) \/ References(r) \/ WriteManifest(r)
    \/ CommitManifest(r)
    \/ ResolveTag(r) \/ FindRow(r) \/ ReadBytes(r) \/ CountPull(r)

Next ==
    \/ \E r \in Request : Arrive(r) \/ Handle(r) \/ DropRequest(r)
    \/ \E p \in Repo :
          \/ \E m \in Manifest : DeleteManifest(p, m)
          \/ \E b \in Blob : LinkBlob(p, b) \/ UnlinkBlob(p, b)
    \/ Crash

Spec == Init /\ [][Next]_vars

-----------------------------------------------------------------------------
(* Properties *)

\* Every variable has its type.
TypeOK ==
    /\ stored \in SUBSET Manifest
    /\ IsTable(rows, Repo \X Manifest, Type)
    /\ IsTable(tags, Repo \X Tag, TagRow)
    /\ referrers \in SUBSET (Repo \X Manifest \X Manifest)
    /\ links \in SUBSET (Repo \X Blob)
    /\ IsTable(req, Request, RequestState)
    /\ removed \in SUBSET (Repo \X (Blob \cup Manifest))

\* A tag always leads to a manifest its repository has a row of, whatever
\* pushes, moves and deletes of the manifest came before.
TagsResolve == \A k \in DOMAIN tags : HasRow(k[1], tags[k].digest)

\* No row of a manifest without its bytes: a crash or an error between the two
\* leaves bytes without a row, never the reverse.
RowsStored == \A k \in DOMAIN rows : k[2] \in stored

\* The referrers of a subject are exactly the manifests of the repository that
\* name it, pushed before it, after it or without it, and not deleted since.
ReferrersExact ==
    referrers = {<<k[1], Subject[k[2]], k[2]>> :
                    k \in {k \in DOMAIN rows : Subject[k[2]] # None}}

\* An image or index row names nothing its repository never had: what is
\* missing was deleted.  Bytes pushed under another type escape the check, and
\* pushing them again under their own does not.
ReferencesPresent ==
    \A k \in DOMAIN rows :
        rows[k] = Kind[k[2]] =>
            \A i \in DOMAIN Refs[k[2]] :
                \/ Present(rows[k], k[1], Refs[k[2]][i])
                \/ <<k[1], Refs[k[2]][i]>> \in removed

\* A GET that resolved a tag finds row and bytes, unless the manifest was
\* deleted: a tag that moves meanwhile does not make it fail.
ResolvedIsServed ==
    \A r \in DOMAIN req :
        /\ req[r].pc = "row" /\ req[r].tag # None =>
              \/ HasRow(req[r].repo, req[r].m)
              \/ <<req[r].repo, req[r].m>> \in removed
        /\ req[r].pc = "bytes" => req[r].m \in stored

\* The pull count of a tag never goes down while there is the tag, although
\* pushes overwrite its row.  Not every pull is counted: the tags counted are
\* those on the digest once it is served, and the tag asked for may have moved.
PullsKept ==
    [][\A k \in DOMAIN tags \cap DOMAIN tags' : tags'[k].pulls >= tags[k].pulls]_vars
=============================================================================
