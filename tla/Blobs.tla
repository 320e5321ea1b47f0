------------------------------- MODULE Blobs -------------------------------
(***************************************************************************)
(* Blobs pushed in one request (POST .../blobs/uploads/?digest=), moved    *)
(* into place by the PUT that ends a resumable upload, mounted from        *)
(* another repository, read whole or in part, and unlinked.                *)
(*                                                                         *)
(* put_blob fills a private file under tmp/ and renames it to the path of  *)
(* the digest the client named; monolithic_upload hashes what that path    *)
(* holds afterwards and removes the path when the hash differs.  The path  *)
(* is shared by all requests that name the digest, and nothing excludes    *)
(* them from each other: every file system call and every statement is a   *)
(* step.  A file under blobs/ is never written in place, so an open handle *)
(* keeps the content it had when it was opened.                            *)
(*                                                                         *)
(* UploadSessions models resumable uploads up to the rename.  Here such a  *)
(* request begins with its file verified, and the file is not written any  *)
(* more: the server is done with the other requests of the session.        *)
(***************************************************************************)
EXTENDS Naturals, FiniteSets, Tables

CONSTANTS
    Request,    \* slots for requests in flight
    Repo,       \* repository ids
    Content,    \* what request bodies and blob files may hold
    NoContent,  \* the body of a request that sends none
    NoEnd,      \* the end of a byte range that has none
    Size,       \* content -> its length
    Algorithm,  \* digest algorithms clients name: "sha256", "sha512" or both
    Overlap,    \* which requests that send a body for one digest may overlap:
                \* "free": all; "honest": those whose body is the content the
                \* digest names
    ByteRange,  \* the <<first, last>> byte positions that Range headers name
    Faults      \* the faults of this instance, among "drop" and "crash"

ASSUME AlgorithmAssumption == Algorithm \subseteq {"sha256", "sha512"}
ASSUME SizeAssumption == Size \in [Content -> Nat]
ASSUME NoContentAssumption == NoContent \notin Content
ASSUME NoEndAssumption == NoEnd \notin Nat
ASSUME ByteRangeAssumption == ByteRange \subseteq Nat \X (Nat \cup {NoEnd})
ASSUME OverlapAssumption == Overlap \in {"free", "honest"}

VARIABLES
    blobs,      \* digest -> content of the file at its path
    links,      \* <<repo, digest>> -> size, the rows of repo_blob_links
    req,        \* slot -> state of the request in flight in it
    suspect,    \* history: digests for which a wrong body was ever sent
    mixed       \* history: digests for which a body came while another request
                \* was sending one, this body or an earlier one being wrong

vars == <<blobs, links, req, suspect, mixed>>

\* compute_digest hashes with SHA-256 whatever algorithm the client named.
DigestOf(c) == <<"sha256", c>>

Digest == Algorithm \X Content

\* The body a client sends under digest d is the content d names.
Honest(c, d) == c = d[2]

Pc == {"source", "probe", "tmp", "reprobe", "rename", "reader",
       "verify", "discard", "move", "stat", "link",
       "again", "open", "send", "refuse"}

RequestState == [pc     : Pc,
                 repo   : Repo,
                 from   : Repo,                       \* source of a mount
                 digest : Digest,
                 body   : Content \cup {NoContent},
                 seen   : Content \cup {NoContent},   \* file the handle names
                 first  : Nat,                        \* the bytes a GET asks for
                 last   : Nat \cup {NoEnd},
                 size   : Nat]    \* of the row to write or the reply to send

-----------------------------------------------------------------------------
(* Steps of a request *)

At(r, p) == r \in DOMAIN req /\ req[r].pc = p

Goto(r, p) == req' = [req EXCEPT ![r].pc = p]

End(r) == req' = Without(req, r)

Stored(r) == req[r].digest \in DOMAIN blobs

Linked(p, d) == <<p, d>> \in DOMAIN links

Begin(r, p, f, d, c, pc) ==
    /\ r \notin DOMAIN req
    /\ req' = With(req, r, [pc |-> pc, repo |-> p, from |-> f, digest |-> d,
                            body |-> c, seen |-> NoContent,
                            first |-> 0, last |-> NoEnd, size |-> 0])

BeginGet(r, p, d, pc, m, l, n) ==
    /\ r \notin DOMAIN req
    /\ req' = With(req, r, [pc |-> pc, repo |-> p, from |-> p, digest |-> d,
                            body |-> NoContent, seen |-> NoContent,
                            first |-> m, last |-> l, size |-> n])

\* A body c under digest d arrives next to the others in flight.
Admissible(c, d) ==
    \/ Overlap = "free"
    \/ \A s \in DOMAIN req :
          req[s].digest = d /\ req[s].body # NoContent
          => Honest(c, d) /\ Honest(req[s].body, d)

Suspected(c, d) == IF Honest(c, d) THEN suspect ELSE suspect \cup {d}

Mixed(c, d) ==
    IF /\ d \in Suspected(c, d)
       /\ \E s \in DOMAIN req : req[s].digest = d /\ req[s].body # NoContent
    THEN mixed \cup {d}
    ELSE mixed

-----------------------------------------------------------------------------
(* Byte ranges: get_blob *)

\* The last byte of m-l, or of m-, in a blob of n > 0 bytes.
LastOf(l, n) == IF l = NoEnd \/ l > n - 1 THEN n - 1 ELSE l

\* The range m-l of n bytes is answered with 416.
Unsatisfiable(m, l, n) == n = 0 \/ m >= n \/ m > LastOf(l, n)

LengthOf(m, l, n) == LastOf(l, n) - m + 1

-----------------------------------------------------------------------------
(* Steps as a faulty implementation would take them.  They are no part of   *)
(* the system: each shows that a property of this module can fail.          *)

\* The content is linked before it is compared with the digest.
VerifyLater(r) ==
    /\ At(r, "verify")
    /\ Goto(r, "stat")
    /\ UNCHANGED <<blobs, links, suspect, mixed>>

\* A body that ends early is stored as far as it came.
RenameTmpTruncated(r) ==
    /\ At(r, "rename")
    /\ \E c \in Content :
          /\ Size[c] <= Size[req[r].body]
          /\ blobs' = With(blobs, req[r].digest, c)
    /\ Goto(r, "reader")
    /\ UNCHANGED <<links, suspect, mixed>>

\* A mounted blob gets the row's default size.
ReadSourceWithoutSize(r) ==
    /\ At(r, "source")
    /\ IF Linked(req[r].from, req[r].digest)
       THEN Goto(r, "link")
       ELSE IF req[r].body = NoContent THEN End(r)
       ELSE req' = [req EXCEPT ![r].pc = "probe", ![r].from = req[r].repo]
    /\ UNCHANGED <<blobs, links, suspect, mixed>>

\* The delete names the digest only, not the repository.
DeleteBlobEverywhere(p, d) ==
    /\ Linked(p, d)
    /\ links' = [k \in {i \in DOMAIN links : i[2] # d} |-> links[k]]
    /\ UNCHANGED <<blobs, req, suspect, mixed>>

\* The range is answered without a comparison of its end with the blob's.
GetRangeUnclipped(r, p, d, m, l) ==
    /\ Linked(p, d)
    /\ LET n == links[<<p, d>>] IN
       IF n = 0 \/ m >= n \/ (l # NoEnd /\ m > l)
       THEN BeginGet(r, p, d, "refuse", m, l, n)
       ELSE BeginGet(r, p, d, "again", m, l,
                     IF l = NoEnd THEN n - m ELSE l - m + 1)
    /\ UNCHANGED <<blobs, links, suspect, mixed>>

\* A mount that fails goes on as an upload although it brought no body.
ReadSourceFallThrough(r) ==
    /\ At(r, "source")
    /\ IF Linked(req[r].from, req[r].digest)
       THEN req' = [req EXCEPT ![r].pc = "link",
                               ![r].size = links[<<req[r].from, req[r].digest>>]]
       ELSE req' = [req EXCEPT ![r].pc = "probe", ![r].from = req[r].repo]
    /\ UNCHANGED <<blobs, links, suspect, mixed>>

-----------------------------------------------------------------------------
(* POST with ?digest=: monolithic_upload *)

PostBlob(r, p, d, c) ==
    /\ Admissible(c, d)
    /\ Begin(r, p, p, d, c, "probe")
    /\ suspect' = Suspected(c, d)
    /\ mixed' = Mixed(c, d)
    /\ UNCHANGED <<blobs, links>>

\* put_blob: a blob that is there already is not written again.
ProbeBlob(r) ==
    /\ At(r, "probe")
    /\ IF Stored(r) THEN Goto(r, "reader") ELSE Goto(r, "tmp")
    /\ UNCHANGED <<blobs, links, suspect, mixed>>

\* A file under tmp/ is created, the whole body copied to it and synced.
WriteTmp(r) ==
    /\ At(r, "tmp")
    /\ Goto(r, "reprobe")
    /\ UNCHANGED <<blobs, links, suspect, mixed>>

\* The second look: the file is dropped if another request stored the blob.
ReprobeBlob(r) ==
    /\ At(r, "reprobe")
    /\ IF Stored(r) THEN Goto(r, "reader") ELSE Goto(r, "rename")
    /\ UNCHANGED <<blobs, links, suspect, mixed>>

RenameTmp(r) ==
    /\ At(r, "rename")
    /\ blobs' = With(blobs, req[r].digest, req[r].body)
    /\ Goto(r, "reader")
    /\ UNCHANGED <<links, suspect, mixed>>

\* The blob is opened by its path, whoever put it there.
OpenStored(r) ==
    /\ At(r, "reader")
    /\ IF Stored(r)
       THEN req' = [req EXCEPT ![r].pc = "verify",
                               ![r].seen = blobs[req[r].digest]]
       ELSE End(r)
    /\ UNCHANGED <<blobs, links, suspect, mixed>>

Verify(r) ==
    /\ At(r, "verify")
    /\ Goto(r, IF DigestOf(req[r].seen) = req[r].digest THEN "stat" ELSE "discard")
    /\ UNCHANGED <<blobs, links, suspect, mixed>>

\* The path is removed; an error of the removal is ignored.  DIGEST_INVALID.
Discard(r) ==
    /\ At(r, "discard")
    /\ blobs' = Without(blobs, req[r].digest)
    /\ End(r)
    /\ UNCHANGED <<links, suspect, mixed>>

StatStored(r) ==
    /\ At(r, "stat")
    /\ IF Stored(r)
       THEN req' = [req EXCEPT ![r].pc = "link",
                               ![r].size = Size[blobs[req[r].digest]]]
       ELSE End(r)
    /\ UNCHANGED <<blobs, links, suspect, mixed>>

\* Upsert of the row, by monolithic_upload and by mount_blob.
InsertLink(r) ==
    /\ At(r, "link")
    /\ links' = With(links, <<req[r].repo, req[r].digest>>, req[r].size)
    /\ End(r)
    /\ UNCHANGED <<blobs, suspect, mixed>>

-----------------------------------------------------------------------------
(* PUT of a resumable upload: complete_upload from the rename on *)

\* The upload file has just been hashed: it is what the digest names.
FinishUpload(r, p, c) ==
    /\ Admissible(c, DigestOf(c))
    /\ DigestOf(c) \in Digest
    /\ Begin(r, p, p, DigestOf(c), c, "move")
    /\ mixed' = Mixed(c, DigestOf(c))
    /\ UNCHANGED <<blobs, links, suspect>>

\* storage.complete_upload renames over whatever is there.  StatStored and
\* InsertLink follow, the latter in a transaction with the session's delete.
MoveUpload(r) ==
    /\ At(r, "move")
    /\ blobs' = With(blobs, req[r].digest, req[r].body)
    /\ Goto(r, "stat")
    /\ UNCHANGED <<links, suspect, mixed>>

-----------------------------------------------------------------------------
(* POST with ?mount= and ?from=: mount_blob *)

\* With a digest (here the one to be mounted) and a body to fall back on, or
\* without.
MountBlob(r, p, f, d, c) ==
    /\ c # NoContent => Admissible(c, d)
    /\ Begin(r, p, f, d, c, "source")
    /\ suspect' = IF c = NoContent THEN suspect ELSE Suspected(c, d)
    /\ mixed' = IF c = NoContent THEN mixed ELSE Mixed(c, d)
    /\ UNCHANGED <<blobs, links>>

\* No link in the source repository: the request goes on as an upload, which
\* without a digest starts a session and is over for this module.  The source
\* is not looked at again.
ReadSource(r) ==
    /\ At(r, "source")
    /\ IF Linked(req[r].from, req[r].digest)
       THEN req' = [req EXCEPT ![r].pc = "link",
                               ![r].size = links[<<req[r].from, req[r].digest>>]]
       ELSE IF req[r].body = NoContent THEN End(r)
       ELSE req' = [req EXCEPT ![r].pc = "probe", ![r].from = req[r].repo]
    /\ UNCHANGED <<blobs, links, suspect, mixed>>

-----------------------------------------------------------------------------
(* GET and DELETE of a blob *)

\* The row gives the length of the reply.
GetBlob(r, p, d) ==
    /\ Linked(p, d)
    /\ BeginGet(r, p, d, "open", 0, NoEnd, links[<<p, d>>])
    /\ UNCHANGED <<blobs, links, suspect, mixed>>

\* With a Range header the row gives the size the range is compared with; 416
\* replies name that size.  The registry looks again for the row before it
\* opens the file (get_blob_range).
GetRange(r, p, d, m, l) ==
    /\ Linked(p, d)
    /\ LET n == links[<<p, d>>] IN
       IF Unsatisfiable(m, l, n)
       THEN BeginGet(r, p, d, "refuse", m, l, n)
       ELSE BeginGet(r, p, d, "again", m, l, LengthOf(m, l, n))
    /\ UNCHANGED <<blobs, links, suspect, mixed>>

RefuseRange(r) ==
    /\ At(r, "refuse")
    /\ End(r)
    /\ UNCHANGED <<blobs, links, suspect, mixed>>

RequireLink(r) ==
    /\ At(r, "again")
    /\ IF Linked(req[r].repo, req[r].digest) THEN Goto(r, "open") ELSE End(r)
    /\ UNCHANGED <<blobs, links, suspect, mixed>>

OpenBlob(r) ==
    /\ At(r, "open")
    /\ IF Stored(r)
       THEN req' = [req EXCEPT ![r].pc = "send",
                               ![r].seen = blobs[req[r].digest]]
       ELSE End(r)
    /\ UNCHANGED <<blobs, links, suspect, mixed>>

SendBlob(r) ==
    /\ At(r, "send")
    /\ End(r)
    /\ UNCHANGED <<blobs, links, suspect, mixed>>

\* delete_blob removes the row only; the file stays.
DeleteBlob(p, d) ==
    /\ Linked(p, d)
    /\ links' = Without(links, <<p, d>>)
    /\ UNCHANGED <<blobs, req, suspect, mixed>>

-----------------------------------------------------------------------------
(* Requests that do not reach their end *)

\* The handler is dropped or returns early with an error.  What it did stays,
\* a blob renamed into place and not yet verified included.
DropRequest(r) ==
    /\ "drop" \in Faults
    /\ r \in DOMAIN req
    /\ End(r)
    /\ UNCHANGED <<blobs, links, suspect, mixed>>

\* startup_cleanup removes the files under tmp/; nothing under blobs/.
Crash ==
    /\ "crash" \in Faults
    /\ req' = Empty
    /\ UNCHANGED <<blobs, links, suspect, mixed>>

-----------------------------------------------------------------------------
Init ==
    /\ blobs = Empty
    /\ links = Empty
    /\ req = Empty
    /\ suspect = {}
    /\ mixed = {}

\* A request comes into a free slot.
Arrive(r) ==
    /\ r \notin DOMAIN req
    /\ \E p \in Repo :
        \/ \E c \in Content : FinishUpload(r, p, c)
        \/ \E d \in Digest :
              \/ \E c \in Content : PostBlob(r, p, d, c)
              \/ \E f \in Repo, c \in Content \cup {NoContent} :
                    MountBlob(r, p, f, d, c)
              \/ GetBlob(r, p, d)
              \/ \E b \in ByteRange : GetRange(r, p, d, b[1], b[2])

Handle(r) ==
    \/ ProbeBlob(r) \/ WriteTmp(r) \/ ReprobeBlob(r)
    \/ RenameTmp(r) \/ OpenStored(r) \/ Verify(r) \/ Discard(r)
    \/ MoveUpload(r) \/ StatStored(r) \/ InsertLink(r) \/ ReadSource(r)
    \/ RequireLink(r) \/ OpenBlob(r) \/ SendBlob(r) \/ RefuseRange(r)

Next ==
    \/ \E r \in Request : Arrive(r) \/ Handle(r) \/ DropRequest(r)
    \/ \E p \in Repo, d \in Digest : DeleteBlob(p, d)
    \/ Crash

Spec == Init /\ [][Next]_vars

-----------------------------------------------------------------------------
(* Properties *)

\* Every variable has its type.
TypeOK ==
    /\ IsTable(blobs, Digest, Content)
    /\ IsTable(links, Repo \X Digest, Nat)
    /\ IsTable(req, Request, RequestState)
    /\ suspect \in SUBSET Digest
    /\ mixed \in SUBSET Digest

\* The blob of link k is stored, has its digest and the size of the link.
Intact(k) ==
    /\ k[2] \in DOMAIN blobs
    /\ DigestOf(blobs[k[2]]) = k[2]
    /\ links[k] = Size[blobs[k[2]]]

\* What monolithic_upload verified, and what mount_blob copies a row of, stays
\* true, of every digest but the mixed ones: a wrong body that was sent with
\* nobody else sending one, and what it left behind if it was cut off, does
\* no harm to the links there are or to those that come later.
LinkedBlobIntact == \A k \in DOMAIN links : k[2] \notin mixed => Intact(k)

\* Whatever was verified ("Verify content integrity.") stays true of every
\* digest.
LinkedBlobAlwaysIntact == \A k \in DOMAIN links : Intact(k)

\* What a GET sends comes from a file with the digest asked for, and is as
\* long as its Content-Length header announced from a row read some steps
\* before: nothing of it lies beyond the end of the file.  Mixed digests are
\* excepted.
ServedBlobIntact ==
    \A r \in DOMAIN req :
        req[r].pc = "send" /\ req[r].digest \notin mixed =>
            /\ DigestOf(req[r].seen) = req[r].digest
            /\ req[r].first + req[r].size <= Size[req[r].seen]

\* The bytes of m-l, or of m-, that content c has.
BytesOf(c, m, l) ==
    {i \in 0..(Size[c] - 1) : i >= m /\ (l # NoEnd => i <= l)}

\* A GET sends the bytes of the blob its client asked for, all of them and no
\* others, whether the range ends before, at or beyond the blob's end; it is
\* refused only if there are none.  Mixed digests are excepted.
RangeExact ==
    \A r \in {s \in DOMAIN req : req[s].digest \notin mixed} :
        LET q == req[r] IN
        /\ q.pc = "send" =>
              q.first..(q.first + q.size - 1) = BytesOf(q.seen, q.first, q.last)
        /\ q.pc = "refuse" => BytesOf(q.digest[2], q.first, q.last) = {}

\* Clients that send the content they name, at the same time or not, cut off
\* or not, never get in each other's way: unless somebody sent a wrong body
\* under the digest, what a SHA-256 request finds at the path is its body.
HonestBodiesAgree ==
    \A r \in DOMAIN req :
        /\ req[r].pc \in {"verify", "discard"}
        /\ req[r].digest[1] = "sha256"
        /\ req[r].digest \notin suspect
        => req[r].pc = "verify" /\ req[r].seen = req[r].body

\* What a client sees of the blobs of a repository: those linked, with the
\* content that is read under their digest.  Of a mixed digest it shows only
\* that it is linked, as if its file were the right one.
Visible ==
    [k \in DOMAIN links |->
        IF k[2] \in mixed THEN k[2][2]
        ELSE IF k[2] \in DOMAIN blobs THEN blobs[k[2]]
        ELSE NoContent]

LinkTable == INSTANCE LinkTable WITH table <- Visible

\* Pushes, mounts, uploads and unlinks act as if each changed the table of
\* linked blobs in one step, and no other step of any request shows in it.
ImplementsLinkTable == LinkTable!Spec
=============================================================================
