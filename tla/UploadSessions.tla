--------------------------- MODULE UploadSessions ---------------------------
(***************************************************************************)
(* Resumable blob uploads: the handlers POST, PATCH, PUT and DELETE of     *)
(* /v2/<name>/blobs/uploads/, the sweep of expired sessions by a garbage   *)
(* collection run, and the clean-up at start.                              *)
(*                                                                         *)
(* A session is a row of upload_sessions and a file uploads/<id>; neither  *)
(* a transaction nor a lock covers both.  Every handler runs as a task of  *)
(* its own and may be suspended at every await, so each database statement *)
(* and each file system call is one step here.                             *)
(*                                                                         *)
(* A file handle keeps naming its file after a rename or an unlink.  An    *)
(* upload file is created once, under a fresh UUID, so the upload id also  *)
(* names the file (the inode) wherever its path has gone: data[u] is what  *)
(* the inode holds, `uploads' the ids that still have a path under         *)
(* uploads/, and blobs[d] the inode the path of blob d names.              *)
(***************************************************************************)
EXTENDS Naturals, Sequences, FiniteSets, Tables

CONSTANTS
    Request,    \* slots for requests in flight
    Upload,     \* the UUIDs that POST may draw
    Repo,       \* repository ids
    Block,      \* what one write of a request body puts into a file
    Zero,       \* the block a file shows where nothing was written
    Algorithm,  \* digest algorithms clients name: "sha256", "sha512" or both
    MaxBlocks,  \* bound: blocks in an upload file
    NoDigest,   \* the digest of a request that carries none
    Serial,     \* TRUE: a request of a session is sent only when the server
                \* is done with the session's previous one, the write that a
                \* dropped one may have left queued included
    Faults      \* the faults of this instance: "drop" (a request ends half-way),
                \* "fs" (a file is not removed and nobody is told), "gc" (a
                \* collection fails), "push" (a monolithic push removes a
                \* path) and "crash"

ASSUME AlgorithmAssumption == Algorithm \subseteq {"sha256", "sha512"}
ASSUME BoundAssumption == MaxBlocks \in Nat
ASSUME ZeroAssumption == Zero \in Block
ASSUME SerialAssumption == Serial \in BOOLEAN

VARIABLES
    data,       \* upload id -> content of the file created for it
    uploads,    \* ids that have a path uploads/<id>
    blobs,      \* digest -> the file its path blobs/<digest> names
    sessions,   \* upload id -> row of upload_sessions
    links,      \* <<repo, digest>> -> size, the rows of repo_blob_links
    req,        \* slot -> state of the request in flight in it
    job,        \* is a row of gc_jobs active: "idle" (no), "running" (a task
                \* works on it) or "lost" (there is no task any more)
    gcList,     \* sessions the running collection has listed, not yet removed
    gcFile,     \* the one it is done with but for the row
    startup,    \* TRUE while startup_cleanup runs
    listed,     \* the upload files startup_cleanup listed, not yet looked at
    torn,       \* history: ids whose file was left without a row since the
                \* last start began, by a request dropped between the two or
                \* by a removal that failed
    cut         \* history: ids whose row was left without a file, by a PUT
                \* or a collection that ended between the two

files == <<data, uploads, blobs>>
db    == <<sessions, links>>
gc    == <<job, gcList, gcFile>>
boot  == <<startup, listed>>
vars  == <<files, db, req, gc, boot, torn, cut>>

-----------------------------------------------------------------------------
(* Contents and digests *)

Content == UNION {[1..n -> Block] : n \in 0..MaxBlocks}

\* compute_digest hashes with SHA-256 whatever algorithm the client named.
\* The hash is taken to be free of collisions.
DigestOf(c) == <<"sha256", c>>

\* What a client may name.
Digest == Algorithm \X Content

\* The content c after block b is written at position i (counted from 0).
WriteAt(c, i, b) ==
    IF i < Len(c)
    THEN [c EXCEPT ![i + 1] = b]
    ELSE [k \in 1..(i + 1) |->
            IF k = i + 1 THEN b ELSE IF k <= Len(c) THEN c[k] ELSE Zero]

Session == [repo : Repo, offset : Nat, expired : BOOLEAN]

\* What a request does next.
Pc == {"create", "insert", "check", "open", "write", "late", "update",
       "require", "reader", "hash", "rename", "stat", "commit", "row", "abort"}

RequestState == [pc     : Pc,
                 id     : Upload,
                 repo   : Repo,
                 digest : Digest \cup {NoDigest},
                 pos    : Nat,          \* offset, then size of the blob
                 seen   : Seq(Block)]   \* what compute_digest has read

-----------------------------------------------------------------------------
(* Steps of a request *)

At(r, p) == r \in DOMAIN req /\ req[r].pc = p

Goto(r, p) == req' = [req EXCEPT ![r].pc = p]

\* The handler returns, with a reply or with an error.
End(r) == req' = Without(req, r)

\* A PUT that has renamed the upload file and not yet removed the row.
Past(r) == req[r].pc \in {"stat", "commit"}

Busy(u) == \E r \in DOMAIN req : req[r].id = u

\* A request for session u of repository p arrives in the free slot r.
Begin(r, u, p, pc, d, o) ==
    /\ ~startup
    /\ r \notin DOMAIN req
    /\ req' = With(req, r, [pc |-> pc, id |-> u, repo |-> p, digest |-> d,
                            pos |-> o, seen |-> <<>>])

\* A client may name only ids the server has drawn.
BeginOn(r, u, p, pc, d, o) ==
    /\ u \in DOMAIN data
    /\ Serial => ~Busy(u)
    /\ Begin(r, u, p, pc, d, o)

\* require_upload: the row exists and belongs to the named repository.
Owned(u, p) == u \in DOMAIN sessions /\ sessions[u].repo = p

-----------------------------------------------------------------------------
(* Steps as a faulty implementation would take them.  They are no part of   *)
(* the system: each shows that a property of this module can fail.          *)

\* The offset of a chunk is taken from Content-Range without a comparison.
CheckOffsetTrusting(r) ==
    /\ At(r, "check")
    /\ IF Owned(req[r].id, req[r].repo) THEN Goto(r, "open") ELSE End(r)
    /\ UNCHANGED <<files, db, gc, boot, torn, cut>>

\* The row gets the position of the last block, as the Range header shows it.
UpdateSessionToLast(r) ==
    /\ At(r, "update")
    /\ IF req[r].id \in DOMAIN sessions
       THEN /\ sessions' = [sessions EXCEPT ![req[r].id].offset = req[r].pos - 1]
            /\ IF req[r].digest = NoDigest THEN End(r) ELSE Goto(r, "require")
       ELSE UNCHANGED sessions /\ End(r)
    /\ UNCHANGED <<files, links, gc, boot, torn, cut>>

\* The row is upserted: a session closed meanwhile comes back.
UpdateSessionUpsert(r) ==
    /\ At(r, "update")
    /\ sessions' = With(sessions, req[r].id, [repo |-> req[r].repo,
                            offset |-> req[r].pos, expired |-> FALSE])
    /\ IF req[r].digest = NoDigest THEN End(r) ELSE Goto(r, "require")
    /\ UNCHANGED <<files, links, gc, boot, torn, cut>>

\* The link is committed without the file having been moved.
CompareDigestThenLink(r) ==
    /\ At(r, "hash")
    /\ Len(req[r].seen) = Len(data[req[r].id])
    /\ IF DigestOf(req[r].seen) = req[r].digest
       THEN req' = [req EXCEPT ![r].pc = "commit", ![r].seen = <<>>]
       ELSE End(r)
    /\ UNCHANGED <<files, db, gc, boot, torn, cut>>

\* The upload is copied to the blob's path and stays where it was.
RenameToBlobCopying(r) ==
    /\ At(r, "rename")
    /\ IF req[r].id \in uploads
       THEN blobs' = With(blobs, req[r].digest, req[r].id) /\ Goto(r, "stat")
       ELSE UNCHANGED blobs /\ End(r)
    /\ UNCHANGED <<data, uploads, db, gc, boot, torn, cut>>

\* The session's offset is taken for the size of the blob.
StatBlobTrusting(r) ==
    /\ At(r, "stat")
    /\ Goto(r, "commit")
    /\ UNCHANGED <<files, db, gc, boot, torn, cut>>

\* The error of a file that is already gone is not swallowed: the collection
\* does not get to its row.
GcAbortUploadStrict(u) ==
    /\ u \in gcList \cap uploads
    /\ gcFile = {}
    /\ uploads' = uploads \ {u}
    /\ gcFile' = {u}
    /\ UNCHANGED <<data, blobs, db, req, job, gcList, boot, torn, cut>>

\* DELETE removes the file first and the row after it.
DeleteSessionFileFirst(r) ==
    /\ At(r, "row")
    /\ uploads' = uploads \ {req[r].id}
    /\ Goto(r, "abort")
    /\ UNCHANGED <<data, blobs, db, gc, boot, torn, cut>>

\* Listed files are looked at but left in place.
CleanUploadIdle(u) ==
    /\ u \in listed
    /\ listed' = listed \ {u}
    /\ UNCHANGED <<files, db, req, gc, startup, torn, cut>>

-----------------------------------------------------------------------------
(* POST: start_upload *)

\* The repository is there (ensure_repository) and a UUID is drawn.
StartUpload(r, u, p) ==
    /\ u \notin DOMAIN data
    /\ ~Busy(u)
    /\ Begin(r, u, p, "create", NoDigest, 0)
    /\ UNCHANGED <<files, db, gc, boot, torn, cut>>

CreateUpload(r) ==
    /\ At(r, "create")
    /\ data' = With(data, req[r].id, <<>>)
    /\ uploads' = uploads \cup {req[r].id}
    /\ Goto(r, "insert")
    /\ UNCHANGED <<blobs, db, gc, boot, torn, cut>>

InsertSession(r) ==
    /\ At(r, "insert")
    /\ sessions' = With(sessions, req[r].id,
                        [repo |-> req[r].repo, offset |-> 0, expired |-> FALSE])
    /\ End(r)
    /\ UNCHANGED <<files, links, gc, boot, torn, cut>>

-----------------------------------------------------------------------------
(* PATCH, and the body of PUT: write_upload_chunk *)

\* PATCH at offset o: the start of its Content-Range, or the session's offset
\* as get_upload_status has just read it.
PatchUpload(r, u, p, o) ==
    /\ o \in 0..MaxBlocks
    /\ BeginOn(r, u, p, "check", NoDigest, o)
    /\ UNCHANGED <<files, db, gc, boot, torn, cut>>

\* PUT with digest d: its body, if it has one, goes to the session's offset.
PutUpload(r, u, p, d) ==
    /\ Owned(u, p)
    /\ BeginOn(r, u, p, "check", d, sessions[u].offset)
    /\ UNCHANGED <<files, db, gc, boot, torn, cut>>

\* The session is read again; its offset must be the request's.
CheckOffset(r) ==
    /\ At(r, "check")
    /\ IF Owned(req[r].id, req[r].repo) /\ sessions[req[r].id].offset = req[r].pos
       THEN Goto(r, "open")
       ELSE End(r)
    /\ UNCHANGED <<files, db, gc, boot, torn, cut>>

OpenUpload(r) ==
    /\ At(r, "open")
    /\ IF req[r].id \in uploads THEN Goto(r, "write") ELSE End(r)
    /\ UNCHANGED <<files, db, gc, boot, torn, cut>>

\* One block of the body, written through the handle.
WriteBlock(r, b) ==
    /\ At(r, "write")
    /\ req[r].pos < MaxBlocks
    /\ data' = [data EXCEPT ![req[r].id] = WriteAt(@, req[r].pos, b)]
    /\ req' = [req EXCEPT ![r].pos = @ + 1]
    /\ UNCHANGED <<uploads, blobs, db, gc, boot, torn, cut>>

EndOfBody(r) ==
    /\ At(r, "write")
    /\ Goto(r, "update")
    /\ UNCHANGED <<files, db, gc, boot, torn, cut>>

\* Offset and updated_at of the row; an update that finds no row is an error.
\* PUT goes on to complete_upload.
UpdateSession(r) ==
    /\ At(r, "update")
    /\ IF req[r].id \in DOMAIN sessions
       THEN /\ sessions' = [sessions EXCEPT ![req[r].id].offset = req[r].pos,
                                            ![req[r].id].expired = FALSE]
            /\ IF req[r].digest = NoDigest THEN End(r) ELSE Goto(r, "require")
       ELSE UNCHANGED sessions /\ End(r)
    /\ UNCHANGED <<files, links, gc, boot, torn, cut>>

-----------------------------------------------------------------------------
(* PUT: complete_upload *)

RequireUpload(r) ==
    /\ At(r, "require")
    /\ IF Owned(req[r].id, req[r].repo) THEN Goto(r, "reader") ELSE End(r)
    /\ UNCHANGED <<files, db, gc, boot, torn, cut>>

OpenReader(r) ==
    /\ At(r, "reader")
    /\ IF req[r].id \in uploads THEN Goto(r, "hash") ELSE End(r)
    /\ UNCHANGED <<files, db, gc, boot, torn, cut>>

\* compute_digest reads block by block until a read returns nothing.
HashBlock(r) ==
    /\ At(r, "hash")
    /\ Len(req[r].seen) < Len(data[req[r].id])
    /\ req' = [req EXCEPT ![r].seen =
                      Append(@, data[req[r].id][Len(req[r].seen) + 1])]
    /\ UNCHANGED <<files, db, gc, boot, torn, cut>>

\* A mismatch is DIGEST_INVALID: session and file stay.
CompareDigest(r) ==
    /\ At(r, "hash")
    /\ Len(req[r].seen) = Len(data[req[r].id])
    /\ IF DigestOf(req[r].seen) = req[r].digest
       THEN req' = [req EXCEPT ![r].pc = "rename", ![r].seen = <<>>]
       ELSE End(r)
    /\ UNCHANGED <<files, db, gc, boot, torn, cut>>

\* storage.complete_upload: fsync, then rename over whatever is there.
RenameToBlob(r) ==
    /\ At(r, "rename")
    /\ IF req[r].id \in uploads
       THEN /\ uploads' = uploads \ {req[r].id}
            /\ blobs' = With(blobs, req[r].digest, req[r].id)
            /\ Goto(r, "stat")
       ELSE UNCHANGED <<uploads, blobs>> /\ End(r)
    /\ UNCHANGED <<data, db, gc, boot, torn, cut>>

\* blob_size of the path, which another upload may have replaced and a
\* monolithic push removed.
StatBlob(r) ==
    /\ At(r, "stat")
    /\ IF req[r].digest \in DOMAIN blobs
       THEN /\ req' = [req EXCEPT ![r].pc = "commit",
                                  ![r].pos = Len(data[blobs[req[r].digest]])]
            /\ UNCHANGED cut
       ELSE End(r) /\ cut' = cut \cup {req[r].id}
    /\ UNCHANGED <<files, db, gc, boot, torn>>

\* One transaction: upsert the link, delete the session.
CommitLink(r) ==
    /\ At(r, "commit")
    /\ links' = With(links, <<req[r].repo, req[r].digest>>, req[r].pos)
    /\ sessions' = Without(sessions, req[r].id)
    /\ End(r)
    /\ UNCHANGED <<files, gc, boot, torn, cut>>

-----------------------------------------------------------------------------
(* DELETE: cancel_upload *)

CancelUpload(r, u, p) ==
    /\ Owned(u, p)
    /\ BeginOn(r, u, p, "row", NoDigest, 0)
    /\ UNCHANGED <<files, db, gc, boot, torn, cut>>

DeleteSession(r) ==
    /\ At(r, "row")
    /\ sessions' = Without(sessions, req[r].id)
    /\ Goto(r, "abort")
    /\ UNCHANGED <<files, links, gc, boot, torn, cut>>

AbortUpload(r) ==
    /\ At(r, "abort")
    /\ uploads' = uploads \ {req[r].id}
    /\ End(r)
    /\ UNCHANGED <<data, blobs, db, gc, boot, torn, cut>>

-----------------------------------------------------------------------------
(* A request that does not reach its end *)

\* The client goes away and the server drops the handler, or a database or
\* file system call fails and the handler returns early.
DropRequest(r) ==
    /\ "drop" \in Faults
    /\ r \in DOMAIN req
    /\ req[r].pc # "late"
    /\ torn' = IF req[r].pc \in {"insert", "abort"} THEN torn \cup {req[r].id}
                                                    ELSE torn
    /\ cut' = IF Past(r) THEN cut \cup {req[r].id} ELSE cut
    /\ End(r)
    /\ UNCHANGED <<files, db, gc, boot>>

\* The same in the middle of a body, with the last block still queued on the
\* blocking pool: it is written although the handler is gone.
DropWriter(r) ==
    /\ "drop" \in Faults
    /\ At(r, "write")
    /\ Goto(r, "late")
    /\ UNCHANGED <<files, db, gc, boot, torn, cut>>

LateWrite(r, b) ==
    /\ At(r, "late")
    /\ data' = IF req[r].pos < MaxBlocks
               THEN [data EXCEPT ![req[r].id] = WriteAt(@, req[r].pos, b)]
               ELSE data
    /\ End(r)
    /\ UNCHANGED <<uploads, blobs, db, gc, boot, torn, cut>>

-----------------------------------------------------------------------------
(* start_gc and run_gc.  One collection runs at a time: start_gc refuses as  *)
(* long as a row of gc_jobs is active (module GcJobs has the details).      *)

\* 24 hours go by without a change of the row's updated_at.
Expire(u) ==
    /\ u \in DOMAIN sessions
    /\ ~sessions[u].expired
    /\ sessions' = [sessions EXCEPT ![u].expired = TRUE]
    /\ UNCHANGED <<files, links, req, gc, boot, torn, cut>>

\* A job is admitted; its task lists the expired sessions, if there are any.
GcListExpired ==
    /\ ~startup
    /\ job = "idle"
    /\ job' = "running"
    /\ gcList' = {u \in DOMAIN sessions : sessions[u].expired}
    /\ UNCHANGED <<files, db, req, gcFile, boot, torn, cut>>

\* An error of abort_upload is discarded: the row goes all the same.
GcAbortUpload(u) ==
    /\ u \in gcList
    /\ gcFile = {}
    /\ \/ uploads' = uploads \ {u} /\ UNCHANGED torn
       \/ "fs" \in Faults /\ u \in uploads
          /\ torn' = torn \cup {u} /\ UNCHANGED uploads
    /\ gcFile' = {u}
    /\ UNCHANGED <<data, blobs, db, req, job, gcList, boot, cut>>

GcDeleteSession(u) ==
    /\ u \in gcFile
    /\ sessions' = Without(sessions, u)
    /\ gcList' = gcList \ {u}
    /\ gcFile' = {}
    /\ UNCHANGED <<files, links, req, job, boot, torn, cut>>

\* The job is marked completed.
GcEnd ==
    /\ job = "running"
    /\ gcList = {}
    /\ job' = "idle"
    /\ UNCHANGED <<files, db, req, gcList, gcFile, boot, torn, cut>>

\* The delete of a row fails, or the last update: the run ends, its job is
\* marked failed.  If that fails too the job stays active.
GcFail ==
    /\ "gc" \in Faults
    /\ job = "running"
    /\ gcFile # {} \/ gcList = {}
    /\ job' \in {"idle", "lost"}
    /\ gcList' = {} /\ gcFile' = {}
    /\ cut' = cut \cup (gcFile \ uploads)
    /\ UNCHANGED <<files, db, req, boot, torn>>

\* A job is admitted and its task never spawned, because the request was
\* dropped as it committed, or its task fails before it lists and cannot say so.
LoseJob ==
    /\ Faults \cap {"drop", "gc"} # {}
    /\ ~startup
    /\ job = "idle"
    /\ job' = "lost"
    /\ UNCHANGED <<files, db, req, gcList, gcFile, boot, torn, cut>>

-----------------------------------------------------------------------------
(* monolithic_upload beside the uploads *)

\* A push with a wrong body for d removes the path of d, whoever put the file
\* there.  What else a push does to blobs/ is in module Blobs.
DiscardBlob(d) ==
    /\ "push" \in Faults
    /\ ~startup
    /\ d \in DOMAIN blobs
    /\ blobs' = Without(blobs, d)
    /\ UNCHANGED <<data, uploads, db, req, gc, boot, torn, cut>>

-----------------------------------------------------------------------------
(* Process crash, restart and startup_cleanup *)

\* Tasks are gone; files and committed rows stay, that of a running job too.
\* startup_cleanup lists the upload files before the server accepts requests.
Crash ==
    /\ "crash" \in Faults
    /\ req' = Empty
    /\ job' = IF job = "running" THEN "lost" ELSE job
    /\ gcList' = {} /\ gcFile' = {}
    /\ startup' = TRUE
    /\ listed' = uploads
    /\ torn' = {}
    /\ cut' = cut \cup (gcFile \ uploads)
                  \cup {req[r].id : r \in {s \in DOMAIN req : Past(s)}}
    /\ UNCHANGED <<files, db>>

\* Here too an error of abort_upload is discarded.
CleanUpload(u) ==
    /\ u \in listed
    /\ \/ u \in DOMAIN sessions /\ UNCHANGED <<uploads, torn>>
       \/ u \notin DOMAIN sessions
          /\ uploads' = uploads \ {u} /\ UNCHANGED torn
       \/ "fs" \in Faults /\ u \notin DOMAIN sessions
          /\ torn' = torn \cup {u} /\ UNCHANGED uploads
    /\ listed' = listed \ {u}
    /\ UNCHANGED <<data, blobs, db, req, gc, startup, cut>>

Serve ==
    /\ startup
    /\ listed = {}
    /\ startup' = FALSE
    /\ UNCHANGED <<files, db, req, gc, listed, torn, cut>>

-----------------------------------------------------------------------------
Init ==
    /\ data = Empty
    /\ uploads = {}
    /\ blobs = Empty
    /\ sessions = Empty
    /\ links = Empty
    /\ req = Empty
    /\ job = "idle"
    /\ gcList = {} /\ gcFile = {}
    /\ startup = FALSE
    /\ listed = {}
    /\ torn = {} /\ cut = {}

\* A request arrives.
Arrive(r) ==
    \E u \in Upload, p \in Repo :
        \/ StartUpload(r, u, p)
        \/ \E o \in 0..MaxBlocks : PatchUpload(r, u, p, o)
        \/ \E d \in Digest : PutUpload(r, u, p, d)
        \/ CancelUpload(r, u, p)

\* The handler in slot r goes on.
Handle(r) ==
    \/ CreateUpload(r) \/ InsertSession(r)
    \/ CheckOffset(r) \/ OpenUpload(r)
    \/ \E b \in Block : WriteBlock(r, b)
    \/ EndOfBody(r) \/ UpdateSession(r)
    \/ RequireUpload(r) \/ OpenReader(r) \/ HashBlock(r) \/ CompareDigest(r)
    \/ RenameToBlob(r) \/ StatBlob(r) \/ CommitLink(r)
    \/ DeleteSession(r) \/ AbortUpload(r)
    \/ \E b \in Block : LateWrite(r, b)

Collect(u) == GcAbortUpload(u) \/ GcDeleteSession(u)

\* What goes on without a request of a session.
Background ==
    \/ \E u \in Upload : Expire(u) \/ Collect(u) \/ CleanUpload(u)
    \/ GcListExpired \/ GcEnd \/ GcFail \/ LoseJob
    \/ \E d \in Digest : DiscardBlob(d)
    \/ Crash \/ Serve

Next ==
    \/ \E r \in Request :
        Arrive(r) \/ Handle(r) \/ DropRequest(r) \/ DropWriter(r)
    \/ Background

Spec == Init /\ [][Next]_vars

\* The tasks of a collection and of the clean-up are scheduled until they end.
\* The clock advances, and the operator keeps asking for collections: one is
\* admitted when no job is active.
Fairness ==
    /\ \A u \in Upload : WF_vars(Collect(u)) /\ WF_vars(CleanUpload(u))
                                            /\ WF_vars(Expire(u))
    /\ WF_vars(Serve)
    /\ WF_vars(GcListExpired) /\ WF_vars(GcEnd)

FairSpec == Spec /\ Fairness

-----------------------------------------------------------------------------
(* Properties *)

\* Every variable has its type.
TypeOK ==
    /\ IsTable(data, Upload, Seq(Block))
    /\ uploads \in SUBSET Upload
    /\ IsTable(blobs, Digest, Upload)
    /\ IsTable(sessions, Upload, Session)
    /\ IsTable(links, Repo \X Digest, Nat)
    /\ IsTable(req, Request, RequestState)
    /\ job \in {"idle", "running", "lost"}
    /\ gcList \in SUBSET Upload
    /\ gcFile \in SUBSET Upload
    /\ startup \in BOOLEAN
    /\ listed \in SUBSET Upload
    /\ torn \in SUBSET Upload
    /\ cut \in SUBSET Upload

\* The offset a session reports is never beyond the bytes received: a client
\* that resumes at it leaves no hole in the file.  It holds however PATCH and
\* PUT requests of one session overlap, and whatever fault cuts them short.
OffsetCovered ==
    \A u \in DOMAIN sessions :
        u \in DOMAIN data /\ sessions[u].offset <= Len(data[u])

\* What complete_upload verified stays true: the blob of every link is stored,
\* has the digest it is stored under, and has the size of the link.  For
\* Serial clients, with no monolithic push of a wrong body beside them.
LinkedBlobIntact ==
    \A k \in DOMAIN links :
        /\ k[2] \in DOMAIN blobs
        /\ DigestOf(data[blobs[k[2]]]) = k[2]
        /\ links[k] = Len(data[blobs[k[2]]])

\* A session has its upload file, so that its client can go on with it, unless
\* a PUT or a collection is just between file and row, or was stopped there.
\* Nothing else, no overlap of requests, no failed DELETE and no restart, takes
\* the file of a session that is still open.
SessionHasFile ==
    \A u \in DOMAIN sessions \ uploads :
        \/ u \in gcFile \cup cut
        \/ \E r \in DOMAIN req : req[r].id = u /\ Past(r)

\* Of several PUT requests of one session only one gets past the rename: an
\* upload is stored and linked at most once.
OneFinalizer ==
    \A r, s \in DOMAIN req :
        /\ r # s
        /\ req[r].id = req[s].id
        /\ Past(r)
        => ~Past(s)

\* An upload file without a session belongs to a POST or DELETE that is under
\* way, or to one that was dropped since the last start began, or it is one that
\* could not be removed since then: a restart whose removals succeed leaves none.
NoOrphanFile ==
    ~startup =>
        \A u \in uploads \ DOMAIN sessions :
            \/ u \in torn
            \/ \E r \in DOMAIN req :
                  req[r].id = u /\ req[r].pc \in {"insert", "abort"}

\* A session that was completed, cancelled or collected does not come back,
\* nor does its file, whatever its requests still in flight go on to do.
ClosedStaysClosed ==
    [][\A u \in DOMAIN data :
          /\ u \notin uploads => u \notin uploads'
          /\ u \notin DOMAIN sessions
             /\ (\A r \in DOMAIN req : req[r].id = u => req[r].pc # "insert")
             => u \notin DOMAIN sessions']_vars

\* The offset of a session never goes back, so a client that has been told N
\* bytes are stored is never asked for them again.  For Serial clients.
OffsetNeverDecreases ==
    [][\A u \in DOMAIN sessions \cap DOMAIN sessions' :
          sessions'[u].offset >= sessions[u].offset]_vars

\* run_gc removes only sessions that have not been used for 24 hours.
GcSparesFreshSessions ==
    [][\A u \in gcFile :
          u \notin gcFile' /\ u \in DOMAIN sessions \ DOMAIN sessions'
          => sessions[u].expired]_vars

\* A session its client has given up is collected in the end, if the server
\* stays up and no job was lost: the sweep does not skip it and the run does not
\* get stuck on it, not even if its file is gone or cannot be removed.
AbandonedSessionReclaimed ==
    \A u \in Upload :
        /\ <>[](~startup)
        /\ [](job # "lost")
        /\ <>[](\A r \in DOMAIN req : req[r].id # u)
        => <>[](u \notin DOMAIN sessions)

\* What a client sees of the blobs of a repository: those linked, with the
\* content of the file their path names.
Visible ==
    [k \in DOMAIN links |->
        IF k[2] \in DOMAIN blobs THEN data[blobs[k[2]]] ELSE <<>>]

LinkTable == INSTANCE LinkTable WITH table <- Visible

\* The requests of an upload act as if the last of them linked the blob, whole,
\* in one step; nothing done to a session shows in the blobs linked before.
\* For Serial clients, with no monolithic push of a wrong body beside them.
ImplementsLinkTable == LinkTable!Spec
=============================================================================
