# A TLA+ model of distribution-rs

distribution-rs is an OCI registry: an HTTP server (axum on tokio), a file system store, and
a SQLite database. Its difficulty is that a blob, an upload or a manifest lives in both the
store and the database, that no transaction or lock covers both, and that every handler is a
task which may be suspended, or dropped for good, at each `.await`. This directory models
the handlers step by step at that grain, checks the models with TLC, and proves the results
with TLAPS for every value of the constants, except those listed at the end of section 4.

Paths below are relative to the repository; `registry.rs` is `src/registry.rs`.

## 1. The system

| Component | State | Operations | Where |
|---|---|---|---|
| Resumable uploads | rows of `upload_sessions`, files `uploads/<uuid>` | POST, GET, PATCH, PUT, DELETE of a session; sweep by a collection; clean-up at start | `registry.rs:628-790`, `api/upload.rs`, `storage/filesystem.rs:192-255` |
| Blobs | files `blobs/<alg>/<xx>/<hex>`, rows of `repo_blob_links` | monolithic push, mount, GET (with ranges), HEAD, DELETE of the link | `registry.rs:164-307,792-836`, `api/blob.rs`, `storage/filesystem.rs:92-169` |
| Manifests, tags, referrers | files `manifests/...`, rows of `manifests`, `tags`, `referrers` | PUT, GET, HEAD, DELETE, listings | `registry.rs:313-622,842-941`, `api/manifest.rs` |
| Collection jobs | rows of `gc_jobs`, one spawned task | start, run, fail, status | `registry.rs:947-1061`, `api/admin.rs` |
| Repositories | rows of `repositories` | ensure, require | `registry.rs:95-158` |
| Listings | none on the server; the client holds the link it follows | pages of the catalog and of a tag list | `registry.rs:842-914`, `api/catalog.rs`, `api/tag.rs` |
| Routing | none | path and method to a handler | `api/mod.rs` |
| Authentication | the configuration | who asks, for which tenant, may it pass | `auth/middleware.rs`, `config.rs` |
| Names, digests, errors | none | parsing and replies | `types.rs`, `error.rs` |
| Schema | the migrations' record | run once, before the server starts | `migration/` |
| Server | process | start, clean-up, serve, shutdown | `main.rs`, `registry.rs:25-62` |

How they interact:

- Handlers share the store and the database and nothing else. There is no in-memory state of
  an upload and no lock: two requests meet only in a path or in a row.
- Resumable uploads, monolithic pushes and mounts all write `repo_blob_links`; the first two
  also write `blobs/`. Manifests read the links to validate references.
- Every handler that pushes first ensures its repository: three statements outside a
  transaction, raced by other handlers of the same name.
- Authentication and routing stand before all handlers. The middleware looks at the method
  and the beginning of the path, the router at the whole path; they must agree on what an
  anonymous request may reach.
- A client reads a listing by following `Link` headers while others change what is listed.
- A collection runs as a task of its own beside the handlers; today its only effect is to
  remove sessions not updated for 24 hours.
- A restart runs `startup_cleanup` before the first request is accepted.

The hard behaviours: handlers of one session or of one digest overlapping; a handler dropped
at an await because its client went away, with a write still queued on the blocking pool; a
crash between a file system call and the statement that belongs to it; a list read once and
acted on later (collections, startup); SQLite refusing a write on an old snapshot.
`PROJECT.json` lists each under "hazards" at the line where it bites.

What makes each component correct:

- uploads: offsets never exceed the bytes received, what was hashed is what is stored, a
  session is finalized once, an open one keeps its file, a closed one stays closed, an
  abandoned one is reclaimed, no file is orphaned for longer than until the next start whose
  removals succeed;
- blobs: every link names a stored blob with that digest and size; a GET sends what its
  headers announced; honest clients do not disturb each other;
- manifests: tags, referrers and bytes agree with the manifest rows at all times; references
  were present when a manifest was accepted;
- jobs: at most one active, final states are final, every job ends;
- repositories: one row per tenant and name whoever races, and the handler that loses goes
  on in the winner's row;
- listings: a client that follows the links to the end was told each name that was there all
  the while, once;
- routing: a request about an object reaches a handler for that object or none;
- authentication: an anonymous request reaches reading handlers or none, and nobody acts for
  a foreign tenant without a token for it.

## 2. The modules

`Tables` has four helpers for a table (rows by key, or files by path) as a function on the
keys present: `With` is an upsert, `Without` a delete.

`UploadSessions` (core). A file handle names its inode across rename and unlink. Because an
upload file is created once under a fresh UUID, the UUID also names the inode: `data` is
what each inode holds, `uploads` the ids with a path under `uploads/`, `blobs` the inode at
a blob's path. `sessions` and `links` are the tables; `sessions[u].expired` stands for
`updated_at` being older than 24 hours. `req[r]` is the request in slot `r` with its next
step `pc`; each `pc` is the code between two awaits:

| Handler | Steps (`pc`) |
|---|---|
| POST | create, insert |
| PATCH | check, open, write (one block at a time), update |
| PUT | the same four, then require, reader, hash (one block at a time), rename, stat, commit |
| DELETE | row, abort |
| a dropped handler's last queued write | late |

A collection is `job`, `gcList` (sessions it has listed) and `gcFile` (the one it is done
with but for the row). `job` is all that matters here of `gc_jobs`: whether a row is active,
and if so whether a task still works on it. A crash during a collection, a request dropped
as it commits the job, or a task that cannot write its last status leave it `"lost"`, and
`start_gc` then refuses every later collection. `startup`/`listed` are the clean-up. Both
the collection and the clean-up ignore the error of `abort_upload` and go on, so with `"fs"`
among the `Faults` their removals may leave the file. `Background` is all that happens
without a request of a session. One of its steps, `DiscardBlob`, stands for a monolithic
push that removes the path of a digest; what else pushes do to `blobs/` is in `Blobs`.

`torn` and `cut` are history: ids whose file was left without a row (by a request dropped
between the two, or by a removal that failed), and ids whose row was left without a file (by
a PUT or a collection that stopped between the two). The constant `Serial` says that a
request of a session is sent only when the server is done with the one before. That is more
than a client can see to by waiting for replies: a dropped handler leaves no reply, and the
write it has queued counts as work not done.

`Blobs`. Files under `blobs/` are replaced or removed, never written in place by these
handlers, so `blobs` maps a digest to a content. A slot holds a monolithic push (probe, tmp,
reprobe, rename, reader, verify or discard, stat, link), a mount (source, link), the end of
a resumable upload whose file has just been hashed (move, stat, link), or a GET (again,
open, send, or refuse for a 416). A GET reads its length from the row some steps before it
opens the file; `LastOf`, `Unsatisfiable` and `LengthOf` are the arithmetic of byte ranges.
`Overlap` says which requests that send a body for one digest may run at once: all
(`"free"`), or those whose body is the right one (`"honest"`). Two variables are history:
`suspect`, the digests under which a wrong body was ever sent, and `mixed`, those for which a
body came while another request was sending one, this body or an earlier one being wrong.
Nothing in the code keeps a digest from becoming mixed.

`LinkTable` is what the registry promises of blobs: a table from repository and digest to
content, which a link or an unlink changes in one step. `UploadSessions` and `Blobs` both
implement it under the mapping `Visible`, which shows for each linked digest the content its
path holds (in `Blobs`, for a mixed digest, only that it is linked).

`Manifests`. A manifest stands for its bytes and for their digest. The two transactions
(`CommitManifest`, `DeleteManifest`) begin with a write, so SQLite runs them one after the
other and each is one action; the lookups before, the file and each statement of a GET are
steps. `removed` is history: what was ever deleted. Blob links come and go by `LinkBlob` and
`UnlinkBlob`.

`GcJobs`. `start_gc`'s transaction begins with a query, so it holds a snapshot; `stale` says
somebody committed since, in which case SQLite refuses the insert. `lock` is the database's
write lock, `tasks` the spawned tasks, `lost` (history) the jobs whose task was never
spawned, died with the process, or could not write its last status. `JobLifecycle` is what
it promises: accepted if no other job is unfinished, started, ended once; `GcJobs`
implements it with the statuses of the rows.

`Repositories`. `ensure_repository` is `FindRepo`, `InsertRepo`, `FindAgain`; the handler
then puts a tag, or does something that is not listed. A name is its place in the order in
which the database sorts. A client holds in `list[c]` where the next page begins; `seen`,
`twice` and `steady` are history: what it was told, was told twice, and what has been there
since it began. `Query` is the statement with its `LIMIT n + 1`, which wraps around at
`MaxInt`, and `Receive` the page with or without a `Link` header.

`Front`. A path is the sequence of its segments. `Authenticate` is the middleware with the
configuration chosen at the start; `DispatchNamed`, `DispatchFixed` and `DispatchUnknown`
are the fallback of `api/mod.rs` and the fixed routes. `Pattern` lists the words the router
looks for in their order, `SplitLast` is `split_last_segment`. `Readings` is not the code's:
it defines, independently of any order, how a path may be read as the URL of an object.

Each module has a section of steps "as a faulty implementation would take them". They are
not part of the system; replacing the named action by one of them makes the property it is
listed with in `PROJECT.json` fail, which shows the property can fail.

`MC...` modules give TLC its instances. `X_proofs` has the proofs about module `X`,
`Routing_proofs` those about the router of `Front`, `Tables_proofs` the lemmas on tables they
share.

| Module | Composes or uses | Proofs |
|---|---|---|
| `UploadSessions` | `Tables`, instance of `LinkTable` | `UploadSessions_proofs` |
| `Blobs` | `Tables`, instance of `LinkTable`; the last steps of a resumable upload beside pushes | `Blobs_proofs` |
| `Manifests` | `Tables`; blob links come and go | `Manifests_proofs` |
| `GcJobs` | `Tables`, instance of `JobLifecycle` | `GcJobs_proofs` |
| `Repositories` | `Tables`; handlers, tags and listings in one module | `Repositories_proofs` |
| `Front` | `Tables`; middleware and router in one module | `Front_proofs`, `Routing_proofs` |

## 3. What TLC checks

| Run | Instance | Shows |
|---|---|---|
| serial | 2 requests, 2 sessions, 1 block, drops, failing removals, crashes, `Serial` | `LinkedBlobIntact`, `NoOrphanFile`, `OffsetNeverDecreases`, `ImplementsLinkTable` |
| concurrent | 2 requests on 1 session, 2 repositories, both algorithms, every fault, `DiscardBlob` included | `TypeOK`, `OffsetCovered`, `SessionHasFile`, `OneFinalizer`, `ClosedStaysClosed` |
| reclaim | 1 request, 2 sessions, drops, failing removals, crashes, fairness | `AbandonedSessionReclaimed` |
| late_chunk | 2 requests, drops | **violation** of `LinkedBlobIntact` |
| stale_list | 1 request | **violation** of `GcSparesFreshSessions` |
| pushes | 2 requests, 2 repositories, an empty and a two-byte content, 4 ranges, drops, crashes, `Overlap = "honest"` | `TypeOK`, `LinkedBlobIntact`, `ServedBlobIntact`, `RangeExact`, `HonestBodiesAgree`, `ImplementsLinkTable` |
| wrong_body | 2 requests, 1 repository, drops, `Overlap = "honest"` | **violation** of `LinkedBlobAlwaysIntact` |
| manifests | 2 requests, an image of two blobs, an index of it, drops, crashes | `TypeOK`, `TagsResolve`, `RowsStored`, `ReferrersExact`, `ReferencesPresent`, `ResolvedIsServed`, `PullsKept` |
| jobs | 2 requests, 3 jobs, every fault, fairness | `TypeOK`, `AtMostOneActive`, `OneCollector`, `JobEnds`, `ImplementsJobLifecycle` |
| denied | 1 request, 2 jobs, crashes | **violation** of `DeniedOnlyWhileRunning` |
| listing | 2 handlers, 1 client, 2 tenants, 2 names, 3 tags, page sizes 0 to `MaxInt = 3`, fairness | `TypeOK`, `OneRowPerName`, `HandlerInOwnRepo`, `LoserFindsRow`, `ListingComplete`, `ListedOnce`, `ListingEnds` |
| front | 1 request at a time, every method, paths made of the router's words, 7 headers, 4 configurations | `TypeOK`, `RoutedOrRefused`, `PlainNamesRouted`, `AnonymousOnlyReads`, `TenantNeedsToken` |

The violations are disagreements between the code and what its own comments and messages
say; "findings" in `PROJECT.json` quotes them. In short: a PATCH can change a blob that a
PUT has just verified (its handle follows the file through the rename); a collection removes
a session used after the list was read; a mismatching monolithic push removes a path that by
then belongs to somebody else's verified and linked blob; after a crash during a collection
no other can be started.

The limits of some passing runs follow from the same facts. For uploads, `LinkedBlobIntact`
holds if the server is done with one request of a session before the next (`Serial`) and no
monolithic push removes a path (`"push"` is no fault of `serial`). For pushes it, and what
is said of reads, holds of the digests that are not `mixed`; `LinkedBlobAlwaysIntact` is the
same without the exception, and fails even if wrong bodies come alone, because a wrong body
that came long before is enough to break it. `OffsetCovered` holds however requests overlap,
but says nothing of a slower PATCH that lowers an offset: that is `OffsetNeverDecreases`,
under `Serial`. `AbandonedSessionReclaimed` asks that no job is lost: after one, nothing is
reclaimed any more, which is what `denied` shows of the jobs. `PullsKept` says that a count
never goes down, not that each pull is counted for the tag it asked for: a tag that moves
between the lookup and the count loses that pull. `ListingComplete` leaves out two page
sizes, 0 and the largest integer: their first page is empty and has no link.
`PlainNamesRouted` is about names whose segments after the first are neither "manifests" nor
"blobs": a blob of `a/manifests/b` is out of reach, since the words of manifests are looked
for first; `RoutedOrRefused` says that such a request is then refused and never served
something else.

Bounds. The interesting cases need two requests in one session or digest, so two slots; two
sessions let one blob replace another of the same content; two repositories exercise
ownership and mounts. One block per file (`MaxBlocks = 1`) distinguishes an empty file, a
written one, and an offset that lags behind or leads. Two bytes and four ranges
(`ByteRange`) cover a range inside the blob, one that goes beyond it, one that starts at its
end and one whose end comes before its start, for an empty blob as well. `MaxPulls` caps a
counter no action compares. `Wanted` (two names of one tenant, one of another) and `MaxId =
2` let two handlers race for one name, for two names and for one name of two tenants; only
repository 1 gets tags (`Tagged`), since a tag list is of one repository. Three tags are
three pages of one, two of two, and one without a link. `MaxInt = 3` stands for 2^64 - 1: no
listing here has more names. `Path` combines 16 names, among them one that is too long and
every word of the router in every place, with each pattern and six references; `Header` has
each kind of valid and invalid credential; `Configuration` the default, authentication
without secrets, and with secrets with and without anonymous pulls. One slot is enough there
because requests share only the configuration. Three jobs suffice for a lost job, a
completed one and a fresh one to follow each other. Slots and UUIDs (repositories and tags
in the other modules) are symmetric where the run checks safety only; the liveness runs use
no symmetry.

Deadlock is checked in `front`: some step answers every request. It is not in the others,
whose bounded instances really stop when the UUIDs or ids are used up and no request is in
flight.

Fairness. `UploadSessions!FairSpec` gives weak fairness to the steps of a collection and of
the clean-up (tokio runs a spawned task until it ends, and no step of theirs waits for
another task), to `Expire` (time passes) and to `GcListExpired` (the operator keeps calling
`POST /api/v1/gc`). `GcListExpired` is enabled only while no job is active, so its fairness
promises nothing once a job is lost. Requests have none: a client may stall for ever, and
`AbandonedSessionReclaimed` asks only about sessions without a request. `GcJobs!FairSpec`
gives weak fairness to the task; its statements wait only for a write lock that no request
can take while a job is active. `Repositories!FairSpec` gives weak fairness to a client's
next page, and nothing to handlers: a listing ends although tags may come for ever, because
each page begins beyond the one before and `Tag` is finite.

## 4. What is proved

Each theorem is `Spec => []P` (or `Spec => P` for action properties and refinements) for the
`P` in its name, for all sets of slots, sessions, repositories and data, every bound and
every choice of faults. Those of `Blobs` hold for every `Overlap`; all but `TypeCorrect` and
`HonestBodiesAgreeCorrect` are about digests that are not `mixed`. The assumptions are those
on the constants, named in each module.

| Module | Theorems | Assuming |
|---|---|---|
| `UploadSessions_proofs` | `TypeCorrect`, `OffsetCoveredCorrect`, `OneFinalizerCorrect`, `SessionHasFileCorrect`, `NoOrphanFileCorrect`, `ClosedStaysClosedCorrect` | |
| | `OffsetNeverDecreasesCorrect` | `Serial` |
| | `LinkedBlobIntactCorrect`, `ImplementsLinkTableCorrect` | `Serial` and `"push" \notin Faults` |
| `Blobs_proofs` | `TypeCorrect`, `HonestBodiesAgreeCorrect`, `LinkedBlobIntactCorrect`, `ServedBlobIntactCorrect`, `RangeExactCorrect`, `ImplementsLinkTableCorrect` | |
| `Manifests_proofs` | `TypeCorrect`, `TagsResolveCorrect`, `RowsStoredCorrect`, `ReferrersExactCorrect`, `ReferencesPresentCorrect`, `ResolvedIsServedCorrect`, `PullsKeptCorrect` | |
| `GcJobs_proofs` | `TypeCorrect`, `AtMostOneActiveCorrect`, `OneCollectorCorrect`, `ActiveHasTaskCorrect`, `DeniedOnlyWhileRunningOrLostCorrect`, `FinalStatusStaysCorrect`, `ImplementsJobLifecycleCorrect` | |
| `Repositories_proofs` | `TypeCorrect`, `OneRowPerNameCorrect`, `HandlerInOwnRepoCorrect`, `LoserFindsRowCorrect`, `ListingCompleteCorrect`, `ListedOnceCorrect`, `PagesAdvanceCorrect` | |
| `Front_proofs` | `TypeCorrect`, `AnonymousOnlyReadsCorrect`, `TenantNeedsTokenCorrect` | |
| `Routing_proofs` | `ReadingUnique` (about every path), `RoutedOrRefusedCorrect`, `PlainNamesRoutedCorrect` | |

Uploads. The argument has these layers, each inductive relative to the ones before.

1. `TypeInv` types the store and the requests.
2. `CoverInv` adds `FreshInv` (an id that is used has a file) and `PositionCovered`: from
   the moment a request has opened the file, its position is within the bytes of the file.
   Files only grow, so another request's write cannot break it, and the row is set from a
   covered position. `OffsetCovered` alone is not inductive because `UpdateSession` takes
   the position from the request.
3. `BlobInv`, under `Serial` and without monolithic pushes, adds `OneRequestEach` (one
   request per session, so nobody writes while a file is hashed), `StoredIntact` (every file
   at a blob's path has that digest) and `Knows` (what a request has established by each
   step: a prefix read while hashing, a matching file at rename, a right blob and size at
   commit). `LinkedBlobIntact` follows because the rename only ever replaces a blob by one
   of the same content.
4. `FinishInv`, without any assumption: who is past the rename has left no file under
   `uploads/`. No file comes back under a used id, so the rename decides between two PUT
   requests (`OneFinalizer`).
5. `OrphanInv`: while the server starts, the files without a session are among those the
   clean-up has yet to look at or could not remove, and a collection removes a file, or has
   tried to, before its row. `NoOrphanFile` alone would not survive the end of the start.
   `HasFileInv` is the other half, a session without a file: the POST that will add a row
   has its file to itself, and a DELETE removes the file after the row is gone for good, so
   `SessionHasFile` needs no exception but PUT and the collection.
6. `AheadInv`, under `Serial`: what a request will write to a row (`Ahead`) is not below
   what the row says. It is a position read from that row steps earlier and moved on since,
   so this lasts only as long as nobody else moves the row; hence `OneRequestEach` of layer
   3. With overlapping requests a slower PATCH does lower the offset.

`ClosedStaysClosed` needs no more than `FreshInv` of layer 2: only a POST adds a row
(`OnlyPostOpens`), and its id was never used.

The refinement follows from layer 3: only the commit and the delete of a link change
`links`, and a rename puts equal content where a linked blob was, so every other step is a
stutter of `LinkTable`.

Blobs. There are two layers, and no assumption on what is sent or what overlaps.

1. `HonestInv`: a digest under which nobody sent a wrong body (outside `suspect`) has the
   right file or none, and a request that read it read that.
2. `CleanInv`, of the digests outside `mixed`. A right file, once at its path, is never
   lost: the only steps that change a path are a rename, whose request either sends the same
   content or knows that nothing was there, and a discard, whose request knows that the file
   is wrong (`Known`). That knowledge is about shared state and is acquired steps earlier; it
   lasts because under a suspect digest that is not mixed no second request sends a body
   (`Alone`), which `Steady` states for each step. Links are then to right files for good
   (`LinksGood`), so what a GET read in the row is still true when it opens the file.
   `RangeExact` adds the arithmetic of ranges (`LengthFacts`) for every size and range.

Manifests. The rows are written from what a request found out in earlier steps, so the
invariant adds `Knows`: each reference is still to be looked up or was there (`Had`), and
the bytes are written before the transaction. `Knows` survives the steps of others because
nothing disappears without an entry in `removed` (`StepGrows`).

Jobs. A commit adds an active job whatever the others are, so `AtMostOneActive` is not
inductive; `SnapshotHolds` adds that a request on a fresh snapshot saw no active job,
`LockHolds` that only the holder of the write lock commits a job. The first holds because
every commit makes the other snapshots stale. `ActiveHasTask` says what may keep an active row:
a task, or one that was lost. With it `DeniedOnlyWhileRunning`, which `denied` refutes, holds
as soon as lost jobs are allowed for (`DeniedOnlyWhileRunningOrLost`): the lost job is the
only way the message "GC job already running" can be wrong.

Repositories. `RepoInv` says of a handler that it uses a row of its own tenant and name, or
that the row it is about to look for is there (`Sound`): rows are never removed. `ListInv`
says of a client where its listing stands (`Standing`): everything it was told lies up to
`last`, and what was there all the while and lies up to `last` it was told. A page keeps
this because it has the first names beyond `last`, and a page without a link, for other
sizes than 0 and `MaxInt`, has all of them. `PagesAdvance` is the measure behind `ListingEnds`:
a page with a link moves `last` forward, and no other step of anybody moves it.

Front. `Allowed` connects the middleware and the router: an anonymous request on its way to
the router reads, below `/v2/`, and every route there gives a reading handler to a method
that reads; the tenant of a request is that of its token (`OwnTenant`).

Routing. `RoutedInv` says of each request that was answered that the answer suits its URL
(`Suits`). That a step keeps this is a matter of paths, and has three parts.

1. A path has at most one reading (`OneReading`, `ReadingUnique`): its last two segments tell
   which pattern it could be and where the name ends (`Ending`), because a reference is one
   segment or none, a digest is neither "uploads" nor empty, and no upload id is empty.
2. What a pattern finds, if its reference is valid, is a reading (`FoundStands`). So what the
   router hands to a handler is the only reading there is, in whatever order it looks.
3. A reading is found by its own pattern (`StandsFinds`): the words have no later place that
   leaves anything behind them. If the name is plain, no earlier pattern finds anything
   (`NothingEarlier`): a place of its words would lie in the name, or is that of the URL
   `.../blobs/uploads/` of a new upload, where the pattern of an upload finds the empty
   segment and discards it.

Only model-checked is liveness (`AbandonedSessionReclaimed`, `JobEnds`, `ListingEnds`), which
is out of the prover's reach (`ActiveHasTask` and `PagesAdvance`, which are proved, are the
safety halves of the last two), and of course the runs that end in a violation. Every
invariant, action property and refinement of a passing run has its theorem. With
`FinalStatusStays`, `ActiveHasTask`, `DeniedOnlyWhileRunningOrLost` and `PagesAdvance` it is
the other way round: they are proved, and no run checks them.

## 5. What is not modelled

- Names, digests and references as strings: which segments are names, tags or digests is a
  constant of `Front`. Elsewhere a digest is a pair of algorithm and content, and the hash
  is taken to be free of collisions. Serialisation (most of `types.rs`) and the bodies of
  errors (`error.rs`) are left out; an error is the end of a request.
- HEAD requests and the list of referrers: they change nothing, and read what a modelled
  request reads. The `Range` header of an upload's status, a formatting of its offset.
- The parser of a `Range` header (`api/blob.rs:98-108`, which takes an unreadable end for an
  open one): a GET of `Blobs` begins with the positions it names. That of `Authorization`: a
  token of `Front` is expired when the JWT library says so, which is 60 seconds after its
  `exp` and never without one. The length of names: which are too long is a constant.
- A listing whose client makes up its own `last`.
- Files under `tmp/`: each is private to its request, never read by another, and
  `cleanup_tmp` removes what is left before the server accepts requests.
- Power failure (the code syncs files, not directories), a full disk, corruption.
- Migrations. They run before the server starts, with sea-orm-migration's record of what was
  applied, whose code is not part of the repository. The keys and the unique index they
  declare are those of the modelled tables.
- Graceful shutdown, which waits for handlers and changes no state.
- The cryptography of tokens: a token carries the key that signed it.
- A PATCH that writes through its handle after the rename, beside monolithic pushes of the
  same digest: `Blobs` has the uploads from the rename on, with the server done with the other
  requests of the session, and `UploadSessions` has of a monolithic push only the removal.

## 6. Plan

1. One store for `UploadSessions` and `Blobs`, with handles that outlive the rename.
2. `Shutdown`: requests that never end, and `shutdown_timeout_secs`.
3. Migrations with a crash between a statement and its record, as an external recorder.

