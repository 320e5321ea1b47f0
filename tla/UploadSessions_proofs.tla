----------------------- MODULE UploadSessions_proofs -----------------------
(***************************************************************************)
(* Proofs about UploadSessions, by invariants that rest on those before:   *)
(* TypeInv (types, and which files and digests there must be), CoverInv    *)
(* (positions and offsets are covered by the file), FinishInv (who is past *)
(* the rename has taken the file away), OrphanInv (files without a         *)
(* session), HasFileInv (sessions without a file), and, for Serial         *)
(* clients, BlobInv (what is stored and linked has the digest it goes by)  *)
(* and AheadInv (what is written to a row is not below what it says).      *)
(***************************************************************************)
EXTENDS UploadSessions, Tables_proofs

-----------------------------------------------------------------------------
(* Blocks *)

LEMMA WriteAtType ==
    ASSUME NEW c \in Seq(Block), NEW i \in Nat, NEW b \in Block
    PROVE  /\ WriteAt(c, i, b) \in Seq(Block)
           /\ Len(WriteAt(c, i, b)) >= Len(c)
           /\ Len(WriteAt(c, i, b)) >= i + 1
<1>1. CASE i < Len(c)
  BY <1>1 DEF WriteAt
<1>2. CASE i >= Len(c)
  <2> DEFINE e(k) == IF k = i + 1 THEN b ELSE IF k <= Len(c) THEN c[k] ELSE Zero
             w == [k \in 1..(i + 1) |-> e(k)]
  <2>1. \A k \in 1..(i + 1) : e(k) \in Block
    BY ZeroAssumption
  <2>2. w \in Seq(Block) /\ Len(w) = i + 1
    BY <2>1
  <2>3. WriteAt(c, i, b) = w
    BY <1>2 DEF WriteAt
  <2> QED BY <1>2, <2>2, <2>3
<1> QED BY <1>1, <1>2

-----------------------------------------------------------------------------
(* What the three ways to change the table of requests do *)

LEMMA GotoEffect ==
    ASSUME IsTable(req, Request, RequestState), NEW r \in DOMAIN req,
           NEW p \in Pc, Goto(r, p)
    PROVE  /\ IsTable(req', Request, RequestState)
           /\ DOMAIN req' = DOMAIN req
           /\ req'[r] = [req[r] EXCEPT !.pc = p]
           /\ \A s \in DOMAIN req : s # r => req'[s] = req[s]
<1> DEFINE q == [req[r] EXCEPT !.pc = p]
<1>1. req[r] \in RequestState
  BY DEF IsTable
<1>2. q \in RequestState
  BY <1>1 DEF RequestState
<1>3. req' = [req EXCEPT ![r] = q]
  BY DEF Goto
<1> HIDE DEF q
<1>4. /\ IsTable(req', Request, RequestState)
      /\ DOMAIN req' = DOMAIN req
      /\ req'[r] = q
      /\ \A s \in DOMAIN req : s # r => req'[s] = req[s]
  BY <1>2, <1>3, ExceptTable
<1> QED BY <1>4 DEF q

LEMMA GotoFields ==
    ASSUME IsTable(req, Request, RequestState), NEW r \in DOMAIN req,
           NEW p \in Pc, Goto(r, p)
    PROVE  /\ req'[r].pc = p
           /\ req'[r].id = req[r].id
           /\ req'[r].repo = req[r].repo
           /\ req'[r].digest = req[r].digest
           /\ req'[r].pos = req[r].pos
           /\ req'[r].seen = req[r].seen
<1>1. req[r] \in RequestState
  BY DEF IsTable
<1>2. req'[r] = [req[r] EXCEPT !.pc = p]
  BY GotoEffect
<1> QED BY <1>1, <1>2 DEF RequestState

LEMMA EndEffect ==
    ASSUME IsTable(req, Request, RequestState), NEW r, End(r)
    PROVE  /\ IsTable(req', Request, RequestState)
           /\ DOMAIN req' = DOMAIN req \ {r}
           /\ \A s \in DOMAIN req' : req'[s] = req[s]
BY DEF End, Without, IsTable

LEMMA BeginEffect ==
    ASSUME IsTable(req, Request, RequestState), NEW r \in Request,
           NEW u \in Upload, NEW p \in Repo, NEW pc \in Pc,
           NEW d \in Digest \cup {NoDigest}, NEW o \in Nat,
           Begin(r, u, p, pc, d, o)
    PROVE  /\ IsTable(req', Request, RequestState)
           /\ DOMAIN req' = DOMAIN req \cup {r}
           /\ req'[r] = [pc |-> pc, id |-> u, repo |-> p, digest |-> d,
                         pos |-> o, seen |-> <<>>]
           /\ \A s \in DOMAIN req : s # r /\ req'[s] = req[s]
<1> DEFINE q == [pc |-> pc, id |-> u, repo |-> p, digest |-> d,
                 pos |-> o, seen |-> <<>>]
<1>1. q \in RequestState
  BY DEF RequestState
<1>2. req' = With(req, r, q) /\ r \notin DOMAIN req
  BY DEF Begin
<1> HIDE DEF q
<1>3. /\ IsTable(req', Request, RequestState)
      /\ DOMAIN req' = DOMAIN req \cup {r}
      /\ req'[r] = q
      /\ \A s \in DOMAIN req : s # r => req'[s] = req[s]
  BY <1>1, <1>2 DEF IsTable, With
<1> QED BY <1>2, <1>3 DEF q

-----------------------------------------------------------------------------
(* Type correctness *)

\* pcs of a PUT past its body.
Finalizing == {"require", "reader", "hash", "rename", "stat", "commit"}

\* The types of everything but the requests.  Rows and paths name files that
\* were created.
StoreInv ==
    /\ IsTable(data, Upload, Seq(Block))
    /\ IsTable(blobs, Digest, Upload)
    /\ IsTable(sessions, Upload, Session)
    /\ IsTable(links, Repo \X Digest, Nat)
    /\ uploads \subseteq DOMAIN data
    /\ DOMAIN sessions \subseteq DOMAIN data
    /\ \A d \in DOMAIN blobs : blobs[d] \in DOMAIN data
    /\ job \in {"idle", "running", "lost"}
    /\ gcList \subseteq Upload /\ gcFile \subseteq Upload
    /\ startup \in BOOLEAN
    /\ listed \subseteq Upload /\ torn \subseteq Upload /\ cut \subseteq Upload

\* A request past its creation works on a file that exists, and only one that
\* carries a digest gets to verifying, storing and linking.
RequestInv ==
    /\ IsTable(req, Request, RequestState)
    /\ \A r \in DOMAIN req :
         /\ req[r].pc # "create" => req[r].id \in DOMAIN data
         /\ req[r].pc \in Finalizing => req[r].digest \in Digest

TypeInv == StoreInv /\ RequestInv

LEMMA TypeInvImpliesTypeOK == TypeInv => TypeOK
BY DEF TypeInv, StoreInv, RequestInv, TypeOK, IsTable

LEMMA RequestFields ==
    ASSUME RequestInv, NEW r \in DOMAIN req
    PROVE  /\ r \in Request
           /\ req[r].pc \in Pc
           /\ req[r].id \in Upload
           /\ req[r].repo \in Repo
           /\ req[r].digest \in Digest \cup {NoDigest}
           /\ req[r].pos \in Nat
           /\ req[r].seen \in Seq(Block)
BY DEF RequestInv, IsTable, RequestState

LEMMA StoreUnchanged ==
    ASSUME StoreInv, UNCHANGED <<files, db, gc, boot, torn, cut>>
    PROVE  StoreInv'
BY DEF StoreInv, files, db, gc, boot, IsTable

LEMMA GotoRequestInv ==
    ASSUME RequestInv, NEW r \in DOMAIN req, NEW p \in Pc \ {"create"},
           Goto(r, p), p \in Finalizing => req[r].digest \in Digest,
           req[r].id \in DOMAIN data', DOMAIN data \subseteq DOMAIN data'
    PROVE  RequestInv'
<1>1. /\ IsTable(req', Request, RequestState)
      /\ DOMAIN req' = DOMAIN req
      /\ req'[r] = [req[r] EXCEPT !.pc = p]
      /\ \A s \in DOMAIN req : s # r => req'[s] = req[s]
  BY GotoEffect DEF RequestInv
<1>2. req[r] \in RequestState
  BY DEF RequestInv, IsTable
<1>3. req'[r].pc = p /\ req'[r].id = req[r].id /\ req'[r].digest = req[r].digest
  BY <1>1, <1>2 DEF RequestState
<1>4. ASSUME NEW s \in DOMAIN req
      PROVE  /\ req'[s].pc # "create" => req'[s].id \in DOMAIN data'
             /\ req'[s].pc \in Finalizing => req'[s].digest \in Digest
  <2>1. CASE s = r
    BY <1>3, <2>1
  <2>2. CASE s # r
    BY <1>1, <2>2 DEF RequestInv
  <2> QED BY <2>1, <2>2
<1> QED BY <1>1, <1>4 DEF RequestInv

LEMMA EndRequestInv ==
    ASSUME RequestInv, NEW r, End(r), DOMAIN data \subseteq DOMAIN data'
    PROVE  RequestInv'
<1>1. /\ IsTable(req', Request, RequestState)
      /\ DOMAIN req' = DOMAIN req \ {r}
      /\ \A s \in DOMAIN req' : req'[s] = req[s]
  BY EndEffect DEF RequestInv
<1> QED BY <1>1 DEF RequestInv

LEMMA BeginRequestInv ==
    ASSUME RequestInv, NEW r \in Request,
           NEW u \in Upload, NEW p \in Repo, NEW pc \in Pc \ Finalizing,
           NEW d \in Digest \cup {NoDigest}, NEW o \in Nat,
           Begin(r, u, p, pc, d, o), UNCHANGED data,
           pc # "create" => u \in DOMAIN data
    PROVE  RequestInv'
<1>1. /\ IsTable(req', Request, RequestState)
      /\ DOMAIN req' = DOMAIN req \cup {r}
      /\ req'[r] = [pc |-> pc, id |-> u, repo |-> p, digest |-> d,
                    pos |-> o, seen |-> <<>>]
      /\ \A s \in DOMAIN req : s # r /\ req'[s] = req[s]
  BY BeginEffect DEF RequestInv
<1>2. req'[r].pc = pc /\ req'[r].id = u
  BY <1>1
<1> QED BY <1>1, <1>2 DEF RequestInv

\* A step of an arriving request leaves everything but the requests alone.
LEMMA ArriveType ==
    ASSUME TypeInv, NEW r \in Request, Arrive(r)
    PROVE  TypeInv'
<1> USE DEF TypeInv
<1>0. \A n \in 0..MaxBlocks : n \in Nat
  BY BoundAssumption
<1>1. PICK u \in Upload, p \in Repo :
        \/ StartUpload(r, u, p)
        \/ \E o \in 0..MaxBlocks : PatchUpload(r, u, p, o)
        \/ \E d \in Digest : PutUpload(r, u, p, d)
        \/ CancelUpload(r, u, p)
  BY DEF Arrive
<1>2. CASE StartUpload(r, u, p)
  <2>1. Begin(r, u, p, "create", NoDigest, 0) /\ UNCHANGED data
    BY <1>2 DEF StartUpload, files
  <2>2. RequestInv'
    BY <2>1, BeginRequestInv DEF Pc, Finalizing
  <2> QED BY <1>2, <2>2, StoreUnchanged DEF StartUpload
<1>3. ASSUME NEW o \in 0..MaxBlocks, PatchUpload(r, u, p, o) PROVE TypeInv'
  <2>1. /\ Begin(r, u, p, "check", NoDigest, o)
        /\ UNCHANGED data /\ u \in DOMAIN data
    BY <1>3 DEF PatchUpload, BeginOn, files
  <2>2. RequestInv'
    BY <1>0, <2>1, BeginRequestInv DEF Pc, Finalizing
  <2> QED BY <1>3, <2>2, StoreUnchanged DEF PatchUpload
<1>4. ASSUME NEW d \in Digest, PutUpload(r, u, p, d) PROVE TypeInv'
  <2>1. /\ Begin(r, u, p, "check", d, sessions[u].offset)
        /\ UNCHANGED data /\ u \in DOMAIN data
        /\ u \in DOMAIN sessions
    BY <1>4 DEF PutUpload, BeginOn, files, Owned
  <2>2. sessions[u].offset \in Nat
    BY <2>1 DEF StoreInv, IsTable, Session
  <2>3. RequestInv'
    BY <2>1, <2>2, BeginRequestInv DEF Pc, Finalizing
  <2> QED BY <1>4, <2>3, StoreUnchanged DEF PutUpload
<1>5. CASE CancelUpload(r, u, p)
  <2>1. /\ Begin(r, u, p, "row", NoDigest, 0)
        /\ UNCHANGED data /\ u \in DOMAIN data
    BY <1>5 DEF CancelUpload, BeginOn, files
  <2>2. RequestInv'
    BY <2>1, BeginRequestInv DEF Pc, Finalizing
  <2> QED BY <1>5, <2>2, StoreUnchanged DEF CancelUpload
<1> QED BY <1>1, <1>2, <1>3, <1>4, <1>5

\* The steps of a handler that touch nothing but the state of its request.
LEMMA ReadOnlyStepType ==
    ASSUME TypeInv, NEW r \in Request,
           \/ CheckOffset(r) \/ OpenUpload(r) \/ EndOfBody(r) \/ RequireUpload(r)
           \/ OpenReader(r) \/ DropWriter(r)
    PROVE  TypeInv'
<1> USE DEF TypeInv
<1>1. UNCHANGED <<files, db, gc, boot, torn, cut>> /\ r \in DOMAIN req
  BY DEF CheckOffset, OpenUpload, EndOfBody, RequireUpload, OpenReader,
         DropWriter, At
<1>2. UNCHANGED data
  BY <1>1 DEF files
<1>3. End(r) \/ \E p \in Pc \ {"create"} :
                   /\ Goto(r, p)
                   /\ p \in Finalizing => req[r].pc \in Finalizing
                   /\ req[r].pc # "create"
  BY DEF CheckOffset, OpenUpload, EndOfBody, RequireUpload, OpenReader,
         DropWriter, At, Pc, Finalizing
<1>4. CASE End(r)
  BY <1>1, <1>2, <1>4, EndRequestInv, StoreUnchanged
<1>5. ASSUME NEW p \in Pc \ {"create"}, Goto(r, p), req[r].pc # "create",
             p \in Finalizing => req[r].pc \in Finalizing
      PROVE  TypeInv'
  <2>1. /\ p \in Finalizing => req[r].digest \in Digest
        /\ req[r].id \in DOMAIN data
    BY <1>1, <1>5 DEF RequestInv
  <2>2. RequestInv'
    BY <1>1, <1>2, <1>5, <2>1, GotoRequestInv
  <2> QED BY <1>1, <2>2, StoreUnchanged
<1> QED BY <1>3, <1>4, <1>5

LEMMA CreateUploadType ==
    ASSUME TypeInv, NEW r \in Request, CreateUpload(r)
    PROVE  TypeInv'
<1> USE DEF TypeInv
<1>1. /\ r \in DOMAIN req /\ Goto(r, "insert")
      /\ data' = With(data, req[r].id, <<>>)
      /\ uploads' = uploads \cup {req[r].id}
      /\ UNCHANGED <<blobs, sessions, links, job, gcList, gcFile, startup, listed, torn, cut>>
  BY DEF CreateUpload, At, db, gc, boot
<1>2. req[r].id \in Upload
  BY <1>1, RequestFields
<1>3. IsTable(data', Upload, Seq(Block)) /\ DOMAIN data' = DOMAIN data \cup {req[r].id}
  BY <1>1, <1>2 DEF StoreInv, IsTable, With
<1>4. StoreInv'
  BY <1>1, <1>3 DEF StoreInv, IsTable
<1>5. RequestInv'
  BY <1>1, <1>3, GotoRequestInv DEF Pc, Finalizing
<1> QED BY <1>4, <1>5

LEMMA InsertSessionType ==
    ASSUME TypeInv, NEW r \in Request, InsertSession(r)
    PROVE  TypeInv'
<1> USE DEF TypeInv
<1> DEFINE row == [repo |-> req[r].repo, offset |-> 0, expired |-> FALSE]
<1>1. /\ r \in DOMAIN req /\ req[r].pc = "insert" /\ End(r)
      /\ sessions' = With(sessions, req[r].id, row)
      /\ UNCHANGED <<data, uploads, blobs, links, job, gcList, gcFile, startup, listed, torn, cut>>
  BY DEF InsertSession, At, files, gc, boot
<1>2. req[r].id \in Upload /\ req[r].id \in DOMAIN data /\ row \in Session
  BY <1>1, RequestFields DEF RequestInv, Session
<1> HIDE DEF row
<1>3. /\ IsTable(sessions', Upload, Session)
      /\ DOMAIN sessions' = DOMAIN sessions \cup {req[r].id}
  BY <1>1, <1>2 DEF StoreInv, IsTable, With
<1>4. StoreInv'
  BY <1>1, <1>2, <1>3 DEF StoreInv, IsTable
<1> QED BY <1>1, <1>4, EndRequestInv

\* Writing a block of a body, by a handler or after it.
LEMMA WriteType ==
    ASSUME TypeInv, NEW u \in DOMAIN data, NEW i \in Nat, NEW b \in Block,
           data' = [data EXCEPT ![u] = WriteAt(@, i, b)],
           UNCHANGED <<uploads, blobs, db, gc, boot, torn, cut>>
    PROVE  StoreInv' /\ DOMAIN data' = DOMAIN data
<1>1. data[u] \in Seq(Block)
  BY DEF TypeInv, StoreInv, IsTable
<1>2. WriteAt(data[u], i, b) \in Seq(Block)
  BY <1>1, WriteAtType
<1>3. IsTable(data', Upload, Seq(Block)) /\ DOMAIN data' = DOMAIN data
  BY <1>2 DEF TypeInv, StoreInv, IsTable
<1> QED BY <1>3 DEF TypeInv, StoreInv, IsTable, db, gc, boot

LEMMA WriteBlockType ==
    ASSUME TypeInv, NEW r \in Request, NEW b \in Block,
           WriteBlock(r, b) \/ LateWrite(r, b)
    PROVE  TypeInv'
<1> USE DEF TypeInv
<1>1. /\ r \in DOMAIN req /\ req[r].pc \in {"write", "late"}
      /\ UNCHANGED <<uploads, blobs, db, gc, boot, torn, cut>>
  BY DEF WriteBlock, LateWrite, At
<1>2. req[r].id \in DOMAIN data /\ req[r].pos \in Nat
  BY <1>1, RequestFields DEF RequestInv
<1>3. StoreInv' /\ DOMAIN data' = DOMAIN data
  <2>1. CASE data' = [data EXCEPT ![req[r].id] = WriteAt(@, req[r].pos, b)]
    BY <1>1, <1>2, <2>1, WriteType
  <2>2. CASE data' = data
    BY <1>1, <2>2, StoreUnchanged DEF files
  <2> QED BY <2>1, <2>2 DEF WriteBlock, LateWrite
<1>4. CASE WriteBlock(r, b)
  <2> DEFINE q == [req[r] EXCEPT !.pos = @ + 1]
  <2>1. req[r] \in RequestState
    BY <1>1 DEF RequestInv, IsTable
  <2>2. q \in RequestState /\ q.pc = req[r].pc /\ q.id = req[r].id
    BY <1>1, <2>1 DEF RequestState
  <2>3. req' = [req EXCEPT ![r] = q]
    BY <1>4 DEF WriteBlock
  <2> HIDE DEF q
  <2>4. RequestInv'
    BY <1>1, <1>3, <2>2, <2>3 DEF RequestInv, IsTable, Finalizing
  <2> QED BY <1>3, <2>4
<1>5. CASE LateWrite(r, b)
  BY <1>3, <1>5, EndRequestInv DEF LateWrite
<1> QED BY <1>4, <1>5

LEMMA UpdateSessionType ==
    ASSUME TypeInv, NEW r \in Request, UpdateSession(r)
    PROVE  TypeInv'
<1> USE DEF TypeInv
<1>1. /\ r \in DOMAIN req /\ req[r].pc = "update"
      /\ UNCHANGED <<data, uploads, blobs, links, job, gcList, gcFile, startup, listed, torn, cut>>
  BY DEF UpdateSession, At, files, gc, boot
<1>2. RequestInv'
  <2>1. CASE End(r)
    BY <1>1, <2>1, EndRequestInv
  <2>2. CASE Goto(r, "require") /\ req[r].digest # NoDigest
    <3>1. req[r].digest \in Digest /\ req[r].id \in DOMAIN data
      BY <1>1, <2>2, RequestFields DEF RequestInv
    <3> QED BY <1>1, <2>2, <3>1, GotoRequestInv DEF Pc
  <2> QED BY <2>1, <2>2 DEF UpdateSession
<1>3. IsTable(sessions', Upload, Session) /\ DOMAIN sessions' = DOMAIN sessions
  <2> DEFINE u == req[r].id
             row == [sessions[u] EXCEPT !.offset = req[r].pos, !.expired = FALSE]
  <2>1. CASE u \in DOMAIN sessions
    <3>1. sessions[u] \in Session /\ req[r].pos \in Nat
      BY <1>1, <2>1, RequestFields DEF StoreInv, IsTable
    <3>2. row \in Session
      BY <3>1 DEF Session
    <3>3. sessions' = [sessions EXCEPT ![u] = row]
      BY <2>1 DEF UpdateSession
    <3> HIDE DEF row
    <3> QED BY <2>1, <3>2, <3>3 DEF StoreInv, IsTable
  <2>2. CASE u \notin DOMAIN sessions
    BY <2>2 DEF UpdateSession, StoreInv, IsTable
  <2> QED BY <2>1, <2>2
<1>4. StoreInv'
  BY <1>1, <1>3 DEF StoreInv, IsTable
<1> QED BY <1>2, <1>4

\* compute_digest only fills in what it has read.
LEMMA HashBlockType ==
    ASSUME TypeInv, NEW r \in Request, HashBlock(r)
    PROVE  TypeInv'
<1> USE DEF TypeInv
<1> DEFINE c == data[req[r].id]
           n == Len(req[r].seen)
           q == [req[r] EXCEPT !.seen = Append(@, c[n + 1])]
<1>1. /\ r \in DOMAIN req /\ req[r].pc = "hash" /\ n < Len(c)
      /\ UNCHANGED <<files, db, gc, boot, torn, cut>>
  BY DEF HashBlock, At
<1>2. req[r] \in RequestState /\ req[r].id \in DOMAIN data /\ req[r].seen \in Seq(Block)
  BY <1>1, RequestFields DEF RequestInv, IsTable
<1>3. c \in Seq(Block)
  BY <1>2 DEF StoreInv, IsTable
<1>4. c[n + 1] \in Block
  BY <1>1, <1>2, <1>3
<1>5. q \in RequestState /\ q.pc = req[r].pc /\ q.id = req[r].id /\ q.digest = req[r].digest
  <2> DEFINE seen == Append(req[r].seen, c[n + 1])
  <2>1. seen \in Seq(Block)
    BY <1>2, <1>4
  <2>2. q = [req[r] EXCEPT !.seen = seen]
    OBVIOUS
  <2> HIDE DEF seen
  <2> QED BY <1>2, <2>1, <2>2 DEF RequestState
<1>6. req' = [req EXCEPT ![r] = q]
  BY DEF HashBlock
<1> HIDE DEF q
<1>7. RequestInv'
  BY <1>1, <1>5, <1>6 DEF RequestInv, IsTable, files
<1> QED BY <1>1, <1>7, StoreUnchanged

LEMMA CompareDigestType ==
    ASSUME TypeInv, NEW r \in Request, CompareDigest(r)
    PROVE  TypeInv'
<1> USE DEF TypeInv
<1> DEFINE q == [req[r] EXCEPT !.pc = "rename", !.seen = <<>>]
<1>1. /\ r \in DOMAIN req /\ req[r].pc = "hash"
      /\ UNCHANGED <<files, db, gc, boot, torn, cut>>
  BY DEF CompareDigest, At
<1>2. CASE End(r)
  BY <1>1, <1>2, EndRequestInv, StoreUnchanged DEF files
<1>3. CASE req' = [req EXCEPT ![r] = q]
  <2>1. req[r] \in RequestState
    BY <1>1 DEF RequestInv, IsTable
  <2>2. q \in RequestState /\ q.pc = "rename" /\ q.id = req[r].id /\ q.digest = req[r].digest
    <3>1. <<>> \in Seq(Block)
      OBVIOUS
    <3> QED BY <2>1, <3>1 DEF RequestState, Pc
  <2> HIDE DEF q
  <2>3. RequestInv'
    BY <1>1, <1>3, <2>2 DEF RequestInv, IsTable, files, Finalizing
  <2> QED BY <1>1, <2>3, StoreUnchanged
<1>4. End(r) \/ req' = [req EXCEPT ![r] = q]
  BY DEF CompareDigest
<1> QED BY <1>2, <1>3, <1>4

LEMMA RenameToBlobType ==
    ASSUME TypeInv, NEW r \in Request, RenameToBlob(r)
    PROVE  TypeInv'
<1> USE DEF TypeInv
<1>1. /\ r \in DOMAIN req /\ req[r].pc = "rename"
      /\ UNCHANGED <<data, sessions, links, job, gcList, gcFile, startup, listed, torn, cut>>
  BY DEF RenameToBlob, At, db, gc, boot
<1>2. /\ req[r].digest \in Digest /\ req[r].id \in Upload
      /\ req[r].id \in DOMAIN data
  BY <1>1, RequestFields DEF RequestInv, Finalizing
<1>3. CASE req[r].id \in uploads
  <2>1. /\ uploads' = uploads \ {req[r].id} /\ Goto(r, "stat")
        /\ blobs' = With(blobs, req[r].digest, req[r].id)
    BY <1>3 DEF RenameToBlob
  <2>2. RequestInv'
    BY <1>1, <1>2, <2>1, GotoRequestInv DEF Pc
  <2>3. /\ IsTable(blobs', Digest, Upload)
        /\ \A d \in DOMAIN blobs' : blobs'[d] \in DOMAIN data
    BY <1>2, <2>1 DEF StoreInv, IsTable, With
  <2>4. StoreInv'
    BY <1>1, <2>1, <2>3 DEF StoreInv, IsTable
  <2> QED BY <2>2, <2>4
<1>4. CASE req[r].id \notin uploads
  <2>1. End(r) /\ UNCHANGED <<uploads, blobs>>
    BY <1>4 DEF RenameToBlob
  <2>2. StoreInv'
    BY <1>1, <2>1 DEF StoreInv, IsTable
  <2> QED BY <1>1, <2>1, <2>2, EndRequestInv
<1> QED BY <1>3, <1>4

LEMMA StatBlobType ==
    ASSUME TypeInv, NEW r \in Request, StatBlob(r)
    PROVE  TypeInv'
<1> USE DEF TypeInv
<1> DEFINE n == Len(data[blobs[req[r].digest]])
           q == [req[r] EXCEPT !.pc = "commit", !.pos = n]
<1>1. /\ r \in DOMAIN req /\ req[r].pc = "stat"
      /\ UNCHANGED <<files, db, gc, boot, torn>>
      /\ cut' \subseteq cut \cup {req[r].id}
  BY DEF StatBlob, At
<1>5. StoreInv'
  <2>1. req[r].id \in Upload
    BY <1>1, RequestFields
  <2> QED BY <1>1, <2>1 DEF StoreInv, files, db, gc, boot, IsTable
<1>2. CASE End(r)
  BY <1>1, <1>2, <1>5, EndRequestInv DEF files
<1>3. CASE req[r].digest \in DOMAIN blobs /\ req' = [req EXCEPT ![r] = q]
  <2>1. req[r] \in RequestState
    BY <1>1 DEF RequestInv, IsTable
  <2>2. data[blobs[req[r].digest]] \in Seq(Block)
    <3>1. blobs[req[r].digest] \in DOMAIN data
      BY <1>3 DEF StoreInv
    <3> QED BY <3>1 DEF StoreInv, IsTable
  <2>3. n \in Nat
    BY <2>2
  <2>4. q \in RequestState /\ q.pc = "commit" /\ q.id = req[r].id /\ q.digest = req[r].digest
    BY <2>1, <2>3 DEF RequestState, Pc
  <2> HIDE DEF q
  <2>5. RequestInv'
    BY <1>1, <1>3, <2>4 DEF RequestInv, IsTable, files, Finalizing
  <2> QED BY <1>5, <2>5
<1>4. \/ End(r)
      \/ req[r].digest \in DOMAIN blobs /\ req' = [req EXCEPT ![r] = q]
  BY DEF StatBlob
<1> QED BY <1>2, <1>3, <1>4

LEMMA CommitLinkType ==
    ASSUME TypeInv, NEW r \in Request, CommitLink(r)
    PROVE  TypeInv'
<1> USE DEF TypeInv
<1>1. /\ r \in DOMAIN req /\ req[r].pc = "commit" /\ End(r)
      /\ links' = With(links, <<req[r].repo, req[r].digest>>, req[r].pos)
      /\ sessions' = Without(sessions, req[r].id)
      /\ UNCHANGED <<data, uploads, blobs, job, gcList, gcFile, startup, listed, torn, cut>>
  BY DEF CommitLink, At, files, gc, boot
<1>2. /\ <<req[r].repo, req[r].digest>> \in Repo \X Digest
      /\ req[r].pos \in Nat
  BY <1>1, RequestFields DEF RequestInv, Finalizing
<1>3. IsTable(links', Repo \X Digest, Nat)
  BY <1>1, <1>2 DEF StoreInv, IsTable, With
<1>4. IsTable(sessions', Upload, Session) /\ DOMAIN sessions' \subseteq DOMAIN sessions
  BY <1>1 DEF StoreInv, IsTable, Without
<1>5. StoreInv'
  BY <1>1, <1>3, <1>4 DEF StoreInv, IsTable
<1> QED BY <1>1, <1>5, EndRequestInv

LEMMA CancelType ==
    ASSUME TypeInv, NEW r \in Request, DeleteSession(r) \/ AbortUpload(r)
    PROVE  TypeInv'
<1> USE DEF TypeInv
<1>1. CASE DeleteSession(r)
  <2>1. /\ r \in DOMAIN req /\ req[r].pc = "row" /\ Goto(r, "abort")
        /\ sessions' = Without(sessions, req[r].id)
        /\ UNCHANGED <<data, uploads, blobs, links, job, gcList, gcFile, startup, listed, torn, cut>>
    BY <1>1 DEF DeleteSession, At, files, gc, boot
  <2>2. IsTable(sessions', Upload, Session) /\ DOMAIN sessions' \subseteq DOMAIN sessions
    BY <2>1 DEF StoreInv, IsTable, Without
  <2>3. StoreInv'
    BY <2>1, <2>2 DEF StoreInv, IsTable
  <2>4. req[r].id \in DOMAIN data
    BY <2>1 DEF RequestInv
  <2> QED BY <2>1, <2>3, <2>4, GotoRequestInv DEF Pc, Finalizing
<1>2. CASE AbortUpload(r)
  <2>1. /\ uploads' \subseteq uploads /\ End(r)
        /\ UNCHANGED <<data, blobs, sessions, links, job, gcList, gcFile, startup, listed, torn, cut>>
    BY <1>2 DEF AbortUpload, db, gc, boot
  <2>2. StoreInv'
    BY <2>1 DEF StoreInv, IsTable
  <2> QED BY <2>1, <2>2, EndRequestInv
<1> QED BY <1>1, <1>2

LEMMA DropRequestType ==
    ASSUME TypeInv, NEW r \in Request, DropRequest(r)
    PROVE  TypeInv'
<1> USE DEF TypeInv
<1>1. /\ r \in DOMAIN req /\ End(r)
      /\ torn' \subseteq torn \cup {req[r].id}
      /\ cut' \subseteq cut \cup {req[r].id}
      /\ UNCHANGED <<data, uploads, blobs, sessions, links, job, gcList, gcFile, startup, listed>>
  BY DEF DropRequest, files, db, gc, boot
<1>2. req[r].id \in Upload
  BY <1>1, RequestFields
<1>3. StoreInv'
  BY <1>1, <1>2 DEF StoreInv, IsTable
<1> QED BY <1>1, <1>3, EndRequestInv

\* Collections and the start touch no request but by ending them all.
LEMMA BackgroundType ==
    ASSUME TypeInv,
           Background
    PROVE  TypeInv'
<1> USE DEF TypeInv
<1>1. ASSUME NEW u \in Upload, Expire(u) PROVE TypeInv'
  <2> DEFINE row == [sessions[u] EXCEPT !.expired = TRUE]
  <2>1. /\ u \in DOMAIN sessions /\ sessions' = [sessions EXCEPT ![u] = row]
        /\ UNCHANGED <<data, uploads, blobs, links, req, job, gcList, gcFile, startup, listed, torn, cut>>
    BY <1>1 DEF Expire, files, gc, boot
  <2>2. row \in Session
    BY <2>1 DEF StoreInv, IsTable, Session
  <2> HIDE DEF row
  <2>3. IsTable(sessions', Upload, Session) /\ DOMAIN sessions' = DOMAIN sessions
    BY <2>1, <2>2 DEF StoreInv, IsTable
  <2> QED BY <2>1, <2>3 DEF StoreInv, RequestInv, IsTable
<1>2. ASSUME NEW u \in Upload, GcDeleteSession(u) PROVE TypeInv'
  <2>1. /\ sessions' = Without(sessions, u) /\ gcList' \subseteq gcList /\ gcFile' = {}
        /\ UNCHANGED <<data, uploads, blobs, links, req, job, startup, listed, torn, cut>>
    BY <1>2 DEF GcDeleteSession, files, boot
  <2>2. IsTable(sessions', Upload, Session) /\ DOMAIN sessions' \subseteq DOMAIN sessions
    BY <2>1 DEF StoreInv, IsTable, Without
  <2> QED BY <2>1, <2>2 DEF StoreInv, RequestInv, IsTable
<1>3. ASSUME NEW u \in Upload, GcAbortUpload(u) \/ CleanUpload(u) PROVE TypeInv'
  BY <1>3 DEF GcAbortUpload, CleanUpload, db, gc, boot, StoreInv, RequestInv, IsTable
<1>4. CASE GcListExpired \/ GcEnd \/ GcFail \/ LoseJob \/ Serve
  <2>1. DOMAIN sessions \subseteq Upload
    BY DEF StoreInv, IsTable
  <2> QED
    BY <1>4, <2>1 DEF GcListExpired, GcEnd, GcFail, LoseJob, Serve, files, db, gc,
       boot, StoreInv, RequestInv, IsTable
<1>5. CASE Crash
  <2>1. RequestInv'
    BY <1>5 DEF Crash, RequestInv, IsTable, Empty
  <2>2. uploads \subseteq Upload
    BY DEF StoreInv, IsTable
  <2>3. \A s \in DOMAIN req : req[s].id \in Upload
    BY RequestFields
  <2>4. cut' \subseteq Upload
    BY <1>5, <2>3 DEF Crash, StoreInv
  <2>5. job' \in {"idle", "running", "lost"}
    BY <1>5 DEF Crash, StoreInv
  <2> QED BY <1>5, <2>1, <2>2, <2>4, <2>5 DEF Crash, files, db, StoreInv, IsTable
<1>6. ASSUME NEW d \in Digest, DiscardBlob(d) PROVE TypeInv'
  <2>1. /\ IsTable(blobs', Digest, Upload)
        /\ \A e \in DOMAIN blobs' : blobs'[e] \in DOMAIN data
    BY <1>6 DEF DiscardBlob, Without, StoreInv, IsTable
  <2> QED BY <1>6, <2>1 DEF DiscardBlob, db, gc, boot, StoreInv, RequestInv, IsTable
<1> QED BY <1>1, <1>2, <1>3, <1>4, <1>5, <1>6 DEF Background, Collect

LEMMA TypeStep == TypeInv /\ [Next]_vars => TypeInv'
<1> SUFFICES ASSUME TypeInv, [Next]_vars PROVE TypeInv'
  OBVIOUS
<1>1. ASSUME NEW r \in Request, Handle(r) \/ DropWriter(r) PROVE TypeInv'
  BY <1>1, ReadOnlyStepType, CreateUploadType, InsertSessionType, WriteBlockType,
     UpdateSessionType, HashBlockType, CompareDigestType, RenameToBlobType,
     StatBlobType, CommitLinkType, CancelType DEF Handle
<1>2. CASE UNCHANGED vars
  BY <1>2 DEF vars, files, db, gc, boot, TypeInv, StoreInv, RequestInv, IsTable
<1> QED
  BY <1>1, <1>2, ArriveType, DropRequestType, BackgroundType DEF Next

LEMMA TypeInit == Init => TypeInv
BY DEF Init, Empty, TypeInv, StoreInv, RequestInv, IsTable

LEMMA TypeInvariant == Spec => []TypeInv
BY TypeInit, TypeStep, PTL DEF Spec

\* Every variable has its type, for any number of requests, uploads and blocks.
THEOREM TypeCorrect == Spec => []TypeOK
BY TypeInvariant, TypeInvImpliesTypeOK, PTL

-----------------------------------------------------------------------------
(* The offset of a session is covered by its file *)

\* A step in the background writes no content, adds no path and no row, links
\* nothing, and touches no request but by ending them all.
LEMMA BackgroundEffect ==
    ASSUME Background
    PROVE  /\ UNCHANGED <<data, links>>
           /\ uploads' \subseteq uploads
           /\ "push" \notin Faults => UNCHANGED blobs
           /\ DOMAIN sessions' \subseteq DOMAIN sessions
           /\ req' = req \/ req' = Empty
BY DEF Background, Expire, Collect, GcAbortUpload, GcDeleteSession, CleanUpload,
       GcListExpired, GcEnd, GcFail, LoseJob, DiscardBlob, Crash, Serve, Without,
       files, db

\* Every step of a handler but its arrival: request r moves on or ends, keeps
\* what it was asked for, and the other requests are left alone.
LEMMA HandlerEffect ==
    ASSUME TypeInv, NEW r \in Request,
           Handle(r) \/ DropRequest(r) \/ DropWriter(r)
    PROVE  /\ r \in DOMAIN req
           /\ DOMAIN req' \subseteq DOMAIN req
           /\ \A s \in DOMAIN req' :
                /\ s # r => req'[s] = req[s]
                /\ req'[s].id = req[s].id
                /\ req'[s].repo = req[s].repo
                /\ req'[s].digest = req[s].digest
           /\ r \in DOMAIN req' => req'[r].pc # "create"
<1>1. /\ r \in DOMAIN req
      /\ req[r] \in RequestState
      /\ IsTable(req, Request, RequestState)
  BY DEF Handle, DropRequest, DropWriter, CreateUpload, InsertSession,
         CheckOffset, OpenUpload, WriteBlock, EndOfBody, UpdateSession,
         RequireUpload, OpenReader, HashBlock, CompareDigest, RenameToBlob,
         StatBlob, CommitLink, DeleteSession, AbortUpload, LateWrite, At,
         TypeInv, RequestInv, IsTable
<1>2. CASE End(r)
  BY <1>1, <1>2, EndEffect
<1>3. ASSUME NEW p \in Pc \ {"create"}, Goto(r, p)
      PROVE  /\ DOMAIN req' = DOMAIN req
             /\ req'[r].pc = p
             /\ \A s \in DOMAIN req :
                  /\ s # r => req'[s] = req[s]
                  /\ req'[s].id = req[s].id
                  /\ req'[s].repo = req[s].repo
                  /\ req'[s].digest = req[s].digest
  <2>1. /\ DOMAIN req' = DOMAIN req
        /\ req'[r] = [req[r] EXCEPT !.pc = p]
        /\ \A s \in DOMAIN req : s # r => req'[s] = req[s]
    BY <1>1, <1>3, GotoEffect
  <2> QED BY <1>1, <2>1 DEF RequestState
<1>4. ASSUME NEW q, req' = [req EXCEPT ![r] = q], q.id = req[r].id,
             q.repo = req[r].repo, q.digest = req[r].digest, q.pc # "create"
      PROVE  /\ DOMAIN req' = DOMAIN req
             /\ req'[r].pc # "create"
             /\ \A s \in DOMAIN req :
                  /\ s # r => req'[s] = req[s]
                  /\ req'[s].id = req[s].id
                  /\ req'[s].repo = req[s].repo
                  /\ req'[s].digest = req[s].digest
  BY <1>1, <1>4
<1>5. CASE \E b \in Block : WriteBlock(r, b)
  <2> DEFINE q == [req[r] EXCEPT !.pos = @ + 1]
  <2>1. req' = [req EXCEPT ![r] = q] /\ req[r].pc = "write"
    BY <1>5 DEF WriteBlock, At
  <2>2. /\ q.id = req[r].id /\ q.repo = req[r].repo /\ q.digest = req[r].digest
        /\ q.pc = req[r].pc
    BY <1>1 DEF RequestState
  <2> HIDE DEF q
  <2> QED BY <1>1, <1>4, <2>1, <2>2
<1>6. CASE HashBlock(r)
  <2> DEFINE seen == Append(req[r].seen, data[req[r].id][Len(req[r].seen) + 1])
             q == [req[r] EXCEPT !.seen = seen]
  <2>1. req' = [req EXCEPT ![r] = q] /\ req[r].pc = "hash"
    BY <1>6 DEF HashBlock, At
  <2> HIDE DEF seen
  <2>2. /\ q.id = req[r].id /\ q.repo = req[r].repo /\ q.digest = req[r].digest
        /\ q.pc = req[r].pc
    BY <1>1 DEF RequestState
  <2> HIDE DEF q
  <2> QED BY <1>1, <1>4, <2>1, <2>2
<1>7. CASE CompareDigest(r) /\ ~End(r)
  <2> DEFINE q == [req[r] EXCEPT !.pc = "rename", !.seen = <<>>]
  <2>1. req' = [req EXCEPT ![r] = q]
    BY <1>7 DEF CompareDigest
  <2>2. /\ q.id = req[r].id /\ q.repo = req[r].repo /\ q.digest = req[r].digest
        /\ q.pc = "rename"
    BY <1>1 DEF RequestState
  <2> HIDE DEF q
  <2> QED BY <1>1, <1>4, <2>1, <2>2
<1>8. CASE StatBlob(r) /\ ~End(r)
  <2> DEFINE n == Len(data[blobs[req[r].digest]])
             q == [req[r] EXCEPT !.pc = "commit", !.pos = n]
  <2>1. req' = [req EXCEPT ![r] = q]
    BY <1>8 DEF StatBlob
  <2> HIDE DEF n
  <2>2. /\ q.id = req[r].id /\ q.repo = req[r].repo /\ q.digest = req[r].digest
        /\ q.pc = "commit"
    BY <1>1 DEF RequestState
  <2> HIDE DEF q
  <2> QED BY <1>1, <1>4, <2>1, <2>2
<1>9. \/ End(r)
      \/ \E p \in Pc \ {"create"} : Goto(r, p)
      \/ \E b \in Block : WriteBlock(r, b)
      \/ HashBlock(r)
      \/ CompareDigest(r) /\ ~End(r)
      \/ StatBlob(r) /\ ~End(r)
  BY DEF Handle, DropRequest, DropWriter, CreateUpload, InsertSession,
         CheckOffset, OpenUpload, EndOfBody, UpdateSession, RequireUpload,
         OpenReader, RenameToBlob, CommitLink, DeleteSession, AbortUpload,
         LateWrite, Pc
<1> QED BY <1>1, <1>2, <1>3, <1>5, <1>6, <1>7, <1>8, <1>9

\* pcs at which pos is a place in the upload file.
Writing == {"open", "write", "late", "update"}

\* An id drawn by a POST is new: no file has it and no other request.
FreshInv ==
    \A r \in DOMAIN req :
        req[r].pc = "create" =>
            /\ req[r].id \notin DOMAIN data
            /\ \A s \in DOMAIN req : s # r => req[s].id # req[r].id

\* Whatever was written up to the position of a request is in the file, even
\* when another request of the session is writing at the same time.
PositionCovered ==
    \A r \in DOMAIN req :
        req[r].pc \in Writing => req[r].pos <= Len(data[req[r].id])

CoverInv == FreshInv /\ PositionCovered /\ OffsetCovered

\* No file ever becomes shorter.
FilesGrow ==
    \A u \in DOMAIN data : u \in DOMAIN data' /\ Len(data'[u]) >= Len(data[u])

LEMMA WriteGrows ==
    ASSUME TypeInv, NEW u \in DOMAIN data, NEW i \in Nat, NEW b \in Block,
           data' = [data EXCEPT ![u] = WriteAt(@, i, b)]
    PROVE  FilesGrow /\ Len(data'[u]) >= i + 1
<1>1. \A v \in DOMAIN data : data[v] \in Seq(Block) /\ Len(data[v]) \in Nat
  BY DEF TypeInv, StoreInv, IsTable
<1>2. /\ Len(WriteAt(data[u], i, b)) >= Len(data[u])
      /\ Len(WriteAt(data[u], i, b)) >= i + 1
  BY <1>1, WriteAtType
<1>3. /\ DOMAIN data' = DOMAIN data
      /\ data'[u] = WriteAt(data[u], i, b)
      /\ \A v \in DOMAIN data : v # u => data'[v] = data[v]
  OBVIOUS
<1> QED BY <1>1, <1>2, <1>3 DEF FilesGrow

LEMMA SameFilesGrow == ASSUME TypeInv, UNCHANGED data PROVE FilesGrow
<1>1. \A v \in DOMAIN data : Len(data[v]) \in Nat
  BY DEF TypeInv, StoreInv, IsTable
<1> QED BY <1>1 DEF FilesGrow

\* A step that writes no row of a session but at most deletes some.
LEMMA RowsKept ==
    ASSUME TypeInv, TypeInv', FilesGrow, OffsetCovered,
           \A u \in DOMAIN sessions' :
               u \in DOMAIN sessions /\ sessions'[u].offset = sessions[u].offset
    PROVE  OffsetCovered'
<1>1. \A u \in DOMAIN sessions :
        /\ sessions[u].offset \in Nat
        /\ u \in DOMAIN data /\ Len(data[u]) \in Nat
        /\ u \in DOMAIN data' /\ Len(data'[u]) \in Nat
  BY DEF TypeInv, StoreInv, IsTable, Session, FilesGrow
<1> QED BY <1>1 DEF OffsetCovered, FilesGrow

\* A step of request r keeps FreshInv unless it creates a file.
LEMMA HandlerFresh ==
    ASSUME TypeInv, FreshInv, NEW r \in Request,
           Handle(r) \/ DropRequest(r) \/ DropWriter(r),
           DOMAIN data' = DOMAIN data
    PROVE  FreshInv'
BY HandlerEffect DEF FreshInv

\* A step of request r keeps the others covered; it remains to look at r.
LEMMA HandlerCovered ==
    ASSUME TypeInv, TypeInv', PositionCovered, FilesGrow, NEW r \in Request,
           Handle(r) \/ DropRequest(r) \/ DropWriter(r),
           r \in DOMAIN req' /\ req'[r].pc \in Writing
             => req'[r].pos <= Len(data'[req'[r].id])
    PROVE  PositionCovered'
<1> SUFFICES ASSUME NEW s \in DOMAIN req', s # r, req'[s].pc \in Writing
             PROVE  req'[s].pos <= Len(data'[req'[s].id])
  BY Zenon DEF PositionCovered
<1>1. s \in DOMAIN req /\ req'[s] = req[s]
  BY HandlerEffect
<1>2. req[s].id \in DOMAIN data
  BY <1>1 DEF TypeInv, RequestInv, Writing
<1>3. /\ req[s].pos \in Nat
      /\ Len(data[req[s].id]) \in Nat
      /\ Len(data'[req[s].id]) \in Nat
  BY <1>1, <1>2, RequestFields DEF TypeInv, StoreInv, IsTable, FilesGrow
<1>4. req[s].pos <= Len(data[req[s].id])
  BY <1>1 DEF PositionCovered
<1> QED BY <1>1, <1>2, <1>3, <1>4 DEF FilesGrow

LEMMA BeginCover ==
    ASSUME TypeInv, CoverInv, NEW r \in Request, NEW u \in Upload,
           NEW p \in Repo, NEW pc \in {"create", "check", "row"},
           NEW d \in Digest \cup {NoDigest}, NEW o \in Nat,
           Begin(r, u, p, pc, d, o), UNCHANGED <<data, sessions>>,
           IF pc = "create" THEN u \notin DOMAIN data /\ ~Busy(u)
                            ELSE u \in DOMAIN data
    PROVE  CoverInv'
<1>1. /\ DOMAIN req' = DOMAIN req \cup {r}
      /\ req'[r].pc = pc /\ req'[r].id = u
      /\ \A s \in DOMAIN req : s # r /\ req'[s] = req[s]
  <2>1. pc \in Pc /\ IsTable(req, Request, RequestState)
    BY DEF Pc, TypeInv, RequestInv
  <2> DEFINE q == [pc |-> pc, id |-> u, repo |-> p, digest |-> d,
                   pos |-> o, seen |-> <<>>]
  <2>2. /\ DOMAIN req' = DOMAIN req \cup {r} /\ req'[r] = q
        /\ \A s \in DOMAIN req : s # r /\ req'[s] = req[s]
    BY <2>1, BeginEffect
  <2>3. q.pc = pc /\ q.id = u
    OBVIOUS
  <2> HIDE DEF q
  <2> QED BY <2>2, <2>3
<1>2. FreshInv'
  BY <1>1 DEF CoverInv, FreshInv, Busy
<1>3. PositionCovered'
  BY <1>1 DEF CoverInv, PositionCovered, Writing
<1> QED BY <1>2, <1>3 DEF CoverInv, OffsetCovered

LEMMA ArriveCover ==
    ASSUME TypeInv, CoverInv, NEW r \in Request, Arrive(r)
    PROVE  CoverInv'
<1>1. UNCHANGED <<data, sessions>>
  BY DEF Arrive, StartUpload, PatchUpload, PutUpload, CancelUpload, files, db
<1>2. ASSUME NEW u \in Upload, NEW p \in Repo,
             StartUpload(r, u, p) \/ CancelUpload(r, u, p)
      PROVE  CoverInv'
  BY <1>1, <1>2, BeginCover DEF StartUpload, CancelUpload, BeginOn
<1>3. ASSUME NEW u \in Upload, NEW p \in Repo, NEW o \in 0..MaxBlocks,
             PatchUpload(r, u, p, o)
      PROVE  CoverInv'
  <2>1. o \in Nat
    BY BoundAssumption
  <2> QED BY <1>1, <1>3, <2>1, BeginCover DEF PatchUpload, BeginOn
<1>4. ASSUME NEW u \in Upload, NEW p \in Repo, NEW d \in Digest,
             PutUpload(r, u, p, d)
      PROVE  CoverInv'
  <2>1. sessions[u].offset \in Nat
    BY <1>4 DEF PutUpload, Owned, TypeInv, StoreInv, IsTable, Session
  <2> QED BY <1>1, <1>4, <2>1, BeginCover DEF PutUpload, BeginOn
<1> QED BY <1>2, <1>3, <1>4 DEF Arrive

LEMMA HandlerCover ==
    ASSUME TypeInv, TypeInv', CoverInv, NEW r \in Request,
           Handle(r) \/ DropRequest(r) \/ DropWriter(r)
    PROVE  CoverInv'
<1> USE DEF CoverInv
<1> DEFINE RCovered == r \in DOMAIN req' /\ req'[r].pc \in Writing
                         => req'[r].pos <= Len(data'[req'[r].id])
<1>0. r \in DOMAIN req /\ req[r] \in RequestState /\ IsTable(req, Request, RequestState)
  BY HandlerEffect DEF TypeInv, RequestInv, IsTable
<1>1. CASE CreateUpload(r)
  <2>1. /\ req[r].pc = "create" /\ Goto(r, "insert")
        /\ data' = With(data, req[r].id, <<>>)
        /\ UNCHANGED sessions
    BY <1>1 DEF CreateUpload, At, db
  <2>2. req'[r].pc = "insert"
    BY <1>0, <2>1, GotoFields DEF Pc
  <2>3. /\ req[r].id \notin DOMAIN data
        /\ DOMAIN data' = DOMAIN data \cup {req[r].id}
        /\ \A u \in DOMAIN data : data'[u] = data[u]
    BY <1>0, <2>1 DEF FreshInv, With
  <2>4. FilesGrow
    BY <2>3 DEF FilesGrow, TypeInv, StoreInv, IsTable
  <2>5. FreshInv'
    BY <1>0, <2>1, <2>2, <2>3, HandlerEffect DEF FreshInv
  <2>6. PositionCovered'
    BY <2>2, <2>4, HandlerCovered DEF Writing
  <2> QED BY <2>1, <2>4, <2>5, <2>6, RowsKept
<1>2. CASE InsertSession(r)
  <2>1. /\ req[r].pc = "insert" /\ End(r) /\ UNCHANGED data
        /\ sessions' = With(sessions, req[r].id, [repo |-> req[r].repo,
                                        offset |-> 0, expired |-> FALSE])
    BY <1>2 DEF InsertSession, At, files
  <2>2. r \notin DOMAIN req'
    BY <1>0, <2>1, EndEffect
  <2>3. /\ DOMAIN sessions' = DOMAIN sessions \cup {req[r].id}
        /\ sessions'[req[r].id].offset = 0
        /\ \A u \in DOMAIN sessions : u # req[r].id => sessions'[u] = sessions[u]
    BY <2>1 DEF With
  <2>4. req[r].id \in DOMAIN data /\ Len(data[req[r].id]) \in Nat
    BY <1>0, <2>1 DEF TypeInv, RequestInv, StoreInv, IsTable
  <2>5. OffsetCovered'
    <3> SUFFICES ASSUME NEW u \in DOMAIN sessions'
                 PROVE  u \in DOMAIN data' /\ sessions'[u].offset <= Len(data'[u])
      BY Zenon DEF OffsetCovered
    <3>1. CASE u = req[r].id
      BY <2>1, <2>3, <2>4, <3>1
    <3>2. CASE u # req[r].id
      BY <2>1, <2>3, <3>2 DEF OffsetCovered
    <3> QED BY <3>1, <3>2
  <2> QED BY <2>1, <2>2, <2>5, SameFilesGrow, HandlerFresh, HandlerCovered
<1>3. CASE UpdateSession(r)
  <2>1. req[r].pc = "update" /\ UNCHANGED data
    BY <1>3 DEF UpdateSession, At, files
  <2>2. r \in DOMAIN req' => req'[r].pc \notin Writing
    <3>1. CASE End(r)
      BY <1>0, <3>1, EndEffect
    <3>2. CASE Goto(r, "require")
      BY <1>0, <3>2, GotoFields DEF Pc, Writing
    <3> QED BY <1>3, <3>1, <3>2 DEF UpdateSession
  <2>3. OffsetCovered'
    <3>1. CASE req[r].id \notin DOMAIN sessions
      BY <1>3, <2>1, <3>1 DEF UpdateSession, OffsetCovered
    <3>2. CASE req[r].id \in DOMAIN sessions
      <4>1. sessions' = [sessions EXCEPT ![req[r].id].offset = req[r].pos,
                                         ![req[r].id].expired = FALSE]
        BY <1>3, <3>2 DEF UpdateSession
      <4>2. sessions[req[r].id] \in Session
        BY <3>2 DEF TypeInv, StoreInv, IsTable
      <4>3. /\ DOMAIN sessions' = DOMAIN sessions
            /\ sessions'[req[r].id].offset = req[r].pos
            /\ \A u \in DOMAIN sessions : u # req[r].id => sessions'[u] = sessions[u]
        BY <3>2, <4>1, <4>2 DEF Session
      <4>4. req[r].pos <= Len(data[req[r].id])
        BY <1>0, <2>1 DEF PositionCovered, Writing
      <4> QED BY <2>1, <4>3, <4>4 DEF OffsetCovered
    <3> QED BY <3>1, <3>2
  <2> QED BY <2>1, <2>2, <2>3, SameFilesGrow, HandlerFresh, HandlerCovered
<1>4. CASE \E b \in Block : WriteBlock(r, b)
  <2>1. PICK b \in Block : WriteBlock(r, b)
    BY <1>4
  <2>2. /\ req[r].pc = "write" /\ req[r].id \in DOMAIN data /\ req[r].pos \in Nat
        /\ data' = [data EXCEPT ![req[r].id] = WriteAt(@, req[r].pos, b)]
        /\ UNCHANGED sessions
    BY <1>0, <2>1, RequestFields DEF WriteBlock, At, TypeInv, RequestInv, db
  <2>3. FilesGrow /\ Len(data'[req[r].id]) >= req[r].pos + 1
    BY <2>2, WriteGrows
  <2>4. req'[r].pos = req[r].pos + 1 /\ req'[r].id = req[r].id
    BY <1>0, <2>1 DEF WriteBlock, RequestState
  <2>5. Len(data'[req[r].id]) \in Nat
    BY <2>2, <2>3 DEF FilesGrow, TypeInv, StoreInv, IsTable
  <2>6. PositionCovered'
    BY <2>2, <2>3, <2>4, <2>5, HandlerCovered
  <2>7. FreshInv'
    BY <2>2, HandlerFresh
  <2> QED BY <2>2, <2>3, <2>6, <2>7, RowsKept
<1>5. CASE \E b \in Block : LateWrite(r, b)
  <2>1. PICK b \in Block : LateWrite(r, b)
    BY <1>5
  <2>2. /\ req[r].pc = "late" /\ req[r].id \in DOMAIN data /\ req[r].pos \in Nat
        /\ End(r) /\ UNCHANGED sessions
        /\ \/ data' = [data EXCEPT ![req[r].id] = WriteAt(@, req[r].pos, b)]
           \/ data' = data
    BY <1>0, <2>1, RequestFields DEF LateWrite, At, TypeInv, RequestInv, db
  <2>3. FilesGrow /\ DOMAIN data' = DOMAIN data
    BY <2>2, WriteGrows, SameFilesGrow
  <2>4. r \notin DOMAIN req'
    BY <1>0, <2>2, EndEffect
  <2>5. PositionCovered' /\ FreshInv'
    BY <2>3, <2>4, HandlerCovered, HandlerFresh
  <2> QED BY <2>2, <2>3, <2>5, RowsKept
<1>6. CASE CheckOffset(r)
  <2>1. UNCHANGED <<data, sessions>>
    BY <1>6 DEF CheckOffset, files, db
  <2>2. CASE End(r)
    <3>1. r \notin DOMAIN req'
      BY <1>0, <2>2, EndEffect
    <3> QED BY <2>1, <3>1, SameFilesGrow, HandlerFresh, HandlerCovered, RowsKept
  <2>3. CASE /\ Goto(r, "open") /\ req[r].id \in DOMAIN sessions
             /\ sessions[req[r].id].offset = req[r].pos
    <3>1. req'[r].id = req[r].id /\ req'[r].pos = req[r].pos
      BY <1>0, <2>3, GotoFields DEF Pc
    <3>2. req'[r].pos <= Len(data[req[r].id])
      BY <2>3, <3>1 DEF OffsetCovered
    <3> QED BY <2>1, <3>1, <3>2, SameFilesGrow, HandlerFresh, HandlerCovered, RowsKept
  <2> QED BY <1>6, <2>2, <2>3 DEF CheckOffset, Owned
<1>7. CASE OpenUpload(r) \/ EndOfBody(r) \/ DropWriter(r)
  <2>1. /\ UNCHANGED <<data, sessions>> /\ req[r].pc \in Writing
        /\ End(r) \/ \E p \in Writing : Goto(r, p)
    BY <1>7 DEF OpenUpload, EndOfBody, DropWriter, files, db, At, Writing
  <2>2. CASE End(r)
    <3>1. r \notin DOMAIN req'
      BY <1>0, <2>2, EndEffect
    <3> QED BY <2>1, <3>1, SameFilesGrow, HandlerFresh, HandlerCovered, RowsKept
  <2>3. ASSUME NEW p \in Writing, Goto(r, p) PROVE CoverInv'
    <3>1. req'[r].id = req[r].id /\ req'[r].pos = req[r].pos
      BY <1>0, <2>3, GotoFields DEF Pc, Writing
    <3>2. req[r].pos <= Len(data[req[r].id])
      BY <1>0, <2>1 DEF PositionCovered
    <3> QED BY <2>1, <3>1, <3>2, SameFilesGrow, HandlerFresh, HandlerCovered, RowsKept
  <2> QED BY <2>1, <2>2, <2>3
<1> DEFINE Later == \/ RequireUpload(r) \/ OpenReader(r) \/ HashBlock(r)
                    \/ CompareDigest(r) \/ RenameToBlob(r) \/ StatBlob(r)
                    \/ CommitLink(r) \/ DeleteSession(r) \/ AbortUpload(r)
                    \/ DropRequest(r)
<1>8. CASE Later
  <2>1. UNCHANGED data
    BY <1>8 DEF RequireUpload, OpenReader, HashBlock, CompareDigest, files,
       RenameToBlob, StatBlob, CommitLink, DeleteSession, AbortUpload, DropRequest
  <2>2. \A u \in DOMAIN sessions' : u \in DOMAIN sessions /\ sessions'[u] = sessions[u]
    BY <1>8 DEF RequireUpload, OpenReader, HashBlock, CompareDigest, db, Without,
       RenameToBlob, StatBlob, CommitLink, DeleteSession, AbortUpload, DropRequest
  <2>3. r \in DOMAIN req' => req'[r].pc \notin Writing
    <3>1. CASE End(r)
      BY <1>0, <3>1, EndEffect
    <3>2. ASSUME NEW p \in {"reader", "hash", "stat", "abort"}, Goto(r, p)
          PROVE  req'[r].pc \notin Writing
      BY <1>0, <3>2, GotoFields DEF Pc, Writing
    <3>3. CASE HashBlock(r)
      BY <1>0, <3>3 DEF HashBlock, At, RequestState, Writing
    <3>4. CASE CompareDigest(r) /\ ~End(r)
      BY <1>0, <3>4 DEF CompareDigest, RequestState, Writing
    <3>5. CASE StatBlob(r) /\ ~End(r)
      BY <1>0, <3>5 DEF StatBlob, RequestState, Writing
    <3> QED
      BY <1>8, <3>1, <3>2, <3>3, <3>4, <3>5 DEF RequireUpload, OpenReader,
         RenameToBlob, CommitLink, DeleteSession, AbortUpload, DropRequest
  <2> QED BY <2>1, <2>2, <2>3, SameFilesGrow, HandlerFresh, HandlerCovered, RowsKept
<1> QED
  BY <1>1, <1>2, <1>3, <1>4, <1>5, <1>6, <1>7, <1>8 DEF Handle

\* Nor does a collection, a crash or the clean-up write an offset.
LEMMA BackgroundRows ==
    ASSUME TypeInv,
           Background
    PROVE  \A u \in DOMAIN sessions' :
             u \in DOMAIN sessions /\ sessions'[u].offset = sessions[u].offset
<1>1. ASSUME NEW v \in Upload, Expire(v)
      PROVE  \A u \in DOMAIN sessions' :
               u \in DOMAIN sessions /\ sessions'[u].offset = sessions[u].offset
  <2>1. /\ v \in DOMAIN sessions
        /\ sessions' = [sessions EXCEPT ![v].expired = TRUE]
        /\ sessions[v] \in Session
    BY <1>1 DEF Expire, TypeInv, StoreInv, IsTable
  <2> QED BY <2>1 DEF Session
<1>2. ASSUME NEW v \in Upload, GcDeleteSession(v)
      PROVE  \A u \in DOMAIN sessions' :
               u \in DOMAIN sessions /\ sessions'[u] = sessions[u]
  BY <1>2 DEF GcDeleteSession, Without
<1>3. \/ UNCHANGED sessions
      \/ \E v \in Upload : Expire(v) \/ GcDeleteSession(v)
  BY DEF Background, Collect, GcAbortUpload, CleanUpload, GcListExpired, GcEnd,
     GcFail, LoseJob, DiscardBlob, Crash, Serve, db
<1> QED BY <1>1, <1>2, <1>3

LEMMA BackgroundCover ==
    ASSUME TypeInv, TypeInv', CoverInv,
           Background
    PROVE  CoverInv'
<1>1. UNCHANGED data /\ (req' = req \/ req' = Empty)
  BY BackgroundEffect
<1>2. OffsetCovered'
  BY <1>1, BackgroundRows, SameFilesGrow, RowsKept DEF CoverInv
<1>3. FreshInv' /\ PositionCovered'
  BY <1>1 DEF CoverInv, FreshInv, PositionCovered, Empty
<1> QED BY <1>2, <1>3 DEF CoverInv

LEMMA CoverStep == TypeInv /\ TypeInv' /\ CoverInv /\ [Next]_vars => CoverInv'
<1> SUFFICES ASSUME TypeInv, TypeInv', CoverInv, [Next]_vars PROVE CoverInv'
  OBVIOUS
<1>1. CASE UNCHANGED vars
  BY <1>1 DEF vars, files, db, CoverInv, FreshInv, PositionCovered, OffsetCovered
<1> QED BY <1>1, ArriveCover, HandlerCover, BackgroundCover DEF Next

LEMMA CoverInit == Init => CoverInv
BY DEF Init, Empty, CoverInv, FreshInv, PositionCovered, OffsetCovered

LEMMA CoverInvariant == Spec => []CoverInv
<1>1. CoverInv /\ TypeInv /\ TypeInv' /\ [Next]_vars => CoverInv'
  BY CoverStep
<1> QED BY <1>1, CoverInit, TypeInvariant, PTL DEF Spec

\* The offset a session reports never runs ahead of its file, for any number
\* of requests that overlap in any way and whatever fault cuts them short.
THEOREM OffsetCoveredCorrect == Spec => []OffsetCovered
<1>1. CoverInv => OffsetCovered
  BY DEF CoverInv
<1> QED BY <1>1, CoverInvariant, PTL

-----------------------------------------------------------------------------
(* What is linked is intact, for Serial clients *)

\* No two requests of one session are in flight.
OneRequestEach ==
    \A r, s \in DOMAIN req : r # s => req[r].id # req[s].id

\* A stored blob has the digest it is stored under, and its file has left
\* uploads/, so that no request will open it again.
StoredIntact ==
    \A d \in DOMAIN blobs :
        DigestOf(data[blobs[d]]) = d /\ blobs[d] \notin uploads

\* What request s knows: its handle is not on a stored blob, what it has
\* hashed is still what the file holds, what it found to match still matches.
Knows(s) ==
    /\ req[s].pc \in {"write", "late"} =>
           \A d \in DOMAIN blobs : blobs[d] # req[s].id
    /\ req[s].pc # "hash" => req[s].seen = <<>>
    /\ req[s].pc = "hash" =>
           /\ Len(req[s].seen) <= Len(data[req[s].id])
           /\ \A i \in 1..Len(req[s].seen) : req[s].seen[i] = data[req[s].id][i]
    /\ req[s].pc = "rename" => DigestOf(data[req[s].id]) = req[s].digest
    /\ req[s].pc \in {"stat", "commit"} => req[s].digest \in DOMAIN blobs
    /\ req[s].pc = "commit" => req[s].pos = Len(data[blobs[req[s].digest]])

BlobInv ==
    /\ OneRequestEach
    /\ StoredIntact
    /\ \A s \in DOMAIN req : Knows(s)
    /\ LinkedBlobIntact

LEMMA DigestInjective ==
    ASSUME NEW c, NEW e, DigestOf(c) = DigestOf(e)
    PROVE  c = e
BY DEF DigestOf

\* A step that writes no file, moves none to a blob and links none.
LEMMA QuietStep ==
    ASSUME TypeInv, BlobInv, NEW r \in Request,
           Handle(r) \/ DropRequest(r) \/ DropWriter(r),
           UNCHANGED <<data, blobs, links>>, uploads' \subseteq uploads,
           r \in DOMAIN req' => Knows(r)'
    PROVE  BlobInv'
<1>1. OneRequestEach'
  BY HandlerEffect DEF BlobInv, OneRequestEach
<1>2. StoredIntact'
  BY DEF BlobInv, StoredIntact
<1>3. LinkedBlobIntact'
  BY DEF BlobInv, LinkedBlobIntact
<1>4. ASSUME NEW s \in DOMAIN req', s # r PROVE Knows(s)'
  <2>1. s \in DOMAIN req /\ req'[s] = req[s] /\ Knows(s)
    BY <1>4, HandlerEffect DEF BlobInv
  <2> QED BY <2>1 DEF Knows
<1> QED BY <1>1, <1>2, <1>3, <1>4 DEF BlobInv

\* Bytes are written only to a file that is not stored and that no other
\* request is working on.
LEMMA WriteBlob ==
    ASSUME TypeInv, BlobInv, NEW r \in Request, NEW b \in Block,
           WriteBlock(r, b) \/ LateWrite(r, b)
    PROVE  BlobInv'
<1>1. /\ r \in DOMAIN req /\ req[r].pc \in {"write", "late"}
      /\ req[r].id \in DOMAIN data
      /\ UNCHANGED <<uploads, blobs, links>>
      /\ DOMAIN data' = DOMAIN data
      /\ \A u \in DOMAIN data : u # req[r].id => data'[u] = data[u]
  BY DEF WriteBlock, LateWrite, At, db, TypeInv, RequestInv
<1>2. \A d \in DOMAIN blobs : blobs[d] # req[r].id /\ data'[blobs[d]] = data[blobs[d]]
  BY <1>1 DEF BlobInv, Knows, TypeInv, StoreInv
<1>3. Handle(r)
  BY DEF Handle
<1>4. OneRequestEach'
  BY <1>3, HandlerEffect DEF BlobInv, OneRequestEach
<1>5. StoredIntact'
  BY <1>1, <1>2 DEF BlobInv, StoredIntact
<1>6. LinkedBlobIntact'
  BY <1>1, <1>2 DEF BlobInv, LinkedBlobIntact
<1>7. ASSUME NEW s \in DOMAIN req', s # r PROVE Knows(s)'
  <2>1. s \in DOMAIN req /\ req'[s] = req[s] /\ Knows(s) /\ req[s].id # req[r].id
    BY <1>1, <1>3, <1>7, HandlerEffect DEF BlobInv, OneRequestEach
  <2>2. req[s].pc \in {"hash", "rename"} => data'[req[s].id] = data[req[s].id]
    BY <1>1, <2>1 DEF TypeInv, RequestInv
  <2> QED BY <1>1, <1>2, <2>1, <2>2 DEF Knows
<1>8. r \in DOMAIN req' => Knows(r)'
  <2>1. CASE LateWrite(r, b)
    <3>1. End(r) /\ IsTable(req, Request, RequestState)
      BY <2>1 DEF LateWrite, TypeInv, RequestInv
    <3> QED BY <3>1, EndEffect
  <2>2. CASE WriteBlock(r, b)
    <3>1. /\ req[r].pc = "write" /\ req'[r].pc = "write"
          /\ req'[r].id = req[r].id /\ req'[r].seen = req[r].seen
      BY <1>1, <2>2 DEF WriteBlock, At, TypeInv, RequestInv, IsTable, RequestState
    <3>2. Knows(r)
      BY <1>1 DEF BlobInv
    <3> QED BY <1>1, <1>2, <3>1, <3>2 DEF Knows
  <2> QED BY <2>1, <2>2
<1> QED BY <1>4, <1>5, <1>6, <1>7, <1>8 DEF BlobInv

LEMMA CreateBlob ==
    ASSUME TypeInv, FreshInv, BlobInv, NEW r \in Request, CreateUpload(r)
    PROVE  BlobInv'
<1>1. /\ r \in DOMAIN req /\ req[r].pc = "create" /\ Goto(r, "insert")
      /\ data' = With(data, req[r].id, <<>>)
      /\ uploads' = uploads \cup {req[r].id}
      /\ UNCHANGED <<blobs, links>>
  BY DEF CreateUpload, At, db
<1>2. req[r].id \notin DOMAIN data
  BY <1>1 DEF FreshInv
<1>3. \A u \in DOMAIN data : data'[u] = data[u]
  BY <1>1, <1>2 DEF With
<1>4. \A d \in DOMAIN blobs : blobs[d] # req[r].id /\ data'[blobs[d]] = data[blobs[d]]
  BY <1>2, <1>3 DEF TypeInv, StoreInv
<1>5. Handle(r)
  BY DEF Handle
<1>6. OneRequestEach'
  BY <1>5, HandlerEffect DEF BlobInv, OneRequestEach
<1>7. StoredIntact'
  BY <1>1, <1>4 DEF BlobInv, StoredIntact
<1>8. LinkedBlobIntact'
  BY <1>1, <1>4 DEF BlobInv, LinkedBlobIntact
<1>9. ASSUME NEW s \in DOMAIN req', s # r PROVE Knows(s)'
  <2>1. s \in DOMAIN req /\ req'[s] = req[s] /\ Knows(s)
    BY <1>5, <1>9, HandlerEffect DEF BlobInv
  <2>2. req[s].pc \in {"hash", "rename"} => data'[req[s].id] = data[req[s].id]
    BY <1>3, <2>1 DEF TypeInv, RequestInv
  <2> QED BY <1>1, <1>4, <2>1, <2>2 DEF Knows
<1>10. Knows(r)'
  <2>1. req'[r].pc = "insert" /\ req'[r].seen = req[r].seen
    BY <1>1, GotoFields DEF Pc, TypeInv, RequestInv
  <2> QED BY <1>1, <2>1 DEF BlobInv, Knows
<1> QED BY <1>6, <1>7, <1>8, <1>9, <1>10 DEF BlobInv

\* The file that becomes a blob was verified and nobody has written to it
\* since.  The file it replaces, if any, had the same digest.
LEMMA RenameBlob ==
    ASSUME TypeInv, BlobInv, NEW r \in Request, RenameToBlob(r)
    PROVE  BlobInv'
<1>1. r \in DOMAIN req /\ req[r].pc = "rename" /\ UNCHANGED <<data, links>>
  BY DEF RenameToBlob, At, db
<1>2. Handle(r)
  BY DEF Handle
<1>3. CASE req[r].id \notin uploads
  <2>1. End(r) /\ UNCHANGED <<uploads, blobs>>
    BY <1>3 DEF RenameToBlob
  <2>2. r \notin DOMAIN req'
    BY <2>1, EndEffect DEF TypeInv, RequestInv
  <2> QED BY <1>1, <1>2, <2>1, <2>2, QuietStep
<1>4. CASE req[r].id \in uploads
  <2> DEFINE u == req[r].id
             d == req[r].digest
  <2>1. /\ Goto(r, "stat") /\ uploads' = uploads \ {u}
        /\ DOMAIN blobs' = DOMAIN blobs \cup {d}
        /\ blobs'[d] = u
        /\ \A e \in DOMAIN blobs : e # d => blobs'[e] = blobs[e]
    BY <1>4 DEF RenameToBlob, With
  <2>2. DigestOf(data[u]) = d
    BY <1>1 DEF BlobInv, Knows
  <2>3. \A e \in DOMAIN blobs : data[blobs'[e]] = data[blobs[e]]
    <3>1. d \in DOMAIN blobs => DigestOf(data[blobs[d]]) = d
      BY DEF BlobInv, StoredIntact
    <3> QED BY <2>1, <2>2, <3>1, DigestInjective
  <2>4. OneRequestEach'
    BY <1>2, HandlerEffect DEF BlobInv, OneRequestEach
  <2>5. StoredIntact'
    BY <1>1, <2>1, <2>2 DEF BlobInv, StoredIntact
  <2>6. LinkedBlobIntact'
    BY <1>1, <2>1, <2>3 DEF BlobInv, LinkedBlobIntact
  <2>7. ASSUME NEW s \in DOMAIN req', s # r PROVE Knows(s)'
    <3>1. s \in DOMAIN req /\ req'[s] = req[s] /\ Knows(s) /\ req[s].id # u
      BY <1>1, <1>2, <2>7, HandlerEffect DEF BlobInv, OneRequestEach
    <3> QED BY <1>1, <2>1, <2>3, <3>1 DEF Knows
  <2>8. Knows(r)'
    <3>1. req'[r].pc = "stat" /\ req'[r].digest = d /\ req'[r].seen = req[r].seen
      BY <1>1, <2>1, GotoFields DEF Pc, TypeInv, RequestInv
    <3> QED BY <1>1, <2>1, <3>1 DEF BlobInv, Knows
  <2> QED BY <2>4, <2>5, <2>6, <2>7, <2>8 DEF BlobInv
<1> QED BY <1>3, <1>4

LEMMA CommitBlob ==
    ASSUME TypeInv, BlobInv, NEW r \in Request, CommitLink(r)
    PROVE  BlobInv'
<1> DEFINE k == <<req[r].repo, req[r].digest>>
<1>1. /\ r \in DOMAIN req /\ req[r].pc = "commit" /\ End(r)
      /\ UNCHANGED <<data, uploads, blobs>>
      /\ DOMAIN links' = DOMAIN links \cup {k}
      /\ links'[k] = req[r].pos
      /\ \A j \in DOMAIN links : j # k => links'[j] = links[j]
  BY DEF CommitLink, At, files, With
<1>2. /\ req[r].digest \in DOMAIN blobs
      /\ req[r].pos = Len(data[blobs[req[r].digest]])
      /\ DigestOf(data[blobs[req[r].digest]]) = req[r].digest
  BY <1>1 DEF BlobInv, Knows, StoredIntact
<1>3. LinkedBlobIntact'
  BY <1>1, <1>2 DEF BlobInv, LinkedBlobIntact
<1>4. Handle(r)
  BY DEF Handle
<1>5. OneRequestEach' /\ StoredIntact'
  BY <1>1, <1>4, HandlerEffect DEF BlobInv, OneRequestEach, StoredIntact
<1>6. ASSUME NEW s \in DOMAIN req' PROVE Knows(s)'
  <2>1. s \in DOMAIN req /\ req'[s] = req[s] /\ Knows(s)
    BY <1>1, <1>6, EndEffect DEF BlobInv, TypeInv, RequestInv
  <2> QED BY <1>1, <2>1 DEF Knows
<1> QED BY <1>3, <1>5, <1>6 DEF BlobInv

\* The remaining steps of a handler are quiet.
LEMMA HandlerBlob ==
    ASSUME TypeInv, FreshInv, BlobInv, NEW r \in Request,
           Handle(r) \/ DropRequest(r) \/ DropWriter(r)
    PROVE  BlobInv'
<1> DEFINE Quiet == /\ UNCHANGED <<data, blobs, links>>
                    /\ uploads' \subseteq uploads
<1>0. /\ r \in DOMAIN req /\ req[r] \in RequestState
      /\ IsTable(req, Request, RequestState) /\ Knows(r)
  BY HandlerEffect DEF TypeInv, RequestInv, IsTable, BlobInv
<1>1. ASSUME Quiet, End(r) PROVE BlobInv'
  <2>1. r \notin DOMAIN req'
    BY <1>0, <1>1, EndEffect
  <2> QED BY <1>1, <2>1, QuietStep
<1>2. ASSUME Quiet, req[r].pc # "hash", Goto(r, "write"), req[r].id \in uploads
      PROVE  BlobInv'
  <2>1. req'[r].pc = "write" /\ req'[r].id = req[r].id /\ req'[r].seen = req[r].seen
    BY <1>0, <1>2, GotoFields DEF Pc
  <2>2. \A d \in DOMAIN blobs : blobs[d] # req[r].id
    BY <1>2 DEF BlobInv, StoredIntact
  <2>3. Knows(r)'
    BY <1>0, <1>2, <2>1, <2>2 DEF Knows
  <2> QED BY <1>2, <2>3, QuietStep
<1>3. ASSUME Quiet, req[r].pc = "reader", Goto(r, "hash")
      PROVE  BlobInv'
  <2>1. req'[r].pc = "hash" /\ req'[r].id = req[r].id /\ req'[r].seen = <<>>
    BY <1>0, <1>3, GotoFields DEF Pc, Knows
  <2>2. Len(data[req[r].id]) \in Nat
    BY <1>0, <1>3 DEF TypeInv, RequestInv, StoreInv, IsTable
  <2>3. Knows(r)'
    BY <1>3, <2>1, <2>2 DEF Knows
  <2> QED BY <1>3, <2>3, QuietStep
<1>4. ASSUME Quiet, req[r].pc # "hash",
             NEW p \in {"open", "update", "require", "reader", "abort"}, Goto(r, p)
      PROVE  BlobInv'
  <2>1. req'[r].pc = p /\ req'[r].seen = req[r].seen
    BY <1>0, <1>4, GotoFields DEF Pc
  <2>2. Knows(r)'
    BY <1>0, <1>4, <2>1 DEF Knows
  <2> QED BY <1>4, <2>2, QuietStep
<1>5. CASE DropWriter(r)
  <2>1. Quiet /\ req[r].pc = "write" /\ Goto(r, "late")
    BY <1>5 DEF DropWriter, At, files, db
  <2>2. req'[r].pc = "late" /\ req'[r].id = req[r].id /\ req'[r].seen = req[r].seen
    BY <1>0, <2>1, GotoFields DEF Pc
  <2>3. Knows(r)'
    BY <1>0, <2>1, <2>2 DEF Knows
  <2> QED BY <2>1, <2>3, QuietStep
<1>6. CASE HashBlock(r)
  <2> DEFINE c == data[req[r].id]
             seen == req[r].seen
  <2>1. /\ Quiet /\ req[r].pc = "hash" /\ Len(seen) < Len(c)
        /\ req' = [req EXCEPT ![r].seen = Append(seen, c[Len(seen) + 1])]
    BY <1>6 DEF HashBlock, At, files, db
  <2>2. c \in Seq(Block) /\ seen \in Seq(Block)
    BY <1>0, <2>1 DEF TypeInv, RequestInv, StoreInv, IsTable, RequestState
  <2>3. /\ req'[r].pc = "hash" /\ req'[r].id = req[r].id
        /\ req'[r].seen = Append(seen, c[Len(seen) + 1])
    BY <1>0, <2>1 DEF RequestState
  <2>4. \A i \in 1..Len(seen) : seen[i] = c[i]
    BY <1>0, <2>1 DEF Knows
  <2> DEFINE longer == Append(seen, c[Len(seen) + 1])
  <2>5. Len(longer) <= Len(c) /\ \A i \in 1..Len(longer) : longer[i] = c[i]
    BY <2>1, <2>2, <2>4
  <2>6. Knows(r)'
    BY <2>1, <2>3, <2>5 DEF Knows
  <2> QED BY <2>1, <2>6, QuietStep
<1>7. CASE CompareDigest(r) /\ ~End(r)
  <2> DEFINE c == data[req[r].id]
             seen == req[r].seen
  <2>1. /\ Quiet /\ req[r].pc = "hash" /\ Len(seen) = Len(c)
        /\ DigestOf(seen) = req[r].digest
        /\ req' = [req EXCEPT ![r].pc = "rename", ![r].seen = <<>>]
    BY <1>7 DEF CompareDigest, At, files, db
  <2>2. c \in Seq(Block) /\ seen \in Seq(Block)
    BY <1>0, <2>1 DEF TypeInv, RequestInv, StoreInv, IsTable, RequestState
  <2>3. \A i \in 1..Len(seen) : seen[i] = c[i]
    BY <1>0, <2>1 DEF Knows
  <2>4. seen = c
    BY <2>1, <2>2, <2>3
  <2>5. /\ req'[r].pc = "rename" /\ req'[r].id = req[r].id
        /\ req'[r].seen = <<>> /\ req'[r].digest = req[r].digest
    BY <1>0, <2>1 DEF RequestState
  <2>6. Knows(r)'
    BY <2>1, <2>4, <2>5 DEF Knows
  <2> QED BY <2>1, <2>6, QuietStep
<1>8. CASE StatBlob(r) /\ ~End(r)
  <2> DEFINE n == Len(data[blobs[req[r].digest]])
  <2>1. /\ Quiet /\ req[r].pc = "stat" /\ req[r].digest \in DOMAIN blobs
        /\ req' = [req EXCEPT ![r].pc = "commit", ![r].pos = n]
    BY <1>8 DEF StatBlob, At, files, db
  <2> HIDE DEF n
  <2>2. /\ req'[r].pc = "commit" /\ req'[r].pos = n
        /\ req'[r].digest = req[r].digest /\ req'[r].seen = req[r].seen
    BY <1>0, <2>1 DEF RequestState
  <2>3. Knows(r)'
    BY <1>0, <2>1, <2>2 DEF Knows, n
  <2> QED BY <2>1, <2>3, QuietStep
<1>9. CASE OpenReader(r)
  BY <1>1, <1>3, <1>9 DEF OpenReader, At, files, db
<1>10. CASE OpenUpload(r)
  BY <1>1, <1>2, <1>10 DEF OpenUpload, At, files, db
<1>11. CASE \/ InsertSession(r) \/ CheckOffset(r) \/ EndOfBody(r)
            \/ UpdateSession(r) \/ RequireUpload(r) \/ DeleteSession(r)
            \/ AbortUpload(r) \/ DropRequest(r)
            \/ (CompareDigest(r) /\ End(r))
            \/ (StatBlob(r) /\ End(r))
  <2>1. Quiet
    BY <1>11 DEF InsertSession, CheckOffset, EndOfBody, UpdateSession,
       RequireUpload, DeleteSession, AbortUpload, DropRequest, CompareDigest,
       StatBlob, files, db
  <2>2. \/ End(r)
        \/ /\ req[r].pc # "hash"
           /\ \E p \in {"open", "update", "require", "reader", "abort"} : Goto(r, p)
    BY <1>11 DEF InsertSession, CheckOffset, EndOfBody, UpdateSession,
       RequireUpload, DeleteSession, AbortUpload, DropRequest, At
  <2> QED BY <1>1, <1>4, <2>1, <2>2
<1> QED
  BY <1>5, <1>6, <1>7, <1>8, <1>9, <1>10, <1>11, WriteBlob, CreateBlob,
     RenameBlob, CommitBlob DEF Handle

LEMMA ArriveBlob ==
    ASSUME Serial, TypeInv, BlobInv, NEW r \in Request, Arrive(r)
    PROVE  BlobInv'
<1>1. UNCHANGED <<data, uploads, blobs, links>>
  BY DEF Arrive, StartUpload, PatchUpload, PutUpload, CancelUpload, files, db
<1>2. ASSUME NEW u \in Upload, NEW p \in Repo, NEW pc \in {"create", "check", "row"},
             NEW d \in Digest \cup {NoDigest}, NEW o \in Nat,
             Begin(r, u, p, pc, d, o), ~Busy(u)
      PROVE  BlobInv'
  <2> DEFINE q == [pc |-> pc, id |-> u, repo |-> p, digest |-> d,
                   pos |-> o, seen |-> <<>>]
  <2>1. pc \in Pc /\ IsTable(req, Request, RequestState)
    BY DEF Pc, TypeInv, RequestInv
  <2>2. /\ DOMAIN req' = DOMAIN req \cup {r} /\ req'[r] = q
        /\ \A s \in DOMAIN req : s # r /\ req'[s] = req[s]
    BY <1>2, <2>1, BeginEffect
  <2>3. q.pc = pc /\ q.id = u /\ q.seen = <<>>
    OBVIOUS
  <2> HIDE DEF q
  <2>4. OneRequestEach'
    BY <1>2, <2>2, <2>3 DEF BlobInv, OneRequestEach, Busy
  <2>5. Knows(r)'
    BY <2>2, <2>3 DEF Knows
  <2>6. ASSUME NEW s \in DOMAIN req PROVE Knows(s)'
    BY <1>1, <2>2 DEF BlobInv, Knows
  <2> QED BY <1>1, <2>2, <2>4, <2>5, <2>6 DEF BlobInv, StoredIntact, LinkedBlobIntact
<1>3. ASSUME NEW u \in Upload, NEW p \in Repo,
             StartUpload(r, u, p) \/ CancelUpload(r, u, p)
      PROVE  BlobInv'
  BY <1>2, <1>3 DEF StartUpload, CancelUpload, BeginOn
<1>4. ASSUME NEW u \in Upload, NEW p \in Repo, NEW o \in 0..MaxBlocks,
             PatchUpload(r, u, p, o)
      PROVE  BlobInv'
  <2>1. o \in Nat
    BY BoundAssumption
  <2> QED BY <1>2, <1>4, <2>1 DEF PatchUpload, BeginOn
<1>5. ASSUME NEW u \in Upload, NEW p \in Repo, NEW d \in Digest,
             PutUpload(r, u, p, d)
      PROVE  BlobInv'
  <2>1. sessions[u].offset \in Nat
    BY <1>5 DEF PutUpload, Owned, TypeInv, StoreInv, IsTable, Session
  <2> QED BY <1>2, <1>5, <2>1 DEF PutUpload, BeginOn
<1> QED BY <1>3, <1>4, <1>5 DEF Arrive

LEMMA BackgroundBlob ==
    ASSUME "push" \notin Faults, BlobInv,
           Background
    PROVE  BlobInv'
<1>1. /\ UNCHANGED <<data, blobs, links>>
      /\ uploads' \subseteq uploads
      /\ req' = req \/ req' = Empty
  BY BackgroundEffect
<1>2. StoredIntact' /\ LinkedBlobIntact'
  BY <1>1 DEF BlobInv, StoredIntact, LinkedBlobIntact
<1>3. OneRequestEach'
  BY <1>1 DEF BlobInv, OneRequestEach, Empty
<1>4. ASSUME NEW s \in DOMAIN req' PROVE Knows(s)'
  <2>1. req' = req /\ s \in DOMAIN req /\ Knows(s)
    BY <1>1, <1>4 DEF BlobInv, Empty
  <2> QED BY <1>1, <2>1 DEF Knows
<1> QED BY <1>2, <1>3, <1>4 DEF BlobInv

LEMMA BlobStep ==
    ASSUME Serial, "push" \notin Faults
    PROVE  TypeInv /\ CoverInv /\ BlobInv /\ [Next]_vars => BlobInv'
<1> SUFFICES ASSUME TypeInv, CoverInv, BlobInv, [Next]_vars PROVE BlobInv'
  OBVIOUS
<1>1. CASE UNCHANGED vars
  BY <1>1 DEF vars, files, db, BlobInv, OneRequestEach, StoredIntact, Knows,
     LinkedBlobIntact
<1>2. FreshInv
  BY DEF CoverInv
<1> QED BY <1>1, <1>2, ArriveBlob, HandlerBlob, BackgroundBlob DEF Next

LEMMA BlobInit == Init => BlobInv
BY DEF Init, Empty, BlobInv, OneRequestEach, StoredIntact, Knows, LinkedBlobIntact

LEMMA BlobInvariant ==
    ASSUME Serial, "push" \notin Faults
    PROVE  Spec => []BlobInv
<1>1. TypeInv /\ CoverInv /\ BlobInv /\ [Next]_vars => BlobInv'
  BY BlobStep
<1> QED BY <1>1, BlobInit, TypeInvariant, CoverInvariant, PTL DEF Spec

\* If a client sends a request of a session only when the server is done with
\* the one before, and no monolithic push of a wrong body comes beside (Blobs is
\* about those), then every linked blob is stored, has the digest it is linked
\* under, and has the size of its link: whatever uploads of the same content
\* run side by side, whatever collections sweep, and wherever handlers are
\* dropped or the server stops.
THEOREM LinkedBlobIntactCorrect ==
    ASSUME Serial, "push" \notin Faults
    PROVE  Spec => []LinkedBlobIntact
<1>1. BlobInv => LinkedBlobIntact
  BY DEF BlobInv
<1> QED BY <1>1, BlobInvariant, PTL
-----------------------------------------------------------------------------
(* The refinement of LinkTable *)

\* As long as a blob stays linked, its content cannot change: before and after
\* any step it has the digest of the link.
LEMMA SameContent ==
    ASSUME LinkedBlobIntact, LinkedBlobIntact',
           NEW k \in DOMAIN links, k \in DOMAIN links'
    PROVE  Visible'[k] = Visible[k]
<1>1. /\ k[2] \in DOMAIN blobs /\ k[2] \in DOMAIN blobs'
      /\ DigestOf(data[blobs[k[2]]]) = k[2]
      /\ DigestOf(data'[blobs'[k[2]]]) = k[2]
  BY DEF LinkedBlobIntact, DigestOf
<1>2. data'[blobs'[k[2]]] = data[blobs[k[2]]]
  BY <1>1, DigestInjective
<1> QED BY <1>1, <1>2 DEF Visible

LEMMA SameVisible ==
    ASSUME LinkedBlobIntact, LinkedBlobIntact', DOMAIN links' = DOMAIN links
    PROVE  Visible' = Visible
<1>1. \A k \in DOMAIN links : Visible'[k] = Visible[k]
  BY SameContent
<1> QED BY <1>1 DEF Visible

\* The commit of an upload shows its blob in the repository.
LEMMA CommitLinks ==
    ASSUME TypeInv, LinkedBlobIntact, LinkedBlobIntact', NEW r \in Request,
           CommitLink(r)
    PROVE  [LinkTable!Next]_Visible
<1> DEFINE d == req[r].digest
           k == <<req[r].repo, d>>
           c == data'[blobs'[d]]
<1>1. /\ r \in DOMAIN req /\ req[r].pc = "commit"
      /\ links' = With(links, k, req[r].pos)
  BY DEF CommitLink, At
<1>2. d \in Digest /\ req[r].repo \in Repo
  BY <1>1, RequestFields DEF TypeInv, RequestInv, Finalizing
<1>3. DOMAIN links' = DOMAIN links \cup {k}
  BY <1>1 DEF With
<1>4. DigestOf(c) = d /\ d \in DOMAIN blobs'
  <2>1. k \in DOMAIN links' /\ k[2] = d
    BY <1>3
  <2>2. \A j \in DOMAIN links' :
          j[2] \in DOMAIN blobs' /\ DigestOf(data'[blobs'[j[2]]]) = j[2]
    BY DEF LinkedBlobIntact, DigestOf
  <2> HIDE DEF k
  <2>3. k[2] \in DOMAIN blobs' /\ DigestOf(data'[blobs'[k[2]]]) = k[2]
    BY <2>1, <2>2
  <2> QED BY <2>1, <2>3
<1>5. c \in Content
  BY <1>2, <1>4 DEF DigestOf, Digest
<1>6. Visible' = With(Visible, k, c)
  <2>1. Visible'[k] = c
    BY <1>3, <1>4 DEF Visible
  <2>2. \A j \in DOMAIN links : Visible'[j] = Visible[j]
    BY <1>3, SameContent
  <2>3. DOMAIN Visible' = DOMAIN links' /\ DOMAIN Visible = DOMAIN links
    BY DEF Visible
  <2>4. Visible' = [j \in DOMAIN Visible' |-> Visible'[j]]
    BY DEF Visible
  <2> HIDE DEF c, k
  <2> QED BY <1>3, <2>1, <2>2, <2>3, <2>4 DEF With
<1>7. LinkTable!Link(req[r].repo, c)
  BY <1>4, <1>6 DEF LinkTable!Link, LinkTable!With, With
<1> QED BY <1>2, <1>5, <1>7 DEF LinkTable!Next

LEMMA LinkTableStep ==
    ASSUME TypeInv, LinkedBlobIntact, LinkedBlobIntact', [Next]_vars
    PROVE  [LinkTable!Next]_Visible
<1>1. ASSUME NEW r \in Request, CommitLink(r) PROVE [LinkTable!Next]_Visible
  BY <1>1, CommitLinks
<1>2. CASE UNCHANGED links
  BY <1>2, SameVisible
<1>3. \/ UNCHANGED links
      \/ \E r \in Request : CommitLink(r)
  <2>1. ASSUME NEW r \in Request,
               Arrive(r) \/ Handle(r) \/ DropRequest(r) \/ DropWriter(r)
        PROVE  UNCHANGED links \/ CommitLink(r)
    BY <2>1 DEF Arrive, StartUpload, PatchUpload, PutUpload, CancelUpload,
       Handle, DropRequest, DropWriter, CreateUpload, InsertSession,
       CheckOffset, OpenUpload, WriteBlock, EndOfBody, UpdateSession,
       RequireUpload, OpenReader, HashBlock, CompareDigest, RenameToBlob,
       StatBlob, DeleteSession, AbortUpload, LateWrite, db
  <2> QED BY <2>1, BackgroundEffect DEF Next, vars, db
<1> QED BY <1>1, <1>2, <1>3

\* Under the same conditions the requests of an upload change what the
\* repositories show in one step, the commit: the blob appears whole, and nothing
\* shown before changes.
THEOREM ImplementsLinkTableCorrect ==
    ASSUME Serial, "push" \notin Faults
    PROVE  Spec => ImplementsLinkTable
<1>1. Init => LinkTable!Init
  BY DEF Init, Visible, LinkTable!Init, LinkTable!Empty, Empty
<1> QED BY <1>1, LinkTableStep, LinkedBlobIntactCorrect, TypeInvariant, PTL
        DEF Spec, ImplementsLinkTable, LinkTable!Spec
-----------------------------------------------------------------------------
(* One request finalizes a session, whatever overlaps *)

\* The rename is what decides between several PUT requests: it takes the file
\* away, and no file comes back under an id that was used.
FinishInv ==
    /\ \A r \in DOMAIN req : Past(r) => req[r].id \notin uploads
    /\ OneFinalizer

\* A step of request r that brings no file to uploads/ and does not get past the
\* rename.
LEMMA FinishKept ==
    ASSUME TypeInv, FinishInv, NEW r \in Request,
           Handle(r) \/ DropRequest(r) \/ DropWriter(r),
           uploads' \subseteq uploads,
           r \in DOMAIN req' => (Past(r)' => Past(r))
    PROVE  FinishInv'
<1>1. \A s \in DOMAIN req' :
        /\ s \in DOMAIN req
        /\ req'[s].id = req[s].id
        /\ Past(s)' => Past(s)
  BY HandlerEffect DEF Past
<1>2. OneFinalizer'
  BY <1>1 DEF FinishInv, OneFinalizer, Past
<1> QED BY <1>1, <1>2 DEF FinishInv

LEMMA HandlerFinish ==
    ASSUME TypeInv, FreshInv, FinishInv, NEW r \in Request,
           Handle(r) \/ DropRequest(r) \/ DropWriter(r)
    PROVE  FinishInv'
<1>0. /\ r \in DOMAIN req /\ req[r] \in RequestState
      /\ IsTable(req, Request, RequestState)
  BY HandlerEffect DEF TypeInv, RequestInv, IsTable
<1>2. CASE CreateUpload(r)
  <2>1. /\ req[r].pc = "create" /\ Goto(r, "insert")
        /\ uploads' = uploads \cup {req[r].id}
    BY <1>2 DEF CreateUpload, At
  <2>2. req'[r].pc = "insert" /\ ~Past(r)'
    BY <1>0, <2>1, GotoFields DEF Pc, Past
  <2>3. ASSUME NEW s \in DOMAIN req', Past(s)'
        PROVE  /\ s \in DOMAIN req /\ req'[s] = req[s] /\ Past(s)
               /\ req[s].id # req[r].id
    <3>1. s # r
      BY <2>2, <2>3
    <3>2. s \in DOMAIN req /\ req'[s] = req[s]
      BY <3>1, HandlerEffect
    <3> QED BY <1>0, <2>1, <2>3, <3>1, <3>2 DEF FreshInv, Past
  <2>4. OneFinalizer'
    BY <2>3, HandlerEffect DEF FinishInv, OneFinalizer, Past
  <2> QED BY <2>1, <2>3, <2>4 DEF FinishInv
<1>3. CASE RenameToBlob(r) /\ req[r].id \in uploads
  <2>1. Goto(r, "stat") /\ uploads' = uploads \ {req[r].id}
    BY <1>3 DEF RenameToBlob
  <2>2. req'[r].id = req[r].id
    BY <1>0, <2>1, GotoFields DEF Pc
  <2>3. ASSUME NEW s \in DOMAIN req', Past(s)', s # r
        PROVE  /\ s \in DOMAIN req /\ req'[s] = req[s] /\ Past(s)
               /\ req[s].id # req[r].id
    <3>1. s \in DOMAIN req /\ req'[s] = req[s]
      BY <2>3, HandlerEffect
    <3> QED BY <1>3, <2>3, <3>1 DEF FinishInv, Past
  <2>4. OneFinalizer'
    BY <2>2, <2>3 DEF FinishInv, OneFinalizer, Past
  <2>5. \A s \in DOMAIN req' : Past(s)' => req'[s].id \notin uploads'
    BY <2>1, <2>2, <2>3 DEF FinishInv
  <2> QED BY <2>4, <2>5 DEF FinishInv
<1>4. CASE CommitLink(r)
  <2>1. End(r) /\ UNCHANGED uploads
    BY <1>4 DEF CommitLink, files
  <2>2. r \notin DOMAIN req'
    BY <1>0, <2>1, EndEffect
  <2> QED BY <2>1, <2>2, FinishKept
<1>5. ASSUME uploads' \subseteq uploads,
             \/ End(r)
             \/ \E p \in Pc \ {"stat", "commit"} : Goto(r, p)
      PROVE  FinishInv'
  <2>1. CASE End(r)
    BY <1>0, <1>5, <2>1, EndEffect, FinishKept
  <2>2. ASSUME NEW p \in Pc \ {"stat", "commit"}, Goto(r, p) PROVE FinishInv'
    <3>1. ~Past(r)'
      BY <1>0, <2>2, GotoFields DEF Past
    <3> QED BY <1>5, <3>1, FinishKept
  <2> QED BY <1>5, <2>1, <2>2
<1>6. CASE \/ \E b \in Block : WriteBlock(r, b)
           \/ HashBlock(r)
           \/ (CompareDigest(r) /\ ~End(r))
           \/ (StatBlob(r) /\ ~End(r))
  <2>1. UNCHANGED uploads
    BY <1>6 DEF WriteBlock, HashBlock, CompareDigest, StatBlob, files
  <2>2. r \in DOMAIN req' => (Past(r)' => Past(r))
    <3>1. CASE \E b \in Block : WriteBlock(r, b)
      <4>1. /\ req' = [req EXCEPT ![r].pos = @ + 1]
            /\ req[r].pc = "write"
        BY <3>1 DEF WriteBlock, At
      <4>2. req'[r].pc = "write"
        BY <1>0, <4>1 DEF RequestState
      <4> QED BY <4>2 DEF Past
    <3>2. CASE HashBlock(r)
      <4>1. PICK n : req' = [req EXCEPT ![r].seen = n] /\ req[r].pc = "hash"
        BY <3>2 DEF HashBlock, At
      <4>2. req'[r].pc = "hash"
        BY <1>0, <4>1 DEF RequestState
      <4> QED BY <4>2 DEF Past
    <3>3. CASE CompareDigest(r) /\ ~End(r)
      <4>1. req' = [req EXCEPT ![r].pc = "rename", ![r].seen = <<>>]
        BY <3>3 DEF CompareDigest
      <4>2. req'[r].pc = "rename"
        BY <1>0, <4>1 DEF RequestState
      <4> QED BY <4>2 DEF Past
    <3>4. CASE StatBlob(r) /\ ~End(r)
      BY <3>4 DEF StatBlob, At, Past
    <3> QED BY <1>6, <3>1, <3>2, <3>3, <3>4
  <2> QED BY <2>1, <2>2, FinishKept
<1>7. CASE \/ RenameToBlob(r) /\ req[r].id \notin uploads
           \/ InsertSession(r) \/ CheckOffset(r) \/ OpenUpload(r)
           \/ EndOfBody(r) \/ UpdateSession(r) \/ RequireUpload(r)
           \/ OpenReader(r) \/ DeleteSession(r) \/ AbortUpload(r)
           \/ DropRequest(r) \/ DropWriter(r)
           \/ (\E b \in Block : LateWrite(r, b))
           \/ (CompareDigest(r) /\ End(r))
           \/ (StatBlob(r) /\ End(r))
  <2>1. uploads' \subseteq uploads
    BY <1>7 DEF RenameToBlob, InsertSession, CheckOffset, OpenUpload, EndOfBody,
       UpdateSession, RequireUpload, OpenReader, DeleteSession, AbortUpload,
       DropRequest, DropWriter, LateWrite, CompareDigest, StatBlob, files, db
  <2>2. \/ End(r)
        \/ \E p \in Pc \ {"stat", "commit"} : Goto(r, p)
    BY <1>7 DEF RenameToBlob, InsertSession, CheckOffset, OpenUpload, EndOfBody,
       UpdateSession, RequireUpload, OpenReader, DeleteSession, AbortUpload,
       DropRequest, DropWriter, LateWrite, Pc
  <2> QED BY <1>5, <2>1, <2>2
<1> QED BY <1>2, <1>3, <1>4, <1>6, <1>7 DEF Handle

\* A request that arrives is far from the rename.
LEMMA ArriveFinish ==
    ASSUME TypeInv, FinishInv, NEW r \in Request, Arrive(r)
    PROVE  FinishInv'
<1>1. UNCHANGED uploads
  BY DEF Arrive, StartUpload, PatchUpload, PutUpload, CancelUpload, files, db
<1>2. PICK q : /\ r \notin DOMAIN req /\ req' = With(req, r, q)
               /\ q.pc \in {"create", "check", "row"}
  <2>1. PICK u, p, pc, d, o :
          Begin(r, u, p, pc, d, o) /\ pc \in {"create", "check", "row"}
    BY DEF Arrive, StartUpload, PatchUpload, PutUpload, CancelUpload, BeginOn
  <2> QED BY <2>1 DEF Begin
<1>3. \A s \in DOMAIN req' :
        Past(s)' => s \in DOMAIN req /\ req'[s] = req[s] /\ Past(s)
  BY <1>2 DEF With, Past
<1>4. OneFinalizer'
  <2> SUFFICES ASSUME NEW s \in DOMAIN req', NEW v \in DOMAIN req', s # v,
                      req'[s].id = req'[v].id, Past(s)', Past(v)'
               PROVE  FALSE
    BY DEF OneFinalizer, Past
  <2> QED BY <1>3 DEF FinishInv, OneFinalizer, Past
<1> QED BY <1>1, <1>3, <1>4 DEF FinishInv

LEMMA BackgroundFinish ==
    ASSUME FinishInv,
           Background
    PROVE  FinishInv'
BY BackgroundEffect DEF FinishInv, OneFinalizer, Past, Empty

LEMMA FinishInvariant == Spec => []FinishInv
<1>1. Init => FinishInv
  BY DEF Init, Empty, FinishInv, OneFinalizer
<1>2. TypeInv /\ CoverInv /\ FinishInv /\ [Next]_vars => FinishInv'
  <2> SUFFICES ASSUME TypeInv, CoverInv, FinishInv, [Next]_vars PROVE FinishInv'
    OBVIOUS
  <2>1. CASE UNCHANGED vars
    BY <2>1 DEF vars, files, db, FinishInv, OneFinalizer, Past
  <2>2. FreshInv
    BY DEF CoverInv
  <2> QED BY <2>1, <2>2, ArriveFinish, HandlerFinish, BackgroundFinish DEF Next
<1> QED BY <1>1, <1>2, TypeInvariant, CoverInvariant, PTL DEF Spec

\* However many PUT requests of a session overlap, one at most gets past the
\* rename.
THEOREM OneFinalizerCorrect == Spec => []OneFinalizer
<1>1. FinishInv => OneFinalizer
  BY DEF FinishInv
<1> QED BY <1>1, FinishInvariant, PTL

-----------------------------------------------------------------------------
(* A restart leaves no upload file without a session *)

Keeper(s) == req[s].pc \in {"insert", "abort"}

\* While the server starts, the files without a session are among those that
\* startup_cleanup has yet to look at or could not remove.  A collection removes
\* a file before its row, or has tried to.
OrphanInv ==
    /\ startup => /\ DOMAIN req = {} /\ gcList = {} /\ gcFile = {}
                  /\ uploads \ DOMAIN sessions \subseteq listed \cup torn
    /\ ~startup => listed = {}
    /\ gcList \cup gcFile \subseteq DOMAIN data
    /\ gcFile \cap uploads \subseteq torn
    /\ NoOrphanFile

\* The other requests are left alone.
LEMMA OthersKept ==
    ASSUME TypeInv, NEW r \in Request,
           Handle(r) \/ DropRequest(r) \/ DropWriter(r)
    PROVE  \A s \in DOMAIN req : s # r => s \in DOMAIN req' /\ req'[s] = req[s]
<1>1. IsTable(req, Request, RequestState)
  BY DEF TypeInv, RequestInv
<1>2. \/ End(r) \/ DOMAIN req' = DOMAIN req
  BY DEF Handle, DropRequest, DropWriter, CreateUpload, InsertSession,
     CheckOffset, OpenUpload, WriteBlock, EndOfBody, UpdateSession,
     RequireUpload, OpenReader, HashBlock, CompareDigest, RenameToBlob,
     StatBlob, CommitLink, DeleteSession, AbortUpload, LateWrite, Goto
<1>3. CASE End(r)
  <2>1. DOMAIN req' = DOMAIN req \ {r}
    BY <1>3 DEF End, Without
  <2> QED BY <2>1, HandlerEffect
<1>4. CASE DOMAIN req' = DOMAIN req
  BY <1>4, HandlerEffect
<1> QED BY <1>2, <1>3, <1>4

\* A step of request r after which every file without a session either was one
\* before, and r did not answer for it, or is one that r answers for now.
LEMMA OrphanKept ==
    ASSUME TypeInv, OrphanInv, NEW r \in Request,
           Handle(r) \/ DropRequest(r) \/ DropWriter(r),
           UNCHANGED <<gcList, gcFile, startup, listed>>,
           DOMAIN data \subseteq DOMAIN data',
           gcFile \cap uploads' \subseteq torn', torn \subseteq torn',
           \A u \in uploads' \ DOMAIN sessions' :
               \/ u \in torn'
               \/ /\ u \in uploads \ DOMAIN sessions
                  /\ Keeper(r) => req[r].id # u
               \/ r \in DOMAIN req' /\ Keeper(r)' /\ req'[r].id = u
    PROVE  OrphanInv'
<1>1. r \in DOMAIN req /\ ~startup
  BY HandlerEffect DEF OrphanInv
<1>2. \A s \in DOMAIN req : s # r => s \in DOMAIN req' /\ req'[s] = req[s]
  BY OthersKept
<1>3. NoOrphanFile'
  <2> SUFFICES ASSUME NEW u \in uploads' \ DOMAIN sessions', u \notin torn'
               PROVE  \E s \in DOMAIN req' : req'[s].id = u /\ Keeper(s)'
    BY DEF NoOrphanFile, Keeper
  <2>1. CASE r \in DOMAIN req' /\ Keeper(r)' /\ req'[r].id = u
    BY <2>1
  <2>2. CASE u \in uploads \ DOMAIN sessions /\ (Keeper(r) => req[r].id # u)
    <3>1. PICK s \in DOMAIN req : req[s].id = u /\ Keeper(s)
      BY <1>1, <2>2 DEF OrphanInv, NoOrphanFile, Keeper
    <3>2. s # r
      BY <2>2, <3>1
    <3> QED BY <1>2, <3>1, <3>2 DEF Keeper
  <2> QED BY <2>1, <2>2
<1> QED BY <1>1, <1>3 DEF OrphanInv

LEMMA HandlerOrphan ==
    ASSUME TypeInv, FreshInv, FinishInv, OrphanInv, NEW r \in Request,
           Handle(r) \/ DropRequest(r) \/ DropWriter(r)
    PROVE  OrphanInv'
<1>0. /\ r \in DOMAIN req /\ req[r] \in RequestState
      /\ IsTable(req, Request, RequestState)
  BY HandlerEffect DEF TypeInv, RequestInv, IsTable
<1>1. CASE CreateUpload(r)
  <2>1. /\ req[r].pc = "create" /\ Goto(r, "insert")
        /\ DOMAIN data' = DOMAIN data \cup {req[r].id}
        /\ uploads' = uploads \cup {req[r].id}
        /\ UNCHANGED <<sessions, gcList, gcFile, startup, listed, torn>>
    BY <1>1 DEF CreateUpload, At, With, db, gc, boot
  <2>2. r \in DOMAIN req' /\ req'[r].pc = "insert" /\ req'[r].id = req[r].id
    BY <1>0, <2>1, GotoFields, GotoEffect DEF Pc
  <2>3. gcFile \cap uploads' \subseteq torn
    BY <1>0, <2>1 DEF FreshInv, OrphanInv
  <2> QED BY <2>1, <2>2, <2>3, OrphanKept DEF Keeper
<1>2. CASE InsertSession(r)
  <2>1. /\ UNCHANGED <<data, uploads, gcList, gcFile, startup, listed, torn>>
        /\ DOMAIN sessions' = DOMAIN sessions \cup {req[r].id}
    BY <1>2 DEF InsertSession, With, files, gc, boot
  <2> QED BY <2>1, OrphanKept DEF OrphanInv
<1>3. CASE DeleteSession(r)
  <2>1. /\ UNCHANGED <<data, uploads, gcList, gcFile, startup, listed, torn>>
        /\ DOMAIN sessions' = DOMAIN sessions \ {req[r].id}
        /\ req[r].pc = "row" /\ Goto(r, "abort")
    BY <1>3 DEF DeleteSession, At, Without, files, gc, boot
  <2>2. r \in DOMAIN req' /\ req'[r].pc = "abort" /\ req'[r].id = req[r].id
    BY <1>0, <2>1, GotoFields, GotoEffect DEF Pc
  <2> QED BY <2>1, <2>2, OrphanKept DEF OrphanInv, Keeper
<1>4. CASE AbortUpload(r)
  <2>1. /\ UNCHANGED <<data, sessions, gcList, gcFile, startup, listed, torn>>
        /\ uploads' = uploads \ {req[r].id}
    BY <1>4 DEF AbortUpload, db, gc, boot
  <2>2. DOMAIN data \subseteq DOMAIN data' /\ torn \subseteq torn'
    BY <2>1
  <2>3. gcFile \cap uploads' \subseteq torn
    BY <2>1 DEF OrphanInv
  <2>4. \A u \in uploads' \ DOMAIN sessions' :
            u \in uploads \ DOMAIN sessions /\ req[r].id # u
    BY <2>1
  <2> QED BY <2>1, <2>2, <2>3, <2>4, OrphanKept
<1>5. CASE CommitLink(r)
  <2>1. /\ UNCHANGED <<data, uploads, gcList, gcFile, startup, listed, torn>>
        /\ DOMAIN sessions' = DOMAIN sessions \ {req[r].id}
        /\ req[r].pc = "commit"
    BY <1>5 DEF CommitLink, At, Without, files, gc, boot
  <2>2. req[r].id \notin uploads
    BY <1>0, <2>1 DEF FinishInv, Past
  <2> QED BY <2>1, <2>2, OrphanKept DEF OrphanInv, Keeper
<1>6. CASE DropRequest(r)
  <2>1. /\ UNCHANGED <<data, uploads, sessions, gcList, gcFile, startup, listed>>
        /\ torn \subseteq torn'
        /\ Keeper(r) => req[r].id \in torn'
    BY <1>6 DEF DropRequest, Keeper, files, db, gc, boot
  <2>2. gcFile \cap uploads' \subseteq torn'
    BY <2>1 DEF OrphanInv
  <2>3. \A u \in uploads' \ DOMAIN sessions' :
            \/ u \in torn'
            \/ /\ u \in uploads \ DOMAIN sessions
               /\ Keeper(r) => req[r].id # u
    BY <2>1
  <2> QED BY <2>1, <2>2, <2>3, OrphanKept
<1>7. ASSUME ~Keeper(r), uploads' \subseteq uploads, DOMAIN data' = DOMAIN data,
             DOMAIN sessions' = DOMAIN sessions,
             UNCHANGED <<gcList, gcFile, startup, listed, torn>>
      PROVE  OrphanInv'
  BY <1>7, OrphanKept DEF OrphanInv
<1>8. CASE \/ CheckOffset(r) \/ OpenUpload(r)
           \/ (\E b \in Block : WriteBlock(r, b))
           \/ EndOfBody(r) \/ UpdateSession(r)
           \/ RequireUpload(r) \/ OpenReader(r) \/ HashBlock(r)
           \/ CompareDigest(r) \/ RenameToBlob(r) \/ StatBlob(r)
           \/ (\E b \in Block : LateWrite(r, b)) \/ DropWriter(r)
  <2>1. ~Keeper(r)
    BY <1>8 DEF CheckOffset, OpenUpload, WriteBlock, EndOfBody, UpdateSession,
       RequireUpload, OpenReader, HashBlock, CompareDigest, RenameToBlob,
       StatBlob, LateWrite, DropWriter, At, Keeper
  <2>2. /\ uploads' \subseteq uploads
        /\ UNCHANGED <<gcList, gcFile, startup, listed, torn>>
    BY <1>8 DEF CheckOffset, OpenUpload, WriteBlock, EndOfBody, UpdateSession,
       RequireUpload, OpenReader, HashBlock, CompareDigest, RenameToBlob,
       StatBlob, LateWrite, DropWriter, files, gc, boot
  <2>3. DOMAIN data' = DOMAIN data
    BY <1>8 DEF CheckOffset, OpenUpload, WriteBlock, EndOfBody, UpdateSession,
       RequireUpload, OpenReader, HashBlock, CompareDigest, RenameToBlob,
       StatBlob, LateWrite, DropWriter, files
  <2>4. DOMAIN sessions' = DOMAIN sessions
    BY <1>8 DEF CheckOffset, OpenUpload, WriteBlock, EndOfBody, UpdateSession,
       RequireUpload, OpenReader, HashBlock, CompareDigest, RenameToBlob,
       StatBlob, LateWrite, DropWriter, db
  <2> QED BY <1>7, <2>1, <2>2, <2>3, <2>4
<1> QED BY <1>1, <1>2, <1>3, <1>4, <1>5, <1>6, <1>8 DEF Handle

LEMMA ArriveOrphan ==
    ASSUME OrphanInv, NEW r \in Request, Arrive(r)
    PROVE  OrphanInv'
<1>1. UNCHANGED <<data, uploads, sessions, gcList, gcFile, startup, listed, torn>>
  BY DEF Arrive, StartUpload, PatchUpload, PutUpload, CancelUpload, files, db,
     gc, boot
<1>2. ~startup /\ r \notin DOMAIN req /\ \E q : req' = With(req, r, q)
  <2>1. PICK u, p, pc, d, o : Begin(r, u, p, pc, d, o)
    BY DEF Arrive, StartUpload, PatchUpload, PutUpload, CancelUpload, BeginOn
  <2> QED BY <2>1 DEF Begin
<1>3. \A s \in DOMAIN req : s \in DOMAIN req' /\ req'[s] = req[s]
  BY <1>2 DEF With
<1>4. NoOrphanFile'
  BY <1>1, <1>2, <1>3 DEF OrphanInv, NoOrphanFile
<1> QED BY <1>1, <1>2, <1>4 DEF OrphanInv

LEMMA BackgroundOrphan ==
    ASSUME TypeInv, OrphanInv,
           Background
    PROVE  OrphanInv'
<1>1. ASSUME NEW u \in Upload, Expire(u) PROVE OrphanInv'
  <2>1. /\ DOMAIN sessions' = DOMAIN sessions
        /\ UNCHANGED <<data, uploads, req, gcList, gcFile, startup, listed, torn>>
    BY <1>1 DEF Expire, files, gc, boot
  <2> QED BY <2>1 DEF OrphanInv, NoOrphanFile
<1>2. ASSUME NEW u \in Upload, GcAbortUpload(u) PROVE OrphanInv'
  <2>1. /\ u \in gcList /\ gcFile' = {u}
        /\ \/ uploads' = uploads \ {u} /\ torn' = torn
           \/ uploads' = uploads /\ torn' = torn \cup {u}
        /\ UNCHANGED <<data, sessions, req, gcList, startup, listed>>
    BY <1>2 DEF GcAbortUpload, db, boot
  <2> QED BY <2>1 DEF OrphanInv, NoOrphanFile
<1>3. ASSUME NEW u \in Upload, GcDeleteSession(u) PROVE OrphanInv'
  <2>1. /\ u \in gcFile /\ DOMAIN sessions' = DOMAIN sessions \ {u}
        /\ gcList' = gcList \ {u} /\ gcFile' = {}
        /\ UNCHANGED <<data, uploads, req, startup, listed, torn>>
    BY <1>3 DEF GcDeleteSession, Without, files, boot
  <2> QED BY <2>1 DEF OrphanInv, NoOrphanFile
<1>4. ASSUME NEW u \in Upload, CleanUpload(u) PROVE OrphanInv'
  <2>1. /\ u \in listed
        /\ \/ u \in DOMAIN sessions /\ uploads' = uploads /\ torn' = torn
           \/ uploads' = uploads \ {u} /\ torn' = torn
           \/ uploads' = uploads /\ torn' = torn \cup {u}
        /\ listed' = listed \ {u}
        /\ UNCHANGED <<data, sessions, req, gcList, gcFile, startup>>
    BY <1>4 DEF CleanUpload, db, gc
  <2> QED BY <2>1 DEF OrphanInv, NoOrphanFile
<1>5. CASE GcListExpired \/ GcEnd \/ GcFail \/ LoseJob
  <2>1. /\ UNCHANGED <<data, uploads, sessions, req, startup, listed, torn>>
        /\ gcList' \subseteq gcList \cup DOMAIN sessions
        /\ gcFile' \subseteq gcFile
        /\ startup => gcList' \subseteq gcList
    BY <1>5 DEF GcListExpired, GcEnd, GcFail, LoseJob, files, db, boot
  <2>2. DOMAIN sessions \subseteq DOMAIN data
    BY DEF TypeInv, StoreInv
  <2> QED BY <2>1, <2>2 DEF OrphanInv, NoOrphanFile
<1>6. CASE Crash
  <2>1. /\ UNCHANGED <<data, uploads, sessions>>
        /\ req' = Empty /\ gcList' = {} /\ gcFile' = {}
        /\ startup' = TRUE /\ listed' = uploads
    BY <1>6 DEF Crash, files, db
  <2> QED BY <2>1 DEF OrphanInv, NoOrphanFile, Empty
<1>7. CASE Serve
  <2>1. /\ UNCHANGED <<data, uploads, sessions, req, gcList, gcFile, listed, torn>>
        /\ startup /\ listed = {} /\ startup' = FALSE
    BY <1>7 DEF Serve, files, db, gc
  <2> QED BY <2>1 DEF OrphanInv, NoOrphanFile
<1>8. ASSUME NEW d \in Digest, DiscardBlob(d) PROVE OrphanInv'
  BY <1>8 DEF DiscardBlob, OrphanInv, NoOrphanFile, db, gc, boot
<1> QED
  BY <1>1, <1>2, <1>3, <1>4, <1>5, <1>6, <1>7, <1>8 DEF Background, Collect

LEMMA OrphanInvariant == Spec => []OrphanInv
<1>1. Init => OrphanInv
  BY DEF Init, Empty, OrphanInv, NoOrphanFile
<1>2. TypeInv /\ CoverInv /\ FinishInv /\ OrphanInv /\ [Next]_vars => OrphanInv'
  <2> SUFFICES ASSUME TypeInv, CoverInv, FinishInv, OrphanInv, [Next]_vars
               PROVE  OrphanInv'
    OBVIOUS
  <2>1. CASE UNCHANGED vars
    BY <2>1 DEF vars, files, db, gc, boot, OrphanInv, NoOrphanFile
  <2>2. FreshInv
    BY DEF CoverInv
  <2> QED BY <2>1, <2>2, ArriveOrphan, HandlerOrphan, BackgroundOrphan DEF Next
<1> QED BY <1>1, <1>2, TypeInvariant, CoverInvariant, FinishInvariant, PTL DEF Spec

\* Every upload file without a session belongs to a POST or DELETE under way or
\* dropped since the last start began, or to a removal that failed since then,
\* however requests overlap.
THEOREM NoOrphanFileCorrect == Spec => []NoOrphanFile
<1>1. OrphanInv => NoOrphanFile
  BY DEF OrphanInv
<1> QED BY <1>1, OrphanInvariant, PTL

-----------------------------------------------------------------------------
(* A closed session stays closed *)

\* A file comes to uploads/ only under an id without one, and a row is added
\* only by the POST that is about to do so.
LEMMA OnlyPostOpens ==
    ASSUME TypeInv, FreshInv, [Next]_vars, NEW u \in DOMAIN data
    PROVE  /\ u \in uploads' => u \in uploads
           /\ u \in DOMAIN sessions' =>
                 \/ u \in DOMAIN sessions
                 \/ \E r \in DOMAIN req : req[r].id = u /\ req[r].pc = "insert"
<1> DEFINE P == /\ u \in uploads' => u \in uploads
                /\ u \in DOMAIN sessions' =>
                      \/ u \in DOMAIN sessions
                      \/ \E r \in DOMAIN req : req[r].id = u /\ req[r].pc = "insert"
<1>1. CASE UNCHANGED vars
  BY <1>1 DEF vars, files, db
<1>2. ASSUME NEW r \in Request, Arrive(r) PROVE P
  BY <1>2 DEF Arrive, StartUpload, PatchUpload, PutUpload, CancelUpload, files, db
<1>3. ASSUME NEW r \in Request, Handle(r) \/ DropRequest(r) \/ DropWriter(r)
      PROVE  P
  <2>1. CASE CreateUpload(r)
    BY <2>1 DEF CreateUpload, At, FreshInv, db
  <2>2. CASE InsertSession(r)
    BY <2>2 DEF InsertSession, At, With, files
  <2>3. CASE UpdateSession(r)
    <3>1. /\ UNCHANGED uploads
          /\ UNCHANGED sessions \/ \E i, o : sessions' =
                [sessions EXCEPT ![i].offset = o, ![i].expired = FALSE]
      BY <2>3 DEF UpdateSession, files
    <3> QED BY <3>1
  <2>4. CASE ~(CreateUpload(r) \/ InsertSession(r) \/ UpdateSession(r))
    <3>1. uploads' \subseteq uploads /\ DOMAIN sessions' \subseteq DOMAIN sessions
      BY <1>3, <2>4 DEF Handle, CheckOffset, OpenUpload, WriteBlock, EndOfBody,
         RequireUpload, OpenReader, HashBlock, CompareDigest, RenameToBlob,
         StatBlob, CommitLink, DeleteSession, AbortUpload, LateWrite,
         DropRequest, DropWriter, Without, files, db
    <3> QED BY <3>1
  <2> QED BY <2>1, <2>2, <2>3, <2>4
<1>4. ASSUME Background
      PROVE  uploads' \subseteq uploads /\ DOMAIN sessions' \subseteq DOMAIN sessions
  BY <1>4, BackgroundEffect
<1> QED BY <1>1, <1>2, <1>3, <1>4 DEF Next

\* A session that was completed, cancelled or collected does not come back, nor
\* does its file, whatever the requests still in flight for it do, for any
\* number of them.
THEOREM ClosedStaysClosedCorrect == Spec => ClosedStaysClosed
<1> DEFINE Step == \A u \in DOMAIN data :
          /\ u \notin uploads => u \notin uploads'
          /\ u \notin DOMAIN sessions
             /\ (\A r \in DOMAIN req : req[r].id = u => req[r].pc # "insert")
             => u \notin DOMAIN sessions'
<1>1. TypeInv /\ CoverInv /\ [Next]_vars => [Step]_vars
  BY OnlyPostOpens DEF CoverInv
<1>2. ClosedStaysClosed <=> [][Step]_vars
  BY DEF ClosedStaysClosed
<1> QED BY <1>1, <1>2, TypeInvariant, CoverInvariant, PTL DEF Spec

-----------------------------------------------------------------------------
(* A session has its file *)

\* The POST that will add a row has its file and is alone with it: what comes
\* for its id finds no row and ends.  A DELETE that is to remove the file has
\* removed the row, for good.  A collection is between file and row of one
\* session at a time.
HasFileInv ==
    /\ SessionHasFile
    /\ \A r \in DOMAIN req :
         req[r].pc = "insert" =>
            /\ req[r].id \in uploads \ DOMAIN sessions
            /\ req[r].id \notin gcList
            /\ \A s \in DOMAIN req :
                  s # r /\ req[s].id = req[r].id => req[s].pc = "check"
    /\ \A r \in DOMAIN req : req[r].pc = "abort" => req[r].id \notin DOMAIN sessions
    /\ \A u, v \in gcFile : u = v

\* A step of request r that adds neither file nor row, takes at most its own
\* file, and says so if it leaves the session without one.
LEMMA HasFileKept ==
    ASSUME TypeInv, HasFileInv, NEW r \in Request,
           Handle(r) \/ DropRequest(r) \/ DropWriter(r),
           UNCHANGED gc, cut \subseteq cut',
           DOMAIN sessions' \subseteq DOMAIN sessions,
           \A u \in uploads : u # req[r].id => u \in uploads',
           req[r].pc = "check" =>
              /\ uploads' = uploads
              /\ r \in DOMAIN req' => req[r].id \in DOMAIN sessions,
           r \in DOMAIN req' => /\ req'[r].pc \notin {"insert", "check"}
                                /\ req'[r].pc = "abort" => req[r].id \notin DOMAIN sessions',
           req[r].id \in DOMAIN sessions' \ uploads' =>
              \/ req[r].id \in cut'
              \/ r \in DOMAIN req' /\ Past(r)'
              \/ req[r].id \notin uploads /\ ~Past(r)
    PROVE  HasFileInv'
<1>1. \A s \in DOMAIN req : s # r => s \in DOMAIN req' /\ req'[s] = req[s]
  BY OthersKept
<1>2. /\ r \in DOMAIN req
      /\ \A s \in DOMAIN req' : s \in DOMAIN req /\ req'[s].id = req[s].id
  BY HandlerEffect
<1>3. UNCHANGED <<gcList, gcFile>>
  BY DEF gc
<1>4. SessionHasFile'
  <2> SUFFICES ASSUME NEW u \in DOMAIN sessions' \ uploads', u \notin gcFile \cup cut'
               PROVE  \E s \in DOMAIN req' : req'[s].id = u /\ Past(s)'
    BY <1>3 DEF SessionHasFile
  <2>1. CASE u = req[r].id /\ r \in DOMAIN req' /\ Past(r)'
    BY <1>2, <2>1
  <2>2. CASE u \notin uploads /\ (u = req[r].id => ~Past(r))
    <3>1. PICK s \in DOMAIN req : req[s].id = u /\ Past(s)
      BY <2>2 DEF HasFileInv, SessionHasFile
    <3>2. s # r
      BY <2>2, <3>1
    <3> QED BY <1>1, <3>1, <3>2 DEF Past
  <2> QED BY <2>1, <2>2
<1>5. ASSUME NEW s \in DOMAIN req', req'[s].pc = "insert"
      PROVE  /\ req'[s].id \in uploads' \ DOMAIN sessions'
             /\ req'[s].id \notin gcList'
             /\ \A v \in DOMAIN req' :
                  v # s /\ req'[v].id = req'[s].id => req'[v].pc = "check"
  <2>1. s # r /\ s \in DOMAIN req /\ req'[s] = req[s]
    BY <1>1, <1>2, <1>5
  <2>2. /\ req[s].id \in uploads \ DOMAIN sessions
        /\ req[s].id \notin gcList
        /\ \A v \in DOMAIN req : v # s /\ req[v].id = req[s].id => req[v].pc = "check"
    BY <1>5, <2>1 DEF HasFileInv
  <2>3. req[s].id = req[r].id => uploads' = uploads /\ r \notin DOMAIN req'
    BY <1>2, <2>1, <2>2
  <2>4. req'[s].id \in uploads' \ DOMAIN sessions'
    BY <2>1, <2>2, <2>3
  <2>5. ASSUME NEW v \in DOMAIN req', v # s, req'[v].id = req'[s].id
        PROVE  req'[v].pc = "check"
    BY <1>1, <1>2, <2>1, <2>2, <2>3, <2>5
  <2> QED BY <1>3, <2>1, <2>2, <2>4, <2>5
<1>6. ASSUME NEW s \in DOMAIN req', req'[s].pc = "abort"
      PROVE  req'[s].id \notin DOMAIN sessions'
  BY <1>1, <1>2, <1>6 DEF HasFileInv
<1> QED BY <1>3, <1>4, <1>5, <1>6 DEF HasFileInv

LEMMA HandlerHasFile ==
    ASSUME TypeInv, FreshInv, FinishInv, OrphanInv, HasFileInv, NEW r \in Request,
           Handle(r) \/ DropRequest(r) \/ DropWriter(r)
    PROVE  HasFileInv'
<1>0. /\ r \in DOMAIN req /\ req[r] \in RequestState
      /\ IsTable(req, Request, RequestState)
  BY HandlerEffect DEF TypeInv, RequestInv, IsTable
<1>a. \A s \in DOMAIN req : s # r => s \in DOMAIN req' /\ req'[s] = req[s]
  BY OthersKept
<1>b. \A s \in DOMAIN req' : s \in DOMAIN req /\ req'[s].id = req[s].id
  BY HandlerEffect
<1>1. CASE CreateUpload(r)
  <2>1. /\ req[r].pc = "create" /\ Goto(r, "insert")
        /\ uploads' = uploads \cup {req[r].id}
        /\ UNCHANGED <<sessions, gcList, gcFile, cut>>
    BY <1>1 DEF CreateUpload, At, db, gc
  <2>2. req'[r].pc = "insert" /\ req'[r].id = req[r].id
    BY <1>0, <2>1, GotoFields DEF Pc
  <2>3. /\ req[r].id \notin DOMAIN sessions /\ req[r].id \notin gcList
        /\ \A s \in DOMAIN req : s # r => req[s].id # req[r].id
    BY <1>0, <2>1 DEF FreshInv, OrphanInv, TypeInv, StoreInv
  <2>4. SessionHasFile'
    BY <1>a, <2>1 DEF HasFileInv, SessionHasFile, Past
  <2>5. ASSUME NEW s \in DOMAIN req', req'[s].pc = "insert"
        PROVE  /\ req'[s].id \in uploads' \ DOMAIN sessions'
               /\ req'[s].id \notin gcList'
               /\ \A v \in DOMAIN req' :
                    v # s /\ req'[v].id = req'[s].id => req'[v].pc = "check"
    <3>1. CASE s = r
      BY <1>b, <2>1, <2>2, <2>3, <3>1
    <3>2. CASE s # r
      BY <1>a, <1>b, <2>1, <2>2, <2>3, <2>5, <3>2 DEF HasFileInv
    <3> QED BY <3>1, <3>2
  <2>6. ASSUME NEW s \in DOMAIN req', req'[s].pc = "abort"
        PROVE  req'[s].id \notin DOMAIN sessions'
    BY <1>a, <1>b, <2>1, <2>2, <2>6 DEF HasFileInv
  <2> QED BY <2>1, <2>4, <2>5, <2>6 DEF HasFileInv
<1>2. CASE InsertSession(r)
  <2>1. /\ req[r].pc = "insert" /\ End(r)
        /\ DOMAIN sessions' = DOMAIN sessions \cup {req[r].id}
        /\ UNCHANGED <<uploads, gcList, gcFile, cut>>
    BY <1>2 DEF InsertSession, At, With, files, gc
  <2>2. /\ req[r].id \in uploads
        /\ \A s \in DOMAIN req : s # r /\ req[s].id = req[r].id => req[s].pc = "check"
    BY <1>0, <2>1 DEF HasFileInv
  <2>3. r \notin DOMAIN req'
    BY <1>0, <2>1, EndEffect
  <2>4. SessionHasFile'
    BY <1>a, <2>1, <2>2 DEF HasFileInv, SessionHasFile, Past
  <2>5. ASSUME NEW s \in DOMAIN req'
        PROVE  /\ s # r /\ s \in DOMAIN req /\ req'[s] = req[s]
               /\ req[s].pc \in {"insert", "abort"} => req[s].id # req[r].id
    BY <1>a, <1>b, <2>2, <2>3, <2>5
  <2> QED BY <2>1, <2>4, <2>5 DEF HasFileInv
<1>3. CASE CheckOffset(r)
  <2>1. /\ req[r].pc = "check" /\ UNCHANGED <<uploads, sessions, gc, cut>>
        /\ \/ End(r)
           \/ Goto(r, "open") /\ req[r].id \in DOMAIN sessions
    BY <1>3 DEF CheckOffset, Owned, At, files, db
  <2>2. r \in DOMAIN req' => req'[r].pc = "open" /\ req[r].id \in DOMAIN sessions
    BY <1>0, <2>1, EndEffect, GotoFields DEF Pc
  <2> QED BY <2>1, <2>2, HasFileKept DEF Past
<1>4. CASE RenameToBlob(r)
  <2>1. /\ req[r].pc = "rename" /\ UNCHANGED <<sessions, gc, cut>>
        /\ \/ End(r) /\ UNCHANGED uploads
           \/ Goto(r, "stat") /\ uploads' = uploads \ {req[r].id}
    BY <1>4 DEF RenameToBlob, At, db
  <2>2. r \in DOMAIN req' => req'[r].pc = "stat" /\ Past(r)'
    BY <1>0, <2>1, EndEffect, GotoFields DEF Pc, Past
  <2>3. Goto(r, "stat") => r \in DOMAIN req'
    BY <1>0, GotoEffect DEF Pc
  <2>4. \A u \in uploads : u # req[r].id => u \in uploads'
    BY <2>1
  <2>5. uploads' = uploads \/ (r \in DOMAIN req' /\ Past(r)')
    BY <2>1, <2>2, <2>3
  <2>6. ~Past(r)
    BY <2>1 DEF Past
  <2> QED BY <2>1, <2>2, <2>4, <2>5, <2>6, HasFileKept
<1>5. CASE StatBlob(r)
  <2>1. /\ req[r].pc = "stat" /\ UNCHANGED <<uploads, sessions, gc>>
        /\ cut \subseteq cut'
    BY <1>5 DEF StatBlob, At, files, db
  <2>2. CASE req[r].digest \notin DOMAIN blobs
    <3>1. End(r) /\ req[r].id \in cut'
      BY <1>5, <2>2 DEF StatBlob
    <3>2. r \notin DOMAIN req'
      BY <1>0, <3>1, EndEffect
    <3> QED BY <2>1, <3>1, <3>2, HasFileKept
  <2>3. CASE req[r].digest \in DOMAIN blobs
    <3> DEFINE n == Len(data[blobs[req[r].digest]])
    <3>1. req' = [req EXCEPT ![r].pc = "commit", ![r].pos = n]
      BY <1>5, <2>3 DEF StatBlob
    <3> HIDE DEF n
    <3>2. req'[r].pc = "commit" /\ r \in DOMAIN req'
      BY <1>0, <3>1 DEF RequestState
    <3> QED BY <2>1, <3>2, HasFileKept DEF Past
  <2> QED BY <2>2, <2>3
<1>6. CASE CommitLink(r)
  <2>1. /\ req[r].pc = "commit" /\ End(r) /\ UNCHANGED <<uploads, gc, cut>>
        /\ DOMAIN sessions' = DOMAIN sessions \ {req[r].id}
    BY <1>6 DEF CommitLink, At, Without, files
  <2>2. r \notin DOMAIN req'
    BY <1>0, <2>1, EndEffect
  <2> QED BY <2>1, <2>2, HasFileKept
<1>7. CASE DeleteSession(r)
  <2>1. /\ req[r].pc = "row" /\ Goto(r, "abort") /\ UNCHANGED <<uploads, gc, cut>>
        /\ DOMAIN sessions' = DOMAIN sessions \ {req[r].id}
    BY <1>7 DEF DeleteSession, At, Without, files
  <2>2. req'[r].pc = "abort"
    BY <1>0, <2>1, GotoFields DEF Pc
  <2> QED BY <2>1, <2>2, HasFileKept
<1>8. CASE AbortUpload(r)
  <2>1. /\ req[r].pc = "abort" /\ End(r) /\ UNCHANGED <<sessions, gc, cut>>
        /\ uploads' = uploads \ {req[r].id}
    BY <1>8 DEF AbortUpload, At, db
  <2>2. r \notin DOMAIN req'
    BY <1>0, <2>1, EndEffect
  <2>3. req[r].id \notin DOMAIN sessions
    BY <1>0, <2>1 DEF HasFileInv
  <2>4. \A u \in uploads : u # req[r].id => u \in uploads'
    BY <2>1
  <2> QED BY <2>1, <2>2, <2>3, <2>4, HasFileKept
<1>9. CASE DropRequest(r)
  <2>1. /\ End(r) /\ UNCHANGED <<uploads, sessions, gc>>
        /\ cut \subseteq cut'
        /\ Past(r) => req[r].id \in cut'
    BY <1>9 DEF DropRequest, files, db
  <2>2. r \notin DOMAIN req'
    BY <1>0, <2>1, EndEffect
  <2> QED BY <2>1, <2>2, HasFileKept
<1>10. ASSUME UNCHANGED <<uploads, gc, cut>>, DOMAIN sessions' = DOMAIN sessions,
              req[r].pc # "check", ~Past(r),
              r \in DOMAIN req' => req'[r].pc \notin {"insert", "check", "abort"}
       PROVE  HasFileInv'
  BY <1>10, HasFileKept
<1>11. CASE \/ OpenUpload(r) \/ EndOfBody(r) \/ UpdateSession(r) \/ RequireUpload(r)
            \/ OpenReader(r) \/ DropWriter(r) \/ (\E b \in Block : LateWrite(r, b))
  <2>1. /\ UNCHANGED <<uploads, gc, cut>> /\ req[r].pc # "check" /\ ~Past(r)
        /\ \/ End(r)
           \/ \E p \in {"write", "update", "require", "reader", "hash", "late"} :
                 Goto(r, p)
    BY <1>11 DEF OpenUpload, EndOfBody, UpdateSession, RequireUpload, OpenReader,
       DropWriter, LateWrite, At, Past, files
  <2>2. DOMAIN sessions' = DOMAIN sessions
    BY <1>11 DEF OpenUpload, EndOfBody, UpdateSession, RequireUpload, OpenReader,
       DropWriter, LateWrite, db
  <2>3. r \in DOMAIN req' => req'[r].pc \notin {"insert", "check", "abort"}
    <3>1. CASE End(r)
      BY <1>0, <3>1, EndEffect
    <3>2. ASSUME NEW p \in {"write", "update", "require", "reader", "hash", "late"},
                 Goto(r, p)
          PROVE  req'[r].pc \notin {"insert", "check", "abort"}
      BY <1>0, <3>2, GotoFields DEF Pc
    <3> QED BY <2>1, <3>1, <3>2
  <2> QED BY <1>10, <2>1, <2>2, <2>3
<1>12. CASE HashBlock(r) \/ CompareDigest(r) \/ \E b \in Block : WriteBlock(r, b)
  <2>1. /\ UNCHANGED <<uploads, sessions, gc, cut>>
        /\ req[r].pc \in {"hash", "write"}
    BY <1>12 DEF HashBlock, CompareDigest, WriteBlock, At, files, db
  <2>2. r \in DOMAIN req' => req'[r].pc \in {"hash", "rename", "write"}
    <3>1. CASE End(r)
      BY <1>0, <3>1, EndEffect
    <3>2. CASE HashBlock(r)
      BY <1>0, <3>2 DEF HashBlock, At, RequestState
    <3>3. CASE CompareDigest(r) /\ ~End(r)
      BY <1>0, <3>3 DEF CompareDigest, RequestState
    <3>4. CASE \E b \in Block : WriteBlock(r, b)
      BY <1>0, <3>4 DEF WriteBlock, At, RequestState
    <3> QED BY <1>12, <3>1, <3>2, <3>3, <3>4
  <2> QED BY <1>10, <2>1, <2>2 DEF Past
<1> QED
  BY <1>1, <1>2, <1>3, <1>4, <1>5, <1>6, <1>7, <1>8, <1>9, <1>11, <1>12 DEF Handle

\* What arrives for an id whose row is yet to be added is a PATCH; a PUT or a
\* DELETE has looked for the row.
LEMMA ArriveHasFile ==
    ASSUME TypeInv, HasFileInv, NEW r \in Request, Arrive(r)
    PROVE  HasFileInv'
<1>1. UNCHANGED <<uploads, sessions, gcList, gcFile, cut>>
  BY DEF Arrive, StartUpload, PatchUpload, PutUpload, CancelUpload, files, db, gc
<1>2. PICK q : /\ r \notin DOMAIN req /\ req' = With(req, r, q)
               /\ q.pc \in {"create", "check", "row"}
               /\ q.pc = "create" => \A s \in DOMAIN req : req[s].id # q.id
               /\ q.pc = "row" => q.id \in DOMAIN sessions
  <2>1. PICK u, p, pc, d, o :
          /\ Begin(r, u, p, pc, d, o) /\ pc \in {"create", "check", "row"}
          /\ pc = "create" => ~Busy(u)
          /\ pc = "row" => u \in DOMAIN sessions
    BY DEF Arrive, StartUpload, PatchUpload, PutUpload, CancelUpload, BeginOn, Owned
  <2> QED BY <2>1 DEF Begin, Busy
<1>3. /\ DOMAIN req' = DOMAIN req \cup {r} /\ req'[r] = q
      /\ \A s \in DOMAIN req : s # r /\ req'[s] = req[s]
  BY <1>2 DEF With
<1>4. SessionHasFile'
  BY <1>1, <1>3 DEF HasFileInv, SessionHasFile, Past
<1>5. ASSUME NEW s \in DOMAIN req', req'[s].pc = "insert"
      PROVE  /\ req'[s].id \in uploads' \ DOMAIN sessions'
             /\ req'[s].id \notin gcList'
             /\ \A v \in DOMAIN req' :
                  v # s /\ req'[v].id = req'[s].id => req'[v].pc = "check"
  <2>1. s \in DOMAIN req /\ req'[s] = req[s]
    BY <1>2, <1>3, <1>5
  <2>2. /\ req[s].id \in uploads \ DOMAIN sessions /\ req[s].id \notin gcList
        /\ \A v \in DOMAIN req : v # s /\ req[v].id = req[s].id => req[v].pc = "check"
    BY <1>5, <2>1 DEF HasFileInv
  <2>3. q.id = req[s].id => q.pc = "check"
    BY <1>2, <2>1, <2>2
  <2> QED BY <1>1, <1>3, <2>1, <2>2, <2>3
<1>6. ASSUME NEW s \in DOMAIN req', req'[s].pc = "abort"
      PROVE  req'[s].id \notin DOMAIN sessions'
  BY <1>1, <1>2, <1>3, <1>6 DEF HasFileInv
<1> QED BY <1>1, <1>4, <1>5, <1>6 DEF HasFileInv

LEMMA BackgroundHasFile ==
    ASSUME TypeInv, OrphanInv, HasFileInv, Background
    PROVE  HasFileInv'
<1>1. CASE \/ \E u \in Upload : Expire(u)
           \/ GcEnd \/ LoseJob \/ Serve \/ \E d \in Digest : DiscardBlob(d)
  <2>1. /\ UNCHANGED <<uploads, req, gcList, gcFile, cut>>
        /\ DOMAIN sessions' = DOMAIN sessions
    BY <1>1 DEF Expire, GcEnd, LoseJob, Serve, DiscardBlob, files, db, gc
  <2> QED BY <2>1 DEF HasFileInv, SessionHasFile, Past
<1>2. CASE GcListExpired
  <2>1. /\ gcList' \subseteq DOMAIN sessions
        /\ UNCHANGED <<uploads, sessions, req, gcFile, cut>>
    BY <1>2 DEF GcListExpired, files, db
  <2> QED BY <2>1 DEF HasFileInv, SessionHasFile, Past
<1>3. ASSUME NEW u \in Upload, GcAbortUpload(u) PROVE HasFileInv'
  <2>1. /\ u \in gcList /\ gcFile = {} /\ gcFile' = {u}
        /\ uploads \ {u} \subseteq uploads'
        /\ UNCHANGED <<sessions, req, gcList, cut>>
    BY <1>3 DEF GcAbortUpload, db
  <2> QED BY <2>1 DEF HasFileInv, SessionHasFile, Past
<1>4. ASSUME NEW u \in Upload, GcDeleteSession(u) PROVE HasFileInv'
  <2>1. /\ u \in gcFile /\ gcFile' = {} /\ gcList' \subseteq gcList
        /\ DOMAIN sessions' = DOMAIN sessions \ {u}
        /\ UNCHANGED <<uploads, req, cut>>
    BY <1>4 DEF GcDeleteSession, Without, files
  <2> QED BY <2>1 DEF HasFileInv, SessionHasFile, Past
<1>5. CASE GcFail
  <2>1. /\ gcFile' = {} /\ gcList' = {} /\ cut' = cut \cup (gcFile \ uploads)
        /\ UNCHANGED <<uploads, sessions, req>>
    BY <1>5 DEF GcFail, files, db
  <2> QED BY <2>1 DEF HasFileInv, SessionHasFile, Past
<1>6. CASE Crash
  <2>1. /\ gcFile' = {} /\ gcList' = {} /\ req' = Empty
        /\ cut' = cut \cup (gcFile \ uploads)
                      \cup {req[r].id : r \in {s \in DOMAIN req : Past(s)}}
        /\ UNCHANGED <<uploads, sessions>>
    BY <1>6 DEF Crash, files, db
  <2>2. \A u \in DOMAIN sessions \ uploads : u \in cut'
    BY <2>1 DEF HasFileInv, SessionHasFile
  <2> QED BY <2>1, <2>2 DEF HasFileInv, SessionHasFile, Empty
<1>7. ASSUME NEW u \in Upload, CleanUpload(u) PROVE HasFileInv'
  <2>1. /\ u \in listed
        /\ \A v \in uploads : v \in DOMAIN sessions => v \in uploads'
        /\ UNCHANGED <<sessions, req, gcList, gcFile, cut>>
    BY <1>7 DEF CleanUpload, db, gc
  <2>2. DOMAIN req = {}
    BY <2>1 DEF OrphanInv, TypeInv, StoreInv
  <2> QED BY <2>1, <2>2 DEF HasFileInv, SessionHasFile, Past
<1> QED BY <1>1, <1>2, <1>3, <1>4, <1>5, <1>6, <1>7 DEF Background, Collect

\* However requests, collections and restarts interleave and whichever of them
\* fails, an open session is without its file only where a PUT or a collection
\* is, or was stopped, between the file and the row.
THEOREM SessionHasFileCorrect == Spec => []SessionHasFile
<1>1. Init => HasFileInv
  BY DEF Init, Empty, HasFileInv, SessionHasFile
<1>2. TypeInv /\ CoverInv /\ FinishInv /\ OrphanInv /\ HasFileInv /\ [Next]_vars
        => HasFileInv'
  <2> SUFFICES ASSUME TypeInv, CoverInv, FinishInv, OrphanInv, HasFileInv, [Next]_vars
               PROVE  HasFileInv'
    OBVIOUS
  <2>1. CASE UNCHANGED vars
    BY <2>1 DEF vars, files, db, gc, HasFileInv, SessionHasFile, Past
  <2>2. FreshInv
    BY DEF CoverInv
  <2> QED BY <2>1, <2>2, ArriveHasFile, HandlerHasFile, BackgroundHasFile DEF Next
<1>3. HasFileInv => SessionHasFile
  BY DEF HasFileInv
<1> QED BY <1>1, <1>2, <1>3, TypeInvariant, CoverInvariant, FinishInvariant,
           OrphanInvariant, PTL DEF Spec

-----------------------------------------------------------------------------
(* Offsets do not go back, for Serial clients *)

\* A POST adds a row where there is none, and what a request will write into
\* the row is not below what the row says: the comparison of CheckOffset lasts
\* because no other request of the session comes in between.
Ahead(s) ==
    /\ req[s].pc = "insert" => req[s].id \notin DOMAIN sessions
    /\ req[s].pc \in {"open", "write", "update"}
       /\ req[s].id \in DOMAIN sessions
       => sessions[req[s].id].offset <= req[s].pos

AheadInv == \A s \in DOMAIN req : Ahead(s)

OffsetsGrow ==
    \A u \in DOMAIN sessions \cap DOMAIN sessions' :
        sessions'[u].offset >= sessions[u].offset

\* A step that lowers no offset and adds no row but that of request r.
LEMMA AheadKept ==
    ASSUME TypeInv, OneRequestEach, AheadInv, NEW r \in Request,
           Handle(r) \/ DropRequest(r) \/ DropWriter(r),
           \A u \in DOMAIN sessions' : u # req[r].id =>
               u \in DOMAIN sessions /\ sessions'[u] = sessions[u],
           r \in DOMAIN req' => Ahead(r)'
    PROVE  AheadInv'
<1> SUFFICES ASSUME NEW s \in DOMAIN req', s # r PROVE Ahead(s)'
  BY DEF AheadInv
<1>1. s \in DOMAIN req /\ req'[s] = req[s] /\ r \in DOMAIN req
  BY HandlerEffect
<1>2. req[s].id # req[r].id /\ Ahead(s)
  BY <1>1 DEF OneRequestEach, AheadInv
<1> QED BY <1>1, <1>2 DEF Ahead

\* What a step of a handler does to the offsets.
LEMMA HandlerAhead ==
    ASSUME TypeInv, FreshInv, OneRequestEach, AheadInv, NEW r \in Request,
           Handle(r) \/ DropRequest(r) \/ DropWriter(r)
    PROVE  AheadInv' /\ OffsetsGrow
<1>0. /\ r \in DOMAIN req /\ req[r] \in RequestState /\ Ahead(r)
      /\ IsTable(req, Request, RequestState)
      /\ \A u \in DOMAIN sessions : sessions[u] \in Session
      /\ req[r].pos \in Nat
  BY HandlerEffect, RequestFields DEF TypeInv, RequestInv, StoreInv, IsTable, AheadInv
<1>1. ASSUME \A u \in DOMAIN sessions' :
                u \in DOMAIN sessions /\ sessions'[u] = sessions[u],
             r \in DOMAIN req' => Ahead(r)'
      PROVE  AheadInv' /\ OffsetsGrow
  <2>1. OffsetsGrow
    BY <1>0, <1>1 DEF Session, OffsetsGrow
  <2> QED BY <1>1, <2>1, AheadKept
<1>2. CASE CreateUpload(r)
  <2>1. /\ req[r].pc = "create" /\ Goto(r, "insert") /\ UNCHANGED sessions
    BY <1>2 DEF CreateUpload, At, db
  <2>2. req'[r].pc = "insert" /\ req'[r].id = req[r].id
    BY <1>0, <2>1, GotoFields DEF Pc
  <2>3. req[r].id \notin DOMAIN sessions
    BY <1>0, <2>1 DEF FreshInv, TypeInv, StoreInv
  <2>4. Ahead(r)'
    BY <2>1, <2>2, <2>3 DEF Ahead
  <2> QED BY <1>1, <2>1, <2>4
<1>3. CASE InsertSession(r)
  <2>1. /\ req[r].pc = "insert" /\ End(r)
        /\ \A u \in DOMAIN sessions' : u # req[r].id =>
               u \in DOMAIN sessions /\ sessions'[u] = sessions[u]
    BY <1>3 DEF InsertSession, At, With
  <2>2. req[r].id \notin DOMAIN sessions
    BY <1>0, <2>1 DEF Ahead
  <2>3. OffsetsGrow
    BY <1>0, <2>1, <2>2 DEF OffsetsGrow, Session
  <2>4. r \notin DOMAIN req'
    BY <1>0, <2>1, EndEffect
  <2> QED BY <2>1, <2>3, <2>4, AheadKept
<1>4. CASE UpdateSession(r)
  <2>1. req[r].pc = "update"
    BY <1>4 DEF UpdateSession, At
  <2>2. r \in DOMAIN req' => req'[r].pc = "require"
    <3>1. CASE End(r)
      BY <1>0, <3>1, EndEffect
    <3>2. CASE Goto(r, "require")
      BY <1>0, <3>2, GotoFields DEF Pc
    <3> QED BY <1>4, <3>1, <3>2 DEF UpdateSession
  <2>3. r \in DOMAIN req' => Ahead(r)'
    BY <2>2 DEF Ahead
  <2>4. CASE req[r].id \notin DOMAIN sessions
    <3>1. UNCHANGED sessions
      BY <1>4, <2>4 DEF UpdateSession
    <3> QED BY <1>1, <2>3, <3>1
  <2>5. CASE req[r].id \in DOMAIN sessions
    <3>1. sessions' = [sessions EXCEPT ![req[r].id].offset = req[r].pos,
                                       ![req[r].id].expired = FALSE]
      BY <1>4, <2>5 DEF UpdateSession
    <3>2. /\ DOMAIN sessions' = DOMAIN sessions
          /\ sessions'[req[r].id].offset = req[r].pos
          /\ \A u \in DOMAIN sessions : u # req[r].id => sessions'[u] = sessions[u]
      BY <1>0, <2>5, <3>1 DEF Session
    <3>3. sessions[req[r].id].offset <= req[r].pos
      BY <1>0, <2>1, <2>5 DEF Ahead
    <3>4. OffsetsGrow
      BY <1>0, <3>2, <3>3 DEF OffsetsGrow, Session
    <3> QED BY <2>3, <3>2, <3>4, AheadKept
  <2> QED BY <2>4, <2>5
<1>5. CASE CheckOffset(r)
  <2>1. UNCHANGED sessions
    BY <1>5 DEF CheckOffset, db
  <2>2. CASE End(r)
    BY <1>0, <1>1, <2>1, <2>2, EndEffect
  <2>3. CASE Goto(r, "open") /\ sessions[req[r].id].offset = req[r].pos
    <3>1. /\ req'[r].id = req[r].id /\ req'[r].pos = req[r].pos
          /\ req'[r].pc = "open"
      BY <1>0, <2>3, GotoFields DEF Pc
    <3>2. Ahead(r)'
      BY <1>0, <2>1, <2>3, <3>1 DEF Ahead, Session
    <3> QED BY <1>1, <2>1, <3>2
  <2> QED BY <1>5, <2>2, <2>3 DEF CheckOffset
<1>6. CASE \/ OpenUpload(r) \/ EndOfBody(r) \/ DropWriter(r)
           \/ \E b \in Block : WriteBlock(r, b)
  <2>1. UNCHANGED sessions /\ req[r].pc \in {"open", "write"}
    BY <1>6 DEF OpenUpload, EndOfBody, DropWriter, WriteBlock, db, At
  <2>2. r \in DOMAIN req' =>
            /\ req'[r].pc # "insert" /\ req'[r].id = req[r].id
            /\ req'[r].pos \in Nat /\ req'[r].pos >= req[r].pos
    <3>1. CASE End(r)
      BY <1>0, <3>1, EndEffect
    <3>2. ASSUME NEW p \in {"write", "update", "late"}, Goto(r, p)
          PROVE  /\ req'[r].pc # "insert" /\ req'[r].id = req[r].id
                 /\ req'[r].pos = req[r].pos
      BY <1>0, <3>2, GotoFields DEF Pc
    <3>3. CASE \E b \in Block : WriteBlock(r, b)
      <4>1. req' = [req EXCEPT ![r].pos = @ + 1] /\ req[r].pc = "write"
        BY <3>3 DEF WriteBlock, At
      <4> QED BY <1>0, <4>1 DEF RequestState
    <3> QED BY <1>0, <1>6, <3>1, <3>2, <3>3 DEF OpenUpload, EndOfBody, DropWriter
  <2>3. r \in DOMAIN req' => Ahead(r)'
    BY <1>0, <2>1, <2>2 DEF Ahead, Session
  <2> QED BY <1>1, <2>1, <2>3
<1> DEFINE Later == \/ RequireUpload(r) \/ OpenReader(r) \/ HashBlock(r)
                    \/ CompareDigest(r) \/ RenameToBlob(r) \/ StatBlob(r)
                    \/ CommitLink(r) \/ DeleteSession(r) \/ AbortUpload(r)
                    \/ DropRequest(r) \/ \E b \in Block : LateWrite(r, b)
<1>7. CASE Later
  <2>1. \A u \in DOMAIN sessions' : u \in DOMAIN sessions /\ sessions'[u] = sessions[u]
    BY <1>7 DEF RequireUpload, OpenReader, HashBlock, CompareDigest, db, Without,
       RenameToBlob, StatBlob, CommitLink, DeleteSession, AbortUpload, DropRequest,
       LateWrite
  <2>2. r \in DOMAIN req' => req'[r].pc \notin {"insert", "open", "write", "update"}
    <3>1. CASE End(r)
      BY <1>0, <3>1, EndEffect
    <3>2. ASSUME NEW p \in {"reader", "hash", "stat", "abort"}, Goto(r, p)
          PROVE  req'[r].pc = p
      BY <1>0, <3>2, GotoFields DEF Pc
    <3>3. CASE HashBlock(r)
      BY <1>0, <3>3 DEF HashBlock, At, RequestState
    <3>4. CASE CompareDigest(r) /\ ~End(r)
      BY <1>0, <3>4 DEF CompareDigest, RequestState
    <3>5. CASE StatBlob(r) /\ ~End(r)
      BY <1>0, <3>5 DEF StatBlob, RequestState
    <3> QED
      BY <1>7, <3>1, <3>2, <3>3, <3>4, <3>5 DEF RequireUpload, OpenReader,
         RenameToBlob, CommitLink, DeleteSession, AbortUpload, DropRequest, LateWrite
  <2>3. r \in DOMAIN req' => Ahead(r)'
    BY <2>2 DEF Ahead
  <2> QED BY <1>1, <2>1, <2>3
<1> QED BY <1>2, <1>3, <1>4, <1>5, <1>6, <1>7 DEF Handle

\* A request that arrives is not yet writing.
LEMMA ArriveAhead ==
    ASSUME TypeInv, AheadInv, NEW r \in Request, Arrive(r)
    PROVE  AheadInv' /\ OffsetsGrow
<1>1. UNCHANGED sessions
  BY DEF Arrive, StartUpload, PatchUpload, PutUpload, CancelUpload, db
<1>2. PICK q : /\ r \notin DOMAIN req /\ req' = With(req, r, q)
               /\ q.pc \in {"create", "check", "row"}
  <2>1. PICK u, p, pc, d, o :
          Begin(r, u, p, pc, d, o) /\ pc \in {"create", "check", "row"}
    BY DEF Arrive, StartUpload, PatchUpload, PutUpload, CancelUpload, BeginOn
  <2> QED BY <2>1 DEF Begin
<1>3. ASSUME NEW s \in DOMAIN req' PROVE Ahead(s)'
  BY <1>1, <1>2 DEF With, AheadInv, Ahead
<1>4. OffsetsGrow
  BY <1>1 DEF TypeInv, StoreInv, IsTable, Session, OffsetsGrow
<1> QED BY <1>3, <1>4 DEF AheadInv

LEMMA BackgroundAhead ==
    ASSUME TypeInv, AheadInv,
           Background
    PROVE  AheadInv' /\ OffsetsGrow
<1>1. req' = req \/ req' = Empty
  BY BackgroundEffect
<1>2. \A u \in DOMAIN sessions' :
        u \in DOMAIN sessions /\ sessions'[u].offset = sessions[u].offset
  BY BackgroundRows
<1>3. OffsetsGrow
  BY <1>2 DEF TypeInv, StoreInv, IsTable, Session, OffsetsGrow
<1>4. AheadInv'
  BY <1>1, <1>2 DEF AheadInv, Ahead, Empty
<1> QED BY <1>3, <1>4

LEMMA AheadStep ==
    ASSUME TypeInv, FreshInv, OneRequestEach, AheadInv, [Next]_vars
    PROVE  AheadInv' /\ OffsetsGrow
<1>1. CASE UNCHANGED vars
  <2>1. UNCHANGED <<sessions, req>>
    BY <1>1 DEF vars, db
  <2> QED BY <2>1 DEF AheadInv, Ahead, OffsetsGrow, TypeInv, StoreInv, IsTable,
                      Session
<1> QED BY <1>1, ArriveAhead, HandlerAhead, BackgroundAhead DEF Next

LEMMA OneRequestInvariant ==
    ASSUME Serial
    PROVE  Spec => []OneRequestEach
<1>1. Init => OneRequestEach
  BY DEF Init, Empty, OneRequestEach
<1>2. TypeInv /\ OneRequestEach /\ [Next]_vars => OneRequestEach'
  <2> SUFFICES ASSUME TypeInv, OneRequestEach, [Next]_vars PROVE OneRequestEach'
    OBVIOUS
  <2>1. CASE UNCHANGED vars
    BY <2>1 DEF vars, OneRequestEach
  <2>2. ASSUME NEW r \in Request, Arrive(r) PROVE OneRequestEach'
    <3>1. PICK q : /\ req' = With(req, r, q)
                   /\ \A s \in DOMAIN req : req[s].id # q.id
      <4>1. PICK u, p, pc, d, o : Begin(r, u, p, pc, d, o) /\ ~Busy(u)
        BY <2>2 DEF Arrive, StartUpload, PatchUpload, PutUpload, CancelUpload, BeginOn
      <4> QED BY <4>1 DEF Begin, Busy
    <3> QED BY <3>1 DEF With, OneRequestEach
  <2>3. ASSUME NEW r \in Request, Handle(r) \/ DropRequest(r) \/ DropWriter(r)
        PROVE  OneRequestEach'
    BY <2>3, HandlerEffect DEF OneRequestEach
  <2>4. CASE Background
    BY <2>4, BackgroundEffect DEF OneRequestEach, Empty
  <2> QED BY <2>1, <2>2, <2>3, <2>4 DEF Next
<1> QED BY <1>1, <1>2, TypeInvariant, PTL DEF Spec

\* If a client sends a request of a session only when the server is done with
\* the one before, then no offset goes back: not by a slow PATCH, nor by a PUT,
\* nor by the last write of a dropped handler, which counts as work not done.
THEOREM OffsetNeverDecreasesCorrect ==
    ASSUME Serial
    PROVE  Spec => OffsetNeverDecreases
<1>1. Init => AheadInv
  BY DEF Init, Empty, AheadInv
<1>2. TypeInv /\ CoverInv /\ OneRequestEach /\ AheadInv /\ [Next]_vars
        => AheadInv' /\ [OffsetsGrow]_vars
  BY AheadStep DEF CoverInv
<1>3. OffsetNeverDecreases <=> [][OffsetsGrow]_vars
  BY DEF OffsetNeverDecreases, OffsetsGrow
<1> QED BY <1>1, <1>2, <1>3, TypeInvariant, CoverInvariant, OneRequestInvariant,
           PTL DEF Spec
=============================================================================
