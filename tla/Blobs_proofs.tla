---------------------------- MODULE Blobs_proofs ----------------------------
(***************************************************************************)
(* Proofs about Blobs, for any number of requests, repositories, contents  *)
(* and byte ranges.                                                        *)
(*                                                                         *)
(* HonestInv, which needs no assumption: a digest under which no wrong     *)
(* body was sent has the right file or none.                               *)
(*                                                                         *)
(* CleanInv, of every digest that is not mixed: once the right file is at  *)
(* its path it stays there.  A request that has seen a wrong file, or none *)
(* where one should be, is then the only one that sends a body for the     *)
(* digest; nobody else changes what it has seen.                           *)
(***************************************************************************)
EXTENDS Blobs, Tables_proofs

\* pcs of a request that sends a body.
Pushing == {"probe", "tmp", "reprobe", "rename", "reader", "verify", "discard",
            "move"}

\* pcs of a GET.
Getting == {"again", "open", "send", "refuse"}

\* Digest d is one that compute_digest returns.
Named(d) == DigestOf(d[2]) = d

\* What is known of a request whatever others do.
Candid(q) ==
    /\ q.pc \in Pushing => q.body \in Content
    /\ q.body # NoContent /\ q.digest \notin suspect => q.body = q.digest[2]
    /\ q.pc \in {"verify", "discard"} /\ q.digest \notin suspect =>
          q.seen = q.digest[2]
    /\ q.pc \in {"verify", "discard", "send"} => q.seen \in Content
    /\ q.pc = "discard" => DigestOf(q.seen) # q.digest
    /\ q.pc = "move" => DigestOf(q.body) = q.digest
    /\ q.pc \in {"stat", "link"} \cup Getting => Named(q.digest)

HonestBlobs == \A d \in DOMAIN blobs : d \notin suspect => blobs[d] = d[2]

LinksNamed == \A k \in DOMAIN links : Named(k[2])

HonestInv ==
    TypeOK /\ HonestBlobs /\ LinksNamed /\ \A r \in DOMAIN req : Candid(req[r])

LEMMA DigestFacts ==
    ASSUME NEW d \in Digest
    PROVE  /\ d[2] \in Content
           /\ \A c : DigestOf(c) = d => c = d[2]
BY DEF Digest, DigestOf

LEMMA HonestInvSuffices == HonestInv => TypeOK /\ HonestBodiesAgree
<1> SUFFICES ASSUME HonestInv PROVE HonestBodiesAgree
  BY DEF HonestInv
<1> SUFFICES ASSUME NEW r \in DOMAIN req, req[r].pc \in {"verify", "discard"},
                    req[r].digest[1] = "sha256", req[r].digest \notin suspect
             PROVE  req[r].pc = "verify" /\ req[r].seen = req[r].body
  BY DEF HonestBodiesAgree
<1>1. Candid(req[r]) /\ req[r] \in RequestState
  BY DEF HonestInv, TypeOK, IsTable
<1>2. req[r].digest \in Digest
  BY <1>1 DEF RequestState
<1>3. req[r].seen = req[r].digest[2] /\ req[r].body = req[r].digest[2]
  BY <1>1, NoContentAssumption DEF Candid, Pushing
<1>4. DigestOf(req[r].digest[2]) = req[r].digest
  BY <1>2 DEF Digest, DigestOf
<1> QED BY <1>1, <1>3, <1>4 DEF Candid

-----------------------------------------------------------------------------
(* The slot of a request *)

\* A request moves on to q, or arrives as q.
Sets(r, q) ==
    \/ req' = With(req, r, q)
    \/ r \in DOMAIN req /\ req' = [req EXCEPT ![r] = q]

LEMMA SlotSet ==
    ASSUME HonestInv, NEW r \in Request, NEW q \in RequestState, Sets(r, q)
    PROVE  /\ IsTable(req', Request, RequestState)
           /\ DOMAIN req' = DOMAIN req \cup {r}
           /\ req'[r] = q
           /\ \A s \in DOMAIN req : s # r => req'[s] = req[s]
<1>0. IsTable(req, Request, RequestState)
  BY DEF HonestInv, TypeOK
<1>1. CASE req' = With(req, r, q)
  <2>1. IsTable(req', Request, RequestState)
    BY <1>0, <1>1, WithTable
  <2> QED BY <1>1, <2>1 DEF With
<1>2. CASE r \in DOMAIN req /\ req' = [req EXCEPT ![r] = q]
  <2>1. IsTable(req', Request, RequestState)
    BY <1>0, <1>2, ExceptTable
  <2> QED BY <1>0, <1>2, <2>1 DEF IsTable
<1> QED BY <1>1, <1>2 DEF Sets

LEMMA SlotFree ==
    ASSUME HonestInv, NEW r, End(r)
    PROVE  /\ IsTable(req', Request, RequestState)
           /\ DOMAIN req' = DOMAIN req \ {r}
           /\ \A s \in DOMAIN req' : req'[s] = req[s]
<1>0. IsTable(req, Request, RequestState)
  BY DEF HonestInv, TypeOK
<1>1. IsTable(req', Request, RequestState)
  BY <1>0, WithoutTable DEF End
<1> QED BY <1>1 DEF End, Without

\* Request r moves on to q: to step p, with handle e and size n.
Moved(r, p, e, n, q) ==
    /\ q \in RequestState
    /\ r \in Request
    /\ Sets(r, q)
    /\ q.pc = p /\ q.seen = e /\ q.size = n
    /\ q.repo = req[r].repo /\ q.digest = req[r].digest
    /\ q.body = req[r].body
    /\ q.first = req[r].first /\ q.last = req[r].last

LEMMA MovedFacts ==
    ASSUME HonestInv, NEW r \in DOMAIN req, NEW p \in Pc,
           NEW e \in Content \cup {NoContent}, NEW n \in Nat, NEW q,
           q = [pc |-> p, repo |-> req[r].repo, from |-> req[r].from,
                digest |-> req[r].digest, body |-> req[r].body, seen |-> e,
                first |-> req[r].first, last |-> req[r].last, size |-> n],
           req' = [req EXCEPT ![r] = q]
    PROVE  Moved(r, p, e, n, q)
<1>1. req[r] \in RequestState /\ r \in Request
  BY DEF HonestInv, TypeOK, IsTable
<1>2. q \in RequestState
  BY <1>1 DEF RequestState
<1>3. Sets(r, q)
  BY DEF Sets
<1> QED BY <1>1, <1>2, <1>3 DEF Moved

LEMMA GotoMoved ==
    ASSUME HonestInv, NEW r \in DOMAIN req, NEW p \in Pc, Goto(r, p)
    PROVE  \E q : Moved(r, p, req[r].seen, req[r].size, q)
<1>1. req[r] \in RequestState
  BY DEF HonestInv, TypeOK, IsTable
<1>2. PICK q : q = [req[r] EXCEPT !.pc = p]
  OBVIOUS
<1>3. q = [pc |-> p, repo |-> req[r].repo, from |-> req[r].from,
           digest |-> req[r].digest, body |-> req[r].body, seen |-> req[r].seen,
           first |-> req[r].first, last |-> req[r].last, size |-> req[r].size]
  BY <1>1, <1>2 DEF RequestState
<1>4. req' = [req EXCEPT ![r] = q]
  BY <1>2 DEF Goto
<1>5. req[r].seen \in Content \cup {NoContent} /\ req[r].size \in Nat
  BY <1>1 DEF RequestState
<1> QED BY <1>3, <1>4, <1>5, MovedFacts

LEMMA SeenMoved ==
    ASSUME HonestInv, NEW r \in DOMAIN req, NEW p \in Pc,
           NEW e \in Content \cup {NoContent},
           req' = [req EXCEPT ![r].pc = p, ![r].seen = e]
    PROVE  \E q : Moved(r, p, e, req[r].size, q)
<1>1. req[r] \in RequestState
  BY DEF HonestInv, TypeOK, IsTable
<1>2. PICK q : q = [req[r] EXCEPT !.pc = p, !.seen = e]
  OBVIOUS
<1>3. q = [pc |-> p, repo |-> req[r].repo, from |-> req[r].from,
           digest |-> req[r].digest, body |-> req[r].body, seen |-> e,
           first |-> req[r].first, last |-> req[r].last, size |-> req[r].size]
  BY <1>1, <1>2 DEF RequestState
<1>4. req' = [req EXCEPT ![r] = q]
  BY <1>2
<1>5. req[r].size \in Nat
  BY <1>1 DEF RequestState
<1> QED BY <1>3, <1>4, <1>5, MovedFacts

LEMMA SizeMoved ==
    ASSUME HonestInv, NEW r \in DOMAIN req, NEW p \in Pc, NEW n \in Nat,
           req' = [req EXCEPT ![r].pc = p, ![r].size = n]
    PROVE  \E q : Moved(r, p, req[r].seen, n, q)
<1>1. req[r] \in RequestState
  BY DEF HonestInv, TypeOK, IsTable
<1>2. PICK q : q = [req[r] EXCEPT !.pc = p, !.size = n]
  OBVIOUS
<1>3. q = [pc |-> p, repo |-> req[r].repo, from |-> req[r].from,
           digest |-> req[r].digest, body |-> req[r].body, seen |-> req[r].seen,
           first |-> req[r].first, last |-> req[r].last, size |-> n]
  BY <1>1, <1>2 DEF RequestState
<1>4. req' = [req EXCEPT ![r] = q]
  BY <1>2
<1>5. req[r].seen \in Content \cup {NoContent}
  BY <1>1 DEF RequestState
<1> QED BY <1>3, <1>4, <1>5, MovedFacts

LEMMA SourceMoved ==
    ASSUME HonestInv, NEW r \in DOMAIN req,
           req' = [req EXCEPT ![r].pc = "probe", ![r].from = req[r].repo]
    PROVE  \E q : Moved(r, "probe", req[r].seen, req[r].size, q)
<1>1. req[r] \in RequestState /\ r \in Request
  BY DEF HonestInv, TypeOK, IsTable
<1>2. PICK q : q = [req[r] EXCEPT !.pc = "probe", !.from = req[r].repo]
  OBVIOUS
<1>3. q = [pc |-> "probe", repo |-> req[r].repo, from |-> req[r].repo,
           digest |-> req[r].digest, body |-> req[r].body, seen |-> req[r].seen,
           first |-> req[r].first, last |-> req[r].last, size |-> req[r].size]
  BY <1>1, <1>2 DEF RequestState
<1>4. q \in RequestState
  BY <1>1, <1>3 DEF RequestState, Pc
<1>5. Sets(r, q)
  BY <1>2 DEF Sets
<1> QED BY <1>1, <1>3, <1>4, <1>5 DEF Moved

-----------------------------------------------------------------------------
(* What a file holds under a digest that nobody sent a wrong body for *)

StoreKept ==
    /\ IsTable(blobs', Digest, Content)
    /\ IsTable(links', Repo \X Digest, Nat)
    /\ suspect' \in SUBSET Digest
    /\ mixed' \in SUBSET Digest
    /\ suspect \subseteq suspect'
    /\ HonestBlobs'
    /\ LinksNamed'

LEMMA StoreUnchanged ==
    ASSUME HonestInv, UNCHANGED blobs, suspect' \in SUBSET Digest,
           suspect \subseteq suspect', mixed' \in SUBSET Digest,
           IsTable(links', Repo \X Digest, Nat), LinksNamed'
    PROVE  StoreKept
BY DEF HonestInv, TypeOK, StoreKept, HonestBlobs

LEMMA HonestSet ==
    ASSUME HonestInv, StoreKept, NEW r \in Request, NEW q \in RequestState,
           Candid(q)', Sets(r, q)
    PROVE  HonestInv'
<1>1. /\ IsTable(req', Request, RequestState)
      /\ DOMAIN req' = DOMAIN req \cup {r}
      /\ req'[r] = q
      /\ \A s \in DOMAIN req : s # r => req'[s] = req[s]
  BY SlotSet
<1>2. \A s \in DOMAIN req' : Candid(req[s])'
  BY <1>1 DEF HonestInv, Candid, StoreKept
<1> QED BY <1>1, <1>2 DEF HonestInv, TypeOK, StoreKept

LEMMA HonestFree ==
    ASSUME HonestInv, StoreKept, NEW r, End(r)
    PROVE  HonestInv'
<1>1. /\ IsTable(req', Request, RequestState)
      /\ \A s \in DOMAIN req' : s \in DOMAIN req /\ req'[s] = req[s]
  BY SlotFree
<1>2. \A s \in DOMAIN req' : Candid(req[s])'
  BY <1>1 DEF HonestInv, Candid, StoreKept
<1> QED BY <1>1, <1>2 DEF HonestInv, TypeOK, StoreKept

\* A request moves on, and what it then knows is so.
LEMMA HonestMoved ==
    ASSUME HonestInv, StoreKept, UNCHANGED suspect, NEW r \in DOMAIN req,
           NEW p, NEW e, NEW n, NEW q, Moved(r, p, e, n, q), p # "move",
           p \in Pushing => req[r].body \in Content,
           p \in {"verify", "discard"} /\ req[r].digest \notin suspect =>
               e = req[r].digest[2],
           p \in {"verify", "discard", "send"} => e \in Content,
           p = "discard" => DigestOf(e) # req[r].digest,
           p \in {"stat", "link"} \cup Getting => Named(req[r].digest)
    PROVE  HonestInv'
<1>1. Candid(req[r])
  BY DEF HonestInv
<1>2. Candid(q)'
  BY <1>1 DEF Candid, Moved
<1> QED BY <1>2, HonestSet DEF Moved

LEMMA Fields ==
    ASSUME HonestInv, NEW r \in DOMAIN req
    PROVE  /\ r \in Request /\ req[r] \in RequestState /\ Candid(req[r])
           /\ req[r].pc \in Pc /\ req[r].repo \in Repo /\ req[r].from \in Repo
           /\ req[r].digest \in Digest /\ req[r].digest[2] \in Content
           /\ req[r].body \in Content \cup {NoContent}
           /\ req[r].seen \in Content \cup {NoContent}
           /\ req[r].first \in Nat /\ req[r].size \in Nat
           /\ req[r].last \in Nat \cup {NoEnd}
           /\ DigestOf(req[r].seen) = req[r].digest => Named(req[r].digest)
           /\ DigestOf(req[r].body) = req[r].digest => Named(req[r].digest)
<1>1. r \in Request /\ req[r] \in RequestState /\ Candid(req[r])
  BY DEF HonestInv, TypeOK, IsTable
<1>2. ASSUME NEW c, DigestOf(c) = req[r].digest PROVE Named(req[r].digest)
  BY <1>2 DEF DigestOf, Named
<1> QED BY <1>1, <1>2, DigestFacts DEF RequestState

LEMMA StoredFacts ==
    ASSUME HonestInv, NEW d \in DOMAIN blobs
    PROVE  /\ d \in Digest /\ blobs[d] \in Content /\ Size[blobs[d]] \in Nat
           /\ d \notin suspect => blobs[d] = d[2]
BY SizeAssumption DEF HonestInv, TypeOK, IsTable, HonestBlobs

LEMMA LinkFacts ==
    ASSUME HonestInv, NEW p, NEW d, Linked(p, d)
    PROVE  p \in Repo /\ d \in Digest /\ links[<<p, d>>] \in Nat /\ Named(d)
BY DEF HonestInv, TypeOK, IsTable, Linked, LinksNamed

LEMMA HandlerHonest ==
    ASSUME HonestInv, NEW r \in Request, Handle(r)
    PROVE  HonestInv'
<1>0. r \in DOMAIN req /\ UNCHANGED <<suspect, mixed>>
  BY DEF Handle, At, ProbeBlob, WriteTmp, ReprobeBlob, RenameTmp, OpenStored,
         Verify, Discard, MoveUpload, StatStored, InsertLink, ReadSource,
         RequireLink, OpenBlob, SendBlob, RefuseRange
<1>1. /\ Candid(req[r]) /\ req[r].repo \in Repo
      /\ req[r].digest \in Digest /\ req[r].digest[2] \in Content
      /\ req[r].body \in Content \cup {NoContent}
      /\ req[r].seen \in Content \cup {NoContent}
      /\ req[r].size \in Nat
      /\ DigestOf(req[r].seen) = req[r].digest => Named(req[r].digest)
      /\ DigestOf(req[r].body) = req[r].digest => Named(req[r].digest)
  BY <1>0, Fields
<1>2. ASSUME UNCHANGED <<blobs, links>> PROVE StoreKept
  BY <1>0, <1>2, StoreUnchanged DEF HonestInv, TypeOK, LinksNamed
<1>3. ASSUME NEW p \in {"probe", "tmp", "reprobe", "rename", "reader", "stat",
                        "open"},
             Goto(r, p), req[r].body \in Content \/ p = "open", StoreKept,
             p \in {"stat", "open"} => Named(req[r].digest)
      PROVE  HonestInv'
  <2>1. p \in Pc /\ p # "move" /\ p \notin {"verify", "discard", "send"}
        /\ (p \in Pushing => req[r].body \in Content)
        /\ (p \in {"stat", "link"} \cup Getting => p \in {"stat", "open"})
    BY <1>3 DEF Pc, Pushing, Getting
  <2>2. PICK q : Moved(r, p, req[r].seen, req[r].size, q)
    BY <1>0, <1>3, <2>1, GotoMoved
  <2> QED BY <1>0, <1>3, <2>1, <2>2, HonestMoved
<1>4. ASSUME req[r].pc \in Pushing PROVE req[r].body \in Content
  BY <1>1, <1>4 DEF Candid
<1>5. CASE ProbeBlob(r) \/ WriteTmp(r) \/ ReprobeBlob(r)
  <2>1. req[r].pc \in Pushing /\ UNCHANGED <<blobs, links>>
    BY <1>5 DEF ProbeBlob, WriteTmp, ReprobeBlob, At, Pushing
  <2>2. \/ Goto(r, "reader") \/ Goto(r, "tmp")
        \/ Goto(r, "reprobe") \/ Goto(r, "rename")
    BY <1>5 DEF ProbeBlob, WriteTmp, ReprobeBlob
  <2> QED BY <1>2, <1>3, <1>4, <2>1, <2>2
<1>7. CASE RenameTmp(r) \/ MoveUpload(r)
  <2>1. /\ blobs' = With(blobs, req[r].digest, req[r].body)
        /\ req[r].pc \in Pushing /\ UNCHANGED links
        /\ Goto(r, "reader") \/ (Goto(r, "stat") /\ req[r].pc = "move")
    BY <1>7 DEF RenameTmp, MoveUpload, At, Pushing
  <2>2. req[r].body \in Content /\ req[r].body # NoContent
    BY <1>4, <2>1, NoContentAssumption
  <2>3. IsTable(blobs', Digest, Content)
    <3>1. IsTable(blobs, Digest, Content)
      BY DEF HonestInv, TypeOK
    <3> QED BY <1>1, <2>1, <2>2, <3>1, WithTable
  <2>4. \A d \in DOMAIN blobs' :
            IF d = req[r].digest THEN blobs'[d] = req[r].body
            ELSE d \in DOMAIN blobs /\ blobs'[d] = blobs[d]
    BY <2>1 DEF With
  <2>5. HonestBlobs'
    BY <1>0, <1>1, <2>2, <2>4 DEF HonestInv, HonestBlobs, Candid
  <2>6. StoreKept
    BY <1>0, <2>1, <2>3, <2>5 DEF StoreKept, HonestInv, TypeOK, LinksNamed
  <2>7. req[r].pc = "move" => Named(req[r].digest)
    BY <1>1 DEF Candid
  <2> QED BY <1>3, <2>1, <2>2, <2>6, <2>7
<1>8. CASE End(r) /\ UNCHANGED <<blobs, links>>
  BY <1>2, <1>8, HonestFree
<1>9. CASE (OpenStored(r) \/ OpenBlob(r)) /\ Stored(r)
  <2>1. PICK p, e :
          /\ p \in {"verify", "send"} /\ e = blobs[req[r].digest]
          /\ req' = [req EXCEPT ![r].pc = p, ![r].seen = e]
          /\ p = "verify" => req[r].pc \in Pushing
          /\ p = "send" => req[r].pc = "open"
    BY <1>9 DEF OpenStored, OpenBlob, At, Pushing
  <2>2. StoreKept
    BY <1>2, <1>9 DEF OpenStored, OpenBlob
  <2>3. /\ e \in Content
        /\ req[r].digest \notin suspect => e = req[r].digest[2]
    BY <1>9, <2>1, StoredFacts DEF Stored
  <2>4. /\ p \in Pushing => req[r].body \in Content
        /\ p \in Pc /\ p # "move" /\ p # "discard"
        /\ p \in {"stat", "link"} \cup Getting => p = "send"
    BY <1>4, <2>1 DEF Pushing, Pc, Getting
  <2>5. PICK q : Moved(r, p, e, req[r].size, q)
    BY <1>0, <2>1, <2>3, <2>4, SeenMoved
  <2>6. req[r].pc = "open" => Named(req[r].digest)
    BY <1>1 DEF Candid, Getting
  <2> QED BY <1>0, <2>1, <2>2, <2>3, <2>4, <2>5, <2>6, HonestMoved
<1>10. CASE Verify(r)
  <2>1. StoreKept /\ req[r].pc = "verify"
    BY <1>2, <1>10 DEF Verify, At
  <2>2. /\ req[r].body \in Content /\ req[r].seen \in Content
        /\ req[r].digest \notin suspect => req[r].seen = req[r].digest[2]
    BY <1>1, <2>1 DEF Candid, Pushing
  <2>3. CASE Goto(r, "stat") /\ DigestOf(req[r].seen) = req[r].digest
    BY <1>1, <1>3, <2>1, <2>2, <2>3
  <2>4. CASE Goto(r, "discard") /\ DigestOf(req[r].seen) # req[r].digest
    <3>1. PICK q : Moved(r, "discard", req[r].seen, req[r].size, q)
      BY <1>0, <2>4, GotoMoved DEF Pc
    <3>2. "discard" \notin {"stat", "link"} \cup Getting
      BY DEF Getting
    <3> QED BY <1>0, <2>1, <2>2, <2>4, <3>1, <3>2, HonestMoved
  <2> QED BY <1>10, <2>3, <2>4 DEF Verify
<1>11. CASE Discard(r)
  <2>1. blobs' = Without(blobs, req[r].digest) /\ End(r) /\ UNCHANGED links
    BY <1>11 DEF Discard
  <2>2. IsTable(blobs', Digest, Content)
    <3>1. IsTable(blobs, Digest, Content)
      BY DEF HonestInv, TypeOK
    <3> QED BY <2>1, <3>1, WithoutTable
  <2>3. \A d \in DOMAIN blobs' : d \in DOMAIN blobs /\ blobs'[d] = blobs[d]
    BY <2>1 DEF Without
  <2>4. HonestBlobs'
    BY <1>0, <2>3 DEF HonestInv, HonestBlobs
  <2>5. StoreKept
    BY <1>0, <2>1, <2>2, <2>4 DEF StoreKept, HonestInv, TypeOK, LinksNamed
  <2> QED BY <2>1, <2>5, HonestFree
<1>12. ASSUME NEW n \in Nat, req' = [req EXCEPT ![r].pc = "link", ![r].size = n],
              UNCHANGED <<blobs, links>>, Named(req[r].digest)
       PROVE  HonestInv'
  <2>1. PICK q : Moved(r, "link", req[r].seen, n, q)
    BY <1>0, <1>12, SizeMoved DEF Pc
  <2>2. "link" \notin Pushing
    BY DEF Pushing
  <2> QED BY <1>0, <1>2, <1>12, <2>1, <2>2, HonestMoved
<1>13. CASE StatStored(r) /\ Stored(r)
  <2>1. PICK n : /\ req' = [req EXCEPT ![r].pc = "link", ![r].size = n]
                 /\ n = Size[blobs[req[r].digest]]
    BY <1>13 DEF StatStored
  <2>2. n \in Nat
    BY <1>13, <2>1, StoredFacts DEF Stored
  <2>3. Named(req[r].digest)
    BY <1>1, <1>13 DEF StatStored, At, Candid
  <2> QED BY <1>12, <1>13, <2>1, <2>2, <2>3 DEF StatStored
<1>14. CASE InsertLink(r)
  <2>1. /\ links' = With(links, <<req[r].repo, req[r].digest>>, req[r].size)
        /\ End(r) /\ UNCHANGED blobs
    BY <1>14 DEF InsertLink
  <2>2. IsTable(links', Repo \X Digest, Nat)
    <3>1. IsTable(links, Repo \X Digest, Nat)
      BY DEF HonestInv, TypeOK
    <3>2. <<req[r].repo, req[r].digest>> \in Repo \X Digest /\ req[r].size \in Nat
      BY <1>1
    <3>3. PICK k, n : k = <<req[r].repo, req[r].digest>> /\ n = req[r].size
      OBVIOUS
    <3>4. links' = With(links, k, n)
      BY <2>1, <3>3
    <3>5. k \in Repo \X Digest /\ n \in Nat
      BY <3>2, <3>3
    <3> QED BY <3>1, <3>4, <3>5, WithTable
  <2>3. LinksNamed'
    <3>1. Named(req[r].digest)
      BY <1>1, <1>14 DEF InsertLink, At, Candid
    <3> QED BY <2>1, <3>1 DEF With, HonestInv, LinksNamed
  <2>4. StoreKept
    BY <1>0, <2>1, <2>2, <2>3, StoreUnchanged DEF HonestInv, TypeOK
  <2> QED BY <2>1, <2>4, HonestFree
<1>15. CASE ReadSource(r) /\ Linked(req[r].from, req[r].digest)
  <2>1. PICK n : /\ req' = [req EXCEPT ![r].pc = "link", ![r].size = n]
                 /\ n = links[<<req[r].from, req[r].digest>>]
    BY <1>15 DEF ReadSource
  <2>2. n \in Nat /\ Named(req[r].digest)
    BY <1>15, <2>1, LinkFacts
  <2> QED BY <1>12, <1>15, <2>1, <2>2 DEF ReadSource
<1>16. CASE /\ ReadSource(r) /\ req[r].body # NoContent
            /\ req' = [req EXCEPT ![r].pc = "probe", ![r].from = req[r].repo]
  <2>1. PICK q : Moved(r, "probe", req[r].seen, req[r].size, q)
    BY <1>0, <1>16, SourceMoved
  <2>2. StoreKept /\ req[r].body \in Content
    BY <1>1, <1>2, <1>16 DEF ReadSource
  <2>3. "probe" \notin {"stat", "link"} \cup Getting
    BY DEF Getting
  <2> QED BY <1>0, <2>1, <2>2, <2>3, HonestMoved
<1>17. CASE RequireLink(r) /\ Goto(r, "open")
  <2>1. Named(req[r].digest)
    BY <1>1, <1>17 DEF RequireLink, At, Candid, Getting
  <2> QED BY <1>2, <1>3, <1>17, <2>1 DEF RequireLink
<1>18. CASE OpenStored(r) \/ OpenBlob(r)
  BY <1>8, <1>9, <1>18 DEF OpenStored, OpenBlob
<1>19. CASE StatStored(r)
  BY <1>8, <1>13, <1>19 DEF StatStored
<1>20. CASE ReadSource(r)
  BY <1>8, <1>15, <1>16, <1>20 DEF ReadSource
<1>21. CASE RequireLink(r) \/ SendBlob(r) \/ RefuseRange(r)
  BY <1>8, <1>17, <1>21 DEF RequireLink, SendBlob, RefuseRange
<1> QED BY <1>5, <1>7, <1>10, <1>11, <1>14, <1>18, <1>19, <1>20, <1>21 DEF Handle

\* A request arrives as q.
Arrives(r, q) ==
    /\ q \in RequestState
    /\ r \notin DOMAIN req
    /\ Sets(r, q)

LEMMA BeginArrives ==
    ASSUME HonestInv, NEW r \in Request, NEW p \in Repo, NEW f \in Repo,
           NEW d \in Digest, NEW c \in Content \cup {NoContent}, NEW pc \in Pc,
           Begin(r, p, f, d, c, pc)
    PROVE  \E q : /\ Arrives(r, q)
                  /\ q.pc = pc /\ q.digest = d /\ q.body = c
<1>1. PICK q : q = [pc |-> pc, repo |-> p, from |-> f, digest |-> d,
                    body |-> c, seen |-> NoContent,
                    first |-> 0, last |-> NoEnd, size |-> 0]
  OBVIOUS
<1>2. q \in RequestState
  BY <1>1 DEF RequestState
<1>3. Arrives(r, q)
  BY <1>1, <1>2 DEF Begin, Arrives, Sets
<1> QED BY <1>1, <1>3

LEMMA BeginGetArrives ==
    ASSUME HonestInv, NEW r \in Request, NEW p \in Repo, NEW d \in Digest,
           NEW pc \in Pc, NEW m \in Nat, NEW l \in Nat \cup {NoEnd}, NEW n \in Nat,
           BeginGet(r, p, d, pc, m, l, n)
    PROVE  \E q : /\ Arrives(r, q)
                  /\ q.pc = pc /\ q.digest = d /\ q.body = NoContent
                  /\ q.first = m /\ q.last = l /\ q.size = n
<1>1. PICK q : q = [pc |-> pc, repo |-> p, from |-> p, digest |-> d,
                    body |-> NoContent, seen |-> NoContent,
                    first |-> m, last |-> l, size |-> n]
  OBVIOUS
<1>2. q \in RequestState
  BY <1>1 DEF RequestState
<1>3. Arrives(r, q)
  BY <1>1, <1>2 DEF BeginGet, Arrives, Sets
<1> QED BY <1>1, <1>3

\* A GET that is not refused is for at least one byte, or for all.
LEMMA LengthFacts ==
    ASSUME NEW m \in Nat, NEW l \in Nat \cup {NoEnd}, NEW n \in Nat,
           ~Unsatisfiable(m, l, n)
    PROVE  /\ LengthOf(m, l, n) \in Nat
           /\ m + LengthOf(m, l, n) <= n
           /\ m..(m + LengthOf(m, l, n) - 1) =
                  {i \in 0..(n - 1) : i >= m /\ (l # NoEnd => i <= l)}
<1>1. n > 0 /\ m < n /\ m <= LastOf(l, n)
  BY NoEndAssumption DEF Unsatisfiable, LastOf
<1>2. LastOf(l, n) \in Nat /\ LastOf(l, n) <= n - 1
  BY <1>1, NoEndAssumption DEF LastOf
<1>3. \A i \in 0..(n - 1) : i <= LastOf(l, n) <=> (l # NoEnd => i <= l)
  BY <1>1, NoEndAssumption DEF LastOf
<1>4. LengthOf(m, l, n) = LastOf(l, n) - m + 1
  BY DEF LengthOf
<1>5. m + LengthOf(m, l, n) - 1 = LastOf(l, n)
  BY <1>2, <1>4
<1>6. m..LastOf(l, n) = {i \in 0..(n - 1) : i >= m /\ i <= LastOf(l, n)}
  BY <1>1, <1>2
<1> QED BY <1>1, <1>2, <1>3, <1>4, <1>5, <1>6

LEMMA ArriveKept ==
    ASSUME HonestInv, UNCHANGED <<blobs, links>>, suspect' \in SUBSET Digest,
           suspect \subseteq suspect', mixed' \in SUBSET Digest,
           NEW r \in Request, NEW q, Arrives(r, q), Candid(q)'
    PROVE  HonestInv'
<1>1. StoreKept
  BY StoreUnchanged DEF HonestInv, TypeOK, LinksNamed
<1> QED BY <1>1, HonestSet DEF Arrives

LEMMA SuspectedFacts ==
    ASSUME HonestInv, NEW c, NEW d \in Digest, suspect' = Suspected(c, d)
    PROVE  /\ suspect' \in SUBSET Digest /\ suspect \subseteq suspect'
           /\ d \notin suspect' => c = d[2]
           /\ suspect' \subseteq suspect \cup {d}
           /\ c = d[2] => suspect' = suspect
BY DEF HonestInv, TypeOK, Suspected, Honest

LEMMA MixedFacts ==
    ASSUME HonestInv, NEW c, NEW d \in Digest, mixed' = Mixed(c, d)
    PROVE  /\ mixed' \in SUBSET Digest /\ mixed \subseteq mixed'
           /\ \A s \in DOMAIN req :
                 /\ req[s].digest = d /\ req[s].body # NoContent
                 /\ d \notin mixed'
                 => d \notin Suspected(c, d)
BY DEF HonestInv, TypeOK, Mixed

LEMMA UploadArrives ==
    ASSUME HonestInv, NEW r \in Request, NEW p \in Repo, NEW c \in Content,
           FinishUpload(r, p, c)
    PROVE  /\ UNCHANGED <<blobs, links, suspect>>
           /\ DigestOf(c) \in Digest /\ mixed' = Mixed(c, DigestOf(c))
           /\ \E q : /\ Arrives(r, q) /\ Candid(q)'
                     /\ q.pc = "move" /\ q.digest = DigestOf(c) /\ q.body = c
<1>1. /\ UNCHANGED <<blobs, links, suspect>> /\ DigestOf(c) \in Digest
      /\ mixed' = Mixed(c, DigestOf(c))
      /\ Begin(r, p, p, DigestOf(c), c, "move")
  BY DEF FinishUpload
<1>2. PICK d : d = DigestOf(c) /\ d \in Digest
  BY <1>1
<1>3. PICK q : /\ Arrives(r, q)
               /\ q.pc = "move" /\ q.digest = d /\ q.body = c
  BY <1>1, <1>2, BeginArrives DEF Pc
<1>4. DigestOf(q.body) = q.digest /\ q.body = q.digest[2]
  BY <1>2, <1>3 DEF DigestOf
<1>5. Candid(q)'
  BY <1>3, <1>4 DEF Candid, Getting
<1> QED BY <1>1, <1>2, <1>3, <1>5

LEMMA PushArrives ==
    ASSUME HonestInv, NEW r \in Request, NEW p \in Repo, NEW d \in Digest,
           NEW f \in Repo, NEW c \in Content \cup {NoContent},
           \/ PostBlob(r, p, d, c) /\ c \in Content
           \/ MountBlob(r, p, f, d, c)
    PROVE  /\ UNCHANGED <<blobs, links>>
           /\ suspect' \in SUBSET Digest /\ suspect \subseteq suspect'
           /\ suspect' = IF c = NoContent THEN suspect ELSE Suspected(c, d)
           /\ mixed' = IF c = NoContent THEN mixed ELSE Mixed(c, d)
           /\ mixed' \in SUBSET Digest
           /\ \E q : /\ Arrives(r, q) /\ Candid(q)'
                     /\ q.pc \in {"probe", "source"}
                     /\ q.digest = d /\ q.body = c
<1>1. PICK g, pc :
          /\ g \in Repo /\ Begin(r, p, g, d, c, pc)
          /\ pc = "source" \/ (pc = "probe" /\ c \in Content)
  BY DEF PostBlob, MountBlob
<1>2. /\ UNCHANGED <<blobs, links>>
      /\ suspect' = IF c = NoContent THEN suspect ELSE Suspected(c, d)
      /\ mixed' = IF c = NoContent THEN mixed ELSE Mixed(c, d)
  BY NoContentAssumption DEF PostBlob, MountBlob
<1>3. /\ suspect' \in SUBSET Digest /\ suspect \subseteq suspect'
      /\ c # NoContent /\ d \notin suspect' => c = d[2]
      /\ mixed' \in SUBSET Digest
  <2>1. CASE c = NoContent
    BY <1>2, <2>1 DEF HonestInv, TypeOK
  <2>2. CASE c # NoContent
    BY <1>2, <2>2, SuspectedFacts, MixedFacts
  <2> QED BY <2>1, <2>2
<1>4. PICK q : /\ Arrives(r, q)
               /\ q.pc = pc /\ q.digest = d /\ q.body = c
  BY <1>1, BeginArrives DEF Pc
<1>5. Candid(q)'
  BY <1>1, <1>3, <1>4 DEF Candid, Pushing, Getting
<1> QED BY <1>1, <1>2, <1>3, <1>4, <1>5

\* A GET whose row says n bytes asks for some of them, or is refused.
Ranged(q, n) ==
    \/ /\ q.pc = "refuse"
       /\ {i \in 0..(n - 1) : i >= q.first /\ (q.last # NoEnd => i <= q.last)} = {}
    \/ /\ q.pc \in {"again", "open", "send"}
       /\ q.first + q.size <= n
       /\ q.first..(q.first + q.size - 1) =
            {i \in 0..(n - 1) : i >= q.first /\ (q.last # NoEnd => i <= q.last)}

LEMMA GetArrives ==
    ASSUME HonestInv, NEW r \in Request, NEW p \in Repo, NEW d \in Digest,
           \/ GetBlob(r, p, d)
           \/ \E b \in ByteRange : GetRange(r, p, d, b[1], b[2])
    PROVE  /\ UNCHANGED <<blobs, links, suspect, mixed>> /\ Linked(p, d)
           /\ \E q : /\ Arrives(r, q) /\ Candid(q)'
                     /\ q.digest = d /\ q.body = NoContent /\ q.pc # "send"
                     /\ Ranged(q, links[<<p, d>>])
<1>1. UNCHANGED <<blobs, links, suspect, mixed>> /\ Linked(p, d)
  BY DEF GetBlob, GetRange
<1>2. PICK n : n = links[<<p, d>>] /\ n \in Nat
  BY <1>1, LinkFacts
<1>5. Named(d)
  BY <1>1, LinkFacts
<1>3. CASE GetBlob(r, p, d)
  <2>1. PICK pc, m, l : /\ pc = "open" /\ m = 0 /\ l = NoEnd
                        /\ BeginGet(r, p, d, pc, m, l, n)
    BY <1>2, <1>3 DEF GetBlob
  <2>2. PICK q : /\ Arrives(r, q)
                 /\ q.pc = "open" /\ q.digest = d /\ q.body = NoContent
                 /\ q.first = 0 /\ q.last = NoEnd /\ q.size = n
    <3>1. m \in Nat /\ l \in Nat \cup {NoEnd} /\ pc \in Pc
      BY <2>1 DEF Pc
    <3>2. PICK q : /\ Arrives(r, q)
                   /\ q.pc = pc /\ q.digest = d /\ q.body = NoContent
                   /\ q.first = m /\ q.last = l /\ q.size = n
      BY <1>2, <2>1, <3>1, BeginGetArrives
    <3> QED BY <2>1, <3>2
  <2>3. Candid(q)'
    BY <1>5, <2>2 DEF Candid, Pushing, Getting
  <2>4. q.first..(q.first + q.size - 1) = 0..(n - 1) /\ q.first + q.size <= n
    BY <1>2, <2>2
  <2>5. {i \in 0..(n - 1) : i >= q.first /\ (q.last # NoEnd => i <= q.last)} = 0..(n - 1)
    BY <1>2, <2>2
  <2>6. Ranged(q, n)
    BY <2>2, <2>4, <2>5 DEF Ranged
  <2> QED BY <1>1, <1>2, <2>2, <2>3, <2>6
<1>4. CASE \E b \in ByteRange : GetRange(r, p, d, b[1], b[2])
  <2>1. PICK m \in Nat, l \in Nat \cup {NoEnd} : GetRange(r, p, d, m, l)
    <3>1. PICK b \in ByteRange : GetRange(r, p, d, b[1], b[2])
      BY <1>4
    <3>2. b[1] \in Nat /\ b[2] \in Nat \cup {NoEnd}
      BY ByteRangeAssumption
    <3> QED BY <3>1, <3>2
  <2>2. CASE Unsatisfiable(m, l, n)
    <3>1. BeginGet(r, p, d, "refuse", m, l, n)
      BY <1>2, <2>1, <2>2 DEF GetRange
    <3>2. PICK q : /\ Arrives(r, q)
                   /\ q.pc = "refuse" /\ q.digest = d /\ q.body = NoContent
                   /\ q.first = m /\ q.last = l /\ q.size = n
      <4>1. "refuse" \in Pc
        BY DEF Pc
      <4> QED BY <1>2, <3>1, <4>1, BeginGetArrives
    <3>3. Candid(q)'
      BY <1>5, <3>2 DEF Candid, Pushing, Getting
    <3>4. {i \in 0..(n - 1) : i >= m /\ (l # NoEnd => i <= l)} = {}
      BY <1>2, <2>2, NoEndAssumption DEF Unsatisfiable, LastOf
    <3>5. Ranged(q, n)
      BY <3>2, <3>4 DEF Ranged
    <3> QED BY <1>1, <1>2, <3>2, <3>3, <3>5
  <2>3. CASE ~Unsatisfiable(m, l, n)
    <3>0. /\ LengthOf(m, l, n) \in Nat /\ m + LengthOf(m, l, n) <= n
          /\ m..(m + LengthOf(m, l, n) - 1) =
                {i \in 0..(n - 1) : i >= m /\ (l # NoEnd => i <= l)}
      BY <1>2, <2>3, LengthFacts, Zenon
    <3>1. PICK k : k = LengthOf(m, l, n)
      OBVIOUS
    <3>2. k \in Nat /\ m + k <= n
      BY <3>0, <3>1, Zenon
    <3>3. m..(m + k - 1) = {i \in 0..(n - 1) : i >= m /\ (l # NoEnd => i <= l)}
      BY <3>0, <3>1, Zenon
    <3>4. BeginGet(r, p, d, "again", m, l, k)
      BY <1>2, <2>1, <2>3, <3>1 DEF GetRange
    <3>5. PICK q : /\ Arrives(r, q)
                   /\ q.pc = "again" /\ q.digest = d /\ q.body = NoContent
                   /\ q.first = m /\ q.last = l /\ q.size = k
      <4>1. "again" \in Pc
        BY DEF Pc
      <4> QED BY <3>4, <3>2, <4>1, BeginGetArrives
    <3>6. Candid(q)'
      BY <1>5, <3>5 DEF Candid, Pushing, Getting
    <3>7. Ranged(q, n)
      BY <3>5, <3>2, <3>3 DEF Ranged
    <3> QED BY <1>1, <1>2, <3>5, <3>6, <3>7
  <2> QED BY <2>2, <2>3
<1> QED BY <1>3, <1>4

LEMMA ArriveHonest ==
    ASSUME HonestInv, NEW r \in Request, Arrive(r)
    PROVE  HonestInv'
<1>0. suspect \in SUBSET Digest /\ mixed \in SUBSET Digest
  BY DEF HonestInv, TypeOK
<1>1. ASSUME NEW p \in Repo, NEW c \in Content, FinishUpload(r, p, c)
      PROVE  HonestInv'
  <2>1. mixed' \in SUBSET Digest
    BY <1>1, UploadArrives, MixedFacts
  <2> QED BY <1>0, <1>1, <2>1, UploadArrives, ArriveKept
<1>2. ASSUME NEW p \in Repo, NEW d \in Digest, NEW f \in Repo,
             NEW c \in Content \cup {NoContent},
             \/ PostBlob(r, p, d, c) /\ c \in Content
             \/ MountBlob(r, p, f, d, c)
      PROVE  HonestInv'
  BY <1>2, PushArrives, ArriveKept
<1>3. ASSUME NEW p \in Repo, NEW d \in Digest,
             \/ GetBlob(r, p, d)
             \/ \E b \in ByteRange : GetRange(r, p, d, b[1], b[2])
      PROVE  HonestInv'
  <2>1. PICK q : Arrives(r, q) /\ Candid(q)'
    BY <1>3, GetArrives
  <2> QED BY <1>0, <1>3, <2>1, GetArrives, ArriveKept
<1> QED BY <1>1, <1>2, <1>3 DEF Arrive

\* Steps of no handler.
LEMMA OtherHonest ==
    ASSUME HonestInv,
           \/ \E r \in Request : DropRequest(r)
           \/ \E p \in Repo, d \in Digest : DeleteBlob(p, d)
           \/ Crash
           \/ UNCHANGED vars
    PROVE  HonestInv'
<1>1. ASSUME NEW r \in Request, DropRequest(r) PROVE HonestInv'
  <2>1. End(r) /\ UNCHANGED <<blobs, links, suspect, mixed>>
    BY <1>1 DEF DropRequest
  <2>2. StoreKept
    BY <2>1, StoreUnchanged DEF HonestInv, TypeOK, LinksNamed
  <2> QED BY <2>1, <2>2, HonestFree
<1>2. ASSUME NEW p \in Repo, NEW d \in Digest, DeleteBlob(p, d) PROVE HonestInv'
  <2>1. links' = Without(links, <<p, d>>) /\ UNCHANGED <<blobs, req, suspect, mixed>>
    BY <1>2 DEF DeleteBlob
  <2>2. IsTable(links', Repo \X Digest, Nat)
    BY <2>1, WithoutTable DEF HonestInv, TypeOK
  <2>3. LinksNamed'
    BY <2>1 DEF Without, HonestInv, LinksNamed
  <2> QED BY <2>1, <2>2, <2>3 DEF HonestInv, TypeOK, HonestBlobs, Candid
<1>3. CASE Crash
  BY <1>3 DEF Crash, HonestInv, TypeOK, HonestBlobs, LinksNamed, IsTable, Empty
<1>4. CASE UNCHANGED vars
  BY <1>4 DEF vars, HonestInv, TypeOK, HonestBlobs, LinksNamed, Candid
<1> QED BY <1>1, <1>2, <1>3, <1>4

LEMMA InitHonest == Init => HonestInv
BY DEF Init, HonestInv, TypeOK, HonestBlobs, LinksNamed, IsTable, Empty

LEMMA NextHonest == HonestInv /\ [Next]_vars => HonestInv'
BY ArriveHonest, HandlerHonest, OtherHonest DEF Next

\* What is known of a file and a request, whatever is sent and whoever overlaps.
THEOREM HonestInvCorrect == Spec => []HonestInv
BY InitHonest, NextHonest, PTL DEF Spec

\* Every reachable state has its types, whatever is sent.
THEOREM TypeCorrect == Spec => []TypeOK
BY HonestInvCorrect, HonestInvSuffices, PTL

\* Honest pushes never get in each other's way, with no assumption on what is
\* sent under other digests, what overlaps, or what is cut off.
THEOREM HonestBodiesAgreeCorrect == Spec => []HonestBodiesAgree
BY HonestInvCorrect, HonestInvSuffices, PTL

-----------------------------------------------------------------------------
(* Digests that are not mixed *)

\* The right file is at the path of d.
Good(d) == d \in DOMAIN blobs /\ DigestOf(blobs[d]) = d

\* What a request has found out, and what still holds of it while its digest
\* is not mixed: others neither remove a right file nor, where wrong bodies are
\* sent, put one there.
Known(q) ==
    /\ q.pc = "rename" /\ q.digest \in suspect => q.digest \notin DOMAIN blobs
    /\ /\ q.pc \in {"verify", "discard"} /\ q.digest \in suspect
       /\ DigestOf(q.seen) # q.digest
       => ~Good(q.digest)
    /\ q.pc = "verify" /\ DigestOf(q.seen) = q.digest => Good(q.digest)
    /\ q.pc \in {"stat", "link"} \cup Getting => Good(q.digest)
    /\ q.pc = "link" => q.size = Size[q.digest[2]]
    /\ q.pc \in Getting => Ranged(q, Size[q.digest[2]])
    /\ q.pc = "send" => q.seen = q.digest[2]

\* Where a wrong body was sent under a digest that is not mixed, one request
\* at a time sends any.
Alone ==
    \A r, s \in DOMAIN req :
        /\ req[r].body # NoContent /\ req[s].body # NoContent
        /\ req[r].digest = req[s].digest /\ req[r].digest \in suspect \ mixed
        => r = s

LinksGood ==
    \A k \in DOMAIN links :
        k[2] \notin mixed => Good(k[2]) /\ links[k] = Size[k[2][2]]

CleanInv ==
    /\ Alone
    /\ LinksGood
    /\ \A r \in DOMAIN req : req[r].digest \notin mixed => Known(req[r])

LEMMA GoodFacts ==
    ASSUME HonestInv, NEW d, Good(d)
    PROVE  /\ d \in Digest /\ blobs[d] = d[2] /\ d[2] \in Content
           /\ DigestOf(d[2]) = d
<1>1. d \in Digest
  BY DEF HonestInv, TypeOK, IsTable, Good
<1> QED BY <1>1, DigestFacts DEF Good

LEMMA LinkedGood ==
    ASSUME HonestInv, CleanInv, NEW p, NEW d, Linked(p, d), d \notin mixed
    PROVE  Good(d) /\ links[<<p, d>>] = Size[d[2]]
BY DEF CleanInv, LinksGood, Linked

LEMMA CleanInvSuffices ==
    ASSUME HonestInv, CleanInv
    PROVE  LinkedBlobIntact /\ ServedBlobIntact /\ RangeExact
<1>1. LinkedBlobIntact
  BY GoodFacts DEF CleanInv, LinksGood, LinkedBlobIntact, Intact, Good
<1>2. ASSUME NEW r \in DOMAIN req, req[r].pc = "send", req[r].digest \notin mixed
      PROVE  /\ DigestOf(req[r].seen) = req[r].digest
             /\ req[r].first + req[r].size <= Size[req[r].seen]
             /\ req[r].first..(req[r].first + req[r].size - 1) =
                    BytesOf(req[r].seen, req[r].first, req[r].last)
  <2>1. /\ Good(req[r].digest) /\ req[r].seen = req[r].digest[2]
        /\ Ranged(req[r], Size[req[r].seen])
    BY <1>2 DEF CleanInv, Known, Getting
  <2>2. DigestOf(req[r].seen) = req[r].digest
    BY <2>1, GoodFacts
  <2> QED BY <1>2, <2>1, <2>2 DEF Ranged, BytesOf
<1>3. ASSUME NEW r \in DOMAIN req, req[r].pc = "refuse", req[r].digest \notin mixed
      PROVE  BytesOf(req[r].digest[2], req[r].first, req[r].last) = {}
  <2>1. Ranged(req[r], Size[req[r].digest[2]])
    BY <1>3 DEF CleanInv, Known, Getting
  <2> QED BY <1>3, <2>1 DEF Ranged, BytesOf
<1>4. ServedBlobIntact
  BY <1>2 DEF ServedBlobIntact
<1>5. RangeExact
  BY <1>2, <1>3 DEF RangeExact
<1> QED BY <1>1, <1>4, <1>5

\* What a step of r is to others: no right file goes, and where wrong bodies
\* are sent nothing changes for who sends one.  Mixed digests are excepted.
Steady(r) ==
    /\ mixed \subseteq mixed'
    /\ \A d \in Digest \ mixed' : Good(d) => Good(d)'
    /\ \A d \in suspect' \ mixed', s \in DOMAIN req \ {r} :
         req[s].body # NoContent /\ req[s].digest = d =>
            /\ d \in suspect
            /\ d \in DOMAIN blobs' => d \in DOMAIN blobs
            /\ Good(d)' => Good(d)

LEMMA KnownStays ==
    ASSUME HonestInv, CleanInv, NEW r, Steady(r), NEW s \in DOMAIN req, s # r,
           NEW q, q = req[s], q.digest \notin mixed'
    PROVE  Known(q)'
<1>1. Known(q) /\ q.digest \in Digest
  BY Fields DEF CleanInv, Steady
<1>2. q.pc \in {"rename", "verify", "discard"} => q.body # NoContent
  BY Fields, NoContentAssumption DEF Candid, Pushing
<1>3. Good(q.digest) => Good(q.digest)'
  BY <1>1 DEF Steady
<1>4. ASSUME q.pc \in {"rename", "verify", "discard"}, q.digest \in suspect'
      PROVE  /\ q.digest \in suspect
             /\ q.digest \in DOMAIN blobs' => q.digest \in DOMAIN blobs
             /\ Good(q.digest)' => Good(q.digest)
  BY <1>2, <1>4 DEF Steady
<1>5. Ranged(q, Size[q.digest[2]])' <=> Ranged(q, Size[q.digest[2]])
  BY DEF Ranged
<1> QED BY <1>1, <1>3, <1>4, <1>5 DEF Known

LEMMA LinksKept ==
    ASSUME HonestInv, CleanInv, NEW r, Steady(r), UNCHANGED links
    PROVE  LinksGood'
BY DEF HonestInv, TypeOK, IsTable, CleanInv, LinksGood, Steady

LEMMA AloneKept ==
    ASSUME CleanInv, UNCHANGED <<suspect, mixed>>,
           \A s \in DOMAIN req' : /\ s \in DOMAIN req
                                  /\ req'[s].digest = req[s].digest
                                  /\ req'[s].body = req[s].body
    PROVE  Alone'
BY DEF CleanInv, Alone

LEMMA CleanMoved ==
    ASSUME HonestInv, CleanInv, NEW r \in DOMAIN req, Steady(r), LinksGood',
           UNCHANGED <<suspect, mixed>>, NEW p, NEW e, NEW n, NEW q,
           Moved(r, p, e, n, q), q.digest \notin mixed => Known(q)'
    PROVE  CleanInv'
<1>1. /\ DOMAIN req' = DOMAIN req \cup {r}
      /\ req'[r] = q
      /\ \A s \in DOMAIN req : s # r => req'[s] = req[s]
  BY SlotSet DEF Moved
<1>2. Alone'
  BY <1>1, AloneKept DEF Moved
<1>3. \A s \in DOMAIN req' : req'[s].digest \notin mixed' => Known(req[s])'
  BY <1>1, KnownStays
<1> QED BY <1>2, <1>3 DEF CleanInv

LEMMA CleanFree ==
    ASSUME HonestInv, CleanInv, NEW r, Steady(r), LinksGood',
           UNCHANGED <<suspect, mixed>>, End(r)
    PROVE  CleanInv'
<1>1. \A s \in DOMAIN req' : s \in DOMAIN req /\ s # r /\ req'[s] = req[s]
  BY SlotFree
<1>2. Alone'
  BY <1>1, AloneKept
<1>3. \A s \in DOMAIN req' : req'[s].digest \notin mixed' => Known(req[s])'
  BY <1>1, KnownStays
<1> QED BY <1>2, <1>3 DEF CleanInv

LEMMA QuietSteady ==
    ASSUME UNCHANGED <<blobs, suspect, mixed>>, NEW r
    PROVE  Steady(r)
BY DEF Steady, Good

\* One that sends a body changes the path of its digest, and does not lose a
\* right file: nobody else who sends a body can notice.
LEMMA PathSteady ==
    ASSUME HonestInv, CleanInv, NEW r \in DOMAIN req,
           UNCHANGED <<suspect, mixed>>,
           req[r].body # NoContent, NEW g, g = req[r].digest,
           \A d \in Digest : d # g =>
              /\ d \in DOMAIN blobs' <=> d \in DOMAIN blobs
              /\ d \in DOMAIN blobs => blobs'[d] = blobs[d],
           g \notin mixed /\ Good(g) => Good(g)'
    PROVE  Steady(r)
<1>1. \A d \in Digest : d # g => (Good(d)' <=> Good(d))
  BY DEF Good
<1>2. ASSUME NEW s \in DOMAIN req \ {r}, req[s].body # NoContent,
             req[s].digest \in suspect \ mixed
      PROVE  req[s].digest \in Digest /\ req[s].digest # g
  BY <1>2, Fields DEF CleanInv, Alone
<1>3. g \in Digest
  BY Fields
<1> QED BY <1>1, <1>2, <1>3 DEF Steady

LEMMA HandlerSteady ==
    ASSUME HonestInv, CleanInv, NEW r \in Request, Handle(r)
    PROVE  Steady(r) /\ UNCHANGED <<suspect, mixed>>
<1>0. r \in DOMAIN req /\ UNCHANGED <<suspect, mixed>>
  BY DEF Handle, At, ProbeBlob, WriteTmp, ReprobeBlob, RenameTmp, OpenStored,
         Verify, Discard, MoveUpload, StatStored, InsertLink, ReadSource,
         RequireLink, OpenBlob, SendBlob, RefuseRange
<1>1. PICK g : g = req[r].digest
  OBVIOUS
<1>2. Candid(req[r]) /\ (g \notin mixed => Known(req[r])) /\ g \in Digest
  BY <1>0, <1>1, Fields DEF CleanInv
<1>3. ASSUME req[r].pc \in Pushing PROVE req[r].body \in Content /\ req[r].body # NoContent
  BY <1>2, <1>3, NoContentAssumption DEF Candid
<1>4. CASE RenameTmp(r) \/ MoveUpload(r)
  <2>1. /\ req[r].pc \in {"rename", "move"} /\ req[r].pc \in Pushing
        /\ blobs' = With(blobs, g, req[r].body)
    BY <1>1, <1>4 DEF RenameTmp, MoveUpload, At, Pushing
  <2>2. \A d : d # g => /\ d \in DOMAIN blobs' <=> d \in DOMAIN blobs
                        /\ d \in DOMAIN blobs => blobs'[d] = blobs[d]
    BY <2>1 DEF With
  <2>3. g \in DOMAIN blobs' /\ blobs'[g] = req[r].body
    BY <2>1 DEF With
  <2>4. ASSUME Good(g), g \notin mixed PROVE DigestOf(req[r].body) = g
    <3>1. DigestOf(g[2]) = g /\ g \in DOMAIN blobs
      BY <2>4, GoodFacts DEF Good
    <3>2. CASE g \in suspect
      BY <1>1, <1>2, <2>1, <2>4, <3>1, <3>2 DEF Known, Candid
    <3>3. CASE g \notin suspect
      BY <1>1, <1>2, <1>3, <2>1, <3>1, <3>3 DEF Candid
    <3> QED BY <3>2, <3>3
  <2>5. g \notin mixed /\ Good(g) => Good(g)'
    BY <2>3, <2>4 DEF Good
  <2> QED BY <1>0, <1>1, <1>3, <2>1, <2>2, <2>5, PathSteady
<1>5. CASE Discard(r)
  <2>1. /\ req[r].pc = "discard" /\ req[r].pc \in Pushing
        /\ blobs' = Without(blobs, g)
    BY <1>1, <1>5 DEF Discard, At, Pushing
  <2>2. \A d : d # g => /\ d \in DOMAIN blobs' <=> d \in DOMAIN blobs
                        /\ d \in DOMAIN blobs => blobs'[d] = blobs[d]
    BY <2>1 DEF Without
  <2>3. g \notin mixed => ~Good(g)
    <3>1. DigestOf(req[r].seen) # g
      BY <1>1, <1>2, <2>1 DEF Candid
    <3>2. CASE g \in suspect
      BY <1>1, <1>2, <2>1, <3>1, <3>2 DEF Known
    <3>3. CASE g \notin suspect
      BY <1>1, <1>2, <2>1, <3>1, <3>3, GoodFacts DEF Candid
    <3> QED BY <3>2, <3>3
  <2> QED BY <1>0, <1>1, <1>3, <2>1, <2>2, <2>3, PathSteady
<1>6. CASE UNCHANGED blobs
  BY <1>0, <1>6, QuietSteady
<1> QED BY <1>0, <1>4, <1>5, <1>6
        DEF Handle, ProbeBlob, WriteTmp, ReprobeBlob, OpenStored, Verify,
            StatStored, InsertLink, ReadSource, RequireLink, OpenBlob, SendBlob,
            RefuseRange

\* A handler step ends its request or moves it on.
LEMMA HandlerMoves ==
    ASSUME HonestInv, NEW r \in Request, Handle(r)
    PROVE  End(r) \/ \E p, e, n, q : Moved(r, p, e, n, q)
<1>0. r \in DOMAIN req
  BY DEF Handle, At, ProbeBlob, WriteTmp, ReprobeBlob, RenameTmp, OpenStored,
         Verify, Discard, MoveUpload, StatStored, InsertLink, ReadSource,
         RequireLink, OpenBlob, SendBlob, RefuseRange
<1>1. ASSUME NEW p \in Pc, Goto(r, p) PROVE \E e, n, q : Moved(r, p, e, n, q)
  BY <1>0, <1>1, GotoMoved
<1>2. ASSUME NEW p \in Pc, req' = [req EXCEPT ![r].pc = p,
                                       ![r].seen = blobs[req[r].digest]], Stored(r)
      PROVE  \E e, n, q : Moved(r, p, e, n, q)
  <2>1. PICK e : e = blobs[req[r].digest]
    OBVIOUS
  <2>2. e \in Content
    BY <1>2, <2>1, StoredFacts DEF Stored
  <2>3. req' = [req EXCEPT ![r].pc = p, ![r].seen = e]
    BY <1>2, <2>1
  <2> QED BY <1>0, <2>2, <2>3, SeenMoved
<1>3. ASSUME NEW n \in Nat, req' = [req EXCEPT ![r].pc = "link", ![r].size = n]
      PROVE  \E p, e, q : Moved(r, p, e, n, q)
  BY <1>0, <1>3, SizeMoved DEF Pc
<1>4. CASE \/ ProbeBlob(r) \/ WriteTmp(r) \/ ReprobeBlob(r) \/ RenameTmp(r)
           \/ Verify(r) \/ Discard(r) \/ MoveUpload(r) \/ InsertLink(r)
           \/ RequireLink(r) \/ SendBlob(r) \/ RefuseRange(r)
  <2>1. \/ End(r)
        \/ \E p \in Pc : Goto(r, p)
    BY <1>4 DEF ProbeBlob, WriteTmp, ReprobeBlob, RenameTmp, Verify, Discard,
                MoveUpload, InsertLink, RequireLink, SendBlob, RefuseRange, Pc
  <2> QED BY <1>1, <2>1
<1>5. CASE OpenStored(r) \/ OpenBlob(r)
  <2>1. \/ End(r)
        \/ /\ Stored(r)
           /\ \E p \in Pc : req' = [req EXCEPT ![r].pc = p,
                                           ![r].seen = blobs[req[r].digest]]
    BY <1>5 DEF OpenStored, OpenBlob, Pc
  <2> QED BY <1>2, <2>1
<1>6. CASE StatStored(r)
  <2>1. PICK n : n = Size[blobs[req[r].digest]]
    OBVIOUS
  <2>2. Stored(r) => n \in Nat
    BY <2>1, StoredFacts DEF Stored
  <2> QED BY <1>3, <1>6, <2>1, <2>2 DEF StatStored
<1>7. CASE ReadSource(r)
  <2>1. PICK n : n = links[<<req[r].from, req[r].digest>>]
    OBVIOUS
  <2>2. Linked(req[r].from, req[r].digest) => n \in Nat
    BY <2>1, LinkFacts
  <2> QED BY <1>0, <1>3, <1>7, <2>1, <2>2, SourceMoved DEF ReadSource
<1> QED BY <1>4, <1>5, <1>6, <1>7 DEF Handle

\* A step under a mixed digest claims nothing of its own request.
LEMMA HandlerMixed ==
    ASSUME HonestInv, CleanInv, NEW r \in Request, Handle(r),
           req[r].digest \in mixed
    PROVE  CleanInv'
<1>0. r \in DOMAIN req
  BY DEF Handle, At, ProbeBlob, WriteTmp, ReprobeBlob, RenameTmp, OpenStored,
         Verify, Discard, MoveUpload, StatStored, InsertLink, ReadSource,
         RequireLink, OpenBlob, SendBlob, RefuseRange
<1>1. Steady(r) /\ UNCHANGED <<suspect, mixed>>
  BY HandlerSteady
<1>2. LinksGood'
  <2>1. CASE UNCHANGED links
    BY <1>1, <2>1, LinksKept
  <2>2. CASE InsertLink(r)
    <3>1. \A i \in DOMAIN links' :
             \/ i = <<req[r].repo, req[r].digest>>
             \/ i \in DOMAIN links /\ links'[i] = links[i]
      BY <2>2 DEF InsertLink, With
    <3> QED BY <1>1, <2>2, <3>1 DEF CleanInv, LinksGood, Good, InsertLink
  <2> QED BY <2>1, <2>2
        DEF Handle, ProbeBlob, WriteTmp, ReprobeBlob, RenameTmp, OpenStored,
            Verify, Discard, MoveUpload, StatStored, ReadSource, RequireLink,
            OpenBlob, SendBlob, RefuseRange
<1>3. CASE End(r)
  BY <1>1, <1>2, <1>3, CleanFree
<1>4. ASSUME NEW p, NEW e, NEW n, NEW q, Moved(r, p, e, n, q) PROVE CleanInv'
  <2>1. q.digest \in mixed
    BY <1>4 DEF Moved
  <2> QED BY <1>0, <1>1, <1>2, <1>4, <2>1, CleanMoved
<1> QED BY <1>3, <1>4, HandlerMoves

LEMMA HandlerUnmixed ==
    ASSUME HonestInv, CleanInv, NEW r \in Request, Handle(r),
           req[r].digest \notin mixed
    PROVE  CleanInv'
<1>0. r \in DOMAIN req
  BY DEF Handle, At, ProbeBlob, WriteTmp, ReprobeBlob, RenameTmp, OpenStored,
         Verify, Discard, MoveUpload, StatStored, InsertLink, ReadSource,
         RequireLink, OpenBlob, SendBlob, RefuseRange
<1>1. Steady(r) /\ UNCHANGED <<suspect, mixed>>
  BY HandlerSteady
<1>2. /\ Candid(req[r]) /\ Known(req[r]) /\ req[r].digest \in Digest
      /\ req[r].seen \in Content \cup {NoContent} /\ req[r].size \in Nat
  BY <1>0, Fields DEF CleanInv
<1>3. UNCHANGED links => LinksGood'
  BY <1>1, LinksKept
<1>4. CASE UNCHANGED links /\ End(r)
  BY <1>1, <1>3, <1>4, CleanFree
\* A step to a pc at which little is known.
<1>5. ASSUME UNCHANGED links, NEW p \in {"probe", "tmp", "reprobe", "rename", "reader"},
             Goto(r, p),
             p = "rename" => req[r].digest \notin DOMAIN blobs /\ UNCHANGED blobs
      PROVE  CleanInv'
  <2>1. p \in Pc
    BY DEF Pc
  <2>2. PICK q : Moved(r, p, req[r].seen, req[r].size, q)
    BY <1>0, <1>5, <2>1, GotoMoved
  <2>3. q.pc = p /\ q.digest = req[r].digest
    BY <2>2 DEF Moved
  <2>4. Known(q)'
    BY <1>5, <2>3 DEF Known, Getting
  <2> QED BY <1>0, <1>1, <1>3, <1>5, <2>2, <2>4, CleanMoved
<1>6. CASE ProbeBlob(r) \/ WriteTmp(r) \/ ReprobeBlob(r) \/ RenameTmp(r)
  BY <1>5, <1>6 DEF ProbeBlob, WriteTmp, ReprobeBlob, RenameTmp, Stored
\* A step from what was known to the right file.
<1>7. ASSUME UNCHANGED links, Goto(r, "stat"), NEW g, g = req[r].digest, Good(g)'
      PROVE  CleanInv'
  <2>1. PICK q : Moved(r, "stat", req[r].seen, req[r].size, q)
    BY <1>0, <1>7, GotoMoved DEF Pc
  <2>2. q.pc = "stat" /\ q.digest = g
    BY <1>7, <2>1 DEF Moved
  <2>3. Known(q)'
    BY <1>7, <2>2 DEF Known, Getting
  <2> QED BY <1>0, <1>1, <1>3, <1>7, <2>1, <2>3, CleanMoved
<1>8. ASSUME UNCHANGED links, NEW g, g = req[r].digest, Good(g), NEW n \in Nat,
             n = Size[g[2]], req' = [req EXCEPT ![r].pc = "link", ![r].size = n]
      PROVE  CleanInv'
  <2>1. PICK q : Moved(r, "link", req[r].seen, n, q)
    BY <1>0, <1>8, SizeMoved DEF Pc
  <2>2. q.pc = "link" /\ q.digest = g /\ q.size = n
    BY <1>8, <2>1 DEF Moved
  <2>3. Good(g)'
    BY <1>1, <1>2, <1>8 DEF Steady
  <2>4. Known(q)'
    BY <1>8, <2>2, <2>3 DEF Known, Getting
  <2> QED BY <1>0, <1>1, <1>3, <1>8, <2>1, <2>4, CleanMoved
<1>9. CASE OpenStored(r) /\ Stored(r)
  <2>1. PICK g, e :
          /\ g = req[r].digest /\ e = blobs[g] /\ g \in DOMAIN blobs
          /\ req' = [req EXCEPT ![r].pc = "verify", ![r].seen = e]
    BY <1>9 DEF OpenStored, Stored
  <2>2. e \in Content
    BY <2>1, StoredFacts
  <2>3. PICK q : Moved(r, "verify", e, req[r].size, q)
    BY <1>0, <2>1, <2>2, SeenMoved DEF Pc
  <2>4. q.pc = "verify" /\ q.digest = g /\ q.seen = e
    BY <2>1, <2>3 DEF Moved
  <2>5. Good(g)' <=> DigestOf(e) = g
    BY <1>9, <2>1 DEF Good, OpenStored
  <2>6. Known(q)'
    BY <2>4, <2>5 DEF Known, Getting
  <2> QED BY <1>0, <1>1, <1>3, <1>9, <2>3, <2>6, CleanMoved DEF OpenStored
<1>10. CASE Verify(r)
  <2>1. PICK g : g = req[r].digest
    OBVIOUS
  <2>2. req[r].pc = "verify" /\ UNCHANGED <<blobs, links>>
    BY <1>10 DEF Verify, At
  <2>3. Good(g)' <=> Good(g)
    BY <2>2 DEF Good
  <2>4. CASE DigestOf(req[r].seen) = g
    BY <1>2, <1>7, <1>10, <2>1, <2>2, <2>3, <2>4 DEF Known, Verify
  <2>5. CASE DigestOf(req[r].seen) # g
    <3>1. Goto(r, "discard")
      BY <1>10, <2>1, <2>5 DEF Verify
    <3>2. PICK q : Moved(r, "discard", req[r].seen, req[r].size, q)
      BY <1>0, <3>1, GotoMoved DEF Pc
    <3>3. q.pc = "discard" /\ q.digest = g /\ q.seen = req[r].seen
      BY <2>1, <3>2 DEF Moved
    <3>4. g \in suspect => ~Good(g)
      BY <1>2, <2>1, <2>2, <2>5 DEF Known
    <3>5. Known(q)'
      BY <1>1, <2>3, <3>3, <3>4 DEF Known, Getting
    <3> QED BY <1>0, <1>1, <1>3, <2>2, <3>2, <3>5, CleanMoved
  <2> QED BY <2>4, <2>5
<1>11. CASE MoveUpload(r)
  <2>1. PICK g : g = req[r].digest
    OBVIOUS
  <2>2. /\ req[r].pc = "move" /\ blobs' = With(blobs, g, req[r].body)
        /\ Goto(r, "stat") /\ UNCHANGED links
    BY <1>11, <2>1 DEF MoveUpload, At
  <2>3. g \in DOMAIN blobs' /\ blobs'[g] = req[r].body
    BY <2>2 DEF With
  <2>4. Good(g)'
    BY <1>2, <2>1, <2>2, <2>3 DEF Good, Candid
  <2> QED BY <1>7, <2>1, <2>2, <2>4
<1>12. CASE StatStored(r) /\ Stored(r)
  <2>1. PICK g, n :
          /\ g = req[r].digest /\ n = Size[blobs[g]] /\ req[r].pc = "stat"
          /\ req' = [req EXCEPT ![r].pc = "link", ![r].size = n]
          /\ UNCHANGED links
    BY <1>12 DEF StatStored, At
  <2>2. Good(g)
    BY <1>2, <2>1 DEF Known
  <2>3. n \in Nat /\ n = Size[g[2]]
    BY <2>1, <2>2, GoodFacts, SizeAssumption
  <2> QED BY <1>8, <2>1, <2>2, <2>3
<1>13. CASE ReadSource(r) /\ Linked(req[r].from, req[r].digest)
  <2>1. PICK g, n :
          /\ g = req[r].digest /\ n = links[<<req[r].from, g>>]
          /\ req' = [req EXCEPT ![r].pc = "link", ![r].size = n]
          /\ UNCHANGED links
    BY <1>13 DEF ReadSource
  <2>2. Good(g) /\ n = Size[g[2]] /\ n \in Nat
    BY <1>13, <2>1, LinkedGood, LinkFacts
  <2> QED BY <1>8, <2>1, <2>2
<1>14. CASE InsertLink(r)
  <2>1. PICK k, g :
          /\ g = req[r].digest /\ k = <<req[r].repo, g>>
          /\ links' = With(links, k, req[r].size) /\ End(r)
          /\ req[r].pc = "link" /\ UNCHANGED blobs
    BY <1>14 DEF InsertLink, At
  <2>2. Good(g) /\ req[r].size = Size[g[2]] /\ k[2] = g
    BY <1>2, <2>1 DEF Known
  <2>3. \A i \in DOMAIN links' :
            IF i = k THEN links'[i] = req[r].size
            ELSE i \in DOMAIN links /\ links'[i] = links[i]
    BY <2>1 DEF With
  <2>4. LinksGood'
    BY <1>1, <2>1, <2>2, <2>3 DEF CleanInv, LinksGood, Good
  <2> QED BY <1>1, <2>1, <2>4, CleanFree
<1>15. CASE RequireLink(r) /\ Goto(r, "open")
  <2>1. req[r].pc = "again" /\ UNCHANGED <<blobs, links>>
    BY <1>15 DEF RequireLink, At
  <2>2. PICK q : Moved(r, "open", req[r].seen, req[r].size, q)
    BY <1>0, <1>15, GotoMoved DEF Pc
  <2>3. /\ q.pc = "open" /\ q.digest = req[r].digest
        /\ q.first = req[r].first /\ q.last = req[r].last /\ q.size = req[r].size
    BY <2>2 DEF Moved
  <2>4. Good(q.digest) /\ Ranged(req[r], Size[q.digest[2]])
    BY <1>2, <2>1, <2>3 DEF Known, Getting
  <2>5. Ranged(q, Size[q.digest[2]])
    BY <2>1, <2>3, <2>4 DEF Ranged
  <2>6. Known(q)'
    BY <2>1, <2>3, <2>4, <2>5 DEF Known, Getting, Good, Ranged
  <2> QED BY <1>0, <1>1, <1>3, <2>1, <2>2, <2>6, CleanMoved
<1>16. CASE OpenBlob(r) /\ Stored(r)
  <2>1. PICK g, e :
          /\ g = req[r].digest /\ e = blobs[g] /\ req[r].pc = "open"
          /\ req' = [req EXCEPT ![r].pc = "send", ![r].seen = e]
          /\ UNCHANGED <<blobs, links>>
    BY <1>16 DEF OpenBlob, At
  <2>2. Good(g) /\ Ranged(req[r], Size[g[2]])
    BY <1>2, <2>1 DEF Known, Getting
  <2>3. e = g[2] /\ e \in Content
    BY <2>1, <2>2, GoodFacts
  <2>4. PICK q : Moved(r, "send", e, req[r].size, q)
    BY <1>0, <2>1, <2>3, SeenMoved DEF Pc
  <2>5. /\ q.pc = "send" /\ q.digest = g /\ q.seen = e
        /\ q.first = req[r].first /\ q.last = req[r].last /\ q.size = req[r].size
    BY <2>1, <2>4 DEF Moved
  <2>6. Ranged(q, Size[g[2]])
    BY <2>1, <2>2, <2>5 DEF Ranged
  <2>7. Good(g)'
    BY <2>1, <2>2 DEF Good
  <2>8. Known(q)'
    BY <2>3, <2>5, <2>6, <2>7 DEF Known, Getting, Ranged
  <2> QED BY <1>0, <1>1, <1>3, <2>1, <2>4, <2>8, CleanMoved
<1>17. CASE OpenStored(r) \/ Discard(r) \/ StatStored(r)
  BY <1>4, <1>9, <1>12, <1>17 DEF OpenStored, Discard, StatStored
<1>18. CASE ReadSource(r)
  <2>1. CASE /\ req' = [req EXCEPT ![r].pc = "probe", ![r].from = req[r].repo]
             /\ UNCHANGED links
    <3>1. PICK q : Moved(r, "probe", req[r].seen, req[r].size, q)
      BY <1>0, <2>1, SourceMoved
    <3>2. Known(q)'
      BY <3>1 DEF Moved, Known, Getting
    <3> QED BY <1>0, <1>1, <1>3, <2>1, <3>1, <3>2, CleanMoved
  <2> QED BY <1>4, <1>13, <1>18, <2>1 DEF ReadSource
<1>19. CASE RequireLink(r) \/ OpenBlob(r) \/ SendBlob(r) \/ RefuseRange(r)
  BY <1>4, <1>15, <1>16, <1>19 DEF RequireLink, OpenBlob, SendBlob, RefuseRange
<1> QED BY <1>6, <1>10, <1>11, <1>14, <1>17, <1>18, <1>19 DEF Handle

LEMMA HandlerClean ==
    ASSUME HonestInv, CleanInv, NEW r \in Request, Handle(r)
    PROVE  CleanInv'
BY HandlerMixed, HandlerUnmixed

\* A request arrives: if its digest is not mixed then, it sends the right body,
\* or none, or nobody else sends any.
LEMMA CleanArrives ==
    ASSUME HonestInv, CleanInv, UNCHANGED <<blobs, links>>, NEW r \in Request,
           NEW q, Arrives(r, q), NEW d, q.digest = d, mixed \subseteq mixed',
           d \notin mixed' => Known(q)',
           suspect' = suspect \/
              (suspect' = suspect \cup {d} /\ q.body # NoContent /\ q.body # d[2]),
           q.body # NoContent /\ d \notin mixed' =>
              \A s \in DOMAIN req :
                 req[s].digest = d /\ req[s].body # NoContent => d \notin suspect'
    PROVE  CleanInv'
<1>1. /\ DOMAIN req' = DOMAIN req \cup {r}
      /\ req'[r] = q /\ r \notin DOMAIN req
      /\ \A s \in DOMAIN req : req'[s] = req[s]
  BY SlotSet DEF Arrives
<1>2. ASSUME NEW s \in DOMAIN req, req[s].body # NoContent,
             req[s].digest \in suspect' \ mixed'
      PROVE  req[s].digest \in suspect
  BY <1>2
<1>3. Steady(r)
  BY <1>2 DEF Steady, Good
<1>4. Alone'
  <2>1. ASSUME NEW s \in DOMAIN req, req[s].body # NoContent,
               req[s].digest = d, q.body # NoContent, d \notin mixed'
        PROVE  d \notin suspect'
    BY <1>2, <2>1
  <2> QED BY <1>1, <1>2, <2>1 DEF CleanInv, Alone
<1>5. \A s \in DOMAIN req' : req'[s].digest \notin mixed' => Known(req[s])'
  BY <1>1, <1>3, KnownStays
<1>6. LinksGood'
  BY <1>3, LinksKept
<1> QED BY <1>4, <1>5, <1>6 DEF CleanInv

LEMMA ArriveClean ==
    ASSUME HonestInv, CleanInv, NEW r \in Request, Arrive(r)
    PROVE  CleanInv'
<1>1. ASSUME NEW p \in Repo, NEW c \in Content, FinishUpload(r, p, c)
      PROVE  CleanInv'
  <2>1. UNCHANGED <<blobs, links, suspect>> /\ DigestOf(c) \in Digest
        /\ mixed' = Mixed(c, DigestOf(c))
    BY <1>1, UploadArrives
  <2>2. PICK q : /\ Arrives(r, q)
                 /\ q.pc = "move" /\ q.digest = DigestOf(c) /\ q.body = c
    BY <1>1, UploadArrives
  <2>3. Known(q)'
    BY <2>2 DEF Known, Getting
  <2>4. PICK d : d = DigestOf(c) /\ d \in Digest /\ mixed' = Mixed(c, d)
    BY <2>1
  <2>5. mixed \subseteq mixed' /\ Suspected(c, d) = suspect
    BY <2>4, MixedFacts DEF Suspected, Honest, DigestOf
  <2>6. d \notin mixed' =>
           \A s \in DOMAIN req :
              req[s].digest = d /\ req[s].body # NoContent => d \notin suspect'
    BY <2>1, <2>4, <2>5, MixedFacts
  <2> QED BY <2>1, <2>2, <2>3, <2>4, <2>5, <2>6, CleanArrives
<1>2. ASSUME NEW p \in Repo, NEW d \in Digest, NEW f \in Repo,
             NEW c \in Content \cup {NoContent},
             \/ PostBlob(r, p, d, c) /\ c \in Content
             \/ MountBlob(r, p, f, d, c)
      PROVE  CleanInv'
  <2>1. /\ UNCHANGED <<blobs, links>>
        /\ suspect' = IF c = NoContent THEN suspect ELSE Suspected(c, d)
        /\ mixed' = IF c = NoContent THEN mixed ELSE Mixed(c, d)
    BY <1>2, PushArrives
  <2>2. PICK q : /\ Arrives(r, q) /\ q.pc \in {"probe", "source"}
                 /\ q.digest = d /\ q.body = c
    BY <1>2, PushArrives
  <2>3. Known(q)'
    BY <2>2 DEF Known, Getting
  <2>4. \/ suspect' = suspect
        \/ suspect' = suspect \cup {d} /\ q.body # NoContent /\ q.body # d[2]
    BY <2>1, <2>2 DEF Suspected, Honest
  <2>5. /\ mixed \subseteq mixed'
        /\ q.body # NoContent /\ d \notin mixed' =>
              \A s \in DOMAIN req :
                 req[s].digest = d /\ req[s].body # NoContent => d \notin suspect'
    BY <2>1, <2>2, MixedFacts
  <2> QED BY <2>1, <2>2, <2>3, <2>4, <2>5, CleanArrives
<1>3. ASSUME NEW p \in Repo, NEW d \in Digest,
             \/ GetBlob(r, p, d)
             \/ \E b \in ByteRange : GetRange(r, p, d, b[1], b[2])
      PROVE  CleanInv'
  <2>1. UNCHANGED <<blobs, links, suspect, mixed>> /\ Linked(p, d)
    BY <1>3, GetArrives
  <2>2. PICK q : /\ Arrives(r, q) /\ q.digest = d /\ q.body = NoContent
                 /\ Ranged(q, links[<<p, d>>]) /\ q.pc # "send"
    BY <1>3, GetArrives
  <2>3. d \notin mixed => Good(d) /\ links[<<p, d>>] = Size[d[2]]
    BY <2>1, LinkedGood
  <2>4. q.pc \in Getting
    BY <2>2 DEF Ranged, Getting
  <2>5. d \notin mixed' => Known(q)'
    BY <2>1, <2>2, <2>3, <2>4 DEF Known, Getting, Ranged, Good
  <2> QED BY <2>1, <2>2, <2>5, CleanArrives
<1> QED BY <1>1, <1>2, <1>3 DEF Arrive

LEMMA OtherClean ==
    ASSUME HonestInv, CleanInv,
           \/ \E r \in Request : DropRequest(r)
           \/ \E p \in Repo, d \in Digest : DeleteBlob(p, d)
           \/ Crash
           \/ UNCHANGED vars
    PROVE  CleanInv'
<1>1. ASSUME NEW r \in Request, DropRequest(r) PROVE CleanInv'
  BY <1>1, QuietSteady, LinksKept, CleanFree DEF DropRequest
<1>2. ASSUME NEW p \in Repo, NEW d \in Digest, DeleteBlob(p, d) PROVE CleanInv'
  <2>1. links' = Without(links, <<p, d>>) /\ UNCHANGED <<blobs, req, suspect, mixed>>
    BY <1>2 DEF DeleteBlob
  <2>2. \A k \in DOMAIN links' : k \in DOMAIN links /\ links'[k] = links[k]
    BY <2>1 DEF Without
  <2>3. LinksGood'
    BY <2>1, <2>2 DEF CleanInv, LinksGood, Good
  <2> QED BY <2>1, <2>3 DEF CleanInv, Alone, Known, Good, Ranged
<1>3. CASE Crash
  BY <1>3 DEF Crash, CleanInv, Alone, LinksGood, Good, Empty
<1>4. CASE UNCHANGED vars
  BY <1>4 DEF vars, CleanInv, Alone, LinksGood, Known, Good, Ranged
<1> QED BY <1>1, <1>2, <1>3, <1>4

LEMMA NextClean ==
    ASSUME HonestInv, CleanInv, [Next]_vars
    PROVE  CleanInv'
BY ArriveClean, HandlerClean, OtherClean DEF Next

\* What a request found out of a digest that is not mixed stays true.
THEOREM CleanInvCorrect == Spec => []CleanInv
<1>1. Init => CleanInv
  BY DEF Init, CleanInv, Alone, LinksGood, Empty
<1>2. HonestInv /\ CleanInv /\ [Next]_vars => CleanInv'
  BY NextClean
<1> QED BY <1>1, <1>2, HonestInvCorrect, PTL DEF Spec

\* The blob of every link is stored, has its digest and the row's size, unless
\* the digest is mixed: a body for it came while another request sent one, this
\* one or an earlier one being wrong.
THEOREM LinkedBlobIntactCorrect == Spec => []LinkedBlobIntact
<1>1. HonestInv /\ CleanInv => LinkedBlobIntact
  BY CleanInvSuffices
<1> QED BY <1>1, HonestInvCorrect, CleanInvCorrect, PTL

\* A GET of a digest that is not mixed sends a right file, and no more than it
\* has, however many steps lie between its look at the row and its open.
THEOREM ServedBlobIntactCorrect == Spec => []ServedBlobIntact
<1>1. HonestInv /\ CleanInv => ServedBlobIntact
  BY CleanInvSuffices
<1> QED BY <1>1, HonestInvCorrect, CleanInvCorrect, PTL

\* For every byte range and every size, empty blobs and ranges that end beyond
\* the blob or start there included, a GET of a digest that is not mixed sends
\* the bytes asked for.
THEOREM RangeExactCorrect == Spec => []RangeExact
<1>1. HonestInv /\ CleanInv => RangeExact
  BY CleanInvSuffices
<1> QED BY <1>1, HonestInvCorrect, CleanInvCorrect, PTL

-----------------------------------------------------------------------------
(* The table of linked blobs *)

Shown == Visible = [k \in DOMAIN links |-> k[2][2]]

LEMMA ShownHolds == HonestInv /\ CleanInv => Shown
<1> SUFFICES ASSUME HonestInv, CleanInv PROVE Shown
  OBVIOUS
<1>1. \A k \in DOMAIN links :
         k[2] \notin mixed => k[2] \in DOMAIN blobs /\ blobs[k[2]] = k[2][2]
  BY GoodFacts DEF CleanInv, LinksGood, Good
<1> QED BY <1>1 DEF Visible, Shown

LEMMA InsertShows ==
    ASSUME HonestInv, CleanInv, Shown, Shown', NEW r \in Request,
           InsertLink(r)
    PROVE  \E p \in Repo, c \in Content : LinkTable!Link(p, c)
<1>1. PICK p, d :
         /\ p = req[r].repo /\ d = req[r].digest
         /\ links' = With(links, <<p, d>>, req[r].size)
         /\ r \in DOMAIN req /\ req[r].pc = "link"
  BY DEF InsertLink, At
<1>2. p \in Repo /\ d[2] \in Content /\ Named(d)
  BY <1>1, Fields DEF Candid
<1>3. PICK c \in Content : c = d[2] /\ DigestOf(c) = d
  BY <1>2 DEF Named
<1>4. Visible = [k \in DOMAIN links |-> k[2][2]]
  BY DEF Shown
<1>5. Visible' = [k \in DOMAIN links' |-> k[2][2]]
  BY DEF Shown
<1>6. DOMAIN links' = DOMAIN links \cup {<<p, d>>}
  BY <1>1 DEF With
<1>7. Visible' = LinkTable!With(Visible, <<p, d>>, c)
  BY <1>3, <1>4, <1>5, <1>6 DEF LinkTable!With
<1> QED BY <1>2, <1>3, <1>7 DEF LinkTable!Link

LEMMA DeleteShows ==
    ASSUME HonestInv, CleanInv, Shown, Shown', NEW p, NEW d,
           DeleteBlob(p, d)
    PROVE  \E k \in DOMAIN Visible : LinkTable!Unlink(k)
<1>1. links' = Without(links, <<p, d>>) /\ <<p, d>> \in DOMAIN links
  BY DEF DeleteBlob, Linked
<1>2. Visible = [k \in DOMAIN links |-> k[2][2]]
  BY DEF Shown
<1>3. Visible' = [k \in DOMAIN links' |-> k[2][2]]
  BY DEF Shown
<1>4. DOMAIN links' = DOMAIN links \ {<<p, d>>}
  BY <1>1 DEF Without
<1>5. Visible' = LinkTable!Without(Visible, <<p, d>>)
  BY <1>2, <1>3, <1>4 DEF LinkTable!Without
<1>6. <<p, d>> \in DOMAIN Visible
  BY <1>1, <1>2
<1> QED BY <1>5, <1>6 DEF LinkTable!Unlink

LEMMA LinkTableStep ==
    ASSUME HonestInv, CleanInv, Shown, Shown', [Next]_vars
    PROVE  [LinkTable!Next]_Visible
<1>1. CASE UNCHANGED links
  <2>1. Visible = [k \in DOMAIN links |-> k[2][2]]
    BY DEF Shown
  <2>2. Visible' = [k \in DOMAIN links' |-> k[2][2]]
    BY DEF Shown
  <2> QED BY <1>1, <2>1, <2>2
<1>2. ASSUME NEW r \in Request, InsertLink(r) PROVE [LinkTable!Next]_Visible
  BY <1>2, InsertShows DEF LinkTable!Next
<1>3. ASSUME NEW p \in Repo, NEW d \in Digest, DeleteBlob(p, d)
      PROVE  [LinkTable!Next]_Visible
  BY <1>3, DeleteShows DEF LinkTable!Next
<1>4. ASSUME NEW r \in Request, Arrive(r) PROVE UNCHANGED links
  BY <1>4 DEF Arrive, FinishUpload, PostBlob, MountBlob, GetBlob, GetRange
<1>5. ASSUME NEW r \in Request, Handle(r), ~InsertLink(r) PROVE UNCHANGED links
  BY <1>5 DEF Handle, ProbeBlob, WriteTmp, ReprobeBlob, RenameTmp, OpenStored,
              Verify, Discard, MoveUpload, StatStored, ReadSource, RequireLink,
              OpenBlob, SendBlob, RefuseRange
<1>6. ASSUME \/ \E r \in Request : DropRequest(r)
             \/ Crash
             \/ UNCHANGED vars
      PROVE  UNCHANGED links
  BY <1>6 DEF DropRequest, Crash, vars
<1> QED BY <1>1, <1>2, <1>3, <1>4, <1>5, <1>6 DEF Next

\* What clients see of the blobs changes in one step per push, mount, upload
\* or unlink: the statement on the row.  No other step shows.  Of a mixed digest
\* what they see is here only where it is linked, not what its file holds.
THEOREM ImplementsLinkTableCorrect == Spec => ImplementsLinkTable
<1>1. Init => LinkTable!Init
  BY DEF Init, Visible, LinkTable!Init, LinkTable!Empty, Empty
<1>2. HonestInv /\ CleanInv /\ Shown /\ Shown' /\ [Next]_vars
      => [LinkTable!Next]_Visible
  BY LinkTableStep
<1> QED BY <1>1, <1>2, ShownHolds, HonestInvCorrect, CleanInvCorrect, PTL
        DEF Spec, ImplementsLinkTable, LinkTable!Spec
=============================================================================
