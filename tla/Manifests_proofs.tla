-------------------------- MODULE Manifests_proofs --------------------------
(***************************************************************************)
(* Proofs about Manifests: tags, bytes, referrers and references agree     *)
(* with the rows of manifests, for every set of manifests and every way    *)
(* requests overlap, are dropped or are cut by a crash.                    *)
(*                                                                         *)
(* Rows are written from what a request found out in earlier steps, so the *)
(* invariants of the tables need one of the requests beside them (Knows).  *)
(* It lasts because what was there is there still, or its deletion was     *)
(* recorded (StepGrows).                                                   *)
(***************************************************************************)
EXTENDS Manifests, Tables_proofs

-----------------------------------------------------------------------------
(* The invariant *)

Pc == {"check", "write", "commit", "resolve", "row", "bytes", "count"}

\* The i-th reference of m is there in repository p, or was deleted.
Had(p, m, i) ==
    Present(Kind[m], p, Refs[m][i]) \/ <<p, Refs[m][i]>> \in removed

\* What request r has established by its step.
Knows(r) ==
    LET q == req[r]  parsed == q.type = Kind[q.m] IN
    /\ q.pc \in {"check", "write", "commit"} => q.m \in Manifest
    /\ q.pc = "check" /\ parsed =>
          \A i \in DOMAIN Refs[q.m] :
              \/ \E k \in DOMAIN q.todo : q.todo[k] = Refs[q.m][i]
              \/ Had(q.repo, q.m, i)
    /\ q.pc \in {"write", "commit"} /\ parsed =>
          \A i \in DOMAIN Refs[q.m] : Had(q.repo, q.m, i)
    /\ q.pc \in {"commit", "bytes"} => q.m \in stored
    /\ q.pc = "row" /\ q.tag # None =>
          HasRow(q.repo, q.m) \/ <<q.repo, q.m>> \in removed

DbInv == TagsResolve /\ RowsStored /\ ReferrersExact /\ ReferencesPresent

ManifestsInv == TypeOK /\ DbInv /\ \A r \in DOMAIN req : Knows(r)

LEMMA ManifestsInvSuffices == ManifestsInv => DbInv /\ ResolvedIsServed
BY DEF ManifestsInv, Knows, ResolvedIsServed

-----------------------------------------------------------------------------
(* Nothing disappears unrecorded *)

Grows ==
    /\ stored \subseteq stored'
    /\ removed \subseteq removed'
    /\ DOMAIN rows \subseteq DOMAIN rows' \cup removed'
    /\ links \subseteq links' \cup removed'

LEMMA StepGrows == Next => Grows
<1> SUFFICES ASSUME Next PROVE Grows
  OBVIOUS
<1>1. ASSUME NEW r \in Request, Arrive(r) \/ Handle(r) \/ DropRequest(r)
      PROVE  Grows
  <2>1. CASE CommitManifest(r)
    <3>1. DOMAIN rows \subseteq DOMAIN rows'
      BY <2>1 DEF CommitManifest, With
    <3> QED BY <2>1, <3>1 DEF CommitManifest, Grows
  <2>2. CASE WriteManifest(r)
    BY <2>2 DEF WriteManifest, db, Grows
  <2>3. CASE CountPull(r)
    BY <2>3 DEF CountPull, Grows
  <2>4. CASE Arrive(r)
    BY <2>4 DEF Arrive, PutManifest, GetByTag, GetByDigest, db, Grows
  <2>5. CASE CheckReference(r) \/ References(r) \/ ResolveTag(r) \/ FindRow(r)
             \/ ReadBytes(r) \/ DropRequest(r)
    BY <2>5 DEF CheckReference, References, ResolveTag, FindRow, ReadBytes,
                DropRequest, db, Grows
  <2> QED BY <1>1, <2>1, <2>2, <2>3, <2>4, <2>5 DEF Handle
<1>2. ASSUME NEW p \in Repo, NEW m \in Manifest, DeleteManifest(p, m)
      PROVE  Grows
  <2>1. DOMAIN rows' = DOMAIN rows \ {<<p, m>>}
    BY <1>2 DEF DeleteManifest, Without
  <2> QED BY <1>2, <2>1 DEF DeleteManifest, Grows
<1>3. ASSUME NEW p \in Repo, NEW b \in Blob, LinkBlob(p, b) \/ UnlinkBlob(p, b)
      PROVE  Grows
  BY <1>3 DEF LinkBlob, UnlinkBlob, db, Grows
<1>4. CASE Crash
  BY <1>4 DEF Crash, db, Grows
<1> QED BY <1>1, <1>2, <1>3, <1>4 DEF Next

LEMMA HadKept ==
    ASSUME Grows, NEW p, NEW m, NEW i, Had(p, m, i)
    PROVE  Had(p, m, i)'
BY DEF Grows, Had, Present, HasRow

LEMMA KnowsKept ==
    ASSUME Grows, NEW r, Knows(r), req'[r] = req[r]
    PROVE  Knows(r)'
<1>1. \A p, m, i : Had(p, m, i) => Had(p, m, i)'
  BY HadKept
<1> QED BY <1>1 DEF Knows, Grows, HasRow

-----------------------------------------------------------------------------
(* The table of requests *)

LEMMA RequestFields ==
    ASSUME TypeOK, NEW r \in DOMAIN req
    PROVE  /\ r \in Request
           /\ req[r] \in RequestState
           /\ req[r].pc \in Pc /\ req[r].repo \in Repo
           /\ req[r].tag \in Tag \cup {None}
           /\ req[r].m \in Manifest \cup {None}
           /\ req[r].type \in Type /\ req[r].todo \in Seq(Blob \cup Manifest)
BY DEF TypeOK, IsTable, RequestState, Pc

\* The state of request r becomes q.
LEMMA MoveEffect ==
    ASSUME TypeOK, NEW r \in DOMAIN req, NEW q \in RequestState,
           req' = [req EXCEPT ![r] = q]
    PROVE  /\ IsTable(req', Request, RequestState)
           /\ DOMAIN req' = DOMAIN req /\ req'[r] = q
           /\ \A s \in DOMAIN req : s # r => req'[s] = req[s]
<1>1. IsTable(req, Request, RequestState)
  BY DEF TypeOK
<1>2. IsTable(req', Request, RequestState)
  BY <1>1, ExceptTable
<1> QED BY <1>1, <1>2 DEF IsTable

\* Request r has moved on to step p, with manifest m.
Moved(r, p, m) ==
    /\ IsTable(req', Request, RequestState)
    /\ DOMAIN req' = DOMAIN req
    /\ req'[r].pc = p /\ req'[r].m = m
    /\ req'[r].repo = req[r].repo /\ req'[r].tag = req[r].tag
    /\ req'[r].type = req[r].type
    /\ \A s \in DOMAIN req : s # r => req'[s] = req[s]

LEMMA MovedTo ==
    ASSUME TypeOK, NEW r \in DOMAIN req, NEW p \in Pc,
           NEW m \in Manifest \cup {None}, NEW q,
           \/ q = [req[r] EXCEPT !.pc = p] /\ m = req[r].m
           \/ q = [req[r] EXCEPT !.pc = p, !.m = m],
           req' = [req EXCEPT ![r] = q]
    PROVE  Moved(r, p, m)
<1>1. req[r] \in RequestState
  BY RequestFields
<1>2. /\ q \in RequestState
      /\ q.pc = p /\ q.m = m /\ q.repo = req[r].repo /\ q.tag = req[r].tag
      /\ q.type = req[r].type
  BY <1>1 DEF RequestState, Pc
<1>3. /\ IsTable(req', Request, RequestState)
      /\ DOMAIN req' = DOMAIN req /\ req'[r] = q
      /\ \A s \in DOMAIN req : s # r => req'[s] = req[s]
  BY <1>2, MoveEffect
<1> QED BY <1>2, <1>3 DEF Moved

LEMMA GotoMoved ==
    ASSUME TypeOK, NEW r \in DOMAIN req, NEW p \in Pc, Goto(r, p)
    PROVE  Moved(r, p, req[r].m)
<1>1. PICK q : q = [req[r] EXCEPT !.pc = p] /\ req' = [req EXCEPT ![r] = q]
  BY DEF Goto
<1>2. PICK m \in Manifest \cup {None} : m = req[r].m
  BY RequestFields
<1>3. Moved(r, p, m)
  BY <1>1, <1>2, MovedTo
<1> QED BY <1>2, <1>3

\* What is left of the requests when some end.
LEMMA FewerRequests ==
    ASSUME TypeOK, Grows, \A r \in DOMAIN req : Knows(r),
           req' = Empty \/ \E r \in Request : End(r)
    PROVE  IsTable(req', Request, RequestState) /\ \A r \in DOMAIN req' : Knows(r)'
<1>1. CASE req' = Empty
  BY <1>1 DEF Empty, IsTable
<1>2. ASSUME NEW r \in Request, End(r)
      PROVE  /\ IsTable(req', Request, RequestState)
             /\ \A s \in DOMAIN req' : Knows(s)'
  <2>1. IsTable(req', Request, RequestState)
    BY <1>2, WithoutTable DEF TypeOK, End
  <2>2. \A s \in DOMAIN req' : s \in DOMAIN req /\ req'[s] = req[s]
    BY <1>2 DEF End, Without
  <2> QED BY <2>1, <2>2, KnowsKept
<1> QED BY <1>1, <1>2

\* A request that has begun knows nothing but its manifest and what to look up.
LEMMA BeginKnows ==
    ASSUME TypeOK, Grows, \A s \in DOMAIN req : Knows(s),
           NEW r \in Request, NEW pc \in {"check", "resolve", "row"},
           NEW p \in Repo, NEW t \in Tag \cup {None},
           NEW m \in Manifest \cup {None}, NEW type \in Type,
           NEW todo \in Seq(Blob \cup Manifest),
           Begin(r, pc, p, t, m, type, todo),
           pc = "check" => m \in Manifest /\ (type = Kind[m] => todo = Refs[m]),
           pc = "row" => t = None
    PROVE  IsTable(req', Request, RequestState) /\ \A s \in DOMAIN req' : Knows(s)'
<1> DEFINE q == [pc |-> pc, repo |-> p, tag |-> t, m |-> m, type |-> type,
                 todo |-> todo]
<1>1. q \in RequestState
  BY DEF RequestState
<1>2. /\ req' = With(req, r, q) /\ r \notin DOMAIN req
      /\ IsTable(req, Request, RequestState)
  BY DEF Begin, TypeOK
<1>3. /\ q.pc = pc /\ q.repo = p /\ q.tag = t /\ q.m = m /\ q.type = type
      /\ q.todo = todo
  OBVIOUS
<1> HIDE DEF q
<1>4. IsTable(req', Request, RequestState)
  BY <1>1, <1>2, WithTable
<1>5. /\ DOMAIN req' = DOMAIN req \cup {r} /\ req'[r] = q
      /\ \A s \in DOMAIN req : req'[s] = req[s]
  BY <1>2 DEF With
<1>6. Knows(r)'
  BY <1>3, <1>5 DEF Knows
<1> QED BY <1>4, <1>5, <1>6, KnowsKept

-----------------------------------------------------------------------------
(* The requests after a step *)

LEMMA ArriveKnows ==
    ASSUME ManifestsInv, Grows, NEW r \in Request, Arrive(r)
    PROVE  IsTable(req', Request, RequestState) /\ \A s \in DOMAIN req' : Knows(s)'
<1> USE DEF ManifestsInv
<1>1. <<>> \in Seq(Blob \cup Manifest)
  OBVIOUS
<1>2. PICK p \in Repo :
        \/ \E t \in Tag \cup {None}, m \in Manifest, type \in Type :
              PutManifest(r, p, t, m, type)
        \/ \E t \in Tag : GetByTag(r, p, t)
        \/ \E m \in Manifest : GetByDigest(r, p, m)
  BY DEF Arrive
<1>3. ASSUME NEW t \in Tag \cup {None}, NEW m \in Manifest, NEW type \in Type,
             PutManifest(r, p, t, m, type)
      PROVE  IsTable(req', Request, RequestState) /\ \A s \in DOMAIN req' : Knows(s)'
  <2> DEFINE todo == IF type = "other" THEN <<>> ELSE Refs[m]
  <2>1. Begin(r, "check", p, t, m, type, todo)
    BY <1>3 DEF PutManifest
  <2>2. Kind[m] # "other"
    BY KindAssumption
  <2>3. todo \in Seq(Blob \cup Manifest) /\ (type = Kind[m] => todo = Refs[m])
    BY <1>1, <2>2, RefsAssumption
  <2> HIDE DEF todo
  <2> QED BY <2>1, <2>3, BeginKnows
<1>4. ASSUME NEW t \in Tag, GetByTag(r, p, t)
      PROVE  IsTable(req', Request, RequestState) /\ \A s \in DOMAIN req' : Knows(s)'
  BY <1>1, <1>4, BeginKnows DEF GetByTag, Type
<1>5. ASSUME NEW m \in Manifest, GetByDigest(r, p, m)
      PROVE  IsTable(req', Request, RequestState) /\ \A s \in DOMAIN req' : Knows(s)'
  BY <1>1, <1>5, BeginKnows DEF GetByDigest, Type
<1> QED BY <1>2, <1>3, <1>4, <1>5

\* What is left of a sequence without its head.
LEMMA TailHas ==
    ASSUME NEW S, NEW s \in Seq(S), s # <<>>
    PROVE  /\ Tail(s) \in Seq(S)
           /\ \A k \in DOMAIN s :
                s[k] = Head(s) \/ \E l \in DOMAIN Tail(s) : Tail(s)[l] = s[k]
<1>1. Tail(s) \in Seq(S) /\ Len(Tail(s)) = Len(s) - 1 /\ Head(s) = s[1]
  OBVIOUS
<1>2. \A l \in 1..Len(s) - 1 : Tail(s)[l] = s[l + 1]
  OBVIOUS
<1>3. ASSUME NEW k \in DOMAIN s, k # 1
      PROVE  \E l \in DOMAIN Tail(s) : Tail(s)[l] = s[k]
  <2>1. k - 1 \in 1..Len(s) - 1 /\ k - 1 \in DOMAIN Tail(s) /\ (k - 1) + 1 = k
    BY <1>1, <1>3
  <2>2. Tail(s)[k - 1] = s[k]
    BY <1>2, <2>1
  <2> QED BY <2>1, <2>2
<1> QED BY <1>1, <1>3

LEMMA CheckReferenceKnows ==
    ASSUME ManifestsInv, Grows, NEW r \in Request, CheckReference(r)
    PROVE  IsTable(req', Request, RequestState) /\ \A s \in DOMAIN req' : Knows(s)'
<1> USE DEF ManifestsInv
<1>0. PICK q, x : q = req[r] /\ x = Head(q.todo)
  OBVIOUS
<1>1. r \in DOMAIN req /\ q.pc = "check" /\ q.todo # <<>> /\ Knows(r)
  BY <1>0 DEF CheckReference, At
<1>2. CASE End(r)
  BY <1>2, FewerRequests
<1>3. CASE Present(q.type, q.repo, x) /\ req' = [req EXCEPT ![r].todo = Tail(@)]
  <2>1. /\ q.todo \in Seq(Blob \cup Manifest)
        /\ q.m \in Manifest /\ "check" \in Pc
    BY <1>0, <1>1, RequestFields DEF Knows, Pc
  <2>2. /\ Tail(q.todo) \in Seq(Blob \cup Manifest)
        /\ \A k \in DOMAIN q.todo :
             q.todo[k] = x \/ \E l \in DOMAIN Tail(q.todo) : Tail(q.todo)[l] = q.todo[k]
    BY <1>0, <1>1, <2>1, TailHas
  <2>3. PICK n : n = [q EXCEPT !.todo = Tail(q.todo)]
    OBVIOUS
  <2>4. q \in RequestState
    BY <1>0, <1>1, RequestFields
  <2>5. /\ n \in RequestState
        /\ n.pc = "check" /\ n.m = q.m /\ n.todo = Tail(q.todo)
        /\ n.repo = q.repo /\ n.tag = q.tag /\ n.type = q.type
    BY <1>1, <2>2, <2>3, <2>4 DEF RequestState
  <2>6. req' = [req EXCEPT ![r] = n]
    BY <1>0, <1>3, <2>3
  <2>7. /\ IsTable(req', Request, RequestState)
        /\ DOMAIN req' = DOMAIN req /\ req'[r] = n
        /\ \A s \in DOMAIN req : s # r => req'[s] = req[s]
    BY <1>1, <2>5, <2>6, MoveEffect
  <2>8. ASSUME q.type = Kind[q.m], NEW i \in DOMAIN Refs[q.m]
        PROVE  \/ \E l \in DOMAIN Tail(q.todo) : Tail(q.todo)[l] = Refs[q.m][i]
               \/ Had(q.repo, q.m, i)'
    <3>1. CASE Had(q.repo, q.m, i)
      BY <3>1, HadKept
    <3>2. ASSUME NEW k \in DOMAIN q.todo, q.todo[k] = Refs[q.m][i], q.todo[k] = x
          PROVE  Had(q.repo, q.m, i)'
      <4>1. Had(q.repo, q.m, i)
        BY <1>3, <2>8, <3>2 DEF Had
      <4> QED BY <4>1, HadKept
    <3>3. \/ \E k \in DOMAIN q.todo : q.todo[k] = Refs[q.m][i]
          \/ Had(q.repo, q.m, i)
      BY <1>0, <1>1, <2>8 DEF Knows
    <3> QED BY <2>2, <3>1, <3>2, <3>3
  <2>9. Knows(r)'
    BY <2>1, <2>5, <2>7, <2>8 DEF Knows
  <2> QED BY <2>7, <2>9, KnowsKept
<1> QED BY <1>0, <1>2, <1>3 DEF CheckReference

\* A request moves on to a step that asks for what it found out.
LEMMA MovedKnows ==
    ASSUME ManifestsInv, Grows, NEW r \in DOMAIN req,
           NEW p \in {"write", "commit", "row", "bytes", "count"},
           NEW m \in Manifest \cup {None}, Moved(r, p, m),
           p \in {"write", "commit"} => m = req[r].m,
           p = "write" => req[r].pc = "check" /\ req[r].todo = <<>>,
           p = "commit" => req[r].pc = "write" /\ m \in stored',
           p = "row" => HasRow(req[r].repo, m),
           p = "bytes" => m \in stored
    PROVE  \A s \in DOMAIN req' : Knows(s)'
<1>1. PICK pp : pp = req[r].repo
  OBVIOUS
<1>2. Knows(r)
  BY DEF ManifestsInv
<1>3. ASSUME p \in {"write", "commit"}, req[r].type = Kind[m],
             NEW i \in DOMAIN Refs[m]
      PROVE  Had(pp, m, i)'
  <2>1. Had(pp, m, i)
    BY <1>1, <1>2, <1>3 DEF Knows
  <2> QED BY <2>1, HadKept
<1>4. p \in {"write", "commit"} => m \in Manifest
  BY <1>2 DEF Knows
<1>5. /\ p = "row" => HasRow(pp, m)' \/ <<pp, m>> \in removed'
      /\ p \in {"commit", "bytes"} => m \in stored'
  BY <1>1 DEF HasRow, Grows
<1>6. Knows(r)'
  BY <1>1, <1>3, <1>4, <1>5 DEF Knows, Moved
<1>7. /\ DOMAIN req' = DOMAIN req
      /\ \A s \in DOMAIN req : s # r => req'[s] = req[s] /\ Knows(s)
  BY DEF Moved, ManifestsInv
<1> QED BY <1>6, <1>7, KnowsKept

LEMMA HandleKnows ==
    ASSUME ManifestsInv, Grows, NEW r \in Request, Handle(r)
    PROVE  IsTable(req', Request, RequestState) /\ \A s \in DOMAIN req' : Knows(s)'
<1> DEFINE Goal == /\ IsTable(req', Request, RequestState)
                   /\ \A s \in DOMAIN req' : Knows(s)'
<1>1. CASE End(r)
  BY <1>1, FewerRequests DEF ManifestsInv
<1>2. ASSUME r \in DOMAIN req, NEW p \in {"write", "commit", "bytes", "count"},
             Goto(r, p),
             p = "write" => req[r].pc = "check" /\ req[r].todo = <<>>,
             p = "commit" => req[r].pc = "write" /\ req[r].m \in stored',
             p = "bytes" => req[r].m \in stored
      PROVE  Goal
  <2>1. p \in Pc /\ TypeOK
    BY DEF Pc, ManifestsInv
  <2>2. req[r].m \in Manifest \cup {None}
    BY <1>2, <2>1, RequestFields
  <2>3. Moved(r, p, req[r].m)
    BY <1>2, <2>1, GotoMoved
  <2>4. PICK m \in Manifest \cup {None} : m = req[r].m
    BY <2>2
  <2>5. \A s \in DOMAIN req' : Knows(s)'
    BY <1>2, <2>3, <2>4, MovedKnows
  <2> QED BY <2>3, <2>5 DEF Moved
<1>3. CASE References(r)
  BY <1>2, <1>3 DEF References, At
<1>4. CASE WriteManifest(r)
  BY <1>2, <1>4 DEF WriteManifest, At
<1>5. CASE ResolveTag(r) /\ ~End(r)
  <2>1. r \in DOMAIN req /\ TypeOK /\ "row" \in Pc
    BY <1>5 DEF ResolveTag, At, ManifestsInv, Pc
  <2>2. PICK k \in DOMAIN tags : /\ k = <<req[r].repo, req[r].tag>>
                                 /\ req' = [req EXCEPT ![r].pc = "row",
                                                       ![r].m = tags[k].digest]
    BY <1>5 DEF ResolveTag
  <2>3. PICK m \in Manifest : m = tags[k].digest
    BY <2>1 DEF TypeOK, IsTable, TagRow
  <2>4. HasRow(req[r].repo, m)
    BY <2>2, <2>3 DEF ManifestsInv, DbInv, TagsResolve
  <2>5. PICK q : /\ q = [req[r] EXCEPT !.pc = "row", !.m = m]
                 /\ req' = [req EXCEPT ![r] = q]
    BY <2>2, <2>3
  <2>6. Moved(r, "row", m)
    BY <2>1, <2>5, MovedTo
  <2>7. \A s \in DOMAIN req' : Knows(s)'
    BY <2>1, <2>4, <2>6, MovedKnows
  <2> QED BY <2>6, <2>7 DEF Moved
<1>6. CASE FindRow(r) /\ ~End(r)
  <2>1. r \in DOMAIN req /\ Goto(r, "bytes") /\ HasRow(req[r].repo, req[r].m)
    BY <1>6 DEF FindRow, At
  <2>2. req[r].m \in stored
    BY <2>1 DEF HasRow, ManifestsInv, DbInv, RowsStored
  <2> QED BY <1>2, <2>1, <2>2
<1>7. CASE ReadBytes(r) /\ ~End(r)
  BY <1>2, <1>7 DEF ReadBytes, At
<1> QED BY <1>1, <1>3, <1>4, <1>5, <1>6, <1>7, CheckReferenceKnows
        DEF Handle, CommitManifest, CountPull

LEMMA KnowsStep ==
    ASSUME ManifestsInv, Next
    PROVE  IsTable(req', Request, RequestState) /\ \A r \in DOMAIN req' : Knows(r)'
<1>1. Grows
  BY StepGrows
<1>2. ASSUME NEW r \in Request, DropRequest(r)
      PROVE  IsTable(req', Request, RequestState) /\ \A s \in DOMAIN req' : Knows(s)'
  BY <1>1, <1>2, FewerRequests DEF DropRequest, ManifestsInv
<1>3. CASE Crash
  BY <1>1, <1>3, FewerRequests DEF Crash, ManifestsInv
<1>4. CASE req' = req
  BY <1>1, <1>4, KnowsKept DEF ManifestsInv, TypeOK
<1> QED BY <1>1, <1>2, <1>3, <1>4, ArriveKnows, HandleKnows
        DEF Next, DeleteManifest, LinkBlob, UnlinkBlob

-----------------------------------------------------------------------------
(* The tables after a step *)

\* The types of everything but the requests.
TablesOK ==
    /\ stored \in SUBSET Manifest
    /\ IsTable(rows, Repo \X Manifest, Type)
    /\ IsTable(tags, Repo \X Tag, TagRow)
    /\ referrers \in SUBSET (Repo \X Manifest \X Manifest)
    /\ links \in SUBSET (Repo \X Blob)
    /\ removed \in SUBSET (Repo \X (Blob \cup Manifest))

\* The rows that stay keep what they refer to.
LEMMA ReferencesKept ==
    ASSUME Grows, ReferencesPresent,
           NEW k \in DOMAIN rows, k \in DOMAIN rows', rows'[k] = rows[k],
           rows[k] = Kind[k[2]], NEW i \in DOMAIN Refs[k[2]]
    PROVE  \/ Present(rows[k], k[1], Refs[k[2]][i])'
           \/ <<k[1], Refs[k[2]][i]>> \in removed'
BY DEF Grows, ReferencesPresent, Present, HasRow

LEMMA CommitTables ==
    ASSUME ManifestsInv, Grows, NEW r \in Request, CommitManifest(r)
    PROVE  TablesOK' /\ DbInv'
<1> USE DEF ManifestsInv
<1>1. PICK p, m, t, type : /\ p = req[r].repo /\ m = req[r].m
                           /\ t = req[r].tag /\ type = req[r].type
  OBVIOUS
<1>2. r \in DOMAIN req /\ req[r].pc = "commit" /\ Knows(r)
  BY DEF CommitManifest, At
<1>3. /\ p \in Repo /\ m \in Manifest /\ t \in Tag \cup {None} /\ type \in Type
      /\ m \in stored
      /\ type = Kind[m] => \A i \in DOMAIN Refs[m] : Had(p, m, i)
  BY <1>1, <1>2, RequestFields DEF Knows
<1>4. /\ rows' = With(rows, <<p, m>>, type)
      /\ tags' = IF t = None THEN tags
                 ELSE With(tags, <<p, t>>, [digest |-> m, pulls |-> PullsOf(<<p, t>>)])
      /\ referrers' = referrers \cup {<<p, s, m>> : s \in {Subject[m]} \ {None}}
      /\ UNCHANGED <<stored, links, removed>>
  BY <1>1 DEF CommitManifest
<1>5. /\ DOMAIN rows' = DOMAIN rows \cup {<<p, m>>}
      /\ rows'[<<p, m>>] = type
      /\ \A k \in DOMAIN rows : k # <<p, m>> => rows'[k] = rows[k]
  BY <1>4 DEF With
<1>6. IsTable(tags', Repo \X Tag, TagRow)
  <2>1. IsTable(tags, Repo \X Tag, TagRow)
    BY DEF TypeOK
  <2>2. CASE t = None
    BY <1>4, <2>1, <2>2
  <2>3. CASE t # None
    <3>1. PICK k, n : k = <<p, t>> /\ n = PullsOf(k)
      OBVIOUS
    <3>2. n \in Nat
      <4>1. CASE k \in DOMAIN tags
        <5>1. tags[k] \in TagRow
          BY <2>1, <4>1 DEF IsTable
        <5> QED BY <3>1, <4>1, <5>1 DEF PullsOf, TagRow
      <4>2. CASE k \notin DOMAIN tags
        BY <3>1, <4>2 DEF PullsOf
      <4> QED BY <4>1, <4>2
    <3>3. PICK row \in TagRow : row = [digest |-> m, pulls |-> n]
      BY <1>3, <3>2 DEF TagRow
    <3>4. k \in Repo \X Tag /\ tags' = With(tags, k, row)
      BY <1>3, <1>4, <2>3, <3>1, <3>3
    <3>5. PICK K : K = Repo \X Tag
      OBVIOUS
    <3>6. IsTable(tags, K, TagRow) /\ k \in K
      BY <2>1, <3>4, <3>5
    <3>7. IsTable(tags', K, TagRow)
      BY <3>4, <3>6, WithTable
    <3> QED BY <3>5, <3>7
  <2> QED BY <2>2, <2>3
<1>7. TablesOK'
  <2>1. IsTable(rows', Repo \X Manifest, Type)
    <3>1. PICK k \in Repo \X Manifest : k = <<p, m>>
      BY <1>3
    <3>2. IsTable(rows, Repo \X Manifest, Type) /\ rows' = With(rows, k, type)
      BY <1>4, <3>1 DEF TypeOK
    <3> QED BY <1>3, <3>2, WithTable
  <2>2. Subject[m] \in Manifest \cup {None}
    BY <1>3, SubjectAssumption
  <2>3. referrers' \in SUBSET (Repo \X Manifest \X Manifest)
    BY <1>3, <1>4, <2>2 DEF TypeOK
  <2> QED BY <1>4, <1>6, <2>1, <2>3 DEF TypeOK, TablesOK
<1>8. TagsResolve'
  <2>1. ASSUME NEW k \in DOMAIN tags'
        PROVE  \/ k \in DOMAIN tags /\ tags'[k] = tags[k]
               \/ k[1] = p /\ tags'[k].digest = m
    BY <1>4 DEF With
  <2>2. \A k \in DOMAIN tags : <<k[1], tags[k].digest>> \in DOMAIN rows
    BY DEF DbInv, TagsResolve, HasRow
  <2> QED BY <1>5, <2>1, <2>2 DEF TagsResolve, HasRow
<1>9. RowsStored'
  <2>1. \A k \in DOMAIN rows : k[2] \in stored
    BY DEF DbInv, RowsStored
  <2> QED BY <1>3, <1>4, <1>5, <2>1 DEF RowsStored
<1>10. ReferrersExact'
  <2>1. referrers = {<<k[1], Subject[k[2]], k[2]>> :
                        k \in {k \in DOMAIN rows : Subject[k[2]] # None}}
    BY DEF DbInv, ReferrersExact
  <2>2. referrers' = {<<k[1], Subject[k[2]], k[2]>> :
                        k \in {k \in DOMAIN rows \cup {<<p, m>>} : Subject[k[2]] # None}}
    BY <1>4, <2>1
  <2> QED BY <1>5, <2>2 DEF ReferrersExact
<1>11. ReferencesPresent'
  <2>1. ASSUME NEW k \in DOMAIN rows, k # <<p, m>>, rows[k] = Kind[k[2]],
               NEW i \in DOMAIN Refs[k[2]]
        PROVE  \/ Present(rows[k], k[1], Refs[k[2]][i])'
               \/ <<k[1], Refs[k[2]][i]>> \in removed'
    BY <1>5, <2>1, ReferencesKept DEF DbInv
  <2>2. ASSUME type = Kind[m], NEW i \in DOMAIN Refs[m]
        PROVE  Present(type, p, Refs[m][i])' \/ <<p, Refs[m][i]>> \in removed'
    <3>1. Had(p, m, i)'
      BY <1>3, <2>2, HadKept
    <3> QED BY <2>2, <3>1 DEF Had
  <2>3. ASSUME NEW k \in DOMAIN rows', rows'[k] = Kind[k[2]],
               NEW i \in DOMAIN Refs[k[2]]
        PROVE  \/ Present(rows[k], k[1], Refs[k[2]][i])'
               \/ <<k[1], Refs[k[2]][i]>> \in removed'
    <3>1. CASE k = <<p, m>>
      <4>1. k[1] = p /\ k[2] = m /\ rows'[k] = type
        BY <1>5, <3>1
      <4> QED BY <2>2, <2>3, <4>1 DEF Present, HasRow
    <3>2. CASE k # <<p, m>>
      <4>1. k \in DOMAIN rows /\ rows'[k] = rows[k]
        BY <1>5, <3>2
      <4> QED BY <2>1, <2>3, <3>2, <4>1 DEF Present, HasRow
    <3> QED BY <3>1, <3>2
  <2> QED BY <2>3 DEF ReferencesPresent
<1> QED BY <1>7, <1>8, <1>9, <1>10, <1>11 DEF DbInv

LEMMA DeleteTables ==
    ASSUME ManifestsInv, Grows, NEW p \in Repo, NEW m \in Manifest,
           DeleteManifest(p, m)
    PROVE  TablesOK' /\ DbInv'
<1> USE DEF ManifestsInv
<1>1. /\ rows' = Without(rows, <<p, m>>)
      /\ tags' = [k \in DOMAIN tags \ TagsOn(p, m) |-> tags[k]]
      /\ referrers' = {x \in referrers : ~(x[1] = p /\ x[3] = m)}
      /\ removed' = removed \cup {<<p, m>>}
      /\ UNCHANGED <<stored, links>>
  BY DEF DeleteManifest
<1>2. /\ DOMAIN rows' = DOMAIN rows \ {<<p, m>>}
      /\ \A k \in DOMAIN rows' : rows'[k] = rows[k]
      /\ DOMAIN rows \subseteq Repo \X Manifest
  BY <1>1 DEF Without, TypeOK, IsTable
<1>3. /\ DOMAIN tags' = DOMAIN tags \ TagsOn(p, m)
      /\ \A k \in DOMAIN tags' : tags'[k] = tags[k]
  BY <1>1
<1>4. TablesOK'
  <2>1. IsTable(rows', Repo \X Manifest, Type)
    BY <1>1, WithoutTable DEF TypeOK
  <2>2. IsTable(tags', Repo \X Tag, TagRow)
    BY <1>1, <1>3 DEF TypeOK, IsTable
  <2> QED BY <1>1, <2>1, <2>2 DEF TypeOK, TablesOK
<1>5. TagsResolve'
  <2>1. ASSUME NEW k \in DOMAIN tags'
        PROVE  <<k[1], tags[k].digest>> \in DOMAIN rows \ {<<p, m>>}
    <3>1. <<k[1], tags[k].digest>> \in DOMAIN rows
      BY <1>3, <2>1 DEF DbInv, TagsResolve, HasRow
    <3>2. ~(k[1] = p /\ tags[k].digest = m)
      BY <1>3, <2>1 DEF TagsOn
    <3> QED BY <3>1, <3>2
  <2> QED BY <1>2, <1>3, <2>1 DEF TagsResolve, HasRow
<1>6. RowsStored'
  BY <1>1, <1>2 DEF DbInv, RowsStored
<1>7. ReferrersExact'
  <2>1. referrers = {<<k[1], Subject[k[2]], k[2]>> :
                        k \in {k \in DOMAIN rows : Subject[k[2]] # None}}
    BY DEF DbInv, ReferrersExact
  <2>2. \A k \in DOMAIN rows : k = <<k[1], k[2]>>
    BY <1>2
  <2>3. \A k \in DOMAIN rows : k # <<p, m>> <=> ~(k[1] = p /\ k[2] = m)
    BY <2>2
  <2>4. referrers' = {<<k[1], Subject[k[2]], k[2]>> :
                         k \in {k \in DOMAIN rows \ {<<p, m>>} : Subject[k[2]] # None}}
    BY <1>1, <2>1, <2>3
  <2> QED BY <1>2, <2>4 DEF ReferrersExact
<1>8. ReferencesPresent'
  <2>1. ASSUME NEW k \in DOMAIN rows', rows'[k] = Kind[k[2]],
               NEW i \in DOMAIN Refs[k[2]]
        PROVE  \/ Present(rows[k], k[1], Refs[k[2]][i])'
               \/ <<k[1], Refs[k[2]][i]>> \in removed'
    <3>1. k \in DOMAIN rows /\ rows'[k] = rows[k]
      BY <1>2, <2>1
    <3>2. ReferencesPresent /\ rows[k] = Kind[k[2]]
      BY <2>1, <3>1 DEF DbInv
    <3> QED BY <2>1, <3>1, <3>2, ReferencesKept
  <2> QED BY <2>1 DEF ReferencesPresent
<1> QED BY <1>4, <1>5, <1>6, <1>7, <1>8 DEF DbInv

\* The steps that leave the rows of manifests and of referrers alone, and
\* every tag where it points.
LEMMA OtherTables ==
    ASSUME ManifestsInv, Grows, UNCHANGED <<rows, referrers>>,
           stored' \in SUBSET Manifest, links' \in SUBSET (Repo \X Blob),
           removed' \in SUBSET (Repo \X (Blob \cup Manifest)),
           IsTable(tags', Repo \X Tag, TagRow), DOMAIN tags' = DOMAIN tags,
           \A k \in DOMAIN tags : tags'[k].digest = tags[k].digest
    PROVE  TablesOK' /\ DbInv'
<1> USE DEF ManifestsInv
<1>1. TablesOK'
  BY DEF TypeOK, TablesOK
<1>2. TagsResolve' /\ RowsStored' /\ ReferrersExact'
  BY DEF DbInv, TagsResolve, RowsStored, ReferrersExact, HasRow, Grows
<1>3. ReferencesPresent'
  BY ReferencesKept DEF DbInv, ReferencesPresent
<1> QED BY <1>1, <1>2, <1>3 DEF DbInv

\* A pull adds one to the count of each tag on the digest served.
LEMMA CountTags ==
    ASSUME TypeOK, NEW r \in Request, CountPull(r)
    PROVE  /\ IsTable(tags', Repo \X Tag, TagRow) /\ DOMAIN tags' = DOMAIN tags
           /\ \A k \in DOMAIN tags : /\ tags'[k].digest = tags[k].digest
                                     /\ tags'[k].pulls >= tags[k].pulls
<1>1. PICK on : tags' = [k \in DOMAIN tags |->
                   IF k \in on THEN [tags[k] EXCEPT !.pulls = @ + 1] ELSE tags[k]]
  BY DEF CountPull
<1>2. ASSUME NEW k \in DOMAIN tags
      PROVE  /\ tags'[k] \in TagRow /\ tags'[k].digest = tags[k].digest
             /\ tags'[k].pulls >= tags[k].pulls
  <2>1. tags[k] \in TagRow
    BY DEF TypeOK, IsTable
  <2>2. \/ tags'[k] = tags[k]
        \/ tags'[k] = [tags[k] EXCEPT !.pulls = @ + 1]
    BY <1>1
  <2> QED BY <2>1, <2>2 DEF TagRow
<1> QED BY <1>1, <1>2 DEF TypeOK, IsTable

LEMMA TablesStep ==
    ASSUME ManifestsInv, Next
    PROVE  TablesOK' /\ DbInv'
<1>1. Grows /\ TypeOK
  BY StepGrows DEF ManifestsInv
<1>2. ASSUME NEW r \in Request, CountPull(r) PROVE TablesOK' /\ DbInv'
  BY <1>1, <1>2, CountTags, OtherTables DEF CountPull, TypeOK
<1>3. ASSUME NEW r \in Request, WriteManifest(r) PROVE TablesOK' /\ DbInv'
  <2>1. r \in DOMAIN req /\ Knows(r) /\ req[r].pc = "write"
    BY <1>3 DEF WriteManifest, At, ManifestsInv
  <2>2. req[r].m \in Manifest
    BY <2>1 DEF Knows
  <2> QED BY <1>1, <1>3, <2>2, OtherTables DEF WriteManifest, db, TypeOK
<1>4. ASSUME NEW p \in Repo, NEW b \in Blob, LinkBlob(p, b) \/ UnlinkBlob(p, b)
      PROVE  TablesOK' /\ DbInv'
  BY <1>1, <1>4, OtherTables DEF LinkBlob, UnlinkBlob, db, TypeOK
<1>5. CASE UNCHANGED <<stored, db, links, removed>>
  BY <1>1, <1>5, OtherTables DEF db, TypeOK
<1>6. ASSUME NEW r \in Request,
             \/ Arrive(r) \/ CheckReference(r) \/ References(r) \/ ResolveTag(r)
             \/ FindRow(r) \/ ReadBytes(r) \/ DropRequest(r)
      PROVE  UNCHANGED <<stored, db, links, removed>>
  BY <1>6 DEF Arrive, PutManifest, GetByTag, GetByDigest, CheckReference,
              References, ResolveTag, FindRow, ReadBytes, DropRequest
<1> QED BY <1>1, <1>2, <1>3, <1>4, <1>5, <1>6, CommitTables, DeleteTables
        DEF Next, Handle, Crash

-----------------------------------------------------------------------------
LEMMA ManifestsInit == Init => ManifestsInv
BY DEF Init, Empty, ManifestsInv, TypeOK, IsTable, DbInv, TagsResolve,
       RowsStored, ReferrersExact, ReferencesPresent

LEMMA ManifestsStep == ManifestsInv /\ [Next]_vars => ManifestsInv'
<1>1. ASSUME ManifestsInv, Next PROVE ManifestsInv'
  BY <1>1, KnowsStep, TablesStep DEF ManifestsInv, TypeOK, TablesOK
<1>2. ASSUME ManifestsInv, UNCHANGED vars PROVE ManifestsInv'
  <2>1. Grows /\ UNCHANGED <<stored, rows, tags, referrers, links, req, removed>>
    BY <1>2 DEF vars, db, Grows
  <2>2. \A r \in DOMAIN req' : Knows(r)'
    BY <1>2, <2>1, KnowsKept DEF ManifestsInv
  <2>3. TablesOK' /\ DbInv'
    BY <1>2, <2>1, OtherTables DEF ManifestsInv, TypeOK
  <2>4. IsTable(req', Request, RequestState)
    BY <1>2, <2>1 DEF ManifestsInv, TypeOK
  <2> QED BY <2>2, <2>3, <2>4 DEF ManifestsInv, TypeOK, TablesOK
<1> QED BY <1>1, <1>2

LEMMA ManifestsInvariant == Spec => []ManifestsInv
BY ManifestsInit, ManifestsStep, PTL DEF Spec

\* Every variable has its type.
THEOREM TypeCorrect == Spec => []TypeOK
<1>1. ManifestsInv => TypeOK
  BY DEF ManifestsInv
<1> QED BY <1>1, ManifestsInvariant, PTL

\* A tag always leads to a row of its repository: no order of pushes, moves of
\* the tag and deletes of a manifest leaves it dangling.
THEOREM TagsResolveCorrect == Spec => []TagsResolve
<1>1. DbInv => TagsResolve
  BY DEF DbInv
<1> QED BY <1>1, ManifestsInvSuffices, ManifestsInvariant, PTL

\* No row without its bytes, whatever request is dropped or cut by a crash
\* between the file and the transaction.
THEOREM RowsStoredCorrect == Spec => []RowsStored
<1>1. DbInv => RowsStored
  BY DEF DbInv
<1> QED BY <1>1, ManifestsInvSuffices, ManifestsInvariant, PTL

\* The rows of referrers are a function of those of manifests.
THEOREM ReferrersExactCorrect == Spec => []ReferrersExact
<1>1. DbInv => ReferrersExact
  BY DEF DbInv
<1> QED BY <1>1, ManifestsInvSuffices, ManifestsInvariant, PTL

\* What an image or an index refers to is in its repository, or was deleted
\* from it, although the references are checked in statements of their own
\* before the transaction.
THEOREM ReferencesPresentCorrect == Spec => []ReferencesPresent
<1>1. DbInv => ReferencesPresent
  BY DEF DbInv
<1> QED BY <1>1, ManifestsInvSuffices, ManifestsInvariant, PTL

\* A GET that resolved a tag finds row and bytes unless the manifest was deleted.
THEOREM ResolvedIsServedCorrect == Spec => []ResolvedIsServed
BY ManifestsInvSuffices, ManifestsInvariant, PTL

\* Neither a push over a tag nor a pull lowers a pull count.
THEOREM PullsKeptCorrect == Spec => PullsKept
<1> DEFINE Kept == \A k \in DOMAIN tags \cap DOMAIN tags' :
                      tags'[k].pulls >= tags[k].pulls
<1>1. ManifestsInv /\ [Next]_vars => [Kept]_vars
  <2> SUFFICES ASSUME ManifestsInv, Next PROVE Kept
    OBVIOUS
  <2>1. TypeOK /\ \A k \in DOMAIN tags : tags[k].pulls \in Nat
    BY DEF ManifestsInv, TypeOK, IsTable, TagRow
  <2>2. ASSUME NEW r \in Request, CommitManifest(r) PROVE Kept
    <3>1. PICK k, n : /\ k = <<req[r].repo, req[r].tag>> /\ n = PullsOf(k)
                      /\ tags' = tags \/ tags' = With(tags, k, [digest |-> req[r].m, pulls |-> n])
      BY <2>2 DEF CommitManifest
    <3>2. k \in DOMAIN tags => n = tags[k].pulls
      BY <3>1 DEF PullsOf
    <3> QED BY <2>1, <3>1, <3>2 DEF With
  <2>3. ASSUME NEW r \in Request, CountPull(r) PROVE Kept
    BY <2>1, <2>3, CountTags
  <2>4. ASSUME NEW p \in Repo, NEW m \in Manifest, DeleteManifest(p, m) PROVE Kept
    BY <2>1, <2>4 DEF DeleteManifest
  <2>5. CASE UNCHANGED tags
    BY <2>1, <2>5
  <2>6. ASSUME NEW r \in Request,
               \/ Arrive(r) \/ CheckReference(r) \/ References(r) \/ WriteManifest(r)
               \/ ResolveTag(r) \/ FindRow(r) \/ ReadBytes(r) \/ DropRequest(r)
        PROVE  UNCHANGED tags
    BY <2>6 DEF Arrive, PutManifest, GetByTag, GetByDigest, CheckReference,
                References, WriteManifest, ResolveTag, FindRow, ReadBytes,
                DropRequest, db
  <2> QED BY <2>2, <2>3, <2>4, <2>5, <2>6
          DEF Next, Handle, LinkBlob, UnlinkBlob, Crash, db
<1> QED BY <1>1, ManifestsInvariant, PTL DEF Spec, PullsKept
=============================================================================
