------------------------- MODULE Repositories_proofs -------------------------
(***************************************************************************)
(* Proofs about Repositories: however handlers race for the creation of a  *)
(* repository, a name has one row and every handler works in its own; and  *)
(* whatever comes and goes while a client follows links, the pages show    *)
(* every name that stays, none of them twice.                              *)
(*                                                                         *)
(* The first part rests on one more fact, that no id is beyond lastId.     *)
(* The second is an invariant about where a listing stands: what stays and *)
(* is not beyond the last page has been shown.                             *)
(***************************************************************************)
EXTENDS Repositories, Tables_proofs, FiniteSetTheorems

-----------------------------------------------------------------------------
(* The invariant *)

TablesOK ==
    /\ repos \in SUBSET Row
    /\ lastId \in 0..MaxId
    /\ tags \in SUBSET ((1..lastId) \X Tag)
    /\ IsTable(req, Request, RequestState)

RowOf(q) == [id |-> q.id, tenant |-> q.tenant, name |-> q.name]

\* What a handler relies on.
Sound(q) ==
    /\ q.pc = "use" => RowOf(q) \in repos
    /\ q.pc = "again" => Named(q.tenant, q.name) # {}

RepoInv ==
    /\ TablesOK
    /\ \A row \in repos : row.id \in 1..lastId
    /\ OneRowPerName
    /\ \A r \in DOMAIN req : Sound(req[r])

\* Where a listing stands.
Standing(l) ==
    /\ l.twice = {}
    /\ l.steady \subseteq Names(l.tenant, l.name)
    /\ l.pc = "ask" => /\ \A x \in l.seen : x <= l.last
                       /\ \A x \in l.steady : x <= l.last => x \in l.seen
    /\ l.pc = "end" /\ l.limit \notin {0, MaxInt} => l.steady \subseteq l.seen

ListInv ==
    /\ IsTable(list, Client, ListState)
    /\ \A c \in DOMAIN list : Standing(list[c])

IInv == RepoInv /\ ListInv

LEMMA IInvSuffices ==
    ASSUME IInv
    PROVE  /\ TypeOK /\ OneRowPerName /\ HandlerInOwnRepo /\ LoserFindsRow
           /\ ListingComplete /\ ListedOnce
<1>1. TypeOK /\ OneRowPerName
  BY DEF IInv, RepoInv, ListInv, TablesOK, TypeOK
<1>2. HandlerInOwnRepo /\ LoserFindsRow
  BY DEF IInv, RepoInv, Sound, RowOf, HandlerInOwnRepo, LoserFindsRow
<1>3. ListingComplete /\ ListedOnce
  BY DEF IInv, ListInv, Standing, ListingComplete, ListedOnce, Asking
<1> QED BY <1>1, <1>2, <1>3

-----------------------------------------------------------------------------
(* The race for the row *)

\* A request enters a slot, or moves on in it, and no row is added.
LEMMA SlotSet ==
    ASSUME RepoInv, UNCHANGED <<repos, lastId, tags>>, NEW r \in Request,
           NEW q \in RequestState, Sound(q),
           \/ req' = With(req, r, q)
           \/ r \in DOMAIN req /\ req' = [req EXCEPT ![r] = q]
    PROVE  RepoInv'
<1>0. IsTable(req, Request, RequestState)
  BY DEF RepoInv, TablesOK
<1>1. IsTable(req', Request, RequestState)
  <2>1. CASE req' = With(req, r, q)
    BY <1>0, <2>1, WithTable
  <2>2. CASE r \in DOMAIN req /\ req' = [req EXCEPT ![r] = q]
    BY <1>0, <2>2, ExceptTable
  <2> QED BY <2>1, <2>2
<1>2. \A s \in DOMAIN req' :
          req'[s] = q \/ (s \in DOMAIN req /\ req'[s] = req[s])
  <2>1. CASE req' = With(req, r, q)
    BY <2>1 DEF With
  <2>2. CASE r \in DOMAIN req /\ req' = [req EXCEPT ![r] = q]
    BY <1>0, <2>2 DEF IsTable
  <2> QED BY <2>1, <2>2
<1>3. \A s \in DOMAIN req' : Sound(req[s])'
  BY <1>2 DEF RepoInv, Sound, Named
<1> QED BY <1>1, <1>3 DEF RepoInv, TablesOK, OneRowPerName

\* A request ends, and no row is added.
LEMMA SlotFree ==
    ASSUME RepoInv, UNCHANGED <<repos, lastId>>, NEW r, End(r),
           tags' \in SUBSET ((1..lastId) \X Tag)
    PROVE  RepoInv'
<1>1. IsTable(req', Request, RequestState)
  BY WithoutTable DEF RepoInv, TablesOK, End
<1>2. \A s \in DOMAIN req' : s \in DOMAIN req /\ req'[s] = req[s]
  BY DEF End, Without
<1>3. \A s \in DOMAIN req' : Sound(req[s])'
  BY <1>2 DEF RepoInv, Sound, Named
<1> QED BY <1>1, <1>3 DEF RepoInv, TablesOK, OneRowPerName

LEMMA RequestFields ==
    ASSUME RepoInv, NEW r \in DOMAIN req
    PROVE  /\ r \in Request /\ Sound(req[r])
           /\ req[r] = [pc |-> req[r].pc, tenant |-> req[r].tenant,
                        name |-> req[r].name, id |-> req[r].id]
           /\ req[r].pc \in {"insert", "again", "use"}
           /\ req[r].tenant \in Tenant /\ req[r].name \in Name /\ req[r].id \in Nat
BY DEF RepoInv, TablesOK, IsTable, RequestState

LEMMA FindRepoStep ==
    ASSUME RepoInv, NEW r \in Request, NEW t \in Tenant, NEW n \in Name,
           FindRepo(r, t, n)
    PROVE  RepoInv'
<1>1. UNCHANGED <<repos, lastId, tags>>
  BY DEF FindRepo
<1>2. CASE \E row \in Named(t, n) : Begin(r, "use", t, n, row.id)
  <2>1. PICK row \in Named(t, n) : Begin(r, "use", t, n, row.id)
    BY <1>2
  <2>2. row \in repos /\ row = [id |-> row.id, tenant |-> t, name |-> n]
        /\ row.id \in Nat
    BY DEF Named, RepoInv, TablesOK, Row
  <2> DEFINE q == [pc |-> "use", tenant |-> t, name |-> n, id |-> row.id]
  <2>3. q \in RequestState /\ Sound(q)
    BY <2>2 DEF RequestState, Sound, RowOf
  <2>4. req' = With(req, r, q)
    BY <2>1 DEF Begin
  <2> QED BY <1>1, <2>3, <2>4, SlotSet
<1>3. CASE Begin(r, "insert", t, n, 0)
  <2> DEFINE q == [pc |-> "insert", tenant |-> t, name |-> n, id |-> 0]
  <2>1. q \in RequestState /\ Sound(q)
    BY DEF RequestState, Sound
  <2>2. req' = With(req, r, q)
    BY <1>3 DEF Begin
  <2> QED BY <1>1, <2>1, <2>2, SlotSet
<1> QED BY <1>2, <1>3 DEF FindRepo

\* Goto and Use as updates of the whole request.
LEMMA GotoEffect ==
    ASSUME RepoInv, NEW r \in DOMAIN req, NEW p, Goto(r, p)
    PROVE  req' = [req EXCEPT ![r] =
                      [pc |-> p, tenant |-> req[r].tenant,
                       name |-> req[r].name, id |-> req[r].id]]
<1>1. PICK q : q = [req[r] EXCEPT !.pc = p] /\ req' = [req EXCEPT ![r] = q]
  BY DEF Goto
<1>2. q = [pc |-> p, tenant |-> req[r].tenant, name |-> req[r].name,
           id |-> req[r].id]
  BY <1>1, RequestFields
<1> QED BY <1>1, <1>2

LEMMA UseEffect ==
    ASSUME RepoInv, NEW r \in DOMAIN req, NEW i, Use(r, i)
    PROVE  req' = [req EXCEPT ![r] =
                      [pc |-> "use", tenant |-> req[r].tenant,
                       name |-> req[r].name, id |-> i]]
<1>1. PICK q : /\ q = [req[r] EXCEPT !.pc = "use", !.id = i]
               /\ req' = [req EXCEPT ![r] = q]
  BY DEF Use
<1>2. req[r] \in RequestState
  BY DEF RepoInv, TablesOK, IsTable
<1>3. q = [pc |-> "use", tenant |-> req[r].tenant, name |-> req[r].name,
           id |-> i]
  BY <1>1, <1>2 DEF RequestState
<1> QED BY <1>1, <1>3

\* The winner of the insert.
LEMMA RowAdded ==
    ASSUME RepoInv, NEW r \in DOMAIN req,
           Named(req[r].tenant, req[r].name) = {},
           lastId < MaxId, lastId' = lastId + 1, UNCHANGED tags,
           repos' = repos \cup {[id |-> lastId + 1, tenant |-> req[r].tenant,
                                 name |-> req[r].name]},
           Use(r, lastId + 1)
    PROVE  RepoInv'
<1> DEFINE q == [pc |-> "use", tenant |-> req[r].tenant, name |-> req[r].name,
                 id |-> lastId + 1]
           new == [id |-> lastId + 1, tenant |-> req[r].tenant,
                   name |-> req[r].name]
<1>1. lastId \in Nat /\ lastId' \in 0..MaxId
  BY BoundAssumption DEF RepoInv, TablesOK
<1>2. new \in Row /\ q \in RequestState
  BY <1>1, RequestFields DEF Row, RequestState
<1>3. req' = [req EXCEPT ![r] = q]
  BY UseEffect
<1>4. IsTable(req, Request, RequestState)
  BY DEF RepoInv, TablesOK
<1>5. q.pc = "use" /\ RowOf(q) = new
  BY DEF RowOf
<1>6. new.id = lastId + 1 /\ new.tenant = req[r].tenant /\ new.name = req[r].name
  OBVIOUS
<1>7. repos' = repos \cup {new}
  OBVIOUS
<1> HIDE DEF q, new
<1>8. IsTable(req', Request, RequestState)
  BY <1>2, <1>3, <1>4, ExceptTable
<1>9. TablesOK'
  <2>1. tags' \in SUBSET ((1..lastId') \X Tag)
    BY <1>1 DEF RepoInv, TablesOK
  <2>2. repos' \in SUBSET Row
    BY <1>2, <1>7 DEF RepoInv, TablesOK
  <2> QED BY <1>1, <1>8, <2>1, <2>2 DEF TablesOK
<1>10. \A row \in repos' : row.id \in 1..lastId'
  BY <1>1, <1>6, <1>7 DEF RepoInv, TablesOK, Row
<1>11. OneRowPerName'
  <2>1. \A row \in repos : /\ row.id # new.id
                           /\ row.tenant = new.tenant => row.name # new.name
    BY <1>1, <1>6 DEF RepoInv, TablesOK, Row, Named
  <2> QED BY <1>7, <2>1 DEF RepoInv, OneRowPerName
<1>12. \A s \in DOMAIN req' : Sound(req[s])'
  <2> SUFFICES ASSUME NEW s \in DOMAIN req' PROVE Sound(req[s])'
    OBVIOUS
  <2>1. CASE s = r
    <3>1. req'[s] = q
      BY <1>3, <1>4, <2>1 DEF IsTable
    <3> QED BY <1>5, <1>7, <3>1 DEF Sound
  <2>2. CASE s # r
    <3>1. s \in DOMAIN req /\ req'[s] = req[s]
      BY <1>3, <1>4, <2>2 DEF IsTable
    <3>2. Sound(req[s])
      BY <3>1 DEF RepoInv
    <3> QED BY <1>7, <3>1, <3>2 DEF Sound, Named
  <2> QED BY <2>1, <2>2
<1> QED BY <1>9, <1>10, <1>11, <1>12 DEF RepoInv

LEMMA InsertRepoStep ==
    ASSUME RepoInv, NEW r \in Request, InsertRepo(r)
    PROVE  RepoInv'
<1>1. r \in DOMAIN req /\ UNCHANGED tags
  BY DEF InsertRepo, At
<1>2. CASE Named(req[r].tenant, req[r].name) # {}
  <2>1. UNCHANGED <<repos, lastId, tags>> /\ Goto(r, "again")
    BY <1>1, <1>2 DEF InsertRepo
  <2>2. PICK q : q = [pc |-> "again", tenant |-> req[r].tenant,
                      name |-> req[r].name, id |-> req[r].id]
    OBVIOUS
  <2>3. q \in RequestState /\ Sound(q)
    BY <1>1, <1>2, <2>2, RequestFields DEF RequestState, Sound
  <2>4. req' = [req EXCEPT ![r] = q]
    BY <1>1, <2>1, <2>2, GotoEffect
  <2> QED BY <1>1, <2>1, <2>3, <2>4, SlotSet
<1>3. CASE Named(req[r].tenant, req[r].name) = {}
  BY <1>1, <1>3, RowAdded DEF InsertRepo
<1> QED BY <1>2, <1>3

LEMMA FindAgainStep ==
    ASSUME RepoInv, NEW r \in Request, FindAgain(r)
    PROVE  RepoInv'
<1>1. r \in DOMAIN req /\ UNCHANGED <<repos, lastId, tags>>
  BY DEF FindAgain, At
<1>2. CASE \E row \in Named(req[r].tenant, req[r].name) : Use(r, row.id)
  <2>1. PICK row \in Named(req[r].tenant, req[r].name) : Use(r, row.id)
    BY <1>2
  <2>2. row \in repos /\ row.id \in Nat
        /\ row = [id |-> row.id, tenant |-> req[r].tenant, name |-> req[r].name]
    BY DEF Named, RepoInv, TablesOK, Row
  <2>3. PICK q : q = [pc |-> "use", tenant |-> req[r].tenant,
                      name |-> req[r].name, id |-> row.id]
    OBVIOUS
  <2>4. q \in RequestState /\ Sound(q)
    BY <1>1, <2>2, <2>3, RequestFields DEF RequestState, Sound, RowOf
  <2>5. req' = [req EXCEPT ![r] = q]
    BY <1>1, <2>1, <2>3, UseEffect
  <2> QED BY <1>1, <2>4, <2>5, SlotSet
<1>3. CASE End(r)
  BY <1>1, <1>3, SlotFree DEF RepoInv, TablesOK
<1> QED BY <1>2, <1>3 DEF FindAgain

LEMMA PutTagStep ==
    ASSUME RepoInv, NEW r \in Request, NEW g \in Tag, PutTag(r, g)
    PROVE  RepoInv'
<1>1. r \in DOMAIN req /\ req[r].pc = "use" /\ End(r)
      /\ UNCHANGED <<repos, lastId>> /\ tags' = tags \cup {<<req[r].id, g>>}
  BY DEF PutTag, At
<1>2. RowOf(req[r]) \in repos
  BY <1>1 DEF RepoInv, Sound
<1>3. req[r].id \in 1..lastId
  BY <1>2 DEF RowOf, RepoInv
<1>4. tags' \in SUBSET ((1..lastId) \X Tag)
  BY <1>1, <1>3 DEF RepoInv, TablesOK
<1> QED BY <1>1, <1>4, SlotFree

LEMMA DeleteTagsStep ==
    ASSUME RepoInv, NEW i, NEW G, DeleteTags(i, G)
    PROVE  RepoInv'
<1>1. UNCHANGED <<repos, lastId, req>> /\ tags' \subseteq tags
  BY DEF DeleteTags
<1>2. \A r \in DOMAIN req : Sound(req[r])'
  BY <1>1 DEF RepoInv, Sound, Named
<1> QED BY <1>1, <1>2 DEF RepoInv, TablesOK, OneRowPerName

LEMMA RepoUnchanged ==
    ASSUME RepoInv, UNCHANGED <<repos, lastId, tags, req>>
    PROVE  RepoInv'
<1>1. \A r \in DOMAIN req : Sound(req[r])'
  BY DEF RepoInv, Sound, Named
<1> QED BY <1>1 DEF RepoInv, TablesOK, OneRowPerName

-----------------------------------------------------------------------------
(* Pages *)

LEMMA NamesFacts ==
    ASSUME RepoInv, NEW t, NEW n
    PROVE  Names(t, n) \subseteq Nat \ {0} /\ IsFiniteSet(Names(t, n))
<1>1. Names(t, n) \subseteq Name \/ Names(t, n) \subseteq Tag
  BY DEF Names, Listing, RepoInv, TablesOK, Row
<1> QED BY <1>1, NameAssumption, FiniteAssumption, FS_Subset

LEMMA QueryLimitExact ==
    ASSUME NEW n \in Limit \ {0, MaxInt}
    PROVE  n \in Nat /\ n > 0 /\ QueryLimit(n) = n + 1
<1>1. n \in Nat /\ n > 0 /\ n < MaxInt /\ MaxInt \in Nat
  BY LimitAssumption
<1> QED BY <1>1 DEF QueryLimit

\* A page without a link shows all there is.
LEMMA LastPage ==
    ASSUME NEW S, IsFiniteSet(S), NEW n \in Nat, n > 0,
           NEW fetched, IsFirst(fetched, S, n + 1),
           NEW shown, IsFirst(shown, fetched, n),
           Cardinality(fetched) > n => shown = {}
    PROVE  shown = S
<1>1. fetched \in SUBSET S /\ shown \in SUBSET fetched
  BY DEF IsFirst
<1>2. IsFiniteSet(fetched) /\ IsFiniteSet(shown)
  BY <1>1, FS_Subset
<1>3. /\ Cardinality(S) \in Nat /\ Cardinality(fetched) \in Nat
      /\ Cardinality(shown) \in Nat
  BY <1>2, FS_CardinalityType
<1>4. ~(Cardinality(fetched) > n)
  <2> SUFFICES ASSUME Cardinality(fetched) > n PROVE FALSE
    OBVIOUS
  <2>1. Cardinality(shown) = 0
    BY FS_EmptySet
  <2> QED BY <1>3, <2>1 DEF IsFirst
<1>5. Cardinality(shown) = Cardinality(fetched)
  BY <1>3, <1>4 DEF IsFirst
<1>6. Cardinality(fetched) = Cardinality(S)
  BY <1>3, <1>4 DEF IsFirst
<1>7. shown = fetched /\ fetched = S
  BY <1>1, <1>2, <1>5, <1>6, FS_Subset
<1> QED BY <1>7

LEMMA ToldType ==
    ASSUME NEW l \in ListState, NEW P \in SUBSET Nat,
           NEW pc \in {"ask", "end"}, NEW last \in Nat
    PROVE  Told(l, P, pc, last) \in ListState
<1>1. PICK k : k = Told(l, P, pc, last)
  OBVIOUS
<1>2. k = [pc |-> pc, tenant |-> l.tenant, name |-> l.name, limit |-> l.limit,
           last |-> last, seen |-> l.seen \cup P,
           twice |-> l.twice \cup (P \cap l.seen), steady |-> l.steady]
  BY <1>1 DEF Told, ListState
<1>3. /\ l.tenant \in Tenant /\ l.name \in Name \cup {0} /\ l.limit \in Limit
      /\ l.seen \in SUBSET Nat /\ l.twice \in SUBSET Nat
      /\ l.steady \in SUBSET Nat
  BY DEF ListState
<1>4. l.seen \cup P \in SUBSET Nat /\ l.twice \cup (P \cap l.seen) \in SUBSET Nat
  BY <1>3
<1> QED BY <1>1, <1>2, <1>3, <1>4 DEF ListState

\* The names of a page lie beyond what has been told.
LEMMA PageFacts ==
    ASSUME RepoInv, NEW l \in ListState, Standing(l), l.pc = "ask",
           NEW P \in SUBSET After(l)
    PROVE  /\ l.last \in Nat /\ l.limit \in Limit /\ l.seen \in SUBSET Nat
           /\ P \in SUBSET Nat
           /\ IsFiniteSet(After(l))
           /\ \A x \in P : x > l.last
           /\ l.twice = {} /\ \A x \in P : x \notin l.seen
           /\ \A x \in l.steady : x \in Nat /\ (x \in l.seen \/ x \in After(l))
<1>1. /\ l.last \in Nat /\ l.limit \in Limit /\ l.seen \in SUBSET Nat
      /\ l.steady \in SUBSET Nat
  BY DEF ListState
<1>2. Names(l.tenant, l.name) \in SUBSET Nat /\ IsFiniteSet(Names(l.tenant, l.name))
  BY NamesFacts
<1>3. After(l) \in SUBSET Names(l.tenant, l.name)
  BY DEF After
<1>4. IsFiniteSet(After(l))
  BY <1>2, <1>3, FS_Subset
<1>5. \A x \in P : x > l.last
  BY DEF After
<1>6. P \in SUBSET Nat
  BY <1>2, <1>3
<1>7. \A x \in P : x \notin l.seen
  BY <1>1, <1>5, <1>6 DEF Standing
<1>8. \A x \in l.steady : x \in l.seen \/ x \in After(l)
  <2> SUFFICES ASSUME NEW x \in l.steady, ~(x <= l.last) PROVE x \in After(l)
    BY DEF Standing
  <2>1. x \in Names(l.tenant, l.name) /\ x \in Nat
    BY <1>1 DEF Standing
  <2> QED BY <1>1, <2>1 DEF After
<1> QED BY <1>1, <1>4, <1>5, <1>6, <1>7, <1>8 DEF Standing

\* A page with a link leaves behind nothing that stays.
LEMMA LinkStanding ==
    ASSUME RepoInv, NEW l \in ListState, Standing(l), l.pc = "ask",
           NEW fetched, IsFirst(fetched, After(l), QueryLimit(l.limit)),
           NEW P, IsFirst(P, fetched, l.limit),
           NEW m \in P, \A x \in P : x <= m,
           NEW k, k = Told(l, P, "ask", m)
    PROVE  k \in ListState /\ Standing(k)
<1>1. P \subseteq fetched /\ fetched \subseteq After(l) /\ P \in SUBSET After(l)
  BY DEF IsFirst
<1>2. /\ l.last \in Nat /\ l.seen \in SUBSET Nat /\ P \in SUBSET Nat
      /\ \A x \in P : x > l.last
      /\ l.twice = {} /\ \A x \in P : x \notin l.seen
      /\ \A x \in l.steady : x \in Nat /\ (x \in l.seen \/ x \in After(l))
  BY <1>1, PageFacts
<1>3. m \in Nat
  BY <1>2
<1>4. /\ k \in ListState
      /\ k.pc = "ask" /\ k.last = m /\ k.seen = l.seen \cup P
      /\ k.twice = {}
      /\ k.tenant = l.tenant /\ k.name = l.name /\ k.steady = l.steady
  <2>1. k = [pc |-> "ask", tenant |-> l.tenant, name |-> l.name,
             limit |-> l.limit, last |-> m, seen |-> l.seen \cup P,
             twice |-> l.twice \cup (P \cap l.seen), steady |-> l.steady]
    BY DEF Told, ListState
  <2>2. l.twice \cup (P \cap l.seen) = {}
    BY <1>2
  <2>3. k \in ListState
    BY <1>2, <1>3, ToldType
  <2> QED BY <2>1, <2>2, <2>3
<1>5. \A x \in k.seen : x <= m
  <2>1. \A x \in l.seen : x <= l.last
    BY DEF Standing
  <2>2. l.last < m
    BY <1>2
  <2>3. \A x \in l.seen : x <= m
    BY <1>2, <1>3, <2>1, <2>2
  <2> QED BY <1>4, <2>3
<1>6. ASSUME NEW x \in l.steady, x <= m, x \in After(l) PROVE x \in P
  <2>1. x \in Nat
    BY <1>2
  <2>2. x \in fetched
    BY <1>1, <1>3, <1>6, <2>1 DEF IsFirst
  <2> QED BY <1>3, <1>6, <2>1, <2>2 DEF IsFirst
<1>7. \A x \in k.steady : x <= k.last => x \in k.seen
  BY <1>2, <1>4, <1>6
<1>8. k.twice = {} /\ k.steady \subseteq Names(k.tenant, k.name)
  BY <1>2, <1>4 DEF Standing
<1> QED BY <1>4, <1>5, <1>7, <1>8 DEF Standing

\* A page without a link shows all that was left.
LEMMA EndStanding ==
    ASSUME RepoInv, NEW l \in ListState, Standing(l), l.pc = "ask",
           NEW fetched, IsFirst(fetched, After(l), QueryLimit(l.limit)),
           NEW P, IsFirst(P, fetched, l.limit),
           Cardinality(fetched) > l.limit => P = {},
           NEW k, k = Told(l, P, "end", l.last)
    PROVE  k \in ListState /\ Standing(k)
<1>1. P \in SUBSET After(l)
  BY DEF IsFirst
<1>2. /\ l.last \in Nat /\ l.limit \in Limit /\ P \in SUBSET Nat
      /\ IsFiniteSet(After(l))
      /\ l.twice = {} /\ \A x \in P : x \notin l.seen
      /\ \A x \in l.steady : x \in l.seen \/ x \in After(l)
  BY <1>1, PageFacts
<1>3. /\ k \in ListState
      /\ k.pc = "end" /\ k.seen = l.seen \cup P
      /\ k.twice = {}
      /\ k.tenant = l.tenant /\ k.name = l.name /\ k.limit = l.limit
      /\ k.steady = l.steady
  <2>1. k = [pc |-> "end", tenant |-> l.tenant, name |-> l.name,
             limit |-> l.limit, last |-> l.last, seen |-> l.seen \cup P,
             twice |-> l.twice \cup (P \cap l.seen), steady |-> l.steady]
    BY DEF Told, ListState
  <2>2. l.twice \cup (P \cap l.seen) = {}
    BY <1>2
  <2>3. k \in ListState
    BY <1>2, ToldType
  <2> QED BY <2>1, <2>2, <2>3
<1>4. ASSUME l.limit \notin {0, MaxInt} PROVE P = After(l)
  <2>1. l.limit \in Nat /\ l.limit > 0 /\ QueryLimit(l.limit) = l.limit + 1
    BY <1>2, <1>4, QueryLimitExact
  <2> QED BY <1>2, <2>1, LastPage
<1>5. k.limit \notin {0, MaxInt} => k.steady \subseteq k.seen
  BY <1>2, <1>3, <1>4
<1>6. k.twice = {} /\ k.steady \subseteq Names(k.tenant, k.name)
  BY <1>2, <1>3 DEF Standing
<1> QED BY <1>3, <1>5, <1>6 DEF Standing

\* A page of one listing touches no other.
LEMMA QueryStep ==
    ASSUME IInv, UNCHANGED <<repos, lastId, tags, req>>,
           NEW c \in Client, NEW l \in ListState, Standing(l), l.pc = "ask",
           Query(c, l, After(l))
    PROVE  ListInv'
<1>1. PICK k \in ListState : Standing(k) /\ list' = With(list, c, k)
  <2>1. PICK fetched \in SUBSET After(l), P \in SUBSET After(l) :
            /\ IsFirst(fetched, After(l), QueryLimit(l.limit))
            /\ IsFirst(P, fetched, l.limit)
            /\ Receive(c, l, P, Cardinality(fetched) > l.limit)
    BY DEF Query
  <2>2. CASE \E m \in P : /\ \A x \in P : x <= m
                          /\ list' = With(list, c, Told(l, P, "ask", m))
    BY <2>1, <2>2, LinkStanding DEF IInv
  <2>3. CASE /\ Cardinality(fetched) > l.limit => P = {}
             /\ list' = With(list, c, Told(l, P, "end", l.last))
    BY <2>1, <2>3, EndStanding DEF IInv
  <2> QED BY <2>1, <2>2, <2>3 DEF Receive
<1>2. IsTable(list', Client, ListState)
  BY <1>1, WithTable DEF IInv, ListInv
<1>3. \A d \in DOMAIN list' :
          list'[d] = k \/ (d \in DOMAIN list /\ list'[d] = list[d])
  BY <1>1 DEF With
<1>4. \A d \in DOMAIN list' : Standing(list[d])'
  BY <1>1, <1>3 DEF IInv, ListInv, Standing, Names, Listing
<1> QED BY <1>2, <1>4 DEF ListInv

\* The first page begins before every name.
LEMMA ListFirstStep ==
    ASSUME IInv, NEW c \in Client, NEW t \in Tenant, NEW n \in Name \cup {0},
           NEW limit \in Limit, ListFirst(c, t, n, limit)
    PROVE  ListInv'
<1>1. UNCHANGED <<repos, lastId, tags, req>>
  BY DEF ListFirst
<1>2. Names(t, n) \in SUBSET (Nat \ {0})
  BY NamesFacts DEF IInv
<1>3. PICK l : l = [pc |-> "ask", tenant |-> t, name |-> n, limit |-> limit,
                    last |-> 0, seen |-> {}, twice |-> {},
                    steady |-> Names(t, n)]
  OBVIOUS
<1>4. l \in ListState
  BY <1>2, <1>3 DEF ListState
<1>5. Standing(l) /\ l.pc = "ask"
  <2>1. \A x \in Names(t, n) : ~(x <= 0)
    BY <1>2
  <2> QED BY <1>3, <2>1 DEF Standing
<1>6. After(l) = Names(t, n)
  <2>1. \A x \in Names(t, n) : x > 0
    BY <1>2
  <2> QED BY <1>3, <2>1 DEF After
<1>7. Query(c, l, After(l))
  BY <1>3, <1>6 DEF ListFirst
<1> QED BY <1>1, <1>4, <1>5, <1>7, QueryStep

LEMMA ListPageStep ==
    ASSUME IInv, NEW c \in Client, ListPage(c)
    PROVE  ListInv'
<1>1. PICK l : l = list[c]
  OBVIOUS
<1>2. c \in DOMAIN list /\ l.pc = "ask" /\ Query(c, l, After(l))
      /\ UNCHANGED <<repos, lastId, tags, req>>
  BY <1>1 DEF ListPage, Asking
<1>3. l \in ListState /\ Standing(l)
  BY <1>1, <1>2 DEF IInv, ListInv, IsTable
<1> QED BY <1>2, <1>3, QueryStep

LEMMA EndListingStep ==
    ASSUME ListInv, NEW c, EndListing(c)
    PROVE  ListInv'
<1>1. list' = Without(list, c) /\ UNCHANGED <<repos, tags>>
  BY DEF EndListing
<1>2. IsTable(list', Client, ListState)
  BY <1>1, WithoutTable DEF ListInv
<1>3. \A d \in DOMAIN list' : d \in DOMAIN list /\ list'[d] = list[d]
  BY <1>1 DEF Without
<1>4. \A d \in DOMAIN list' : Standing(list[d])'
  BY <1>1, <1>3 DEF ListInv, Standing, Names, Listing
<1> QED BY <1>2, <1>4 DEF ListInv

LEMMA ListUnchanged ==
    ASSUME ListInv, UNCHANGED <<repos, tags, list>>
    PROVE  ListInv'
<1>1. \A d \in DOMAIN list' : Standing(list[d])'
  BY DEF ListInv, Standing, Names, Listing
<1> QED BY <1>1 DEF ListInv

\* Whatever changes in the tables, a listing loses from what stays only what
\* is no longer there.
LEMMA WatchStep ==
    ASSUME ListInv, Watch
    PROVE  ListInv'
<1>1. DOMAIN list' = DOMAIN list
  BY DEF Watch
<1>2. ASSUME NEW d \in DOMAIN list
      PROVE  list'[d] \in ListState /\ Standing(list[d])'
  <2>1. PICK l, S : /\ l = list[d]
                    /\ S = l.steady \cap Listing(l.tenant, l.name, repos', tags')
                    /\ list'[d] = [l EXCEPT !.steady = S]
    BY DEF Watch
  <2>2. l \in ListState /\ Standing(l)
    BY <2>1 DEF ListInv, IsTable
  <2>3. list'[d] = [pc |-> l.pc, tenant |-> l.tenant, name |-> l.name,
                    limit |-> l.limit, last |-> l.last, seen |-> l.seen,
                    twice |-> l.twice, steady |-> S]
    BY <2>1, <2>2 DEF ListState
  <2>4. S \subseteq l.steady /\ S \subseteq Listing(l.tenant, l.name, repos', tags')
    BY <2>1
  <2>5. list'[d] \in ListState
    <3>1. S \in SUBSET Nat
      BY <2>2, <2>4 DEF ListState
    <3> QED BY <2>2, <2>3, <3>1 DEF ListState
  <2>6. Standing(list[d])'
    BY <2>2, <2>3, <2>4 DEF Standing, Names
  <2> QED BY <2>5, <2>6
<1>3. list' = [d \in DOMAIN list' |-> list'[d]]
  BY DEF Watch
<1> QED BY <1>1, <1>2, <1>3 DEF ListInv, IsTable

-----------------------------------------------------------------------------
(* The theorems *)

LEMMA InitIInv == Init => IInv
<1> SUFFICES ASSUME Init PROVE IInv
  OBVIOUS
<1>1. RepoInv
  BY BoundAssumption
  DEF Init, RepoInv, TablesOK, IsTable, Empty, OneRowPerName
<1>2. ListInv
  BY DEF Init, ListInv, IsTable, Empty
<1> QED BY <1>1, <1>2 DEF IInv

LEMMA NextIInv == IInv /\ [Next]_vars => IInv'
<1> SUFFICES ASSUME IInv, [Next]_vars PROVE IInv'
  OBVIOUS
<1> USE DEF IInv
<1>1. ASSUME NEW r \in Request, InsertRepo(r) PROVE IInv'
  <2>1. Watch \/ UNCHANGED <<repos, tags, list>>
    BY <1>1 DEF InsertRepo
  <2> QED BY <1>1, <2>1, InsertRepoStep, WatchStep, ListUnchanged
<1>2. ASSUME NEW r \in Request, FindAgain(r) PROVE IInv'
  BY <1>2, FindAgainStep, ListUnchanged DEF FindAgain
<1>3. ASSUME NEW r \in Request, EndRequest(r) PROVE IInv'
  BY <1>3, SlotFree, ListUnchanged DEF EndRequest, RepoInv, TablesOK
<1>4. ASSUME NEW r \in Request, NEW g \in Tag, PutTag(r, g) PROVE IInv'
  BY <1>4, PutTagStep, WatchStep DEF PutTag
<1>5. ASSUME NEW r \in Request, NEW w \in Wanted, FindRepo(r, w[1], w[2])
      PROVE  IInv'
  <2>1. w[1] \in Tenant /\ w[2] \in Name
    BY BoundAssumption
  <2> QED BY <1>5, <2>1, FindRepoStep, ListUnchanged DEF FindRepo
<1>6. ASSUME NEW i, NEW G, DeleteTags(i, G) PROVE IInv'
  BY <1>6, DeleteTagsStep, WatchStep DEF DeleteTags
<1>7. ASSUME NEW c \in Client, ListPage(c) PROVE IInv'
  BY <1>7, ListPageStep, RepoUnchanged DEF ListPage
<1>8. ASSUME NEW c \in Client, EndListing(c) PROVE IInv'
  BY <1>8, EndListingStep, RepoUnchanged DEF EndListing
<1>9. ASSUME NEW c \in Client, NEW t \in Tenant, NEW n \in Name \cup {0},
             NEW l \in Limit, ListFirst(c, t, n, l)
      PROVE  IInv'
  BY <1>9, ListFirstStep, RepoUnchanged DEF ListFirst
<1>10. CASE UNCHANGED vars
  BY <1>10, RepoUnchanged, ListUnchanged DEF vars
<1> QED BY <1>1, <1>2, <1>3, <1>4, <1>5, <1>6, <1>7, <1>8, <1>9, <1>10
        DEF Next, Handle

THEOREM IInvCorrect == Spec => []IInv
BY InitIInv, NextIInv, PTL DEF Spec

\* Every reachable state has its types, for any number of handlers and clients
\* and any tables.
THEOREM TypeCorrect == Spec => []TypeOK
BY IInvCorrect, IInvSuffices, PTL

\* However handlers overlap in ensure_repository, a tenant's name belongs to
\* one repository and an id to one name.
THEOREM OneRowPerNameCorrect == Spec => []OneRowPerName
BY IInvCorrect, IInvSuffices, PTL

\* A handler works in the repository of its own tenant and name, whether it
\* found the row, made it or lost the race for it.
THEOREM HandlerInOwnRepoCorrect == Spec => []HandlerInOwnRepo
BY IInvCorrect, IInvSuffices, PTL

\* The handler that lost the race finds the winner's row when it looks again.
THEOREM LoserFindsRowCorrect == Spec => []LoserFindsRow
BY IInvCorrect, IInvSuffices, PTL

\* Links that are followed to the end have shown every name that was there all
\* the while, for every page size but 0 and the largest integer.
THEOREM ListingCompleteCorrect == Spec => []ListingComplete
BY IInvCorrect, IInvSuffices, PTL

\* No page repeats a name of an earlier one, and pages come in order.
THEOREM ListedOnceCorrect == Spec => []ListedOnce
BY IInvCorrect, IInvSuffices, PTL

-----------------------------------------------------------------------------
(* A listing goes forward *)

\* What a step does to the listing of client c.
Forward(c) ==
    Asking(c) /\ Asking(c)' =>
        \/ list'[c].last > list[c].last
        \/ UNCHANGED <<list[c].last, list[c].seen, list[c].twice>>

LEMMA ListPageForward ==
    ASSUME IInv, NEW c \in Client, NEW d \in Client, ListPage(d)
    PROVE  Forward(c)
<1>1. CASE c # d
  <2>1. PICK k : list' = With(list, d, k)
    BY DEF ListPage, Query, Receive
  <2>2. c \in DOMAIN list => list'[c] = list[c]
    BY <1>1, <2>1 DEF With
  <2> QED BY <2>2 DEF Forward, Asking
<1>2. CASE c = d
  <2>1. PICK l : l = list[d]
    OBVIOUS
  <2>2. l \in ListState /\ Standing(l) /\ l.pc = "ask"
    BY <2>1 DEF ListPage, Asking, IInv, ListInv, IsTable
  <2>3. PICK fetched \in SUBSET After(l), P \in SUBSET After(l) :
            Receive(d, l, P, Cardinality(fetched) > l.limit)
    BY <2>1 DEF ListPage, Query
  <2>4. \A x \in P : x > l.last
    BY <2>2, <2>3 DEF After
  <2>5. ASSUME NEW m \in P, list' = With(list, d, Told(l, P, "ask", m))
        PROVE  Forward(c)
    <3>1. list'[c].last = m
      BY <1>2, <2>2, <2>5 DEF With, Told, ListState
    <3> QED BY <1>2, <2>1, <2>4, <3>1 DEF Forward
  <2>6. ASSUME list' = With(list, d, Told(l, P, "end", l.last))
        PROVE  Forward(c)
    <3>1. list'[c].pc = "end"
      BY <1>2, <2>2, <2>6 DEF With, Told, ListState
    <3> QED BY <3>1 DEF Forward, Asking
  <2> QED BY <2>3, <2>5, <2>6 DEF Receive
<1> QED BY <1>1, <1>2

LEMMA WatchForward ==
    ASSUME ListInv, Watch, NEW c
    PROVE  Forward(c)
<1> SUFFICES ASSUME c \in DOMAIN list PROVE Forward(c)
  BY DEF Forward, Asking
<1>1. PICK l, S : l = list[c] /\ list'[c] = [l EXCEPT !.steady = S]
  BY DEF Watch
<1>2. l \in ListState
  BY <1>1 DEF ListInv, IsTable
<1>3. /\ list'[c].last = l.last /\ list'[c].seen = l.seen
      /\ list'[c].twice = l.twice
  BY <1>1, <1>2 DEF ListState
<1> QED BY <1>1, <1>3 DEF Forward

LEMMA NextForward ==
    ASSUME IInv, [Next]_vars, NEW c \in Client
    PROVE  Forward(c)
<1>1. ASSUME UNCHANGED list PROVE Forward(c)
  BY <1>1 DEF Forward
<1>2. ASSUME NEW d \in Client, EndListing(d) PROVE Forward(c)
  BY <1>2 DEF EndListing, Forward, Asking, Without
<1>3. ASSUME NEW d \in Client, NEW t \in Tenant, NEW n \in Name \cup {0},
             NEW limit \in Limit, ListFirst(d, t, n, limit)
      PROVE  Forward(c)
  <2>1. PICK k : d \notin DOMAIN list /\ list' = With(list, d, k)
    BY <1>3 DEF ListFirst, Query, Receive
  <2>2. c \in DOMAIN list => list'[c] = list[c]
    BY <2>1 DEF With
  <2> QED BY <2>2 DEF Forward, Asking
<1>4. ASSUME Watch PROVE Forward(c)
  BY <1>4, WatchForward DEF IInv
<1>5. ASSUME NEW d \in Client, ListPage(d) PROVE Forward(c)
  BY <1>5, ListPageForward
<1>6. ASSUME NEW r \in Request, Handle(r) \/ \E w \in Wanted : FindRepo(r, w[1], w[2])
      PROVE  UNCHANGED list \/ Watch
  BY <1>6 DEF Handle, InsertRepo, FindAgain, EndRequest, PutTag, FindRepo
<1>7. ASSUME NEW i, NEW G, DeleteTags(i, G) PROVE Watch
  BY <1>7 DEF DeleteTags
<1> QED BY <1>1, <1>2, <1>3, <1>4, <1>5, <1>6, <1>7 DEF Next, vars

\* No page leads back: the place where the next page begins only moves on,
\* and nothing else moves it.
THEOREM PagesAdvanceCorrect == Spec => PagesAdvance
<1> DEFINE Ahead == \A c \in Client : Forward(c)
<1>1. IInv /\ [Next]_vars => [Ahead]_vars
  BY NextForward
<1>2. [Ahead]_vars <=> [\A c \in Client :
          Asking(c) /\ Asking(c)' =>
              \/ list'[c].last > list[c].last
              \/ UNCHANGED <<list[c].last, list[c].seen, list[c].twice>>]_vars
  BY DEF Forward
<1> QED BY <1>1, <1>2, IInvCorrect, PTL DEF Spec, PagesAdvance
=============================================================================
