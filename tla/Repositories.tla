---------------------------- MODULE Repositories ----------------------------
(***************************************************************************)
(* Repositories come into being when something is first pushed to them;    *)
(* clients read the catalog of a tenant and the tags of a repository page  *)
(* by page.                                                                *)
(*                                                                         *)
(* ensure_repository is three statements outside a transaction: look for   *)
(* the row, insert it unless the unique index on tenant and name objects,  *)
(* look again.  A listing is one query for each page; the client follows   *)
(* the Link header of a page to the next one while names come and go.      *)
(* Nothing removes a repository.                                           *)
(*                                                                         *)
(* A name, of a repository or of a tag, is the number of its place in the  *)
(* order in which the database sorts names.                                *)
(***************************************************************************)
EXTENDS Naturals, FiniteSets, Tables

CONSTANTS
    Request,    \* slots for handlers that need a repository
    Client,     \* slots for clients that read a listing
    Tenant,
    Name,       \* names of repositories
    Tag,        \* names of tags
    MaxInt,     \* the largest unsigned integer: 2^64 - 1
    Limit,      \* the values of the query parameter n
    Wanted,     \* bound: the <<tenant, name>> that are ever pushed to
    MaxId,      \* bound: the number of repositories created
    Tagged      \* bound: the ids of the repositories that tags are put into

ASSUME NameAssumption == Name \subseteq Nat \ {0} /\ Tag \subseteq Nat \ {0}
ASSUME FiniteAssumption == IsFiniteSet(Name) /\ IsFiniteSet(Tag)
ASSUME LimitAssumption == MaxInt \in Nat /\ Limit \subseteq 0..MaxInt
ASSUME BoundAssumption == MaxId \in Nat /\ Wanted \subseteq Tenant \X Name

VARIABLES
    repos,      \* rows of repositories
    lastId,     \* the id the database gave out last
    tags,       \* the <<repository id, name>> keys of tags
    req,        \* slot -> state of the handler in it
    list        \* slot -> state of the client in it

vars == <<repos, lastId, tags, req, list>>

Row == [id : Nat, tenant : Tenant, name : Name]

RequestState == [pc     : {"insert", "again", "use"},
                 tenant : Tenant,
                 name   : Name,
                 id     : Nat]

\* The catalog is the listing of the name 0.
ListState == [pc     : {"ask", "end"},
              tenant : Tenant,
              name   : Name \cup {0},
              limit  : Limit,
              last   : Nat,               \* where the next page begins
              seen   : SUBSET Nat,        \* names the client has been told
              twice  : SUBSET Nat,        \* those it has been told twice
              steady : SUBSET Nat]        \* names there ever since it began

Named(t, n) == {row \in repos : row.tenant = t /\ row.name = n}

\* What a complete listing shows when the tables are R and T.
Listing(t, n, R, T) ==
    IF n = 0
    THEN {row.name : row \in {x \in R : x.tenant = t}}
    ELSE {g \in Tag : \E row \in R :
              row.tenant = t /\ row.name = n /\ <<row.id, g>> \in T}

Names(t, n) == Listing(t, n, repos, tags)

-----------------------------------------------------------------------------
(* Steps of a handler and of a client *)

Begin(r, p, t, n, i) ==
    req' = With(req, r, [pc |-> p, tenant |-> t, name |-> n, id |-> i])

At(r, p) == r \in DOMAIN req /\ req[r].pc = p

Goto(r, p) == req' = [req EXCEPT ![r].pc = p]

End(r) == req' = Without(req, r)

\* The handler goes on with the row it found or made.
Use(r, i) == req' = [req EXCEPT ![r].pc = "use", ![r].id = i]

Asking(c) == c \in DOMAIN list /\ list[c].pc = "ask"

\* History of the clients after a change of the tables.
Watch ==
    list' = [c \in DOMAIN list |->
               [list[c] EXCEPT !.steady =
                   @ \cap Listing(list[c].tenant, list[c].name, repos', tags')]]

\* The k first names of the set S.
IsFirst(P, S, k) ==
    /\ P \subseteq S
    /\ \A x \in P, y \in S \ P : x < y
    /\ Cardinality(P) = IF Cardinality(S) < k THEN Cardinality(S) ELSE k

\* The LIMIT of the query, one more than the page shows.
QueryLimit(n) == (n + 1) % (MaxInt + 1)

\* The client whose state was l, when it has been told the names P.
Told(l, P, pc, last) ==
    [l EXCEPT !.pc = pc, !.last = last, !.seen = @ \cup P,
              !.twice = @ \cup (P \cap l.seen)]

\* The reply shows the names P.  It has a Link header with the last of them if
\* a row was left over, but none if P is empty.
Receive(c, l, P, more) ==
    \/ /\ more
       /\ \E m \in P : /\ \A x \in P : x <= m
                       /\ list' = With(list, c, Told(l, P, "ask", m))
    \/ /\ more => P = {}
       /\ list' = With(list, c, Told(l, P, "end", l.last))

\* One query, list_tags or list_repositories, over the names in now.
Query(c, l, now) ==
    \E fetched \in SUBSET now : \E shown \in SUBSET fetched :
        /\ IsFirst(fetched, now, QueryLimit(l.limit))
        /\ IsFirst(shown, fetched, l.limit)
        /\ Receive(c, l, shown, Cardinality(fetched) > l.limit)

After(l) == {x \in Names(l.tenant, l.name) : x > l.last}

-----------------------------------------------------------------------------
(* Steps as a faulty implementation would take them.  They are no part of   *)
(* the system: each shows that a property of this module can fail.          *)

\* No unique index: the row is inserted whatever is there.
InsertRepoBlind(r) ==
    /\ At(r, "insert")
    /\ lastId < MaxId
    /\ lastId' = lastId + 1
    /\ repos' = repos \cup {[id |-> lastId + 1, tenant |-> req[r].tenant,
                             name |-> req[r].name]}
    /\ Use(r, lastId + 1)
    /\ UNCHANGED tags
    /\ Watch

\* The insert is rolled back, and the handler goes on with the id it had taken.
InsertRepoLost(r) ==
    /\ At(r, "insert")
    /\ Use(r, lastId + 1)
    /\ UNCHANGED <<repos, lastId, tags, list>>

\* The unique index is on the name alone.
InsertRepoByName(r) ==
    /\ At(r, "insert")
    /\ IF \E row \in repos : row.name = req[r].name
       THEN Goto(r, "again") /\ UNCHANGED <<repos, lastId>>
       ELSE /\ lastId < MaxId
            /\ lastId' = lastId + 1
            /\ repos' = repos \cup {[id |-> lastId + 1, tenant |-> req[r].tenant,
                                     name |-> req[r].name]}
            /\ Use(r, lastId + 1)
    /\ UNCHANGED tags
    /\ Watch

\* The id the database gave out last is taken although nothing was inserted.
FindAgainLastId(r) ==
    /\ At(r, "again")
    /\ Use(r, lastId)
    /\ UNCHANGED <<repos, lastId, tags, list>>

\* A page begins with the name the one before ended with.
ListPageInclusive(c) ==
    /\ Asking(c)
    /\ Query(c, list[c], {x \in Names(list[c].tenant, list[c].name) :
                              x >= list[c].last})
    /\ UNCHANGED <<repos, lastId, tags, req>>

\* The first row after the page, fetched only to see whether there is more, is
\* taken for the place where the next page begins.
ListPageSkipping(c) ==
    /\ Asking(c)
    /\ \E n \in After(list[c]) :
          /\ \A x \in After(list[c]) : n <= x
          /\ Query(c, list[c], After(list[c]) \ {n})
    /\ UNCHANGED <<repos, lastId, tags, req>>

-----------------------------------------------------------------------------
(* ensure_repository: uploads, mounts and pushes of blobs and manifests *)

\* The request arrives and looks for the row.
FindRepo(r, t, n) ==
    /\ r \notin DOMAIN req
    /\ \/ \E row \in Named(t, n) : Begin(r, "use", t, n, row.id)
       \/ Named(t, n) = {} /\ Begin(r, "insert", t, n, 0)
    /\ UNCHANGED <<repos, lastId, tags, list>>

\* ON CONFLICT DO NOTHING.
InsertRepo(r) ==
    /\ At(r, "insert")
    /\ IF Named(req[r].tenant, req[r].name) # {}
       THEN Goto(r, "again") /\ UNCHANGED <<repos, lastId>>
       ELSE /\ lastId < MaxId
            /\ lastId' = lastId + 1
            /\ repos' = repos \cup {[id |-> lastId + 1, tenant |-> req[r].tenant,
                                     name |-> req[r].name]}
            /\ Use(r, lastId + 1)
    /\ UNCHANGED tags
    /\ Watch

\* NAME_UNKNOWN if the row is not there after all.
FindAgain(r) ==
    /\ At(r, "again")
    /\ \/ \E row \in Named(req[r].tenant, req[r].name) : Use(r, row.id)
       \/ Named(req[r].tenant, req[r].name) = {} /\ End(r)
    /\ UNCHANGED <<repos, lastId, tags, list>>

\* The handler that needed the repository puts a tag into it; other handlers
\* write rows that are not listed.
PutTag(r, g) ==
    /\ At(r, "use")
    /\ req[r].id \in Tagged
    /\ tags' = tags \cup {<<req[r].id, g>>}
    /\ End(r)
    /\ UNCHANGED <<repos, lastId>>
    /\ Watch

\* The handler returns, fails or is dropped.
EndRequest(r) ==
    /\ r \in DOMAIN req
    /\ End(r)
    /\ UNCHANGED <<repos, lastId, tags, list>>

\* delete_manifest removes every tag of a manifest at once.
DeleteTags(i, G) ==
    /\ G # {}
    /\ {i} \X G \subseteq tags
    /\ tags' = tags \ ({i} \X G)
    /\ UNCHANGED <<repos, lastId, req>>
    /\ Watch

-----------------------------------------------------------------------------
(* GET of /v2/_catalog and of /v2/<name>/tags/list *)

\* The first page, without the parameter "last".  Tags of a repository that
\* does not exist are NAME_UNKNOWN; one that exists stays, so the look for it
\* and the query act as one.  limit + 1 wraps around for the largest n; a
\* build with overflow checks gives no reply then.
ListFirst(c, t, n, limit) ==
    /\ c \notin DOMAIN list
    /\ n # 0 => Named(t, n) # {}
    /\ Query(c, [pc |-> "ask", tenant |-> t, name |-> n, limit |-> limit,
                 last |-> 0, seen |-> {}, twice |-> {}, steady |-> Names(t, n)],
             Names(t, n))
    /\ UNCHANGED <<repos, lastId, tags, req>>

ListPage(c) ==
    /\ Asking(c)
    /\ Query(c, list[c], After(list[c]))
    /\ UNCHANGED <<repos, lastId, tags, req>>

\* The client is done with the listing.
EndListing(c) ==
    /\ c \in DOMAIN list
    /\ list[c].pc = "end"
    /\ list' = Without(list, c)
    /\ UNCHANGED <<repos, lastId, tags, req>>

-----------------------------------------------------------------------------
Init ==
    /\ repos = {}
    /\ lastId = 0
    /\ tags = {}
    /\ req = Empty
    /\ list = Empty

Handle(r) ==
    \/ InsertRepo(r) \/ FindAgain(r) \/ EndRequest(r)
    \/ \E g \in Tag : PutTag(r, g)

Next ==
    \/ \E r \in Request :
          Handle(r) \/ \E w \in Wanted : FindRepo(r, w[1], w[2])
    \/ \E i \in 1..lastId, G \in SUBSET Tag : DeleteTags(i, G)
    \/ \E c \in Client :
          \/ ListPage(c) \/ EndListing(c)
          \/ \E t \in Tenant, n \in Name \cup {0}, l \in Limit :
                ListFirst(c, t, n, l)

Spec == Init /\ [][Next]_vars

\* Clients follow links.
Fairness == \A c \in Client : WF_vars(ListPage(c))

FairSpec == Spec /\ Fairness

-----------------------------------------------------------------------------
(* Properties *)

\* Every variable has its type.
TypeOK ==
    /\ repos \in SUBSET Row
    /\ lastId \in 0..MaxId
    /\ tags \in SUBSET ((1..lastId) \X Tag)
    /\ IsTable(req, Request, RequestState)
    /\ IsTable(list, Client, ListState)

\* However handlers overlap, a tenant's name belongs to one repository and an
\* id to one name.
OneRowPerName ==
    \A x, y \in repos :
        x.id = y.id \/ (x.tenant = y.tenant /\ x.name = y.name) => x = y

\* The handler that loses the race for the insert goes on in the repository
\* the winner made, never in one of another name or tenant.
HandlerInOwnRepo ==
    \A r \in DOMAIN req :
        req[r].pc = "use" =>
            [id |-> req[r].id, tenant |-> req[r].tenant, name |-> req[r].name]
                \in repos

\* The loser's second look finds the winner's row: ensure_repository never
\* gives up with its NAME_UNKNOWN.
LoserFindsRow ==
    \A r \in DOMAIN req :
        req[r].pc = "again" => Named(req[r].tenant, req[r].name) # {}

\* A client that has followed the links to the end was told every name that
\* was there all the while, whatever came and went.  It is not so for n = 0
\* and for the largest n: their first page is empty and has no link.
ListingComplete ==
    \A c \in DOMAIN list :
        /\ list[c].pc = "end"
        /\ list[c].limit \notin {0, MaxInt}
        => list[c].steady \subseteq list[c].seen

\* No name is told twice, and pages come in order: what is still to come
\* lies beyond what was told.
ListedOnce ==
    \A c \in DOMAIN list :
        /\ list[c].twice = {}
        /\ Asking(c) => \A x \in list[c].seen : x <= list[c].last

\* A page with a link brings the client further, however tags come and go
\* between the pages; only a page does.  There are finitely many names, so no
\* client follows links in a circle.
PagesAdvance ==
    [][\A c \in Client :
          Asking(c) /\ Asking(c)' =>
              \/ list'[c].last > list[c].last
              \/ UNCHANGED <<list[c].last, list[c].seen, list[c].twice>>]_vars

\* A client that follows links gets to the end.
ListingEnds == \A c \in Client : Asking(c) ~> ~Asking(c)
=============================================================================
