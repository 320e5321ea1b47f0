---------------------------- MODULE Front_proofs ----------------------------
(***************************************************************************)
(* Proofs about Front, for all paths, headers and configurations: what an  *)
(* anonymous request may reach, and whom a request acts for.               *)
(*                                                                         *)
(* The middleware looks at the method and at the beginning of the path,    *)
(* the router at the whole path.  What connects the two is the invariant   *)
(* that an anonymous request on its way to the router reads, below /v2/,   *)
(* and that every route there gives a reading handler to a method that     *)
(* reads.                                                                  *)
(***************************************************************************)
EXTENDS Front, Tables_proofs

Kind == {"manifest", "upload", "uploads", "blob", "tags", "referrers"}

Untrusted(q) == config.enabled /\ ~q.info.authenticated

\* The tenant of a request comes from a token that proves it.
OwnTenant(q) ==
    q.info.tenant # DefaultTenant =>
        /\ q.header.scheme = "Bearer"
        /\ q.header.key = config.jwt_secret
        /\ ~q.header.expired
        /\ q.header.claim = q.info.tenant

\* Where a request may be.
Allowed(q) ==
    /\ q.pc = "route" => q.op = "none"
    /\ Untrusted(q) /\ q.pc = "route" =>
          /\ config.anonymous_pull
          /\ q.method \in {"GET", "HEAD"}
          /\ DataPlane(q.path)
    /\ Untrusted(q) /\ q.op \in Handlers =>
          config.anonymous_pull /\ q.op \in Reading
    /\ OwnTenant(q)

FrontInv == TypeOK /\ \A r \in DOMAIN req : Allowed(req[r])

LEMMA FrontInvSuffices ==
    ASSUME FrontInv
    PROVE  AnonymousOnlyReads /\ TenantNeedsToken
BY DEF FrontInv, Allowed, Untrusted, OwnTenant, AnonymousOnlyReads,
       TenantNeedsToken

-----------------------------------------------------------------------------
(* The tables of the router *)

LEMMA PatternFacts ==
    ASSUME NEW k \in DOMAIN Pattern
    PROVE  Pattern[k].kind \in Kind /\ Len(Pattern[k].words) \in 1..3
<1>1. k \in 1..7
  BY DEF Pattern
<1>2. /\ Pattern[1].kind = "manifest" /\ Pattern[2].kind = "upload"
      /\ Pattern[3].kind = "uploads" /\ Pattern[4].kind = "uploads"
      /\ Pattern[5].kind = "blob" /\ Pattern[6].kind = "tags"
      /\ Pattern[7].kind = "referrers"
  BY DEF Pattern
<1>3. k = 1 \/ k = 2 \/ k = 3 \/ k = 4 \/ k = 5 \/ k = 6 \/ k = 7
  BY <1>1
<1>4. Pattern[k].kind \in Kind
  BY <1>2, <1>3 DEF Kind
<1>5. /\ Len(Pattern[1].words) = 1 /\ Len(Pattern[2].words) = 2
      /\ Len(Pattern[3].words) = 3 /\ Len(Pattern[4].words) = 2
      /\ Len(Pattern[5].words) = 1 /\ Len(Pattern[6].words) = 2
      /\ Len(Pattern[7].words) = 1
  BY DEF Pattern
<1>6. Len(Pattern[k].words) \in 1..3
  BY <1>3, <1>5
<1> QED BY <1>4, <1>6

\* Every kind has handlers, and those of the reading methods only read.
LEMMA OperationFacts ==
    ASSUME NEW k \in Kind, NEW m \in DOMAIN Operation[k]
    PROVE  /\ Operation[k][m] \in Handlers
           /\ m \in {"GET", "HEAD"} => Operation[k][m] \in Reading
BY DEF Operation, Kind, Handlers, Reading

LEMMA GetOrHead ==
    ASSUME NEW o, NEW by, by = [GET |-> o, HEAD |-> o], NEW m \in DOMAIN by
    PROVE  by[m] = o
OBVIOUS

\* Of the routes that name no repository those below /v2/ only read.
LEMMA FixedFacts ==
    ASSUME NEW f \in Fixed, NEW m \in DOMAIN f.by
    PROVE  /\ f.by[m] \in Handlers
           /\ DataPlane(f.path) => f.by[m] \in Reading
<1>1. CASE f = [path |-> <<"v2", "">>, by |-> [GET  |-> "version_check",
                                               HEAD |-> "version_check"]]
  <2>1. PICK by : /\ f.by = by
                  /\ by = [GET |-> "version_check", HEAD |-> "version_check"]
    BY <1>1
  <2>2. f.by[m] = "version_check"
    BY <2>1, GetOrHead
  <2> QED BY <2>2 DEF Handlers, Reading
<1>2. CASE f = [path |-> <<"v2", "_catalog">>,
                by |-> [GET |-> "list_repositories"]]
  BY <1>2 DEF Handlers, Reading
<1>3. CASE f = [path |-> <<"api", "v1", "info">>,
                by |-> [GET |-> "get_info", HEAD |-> "get_info"]]
  BY <1>3 DEF Handlers, DataPlane
<1>4. CASE f = [path |-> <<"api", "v1", "gc">>, by |-> [POST |-> "start_gc"]]
  BY <1>4 DEF Handlers, DataPlane
<1>5. CASE \E job \in Segment \ {""} :
              f = [path |-> <<"api", "v1", "gc", job>>,
                   by |-> [GET |-> "get_gc_job", HEAD |-> "get_gc_job"]]
  <2>1. PICK p, by : /\ f = [path |-> p, by |-> by]
                     /\ by = [GET |-> "get_gc_job", HEAD |-> "get_gc_job"]
                     /\ \E job : p = <<"api", "v1", "gc", job>>
    BY <1>5
  <2>2. f.path = p /\ f.by = by /\ p[1] # "v2"
    BY <2>1
  <2>3. f.by[m] = "get_gc_job"
    BY <2>1, <2>2, GetOrHead
  <2> QED BY <2>2, <2>3 DEF Handlers, DataPlane
<1> QED BY <1>1, <1>2, <1>3, <1>4, <1>5 DEF Fixed

-----------------------------------------------------------------------------
(* Who asks *)

LEMMA HeaderCases ==
    ASSUME NEW h \in Header
    PROVE  \/ h.scheme = "none"
           \/ h.scheme = "Basic"
           \/ h.scheme = "Bearer" /\ h.claim \in Tenant \cup {NoClaim}
BY HeaderAssumption

LEMMA InfoFacts ==
    ASSUME NEW t \in Tenant, NEW a \in BOOLEAN
    PROVE  /\ Info(t, a) \in [tenant : Tenant, authenticated : BOOLEAN]
           /\ Info(t, a).tenant = t
BY DEF Info

LEMMA AuthInfoFacts ==
    ASSUME NEW h \in Header
    PROVE  /\ AuthInfo(h) \in [tenant : Tenant, authenticated : BOOLEAN]
           /\ AuthInfo(h).tenant # DefaultTenant =>
                 /\ h.scheme = "Bearer"
                 /\ h.key = config.jwt_secret
                 /\ ~h.expired
                 /\ h.claim = AuthInfo(h).tenant
<1>1. ASSUME NEW a \in BOOLEAN, AuthInfo(h) = Info(DefaultTenant, a)
      PROVE  /\ AuthInfo(h) \in [tenant : Tenant, authenticated : BOOLEAN]
             /\ AuthInfo(h).tenant = DefaultTenant
  BY <1>1, InfoFacts, TenantAssumption
<1>2. CASE AuthInfo(h) = Info(DefaultTenant, TRUE) \/ AuthInfo(h) = Anonymous
  BY <1>1, <1>2 DEF Anonymous
<1>3. CASE /\ h.scheme = "Bearer"
           /\ h.key = config.jwt_secret /\ ~h.expired
           /\ AuthInfo(h) = Info(ParseTenant(h.claim), TRUE)
  <2>1. CASE h.claim = NoClaim
    BY <1>1, <1>3, <2>1 DEF ParseTenant
  <2>2. CASE h.claim # NoClaim
    <3>1. h.claim \in Tenant /\ ParseTenant(h.claim) = h.claim
      BY <1>3, <2>2, HeaderCases DEF ParseTenant
    <3>2. PICK t \in Tenant : t = h.claim /\ AuthInfo(h) = Info(t, TRUE)
      BY <1>3, <3>1
    <3>3. /\ Info(t, TRUE) \in [tenant : Tenant, authenticated : BOOLEAN]
          /\ Info(t, TRUE).tenant = t
      BY InfoFacts
    <3> QED BY <1>3, <3>2, <3>3
  <2> QED BY <2>1, <2>2
<1>4. CASE h.scheme = "Bearer"
  <2>1. AuthInfo(h) = ValidateBearer(h)
    BY <1>4 DEF AuthInfo
  <2> QED BY <1>2, <1>3, <1>4, <2>1 DEF ValidateBearer
<1>5. CASE h.scheme # "Bearer"
  BY <1>2, <1>5 DEF AuthInfo, ValidateBasic
<1> QED BY <1>4, <1>5

-----------------------------------------------------------------------------
(* A request on its way *)

\* A reply, of a handler or not, leaves of the request all but what became of
\* it.
LEMMA AnswerEffect ==
    ASSUME FrontInv, UNCHANGED config, NEW r \in DOMAIN req,
           NEW o \in Handlers \cup Refusal,
           NEW n \in Seq(Segment), NEW a \in Seq(Segment),
           Answer(r, o, n, a),
           Untrusted(req[r]) /\ o \in Handlers =>
               config.anonymous_pull /\ o \in Reading
    PROVE  FrontInv'
<1>1. IsTable(req, Slot, RequestState) /\ req[r] \in RequestState
      /\ Allowed(req[r]) /\ r \in Slot
  BY DEF FrontInv, TypeOK, IsTable
<1>2. PICK q : q = Done(req[r], o, n, a) /\ req' = With(req, r, q)
  BY DEF Answer
<1>3. /\ q \in RequestState /\ q.pc = "done" /\ q.op = o
      /\ q.info = req[r].info /\ q.header = req[r].header
  BY <1>1, <1>2 DEF Done, RequestState
<1>4. IsTable(req', Slot, RequestState)
  BY <1>1, <1>2, <1>3, WithTable
<1>5. Allowed(q)
  BY <1>1, <1>3 DEF Allowed, Untrusted, OwnTenant
<1>6. \A s \in DOMAIN req' :
          req'[s] = q \/ (s \in DOMAIN req /\ req'[s] = req[s])
  BY <1>2 DEF With
<1>7. \A s \in DOMAIN req' : Allowed(req[s])'
  BY <1>5, <1>6 DEF FrontInv, Allowed, Untrusted, OwnTenant
<1> QED BY <1>4, <1>7 DEF FrontInv, TypeOK

LEMMA RefuseEffect ==
    ASSUME FrontInv, UNCHANGED config, NEW r \in DOMAIN req,
           NEW code \in Refusal, Refuse(r, code)
    PROVE  FrontInv'
<1>1. code \notin Handlers
  BY DEF Refusal, Handlers, Reading
<1>2. <<>> \in Seq(Segment) /\ Answer(r, code, <<>>, <<>>)
  BY DEF Refuse
<1> QED BY <1>1, <1>2, AnswerEffect

\* The two parts of a path that was found to match are paths.
LEMMA FoundFacts ==
    ASSUME NEW p \in Seq(Segment), NEW x, Len(x.words) \in 1..3,
           NEW c \in Found(p, x)
    PROVE  c[1] \in Seq(Segment) /\ c[2] \in Seq(Segment)
<1>1. CASE x.ends
  <2>1. PICK i \in {Len(p) - Len(x.words)} :
            i > 0 /\ c = <<SubSeq(p, 1, Len(p) - Len(x.words)), <<>>>>
    BY <1>1 DEF Found, StripSuffix
  <2> QED BY <2>1
<1>2. CASE ~x.ends
  <2>1. PICK i \in Places(p, x.words) : c = Cut(p, i, x.words)
    BY <1>2 DEF Found, SplitLast
  <2> QED BY <2>1 DEF Cut, Places
<1> QED BY <1>1, <1>2

LEMMA PathFacts ==
    ASSUME FrontInv, NEW r \in DOMAIN req
    PROVE  /\ req[r] \in RequestState /\ Allowed(req[r])
           /\ req[r].path \in Seq(Segment) /\ req[r].path # <<>>
           /\ req[r].method \in Method
<1>1. req[r] \in RequestState /\ Allowed(req[r])
  BY DEF FrontInv, TypeOK, IsTable
<1> QED BY <1>1, PathAssumption DEF RequestState

LEMMA RouteNamedStep ==
    ASSUME FrontInv, UNCHANGED config, NEW r \in Slot, At(r, "route"),
           DataPlane(req[r].path), NEW k \in Kind,
           NEW n \in Seq(Segment), NEW a \in Seq(Segment),
           RouteNamed(r, k, n, a)
    PROVE  FrontInv'
<1>1. r \in DOMAIN req /\ req[r].pc = "route"
  BY DEF At
<1>2. CASE \E code \in Refusal : Refuse(r, code)
  BY <1>1, <1>2, RefuseEffect
<1>3. ASSUME NEW o, o = Operation[k][req[r].method],
             req[r].method \in DOMAIN Operation[k], Answer(r, o, n, a)
      PROVE  FrontInv'
  <2>1. o \in Handlers
    BY <1>3, OperationFacts
  <2>2. Untrusted(req[r]) =>
            config.anonymous_pull /\ req[r].method \in {"GET", "HEAD"}
    BY <1>1, PathFacts DEF Allowed
  <2>3. Untrusted(req[r]) => config.anonymous_pull /\ o \in Reading
    BY <1>3, <2>2, OperationFacts
  <2> QED BY <1>1, <1>3, <2>1, <2>3, AnswerEffect
<1>4. {"NAME_INVALID", "405", "UNSUPPORTED", "DIGEST_INVALID",
       InvalidReference(k)} \subseteq Refusal
  BY DEF Refusal, InvalidReference
<1>5. \/ \E code \in Refusal : Refuse(r, code)
      \/ /\ req[r].method \in DOMAIN Operation[k]
         /\ Answer(r, Operation[k][req[r].method], n, a)
  BY <1>4 DEF RouteNamed
<1> QED BY <1>2, <1>3, <1>5

LEMMA DispatchStep ==
    ASSUME FrontInv, NEW r \in Slot,
           DispatchNamed(r) \/ DispatchFixed(r) \/ DispatchUnknown(r)
    PROVE  FrontInv'
<1>1. /\ UNCHANGED config /\ At(r, "route")
      /\ r \in DOMAIN req /\ req[r].pc = "route"
  BY DEF DispatchNamed, DispatchFixed, DispatchUnknown, At
<1>2. CASE DispatchNamed(r)
  <2>0. PICK k \in DOMAIN Pattern :
            \E c \in Found(Tail(req[r].path), Pattern[k]) :
                RouteNamed(r, Pattern[k].kind, c[1], c[2])
    BY <1>2 DEF DispatchNamed
  <2>1. PICK c \in Found(Tail(req[r].path), Pattern[k]) :
            RouteNamed(r, Pattern[k].kind, c[1], c[2])
    BY <2>0
  <2>2. Tail(req[r].path) \in Seq(Segment)
    BY <1>1, PathFacts
  <2>3. Pattern[k].kind \in Kind /\ c[1] \in Seq(Segment) /\ c[2] \in Seq(Segment)
    BY <2>1, <2>2, PatternFacts, FoundFacts
  <2>4. DataPlane(req[r].path)
    BY <1>2 DEF DispatchNamed
  <2> QED BY <1>1, <2>1, <2>3, <2>4, RouteNamedStep
<1>3. CASE DispatchFixed(r)
  <2>1. PICK f \in Fixed :
            /\ f.path = req[r].path
            /\ IF req[r].method \in DOMAIN f.by
               THEN Answer(r, f.by[req[r].method], <<>>, <<>>)
               ELSE Refuse(r, "405")
    BY <1>3 DEF DispatchFixed
  <2>2. CASE req[r].method \notin DOMAIN f.by
    <3>1. "405" \in Refusal
      BY DEF Refusal
    <3> QED BY <1>1, <2>1, <2>2, <3>1, RefuseEffect
  <2>3. CASE req[r].method \in DOMAIN f.by
    <3>1. PICK o : o = f.by[req[r].method] /\ Answer(r, o, <<>>, <<>>)
      BY <2>1, <2>3
    <3>2. o \in Handlers /\ (DataPlane(f.path) => o \in Reading)
      BY <2>3, <3>1, FixedFacts
    <3>3. Untrusted(req[r]) => config.anonymous_pull /\ DataPlane(f.path)
      BY <1>1, <2>1, PathFacts DEF Allowed
    <3>4. <<>> \in Seq(Segment)
      OBVIOUS
    <3> QED BY <1>1, <3>1, <3>2, <3>3, <3>4, AnswerEffect
  <2> QED BY <2>2, <2>3
<1>4. CASE DispatchUnknown(r)
  <2>1. "404" \in Refusal /\ Refuse(r, "404")
    BY <1>4 DEF DispatchUnknown, Refusal
  <2> QED BY <1>1, <2>1, RefuseEffect
<1> QED BY <1>2, <1>3, <1>4

\* A request is taken into a free slot.
LEMMA SlotTaken ==
    ASSUME FrontInv, UNCHANGED config, NEW r \in Slot,
           NEW q \in RequestState, Allowed(q), req' = With(req, r, q)
    PROVE  FrontInv'
<1>1. IsTable(req, Slot, RequestState)
  BY DEF FrontInv, TypeOK
<1>2. IsTable(req', Slot, RequestState)
  BY <1>1, WithTable
<1>3. \A s \in DOMAIN req' :
          req'[s] = q \/ (s \in DOMAIN req /\ req'[s] = req[s])
  BY DEF With
<1>4. \A s \in DOMAIN req' : Allowed(req[s])'
  BY <1>3 DEF FrontInv, Allowed, Untrusted, OwnTenant
<1> QED BY <1>2, <1>4 DEF FrontInv, TypeOK

LEMMA ArrivedFields ==
    ASSUME NEW m \in Method, NEW p \in Path, NEW d \in BOOLEAN, NEW h \in Header,
           NEW i \in [tenant : Tenant, authenticated : BOOLEAN],
           NEW o \in Refusal \cup {"health"}
    PROVE  /\ Arrived(m, p, d, h, i) \in RequestState
           /\ Done(Arrived(m, p, d, h, i), o, <<>>, <<>>) \in RequestState
           /\ Arrived(m, p, d, h, i).pc = "route"
           /\ Arrived(m, p, d, h, i).op = "none"
           /\ Arrived(m, p, d, h, i).method = m
           /\ Arrived(m, p, d, h, i).path = p
           /\ Arrived(m, p, d, h, i).header = h
           /\ Arrived(m, p, d, h, i).info = i
<1>1. PICK q : q = Arrived(m, p, d, h, i)
  OBVIOUS
<1>2. /\ q \in RequestState
      /\ q.pc = "route" /\ q.op = "none" /\ q.method = m /\ q.path = p
      /\ q.header = h /\ q.info = i
  BY <1>1 DEF Arrived, RequestState
<1>3. PICK x, e : x = Done(q, o, e, e) /\ e = <<>>
  OBVIOUS
<1>4. e \in Seq(Segment)
  BY <1>3
<1>5. x \in RequestState
  BY <1>2, <1>3, <1>4 DEF Done, RequestState
<1> QED BY <1>1, <1>2, <1>3, <1>5

LEMMA AuthenticateStep ==
    ASSUME FrontInv, NEW r \in Slot, NEW m \in Method, NEW p \in Path,
           NEW d \in BOOLEAN, NEW h \in Header, Authenticate(r, m, p, d, h)
    PROVE  FrontInv'
<1>1. PICK i, q : /\ i = AuthInfo(h)
                  /\ q = Arrived(m, p, d, h, i)
                  /\ req' = With(req, r, IF Passes(m, p, i)
                                 THEN q ELSE Done(q, "401", <<>>, <<>>))
  BY DEF Authenticate
<1>2. UNCHANGED config /\ "401" \in Refusal
  BY DEF Authenticate, Refusal
<1>3. i \in [tenant : Tenant, authenticated : BOOLEAN]
  BY <1>1, AuthInfoFacts
<1>4. /\ q \in RequestState /\ Done(q, "401", <<>>, <<>>) \in RequestState
      /\ q.pc = "route" /\ q.op = "none" /\ q.method = m /\ q.path = p
      /\ q.header = h /\ q.info = i
  BY <1>1, <1>2, <1>3, ArrivedFields
<1>5. OwnTenant(q)
  BY <1>1, <1>4, AuthInfoFacts DEF OwnTenant
<1>6. CASE Passes(m, p, i)
  <2>1. Allowed(q)
    BY <1>4, <1>5, <1>6 DEF Allowed, Untrusted, Passes, Handlers, Reading
  <2> QED BY <1>1, <1>2, <1>4, <1>6, <2>1, SlotTaken
<1>7. CASE ~Passes(m, p, i)
  <2>1. PICK x : x = Done(q, "401", <<>>, <<>>)
    OBVIOUS
  <2>2. x.pc = "done" /\ x.op = "401" /\ x.info = q.info /\ x.header = q.header
    BY <1>4, <2>1 DEF Done, RequestState
  <2>3. Allowed(x)
    BY <1>5, <2>2 DEF Allowed, OwnTenant, Handlers, Reading
  <2> QED BY <1>1, <1>2, <1>4, <1>7, <2>1, <2>3, SlotTaken
<1> QED BY <1>6, <1>7

LEMMA CheckHealthStep ==
    ASSUME FrontInv, NEW r \in Slot, NEW m \in Method, NEW p \in Path,
           NEW d \in BOOLEAN, NEW h \in Header, CheckHealth(r, m, p, d, h)
    PROVE  FrontInv'
<1>1. PICK o, q, x :
          /\ o \in {"health", "405"}
          /\ q = Arrived(m, p, d, h, Anonymous)
          /\ x = Done(q, o, <<>>, <<>>)
          /\ req' = With(req, r, x)
  BY DEF CheckHealth
<1>2. UNCHANGED config /\ o \in Refusal \cup {"health"} /\ o \notin Handlers
  BY <1>1 DEF CheckHealth, Refusal, Handlers, Reading
<1>3. /\ Anonymous \in [tenant : Tenant, authenticated : BOOLEAN]
      /\ Anonymous.tenant = DefaultTenant
  BY InfoFacts, TenantAssumption DEF Anonymous
<1>4. x \in RequestState /\ q \in RequestState /\ q.info = Anonymous
  BY <1>1, <1>2, <1>3, ArrivedFields
<1>5. x.pc = "done" /\ x.op = o /\ x.info = q.info
  BY <1>1, <1>4 DEF Done, RequestState
<1>6. Allowed(x)
  BY <1>2, <1>3, <1>4, <1>5 DEF Allowed, OwnTenant
<1> QED BY <1>1, <1>2, <1>4, <1>6, SlotTaken

LEMMA ReplyStep ==
    ASSUME FrontInv, NEW r \in Slot, Reply(r)
    PROVE  FrontInv'
<1>1. req' = Without(req, r) /\ UNCHANGED config
  BY DEF Reply
<1>2. IsTable(req, Slot, RequestState)
  BY DEF FrontInv, TypeOK
<1>3. IsTable(req', Slot, RequestState)
  BY <1>1, <1>2, WithoutTable
<1>4. \A s \in DOMAIN req' : s \in DOMAIN req /\ req'[s] = req[s]
  BY <1>1 DEF Without
<1>5. \A s \in DOMAIN req' : Allowed(req[s])'
  BY <1>1, <1>4 DEF FrontInv, Allowed, Untrusted, OwnTenant
<1> QED BY <1>1, <1>3, <1>5 DEF FrontInv, TypeOK

-----------------------------------------------------------------------------
(* The theorems *)

LEMMA InitFront == Init => FrontInv
BY DEF Init, FrontInv, TypeOK, IsTable, Empty

LEMMA NextFront == FrontInv /\ [Next]_vars => FrontInv'
<1> SUFFICES ASSUME FrontInv, [Next]_vars PROVE FrontInv'
  OBVIOUS
<1>1. ASSUME NEW r \in Slot, Receive(r) PROVE FrontInv'
  BY <1>1, AuthenticateStep, CheckHealthStep DEF Receive
<1>2. ASSUME NEW r \in Slot,
             DispatchNamed(r) \/ DispatchFixed(r) \/ DispatchUnknown(r)
      PROVE  FrontInv'
  BY <1>2, DispatchStep
<1>3. ASSUME NEW r \in Slot, Reply(r) PROVE FrontInv'
  BY <1>3, ReplyStep
<1>4. CASE UNCHANGED vars
  BY <1>4 DEF vars, FrontInv, TypeOK, Allowed, Untrusted, OwnTenant
<1> QED BY <1>1, <1>2, <1>3, <1>4 DEF Next

THEOREM FrontInvCorrect == Spec => []FrontInv
BY InitFront, NextFront, PTL DEF Spec

\* Every reachable state has its types, whatever the paths, headers and
\* configurations.
THEOREM TypeCorrect == Spec => []TypeOK
<1>1. FrontInv => TypeOK
  BY DEF FrontInv
<1> QED BY <1>1, FrontInvCorrect, PTL

\* With authentication enabled, an anonymous request reaches no handler but one
\* that reads, and that only if anonymous pulls are allowed.
THEOREM AnonymousOnlyReadsCorrect == Spec => []AnonymousOnlyReads
BY FrontInvCorrect, FrontInvSuffices, PTL

\* A request acts for another tenant than the default one only with a token for
\* it that the configured secret has signed and that the JWT library does not
\* call expired.
THEOREM TenantNeedsTokenCorrect == Spec => []TenantNeedsToken
BY FrontInvCorrect, FrontInvSuffices, PTL
=============================================================================
