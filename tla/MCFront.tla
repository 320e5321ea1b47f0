------------------------------ MODULE MCFront ------------------------------
(* A small instance of Front for TLC. *)
EXTENDS Front

CONSTANTS k1, k2, u1, u2, t0, t1

Words == {"manifests", "blobs", "uploads", "tags", "list", "referrers"}

MCRepoSegment == Words \cup {"a", "b", "id", "_catalog", "long"}

MCLeadingSegment == MCRepoSegment \ {"_catalog"}

\* "long" alone is longer than a name may be.
MCLongName == {n \in Seq(MCRepoSegment) : \E i \in DOMAIN n : n[i] = "long"}

MCTagName == Words \cup {"a", "b", "id", "V1"}

MCDigest == {"sha256:d"}

MCUploadId == {"id"}

MCSegment ==
    MCRepoSegment \cup MCTagName \cup MCDigest
    \cup {"", "v2", "api", "v1", "info", "gc", "healthz", "readyz"}

\* Names with every word of the router somewhere, and some that are invalid.
MCRepo == {
    <<"a">>, <<"a", "b">>, <<"manifests">>, <<"id">>, <<"a", "manifests">>,
    <<"a", "manifests", "b">>, <<"a", "blobs", "b">>, <<"a", "blobs", "uploads">>,
    <<"a", "tags", "list">>, <<"a", "referrers">>, <<"a", "_catalog">>,
    <<"">>, <<"a", "">>, <<"V1">>, <<"_catalog">>,
    <<"a", "long">>}

MCReference == {
    <<"sha256:d">>, <<"V1">>, <<"id">>, <<"list">>, <<"">>,
    <<"id", "sha256:d">>}

MCPath ==
    {<<"v2">> \o n \o Pattern[k].words \o a :
        n \in MCRepo, k \in {j \in DOMAIN Pattern : ~Pattern[j].ends},
        a \in MCReference}
    \cup {<<"v2">> \o n \o Pattern[k].words :
        n \in MCRepo, k \in {j \in DOMAIN Pattern : Pattern[j].ends}}
    \cup {f.path : f \in Fixed}
    \cup {<<"v2">>, <<"v2", "a">>, <<"v2", "blobs", "uploads">>, <<"api">>,
          <<"api", "v1", "gc", "">>, <<"healthz">>, <<"readyz">>}

Token(k, e, c) == [scheme |-> "Bearer", key |-> k, expired |-> e, claim |-> c]

MCHeader ==
    {[scheme |-> "none"], [scheme |-> "Basic", user |-> u1],
     [scheme |-> "Basic", user |-> u2], Token(k1, FALSE, t1),
     Token(k1, TRUE, t1), Token(k2, FALSE, t1), Token(k1, FALSE, NoClaim)}

Config(e, p, s, b) ==
    [enabled |-> e, anonymous_pull |-> p, jwt_secret |-> s,
     basic_credentials |-> b]

\* The default, the same with authentication, and that with secrets.
MCConfiguration ==
    {Config(FALSE, TRUE, NoSecret, {}), Config(TRUE, TRUE, NoSecret, {}),
     Config(TRUE, TRUE, k1, {u1}), Config(TRUE, FALSE, k1, {u1})}
=============================================================================
