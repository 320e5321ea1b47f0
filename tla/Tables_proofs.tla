--------------------------- MODULE Tables_proofs ---------------------------
(* What the ways to change a table do to its type, its keys and its rows.  *)
EXTENDS Tables, TLAPS

LEMMA WithTable ==
    ASSUME NEW K, NEW V, NEW f, IsTable(f, K, V), NEW k \in K, NEW v \in V,
           NEW g, g = With(f, k, v)
    PROVE  /\ IsTable(g, K, V)
           /\ DOMAIN g = DOMAIN f \cup {k}
           /\ g[k] = v
           /\ \A i \in DOMAIN f : i # k => g[i] = f[i]
BY DEF IsTable, With

LEMMA WithoutTable ==
    ASSUME NEW K, NEW V, NEW f, IsTable(f, K, V), NEW k,
           NEW g, g = Without(f, k)
    PROVE  /\ IsTable(g, K, V)
           /\ DOMAIN g = DOMAIN f \ {k}
           /\ \A i \in DOMAIN f \ {k} : g[i] = f[i]
BY DEF IsTable, Without

LEMMA ExceptTable ==
    ASSUME NEW K, NEW V, NEW f, IsTable(f, K, V), NEW k \in DOMAIN f,
           NEW v \in V, NEW g, g = [f EXCEPT ![k] = v]
    PROVE  /\ IsTable(g, K, V)
           /\ DOMAIN g = DOMAIN f
           /\ g[k] = v
           /\ \A i \in DOMAIN f : i # k => g[i] = f[i]
BY DEF IsTable
=============================================================================
