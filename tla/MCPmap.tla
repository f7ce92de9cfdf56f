------------------------------- MODULE MCPmap -------------------------------
EXTENDS Pmap

CONSTANTS e1, e2, e3

TwoEnvs == {e1, e2}
ThreeEnvs == {e1, e2, e3}

\* Two page numbers with third-level tables of their own in one second-level table.
\* They need more than the low 4 bits, and with USTACKTOP = 17 fork copies only 16.
TwoPages == {16, 18}

\* States that differ only in which page serves for what are the same state: a
\* page is told by who refers to it, and pages nobody refers to are counted.
PageView ==
    <<{[refs |-> References(p), count |-> m.pp_ref[p], passed |-> p \in shared,
        cached |-> {<<t.env, t.va, t.entry.perm>> : t \in {u \in m.tlb : u.entry.page = p}}] :
            p \in Page},
      [n \in 0 .. 1 |-> Cardinality({p \in Page : m.pp_ref[p] = n /\ References(p) = {}})],
      Cardinality(m.page_free_list),
      [e \in Env |-> [va \in VA |-> m.p3[e][va].perm]],
      live, parent, task, panicked>>
=============================================================================
