---------------------------- MODULE MCRetrieval ----------------------------
EXTENDS Retrieval, TLC

CONSTANTS c1, u1, u2, r1, r2

A(kind, user, admin, m, rerank) ==
    [kind |-> kind, user |-> user, admin |-> admin, mode |-> m, rerank |-> rerank]

Alone == {A("multi", u1, FALSE, "hybrid", FALSE), A("multi", u1, TRUE, "hybrid", TRUE),
          A("explain", u1, TRUE, "keyword", TRUE), A("explain", u1, TRUE, "hybrid", FALSE),
          A("explain", u1, FALSE, "hybrid", FALSE),
          A("retrieve", u1, FALSE, "semantic", FALSE)}
Pairs == {<<A("retrieve", u1, TRUE, "hybrid", TRUE), A("retrieve", u1, FALSE, "hybrid", TRUE)>>}
MCScenarios ==
    {(r1 :> s) @@ (r2 :> NoSearch) : s \in Alone} \cup
    {(r1 :> p[1]) @@ (r2 :> p[2]) : p \in Pairs}
MCQueries == {1, 2}
=============================================================================
