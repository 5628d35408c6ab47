------------------------------ MODULE MCDirectory ------------------------------
EXTENDS Directory, TLC

CONSTANTS j1, j2, j3, a1, a2, n1, n2, n3, k1, k2

Sources == k1 :> n1 @@ k2 :> n2

Homes == j1 :> a1 @@ j2 :> a2 @@ j3 :> None

\* Commands that touch the same records are run together, on as many Nodes as
\* their interplay needs.
Together ==
  {[commands |-> {"ensure", "move"}, nodes |-> {}],
   [commands |-> {"register", "retire", "link"}, nodes |-> {n1, n2, n3}],
   [commands |-> {"register", "retire", "classify"}, nodes |-> {n1, n2, n3}],
   [commands |-> {"observe", "retire"}, nodes |-> {n1}],
   [commands |-> {"register", "retire", "ensureCluster", "changeMember",
                  "recoverCluster", "removeCluster"}, nodes |-> {n1, n2}],
   [commands |-> {"register", "retire", "policy"}, nodes |-> {n1, n2}]}
=============================================================================
