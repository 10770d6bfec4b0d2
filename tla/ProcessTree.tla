---------------------------- MODULE ProcessTree ----------------------------
(***************************************************************************)
(* The trees of the process table, as internal/collector walks them: who   *)
(* is in the tree of a root, and in which orders walkTree may return it.   *)
(* Defined without recursion, so that theorems can speak of them.          *)
(***************************************************************************)
EXTENDS Naturals, FiniteSets, Sequences

\* The processes of a tree: what every set that holds the root and is closed
\* under "child of" must hold.  The root counts even if it is gone.
TreeOf(root, running, parent) ==
    LET nodes == running \cup {root}
        Closed(S) == root \in S /\ \A p \in running : parent[p] \in S => p \in S
    IN  {p \in nodes : \A S \in SUBSET nodes : Closed(S) => p \in S}

\* What walkTree may return: each process closes the block of its descendants,
\* siblings come in any order (a scan's workers finish in any order).
Walks(root, running, parent) ==
    LET D == TreeOf(root, running, parent)
        n == Cardinality(D)
    IN  {s \in [1..n -> D] :
           /\ s[n] = root
           /\ \A i, j \in 1..n : s[i] = s[j] => i = j
           /\ \A i \in 1..n :
                LET B == TreeOf(s[i], running, parent)
                    k == Cardinality(B)
                IN  k <= i /\ {s[j] : j \in (i - k + 1)..i} = B}

\* The root before its descendants.
WalksFromRoot(root, running, parent) ==
    LET D == TreeOf(root, running, parent)
    IN  {s \in [1..Cardinality(D) -> D] :
           s[1] = root /\ \A i, j \in 1..Cardinality(D) : s[i] = s[j] => i = j}

\* The table after the processes K end: their children go to init.
Reparented(parent, K, init) ==
    [p \in DOMAIN parent |-> IF p \in K \/ parent[p] \in K THEN init ELSE parent[p]]
=============================================================================
