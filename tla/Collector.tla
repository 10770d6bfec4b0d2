----------------------------- MODULE Collector -----------------------------
(***************************************************************************)
(* The shared short-lived cache of process snapshots and process trees.    *)
(*                                                                         *)
(* Data are represented by the moment at which /proc was read for them, so *)
(* the age of an answer is how far it lags behind the system.  Trees of    *)
(* different roots do not touch each other, so one root stands for all.    *)
(* Every locked section is a step; a call may take up to MaxDelay in all   *)
(* between and inside its steps.                                           *)
(***************************************************************************)
EXTENDS Integers

CONSTANTS Caller,     \* goroutines that use the collector
          TTL,        \* snapshotTTL
          MaxDelay,   \* bound: how long one call lasts
          MaxTime     \* bound: when the clock stops

ASSUME TimeAssumption == TTL \in Nat /\ MaxDelay \in Nat /\ MaxTime \in Nat

Never == -1           \* the zero time.Time

VARIABLES now,        \* the clock
          snapshot,   \* c.processes: when it was stored, when its data were read
          tree,       \* c.trees[root], likewise
          call        \* for each caller, its call of Processes or ProcessTree

vars == <<now, snapshot, tree, call>>

Entry   == [at : Int, born : Int]
Nothing == [at |-> Never, born |-> Never]

PC   == {"idle", "loadTree", "load", "scan", "store", "storeTree"}
Call == [op : {"list", "tree"}, pc : PC, began : Int, got : Int, age : Int]

Fresh(entry) == entry.at # Never /\ now - entry.at <= TTL

\* The call of c goes on at pc.
GoesOn(c, pc) == call' = [call EXCEPT ![c].pc = pc]

\* The call of c has the data read at `born': a list is answered with them,
\* ProcessTree goes on to build its tree from them.
Has(c, born) ==
    call' = [call EXCEPT ![c].got = born,
                         ![c].age = IF call[c].op = "list" THEN now - born ELSE @,
                         ![c].pc  = IF call[c].op = "list" THEN "idle" ELSE "storeTree"]

Ask(c, op) ==
    /\ call[c].pc = "idle"
    /\ call' = [call EXCEPT ![c] = [op |-> op, pc |-> IF op = "list" THEN "load" ELSE "loadTree",
                                    began |-> now, got |-> now, age |-> 0]]
    /\ UNCHANGED <<now, snapshot, tree>>

\* Mutant: a cached tree is served however old it is.
LoadAnyTree(c) ==
    /\ call[c].pc = "loadTree"
    /\ IF tree.at # Never
         THEN call' = [call EXCEPT ![c].pc = "idle", ![c].age = now - tree.born]
         ELSE GoesOn(c, "load")
    /\ UNCHANGED <<now, snapshot, tree>>

LoadTree(c) ==
    /\ call[c].pc = "loadTree"
    /\ IF Fresh(tree)
         THEN call' = [call EXCEPT ![c].pc = "idle", ![c].age = now - tree.born]
         ELSE GoesOn(c, "load")
    /\ UNCHANGED <<now, snapshot, tree>>

LoadProcesses(c) ==
    /\ call[c].pc = "load"
    /\ IF Fresh(snapshot) THEN Has(c, snapshot.born) ELSE GoesOn(c, "scan")
    /\ UNCHANGED <<now, snapshot, tree>>

\* parse.AllProcesses reads /proc, or fails and the call with it.  No lock is
\* held: several callers may scan at once.
ScanProc(c) ==
    /\ call[c].pc = "scan"
    /\ \/ call' = [call EXCEPT ![c].got = now, ![c].pc = "store"]
       \/ GoesOn(c, "idle")
    /\ UNCHANGED <<now, snapshot, tree>>

\* Mutant: the trees of the previous snapshot survive.
StoreKeepingTrees(c) ==
    /\ call[c].pc = "store"
    /\ snapshot' = [at |-> now, born |-> call[c].got]
    /\ Has(c, call[c].got)
    /\ UNCHANGED <<now, tree>>

\* storeProcesses stamps the data with the time of storing and drops all trees.
StoreProcesses(c) ==
    /\ call[c].pc = "store"
    /\ snapshot' = [at |-> now, born |-> call[c].got]
    /\ tree' = Nothing
    /\ Has(c, call[c].got)
    /\ UNCHANGED now

\* Mutant: the entry does not say what it was built from.
StoreBareTree(c) ==
    /\ call[c].pc = "storeTree"
    /\ tree' = [at |-> now]
    /\ call' = [call EXCEPT ![c].pc = "idle", ![c].age = now - call[c].got]
    /\ UNCHANGED <<now, snapshot>>

\* storeTree stamps the tree with the time of storing, whatever it was built from.
StoreTree(c) ==
    /\ call[c].pc = "storeTree"
    /\ tree' = [at |-> now, born |-> call[c].got]
    /\ call' = [call EXCEPT ![c].pc = "idle", ![c].age = now - call[c].got]
    /\ UNCHANGED <<now, snapshot>>

\* Time passes, but no call lasts longer than MaxDelay.
Tick ==
    /\ now < MaxTime
    /\ \A c \in Caller : call[c].pc # "idle" => now - call[c].began < MaxDelay
    /\ now' = now + 1
    /\ UNCHANGED <<snapshot, tree, call>>

Init ==
    /\ now = 0
    /\ snapshot = Nothing /\ tree = Nothing
    /\ call = [c \in Caller |-> [op |-> "list", pc |-> "idle", began |-> 0, got |-> 0, age |-> 0]]

Next ==
    \/ Tick
    \/ \E c \in Caller :
         \/ \E op \in {"list", "tree"} : Ask(c, op)
         \/ LoadTree(c) \/ LoadProcesses(c) \/ ScanProc(c) \/ StoreProcesses(c) \/ StoreTree(c)

Spec == Init /\ [][Next]_vars

-----------------------------------------------------------------------------
\* Every variable stays in its set.
TypeOK ==
    /\ now \in Nat
    /\ snapshot \in Entry /\ tree \in Entry
    /\ call \in [Caller -> Call]

MaxAge(op) == IF op = "list" THEN TTL + MaxDelay ELSE 2 * (TTL + MaxDelay)

\* How far an answer may lag behind the system: a list by one TTL and one
\* call, a tree by two of each, since a tree built from an old snapshot starts
\* a TTL of its own (collector.go, loadTree, storeTree).
AgeBounded == \A c \in Caller : call[c].pc = "idle" => call[c].age <= MaxAge(call[c].op)

\* A cached tree lags behind the snapshot beside it no further than two slow
\* calls and a TTL: a fresh snapshot drops the trees of the one before, and only
\* a call that was under way then can bring an older one back (collector.go,
\* storeProcesses and storeTree).
TreeKeepsUp == tree.at # Never => snapshot.born - tree.born <= TTL + 2 * MaxDelay
=============================================================================
