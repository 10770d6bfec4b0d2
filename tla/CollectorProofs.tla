-------------------------- MODULE CollectorProofs --------------------------
(***************************************************************************)
(* How old an answer of the collector can be, for any number of callers,   *)
(* any TTL and any length of a call.                                       *)
(***************************************************************************)
EXTENDS Collector, TLAPS

\* What the bound rests on: the age an entry may have had when it was stored,
\* and the age of the data a call holds, reckoned from the start of the call.
EntriesOK ==
    /\ snapshot \in Entry /\ tree \in Entry
    /\ snapshot.at # Never => snapshot.at <= now /\ snapshot.at - snapshot.born <= MaxDelay
    /\ snapshot.born <= snapshot.at
    /\ tree.at # Never => /\ tree.at <= now /\ tree.at - tree.born <= TTL + 2 * MaxDelay
                          /\ snapshot.at <= tree.at

CallOK(k) ==
    /\ k \in Call
    /\ k.pc # "idle" => k.began <= now /\ now - k.began <= MaxDelay /\ k.age = 0
    /\ k.pc = "store" => k.began <= k.got /\ k.got <= now
    /\ k.pc = "storeTree" => k.began - k.got <= TTL + MaxDelay
    /\ k.pc \in {"loadTree", "storeTree"} => k.op = "tree"
    /\ k.pc = "idle" => k.age <= MaxAge(k.op)

IInv ==
    /\ now \in Nat
    /\ EntriesOK
    /\ call \in [Caller -> Call]
    /\ \A c \in Caller : CallOK(call[c])

LEMMA LagInit == Init => IInv
BY TimeAssumption
   DEF Init, IInv, EntriesOK, CallOK, MaxAge, Entry, Nothing, Never, Call, PC

\* A step of one caller: the others are as they were, and time stands still.
LEMMA CallerStep ==
    ASSUME IInv, NEW c \in Caller, NEW t, CallOK(t),
           call' = [call EXCEPT ![c] = t], now' = now, EntriesOK'
    PROVE  IInv'
<1>1. t \in Call
  BY DEF CallOK
<1>2. now' \in Nat /\ call' \in [Caller -> Call]
  BY <1>1 DEF IInv
<1>3. ASSUME NEW d \in Caller PROVE CallOK(call[d])'
  <2>1. call'[d] = IF d = c THEN t ELSE call[d]
    BY DEF IInv
  <2>2. CallOK(call'[d])
    BY <2>1 DEF IInv
  <2> QED
    BY <2>2 DEF CallOK
<1> QED
  BY <1>2, <1>3 DEF IInv

LEMMA LagNext == IInv /\ [Next]_vars => IInv'
<1> SUFFICES ASSUME IInv, [Next]_vars PROVE IInv'
  OBVIOUS
<1>0. /\ TTL \in Nat /\ MaxDelay \in Nat /\ now \in Nat /\ EntriesOK /\ call \in [Caller -> Call]
      /\ snapshot.at \in Int /\ snapshot.born \in Int /\ tree.at \in Int /\ tree.born \in Int
  BY TimeAssumption DEF IInv, EntriesOK, Entry
<1>1. CASE UNCHANGED vars
  BY <1>1 DEF vars, IInv, EntriesOK, CallOK
<1>2. CASE Tick
  <2>1. now' = now + 1 /\ UNCHANGED <<snapshot, tree, call>>
    BY <1>2 DEF Tick
  <2>2. EntriesOK'
    BY <1>0, <2>1 DEF EntriesOK
  <2>3. ASSUME NEW c \in Caller PROVE CallOK(call[c])'
    <3>1. /\ call[c].began \in Int /\ call[c].got \in Int /\ CallOK(call[c])
          /\ call[c].pc # "idle" => now - call[c].began < MaxDelay
      BY <1>0, <1>2 DEF Tick, Call, IInv
    <3> QED
      BY <1>0, <2>1, <3>1 DEF CallOK
  <2> QED
    BY <1>0, <2>1, <2>2, <2>3 DEF IInv
<1>3. ASSUME NEW c \in Caller,
             \/ \E op \in {"list", "tree"} : Ask(c, op)
             \/ LoadTree(c) \/ LoadProcesses(c) \/ ScanProc(c) \/ StoreProcesses(c) \/ StoreTree(c)
      PROVE  IInv'
  <2> DEFINE k == call[c]
  <2>0. /\ CallOK(k) /\ k \in Call /\ k.op \in {"list", "tree"}
        /\ k.began \in Int /\ k.got \in Int /\ k.age \in Int
    BY <1>0 DEF Call, IInv
  <2>1. ASSUME NEW op \in {"list", "tree"}, Ask(c, op) PROVE IInv'
    <3> DEFINE t == [op |-> op, pc |-> IF op = "list" THEN "load" ELSE "loadTree",
                     began |-> now, got |-> now, age |-> 0]
    <3>1. call' = [call EXCEPT ![c] = t] /\ t \in Call /\ UNCHANGED <<now, snapshot, tree>>
      BY <1>0, <2>1 DEF Ask, Call, PC
    <3>2. /\ t.op = op /\ t.began = now /\ t.age = 0
          /\ t.pc = IF op = "list" THEN "load" ELSE "loadTree"
      OBVIOUS
    <3> HIDE DEF t
    <3>3. CallOK(t)
      BY <1>0, <3>1, <3>2 DEF CallOK
    <3>4. EntriesOK'
      BY <1>0, <3>1 DEF EntriesOK
    <3> QED
      BY <3>1, <3>3, <3>4, CallerStep
  \* A call that goes on from its place to pc, with data got and of the given
  \* age: what is left to show is that the new call is as it should be.
  <2>2. ASSUME NEW pc \in PC, NEW got \in Int, NEW age \in Int, now' = now, EntriesOK',
               call' = [call EXCEPT ![c].pc = pc, ![c].got = got, ![c].age = age],
               k.pc # "idle",
               pc # "idle" => age = 0,
               pc = "store" => k.began <= got /\ got <= now,
               pc = "storeTree" => k.began - got <= TTL + MaxDelay,
               pc \in {"loadTree", "storeTree"} => k.op = "tree",
               pc = "idle" => age <= MaxAge(k.op)
        PROVE  IInv'
    <3> DEFINE t == [k EXCEPT !.pc = pc, !.got = got, !.age = age]
    <3>1. call' = [call EXCEPT ![c] = t]
      BY <1>0, <2>2
    <3>2. /\ t \in Call
          /\ t.op = k.op /\ t.began = k.began /\ t.pc = pc /\ t.got = got /\ t.age = age
      BY <2>0, <2>2 DEF Call
    <3> HIDE DEF t
    <3>3. CallOK(t)
      BY <2>0, <2>2, <3>2 DEF CallOK
    <3> QED
      BY <2>2, <3>1, <3>3, CallerStep
  \* A step that only moves the call on.
  <2>3. ASSUME NEW pc \in {"load", "scan"}, k.pc # "idle", GoesOn(c, pc),
               UNCHANGED <<now, snapshot, tree>>
        PROVE  IInv'
    <3>1. /\ call' = [call EXCEPT ![c].pc = pc, ![c].got = k.got, ![c].age = k.age]
          /\ k.age = 0 /\ pc \in PC
      BY <1>0, <2>0, <2>3 DEF GoesOn, Call, CallOK, PC
    <3>2. EntriesOK'
      BY <1>0, <2>3 DEF EntriesOK
    <3> QED
      BY <2>0, <2>2, <2>3, <3>1, <3>2
  <2>4. CASE LoadTree(c)
    <3>0. k.pc = "loadTree" /\ k.op = "tree" /\ UNCHANGED <<now, snapshot, tree>>
      BY <2>0, <2>4 DEF LoadTree, CallOK
    <3>1. CASE Fresh(tree)
      <4>1. call' = [call EXCEPT ![c].pc = "idle", ![c].got = k.got, ![c].age = now - tree.born]
        BY <1>0, <2>0, <2>4, <3>1 DEF LoadTree, Call
      <4>2. now - tree.born <= MaxAge(k.op) /\ now - tree.born \in Int /\ "idle" \in PC
        BY <1>0, <3>0, <3>1 DEF Fresh, EntriesOK, MaxAge, PC
      <4>3. EntriesOK'
        BY <1>0, <3>0 DEF EntriesOK
      <4> QED
        BY <2>0, <2>2, <3>0, <4>1, <4>2, <4>3
    <3>2. CASE ~Fresh(tree)
      BY <2>3, <2>4, <3>0, <3>2 DEF LoadTree
    <3> QED
      BY <3>1, <3>2
  \* Data held by a call: a list is answered, a tree is built.
  <2>5. ASSUME NEW born \in Int, Has(c, born), now' = now, k.pc # "idle", EntriesOK',
               now - born <= TTL + MaxDelay, k.began - born <= TTL + MaxDelay
        PROVE  IInv'
    <3> DEFINE pc  == IF k.op = "list" THEN "idle" ELSE "storeTree"
               age == IF k.op = "list" THEN now - born ELSE k.age
    <3>1. call' = [call EXCEPT ![c].pc = pc, ![c].got = born, ![c].age = age]
      BY <1>0, <2>0, <2>5 DEF Has, Call
    <3>2. pc \in PC /\ age \in Int /\ k.age = 0
      BY <1>0, <2>0, <2>5 DEF PC, CallOK
    <3>3. /\ pc \in {"idle", "storeTree"}
          /\ pc = "idle" => age <= MaxAge(k.op)
          /\ pc = "storeTree" => k.op = "tree" /\ age = 0
      BY <1>0, <2>0, <2>5, <3>2 DEF MaxAge
    <3> HIDE DEF pc, age
    <3> QED
      BY <1>0, <2>0, <2>2, <2>5, <3>1, <3>2, <3>3
  <2>6. CASE LoadProcesses(c)
    <3>0. k.pc = "load" /\ UNCHANGED <<now, snapshot, tree>> /\ k.began <= now
      BY <2>0, <2>6 DEF LoadProcesses, CallOK
    <3>1. CASE Fresh(snapshot)
      <4>1. now - snapshot.born <= TTL + MaxDelay
        BY <1>0, <3>1 DEF Fresh, EntriesOK
      <4>2. k.began - snapshot.born <= TTL + MaxDelay
        BY <1>0, <2>0, <3>0, <4>1
      <4>3. EntriesOK'
        BY <1>0, <3>0 DEF EntriesOK
      <4> QED
        BY <1>0, <2>5, <2>6, <3>0, <3>1, <4>1, <4>2, <4>3 DEF LoadProcesses
    <3>2. CASE ~Fresh(snapshot)
      BY <2>3, <2>6, <3>0, <3>2 DEF LoadProcesses
    <3> QED
      BY <3>1, <3>2
  <2>7. CASE ScanProc(c)
    <3>0. k.pc = "scan" /\ k.age = 0 /\ UNCHANGED <<now, snapshot, tree>> /\ k.began <= now
      BY <2>0, <2>7 DEF ScanProc, CallOK
    <3>1. EntriesOK' /\ "store" \in PC /\ "idle" \in PC /\ 0 <= MaxAge(k.op)
      BY <1>0, <3>0 DEF EntriesOK, PC, MaxAge
    <3>2. CASE call' = [call EXCEPT ![c].got = now, ![c].pc = "store"]
      <4>1. call' = [call EXCEPT ![c].pc = "store", ![c].got = now, ![c].age = 0]
        BY <1>0, <2>0, <3>0, <3>2 DEF Call
      <4>2. now \in Int /\ 0 \in Int /\ k.began <= now /\ now <= now
        BY <1>0, <3>0
      <4> QED
        BY <2>2, <3>0, <3>1, <4>1, <4>2
    <3>3. CASE GoesOn(c, "idle")
      <4>1. call' = [call EXCEPT ![c].pc = "idle", ![c].got = k.got, ![c].age = k.age]
        BY <1>0, <2>0, <3>3 DEF GoesOn, Call
      <4> QED
        BY <2>0, <2>2, <3>0, <3>1, <4>1
    <3> QED
      BY <2>7, <3>2, <3>3 DEF ScanProc
  <2>8. CASE StoreProcesses(c)
    <3>1. /\ now - k.began <= MaxDelay /\ k.began <= k.got /\ k.got <= now
          /\ k.pc # "idle" /\ k.began <= now
      BY <2>0, <2>8 DEF StoreProcesses, CallOK
    <3>2. now - k.got <= MaxDelay /\ now - k.got <= TTL + MaxDelay /\ k.began - k.got <= TTL + MaxDelay
      BY <1>0, <2>0, <3>1
    <3>3. EntriesOK'
      BY <1>0, <2>0, <2>8, <3>1, <3>2 DEF StoreProcesses, EntriesOK, Entry, Nothing, Never
    <3> QED
      BY <1>0, <2>0, <2>5, <2>8, <3>1, <3>2, <3>3 DEF StoreProcesses
  <2>9. CASE StoreTree(c)
    <3>1. /\ k.began - k.got <= TTL + MaxDelay /\ now - k.began <= MaxDelay /\ k.op = "tree"
          /\ k.pc = "storeTree" /\ "idle" \in PC
      BY <2>0, <2>9 DEF StoreTree, CallOK, PC
    <3>2. now - k.got <= TTL + 2 * MaxDelay /\ now - k.got \in Int
      BY <1>0, <2>0, <3>1
    <3>3. now - k.got <= MaxAge(k.op)
      BY <1>0, <3>1, <3>2 DEF MaxAge
    <3>4. call' = [call EXCEPT ![c].pc = "idle", ![c].got = k.got, ![c].age = now - k.got]
      BY <1>0, <2>0, <2>9 DEF StoreTree, Call
    <3>5. EntriesOK' /\ now' = now
      BY <1>0, <2>0, <2>9, <3>2 DEF StoreTree, EntriesOK, Entry, Never
    <3> QED
      BY <2>0, <2>2, <3>1, <3>2, <3>3, <3>4, <3>5
  <2> QED
    BY <1>3, <2>1, <2>4, <2>6, <2>7, <2>8, <2>9
<1> QED
  BY <1>1, <1>2, <1>3 DEF Next

\* The collector's variables stay in their sets, whoever calls it and whenever.
THEOREM TypeCorrect == Spec => []TypeOK
<1>1. IInv => TypeOK
  BY DEF IInv, EntriesOK, TypeOK
<1> QED
  BY <1>1, LagInit, LagNext, PTL DEF Spec

\* A list lags behind the system by at most one TTL and one call, a tree by at
\* most two of each.
THEOREM AnswersAreYoung == Spec => []AgeBounded
<1>1. IInv => AgeBounded
  BY DEF IInv, CallOK, AgeBounded
<1> QED
  BY <1>1, LagInit, LagNext, PTL DEF Spec

\* A cached tree lags behind the snapshot beside it by at most a TTL and two calls.
THEOREM TreesKeepUp == Spec => []TreeKeepsUp
<1>1. IInv => TreeKeepsUp
  BY TimeAssumption DEF IInv, EntriesOK, TreeKeepsUp, Entry
<1> QED
  BY <1>1, LagInit, LagNext, PTL DEF Spec
=============================================================================
