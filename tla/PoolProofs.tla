----------------------------- MODULE PoolProofs -----------------------------
(***************************************************************************)
(* Proofs about ParserPool, for every set of processes, any number of CPUs *)
(* and any limit on the workers.                                           *)
(***************************************************************************)
EXTENDS ParserPool, FiniteSetTheorems, TLAPS

In(s, p) == \E i \in DOMAIN s : s[i] = p

\* Appending adds one element and loses none.
LEMMA InAppend ==
    ASSUME NEW S, NEW s \in Seq(S), NEW x \in S, NEW p
    PROVE  In(Append(s, x), p) <=> In(s, p) \/ p = x
<1>1. Len(s) \in Nat /\ DOMAIN s = 1..Len(s) /\ DOMAIN Append(s, x) = 1..(Len(s) + 1)
  OBVIOUS
<1>2. \A i \in 1..Len(s) : Append(s, x)[i] = s[i]
  OBVIOUS
<1>3. Append(s, x)[Len(s) + 1] = x
  OBVIOUS
<1>4. ASSUME In(Append(s, x), p) PROVE In(s, p) \/ p = x
  <2>1. PICK i \in 1..(Len(s) + 1) : Append(s, x)[i] = p
    BY <1>1, <1>4 DEF In
  <2>2. CASE i = Len(s) + 1
    BY <2>1, <2>2, <1>3
  <2>3. CASE i \in 1..Len(s)
    BY <2>1, <2>3, <1>1, <1>2 DEF In
  <2>. QED BY <2>2, <2>3, <1>1
<1>5. ASSUME In(s, p) PROVE In(Append(s, x), p)
  BY <1>1, <1>2, <1>5 DEF In
<1>6. ASSUME p = x PROVE In(Append(s, x), p)
  BY <1>1, <1>3, <1>6 DEF In
<1>. QED BY <1>4, <1>5, <1>6

\* Taking the head loses the head only.
LEMMA InTail ==
    ASSUME NEW S, NEW s \in Seq(S), s # <<>>, NEW p
    PROVE  In(s, p) <=> p = Head(s) \/ In(Tail(s), p)
<1>1. /\ Len(s) \in Nat \ {0} /\ DOMAIN s = 1..Len(s)
      /\ Len(Tail(s)) = Len(s) - 1 /\ DOMAIN Tail(s) = 1..(Len(s) - 1)
      /\ Head(s) = s[1] /\ \A i \in 1..(Len(s) - 1) : Tail(s)[i] = s[i + 1]
  OBVIOUS
<1>2. ASSUME In(s, p) PROVE p = Head(s) \/ In(Tail(s), p)
  <2>1. PICK i \in 1..Len(s) : s[i] = p
    BY <1>1, <1>2 DEF In
  <2>2. CASE i = 1
    BY <2>1, <2>2, <1>1
  <2>3. CASE i # 1
    <3>1. i - 1 \in 1..(Len(s) - 1) /\ Tail(s)[i - 1] = p
      BY <2>1, <2>3, <1>1
    <3>. QED BY <3>1, <1>1 DEF In
  <2>. QED BY <2>2, <2>3
<1>3. ASSUME p = Head(s) PROVE In(s, p)
  BY <1>1, <1>3 DEF In
<1>4. ASSUME In(Tail(s), p) PROVE In(s, p)
  <2>1. PICK i \in 1..(Len(s) - 1) : Tail(s)[i] = p
    BY <1>1, <1>4 DEF In
  <2>2. i + 1 \in 1..Len(s) /\ s[i + 1] = p
    BY <2>1, <1>1
  <2>. QED BY <2>2, <1>1 DEF In
<1>. QED BY <1>2, <1>3, <1>4

\* There is at least one worker and at most as many as the limit.
LEMMA WorkerCount ==
    ASSUME NEW n \in Nat
    PROVE  processInfoWorkerCount(n) \in 1..maxProcessInfoWorkers
BY PoolAssumption DEF processInfoWorkerCount, Smaller

-----------------------------------------------------------------------------
\* TypeOK, with the listing as long as the processes are finitely many.
LEMMA TypeInit == Init => TypeOK
<1>. SUFFICES ASSUME Init PROVE TypeOK
  OBVIOUS
<1>1. Absent \in WorkerState
  BY DEF Absent, WorkerState
<1>2. worker \in [Worker -> WorkerState]
  BY <1>1 DEF Init
<1>3. <<>> \in Seq(Pid)
  OBVIOUS
<1>. QED BY <1>2, <1>3 DEF Init, TypeOK

LEMMA TypeNext == TypeOK /\ [Next]_vars => TypeOK'
<1>. SUFFICES ASSUME TypeOK, [Next]_vars PROVE TypeOK'
  OBVIOUS
<1>. USE DEF history
<1>a. Absent \in WorkerState /\ Fresh \in WorkerState
  BY DEF Absent, Fresh, WorkerState
<1>b. \A w \in Worker, x \in WorkerState : [worker EXCEPT ![w] = x] \in [Worker -> WorkerState]
  BY DEF TypeOK
<1>1. CASE List
  <2>1. IsFiniteSet(alive)
    BY PoolAssumption, FS_Subset DEF TypeOK
  <2>2. total' \in Nat
    BY <1>1, <2>1, FS_CardinalityType DEF List
  <2>3. worker' \in [Worker -> WorkerState]
    BY <1>1, <1>a DEF List
  <2>4. <<>> \in Seq(Pid)
    OBVIOUS
  <2>. QED BY <1>1, <2>2, <2>3, <2>4 DEF List, TypeOK
<1>2. CASE SendJob
  <2>1. jobs' \in Seq(Pid) /\ unsent' \subseteq Pid
    BY <1>2 DEF SendJob, TypeOK
  <2>. QED BY <1>2, <2>1 DEF SendJob, TypeOK
<1>3. CASE CloseJobs
  BY <1>3 DEF CloseJobs, TypeOK
<1>4. CASE Collect
  <2>1. info' \in Seq(Pid) /\ results' \in Seq(Pid)
    <3>1. CASE results # <<>>
      <4>1. Head(results) \in Pid /\ Tail(results) \in Seq(Pid)
        BY <3>1 DEF TypeOK
      <4>2. info' = Append(info, Head(results)) /\ results' = Tail(results)
        BY <1>4, <3>1 DEF Collect
      <4>. QED BY <4>1, <4>2 DEF TypeOK
    <3>2. CASE results = <<>>
      BY <1>4, <3>2 DEF Collect, TypeOK
    <3>. QED BY <3>1, <3>2
  <2>. QED BY <1>4, <2>1 DEF Collect, TypeOK
<1>5. CASE Again
  <2>1. <<>> \in Seq(Pid)
    OBVIOUS
  <2>. QED BY <1>5, <2>1 DEF Again, TypeOK
<1>6. CASE CloseResults
  BY <1>6 DEF CloseResults, TypeOK
<1>7. ASSUME NEW w \in Worker, Receive(w) PROVE TypeOK'
  <2>1. CASE jobs # <<>>
    <3>1. Head(jobs) \in Pid /\ Tail(jobs) \in Seq(Pid)
      BY <2>1 DEF TypeOK
    <3>2. [pc |-> "read", pid |-> Head(jobs)] \in WorkerState
      BY <3>1 DEF WorkerState
    <3>3. worker' \in [Worker -> WorkerState] /\ jobs' \in Seq(Pid)
      BY <1>7, <1>b, <2>1, <3>1, <3>2 DEF Receive
    <3>. QED BY <1>7, <3>3 DEF Receive, TypeOK
  <2>2. CASE jobs = <<>>
    <3>1. worker' \in [Worker -> WorkerState] /\ jobs' \in Seq(Pid)
      BY <1>7, <1>a, <1>b, <2>2 DEF Receive, TypeOK
    <3>. QED BY <1>7, <3>1 DEF Receive, TypeOK
  <2>. QED BY <2>1, <2>2
<1>8. ASSUME NEW w \in Worker, ProcessInfo(w) PROVE TypeOK'
  <2>1. worker[w].pid \in Pid
    BY <1>8 DEF ProcessInfo, TypeOK, WorkerState
  <2>2. [worker[w] EXCEPT !.pc = "send"] \in WorkerState
    BY <1>8, <2>1 DEF ProcessInfo, TypeOK, WorkerState
  <2>3. worker' \in [Worker -> WorkerState]
    <3>1. CASE worker' = [worker EXCEPT ![w].pc = "send"]
      BY <1>b, <2>2, <3>1 DEF TypeOK
    <3>2. CASE worker' = [worker EXCEPT ![w] = Fresh]
      BY <1>a, <1>b, <3>2
    <3>. QED BY <1>8, <3>1, <3>2 DEF ProcessInfo
  <2>4. unread' \subseteq Pid
    BY <1>8, <2>1 DEF ProcessInfo, TypeOK
  <2>. QED BY <1>8, <2>3, <2>4 DEF ProcessInfo, TypeOK
<1>9. ASSUME NEW w \in Worker, SendResult(w) PROVE TypeOK'
  <2>1. worker[w].pid \in Pid
    BY <1>9 DEF SendResult, TypeOK, WorkerState
  <2>2. worker' \in [Worker -> WorkerState] /\ results' \in Seq(Pid)
    BY <1>9, <1>a, <1>b, <2>1 DEF SendResult, TypeOK
  <2>. QED BY <1>9, <2>2 DEF SendResult, TypeOK
<1>10. ASSUME NEW p \in Pid, Exit(p) \/ Spawn(p) PROVE TypeOK'
  BY <1>10 DEF Exit, Spawn, TypeOK
<1>11. CASE UNCHANGED vars
  BY <1>11 DEF vars, TypeOK
<1>. QED BY <1>1, <1>2, <1>3, <1>4, <1>5, <1>6, <1>7, <1>8, <1>9, <1>10, <1>11 DEF Next, Main, Work

\* Type correctness: every variable of a scan stays in its set, and whoever
\* reads or sends holds a PID.
THEOREM TypeCorrect == Spec => []TypeOK
BY TypeInit, TypeNext, PTL DEF Spec

-----------------------------------------------------------------------------
\* Where a listed process may be on its way into the answer.
Accounted(p) ==
    \/ p \in unsent \/ In(jobs, p)
    \/ \E w \in Worker : worker[w].pc \in {"read", "send"} /\ worker[w].pid = p
    \/ In(results, p) \/ In(info, p)

\* Every listed process whose reading has not failed is accounted for; the workers
\* that are done and the channels that are closed say where none of them can be
\* any more.
ListedAccounted == main # "idle" => \A p \in listed \ unread : Accounted(p)

\* The first worker is always there, so all are done only behind the jobs.
JobsDone ==
    /\ main \in {"send", "collect"} /\ worker[1].pc = "done" => jobsClosed /\ jobs = <<>>
    /\ main \in {"collect", "returned"} => jobsClosed /\ unsent = {}
    /\ main = "send" => ~jobsClosed /\ ~resultsClosed

ResultsDone ==
    /\ resultsClosed => AllDone
    /\ main = "idle" => AllDone
    /\ main \in {"collect", "returned"} /\ resultsClosed => jobs = <<>>
    /\ main = "returned" => resultsClosed /\ results = <<>>

ScanInv == TypeOK /\ ListedAccounted /\ JobsDone /\ ResultsDone

LEMMA OneIsWorker == 1 \in Worker
BY PoolAssumption DEF Worker

LEMMA ScanInit == Init => ScanInv
<1>. SUFFICES ASSUME Init PROVE ScanInv
  OBVIOUS
<1>1. TypeOK
  BY TypeInit
<1>2. AllDone
  BY DEF Init, AllDone, Absent
<1>. QED BY <1>1, <1>2 DEF Init, ScanInv, ListedAccounted, JobsDone, ResultsDone

\* The steps of AllProcesses, of the closing goroutine, of a worker, of the kernel.
LEMMA MainKeeps ==
    ASSUME ScanInv, TypeOK', Main \/ Again \/ CloseResults
    PROVE  ListedAccounted' /\ JobsDone' /\ ResultsDone'
<1>. USE DEF ScanInv, history
<1>1. CASE List
  <2>1. worker'[1] = Fresh
    <3>1. IsFiniteSet(alive)
      BY PoolAssumption, FS_Subset DEF TypeOK
    <3>2. 1 <= processInfoWorkerCount(total')
      BY <1>1, <3>1, FS_CardinalityType, WorkerCount DEF List
    <3>. QED BY <1>1, <3>2, OneIsWorker DEF List
  <2>. QED BY <1>1, <2>1 DEF List, ListedAccounted, Accounted, JobsDone, ResultsDone, Fresh
<1>2. CASE SendJob
  <2>1. \A p \in listed \ unread : Accounted(p) => Accounted(p)'
    <3>. TAKE p \in listed \ unread
    <3>1. PICK q \in unsent : jobs' = Append(jobs, q) /\ unsent' = unsent \ {q}
      BY <1>2 DEF SendJob
    <3>2. In(jobs', p) <=> In(jobs, p) \/ p = q
      BY <3>1, InAppend DEF TypeOK
    <3>. QED BY <1>2, <3>1, <3>2 DEF SendJob, Accounted, In
  <2>. QED BY <1>2, <2>1 DEF SendJob, ListedAccounted, JobsDone, ResultsDone, AllDone
<1>3. CASE CloseJobs
  <2>1. \A p \in listed \ unread : Accounted(p) => Accounted(p)'
    BY <1>3 DEF CloseJobs, Accounted, In
  <2>2. worker[1].pc = "done" => jobs = <<>>
    BY <1>3 DEF CloseJobs, JobsDone
  <2>. QED BY <1>3, <2>1, <2>2 DEF CloseJobs, ListedAccounted, JobsDone, ResultsDone, AllDone
<1>4. CASE Collect
  <2>1. \A p \in listed \ unread : Accounted(p) => Accounted(p)'
    <3>. TAKE p \in listed \ unread
    <3>1. CASE results # <<>>
      <4>1. Head(results) \in Pid
        BY <3>1 DEF TypeOK
      <4>0. info' = Append(info, Head(results)) /\ results' = Tail(results)
        BY <1>4, <3>1 DEF Collect
      <4>2. In(info', p) <=> In(info, p) \/ p = Head(results)
        BY <4>0, <4>1, InAppend DEF TypeOK
      <4>3. In(results, p) <=> p = Head(results) \/ In(results', p)
        BY <1>4, <3>1, InTail DEF Collect, TypeOK
      <4>. QED BY <1>4, <4>2, <4>3 DEF Collect, Accounted, In
    <3>2. CASE results = <<>>
      BY <1>4, <3>2 DEF Collect, Accounted, In
    <3>. QED BY <3>1, <3>2
  <2>. QED BY <1>4, <2>1 DEF Collect, ListedAccounted, JobsDone, ResultsDone, AllDone
<1>5. CASE Again
  BY <1>5 DEF Again, ListedAccounted, JobsDone, ResultsDone, AllDone
<1>6. CASE CloseResults
  <2>1. \A p \in listed \ unread : Accounted(p) => Accounted(p)'
    BY <1>6 DEF CloseResults, Accounted, In
  <2>2. jobs = <<>>
    BY <1>6, OneIsWorker DEF CloseResults, AllDone, JobsDone
  <2>. QED BY <1>6, <2>1, <2>2 DEF CloseResults, ListedAccounted, JobsDone, ResultsDone, AllDone
<1>. QED BY <1>1, <1>2, <1>3, <1>4, <1>5, <1>6 DEF Main

LEMMA WorkerKeeps ==
    ASSUME ScanInv, TypeOK', NEW w \in Worker, Work(w)
    PROVE  ListedAccounted' /\ JobsDone' /\ ResultsDone'
<1>. USE DEF ScanInv, history
<1>a. worker[w].pc # "done" /\ UNCHANGED <<alive, listed, main, unsent, jobsClosed, resultsClosed, info>>
  BY DEF Work, Receive, ProcessInfo, SendResult
\* the results are open, and the scan is under way
<1>b. ~resultsClosed /\ main \in {"send", "collect"}
  BY <1>a DEF ResultsDone, AllDone, TypeOK
<1>c. \A v \in Worker \ {w} : worker'[v] = worker[v]
  BY DEF Work, Receive, ProcessInfo, SendResult, TypeOK
<1>1. CASE Receive(w)
  <2>1. ASSUME jobs # <<>>, NEW p \in listed \ unread, Accounted(p) PROVE Accounted(p)'
    <3>1. In(jobs, p) <=> p = Head(jobs) \/ In(jobs', p)
      BY <1>1, <2>1, InTail DEF Receive, TypeOK
    <3>2. worker'[w] = [pc |-> "read", pid |-> Head(jobs)]
      BY <1>1, <2>1 DEF Receive, TypeOK
    <3>. QED BY <1>1, <1>a, <1>c, <2>1, <3>1, <3>2 DEF Receive, Accounted, In
  <2>2. ASSUME jobs = <<>>, NEW p \in listed \ unread, Accounted(p) PROVE Accounted(p)'
    BY <1>1, <1>a, <1>c, <2>2 DEF Receive, Accounted, In, TypeOK
  <2>3. worker'[1].pc = "done" => jobsClosed /\ jobs' = <<>>
    BY <1>1, <1>b, <1>c, OneIsWorker DEF Receive, JobsDone, TypeOK
  <2>4. UNCHANGED <<unread, results>>
    BY <1>1 DEF Receive
  <2>5. ListedAccounted'
    BY <1>a, <1>b, <2>1, <2>2, <2>4 DEF ListedAccounted
  <2>. QED BY <1>a, <1>b, <2>3, <2>4, <2>5 DEF JobsDone, ResultsDone
<1>2. CASE ProcessInfo(w)
  <2>0. worker[w] \in WorkerState /\ worker[w].pc = "read"
    BY <1>2 DEF ProcessInfo, TypeOK
  <2>1. \/ worker'[w] = [worker[w] EXCEPT !.pc = "send"] /\ unread' = unread
        \/ worker'[w] = Fresh /\ unread' = unread \cup {worker[w].pid}
    BY <1>2 DEF ProcessInfo, TypeOK
  <2>2. worker'[w].pc \in {"send", "receive"} /\ unread \subseteq unread'
    BY <2>0, <2>1 DEF WorkerState, Fresh
  <2>3. ASSUME NEW p \in listed \ unread', Accounted(p) PROVE Accounted(p)'
    <3>1. worker[w].pid = p => worker'[w].pc = "send" /\ worker'[w].pid = p
      BY <2>0, <2>1, <2>3 DEF WorkerState
    <3>2. UNCHANGED <<unsent, jobs, results, info>>
      BY <1>2 DEF ProcessInfo
    <3>. QED BY <1>c, <2>3, <3>1, <3>2 DEF Accounted, In
  <2>4. worker'[1].pc = "done" => worker[1].pc = "done"
    BY <1>c, <2>2, OneIsWorker
  <2>5. UNCHANGED <<jobs, results>>
    BY <1>2 DEF ProcessInfo
  <2>6. ListedAccounted'
    BY <1>a, <1>b, <2>2, <2>3 DEF ListedAccounted
  <2>. QED BY <1>a, <1>b, <2>4, <2>5, <2>6 DEF JobsDone, ResultsDone
<1>3. CASE SendResult(w)
  <2>1. ASSUME NEW p \in listed \ unread, Accounted(p) PROVE Accounted(p)'
    <3>1. worker[w].pid \in Pid
      BY <1>3 DEF SendResult, TypeOK, WorkerState
    <3>2. In(results', p) <=> In(results, p) \/ p = worker[w].pid
      BY <1>3, <3>1, InAppend DEF SendResult, TypeOK
    <3>. QED BY <1>3, <1>a, <1>c, <2>1, <3>2 DEF SendResult, Accounted, In
  <2>2. worker'[w].pc # "done"
    BY <1>3 DEF SendResult, TypeOK, Fresh
  <2>3. worker'[1].pc = "done" => worker[1].pc = "done"
    BY <1>c, <2>2, OneIsWorker
  <2>. QED BY <1>3, <1>a, <1>b, <2>1, <2>3 DEF SendResult, ListedAccounted, JobsDone, ResultsDone
<1>. QED BY <1>1, <1>2, <1>3 DEF Work

LEMMA KernelKeeps ==
    ASSUME ScanInv, NEW p \in Pid, Exit(p) \/ Spawn(p)
    PROVE  ListedAccounted' /\ JobsDone' /\ ResultsDone'
<1>. USE DEF history
<1>1. \A q \in listed \ unread : Accounted(q) => Accounted(q)'
  BY DEF Exit, Spawn, Accounted, In
<1>. QED BY <1>1 DEF Exit, Spawn, ScanInv, ListedAccounted, JobsDone, ResultsDone, AllDone

LEMMA ScanInvariant == Spec => []ScanInv
<1>1. ScanInv /\ [Next]_vars => ScanInv'
  <2>. SUFFICES ASSUME ScanInv, [Next]_vars PROVE ScanInv'
    OBVIOUS
  <2>1. TypeOK'
    BY TypeNext DEF ScanInv
  <2>2. CASE UNCHANGED vars
    BY <2>1, <2>2 DEF vars, history, ScanInv, ListedAccounted, Accounted, In, JobsDone, ResultsDone, AllDone
  <2>3. CASE Next
    BY <2>1, <2>3, MainKeeps, WorkerKeeps, KernelKeeps DEF Next, ScanInv
  <2>. QED BY <2>2, <2>3
<1>. QED BY <1>1, ScanInit, PTL DEF Spec

\* No worker ever sends on a closed channel: the results are closed only behind
\* the last worker, and no worker comes back.
THEOREM NoSendOnClosed == Spec => []NeverSendsOnClosed
<1>1. ScanInv => NeverSendsOnClosed
  BY DEF ScanInv, ResultsDone, AllDone, NeverSendsOnClosed
<1>. QED BY <1>1, ScanInvariant, PTL

\* Whoever is missing from the answer could not be read, for any number of workers
\* and whatever else starts and ends.
THEOREM MissingWereUnread == Spec => []OnlyUnreadAreMissing
<1>1. ScanInv => OnlyUnreadAreMissing
  <2>. SUFFICES ASSUME ScanInv, main = "returned", NEW p \in listed \ unread PROVE In(info, p)
    BY DEF OnlyUnreadAreMissing, In
  <2>1. Accounted(p) /\ AllDone /\ unsent = {} /\ jobs = <<>> /\ results = <<>>
    BY DEF ScanInv, ListedAccounted, JobsDone, ResultsDone
  <2>2. ~In(<<>>, p)
    BY DEF In
  <2>. QED BY <2>1, <2>2 DEF Accounted, AllDone
<1>. QED BY <1>1, ScanInvariant, PTL

-----------------------------------------------------------------------------
(* How much is under way *)

\* The workers are finitely many wherever they are.
LEMMA AtIsFinite ==
    ASSUME NEW pc PROVE IsFiniteSet(At(pc)) /\ Cardinality(At(pc)) \in Nat
<1>1. IsFiniteSet(Worker)
  BY PoolAssumption, FS_Interval DEF Worker
<1>2. IsFiniteSet(At(pc))
  BY <1>1, FS_Subset DEF At
<1>. QED BY <1>2, FS_CardinalityType

\* A worker that moves leaves one place and comes to another.
LEMMA WorkerMoves ==
    ASSUME TypeOK, NEW w \in Worker, NEW x \in WorkerState,
           worker' = [worker EXCEPT ![w] = x], NEW pc
    PROVE  /\ Cardinality(At(pc)') \in Nat
           /\ x.pc = pc /\ worker[w].pc # pc => Cardinality(At(pc)') = Cardinality(At(pc)) + 1
           /\ x.pc # pc /\ worker[w].pc = pc => Cardinality(At(pc)') = Cardinality(At(pc)) - 1
           /\ (x.pc = pc <=> worker[w].pc = pc) => Cardinality(At(pc)') = Cardinality(At(pc))
<1>1. worker'[w] = x /\ \A v \in Worker \ {w} : worker'[v] = worker[v]
  BY DEF TypeOK
<1>2. CASE x.pc = pc
  <2>1. At(pc)' = At(pc) \cup {w}
    BY <1>1, <1>2 DEF At
  <2>2. w \in At(pc) <=> worker[w].pc = pc
    BY DEF At
  <2>3. /\ Cardinality(At(pc) \cup {w}) \in Nat
        /\ w \notin At(pc) => Cardinality(At(pc) \cup {w}) = Cardinality(At(pc)) + 1
        /\ w \in At(pc) => At(pc) \cup {w} = At(pc)
    BY AtIsFinite, FS_AddElement, FS_CardinalityType
  <2>. QED BY <1>2, <2>1, <2>2, <2>3, AtIsFinite
<1>3. CASE x.pc # pc
  <2>1. At(pc)' = At(pc) \ {w}
    BY <1>1, <1>3 DEF At
  <2>2. w \in At(pc) <=> worker[w].pc = pc
    BY DEF At
  <2>3. /\ Cardinality(At(pc) \ {w}) \in Nat
        /\ w \in At(pc) => Cardinality(At(pc) \ {w}) = Cardinality(At(pc)) - 1
        /\ w \notin At(pc) => At(pc) \ {w} = At(pc)
    BY AtIsFinite, FS_RemoveElement, FS_CardinalityType
  <2>. QED BY <1>3, <2>1, <2>2, <2>3, AtIsFinite
<1>. QED BY <1>2, <1>3

LEMMA UnsentIsFinite ==
    ASSUME TypeOK PROVE IsFiniteSet(unsent) /\ Cardinality(unsent) \in Nat
<1>1. IsFiniteSet(unsent)
  BY PoolAssumption, FS_Subset DEF TypeOK
<1>. QED BY <1>1, FS_CardinalityType

\* What a step of the scan adds and takes away, place by place.
LEMMA SendJobMoves ==
    ASSUME TypeOK, SendJob
    PROVE  /\ Cardinality(unsent') = Cardinality(unsent) - 1
           /\ Len(jobs') = Len(jobs) + 1
<1>1. PICK p \in unsent : jobs' = Append(jobs, p) /\ unsent' = unsent \ {p}
  BY DEF SendJob
<1>2. Len(jobs') = Len(jobs) + 1
  BY <1>1 DEF TypeOK
<1>3. Cardinality(unsent') = Cardinality(unsent) - 1
  BY <1>1, UnsentIsFinite, FS_RemoveElement
<1>. QED BY <1>2, <1>3

LEMMA ReceiveMoves ==
    ASSUME TypeOK, NEW w \in Worker, Receive(w)
    PROVE  /\ Cardinality(At("receive")') = Cardinality(At("receive")) - 1
           /\ Cardinality(At("send")') = Cardinality(At("send"))
           /\ \/ /\ Cardinality(At("read")') = Cardinality(At("read")) + 1
                 /\ Len(jobs') = Len(jobs) - 1 /\ Len(jobs) \in Nat \ {0}
              \/ /\ Cardinality(At("read")') = Cardinality(At("read"))
                 /\ jobs' = jobs
<1>0. worker[w].pc = "receive"
  BY DEF Receive
<1>1. CASE jobs # <<>>
  <2>1. Head(jobs) \in Pid /\ Len(Tail(jobs)) = Len(jobs) - 1 /\ Len(jobs) \in Nat \ {0}
    BY <1>1 DEF TypeOK
  <2>. DEFINE x == [pc |-> "read", pid |-> Head(jobs)]
  <2>2. x \in WorkerState
    BY <2>1 DEF WorkerState
  <2>3. worker' = [worker EXCEPT ![w] = x] /\ jobs' = Tail(jobs)
    BY <1>1 DEF Receive
  <2>4. x.pc = "read"
    OBVIOUS
  <2>. HIDE DEF x
  <2>5. /\ Cardinality(At("receive")') = Cardinality(At("receive")) - 1
        /\ Cardinality(At("read")') = Cardinality(At("read")) + 1
        /\ Cardinality(At("send")') = Cardinality(At("send"))
    BY <1>0, <2>2, <2>3, <2>4, WorkerMoves
  <2>. QED BY <2>1, <2>3, <2>5
<1>2. CASE jobs = <<>>
  <2>1. worker' = [worker EXCEPT ![w] = Absent] /\ jobs' = jobs
    BY <1>2 DEF Receive
  <2>2. Absent \in WorkerState /\ Absent.pc = "done"
    BY DEF Absent, WorkerState
  <2>3. /\ Cardinality(At("receive")') = Cardinality(At("receive")) - 1
        /\ Cardinality(At("read")') = Cardinality(At("read"))
        /\ Cardinality(At("send")') = Cardinality(At("send"))
    BY <1>0, <2>1, <2>2, WorkerMoves
  <2>. QED BY <2>1, <2>3
<1>. QED BY <1>1, <1>2

LEMMA ReadMoves ==
    ASSUME TypeOK, NEW w \in Worker, ProcessInfo(w)
    PROVE  /\ Cardinality(At("read")') = Cardinality(At("read")) - 1
           /\ \/ /\ Cardinality(At("send")') = Cardinality(At("send")) + 1
                 /\ Cardinality(At("receive")') = Cardinality(At("receive"))
              \/ /\ Cardinality(At("send")') = Cardinality(At("send"))
                 /\ Cardinality(At("receive")') = Cardinality(At("receive")) + 1
<1>0. worker[w].pc = "read" /\ worker[w] \in WorkerState
  BY DEF ProcessInfo, TypeOK
<1>1. CASE worker' = [worker EXCEPT ![w].pc = "send"]
  <2>. DEFINE x == [worker[w] EXCEPT !.pc = "send"]
  <2>1. x \in WorkerState /\ x.pc = "send"
    BY <1>0 DEF WorkerState
  <2>2. worker' = [worker EXCEPT ![w] = x]
    BY <1>1 DEF TypeOK
  <2>. HIDE DEF x
  <2>. QED BY <1>0, <2>1, <2>2, WorkerMoves
<1>2. CASE worker' = [worker EXCEPT ![w] = Fresh]
  <2>1. Fresh \in WorkerState /\ Fresh.pc = "receive"
    BY DEF Fresh, WorkerState
  <2>. QED BY <1>0, <1>2, <2>1, WorkerMoves
<1>. QED BY <1>1, <1>2 DEF ProcessInfo

LEMMA SendMoves ==
    ASSUME TypeOK, NEW w \in Worker, SendResult(w)
    PROVE  /\ Cardinality(At("send")') = Cardinality(At("send")) - 1
           /\ Cardinality(At("receive")') = Cardinality(At("receive")) + 1
           /\ Cardinality(At("read")') = Cardinality(At("read"))
           /\ Len(results') = Len(results) + 1
<1>0. worker[w].pc = "send" /\ worker[w].pid \in Pid
  BY DEF SendResult, TypeOK, WorkerState
<1>1. Fresh \in WorkerState /\ Fresh.pc = "receive"
  BY DEF Fresh, WorkerState
<1>2. worker' = [worker EXCEPT ![w] = Fresh] /\ results' = Append(results, worker[w].pid)
  BY DEF SendResult
<1>3. Len(results') = Len(results) + 1
  BY <1>0, <1>2 DEF TypeOK
<1>. QED BY <1>0, <1>1, <1>2, <1>3, WorkerMoves

LEMMA CollectMoves ==
    ASSUME TypeOK, Collect
    PROVE  \/ Len(results') = Len(results) - 1 /\ Len(results) \in Nat \ {0} /\ main' = main
           \/ results' = results /\ main' = "returned"
BY DEF Collect, TypeOK

\* All that is under way has a place in either channel, which are as long as the
\* listing.
RoomInv ==
    Cardinality(unsent) + Len(jobs) + Cardinality(At("read")) + Cardinality(At("send"))
      + Len(results) <= total

LEMMA RoomInit == Init => RoomInv
<1>. SUFFICES ASSUME Init PROVE RoomInv
  OBVIOUS
<1>1. At("read") = {} /\ At("send") = {}
  BY DEF Init, At, Absent
<1>2. Cardinality(At("read")) = 0 /\ Cardinality(At("send")) = 0 /\ Cardinality(unsent) = 0
  BY <1>1, FS_EmptySet DEF Init
<1>3. Len(jobs) = 0 /\ Len(results) = 0 /\ total = 0
  BY DEF Init
<1>. QED BY <1>2, <1>3 DEF RoomInv

\* At a listing nothing is under way yet.
LEMMA ListingIsAll ==
    ASSUME TypeOK, List
    PROVE  /\ Cardinality(unsent') = total' /\ total' \in Nat
           /\ Len(jobs') = 0 /\ Len(results') = 0
           /\ Cardinality(At("read")') = 0 /\ Cardinality(At("send")') = 0
<1>1. IsFiniteSet(alive)
  BY PoolAssumption, FS_Subset DEF TypeOK
<1>2. At("read")' = {} /\ At("send")' = {}
  BY DEF List, At, Fresh, Absent
<1>3. Cardinality(At("read")') = 0 /\ Cardinality(At("send")') = 0
  BY <1>2, FS_EmptySet
<1>4. Len(jobs') = 0 /\ Len(results') = 0
  BY DEF List
<1>. QED BY <1>1, <1>3, <1>4, FS_CardinalityType DEF List

LEMMA RoomNext == TypeOK /\ RoomInv /\ [Next]_vars => RoomInv'
<1>. SUFFICES ASSUME TypeOK, RoomInv, [Next]_vars PROVE RoomInv'
  OBVIOUS
<1>n. /\ Cardinality(unsent) \in Nat /\ Len(jobs) \in Nat /\ Len(results) \in Nat /\ total \in Nat
      /\ Cardinality(At("read")) \in Nat /\ Cardinality(At("send")) \in Nat
  BY UnsentIsFinite, AtIsFinite DEF TypeOK
<1>1. CASE List
  BY <1>1, ListingIsAll DEF RoomInv
<1>2. CASE SendJob
  <2>1. At("read")' = At("read") /\ At("send")' = At("send") /\ UNCHANGED <<total, results>>
    BY <1>2 DEF SendJob, At
  <2>. QED BY <1>2, <1>n, <2>1, SendJobMoves DEF RoomInv
<1>3. CASE CloseJobs \/ Again \/ CloseResults \/ (\E p \in Pid : Exit(p) \/ Spawn(p)) \/ UNCHANGED vars
  BY <1>3 DEF CloseJobs, Again, CloseResults, Exit, Spawn, vars, RoomInv, At
<1>4. CASE Collect
  <2>1. At("read")' = At("read") /\ At("send")' = At("send") /\ UNCHANGED <<total, jobs, unsent>>
    BY <1>4 DEF Collect, At
  <2>. QED BY <1>4, <1>n, <2>1, CollectMoves DEF RoomInv
<1>5. ASSUME NEW w \in Worker, Receive(w) PROVE RoomInv'
  <2>1. UNCHANGED <<total, unsent, results>>
    BY <1>5 DEF Receive
  <2>2. /\ Cardinality(At("send")') = Cardinality(At("send"))
        /\ \/ /\ Cardinality(At("read")') = Cardinality(At("read")) + 1
              /\ Len(jobs') = Len(jobs) - 1
           \/ /\ Cardinality(At("read")') = Cardinality(At("read"))
              /\ Len(jobs') = Len(jobs)
    BY <1>5, ReceiveMoves
  <2>. QED BY <1>n, <2>1, <2>2 DEF RoomInv
<1>6. ASSUME NEW w \in Worker, ProcessInfo(w) PROVE RoomInv'
  <2>1. UNCHANGED <<total, unsent, jobs, results>>
    BY <1>6 DEF ProcessInfo
  <2>. QED BY <1>6, <1>n, <2>1, ReadMoves DEF RoomInv
<1>7. ASSUME NEW w \in Worker, SendResult(w) PROVE RoomInv'
  <2>1. UNCHANGED <<total, unsent, jobs>>
    BY <1>7 DEF SendResult
  <2>. QED BY <1>7, <1>n, <2>1, SendMoves DEF RoomInv
<1>. QED BY <1>1, <1>2, <1>3, <1>4, <1>5, <1>6, <1>7 DEF Next, Main, Work

LEMMA RoomIsLeft == TypeOK /\ RoomInv => ChannelsHaveRoom
<1>. SUFFICES ASSUME TypeOK, RoomInv PROVE ChannelsHaveRoom
  OBVIOUS
<1>n. /\ Cardinality(unsent) \in Nat /\ Len(jobs) \in Nat /\ Len(results) \in Nat /\ total \in Nat
      /\ Cardinality(At("read")) \in Nat /\ Cardinality(At("send")) \in Nat
  BY UnsentIsFinite, AtIsFinite DEF TypeOK
<1>1. unsent # {} => Cardinality(unsent) # 0
  BY UnsentIsFinite, FS_EmptySet
<1>2. ASSUME NEW w \in Worker, worker[w].pc = "send" PROVE Cardinality(At("send")) # 0
  <2>1. At("send") # {}
    BY <1>2 DEF At
  <2>. QED BY <2>1, AtIsFinite, FS_EmptySet
<1>3. unsent # {} => Len(jobs) < total
  BY <1>n, <1>1 DEF RoomInv
<1>4. ASSUME NEW w \in Worker, worker[w].pc = "send" PROVE Len(results) < total
  <2>1. Cardinality(At("send")) # 0
    BY <1>2, <1>4
  <2>. QED BY <1>n, <2>1 DEF RoomInv
<1>. QED BY <1>3, <1>4 DEF ChannelsHaveRoom

LEMMA RoomInvariant == Spec => [](TypeOK /\ RoomInv)
BY TypeInit, TypeNext, RoomInit, RoomNext, PTL DEF Spec

\* No send of a scan ever waits, for any number of processes and of workers: the
\* jobs, the processes in a worker's hand and the results are never more than
\* were listed, and both channels are as long as the listing.
THEOREM RoomForAll == Spec => []ChannelsHaveRoom
BY RoomInvariant, RoomIsLeft, PTL

\* A scan under way can always go on: with room for every send, who has a PID
\* gets rid of it, who has none finds the jobs closed, and the last one lets the
\* results be closed.
THEOREM ScanIsNeverStuck == Spec => []SomebodyMoves
<1>1. ScanInv /\ ChannelsHaveRoom => SomebodyMoves
  <2>. SUFFICES ASSUME ScanInv, ChannelsHaveRoom PROVE SomebodyMoves
    OBVIOUS
  <2>1. main = "collect" => jobsClosed
    BY DEF ScanInv, JobsDone
  <2>2. \A w \in Worker : worker[w].pc \in {"receive", "read", "send", "done"}
    BY DEF ScanInv, TypeOK, WorkerState
  <2>. QED BY <2>1, <2>2 DEF SomebodyMoves, ChannelsHaveRoom, AllDone
<1>. QED BY <1>1, ScanInvariant, RoomForAll, PTL

-----------------------------------------------------------------------------
(* A scan leaves less and less to do *)

\* Only finitely many steps are left to any scan.
LEMMA RankIsNatural ==
    ASSUME TypeOK
    PROVE  /\ Waiting \in Nat /\ InHand \in Nat /\ Ending \in Nat
           /\ ScanRank \in Nat
<1>1. Cardinality(unsent) \in Nat /\ Len(jobs) \in Nat /\ Len(results) \in Nat
  BY UnsentIsFinite DEF TypeOK
<1>2. Waiting \in Nat
  BY <1>1 DEF Waiting
<1>3. InHand \in Nat
  BY AtIsFinite DEF InHand
<1>4. Ending \in Nat
  BY DEF Ending
<1>. QED BY <1>1, <1>2, <1>3, <1>4 DEF ScanRank

LEMMA RankFalls ==
    ASSUME TypeOK, [Next]_vars, main = "send" \/ main = "collect"
    PROVE  ScanRank' < ScanRank \/ UNCHANGED scan
<1>n. /\ Waiting \in Nat /\ InHand \in Nat /\ Ending \in Nat
      /\ Cardinality(unsent) \in Nat /\ Len(jobs) \in Nat /\ Len(results) \in Nat
      /\ Cardinality(At("receive")) \in Nat
      /\ Cardinality(At("read")) \in Nat /\ Cardinality(At("send")) \in Nat
  BY RankIsNatural, UnsentIsFinite, AtIsFinite DEF TypeOK
<1> DEFINE r == Cardinality(At("receive"))
           d == Cardinality(At("read"))
           s == Cardinality(At("send"))
<1>i. InHand = r + 4 * d + 3 * s /\ r \in Nat /\ d \in Nat /\ s \in Nat
  BY <1>n DEF InHand
<1> HIDE DEF r, d, s
\* Outside the workers, nobody's hand changes.
<1>h. UNCHANGED worker => InHand' = InHand
  BY DEF InHand, At
<1>1. CASE SendJob
  <2>1. UNCHANGED <<main, results, resultsClosed, worker>>
    BY <1>1 DEF SendJob
  <2>2. Cardinality(unsent') = Cardinality(unsent) - 1 /\ Len(jobs') = Len(jobs) + 1
    BY <1>1, SendJobMoves
  <2>3. Waiting' = Waiting - 1
    BY <1>n, <2>2 DEF Waiting
  <2>. QED BY <1>n, <1>h, <2>1, <2>3 DEF ScanRank, Ending
<1>2. CASE CloseJobs
  <2>1. /\ main = "send" /\ main' = "collect"
        /\ UNCHANGED <<unsent, jobs, results, resultsClosed, worker>>
    BY <1>2 DEF CloseJobs
  <2>2. Waiting' = Waiting /\ Ending' = Ending - 1
    BY <2>1 DEF Waiting, Ending
  <2>. QED BY <1>n, <1>h, <2>1, <2>2 DEF ScanRank
<1>3. CASE Collect
  <2>1. main = "collect" /\ UNCHANGED <<unsent, jobs, resultsClosed, worker>>
    BY <1>3 DEF Collect
  <2>2. \/ Len(results') = Len(results) - 1 /\ main' = main
        \/ results' = results /\ main' = "returned"
    BY <1>3, CollectMoves
  <2>3. Waiting' = Waiting
    BY <2>1 DEF Waiting
  <2>4. CASE Len(results') = Len(results) - 1 /\ main' = main
    <3>1. Ending' = Ending
      BY <2>1, <2>4 DEF Ending
    <3>. QED BY <1>n, <1>h, <2>1, <2>3, <2>4, <3>1 DEF ScanRank
  <2>5. CASE results' = results /\ main' = "returned"
    <3>1. Ending' = Ending - 1
      BY <2>1, <2>5 DEF Ending
    <3>. QED BY <1>n, <1>h, <2>1, <2>3, <2>5, <3>1 DEF ScanRank
  <2>. QED BY <2>2, <2>4, <2>5
<1>4. CASE CloseResults
  <2>1. resultsClosed' = TRUE /\ ~resultsClosed /\ UNCHANGED <<main, unsent, jobs, results, worker>>
    BY <1>4 DEF CloseResults
  <2>2. Waiting' = Waiting /\ Ending' = Ending - 1
    BY <2>1 DEF Waiting, Ending
  <2>. QED BY <1>n, <1>h, <2>1, <2>2 DEF ScanRank
<1>5. ASSUME NEW w \in Worker, Receive(w) PROVE ScanRank' < ScanRank
  <2>1. UNCHANGED <<main, unsent, results, resultsClosed>>
    BY <1>5 DEF Receive
  <2>2. Ending' = Ending
    BY <2>1 DEF Ending
  <2>3. /\ Cardinality(At("receive")') = Cardinality(At("receive")) - 1
        /\ Cardinality(At("send")') = Cardinality(At("send"))
    BY <1>5, ReceiveMoves
  <2>4. CASE /\ Cardinality(At("read")') = Cardinality(At("read")) + 1
             /\ Len(jobs') = Len(jobs) - 1
    <3>1. Waiting' = Waiting - 4
      BY <1>n, <2>1, <2>4 DEF Waiting
    <3>i. InHand' = (r - 1) + 4 * (d + 1) + 3 * s
      BY <2>3, <2>4 DEF InHand, r, d, s
    <3>2. InHand' = InHand + 3
      BY <1>i, <3>i
    <3>. QED BY <1>n, <2>1, <2>2, <3>1, <3>2 DEF ScanRank
  <2>5. CASE Cardinality(At("read")') = Cardinality(At("read")) /\ jobs' = jobs
    <3>1. Waiting' = Waiting
      BY <2>1, <2>5 DEF Waiting
    <3>i. InHand' = (r - 1) + 4 * d + 3 * s
      BY <2>3, <2>5 DEF InHand, r, d, s
    <3>2. InHand' = InHand - 1
      BY <1>i, <3>i
    <3>. QED BY <1>n, <2>1, <2>2, <3>1, <3>2 DEF ScanRank
  <2>. QED BY <1>5, <2>4, <2>5, ReceiveMoves
<1>6. ASSUME NEW w \in Worker, ProcessInfo(w) PROVE ScanRank' < ScanRank
  <2>1. UNCHANGED <<main, unsent, jobs, results, resultsClosed>>
    BY <1>6 DEF ProcessInfo
  <2>2. Waiting' = Waiting /\ Ending' = Ending
    BY <2>1 DEF Waiting, Ending
  <2>3. InHand' = InHand - 1 \/ InHand' = InHand - 3
    <3>1. /\ Cardinality(At("read")') = Cardinality(At("read")) - 1
          /\ \/ /\ Cardinality(At("send")') = Cardinality(At("send")) + 1
                /\ Cardinality(At("receive")') = Cardinality(At("receive"))
             \/ /\ Cardinality(At("send")') = Cardinality(At("send"))
                /\ Cardinality(At("receive")') = Cardinality(At("receive")) + 1
      BY <1>6, ReadMoves
    <3>2. CASE /\ Cardinality(At("send")') = Cardinality(At("send")) + 1
               /\ Cardinality(At("receive")') = Cardinality(At("receive"))
      <4>1. InHand' = r + 4 * (d - 1) + 3 * (s + 1)
        BY <3>1, <3>2 DEF InHand, r, d, s
      <4>. QED BY <1>i, <4>1
    <3>3. CASE /\ Cardinality(At("send")') = Cardinality(At("send"))
               /\ Cardinality(At("receive")') = Cardinality(At("receive")) + 1
      <4>1. InHand' = (r + 1) + 4 * (d - 1) + 3 * s
        BY <3>1, <3>3 DEF InHand, r, d, s
      <4>. QED BY <1>i, <4>1
    <3>. QED BY <3>1, <3>2, <3>3
  <2>. QED BY <1>n, <2>1, <2>2, <2>3 DEF ScanRank
<1>7. ASSUME NEW w \in Worker, SendResult(w) PROVE ScanRank' < ScanRank
  <2>1. UNCHANGED <<main, unsent, jobs, resultsClosed>>
    BY <1>7 DEF SendResult
  <2>2. Waiting' = Waiting /\ Ending' = Ending
    BY <2>1 DEF Waiting, Ending
  <2>3. /\ Len(results') = Len(results) + 1
        /\ Cardinality(At("read")') = Cardinality(At("read"))
        /\ Cardinality(At("send")') = Cardinality(At("send")) - 1
        /\ Cardinality(At("receive")') = Cardinality(At("receive")) + 1
    BY <1>7, SendMoves
  <2>i. InHand' = (r + 1) + 4 * d + 3 * (s - 1)
    BY <2>3 DEF InHand, r, d, s
  <2>4. InHand' = InHand - 2
    BY <1>i, <2>i
  <2>. QED BY <1>n, <2>2, <2>3, <2>4 DEF ScanRank
<1>8. CASE (\E p \in Pid : Exit(p) \/ Spawn(p)) \/ UNCHANGED vars
  BY <1>8 DEF Exit, Spawn, vars, scan
<1>9. ~List /\ ~Again
  BY DEF List, Again
<1>. QED BY <1>1, <1>2, <1>3, <1>4, <1>5, <1>6, <1>7, <1>8, <1>9 DEF Next, Main, Work

\* Every step of a scan leaves less to do, for any number of processes and of
\* workers.  With ScanIsNeverStuck that is all of ScanEnds that is not fairness.
THEOREM ScanGetsDone == Spec => ScanDwindles
<1>1. TypeOK /\ [Next]_vars
        => [main = "send" \/ main = "collect" => ScanRank' < ScanRank \/ UNCHANGED scan]_vars
  BY RankFalls
<1>. QED BY <1>1, TypeInit, TypeNext, PTL DEF Spec, ScanDwindles

-----------------------------------------------------------------------------
(* Every PID is on its way once *)

Single(s) == \A i, j \in DOMAIN s : s[i] = s[j] => i = j

HeldBy(w, p) == worker[w].pc \in {"read", "send"} /\ worker[w].pid = p
Held(p) == \E w \in Worker : HeldBy(w, p)

OnePlace(p) ==
    /\ p \in unsent => ~In(jobs, p) /\ ~Held(p) /\ ~In(results, p) /\ ~In(info, p)
    /\ In(jobs, p) => ~Held(p) /\ ~In(results, p) /\ ~In(info, p)
    /\ Held(p) => ~In(results, p) /\ ~In(info, p)
    /\ In(results, p) => ~In(info, p)

OneHolder == \A p \in Pid, v, w \in Worker : HeldBy(v, p) /\ HeldBy(w, p) => v = w

OnceInv ==
    /\ Single(jobs) /\ Single(results) /\ Single(info)
    /\ OneHolder
    /\ \A p \in Pid : OnePlace(p)

\* What is appended to a queue must not be in it; a tail repeats nothing, the
\* head not either.
LEMMA SingleAppend ==
    ASSUME NEW S, NEW s \in Seq(S), NEW x \in S, Single(s), ~In(s, x)
    PROVE  Single(Append(s, x))
<1>1. Len(s) \in Nat /\ DOMAIN s = 1..Len(s) /\ DOMAIN Append(s, x) = 1..(Len(s) + 1)
  OBVIOUS
<1>2. \A i \in 1..Len(s) : Append(s, x)[i] = s[i] /\ s[i] # x
  BY <1>1 DEF In
<1>3. Append(s, x)[Len(s) + 1] = x
  OBVIOUS
<1>. QED BY <1>1, <1>2, <1>3 DEF Single

LEMMA SingleTail ==
    ASSUME NEW S, NEW s \in Seq(S), s # <<>>, Single(s)
    PROVE  Single(Tail(s)) /\ ~In(Tail(s), Head(s))
<1>1. /\ Len(s) \in Nat \ {0} /\ DOMAIN s = 1..Len(s)
      /\ DOMAIN Tail(s) = 1..(Len(s) - 1)
      /\ Head(s) = s[1] /\ \A i \in 1..(Len(s) - 1) : Tail(s)[i] = s[i + 1]
  OBVIOUS
<1>. QED BY <1>1 DEF Single, In

LEMMA OnceInit == Init => OnceInv
<1>1. Single(<<>>) /\ \A p : ~In(<<>>, p)
  BY DEF Single, In
<1>. QED BY <1>1 DEF Init, OnceInv, OneHolder, OnePlace, Held, HeldBy, Absent

LEMMA OnceMain ==
    ASSUME TypeOK, OnceInv, Main \/ Again \/ CloseResults
    PROVE  OnceInv'
<1>. USE DEF history
<1>e. Single(<<>>) /\ \A p : ~In(<<>>, p)
  BY DEF Single, In
<1>1. CASE List
  <2>1. \A w \in Worker, p \in Pid : ~HeldBy(w, p)'
    BY <1>1 DEF List, HeldBy, Fresh, Absent
  <2>2. jobs' = <<>> /\ results' = <<>> /\ info' = <<>>
    BY <1>1 DEF List
  <2>. QED BY <1>e, <2>1, <2>2 DEF OnceInv, OneHolder, OnePlace, Held
<1>2. CASE SendJob
  <2>1. PICK q \in unsent : jobs' = Append(jobs, q) /\ unsent' = unsent \ {q}
    BY <1>2 DEF SendJob
  <2>2. q \in Pid /\ ~In(jobs, q) /\ ~Held(q) /\ ~In(results, q) /\ ~In(info, q)
    BY <2>1 DEF TypeOK, OnceInv, OnePlace
  <2>3. Single(jobs')
    BY <2>1, <2>2, SingleAppend DEF TypeOK, OnceInv
  <2>4. \A p \in Pid : In(jobs', p) <=> In(jobs, p) \/ p = q
    BY <2>1, <2>2, InAppend DEF TypeOK
  <2>5. UNCHANGED <<worker, results, info>>
    BY <1>2 DEF SendJob
  <2>6. ASSUME NEW p \in Pid PROVE OnePlace(p)'
    <3>1. (Held(p)' <=> Held(p)) /\ (In(results', p) <=> In(results, p)) /\ (In(info', p) <=> In(info, p))
      BY <2>5 DEF Held, HeldBy
    <3>. QED BY <2>1, <2>2, <2>4, <3>1 DEF OnceInv, OnePlace
  <2>7. OneHolder'
    BY <2>5 DEF OnceInv, OneHolder, HeldBy
  <2>. QED BY <2>3, <2>5, <2>6, <2>7 DEF OnceInv
<1>3. CASE CloseJobs \/ CloseResults
  BY <1>3 DEF CloseJobs, CloseResults, OnceInv, OneHolder, OnePlace, Held, HeldBy, In, Single
<1>4. CASE Again
  BY <1>e, <1>4 DEF Again, OnceInv, OneHolder, OnePlace, Held, HeldBy, In, Single
<1>5. CASE Collect
  <2>1. CASE results = <<>>
    BY <1>5, <2>1 DEF Collect, OnceInv, OneHolder, OnePlace, Held, HeldBy, In, Single
  <2>2. CASE results # <<>>
    <3>. DEFINE q == Head(results)
    <3>1. q \in Pid /\ info' = Append(info, q) /\ results' = Tail(results)
      BY <1>5, <2>2 DEF Collect, TypeOK
    <3>2. UNCHANGED <<worker, unsent, jobs>>
      BY <1>5 DEF Collect
    <3>3. Single(results') /\ ~In(results', q)
      BY <2>2, <3>1, SingleTail DEF TypeOK, OnceInv
    <3>4. \A p \in Pid : In(results, p) <=> p = q \/ In(results', p)
      BY <2>2, <3>1, InTail DEF TypeOK
    <3>5. ~In(info, q)
      BY <3>1, <3>4 DEF OnceInv, OnePlace
    <3>6. Single(info') /\ \A p \in Pid : In(info', p) <=> In(info, p) \/ p = q
      BY <3>1, <3>5, SingleAppend, InAppend DEF TypeOK, OnceInv
    <3>. HIDE DEF q
    <3>7. ASSUME NEW p \in Pid PROVE OnePlace(p)'
      <4>1. (Held(p)' <=> Held(p)) /\ (In(jobs', p) <=> In(jobs, p))
        BY <3>2 DEF Held, HeldBy
      <4>. QED BY <3>2, <3>3, <3>4, <3>6, <4>1 DEF OnceInv, OnePlace
    <3>8. OneHolder'
      BY <3>2 DEF OnceInv, OneHolder, HeldBy
    <3>. QED BY <3>2, <3>3, <3>6, <3>7, <3>8 DEF OnceInv
  <2>. QED BY <2>1, <2>2
<1>. QED BY <1>1, <1>2, <1>3, <1>4, <1>5 DEF Main

LEMMA OnceWork ==
    ASSUME TypeOK, OnceInv, NEW w \in Worker, Work(w)
    PROVE  OnceInv'
<1>. USE DEF history
<1>a. UNCHANGED <<unsent, info>>
  BY DEF Work, Receive, ProcessInfo, SendResult
<1>b. \A v \in Worker \ {w} : worker'[v] = worker[v]
  BY DEF Work, Receive, ProcessInfo, SendResult, TypeOK
<1>c. \A v \in Worker \ {w}, p \in Pid : HeldBy(v, p)' <=> HeldBy(v, p)
  BY <1>b DEF HeldBy
<1>1. CASE Receive(w) /\ jobs # <<>>
  <2>. DEFINE q == Head(jobs)
  <2>1. q \in Pid /\ jobs' = Tail(jobs) /\ results' = results
    BY <1>1 DEF Receive, TypeOK
  <2>2. \A p \in Pid : (HeldBy(w, p)' <=> p = q) /\ ~HeldBy(w, p)
    BY <1>1 DEF Receive, TypeOK, HeldBy
  <2>3. Single(jobs') /\ ~In(jobs', q)
    BY <1>1, <2>1, SingleTail DEF TypeOK, OnceInv
  <2>4. \A p \in Pid : In(jobs, p) <=> p = q \/ In(jobs', p)
    BY <1>1, <2>1, InTail DEF TypeOK
  <2>. HIDE DEF q
  <2>5. ~Held(q) /\ ~In(results, q) /\ ~In(info, q) /\ q \notin unsent
    BY <2>1, <2>4 DEF OnceInv, OnePlace
  <2>6. OneHolder'
    BY <1>c, <2>1, <2>2, <2>5 DEF OnceInv, OneHolder, Held
  <2>7. ASSUME NEW p \in Pid PROVE OnePlace(p)'
    <3>1. Held(p)' <=> Held(p) \/ p = q
      BY <1>c, <2>2 DEF Held
    <3>2. (In(results', p) <=> In(results, p)) /\ (In(info', p) <=> In(info, p)) /\ unsent' = unsent
      BY <1>a, <2>1
    <3>. QED BY <2>3, <2>4, <2>5, <3>1, <3>2 DEF OnceInv, OnePlace
  <2>. QED BY <1>a, <2>1, <2>3, <2>6, <2>7 DEF OnceInv
\* Who gives up, finds the process gone or is told to go on reading takes
\* nothing that another has.
<1>2. CASE (Receive(w) /\ jobs = <<>>) \/ ProcessInfo(w)
  <2>1. UNCHANGED <<jobs, results>>
    BY <1>2 DEF Receive, ProcessInfo
  <2>2. \A p \in Pid : HeldBy(w, p)' => HeldBy(w, p)
    <3>1. CASE Receive(w) /\ jobs = <<>>
      BY <3>1 DEF Receive, TypeOK, HeldBy, Absent
    <3>2. CASE ProcessInfo(w)
      <4>1. worker'[w].pid = worker[w].pid \/ worker'[w].pc = "receive"
        BY <3>2 DEF ProcessInfo, TypeOK, Fresh, WorkerState
      <4>. QED BY <3>2, <4>1 DEF ProcessInfo, HeldBy
    <3>. QED BY <1>2, <3>1, <3>2
  <2>3. \A v \in Worker, p \in Pid : HeldBy(v, p)' => HeldBy(v, p)
    BY <1>c, <2>2
  <2>4. OneHolder'
    BY <2>3 DEF OnceInv, OneHolder
  <2>5. ASSUME NEW p \in Pid PROVE OnePlace(p)'
    <3>1. Held(p)' => Held(p)
      BY <2>3 DEF Held
    <3>2. /\ In(jobs', p) <=> In(jobs, p)
          /\ (In(results', p) <=> In(results, p)) /\ (In(info', p) <=> In(info, p))
          /\ unsent' = unsent
      BY <1>a, <2>1
    <3>. QED BY <3>1, <3>2 DEF OnceInv, OnePlace
  <2>. QED BY <1>a, <2>1, <2>4, <2>5 DEF OnceInv
<1>3. CASE SendResult(w)
  <2>. DEFINE q == worker[w].pid
  <2>1. q \in Pid /\ results' = Append(results, q) /\ jobs' = jobs
    BY <1>3 DEF SendResult, TypeOK, WorkerState
  <2>2. \A p \in Pid : (HeldBy(w, p) <=> p = q) /\ ~HeldBy(w, p)'
    BY <1>3 DEF SendResult, TypeOK, HeldBy, Fresh
  <2>. HIDE DEF q
  <2>3. Held(q)
    BY <2>1, <2>2 DEF Held
  <2>4. ~In(results, q) /\ ~In(info, q) /\ ~In(jobs, q) /\ q \notin unsent
    BY <2>1, <2>3 DEF OnceInv, OnePlace
  <2>5. Single(results') /\ \A p \in Pid : In(results', p) <=> In(results, p) \/ p = q
    BY <2>1, <2>4, SingleAppend, InAppend DEF TypeOK, OnceInv
  <2>6. OneHolder'
    BY <1>c, <2>2 DEF OnceInv, OneHolder
  <2>7. ASSUME NEW p \in Pid PROVE OnePlace(p)'
    <3>1. Held(p)' => Held(p) /\ p # q
      BY <1>c, <2>1, <2>2 DEF OnceInv, OneHolder, Held
    <3>2. (In(jobs', p) <=> In(jobs, p)) /\ (In(info', p) <=> In(info, p)) /\ unsent' = unsent
      BY <1>a, <2>1
    <3>. QED BY <2>4, <2>5, <3>1, <3>2 DEF OnceInv, OnePlace
  <2>. QED BY <1>a, <2>1, <2>5, <2>6, <2>7 DEF OnceInv
<1>. QED BY <1>1, <1>2, <1>3 DEF Work

LEMMA OnceNext == TypeOK /\ OnceInv /\ [Next]_vars => OnceInv'
<1>1. ASSUME TypeOK, OnceInv, Next PROVE OnceInv'
  <2>1. CASE Main \/ Again \/ CloseResults
    BY <1>1, <2>1, OnceMain
  <2>2. CASE \E w \in Worker : Work(w)
    BY <1>1, <2>2, OnceWork
  <2>3. CASE \E p \in Pid : Exit(p) \/ Spawn(p)
    BY <1>1, <2>3 DEF Exit, Spawn, OnceInv, OneHolder, OnePlace, Held, HeldBy, In, Single
  <2>. QED BY <1>1, <2>1, <2>2, <2>3 DEF Next
<1>2. OnceInv /\ UNCHANGED vars => OnceInv'
  BY DEF vars, OnceInv, OneHolder, OnePlace, Held, HeldBy, In, Single
<1>. QED BY <1>1, <1>2

\* An answer names nobody twice, for any number of processes and of workers: at
\* every moment a listed PID is in one place of its way only.
THEOREM NobodyIsFoundTwice == Spec => []NobodyTwice
<1>1. OnceInv => NobodyTwice
  BY DEF OnceInv, Single, NobodyTwice
<1>. QED BY <1>1, TypeInit, TypeNext, OnceInit, OnceNext, PTL DEF Spec
=============================================================================
