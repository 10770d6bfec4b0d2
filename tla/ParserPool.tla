----------------------------- MODULE ParserPool -----------------------------
(***************************************************************************)
(* pkg/parser, AllProcesses: one scan of /proc.  A listing, a channel of   *)
(* jobs, a handful of workers that read one process each, a channel of     *)
(* results, and a goroutine that closes it when the last worker is done,   *)
(* while processes start and end.  Everything a scan uses is its own, so   *)
(* one scan, started again and again, stands for all.                      *)
(***************************************************************************)
EXTENDS Naturals, Sequences, FiniteSets

CONSTANTS
    Pid,                      \* process identifiers
    NumCPU,                   \* runtime.NumCPU()
    maxProcessInfoWorkers

ASSUME PoolAssumption ==
    /\ IsFiniteSet(Pid) /\ Pid \subseteq Nat \ {0}
    /\ NumCPU \in Nat
    /\ maxProcessInfoWorkers \in Nat \ {0}

VARIABLES
    alive,      \* the processes that run
    main,       \* where AllProcesses is
    unsent,     \* listed PIDs that are no job yet
    total,      \* len(proc), the capacity of both channels
    jobs, jobsClosed,
    results, resultsClosed,
    worker,     \* where each worker is, and the PID it holds
    info,       \* what the scan has collected
    listed,     \* history: the PIDs that were listed,
    unread      \*          and those of them whose reading has failed

history == <<listed, unread>>
vars    == <<alive, listed, unread, main, unsent, total, jobs, jobsClosed, results,
             resultsClosed, worker, info>>

Smaller(a, b) == IF a < b THEN a ELSE b

processInfoWorkerCount(n) ==
    LET cpus == IF NumCPU < 1 THEN 1 ELSE NumCPU
    IN  IF n = 0 THEN 1 ELSE Smaller(Smaller(cpus, maxProcessInfoWorkers), n)

Worker == 1..maxProcessInfoWorkers
\* The workers a scan does not start count as done from the beginning.
Absent == [pc |-> "done", pid |-> 0]
Fresh  == [pc |-> "receive", pid |-> 0]
WorkerState == [pc : {"receive", "done"}, pid : {0}] \cup [pc : {"read", "send"}, pid : Pid]

-----------------------------------------------------------------------------
(* The scan *)

\* Mutant: channels for as many PIDs as there are workers.
Narrow ==
    /\ main = "idle"
    /\ unsent' = alive /\ listed' = alive /\ unread' = {}
    /\ total' = Smaller(Cardinality(alive), maxProcessInfoWorkers)
    /\ worker' = [w \in Worker |-> IF w <= processInfoWorkerCount(total') THEN Fresh ELSE Absent]
    /\ jobs' = <<>> /\ jobsClosed' = FALSE
    /\ results' = <<>> /\ resultsClosed' = FALSE
    /\ info' = <<>>
    /\ main' = "send"
    /\ UNCHANGED alive

\* process.Processes (when it fails, nothing has begun), the channels, the workers.
List ==
    /\ main = "idle"
    /\ unsent' = alive /\ listed' = alive /\ unread' = {}
    /\ total' = Cardinality(alive)
    /\ worker' = [w \in Worker |-> IF w <= processInfoWorkerCount(total') THEN Fresh ELSE Absent]
    /\ jobs' = <<>> /\ jobsClosed' = FALSE
    /\ results' = <<>> /\ resultsClosed' = FALSE
    /\ info' = <<>>
    /\ main' = "send"
    /\ UNCHANGED alive

SendJob ==
    /\ main = "send"
    /\ Len(jobs) < total
    /\ \E p \in unsent : jobs' = Append(jobs, p) /\ unsent' = unsent \ {p}
    /\ UNCHANGED <<alive, history, main, total, jobsClosed, results, resultsClosed, worker, info>>

\* Mutant: the jobs are never closed.
LeaveJobsOpen ==
    /\ main = "send" /\ unsent = {}
    /\ main' = "collect"
    /\ UNCHANGED <<alive, history, unsent, total, jobs, jobsClosed, results, resultsClosed, worker, info>>

\* close(jobs); from here on the closing goroutine waits for the workers.
CloseJobs ==
    /\ main = "send" /\ unsent = {}
    /\ jobsClosed' = TRUE
    /\ main' = "collect"
    /\ UNCHANGED <<alive, history, unsent, total, jobs, results, resultsClosed, worker, info>>

Collect ==
    /\ main = "collect"
    /\ \/ /\ results # <<>>
          /\ info' = Append(info, Head(results))
          /\ results' = Tail(results)
          /\ UNCHANGED main
       \/ /\ results = <<>> /\ resultsClosed
          /\ main' = "returned"
          /\ UNCHANGED <<info, results>>
    /\ UNCHANGED <<alive, history, unsent, total, jobs, jobsClosed, resultsClosed, worker>>

\* The caller has taken the answer; the next scan may begin.
Again ==
    /\ main = "returned"
    /\ main' = "idle"
    /\ info' = <<>> /\ listed' = {} /\ unread' = {}
    /\ UNCHANGED <<alive, unsent, total, jobs, jobsClosed, results, resultsClosed, worker>>

-----------------------------------------------------------------------------
(* The workers *)

\* Mutant: from a closed channel a worker takes the zero value for a PID.
ReceiveUnchecked(w) ==
    /\ worker[w].pc = "receive"
    /\ jobs # <<>> \/ jobsClosed
    /\ worker' = [worker EXCEPT ![w] = [pc |-> "read", pid |-> IF jobs = <<>> THEN 0 ELSE Head(jobs)]]
    /\ jobs' = IF jobs = <<>> THEN jobs ELSE Tail(jobs)
    /\ UNCHANGED <<alive, history, main, unsent, total, jobsClosed, results, resultsClosed, info>>

\* Mutant: a shared index for a channel, whose update may be lost.
ReceiveUnlocked(w) ==
    /\ worker[w].pc = "receive"
    /\ \/ /\ jobs # <<>>
          /\ worker' = [worker EXCEPT ![w] = [pc |-> "read", pid |-> Head(jobs)]]
          /\ jobs' \in {jobs, Tail(jobs)}
       \/ /\ jobs = <<>> /\ jobsClosed
          /\ worker' = [worker EXCEPT ![w] = Absent]
          /\ UNCHANGED jobs
    /\ UNCHANGED <<alive, history, main, unsent, total, jobsClosed, results, resultsClosed, info>>

Receive(w) ==
    /\ worker[w].pc = "receive"
    /\ \/ /\ jobs # <<>>
          /\ worker' = [worker EXCEPT ![w] = [pc |-> "read", pid |-> Head(jobs)]]
          /\ jobs' = Tail(jobs)
       \/ /\ jobs = <<>> /\ jobsClosed
          /\ worker' = [worker EXCEPT ![w] = Absent]
          /\ UNCHANGED jobs
    /\ UNCHANGED <<alive, history, main, unsent, total, jobsClosed, results, resultsClosed, info>>

\* Mutant: a worker leaves at the first process it cannot read.
ReadOrLeave(w) ==
    /\ worker[w].pc = "read"
    /\ \/ /\ worker[w].pid \in alive
          /\ worker' = [worker EXCEPT ![w].pc = "send"]
          /\ UNCHANGED unread
       \/ /\ worker' = [worker EXCEPT ![w] = Absent]
          /\ unread' = unread \cup {worker[w].pid}
    /\ UNCHANGED <<alive, listed, main, unsent, total, jobs, jobsClosed, results, resultsClosed, info>>

\* Mutant: what cannot be read is tried again.
ReadAgain(w) ==
    /\ worker[w].pc = "read"
    /\ \/ /\ worker[w].pid \in alive
          /\ worker' = [worker EXCEPT ![w].pc = "send"]
          /\ UNCHANGED jobs
       \/ /\ worker' = [worker EXCEPT ![w] = Fresh]
          /\ jobs' = Append(jobs, worker[w].pid)
    /\ UNCHANGED <<alive, history, main, unsent, total, jobsClosed, results, resultsClosed, info>>

\* Reading the parent's PID fails for a process that is gone, and may fail for one
\* that runs: either way the PID is passed over, and nobody is told.
ProcessInfo(w) ==
    /\ worker[w].pc = "read"
    /\ \/ /\ worker[w].pid \in alive
          /\ worker' = [worker EXCEPT ![w].pc = "send"]
          /\ UNCHANGED unread
       \/ /\ worker' = [worker EXCEPT ![w] = Fresh]
          /\ unread' = unread \cup {worker[w].pid}
    /\ UNCHANGED <<alive, listed, main, unsent, total, jobs, jobsClosed, results, resultsClosed, info>>

\* A full channel would make the worker wait, a closed one panic.
SendResult(w) ==
    /\ worker[w].pc = "send"
    /\ Len(results) < total
    /\ results' = Append(results, worker[w].pid)
    /\ worker' = [worker EXCEPT ![w] = Fresh]
    /\ UNCHANGED <<alive, history, main, unsent, total, jobs, jobsClosed, resultsClosed, info>>

AllDone == \A w \in Worker : worker[w].pc = "done"

\* Mutant: the results are closed as soon as no job is left.
CloseWhenNoJobs ==
    /\ main = "collect" /\ ~resultsClosed
    /\ jobs = <<>>
    /\ resultsClosed' = TRUE
    /\ UNCHANGED <<alive, history, main, unsent, total, jobs, jobsClosed, results, worker, info>>

\* wg.Wait(); close(results).
CloseResults ==
    /\ main = "collect" /\ ~resultsClosed
    /\ AllDone
    /\ resultsClosed' = TRUE
    /\ UNCHANGED <<alive, history, main, unsent, total, jobs, jobsClosed, results, worker, info>>

-----------------------------------------------------------------------------
(* The kernel *)

Exit(p) ==
    /\ p \in alive
    /\ alive' = alive \ {p}
    /\ UNCHANGED <<history, main, unsent, total, jobs, jobsClosed, results, resultsClosed, worker, info>>

\* The PID may be one that was listed.
Spawn(p) ==
    /\ p \notin alive
    /\ alive' = alive \cup {p}
    /\ UNCHANGED <<history, main, unsent, total, jobs, jobsClosed, results, resultsClosed, worker, info>>

-----------------------------------------------------------------------------
Init ==
    /\ alive \in SUBSET Pid /\ listed = {} /\ unread = {}
    /\ main = "idle"
    /\ unsent = {} /\ total = 0
    /\ jobs = <<>> /\ jobsClosed = FALSE
    /\ results = <<>> /\ resultsClosed = FALSE
    /\ worker = [w \in Worker |-> Absent]
    /\ info = <<>>

Main == List \/ SendJob \/ CloseJobs \/ Collect
Work(w) == Receive(w) \/ ProcessInfo(w) \/ SendResult(w)

Next ==
    \/ Main \/ Again \/ CloseResults
    \/ \E w \in Worker : Work(w)
    \/ \E p \in Pid : Exit(p) \/ Spawn(p)

Spec == Init /\ [][Next]_vars

\* Every goroutine of the scan goes on; the kernel owes nothing.
Fairness ==
    /\ WF_vars(Main) /\ WF_vars(CloseResults)
    /\ \A w \in Worker : WF_vars(Work(w))

FairSpec == Spec /\ Fairness

-----------------------------------------------------------------------------
\* Every variable stays in its set.
TypeOK ==
    /\ alive \subseteq Pid /\ unsent \subseteq Pid /\ listed \subseteq Pid /\ unread \subseteq Pid
    /\ main \in {"idle", "send", "collect", "returned"}
    /\ total \in Nat
    /\ jobs \in Seq(Pid) /\ results \in Seq(Pid) /\ info \in Seq(Pid)
    /\ jobsClosed \in BOOLEAN /\ resultsClosed \in BOOLEAN
    /\ worker \in [Worker -> WorkerState]

\* No worker sends on a closed channel, which would end the whole program: the
\* results are closed only behind the last worker (parser.go, AllProcesses).
NeverSendsOnClosed ==
    resultsClosed => \A w \in Worker : worker[w].pc \notin {"read", "send"}

\* A process is missing from the answer only if its own reading failed, as it does
\* when it has ended: whatever the other processes and the other workers did
\* meanwhile (parser.go, AllProcesses and ProcessInfo).
OnlyUnreadAreMissing ==
    main = "returned" => \A p \in listed \ unread : \E i \in DOMAIN info : info[i] = p

\* No send ever waits: there is room for every job that is still to be sent,
\* and for the result of every process somebody has read (parser.go,
\* AllProcesses: both channels are made for len(proc) values).
ChannelsHaveRoom ==
    /\ main = "send" /\ unsent # {} => Len(jobs) < total
    /\ \A w \in Worker : worker[w].pc = "send" => Len(results) < total

\* No process is in the answer twice, though any worker may have read it
\* (parser.go, AllProcesses): a snapshot with a PID twice would walk the process
\* and all its children twice (collector.go, walkTree).
NobodyTwice == \A i, j \in DOMAIN info : info[i] = info[j] => i = j

\* A scan under way is never stuck: the sender, the collector, the closing
\* goroutine or a worker has a step to take, whoever else waits (parser.go,
\* AllProcesses).
SomebodyMoves ==
    /\ main = "send" => unsent = {} \/ Len(jobs) < total
    /\ main = "collect" =>
         \/ results # <<>> \/ resultsClosed \/ AllDone
         \/ \E w \in Worker :
              \/ worker[w].pc = "receive" /\ (jobs # <<>> \/ jobsClosed)
              \/ worker[w].pc = "read"
              \/ worker[w].pc = "send" /\ Len(results) < total

At(pc) == {w \in Worker : worker[w].pc = pc}

\* What is left to do: the further back a PID is on its way, the more; the two
\* channels to close, and the return.
Waiting == 5 * Cardinality(unsent) + 4 * Len(jobs)
InHand  == Cardinality(At("receive")) + 4 * Cardinality(At("read")) + 3 * Cardinality(At("send"))
Ending  == (IF main = "send" THEN 2 ELSE IF main = "collect" THEN 1 ELSE 0)
             + (IF resultsClosed THEN 0 ELSE 1)

ScanRank == Waiting + InHand + Len(results) + Ending

scan == <<main, unsent, total, jobs, jobsClosed, results, resultsClosed, worker, info>>

\* Every step of a scan leaves less to do, and no process that starts or ends
\* meanwhile adds to it: nothing is read, sent or collected again and again
\* (parser.go, AllProcesses).
ScanDwindles ==
    [][main = "send" \/ main = "collect" => ScanRank' < ScanRank \/ UNCHANGED scan]_vars

\* A scan ends: nobody waits for a job, a result or a worker that never comes.
ScanEnds == main = "send" ~> main = "returned"
=============================================================================
