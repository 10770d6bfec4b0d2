------------------------------- MODULE Socket -------------------------------
(***************************************************************************)
(* internal/daemon/ipc: the Unix socket awesomerd is reached at, from the  *)
(* side of the daemons.  Each starts with Start (ipc.go), serves while     *)
(* Run (daemon.go) lasts, and closes the server twice: in the goroutine    *)
(* that waits for the context, and deferred by runApp.  A step is one      *)
(* system call.                                                            *)
(***************************************************************************)
EXTENDS FiniteSets

CONSTANTS
  Daemons,   \* processes running awesomerd, any number of times each
  None       \* no file, no connection

ASSUME DaemonsAssumption == None \notin Daemons

VARIABLES
  path,      \* whose socket is the file at SocketPath; None: no file
  main,      \* where runApp of each daemon is
  closer,    \* where the goroutine of serve that waits for the context is;
             \* "none" as long as serve was not called
  ctx,       \* the daemons whose context is cancelled
  open,      \* the daemons whose listener accepts connections into its backlog
  unlinked,  \* the daemons whose listener has unlinked its path (unlinkOnce)
  peer       \* the listener the Ping of a starting daemon is connected to

vars == <<path, main, closer, ctx, open, unlinked, peer>>

Steps == {"unlink", "close", "remove"}
StartSteps == {"stat", "dial", "ping", "stale", "bind", "listen", "chmod"}

\* Between the call of Start and its return.
Starting(d) == main[d] \in StartSteps
\* Run goes on and has not been told to return.
Serving(d) == main[d] = "run" /\ d \notin ctx
\* A Close is running or is still to come.
Closing(d) == main[d] \in Steps \/ (closer[d] # "none" /\ d \in ctx)

TypeOK ==
  /\ path \in Daemons \cup {None}
  /\ main \in [Daemons -> StartSteps \cup Steps \cup {"down", "run", "exit"}]
  /\ closer \in [Daemons -> Steps \cup {"none", "wait", "done"}]
  /\ ctx \subseteq Daemons /\ open \subseteq Daemons /\ unlinked \subseteq open
  /\ peer \in [Daemons -> Daemons \cup {None}]
  \* a listener exists from listen on, until it is closed or the process ends
  /\ \A d \in Daemons :
       d \in open => main[d] \in {"chmod", "run", "unlink", "close"}

Init ==
  /\ path = None
  /\ main = [d \in Daemons |-> "down"]
  /\ closer = [d \in Daemons |-> "none"]
  /\ ctx = {} /\ open = {} /\ unlinked = {}
  /\ peer = [d \in Daemons |-> None]

Goto(d, step) == main' = [main EXCEPT ![d] = step]

-----------------------------------------------------------------------------
(* Start *)

Launch(d) ==
  /\ main[d] = "down"
  /\ Goto(d, "stat")
  /\ UNCHANGED <<path, closer, ctx, open, unlinked, peer>>

\* Mutant: a file left at the path is nobody's business.
BindAnyway(d) ==
  /\ main[d] = "stat"
  /\ Goto(d, "bind")
  /\ UNCHANGED <<path, closer, ctx, open, unlinked, peer>>

socketExists(d) ==
  /\ main[d] = "stat"
  /\ Goto(d, IF path = None THEN "bind" ELSE "dial")
  /\ UNCHANGED <<path, closer, ctx, open, unlinked, peer>>

\* Mutant: a socket that exists is taken for stale.
DialNobody(d) ==
  /\ main[d] = "dial"
  /\ Goto(d, "stale")
  /\ UNCHANGED <<path, closer, ctx, open, unlinked, peer>>

\* IsAvailable connects.  No file, or a file nobody listens behind: refused.
Dial(d) ==
  /\ main[d] = "dial"
  /\ IF path \in open
       THEN Goto(d, "ping") /\ peer' = [peer EXCEPT ![d] = path]
       ELSE Goto(d, "stale") /\ UNCHANGED peer
  /\ UNCHANGED <<path, closer, ctx, open, unlinked>>

\* The other daemon answers once it serves, and goes on answering those it has
\* accepted until it exits: the socket is in use.
Answered(d) ==
  /\ main[d] = "ping"
  /\ peer[d] # None
  /\ closer[peer[d]] # "none"
  /\ Goto(d, "exit")
  /\ peer' = [peer EXCEPT ![d] = None]
  /\ UNCHANGED <<path, closer, ctx, open, unlinked>>

\* The connection is reset: the process ended, or closed its listener before it
\* took the connection from the backlog.
Reset(d) ==
  /\ main[d] = "ping"
  /\ peer[d] \notin open
  /\ Goto(d, "stale")
  /\ peer' = [peer EXCEPT ![d] = None]
  /\ UNCHANGED <<path, closer, ctx, open, unlinked>>

\* Removes whatever is at the path now; that there is nothing is an error.
removeStaleSocket(d) ==
  /\ main[d] = "stale"
  /\ Goto(d, IF path = None THEN "exit" ELSE "bind")
  /\ path' = None
  /\ UNCHANGED <<closer, ctx, open, unlinked, peer>>

\* net.Listen: bind, which a file at the path makes fail, and listen.
Bind(d) ==
  /\ main[d] = "bind"
  /\ IF path = None THEN Goto(d, "listen") /\ path' = d
                    ELSE Goto(d, "exit") /\ UNCHANGED path
  /\ UNCHANGED <<closer, ctx, open, unlinked, peer>>

Listen(d) ==
  /\ main[d] = "listen"
  /\ Goto(d, "chmod")
  /\ open' = open \cup {d}
  /\ UNCHANGED <<path, closer, ctx, unlinked, peer>>

\* Mutant: a failed chmod leaves the listener open.
ChmodLeaking(d) ==
  /\ main[d] = "chmod"
  /\ IF path = None
       THEN Goto(d, "exit") /\ UNCHANGED closer
       ELSE Goto(d, "run") /\ closer' = [closer EXCEPT ![d] = "wait"]
  /\ UNCHANGED <<path, ctx, open, unlinked, peer>>

\* Mutant: serve is never called.
ChmodOnly(d) ==
  /\ main[d] = "chmod"
  /\ Goto(d, IF path = None THEN "unlink" ELSE "run")
  /\ UNCHANGED <<path, closer, ctx, open, unlinked, peer>>

\* chmod goes by name; without a file it fails, and Start closes the listener.
Chmod(d) ==
  /\ main[d] = "chmod"
  /\ IF path = None
       THEN Goto(d, "unlink") /\ UNCHANGED closer
       ELSE Goto(d, "run") /\ closer' = [closer EXCEPT ![d] = "wait"]
  /\ UNCHANGED <<path, ctx, open, unlinked, peer>>

Start(d) ==
  \/ socketExists(d) \/ Dial(d) \/ Answered(d) \/ Reset(d)
  \/ removeStaleSocket(d) \/ Bind(d) \/ Listen(d) \/ Chmod(d)

-----------------------------------------------------------------------------
(* Close *)

\* What one step of Close does to the file and the listener, whoever calls it.
\* The listener unlinks by name, once, and closes; then Close removes by name.
CloseStep(d, step) ==
  \/ /\ step = "unlink"
     /\ path' = IF d \in open \ unlinked THEN None ELSE path
     /\ unlinked' = unlinked \cup ({d} \cap open)
     /\ UNCHANGED open
  \/ /\ step = "close"
     /\ open' = open \ {d}
     /\ unlinked' = unlinked \ {d}
     /\ UNCHANGED path
  \/ /\ step = "remove"
     /\ path' = None
     /\ UNCHANGED <<open, unlinked>>

After(step, last) ==
  CASE step = "unlink" -> "close" [] step = "close" -> "remove" [] OTHER -> last

\* The goroutine started by serve.
CtxClose(d) ==
  /\ \/ /\ closer[d] = "wait" /\ d \in ctx
        /\ closer' = [closer EXCEPT ![d] = "unlink"]
        /\ UNCHANGED <<path, open, unlinked>>
     \/ /\ closer[d] \in Steps
        /\ CloseStep(d, closer[d])
        /\ closer' = [closer EXCEPT ![d] = After(closer[d], "done")]
  /\ UNCHANGED <<main, ctx, peer>>

\* Run returns: on the signal, on run: false, or with an error.
RunReturns(d) ==
  /\ main[d] = "run"
  /\ Goto(d, "unlink")
  /\ UNCHANGED <<path, closer, ctx, open, unlinked, peer>>

\* The deferred Close of runApp; the deferred stop() after it cancels the
\* context, so the goroutine may close the server again before the process ends.
DeferredClose(d) ==
  /\ main[d] \in Steps
  /\ CloseStep(d, main[d])
  /\ Goto(d, After(main[d], "exit"))
  /\ ctx' = IF main[d] = "remove" THEN ctx \cup {d} ELSE ctx
  /\ UNCHANGED <<closer, peer>>

-----------------------------------------------------------------------------
(* The process *)

Signal(d) ==
  /\ main[d] # "down" /\ d \notin ctx
  /\ ctx' = ctx \cup {d}
  /\ UNCHANGED <<path, main, closer, open, unlinked, peer>>

\* The kernel closes the listener and resets the connections; the file stays.
ProcessEnds(d) ==
  /\ Goto(d, "down")
  /\ closer' = [closer EXCEPT ![d] = "none"]
  /\ ctx' = ctx \ {d} /\ open' = open \ {d} /\ unlinked' = unlinked \ {d}
  /\ peer' = [e \in Daemons |-> IF e = d \/ peer[e] = d THEN None ELSE peer[e]]
  /\ UNCHANGED path

Exit(d) == main[d] = "exit" /\ ProcessEnds(d)

\* Killed, or panicking, anywhere.
Crash(d) == main[d] \notin {"down", "exit"} /\ ProcessEnds(d)

-----------------------------------------------------------------------------
Next == \E d \in Daemons :
  \/ Launch(d) \/ Start(d) \/ CtxClose(d) \/ RunReturns(d) \/ DeferredClose(d)
  \/ Signal(d) \/ Exit(d) \/ Crash(d)

Spec == Init /\ [][Next]_vars

\* The threads of a daemon go on; nobody has to start, signal or kill one.
Fairness == \A d \in Daemons :
  WF_vars(Start(d)) /\ WF_vars(CtxClose(d)) /\ WF_vars(DeferredClose(d))
    /\ WF_vars(Exit(d))

=============================================================================
