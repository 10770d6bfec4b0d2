---------------------------- MODULE ClientProofs ----------------------------
(***************************************************************************)
(* Proofs about the socket and its clients, for any sets of daemons and of *)
(* clients: first the daemons by themselves, then whoever calls them.      *)
(***************************************************************************)
EXTENDS Client, Naturals, TLAPS

hvars == <<vars, clashed>>

\* The daemon whose business the path is: from finding it free or stale to the
\* end of its last Close.
Owner(d) == main[d] \in {"stale", "bind", "listen", "chmod", "run"} \/ Closing(d)

\* serve is called when Start has succeeded, its goroutine leaves "wait" only
\* when the context is cancelled and dies with the process; the deferred stop()
\* comes before the exit.
CloserOK ==
  \A d \in Daemons :
    /\ main[d] = "run" => closer[d] # "none"
    /\ closer[d] # "none" => main[d] \in {"run", "exit"} \cup Steps
    /\ closer[d] # "none" /\ main[d] = "exit" => d \in ctx
    /\ closer[d] \notin {"none", "wait"} => d \in ctx

OneOwner == \A d, e \in Daemons : Owner(d) /\ Owner(e) => d = e

\* What a daemon knows of the path at each step, when nobody interferes.
PathKnown ==
  \A d \in Daemons :
    /\ main[d] \in {"dial", "ping", "stale"} => path # None
    /\ main[d] = "bind" => path = None
    /\ main[d] \in {"listen", "chmod"} \/ Serving(d) => path = d
    /\ main[d] = "chmod" \/ Serving(d) => d \in open

\* Who pings is connected to the owner, if there is one.
PingsOwner ==
  \A d, e \in Daemons : main[d] = "ping" /\ Owner(e) => peer[d] = e

IInv ==
  /\ TypeOK /\ CloserOK /\ clashed \in BOOLEAN
  /\ ~clashed => ~Clash /\ OneOwner /\ PathKnown /\ PingsOwner

-----------------------------------------------------------------------------
(* Types *)

LEMMA SocketInit == HistoryInit => IInv
BY DaemonsAssumption
   DEF HistoryInit, Init, IInv, TypeOK, CloserOK, Clash, OneOwner, PathKnown, PingsOwner, Owner,
       Closing, Starting, Serving, Steps, StartSteps

LEMMA TypeStep == TypeOK /\ CloserOK /\ Next => TypeOK' /\ CloserOK'
<1> SUFFICES ASSUME TypeOK, CloserOK, NEW d \in Daemons,
               \/ Launch(d) \/ Start(d) \/ CtxClose(d) \/ RunReturns(d) \/ DeferredClose(d)
               \/ Signal(d) \/ Exit(d) \/ Crash(d)
             PROVE  TypeOK' /\ CloserOK'
  BY DEF Next
<1> USE DEF TypeOK, CloserOK, Goto
<1>1. CASE Launch(d)
  BY <1>1 DEF Launch, Steps, StartSteps
<1>2. CASE Start(d)
  <2>1. CASE socketExists(d) \/ Dial(d) \/ Answered(d) \/ Reset(d)
    BY <2>1 DEF socketExists, Dial, Answered, Reset, Steps, StartSteps
  <2>2. CASE removeStaleSocket(d) \/ Bind(d)
    BY <2>2 DEF removeStaleSocket, Bind, Steps, StartSteps
  <2>3. CASE Listen(d)
    BY <2>3 DEF Listen, Steps, StartSteps
  <2>4. CASE Chmod(d)
    BY <2>4 DEF Chmod, Steps, StartSteps
  <2> QED
    BY <1>2, <2>1, <2>2, <2>3, <2>4 DEF Start
<1>3. CASE CtxClose(d)
  BY <1>3 DEF CtxClose, CloseStep, After, Steps, StartSteps
<1>4. CASE RunReturns(d)
  BY <1>4 DEF RunReturns, Steps, StartSteps
<1>5. CASE DeferredClose(d)
  BY <1>5 DEF DeferredClose, CloseStep, After, Steps, StartSteps
<1>6. CASE Signal(d)
  BY <1>6 DEF Signal, Steps, StartSteps
<1>7. CASE Exit(d) \/ Crash(d)
  BY <1>7 DEF Exit, Crash, ProcessEnds, Steps, StartSteps
<1> QED
  BY <1>1, <1>2, <1>3, <1>4, <1>5, <1>6, <1>7

-----------------------------------------------------------------------------
(* Whose the path is *)

\* A step of d after which no start overlaps another daemon's start or close.
LEMMA OwnerStep ==
  ASSUME IInv, ~clashed, (~Clash)', TypeOK', CloserOK', NEW d \in Daemons,
         \/ Launch(d) \/ Start(d) \/ CtxClose(d) \/ RunReturns(d) \/ DeferredClose(d)
         \/ Signal(d) \/ Exit(d) \/ Crash(d)
  PROVE  OneOwner' /\ PathKnown' /\ PingsOwner'
<1>0. TypeOK /\ CloserOK /\ ~Clash /\ OneOwner /\ PathKnown /\ PingsOwner
  BY DEF IInv
<1> USE <1>0, DaemonsAssumption
    DEF OneOwner, PathKnown, PingsOwner, Owner, Closing, Serving, Starting, Clash,
        TypeOK, CloserOK, Steps, StartSteps, Goto
<1>1. CASE Launch(d)
  BY <1>1 DEF Launch
<1>2. CASE Start(d)
  <2>1. CASE socketExists(d)
    <3>1. \A e \in Daemons \ {d} : ~Starting(e) /\ ~Closing(e)
      BY <2>1 DEF socketExists
    <3>2. \A e \in Daemons \ {d} : Owner(e) => path = e
      BY <3>1
    <3>3. /\ \A e \in Daemons \ {d} : main'[e] = main[e]
          /\ UNCHANGED <<path, closer, ctx, open, peer>>
      BY <2>1 DEF socketExists
    <3> QED
      BY <2>1, <3>1, <3>2, <3>3 DEF socketExists
  <2>2. CASE Dial(d)
    <3>1. \A e \in Daemons \ {d} : ~Starting(e) /\ ~Closing(e)
      BY <2>2 DEF Dial
    <3>2. \A e \in Daemons \ {d} : Owner(e) => path = e /\ e \in open
      BY <3>1
    <3>3. /\ \A e \in Daemons \ {d} : main'[e] = main[e]
          /\ UNCHANGED <<path, closer, ctx, open>>
      BY <2>2 DEF Dial
    <3>4. CASE path \in open
      BY <2>2, <3>1, <3>2, <3>3, <3>4 DEF Dial
    <3>5. CASE path \notin open
      BY <2>2, <3>1, <3>2, <3>3, <3>5 DEF Dial
    <3> QED
      BY <3>4, <3>5
  <2>3. CASE Answered(d)
    <3>1. main' = [main EXCEPT ![d] = "exit"] /\ closer[d] = "none"
      BY <2>3 DEF Answered
    <3>2. \A e \in Daemons : Owner(e)' => Owner(e) /\ e # d
      BY <2>3, <3>1 DEF Answered
    <3>3. OneOwner'
      BY <3>2
    <3>4. PathKnown'
      BY <2>3, <3>1 DEF Answered
    <3>5. PingsOwner'
      BY <2>3, <3>1, <3>2 DEF Answered
    <3> QED
      BY <3>3, <3>4, <3>5
  <2>4. CASE Reset(d)
    BY <2>4 DEF Reset
  <2>5. CASE removeStaleSocket(d)
    <3>1. \A e \in Daemons \ {d} : ~Owner(e) /\ ~Starting(e)
      BY <2>5 DEF removeStaleSocket
    <3>2. /\ main' = [main EXCEPT ![d] = "bind"] /\ path' = None
          /\ UNCHANGED <<closer, ctx, open, unlinked, peer>>
      BY <2>5 DEF removeStaleSocket
    <3>3. \A e \in Daemons : Owner(e)' => e = d
      BY <3>1, <3>2
    <3> QED
      BY <3>1, <3>2, <3>3
  <2>6. CASE Bind(d)
    BY <2>6 DEF Bind
  <2>7. CASE Listen(d)
    BY <2>7 DEF Listen
  <2>8. CASE Chmod(d)
    BY <2>8 DEF Chmod
  <2> QED
    BY <1>2, <2>1, <2>2, <2>3, <2>4, <2>5, <2>6, <2>7, <2>8 DEF Start
<1>3. CASE CtxClose(d)
  <2>1. Closing(d) /\ Owner(d) /\ ~Starting(d)
    BY <1>3 DEF CtxClose
  <2>2. \A e \in Daemons \ {d} : ~Owner(e) /\ ~Starting(e)
    BY <2>1
  <2>3. /\ UNCHANGED <<main, ctx, peer>>
        /\ \A e \in Daemons \ {d} : closer'[e] = closer[e]
    BY <1>3 DEF CtxClose
  <2>4. \A e \in Daemons \ {d} : ~Owner(e)' /\ ~Starting(e)'
    BY <2>2, <2>3
  <2>5. ~Serving(d)' /\ ~Starting(d)'
    BY <1>3, <2>1, <2>3 DEF CtxClose
  <2> QED
    BY <2>4, <2>5
<1>4. CASE RunReturns(d)
  BY <1>4 DEF RunReturns
<1>5. CASE DeferredClose(d)
  BY <1>5 DEF DeferredClose, CloseStep, After
<1>6. CASE Signal(d)
  BY <1>6 DEF Signal
<1>7. CASE Exit(d) \/ Crash(d)
  BY <1>7 DEF Exit, Crash, ProcessEnds
<1> QED
  BY <1>1, <1>2, <1>3, <1>4, <1>5, <1>6, <1>7

LEMMA SocketNext == IInv /\ [Next /\ Remember]_hvars => IInv'
<1> SUFFICES ASSUME IInv, [Next /\ Remember]_hvars PROVE IInv'
  OBVIOUS
<1>1. CASE UNCHANGED hvars
  BY <1>1 DEF hvars, vars, IInv, TypeOK, CloserOK, Clash, OneOwner, PathKnown, PingsOwner,
     Owner, Closing, Serving, Starting
<1>2. CASE Next /\ Remember
  <2>1. TypeOK' /\ CloserOK' /\ clashed' \in BOOLEAN
    BY <1>2, TypeStep DEF IInv, Remember
  <2>2. CASE AllDown'
    <3>1. (~Clash /\ OneOwner /\ PathKnown /\ PingsOwner)'
      BY <2>1, <2>2 DEF CloserOK, AllDown, Clash, OneOwner, PathKnown, PingsOwner, Owner,
         Closing, Starting, Serving, Steps, StartSteps
    <3> QED
      BY <2>1, <3>1 DEF IInv
  <2>3. CASE ~AllDown' /\ ~clashed'
    <3>1. ~clashed /\ (~Clash)'
      BY <1>2, <2>3 DEF Remember, IInv
    <3>2. PICK d \in Daemons :
            \/ Launch(d) \/ Start(d) \/ CtxClose(d) \/ RunReturns(d) \/ DeferredClose(d)
            \/ Signal(d) \/ Exit(d) \/ Crash(d)
      BY <1>2 DEF Next
    <3>3. OneOwner' /\ PathKnown' /\ PingsOwner'
      BY <2>1, <3>1, <3>2, OwnerStep
    <3> QED
      BY <2>1, <3>1, <3>3 DEF IInv
  <2> QED
    BY <2>1, <2>2, <2>3 DEF IInv
<1> QED
  BY <1>1, <1>2

-----------------------------------------------------------------------------
(* The daemons by themselves *)

\* The socket's state has its type, and a listener exists only between listen
\* and its close.
THEOREM TypeCorrect == HistorySpec => []TypeOK
<1>1. IInv => TypeOK
  BY DEF IInv
<1> QED
  BY <1>1, SocketInit, SocketNext, PTL DEF HistorySpec, hvars

\* Whatever daemons start, stop and die, those that serve are reached, unless
\* a start overlapped another daemon's start or close.
THEOREM ServingReached == HistorySpec => []ServingIsReached
<1>1. IInv => ServingIsReached
  BY DEF IInv, PathKnown, ServingIsReached
<1> QED
  BY <1>1, SocketInit, SocketNext, PTL DEF HistorySpec, hvars

\* Start gives up only for another daemon that serves.
THEOREM RefusedForAnother == HistorySpec => RefusedOnlyForAnother
<1>1. ASSUME IInv, Next, ~clashed, NEW d \in Daemons,
             Starting(d), main'[d] \in Steps \cup {"exit"}
      PROVE  \E e \in Daemons \ {d} : main[e] = "run"
  <2>0. TypeOK /\ CloserOK /\ PathKnown /\ ~Clash
    BY <1>1 DEF IInv
  <2>1. PICK f \in Daemons :
          \/ Launch(f) \/ Start(f) \/ CtxClose(f) \/ RunReturns(f) \/ DeferredClose(f)
          \/ Signal(f) \/ Exit(f) \/ Crash(f)
    BY <1>1 DEF Next
  <2>2. f = d /\ Start(d)
    BY <1>1, <2>0, <2>1 DEF TypeOK, Starting, Steps, StartSteps, Goto, Launch, Start,
       socketExists, Dial, Answered, Reset, removeStaleSocket, Bind, Listen, Chmod,
       CtxClose, RunReturns, DeferredClose, Signal, Exit, Crash, ProcessEnds
  <2>3. Answered(d)
    BY <1>1, <2>0, <2>2, DaemonsAssumption
       DEF TypeOK, PathKnown, Starting, Steps, StartSteps, Goto, Start,
       socketExists, Dial, Answered, Reset, removeStaleSocket, Bind, Listen, Chmod
  <2>4. peer[d] \in Daemons \ {d}
    BY <1>1, <2>0, <2>3 DEF TypeOK, CloserOK, Answered, Steps
  <2>5. main[peer[d]] = "run"
    BY <1>1, <2>0, <2>3, <2>4 DEF CloserOK, Answered, Clash, Starting, Closing
  <2> QED
    BY <2>4, <2>5
<1>2. IInv /\ [Next /\ Remember]_hvars
        => [\A d \in Daemons :
              Starting(d) /\ main'[d] \in Steps \cup {"exit"}
                => clashed \/ \E e \in Daemons \ {d} : main[e] = "run"]_<<vars, clashed>>
  BY <1>1 DEF hvars
<1> QED
  BY <1>2, SocketInit, SocketNext, PTL DEF HistorySpec, RefusedOnlyForAnother, hvars

-----------------------------------------------------------------------------
(* The clients *)

\* The history of Socket while the clients move: once all daemons are down,
\* nothing is remembered.
HistoryInv == IInv /\ (AllDown => ~clashed)

\* Whom the history names does serve, and the connection of a waiting call leads
\* to it, unless starts and closes have overlapped.  Only root's do: another
\* client is connected to nobody who had served before.
FollowInv ==
  \A c \in Clients :
    /\ call[c] \in Pending => \A d \in since[c] : Serving(d)
    /\ call[c] = "wait" /\ ~clashed => \A d \in since[c] : conn[c] = d /\ c \in root

ClientInv == HistoryInv /\ ClientTypeOK /\ FollowInv

\* What a client's step may be.
LEMMA ClientSteps ==
  ASSUME ClientStep
  PROVE  /\ UNCHANGED vars
         /\ \E c \in Clients : LaunchClient(c) \/ Call(c) \/ Calling(c) \/ Quit(c)
BY DEF ClientStep

\* To the daemons a client's step is no step at all: Remember keeps what it knew.
LEMMA ClientsOnlyObserve ==
  ASSUME HistoryInv, ClientNext
  PROVE  [Next /\ Remember]_hvars
<1>1. CASE DaemonStep
  BY <1>1 DEF ClientNext, DaemonStep
<1>2. CASE ClientStep
  <2>1. UNCHANGED vars
    BY <1>2, ClientSteps
  <2>2. AllDown' = AllDown /\ Clash' = Clash
    BY <2>1 DEF vars, AllDown, Clash, Starting, Closing
  <2>3. clashed' = (~AllDown /\ (clashed \/ Clash))
    BY <2>2 DEF ClientNext, Remember
  <2>4. clashed' = clashed
    BY <2>3 DEF HistoryInv, IInv
  <2> QED
    BY <2>1, <2>4 DEF hvars
<1> QED
  BY <1>1, <1>2 DEF ClientNext

LEMMA HistoryStep == HistoryInv /\ [ClientNext]_everything => HistoryInv'
<1>1. HistoryInv /\ ClientNext => IInv'
  BY ClientsOnlyObserve, SocketNext DEF HistoryInv
<1>2. HistoryInv /\ ClientNext => (AllDown' => ~clashed')
  BY DEF ClientNext, Remember
<1>3. HistoryInv /\ UNCHANGED everything => HistoryInv'
  <2>1. ASSUME HistoryInv, UNCHANGED everything PROVE IInv'
    BY <2>1, SocketNext DEF HistoryInv, everything, hvars
  <2>2. ASSUME HistoryInv, UNCHANGED everything PROVE AllDown' => ~clashed'
    BY <2>2 DEF HistoryInv, AllDown, everything, vars
  <2> QED
    BY <2>1, <2>2 DEF HistoryInv
<1> QED
  BY <1>1, <1>2, <1>3 DEF HistoryInv

LEMMA ClientTypeStep == TypeOK /\ ClientTypeOK /\ [ClientNext]_everything => ClientTypeOK'
<1> SUFFICES ASSUME TypeOK, ClientTypeOK, [ClientNext]_everything PROVE ClientTypeOK'
  OBVIOUS
<1> USE DEF ClientTypeOK, Pending
<1>1. CASE UNCHANGED everything
  BY <1>1 DEF everything, clientVars
<1>2. ASSUME ClientNext PROVE since' \in [Clients -> SUBSET Daemons]
  BY <1>2 DEF ClientNext, Follow
<1>3. CASE ClientNext /\ DaemonStep
  BY <1>2, <1>3 DEF DaemonStep
<1>4. ASSUME ClientNext, NEW c \in Clients,
             LaunchClient(c) \/ Call(c) \/ Calling(c) \/ Quit(c)
      PROVE  ClientTypeOK'
  <2>1. CASE LaunchClient(c)
    BY <1>2, <1>4, <2>1 DEF LaunchClient
  <2>2. CASE Call(c)
    BY <1>2, <1>4, <2>2 DEF Call
  <2>3. CASE CallDial(c)
    BY <1>2, <1>4, <2>3 DEF CallDial, Returns, TypeOK
  <2>4. CASE CallAnswered(c)
    BY <1>2, <1>4, <2>4 DEF CallAnswered, Returns
  <2>5. CASE CallReset(c)
    BY <1>2, <1>4, <2>5 DEF CallReset, Returns
  <2>6. CASE Quit(c)
    BY <1>2, <1>4, <2>6 DEF Quit
  <2> QED
    BY <1>4, <2>1, <2>2, <2>3, <2>4, <2>5, <2>6 DEF Calling
<1> QED
  BY <1>1, <1>3, <1>4, ClientSteps DEF ClientNext

\* What was remembered of a clash is remembered while anybody serves.
LEMMA ClashIsRemembered ==
  ASSUME HistoryInv, ClientNext, NEW d \in Daemons, Serving(d)', ~clashed'
  PROVE  ~clashed
BY DEF ClientNext, Remember, AllDown, Serving, HistoryInv, IInv

\* Who was followed to the end of a step serves then.
LEMMA FollowStep ==
  ASSUME ClientInv, [ClientNext]_everything
  PROVE  FollowInv'
<1>1. CASE UNCHANGED everything
  BY <1>1 DEF ClientInv, FollowInv, everything, clientVars, vars, Serving, Pending
<1>2. CASE ClientNext
  <2> SUFFICES ASSUME NEW c \in Clients, NEW d \in since'[c]
               PROVE  /\ Serving(d)'
                      /\ call'[c] = "wait" /\ ~clashed' => conn'[c] = d /\ c \in root'
    BY DEF FollowInv
  <2>1. /\ Serving(d)' /\ d \in Daemons /\ call'[c] \in Pending
        /\ call[c] \in Pending => d \in since[c]
    BY <1>2 DEF ClientNext, Follow, ClientInv, ClientTypeOK
  <2>2. ASSUME call'[c] = "wait", ~clashed' PROVE conn'[c] = d /\ c \in root'
    <3>1. ~clashed
      BY <1>2, <2>1, <2>2, ClashIsRemembered DEF ClientInv
    <3>2. CASE DaemonStep
      <4>1. call[c] = "wait" /\ conn[c] = d /\ c \in root
        BY <2>1, <2>2, <3>1, <3>2 DEF DaemonStep, Pending, ClientInv, FollowInv
      <4>2. main'[d] = "run"
        BY <2>1 DEF Serving
      <4> QED
        BY <4>1, <4>2, <3>2 DEF DaemonStep
    <3>3. ASSUME NEW e \in Clients, UNCHANGED vars,
                 LaunchClient(e) \/ Call(e) \/ Calling(e) \/ Quit(e)
          PROVE  conn'[c] = d /\ c \in root'
      <4>1. CASE e = c /\ CallDial(c)
        <5>1. conn'[c] = path /\ d \in since[c] /\ Admitted(c) /\ root' = root
          BY <2>1, <2>2, <4>1 DEF CallDial, Returns, Pending, ClientInv, ClientTypeOK
        <5>2. Serving(d)
          BY <2>1, <4>1, <5>1 DEF CallDial, Pending, ClientInv, FollowInv
        <5>3. path = d
          BY <2>1, <3>1, <5>2 DEF ClientInv, HistoryInv, IInv, PathKnown
        <5>4. main[path] # "chmod"
          BY <5>2, <5>3 DEF Serving
        <5> QED
          BY <5>1, <5>3, <5>4 DEF Admitted
      <4>2. CASE ~(e = c /\ CallDial(c))
        <5>1. call[c] = "wait" /\ conn'[c] = conn[c] /\ (c \in root => c \in root')
          BY <2>2, <3>3, <4>2 DEF LaunchClient, Call, Calling, CallDial, CallAnswered,
             CallReset, Quit, Returns, ClientInv, ClientTypeOK
        <5> QED
          BY <2>1, <3>1, <5>1 DEF Pending, ClientInv, FollowInv
      <4> QED
        BY <4>1, <4>2
    <3> QED
      BY <1>2, <3>2, <3>3, ClientSteps DEF ClientNext
  <2> QED
    BY <2>1, <2>2
<1> QED
  BY <1>1, <1>2

LEMMA ClientInvariant == ClientSpec => []ClientInv
<1>1. ClientInit => ClientInv
  <2>1. ClientInit => IInv
    BY SocketInit DEF ClientInit
  <2>2. ClientInit => (AllDown => ~clashed) /\ ClientTypeOK /\ FollowInv
    BY DEF ClientInit, HistoryInit, ClientTypeOK, FollowInv, Pending
  <2> QED
    BY <2>1, <2>2 DEF ClientInv, HistoryInv
<1>2. ClientInv /\ [ClientNext]_everything => ClientInv'
  BY HistoryStep, ClientTypeStep, FollowStep DEF ClientInv, HistoryInv, IInv
<1> QED
  BY <1>1, <1>2, PTL DEF ClientSpec

\* The clients' variables stay in their sets (awesomerctl, selectJailState;
\* ipc.go, call).
THEOREM ClientTypeCorrect == ClientSpec => []ClientTypeOK
<1>1. ClientInv => ClientTypeOK
  BY DEF ClientInv
<1> QED
  BY <1>1, ClientInvariant, PTL

\* With clients at the socket the daemons' own guarantee stands: who serves is
\* reached at the path (removeStaleSocket).
THEOREM ClientsDisturbNobody == ClientSpec => []ServingIsReached
<1>1. ClientInv => ServingIsReached
  BY DEF ClientInv, HistoryInv, IInv, PathKnown, ServingIsReached
<1> QED
  BY <1>1, ClientInvariant, PTL

\* A daemon that serves all through a call answers it if it is root's, and refuses
\* it otherwise (ipc.go, Start and call).
THEOREM ServedAreAnswered == ClientSpec => ServedCallsAreAnswered
<1>1. ASSUME ClientInv, ClientNext, ~clashed, NEW c \in Clients,
             call[c] \in Pending, call'[c] \in {"ok", "failed"}, NEW d \in since[c]
      PROVE  IF c \in root THEN call'[c] = "ok" /\ conn[c] = d ELSE call'[c] = "failed"
  <2>1. d \in Daemons /\ Serving(d)
    BY <1>1 DEF ClientInv, ClientTypeOK, FollowInv
  <2>2. path = d /\ d \in open
    BY <1>1, <2>1 DEF ClientInv, HistoryInv, IInv, PathKnown
  <2>3. call[c] = "wait" => conn[c] = d /\ c \in root
    BY <1>1 DEF ClientInv, FollowInv
  <2>4. \E e \in Clients : LaunchClient(e) \/ Call(e) \/ Calling(e) \/ Quit(e)
    BY <1>1, ClientSteps DEF ClientNext, DaemonStep, Pending
  <2>5. CallDial(c) \/ CallAnswered(c) \/ CallReset(c)
    BY <1>1, <2>4 DEF Pending, LaunchClient, Call, Calling, CallDial, CallAnswered,
       CallReset, Quit, Returns, ClientInv, ClientTypeOK
  \* a dial that ends the call is one that the mode of the socket refuses
  <2>6. CASE CallDial(c)
    BY <1>1, <2>2, <2>6 DEF CallDial, Returns, ClientInv, ClientTypeOK
  <2>7. CASE CallAnswered(c) \/ CallReset(c)
    <3>1. call[c] = "wait" /\ conn[c] = d /\ c \in root
      BY <2>3, <2>7 DEF CallAnswered, CallReset
    <3>2. CallAnswered(c)
      BY <2>2, <2>7, <3>1 DEF CallReset
    <3> QED
      BY <1>1, <3>1, <3>2 DEF CallAnswered, Returns, ClientInv, ClientTypeOK
  <2> QED
    BY <2>5, <2>6, <2>7
<1>2. ClientInv /\ [ClientNext]_everything
        => [\A c \in Clients :
              call[c] \in Pending /\ call'[c] \in {"ok", "failed"}
                => \/ clashed
                   \/ \A d \in since[c] : IF c \in root THEN call'[c] = "ok" /\ conn[c] = d
                                                        ELSE call'[c] = "failed"]_everything
  BY <1>1
<1> QED
  BY <1>2, ClientInvariant, PTL DEF ClientSpec, ServedCallsAreAnswered

-----------------------------------------------------------------------------
(* Starts and calls end: the safety half *)

\* The order of a daemon's life: Start, Run, Close, the end.
StepsLeft(step) ==
  CASE step = "stat" -> 12 [] step = "dial" -> 11 [] step = "ping" -> 10 [] step = "stale" -> 9
    [] step = "bind" -> 8 [] step = "listen" -> 7 [] step = "chmod" -> 6 [] step = "run" -> 5
    [] step = "unlink" -> 4 [] step = "close" -> 3 [] step = "remove" -> 2 [] step = "exit" -> 1
    [] OTHER -> 0

\* No start and no close comes back to what it has done: whatever it finds at the
\* path and whoever answers it, runApp goes on or ends (ipc.go, Start, IsAvailable
\* and Close).
LivesGoOneWay ==
  [][\A d \in Daemons :
       \/ main'[d] = main[d]
       \/ main[d] = "down" /\ main'[d] = "stat"
       \/ StepsLeft(main'[d]) < StepsLeft(main[d])]_<<vars, clashed>>

\* Whoever has connected to e has its answer or its reset already, or waits for
\* one who waits for nobody.
CanGoOn(e) == e \notin open \/ closer[e] # "none" \/ main[e] \in {"chmod"} \cup Steps

\* Nobody waits in a circle: the listener that a starting daemon or a client is
\* connected to answers, is gone, or belongs to a daemon whose own next step
\* depends on nobody (ipc.go, call, which has no timeout, and Start).
NobodyWaitsInACircle ==
  /\ \A d \in Daemons : main[d] = "ping" => CanGoOn(peer[d])
  /\ \A c \in Clients : call[c] = "wait" => CanGoOn(conn[c])

LEMMA NextOne ==
  ASSUME Next
  PROVE  \E d \in Daemons :
           \/ Launch(d) \/ Start(d) \/ CtxClose(d) \/ RunReturns(d) \/ DeferredClose(d)
           \/ Signal(d) \/ Exit(d) \/ Crash(d)
BY DEF Next

\* For any number of daemons, none starts over, or closes again, what it has
\* done: the steps of Start, Run and Close are taken in one direction only.
THEOREM StartsGoForward == HistorySpec => LivesGoOneWay
<1>1. ASSUME TypeOK, Next, NEW d \in Daemons, main'[d] # main[d]
      PROVE  \/ main[d] = "down" /\ main'[d] = "stat"
             \/ StepsLeft(main'[d]) < StepsLeft(main[d])
  <2>1. PICK e \in Daemons :
          \/ Launch(e) \/ Start(e) \/ CtxClose(e) \/ RunReturns(e) \/ DeferredClose(e)
          \/ Signal(e) \/ Exit(e) \/ Crash(e)
    BY <1>1, NextOne
  <2>2. main \in [Daemons -> StartSteps \cup Steps \cup {"down", "run", "exit"}]
    BY <1>1 DEF TypeOK
  <2>3. CASE Launch(e) \/ RunReturns(e)
    BY <1>1, <2>2, <2>3 DEF Launch, RunReturns, Goto, StepsLeft
  <2>4. CASE Start(e)
    BY <1>1, <2>2, <2>4
       DEF Start, socketExists, Dial, Answered, Reset, removeStaleSocket, Bind, Listen, Chmod,
           Goto, StepsLeft
  <2>5. CASE DeferredClose(e)
    BY <1>1, <2>2, <2>5 DEF DeferredClose, Goto, After, Steps, StepsLeft
  <2>6. CASE CtxClose(e) \/ Signal(e)
    BY <1>1, <2>6 DEF CtxClose, Signal
  <2>7. CASE Exit(e) \/ Crash(e)
    <3>1. e = d /\ main[d] # "down" /\ main'[d] = "down"
      BY <1>1, <2>2, <2>7 DEF Exit, Crash, ProcessEnds, Goto
    <3>. QED BY <2>2, <3>1 DEF StepsLeft, StartSteps, Steps
  <2>. QED BY <2>1, <2>3, <2>4, <2>5, <2>6, <2>7
<1>2. IInv /\ [Next /\ Remember]_hvars
        => [\A d \in Daemons :
              \/ main'[d] = main[d]
              \/ main[d] = "down" /\ main'[d] = "stat"
              \/ StepsLeft(main'[d]) < StepsLeft(main[d])]_<<vars, clashed>>
  BY <1>1 DEF IInv, hvars
<1>. QED
  BY <1>2, SocketInit, SocketNext, PTL DEF HistorySpec, LivesGoOneWay, hvars

\* For any number of daemons and clients, whatever starts, closes and crashes
\* overlap: whoever waits at the socket waits for somebody who can go on.
THEOREM WaitersAreServed == ClientSpec => []NobodyWaitsInACircle
<1>1. ASSUME IInv, NEW e \in Daemons \cup {None} PROVE CanGoOn(e)
  <2>1. e \in open => main[e] \in {"chmod", "run", "unlink", "close"} /\ e \in Daemons
    BY <1>1 DEF IInv, TypeOK
  <2>2. e \in open /\ main[e] = "run" => closer[e] # "none"
    BY <1>1, <2>1 DEF IInv, CloserOK
  <2>. QED BY <2>1, <2>2 DEF CanGoOn, Steps
<1>2. ClientInv => NobodyWaitsInACircle
  BY <1>1 DEF ClientInv, HistoryInv, IInv, TypeOK, ClientTypeOK, NobodyWaitsInACircle
<1>. QED BY <1>2, ClientInvariant, PTL
=============================================================================
