------------------------------- MODULE Client -------------------------------
(***************************************************************************)
(* awesomerctl at the other end of the socket: at its start it asks once   *)
(* whether a daemon answers, and keeps what it concludes - the daemon's    *)
(* jail state, or one of its own - as long as it runs.  A remote state     *)
(* dials anew for every call.  Start makes the socket root's alone, so     *)
(* that a client of any other user is refused by a daemon that serves.     *)
(*                                                                         *)
(* The daemons take the steps of Socket; the clients observe and never     *)
(* hold one up.                                                            *)
(***************************************************************************)
EXTENDS SocketHistory

CONSTANT Clients

VARIABLES
  root,   \* the clients that run as root; the daemons all do
  state,  \* "down", "choose" (selectJailState), then "remote" or "local"
  call,   \* where the client's call of the daemon is, or how the last one ended
  conn,   \* the daemon the call is connected to; None once that has ended
  since   \* history: the daemons that have served all through the call so far

clientVars == <<root, state, call, conn, since>>

Pending == {"dial", "wait"}

ClientTypeOK ==
  /\ root \subseteq Clients
  /\ state \in [Clients -> {"down", "choose", "remote", "local"}]
  /\ call \in [Clients -> Pending \cup {"none", "ok", "failed"}]
  /\ conn \in [Clients -> Daemons \cup {None}]
  /\ since \in [Clients -> SUBSET Daemons]
  \* it chooses with its first call, and calls nobody once it is on its own
  /\ \A c \in Clients :
       /\ state[c] = "choose" => call[c] \in Pending
       /\ state[c] \in {"down", "local"} => call[c] \notin Pending
       /\ conn[c] # None => call[c] = "wait"

ClientInit ==
  /\ HistoryInit
  /\ root = {}
  /\ state = [c \in Clients |-> "down"]
  /\ call = [c \in Clients |-> "none"]
  /\ conn = [c \in Clients |-> None]
  /\ since = [c \in Clients |-> {}]

-----------------------------------------------------------------------------
(* The client's steps *)

\* runApp, started by root or by another user: the Ping of IsAvailable begins.
LaunchClient(c) ==
  /\ state[c] = "down"
  /\ root' \in {root, root \cup {c}}
  /\ state' = [state EXCEPT ![c] = "choose"]
  /\ call' = [call EXCEPT ![c] = "dial"]
  /\ UNCHANGED conn

\* Mutant: later calls go over the connection of the first, which has ended.
CallAgain(c) ==
  /\ state[c] = "remote" /\ call[c] \notin Pending
  /\ call' = [call EXCEPT ![c] = "wait"]
  /\ UNCHANGED <<root, state, conn>>

\* Any call of the remote state: a connection of its own.
Call(c) ==
  /\ state[c] = "remote" /\ call[c] \notin Pending
  /\ call' = [call EXCEPT ![c] = "dial"]
  /\ UNCHANGED <<root, state, conn>>

\* Mutant: a failed first call leaves the client without a state.
ReturnsUndecided(c, result) ==
  /\ call' = [call EXCEPT ![c] = result]
  /\ conn' = [conn EXCEPT ![c] = None]
  /\ state' = IF state[c] = "choose" /\ result = "ok" THEN [state EXCEPT ![c] = "remote"] ELSE state
  /\ UNCHANGED root

\* The call returns; the first one decides what kind of state the client keeps.
Returns(c, result) ==
  /\ call' = [call EXCEPT ![c] = result]
  /\ conn' = [conn EXCEPT ![c] = None]
  /\ state' = IF state[c] = "choose"
                THEN [state EXCEPT ![c] = IF result = "ok" THEN "remote" ELSE "local"]
                ELSE state
  /\ UNCHANGED root

\* From chmod on the socket has mode 0600; before that, what umask has left, and
\* nobody but root can count on it.
Admitted(c) == c \in root \/ main[path] = "chmod"

CallDial(c) ==
  /\ call[c] = "dial"
  /\ \/ /\ path \in open /\ Admitted(c)
        /\ call' = [call EXCEPT ![c] = "wait"]
        /\ conn' = [conn EXCEPT ![c] = path]
        /\ UNCHANGED <<root, state>>
     \/ /\ path \notin open \/ c \notin root
        /\ Returns(c, "failed")

\* As in Socket's Answered and Reset.
CallAnswered(c) ==
  /\ call[c] = "wait"
  /\ conn[c] # None
  /\ closer[conn[c]] # "none"
  /\ Returns(c, "ok")

\* Mutant: a connection that is reset goes unnoticed.
CallNeverReset(c) ==
  /\ call[c] = "wait"
  /\ conn[c] \notin open \cup {None}
  /\ Returns(c, "failed")

CallReset(c) ==
  /\ call[c] = "wait"
  /\ conn[c] \notin open
  /\ Returns(c, "failed")

\* Ended, at any point.
Quit(c) ==
  /\ state[c] # "down"
  /\ root' = root \ {c}
  /\ state' = [state EXCEPT ![c] = "down"]
  /\ call' = [call EXCEPT ![c] = "none"]
  /\ conn' = [conn EXCEPT ![c] = None]

Calling(c) == CallDial(c) \/ CallAnswered(c) \/ CallReset(c)

-----------------------------------------------------------------------------
(* Together *)

\* A daemon's process that ends takes its connections along.
DaemonStep ==
  /\ Next
  /\ conn' = [c \in Clients |-> IF conn[c] # None /\ main'[conn[c]] = "down"
                                  THEN None ELSE conn[c]]
  /\ UNCHANGED <<root, state, call>>

ClientStep ==
  /\ \E c \in Clients : LaunchClient(c) \/ Call(c) \/ Calling(c) \/ Quit(c)
  /\ UNCHANGED vars

\* Who serves when the call begins, and has served ever since.
Follow ==
  since' = [c \in Clients |->
              {d \in IF call[c] \in Pending THEN since[c] ELSE Daemons :
                 call'[c] \in Pending /\ Serving(d)'}]

ClientNext == (DaemonStep \/ ClientStep) /\ Remember /\ Follow

everything == <<vars, clashed, clientVars>>

\* A client that has begun a call goes on with it; nobody has to begin one.
ClientSpec ==
  /\ ClientInit
  /\ [][ClientNext]_everything
  /\ Fairness
  /\ \A c \in Clients : WF_everything(Calling(c) /\ UNCHANGED vars /\ Remember /\ Follow)

-----------------------------------------------------------------------------

\* A daemon that serves all through a call answers it if it is root's, the call by
\* which a starting client looks for a daemon included, and refuses it otherwise:
\* whatever other daemons start, stop or crash meanwhile.  It need not be so once a
\* start overlapped another start or a Close (ipc.go, Start, call and IsAvailable;
\* awesomerctl, selectJailState).
ServedCallsAreAnswered ==
  [][\A c \in Clients :
       call[c] \in Pending /\ call'[c] \in {"ok", "failed"}
         => \/ clashed
            \/ \A d \in since[c] : IF c \in root THEN call'[c] = "ok" /\ conn[c] = d
                                                 ELSE call'[c] = "failed"]_everything

\* No call blocks the interface for ever: neither on a daemon that listens before
\* it serves, nor on one that ends under the call (ipc.go, call; no call has a
\* timeout).
CallsEnd == \A c \in Clients : call[c] \in Pending ~> call[c] \notin Pending

=============================================================================
