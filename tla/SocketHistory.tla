--------------------------- MODULE SocketHistory ----------------------------
(***************************************************************************)
(* Socket with one bit of history, and what the socket is for.             *)
(***************************************************************************)
EXTENDS Socket

VARIABLE clashed  \* since all were down, a start overlapped another daemon's
                  \* start or close

Clash == \E d, e \in Daemons : d # e /\ Starting(d) /\ (Starting(e) \/ Closing(e))

AllDown == \A d \in Daemons : main[d] = "down"

Remember == clashed' = (~AllDown' /\ (clashed \/ Clash'))

HistoryInit == Init /\ clashed = FALSE

HistorySpec ==
  /\ HistoryInit
  /\ [][Next /\ Remember]_<<vars, clashed>>
  /\ Fairness

-----------------------------------------------------------------------------

\* A daemon that serves is the one clients reach at the path, whatever crashed
\* before, whoever tried to start meanwhile: stale files go, live ones stay
\* (removeStaleSocket).  It is not so once a start overlapped another start or
\* the Close of a daemon that is stopping, both of which remove by name.
ServingIsReached ==
  ~clashed => \A d \in Daemons : Serving(d) => path = d /\ d \in open

\* Start gives up only for another daemon that serves: never for the file a
\* daemon that died has left.
RefusedOnlyForAnother ==
  [][\A d \in Daemons :
       Starting(d) /\ main'[d] \in Steps \cup {"exit"}
         => clashed \/ \E e \in Daemons \ {d} : main[e] = "run"]_<<vars, clashed>>

\* A start ends: nobody waits for ever for the answer of a daemon that is itself
\* starting, stopping, or dead.
StartEnds == \A d \in Daemons : Starting(d) ~> ~Starting(d)

=============================================================================
