----------------------------- MODULE Lifecycle -----------------------------
(***************************************************************************)
(* What awesomerd promises, seen from outside: the phases of its life, who *)
(* is held in the resource group and whom it knows to be, and what must    *)
(* have happened before the next phase begins.  How it gets there - locks, *)
(* trees, counters, scans, the configuration - is module Daemon.           *)
(***************************************************************************)
CONSTANTS
    Pid,
    ByHand,    \* whether clients may jail and release by hand
    Careful    \* the backend deletes an empty group only, and says when it does not

VARIABLES
    phase,     \* off -> starting -> enforcing -> stopping -> done -> off
    limited,   \* the group is there with both limits
    held,      \* who is in it
    marked,    \* whom the daemon knows to be
    owed,      \* whom a stop has not tried to release yet
    sorry      \* something went wrong that the daemon will report

lifecycle == <<phase, limited, held, marked, owed, sorry>>

Phase == {"off", "starting", "enforcing", "stopping", "done"}

LifecycleInit ==
    /\ phase = "off"
    /\ limited = FALSE /\ held = {} /\ marked = {} /\ owed = {} /\ sorry = FALSE

-----------------------------------------------------------------------------
(* The daemon *)

Launch ==
    /\ phase = "off"
    /\ phase' = "starting"
    /\ UNCHANGED <<limited, held, marked, owed, sorry>>

\* Limits may come in several calls; they never go.
Limit ==
    /\ phase = "starting"
    /\ limited' = TRUE
    /\ UNCHANGED <<phase, held, marked, owed, sorry>>

\* Enforcement begins with both limits set, and not before.
Enforce ==
    /\ phase = "starting"
    /\ phase' = "enforcing"
    /\ limited' = TRUE
    /\ UNCHANGED <<held, marked, owed, sorry>>

GiveUp ==
    /\ phase = "starting"
    /\ phase' = "done"
    /\ sorry' = TRUE
    /\ limited' \in {limited, TRUE}
    /\ UNCHANGED <<held, marked, owed>>

Hold(p) ==
    /\ phase = "enforcing" /\ limited
    /\ held' = held \cup {p}
    /\ UNCHANGED <<phase, limited, marked, owed, sorry>>

Mark(p) ==
    /\ phase = "enforcing"
    /\ marked' = marked \cup {p}
    /\ UNCHANGED <<phase, limited, held, owed, sorry>>

Forget(p) ==
    /\ phase = "enforcing"
    /\ marked' = marked \ {p}
    /\ UNCHANGED <<phase, limited, held, owed, sorry>>

\* A stop owes a release to everyone who is marked when it begins.
BeginStop ==
    /\ phase = "enforcing"
    /\ phase' = "stopping"
    /\ owed' = marked
    /\ UNCHANGED <<limited, held, marked, sorry>>

\* Each is released, or the failure is reported.
Release(p) ==
    /\ phase = "stopping" /\ p \in owed
    /\ owed' = owed \ {p}
    /\ \/ held' = held \ {p} /\ UNCHANGED sorry
       \/ sorry' = TRUE /\ UNCHANGED held
    /\ UNCHANGED <<phase, limited, marked>>

Unmark(p) ==
    /\ phase = "stopping" /\ p \notin owed
    /\ marked' = marked \ {p}
    /\ UNCHANGED <<phase, limited, held, owed, sorry>>

\* The group goes last, when nobody is owed a release any more.
Disband ==
    /\ phase = "stopping" /\ owed = {}
    /\ phase' = "done"
    /\ \/ /\ limited' = FALSE /\ held' = {}
          /\ Careful => held = {}
       \/ /\ UNCHANGED <<limited, held>>
          /\ Careful => sorry'
    /\ sorry' \in {sorry, TRUE}
    /\ UNCHANGED <<marked, owed>>

\* Whatever ends the process, the group stays as it is and the markers go.
End ==
    /\ phase # "off"
    /\ phase' = "off"
    /\ marked' = {} /\ owed' = {} /\ sorry' = FALSE
    /\ UNCHANGED <<limited, held>>

-----------------------------------------------------------------------------
(* Its surroundings *)

Depart(p) ==
    /\ held' = held \ {p}
    /\ UNCHANGED <<phase, limited, marked, owed, sorry>>

\* A child starts where its parent is held.
Breed(p) ==
    /\ held # {}
    /\ held' = held \cup {p}
    /\ UNCHANGED <<phase, limited, marked, owed, sorry>>

\* By hand a process may be brought in, taken out, marked or unmarked at any
\* time; until the daemon is done, nobody is brought in without limits.
HandHold(p) ==
    /\ phase # "done" => limited
    /\ held' = held \cup {p}
    /\ UNCHANGED marked
HandRelease(p) == held' = held \ {p} /\ UNCHANGED marked
HandMark(p)    == marked' \in {marked \cup {p}, marked \ {p}} /\ UNCHANGED held

Hand ==
    /\ ByHand /\ phase # "off"
    /\ \/ \E p \in Pid : HandHold(p) \/ HandRelease(p) \/ HandMark(p)
       \/ UNCHANGED <<held, marked>>
    /\ limited' \in {limited, TRUE}
    /\ UNCHANGED <<phase, owed, sorry>>

LifecycleNext ==
    \/ Launch \/ Limit \/ Enforce \/ GiveUp \/ BeginStop \/ Disband \/ End \/ Hand
    \/ \E p \in Pid : Hold(p) \/ Mark(p) \/ Forget(p) \/ Release(p) \/ Unmark(p)
                      \/ Depart(p) \/ Breed(p)

LifecycleSpec == LifecycleInit /\ [][LifecycleNext]_lifecycle

=============================================================================
