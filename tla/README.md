# awesomer in TLA+

A verification project for [awesomer](../src/README.md): a root daemon
(`awesomerd`) that puts processes over their CPU or memory limits into a
resource group, and a terminal monitor (`awesomerctl`) that shows processes and
asks the daemon to jail or release one.

## 1. The system

| Component | State it keeps | Operations | Correct when |
|---|---|---|---|
| enforcement daemon, `internal/daemon/daemon.go` | configuration `d.cfg`, violation counters, the point `Run` has reached | `Run`, `configureGroup`, `applyLimits`, `putTreeInGroup`, `cleanupInactive`, `stop`, `realTimeReadConfig`, `ToggleProcessJail` | it enforces only with a limited group; who is over the limits long enough is jailed and nobody earlier; a stop is carried out and leaves nothing behind |
| resource groups, `pkg/cgroups` | none; the kernel's or systemd's group `processJail` | create, set a row, add, move to the root, delete; each on plain cgroups or systemd | a call that fails leaves the group in a state the daemon copes with |
| jail state, `internal/daemon/info` | the set of marked PIDs | `SetJail`, `DeleteFromJail`, `InJail`, `PIDs` | markers are the group's members |
| process snapshots, `internal/collector` | the last snapshot and the trees made from it | `Processes`, `ProcessTree` | an answer is not older than its users expect; a tree fits the snapshot |
| process table, `internal/service` with `tui/update.go` | sort mode, last rows, rows on the screen | `GetProcesses`, `SetSortProcMod`, tick, keys, `dataMsg` | the screen comes to show the system |
| configuration, `internal/config`, `daemon/config` | `config.yaml` | read, resolve the path, create an empty file | an unreadable file changes nothing |
| daemon IPC, `internal/daemon/ipc` | the socket and its listener | start, serve, close, the RPC methods, the client | a daemon that serves is the one reached at the socket |
| daemon start, `cmd/awesomerd` | the signal context | `runApp` | refuses to start with `run: false` |
| client start, `cmd/awesomerctl` | remote or local jail state, chosen once | `selectJailState` | the client talks to the daemon there is |
| process actions, `internal/service`, `pkg/mutation` | none | stop, resume, kill, kill tree, affinity, file limit, local jail controller | an action reaches what was selected, all of it |
| terminal interface, `internal/service/tui` | input mode, selection, focus, layout | `Update`, `View` | keys act on what the user sees; panels fit |
| process parser, `pkg/parser` | worker pool of a scan | `AllProcesses`, `ProcessTree` | every job is taken and the scan ends |
| logger, interface settings | none | | |

How they interact. `Run` and the config watcher share `d.cfg` under `d.mu`. The
loop, and one goroutine per toggle that arrives at the socket, share the jail
state (its own lock), the collector (its own lock) and the group (no lock).
The monitor's event loop starts refresh commands, goroutines that share the
service's cached rows and send messages back. The kernel changes the process
table underneath all of them.

What is hard. No lock spans a kernel call and the marker that belongs to it;
nothing keeps a toggle and the loop, or a toggle and `stop`, apart; trees are
used after they were read; the daemon may die with processes in jail; every
call into systemd may fail half-way; messages of the monitor arrive in any
order. `PROJECT.json` lists each such hazard at its line.

## 2. The modules

| Module | Contents |
|---|---|
| `ProcessTree` | the trees of the process table and the orders `walkTree` may return, without recursion |
| `Cgroups` | `pkg/cgroups` as outcome sets: for each function, the group it may leave, whether it reports success, whom it killed |
| `Daemon` | `awesomerd`: the loop, the watcher, the toggles, the kernel's process table, `config.yaml`, starting, stopping and dying |
| `Lifecycle` | the abstract daemon: its phases, who is held, whom it knows to be, and what it owes before the next phase |
| `DaemonProperties` | what the daemon promises, and how it refines `Lifecycle` |
| `DaemonStreak` | the daemon with a history of its scans, and the property about counting |
| `Collector` | the snapshot cache in discrete time |
| `ParserPool` | one scan of `/proc`: jobs, workers, results, and the kernel |
| `Socket`, `SocketHistory` | the file at `SocketPath`, its listeners, and the daemons that start, serve and close them; one bit of history, and what the socket is for |
| `Client` | `awesomerctl` at the other end, root's or another user's: the choice between a remote and a local jail state, and its calls |
| `Table`, `TableHistory` | the path of the rows from `/proc` to the screen, by refreshes that overlap; a memory of what was stored and drawn, and what the screen comes to |
| `Layout` | widths and heights of the monitor's panels, as pure operators |
| `Tui` | the monitor's event loop: keys, forms, focus, details, windows, and actions on processes |
| `DaemonProofs`, `LoopProofs`, `LifecycleProofs`, `CollectorProofs`, `PoolProofs`, `ClientProofs` (with the socket's), `TableProofs`, `TuiProofs` | proofs, for all values of the constants |
| `MCDaemon`, `MCStreak`, `MCTable`, `MCTui` | instances for TLC |

How they compose. `Daemon` takes its kernel calls from `Cgroups` and its trees from
`ProcessTree`; `DaemonProperties` instantiates `Lifecycle` on top of it. `Client`
extends `Socket` by the clients, whose steps leave the daemons alone. `Tui` draws
with `Layout` and kills with `ProcessTree`. `Collector`, `ParserPool` and `Table` stand alone:
what they hand on appears in the others as any value they may hand on (any scan in
`Daemon`, any rows in `Tui`).

### Daemon

One step per call into the kernel or systemd, per locked access to the jail
state, per read of the configuration. `main` is where `Run` is:

    down -> create -> setCpu -> setMem        configureGroup
         -> loop -> apply -> (add -> mark)*   a tick: Scan, ApplyLimits, putTreeInGroup
                 -> cleanup -> loop           cleanupInactive
         -> (release -> unmark)* -> delete    stop
         -> returned -> down

`tog[c]` is the same for a client's call of `ToggleProcessJail`: `decide`, then
either `create`, `setCpu`, `setMem`, `(add, mark)*` or `(move, unmark)*`, ending
in `jailed`, `released` or `failed`. `alive`, `ppid` and `group` are the
kernel's; `file` is `config.yaml`; `cfg`, `jail`, `violations`, `failed` are the
variables of the same meaning in the code; `active`, `todo`, `queue`, `quota` are
`Run`'s locals (the snapshot's PIDs, the processes still to look at, the tree
being jailed, the quotas read by `configureGroup`). `Environment` says which of
exits, forks, edits, signals, crashes and failures an instance allows.

What is abstracted:

- CPU and memory figures: a scan finds any set of processes over the limits, and
  always those in `Hogs`. Names: a configuration carries the set of processes its
  whitelist names.
- `CPUQuota` and `RAMQuota`, always read together, are one value; the strings they
  are turned into are not modelled.
- The counter is capped at the threshold, where more makes no difference.
- Reading the context and the configuration, and the scan that follows, are one
  step; so are the check that a group exists and the write that follows it. The
  sleep between ticks is no step.
- A tree is the one of the moment it is asked for. How old it may really be is
  what `Collector` shows; members that died since are covered, since they may die
  between the reading and each use. A PID that was used again since is covered
  likewise.
- A call is accepted until the process ends, as connections outlive the listener
  in the code.
- `JailRPC.SetJail` and `DeleteFromJail` are served but no caller in the repository
  uses them, so they are not actions.
- The `sleep` that keeps the systemd unit alive is not counted a member, and the unit
  vanishes only when the daemon stops it.
- Every process has one parent and the table has no cycles, though `AllProcesses` puts it
  together from readings of different moments.

`PostOrders` gives every order `walkTree` may return (siblings in any order,
because the workers of a scan finish in any order).

### Lifecycle

What `awesomerd` looks like from outside: `off`, `starting`, `enforcing`,
`stopping`, `done`. Enforcement begins behind both limits; a stop owes a release to
whoever is marked, tries each or reports the failure, and only then gives up the
group; a crash changes nothing of the group. Locks, trees, counters, scans and the
configuration do not appear. The mapping is `Abstract` in `DaemonProperties`: the
phase is read off `main`, what is owed is `todo` during a stop, the rest is the
variable of the code.

### Collector

Data are the moment `/proc` was read for them. A call goes through the locked
sections of the code (`loadTree`, `loadProcesses`, the scan with no lock held,
`storeProcesses`, `storeTree`) and takes at most `MaxDelay` in all; the clock
may stand still as long as it likes in between. One root stands for all.

### Socket

One step per system call of `Start` and `Close`, which all go by the name of the
file: what is checked, removed or made private is whatever socket is at the path.
`main` is where `runApp` is:

    down -> stat -> (dial -> ping -> stale) -> bind -> listen -> chmod      Start
         -> run -> unlink -> close -> remove -> exit -> down                Run, Close

`closer` is the goroutine that closes the server when the context is cancelled,
concurrently with `Run` and with the deferred `Close`; the listener unlinks its
path only once (`unlinked`), `os.Remove` follows every time. `peer` is whom a
`Ping` is connected to; it is answered only once `serve` was called, and reset
when the listener closes or its process ends. A daemon in `exit` may have been refused
or have stopped; its socket calls are over, except the goroutine's. A failing
`mkdir` and `RegisterName`, which cannot fail here, are left out. How long `Run` goes on after the
signal is open, as in the code, where it releases the jailed processes first.

### Client

A client begins with a `Ping` (`state` is `choose`) and is `remote` or `local` from then
on. Every call dials a connection of its own, waits, and is answered once the daemon
serves, or reset when its listener closes or its process ends, as `Socket` has it for the
daemons' own `Ping`. `since` is history: who has served all through a call. A call of
the jail state and a `Ping` differ only in what is done with the answer.

`Start` gives the socket the mode 0600 (ipc.go:98). `root` is who was started as root;
anybody else's dial fails at a daemon that serves, as it does at one that is not there.
Between `listen` and `chmod` the mode is what umask has left, so such a client may get in
or not.

### ParserPool

One scan, over and over. `jobs` and `results` are the channels with their capacity
`total`, `worker` where each of the workers is and the PID it holds. Workers beyond
those a scan starts count as done. A process whose parent cannot be read
(parser.go:59) is passed over without a word: one that is gone always, one that runs
perhaps. One that took the PID of a listed one is read in its place. `listed` and `unread`
are history: who was listed, and whose reading has failed.

### Layout and Tui

`Layout` is the arithmetic of `syncLayout`, `resolvePanelWidths` and
`ensureRenderableLayout`, with the frame of a rounded border. In `Tui` a step is one
message: `Update` and the `View` that follows, so that `layout` is the one drawn.
`input` is the form with its process and whether its text would parse, `panel` what the
details show and about whom, `cursor` the index of the selected row as the table
widget keeps it. `KillProcessTree` alone is not one step: its members are signalled
one by one (`walk`) while the loop waits and the kernel goes on. Rows are any a
snapshot may give. A system call on a process succeeds only if somebody has the
PID, and may be refused. Each key that acts says so in the details whether or not
it did, as the code does. Scrolling and the text of the details are left out, and so
are sort keys and refresh commands, which are `Table`'s.

### Table

Rows are the triple (sort mode, snapshot, markers). A refresh takes a snapshot,
reads the mode, reads the markers, compares with the last rows under the lock,
stores them if they differ, and sends a message that the event loop handles:
five steps between which the system, the mode and other refreshes move on. Refreshes
overlap: `tickMsg` re-arms the timer before its refresh has run, and keys start more.

`TableHistory` remembers of each moment whose message carries the rows stored last
(`due`) and whether those were drawn and older rows over them since (`behind`). Both
observe and hold nothing up.

## 3. What the runs show

Passing:

| Run | Instance | Checks |
|---|---|---|
| `wide` | systemd; a root and its child; one client; threshold 1; every call may fail; exits, forks, edits, crashes, failed and partial scans | `TypeOK`; `EnforcedGroupIsLimited`: whoever adds to the group finds it with both limits, through concurrent `configureGroup`s; `OffIsFinal`: after `run: false` no running configuration is ever taken, so the loop cannot miss it; `TargetFlipsLast`: a toggle that failed half-way continues in the same direction when repeated; `KeepsItsPromises`: every step is one of `Lifecycle` |
| `lone` | plain cgroups; the same faults and a signal; no client; threshold 2; `config.yaml` absent, empty or off | `CleanStopLeavesNoGroup`, `MembersAreLimited` (also over crashes and restarts), `NoEarlyJail` (a PID used again does not inherit a count over a scan that missed it), `StopIsCarriedOut`; `TicksAndStopsEnd`: each step of `Run` inside a tick or a stop brings it closer to its end |
| `exits` | systemd; a root, over the limits in every scan, and two children, one of them with a low PID; all may exit at any point, and `config.yaml` be edited to run, off or no YAML | `MarkersAgree`: markers and members differ only between a kernel call and its marker; `StopKillsNothing`; `HogIsJailed` |
| `client` | two daemons that start, are signalled, stop, crash and start again, and one client that starts as root or as another user, calls and quits, at any moment; 93,603 states | `TypeOK`, `ClientTypeOK`; `ServingIsReached`, `RefusedOnlyForAnother` and `ServedCallsAreAnswered` (root's calls are answered by the daemon that serves, the others refused), all until a start overlaps another daemon's start or close; `StartEnds`; `CallsEnd`: no call blocks the interface for ever |
| `cache` | two callers, TTL 1, calls of at most 1, 7 units of time | `AgeBounded`: a list lags by at most one TTL and one call, a tree by two of each; `TreeKeepsUp` |
| `rows` | two refreshes that overlap in any way, two sort modes, two snapshots, two sets of markers; 311,200 states | `UnchangedIsOnScreen`: rows called unchanged are on the screen or on their way to it; `TableCatchesUp`: the screen comes to show a system that stays as it is; both unless older rows were drawn over the rows stored last |
| `tui` | a root and its child, which end, fork and take used PIDs; rows of any age; three windows, below the minima, too narrow for the widths asked for, and wide | `PromptIsShown`: prompt, form and focus go together through every key, refresh and failed submission; `FormsActOnWhoTheyName`; `RootGoesLast`: a walk that fails half-way leaves the root; `PanelsFit`; `LoopComesBack` |
| `pool` | scans of up to three processes, which end, start and may be unreadable; two workers | `NeverSendsOnClosed`: no worker panics; `OnlyUnreadAreMissing`: a process is missing only if its own reading failed; `NobodyTwice`; `ChannelsHaveRoom`: no send waits; `SomebodyMoves`: a scan under way is never stuck; `ScanDwindles`: each of its steps leaves less of it; `ScanEnds` |

Two processes are enough for a tree, a member without a counter and an orphan;
the third of `exits` gives siblings, whose order is free. A threshold of 1 or 2
reaches the jail in few ticks, 3 is used where the count itself matters. Two daemons
are all a race for the socket takes; with a third the same properties hold. Clients
never hold anybody up, so one is as good as many; the proofs say so for any number.
Three processes and two workers give a scan more jobs than workers, a worker without
a job, and processes that end between the listing and their turn; two processes
give a tree, a walk that can fail half-way, and a row that changes under the cursor.
In `cache` the clock runs long enough for two TTLs and two calls to pass one after
the other with time left to use the answer. `CHECK_DEADLOCK FALSE` in the daemon's
runs: a stopped daemon whose file says `run: false` stays down, and an
environment without events leaves an idle system.

Violations, each of a sentence in the repository:

| Run | Sentence | What happens |
|---|---|---|
| `whitelist` | README: whitelisted names are never moved into the group | a tree is jailed whole; the whitelist is asked only for its root |
| `scanstop` | README: jailed processes are returned to the root group before the group is removed | a failed scan leaves an empty list of active PIDs, `cleanupInactive` drops the markers of jailed processes that run, and `stop` moves out only who is marked |
| `reload` | README: configuration changes are applied without a restart | quotas are written only by `configureGroup` |
| `race` | developer.md: marker and jail operations stay consistent | the loop adds a process, a toggle moves it out and unmarks it, the loop marks it |

Other instances of the same properties that fail, for the record:

- `EveryoneReturnedBeforeDelete` with forks instead of failed scans: a child
  forked in jail is a member without a marker. With systemd it is then killed.
- `MembersAreLimited` with a client: a toggle that has passed `configureGroup`
  when `stop` deletes the group creates it anew, without limits, by adding.
- `CleanStopLeavesNoGroup` with a client: a toggle makes the group again after `stop` has deleted
  it. With systemd: a `systemctl show` that fails is read as "no such unit", and the deletion
  reported as done.
- `MarkersAgreeAtRest` without clients, with exits and forks: the marker of a dead
  tree member that never had a counter marks the next process with its PID.
- `ServingIsReached` without its condition. Two starts over one stale file: both find
  it dead, and the second removes what the first has bound. A stop: the goroutine
  closes the socket at the signal, a new daemon finds the path free and serves, and
  the old one, done with its jail, removes the new one's file. Either way a daemon
  serves that nobody reaches, and the next start finds nothing to refuse for.
  A service manager that waits for the process to end rules both out.
- A cached tree may be older than the snapshot beside it (two callers), though
  developer.md says a fresh snapshot invalidates the trees; `TreeKeepsUp` bounds by
  how much.
- `UnchangedIsOnScreen` and `TableCatchesUp` without `behind`: `GetProcesses` compares with
  the rows it stored last (service.go:122), not with those that were drawn. When the
  messages of two refreshes are handled in the other order the older rows stay, and every
  later refresh of the same system says unchanged (developer.md:145: "returns
  `changed=false` when the visible table would be identical"), until something changes.

Other places where the code and its documentation differ, met while modelling:

- A tick in which a process is under its limits leaves its counter alone
  (daemon.go:200), so three breaches in all jail it, however far apart; daemon.go:67 says
  "several times in a row", developer.md:180 "consecutive times".
- `KillProcessTree` ends at the first member that is gone (service.go:339), and a child
  forked behind the walk is not in it; README:312 says "kill the full process tree", and the
  details say "Killed service tree" in any case (update.go:487). A PID that is used again
  between the reading and the signal is killed in its place.
- A regular user's `awesomerctl`, as README:116 and README:226 start it, cannot connect to a
  daemon that serves: the socket is root's alone (ipc.go:98). It takes the daemon for absent and
  keeps a jail state of its own, without a word; README:218 says "When the service is running,
  `awesomerctl` connects to the daemon".
- A client chooses once. One that was started before the daemon stays on its own. The other
  way round, a remote client whose daemon is gone shows no markers and reports its toggles
  as failed.
- In a form `q` and `ctrl+c` are not shortcuts (`q` is text), so the way out is Esc. The
  shortcuts of the table also fire while the details have the focus. The help shows
  `A`, `L`, `J`, and the keys are lower case (tui.go:25).
- In a window narrower than 77 columns or lower than 7 lines, `View` lays out for a larger
  one (view.go:30); `PanelsFit` is about the layout, and about the window only where there
  is room for the minima.

### Fairness

`Main`, `WatchConfig` and each toggle are weakly fair: they are goroutines that do
not wait for one another except at locks held briefly, and the sleeps between
their steps end. Nothing is assumed of the kernel, the editor, the clients, or
of whoever starts or kills the daemon. In `Socket` the threads
of a daemon go on, but nobody has to start or stop one, and `Run` need not return. In
`Client` a call that was begun goes on, each client's by itself. In `ParserPool` the scan's
goroutines go on, and processes may come and go for ever. In `Tui` only the handler that
walks a tree has to go on: `LoopComesBack` asks nothing of keys or the kernel. In `Table` every started command runs to its
end, its message is handled, and ticks recur (`tickMsg` re-arms the timer before
the refresh starts); nothing is assumed of the order in which commands run or messages
come. That the system stays as it is and that not every scan
fails are hypotheses of `TableCatchesUp`, not fairness.

## 4. What is proved

TLAPS checks the following for every value of the constants that satisfies the
named assumptions `BackendAssumption`, `NoLimitAssumption`, `ConstantsAssumption`,
`DaemonsAssumption`, `TimeAssumption`, `PoolAssumption`, `TableAssumption` and `TuiAssumption`: any finite set of
PIDs, any threshold, any number of clients, callers, daemons, workers and refreshes, any
environment, any size of the window.

| Theorem | Says | Rests on |
|---|---|---|
| `DaemonProofs!TypeCorrect` | `TypeOK` | `PostOrderType`: what `walkTree` may return is a non-empty sequence of PIDs, so no queue is empty where its head is taken |
| `EnforcedIsLimited` | `EnforcedGroupIsLimited` | `LimitInv`: after a row was set by `Run` or by a toggle, it stays set until `Run` deletes the group; a group's rows are never unset by any call, failed or not, except deletion |
| `OffStaysOff` | `OffIsFinal` | `WatchInv`: whoever has read `run: false` has stopped watching |
| `TargetLast` | `TargetFlipsLast` | `QueueInv`: the target is the last of what is left of the tree and occurs in it once |
| `CleanStop` | `CleanStopLeavesNoGroup`, without clients on plain cgroups | rmdir refuses a populated group, and its error is kept |
| `LoneMembersLimited` | `MembersAreLimited`, without clients | the same invariant, and that a dead daemon's group is left as it was |
| `LifecycleProofs!DaemonIsALifecycle` | `KeepsItsPromises`: initial states and steps of the daemon map to those of `Lifecycle` | `LifeInv`: no error is held before a stop, nothing is owed when the group goes, the process in hand is not owed, an absent group has no members, and no toggle outlives its daemon. One lemma per action of `Daemon` names the abstract step or the stutter it maps to |
| `LoopProofs!NobodyIsJailedEarly` | `NoEarlyJail` | `StreakInv`: a counter never exceeds the scans that found its PID over the limits since it was last missing; the tree being jailed ends in a PID whose counter is full |
| `MarkedAreSpared` | a stop that reports no error kills nobody who has a marker (`StopSparesTheMarked`), without clients, on either backend, whatever forks, fails or is missed by a scan | `ReleasedInv`: during a stop whoever is marked is still to be released or in hand, unless an error is held |
| `RunGetsDone` | `TicksAndStopsEnd` | no invariant but the types: a step of `Run` leaves a stage for a later one, or has one process less to look at, or one member less of the tree in hand, or one stale counter less; nobody else touches what is counted. `Closer` names the four |
| `TogglesGetDone` | each step of a toggle brings it closer to its answer, and no other step takes that back (`TogglesEnd`) | the same measure for `tog[c]`: its stage, then what is left of its tree |
| `LowPidsAreSpared` | whoever the loop jails a tree for has no low PID; its descendants may | `SparedInv`: nor has anybody still to be looked at, nor the last of what is left of the tree |
| `ClientProofs!TypeCorrect`, `ServingReached`, `RefusedForAnother` | `TypeOK`, `ServingIsReached`, `RefusedOnlyForAnother` | `OneOwner`: one daemon at most has business with the path, from finding it free or stale to its last `Close`; `PathKnown`: what it found there is still so; `PingsOwner`: whoever pings is connected to the owner. `ServingIsReached` alone is not inductive: it says nothing of a daemon about to remove or to bind |
| `ClientProofs!ClientTypeCorrect`, `ClientsDisturbNobody`, `ServedAreAnswered` | `ClientTypeOK`, `ServingIsReached`, `ServedCallsAreAnswered` | `FollowInv`: whoever the history names still serves, and is the one the call is connected to; another user's call is connected to nobody who had served before |
| `StartsGoForward`, `WaitersAreServed` | no daemon takes a step of `Start` or `Close` twice (`LivesGoOneWay`); whoever waits at the socket, a starting daemon or a client, has its answer, its reset, or waits for somebody whose next step depends on nobody (`NobodyWaitsInACircle`), whatever overlaps | the order of `Start`, `Run` and `Close`; `CloserOK`: who runs has called `serve`, so a listener that answers nobody belongs to a daemon between `listen` and `serve`, or in a `Close` |
| `CollectorProofs!TypeCorrect`, `AnswersAreYoung`, `TreesKeepUp` | `TypeOK`, `AgeBounded`, `TreeKeepsUp` | `EntriesOK`: how old data were when stored; `CallOK`: how old the data of a call are, reckoned from its start. The bound on answers is not inductive without them |
| `PoolProofs!TypeCorrect`, `NoSendOnClosed`, `MissingWereUnread` | `TypeOK`, `NeverSendsOnClosed`, `OnlyUnreadAreMissing` | `ScanInv`: a listed process whose reading has not failed is unsent, a job, in a worker's hand, a result, or collected; once a worker is done the jobs are closed and none is left; once the results are closed every worker is done |
| `RoomForAll` | `ChannelsHaveRoom` | `RoomInv`: what is unsent, a job, in a worker's hand or a result adds up to no more than was listed. `ChannelsHaveRoom` alone says nothing of what the workers hold, so it is not inductive |
| `ScanIsNeverStuck`, `ScanGetsDone` | `SomebodyMoves`, `ScanDwindles` | with room for every send, who holds a PID can get rid of it, who holds none finds the jobs closed, and the last one lets the results be closed; `ScanRank` counts what every PID, worker and channel still has before it |
| `NobodyIsFoundTwice` | `NobodyTwice` | `OnceInv`: a listed PID is in one place of its way only, and there once |
| `TableProofs!TypeCorrect` | `TypeOK` | `FoundSoFar`: what a refresh has put together by the time it needs it |
| `UnchangedStaysOnScreen` | `UnchangedIsOnScreen`, for any number of overlapping refreshes | `ScreenFollowsCache`: the rows stored last are on the screen, or one message that is due carries them, or the screen is behind; nothing else is due. The property alone says nothing of a message on its way |
| `TuiProofs!TypeCorrect`, `PanelsAlwaysFit`, `PromptShown`, `FormsFollow`, `RootLast`, `WalkGetsDone` | `TypeOK`, `PanelsFit`, `PromptIsShown`, `FormsActOnWhoTheyName`, `RootGoesLast`; killing a tree is over after one step for each who was found in it (`WalksGetShorter`) | lemmas on `syncLayout` and `ensureRenderableLayout`; `ScreenInv`: what is on the screen, the form and the focus; `WalkInv`: who is left of a tree is still ahead in the walk, the root last |

Every invariant and every action property of the passing runs is so proved, but for `MarkersAgree` and
`StopKillsNothing`. Only model-checked:

- `MarkersAgree` and `StopKillsNothing`, which hold only of the quiet instance `exits` (no clients, forks or
  failing calls). What is left of the second where calls and scans may fail and processes fork is
  `MarkedAreSpared`.
- What needs fairness: `StopIsCarriedOut`, `HogIsJailed`, `StartEnds`, `CallsEnd`, `ScanEnds`,
  `LoopComesBack` and `TableCatchesUp`. Liveness and ENABLED are out of the prover's reach. What each rests
  on besides fairness is proved where it is a matter of steps: a stop and a tick get
  shorter (`RunGetsDone`) and are never taken back; a scan gets shorter (`ScanGetsDone`) and
  is never stuck (`ScanIsNeverStuck`); a start goes forward (`StartsGoForward`), and neither
  it nor a call waits in a circle (`WaitersAreServed`); a walk gets shorter
  (`WalkGetsDone`). `HogIsJailed` and `TableCatchesUp`, in which work is begun anew, have no such measure.
- That `walkTree` has an order to return for every tree (`Walks` is not empty): induction over
  the tree. A tree without one would never be jailed: `HogIsJailed` shows there is one on its instance.

Three theorems have a hypothesis beyond the constants': nobody toggles in `CleanStop`, `LoneMembersLimited` and
`MarkedAreSpared`, and the first is about plain cgroups. The properties of the first two fail without
(section 3); a toggle may also mark somebody after the stop has listed the markers.
Those about the socket hold until a start overlaps another start or close, which their properties say themselves, and `UnchangedStaysOnScreen` is about a screen that is not `behind`.

`StopSparesTheMarked`, `TogglesEnd`, `LowPidsAreNoCulprits`, `LivesGoOneWay`, `NobodyWaitsInACircle` and
`WalksGetShorter` are stated beside their proofs and no run checks them.

## 5. Not modelled

- The local jail controller (service.go:378), by which a client without a daemon sets
  the rows and moves the tree itself. It follows the daemon's toggle call by call, with a
  jail table of its own that nothing ever cleans up, on the same group; a daemon started
  later does not know whom it has jailed.
- The numbers: `int(CPUQuota)*1000` and what systemd makes of a quota (a value below one
  percent becomes 0), `RAMQuota`'s syntax, measured CPU and memory.
- `pkg/mutation` (system calls and a check of their arguments, no state), the logger,
  rendering, colours, scrolling, YAML and the search for the file, the detection of the backend.
- The parser's `ProcessTree`, `HardObjectParse` and the text of the tree in the details
  (`GetTuiTree`): they read and format. Reading `/proc` is a library's.
