----------------------------- MODULE Scheduler -----------------------------
(***************************************************************************)
(* server/src/scheduler.rs: the tasks of one declared schedule.  Scheduler *)
(* ::start stops the old task under the lock of `tasks`, lets the lock go, *)
(* and takes it again to spawn and to name the new one, so the callers     *)
(* (boot, an enable under its lifecycle lock, a reload under none) meet    *)
(* between the two.  An abort lands at the task's next await: a poll in    *)
(* progress still runs to its end; a handler that panics unwinds its task, *)
(* whose JoinHandle stays where it is.  Time is not counted: a sleep may   *)
(* end at any moment.                                                      *)
(***************************************************************************)
EXTENDS PluginHost

CONSTANT Tasks    \* the tasks this schedule is ever given

VARIABLES
  loop,     \* each task: where run_loop is
  doomed,   \* tasks that abort() was called on
  named,    \* the entries of Scheduler.tasks: at most one JoinHandle
  ahead,    \* Runtime.next_run is set
  runs,     \* rows of core.scheduled_runs, by ok: what an operator can read
  mixed,    \* history: starts in progress that overlap another start
  crossed   \* history: the tasks such starts have spawned

taskVars  == <<loop, doomed>>
timerRows == <<taskVars, named, ahead, runs, mixed, crossed>>
timerVars == <<timerRows, hostVars>>

TaskStates == {"unborn", "reading", "sleeping", "running", "recording", "ended", "panicked"}
InProgress(t) == loop[t] \notin {"unborn", "ended", "panicked"}
Ticking(t)    == InProgress(t) /\ t \notin doomed

TimerTypeOK ==
  /\ loop \in [Tasks -> TaskStates] /\ doomed \subseteq Tasks
  /\ named \subseteq Tasks /\ Cardinality(named) <= 1
  /\ ahead \in BOOLEAN /\ runs \subseteq BOOLEAN
  /\ mixed \subseteq Hands /\ crossed \subseteq Tasks

TimerInit ==
  /\ loop = [t \in Tasks |-> "unborn"] /\ doomed = {} /\ named = {}
  /\ ahead = FALSE /\ runs = {} /\ mixed = {} /\ crossed = {} /\ HostInit

Passes(t, from, to) == loop[t] = from /\ loop' = [loop EXCEPT ![t] = to]

-----------------------------------------------------------------------------
(* The callers: start, stop (and stop_all, and forget)                     *)

Abort == doomed' = doomed \cup named /\ named' = {}

\* The starts between their abort and their spawn.
Starting ==
  {h \in Hands : Doing(h, "spawning") \/ (Doing(h, "clearing") /\ hand[h].then = "spawning")}
Overlap(h) == mixed' = IF Starting = {} THEN {} ELSE Starting \cup {h}

\* Mutant: a start leaves the old task to its handle's drop.
BeginStartOver(h) ==
  /\ Ask(h, [at |-> "clearing", then |-> "spawning"]) /\ named' = {} /\ Overlap(h)
  /\ Silent /\ UNCHANGED <<taskVars, ahead, runs, crossed>>

BeginStart(h) ==
  /\ Ask(h, [at |-> "clearing", then |-> "spawning"]) /\ Abort /\ Overlap(h)
  /\ Silent /\ UNCHANGED <<loop, ahead, runs, crossed>>

BeginStop(h) ==
  /\ Ask(h, [at |-> "clearing", then |-> "stopped"]) /\ Abort
  /\ Silent /\ UNCHANGED <<loop, ahead, runs, mixed, crossed>>

ClearNext(h) ==
  /\ Doing(h, "clearing") /\ ahead' = FALSE
  /\ IF hand[h].then = "stopped" THEN Answer(h) ELSE Go(h, [at |-> "spawning"])
  /\ Silent /\ UNCHANGED <<taskVars, named, runs, mixed, crossed>>

\* tasks.insert drops the JoinHandle it replaces, which aborts nothing.
Spawn(h) ==
  /\ Doing(h, "spawning") /\ Answer(h)
  /\ \E t \in Tasks :
       /\ Passes(t, "unborn", "reading") /\ named' = {t}
       /\ crossed' = IF h \in mixed THEN crossed \cup {t} ELSE crossed
  /\ Silent /\ UNCHANGED <<doomed, ahead, runs, mixed>>

-----------------------------------------------------------------------------
(* run_loop                                                                *)

\* What the loop itself leaves alone.
Undisturbed == UNCHANGED <<hostVars, doomed, named, mixed, crossed>>

\* last_success and latest_run, a failed read as no row; then seed_runtime.
Seed(t) == Passes(t, "reading", "sleeping") /\ ahead' = TRUE /\ Undisturbed /\ UNCHANGED runs

\* first_delay, or the cadence after a run, is over.
Tick(t) == Passes(t, "sleeping", "running") /\ Undisturbed /\ UNCHANGED <<ahead, runs>>

\* The handler returned, failed, or was cut off at RUN_TIMEOUT ...
Finish(t) == Passes(t, "running", "recording") /\ Undisturbed /\ UNCHANGED <<ahead, runs>>

\* ... or panicked: nothing catches it, records it or takes the handle's name.
Panic(t) == Passes(t, "running", "panicked") /\ Undisturbed /\ UNCHANGED <<ahead, runs>>

\* The row is best effort; set_runtime and the next sleep follow either way.
Record(t) ==
  /\ Passes(t, "recording", "sleeping") /\ ahead' = TRUE /\ Undisturbed
  /\ \E ok \in BOOLEAN, kept \in BOOLEAN :
       runs' = IF kept THEN runs \cup {ok} ELSE runs

\* An abort lands.
Drop(t) ==
  /\ t \in doomed /\ InProgress(t)
  /\ loop' = [loop EXCEPT ![t] = "ended"] /\ Undisturbed /\ UNCHANGED <<ahead, runs>>

-----------------------------------------------------------------------------
Caller(h)  == BeginStart(h) \/ BeginStop(h) \/ ClearNext(h) \/ Spawn(h)
RunLoop(t) == Seed(t) \/ Tick(t) \/ Finish(t) \/ Panic(t) \/ Record(t) \/ Drop(t)
TimerNext  == (\E h \in Hands : Caller(h)) \/ (\E t \in Tasks : RunLoop(t))
TimerSpec  == TimerInit /\ [][TimerNext]_timerVars

-----------------------------------------------------------------------------
\* The comment on start: the plugin's tasks are aborted first, so a reload
\* cannot double-run.  Two tasks are never both left to tick.
NoDoubleRun == \A t, u \in Tasks : Ticking(t) /\ Ticking(u) => t = u

\* A task that goes on ticking is the one a disable would abort, unless two
\* starts overlapped and it is theirs; and the one a disable would abort goes on
\* ticking, whatever failed, was cut off or could not be recorded, unless its
\* handler panicked.
TimersAreInHand ==
  /\ \A t \in Tasks : Ticking(t) => t \in named \cup crossed
  /\ \A t \in named : Ticking(t) \/ loop[t] = "panicked"
=============================================================================
