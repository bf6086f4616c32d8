--------------------------- MODULE PluginLifecycle ---------------------------
(***************************************************************************)
(* What is live: the doors of server/src/server.rs that enable, disable,   *)
(* uninstall and reload plugins, and the choice of plugins of              *)
(* plugin_choice_routes.rs, over the flags in core.plugins, the registry   *)
(* of plugin_runtime.rs, the identity providers, the subscriptions and     *)
(* timers of the live generation, and the requests inside it.              *)
(*                                                                         *)
(* An enable and a disable hold the lifecycle lock of their plugin from    *)
(* end to end; an uninstall, a reload and a choice take none.  An action   *)
(* is what a handler does up to an await that another door can use.  A     *)
(* generation of a plugin is one load of it: its pool, handlers,           *)
(* subscriptions and timers.  A request the handler refuses changes        *)
(* nothing and is no action.                                               *)
(***************************************************************************)
EXTENDS Naturals, Sequences

CONSTANTS
  Files,         \* the plugin directory, in load_all's order
  Admins, Clients,
  Providers,     \* plugins that register an identity provider in init
  Required,      \* REQUIRED_PLUGINS
  Dependencies,  \* PLUGIN_DEPENDENCIES: pairs <<dependent, dependency>>
  DevHeaders,    \* config.allow_dev_headers
  MaxOps,        \* bound: lifecycle requests
  Nobody

Plugins == {Files[i] : i \in DOMAIN Files}

ASSUME LifecycleAssumption ==
  /\ Providers \subseteq Plugins /\ Required \subseteq Plugins
  /\ Dependencies \subseteq Plugins \X Plugins
  /\ DevHeaders \in BOOLEAN /\ MaxOps \in Nat
  /\ Files \in Seq(Plugins)
  /\ Nobody \notin Admins \cup Plugins \cup (Plugins \X Nat)

VARIABLES
  flag, gone,        \* core.plugins.enabled, core.plugins.uninstalled
  slot, gen,         \* the registry: what p's slot is, and which load is live
  loads,             \* loads of p by this process: the last generation made
  closed,            \* pools that were closed, as <<plugin, generation>>
  hub, off,          \* IdentityHub: providers, disabled
  subs,              \* generations whose subscriptions are bound, in order
  timers,            \* the generation whose schedules run, 0 for none
  inside, counted,   \* each client's request: its pool, and is it in in_flight?
  lock,              \* LifecycleLocks
  op, at,            \* each admin's plugin, and how far the handler is
  hold,              \* generations it holds: taken by stop_live, or loaded
  known, todo,       \* load_all: disabled records found, files left to read
  ops,
  adrift,            \* history, below
  cut                \* history: pools closed without a finished drain

flagVars    == <<flag, gone>>
registry    == <<slot, gen>>
hubVars     == <<hub, off>>
boundVars   == <<subs, timers>>
requestVars == <<inside, counted>>
loadVars    == <<hold, known, todo>>
poolVars    == <<closed, cut>>
lifecycleVars ==
  <<flagVars, registry, loads, poolVars, hubVars, boundVars, requestVars,
    lock, op, at, loadVars, ops, adrift>>

Gens      == Nat
Enables   == {"loading", "initialised", "installed", "bound"}
Disables  == {"flagging", "stopping", "unbinding", "draining"}
Locked    == Enables \cup Disables
Loading   == {"reloading", "choosing"}
Unlocked  == Loading \cup {"removing", "removed", "forgetting",
                           "retiring", "clearing", "rebinding"}
Pools     == Plugins \X Gens
NoGens    == [p \in Plugins |-> 0]

Live(p)     == slot[p] = "live"
Loadable(p) == flag[p] /\ ~gone[p]
Pool(p)     == <<p, gen[p]>>
Busy(p)     == \E c \in Clients : counted[c] /\ inside[c][1] = p
Quiet(p)    == lock[p] = Nobody /\ \A a \in Admins : at[a] \notin Unlocked
Sole(p)     == ~DevHeaders /\ hub \ off = {p}

LTypeOK ==
  /\ flag \in [Plugins -> BOOLEAN] /\ gone \in [Plugins -> BOOLEAN]
  /\ slot \in [Plugins -> {"absent", "known", "live"}]
  /\ gen \in [Plugins -> Gens] /\ loads \in [Plugins -> Gens]
  /\ closed \subseteq Pools /\ cut \subseteq closed
  /\ hub \subseteq Providers /\ off \subseteq Plugins
  /\ subs \in [Plugins -> Seq(Gens)] /\ timers \in [Plugins -> Gens]
  /\ inside \in [Clients -> Pools \cup {Nobody}]
  /\ counted \in [Clients -> BOOLEAN]
  /\ lock \in [Plugins -> Admins \cup {Nobody}]
  /\ op \in [Admins -> Plugins \cup {Nobody}]
  /\ at \in [Admins -> {"idle"} \cup Locked \cup Unlocked]
  /\ hold \in [Admins -> [Plugins -> Gens]]
  /\ known \in [Admins -> SUBSET Plugins] /\ todo \in [Admins -> Seq(Plugins)]
  /\ ops \in 0..MaxOps /\ adrift \in BOOLEAN
  /\ \A a \in Admins : at[a] \in Locked => lock[op[a]] = a

\* A boot: load_all on the flags, everything else new.
Booted(enabled, uninstalled) ==
  LET live == {p \in Plugins : enabled[p] /\ ~uninstalled[p]}
      first == [p \in Plugins |-> IF p \in live THEN 1 ELSE 0] IN
  [slot   |-> [p \in Plugins |-> IF p \in live THEN "live"
                                 ELSE IF uninstalled[p] THEN "absent" ELSE "known"],
   gen    |-> first,
   hub    |-> Providers \cap live,
   subs   |-> [p \in Plugins |-> IF p \in live THEN <<1>> ELSE <<>>]]

\* A set of plugins plugin_choice::apply accepts.
Choices ==
  {S \in SUBSET Plugins :
     Required \subseteq S /\ \A d \in Dependencies : d[1] \in S => d[2] \in S}

LInit ==
  /\ \E S \in Choices : flag = [p \in Plugins |-> p \in S]
  /\ gone = [p \in Plugins |-> FALSE]
  /\ LET b == Booted(flag, gone) IN
       slot = b.slot /\ gen = b.gen /\ loads = b.gen /\ timers = b.gen
         /\ hub = b.hub /\ subs = b.subs
  /\ off = {} /\ closed = {} /\ cut = {}
  /\ inside = [c \in Clients |-> Nobody] /\ counted = [c \in Clients |-> FALSE]
  /\ lock = [p \in Plugins |-> Nobody]
  /\ op = [a \in Admins |-> Nobody] /\ at = [a \in Admins |-> "idle"]
  /\ hold = [a \in Admins |-> NoGens]
  /\ known = [a \in Admins |-> {}] /\ todo = [a \in Admins |-> <<>>]
  /\ ops = 0 /\ adrift = FALSE

\* adrift: since the last boot, a door without a lock overlapped another door,
\* or a choice wrote its flags and its reload then failed.
Overlaps(a, doors) == \E b \in Admins \ {a} : at[b] \in doors

Begin(a, p, first, doors) ==
  /\ at[a] = "idle" /\ ops < MaxOps
  /\ at' = [at EXCEPT ![a] = first]
  /\ op' = [op EXCEPT ![a] = p]
  /\ ops' = ops + 1
  /\ adrift' = (adrift \/ Overlaps(a, doors))

Goto(a, next) == at' = [at EXCEPT ![a] = next] /\ UNCHANGED op

Return(a) ==
  /\ at' = [at EXCEPT ![a] = "idle"]
  /\ op' = [op EXCEPT ![a] = Nobody]

\* Enable and disable drop their guard on every return.
Unlock(a) == Return(a) /\ lock' = [lock EXCEPT ![op[a]] = Nobody]

\* stop_live: the slot becomes a record.
Stopped(p) == slot' = [slot EXCEPT ![p] = IF Live(p) THEN "known" ELSE @]
              /\ gen' = [gen EXCEPT ![p] = 0]

\* close_pool with no drain before it.
CutOff(pools) == closed' = closed \cup pools /\ cut' = cut \cup pools
LivePools(P)  == {Pool(p) : p \in {q \in P : Live(q)}}

-----------------------------------------------------------------------------
(* enable_plugin *)

BeginEnable(a, p) ==
  /\ lock[p] = Nobody
  /\ slot[p] = "known"
  /\ \A d \in Dependencies : d[1] = p => Live(d[2])
  /\ Begin(a, p, "loading", Unlocked)
  /\ lock' = [lock EXCEPT ![p] = a]
  /\ UNCHANGED <<flagVars, registry, loads, poolVars, hubVars, boundVars,
                 requestVars, loadVars>>

\* load_opened up to the plugin's init, which registers its provider.
InitPlugin(a) ==
  /\ at[a] = "loading"
  /\ Goto(a, "initialised")
  /\ hub' = hub \cup ({op[a]} \cap Providers)
  /\ UNCHANGED <<flagVars, registry, loads, poolVars, off, boundVars,
                 requestVars, lock, loadVars, ops, adrift>>

\* The audit row, the library, the credential, init, a migration or a route
\* is refused: the plugin stays a record.
LoadFails(a) ==
  /\ at[a] \in {"loading", "initialised"}
  /\ Unlock(a)
  /\ UNCHANGED <<flagVars, registry, loads, poolVars, hubVars, boundVars,
                 requestVars, loadVars, ops, adrift>>

\* PluginRegistry::install, then set_enabled(true).
Install(a) ==
  LET p == op[a] IN
  /\ at[a] = "initialised"
  /\ Goto(a, "installed")
  /\ loads' = [loads EXCEPT ![p] = @ + 1]
  /\ gen' = [gen EXCEPT ![p] = loads[p] + 1]
  /\ slot' = [slot EXCEPT ![p] = "live"]
  /\ off' = off \ {p}
  /\ UNCHANGED <<flagVars, poolVars, hub, boundVars, requestVars, lock,
                 loadVars, ops, adrift>>

BindEnabled(a) ==
  LET p == op[a] IN
  /\ at[a] = "installed"
  /\ Goto(a, "bound")
  /\ subs' = [subs EXCEPT ![p] = IF Live(p) /\ @ = <<>> THEN <<gen[p]>> ELSE @]
  /\ timers' = [timers EXCEPT ![p] = IF Live(p) THEN gen[p] ELSE @]
  /\ UNCHANGED <<flagVars, registry, loads, poolVars, hubVars, requestVars,
                 lock, loadVars, ops, adrift>>

FlagOn(a) ==
  /\ at[a] = "bound"
  /\ Unlock(a)
  /\ flag' = [flag EXCEPT ![op[a]] = TRUE]
  /\ UNCHANGED <<gone, registry, loads, poolVars, hubVars, boundVars,
                 requestVars, loadVars, ops, adrift>>

\* Mutant: the reverted load leaves its subscriptions and timers.
RevertEnableStillBound(a) ==
  /\ at[a] = "bound"
  /\ Unlock(a)
  /\ Stopped(op[a]) /\ CutOff(LivePools({op[a]}))
  /\ off' = off \cup {op[a]}
  /\ UNCHANGED <<flagVars, loads, hub, boundVars, requestVars, loadVars, ops,
                 adrift>>

\* The flag's UPDATE fails: the load is undone, its pool closed at once.
RevertEnable(a) ==
  LET p == op[a] IN
  /\ at[a] = "bound"
  /\ Unlock(a)
  /\ Stopped(p) /\ CutOff(LivePools({p}))
  /\ subs' = [subs EXCEPT ![p] = <<>>] /\ timers' = [timers EXCEPT ![p] = 0]
  /\ off' = off \cup {p}
  /\ UNCHANGED <<flagVars, loads, hub, requestVars, loadVars, ops, adrift>>

-----------------------------------------------------------------------------
(* disable_plugin *)

BeginDisable(a, p) ==
  /\ lock[p] = Nobody
  /\ slot[p] # "absent" /\ p \notin Required
  /\ \A d \in Dependencies : d[2] = p => ~Live(d[1])
  /\ ~Sole(p)
  /\ Begin(a, p, "flagging", Unlocked)
  /\ lock' = [lock EXCEPT ![p] = a]
  /\ UNCHANGED <<flagVars, registry, loads, poolVars, hubVars, boundVars,
                 requestVars, loadVars>>

FlagOff(a) ==
  /\ at[a] = "flagging"
  /\ Goto(a, "stopping")
  /\ flag' = [flag EXCEPT ![op[a]] = FALSE]
  /\ UNCHANGED <<gone, registry, loads, poolVars, hubVars, boundVars,
                 requestVars, lock, loadVars, ops, adrift>>

\* Mutant: disable_plugin goes on to the teardown when the flag's UPDATE failed.
FlagOffUnchecked(a) ==
  /\ at[a] = "flagging"
  /\ Goto(a, "stopping")
  /\ UNCHANGED <<flagVars, registry, loads, poolVars, hubVars, boundVars,
                 requestVars, lock, loadVars, ops, adrift>>

\* The audit row or the flag cannot be written: nothing changed.
FlagOffFails(a) ==
  /\ at[a] = "flagging"
  /\ Unlock(a)
  /\ UNCHANGED <<flagVars, registry, loads, poolVars, hubVars, boundVars,
                 requestVars, loadVars, ops, adrift>>

StopRouting(a) ==
  LET p == op[a] IN
  /\ at[a] = "stopping"
  /\ Goto(a, "unbinding")
  /\ hold' = [hold EXCEPT ![a][p] = IF Live(p) THEN gen[p] ELSE 0]
  /\ Stopped(p)
  /\ off' = off \cup {p}
  /\ subs' = [subs EXCEPT ![p] = <<>>]
  /\ UNCHANGED <<flagVars, loads, poolVars, hub, timers, requestVars, lock,
                 known, todo, ops, adrift>>

StopTimers(a) ==
  /\ at[a] = "unbinding"
  /\ Goto(a, "draining")
  /\ timers' = [timers EXCEPT ![op[a]] = 0]
  /\ UNCHANGED <<flagVars, registry, loads, poolVars, hubVars, subs,
                 requestVars, lock, loadVars, ops, adrift>>

\* wait_idle, then close_pool whether it drained or timed out.
Drained(a) ==
  LET parts == {<<op[a], hold[a][op[a]]>>} \ {<<op[a], 0>>} IN
  /\ at[a] = "draining"
  /\ Unlock(a)
  /\ hold' = [hold EXCEPT ![a] = NoGens]
  /\ IF Busy(op[a]) THEN CutOff(parts)
                    ELSE closed' = closed \cup parts /\ UNCHANGED cut
  /\ UNCHANGED <<flagVars, registry, loads, hubVars, boundVars, requestVars,
                 known, todo, ops, adrift>>

-----------------------------------------------------------------------------
(* uninstall_plugin: no lock *)

BeginUninstall(a, p) ==
  /\ ~Sole(p) /\ slot[p] # "absent"
  /\ Begin(a, p, "removing", Locked \cup Unlocked)
  /\ UNCHANGED <<flagVars, registry, loads, poolVars, hubVars, boundVars,
                 requestVars, lock, loadVars>>

\* The audit row cannot be written, or another door removed the plugin.
UninstallFails(a) ==
  /\ at[a] = "removing"
  /\ Return(a)
  /\ UNCHANGED <<flagVars, registry, loads, poolVars, hubVars, boundVars,
                 requestVars, lock, loadVars, ops, adrift>>

Remove(a) ==
  LET p == op[a] IN
  /\ at[a] = "removing" /\ slot[p] # "absent"
  /\ Goto(a, "removed")
  /\ CutOff(LivePools({p}))
  /\ slot' = [slot EXCEPT ![p] = "absent"] /\ gen' = [gen EXCEPT ![p] = 0]
  /\ UNCHANGED <<flagVars, loads, hubVars, boundVars, requestVars, lock,
                 loadVars, ops, adrift>>

MarkGone(a) ==
  /\ at[a] = "removed"
  /\ Goto(a, "forgetting")
  /\ gone' = [gone EXCEPT ![op[a]] = TRUE]
  /\ subs' = [subs EXCEPT ![op[a]] = <<>>]
  /\ UNCHANGED <<flag, registry, loads, poolVars, hubVars, timers, requestVars,
                 lock, loadVars, ops, adrift>>

\* The UPDATE fails: the handler returns with the slot gone and all else kept.
MarkGoneFails(a) ==
  /\ at[a] = "removed"
  /\ Return(a)
  /\ UNCHANGED <<flagVars, registry, loads, poolVars, hubVars, boundVars,
                 requestVars, lock, loadVars, ops, adrift>>

Forget(a) ==
  LET p == op[a] IN
  /\ at[a] = "forgetting"
  /\ Return(a)
  /\ hub' = hub \ {p} /\ off' = off \ {p}
  /\ timers' = [timers EXCEPT ![p] = 0]
  /\ UNCHANGED <<flagVars, registry, loads, poolVars, subs, requestVars, lock,
                 loadVars, ops, adrift>>

-----------------------------------------------------------------------------
(* reload_plugins and plugin_choice_routes::set: no lock *)

BeginReload(a) ==
  /\ Begin(a, Nobody, "reloading", Locked \cup Unlocked)
  /\ todo' = [todo EXCEPT ![a] = Files]
  /\ UNCHANGED <<flagVars, registry, loads, poolVars, hubVars, boundVars,
                 requestVars, lock, hold, known>>

Choose(a, S) ==
  /\ S \in Choices
  /\ Begin(a, Nobody, "choosing", Locked \cup Unlocked)
  /\ flag' = [p \in Plugins |-> p \in S]
  /\ todo' = [todo EXCEPT ![a] = Files]
  /\ UNCHANGED <<gone, registry, loads, poolVars, hubVars, boundVars,
                 requestVars, lock, hold, known>>

\* One file of load_all: uninstalled and disabled plugins are not loaded.
LoadOne(a) ==
  LET p == Head(todo[a]) IN
  /\ at[a] \in Loading /\ todo[a] # <<>>
  /\ todo' = [todo EXCEPT ![a] = Tail(@)]
  /\ known' = [known EXCEPT ![a] = @ \cup {q \in {p} : ~flag[q] /\ ~gone[q]}]
  /\ IF Loadable(p)
       THEN /\ loads' = [loads EXCEPT ![p] = @ + 1]
            /\ hold' = [hold EXCEPT ![a][p] = loads[p] + 1]
            /\ hub' = hub \cup ({p} \cap Providers)
       ELSE UNCHANGED <<loads, hold, hub>>
  /\ UNCHANGED <<flagVars, registry, poolVars, off, boundVars, requestVars,
                 lock, op, at, ops, adrift>>

\* A file, the scope hierarchy or the audit row fails: the old registry is
\* kept, with the providers that inits have registered by then.
ReloadFails(a) ==
  /\ at[a] \in Loading
  /\ \/ UNCHANGED hub
     \/ /\ todo[a] # <<>> /\ Loadable(Head(todo[a]))
        /\ hub' = hub \cup ({Head(todo[a])} \cap Providers)
  /\ Return(a)
  /\ hold' = [hold EXCEPT ![a] = NoGens]
  /\ known' = [known EXCEPT ![a] = {}] /\ todo' = [todo EXCEPT ![a] = <<>>]
  /\ adrift' = (adrift \/ at[a] = "choosing")
  /\ UNCHANGED <<flagVars, registry, loads, poolVars, off, boundVars,
                 requestVars, lock, ops>>

\* replace_all: the old generation's pools close as it is retired.
Swap(a) ==
  /\ at[a] \in Loading /\ todo[a] = <<>>
  /\ Goto(a, "retiring")
  /\ CutOff(LivePools(Plugins))
  /\ slot' = [p \in Plugins |-> IF hold[a][p] > 0 THEN "live"
                                ELSE IF p \in known[a] THEN "known" ELSE "absent"]
  /\ gen' = hold[a]
  /\ hold' = [hold EXCEPT ![a] = NoGens] /\ known' = [known EXCEPT ![a] = {}]
  /\ UNCHANGED <<flagVars, loads, hubVars, boundVars, requestVars, lock, todo,
                 ops, adrift>>

\* stop_all, then retain: of every slot in the registry, records included.
Retire(a) ==
  LET present == {p \in Plugins : slot[p] # "absent"} IN
  /\ at[a] = "retiring"
  /\ Goto(a, "clearing")
  /\ timers' = NoGens
  /\ hub' = hub \cap present /\ off' = off \cap present
  /\ UNCHANGED <<flagVars, registry, loads, poolVars, subs, requestVars, lock,
                 loadVars, ops, adrift>>

ClearSubscriptions(a) ==
  /\ at[a] = "clearing"
  /\ Goto(a, "rebinding")
  /\ subs' = [p \in Plugins |-> <<>>]
  /\ UNCHANGED <<flagVars, registry, loads, poolVars, hubVars, timers,
                 requestVars, lock, loadVars, ops, adrift>>

Rebind(a) ==
  /\ at[a] = "rebinding"
  /\ Return(a)
  /\ subs' = [p \in Plugins |-> IF Live(p) THEN Append(subs[p], gen[p]) ELSE subs[p]]
  /\ timers' = [p \in Plugins |-> IF Live(p) THEN gen[p] ELSE timers[p]]
  /\ UNCHANGED <<flagVars, registry, loads, poolVars, hubVars, requestVars,
                 lock, loadVars, ops, adrift>>

-----------------------------------------------------------------------------
(* Requests, the operator and the process *)

\* Mutant: the route is resolved, the request not counted yet.
EnterUncounted(c, p) ==
  /\ inside[c] = Nobody /\ Live(p)
  /\ inside' = [inside EXCEPT ![c] = Pool(p)]
  /\ UNCHANGED <<flagVars, registry, loads, poolVars, hubVars, boundVars,
                 counted, lock, op, at, loadVars, ops, adrift>>

\* The route is resolved and the request counted under one read lock.
Enter(c, p) ==
  /\ inside[c] = Nobody /\ Live(p)
  /\ inside' = [inside EXCEPT ![c] = Pool(p)]
  /\ counted' = [counted EXCEPT ![c] = TRUE]
  /\ UNCHANGED <<flagVars, registry, loads, poolVars, hubVars, boundVars,
                 lock, op, at, loadVars, ops, adrift>>

Leave(c) ==
  /\ inside[c] # Nobody
  /\ inside' = [inside EXCEPT ![c] = Nobody]
  /\ counted' = [counted EXCEPT ![c] = FALSE]
  /\ UNCHANGED <<flagVars, registry, loads, poolVars, hubVars, boundVars,
                 lock, op, at, loadVars, ops, adrift>>

\* The documented reinstall: the operator clears the flag, and reloads later.
Reinstall(p) ==
  /\ gone[p]
  /\ \A a \in Admins : at[a] \notin Unlocked
  /\ gone' = [gone EXCEPT ![p] = FALSE]
  /\ UNCHANGED <<flag, registry, loads, poolVars, hubVars, boundVars,
                 requestVars, lock, op, at, loadVars, ops, adrift>>

Restart ==
  /\ LET b == Booted(flag, gone) IN
       slot' = b.slot /\ gen' = b.gen /\ loads' = b.gen /\ timers' = b.gen
         /\ hub' = b.hub /\ subs' = b.subs
  /\ off' = {} /\ closed' = {} /\ cut' = {}
  /\ inside' = [c \in Clients |-> Nobody] /\ counted' = [c \in Clients |-> FALSE]
  /\ lock' = [p \in Plugins |-> Nobody]
  /\ op' = [a \in Admins |-> Nobody] /\ at' = [a \in Admins |-> "idle"]
  /\ hold' = [a \in Admins |-> NoGens]
  /\ known' = [a \in Admins |-> {}] /\ todo' = [a \in Admins |-> <<>>]
  /\ adrift' = FALSE
  /\ UNCHANGED <<flagVars, ops>>

LNext ==
  \/ \E a \in Admins :
       \/ InitPlugin(a) \/ LoadFails(a) \/ Install(a) \/ BindEnabled(a)
       \/ FlagOn(a) \/ RevertEnable(a)
       \/ FlagOff(a) \/ FlagOffFails(a) \/ StopRouting(a) \/ StopTimers(a)
       \/ Drained(a)
       \/ UninstallFails(a) \/ Remove(a) \/ MarkGone(a) \/ MarkGoneFails(a)
       \/ Forget(a)
       \/ BeginReload(a) \/ LoadOne(a) \/ ReloadFails(a) \/ Swap(a) \/ Retire(a)
       \/ ClearSubscriptions(a) \/ Rebind(a)
       \/ \E S \in Choices : Choose(a, S)
       \/ \E p \in Plugins : BeginEnable(a, p) \/ BeginDisable(a, p)
                             \/ BeginUninstall(a, p)
  \/ \E c \in Clients : Leave(c) \/ \E p \in Plugins : Enter(c, p)
  \/ \E p \in Plugins : Reinstall(p)
  \/ Restart

LSpec == LInit /\ [][LNext]_lifecycleVars

-----------------------------------------------------------------------------
(* Properties *)

\* When no door is open on a plugin, what is live is what the flags say: a
\* live plugin is one a restart would load, and a disabled record one it would
\* not.  Every door writes its flag at another point of its work, and each may
\* fail half-way (server.rs, enable_plugin, disable_plugin, adopt_generation).
RegistryAgreesWithFlags ==
  \A p \in Plugins : ~adrift /\ Quiet(p) =>
    /\ Live(p) => Loadable(p)
    /\ slot[p] = "known" => ~flag[p]

\* When no door is open on a plugin, a live one has the subscriptions of its
\* own generation bound once, its timers running and its provider registered;
\* a disabled one has no subscription and no timer, whatever doors, failed
\* loads and reverted loads it went through.
BoundOnce ==
  \A p \in Plugins : ~adrift /\ Quiet(p) =>
    /\ Live(p) => /\ subs[p] = <<gen[p]>> /\ timers[p] = gen[p]
                  /\ p \in Providers => p \in hub
    /\ slot[p] = "known" => subs[p] = <<>> /\ timers[p] = 0

\* No request is inside a pool that a disable closed after its drain, however
\* the doors overlap: a request that found the route is in the count before
\* the slot can stop (server.rs, the lookup under the read lock).
DrainedPoolsAreUnused ==
  \A c \in Clients : inside[c] \in closed => inside[c] \in cut

\* A live plugin's dependency is not disabled while it is live: "a plugin can
\* never be left configured to call nothing" (server.rs, PLUGIN_DEPENDENCIES).
DependencyIsNotDisabled ==
  \A d \in Dependencies :
    ~adrift /\ Quiet(d[1]) /\ Quiet(d[2]) /\ Live(d[1]) => slot[d[2]] # "known"

=============================================================================
