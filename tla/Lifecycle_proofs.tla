--------------------------- MODULE Lifecycle_proofs ---------------------------
(***************************************************************************)
(* What is live, for any plugins, admins, clients and number of doors      *)
(* opened: the registry agrees with the flags and with what is bound       *)
(* whenever no door is open, unless a door without a lock overlapped       *)
(* another, and no request is inside a pool that was closed after its      *)
(* drain, however the doors overlap; and what ends a schedule's task.      *)
(***************************************************************************)
EXTENDS PluginLifecycle, Scheduler, TLAPS

(***************************************************************************)
(* Pools.  A generation is made once: it is live, or held by one handler,  *)
(* or closed, or lost, and a request inside one is counted.                *)
(***************************************************************************)

\* Of one plugin: the live generation g, the number of loads l, the closed
\* generations dead, and the generation held by each handler.
Spent(g, l, dead, held) ==
  /\ g <= l /\ g \notin dead
  /\ \A n \in dead : n > 0 /\ n <= l
  /\ \A a \in Admins : held[a] > 0 =>
       /\ held[a] <= l /\ held[a] # g /\ held[a] \notin dead
       /\ \A b \in Admins \ {a} : held[b] # held[a]

Dead(p) == {n \in Gens : <<p, n>> \in closed}
Held(p) == [a \in Admins |-> hold[a][p]]

PoolInv ==
  /\ \A c \in Clients : inside[c] # Nobody => counted[c]
  /\ \A p \in Plugins : /\ Live(p) <=> gen[p] > 0
                        /\ Spent(gen[p], loads[p], Dead(p), Held(p))

(***************************************************************************)
(* Doors.  Who may be past which lock, and what each leaves behind.        *)
(***************************************************************************)

DoorInv ==
  /\ \A a \in Admins :
       /\ at[a] \in Locked => op[a] \in Plugins /\ lock[op[a]] = a
       /\ at[a] \in {"removing", "removed", "forgetting"} => op[a] \in Plugins
       /\ at[a] \notin Loading \cup {"unbinding", "draining"} => hold[a] = NoGens
       /\ at[a] \notin Loading => known[a] = {}
  /\ \A p \in Plugins : lock[p] # Nobody => at[lock[p]] \in Locked /\ op[lock[p]] = p

\* No door is open on p.
Settled(p) ==
  /\ Live(p) => /\ Loadable(p) /\ subs[p] = <<gen[p]>> /\ timers[p] = gen[p]
                /\ p \in Providers => p \in hub
  /\ slot[p] = "known" => ~flag[p] /\ ~gone[p] /\ subs[p] = <<>> /\ timers[p] = 0

\* A handler at this place is past the lock of p.
Midway(place, p) ==
  /\ place \in {"loading", "initialised"} =>
       slot[p] = "known" /\ ~flag[p] /\ ~gone[p] /\ subs[p] = <<>> /\ timers[p] = 0
  /\ place \in {"installed", "bound"} => Live(p) /\ ~flag[p] /\ ~gone[p]
  /\ place = "installed" => subs[p] = <<>>
  /\ place = "bound" => subs[p] = <<gen[p]>> /\ timers[p] = gen[p]
  /\ place \in {"initialised", "installed", "bound"} /\ p \in Providers => p \in hub
  /\ place = "flagging" => slot[p] # "absent" /\ Settled(p)
  /\ place = "stopping" => slot[p] # "absent" /\ ~flag[p] /\ ~gone[p]
  /\ place \in {"unbinding", "draining"} =>
       slot[p] = "known" /\ ~flag[p] /\ ~gone[p] /\ subs[p] = <<>>
  /\ place = "draining" => timers[p] = 0

\* The registry says what the flags do, whatever is bound.
Agreed(p) ==
  /\ Live(p) => Loadable(p) /\ (p \in Providers => p \in hub)
  /\ slot[p] = "known" => ~flag[p] /\ ~gone[p]

\* The handler of a takes no lock, and no other door is open.
Alone(a) ==
  /\ \A b \in Admins \ {a} : at[b] = "idle"
  /\ at[a] \in {"removing", "removed", "forgetting", "reloading"} =>
       \A p \in Plugins : Settled(p)
  /\ at[a] \in {"removed", "forgetting"} => slot[op[a]] = "absent"
  /\ at[a] \in Loading => \A p \in Plugins :
       /\ hold[a][p] > 0 => Loadable(p) /\ (p \in Providers => p \in hub)
       /\ p \in known[a] => ~flag[p] /\ ~gone[p]
  /\ at[a] \in {"retiring", "clearing", "rebinding"} => \A p \in Plugins : Agreed(p)
  /\ at[a] \in {"clearing", "rebinding"} => timers = NoGens
  /\ at[a] = "rebinding" => subs = [p \in Plugins |-> <<>>]

PhaseInv ==
  /\ \A a \in Admins : at[a] \in Unlocked => Alone(a)
  /\ \A p \in Plugins :
       /\ lock[p] # Nobody => Midway(at[lock[p]], p)
       /\ Quiet(p) => Settled(p)

LifeInv == LTypeOK /\ PoolInv /\ DoorInv /\ (~adrift => PhaseInv)
-----------------------------------------------------------------------------
(* Types *)

doorVars == <<inside, counted, slot, gen, loads, closed, cut, hold>>

\* Every plugin directory entry is a plugin, and Nobody is none of the actors.
LEMMA Actors ==
  /\ Nobody \notin Admins /\ Nobody \notin Plugins /\ Nobody \notin Pools
  /\ \A p \in Plugins, n \in Nat : <<p, n>> \in Pools
  BY LifecycleAssumption DEF Pools, Gens

\* The pools of live plugins are pools.
LEMMA LivePoolsTyped ==
  ASSUME LTypeOK, NEW P \in SUBSET Plugins
  PROVE  LivePools(P) \subseteq Pools
  BY DEF LivePools, Pool, LTypeOK, Pools, Gens

\* The plugin a handler is about.
LEMMA ItsPlugin ==
  ASSUME DoorInv, NEW a \in Admins,
         at[a] \in {"loading", "initialised", "installed", "bound", "flagging", "stopping",
                   "unbinding", "draining", "removing", "removed", "forgetting"}
  PROVE  op[a] \in Plugins
  BY DEF DoorInv, Locked, Enables, Disables

\* A boot's registry.
LEMMA BootShape ==
  LET b == Booted(flag, gone) IN
         /\ b.slot = [p \in Plugins |-> IF flag[p] /\ ~gone[p] THEN "live"
                                        ELSE IF gone[p] THEN "absent" ELSE "known"]
         /\ b.gen = [p \in Plugins |-> IF flag[p] /\ ~gone[p] THEN 1 ELSE 0]
         /\ b.hub = {p \in Providers : flag[p] /\ ~gone[p]}
         /\ b.subs = [p \in Plugins |-> IF flag[p] /\ ~gone[p] THEN <<1>> ELSE <<>>]
  BY LifecycleAssumption DEF Booted

\* The state types, but for the last conjunct, which DoorInv states too.
Shapes ==
  /\ flag \in [Plugins -> BOOLEAN] /\ gone \in [Plugins -> BOOLEAN]
  /\ slot \in [Plugins -> {"absent", "known", "live"}]
  /\ gen \in [Plugins -> Nat] /\ loads \in [Plugins -> Nat]
  /\ closed \subseteq Pools /\ cut \subseteq closed
  /\ hub \subseteq Providers /\ off \subseteq Plugins
  /\ subs \in [Plugins -> Seq(Nat)] /\ timers \in [Plugins -> Nat]
  /\ inside \in [Clients -> Pools \cup {Nobody}]
  /\ counted \in [Clients -> BOOLEAN]
  /\ lock \in [Plugins -> Admins \cup {Nobody}]
  /\ op \in [Admins -> Plugins \cup {Nobody}]
  /\ at \in [Admins -> {"idle"} \cup Locked \cup Unlocked]
  /\ hold \in [Admins -> [Plugins -> Nat]]
  /\ known \in [Admins -> SUBSET Plugins] /\ todo \in [Admins -> Seq(Plugins)]
  /\ ops \in 0..MaxOps /\ adrift \in BOOLEAN

\* Shapes is what LTypeOK adds to DoorInv.
LEMMA ShapesAreTypes ==
  /\ LTypeOK => Shapes
  /\ Shapes /\ DoorInv => LTypeOK
  BY DEF LTypeOK, Shapes, DoorInv, Gens

\* Every step keeps the types of what it writes.
LEMMA ShapesStep == Shapes /\ DoorInv /\ [LNext]_lifecycleVars => Shapes'
<1> SUFFICES ASSUME Shapes, DoorInv, [LNext]_lifecycleVars PROVE Shapes'
  OBVIOUS
<1>0. /\ Nobody \notin Pools /\ Pools = Plugins \X Nat
      /\ LivePools(Plugins) \subseteq Pools
      /\ \A p \in Plugins : LivePools({p}) \subseteq Pools
  <2>1. LTypeOK
    BY ShapesAreTypes
  <2>2. \A P \in SUBSET Plugins : LivePools(P) \subseteq Pools
    BY <2>1, LivePoolsTyped
  <2> QED
    BY <2>2, Actors DEF Pools, Gens
<1> USE DEF Shapes, Goto, Return, Unlock, Stopped, CutOff, flagVars, registry, poolVars,
            hubVars, boundVars, requestVars, loadVars, Locked, Enables, Disables, Unlocked, Loading
<1>1. CASE UNCHANGED lifecycleVars
  BY <1>1 DEF lifecycleVars
<1>2. ASSUME NEW a \in Admins, NEW p \in Plugins,
             BeginEnable(a, p) \/ BeginDisable(a, p) \/ BeginUninstall(a, p)
      PROVE  Shapes'
  <2>1. PICK first \in {"loading", "flagging", "removing"}, doors \in {Unlocked, Locked \cup Unlocked} :
          Begin(a, p, first, doors) /\ (lock' = lock \/ lock' = [lock EXCEPT ![p] = a])
    BY <1>2 DEF BeginEnable, BeginDisable, BeginUninstall
  <2>2. /\ ops' \in 0..MaxOps /\ op' \in [Admins -> Plugins \cup {Nobody}]
        /\ at' \in [Admins -> {"idle"} \cup Locked \cup Unlocked]
    BY <2>1, LifecycleAssumption DEF Begin
  <2>3. lock' \in [Plugins -> Admins \cup {Nobody}]
    BY <2>1
  <2>4. adrift' \in BOOLEAN
    BY <2>1 DEF Begin
  <2> QED
    BY <1>2, <2>2, <2>3, <2>4 DEF BeginEnable, BeginDisable, BeginUninstall
<1>3. ASSUME NEW a \in Admins, InitPlugin(a) PROVE Shapes'
  BY <1>3, LifecycleAssumption DEF InitPlugin
<1>4. ASSUME NEW a \in Admins,
             LoadFails(a) \/ FlagOffFails(a) \/ UninstallFails(a) \/ MarkGoneFails(a)
      PROVE  Shapes'
  BY <1>4 DEF LoadFails, FlagOffFails, UninstallFails, MarkGoneFails
<1>5. ASSUME NEW a \in Admins, Install(a) PROVE Shapes'
  <2>1. op[a] \in Plugins
    BY <1>5, ItsPlugin DEF Install
  <2>2. at' \in [Admins -> {"idle"} \cup Locked \cup Unlocked] /\ op' = op
    BY <1>5 DEF Install
  <2>3. /\ loads' \in [Plugins -> Nat] /\ gen' \in [Plugins -> Nat] /\ off' \subseteq Plugins
        /\ slot' \in [Plugins -> {"absent", "known", "live"}]
    BY <1>5, <2>1 DEF Install
  <2> QED
    BY <1>5, <2>2, <2>3 DEF Install
<1>6. ASSUME NEW a \in Admins, BindEnabled(a) PROVE Shapes'
  <2>1. op[a] \in Plugins /\ <<gen[op[a]]>> \in Seq(Nat)
    BY <1>6 DEF BindEnabled, DoorInv
  <2> QED
    BY <1>6, <2>1 DEF BindEnabled
<1>7. ASSUME NEW a \in Admins, FlagOn(a) \/ FlagOff(a) PROVE Shapes'
  BY <1>7 DEF FlagOn, FlagOff
<1>8. ASSUME NEW a \in Admins, RevertEnable(a) PROVE Shapes'
  <2>1. op[a] \in Plugins /\ LivePools({op[a]}) \subseteq Pools
    <3>1. op[a] \in Plugins
      BY <1>8, ItsPlugin DEF RevertEnable
    <3> QED
      BY <1>0, <3>1
  <2> QED
    <3>1. closed' \subseteq Pools /\ cut' \subseteq closed' /\ off' \subseteq Plugins
      BY <1>8, <2>1 DEF RevertEnable
    <3>2. slot' \in [Plugins -> {"absent", "known", "live"}] /\ gen' \in [Plugins -> Nat]
      BY <1>8, <2>1 DEF RevertEnable
    <3>3. subs' \in [Plugins -> Seq(Nat)] /\ timers' \in [Plugins -> Nat]
      BY <1>8, <2>1 DEF RevertEnable
    <3>4. lock' \in [Plugins -> Admins \cup {Nobody}] /\ op' \in [Admins -> Plugins \cup {Nobody}]
          /\ at' \in [Admins -> {"idle"} \cup Locked \cup Unlocked]
      BY <1>8, <2>1 DEF RevertEnable
    <3> QED
      BY <1>8, <3>1, <3>2, <3>3, <3>4 DEF RevertEnable
<1>9. ASSUME NEW a \in Admins, StopRouting(a) PROVE Shapes'
  <2>1. op[a] \in Plugins
    BY <1>9 DEF StopRouting, DoorInv
  <2>2. hold' \in [Admins -> [Plugins -> Nat]]
    BY <1>9, <2>1 DEF StopRouting
  <2> QED
    BY <1>9, <2>1, <2>2 DEF StopRouting
<1>10. ASSUME NEW a \in Admins, StopTimers(a) PROVE Shapes'
  BY <1>10 DEF StopTimers
<1>11. ASSUME NEW a \in Admins, Drained(a) PROVE Shapes'
  <2>1. op[a] \in Plugins /\ <<op[a], hold[a][op[a]]>> \in Pools
    BY <1>11, Actors DEF Drained, DoorInv
  <2>2. closed' \subseteq Pools /\ cut' \subseteq closed'
    BY <1>11, <2>1 DEF Drained
  <2> QED
    BY <1>11, <2>1, <2>2 DEF Drained, NoGens
<1>12. ASSUME NEW a \in Admins, Remove(a) PROVE Shapes'
  <2>1. op[a] \in Plugins /\ LivePools({op[a]}) \subseteq Pools
    <3>1. op[a] \in Plugins
      BY <1>12, ItsPlugin DEF Remove
    <3> QED
      BY <1>0, <3>1
  <2> QED
    BY <1>12, <2>1 DEF Remove
<1>13. ASSUME NEW a \in Admins, MarkGone(a) \/ Forget(a) PROVE Shapes'
  <2>1. op[a] \in Plugins
    BY <1>13, ItsPlugin DEF MarkGone, Forget
  <2>2. /\ gone' \in [Plugins -> BOOLEAN] /\ subs' \in [Plugins -> Seq(Nat)]
        /\ timers' \in [Plugins -> Nat] /\ hub' \subseteq Providers /\ off' \subseteq Plugins
    <3>1. CASE MarkGone(a)
      BY <2>1, <3>1 DEF MarkGone
    <3>2. CASE Forget(a)
      BY <2>1, <3>2 DEF Forget
    <3> QED
      BY <1>13, <3>1, <3>2
  <2>3. /\ at' \in [Admins -> {"idle"} \cup Locked \cup Unlocked]
        /\ op' \in [Admins -> Plugins \cup {Nobody}]
    BY <1>13 DEF MarkGone, Forget
  <2> QED
    BY SMTT(60), <1>13, <2>2, <2>3 DEF MarkGone, Forget
<1>14. ASSUME NEW a \in Admins, BeginReload(a) PROVE Shapes'
  <2>1. Files \in Seq(Plugins)
    BY LifecycleAssumption
  <2> QED
    <3>1. ops' \in 0..MaxOps /\ adrift' \in BOOLEAN /\ op' \in [Admins -> Plugins \cup {Nobody}]
          /\ at' \in [Admins -> {"idle"} \cup Locked \cup Unlocked]
      BY <1>14, LifecycleAssumption DEF BeginReload, Begin, Overlaps
    <3>2. todo' \in [Admins -> Seq(Plugins)]
      BY <1>14, <2>1 DEF BeginReload
    <3> QED
      BY <1>14, <3>1, <3>2 DEF BeginReload
<1>15. ASSUME NEW a \in Admins, NEW S \in Choices, Choose(a, S) PROVE Shapes'
  <2>1. Files \in Seq(Plugins)
    BY LifecycleAssumption
  <2> QED
    <3>1. ops' \in 0..MaxOps /\ adrift' \in BOOLEAN /\ op' \in [Admins -> Plugins \cup {Nobody}]
          /\ at' \in [Admins -> {"idle"} \cup Locked \cup Unlocked]
      BY <1>15, LifecycleAssumption DEF Choose, Begin, Overlaps
    <3>2. todo' \in [Admins -> Seq(Plugins)]
      BY <1>15, <2>1 DEF Choose
    <3> QED
      BY <1>15, <3>1, <3>2 DEF Choose, Choices
<1>16. ASSUME NEW a \in Admins, LoadOne(a) PROVE Shapes'
  <2>1. todo[a] \in Seq(Plugins) /\ todo[a] # <<>>
    BY <1>16 DEF LoadOne
  <2>2. Head(todo[a]) \in Plugins /\ Tail(todo[a]) \in Seq(Plugins)
    BY <2>1
  <2>3. hold' \in [Admins -> [Plugins -> Nat]] /\ loads' \in [Plugins -> Nat] /\ hub' \subseteq Providers
    <3>1. CASE Loadable(Head(todo[a]))
      <4>1. loads' \in [Plugins -> Nat] /\ hub' \subseteq Providers
        <5>1. /\ loads' = [loads EXCEPT ![Head(todo[a])] = loads[Head(todo[a])] + 1]
              /\ hub' = hub \cup ({Head(todo[a])} \cap Providers)
          BY <1>16, <3>1 DEF LoadOne
        <5> QED
          BY SMTT(60), <2>2, <5>1
      <4>2. hold' = [hold EXCEPT ![a][Head(todo[a])] = loads[Head(todo[a])] + 1]
        BY <1>16, <3>1 DEF LoadOne
      <4>3. hold' \in [Admins -> [Plugins -> Nat]]
        BY SMTT(60), <2>2, <4>2
      <4> QED
        BY <4>1, <4>3
    <3>2. CASE ~Loadable(Head(todo[a]))
      BY <1>16, <3>2 DEF LoadOne
    <3> QED
      BY <3>1, <3>2
  <2>4. known' \in [Admins -> SUBSET Plugins] /\ todo' \in [Admins -> Seq(Plugins)]
    BY <1>16, <2>2 DEF LoadOne
  <2> QED
    BY <1>16, <2>3, <2>4 DEF LoadOne
<1>17. ASSUME NEW a \in Admins, ReloadFails(a) PROVE Shapes'
  <2>1. hub' \subseteq Providers /\ <<>> \in Seq(Plugins)
    BY <1>17 DEF ReloadFails
  <2> QED
    BY <1>17, <2>1 DEF ReloadFails, NoGens
<1>18. ASSUME NEW a \in Admins, Swap(a) PROVE Shapes'
  BY <1>0, <1>18 DEF Swap, NoGens
<1>19. ASSUME NEW a \in Admins, Retire(a) \/ ClearSubscriptions(a) PROVE Shapes'
  <2>1. \A p \in Plugins : <<>> \in Seq(Nat)
    OBVIOUS
  <2>2. /\ timers' \in [Plugins -> Nat] /\ subs' \in [Plugins -> Seq(Nat)]
        /\ hub' \subseteq Providers /\ off' \subseteq Plugins
    <3>1. CASE Retire(a)
      BY <2>1, <3>1 DEF Retire, NoGens
    <3>2. CASE ClearSubscriptions(a)
      BY <2>1, <3>2 DEF ClearSubscriptions
    <3> QED
      BY <1>19, <3>1, <3>2
  <2>3. at' \in [Admins -> {"idle"} \cup Locked \cup Unlocked] /\ op' = op
    BY <1>19 DEF Retire, ClearSubscriptions
  <2> QED
    BY <1>19, <2>2, <2>3 DEF Retire, ClearSubscriptions
<1>20. ASSUME NEW a \in Admins, Rebind(a) PROVE Shapes'
  <2>1. \A p \in Plugins : Append(subs[p], gen[p]) \in Seq(Nat)
    OBVIOUS
  <2> QED
    BY <1>20, <2>1 DEF Rebind
<1>21. ASSUME NEW c \in Clients, Leave(c) PROVE Shapes'
  BY <1>21 DEF Leave
<1>22. ASSUME NEW c \in Clients, NEW p \in Plugins, Enter(c, p) PROVE Shapes'
  BY <1>0, <1>22, Actors DEF Enter, Pool
<1>23. ASSUME NEW p \in Plugins, Reinstall(p) PROVE Shapes'
  BY <1>23 DEF Reinstall
<1>24. CASE Restart
  <2> DEFINE b == Booted(flag, gone)
  <2>1. slot' = b.slot /\ gen' = b.gen /\ loads' = b.gen /\ timers' = b.gen /\ hub' = b.hub /\ subs' = b.subs
    BY <1>24 DEF Restart
  <2>2. <<>> \in Seq(Nat) /\ <<1>> \in Seq(Nat) /\ <<>> \in Seq(Plugins)
    OBVIOUS
  <2>3. /\ slot' \in [Plugins -> {"absent", "known", "live"}] /\ gen' \in [Plugins -> Nat]
        /\ loads' \in [Plugins -> Nat] /\ timers' \in [Plugins -> Nat]
        /\ hub' \subseteq Providers /\ subs' \in [Plugins -> Seq(Nat)]
    BY <2>1, <2>2, BootShape
  <2>4. /\ lock' \in [Plugins -> Admins \cup {Nobody}] /\ op' \in [Admins -> Plugins \cup {Nobody}]
        /\ at' \in [Admins -> {"idle"} \cup Locked \cup Unlocked]
    BY <1>24 DEF Restart
  <2>5. /\ hold' \in [Admins -> [Plugins -> Nat]] /\ known' \in [Admins -> SUBSET Plugins]
        /\ todo' \in [Admins -> Seq(Plugins)]
    BY <1>24, <2>2 DEF Restart, NoGens
  <2> QED
    BY <1>24, <2>3, <2>4, <2>5 DEF Restart
<1> QED
  BY <1>1, <1>2, <1>3, <1>4, <1>5, <1>6, <1>7, <1>8, <1>9, <1>10, <1>11, <1>12, <1>13, <1>14,
     <1>15, <1>16, <1>17, <1>18, <1>19, <1>20, <1>21, <1>22, <1>23, <1>24 DEF LNext

-----------------------------------------------------------------------------
(* Doors *)

\* The places of a handler.
LEMMA Places ==
  /\ Locked = {"loading", "initialised", "installed", "bound",
               "flagging", "stopping", "unbinding", "draining"}
  /\ Unlocked = {"reloading", "choosing", "removing", "removed", "forgetting",
                 "retiring", "clearing", "rebinding"}
  /\ Loading = {"reloading", "choosing"}
  BY DEF Locked, Enables, Disables, Unlocked, Loading

\* A handler goes on, past the same lock or past none.
LEMMA DoorGoto ==
  ASSUME Shapes, DoorInv, NEW a \in Admins, NEW next, Goto(a, next), lock' = lock,
         at[a] \in Locked <=> next \in Locked,
         next \in {"removing", "removed", "forgetting"} => op[a] \in Plugins,
         hold' \in [Admins -> [Plugins -> Nat]], known' \in [Admins -> SUBSET Plugins],
         \A b \in Admins \ {a} : hold'[b] = hold[b] /\ known'[b] = known[b],
         next \notin Loading \cup {"unbinding", "draining"} => hold'[a] = NoGens,
         next \notin Loading => known'[a] = {}
  PROVE  DoorInv'
<1>1. op' = op /\ at'[a] = next /\ \A b \in Admins \ {a} : at'[b] = at[b]
  BY DEF Goto, Shapes
<1>2. ASSUME NEW b \in Admins
      PROVE  /\ at'[b] \in Locked => op[b] \in Plugins /\ lock[op[b]] = b
             /\ at'[b] \in {"removing", "removed", "forgetting"} => op[b] \in Plugins
             /\ at'[b] \notin Loading \cup {"unbinding", "draining"} => hold'[b] = NoGens
             /\ at'[b] \notin Loading => known'[b] = {}
  <2>1. CASE b = a
    BY <1>1, <2>1 DEF DoorInv
  <2>2. CASE b # a
    BY <1>1, <2>2 DEF DoorInv
  <2> QED
    BY <2>1, <2>2
<1>3. ASSUME NEW p \in Plugins, lock[p] # Nobody
      PROVE  at'[lock[p]] \in Locked /\ op[lock[p]] = p
  <2>1. lock[p] \in Admins /\ at[lock[p]] \in Locked /\ op[lock[p]] = p
    BY <1>3 DEF DoorInv, Shapes
  <2> QED
    BY <1>1, <2>1
<1> QED
  BY <1>1, <1>2, <1>3 DEF DoorInv, NoGens

\* A handler returns, and drops its lock if it holds one.
LEMMA DoorReturn ==
  ASSUME Shapes, DoorInv, NEW a \in Admins, Return(a),
         \/ at[a] \in Locked /\ lock' = [lock EXCEPT ![op[a]] = Nobody]
         \/ at[a] \notin Locked /\ lock' = lock,
         hold' \in [Admins -> [Plugins -> Nat]], known' \in [Admins -> SUBSET Plugins],
         \A b \in Admins \ {a} : hold'[b] = hold[b] /\ known'[b] = known[b],
         hold'[a] = NoGens, known'[a] = {}
  PROVE  DoorInv'
<1>1. /\ op'[a] = Nobody /\ at'[a] = "idle"
      /\ \A b \in Admins \ {a} : at'[b] = at[b] /\ op'[b] = op[b]
  BY DEF Return, Shapes
<1>2. "idle" \notin Locked /\ "idle" \notin {"removing", "removed", "forgetting"}
  BY Places
<1>3. ASSUME NEW p \in Plugins
      PROVE  lock'[p] = IF lock[p] = a THEN Nobody ELSE lock[p]
  <2>1. lock[p] = a => at[a] \in Locked /\ op[a] = p
    BY Actors DEF DoorInv
  <2>2. at[a] \in Locked => op[a] \in Plugins /\ lock[op[a]] = a
    BY DEF DoorInv
  <2> QED
    BY <2>1, <2>2 DEF Shapes
<1>4. ASSUME NEW b \in Admins
      PROVE  /\ at'[b] \in Locked => op'[b] \in Plugins /\ lock'[op'[b]] = b
             /\ at'[b] \in {"removing", "removed", "forgetting"} => op'[b] \in Plugins
             /\ at'[b] \notin Loading \cup {"unbinding", "draining"} => hold'[b] = NoGens
             /\ at'[b] \notin Loading => known'[b] = {}
  <2>1. CASE b = a
    BY <1>1, <1>2, <2>1
  <2>2. CASE b # a
    BY <1>1, <1>3, <2>2 DEF DoorInv
  <2> QED
    BY <2>1, <2>2
<1>5. ASSUME NEW p \in Plugins, lock'[p] # Nobody
      PROVE  at'[lock'[p]] \in Locked /\ op'[lock'[p]] = p
  <2>1. lock'[p] = lock[p] /\ lock[p] # a /\ lock[p] # Nobody
    BY <1>3, <1>5
  <2>2. lock[p] \in Admins /\ at[lock[p]] \in Locked /\ op[lock[p]] = p
    BY <2>1 DEF DoorInv, Shapes
  <2> QED
    BY <1>1, <2>1, <2>2
<1> QED
  BY <1>4, <1>5 DEF DoorInv, NoGens

\* A handler begins.
LEMMA DoorBegin ==
  ASSUME Shapes, DoorInv, NEW a \in Admins, NEW p \in Plugins \cup {Nobody}, NEW first, NEW doors,
         Begin(a, p, first, doors), UNCHANGED <<hold, known>>,
         \/ first \in Locked /\ p \in Plugins /\ lock[p] = Nobody /\ lock' = [lock EXCEPT ![p] = a]
         \/ first \notin Locked /\ lock' = lock,
         first \in {"removing", "removed", "forgetting"} => p \in Plugins
  PROVE  DoorInv'
<1>1. /\ op'[a] = p /\ at'[a] = first /\ at[a] = "idle"
      /\ \A b \in Admins \ {a} : at'[b] = at[b] /\ op'[b] = op[b]
  BY DEF Begin, Shapes
<1>2. hold[a] = NoGens /\ known[a] = {} /\ at[a] \notin Locked
  BY <1>1, Places DEF DoorInv
<1>3. \A q \in Plugins : lock[q] # a
  BY <1>2, Actors DEF DoorInv
<1>4. ASSUME NEW b \in Admins
      PROVE  /\ at'[b] \in Locked => op'[b] \in Plugins /\ lock'[op'[b]] = b
             /\ at'[b] \in {"removing", "removed", "forgetting"} => op'[b] \in Plugins
             /\ at'[b] \notin Loading \cup {"unbinding", "draining"} => hold'[b] = NoGens
             /\ at'[b] \notin Loading => known'[b] = {}
  <2>1. CASE b = a
    BY <1>1, <1>2, <2>1 DEF Shapes
  <2>2. CASE b # a
    <3>1. at[b] \in Locked => op[b] \in Plugins /\ lock[op[b]] = b
      BY DEF DoorInv
    <3>2. at'[b] \in Locked => op'[b] \in Plugins /\ lock'[op'[b]] = b
      BY SMTT(60), <1>1, <2>2, <3>1, Actors DEF Shapes
    <3> QED
      BY <1>1, <2>2, <3>2 DEF DoorInv
  <2> QED
    BY <2>1, <2>2
<1>5. ASSUME NEW q \in Plugins, lock'[q] # Nobody
      PROVE  at'[lock'[q]] \in Locked /\ op'[lock'[q]] = q
  <2>1. CASE lock'[q] = lock[q]
    <3>1. lock[q] \in Admins /\ at[lock[q]] \in Locked /\ op[lock[q]] = q
      BY <1>5, <2>1 DEF DoorInv, Shapes
    <3> QED
      BY <1>1, <1>3, <2>1, <3>1
  <2>2. CASE lock'[q] # lock[q]
    <3>1. q = p /\ lock'[q] = a /\ first \in Locked
      BY <2>2 DEF Shapes
    <3> QED
      BY <1>1, <3>1
  <2> QED
    BY <2>1, <2>2
<1> QED
  BY <1>4, <1>5 DEF DoorInv, NoGens

\* Every step keeps the locks and what the handlers hold in order.
LEMMA DoorStep == Shapes /\ DoorInv /\ [LNext]_lifecycleVars => DoorInv'
<1> SUFFICES ASSUME Shapes, DoorInv, [LNext]_lifecycleVars PROVE DoorInv'
  OBVIOUS
<1> USE Places
<1>0. Shapes'
  BY ShapesStep
<1>1. CASE UNCHANGED <<lock, op, at, hold, known>>
  BY <1>1 DEF DoorInv, NoGens
<1>2. ASSUME NEW a \in Admins, NEW p \in Plugins, BeginEnable(a, p) \/ BeginDisable(a, p)
      PROVE  DoorInv'
  <2>1. PICK first \in {"loading", "flagging"}, doors \in {Unlocked, Locked \cup Unlocked} :
          /\ Begin(a, p, first, doors) /\ lock[p] = Nobody /\ lock' = [lock EXCEPT ![p] = a]
          /\ UNCHANGED <<hold, known>>
    BY <1>2 DEF BeginEnable, BeginDisable, loadVars
  <2> QED
    BY <2>1, DoorBegin
<1>3. ASSUME NEW a \in Admins, NEW p \in Plugins, BeginUninstall(a, p) PROVE DoorInv'
  <2>1. PICK doors : Begin(a, p, "removing", doors) /\ lock' = lock /\ UNCHANGED <<hold, known>>
    BY <1>3 DEF BeginUninstall, loadVars
  <2> QED
    BY <2>1, DoorBegin
<1>4. ASSUME NEW a \in Admins, BeginReload(a) \/ \E S \in Choices : Choose(a, S) PROVE DoorInv'
  <2>1. PICK first \in Loading, doors \in {Unlocked, Locked \cup Unlocked} :
          Begin(a, Nobody, first, doors) /\ lock' = lock /\ UNCHANGED <<hold, known>>
    BY <1>4 DEF BeginReload, Choose
  <2> QED
    BY <2>1, DoorBegin
<1>5. ASSUME NEW a \in Admins,
             \/ InitPlugin(a) \/ Install(a) \/ BindEnabled(a) \/ FlagOff(a)
             \/ StopTimers(a) \/ Remove(a) \/ MarkGone(a) \/ Retire(a) \/ ClearSubscriptions(a)
      PROVE  DoorInv'
  <2>1. PICK next :
          /\ Goto(a, next) /\ UNCHANGED <<lock, hold, known>>
          /\ <<at[a], next>> \in
               {<<"loading", "initialised">>, <<"initialised", "installed">>,
                <<"installed", "bound">>, <<"flagging", "stopping">>,
                <<"unbinding", "draining">>, <<"removing", "removed">>,
                <<"removed", "forgetting">>, <<"retiring", "clearing">>,
                <<"clearing", "rebinding">>}
    BY <1>5 DEF InitPlugin, Install, BindEnabled, FlagOff, StopTimers, Remove, MarkGone, Retire,
                ClearSubscriptions, loadVars
  <2>2. /\ at[a] \in Locked <=> next \in Locked
        /\ next \in {"removing", "removed", "forgetting"} => op[a] \in Plugins
    BY <2>1, ItsPlugin
  <2>3. /\ next \notin Loading \cup {"unbinding", "draining"} => hold[a] = NoGens
        /\ next \notin Loading => known[a] = {}
    BY <2>1 DEF DoorInv
  <2> QED
    BY <1>0, <2>1, <2>2, <2>3, DoorGoto DEF Shapes
<1>6. ASSUME NEW a \in Admins, StopRouting(a) PROVE DoorInv'
  <2>1. /\ Goto(a, "unbinding") /\ UNCHANGED <<lock, known>> /\ at[a] = "stopping"
        /\ \A b \in Admins \ {a} : hold'[b] = hold[b]
    BY <1>6 DEF StopRouting, Shapes
  <2>2. known[a] = {}
    BY <2>1 DEF DoorInv
  <2> QED
    BY <1>0, <2>1, <2>2, DoorGoto DEF Shapes
<1>7. ASSUME NEW a \in Admins, Swap(a) PROVE DoorInv'
  <2>1. /\ Goto(a, "retiring") /\ lock' = lock /\ at[a] \in Loading
        /\ hold' = [hold EXCEPT ![a] = NoGens] /\ known' = [known EXCEPT ![a] = {}]
    BY <1>7 DEF Swap
  <2>2. /\ hold'[a] = NoGens /\ known'[a] = {}
        /\ \A b \in Admins \ {a} : hold'[b] = hold[b] /\ known'[b] = known[b]
    BY <2>1 DEF Shapes
  <2> QED
    BY <1>0, <2>1, <2>2, DoorGoto DEF Shapes
<1>8. ASSUME NEW a \in Admins,
             \/ LoadFails(a) \/ FlagOn(a) \/ RevertEnable(a) \/ FlagOffFails(a)
             \/ UninstallFails(a) \/ MarkGoneFails(a) \/ Forget(a) \/ Rebind(a)
      PROVE  DoorInv'
  <2>1. /\ Return(a) /\ UNCHANGED <<hold, known>>
        /\ at[a] \notin Loading \cup {"unbinding", "draining"}
        /\ \/ at[a] \in Locked /\ lock' = [lock EXCEPT ![op[a]] = Nobody]
           \/ at[a] \notin Locked /\ lock' = lock
    BY <1>8 DEF LoadFails, FlagOn, RevertEnable, FlagOffFails, UninstallFails, MarkGoneFails,
                Forget, Rebind, Unlock, loadVars
  <2>2. hold[a] = NoGens /\ known[a] = {}
    BY <2>1 DEF DoorInv
  <2> QED
    BY <1>0, <2>1, <2>2, DoorReturn DEF Shapes
<1>9. ASSUME NEW a \in Admins, Drained(a) PROVE DoorInv'
  <2>1. /\ Return(a) /\ known' = known /\ hold' = [hold EXCEPT ![a] = NoGens]
        /\ at[a] = "draining" /\ lock' = [lock EXCEPT ![op[a]] = Nobody]
    BY <1>9 DEF Drained, Unlock
  <2>2. known[a] = {}
    BY <2>1 DEF DoorInv
  <2>3. hold'[a] = NoGens /\ \A b \in Admins \ {a} : hold'[b] = hold[b]
    BY <2>1 DEF Shapes
  <2> QED
    BY <1>0, <2>1, <2>2, <2>3, DoorReturn DEF Shapes
<1>10. ASSUME NEW a \in Admins, ReloadFails(a) PROVE DoorInv'
  <2>1. /\ Return(a) /\ known' = [known EXCEPT ![a] = {}] /\ hold' = [hold EXCEPT ![a] = NoGens]
        /\ at[a] \in Loading /\ lock' = lock
    BY <1>10 DEF ReloadFails
  <2>2. /\ hold'[a] = NoGens /\ known'[a] = {}
        /\ \A b \in Admins \ {a} : hold'[b] = hold[b] /\ known'[b] = known[b]
    BY <2>1 DEF Shapes
  <2> QED
    BY <1>0, <2>1, <2>2, DoorReturn DEF Shapes
<1>11. ASSUME NEW a \in Admins, LoadOne(a) PROVE DoorInv'
  <2>1. /\ lock' = lock /\ op' = op /\ at' = at /\ at[a] \in Loading
        /\ \A b \in Admins \ {a} : hold'[b] = hold[b] /\ known'[b] = known[b]
    BY <1>11 DEF LoadOne, Shapes
  <2>2. Goto(a, at[a])
    BY <2>1 DEF Goto, Shapes
  <2> QED
    BY <1>0, <2>1, <2>2, DoorGoto DEF Shapes
<1>12. CASE Restart
  <2>1. /\ \A a \in Admins : at'[a] = "idle" /\ hold'[a] = NoGens /\ known'[a] = {}
        /\ \A p \in Plugins : lock'[p] = Nobody
    BY <1>12 DEF Restart
  <2> QED
    BY <2>1 DEF DoorInv, NoGens
<1>13. ASSUME NEW c \in Clients, Leave(c) \/ \E p \in Plugins : Enter(c, p) PROVE DoorInv'
  BY <1>1, <1>13 DEF Leave, Enter, loadVars
<1>14. ASSUME NEW p \in Plugins, Reinstall(p) PROVE DoorInv'
  BY <1>1, <1>14 DEF Reinstall, loadVars
<1>15. CASE UNCHANGED lifecycleVars
  BY <1>1, <1>15 DEF lifecycleVars, loadVars
<1> QED
  BY <1>2, <1>3, <1>4, <1>5, <1>6, <1>7, <1>8, <1>9, <1>10, <1>11, <1>12, <1>13, <1>14, <1>15
     DEF LNext

-----------------------------------------------------------------------------
(* Pools *)

\* What a step may do to the generations of one plugin: forget one, make the
\* next one live, take the live one, close the live or the held one, load
\* the next one, and make the held one live.
LEMMA SpentMoves ==
  ASSUME NEW g \in Nat, NEW l \in Nat, NEW dead \in SUBSET Nat, NEW held \in [Admins -> Nat],
         Spent(g, l, dead, held), NEW a \in Admins
  PROVE  /\ \A f \in [Admins -> Nat] :
              (\A b \in Admins : f[b] \in {0, held[b]}) => /\ Spent(g, l, dead, f)
                                                           /\ Spent(0, l, dead, f)
         /\ Spent(l + 1, l + 1, dead, held)
         /\ Spent(0, l, dead, [held EXCEPT ![a] = g])
         /\ Spent(g, l + 1, dead, [held EXCEPT ![a] = l + 1])
         /\ g > 0 => Spent(0, l, dead \cup {g}, held)
         /\ held[a] > 0 => Spent(g, l, dead \cup {held[a]}, [held EXCEPT ![a] = 0])
         /\ Spent(held[a], l, dead \cup ({g} \ {0}), [held EXCEPT ![a] = 0])
<1>1. /\ g <= l /\ g \notin dead
      /\ \A n \in dead : n > 0 /\ n <= l /\ n # l + 1 /\ n # 0
      /\ \A b \in Admins : /\ held[b] <= l /\ held[b] # l + 1
                           /\ held[b] \notin dead
                           /\ held[b] > 0 => held[b] # g /\ \A d \in Admins \ {b} : held[d] # held[b]
  BY DEF Spent
<1>2. ASSUME NEW f \in [Admins -> Nat], \A b \in Admins : f[b] \in {0, held[b]}
      PROVE  Spent(g, l, dead, f) /\ Spent(0, l, dead, f)
  BY <1>1, <1>2 DEF Spent
<1>3. Spent(l + 1, l + 1, dead, held)
  BY <1>1 DEF Spent
<1>4. Spent(0, l, dead, [held EXCEPT ![a] = g])
  BY <1>1 DEF Spent
<1>5. Spent(g, l + 1, dead, [held EXCEPT ![a] = l + 1])
  BY <1>1 DEF Spent
<1>6. ASSUME g > 0 PROVE Spent(0, l, dead \cup {g}, held)
  BY <1>1, <1>6 DEF Spent
<1>7. ASSUME held[a] > 0 PROVE Spent(g, l, dead \cup {held[a]}, [held EXCEPT ![a] = 0])
  BY <1>1, <1>7 DEF Spent
<1>8. Spent(held[a], l, dead \cup ({g} \ {0}), [held EXCEPT ![a] = 0])
  BY <1>1 DEF Spent
<1> QED
  BY <1>2, <1>3, <1>4, <1>5, <1>6, <1>7, <1>8

\* The types of what SpentMoves is about.
LEMMA SpentTypes ==
  ASSUME Shapes, NEW p \in Plugins
  PROVE  /\ gen[p] \in Nat /\ loads[p] \in Nat /\ Dead(p) \in SUBSET Nat
         /\ Held(p) \in [Admins -> Nat]
  BY DEF Shapes, Held, Dead, Gens

\* What the live pools of some plugins add to the closed ones.
LEMMA DeadCut ==
  ASSUME Shapes, NEW P \in SUBSET Plugins, closed' = closed \cup LivePools(P),
         NEW p \in Plugins
  PROVE  Dead(p)' = Dead(p) \cup {n \in {gen[p]} : p \in P /\ Live(p)}
<1>1. \A n \in Nat : <<p, n>> \in LivePools(P) <=> n = gen[p] /\ p \in P /\ Live(p)
  BY DEF LivePools, Pool
<1> QED
  BY <1>1, SpentTypes DEF Dead, Gens

\* Every step keeps the pools in order.
LEMMA PoolStep == Shapes /\ DoorInv /\ PoolInv /\ [LNext]_lifecycleVars => PoolInv'
<1> SUFFICES ASSUME Shapes, DoorInv, PoolInv, [LNext]_lifecycleVars PROVE PoolInv'
  OBVIOUS
<1>0. \A p \in Plugins : /\ gen[p] \in Nat /\ loads[p] \in Nat /\ Dead(p) \in SUBSET Nat
                         /\ Held(p) \in [Admins -> Nat]
                         /\ Live(p) <=> gen[p] > 0
                         /\ Spent(gen[p], loads[p], Dead(p), Held(p))
  BY SpentTypes DEF PoolInv
<1>a. ASSUME UNCHANGED <<inside, counted>>,
             \A p \in Plugins : /\ Live(p)' <=> gen'[p] > 0
                                /\ Spent(gen'[p], loads'[p], Dead(p)', Held(p)')
      PROVE  PoolInv'
  BY <1>a DEF PoolInv
<1>1. CASE UNCHANGED <<inside, counted, loads, closed, slot, gen, hold>>
  BY <1>1 DEF PoolInv, Live, Dead, Held
<1>2. ASSUME NEW a \in Admins,
             \/ \E p \in Plugins : BeginEnable(a, p) \/ BeginDisable(a, p) \/ BeginUninstall(a, p)
             \/ BeginReload(a) \/ (\E S \in Choices : Choose(a, S))
             \/ InitPlugin(a) \/ LoadFails(a) \/ BindEnabled(a) \/ FlagOn(a) \/ FlagOff(a)
             \/ FlagOffFails(a) \/ StopTimers(a) \/ UninstallFails(a) \/ MarkGone(a)
             \/ MarkGoneFails(a) \/ Forget(a) \/ Retire(a) \/ ClearSubscriptions(a) \/ Rebind(a)
      PROVE  PoolInv'
  <2>1. UNCHANGED <<inside, counted, loads, closed, slot, gen, hold>>
    BY <1>2 DEF BeginEnable, BeginDisable, BeginUninstall, BeginReload, Choose, InitPlugin,
                LoadFails, BindEnabled, FlagOn, FlagOff, FlagOffFails, StopTimers, UninstallFails,
                MarkGone, MarkGoneFails, Forget, Retire, ClearSubscriptions, Rebind,
                requestVars, poolVars, registry, loadVars
  <2> QED
    BY <1>1, <2>1
<1>3. ASSUME NEW a \in Admins, Install(a) PROVE PoolInv'
  <2>1. op[a] \in Plugins
    BY <1>3, ItsPlugin DEF Install
  <2>2. /\ UNCHANGED <<inside, counted, closed, hold>>
        /\ loads' = [loads EXCEPT ![op[a]] = loads[op[a]] + 1]
        /\ gen' = [gen EXCEPT ![op[a]] = loads[op[a]] + 1]
        /\ slot' = [slot EXCEPT ![op[a]] = "live"]
    BY <1>3 DEF Install, requestVars, poolVars, loadVars
  <2>3. ASSUME NEW q \in Plugins
        PROVE  (Live(q)' <=> gen'[q] > 0) /\ Spent(gen'[q], loads'[q], Dead(q)', Held(q)')
    <3>1. Dead(q)' = Dead(q) /\ Held(q)' = Held(q)
      BY <2>2 DEF Dead, Held
    <3>2. CASE q = op[a]
      <4>1. gen'[q] = loads[q] + 1 /\ loads'[q] = loads[q] + 1 /\ slot'[q] = "live"
        BY <2>2, <3>2 DEF Shapes
      <4>2. Spent(loads[q] + 1, loads[q] + 1, Dead(q), Held(q))
        BY <1>0, SpentMoves
      <4> QED
        BY <1>0, <3>1, <4>1, <4>2 DEF Live
    <3>3. CASE q # op[a]
      <4>1. gen'[q] = gen[q] /\ loads'[q] = loads[q] /\ slot'[q] = slot[q]
        BY <2>2, <3>3 DEF Shapes
      <4> QED
        BY <1>0, <3>1, <4>1 DEF Live
    <3> QED
      BY <3>2, <3>3
  <2> QED
    BY <1>a, <2>2, <2>3
<1>4. ASSUME NEW a \in Admins, RevertEnable(a) \/ Remove(a) PROVE PoolInv'
  <2>1. op[a] \in Plugins
    BY <1>4, ItsPlugin DEF RevertEnable, Remove
  <2>2. /\ UNCHANGED <<inside, counted, loads, hold>>
        /\ closed' = closed \cup LivePools({op[a]})
        /\ gen' = [gen EXCEPT ![op[a]] = 0]
        /\ \/ slot' = [slot EXCEPT ![op[a]] = IF Live(op[a]) THEN "known" ELSE slot[op[a]]]
           \/ slot' = [slot EXCEPT ![op[a]] = "absent"]
    BY <1>4 DEF RevertEnable, Remove, Stopped, CutOff, requestVars, loadVars
  <2>3. ASSUME NEW q \in Plugins
        PROVE  (Live(q)' <=> gen'[q] > 0) /\ Spent(gen'[q], loads'[q], Dead(q)', Held(q)')
    <3>1. /\ Held(q)' = Held(q) /\ loads'[q] = loads[q]
          /\ Dead(q)' = Dead(q) \cup {n \in {gen[q]} : q = op[a] /\ Live(q)}
      BY <2>1, <2>2, DeadCut DEF Held
    <3>2. CASE q = op[a] /\ Live(q)
      <4>1. gen'[q] = 0 /\ slot'[q] # "live" /\ Dead(q)' = Dead(q) \cup {gen[q]} /\ gen[q] > 0
        BY <1>0, <2>2, <3>1, <3>2 DEF Shapes
      <4>2. Spent(0, loads[q], Dead(q) \cup {gen[q]}, Held(q))
        BY <1>0, <1>4, <4>1, SpentMoves
      <4> QED
        BY <3>1, <4>1, <4>2 DEF Live
    <3>3. CASE q = op[a] /\ ~Live(q)
      <4>1. gen'[q] = 0 /\ slot'[q] # "live" /\ Dead(q)' = Dead(q) /\ gen[q] = 0
        BY <1>0, <2>2, <3>1, <3>3 DEF Shapes, Live
      <4> QED
        BY <1>0, <3>1, <4>1 DEF Live
    <3>4. CASE q # op[a]
      <4>1. gen'[q] = gen[q] /\ slot'[q] = slot[q] /\ Dead(q)' = Dead(q)
        BY <2>2, <3>1, <3>4 DEF Shapes
      <4> QED
        BY <1>0, <3>1, <4>1 DEF Live
    <3> QED
      BY <3>2, <3>3, <3>4
  <2> QED
    BY <1>a, <2>2, <2>3
<1>6. ASSUME NEW a \in Admins, StopRouting(a) PROVE PoolInv'
  <2>1. op[a] \in Plugins
    BY <1>6, ItsPlugin DEF StopRouting
  <2>2. /\ UNCHANGED <<inside, counted, closed, loads>>
        /\ hold' = [hold EXCEPT ![a][op[a]] = IF Live(op[a]) THEN gen[op[a]] ELSE 0]
        /\ gen' = [gen EXCEPT ![op[a]] = 0]
        /\ slot' = [slot EXCEPT ![op[a]] = IF Live(op[a]) THEN "known" ELSE slot[op[a]]]
    BY <1>6 DEF StopRouting, Stopped, requestVars, poolVars
  <2>3. ASSUME NEW q \in Plugins
        PROVE  (Live(q)' <=> gen'[q] > 0) /\ Spent(gen'[q], loads'[q], Dead(q)', Held(q)')
    <3>1. Dead(q)' = Dead(q) /\ loads'[q] = loads[q]
      BY <2>2 DEF Dead
    <3>2. CASE q = op[a]
      <4>1. gen'[q] = 0 /\ slot'[q] # "live"
        BY <2>2, <3>2 DEF Shapes, Live
      <4>2. Held(q)' = [Held(q) EXCEPT ![a] = gen[q]]
        <5>1. (IF Live(q) THEN gen[q] ELSE 0) = gen[q]
          BY <1>0
        <5>2. hold' = [hold EXCEPT ![a][q] = gen[q]]
          BY <2>2, <3>2, <5>1
        <5>3. hold \in [Admins -> [Plugins -> Nat]]
          BY DEF Shapes
        <5> QED
          BY <5>2, <5>3 DEF Held
      <4>3. Spent(0, loads[q], Dead(q), [Held(q) EXCEPT ![a] = gen[q]])
        BY <1>0, <1>6, SpentMoves
      <4> QED
        BY <3>1, <4>1, <4>2, <4>3 DEF Live
    <3>3. CASE q # op[a]
      <4>1. gen'[q] = gen[q] /\ slot'[q] = slot[q]
        BY <2>2, <3>3 DEF Shapes
      <4>2. Held(q)' = Held(q)
        BY <2>1, <2>2, <3>3 DEF Held, Shapes
      <4> QED
        BY <1>0, <3>1, <4>1, <4>2 DEF Live
    <3> QED
      BY <3>2, <3>3
  <2> QED
    BY <1>a, <2>2, <2>3
<1>7. ASSUME NEW a \in Admins, Drained(a) PROVE PoolInv'
  <2>1. op[a] \in Plugins
    BY <1>7, ItsPlugin DEF Drained
  <2>2. /\ UNCHANGED <<inside, counted, loads, slot, gen>>
        /\ hold' = [hold EXCEPT ![a] = NoGens]
        /\ closed' = closed \cup ({<<op[a], hold[a][op[a]]>>} \ {<<op[a], 0>>})
    BY <1>7 DEF Drained, CutOff, requestVars, registry
  <2>3. ASSUME NEW q \in Plugins
        PROVE  (Live(q)' <=> gen'[q] > 0) /\ Spent(gen'[q], loads'[q], Dead(q)', Held(q)')
    <3>1. gen'[q] = gen[q] /\ slot'[q] = slot[q] /\ loads'[q] = loads[q]
      BY <2>2
    <3>2. /\ Held(q)' = [Held(q) EXCEPT ![a] = 0] /\ Held(q)[a] = hold[a][q]
          /\ Held(q)' \in [Admins -> Nat] /\ \A b \in Admins : Held(q)'[b] \in {0, Held(q)[b]}
      BY <1>0, <2>2 DEF Held, Shapes, NoGens
    <3>3. CASE q = op[a] /\ hold[a][q] > 0
      <4>1. Dead(q)' = Dead(q) \cup {hold[a][q]}
        <5>1. closed' = closed \cup {<<q, hold[a][q]>>} /\ hold[a][q] \in Nat
          BY <1>0, <1>7, <2>2, <3>2, <3>3
        <5> QED
          BY <5>1 DEF Dead, Gens
      <4>2. Spent(gen[q], loads[q], Dead(q) \cup {Held(q)[a]}, [Held(q) EXCEPT ![a] = 0])
        BY <1>0, <1>7, <3>2, <3>3, SpentMoves
      <4> QED
        BY <1>0, <3>1, <3>2, <4>1, <4>2 DEF Live
    <3>4. CASE ~(q = op[a] /\ hold[a][q] > 0)
      <4>1. Dead(q)' = Dead(q)
        BY <1>0, <1>7, <2>2, <3>2, <3>4 DEF Dead, Gens
      <4>2. Spent(gen[q], loads[q], Dead(q), Held(q)')
        BY <1>0, <1>7, <3>2, SpentMoves
      <4> QED
        BY <1>0, <3>1, <4>1, <4>2 DEF Live
    <3> QED
      BY <3>3, <3>4
  <2> QED
    BY <1>a, <2>2, <2>3
<1>8. ASSUME NEW a \in Admins, LoadOne(a) PROVE PoolInv'
  <2> DEFINE p == Head(todo[a])
  <2>1. p \in Plugins
    <3>1. todo[a] \in Seq(Plugins) /\ todo[a] # <<>>
      BY <1>8 DEF LoadOne, Shapes
    <3> QED
      BY <3>1
  <2>2. UNCHANGED <<inside, counted, closed, slot, gen>>
    BY <1>8 DEF LoadOne, requestVars, poolVars, registry
  <2>3. CASE ~Loadable(p)
    <3>1. UNCHANGED <<inside, counted, loads, closed, slot, gen, hold>>
      BY <1>8, <2>2, <2>3 DEF LoadOne
    <3> QED
      BY <1>1, <3>1
  <2>4. CASE Loadable(p)
    <3>1. /\ loads' = [loads EXCEPT ![p] = loads[p] + 1]
          /\ hold' = [hold EXCEPT ![a][p] = loads[p] + 1]
      BY <1>8, <2>4 DEF LoadOne
    <3> HIDE DEF p
    <3>2. ASSUME NEW q \in Plugins
          PROVE  (Live(q)' <=> gen'[q] > 0) /\ Spent(gen'[q], loads'[q], Dead(q)', Held(q)')
      <4>1. gen'[q] = gen[q] /\ slot'[q] = slot[q] /\ Dead(q)' = Dead(q)
        BY <2>2 DEF Dead
      <4>2. CASE q = p
        <5>1. loads'[q] = loads[q] + 1 /\ Held(q)' = [Held(q) EXCEPT ![a] = loads[q] + 1]
          BY <1>0, <2>1, <3>1, <4>2 DEF Held, Shapes
        <5>2. Spent(gen[q], loads[q] + 1, Dead(q), [Held(q) EXCEPT ![a] = loads[q] + 1])
          BY <1>0, <1>8, SpentMoves
        <5> QED
          BY <1>0, <4>1, <5>1, <5>2 DEF Live
      <4>3. CASE q # p
        <5>1. loads'[q] = loads[q] /\ Held(q)' = Held(q)
          BY <2>1, <3>1, <4>3 DEF Held, Shapes
        <5> QED
          BY <1>0, <4>1, <5>1 DEF Live
      <4> QED
        BY <4>2, <4>3
    <3> QED
      BY <1>a, <2>2, <3>2
  <2> QED
    BY <2>3, <2>4
<1>9. ASSUME NEW a \in Admins, ReloadFails(a) PROVE PoolInv'
  <2>1. /\ UNCHANGED <<inside, counted, loads, closed, slot, gen>>
        /\ hold' = [hold EXCEPT ![a] = NoGens]
    BY <1>9 DEF ReloadFails, requestVars, poolVars, registry
  <2>2. ASSUME NEW q \in Plugins
        PROVE  (Live(q)' <=> gen'[q] > 0) /\ Spent(gen'[q], loads'[q], Dead(q)', Held(q)')
    <3>1. gen'[q] = gen[q] /\ slot'[q] = slot[q] /\ loads'[q] = loads[q] /\ Dead(q)' = Dead(q)
      BY <2>1 DEF Dead
    <3>2. Held(q)' \in [Admins -> Nat] /\ \A b \in Admins : Held(q)'[b] \in {0, Held(q)[b]}
      BY <1>0, <2>1 DEF Held, Shapes, NoGens
    <3>3. Spent(gen[q], loads[q], Dead(q), Held(q)')
      BY <1>0, <1>9, <3>2, SpentMoves
    <3> QED
      BY <1>0, <3>1, <3>3 DEF Live
  <2> QED
    BY <1>a, <2>1, <2>2
<1>10. ASSUME NEW a \in Admins, Swap(a) PROVE PoolInv'
  <2>1. /\ UNCHANGED <<inside, counted, loads>>
        /\ hold' = [hold EXCEPT ![a] = NoGens] /\ gen' = hold[a]
        /\ closed' = closed \cup LivePools(Plugins)
        /\ slot' = [p \in Plugins |-> IF hold[a][p] > 0 THEN "live"
                                      ELSE IF p \in known[a] THEN "known" ELSE "absent"]
    BY <1>10 DEF Swap, CutOff, requestVars
  <2>2. ASSUME NEW q \in Plugins
        PROVE  (Live(q)' <=> gen'[q] > 0) /\ Spent(gen'[q], loads'[q], Dead(q)', Held(q)')
    <3>1. /\ gen'[q] = Held(q)[a] /\ loads'[q] = loads[q] /\ (Live(q)' <=> gen'[q] > 0)
          /\ Held(q)' = [Held(q) EXCEPT ![a] = 0]
      BY <1>0, <2>1 DEF Held, Shapes, NoGens, Live
    <3>2. Dead(q)' = Dead(q) \cup ({gen[q]} \ {0})
      <4>1. Dead(q)' = Dead(q) \cup {n \in {gen[q]} : q \in Plugins /\ Live(q)}
        BY <2>1, DeadCut
      <4> QED
        BY <1>0, <4>1
    <3>3. Spent(Held(q)[a], loads[q], Dead(q) \cup ({gen[q]} \ {0}), [Held(q) EXCEPT ![a] = 0])
      BY <1>0, <1>10, SpentMoves
    <3> QED
      BY <3>1, <3>2, <3>3
  <2> QED
    BY <1>a, <2>1, <2>2
<1>11. ASSUME NEW c \in Clients, Leave(c) \/ \E p \in Plugins : Enter(c, p) PROVE PoolInv'
  <2>1. UNCHANGED <<loads, closed, slot, gen, hold>>
    BY <1>11 DEF Leave, Enter, poolVars, registry, loadVars
  <2>2. /\ DOMAIN inside = Clients /\ DOMAIN counted = Clients
        /\ \A d \in Clients : inside[d] # Nobody => counted[d]
    BY DEF PoolInv, Shapes
  <2>3. /\ inside'[c] # Nobody => counted'[c]
        /\ \A d \in Clients \ {c} : inside'[d] = inside[d] /\ counted'[d] = counted[d]
    BY <1>11, <2>2 DEF Leave, Enter
  <2>4. \A d \in Clients : inside'[d] # Nobody => counted'[d]
    BY <2>2, <2>3
  <2> QED
    BY <2>1, <2>4 DEF PoolInv, Live, Dead, Held
<1>12. ASSUME NEW p \in Plugins, Reinstall(p) PROVE PoolInv'
  BY <1>1, <1>12 DEF Reinstall, requestVars, poolVars, registry, loadVars
<1>13. CASE Restart
  <2>1. /\ \A p \in Plugins : /\ slot'[p] = "live" <=> flag[p] /\ ~gone[p]
                              /\ gen'[p] = IF flag[p] /\ ~gone[p] THEN 1 ELSE 0
        /\ loads' = gen' /\ closed' = {}
        /\ \A c \in Clients : inside'[c] = Nobody
        /\ \A a \in Admins, p \in Plugins : hold'[a][p] = 0
    BY <1>13, BootShape DEF Restart, NoGens
  <2> QED
    BY <2>1 DEF PoolInv, Live, Spent, Dead, Held
<1>14. CASE UNCHANGED lifecycleVars
  BY <1>1, <1>14 DEF lifecycleVars, requestVars, poolVars, registry, loadVars
<1> QED
  BY <1>2, <1>3, <1>4, <1>6, <1>7, <1>8, <1>9, <1>10, <1>11, <1>12, <1>13, <1>14 DEF LNext

\* A pool that a handler closes once it is drained has nobody inside.
LEMMA DrainStep ==
  Shapes /\ DoorInv /\ PoolInv /\ DrainedPoolsAreUnused /\ [LNext]_lifecycleVars
    => DrainedPoolsAreUnused'
<1> SUFFICES ASSUME Shapes, DoorInv, PoolInv, DrainedPoolsAreUnused, [LNext]_lifecycleVars
             PROVE  DrainedPoolsAreUnused'
  OBVIOUS
<1>1. CASE /\ inside' = inside
           /\ \/ closed' = closed /\ cut' = cut
              \/ \E pools : closed' = closed \cup pools /\ cut' = cut \cup pools
  BY <1>1 DEF DrainedPoolsAreUnused
<1>2. ASSUME NEW a \in Admins,
             \/ \E p \in Plugins : BeginEnable(a, p) \/ BeginDisable(a, p) \/ BeginUninstall(a, p)
             \/ BeginReload(a) \/ (\E S \in Choices : Choose(a, S))
             \/ InitPlugin(a) \/ LoadFails(a) \/ Install(a) \/ BindEnabled(a) \/ FlagOn(a)
             \/ FlagOff(a) \/ FlagOffFails(a) \/ StopRouting(a) \/ StopTimers(a)
             \/ UninstallFails(a) \/ MarkGone(a) \/ MarkGoneFails(a) \/ Forget(a) \/ LoadOne(a)
             \/ ReloadFails(a) \/ Retire(a) \/ ClearSubscriptions(a) \/ Rebind(a)
      PROVE  DrainedPoolsAreUnused'
  <2>1. UNCHANGED <<inside, closed, cut>>
    BY <1>2 DEF BeginEnable, BeginDisable, BeginUninstall, BeginReload, Choose, InitPlugin,
                LoadFails, Install, BindEnabled, FlagOn, FlagOff, FlagOffFails, StopRouting,
                StopTimers, UninstallFails, MarkGone, MarkGoneFails, Forget, LoadOne, ReloadFails,
                Retire, ClearSubscriptions, Rebind, requestVars, poolVars
  <2> QED
    BY <1>1, <2>1
<1>3. ASSUME NEW a \in Admins, RevertEnable(a) \/ Remove(a) \/ Swap(a)
      PROVE  DrainedPoolsAreUnused'
  <2>1. inside' = inside /\ \E pools : CutOff(pools)
    BY <1>3 DEF RevertEnable, Remove, Swap, requestVars
  <2> QED
    BY <1>1, <2>1 DEF CutOff
<1>4. ASSUME NEW a \in Admins, Drained(a) PROVE DrainedPoolsAreUnused'
  <2> DEFINE p == op[a]
             parts == {<<p, hold[a][p]>>} \ {<<p, 0>>}
  <2>1. inside' = inside
    BY <1>4 DEF Drained, requestVars
  <2>2. CASE Busy(p)
    <3>1. CutOff(parts)
      BY <1>4, <2>2 DEF Drained
    <3> QED
      BY <1>1, <2>1, <3>1 DEF CutOff
  <2>3. CASE ~Busy(p)
    <3>1. closed' = closed \cup parts /\ cut' = cut
      BY <1>4, <2>3 DEF Drained
    <3>2. ASSUME NEW c \in Clients, inside[c] \in parts PROVE FALSE
      <4>1. p \in Plugins /\ hold[a][p] \in Nat
        BY <1>4, ItsPlugin DEF Drained, Shapes
      <4>2. inside[c] \in Pools
        BY <3>2, <4>1, Actors
      <4>3. counted[c] /\ inside[c][1] = p
        BY <3>2, <4>2, Actors DEF PoolInv
      <4> QED
        BY <2>3, <4>3 DEF Busy
    <3> QED
      BY <2>1, <3>1, <3>2 DEF DrainedPoolsAreUnused
  <2> QED
    BY <2>2, <2>3
<1>5. ASSUME NEW c \in Clients, Leave(c) PROVE DrainedPoolsAreUnused'
  <2>1. UNCHANGED <<closed, cut>> /\ \A d \in Clients : inside'[d] \in {inside[d], Nobody}
    BY <1>5 DEF Leave, poolVars, Shapes
  <2>2. Nobody \notin closed
    BY Actors DEF Shapes
  <2> QED
    BY <2>1, <2>2 DEF DrainedPoolsAreUnused
<1>6. ASSUME NEW c \in Clients, NEW p \in Plugins, Enter(c, p) PROVE DrainedPoolsAreUnused'
  <2>1. /\ UNCHANGED <<closed, cut>> /\ Live(p)
        /\ \A d \in Clients : inside'[d] = IF d = c THEN <<p, gen[p]>> ELSE inside[d]
    BY <1>6 DEF Enter, poolVars, Shapes, Pool
  <2>2. <<p, gen[p]>> \notin closed
    BY SpentTypes DEF PoolInv, Spent, Dead, Gens
  <2> QED
    BY <2>1, <2>2 DEF DrainedPoolsAreUnused
<1>7. ASSUME NEW p \in Plugins, Reinstall(p) PROVE DrainedPoolsAreUnused'
  BY <1>1, <1>7 DEF Reinstall, requestVars, poolVars
<1>8. CASE Restart
  BY <1>8 DEF Restart, DrainedPoolsAreUnused
<1>9. CASE UNCHANGED lifecycleVars
  BY <1>1, <1>9 DEF lifecycleVars, requestVars, poolVars
<1> QED
  BY <1>2, <1>3, <1>4, <1>5, <1>6, <1>7, <1>8, <1>9 DEF LNext

-----------------------------------------------------------------------------
(* Phases *)

\* A handler past the lock of p, or about to take it, works on p alone.
LEMMA PhaseLocked ==
  ASSUME Shapes, DoorInv, PhaseInv, Shapes', NEW a \in Admins, NEW p \in Plugins,
         \A b \in Admins : at[b] \notin Unlocked, at'[a] \notin Unlocked,
         \A b \in Admins \ {a} : at'[b] = at[b],
         \A q \in Plugins \ {p} :
           /\ lock'[q] = lock[q] /\ lock[q] # a
           /\ flag'[q] = flag[q] /\ gone'[q] = gone[q] /\ slot'[q] = slot[q]
           /\ gen'[q] = gen[q] /\ subs'[q] = subs[q] /\ timers'[q] = timers[q]
           /\ q \in hub => q \in hub',
         \/ lock'[p] = a /\ \E next \in Locked : at'[a] = next /\ Midway(next, p)'
         \/ lock'[p] = Nobody /\ Settled(p)'
  PROVE  PhaseInv'
<1>1. \A b \in Admins : at'[b] \notin Unlocked
  OBVIOUS
<1>2. ASSUME NEW q \in Plugins \ {p} PROVE Settled(q) => Settled(q)'
  BY DEF Settled, Live, Loadable
<1>3. ASSUME NEW q \in Plugins \ {p}, lock'[q] # Nobody PROVE Midway(at[lock[q]], q)'
  <2>1. lock[q] \in Admins \ {a} /\ lock'[q] = lock[q]
    BY <1>3 DEF Shapes
  <2>2. at'[lock'[q]] = at[lock[q]] /\ Midway(at[lock[q]], q)
    BY <1>3, <2>1 DEF PhaseInv
  <2> QED
    BY <1>2, <2>2 DEF Midway, Live
<1>4. ASSUME NEW q \in Plugins \ {p}, Quiet(q)' PROVE Settled(q)'
  <2>1. Quiet(q)
    BY <1>4 DEF Quiet
  <2> QED
    BY <1>2, <2>1 DEF PhaseInv
<1>5. lock'[p] # Nobody => Midway(at[lock[p]], p)'
  <2>1. ASSUME NEW next \in Locked, lock'[p] = a, at'[a] = next, Midway(next, p)'
        PROVE  Midway(at[lock[p]], p)'
    BY <2>1 DEF Midway
  <2> QED
    BY <2>1
<1>6. Quiet(p)' => Settled(p)'
  BY Actors DEF Quiet
<1> QED
  BY <1>1, <1>3, <1>4, <1>5, <1>6 DEF PhaseInv

\* A handler without a lock works while no other door is open.
LEMMA PhaseAlone ==
  ASSUME Shapes, NEW a \in Admins, lock' = lock,
         \A b \in Admins \ {a} : at'[b] = "idle",
         \A p \in Plugins : lock[p] = Nobody,
         \/ at'[a] \in Unlocked /\ Alone(a)'
         \/ at'[a] = "idle" /\ \A p \in Plugins : Settled(p)'
  PROVE  PhaseInv'
<1>1. "idle" \notin Unlocked
  BY Places
<1>2. ASSUME NEW b \in Admins, at'[b] \in Unlocked PROVE Alone(b)'
  <2>1. b = a
    BY <1>1, <1>2
  <2>2. at'[a] # "idle"
    BY <1>1, <1>2, <2>1
  <2>3. Alone(a)'
    BY <2>2
  <2> QED
    BY <2>1, <2>3
<1>3. \A p \in Plugins : Quiet(p)' => Settled(p)'
  BY DEF Quiet
<1> QED
  BY <1>2, <1>3 DEF PhaseInv

\* While a door without a lock is open, every other one is closed.
LEMMA NoneElse ==
  ASSUME Shapes, DoorInv, NEW a \in Admins, at[a] \notin Locked,
         \A b \in Admins \ {a} : at[b] = "idle"
  PROVE  \A p \in Plugins : lock[p] = Nobody
<1>1. "idle" \notin Locked
  BY Places
<1>2. ASSUME NEW p \in Plugins, lock[p] # Nobody PROVE FALSE
  <2>1. lock[p] \in Admins /\ at[lock[p]] \in Locked
    BY <1>2 DEF DoorInv, Shapes
  <2> QED
    BY <1>1, <2>1
<1> QED
  BY <1>2

\* While a handler is past a lock, none is in a door without one.
LEMMA NoneUnlocked ==
  ASSUME PhaseInv, NEW a \in Admins, at[a] \in Locked
  PROVE  \A b \in Admins : at[b] \notin Unlocked
<1>1. at[a] # "idle" /\ at[a] \notin Unlocked
  BY Places
<1> QED
  BY <1>1 DEF PhaseInv, Alone

\* A step that touches no door and nothing a door is about.
LEMMA PhaseKept ==
  ASSUME PhaseInv, UNCHANGED <<flag, gone, slot, gen, hub, subs, timers, lock, op, at, hold, known>>
  PROVE  PhaseInv'
  BY DEF PhaseInv, Alone, Midway, Settled, Agreed, Quiet, Live, Loadable

\* Enable and disable, step by step, past the lock of their plugin.
LEMMA PhaseLockedStep ==
  ASSUME Shapes, DoorInv, PhaseInv, Shapes', NEW a \in Admins,
         \/ InitPlugin(a) \/ LoadFails(a) \/ Install(a) \/ BindEnabled(a) \/ FlagOn(a)
         \/ RevertEnable(a) \/ FlagOff(a) \/ FlagOffFails(a) \/ StopRouting(a) \/ StopTimers(a)
         \/ Drained(a)
  PROVE  PhaseInv'
<1>1. at[a] \in Locked
  BY Places DEF InitPlugin, LoadFails, Install, BindEnabled, FlagOn, RevertEnable, FlagOff,
                FlagOffFails, StopRouting, StopTimers, Drained
<1>2. PICK p \in Plugins : p = op[a] /\ lock[p] = a /\ Midway(at[a], p)
  <2>1. op[a] \in Plugins /\ lock[op[a]] = a /\ a # Nobody
    BY <1>1, Actors DEF DoorInv
  <2> QED
    BY <2>1 DEF PhaseInv
<1>3. \A b \in Admins : at[b] \notin Unlocked
  BY <1>1, NoneUnlocked
<1>4. \A q \in Plugins \ {p} : lock[q] # a
  BY <1>2, Actors DEF DoorInv
<1>5. /\ at'[a] \notin Unlocked /\ \A b \in Admins \ {a} : at'[b] = at[b]
      /\ \/ lock' = lock
         \/ lock' = [lock EXCEPT ![p] = Nobody]
  <2>1. \/ Unlock(a)
        \/ lock' = lock /\ \E next \in Locked : Goto(a, next)
    BY Places DEF InitPlugin, LoadFails, Install, BindEnabled, FlagOn, RevertEnable, FlagOff,
                  FlagOffFails, StopRouting, StopTimers, Drained
  <2>2. CASE Unlock(a)
    <3>1. at' = [at EXCEPT ![a] = "idle"] /\ lock' = [lock EXCEPT ![p] = Nobody]
      BY <1>2, <2>2 DEF Return, Unlock
    <3> QED
      BY <3>1, Places DEF Shapes
  <2>3. ASSUME NEW next \in Locked, Goto(a, next), lock' = lock
        PROVE  at'[a] \notin Unlocked /\ \A b \in Admins \ {a} : at'[b] = at[b]
    <3>1. at' = [at EXCEPT ![a] = next] /\ next \notin Unlocked
      BY <2>3, Places DEF Goto
    <3> QED
      BY <3>1 DEF Shapes
  <2> QED
    BY <2>1, <2>2, <2>3 DEF Unlock
<1>6. ASSUME NEW q \in Plugins \ {p}
      PROVE  /\ lock'[q] = lock[q]
             /\ flag'[q] = flag[q] /\ gone'[q] = gone[q] /\ slot'[q] = slot[q]
             /\ gen'[q] = gen[q] /\ subs'[q] = subs[q] /\ timers'[q] = timers[q]
             /\ q \in hub => q \in hub'
  <2>1. lock'[q] = lock[q]
    BY <1>5 DEF Shapes
  <2> USE <1>2 DEF Shapes, flagVars, registry, hubVars, boundVars
  <2>2. CASE InitPlugin(a)
    BY <2>1, <2>2 DEF InitPlugin
  <2>3. CASE LoadFails(a)
    BY <2>1, <2>3 DEF LoadFails, Stopped
  <2>4. CASE Install(a)
    BY <2>1, <2>4 DEF Install
  <2>5. CASE BindEnabled(a)
    BY <2>1, <2>5 DEF BindEnabled
  <2>6. CASE FlagOn(a)
    BY <2>1, <2>6 DEF FlagOn
  <2>7. CASE RevertEnable(a)
    BY <2>1, <2>7 DEF RevertEnable, Stopped
  <2>8. CASE FlagOff(a)
    BY <2>1, <2>8 DEF FlagOff
  <2>9. CASE FlagOffFails(a)
    BY <2>1, <2>9 DEF FlagOffFails
  <2>10. CASE StopRouting(a)
    BY <2>1, <2>10 DEF StopRouting, Stopped
  <2>11. CASE StopTimers(a)
    BY <2>1, <2>11 DEF StopTimers, Stopped
  <2>12. CASE Drained(a)
    BY <2>1, <2>12 DEF Drained, Stopped
  <2> QED
    BY <2>2, <2>3, <2>4, <2>5, <2>6, <2>7, <2>8, <2>9, <2>10, <2>11, <2>12
<1>7. \/ lock'[p] = a /\ \E next \in Locked : at'[a] = next /\ Midway(next, p)'
      \/ lock'[p] = Nobody /\ Settled(p)'
  <2>1. CASE InitPlugin(a)
    <3>1. lock'[p] = a /\ at'[a] = "initialised" /\ at[a] = "loading"
      BY <1>2, <2>1 DEF InitPlugin, Goto, Shapes
    <3>2. Midway("initialised", p)'
      BY <1>2, <2>1, <3>1 DEF InitPlugin, Stopped, Midway, Settled, Live, Loadable, Shapes,
         flagVars, registry, hubVars, boundVars
    <3> QED
      BY <3>1, <3>2, Places
  <2>2. CASE LoadFails(a)
    <3>1. lock'[p] = Nobody
      BY <1>2, <2>2 DEF LoadFails, Unlock, Shapes
    <3>2. Settled(p)'
      BY <1>2, <2>2 DEF LoadFails, Stopped, Midway, Settled, Live, Loadable, Shapes,
         flagVars, registry, hubVars, boundVars
    <3> QED
      BY <3>1, <3>2
  <2>3. CASE Install(a)
    <3>1. lock'[p] = a /\ at'[a] = "installed" /\ at[a] = "initialised"
      BY <1>2, <2>3 DEF Install, Goto, Shapes
    <3>2. Midway("installed", p)'
      BY <1>2, <2>3, <3>1 DEF Install, Stopped, Midway, Settled, Live, Loadable, Shapes,
         flagVars, registry, hubVars, boundVars
    <3> QED
      BY <3>1, <3>2, Places
  <2>4. CASE BindEnabled(a)
    <3>1. lock'[p] = a /\ at'[a] = "bound" /\ at[a] = "installed"
      BY <1>2, <2>4 DEF BindEnabled, Goto, Shapes
    <3>2. Midway("bound", p)'
      BY <1>2, <2>4, <3>1 DEF BindEnabled, Stopped, Midway, Settled, Live, Loadable, Shapes,
         flagVars, registry, hubVars, boundVars
    <3> QED
      BY <3>1, <3>2, Places
  <2>5. CASE FlagOn(a)
    <3>1. lock'[p] = Nobody
      BY <1>2, <2>5 DEF FlagOn, Unlock, Shapes
    <3>2. Settled(p)'
      BY <1>2, <2>5 DEF FlagOn, Stopped, Midway, Settled, Live, Loadable, Shapes,
         flagVars, registry, hubVars, boundVars
    <3> QED
      BY <3>1, <3>2
  <2>6. CASE RevertEnable(a)
    <3>1. lock'[p] = Nobody
      BY <1>2, <2>6 DEF RevertEnable, Unlock, Shapes
    <3>2. Settled(p)'
      BY <1>2, <2>6 DEF RevertEnable, Stopped, Midway, Settled, Live, Loadable, Shapes,
         flagVars, registry, hubVars, boundVars
    <3> QED
      BY <3>1, <3>2
  <2>7. CASE FlagOff(a)
    <3>1. lock'[p] = a /\ at'[a] = "stopping" /\ at[a] = "flagging"
      BY <1>2, <2>7 DEF FlagOff, Goto, Shapes
    <3>2. Midway("stopping", p)'
      BY <1>2, <2>7, <3>1 DEF FlagOff, Stopped, Midway, Settled, Live, Loadable, Shapes,
         flagVars, registry, hubVars, boundVars
    <3> QED
      BY <3>1, <3>2, Places
  <2>8. CASE FlagOffFails(a)
    <3>1. lock'[p] = Nobody
      BY <1>2, <2>8 DEF FlagOffFails, Unlock, Shapes
    <3>2. Settled(p)'
      BY <1>2, <2>8 DEF FlagOffFails, Stopped, Midway, Settled, Live, Loadable, Shapes,
         flagVars, registry, hubVars, boundVars
    <3> QED
      BY <3>1, <3>2
  <2>9. CASE StopRouting(a)
    <3>1. lock'[p] = a /\ at'[a] = "unbinding" /\ at[a] = "stopping"
      BY <1>2, <2>9 DEF StopRouting, Goto, Shapes
    <3>2. Midway("unbinding", p)'
      BY <1>2, <2>9, <3>1 DEF StopRouting, Stopped, Midway, Settled, Live, Loadable, Shapes,
         flagVars, registry, hubVars, boundVars
    <3> QED
      BY <3>1, <3>2, Places
  <2>10. CASE StopTimers(a)
    <3>1. lock'[p] = a /\ at'[a] = "draining" /\ at[a] = "unbinding"
      BY <1>2, <2>10 DEF StopTimers, Goto, Shapes
    <3>2. Midway("draining", p)'
      BY <1>2, <2>10, <3>1 DEF StopTimers, Stopped, Midway, Settled, Live, Loadable, Shapes,
         flagVars, registry, hubVars, boundVars
    <3> QED
      BY <3>1, <3>2, Places
  <2>11. CASE Drained(a)
    <3>1. lock'[p] = Nobody
      BY <1>2, <2>11 DEF Drained, Unlock, Shapes
    <3>2. Settled(p)'
      BY <1>2, <2>11 DEF Drained, Stopped, Midway, Settled, Live, Loadable, Shapes,
         flagVars, registry, hubVars, boundVars
    <3> QED
      BY <3>1, <3>2
  <2> QED
    BY <2>1, <2>2, <2>3, <2>4, <2>5, <2>6, <2>7, <2>8, <2>9, <2>10, <2>11
<1> QED
  BY <1>2, <1>3, <1>4, <1>5, <1>6, <1>7, PhaseLocked

\* Enable and disable take the lock of a plugin on which no door is open.
LEMMA PhaseLockedBegin ==
  ASSUME Shapes, DoorInv, PhaseInv, Shapes', ~adrift', NEW a \in Admins, NEW p \in Plugins,
         BeginEnable(a, p) \/ BeginDisable(a, p)
  PROVE  PhaseInv'
<1>1. /\ at[a] = "idle" /\ lock[p] = Nobody
      /\ UNCHANGED <<flag, gone, slot, gen, hub, subs, timers>>
      /\ lock' = [lock EXCEPT ![p] = a]
      /\ \A b \in Admins \ {a} : at'[b] = at[b] /\ at[b] \notin Unlocked
      /\ slot[p] # "absent"
      /\ \/ at'[a] = "loading" /\ slot[p] = "known"
         \/ at'[a] = "flagging"
  BY SMTT(60) DEF BeginEnable, BeginDisable, Begin, Overlaps, Shapes, flagVars, registry, hubVars, boundVars
<1>2. \A b \in Admins : at[b] \notin Unlocked
  BY <1>1, Places
<1>3. Settled(p)
  BY <1>1, <1>2 DEF PhaseInv, Quiet
<1>4. lock'[p] = a /\ \E next \in Locked : at'[a] = next /\ Midway(next, p)'
  <2>1. lock'[p] = a
    BY <1>1 DEF Shapes
  <2>2. CASE at'[a] = "loading" /\ slot[p] = "known"
    <3>1. Midway("loading", p)'
      BY <1>1, <1>3, <2>2 DEF Midway, Settled, Live
    <3> QED
      BY <2>1, <2>2, <3>1, Places
  <2>3. CASE at'[a] = "flagging"
    <3>1. Midway("flagging", p)'
      BY <1>1, <1>3 DEF Midway, Settled, Live, Loadable
    <3> QED
      BY <2>1, <2>3, <3>1, Places
  <2> QED
    BY <1>1, <2>2, <2>3
<1>5. at'[a] \notin Unlocked
  BY <1>1, Places
<1>6. \A q \in Plugins \ {p} : lock'[q] = lock[q] /\ lock[q] # a
  <2>1. a # Nobody /\ at[a] \notin Locked
    BY <1>1, Actors, Places
  <2> QED
    BY <1>1, <2>1 DEF DoorInv, Shapes
<1> QED
  BY <1>1, <1>2, <1>4, <1>5, <1>6, PhaseLocked

\* The doors that take no lock open when every other door is closed, or the
\* step sets adrift.
LEMMA PhaseAloneBegin ==
  ASSUME Shapes, DoorInv, PhaseInv, ~adrift', NEW a \in Admins,
         \/ \E p \in Plugins : BeginUninstall(a, p)
         \/ BeginReload(a)
         \/ \E S \in Choices : Choose(a, S)
  PROVE  PhaseInv'
<1>1. PICK first \in {"removing", "reloading", "choosing"}, p \in Plugins \cup {Nobody} :
        /\ Begin(a, p, first, Locked \cup Unlocked)
        /\ first = "removing" => p \in Plugins
  BY DEF BeginUninstall, BeginReload, Choose
<1>2. /\ at[a] = "idle" /\ at'[a] = first
      /\ \A b \in Admins \ {a} : at[b] = "idle" /\ at'[b] = "idle"
  BY <1>1 DEF Begin, Overlaps, Shapes
<1>3. /\ UNCHANGED <<gone, slot, gen, hub, subs, timers, lock, hold, known>>
      /\ first # "choosing" => flag' = flag
  BY <1>1, <1>2 DEF BeginUninstall, BeginReload, Choose, Begin, flagVars, registry, hubVars,
                    boundVars, loadVars, Shapes
<1>4. \A q \in Plugins : lock[q] = Nobody
  BY <1>2, NoneElse, Places
<1>5. \A q \in Plugins : Settled(q)
  BY <1>2, <1>4, Places DEF PhaseInv, Quiet
<1>6. hold[a] = NoGens /\ known[a] = {}
  BY <1>2, Places DEF DoorInv
<1>7. first # "choosing" => \A q \in Plugins : Settled(q)'
  BY <1>3, <1>5 DEF Settled, Live, Loadable
<1>8. \A q \in Plugins : hold'[a][q] = 0 /\ q \notin known'[a]
  BY <1>3, <1>6 DEF NoGens
<1>9. Alone(a)'
  BY <1>2, <1>7, <1>8 DEF Alone, Loading
<1>10. at'[a] \in Unlocked
  BY <1>2, Places
<1> QED
  BY <1>2, <1>3, <1>4, <1>9, <1>10, PhaseAlone

\* Uninstall, reload and choice, step by step, while no other door is open.
LEMMA PhaseAloneStep ==
  ASSUME Shapes, DoorInv, PhaseInv, ~adrift', NEW a \in Admins,
         \/ UninstallFails(a) \/ Remove(a) \/ MarkGone(a) \/ MarkGoneFails(a) \/ Forget(a)
         \/ LoadOne(a) \/ ReloadFails(a) \/ Swap(a) \/ Retire(a) \/ ClearSubscriptions(a)
         \/ Rebind(a)
  PROVE  PhaseInv'
<1>1. at[a] \in Unlocked
  BY Places DEF UninstallFails, Remove, MarkGone, MarkGoneFails, Forget, LoadOne, ReloadFails,
                Swap, Retire, ClearSubscriptions, Rebind
<1>2. Alone(a) /\ at[a] \notin Locked
  BY <1>1, Places DEF PhaseInv
<1>3. \A b \in Admins \ {a} : at[b] = "idle"
  BY <1>2 DEF Alone
<1>4. \A p \in Plugins : lock[p] = Nobody
  BY <1>2, <1>3, NoneElse
<1>5. lock' = lock /\ \A b \in Admins \ {a} : at'[b] = "idle"
  BY <1>3 DEF UninstallFails, Remove, MarkGone, MarkGoneFails, Forget, LoadOne, ReloadFails, Swap,
              Retire, ClearSubscriptions, Rebind, Goto, Return, Shapes
<1>6. \/ at'[a] \in Unlocked /\ Alone(a)'
      \/ at'[a] = "idle" /\ \A p \in Plugins : Settled(p)'
  <2>1. CASE UninstallFails(a) \/ MarkGoneFails(a)
    <3>1. at'[a] = "idle" /\ \A p \in Plugins : Settled(p)
      BY <1>2, <2>1 DEF UninstallFails, MarkGoneFails, Return, Alone, Shapes
    <3>2. \A p \in Plugins : Settled(p)'
      BY <2>1, <3>1 DEF UninstallFails, MarkGoneFails, Settled, Live, Loadable, flagVars, registry,
                        hubVars, boundVars
    <3> QED
      BY <3>1, <3>2
  <2>2. CASE Remove(a)
    <3>1. /\ at'[a] = "removed" /\ op' = op /\ op[a] \in Plugins
          /\ \A p \in Plugins : Settled(p)
      BY <1>2, <2>2, ItsPlugin DEF Remove, Goto, Alone, Shapes
    <3>2. slot'[op[a]] = "absent"
      BY <2>2, <3>1 DEF Remove, Shapes
    <3>3. \A p \in Plugins : Settled(p)'
      BY <2>2, <3>1, <3>2 DEF Remove, Settled, Live, Loadable, flagVars, hubVars, boundVars, Shapes
    <3>4. Alone(a)'
      BY <1>5, <3>1, <3>2, <3>3 DEF Alone, Loading
    <3> QED
      BY <3>1, <3>4, Places
  <2>3. CASE MarkGone(a)
    <3>1. /\ at'[a] = "forgetting" /\ op' = op /\ op[a] \in Plugins
          /\ slot' = slot /\ slot[op[a]] = "absent"
          /\ \A p \in Plugins : Settled(p)
      BY <1>2, <2>3, ItsPlugin DEF MarkGone, Goto, Alone, Shapes, registry
    <3>2. \A p \in Plugins : Settled(p)'
      BY <2>3, <3>1 DEF MarkGone, Settled, Live, Loadable, registry, hubVars, boundVars, Shapes
    <3>3. Alone(a)'
      BY <1>5, <3>1, <3>2 DEF Alone, Loading
    <3> QED
      BY <3>1, <3>3, Places
  <2>4. CASE Forget(a)
    <3>1. /\ at'[a] = "idle" /\ op[a] \in Plugins /\ slot[op[a]] = "absent"
          /\ \A p \in Plugins : Settled(p)
      BY <1>2, <2>4, ItsPlugin DEF Forget, Return, Alone, Shapes
    <3>2. \A p \in Plugins : Settled(p)'
      BY <2>4, <3>1 DEF Forget, Settled, Live, Loadable, flagVars, registry, Shapes
    <3> QED
      BY <3>1, <3>2
  <2>5. CASE LoadOne(a)
    <3>1. /\ at'[a] \in Loading /\ at'[a] = at[a]
          /\ UNCHANGED <<flag, gone, slot, gen, subs, timers>> /\ hub \subseteq hub'
      BY <2>5 DEF LoadOne, Goto, flagVars, registry, boundVars
    <3>2. ASSUME NEW p \in Plugins
          PROVE  /\ hold'[a][p] > 0 => Loadable(p) /\ (p \in Providers => p \in hub')
                 /\ p \in known'[a] => ~flag[p] /\ ~gone[p]
      <4>1. /\ hold[a][p] > 0 => Loadable(p) /\ (p \in Providers => p \in hub)
            /\ p \in known[a] => ~flag[p] /\ ~gone[p]
        BY <1>2, <3>1 DEF Alone
      <4>2. known'[a] = known[a] \cup {q \in {Head(todo[a])} : ~flag[q] /\ ~gone[q]}
        BY <2>5 DEF LoadOne, Shapes
      <4>3. CASE Loadable(Head(todo[a]))
        <5>1. /\ hold' = [hold EXCEPT ![a][Head(todo[a])] = loads[Head(todo[a])] + 1]
              /\ hub' = hub \cup ({Head(todo[a])} \cap Providers)
          BY <2>5, <4>3 DEF LoadOne
        <5>2. p # Head(todo[a]) => hold'[a][p] = hold[a][p]
          BY <5>1 DEF Shapes
        <5> QED
          BY <4>1, <4>2, <4>3, <5>1, <5>2
      <4>4. CASE ~Loadable(Head(todo[a]))
        <5>1. hold' = hold /\ hub' = hub
          BY <2>5, <4>4 DEF LoadOne
        <5> QED
          BY <4>1, <4>2, <5>1
      <4> QED
        BY <4>3, <4>4
    <3>3. \A p \in Plugins : Settled(p) => Settled(p)'
      BY <3>1 DEF Settled, Live, Loadable
    <3>4. Alone(a)'
      <4>1. at[a] = "reloading" => \A p \in Plugins : Settled(p)
        BY <1>2 DEF Alone
      <4>2. \A p \in Plugins : Loadable(p)' <=> Loadable(p)
        BY <3>1 DEF Loadable
      <4> QED
        BY <1>5, <3>1, <3>2, <3>3, <4>1, <4>2, Places DEF Alone
    <3> QED
      BY <3>1, <3>4, Places
  <2>6. CASE ReloadFails(a)
    <3>1. /\ at'[a] = "idle" /\ at[a] = "reloading"
          /\ UNCHANGED <<flag, gone, slot, gen, subs, timers>> /\ hub \subseteq hub'
      BY <2>6 DEF ReloadFails, Return, flagVars, registry, boundVars, Loading, Shapes
    <3>2. \A p \in Plugins : Settled(p)
      BY <1>2, <3>1 DEF Alone
    <3>3. \A p \in Plugins : Settled(p)'
      BY <3>1, <3>2 DEF Settled, Live, Loadable
    <3> QED
      BY <3>1, <3>3
  <2>7. CASE Swap(a)
    <3>1. /\ at'[a] = "retiring" /\ UNCHANGED <<flag, gone, hub>>
          /\ slot' = [p \in Plugins |-> IF hold[a][p] > 0 THEN "live"
                                        ELSE IF p \in known[a] THEN "known" ELSE "absent"]
      BY <2>7 DEF Swap, Goto, Shapes, flagVars, hubVars
    <3>2. \A p \in Plugins : /\ hold[a][p] > 0 => Loadable(p) /\ (p \in Providers => p \in hub)
                             /\ p \in known[a] => ~flag[p] /\ ~gone[p]
      BY <1>2, <2>7 DEF Swap, Alone
    <3>3. \A p \in Plugins : Agreed(p)'
      BY <3>1, <3>2 DEF Agreed, Live, Loadable
    <3>4. Alone(a)'
      BY <1>5, <3>1, <3>3 DEF Alone, Loading
    <3> QED
      BY <3>1, <3>4, Places
  <2>8. CASE Retire(a)
    <3>1. /\ at'[a] = "clearing" /\ UNCHANGED <<flag, gone, slot>> /\ timers' = NoGens
          /\ hub' = hub \cap {p \in Plugins : slot[p] # "absent"}
      BY <2>8 DEF Retire, Goto, Shapes, flagVars, registry
    <3>2. \A p \in Plugins : Agreed(p)
      BY <1>2, <2>8 DEF Retire, Alone
    <3>3. \A p \in Plugins : Agreed(p)'
      BY <3>1, <3>2 DEF Agreed, Live, Loadable
    <3>4. Alone(a)'
      BY <1>5, <3>1, <3>3 DEF Alone, Loading, NoGens
    <3> QED
      BY <3>1, <3>4, Places
  <2>9. CASE ClearSubscriptions(a)
    <3>1. /\ at'[a] = "rebinding" /\ UNCHANGED <<flag, gone, slot, hub, timers>>
          /\ subs' = [p \in Plugins |-> <<>>]
      BY <2>9 DEF ClearSubscriptions, Goto, Shapes, flagVars, registry, hubVars
    <3>2. timers = NoGens /\ \A p \in Plugins : Agreed(p)
      BY <1>2, <2>9 DEF ClearSubscriptions, Alone
    <3>3. \A p \in Plugins : Agreed(p)'
      BY <3>1, <3>2 DEF Agreed, Live, Loadable
    <3>4. Alone(a)'
      BY <1>5, <3>1, <3>2, <3>3 DEF Alone, Loading, NoGens
    <3> QED
      BY <3>1, <3>4, Places
  <2>10. CASE Rebind(a)
    <3>1. /\ at'[a] = "idle" /\ UNCHANGED <<flag, gone, slot, gen, hub>>
          /\ subs' = [p \in Plugins |-> IF Live(p) THEN Append(subs[p], gen[p]) ELSE subs[p]]
          /\ timers' = [p \in Plugins |-> IF Live(p) THEN gen[p] ELSE timers[p]]
      BY <2>10 DEF Rebind, Return, Shapes, flagVars, registry, hubVars
    <3>2. /\ \A p \in Plugins : subs[p] = <<>> /\ timers[p] = 0 /\ Agreed(p)
      BY <1>2, <2>10 DEF Rebind, Alone, NoGens
    <3>3. \A p \in Plugins : Append(<<>>, gen[p]) = <<gen[p]>>
      BY DEF Shapes
    <3>4. \A p \in Plugins : Settled(p)'
      BY <3>1, <3>2, <3>3 DEF Agreed, Settled, Live, Loadable
    <3> QED
      BY <3>1, <3>4
  <2> QED
    BY <2>1, <2>2, <2>3, <2>4, <2>5, <2>6, <2>7, <2>8, <2>9, <2>10
<1> QED
  BY <1>3, <1>4, <1>5, <1>6, PhaseAlone

\* The reinstall of a plugin whose row says it is uninstalled.
LEMMA PhaseReinstall ==
  ASSUME Shapes, DoorInv, PhaseInv, NEW p \in Plugins, Reinstall(p)
  PROVE  PhaseInv'
<1>1. /\ UNCHANGED <<flag, slot, gen, hub, subs, timers, lock, op, at, hold, known>>
      /\ gone[p] /\ gone' = [gone EXCEPT ![p] = FALSE]
      /\ \A a \in Admins : at[a] \notin Unlocked
  BY DEF Reinstall, registry, hubVars, boundVars, loadVars
<1>2. lock[p] = Nobody
  <2>1. SUFFICES ASSUME lock[p] # Nobody PROVE FALSE
    OBVIOUS
  <2>2. Midway(at[lock[p]], p) /\ at[lock[p]] \in Locked
    BY <2>1 DEF PhaseInv, DoorInv
  <2> QED
    BY <1>1, <2>2, Places DEF Midway, Settled, Live, Loadable, Shapes
<1>3. Quiet(p) /\ Settled(p)
  BY <1>1, <1>2 DEF PhaseInv, Quiet
<1>4. Settled(p)'
  BY <1>1, <1>3 DEF Settled, Live, Loadable
<1>5. ASSUME NEW q \in Plugins \ {p}
      PROVE  /\ lock[q] # Nobody => Midway(at[lock[q]], q)'
             /\ Quiet(q)' => Settled(q)'
  <2>1. gone'[q] = gone[q] /\ (Settled(q) => Settled(q)')
    BY <1>1 DEF Settled, Live, Loadable, Shapes
  <2>2. lock[q] # Nobody => Midway(at[lock[q]], q)
    BY DEF PhaseInv
  <2>3. Quiet(q)' => Settled(q)
    BY <1>1 DEF PhaseInv, Quiet
  <2> QED
    BY <1>1, <2>1, <2>2, <2>3 DEF Midway, Live
<1> QED
  BY <1>1, <1>2, <1>4, <1>5 DEF PhaseInv

\* A boot's registry, bindings and timers are what the flags say.
LEMMA BootSettles ==
  ASSUME NEW p \in Plugins
  PROVE  LET b == Booted(flag, gone) IN
         /\ b.slot[p] = "live" => /\ Loadable(p) /\ b.subs[p] = <<b.gen[p]>>
                                  /\ p \in Providers => p \in b.hub
         /\ b.slot[p] = "known" => ~flag[p] /\ ~gone[p] /\ b.subs[p] = <<>> /\ b.gen[p] = 0
         /\ b.slot[p] = "live" <=> b.gen[p] > 0
         /\ b.gen[p] \in {0, 1}
  BY BootShape DEF Loadable

\* Every step keeps the phases, unless it sets adrift.
LEMMA PhaseStep ==
  Shapes /\ DoorInv /\ [LNext]_lifecycleVars /\ (~adrift => PhaseInv) => (~adrift' => PhaseInv')
<1> SUFFICES ASSUME Shapes, DoorInv, [LNext]_lifecycleVars, ~adrift => PhaseInv, ~adrift'
             PROVE  PhaseInv'
  OBVIOUS
<1>1. CASE Restart
  <2>1. /\ \A a \in Admins : at'[a] = "idle"
        /\ \A p \in Plugins : lock'[p] = Nobody
    BY <1>1 DEF Restart
  <2>2. ASSUME NEW p \in Plugins PROVE Settled(p)'
    BY <1>1, BootSettles DEF Restart, Settled, Live, Loadable, flagVars
  <2> QED
    BY <2>1, <2>2, Places DEF PhaseInv
<1>2. CASE ~Restart
  <2>1. ~adrift
    <3>1. ASSUME NEW a \in Admins,
                 \/ InitPlugin(a) \/ LoadFails(a) \/ Install(a) \/ BindEnabled(a) \/ FlagOn(a)
                 \/ RevertEnable(a) \/ FlagOff(a) \/ FlagOffFails(a) \/ StopRouting(a)
                 \/ StopTimers(a) \/ Drained(a)
          PROVE  ~adrift
      BY <3>1 DEF InitPlugin, LoadFails, Install, BindEnabled, FlagOn, RevertEnable, FlagOff,
                  FlagOffFails, StopRouting, StopTimers, Drained
    <3>2. ASSUME NEW a \in Admins,
                 \/ UninstallFails(a) \/ Remove(a) \/ MarkGone(a) \/ MarkGoneFails(a) \/ Forget(a)
                 \/ LoadOne(a) \/ ReloadFails(a) \/ Swap(a) \/ Retire(a) \/ ClearSubscriptions(a)
                 \/ Rebind(a)
          PROVE  ~adrift
      BY <3>2 DEF UninstallFails, Remove, MarkGone, MarkGoneFails, Forget, LoadOne, ReloadFails,
                  Swap, Retire, ClearSubscriptions, Rebind
    <3>3. ASSUME NEW a \in Admins,
                 \/ \E p \in Plugins : BeginEnable(a, p) \/ BeginDisable(a, p) \/ BeginUninstall(a, p)
                 \/ BeginReload(a)
                 \/ \E S \in Choices : Choose(a, S)
          PROVE  ~adrift
      BY <3>3 DEF BeginEnable, BeginDisable, BeginUninstall, BeginReload, Choose, Begin
    <3>4. ASSUME \/ \E c \in Clients : Leave(c) \/ \E p \in Plugins : Enter(c, p)
                 \/ \E p \in Plugins : Reinstall(p)
                 \/ UNCHANGED lifecycleVars
          PROVE  ~adrift
      BY <3>4 DEF Leave, Enter, Reinstall, lifecycleVars
    <3> QED
      BY <1>2, <3>1, <3>2, <3>3, <3>4 DEF LNext
  <2>2. PhaseInv /\ Shapes'
    BY <2>1, ShapesStep
  <2>3. ASSUME NEW a \in Admins,
               \/ InitPlugin(a) \/ LoadFails(a) \/ Install(a) \/ BindEnabled(a) \/ FlagOn(a)
               \/ RevertEnable(a) \/ FlagOff(a) \/ FlagOffFails(a) \/ StopRouting(a)
               \/ StopTimers(a) \/ Drained(a)
        PROVE  PhaseInv'
    BY <2>2, <2>3, PhaseLockedStep
  <2>4. ASSUME NEW a \in Admins, NEW p \in Plugins, BeginEnable(a, p) \/ BeginDisable(a, p)
        PROVE  PhaseInv'
    BY <2>2, <2>4, PhaseLockedBegin
  <2>5. ASSUME NEW a \in Admins,
               \/ \E p \in Plugins : BeginUninstall(a, p)
               \/ BeginReload(a)
               \/ \E S \in Choices : Choose(a, S)
        PROVE  PhaseInv'
    BY <2>2, <2>5, PhaseAloneBegin
  <2>6. ASSUME NEW a \in Admins,
               \/ UninstallFails(a) \/ Remove(a) \/ MarkGone(a) \/ MarkGoneFails(a) \/ Forget(a)
               \/ LoadOne(a) \/ ReloadFails(a) \/ Swap(a) \/ Retire(a) \/ ClearSubscriptions(a)
               \/ Rebind(a)
        PROVE  PhaseInv'
    BY <2>2, <2>6, PhaseAloneStep
  <2>7. ASSUME NEW c \in Clients, Leave(c) \/ \E p \in Plugins : Enter(c, p) PROVE PhaseInv'
    <3>1. UNCHANGED <<flag, gone, slot, gen, hub, subs, timers, lock, op, at, hold, known>>
      BY <2>7 DEF Leave, Enter, flagVars, registry, hubVars, boundVars, loadVars
    <3> QED
      BY <2>2, <3>1, PhaseKept
  <2>8. ASSUME NEW p \in Plugins, Reinstall(p) PROVE PhaseInv'
    BY <2>2, <2>8, PhaseReinstall
  <2>9. CASE UNCHANGED lifecycleVars
    <3>1. UNCHANGED <<flag, gone, slot, gen, hub, subs, timers, lock, op, at, hold, known>>
      BY <2>9 DEF lifecycleVars, flagVars, registry, hubVars, boundVars, loadVars
    <3> QED
      BY <2>2, <3>1, PhaseKept
  <2> QED
    BY <1>2, <2>3, <2>4, <2>5, <2>6, <2>7, <2>8, <2>9 DEF LNext
<1> QED
  BY <1>1, <1>2

-----------------------------------------------------------------------------
(* The invariant *)

\* The first boot.
LEMMA LifeInit == LInit => LifeInv /\ DrainedPoolsAreUnused
<1> SUFFICES ASSUME LInit PROVE LifeInv /\ DrainedPoolsAreUnused
  OBVIOUS
<1> DEFINE b == Booted(flag, gone)
<1>1. /\ flag \in [Plugins -> BOOLEAN] /\ gone \in [Plugins -> BOOLEAN]
      /\ slot = b.slot /\ gen = b.gen /\ loads = b.gen /\ timers = b.gen /\ hub = b.hub
      /\ subs = b.subs
      /\ \A c \in Clients : inside[c] = Nobody
      /\ \A p \in Plugins : lock[p] = Nobody
      /\ \A a \in Admins : at[a] = "idle" /\ hold[a] = NoGens /\ known[a] = {}
      /\ closed = {} /\ adrift = FALSE
  BY DEF LInit
<1>2. Shapes
  <2>1. /\ b.slot \in [Plugins -> {"absent", "known", "live"}] /\ b.gen \in [Plugins -> Nat]
        /\ b.hub \subseteq Providers
    BY BootShape
  <2>2. b.subs \in [Plugins -> Seq(Nat)]
    <3>1. <<>> \in Seq(Nat) /\ <<1>> \in Seq(Nat)
      OBVIOUS
    <3> QED
      BY <3>1, BootShape
  <2>3. ops \in 0..MaxOps /\ \A a \in Admins : todo[a] \in Seq(Plugins)
    BY LifecycleAssumption DEF LInit
  <2> HIDE DEF b
  <2> QED
    BY <1>1, <2>1, <2>2, <2>3 DEF LInit, Shapes, NoGens
<1>3. PoolInv
  BY <1>1, BootSettles DEF PoolInv, Live, Spent, Dead, Held, NoGens
<1>4. DoorInv
  BY <1>1, Places DEF DoorInv
<1>5. PhaseInv
  <2>1. ASSUME NEW p \in Plugins PROVE Settled(p)
    BY <1>1, BootSettles DEF Settled, Live
  <2> QED
    BY <1>1, <2>1, Places DEF PhaseInv
<1> QED
  BY <1>1, <1>2, <1>3, <1>4, <1>5, ShapesAreTypes DEF LifeInv, DrainedPoolsAreUnused

\* The invariant is inductive.
LEMMA LifeNext ==
  LifeInv /\ DrainedPoolsAreUnused /\ [LNext]_lifecycleVars => LifeInv' /\ DrainedPoolsAreUnused'
<1> SUFFICES ASSUME LifeInv, DrainedPoolsAreUnused, [LNext]_lifecycleVars
             PROVE  LifeInv' /\ DrainedPoolsAreUnused'
  OBVIOUS
<1>1. Shapes
  BY ShapesAreTypes DEF LifeInv
<1>2. Shapes' /\ DoorInv' /\ PoolInv' /\ (~adrift' => PhaseInv') /\ DrainedPoolsAreUnused'
  BY <1>1, ShapesStep, DoorStep, PoolStep, PhaseStep, DrainStep DEF LifeInv
<1>3. LTypeOK'
  BY <1>2 DEF LTypeOK, Shapes, DoorInv, Gens
<1> QED
  BY <1>2, <1>3 DEF LifeInv

\* In every reachable state, for any plugins, admins and clients: who holds
\* which lock, which generation is where, and what each door leaves behind.
THEOREM LifecycleInvariant == LSpec => []LifeInv
<1>1. LSpec => [](LifeInv /\ DrainedPoolsAreUnused)
  BY LifeInit, LifeNext, PTL DEF LSpec
<1> QED
  BY <1>1, PTL

\* Every variable keeps its type, and a handler past a lock is its holder.
THEOREM LifecycleTyped == LSpec => []LTypeOK
<1>1. LifeInv => LTypeOK
  BY DEF LifeInv
<1> QED
  BY <1>1, LifecycleInvariant, PTL

\* RegistryAgreesWithFlags of plugin_runtime.rs and core.plugins: when no door is
\* open on a plugin, a live one is loadable and a record is disabled.
THEOREM RegistryAgrees == LSpec => []RegistryAgreesWithFlags
<1>1. LifeInv => RegistryAgreesWithFlags
  BY DEF LifeInv, PhaseInv, Settled, RegistryAgreesWithFlags
<1> QED
  BY <1>1, LifecycleInvariant, PTL

\* BoundOnce of what PluginRuntime binds: a live plugin's subscriptions once, of
\* its own generation, with its timers and provider, and none of a disabled one.
THEOREM LiveIsBoundOnce == LSpec => []BoundOnce
<1>1. LifeInv => BoundOnce
  BY DEF LifeInv, PhaseInv, Settled, BoundOnce
<1> QED
  BY <1>1, LifecycleInvariant, PTL

\* DrainedPoolsAreUnused of disable_plugin: however the doors overlap, no request
\* is inside a pool that was closed after its drain.
THEOREM DrainedPools == LSpec => []DrainedPoolsAreUnused
<1>1. LSpec => [](LifeInv /\ DrainedPoolsAreUnused)
  BY LifeInit, LifeNext, PTL DEF LSpec
<1> QED
  BY <1>1, PTL

(***************************************************************************)
(* The schedules (server/src/scheduler.rs): whose task goes on ticking.    *)
(***************************************************************************)

\* What a caller knows between its locks.
CallerTyped ==
  /\ loop \in [Tasks -> TaskStates] /\ named \subseteq Tasks /\ doomed \subseteq Tasks
  /\ hand = [h \in Hands |-> hand[h]]
  /\ \A h \in Hands : Doing(h, "clearing") => hand[h].then \in {"spawning", "stopped"}

\* Aborted or named, a task has begun; and a named one was never aborted.
NamedGoOn ==
  /\ \A t \in named : t \notin doomed /\ loop[t] \notin {"unborn", "ended"}
  /\ \A t \in doomed : loop[t] # "unborn"

\* A start that overlaps no other is the only one in progress and finds nothing
\* named, for its own abort has emptied the map; and what is named while any
\* start is in progress was spawned by an overlapping one.
StartsExclude ==
  /\ \A h \in Starting \ mixed : Starting = {h} /\ named = {}
  /\ Starting # {} => named \subseteq crossed

TimerInv ==
  /\ CallerTyped /\ NamedGoOn /\ StartsExclude
  /\ \A t \in Tasks : Ticking(t) => t \in named \cup crossed

\* At boot there is no task and no caller.
LEMMA TimerStarts == TimerInit => TimerInv
  BY DEF TimerInit, TimerInv, CallerTyped, NamedGoOn, StartsExclude, Starting, Ticking,
         InProgress, TaskStates, HostInit, Doing, Idle

\* The abort that a start or a stop begins with leaves nothing named, and only
\* tasks of overlapping starts ticking.
LEMMA AbortKeeps ==
  ASSUME TimerInv, Abort, UNCHANGED <<loop, crossed>>
  PROVE  /\ NamedGoOn' /\ named' = {} /\ doomed' \subseteq Tasks
         /\ \A t \in Tasks : Ticking(t)' => t \in crossed'
  BY DEF TimerInv, CallerTyped, NamedGoOn, Abort, Ticking, InProgress

\* A start begins: alone, or beside every start in progress.
LEMMA BeginStartKeeps == ASSUME TimerInv, NEW h \in Hands, BeginStart(h) PROVE TimerInv'
<1>1. /\ Rests(h) /\ hand' = [hand EXCEPT ![h] = [at |-> "clearing", then |-> "spawning"]]
      /\ Abort /\ Overlap(h) /\ UNCHANGED <<loop, crossed>>
  BY DEF BeginStart, Ask
<1>2. /\ \A g \in Hands \ {h} : hand'[g] = hand[g]
      /\ hand'[h] = [at |-> "clearing", then |-> "spawning"]
      /\ hand' = [g \in Hands |-> hand'[g]]
  BY <1>1 DEF TimerInv, CallerTyped
<1>3. Starting' = Starting \cup {h}
  BY <1>2 DEF Starting, Doing
<1>4. h \notin Starting
  BY <1>1 DEF Rests, Idle, Starting, Doing
<1>5. /\ NamedGoOn' /\ named' = {} /\ doomed' \subseteq Tasks
      /\ \A t \in Tasks : Ticking(t)' => t \in crossed'
  BY <1>1, AbortKeeps
<1>6. CallerTyped'
  BY <1>1, <1>2, <1>5 DEF TimerInv, CallerTyped, Doing
<1>7. StartsExclude'
  BY <1>1, <1>3, <1>5 DEF StartsExclude, Overlap
<1> QED BY <1>5, <1>6, <1>7 DEF TimerInv

\* A stop begins, and adds no start.
LEMMA BeginStopKeeps == ASSUME TimerInv, NEW h \in Hands, BeginStop(h) PROVE TimerInv'
<1>1. /\ Rests(h) /\ hand' = [hand EXCEPT ![h] = [at |-> "clearing", then |-> "stopped"]]
      /\ Abort /\ UNCHANGED <<loop, crossed, mixed>>
  BY DEF BeginStop, Ask
<1>2. /\ \A g \in Hands \ {h} : hand'[g] = hand[g]
      /\ hand'[h] = [at |-> "clearing", then |-> "stopped"]
      /\ hand' = [g \in Hands |-> hand'[g]]
  BY <1>1 DEF TimerInv, CallerTyped
<1>3. Starting' = Starting
  BY <1>1, <1>2 DEF Starting, Doing, Rests, Idle
<1>4. /\ NamedGoOn' /\ named' = {} /\ doomed' \subseteq Tasks
      /\ \A t \in Tasks : Ticking(t)' => t \in crossed'
  BY <1>1, AbortKeeps
<1>5. CallerTyped'
  BY <1>1, <1>2, <1>4 DEF TimerInv, CallerTyped, Doing
<1>6. StartsExclude'
  BY <1>1, <1>3, <1>4 DEF TimerInv, StartsExclude
<1> QED BY <1>4, <1>5, <1>6 DEF TimerInv

\* next_run is cleared: a start goes on to its spawn, a stop answers.
LEMMA ClearKeeps == ASSUME TimerInv, NEW h \in Hands, ClearNext(h) PROVE TimerInv'
<1>1. /\ Doing(h, "clearing") /\ UNCHANGED <<loop, doomed, named, mixed, crossed>>
      /\ hand[h].then \in {"spawning", "stopped"}
  BY DEF ClearNext, taskVars, TimerInv, CallerTyped
<1>2. \/ hand[h].then = "stopped" /\ hand' = [hand EXCEPT ![h] = Idle]
      \/ hand[h].then = "spawning" /\ hand' = [hand EXCEPT ![h] = Knowing(hand[h], [at |-> "spawning"])]
  BY <1>1 DEF ClearNext, Answer, Go
<1>3. Knowing(hand[h], [at |-> "spawning"]).at = "spawning"
  BY DEF Knowing
<1>4. /\ \A g \in Hands \ {h} : hand'[g] = hand[g]
      /\ \/ hand[h].then = "stopped" /\ hand'[h].at = "idle"
         \/ hand[h].then = "spawning" /\ hand'[h].at = "spawning"
  BY <1>2, <1>3 DEF TimerInv, CallerTyped, Idle
<1>5. hand' = [x \in Hands |-> hand'[x]]
  BY <1>2 DEF TimerInv, CallerTyped
<1>6. Starting' = Starting
  BY <1>1, <1>4 DEF Starting, Doing
<1>7. CallerTyped'
  BY <1>1, <1>4, <1>5 DEF TimerInv, CallerTyped, Doing
<1> QED BY <1>1, <1>6, <1>7 DEF TimerInv, NamedGoOn, StartsExclude, Ticking, InProgress

\* A start that overlapped none replaces no handle; one that did leaves a task of
\* an overlapping start.
LEMMA SpawnKeeps == ASSUME TimerInv, NEW h \in Hands, Spawn(h) PROVE TimerInv'
<1>1. PICK t \in Tasks :
        /\ loop[t] = "unborn" /\ loop' = [loop EXCEPT ![t] = "reading"] /\ named' = {t}
        /\ crossed' = IF h \in mixed THEN crossed \cup {t} ELSE crossed
  BY DEF Spawn, Passes
<1>2. Doing(h, "spawning") /\ hand' = [hand EXCEPT ![h] = Idle] /\ UNCHANGED <<doomed, mixed>>
  BY DEF Spawn, Answer
<1>3. /\ \A g \in Hands \ {h} : hand'[g] = hand[g]
      /\ hand'[h] = Idle /\ hand' = [x \in Hands |-> hand'[x]]
  BY <1>2 DEF TimerInv, CallerTyped
<1>4. h \in Starting /\ Starting' = Starting \ {h}
  BY <1>2, <1>3 DEF Starting, Doing, Idle
<1>5. /\ loop' \in [Tasks -> TaskStates] /\ loop'[t] = "reading"
      /\ \A u \in Tasks \ {t} : loop'[u] = loop[u]
  BY <1>1 DEF TimerInv, CallerTyped, TaskStates
<1>6. CallerTyped'
  BY <1>1, <1>2, <1>3, <1>5 DEF TimerInv, CallerTyped, Doing, Idle
<1>7. t \notin doomed
  BY <1>1 DEF TimerInv, NamedGoOn
<1>8. NamedGoOn'
  BY <1>1, <1>2, <1>5, <1>7 DEF TimerInv, CallerTyped, NamedGoOn
<1>9. named \subseteq crossed
  BY <1>4 DEF TimerInv, StartsExclude
<1>10. \A u \in Tasks : Ticking(u)' => u \in named' \cup crossed'
  BY <1>1, <1>2, <1>5, <1>9 DEF TimerInv, Ticking, InProgress
<1>11. StartsExclude'
  <2>1. CASE h \in mixed
    BY <1>1, <1>2, <1>4, <2>1 DEF TimerInv, StartsExclude
  <2>2. CASE h \notin mixed
    BY <1>4, <2>2 DEF TimerInv, StartsExclude
  <2> QED BY <2>1, <2>2
<1> QED BY <1>6, <1>8, <1>10, <1>11 DEF TimerInv

\* The loop's own steps: none ends a task but the abort it was given and the
\* panic of its handler.
LEMMA LoopKeeps == ASSUME TimerInv, NEW t \in Tasks, RunLoop(t) PROVE TimerInv'
<1>1. Undisturbed
  BY DEF RunLoop, Seed, Tick, Finish, Panic, Record, Drop
<1>2. PICK to \in TaskStates \ {"unborn"} :
        /\ loop' = [loop EXCEPT ![t] = to]
        /\ loop[t] \notin {"unborn", "ended", "panicked"}
        /\ to = "ended" => t \in doomed
  BY DEF RunLoop, Seed, Tick, Finish, Panic, Record, Drop, Passes, InProgress, TaskStates
<1>3. /\ loop' \in [Tasks -> TaskStates] /\ loop'[t] = to
      /\ \A u \in Tasks \ {t} : loop'[u] = loop[u]
  BY <1>2 DEF TimerInv, CallerTyped
<1>4. UNCHANGED <<hand, doomed, named, mixed, crossed>>
  BY <1>1 DEF Undisturbed, hostVars
<1>5. CallerTyped' /\ StartsExclude'
  BY <1>3, <1>4 DEF TimerInv, CallerTyped, StartsExclude, Starting, Doing
<1>6. NamedGoOn'
  BY <1>2, <1>3, <1>4 DEF TimerInv, CallerTyped, NamedGoOn
<1>7. \A u \in Tasks : Ticking(u)' => u \in named' \cup crossed'
  BY <1>2, <1>3, <1>4 DEF TimerInv, Ticking, InProgress
<1> QED BY <1>5, <1>6, <1>7 DEF TimerInv

\* Every step of the schedules keeps the invariant.
LEMMA TimerStep == TimerInv /\ [TimerNext]_timerVars => TimerInv'
<1>1. TimerInv /\ UNCHANGED timerVars => TimerInv'
  BY DEF timerVars, timerRows, taskVars, hostVars, TimerInv, CallerTyped, NamedGoOn,
         StartsExclude, Starting, Doing, Ticking, InProgress
<1> QED
  BY <1>1, BeginStartKeeps, BeginStopKeeps, ClearKeeps, SpawnKeeps, LoopKeeps
  DEF TimerNext, Caller

\* TimersAreInHand, for any number of callers and tasks: a task that ticks on
\* unnamed was spawned by a start that overlapped another, and a named one that
\* ticks no more panicked.
THEOREM TimersStayInHand == TimerSpec => []TimersAreInHand
<1>1. TimerInv => TimersAreInHand
  BY DEF TimerInv, CallerTyped, NamedGoOn, TimersAreInHand, Ticking, InProgress
<1> QED BY <1>1, TimerStarts, TimerStep, PTL DEF TimerSpec
=============================================================================
