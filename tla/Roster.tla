------------------------------- MODULE Roster -------------------------------
(***************************************************************************)
(* The roster of plugins/membership/src/lib.rs and the coverage the core   *)
(* derives from it (server/src/scope_hierarchy.rs): a lodge's grant covers *)
(* the patrols inside it.  The plugin declares the pairs into core         *)
(* .scope_hierarchy, by a DELETE and an INSERT, after a patrol write and   *)
(* on every load; the core copies them into memory at boot and on reload.  *)
(***************************************************************************)
EXTENDS PluginHost

CONSTANTS Lodges, Patrols, Persons,
  Handle     \* the username an import makes of each person

Nowhere == "nowhere"     \* no row
Unset   == "unset"       \* a NULL lodge or patrol

ASSUME RosterAssumption == DOMAIN Handle = Persons /\ {Nowhere, Unset} \cap Lodges = {}

VARIABLES
  lodges,      \* membership.lodges
  patrols,     \* membership.patrols: each one's lodge
  members,     \* membership.members: each username's patrol
  posts,       \* stewards and completed proficiencies, by username
  declared,       \* core.scope_hierarchy, lodge to patrol
  covers,      \* AppState.hierarchy, in memory
  torn         \* history: a re-declaration failed after its DELETE

rosterRows == <<lodges, patrols, members, posts, declared, covers, torn>>
rosterVars == <<rosterRows, hostVars>>

Names   == {Handle[x] : x \in Persons}

Redeclaring == {"retract", "project", "declare"}     \* inside declare_scope_hierarchy

Projection == {e \in Lodges \X Patrols : patrols[e[2]] = e[1]}

RosterInit ==
  /\ HostInit /\ lodges = {} /\ patrols = [p \in Patrols |-> Nowhere]
  /\ members = [n \in Names |-> Nowhere] /\ posts = {}
  /\ declared = {} /\ covers = {} /\ torn = FALSE

-----------------------------------------------------------------------------
(* Lodges, patrols, and the declaration that follows.                      *)

CreateLodge(l) ==
  /\ lodges' = lodges \cup {l} /\ AskOnce /\ Silent
  /\ UNCHANGED <<patrols, members, posts, declared, covers, torn>>

\* The lodge the body names is made on the way.
BeginPatrol(h, p, l) ==
  /\ Ask(h, [at |-> "patrol", patrol |-> p, lodge |-> l, then |-> "end"]) /\ Silent
  /\ lodges' = lodges \cup ({l} \ {Unset})
  /\ UNCHANGED <<patrols, members, posts, declared, covers, torn>>

\* A patrol that names no lodge keeps the one it has.
Housed(p, l) ==
  LET kept == IF patrols[p] = Nowhere THEN Unset ELSE patrols[p] IN
    patrols' = [patrols EXCEPT ![p] = IF l = Unset THEN kept ELSE l]

\* Mutant: re-declare for a new patrol only.
WritePatrolQuietly(h) ==
  /\ Doing(h, "patrol") /\ Silent /\ Housed(hand[h].patrol, hand[h].lodge)
  /\ IF patrols[hand[h].patrol] = Nowhere THEN Go(h, [at |-> "retract"]) ELSE Answer(h)
  /\ UNCHANGED <<lodges, members, posts, declared, covers, torn>>
WritePatrol(h) ==
  /\ Doing(h, "patrol") /\ Silent /\ Housed(hand[h].patrol, hand[h].lodge)
  /\ Go(h, [at |-> "retract"])
  /\ UNCHANGED <<lodges, members, posts, declared, covers, torn>>

Retract(h) ==
  /\ Doing(h, "retract") /\ Go(h, [at |-> "project"]) /\ Silent /\ declared' = {}
  /\ UNCHANGED <<lodges, patrols, members, posts, covers, torn>>

\* The one INSERT reads the roster as of its start and commits later.
Project(h) ==
  /\ Doing(h, "project") /\ Go(h, [at |-> "declare", edges |-> Projection]) /\ Silent
  /\ UNCHANGED rosterRows

Declare(h) ==
  /\ Doing(h, "declare") /\ declared' = declared \cup hand[h].edges /\ Silent
  /\ IF hand[h].then = "end" THEN Answer(h) ELSE Go(h, [at |-> "load"])
  /\ UNCHANGED <<lodges, patrols, members, posts, covers, torn>>

\* The re-declaration's error is printed, and its caller goes on: the patrol
\* write answers 201, the load loads.
DeclareFails(h) ==
  /\ hand[h].at \in Redeclaring /\ torn' = TRUE /\ Silent
  /\ IF hand[h].then = "end" THEN Answer(h) ELSE Go(h, [at |-> "load"])
  /\ UNCHANGED <<lodges, patrols, members, posts, declared, covers>>

-----------------------------------------------------------------------------
(* A reload: membership's init, ScopeHierarchy::load, adopt_generation.    *)

BeginReloading(h) == Ask(h, [at |-> "retract", then |-> "load"]) /\ Silent /\ UNCHANGED rosterRows

LoadHierarchy(h) ==
  /\ Doing(h, "load") /\ Go(h, [at |-> "adopt", read |-> declared]) /\ Silent /\ UNCHANGED rosterRows

AdoptHierarchy(h) ==
  /\ Doing(h, "adopt") /\ Answer(h) /\ Silent /\ covers' = hand[h].read
  /\ UNCHANGED <<lodges, patrols, members, posts, declared, torn>>

-----------------------------------------------------------------------------
(* Members.                                                                *)

\* A patrol a member names is made without a lodge, and declares nothing.
NamePatrol(p) == IF p = Unset \/ patrols[p] # Nowhere THEN patrols
                 ELSE [patrols EXCEPT ![p] = Unset]

\* The member of the form, or a person of the imported file's `rest` to come.
BeginMember(h, n, p) ==
  /\ Ask(h, [at |-> "member", name |-> n, patrol |-> p, rest |-> {}]) /\ Silent
  /\ patrols' = NamePatrol(p)
  /\ UNCHANGED <<lodges, members, posts, declared, covers, torn>>
BeginImport(h, p, whom) ==
  /\ Ask(h, [at |-> "row", patrol |-> p, rest |-> whom]) /\ Silent /\ UNCHANGED rosterRows

NextRow(h) ==
  /\ Doing(h, "row") /\ Silent /\ UNCHANGED <<lodges, members, posts, declared, covers, torn>>
  /\ IF hand[h].rest = {} THEN Answer(h) /\ UNCHANGED patrols
     ELSE \E x \in hand[h].rest :
            /\ Go(h, [at |-> "member", name |-> Handle[x], rest |-> hand[h].rest \ {x}])
            /\ patrols' = NamePatrol(hand[h].patrol)

\* ON CONFLICT (username) DO UPDATE: a patrol that is not given is kept.
UpsertMember(h) ==
  /\ Doing(h, "member") /\ Silent
  /\ LET n == hand[h].name
         kept == IF members[n] = Nowhere THEN Unset ELSE members[n] IN
       members' = [members EXCEPT ![n] = IF hand[h].patrol = Unset THEN kept ELSE hand[h].patrol]
  /\ IF hand[h].rest = {} THEN Answer(h) ELSE Go(h, [at |-> "row"])
  /\ UNCHANGED <<lodges, patrols, posts, declared, covers, torn>>

\* complete_proficiency; and appoint, which makes the lodge it names on the way.
Honour(n, kind, l) ==
  /\ members[n] # Nowhere /\ (kind = "proficiency" => l = Unset) /\ AskOnce /\ Silent
  /\ posts' = posts \cup {<<n, kind>>} /\ lodges' = lodges \cup ({l} \ {Unset})
  /\ UNCHANGED <<patrols, members, declared, covers, torn>>

\* A patrol write may have committed, and nobody declares.
RosterFails(h) ==
  /\ ~Rests(h) /\ hand[h].at \notin Redeclaring /\ Answer(h) /\ Silent
  /\ \/ UNCHANGED <<patrols, torn>>
     \/ Doing(h, "patrol") /\ Housed(hand[h].patrol, hand[h].lodge) /\ torn' = TRUE
  /\ UNCHANGED <<lodges, members, posts, declared, covers>>

Registrar(h) ==
  \/ \E p \in Patrols, l \in Lodges \cup {Unset} : BeginPatrol(h, p, l)
  \/ WritePatrol(h) \/ Retract(h) \/ Project(h) \/ Declare(h) \/ DeclareFails(h)
  \/ BeginReloading(h) \/ LoadHierarchy(h) \/ AdoptHierarchy(h)
  \/ \E p \in Patrols \cup {Unset} :
       \/ \E n \in Names : BeginMember(h, n, p)
       \/ \E whom \in SUBSET Persons : BeginImport(h, p, whom)
  \/ NextRow(h) \/ UpsertMember(h) \/ RosterFails(h)

RosterNext ==
  \/ \E h \in Hands : Registrar(h)
  \/ \E l \in Lodges : CreateLodge(l)
  \/ \E n \in Names, kind \in {"steward", "proficiency"}, l \in Lodges \cup {Unset} : Honour(n, kind, l)

RosterSpec == RosterInit /\ [][RosterNext]_rosterVars

-----------------------------------------------------------------------------
\* However patrol writes and reloads overlap, once the last of them is over
\* every pair of the roster is declared, unless a declaration failed: no DELETE
\* takes away what nobody declares again.
EdgesFollowTheRoster ==
  (\A h \in Hands : hand[h].at \notin Redeclaring) /\ ~torn => Projection \subseteq declared

\* membership/src/lib.rs on its re-declaration: "so a patrol created/moved via
\* the API is covered before the next reload".
MovedPatrolsAreCovered == (\A h \in Hands : Rests(h)) /\ ~torn => covers = Projection

=============================================================================
