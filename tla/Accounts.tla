------------------------------ MODULE Accounts ------------------------------
(***************************************************************************)
(* Accounts, role grants, sessions and single sign-on of                   *)
(* plugins/auth/src/lib.rs over core.users (unique on lower(username) and  *)
(* on external_id), core.user_roles and core.sessions.  Passwords, tokens  *)
(* and claims are abstracted to whose they are; expiry is read with the    *)
(* session and changes no row.                                             *)
(***************************************************************************)
EXTENDS PluginHost

CONSTANTS
  Logins,      \* user names people pick
  Subjects,    \* accounts at the identity provider
  Called,      \* the user name each subject's claims sanitize to
  Ranks        \* roles

ASSUME AccountsAssumption == Called \in [Subjects -> Logins]

VARIABLES
  users,       \* core.users, a row's number its id
  grants,      \* core.user_roles: user and role
  sessions,    \* core.sessions, and which sign-in opened each
  started,     \* sign-ins started
  states       \* oidc_states: the sign-ins not yet used

accountRows == <<users, grants, sessions, started, states>>
accountVars == <<accountRows, hostVars>>

Local    == "local"              \* no external_id
ByForm   == 0                    \* a session no sign-in opened
Plain(n) == <<n, Local>>         \* the name itself
Apart(s) == <<Called[s], s>>     \* with the subject's hash after it

AccountsInit ==
  /\ HostInit /\ users = <<>> /\ grants = {} /\ sessions = <<>>
  /\ started = 0 /\ states = {}

Account(name, subject) == [name |-> name, subject |-> subject]

\* The row, unless either unique index has it.
Indexed(user) ==
  \A i \in DOMAIN users :
    users[i].name # user.name /\ (user.subject = Local \/ users[i].subject # user.subject)

-----------------------------------------------------------------------------
(* Forms: register (only into an empty troop), login, logout, and the two  *)
(* admin routes that write roles.                                          *)

BeginRegister(h, n) ==
  /\ users = <<>> /\ Ask(h, [at |-> "user", name |-> n, ranks |-> {"chief"}, then |-> "session"])
  /\ Silent /\ UNCHANGED accountRows

BeginCreate(h, n, ranks) ==
  /\ Ask(h, [at |-> "user", name |-> n, ranks |-> ranks, then |-> "end"])
  /\ Silent /\ UNCHANGED accountRows

InsertUser(h) ==
  /\ Doing(h, "user") /\ Silent /\ UNCHANGED <<grants, sessions, started, states>>
  /\ LET user == Account(Plain(hand[h].name), Local) IN
       IF Indexed(user)
       THEN users' = Append(users, user) /\ Go(h, [at |-> "grant", user |-> Len(users) + 1])
       ELSE UNCHANGED users /\ Answer(h)

\* "Replace the full role set": a DELETE, then the roles one by one.
BeginAssign(h, u, ranks) ==
  /\ Ask(h, [at |-> "clear", user |-> u, ranks |-> ranks, then |-> "end"])
  /\ Silent /\ UNCHANGED accountRows

ClearGrants(h) ==
  /\ Doing(h, "clear") /\ Go(h, [at |-> "grant"]) /\ Silent
  /\ grants' = {g \in grants : g[1] # hand[h].user}
  /\ UNCHANGED <<users, sessions, started, states>>

Grant(h) ==
  /\ Doing(h, "grant") /\ Silent /\ UNCHANGED <<users, sessions, started, states>>
  /\ \/ \E r \in hand[h].ranks :
          grants' = grants \cup {<<hand[h].user, r>>} /\ Go(h, [ranks |-> hand[h].ranks \ {r}])
     \/ /\ hand[h].ranks = {} /\ UNCHANGED grants
        /\ IF hand[h].then = "end" THEN Answer(h)
           ELSE Go(h, [at |-> "session", by |-> ByForm, who |-> Local])

BeginLogin(h, u) ==
  /\ users[u].subject = Local
  /\ Ask(h, [at |-> "session", user |-> u, by |-> ByForm, who |-> Local])
  /\ Silent /\ UNCHANGED accountRows

OpenSession(h) ==
  /\ Doing(h, "session") /\ Answer(h) /\ Silent
  /\ sessions' = Append(sessions, [user |-> hand[h].user, by |-> hand[h].by,
                                   who |-> hand[h].who, open |-> TRUE])
  /\ UNCHANGED <<users, grants, started, states>>

Logout(i) ==
  /\ sessions' = [sessions EXCEPT ![i].open = FALSE] /\ AskOnce /\ Silent
  /\ UNCHANGED <<users, grants, started, states>>

-----------------------------------------------------------------------------
(* Single sign-on: oidc/login stores a one-time state; oidc/callback takes *)
(* it, exchanges the code, and finds or makes the subject's account.       *)

StartSignIn(h) ==
  /\ Ask(h, [at |-> "purge"]) /\ Silent /\ started' = started + 1
  /\ states' = states \cup {started + 1} /\ UNCHANGED <<users, grants, sessions>>

\* Whichever are older than fifteen minutes by now.
PurgeStates(h) ==
  /\ Doing(h, "purge") /\ Answer(h) /\ Silent /\ \E old \in SUBSET states : states' = states \ old
  /\ UNCHANGED <<users, grants, sessions, started>>

\* Mutant: look the state up, and leave it.
FindState(h, s) ==
  /\ s \in states /\ Ask(h, [at |-> "exchange", by |-> s]) /\ Silent /\ UNCHANGED accountRows
TakeState(h, s) ==
  /\ s \in states /\ Ask(h, [at |-> "exchange", by |-> s]) /\ Silent
  /\ states' = states \ {s} /\ UNCHANGED <<users, grants, sessions, started>>

\* The token endpoint's id_token names the subject; SELECT by external_id.
Exchange(h, who) ==
  /\ Doing(h, "exchange") /\ Silent /\ UNCHANGED accountRows
  /\ LET rows == {i \in DOMAIN users : users[i].subject = who} IN
       \/ \E u \in rows : Go(h, [at |-> "session", who |-> who, user |-> u])
       \/ rows = {} /\ Go(h, [at |-> "insert", who |-> who, name |-> Plain(Called[who])])

\* A name that is taken is tried once more with the subject's hash.
InsertSubject(h) ==
  /\ Doing(h, "insert") /\ Silent /\ UNCHANGED <<grants, sessions, started, states>>
  /\ LET who  == hand[h].who
         user == Account(hand[h].name, who) IN
       IF Indexed(user)
       THEN users' = Append(users, user) /\ Go(h, [at |-> "session", user |-> Len(users) + 1])
       ELSE /\ UNCHANGED users
            /\ IF hand[h].name = Apart(who) THEN Answer(h) ELSE Go(h, [name |-> Apart(who)])

AccountsFail(h) == ~Rests(h) /\ Answer(h) /\ Silent /\ UNCHANGED accountRows

Doorkeeper(h) ==
  \/ \E n \in Logins : BeginRegister(h, n)
  \/ \E n \in Logins, ranks \in SUBSET Ranks : BeginCreate(h, n, ranks)
  \/ \E u \in DOMAIN users, ranks \in SUBSET Ranks : BeginAssign(h, u, ranks)
  \/ InsertUser(h) \/ ClearGrants(h) \/ Grant(h)
  \/ \E u \in DOMAIN users : BeginLogin(h, u)
  \/ OpenSession(h) \/ StartSignIn(h) \/ PurgeStates(h)
  \/ \E s \in states : TakeState(h, s)
  \/ \E who \in Subjects : Exchange(h, who)
  \/ InsertSubject(h) \/ AccountsFail(h)

AccountsNext ==
  \/ \E h \in Hands : Doorkeeper(h)
  \/ \E i \in DOMAIN sessions : Logout(i)

AccountsSpec == AccountsInit /\ [][AccountsNext]_accountVars

-----------------------------------------------------------------------------
\* However first sign-ins, their callbacks and the admin's forms overlap: a
\* sign-in opens one session at most, of the account of whoever signed in,
\* and a subject never ends with two accounts.
SignInsFindTheirAccount ==
  /\ \A i, j \in DOMAIN sessions :
       sessions[i].by = sessions[j].by /\ sessions[i].by # ByForm => i = j
  /\ \A i \in DOMAIN sessions : users[sessions[i].user].subject = sessions[i].who
  /\ \A i, j \in DOMAIN users : users[i].subject = users[j].subject /\ users[i].subject # Local => i = j

=============================================================================
