----------------------------- MODULE BusReaders -----------------------------
(***************************************************************************)
(* Subscriptions (server/src/events.rs): each is a task of its own that    *)
(* receives the broadcast in order and awaits its handler before the next  *)
(* event.  A lagging task skips events, a rebinding (reload, enable,       *)
(* restart) aborts the task and begins at the end of the channel, and a    *)
(* handler's error is logged: nothing is ever delivered twice or again.    *)
(***************************************************************************)
EXTENDS PluginHost

CONSTANT Subscriptions

VARIABLES
  cursor,  \* each subscription: the index in bus of the event it receives next
  task     \* each subscription: the handler it awaits, and what that has read

readerVars == <<cursor, task>>

ReadersInit ==
  /\ cursor = [s \in Subscriptions |-> 1]
  /\ task = [s \in Subscriptions |-> Idle]

Handling(s, step) == task[s].at = step

\* The next event: to the handler's first statement, or past the filter.
Receive(s, wanted, step) ==
  /\ task[s] = Idle /\ cursor[s] <= Len(bus)
  /\ cursor' = [cursor EXCEPT ![s] = @ + 1]
  /\ LET event == bus[cursor[s]]
     IN task' = IF event.type \in wanted
                  THEN [task EXCEPT ![s] = [at |-> step, event |-> event]] ELSE task

Onward(s, step) == task' = [task EXCEPT ![s].at = step] /\ UNCHANGED cursor
Handled(s)      == task' = [task EXCEPT ![s] = Idle] /\ UNCHANGED cursor

\* A lag, or a task aborted and bound again.
Miss(s) ==
  /\ task[s] = Idle /\ cursor[s] <= Len(bus)
  /\ cursor' = [cursor EXCEPT ![s] = @ + 1] /\ UNCHANGED task
Rebound(s) ==
  /\ task[s] # Idle
  /\ cursor' = [cursor EXCEPT ![s] = Len(bus) + 1] /\ task' = [task EXCEPT ![s] = Idle]
=============================================================================
