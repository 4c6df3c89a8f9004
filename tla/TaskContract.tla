----------------------------- MODULE TaskContract -----------------------------
(***************************************************************************)
(* What Runtime B promises about tasks, without its locks, channels and    *)
(* deferred functions: an identifier names at most one task, a task has    *)
(* one outcome, and the stream of a task tells no other outcome than that. *)
(***************************************************************************)
CONSTANTS
  Calls,  \* the calls of message/stream, each with the task it may create
  IDs,    \* task identifiers
  NoCall  \* an identifier that names no task

VARIABLES
  holder,  \* the task each identifier names
  status,  \* what became of each task
  told     \* the outcome each stream told its client, or "none"

vars == <<holder, status, told>>

Outcomes == {"completed", "canceled"}

Init ==
  /\ holder = [id \in IDs |-> NoCall]
  /\ status = [c \in Calls |-> "none"]
  /\ told = [c \in Calls |-> "none"]

\* A free identifier comes to name a new task.
Start(c, id) ==
  /\ holder[id] = NoCall
  /\ status[c] = "none"
  /\ holder' = [holder EXCEPT ![id] = c]
  /\ status' = [status EXCEPT ![c] = "working"]
  /\ UNCHANGED told

\* A task that is still named gets its outcome, once.
Finish(id, outcome) ==
  /\ holder[id] # NoCall
  /\ status[holder[id]] = "working"
  /\ status' = [status EXCEPT ![holder[id]] = outcome]
  /\ UNCHANGED <<holder, told>>

\* A task that has no outcome is given up; its identifier is free again.
Drop(id) ==
  /\ holder[id] # NoCall
  /\ status[holder[id]] = "working"
  /\ status' = [status EXCEPT ![holder[id]] = "dropped"]
  /\ holder' = [holder EXCEPT ![id] = NoCall]
  /\ UNCHANGED told

\* The stream of a finished task tells its outcome, once.
Tell(c) ==
  /\ status[c] \in Outcomes
  /\ told[c] = "none"
  /\ told' = [told EXCEPT ![c] = status[c]]
  /\ UNCHANGED <<holder, status>>

Next ==
  \/ \E id \in IDs :
       \/ \E c \in Calls : Start(c, id)
       \/ \E outcome \in Outcomes : Finish(id, outcome)
       \/ Drop(id)
  \/ \E c \in Calls : Tell(c)

Spec == Init /\ [][Next]_vars
=============================================================================
