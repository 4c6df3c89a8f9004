---------------------------- MODULE RuntimeBTasks ----------------------------
(***************************************************************************)
(* The task registry of Runtime B and the goroutines that share it         *)
(* (runtime-b/handler.go).                                                 *)
(*                                                                         *)
(* A message/stream call is a goroutine running OnSendMessageStream.  It   *)
(* allocates one runtimeTask, registers it under an identifier derived     *)
(* from the message identifier, hands events one by one to its consumer    *)
(* (yield), and ends in a deferred function that may unregister the task.  *)
(* tasks/get, tasks/cancel and the cancel-observed fixture run beside it.  *)
(* The methods of the registry hold Handler.mu for their whole body and    *)
(* are one step each; everything between two of them, and every yield, is  *)
(* a point where other goroutines may run.                                 *)
(***************************************************************************)
EXTENDS Integers, Sequences, FiniteSets

CONSTANTS
  Streams,      \* calls of message/stream; a call and the runtimeTask it allocates share a name
  MessageIDs,   \* message identifiers that clients use, possibly more than once
  Contexts,     \* call contexts: router claims [scope, invocation], or None when there are none
  Markers,      \* non-empty strings sent as the value of a hold or cancel-observed fixture
  MaxCancels,   \* bound: cancel requests counted under one observation key
  None          \* no claims, no request, no task, no marker, no key

StreamKinds == {"stream-success", "hold", "interrupted"}

\* One call of message/stream that parseFixture accepts.  The marker is None when
\* the value of a hold fixture is not a non-empty string; no other kind reads it.
Requests ==
  [message: MessageIDs, kind: {"hold"}, ctx: Contexts, marker: Markers \cup {None}]
    \cup [message: MessageIDs, kind: StreamKinds \ {"hold"}, ctx: Contexts, marker: {None}]

\* sha256(domain \x00 id): injective, and no value of one domain is in another.
derivedID(domain, id) == <<domain, id>>
TaskIDs == {derivedID("task", m) : m \in MessageIDs}

\* The claims that identify the workspace, agent, release, card and capability
\* form the scope; the invocation is kept apart.
observationOwner(ctx) == IF ctx = None THEN None ELSE ctx.scope

\* Mutant: a task belongs to the release, and the invocation is forgotten.
taskOwnerWithoutInvocation(ctx) == observationOwner(ctx)

taskOwner(ctx) ==
  IF observationOwner(ctx) = None THEN None
  ELSE <<observationOwner(ctx), ctx.invocation>>

cancellationObservationKey(ctx, marker) ==
  IF observationOwner(ctx) = None THEN marker
  ELSE <<observationOwner(ctx), marker>>

ObservationKeys == {cancellationObservationKey(c, m) : c \in Contexts, m \in Markers}

ASSUME Sentinel ==
  /\ None \notin Streams
  /\ None \notin Markers
  /\ None \notin Requests
  /\ None \notin ObservationKeys
\* NUL-separated claims are never empty, and identify scope and invocation.
ASSUME ContextsAssumption ==
  \A c \in Contexts : c # None =>
    /\ c = [scope |-> c.scope, invocation |-> c.invocation]
    /\ c.scope # None
    /\ <<c.scope, c.invocation>> # None
ASSUME MaxCancelsAssumption == MaxCancels \in Nat

-----------------------------------------------------------------------------

VARIABLES
  tasks,          \* Handler.tasks: identifier -> the registered runtimeTask, or None
  cancellations,  \* Handler.cancellations: key -> count, 0 for an absent entry
  state,          \* Status.State of each runtimeTask, "none" before it is allocated
  closes,         \* how often the cancel channel of each runtimeTask was closed
  pc,             \* where each OnSendMessageStream call is
  request,        \* the parameters and context of each call
  terminal,       \* the local variable read by the deferred function
  snapshot,       \* the status seen by the clone in progress
  ctxDone,        \* the call's context is done: its client has gone
  events,         \* history: what was handed to the consumer of each call
  observed,       \* history: counts that cancel-observed calls returned
  attempts        \* history: tasks/cancel requests that reached a task with a key

registry == <<tasks, state, closes>>
local    == <<request, terminal, snapshot, ctxDone>>
counters == <<cancellations, observed, attempts>>
vars     == <<registry, pc, local, events, counters>>

TaskStates == {"none", "working", "completed", "canceled"}
Final      == {"completed", "canceled"}

EventTypes == {"task", "message", "artifact", "status", "error"}
Content    == {"message", "artifact"}

\* An event as the consumer got it.  "value" is the task state it carries (or
\* which error it is); "stored" is history: the state of the task at that time.
Event ==
  [type: EventTypes,
   value: TaskStates \cup {"torn", "duplicate", "unsupported", "lost", ""},
   stored: TaskStates]

idOf(s)  == derivedID("task", request[s].message)
owner(s) == taskOwner(request[s].ctx)

\* createWorkingTask gives a key only to a hold task with a usable marker.
cancelObservation(s) ==
  IF request[s].kind = "hold" /\ request[s].marker # None
  THEN cancellationObservationKey(request[s].ctx, request[s].marker)
  ELSE None

Init ==
  /\ tasks         = [id \in TaskIDs |-> None]
  /\ cancellations = [k \in ObservationKeys |-> 0]
  /\ state         = [s \in Streams |-> "none"]
  /\ closes        = [s \in Streams |-> 0]
  /\ pc            = [s \in Streams |-> "idle"]
  /\ request       = [s \in Streams |-> None]
  /\ terminal      = [s \in Streams |-> FALSE]
  /\ snapshot      = [s \in Streams |-> "none"]
  /\ ctxDone       = [s \in Streams |-> FALSE]
  /\ events        = [s \in Streams |-> <<>>]
  /\ observed      = [k \in ObservationKeys |-> 0]
  /\ attempts      = [k \in ObservationKeys |-> 0]

-----------------------------------------------------------------------------
(* Handing events to the consumer.                                         *)

\* yield(event) returned true, and the call goes on at next.  A consumer whose
\* context is done may still take an event: its select is free to choose.
Deliver(s, type, value, next) ==
  /\ events' = [events EXCEPT ![s] =
                  Append(@, [type |-> type, value |-> value, stored |-> state[s]])]
  /\ pc' = [pc EXCEPT ![s] = next]

\* Mutant: the call gives up without running its deferred function.
RefuseWithoutDefer(s) ==
  /\ ctxDone[s]
  /\ pc' = [pc EXCEPT ![s] = "done"]
  /\ UNCHANGED events

\* yield(event) returned false: only a consumer whose context is done does that.
Refuse(s) ==
  /\ ctxDone[s]
  /\ pc' = [pc EXCEPT ![s] = "return"]
  /\ UNCHANGED events

Yield(s, at, type, value, next) ==
  /\ pc[s] = at
  /\ Deliver(s, type, value, next) \/ Refuse(s)
  /\ UNCHANGED <<registry, local, counters>>

-----------------------------------------------------------------------------
(* The start of a message/stream call.                                     *)

\* parseFixture fails, or the fixture is the failure or a message/send one.
RejectFixture(s) ==
  /\ pc[s] = "idle"
  /\ Deliver(s, "error", "unsupported", "done")
  /\ UNCHANGED <<registry, local, counters>>

\* Mutant: the identifier of a task that has ended may be reused.
OccupiedByWorking(id) == tasks[id] # None /\ state[tasks[id]] = "working"

\* The guard of createWorkingTask: the identifier is in use, by any owner.
Occupied(id) == tasks[id] # None

RefuseDuplicate(s, r) ==
  /\ pc[s] = "idle"
  /\ Occupied(derivedID("task", r.message))
  /\ request' = [request EXCEPT ![s] = r]
  /\ Deliver(s, "error", "duplicate", "done")
  /\ UNCHANGED <<registry, terminal, snapshot, ctxDone, counters>>

createWorkingTask(s, r) ==
  /\ pc[s] = "idle"
  /\ ~Occupied(derivedID("task", r.message))
  /\ tasks' = [tasks EXCEPT ![derivedID("task", r.message)] = s]
  /\ state' = [state EXCEPT ![s] = "working"]
  /\ request' = [request EXCEPT ![s] = r]
  /\ pc' = [pc EXCEPT ![s] = "clone"]
  /\ UNCHANGED <<closes, terminal, snapshot, ctxDone, events, counters>>

\* The first event is cloneTask(task.task), which reads the status without
\* holding mu while OnCancelTask may be writing it.  If the status changed
\* between the start and the end of the read, the copy is the old value, the
\* new one, or a string header with one word of each.
BeginClone(s) ==
  /\ pc[s] = "clone"
  /\ snapshot' = [snapshot EXCEPT ![s] = state[s]]
  /\ pc' = [pc EXCEPT ![s] = "cloning"]
  /\ UNCHANGED <<registry, request, terminal, ctxDone, events, counters>>

ClonedStates(before, after) ==
  IF before = after THEN {after} ELSE {before, after, "torn"}

\* Where a call goes once its first event was taken.
AfterTask(kind) ==
  CASE kind = "hold"        -> "hold"
    [] kind = "interrupted" -> "message"
    [] OTHER                -> "check-message"

YieldTask(s) ==
  /\ pc[s] = "cloning"
  /\ \/ \E st \in ClonedStates(snapshot[s], state[s]) :
          Deliver(s, "task", st, AfterTask(request[s].kind))
     \/ Refuse(s)
  /\ snapshot' = [snapshot EXCEPT ![s] = "none"]
  /\ UNCHANGED <<registry, request, terminal, ctxDone, counters>>

-----------------------------------------------------------------------------
(* The hold fixture: wait for the context or for a cancel request.         *)

taskCanceled(s) == closes[s] > 0

\* select took ctx.Done(), even if the task is canceled too.
HoldDisconnected(s) ==
  /\ pc[s] = "hold"
  /\ ctxDone[s]
  /\ pc' = [pc EXCEPT ![s] = "return"]
  /\ UNCHANGED <<registry, local, events, counters>>

\* Mutant: the stream of a canceled task just ends.
HoldCanceledSilently(s) ==
  /\ pc[s] = "hold"
  /\ taskCanceled(s)
  /\ terminal' = [terminal EXCEPT ![s] = TRUE]
  /\ pc' = [pc EXCEPT ![s] = "return"]
  /\ UNCHANGED <<registry, request, snapshot, ctxDone, events, counters>>

\* select took the cancel channel: a canceled status event is next.
HoldCanceled(s) ==
  /\ pc[s] = "hold"
  /\ taskCanceled(s)
  /\ terminal' = [terminal EXCEPT ![s] = TRUE]
  /\ pc' = [pc EXCEPT ![s] = "canceled"]
  /\ UNCHANGED <<registry, request, snapshot, ctxDone, events, counters>>

-----------------------------------------------------------------------------
(* The stream-success and interrupted fixtures: content, then the end.     *)

\* Mutant: the cancel channel is polled once, before the first content event.
CheckCanceledOnce(s, at, next) ==
  LET canceled == taskCanceled(s) /\ at = "check-message" IN
  /\ pc[s] = at
  /\ terminal' = [terminal EXCEPT ![s] = canceled]
  /\ pc' = [pc EXCEPT ![s] = IF canceled THEN "canceled" ELSE next]
  /\ UNCHANGED <<registry, request, snapshot, ctxDone, events, counters>>

\* The poll of the cancel channel before each content event of stream-success.
CheckCanceled(s, at, next) ==
  /\ pc[s] = at
  /\ IF taskCanceled(s)
     THEN /\ terminal' = [terminal EXCEPT ![s] = TRUE]
          /\ pc' = [pc EXCEPT ![s] = "canceled"]
     ELSE /\ pc' = [pc EXCEPT ![s] = next]
          /\ UNCHANGED terminal
  /\ UNCHANGED <<registry, request, snapshot, ctxDone, events, counters>>

CheckBeforeMessage(s)  == CheckCanceled(s, "check-message", "message")
CheckBeforeArtifact(s) == CheckCanceled(s, "check-artifact", "artifact")
CheckBeforeLast(s)     == CheckCanceled(s, "check-last", "last")

YieldMessage(s) ==
  Yield(s, "message", "message", "",
        IF request[s].kind = "interrupted" THEN "artifact" ELSE "check-artifact")

YieldArtifact(s) ==
  Yield(s, "artifact", "artifact", "",
        IF request[s].kind = "interrupted" THEN "return" ELSE "check-last")

YieldLastArtifact(s) == Yield(s, "last", "artifact", "", "complete")

\* Mutant: a task completes whatever happened to it.
completeAnyway(id) == IF tasks[id] = None THEN "lost" ELSE "completed"

\* What completeTask returns for the task registered under an identifier.
completeResult(id) ==
  IF tasks[id] = None THEN "lost"
  ELSE CASE state[tasks[id]] = "canceled" -> "canceled"
         [] state[tasks[id]] = "working"  -> "completed"
         [] OTHER                         -> "lost"

completeTask(s) ==
  LET result == completeResult(idOf(s)) IN
  /\ pc[s] = "complete"
  /\ state' = IF result = "completed" THEN [state EXCEPT ![tasks[idOf(s)]] = "completed"]
              ELSE state
  /\ terminal' = [terminal EXCEPT ![s] = result # "lost"]
  /\ pc' = [pc EXCEPT ![s] = result]
  /\ UNCHANGED <<tasks, closes, request, snapshot, ctxDone, events, counters>>

\* The last yield of a call; its result is ignored.
YieldEnd(s) ==
  /\ pc[s] \in Final \cup {"lost"}
  /\ \/ Deliver(s, IF pc[s] = "lost" THEN "error" ELSE "status", pc[s], "return")
     \/ Refuse(s)
  /\ UNCHANGED <<registry, local, counters>>

\* Mutant: a task that was canceled meanwhile is unregistered too.
removeAnyTask(id) == tasks' = [tasks EXCEPT ![id] = None]

\* removeWorkingTask, by identifier: only a task that is still working goes.
removeWorkingTask(id) ==
  tasks' = IF tasks[id] # None /\ state[tasks[id]] = "working"
           THEN [tasks EXCEPT ![id] = None]
           ELSE tasks

\* The deferred function.  A hold task stays registered for a later cancel.
Return(s) ==
  /\ pc[s] = "return"
  /\ IF ~terminal[s] /\ request[s].kind # "hold"
     THEN removeWorkingTask(idOf(s))
     ELSE UNCHANGED tasks
  /\ pc' = [pc EXCEPT ![s] = "done"]
  /\ UNCHANGED <<state, closes, local, events, counters>>

\* The client of a call goes away, or its connection breaks.
Disconnect(s) ==
  /\ pc[s] \notin {"idle", "done"}
  /\ ~ctxDone[s]
  /\ ctxDone' = [ctxDone EXCEPT ![s] = TRUE]
  /\ UNCHANGED <<registry, pc, request, terminal, snapshot, events, counters>>

-----------------------------------------------------------------------------
(* tasks/get, tasks/cancel and the cancel-observed fixture.                *)

\* A task is there only for the owner that created it.
Visible(ctx, id) == tasks[id] # None /\ owner(tasks[id]) = taskOwner(ctx)

\* A stored task has the one message that created it as its history.
HistoryLen == 1

\* OnGetTask changes nothing; a missing historyLength counts as a negative one.
OnGetTask(ctx, id, historyLength) ==
  IF historyLength < 0 THEN "invalid-params"
  ELSE IF ~Visible(ctx, id) THEN "not-found"
  ELSE IF historyLength > HistoryLen THEN "invalid-params"
  ELSE state[tasks[id]]

\* The request reached a task with this key, whatever becomes of the request.
Attempt(k) ==
  attempts' = IF k = None THEN attempts ELSE [attempts EXCEPT ![k] = @ + 1]

\* Mutant: the counter is a flag.
FlagCancellation(k) ==
  IF k = None THEN UNCHANGED <<cancellations, observed>>
  ELSE /\ attempts[k] < MaxCancels
       /\ cancellations' = [cancellations EXCEPT ![k] = 1]
       /\ UNCHANGED observed

\* The increment of Handler.cancellations, for a task that is observed.
CountCancellation(k) ==
  IF k = None THEN UNCHANGED <<cancellations, observed>>
  ELSE /\ attempts[k] < MaxCancels
       /\ cancellations' = [cancellations EXCEPT ![k] = @ + 1]
       /\ UNCHANGED observed

\* Mutant: a task that has ended can be canceled.
CancelAnyTask(ctx, id) ==
  LET stored == tasks[id] IN
  /\ Visible(ctx, id)
  /\ Attempt(cancelObservation(stored))
  /\ CountCancellation(cancelObservation(stored))
  /\ closes[stored] < 2
  /\ state' = [state EXCEPT ![stored] = "canceled"]
  /\ closes' = [closes EXCEPT ![stored] = @ + 1]
  /\ UNCHANGED <<tasks, pc, local, events>>

\* Mutant: the status is set and the cancel channel is left open.
CancelWithoutClose(ctx, id) ==
  LET stored == tasks[id] IN
  /\ Visible(ctx, id)
  /\ Attempt(cancelObservation(stored))
  /\ CountCancellation(cancelObservation(stored))
  /\ state' = [state EXCEPT ![stored] = IF @ = "working" THEN "canceled" ELSE @]
  /\ UNCHANGED <<tasks, closes, pc, local, events>>

\* Mutant: the request is counted after the check that may refuse it.
CancelCountedLate(ctx, id) ==
  LET stored == tasks[id] IN
  /\ Visible(ctx, id)
  /\ Attempt(cancelObservation(stored))
  /\ IF state[stored] = "working"
     THEN /\ CountCancellation(cancelObservation(stored))
          /\ state' = [state EXCEPT ![stored] = "canceled"]
          /\ closes' = [closes EXCEPT ![stored] = @ + 1]
     ELSE UNCHANGED <<state, closes, cancellations, observed>>
  /\ UNCHANGED <<tasks, pc, local, events>>

\* The request is counted first; then only a working task changes, and the caller
\* of another one is told that it is not cancelable.
OnCancelTask(ctx, id) ==
  LET stored == tasks[id] IN
  /\ Visible(ctx, id)
  /\ Attempt(cancelObservation(stored))
  /\ CountCancellation(cancelObservation(stored))
  /\ IF state[stored] = "working"
     THEN /\ state' = [state EXCEPT ![stored] = "canceled"]
          /\ closes' = [closes EXCEPT ![stored] = @ + 1]
     ELSE UNCHANGED <<state, closes>>
  /\ UNCHANGED <<tasks, pc, local, events>>

\* No such task for this caller: an error, and nothing changes.
CancelNotFound(ctx, id) ==
  /\ ~Visible(ctx, id)
  /\ UNCHANGED vars

\* Mutant: an observation uses up one count and leaves the rest.
takeOneCancellation(ctx, marker) ==
  LET k == cancellationObservationKey(ctx, marker) IN
  /\ observed' = [observed EXCEPT ![k] = @ + 1]
  /\ cancellations' = [cancellations EXCEPT ![k] = @ - 1]
  /\ UNCHANGED <<registry, pc, local, events, attempts>>

\* OnSendMessage with the cancel-observed fixture: read and delete the counter.
takeCancellationObservation(ctx, marker) ==
  LET k == cancellationObservationKey(ctx, marker) IN
  /\ observed' = [observed EXCEPT ![k] = @ + cancellations[k]]
  /\ cancellations' = [cancellations EXCEPT ![k] = 0]
  /\ UNCHANGED <<registry, pc, local, events, attempts>>

-----------------------------------------------------------------------------

\* What the goroutine of a started call does.
StreamStep(s) ==
  \/ BeginClone(s)
  \/ YieldTask(s)
  \/ HoldDisconnected(s)
  \/ HoldCanceled(s)
  \/ CheckBeforeMessage(s)
  \/ YieldMessage(s)
  \/ CheckBeforeArtifact(s)
  \/ YieldArtifact(s)
  \/ CheckBeforeLast(s)
  \/ YieldLastArtifact(s)
  \/ completeTask(s)
  \/ YieldEnd(s)
  \/ Return(s)

Next ==
  \/ \E s \in Streams :
       \/ RejectFixture(s)
       \/ \E r \in Requests : RefuseDuplicate(s, r) \/ createWorkingTask(s, r)
       \/ StreamStep(s)
       \/ Disconnect(s)
  \/ \E ctx \in Contexts :
       \/ \E id \in TaskIDs : OnCancelTask(ctx, id) \/ CancelNotFound(ctx, id)
       \/ \E marker \in Markers : takeCancellationObservation(ctx, marker)

\* Goroutines are scheduled, and a consumer takes the event it is offered or
\* notices that its context is done.  Nothing obliges a client to call.
Fairness == \A s \in Streams : WF_vars(StreamStep(s))

Spec == Init /\ [][Next]_vars /\ Fairness

-----------------------------------------------------------------------------
(* Properties.                                                             *)

live(s) == pc[s] \notin {"idle", "done"}

\* The final state that the last event of a call told its client, if it did.
outcomeTold(s) ==
  LET n == Len(events[s]) IN
  IF n > 0 /\ events[s][n].type = "status" THEN events[s][n].value ELSE "none"

PCs == {"idle", "clone", "cloning", "hold", "check-message", "message", "check-artifact",
        "artifact", "check-last", "last", "complete", "completed", "canceled", "lost",
        "return", "done"}

\* Type invariant of the registry, the calls, the counters and the histories.
TypeOK ==
  /\ tasks \in [TaskIDs -> Streams \cup {None}]
  /\ cancellations \in [ObservationKeys -> Nat]
  /\ observed \in [ObservationKeys -> Nat]
  /\ attempts \in [ObservationKeys -> Nat]
  /\ state \in [Streams -> TaskStates]
  /\ closes \in [Streams -> Nat]
  /\ pc \in [Streams -> PCs]
  /\ request \in [Streams -> Requests \cup {None}]
  /\ terminal \in [Streams -> BOOLEAN]
  /\ snapshot \in [Streams -> TaskStates]
  /\ ctxDone \in [Streams -> BOOLEAN]
  /\ events \in [Streams -> Seq(Event)]

\* While a call runs, the identifier it registered still names its own task:
\* completeTask and removeWorkingTask, which look the task up again by identifier
\* (handler.go:180, 127), cannot reach the task of a later call that reused the
\* message identifier, and "runtime task disappeared" cannot be returned.
StreamOwnsItsEntry == \A s \in Streams : live(s) => tasks[idOf(s)] = s

\* The cancel channel is closed exactly once and exactly for a canceled task: no
\* second close panics, and no canceled task leaves its stream waiting.
CancelSignalMatchesStatus ==
  \A s \in Streams : closes[s] = IF state[s] = "canceled" THEN 1 ELSE 0

\* Apart from hold tasks, which stay for a later cancel, a task that is registered
\* as working has a call at work on it: no early return leaves one behind.
NoAbandonedWork ==
  \A id \in TaskIDs :
    tasks[id] # None /\ state[tasks[id]] = "working"
      => live(tasks[id]) \/ request[tasks[id]].kind = "hold"

\* Once a stream told its client a final state, tasks/get answers that state to the
\* owner of the task for ever, and "not found" to everybody else, whatever
\* canceled, completed, ended or reused the message identifier in between.  The one
\* message of the task is all the history its owner may ask for: one more is refused.
FinalEventReadBack ==
  \A s \in Streams : outcomeTold(s) # "none" =>
    \A ctx \in Contexts, n \in 0 .. HistoryLen + 1 :
      OnGetTask(ctx, idOf(s), n) =
        CASE ctx # request[s].ctx -> "not-found"
          [] ctx = request[s].ctx /\ n <= HistoryLen -> outcomeTold(s)
          [] ctx = request[s].ctx /\ n > HistoryLen -> "invalid-params"

\* The content that a client got after its task was no longer working.
late(s) ==
  {i \in DOMAIN events[s] : events[s][i].type \in Content /\ events[s][i].stored # "working"}

plain(s) == request[s] # None /\ request[s].kind = "stream-success"

\* The poll of the cancel channel and the yield after it are not one step, so an
\* event may pass a cancel request; a second one may not.
AtMostOneContentAfterCancel ==
  \A s \in Streams : plain(s) => Cardinality(late(s)) <= 1

\* The strengthening of that: content that comes late shows a task that has ended, and
\* a call that has passed the poll has handed out none yet.
LateInv ==
  /\ AtMostOneContentAfterCancel
  /\ \A s \in Streams :
       late(s) # {} => /\ state[s] \in Final
                       /\ ~(plain(s) /\ pc[s] \in {"message", "artifact", "last"})

\* The strengthening under which the invariants above are inductive.  CallInv is
\* about a call, EntryInv about an entry of Handler.tasks, OutcomeInv about what
\* the last event of a call told its client.
CallInv(s) ==
  /\ live(s) => request[s] \in Requests /\ tasks[idOf(s)] = s /\ state[s] # "none"
  /\ state[s] \in Final => request[s] \in Requests /\ tasks[idOf(s)] = s
  /\ pc[s] = "idle" => state[s] = "none" /\ request[s] = None
  /\ state[s] = "completed" => pc[s] \in {"completed", "return", "done"}
  /\ pc[s] \in Final => state[s] = pc[s]
  /\ pc[s] # "lost"
  /\ terminal[s] => state[s] \in Final

EntryInv(id) ==
  tasks[id] # None =>
    /\ request[tasks[id]] \in Requests
    /\ idOf(tasks[id]) = id
    /\ state[tasks[id]] # "none"
    /\ pc[tasks[id]] # "idle"
    /\ state[tasks[id]] = "working" => live(tasks[id]) \/ request[tasks[id]].kind = "hold"

OutcomeInv(s) ==
  outcomeTold(s) # "none" =>
    /\ outcomeTold(s) = state[s]
    /\ state[s] \in Final
    /\ pc[s] \in {"return", "done"}

RegistryInv ==
  /\ TypeOK
  /\ CancelSignalMatchesStatus
  /\ \A s \in Streams : CallInv(s) /\ OutcomeInv(s)
  /\ \A id \in TaskIDs : EntryInv(id)

canceledUnder(k) == {s \in Streams : state[s] = "canceled" /\ cancelObservation(s) = k}

\* Every hold task that was canceled is accounted for under its key, in the counter
\* or in what cancel-observed calls returned: taking the count loses none.
CanceledTasksAreCounted ==
  \A k \in ObservationKeys :
    Cardinality(canceledUnder(k)) <= cancellations[k] + observed[k]

\* A cancel-observed call returns the "request count, including rejected duplicate
\* attempts" (runtime-b/README.md:103): every request that reached a task with a key,
\* refused as not cancelable or not, is in the counter or was returned, and once only.
EveryCancelIsObserved ==
  \A k \in ObservationKeys : cancellations[k] + observed[k] = attempts[k]

\* A registered task that is completed or canceled keeps its place and its state.
TerminalIsForever ==
  [][\A id \in TaskIDs :
       tasks[id] # None /\ state[tasks[id]] \in Final
         => tasks'[id] = tasks[id] /\ state'[tasks[id]] = state[tasks[id]]]_vars

\* A call ends unless it holds a task nobody cancels for a client that stays.
StreamsEnd ==
  \A s \in Streams :
    (live(s) /\ (request[s].kind # "hold" \/ state[s] = "canceled" \/ ctxDone[s]))
      ~> pc[s] = "done"

\* The client of a hold stream that stays hears of the cancellation.
CanceledHoldIsTold ==
  \A s \in Streams :
    (pc[s] = "hold" /\ state[s] = "canceled") ~> (outcomeTold(s) = "canceled" \/ ctxDone[s])

\* Expected by the stream tests: the first event shows the task as working.  The
\* clone at handler.go:131 is made without mu, beside the write at handler.go:234.
StreamOpensWithWorkingTask ==
  \A s \in Streams :
    events[s] # <<>> /\ events[s][1].type = "task" => events[s][1].value = "working"

-----------------------------------------------------------------------------
(* The registry implements the task contract.                              *)

\* A call that ended without an outcome gave its task up, unless it holds it.
taskStatus(s) ==
  IF state[s] = "working" /\ pc[s] = "done" /\ request[s].kind # "hold"
  THEN "dropped"
  ELSE state[s]

Contract ==
  INSTANCE TaskContract WITH
    Calls <- Streams, IDs <- TaskIDs, NoCall <- None,
    holder <- tasks,
    status <- [s \in Streams |-> taskStatus(s)],
    told   <- [s \in Streams |-> outcomeTold(s)]

\* Every behaviour of the registry and its goroutines is one of the contract.
ImplementsContract == Contract!Spec
=============================================================================
