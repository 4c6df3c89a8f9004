----------------------- MODULE RuntimeBTasksRefinement -----------------------
(***************************************************************************)
(* The registry of Runtime B, with its goroutines, locks and channels,     *)
(* implements the task contract.                                           *)
(***************************************************************************)
EXTENDS RuntimeBTasksProofs

\* Nothing that the contract knows of changes.
LEMMA ContractStutter ==
  ASSUME UNCHANGED tasks,
         \A t \in Streams : taskStatus(t)' = taskStatus(t) /\ outcomeTold(t)' = outcomeTold(t)
  PROVE  UNCHANGED Contract!vars
BY DEF Contract!vars

\* A call moves on without ending, and no event tells an outcome.
LEMMA MoveStutter ==
  ASSUME TypeOK, NEW s \in Streams, NEW next,
         live(s), next # "done",
         pc' = [pc EXCEPT ![s] = next],
         UNCHANGED <<registry, request>>,
         \A t \in Streams : outcomeTold(t)' = outcomeTold(t)
  PROVE  UNCHANGED Contract!vars
<1>1. UNCHANGED <<tasks, state>>
  BY DEF registry
<1>2. /\ pc'[s] = next
      /\ \A t \in Streams \ {s} : pc'[t] = pc[t]
  BY DEF TypeOK
<1>3. ASSUME NEW t \in Streams PROVE taskStatus(t)' = taskStatus(t)
  BY <1>1, <1>2 DEF taskStatus, live
<1> QED
  BY <1>1, <1>3, ContractStutter

\* An event that tells no outcome is delivered to a call that was told none.
LEMMA DeliverTellsNothing ==
  ASSUME RegistryInv, NEW s \in Streams, NEW type \in EventTypes \ {"status"},
         NEW value \in TaskStates \cup {"torn", "duplicate", "unsupported", "lost", ""},
         NEW next, pc[s] \notin {"return", "done"},
         Deliver(s, type, value, next) \/ Refuse(s)
  PROVE  \A t \in Streams : outcomeTold(t)' = outcomeTold(t)
<1>1. TypeOK /\ outcomeTold(s) = "none"
  BY DEF RegistryInv, OutcomeInv
<1>2. CASE Deliver(s, type, value, next)
  BY <1>1, <1>2, DeliverOutcome
<1>3. CASE Refuse(s)
  BY <1>3 DEF Refuse, outcomeTold
<1> QED
  BY <1>2, <1>3

\* Creating a task is Start.
LEMMA CreateStarts ==
  ASSUME RegistryInv, NEW s \in Streams, NEW r \in Requests, createWorkingTask(s, r)
  PROVE  Contract!Start(s, derivedID("task", r.message))
<1> DEFINE id0 == derivedID("task", r.message)
<1>1. TypeOK /\ CallInv(s)
  BY DEF RegistryInv
<1>2. tasks[id0] = None /\ tasks' = [tasks EXCEPT ![id0] = s]
  BY DEF createWorkingTask, Occupied
<1>3. /\ state[s] = "none" /\ state'[s] = "working" /\ pc'[s] = "clone"
      /\ \A t \in Streams \ {s} :
           state'[t] = state[t] /\ pc'[t] = pc[t] /\ request'[t] = request[t]
  BY <1>1 DEF createWorkingTask, CallInv, TypeOK
<1>4. taskStatus(s) = "none" /\ taskStatus(s)' = "working"
  BY <1>3 DEF taskStatus
<1>5. \A t \in Streams \ {s} : taskStatus(t)' = taskStatus(t)
  BY <1>3 DEF taskStatus
<1>6. \A t \in Streams : outcomeTold(t)' = outcomeTold(t)
  BY DEF createWorkingTask, outcomeTold
<1> QED
  BY <1>2, <1>4, <1>5, <1>6 DEF Contract!Start

\* Completing or canceling a working task is Finish.
LEMMA FinishStep ==
  ASSUME RegistryInv, NEW id \in TaskIDs, NEW outcome \in Final,
         tasks[id] # None, state[tasks[id]] = "working",
         state' = [state EXCEPT ![tasks[id]] = outcome],
         UNCHANGED <<tasks, request, events>>,
         live(tasks[id]) \/ request[tasks[id]].kind = "hold",
         \A t \in Streams : pc'[t] = "done" <=> pc[t] = "done"
  PROVE  Contract!Finish(id, outcome)
<1> DEFINE c == tasks[id]
<1>1. TypeOK /\ c \in Streams
  BY DEF RegistryInv, TypeOK
<1>2. taskStatus(c) = "working" /\ taskStatus(c)' = outcome
  BY <1>1 DEF taskStatus, live, TypeOK, Final
<1>3. \A t \in Streams \ {c} : taskStatus(t)' = taskStatus(t)
  BY <1>1 DEF taskStatus, TypeOK
<1>4. \A t \in Streams : outcomeTold(t)' = outcomeTold(t)
  BY DEF outcomeTold
<1> QED
  BY <1>1, <1>2, <1>3, <1>4 DEF Contract!Finish

LEMMA CompleteFinishes ==
  ASSUME RegistryInv, NEW s \in Streams, completeTask(s)
  PROVE  Contract!Finish(idOf(s), "completed") \/ UNCHANGED Contract!vars
<1>1. TypeOK /\ CallInv(s) /\ live(s) /\ pc[s] = "complete"
  BY DEF RegistryInv, completeTask, live
<1>2. /\ tasks[idOf(s)] = s /\ request[s] \in Requests
      /\ state[s] \in {"working", "canceled"}
  BY <1>1 DEF CallInv, TypeOK, TaskStates
<1>3. idOf(s) \in TaskIDs
  BY <1>2 DEF idOf, TaskIDs, Requests
<1>4. CASE state[s] = "working"
  <2>1. completeResult(idOf(s)) = "completed"
    BY <1>2, <1>4, Sentinel DEF completeResult
  <2>2. /\ state' = [state EXCEPT ![tasks[idOf(s)]] = "completed"]
        /\ UNCHANGED <<tasks, request, events>>
        /\ \A t \in Streams : pc'[t] = "done" <=> pc[t] = "done"
    BY <1>1, <2>1 DEF completeTask, TypeOK
  <2> QED
    BY <1>1, <1>2, <1>3, <1>4, <2>2, FinishStep, Sentinel DEF Final
<1>5. CASE state[s] = "canceled"
  <2>1. completeResult(idOf(s)) = "canceled"
    BY <1>2, <1>5, Sentinel DEF completeResult
  <2>2. /\ pc' = [pc EXCEPT ![s] = "canceled"]
        /\ UNCHANGED <<registry, request, events>>
    BY <2>1 DEF completeTask, registry
  <2>3. \A t \in Streams : outcomeTold(t)' = outcomeTold(t)
    BY <2>2 DEF outcomeTold
  <2> QED
    BY <1>1, <2>2, <2>3, MoveStutter
<1> QED
  BY <1>2, <1>4, <1>5

LEMMA CancelFinishes ==
  ASSUME RegistryInv, NEW ctx \in Contexts, NEW id \in TaskIDs, OnCancelTask(ctx, id)
  PROVE  Contract!Finish(id, "canceled") \/ UNCHANGED Contract!vars
<1>1. EntryInv(id) /\ tasks[id] # None
  BY DEF RegistryInv, OnCancelTask, Visible
<1>2. UNCHANGED <<tasks, pc, request, events>>
  BY DEF OnCancelTask, local
<1>3. CASE state[tasks[id]] = "working"
  <2>1. state' = [state EXCEPT ![tasks[id]] = "canceled"]
    BY <1>3 DEF OnCancelTask
  <2>2. live(tasks[id]) \/ request[tasks[id]].kind = "hold"
    BY <1>1, <1>3 DEF EntryInv
  <2> QED
    BY <1>1, <1>2, <1>3, <2>1, <2>2, FinishStep DEF Final
<1>4. CASE state[tasks[id]] # "working"
  <2>1. UNCHANGED state
    BY <1>4 DEF OnCancelTask
  <2>2. \A t \in Streams : taskStatus(t)' = taskStatus(t) /\ outcomeTold(t)' = outcomeTold(t)
    BY <1>2, <2>1 DEF taskStatus, outcomeTold
  <2> QED
    BY <1>2, <2>2, ContractStutter
<1> QED
  BY <1>3, <1>4

\* The deferred function is Drop when it unregisters the task.
LEMMA ReturnDrops ==
  ASSUME RegistryInv, NEW s \in Streams, Return(s)
  PROVE  Contract!Drop(idOf(s)) \/ UNCHANGED Contract!vars
<1>1. TypeOK /\ CallInv(s) /\ live(s) /\ pc[s] = "return"
  BY DEF RegistryInv, Return, live
<1>2. /\ tasks[idOf(s)] = s
      /\ UNCHANGED <<state, request>>
      /\ pc'[s] = "done"
      /\ \A t \in Streams \ {s} : pc'[t] = pc[t]
  BY <1>1 DEF CallInv, Return, TypeOK, local
<1>3. \A t \in Streams \ {s} : taskStatus(t)' = taskStatus(t)
  BY <1>2 DEF taskStatus
<1>4. \A t \in Streams : outcomeTold(t)' = outcomeTold(t)
  BY DEF Return, outcomeTold
<1>5. CASE state[s] = "working" /\ request[s].kind # "hold"
  <2>1. tasks' = [tasks EXCEPT ![idOf(s)] = None]
    BY <1>1, <1>2, <1>5, Sentinel DEF Return, removeWorkingTask, CallInv, Final
  <2>2. taskStatus(s) = "working" /\ taskStatus(s)' = "dropped"
    BY <1>1, <1>2, <1>5 DEF taskStatus
  <2> QED
    BY <1>2, <1>3, <1>4, <2>1, <2>2, Sentinel DEF Contract!Drop
<1>6. CASE ~(state[s] = "working" /\ request[s].kind # "hold")
  <2>1. UNCHANGED tasks
    BY <1>2, <1>6 DEF Return, removeWorkingTask
  <2>2. taskStatus(s)' = taskStatus(s)
    BY <1>2, <1>6 DEF taskStatus
  <2> QED
    BY <1>3, <1>4, <2>1, <2>2, ContractStutter
<1> QED
  BY <1>5, <1>6

\* The final status event is Tell.
LEMMA EndTells ==
  ASSUME RegistryInv, NEW s \in Streams, YieldEnd(s)
  PROVE  Contract!Tell(s) \/ UNCHANGED Contract!vars
<1>1. TypeOK /\ CallInv(s) /\ OutcomeInv(s)
  BY DEF RegistryInv
<1>2. pc[s] \in Final /\ state[s] = pc[s] /\ live(s) /\ outcomeTold(s) = "none"
  BY <1>1 DEF YieldEnd, CallInv, OutcomeInv, live, Final
<1>3. UNCHANGED <<registry, request>> /\ pc' = [pc EXCEPT ![s] = "return"]
  BY DEF YieldEnd, Deliver, Refuse, local
<1>4. CASE Deliver(s, "status", pc[s], "return")
  <2>1. /\ outcomeTold(s)' = pc[s]
        /\ \A t \in Streams \ {s} : outcomeTold(t)' = outcomeTold(t)
    BY <1>1, <1>2, <1>4, DeliverOutcome DEF EventTypes, TaskStates, Final
  <2>2. /\ UNCHANGED <<tasks, state, request>>
        /\ pc'[s] = "return"
        /\ \A t \in Streams \ {s} : pc'[t] = pc[t]
    BY <1>1, <1>3 DEF registry, TypeOK
  <2>3. \A t \in Streams : taskStatus(t)' = taskStatus(t)
    BY <1>2, <2>2 DEF taskStatus, live
  <2>4. taskStatus(s) = pc[s]
    BY <1>2 DEF taskStatus, live
  <2> QED
    BY <1>2, <2>1, <2>2, <2>3, <2>4 DEF Contract!Tell, Contract!Outcomes, Final
<1>5. CASE Refuse(s)
  <2>1. \A t \in Streams : outcomeTold(t)' = outcomeTold(t)
    BY <1>5 DEF Refuse, outcomeTold
  <2> QED
    BY <1>1, <1>2, <1>3, <2>1, MoveStutter
<1> QED
  BY <1>2, <1>4, <1>5 DEF YieldEnd, Final

\* The other steps of a stream say nothing about outcomes.
LEMMA StreamStutters ==
  ASSUME RegistryInv, NEW s \in Streams,
         StreamStep(s), ~completeTask(s), ~YieldEnd(s), ~Return(s)
  PROVE  UNCHANGED Contract!vars
<1>1. TypeOK
  BY DEF RegistryInv
<1>2. ASSUME live(s), NEW next, next # "done", pc' = [pc EXCEPT ![s] = next],
             UNCHANGED <<registry, request, events>>
      PROVE  UNCHANGED Contract!vars
  <2>1. \A t \in Streams : outcomeTold(t)' = outcomeTold(t)
    BY <1>2 DEF outcomeTold
  <2> QED
    BY <1>1, <1>2, <2>1, MoveStutter
<1>3. CASE BeginClone(s) \/ HoldDisconnected(s) \/ HoldCanceled(s)
  BY <1>2, <1>3 DEF BeginClone, HoldDisconnected, HoldCanceled, live, local
<1>4. ASSUME NEW at \in {"check-message", "check-artifact", "check-last"},
             NEW next \in {"message", "artifact", "last"},
             CheckCanceled(s, at, next)
      PROVE  UNCHANGED Contract!vars
  BY <1>2, <1>4 DEF CheckCanceled, live
<1>5. ASSUME NEW type \in EventTypes \ {"status"},
             NEW value \in TaskStates \cup {"torn", "duplicate", "unsupported", "lost", ""},
             NEW next, next # "done",
             pc[s] \notin {"idle", "return", "done"},
             Deliver(s, type, value, next) \/ Refuse(s),
             UNCHANGED <<registry, request>>
      PROVE  UNCHANGED Contract!vars
  <2>1. \A t \in Streams : outcomeTold(t)' = outcomeTold(t)
    BY <1>5, DeliverTellsNothing
  <2>2. live(s)
    BY <1>5 DEF live
  <2>3. pc' = [pc EXCEPT ![s] = next] \/ pc' = [pc EXCEPT ![s] = "return"]
    BY <1>5 DEF Deliver, Refuse
  <2> QED
    BY <1>1, <1>5, <2>1, <2>2, <2>3, MoveStutter
<1>6. CASE YieldTask(s)
  <2>1. AfterTask(request[s].kind) # "done"
    BY DEF AfterTask
  <2>2. ClonedStates(snapshot[s], state[s])
          \subseteq TaskStates \cup {"torn", "duplicate", "unsupported", "lost", ""}
    BY <1>1, ClonedStatesType
  <2>3. "task" \in EventTypes \ {"status"}
    BY DEF EventTypes
  <2>4. UNCHANGED <<registry, request>> /\ pc[s] = "cloning"
    BY <1>6 DEF YieldTask
  <2> QED
    BY <1>5, <1>6, <2>1, <2>2, <2>3, <2>4 DEF YieldTask
<1>7. ASSUME NEW at \in {"message", "artifact", "last"},
             NEW type \in Content,
             NEW next \in {"artifact", "check-artifact", "return", "check-last", "complete"},
             Yield(s, at, type, "", next)
      PROVE  UNCHANGED Contract!vars
  <2>1. type \in EventTypes \ {"status"}
    BY DEF Content, EventTypes
  <2>2. UNCHANGED <<registry, request>> /\ pc[s] \notin {"idle", "return", "done"}
    BY <1>7 DEF Yield, local
  <2> QED
    BY <1>5, <1>7, <2>1, <2>2 DEF Yield
<1>8. CASE YieldMessage(s) \/ YieldArtifact(s) \/ YieldLastArtifact(s)
  BY <1>7, <1>8 DEF YieldMessage, YieldArtifact, YieldLastArtifact, Content
<1> QED
  BY <1>3, <1>4, <1>6, <1>8
  DEF StreamStep, CheckBeforeMessage, CheckBeforeArtifact, CheckBeforeLast

\* A call that ends at once had no task.
LEMMA RejectStutters ==
  ASSUME RegistryInv, NEW s \in Streams, pc[s] = "idle",
         NEW value \in {"duplicate", "unsupported"},
         Deliver(s, "error", value, "done"),
         UNCHANGED registry,
         \A t \in Streams \ {s} : request'[t] = request[t]
  PROVE  UNCHANGED Contract!vars
<1>1. TypeOK /\ state[s] = "none"
  BY DEF RegistryInv, CallInv
<1>2. \A t \in Streams : outcomeTold(t)' = outcomeTold(t)
  BY DeliverTellsNothing DEF EventTypes
<1>3. UNCHANGED <<tasks, state>> /\ \A t \in Streams \ {s} : pc'[t] = pc[t]
  BY <1>1 DEF registry, Deliver, TypeOK
<1>4. \A t \in Streams : taskStatus(t)' = taskStatus(t)
  BY <1>1, <1>3 DEF taskStatus
<1> QED
  BY <1>2, <1>3, <1>4, ContractStutter

LEMMA QuietStutters ==
  ASSUME UNCHANGED <<registry, pc, request, events>>
  PROVE  UNCHANGED Contract!vars
<1>1. \A t \in Streams : taskStatus(t)' = taskStatus(t) /\ outcomeTold(t)' = outcomeTold(t)
  BY DEF taskStatus, outcomeTold, registry
<1> QED
  BY <1>1, ContractStutter DEF registry

LEMMA ContractStep == RegistryInv /\ [Next]_vars => [Contract!Next]_(Contract!vars)
<1> SUFFICES ASSUME RegistryInv, [Next]_vars
             PROVE  Contract!Next \/ UNCHANGED Contract!vars
  OBVIOUS
<1>1. ASSUME NEW s \in Streams, RejectFixture(s) PROVE UNCHANGED Contract!vars
  BY <1>1, RejectStutters DEF RejectFixture, local
<1>2. ASSUME NEW s \in Streams, NEW r \in Requests, RefuseDuplicate(s, r)
      PROVE  UNCHANGED Contract!vars
  <2>1. \A t \in Streams \ {s} : request'[t] = request[t]
    BY <1>2 DEF RefuseDuplicate, RegistryInv, TypeOK
  <2> QED
    BY <1>2, <2>1, RejectStutters DEF RefuseDuplicate
<1>3. ASSUME NEW s \in Streams, NEW r \in Requests, createWorkingTask(s, r)
      PROVE  Contract!Next
  <2>1. derivedID("task", r.message) \in TaskIDs
    BY DEF TaskIDs, Requests
  <2> QED
    BY <1>3, <2>1, CreateStarts DEF Contract!Next
<1>4. ASSUME NEW s \in Streams, StreamStep(s)
      PROVE  Contract!Next \/ UNCHANGED Contract!vars
  <2>1. CASE completeTask(s) \/ Return(s)
    <3>1. idOf(s) \in TaskIDs
      BY <2>1 DEF RegistryInv, CallInv, live, completeTask, Return, idOf, TaskIDs, Requests
    <3> QED
      BY <2>1, <3>1, CompleteFinishes, ReturnDrops DEF Contract!Next, Contract!Outcomes
  <2>2. CASE YieldEnd(s)
    BY <2>2, EndTells DEF Contract!Next
  <2>3. CASE ~completeTask(s) /\ ~YieldEnd(s) /\ ~Return(s)
    BY <1>4, <2>3, StreamStutters
  <2> QED
    BY <2>1, <2>2, <2>3
<1>5. ASSUME NEW s \in Streams, Disconnect(s) PROVE UNCHANGED Contract!vars
  BY <1>5, QuietStutters DEF Disconnect
<1>6. ASSUME NEW ctx \in Contexts, NEW id \in TaskIDs, OnCancelTask(ctx, id)
      PROVE  Contract!Next \/ UNCHANGED Contract!vars
  BY <1>6, CancelFinishes DEF Contract!Next, Contract!Outcomes
<1>7. ASSUME NEW ctx \in Contexts, NEW marker \in Markers,
             takeCancellationObservation(ctx, marker)
      PROVE  UNCHANGED Contract!vars
  BY <1>7, QuietStutters DEF takeCancellationObservation, local
<1>8. CASE UNCHANGED vars
  BY <1>8, QuietStutters DEF vars, local
<1> QED
  BY <1>1, <1>2, <1>3, <1>4, <1>5, <1>6, <1>7, <1>8 DEF Next, CancelNotFound

\* Every behaviour of the registry is one that the contract allows.
THEOREM RegistryImplementsContract == Spec => ImplementsContract
<1>1. Init => Contract!Init
  <2> SUFFICES ASSUME Init PROVE Contract!Init
    OBVIOUS
  <2>1. \A s \in Streams : taskStatus(s) = "none" /\ outcomeTold(s) = "none"
    BY DEF Init, taskStatus, outcomeTold
  <2> QED
    BY <2>1 DEF Init, Contract!Init
<1> QED
  BY <1>1, ContractStep, RegistryInvariant, PTL DEF Spec, ImplementsContract, Contract!Spec
=============================================================================
