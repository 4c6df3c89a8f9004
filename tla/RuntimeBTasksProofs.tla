------------------------- MODULE RuntimeBTasksProofs -------------------------
(***************************************************************************)
(* Theorems about RuntimeBTasks, for every set of calls, message           *)
(* identifiers, contexts and markers.                                      *)
(***************************************************************************)
EXTENDS RuntimeBTasks, FiniteSetTheorems, SequenceTheorems, TLAPS

\* A function to numbers, incremented at one argument.
LEMMA IncrementType ==
  ASSUME NEW K, NEW f \in [K -> Nat], NEW k
  PROVE  [f EXCEPT ![k] = @ + 1] \in [K -> Nat]
<1> DEFINE g == [f EXCEPT ![k] = @ + 1]
<1>1. ASSUME NEW x \in K PROVE g[x] \in Nat
  <2>1. CASE x = k
    <3>1. f[k] \in Nat
      BY <2>1
    <3> QED
      BY <2>1, <3>1
  <2>2. CASE x # k
    BY <2>2
  <2> QED
    BY <2>1, <2>2
<1> QED
  BY <1>1

\* The set of states in the sense of TypeOK is closed under appending an event.
LEMMA DeliverType ==
  ASSUME TypeOK,
         NEW s \in Streams, NEW type \in EventTypes,
         NEW value \in TaskStates \cup {"torn", "duplicate", "unsupported", "lost", ""},
         NEW next \in PCs,
         Deliver(s, type, value, next)
  PROVE  /\ events' \in [Streams -> Seq(Event)]
         /\ pc' \in [Streams -> PCs]
<1> DEFINE e == [type |-> type, value |-> value, stored |-> state[s]]
<1>1. e \in Event
  BY DEF TypeOK, Event
<1>2. events[s] \in Seq(Event)
  BY DEF TypeOK
<1>3. Append(events[s], e) \in Seq(Event)
  <2> HIDE DEF e
  <2> QED
    BY <1>1, <1>2, AppendProperties
<1>4. events' = [events EXCEPT ![s] = Append(events[s], e)]
  BY DEF Deliver
<1> QED
  BY <1>3, <1>4 DEF TypeOK, Deliver

LEMMA RefuseType ==
  ASSUME TypeOK, NEW s \in Streams, Refuse(s)
  PROVE  /\ events' \in [Streams -> Seq(Event)]
         /\ pc' \in [Streams -> PCs]
BY DEF Refuse, TypeOK, PCs

LEMMA YieldType ==
  ASSUME TypeOK,
         NEW s \in Streams, NEW at \in PCs, NEW type \in EventTypes,
         NEW value \in TaskStates \cup {"torn", "duplicate", "unsupported", "lost", ""},
         NEW next \in PCs,
         Yield(s, at, type, value, next)
  PROVE  TypeOK'
<1>1. /\ events' \in [Streams -> Seq(Event)]
      /\ pc' \in [Streams -> PCs]
  BY DeliverType, RefuseType DEF Yield
<1> QED
  BY <1>1 DEF Yield, TypeOK, registry, local, counters

\* A clone made beside a write still shows a state, or a torn one.
LEMMA ClonedStatesType ==
  ASSUME TypeOK, NEW s \in Streams
  PROVE  ClonedStates(snapshot[s], state[s])
           \subseteq TaskStates \cup {"torn", "duplicate", "unsupported", "lost", ""}
BY DEF ClonedStates, TypeOK

\* Every step of a stream, of another caller and of a client preserves the types.
LEMMA TypeStep == TypeOK /\ [Next]_vars => TypeOK'
<1> SUFFICES ASSUME TypeOK, [Next]_vars PROVE TypeOK'
  OBVIOUS
<1>1. ASSUME NEW s \in Streams, RejectFixture(s) PROVE TypeOK'
  <2>1. /\ events' \in [Streams -> Seq(Event)]
        /\ pc' \in [Streams -> PCs]
    BY <1>1, DeliverType DEF RejectFixture, EventTypes, PCs
  <2> QED
    BY <1>1, <2>1 DEF RejectFixture, TypeOK, registry, local, counters
<1>2. ASSUME NEW s \in Streams, NEW r \in Requests, RefuseDuplicate(s, r) PROVE TypeOK'
  <2>1. /\ events' \in [Streams -> Seq(Event)]
        /\ pc' \in [Streams -> PCs]
    BY <1>2, DeliverType DEF RefuseDuplicate, EventTypes, PCs
  <2> QED
    BY <1>2, <2>1 DEF RefuseDuplicate, TypeOK, registry, counters
<1>3. ASSUME NEW s \in Streams, NEW r \in Requests, createWorkingTask(s, r) PROVE TypeOK'
  BY <1>3 DEF createWorkingTask, TypeOK, TaskStates, PCs, counters
<1>4. ASSUME NEW s \in Streams, BeginClone(s) PROVE TypeOK'
  BY <1>4 DEF BeginClone, TypeOK, PCs, registry, counters
<1>5. ASSUME NEW s \in Streams, YieldTask(s) PROVE TypeOK'
  <2>1. AfterTask(request[s].kind) \in PCs
    BY DEF AfterTask, PCs
  <2>2. ClonedStates(snapshot[s], state[s])
          \subseteq TaskStates \cup {"torn", "duplicate", "unsupported", "lost", ""}
    BY ClonedStatesType
  <2>3. /\ events' \in [Streams -> Seq(Event)]
        /\ pc' \in [Streams -> PCs]
    BY <1>5, <2>1, <2>2, DeliverType, RefuseType DEF YieldTask, EventTypes
  <2> QED
    BY <1>5, <2>3 DEF YieldTask, TypeOK, TaskStates, registry, counters
<1>6. ASSUME NEW s \in Streams, HoldDisconnected(s) PROVE TypeOK'
  BY <1>6 DEF HoldDisconnected, TypeOK, PCs, registry, local, counters
<1>7. ASSUME NEW s \in Streams, HoldCanceled(s) PROVE TypeOK'
  BY <1>7 DEF HoldCanceled, TypeOK, PCs, registry, counters
<1>8. ASSUME NEW s \in Streams, NEW at, NEW next \in PCs, CheckCanceled(s, at, next)
      PROVE TypeOK'
  BY <1>8 DEF CheckCanceled, TypeOK, PCs, registry, counters
<1>9. ASSUME NEW s \in Streams, YieldMessage(s) \/ YieldArtifact(s) \/ YieldLastArtifact(s)
      PROVE TypeOK'
  BY <1>9, YieldType
  DEF YieldMessage, YieldArtifact, YieldLastArtifact, PCs, EventTypes
<1>10. ASSUME NEW s \in Streams, completeTask(s) PROVE TypeOK'
  <2>1. completeResult(idOf(s)) \in PCs
    BY DEF completeResult, PCs
  <2> QED
    BY <1>10, <2>1 DEF completeTask, TypeOK, TaskStates, counters
<1>11. ASSUME NEW s \in Streams, YieldEnd(s) PROVE TypeOK'
  <2>1. /\ events' \in [Streams -> Seq(Event)]
        /\ pc' \in [Streams -> PCs]
    BY <1>11, DeliverType, RefuseType DEF YieldEnd, EventTypes, PCs, TaskStates, Final
  <2> QED
    BY <1>11, <2>1 DEF YieldEnd, TypeOK, registry, local, counters
<1>12. ASSUME NEW s \in Streams, Return(s) PROVE TypeOK'
  BY <1>12 DEF Return, removeWorkingTask, TypeOK, PCs, local, counters
<1>13. ASSUME NEW s \in Streams, Disconnect(s) PROVE TypeOK'
  BY <1>13 DEF Disconnect, TypeOK, registry, counters
<1>14. ASSUME NEW ctx \in Contexts, NEW id \in TaskIDs, OnCancelTask(ctx, id) PROVE TypeOK'
  <2>1. cancellations' \in [ObservationKeys -> Nat] /\ observed' \in [ObservationKeys -> Nat]
    <3>1. ASSUME NEW k, CountCancellation(k)
          PROVE  /\ cancellations' \in [ObservationKeys -> Nat]
                 /\ observed' \in [ObservationKeys -> Nat]
      <4>1. cancellations \in [ObservationKeys -> Nat] /\ observed \in [ObservationKeys -> Nat]
        BY DEF TypeOK
      <4>2. [cancellations EXCEPT ![k] = @ + 1] \in [ObservationKeys -> Nat]
        BY <4>1, IncrementType
      <4> QED
        BY <3>1, <4>1, <4>2, Zenon DEF CountCancellation, counters
    <3> QED
      BY <1>14, <3>1 DEF OnCancelTask
  <2>2. state' \in [Streams -> TaskStates] /\ closes' \in [Streams -> Nat]
    <3>1. /\ state \in [Streams -> TaskStates]
          /\ [state EXCEPT ![tasks[id]] = "canceled"] \in [Streams -> TaskStates]
      BY DEF TypeOK, TaskStates
    <3>2. closes \in [Streams -> Nat]
      BY DEF TypeOK
    <3>3. [closes EXCEPT ![tasks[id]] = @ + 1] \in [Streams -> Nat]
      BY <3>2, IncrementType
    <3> QED
      BY <1>14, <3>1, <3>2, <3>3, Zenon DEF OnCancelTask
  <2>3. attempts' \in [ObservationKeys -> Nat]
    <3> DEFINE k == cancelObservation(tasks[id])
    <3>1. attempts \in [ObservationKeys -> Nat]
      BY DEF TypeOK
    <3>2. [attempts EXCEPT ![k] = @ + 1] \in [ObservationKeys -> Nat]
      BY <3>1, IncrementType
    <3> QED
      BY <1>14, <3>1, <3>2, Zenon DEF OnCancelTask, Attempt
  <2> QED
    BY <1>14, <2>1, <2>2, <2>3 DEF OnCancelTask, TypeOK, local
<1>15. ASSUME NEW ctx \in Contexts, NEW marker \in Markers,
              takeCancellationObservation(ctx, marker)
       PROVE TypeOK'
  <2> DEFINE k == cancellationObservationKey(ctx, marker)
  <2>1. k \in ObservationKeys
    BY DEF ObservationKeys
  <2>2. cancellations[k] \in Nat /\ observed[k] \in Nat
    BY <2>1 DEF TypeOK
  <2> QED
    BY <1>15, <2>1, <2>2 DEF takeCancellationObservation, TypeOK, registry, local
<1>16. CASE UNCHANGED vars
  BY <1>16 DEF TypeOK, vars, registry, local, counters
<1> QED
  BY <1>1, <1>2, <1>3, <1>4, <1>5, <1>6, <1>7, <1>8, <1>9, <1>10, <1>11, <1>12, <1>13,
     <1>14, <1>15, <1>16
  DEF Next, StreamStep, CheckBeforeMessage, CheckBeforeArtifact, CheckBeforeLast,
      CancelNotFound, PCs

\* The registry, the calls and the counters keep their types.
THEOREM TypeCorrect == Spec => []TypeOK
<1>1. Init => TypeOK
  BY DEF Init, TypeOK, TaskStates, PCs
<1> QED
  BY <1>1, TypeStep, PTL DEF Spec

-----------------------------------------------------------------------------
(* The inductive invariant of the registry.                                *)

\* The last element of a sequence after an element was appended.
LEMMA LastOfAppend ==
  ASSUME NEW S, NEW q \in Seq(S), NEW x \in S
  PROVE  LET r == Append(q, x) IN Len(r) > 0 /\ r[Len(r)] = x
<1>1. Len(q) \in Nat
  BY LenProperties
<1>2. Len(Append(q, x)) = Len(q) + 1
  BY AppendProperties
<1>3. Append(q, x)[Len(q) + 1] = x
  BY AppendProperties
<1> QED
  BY <1>1, <1>2, <1>3

\* What a call told its client after an event was delivered to another one or to it.
LEMMA DeliverOutcome ==
  ASSUME TypeOK,
         NEW s \in Streams, NEW type \in EventTypes,
         NEW value \in TaskStates \cup {"torn", "duplicate", "unsupported", "lost", ""},
         NEW next,
         Deliver(s, type, value, next)
  PROVE  /\ outcomeTold(s)' = IF type = "status" THEN value ELSE "none"
         /\ \A t \in Streams \ {s} : outcomeTold(t)' = outcomeTold(t)
<1> DEFINE e == [type |-> type, value |-> value, stored |-> state[s]]
<1>1. e \in Event /\ e.type = type /\ e.value = value
  BY DEF TypeOK, Event
<1>2. events[s] \in Seq(Event)
  BY DEF TypeOK
<1>3. /\ events' = [events EXCEPT ![s] = Append(events[s], e)]
      /\ events \in [Streams -> Seq(Event)]
  BY DEF Deliver, TypeOK
<1>4. events'[s] = Append(events[s], e) /\ \A t \in Streams \ {s} : events'[t] = events[t]
  BY <1>3
<1>5. Len(events'[s]) > 0 /\ events'[s][Len(events'[s])] = e
  <2>1. e \in Event /\ events'[s] = Append(events[s], e)
    BY <1>1, <1>4
  <2> HIDE DEF e
  <2> DEFINE r == Append(events[s], e)
  <2>2. Len(r) > 0 /\ r[Len(r)] = e
    BY <1>2, <2>1, LastOfAppend
  <2> QED
    BY <2>1, <2>2, Zenon
<1>6. outcomeTold(s)' = IF type = "status" THEN value ELSE "none"
  <2>1. events'[s][Len(events'[s])].type = type /\ events'[s][Len(events'[s])].value = value
    BY <1>1, <1>5, Zenon
  <2> HIDE DEF e
  <2> QED
    BY <1>5, <2>1 DEF outcomeTold
<1>7. ASSUME NEW t \in Streams \ {s} PROVE outcomeTold(t)' = outcomeTold(t)
  BY <1>4 DEF outcomeTold
<1> QED
  BY <1>6, <1>7

\* A running call moves on to next, and neither the registry nor any call's
\* parameters change.
LEMMA MoveStep ==
  ASSUME RegistryInv, TypeOK',
         NEW s \in Streams, live(s),
         NEW next \in PCs \ {"idle", "lost", "done"},
         pc' = [pc EXCEPT ![s] = next],
         UNCHANGED <<registry, request>>,
         next \in Final => state[s] = next,
         state[s] = "completed" => next \in {"completed", "return"},
         \A t \in Streams : terminal'[t] => terminal[t] \/ state[t] \in Final,
         \A t \in Streams \ {s} : outcomeTold(t)' = outcomeTold(t),
         OutcomeInv(s)'
  PROVE  RegistryInv'
<1>1. UNCHANGED <<tasks, state, closes, request>>
  BY DEF registry
<1>2. /\ pc'[s] = next
      /\ \A t \in Streams \ {s} : pc'[t] = pc[t]
  BY DEF RegistryInv, TypeOK
<1>3. CancelSignalMatchesStatus'
  BY <1>1 DEF RegistryInv, CancelSignalMatchesStatus
<1>4. ASSUME NEW t \in Streams PROVE CallInv(t)'
  <2>1. CallInv(t)
    BY DEF RegistryInv
  <2>2. CASE t = s
    BY <1>1, <1>2, <2>1, <2>2 DEF CallInv, live, idOf, Final
  <2>3. CASE t # s
    BY <1>1, <1>2, <2>1, <2>3 DEF CallInv, live, idOf, Final
  <2> QED
    BY <2>2, <2>3
<1>5. ASSUME NEW t \in Streams PROVE OutcomeInv(t)'
  <2>1. CASE t = s
    BY <2>1
  <2>2. CASE t # s
    BY <1>1, <1>2, <2>2 DEF RegistryInv, OutcomeInv
  <2> QED
    BY <2>1, <2>2
<1>6. ASSUME NEW id \in TaskIDs PROVE EntryInv(id)'
  <2>1. EntryInv(id)
    BY DEF RegistryInv
  <2>2. tasks[id] # None => tasks[id] \in Streams
    BY DEF RegistryInv, TypeOK
  <2> QED
    BY <1>1, <1>2, <2>1, <2>2 DEF EntryInv, live, idOf
<1> QED
  BY <1>3, <1>4, <1>5, <1>6 DEF RegistryInv

\* The consumer takes an event that tells no outcome, or refuses an event.
LEMMA YieldStep ==
  ASSUME RegistryInv, TypeOK',
         NEW s \in Streams, NEW type \in EventTypes \ {"status"},
         NEW value \in TaskStates \cup {"torn", "duplicate", "unsupported", "lost", ""},
         NEW next \in PCs \ ({"idle", "lost", "done"} \cup Final),
         live(s), pc[s] \notin {"completed", "return"},
         Deliver(s, type, value, next) \/ Refuse(s),
         UNCHANGED <<registry, request, terminal>>
  PROVE  RegistryInv'
<1>1. TypeOK /\ CallInv(s) /\ OutcomeInv(s)
  BY DEF RegistryInv
<1>2. state[s] # "completed"
  BY <1>1 DEF CallInv, live
<1>3. CASE Deliver(s, type, value, next)
  <2>1. /\ outcomeTold(s)' = "none"
        /\ \A t \in Streams \ {s} : outcomeTold(t)' = outcomeTold(t)
    BY <1>1, <1>3, DeliverOutcome
  <2>2. pc' = [pc EXCEPT ![s] = next]
    BY <1>3 DEF Deliver
  <2>3. OutcomeInv(s)'
    BY <2>1 DEF OutcomeInv
  <2> QED
    BY <1>2, <2>1, <2>2, <2>3, MoveStep
<1>4. CASE Refuse(s)
  <2>1. pc' = [pc EXCEPT ![s] = "return"] /\ UNCHANGED events
    BY <1>4 DEF Refuse
  <2>2. \A t \in Streams : outcomeTold(t)' = outcomeTold(t)
    BY <2>1 DEF outcomeTold
  <2>3. OutcomeInv(s)'
    BY <1>1, <2>1, <2>2 DEF OutcomeInv, TypeOK, registry
  <2> QED
    BY <1>2, <2>1, <2>2, <2>3, MoveStep DEF PCs, Final
<1> QED
  BY <1>3, <1>4

\* Steps of a running call that leave the registry alone.
LEMMA StreamMoves ==
  ASSUME RegistryInv, TypeOK', NEW s \in Streams,
         \/ BeginClone(s)
         \/ YieldTask(s)
         \/ HoldDisconnected(s)
         \/ HoldCanceled(s)
         \/ \E at \in {"check-message", "check-artifact", "check-last"},
               next \in {"message", "artifact", "last"} : CheckCanceled(s, at, next)
         \/ YieldMessage(s)
         \/ YieldArtifact(s)
         \/ YieldLastArtifact(s)
  PROVE  RegistryInv'
<1>1. /\ TypeOK
      /\ CallInv(s)
      /\ OutcomeInv(s)
      /\ closes[s] = IF state[s] = "canceled" THEN 1 ELSE 0
  BY DEF RegistryInv, CancelSignalMatchesStatus
<1>2. ASSUME pc[s] \notin {"idle", "done", "completed", "return"},
             NEW next \in PCs \ {"idle", "lost", "done", "completed"},
             pc' = [pc EXCEPT ![s] = next],
             next = "canceled" => state[s] = "canceled",
             UNCHANGED <<registry, request, events>>,
             \A t \in Streams : terminal'[t] => terminal[t] \/ state[t] \in Final
      PROVE  RegistryInv'
  <2>1. live(s) /\ state[s] # "completed"
    BY <1>1, <1>2 DEF CallInv, live
  <2>2. \A t \in Streams : outcomeTold(t)' = outcomeTold(t)
    BY <1>2 DEF outcomeTold
  <2>3. OutcomeInv(s)'
    BY <1>1, <1>2, <2>2 DEF OutcomeInv
  <2>4. next \in Final => state[s] = next
    BY <1>2 DEF Final
  <2> QED
    BY <1>2, <2>1, <2>2, <2>3, <2>4, MoveStep
<1>3. CASE BeginClone(s)
  BY <1>2, <1>3 DEF BeginClone, PCs
<1>4. CASE YieldTask(s)
  <2>1. AfterTask(request[s].kind) \in PCs \ ({"idle", "lost", "done"} \cup Final)
    BY DEF AfterTask, PCs, Final
  <2>2. ClonedStates(snapshot[s], state[s])
          \subseteq TaskStates \cup {"torn", "duplicate", "unsupported", "lost", ""}
    BY <1>1, ClonedStatesType
  <2>3. live(s) /\ pc[s] \notin {"completed", "return"}
    BY <1>4 DEF YieldTask, live
  <2>4. UNCHANGED <<registry, request, terminal>>
    BY <1>4 DEF YieldTask
  <2>5. "task" \in EventTypes \ {"status"}
    BY DEF EventTypes
  <2> QED
    BY <1>4, <2>1, <2>2, <2>3, <2>4, <2>5, YieldStep DEF YieldTask
<1>5. CASE HoldDisconnected(s)
  BY <1>2, <1>5 DEF HoldDisconnected, PCs, local
<1>6. CASE HoldCanceled(s)
  <2>1. state[s] = "canceled"
    BY <1>1, <1>6 DEF HoldCanceled, taskCanceled
  <2>2. \A t \in Streams : terminal'[t] => terminal[t] \/ state[t] \in Final
    BY <1>1, <1>6, <2>1 DEF HoldCanceled, TypeOK, Final
  <2> QED
    BY <1>2, <1>6, <2>1, <2>2 DEF HoldCanceled, PCs
<1>7. ASSUME NEW at \in {"check-message", "check-artifact", "check-last"},
             NEW next \in {"message", "artifact", "last"},
             CheckCanceled(s, at, next)
      PROVE  RegistryInv'
  <2>1. CASE taskCanceled(s)
    <3>1. state[s] = "canceled"
      BY <1>1, <2>1 DEF taskCanceled
    <3>2. \A t \in Streams : terminal'[t] => terminal[t] \/ state[t] \in Final
      BY <1>1, <1>7, <2>1, <3>1 DEF CheckCanceled, TypeOK, Final
    <3> QED
      BY <1>2, <1>7, <2>1, <3>1, <3>2 DEF CheckCanceled, PCs
  <2>2. CASE ~taskCanceled(s)
    BY <1>2, <1>7, <2>2 DEF CheckCanceled, PCs
  <2> QED
    BY <2>1, <2>2
<1>8. ASSUME NEW at \in {"message", "artifact", "last"},
             NEW type \in Content,
             NEW next \in {"artifact", "check-artifact", "return", "check-last", "complete"},
             Yield(s, at, type, "", next)
      PROVE  RegistryInv'
  <2>1. live(s) /\ pc[s] \notin {"completed", "return"}
    BY <1>8 DEF Yield, live
  <2>2. UNCHANGED <<registry, request, terminal>>
    BY <1>8 DEF Yield, local
  <2>3. /\ type \in EventTypes \ {"status"}
        /\ next \in PCs \ ({"idle", "lost", "done"} \cup Final)
    BY DEF Content, EventTypes, PCs, Final
  <2> QED
    BY <1>8, <2>1, <2>2, <2>3, YieldStep DEF Yield
<1>9. CASE YieldMessage(s)
  BY <1>8, <1>9 DEF YieldMessage, Content
<1>10. CASE YieldArtifact(s)
  BY <1>8, <1>10 DEF YieldArtifact, Content
<1>11. CASE YieldLastArtifact(s)
  BY <1>8, <1>11 DEF YieldLastArtifact, Content
<1> QED
  BY <1>3, <1>4, <1>5, <1>6, <1>7, <1>9, <1>10, <1>11

\* A call is refused, or its fixture is not a stream one: it ends at once.
LEMMA RejectStep ==
  ASSUME RegistryInv, TypeOK', NEW s \in Streams, pc[s] = "idle",
         NEW value \in {"duplicate", "unsupported"},
         Deliver(s, "error", value, "done"),
         UNCHANGED <<registry, terminal>>,
         \A t \in Streams \ {s} : request'[t] = request[t]
  PROVE  RegistryInv'
<1>1. TypeOK /\ CallInv(s) /\ OutcomeInv(s)
  BY DEF RegistryInv
<1>2. /\ outcomeTold(s)' = "none"
      /\ \A t \in Streams \ {s} : outcomeTold(t)' = outcomeTold(t)
  BY <1>1, DeliverOutcome DEF EventTypes
<1>3. /\ UNCHANGED <<tasks, state, closes, terminal>>
      /\ pc'[s] = "done"
      /\ \A t \in Streams \ {s} : pc'[t] = pc[t]
      /\ state[s] = "none"
  BY <1>1 DEF registry, Deliver, TypeOK, CallInv
<1>4. CancelSignalMatchesStatus'
  BY <1>3 DEF RegistryInv, CancelSignalMatchesStatus
<1>5. ASSUME NEW t \in Streams PROVE CallInv(t)'
  <2>1. CallInv(t)
    BY DEF RegistryInv
  <2>2. CASE t = s
    BY <1>3, <2>1, <2>2 DEF CallInv, live, idOf, Final
  <2>3. CASE t # s
    BY <1>3, <2>1, <2>3 DEF CallInv, live, idOf, Final
  <2> QED
    BY <2>2, <2>3
<1>6. ASSUME NEW t \in Streams PROVE OutcomeInv(t)'
  <2>1. CASE t = s
    BY <1>2, <2>1 DEF OutcomeInv
  <2>2. CASE t # s
    BY <1>2, <1>3, <2>2 DEF RegistryInv, OutcomeInv
  <2> QED
    BY <2>1, <2>2
<1>7. ASSUME NEW id \in TaskIDs PROVE EntryInv(id)'
  <2>1. EntryInv(id)
    BY DEF RegistryInv
  <2>2. tasks[id] # None => tasks[id] \in Streams
    BY <1>1 DEF TypeOK
  <2> QED
    BY <1>3, <2>1, <2>2 DEF EntryInv, live, idOf
<1> QED
  BY <1>4, <1>5, <1>6, <1>7 DEF RegistryInv

\* A task is created and registered.
LEMMA CreateStep ==
  ASSUME RegistryInv, TypeOK', NEW s \in Streams, NEW r \in Requests, createWorkingTask(s, r)
  PROVE  RegistryInv'
<1> DEFINE id0 == derivedID("task", r.message)
<1>1. TypeOK /\ CallInv(s) /\ OutcomeInv(s)
  BY DEF RegistryInv
<1>2. id0 \in TaskIDs
  BY DEF TaskIDs, Requests
<1>3. /\ pc[s] = "idle" /\ state[s] = "none" /\ tasks[id0] = None
      /\ UNCHANGED <<closes, terminal, events>>
      /\ request'[s] = r /\ pc'[s] = "clone" /\ state'[s] = "working"
      /\ tasks'[id0] = s
  BY <1>1, <1>2 DEF createWorkingTask, Occupied, TypeOK, CallInv
<1>4. \A t \in Streams \ {s} :
        request'[t] = request[t] /\ pc'[t] = pc[t] /\ state'[t] = state[t]
  BY <1>1 DEF createWorkingTask, TypeOK
<1>5. \A id \in TaskIDs \ {id0} : tasks'[id] = tasks[id]
  BY <1>1, <1>2 DEF createWorkingTask, TypeOK
<1>6. CancelSignalMatchesStatus'
  BY <1>3, <1>4 DEF RegistryInv, CancelSignalMatchesStatus
<1>7. ASSUME NEW t \in Streams PROVE CallInv(t)'
  <2>1. CallInv(t)
    BY DEF RegistryInv
  <2>2. CASE t = s
    BY <1>1, <1>3, <2>2 DEF CallInv, live, idOf, Final
  <2>3. CASE t # s
    <3>1. request[t] \in Requests => idOf(t) \in TaskIDs
      BY DEF idOf, TaskIDs, Requests
    <3>2. idOf(t)' = idOf(t)
      BY <1>4, <2>3 DEF idOf
    <3>3. request[t] \in Requests /\ tasks[idOf(t)] = t => tasks'[idOf(t)] = t
      BY <1>3, <1>5, <3>1, Sentinel
    <3> QED
      BY <1>3, <1>4, <2>1, <2>3, <3>2, <3>3 DEF CallInv, live
  <2> QED
    BY <2>2, <2>3
<1>8. ASSUME NEW t \in Streams PROVE OutcomeInv(t)'
  <2>1. outcomeTold(t)' = outcomeTold(t)
    BY <1>3 DEF outcomeTold
  <2>2. OutcomeInv(t)
    BY DEF RegistryInv
  <2>3. CASE t = s
    BY <1>3, <2>1, <2>2, <2>3 DEF OutcomeInv
  <2>4. CASE t # s
    BY <1>4, <2>1, <2>2, <2>4 DEF OutcomeInv
  <2> QED
    BY <2>3, <2>4
<1>9. ASSUME NEW id \in TaskIDs PROVE EntryInv(id)'
  <2>1. EntryInv(id)
    BY DEF RegistryInv
  <2>2. CASE id = id0
    BY <1>3, <2>2 DEF EntryInv, live, idOf
  <2>3. CASE id # id0
    <3>1. tasks'[id] = tasks[id] /\ (tasks[id] # None => tasks[id] \in Streams \ {s})
      BY <1>1, <1>3, <1>5, <2>1, <2>3 DEF EntryInv, TypeOK
    <3> QED
      BY <1>4, <2>1, <3>1 DEF EntryInv, live, idOf
  <2> QED
    BY <2>2, <2>3
<1> QED
  BY <1>6, <1>7, <1>8, <1>9 DEF RegistryInv

\* Where a call stands for the registry: its own task is there to complete, as
\* working or as canceled.
LEMMA CompleteStep ==
  ASSUME RegistryInv, TypeOK', NEW s \in Streams, completeTask(s)
  PROVE  RegistryInv'
<1>1. TypeOK /\ CallInv(s) /\ OutcomeInv(s)
  BY DEF RegistryInv
<1>2. /\ pc[s] = "complete" /\ tasks[idOf(s)] = s
      /\ state[s] \in {"working", "canceled"}
  BY <1>1 DEF completeTask, CallInv, live, TypeOK, TaskStates
<1>3. CASE state[s] = "working"
  <2>1. completeResult(idOf(s)) = "completed"
    BY <1>2, <1>3, Sentinel DEF completeResult
  <2>2. /\ UNCHANGED <<tasks, closes, request, events>>
        /\ pc'[s] = "completed" /\ state'[s] = "completed"
        /\ \A t \in Streams \ {s} : /\ pc'[t] = pc[t] /\ state'[t] = state[t]
                                    /\ terminal'[t] = terminal[t]
    BY <1>1, <1>2, <2>1 DEF completeTask, TypeOK
  <2>3. CancelSignalMatchesStatus'
    BY <1>3, <2>2 DEF RegistryInv, CancelSignalMatchesStatus
  <2>4. ASSUME NEW t \in Streams PROVE CallInv(t)' /\ OutcomeInv(t)'
    <3>1. CallInv(t) /\ OutcomeInv(t)
      BY DEF RegistryInv
    <3>2. outcomeTold(t)' = outcomeTold(t)
      BY <2>2 DEF outcomeTold
    <3>3. CASE t = s
      BY <1>2, <2>2, <3>1, <3>2, <3>3 DEF CallInv, OutcomeInv, live, idOf, Final
    <3>4. CASE t # s
      BY <2>2, <3>1, <3>2, <3>4 DEF CallInv, OutcomeInv, live, idOf
    <3> QED
      BY <3>3, <3>4
  <2>5. ASSUME NEW id \in TaskIDs PROVE EntryInv(id)'
    <3>1. EntryInv(id) /\ (tasks[id] # None => tasks[id] \in Streams)
      BY <1>1 DEF RegistryInv, TypeOK
    <3> QED
      BY <2>2, <3>1 DEF EntryInv, live, idOf
  <2> QED
    BY <2>3, <2>4, <2>5 DEF RegistryInv
<1>4. CASE state[s] = "canceled"
  <2>1. completeResult(idOf(s)) = "canceled"
    BY <1>2, <1>4, Sentinel DEF completeResult
  <2>2. /\ pc' = [pc EXCEPT ![s] = "canceled"]
        /\ UNCHANGED <<tasks, state, closes, request, events>>
        /\ \A t \in Streams : terminal'[t] => terminal[t] \/ state[t] \in Final
    BY <1>1, <1>4, <2>1 DEF completeTask, TypeOK, Final
  <2>3. \A t \in Streams : outcomeTold(t)' = outcomeTold(t)
    BY <2>2 DEF outcomeTold
  <2>4. OutcomeInv(s)'
    BY <1>1, <1>2, <2>3 DEF OutcomeInv
  <2>5. live(s) /\ UNCHANGED registry
    BY <1>2, <2>2 DEF live, registry
  <2> QED
    BY <1>4, <2>2, <2>3, <2>4, <2>5, MoveStep DEF PCs
<1> QED
  BY <1>2, <1>3, <1>4

\* The outcome is told, or the client has gone.
LEMMA EndStep ==
  ASSUME RegistryInv, TypeOK', NEW s \in Streams, YieldEnd(s)
  PROVE  RegistryInv'
<1>1. TypeOK /\ CallInv(s) /\ OutcomeInv(s)
  BY DEF RegistryInv
<1>2. pc[s] \in Final /\ state[s] = pc[s] /\ live(s)
  BY <1>1 DEF YieldEnd, CallInv, live, Final
<1>3. UNCHANGED <<registry, request, terminal>> /\ pc' = [pc EXCEPT ![s] = "return"]
  BY DEF YieldEnd, Deliver, Refuse, local
<1>4. UNCHANGED state /\ pc'[s] = "return"
  BY <1>1, <1>3 DEF registry, TypeOK
<1>5. CASE Deliver(s, "status", pc[s], "return")
  <2>1. /\ outcomeTold(s)' = pc[s]
        /\ \A t \in Streams \ {s} : outcomeTold(t)' = outcomeTold(t)
    BY <1>1, <1>2, <1>5, DeliverOutcome DEF EventTypes, TaskStates, Final
  <2>2. OutcomeInv(s)'
    BY <1>2, <1>4, <2>1 DEF OutcomeInv
  <2> QED
    BY <1>2, <1>3, <2>1, <2>2, MoveStep DEF PCs, Final
<1>6. CASE Refuse(s)
  <2>1. \A t \in Streams : outcomeTold(t)' = outcomeTold(t)
    BY <1>6 DEF Refuse, outcomeTold
  <2>2. OutcomeInv(s)'
    BY <1>1, <1>4, <2>1 DEF OutcomeInv
  <2> QED
    BY <1>2, <1>3, <2>1, <2>2, MoveStep DEF PCs, Final
<1> QED
  BY <1>2, <1>5, <1>6 DEF YieldEnd, Final

\* The deferred function of a call unregisters its own task, while it is working.
LEMMA ReturnStep ==
  ASSUME RegistryInv, TypeOK', NEW s \in Streams, Return(s)
  PROVE  RegistryInv'
<1> DEFINE removed == ~terminal[s] /\ request[s].kind # "hold" /\ state[s] = "working"
<1>1. TypeOK /\ CallInv(s) /\ OutcomeInv(s)
  BY DEF RegistryInv
<1>2. /\ pc[s] = "return" /\ tasks[idOf(s)] = s /\ request[s] \in Requests
      /\ state[s] # "none"
  BY <1>1 DEF Return, CallInv, live
<1>3. idOf(s) \in TaskIDs
  BY <1>2 DEF idOf, TaskIDs, Requests
<1>4. /\ UNCHANGED <<state, closes, request, terminal, events>>
      /\ pc'[s] = "done"
      /\ \A t \in Streams \ {s} : pc'[t] = pc[t]
  BY <1>1 DEF Return, TypeOK, local
<1>5. tasks' = IF removed THEN [tasks EXCEPT ![idOf(s)] = None] ELSE tasks
  BY <1>2, Sentinel DEF Return, removeWorkingTask
<1>6. /\ tasks'[idOf(s)] = IF removed THEN None ELSE s
      /\ \A id \in TaskIDs \ {idOf(s)} : tasks'[id] = tasks[id]
  BY <1>1, <1>2, <1>3, <1>5 DEF TypeOK
<1>7. CancelSignalMatchesStatus'
  BY <1>4 DEF RegistryInv, CancelSignalMatchesStatus
<1>8. ASSUME NEW t \in Streams PROVE CallInv(t)' /\ OutcomeInv(t)'
  <2>1. CallInv(t) /\ OutcomeInv(t)
    BY DEF RegistryInv
  <2>2. outcomeTold(t)' = outcomeTold(t) /\ idOf(t)' = idOf(t)
    BY <1>4 DEF outcomeTold, idOf
  <2>3. CASE t = s
    <3>1. ~live(s)'
      BY <1>4 DEF live
    <3>2. state[s] \in Final => tasks'[idOf(s)] = s
      BY <1>6 DEF Final
    <3> QED
      BY <1>2, <1>4, <2>1, <2>2, <2>3, <3>1, <3>2 DEF CallInv, OutcomeInv, Final
  <2>4. CASE t # s
    <3>1. request[t] \in Requests => idOf(t) \in TaskIDs
      BY DEF idOf, TaskIDs, Requests
    <3>2. request[t] \in Requests /\ tasks[idOf(t)] = t => tasks'[idOf(t)] = t
      BY <1>2, <1>6, <2>4, <3>1
    <3> QED
      BY <1>4, <2>1, <2>2, <2>4, <3>2 DEF CallInv, OutcomeInv, live
  <2> QED
    BY <2>3, <2>4
<1>9. ASSUME NEW id \in TaskIDs PROVE EntryInv(id)'
  <2>1. EntryInv(id) /\ (tasks[id] # None => tasks[id] \in Streams)
    BY <1>1 DEF RegistryInv, TypeOK
  <2>2. CASE id = idOf(s)
    <3>1. tasks'[id] # None => tasks'[id] = s /\ ~removed
      BY <1>6, <2>2
    <3>2. state[s] = "working" /\ ~removed => request[s].kind = "hold"
      BY <1>1 DEF CallInv, Final
    <3> QED
      BY <1>2, <1>4, <2>2, <3>1, <3>2 DEF EntryInv, live, idOf
  <2>3. CASE id # idOf(s)
    <3>1. tasks'[id] = tasks[id] /\ (tasks[id] # None => tasks[id] # s)
      BY <1>6, <2>1, <2>3 DEF EntryInv
    <3> QED
      BY <1>4, <2>1, <3>1 DEF EntryInv, live, idOf
  <2> QED
    BY <2>2, <2>3
<1> QED
  BY <1>7, <1>8, <1>9 DEF RegistryInv

\* A cancel request reaches the task an identifier names, and no other.
LEMMA CancelStep ==
  ASSUME RegistryInv, TypeOK', NEW ctx \in Contexts, NEW id \in TaskIDs, OnCancelTask(ctx, id)
  PROVE  RegistryInv'
<1> DEFINE c == tasks[id]
<1>1. TypeOK /\ EntryInv(id) /\ c # None /\ c \in Streams
  BY DEF RegistryInv, TypeOK, OnCancelTask, Visible
<1>2. CallInv(c) /\ OutcomeInv(c) /\ closes[c] = IF state[c] = "canceled" THEN 1 ELSE 0
  BY <1>1 DEF RegistryInv, CancelSignalMatchesStatus
<1>3. UNCHANGED <<tasks, pc, request, terminal, events>>
  BY DEF OnCancelTask, local
<1>4. CASE state[c] = "working"
  <2>1. /\ state'[c] = "canceled" /\ closes'[c] = 1
        /\ \A t \in Streams \ {c} : state'[t] = state[t] /\ closes'[t] = closes[t]
    BY <1>1, <1>2, <1>4 DEF OnCancelTask, TypeOK
  <2>2. CancelSignalMatchesStatus'
    BY <2>1 DEF RegistryInv, CancelSignalMatchesStatus
  <2>3. ASSUME NEW t \in Streams PROVE CallInv(t)' /\ OutcomeInv(t)'
    <3>1. CallInv(t) /\ OutcomeInv(t)
      BY DEF RegistryInv
    <3>2. outcomeTold(t)' = outcomeTold(t) /\ idOf(t)' = idOf(t)
      BY <1>3 DEF outcomeTold, idOf
    <3>3. CASE t = c
      BY <1>1, <1>2, <1>3, <1>4, <2>1, <3>1, <3>2, <3>3
      DEF CallInv, OutcomeInv, EntryInv, live, Final
    <3>4. CASE t # c
      BY <1>3, <2>1, <3>1, <3>2, <3>4 DEF CallInv, OutcomeInv, live
    <3> QED
      BY <3>3, <3>4
  <2>4. ASSUME NEW i \in TaskIDs PROVE EntryInv(i)'
    <3>1. EntryInv(i) /\ (tasks[i] # None => tasks[i] \in Streams)
      BY <1>1 DEF RegistryInv, TypeOK
    <3> QED
      BY <1>3, <2>1, <3>1 DEF EntryInv, live, idOf
  <2> QED
    BY <2>2, <2>3, <2>4 DEF RegistryInv
<1>5. CASE state[c] # "working"
  <2>1. UNCHANGED <<state, closes>>
    BY <1>5 DEF OnCancelTask
  <2> QED
    BY <1>3, <2>1
    DEF RegistryInv, CancelSignalMatchesStatus, CallInv, OutcomeInv, EntryInv, outcomeTold,
        live, idOf
<1> QED
  BY <1>4, <1>5

\* The registry and where each call stands are left alone.
LEMMA QuietStep ==
  ASSUME RegistryInv, TypeOK', UNCHANGED <<registry, pc, request, terminal, events>>
  PROVE  RegistryInv'
BY DEF RegistryInv, CancelSignalMatchesStatus, CallInv, OutcomeInv, EntryInv, outcomeTold,
       live, idOf, registry

LEMMA RegistryStep == RegistryInv /\ [Next]_vars => RegistryInv'
<1> SUFFICES ASSUME RegistryInv, [Next]_vars PROVE RegistryInv'
  OBVIOUS
<1>1. TypeOK'
  BY TypeStep DEF RegistryInv
<1>2. ASSUME NEW s \in Streams, RejectFixture(s) PROVE RegistryInv'
  BY <1>1, <1>2, RejectStep DEF RejectFixture, local
<1>3. ASSUME NEW s \in Streams, NEW r \in Requests, RefuseDuplicate(s, r) PROVE RegistryInv'
  <2>1. \A t \in Streams \ {s} : request'[t] = request[t]
    BY <1>3 DEF RefuseDuplicate, RegistryInv, TypeOK
  <2> QED
    BY <1>1, <1>3, <2>1, RejectStep DEF RefuseDuplicate
<1>4. ASSUME NEW s \in Streams, NEW r \in Requests, createWorkingTask(s, r) PROVE RegistryInv'
  BY <1>1, <1>4, CreateStep
<1>5. ASSUME NEW s \in Streams, StreamStep(s) PROVE RegistryInv'
  BY <1>1, <1>5, StreamMoves, CompleteStep, EndStep, ReturnStep
  DEF StreamStep, CheckBeforeMessage, CheckBeforeArtifact, CheckBeforeLast
<1>6. ASSUME NEW s \in Streams, Disconnect(s) PROVE RegistryInv'
  BY <1>1, <1>6, QuietStep DEF Disconnect
<1>7. ASSUME NEW ctx \in Contexts, NEW id \in TaskIDs, OnCancelTask(ctx, id)
      PROVE RegistryInv'
  BY <1>1, <1>7, CancelStep
<1>8. ASSUME NEW ctx \in Contexts, NEW marker \in Markers,
             takeCancellationObservation(ctx, marker)
      PROVE RegistryInv'
  BY <1>1, <1>8, QuietStep DEF takeCancellationObservation, local
<1>9. CASE UNCHANGED vars
  BY <1>1, <1>9, QuietStep DEF vars, local
<1> QED
  BY <1>2, <1>3, <1>4, <1>5, <1>6, <1>7, <1>8, <1>9 DEF Next, CancelNotFound

\* The inductive invariant holds in every reachable state.
THEOREM RegistryInvariant == Spec => []RegistryInv
<1>1. Init => RegistryInv
  <2> SUFFICES ASSUME Init PROVE RegistryInv
    OBVIOUS
  <2>1. TypeOK
    BY DEF Init, TypeOK, TaskStates, PCs
  <2>2. CancelSignalMatchesStatus
    BY DEF Init, CancelSignalMatchesStatus
  <2>3. ASSUME NEW s \in Streams PROVE CallInv(s)
    BY DEF Init, CallInv, live, Final
  <2>4. ASSUME NEW s \in Streams PROVE OutcomeInv(s)
    <3>1. events[s] = <<>>
      BY DEF Init
    <3> QED
      BY <3>1 DEF OutcomeInv, outcomeTold
  <2>5. ASSUME NEW id \in TaskIDs PROVE EntryInv(id)
    BY DEF Init, EntryInv
  <2> QED
    BY <2>1, <2>2, <2>3, <2>4, <2>5 DEF RegistryInv
<1> QED
  BY <1>1, RegistryStep, PTL DEF Spec

-----------------------------------------------------------------------------
(* What follows from it.                                                   *)

\* While a call runs, its identifier names its own task: no removal or completion by
\* identifier reaches the task of another call.
THEOREM StreamsOwnTheirEntries == Spec => []StreamOwnsItsEntry
<1>1. RegistryInv => StreamOwnsItsEntry
  BY DEF RegistryInv, CallInv, StreamOwnsItsEntry
<1> QED
  BY <1>1, RegistryInvariant, PTL

\* The cancel channel of a task is closed once if it is canceled, and else never.
THEOREM CancelClosesOnce == Spec => []CancelSignalMatchesStatus
<1>1. RegistryInv => CancelSignalMatchesStatus
  BY DEF RegistryInv
<1> QED
  BY <1>1, RegistryInvariant, PTL

\* No call leaves a working task behind, hold tasks apart.
THEOREM NothingIsAbandoned == Spec => []NoAbandonedWork
<1>1. RegistryInv => NoAbandonedWork
  BY DEF RegistryInv, EntryInv, NoAbandonedWork
<1> QED
  BY <1>1, RegistryInvariant, PTL

\* What the last event of a stream told is what tasks/get answers the owner of the
\* task, for ever, and nobody else is answered.
THEOREM FinalEventsReadBack == Spec => []FinalEventReadBack
<1>1. RegistryInv => FinalEventReadBack
  <2> SUFFICES ASSUME RegistryInv, NEW s \in Streams, outcomeTold(s) # "none",
                      NEW ctx \in Contexts, NEW n \in 0 .. HistoryLen + 1
               PROVE  OnGetTask(ctx, idOf(s), n) =
                        IF ctx # request[s].ctx THEN "not-found"
                        ELSE IF n <= HistoryLen THEN outcomeTold(s) ELSE "invalid-params"
    BY DEF FinalEventReadBack, HistoryLen
  <2>1. outcomeTold(s) = state[s] /\ request[s] \in Requests /\ tasks[idOf(s)] = s
    BY DEF RegistryInv, OutcomeInv, CallInv
  <2>2. request[s].ctx \in Contexts
    BY <2>1 DEF Requests
  <2>3. taskOwner(request[s].ctx) = taskOwner(ctx) <=> request[s].ctx = ctx
    BY <2>2, ContextsAssumption DEF taskOwner, observationOwner
  <2>4. Visible(ctx, idOf(s)) <=> ctx = request[s].ctx
    BY <2>1, <2>3, Sentinel DEF Visible, owner
  <2> QED
    BY <2>1, <2>4 DEF OnGetTask, HistoryLen
<1> QED
  BY <1>1, RegistryInvariant, PTL

\* A registered final task stays, in its state.
THEOREM FinalStatesStay == Spec => TerminalIsForever
<1> DEFINE Stays ==
      \A id \in TaskIDs :
        tasks[id] # None /\ state[tasks[id]] \in Final
          => tasks'[id] = tasks[id] /\ state'[tasks[id]] = state[tasks[id]]
<1>1. RegistryInv /\ [Next]_vars => [Stays]_vars
  <2> SUFFICES ASSUME RegistryInv, Next, NEW id \in TaskIDs,
                      tasks[id] # None, state[tasks[id]] \in Final
               PROVE  tasks'[id] = tasks[id] /\ state'[tasks[id]] = state[tasks[id]]
    OBVIOUS
  <2> DEFINE f == tasks[id]
  <2>1. TypeOK /\ EntryInv(id) /\ f \in Streams
    BY DEF RegistryInv, TypeOK
  <2>2. CASE UNCHANGED registry
    BY <2>2 DEF registry
  <2>3. ASSUME NEW s \in Streams, NEW r \in Requests, createWorkingTask(s, r)
        PROVE  tasks'[id] = f /\ state'[f] = state[f]
    <3>1. s # f
      BY <2>1, <2>3 DEF createWorkingTask, EntryInv
    <3>2. id # derivedID("task", r.message)
      BY <2>3 DEF createWorkingTask, Occupied
    <3> QED
      BY <2>1, <2>3, <3>1, <3>2 DEF createWorkingTask, TypeOK
  <2>4. ASSUME NEW s \in Streams, completeTask(s)
        PROVE  tasks'[id] = f /\ state'[f] = state[f]
    <3>1. tasks[idOf(s)] = s
      BY <2>4 DEF RegistryInv, CallInv, completeTask, live
    <3>2. completeResult(idOf(s)) = "completed" => s # f
      BY <2>1, <3>1, Sentinel DEF completeResult, Final
    <3> QED
      BY <2>1, <2>4, <3>1, <3>2 DEF completeTask, TypeOK
  <2>5. ASSUME NEW s \in Streams, Return(s)
        PROVE  tasks'[id] = f /\ state'[f] = state[f]
    BY <2>1, <2>5 DEF Return, removeWorkingTask, TypeOK, Final
  <2>6. ASSUME NEW ctx \in Contexts, NEW i \in TaskIDs, OnCancelTask(ctx, i)
        PROVE  tasks'[id] = f /\ state'[f] = state[f]
    BY <2>1, <2>6 DEF OnCancelTask, TypeOK, Final
  <2>7. ASSUME NEW s \in Streams,
               RejectFixture(s) \/ (\E r \in Requests : RefuseDuplicate(s, r))
                 \/ Disconnect(s)
        PROVE  UNCHANGED registry
    BY <2>7 DEF RejectFixture, RefuseDuplicate, Disconnect
  <2>8. ASSUME NEW s \in Streams, StreamStep(s), ~completeTask(s), ~Return(s)
        PROVE  UNCHANGED registry
    BY <2>8
    DEF StreamStep, BeginClone, YieldTask, HoldDisconnected, HoldCanceled,
        CheckBeforeMessage, CheckBeforeArtifact, CheckBeforeLast, CheckCanceled,
        YieldMessage, YieldArtifact, YieldLastArtifact, Yield, YieldEnd
  <2>9. ASSUME NEW ctx \in Contexts,
               (\E i \in TaskIDs : CancelNotFound(ctx, i))
                 \/ (\E marker \in Markers : takeCancellationObservation(ctx, marker))
        PROVE  UNCHANGED registry
    BY <2>9 DEF CancelNotFound, takeCancellationObservation, vars
  <2> QED
    BY <2>2, <2>3, <2>4, <2>5, <2>6, <2>7, <2>8, <2>9 DEF Next
<1> QED
  BY <1>1, RegistryInvariant, PTL DEF Spec, TerminalIsForever

-----------------------------------------------------------------------------
(* Content after a cancel request.                                         *)

LEMMA AppendElements ==
  ASSUME NEW S, NEW q \in Seq(S), NEW x \in S
  PROVE  /\ DOMAIN Append(q, x) = 1 .. Len(q) + 1
         /\ Append(q, x)[Len(q) + 1] = x
         /\ \A i \in 1 .. Len(q) : Append(q, x)[i] = q[i]
<1>1. Append(q, x) \in Seq(S) /\ Len(Append(q, x)) = Len(q) + 1
  BY AppendProperties
<1>2. DOMAIN Append(q, x) = 1 .. Len(q) + 1
  BY <1>1, LenProperties
<1>3. Append(q, x)[Len(q) + 1] = x
  BY AppendProperties
<1>4. \A i \in 1 .. Len(q) : Append(q, x)[i] = q[i]
  BY AppendProperties
<1> QED
  BY <1>2, <1>3, <1>4

LEMMA AtMostOne ==
  ASSUME NEW S, Cardinality(S) = 1
  PROVE  Cardinality(S) <= 1
OBVIOUS

LEMMA SingletonSize ==
  ASSUME NEW x
  PROVE  Cardinality({x}) <= 1
<1>1. Cardinality({x}) = 1
  BY FS_Singleton
<1> QED
  BY <1>1, AtMostOne, Zenon

LEMMA NextIndex ==
  ASSUME NEW k \in Nat
  PROVE  k + 1 \notin 1 .. k /\ 1 .. k + 1 = 1 .. k \cup {k + 1}
OBVIOUS

\* The late content among events.
lateIn(q) == {i \in DOMAIN q : q[i].type \in Content /\ q[i].stored # "working"}

LEMMA AppendLate ==
  ASSUME NEW q \in Seq(Event), NEW e \in Event
  PROVE  lateIn(Append(q, e)) = IF e.type \in Content /\ e.stored # "working"
                                THEN lateIn(q) \cup {Len(q) + 1}
                                ELSE lateIn(q)
<1>1. Len(q) \in Nat /\ DOMAIN q = 1 .. Len(q)
  BY LenProperties
<1> DEFINE n == Len(q) + 1
           r == Append(q, e)
<1>2. DOMAIN r = 1 .. n /\ r[n] = e /\ \A i \in 1 .. Len(q) : r[i] = q[i]
  BY AppendElements
<1>3. n \notin 1 .. Len(q) /\ 1 .. n = 1 .. Len(q) \cup {n}
  BY <1>1, NextIndex
<1> HIDE DEF n, r
<1>4. lateIn(r) = {i \in 1 .. Len(q) : q[i].type \in Content /\ q[i].stored # "working"}
                    \cup {i \in {n} : e.type \in Content /\ e.stored # "working"}
  BY <1>2, <1>3 DEF lateIn
<1>5. lateIn(q) = {i \in 1 .. Len(q) : q[i].type \in Content /\ q[i].stored # "working"}
  BY <1>1 DEF lateIn
<1>6. lateIn(r) = IF e.type \in Content /\ e.stored # "working" THEN lateIn(q) \cup {n}
                  ELSE lateIn(q)
  BY <1>4, <1>5
<1> QED
  BY <1>6 DEF n, r

\* What an event adds to the late content of the call it is handed to.
LEMMA DeliverLate ==
  ASSUME TypeOK,
         NEW s \in Streams, NEW type \in EventTypes,
         NEW value \in TaskStates \cup {"torn", "duplicate", "unsupported", "lost", ""},
         NEW next,
         Deliver(s, type, value, next)
  PROVE  /\ type \in Content /\ state[s] # "working" =>
              \E n : late(s)' = late(s) \cup {n}
         /\ ~(type \in Content /\ state[s] # "working") => late(s)' = late(s)
         /\ \A t \in Streams \ {s} : late(t)' = late(t)
<1> DEFINE e == [type |-> type, value |-> value, stored |-> state[s]]
           q == events[s]
<1>1. e \in Event /\ e.type = type /\ e.stored = state[s]
  BY DEF TypeOK, Event
<1>2. q \in Seq(Event) /\ events'[s] = Append(q, e)
  BY DEF TypeOK, Deliver
<1>3. \A t \in Streams \ {s} : late(t)' = late(t)
  <2>1. \A t \in Streams \ {s} : events'[t] = events[t]
    BY DEF TypeOK, Deliver
  <2> QED
    BY <2>1 DEF late
<1>4. late(s) = lateIn(q) /\ late(s)' = lateIn(events'[s])
  BY DEF late, lateIn
<1> HIDE DEF e, q
<1>5. lateIn(Append(q, e)) = IF e.type \in Content /\ e.stored # "working"
                             THEN lateIn(q) \cup {Len(q) + 1}
                             ELSE lateIn(q)
  BY <1>1, <1>2, AppendLate, Zenon
<1>6. late(s)' = IF type \in Content /\ state[s] # "working" THEN late(s) \cup {Len(q) + 1}
                 ELSE late(s)
  BY <1>1, <1>2, <1>4, <1>5, Zenon
<1> QED
  BY <1>3, <1>6, Zenon

\* Nothing late is handed out, and no call with late content starts to hand out more.
LEMMA NothingLate ==
  ASSUME LateInv,
         \A t \in Streams : late(t)' = late(t),
         \A t \in Streams : state[t] \in Final => state'[t] \in Final,
         \A t \in Streams : late(t) # {} =>
           /\ request'[t] = request[t]
           /\ pc'[t] = pc[t] \/ ~(plain(t) /\ pc'[t] \in {"message", "artifact", "last"})
  PROVE  LateInv'
<1>1. ASSUME NEW t \in Streams, plain(t)' PROVE Cardinality(late(t)') <= 1
  <2>1. CASE late(t) = {}
    <3>1. late(t)' = {}
      BY <2>1
    <3> QED
      BY <3>1, FS_EmptySet
  <2>2. CASE late(t) # {}
    <3>1. plain(t)
      BY <1>1, <2>2 DEF plain
    <3>2. late(t)' = late(t) /\ Cardinality(late(t)) <= 1
      BY <3>1 DEF LateInv, AtMostOneContentAfterCancel
    <3> QED
      BY <3>2, Zenon
  <2> QED
    BY <2>1, <2>2
<1>2. ASSUME NEW t \in Streams, late(t)' # {}
      PROVE  state'[t] \in Final /\ ~(plain(t)' /\ pc'[t] \in {"message", "artifact", "last"})
  BY <1>2 DEF LateInv, plain
<1> QED
  BY <1>1, <1>2 DEF LateInv, AtMostOneContentAfterCancel

\* One content event of a running call.
LEMMA YieldLate ==
  ASSUME RegistryInv, LateInv, NEW s \in Streams,
         NEW at \in {"message", "artifact", "last"}, NEW type \in Content,
         NEW next \in PCs, Yield(s, at, type, "", next),
         plain(s) => next \notin {"message", "artifact", "last"}
  PROVE  LateInv'
<1>1. /\ TypeOK /\ CallInv(s) /\ pc[s] = at
      /\ UNCHANGED <<state, request>>
  BY DEF RegistryInv, Yield, registry, local
<1>2. state[s] # "none"
  BY <1>1 DEF CallInv, live
<1>3. \A t \in Streams \ {s} : pc'[t] = pc[t]
  BY <1>1 DEF Yield, Deliver, Refuse, TypeOK
<1>4. CASE Refuse(s)
  <2>1. pc'[s] = "return" /\ \A t \in Streams : late(t)' = late(t)
    BY <1>1, <1>4 DEF Refuse, TypeOK, late
  <2> QED
    BY <1>1, <1>3, <2>1, NothingLate
<1>5. CASE Deliver(s, type, "", next)
  <2>1. /\ state[s] # "working" => \E n : late(s)' = late(s) \cup {n}
        /\ state[s] = "working" => late(s)' = late(s)
        /\ \A t \in Streams \ {s} : late(t)' = late(t)
    <3>1. type \in EventTypes /\ "" \in TaskStates \cup {"torn", "duplicate", "unsupported", "lost", ""}
      BY DEF Content, EventTypes
    <3> QED
      BY <1>1, <1>5, <3>1, DeliverLate, Zenon
  <2>2. pc'[s] = next
    BY <1>1, <1>5 DEF Deliver, TypeOK
  <2>3. CASE state[s] = "working"
    BY <1>1, <1>3, <2>1, <2>2, <2>3, NothingLate
  <2>4. CASE state[s] # "working"
    <3>1. state[s] \in Final
      BY <1>1, <1>2, <2>4 DEF TypeOK, TaskStates, Final
    <3>2. PICK n : late(s)' = late(s) \cup {n}
      BY <2>1, <2>4
    <3>3. ASSUME plain(s)' PROVE Cardinality(late(s)') <= 1
      <4>1. late(s) = {}
        BY <1>1, <3>3 DEF LateInv, plain
      <4>2. late(s)' = {n}
        BY <3>2, <4>1
      <4>3. Cardinality({n}) <= 1
        BY SingletonSize, Zenon
      <4> QED
        BY <4>2, <4>3, Zenon
    <3>4. ASSUME NEW t \in Streams \ {s}, plain(t)' PROVE Cardinality(late(t)') <= 1
      <4>1. late(t)' = late(t) /\ plain(t)
        BY <1>1, <2>1, <3>4 DEF plain
      <4>2. Cardinality(late(t)) <= 1
        BY <4>1 DEF LateInv, AtMostOneContentAfterCancel
      <4> QED
        BY <4>1, <4>2, Zenon
    <3>5. AtMostOneContentAfterCancel'
      BY <3>3, <3>4 DEF AtMostOneContentAfterCancel
    <3>6. ASSUME NEW t \in Streams, late(t)' # {}
          PROVE  state'[t] \in Final /\ ~(plain(t)' /\ pc'[t] \in {"message", "artifact", "last"})
      <4>1. CASE t = s
        BY <1>1, <2>2, <3>1, <4>1 DEF plain
      <4>2. CASE t # s
        BY <1>1, <1>3, <2>1, <3>6, <4>2 DEF LateInv, plain
      <4> QED
        BY <4>1, <4>2
    <3> QED
      BY <3>5, <3>6 DEF LateInv
  <2> QED
    BY <2>3, <2>4
<1> QED
  BY <1>4, <1>5 DEF Yield

\* A call that hands out no content, or moves on without an event.
LEMMA MoveLate ==
  ASSUME RegistryInv, LateInv, NEW s \in Streams, NEW next,
         pc' = [pc EXCEPT ![s] = next], late(s) # {} /\ plain(s) => next \notin {"message", "artifact", "last"},
         \A t \in Streams : late(t)' = late(t),
         \A t \in Streams : state[t] \in Final => state'[t] \in Final,
         UNCHANGED request
  PROVE  LateInv'
<1>1. pc'[s] = next /\ \A t \in Streams \ {s} : pc'[t] = pc[t]
  BY DEF RegistryInv, TypeOK
<1> QED
  BY <1>1, NothingLate

\* The end of a call's first event, or of its last one.
LEMMA EventLate ==
  ASSUME RegistryInv, LateInv, NEW s \in Streams, NEW type \in EventTypes \ Content,
         NEW value \in TaskStates \cup {"torn", "duplicate", "unsupported", "lost", ""},
         NEW next, Deliver(s, type, value, next) \/ Refuse(s),
         plain(s) => next \notin {"message", "artifact", "last"},
         UNCHANGED <<state, request>>
  PROVE  LateInv'
<1>1. CASE Deliver(s, type, value, next)
  <2>1. \A t \in Streams : late(t)' = late(t)
    BY <1>1, DeliverLate DEF RegistryInv
  <2> QED
    BY <1>1, <2>1, MoveLate DEF Deliver
<1>2. CASE Refuse(s)
  <2>1. \A t \in Streams : late(t)' = late(t)
    BY <1>2 DEF Refuse, late
  <2> QED
    BY <1>2, <2>1, MoveLate DEF Refuse
<1> QED
  BY <1>1, <1>2

\* The poll lets a call go on to content only while its task is working.
LEMMA PollLate ==
  ASSUME RegistryInv, LateInv, NEW s \in Streams,
         NEW at \in {"check-message", "check-artifact", "check-last"},
         NEW next, CheckCanceled(s, at, next)
  PROVE  LateInv'
<1>1. /\ TypeOK /\ CallInv(s) /\ pc[s] = at
      /\ closes[s] = IF state[s] = "canceled" THEN 1 ELSE 0
  BY DEF RegistryInv, CheckCanceled, CancelSignalMatchesStatus
<1>2. UNCHANGED <<state, request, events>>
  BY DEF CheckCanceled, registry
<1>3. \A t \in Streams : late(t)' = late(t)
  BY <1>2 DEF late
<1>4. CASE taskCanceled(s)
  <2>1. pc' = [pc EXCEPT ![s] = "canceled"]
    BY <1>4 DEF CheckCanceled
  <2> QED
    BY <1>2, <1>3, <2>1, MoveLate
<1>5. CASE ~taskCanceled(s)
  <2>1. state[s] \notin Final
    BY <1>1, <1>5 DEF taskCanceled, CallInv, Final
  <2>2. late(s) = {} /\ pc' = [pc EXCEPT ![s] = next]
    BY <1>5, <2>1 DEF LateInv, CheckCanceled
  <2> QED
    BY <1>2, <1>3, <2>2, MoveLate
<1> QED
  BY <1>4, <1>5

\* A call that has not started has handed out nothing late.
LEMMA IdleLate ==
  ASSUME RegistryInv, LateInv, NEW s \in Streams, pc[s] = "idle"
  PROVE  late(s) = {} /\ state[s] = "none"
BY DEF RegistryInv, LateInv, CallInv, Final

LEMMA StreamLate ==
  ASSUME RegistryInv, LateInv, NEW s \in Streams, StreamStep(s)
  PROVE  LateInv'
<1>1. TypeOK /\ CallInv(s)
  BY DEF RegistryInv
<1>2. ASSUME NEW next \in PCs \ {"message", "artifact", "last"},
             pc' = [pc EXCEPT ![s] = next], UNCHANGED <<state, request, events>>
      PROVE  LateInv'
  <2>1. \A t \in Streams : late(t)' = late(t)
    BY <1>2 DEF late
  <2> QED
    BY <1>2, <2>1, MoveLate
<1>3. CASE BeginClone(s)
  BY <1>2, <1>3 DEF BeginClone, registry, PCs
<1>4. CASE YieldTask(s)
  <2>1. ClonedStates(snapshot[s], state[s])
          \subseteq TaskStates \cup {"torn", "duplicate", "unsupported", "lost", ""}
    BY <1>1, ClonedStatesType
  <2>2. plain(s) => AfterTask(request[s].kind) \notin {"message", "artifact", "last"}
    BY DEF plain, AfterTask
  <2>3. UNCHANGED <<state, request>> /\ "task" \in EventTypes \ Content
    BY <1>4 DEF YieldTask, registry, EventTypes, Content
  <2> QED
    BY <1>4, <2>1, <2>2, <2>3, EventLate DEF YieldTask
<1>5. CASE HoldDisconnected(s)
  BY <1>2, <1>5 DEF HoldDisconnected, registry, local, PCs
<1>6. CASE HoldCanceled(s)
  BY <1>2, <1>6 DEF HoldCanceled, registry, PCs
<1>7. CASE CheckBeforeMessage(s) \/ CheckBeforeArtifact(s) \/ CheckBeforeLast(s)
  BY <1>7, PollLate DEF CheckBeforeMessage, CheckBeforeArtifact, CheckBeforeLast
<1>8. CASE YieldMessage(s)
  BY <1>8, YieldLate DEF YieldMessage, Content, PCs, plain
<1>9. CASE YieldArtifact(s)
  BY <1>9, YieldLate DEF YieldArtifact, Content, PCs, plain
<1>10. CASE YieldLastArtifact(s)
  BY <1>10, YieldLate DEF YieldLastArtifact, Content, PCs, plain
<1>11. CASE completeTask(s)
  <2>1. completeResult(idOf(s)) \in {"completed", "canceled", "lost"}
    BY DEF completeResult
  <2>2. UNCHANGED <<request, events>> /\ pc' = [pc EXCEPT ![s] = completeResult(idOf(s))]
    BY <1>11 DEF completeTask
  <2>3. \A t \in Streams : late(t)' = late(t)
    BY <2>2 DEF late
  <2>4. \A t \in Streams : state[t] \in Final => state'[t] \in Final
    BY <1>1, <1>11 DEF completeTask, TypeOK, Final
  <2> QED
    BY <2>1, <2>2, <2>3, <2>4, MoveLate
<1>12. CASE YieldEnd(s)
  <2>1. UNCHANGED <<state, request>> /\ {"status", "error"} \subseteq EventTypes \ Content
    BY <1>12 DEF YieldEnd, registry, local, EventTypes, Content
  <2>2. pc[s] \in TaskStates \cup {"torn", "duplicate", "unsupported", "lost", ""}
    BY <1>12 DEF YieldEnd, Final, TaskStates
  <2> QED
    BY <1>12, <2>1, <2>2, EventLate DEF YieldEnd
<1>13. CASE Return(s)
  BY <1>2, <1>13 DEF Return, local, PCs
<1> QED
  BY <1>3, <1>4, <1>5, <1>6, <1>7, <1>8, <1>9, <1>10, <1>11, <1>12, <1>13 DEF StreamStep

LEMMA LateStep == RegistryInv /\ LateInv /\ [Next]_vars => LateInv'
<1> SUFFICES ASSUME RegistryInv, LateInv, [Next]_vars PROVE LateInv'
  OBVIOUS
<1>1. TypeOK
  BY DEF RegistryInv
<1>2. ASSUME NEW s \in Streams, RejectFixture(s) PROVE LateInv'
  BY <1>2, EventLate DEF RejectFixture, registry, local, EventTypes, Content
<1>3. ASSUME NEW s \in Streams, NEW r \in Requests, RefuseDuplicate(s, r) PROVE LateInv'
  <2>1. /\ late(s) = {} /\ UNCHANGED state
        /\ \A t \in Streams \ {s} : request'[t] = request[t] /\ pc'[t] = pc[t]
    BY <1>1, <1>3, IdleLate DEF RefuseDuplicate, Deliver, TypeOK, registry
  <2>2. \A t \in Streams : late(t)' = late(t)
    BY <1>1, <1>3, DeliverLate DEF RefuseDuplicate, EventTypes, Content
  <2> QED
    BY <2>1, <2>2, NothingLate
<1>4. ASSUME NEW s \in Streams, NEW r \in Requests, createWorkingTask(s, r) PROVE LateInv'
  <2>1. /\ late(s) = {} /\ state[s] = "none" /\ UNCHANGED events
        /\ \A t \in Streams \ {s} :
             request'[t] = request[t] /\ pc'[t] = pc[t] /\ state'[t] = state[t]
    BY <1>1, <1>4, IdleLate DEF createWorkingTask, TypeOK
  <2>2. \A t \in Streams : late(t)' = late(t)
    BY <2>1 DEF late
  <2> QED
    BY <2>1, <2>2, NothingLate DEF Final
<1>5. ASSUME NEW s \in Streams, StreamStep(s) PROVE LateInv'
  BY <1>5, StreamLate
<1>6. ASSUME UNCHANGED <<pc, request, events>>,
             \A t \in Streams : state[t] \in Final => state'[t] \in Final
      PROVE  LateInv'
  <2>1. \A t \in Streams : late(t)' = late(t)
    BY <1>6 DEF late
  <2> QED
    BY <1>6, <2>1, NothingLate
<1>7. ASSUME NEW s \in Streams, Disconnect(s) PROVE LateInv'
  BY <1>6, <1>7 DEF Disconnect, registry
<1>8. ASSUME NEW ctx \in Contexts, NEW id \in TaskIDs, OnCancelTask(ctx, id) PROVE LateInv'
  <2>1. \A t \in Streams : state[t] \in Final => state'[t] \in Final
    BY <1>1, <1>8 DEF OnCancelTask, TypeOK, Final
  <2> QED
    BY <1>6, <1>8, <2>1 DEF OnCancelTask, local
<1>9. ASSUME NEW ctx \in Contexts, NEW marker \in Markers,
             takeCancellationObservation(ctx, marker)
      PROVE LateInv'
  BY <1>6, <1>9 DEF takeCancellationObservation, registry, local
<1>10. CASE UNCHANGED vars
  BY <1>6, <1>10 DEF vars, registry, local
<1> QED
  BY <1>2, <1>3, <1>4, <1>5, <1>7, <1>8, <1>9, <1>10 DEF Next, CancelNotFound

\* Content that comes late shows a task that has ended, and no call is about to hand out
\* more of it.
THEOREM LateContents == Spec => []LateInv
<1>1. Init => LateInv
  <2>1. ASSUME Init, NEW s \in Streams PROVE late(s) = {} /\ ~plain(s)
    BY <2>1 DEF Init, late, plain
  <2> QED
    BY <2>1 DEF LateInv, AtMostOneContentAfterCancel
<1> QED
  BY <1>1, LateStep, RegistryInvariant, PTL DEF Spec

\* One content event may pass a cancel request on its way; the poll stops the next one.
THEOREM OneContentMayBeLate == Spec => []AtMostOneContentAfterCancel
<1>1. LateInv => AtMostOneContentAfterCancel
  BY DEF LateInv
<1> QED
  BY <1>1, LateContents, PTL

-----------------------------------------------------------------------------
(* Counting cancel requests.                                               *)

\* Finitely many tasks are canceled, however many calls there may be, and each is
\* accounted for under its key.
CountedInv ==
  \A k \in ObservationKeys :
    /\ IsFiniteSet(canceledUnder(k))
    /\ Cardinality(canceledUnder(k)) <= cancellations[k] + observed[k]

\* What a set may lose or gain as the number that bounds it stays or grows by one.
LEMMA CountKept ==
  ASSUME NEW S, IsFiniteSet(S), NEW T \in SUBSET S,
         NEW n \in Nat, NEW m \in Nat, Cardinality(S) <= n, n <= m
  PROVE  IsFiniteSet(T) /\ Cardinality(T) <= m
<1>1. IsFiniteSet(T) /\ Cardinality(T) <= Cardinality(S)
  BY FS_Subset
<1>2. Cardinality(S) \in Nat /\ Cardinality(T) \in Nat
  BY <1>1, FS_CardinalityType
<1> QED
  BY <1>1, <1>2

LEMMA CountGrows ==
  ASSUME NEW S, IsFiniteSet(S), NEW x, NEW T \in SUBSET (S \cup {x}),
         NEW n \in Nat, Cardinality(S) <= n
  PROVE  IsFiniteSet(T) /\ Cardinality(T) <= n + 1
<1> DEFINE U == S \cup {x}
<1>1. /\ IsFiniteSet(U)
      /\ Cardinality(U) = IF x \in S THEN Cardinality(S) ELSE Cardinality(S) + 1
  BY FS_AddElement
<1>2. Cardinality(S) \in Nat
  BY FS_CardinalityType
<1>3. Cardinality(U) <= n + 1 /\ n + 1 \in Nat
  BY <1>1, <1>2
<1> HIDE DEF U
<1>4. T \in SUBSET U
  BY DEF U
<1> QED
  BY <1>1, <1>3, <1>4, CountKept

\* No further task is canceled, and no count is lost.
LEMMA NothingCanceled ==
  ASSUME TypeOK, TypeOK', CountedInv,
         \A s \in Streams : state'[s] = "canceled" =>
           state[s] = "canceled" /\ request'[s] = request[s],
         \A k \in ObservationKeys :
           cancellations[k] + observed[k] <= cancellations'[k] + observed'[k]
  PROVE  CountedInv'
<1> SUFFICES ASSUME NEW k \in ObservationKeys
             PROVE  /\ IsFiniteSet(canceledUnder(k)')
                    /\ Cardinality(canceledUnder(k)') <= cancellations'[k] + observed'[k]
  BY DEF CountedInv
<1>1. canceledUnder(k)' \in SUBSET canceledUnder(k)
  <2>1. ASSUME NEW s \in Streams, state'[s] = "canceled", cancelObservation(s)' = k
        PROVE  s \in canceledUnder(k)
    BY <2>1 DEF canceledUnder, cancelObservation
  <2> QED
    BY <2>1 DEF canceledUnder
<1>2. /\ cancellations[k] + observed[k] \in Nat /\ cancellations'[k] + observed'[k] \in Nat
      /\ cancellations[k] + observed[k] <= cancellations'[k] + observed'[k]
  BY DEF TypeOK
<1>3. /\ IsFiniteSet(canceledUnder(k))
      /\ Cardinality(canceledUnder(k)) <= cancellations[k] + observed[k]
  BY DEF CountedInv
<1> DEFINE n == cancellations[k] + observed[k]
           m == cancellations'[k] + observed'[k]
           S == canceledUnder(k)
           T == canceledUnder(k)'
<1> HIDE DEF n, m, S, T
<1>4. IsFiniteSet(S) /\ T \in SUBSET S /\ n \in Nat /\ m \in Nat /\ Cardinality(S) <= n /\ n <= m
  BY <1>1, <1>2, <1>3 DEF n, m, S, T
<1>5. IsFiniteSet(T) /\ Cardinality(T) <= m
  BY <1>4, CountKept
<1> QED
  BY <1>5 DEF T, m

\* A cancel request is counted before it cancels a task that is observed.
LEMMA CancelCounted ==
  ASSUME TypeOK, TypeOK', CountedInv,
         NEW ctx \in Contexts, NEW id \in TaskIDs, OnCancelTask(ctx, id)
  PROVE  CountedInv'
<1> DEFINE c == tasks[id]
           key == cancelObservation(c)
<1> SUFFICES ASSUME NEW k \in ObservationKeys
             PROVE  /\ IsFiniteSet(canceledUnder(k)')
                    /\ Cardinality(canceledUnder(k)') <= cancellations'[k] + observed'[k]
  BY DEF CountedInv
<1> DEFINE n == cancellations[k] + observed[k]
           m == cancellations'[k] + observed'[k]
           S == canceledUnder(k)
           T == canceledUnder(k)'
<1>1. /\ UNCHANGED request /\ CountCancellation(key)
      /\ \A s \in Streams \ {c} : state'[s] = state[s]
  BY DEF OnCancelTask, local, TypeOK
<1>2. /\ \A s : cancelObservation(s)' = cancelObservation(s)
  BY <1>1 DEF cancelObservation
<1>3. IsFiniteSet(S) /\ Cardinality(S) <= n /\ n \in Nat /\ m \in Nat
  BY DEF CountedInv, TypeOK
<1>4. k # None
  BY Sentinel
<1>5. T \in SUBSET (S \cup {c}) /\ (key # k => T \in SUBSET S)
  <2>1. ASSUME NEW s \in T PROVE s \in S \/ (s = c /\ key = k)
    <3>1. s \in Streams /\ state'[s] = "canceled" /\ cancelObservation(s) = k
      BY <1>2 DEF canceledUnder
    <3> QED
      BY <1>1, <3>1 DEF canceledUnder
  <2> HIDE DEF S, T, c, key
  <2> QED
    BY <2>1
<1>6. IF key = k THEN m = n + 1 ELSE m = n
  <2>1. CASE key = None
    <3>1. UNCHANGED <<cancellations, observed>>
      BY <1>1, <2>1 DEF CountCancellation, counters
    <3> QED
      BY <1>4, <2>1, <3>1
  <2>2. CASE key # None
    <3>1. cancellations' = [cancellations EXCEPT ![key] = @ + 1] /\ UNCHANGED observed
      BY <1>1, <2>2 DEF CountCancellation
    <3>2. cancellations[k] \in Nat /\ observed[k] \in Nat
      BY DEF TypeOK
    <3>3. cancellations'[k] = IF key = k THEN cancellations[k] + 1 ELSE cancellations[k]
      BY <3>1 DEF TypeOK
    <3> HIDE DEF key
    <3> QED
      BY <3>1, <3>2, <3>3
  <2> QED
    BY <2>1, <2>2
<1> HIDE DEF c, key, n, m, S, T
<1>7. CASE key = k
  <2>1. IsFiniteSet(T) /\ Cardinality(T) <= n + 1
    BY <1>3, <1>5, CountGrows
  <2> QED
    BY <1>6, <1>7, <2>1 DEF T, m
<1>8. CASE key # k
  <2>1. IsFiniteSet(T) /\ Cardinality(T) <= n
    BY <1>3, <1>5, <1>8, CountKept
  <2> QED
    BY <1>6, <1>8, <2>1 DEF T, m
<1> QED
  BY <1>7, <1>8

\* An observation moves a count from the counter to the one who asked.
LEMMA TakeCounted ==
  ASSUME TypeOK, TypeOK', CountedInv,
         NEW ctx \in Contexts, NEW marker \in Markers, takeCancellationObservation(ctx, marker)
  PROVE  CountedInv'
<1> DEFINE key == cancellationObservationKey(ctx, marker)
<1>1. /\ UNCHANGED <<state, request>> /\ key \in ObservationKeys
      /\ observed' = [observed EXCEPT ![key] = @ + cancellations[key]]
      /\ cancellations' = [cancellations EXCEPT ![key] = 0]
  BY DEF takeCancellationObservation, registry, local, ObservationKeys
<1> HIDE DEF key
<1>2. ASSUME NEW k \in ObservationKeys
      PROVE  cancellations[k] + observed[k] <= cancellations'[k] + observed'[k]
  <2>1. cancellations[k] \in Nat /\ observed[k] \in Nat
    BY DEF TypeOK
  <2>2. CASE k = key
    <3>1. cancellations'[k] = 0 /\ observed'[k] = observed[k] + cancellations[k]
      BY <1>1, <2>2 DEF TypeOK
    <3> QED
      BY <2>1, <3>1
  <2>3. CASE k # key
    <3>1. cancellations'[k] = cancellations[k] /\ observed'[k] = observed[k]
      BY <1>1, <2>3 DEF TypeOK
    <3> QED
      BY <2>1, <3>1
  <2> QED
    BY <2>2, <2>3
<1> QED
  BY <1>1, <1>2, NothingCanceled

LEMMA CountedStep == RegistryInv /\ CountedInv /\ [Next]_vars => CountedInv'
<1> SUFFICES ASSUME RegistryInv, CountedInv, [Next]_vars PROVE CountedInv'
  OBVIOUS
<1>1. TypeOK /\ TypeOK'
  BY TypeStep DEF RegistryInv
<1>2. ASSUME UNCHANGED counters,
             \A s \in Streams : state'[s] = "canceled" =>
               state[s] = "canceled" /\ request'[s] = request[s]
      PROVE  CountedInv'
  <2>1. ASSUME NEW k \in ObservationKeys
        PROVE  cancellations[k] + observed[k] <= cancellations'[k] + observed'[k]
    <3>1. /\ cancellations[k] \in Nat /\ observed[k] \in Nat
          /\ cancellations'[k] = cancellations[k] /\ observed'[k] = observed[k]
      BY <1>1, <1>2 DEF TypeOK, counters
    <3> QED
      BY <3>1
  <2> QED
    BY <1>1, <1>2, <2>1, NothingCanceled
<1>3. ASSUME NEW s \in Streams,
             RejectFixture(s) \/ \E r \in Requests : RefuseDuplicate(s, r)
      PROVE  CountedInv'
  <2>1. state[s] = "none" /\ UNCHANGED <<counters, state>>
    BY <1>3 DEF RejectFixture, RefuseDuplicate, RegistryInv, CallInv, registry
  <2>2. \A t \in Streams \ {s} : request'[t] = request[t]
    BY <1>1, <1>3 DEF RejectFixture, RefuseDuplicate, TypeOK, local
  <2> QED
    BY <1>2, <2>1, <2>2
<1>4. ASSUME NEW s \in Streams, NEW r \in Requests, createWorkingTask(s, r) PROVE CountedInv'
  <2>1. /\ UNCHANGED counters /\ state'[s] = "working"
        /\ \A t \in Streams \ {s} : request'[t] = request[t] /\ state'[t] = state[t]
    BY <1>1, <1>4 DEF createWorkingTask, TypeOK
  <2> QED
    BY <1>2, <2>1
<1>5. ASSUME NEW s \in Streams, StreamStep(s) PROVE CountedInv'
  <2>1. UNCHANGED <<counters, request>>
    BY <1>5
    DEF StreamStep, BeginClone, YieldTask, HoldDisconnected, HoldCanceled, CheckBeforeMessage,
        CheckBeforeArtifact, CheckBeforeLast, CheckCanceled, YieldMessage, YieldArtifact,
        YieldLastArtifact, Yield, completeTask, YieldEnd, Return, local
  <2>2. state' = state \/ \E t : state' = [state EXCEPT ![t] = "completed"]
    BY <1>5
    DEF StreamStep, BeginClone, YieldTask, HoldDisconnected, HoldCanceled, CheckBeforeMessage,
        CheckBeforeArtifact, CheckBeforeLast, CheckCanceled, YieldMessage, YieldArtifact,
        YieldLastArtifact, Yield, completeTask, YieldEnd, Return, registry
  <2>3. \A t \in Streams : state'[t] = "canceled" => state[t] = "canceled"
    BY <1>1, <2>2 DEF TypeOK
  <2> QED
    BY <1>2, <2>1, <2>3
<1>6. ASSUME NEW s \in Streams, Disconnect(s) PROVE CountedInv'
  BY <1>2, <1>6 DEF Disconnect, registry
<1>7. ASSUME NEW ctx \in Contexts, NEW id \in TaskIDs, OnCancelTask(ctx, id) PROVE CountedInv'
  BY <1>1, <1>7, CancelCounted
<1>8. ASSUME NEW ctx \in Contexts, NEW marker \in Markers,
             takeCancellationObservation(ctx, marker)
      PROVE CountedInv'
  BY <1>1, <1>8, TakeCounted
<1>9. CASE UNCHANGED vars
  BY <1>2, <1>9 DEF vars, registry, local
<1> QED
  BY <1>3, <1>4, <1>5, <1>6, <1>7, <1>8, <1>9 DEF Next, CancelNotFound

\* No canceled hold task goes uncounted, whoever reads and resets the counter meanwhile.
THEOREM CancelsAreCounted == Spec => []CanceledTasksAreCounted
<1>1. Init => CountedInv
  <2> SUFFICES ASSUME Init, NEW k \in ObservationKeys
               PROVE  /\ IsFiniteSet(canceledUnder(k))
                      /\ Cardinality(canceledUnder(k)) <= cancellations[k] + observed[k]
    BY DEF CountedInv
  <2>1. canceledUnder(k) = {} /\ cancellations[k] = 0 /\ observed[k] = 0
    BY DEF Init, canceledUnder
  <2>2. IsFiniteSet({}) /\ Cardinality({}) = 0
    BY FS_EmptySet
  <2>3. IsFiniteSet(canceledUnder(k)) /\ Cardinality(canceledUnder(k)) = 0
    BY <2>1, <2>2, Zenon
  <2> QED
    BY <2>1, <2>3
<1>2. CountedInv => CanceledTasksAreCounted
  BY DEF CountedInv, CanceledTasksAreCounted
<1> QED
  BY <1>1, <1>2, CountedStep, RegistryInvariant, PTL DEF Spec

\* An equality of counts survives a step that keeps the counters, for whoever makes it.
LEMMA CountsKept ==
  ASSUME EveryCancelIsObserved, UNCHANGED counters
  PROVE  EveryCancelIsObserved'
BY DEF EveryCancelIsObserved, counters

\* The increment of the counter and the attempt are of one key.
LEMMA AttemptCounted ==
  ASSUME TypeOK, EveryCancelIsObserved,
         NEW ctx \in Contexts, NEW id \in TaskIDs, OnCancelTask(ctx, id)
  PROVE  EveryCancelIsObserved'
<1> DEFINE key == cancelObservation(tasks[id])
<1>1. Attempt(key) /\ CountCancellation(key)
  BY DEF OnCancelTask
<1> HIDE DEF key
<1> SUFFICES ASSUME NEW k \in ObservationKeys
             PROVE  cancellations'[k] + observed'[k] = attempts'[k]
  BY DEF EveryCancelIsObserved
<1>2. /\ cancellations[k] \in Nat /\ observed[k] \in Nat /\ attempts[k] \in Nat
      /\ cancellations[k] + observed[k] = attempts[k]
  BY DEF TypeOK, EveryCancelIsObserved
<1>3. CASE key = None
  BY <1>1, <1>2, <1>3 DEF Attempt, CountCancellation
<1>4. CASE key # None
  <2>1. /\ cancellations' = [cancellations EXCEPT ![key] = @ + 1] /\ UNCHANGED observed
        /\ attempts' = [attempts EXCEPT ![key] = @ + 1]
    BY <1>1, <1>4 DEF Attempt, CountCancellation
  <2>2. CASE k = key
    <3>1. cancellations'[k] = cancellations[k] + 1 /\ attempts'[k] = attempts[k] + 1
      BY <2>1, <2>2 DEF TypeOK
    <3> QED
      BY <1>2, <2>1, <3>1
  <2>3. CASE k # key
    <3>1. cancellations'[k] = cancellations[k] /\ attempts'[k] = attempts[k]
      BY <2>1, <2>3 DEF TypeOK
    <3> QED
      BY <1>2, <2>1, <3>1
  <2> QED
    BY <2>2, <2>3
<1> QED
  BY <1>3, <1>4

\* What is taken from the counter is what is returned.
LEMMA TakeObserved ==
  ASSUME TypeOK, EveryCancelIsObserved,
         NEW ctx \in Contexts, NEW marker \in Markers, takeCancellationObservation(ctx, marker)
  PROVE  EveryCancelIsObserved'
<1> DEFINE key == cancellationObservationKey(ctx, marker)
<1>1. /\ observed' = [observed EXCEPT ![key] = @ + cancellations[key]]
      /\ cancellations' = [cancellations EXCEPT ![key] = 0]
      /\ UNCHANGED attempts
  BY DEF takeCancellationObservation
<1> HIDE DEF key
<1> SUFFICES ASSUME NEW k \in ObservationKeys
             PROVE  cancellations'[k] + observed'[k] = attempts[k]
  BY <1>1 DEF EveryCancelIsObserved
<1>2. /\ cancellations[k] \in Nat /\ observed[k] \in Nat
      /\ cancellations[k] + observed[k] = attempts[k]
  BY DEF TypeOK, EveryCancelIsObserved
<1>3. CASE k = key
  <2>1. cancellations'[k] = 0 /\ observed'[k] = observed[k] + cancellations[k]
    BY <1>1, <1>3 DEF TypeOK
  <2> QED
    BY <1>2, <2>1
<1>4. CASE k # key
  <2>1. cancellations'[k] = cancellations[k] /\ observed'[k] = observed[k]
    BY <1>1, <1>4 DEF TypeOK
  <2> QED
    BY <1>2, <2>1
<1> QED
  BY <1>3, <1>4

\* Every cancel request that reached an observed task, refused or not, is in the counter
\* or was returned to a cancel-observed call, for any number of tasks under one key.
THEOREM CancelsAreObserved == Spec => []EveryCancelIsObserved
<1>1. Init => EveryCancelIsObserved
  BY DEF Init, EveryCancelIsObserved
<1>2. TypeOK /\ EveryCancelIsObserved /\ [Next]_vars => EveryCancelIsObserved'
  <2> SUFFICES ASSUME TypeOK, EveryCancelIsObserved, [Next]_vars PROVE EveryCancelIsObserved'
    OBVIOUS
  <2>1. ASSUME NEW s \in Streams,
               \/ RejectFixture(s)
               \/ \E r \in Requests : RefuseDuplicate(s, r) \/ createWorkingTask(s, r)
               \/ StreamStep(s)
               \/ Disconnect(s)
        PROVE  EveryCancelIsObserved'
    <3>1. UNCHANGED counters
      BY <2>1
      DEF RejectFixture, RefuseDuplicate, createWorkingTask, Disconnect, StreamStep, BeginClone,
          YieldTask, HoldDisconnected, HoldCanceled, CheckBeforeMessage, CheckBeforeArtifact,
          CheckBeforeLast, CheckCanceled, YieldMessage, YieldArtifact, YieldLastArtifact, Yield,
          completeTask, YieldEnd, Return
    <3> QED
      BY <3>1, CountsKept
  <2>2. ASSUME UNCHANGED vars PROVE EveryCancelIsObserved'
    BY <2>2, CountsKept DEF vars
  <2> QED
    BY <2>1, <2>2, AttemptCounted, TakeObserved DEF Next, CancelNotFound
<1> QED
  BY <1>1, <1>2, TypeCorrect, PTL DEF Spec
=============================================================================
