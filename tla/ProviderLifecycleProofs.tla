------------------------ MODULE ProviderLifecycleProofs ------------------------
(***************************************************************************)
(* Theorems about ProviderLifecycle, for every set of requests.            *)
(***************************************************************************)
EXTENDS ProviderLifecycle, TLAPS

\* None differs from whatever it is the absence of.
LEMMA NoneIsApart ==
  /\ \A w \in Work : w # None
  /\ \A a \in Answers : a # None
  /\ \A c \in Causes : c # None
BY NoneAssumption

\* Both runtimes have stages, and the registration is one of them.
LEMMA StagesHaveRegistration ==
  ASSUME NEW r \in Runtimes
  PROVE  /\ Len(Stages(r)) \in Nat
         /\ \E k \in 1 .. Len(Stages(r)) : Stages(r)[k] = "registration"
<1>1. CASE r = "runtime-a"
  <2>1. Len(Stages(r)) = 6 /\ Stages(r)[3] = "registration"
    BY <1>1 DEF Stages
  <2> QED
    BY <2>1
<1>2. CASE r = "runtime-b"
  <2>1. Len(Stages(r)) = 9 /\ Stages(r)[5] = "registration"
    BY <1>2 DEF Stages
  <2> QED
    BY <2>1
<1> QED
  BY <1>1, <1>2 DEF Runtimes

\* At the end of its stages a process has the readiness of its registration.
LEMMA ReadyAfterStages ==
  ASSUME LifecycleInv, stage = Len(Stages(runtime)) + 1
  PROVE  readiness = newRuntimeRegistration
<1>1. Len(Stages(runtime)) \in Nat
  BY StagesHaveRegistration DEF LifecycleInv, TypeOK
<1>2. stage - 1 = Len(Stages(runtime))
  BY <1>1
<1> QED
  BY <1>2, StagesHaveRegistration DEF LifecycleInv, TypeOK, ReadinessInv

-----------------------------------------------------------------------------
(* The inductive invariant.                                                *)

LEMMA LifecycleInit == Init => LifecycleInv
<1> SUFFICES ASSUME Init PROVE LifecycleInv
  OBVIOUS
<1>1. Len(Stages(runtime)) \in Nat
  BY StagesHaveRegistration DEF Init
<1>2. 1 \in 1 .. Len(Stages(runtime)) + 1
  BY <1>1
<1>3. TypeOK
  BY <1>2 DEF Init, TypeOK
<1>4. 1 .. stage - 1 = {}
  BY DEF Init
<1>5. ReadinessInv
  BY <1>4 DEF Init, ReadinessInv
<1> QED
  BY <1>3, <1>5 DEF Init, LifecycleInv, LeaseInv

\* A stage that passes takes up one more of the stages.
LEMMA StagePassesStep == LifecycleInv /\ StagePasses => LifecycleInv'
<1> SUFFICES ASSUME LifecycleInv, StagePasses PROVE LifecycleInv'
  OBVIOUS
<1>1. Len(Stages(runtime)) \in Nat /\ stage \in Nat /\ stage > 0
  BY StagesHaveRegistration DEF LifecycleInv, TypeOK
<1>2. stage' \in 1 .. Len(Stages(runtime)) + 1
  BY <1>1 DEF StagePasses
<1>3. readiness' \in {"none", "always", "lease"}
  BY DEF StagePasses, LifecycleInv, TypeOK, newRuntimeRegistration
<1>4. TypeOK'
  <2>1. \A q \in Requests : inFlight[q] = None /\ answer[q] = None
    BY <1>1 DEF StagePasses, LifecycleInv, TypeOK
  <2> QED
    BY <1>2, <1>3, <2>1 DEF StagePasses, LifecycleInv, TypeOK
<1>5. ReadinessInv'
  <2>1. 1 .. stage' - 1 = (1 .. stage - 1) \cup {stage}
    BY <1>1 DEF StagePasses
  <2>2. UNCHANGED <<runtime, mode, pc>> /\ pc = "starting"
    BY DEF StagePasses
  <2>3. newRuntimeRegistration' = newRuntimeRegistration
    BY <2>2 DEF newRuntimeRegistration
  <2>4. (\E k \in 1 .. stage - 1 : Stages(runtime)[k] = "registration")
        => readiness = newRuntimeRegistration
    BY DEF LifecycleInv, ReadinessInv
  <2>5. readiness' = IF Stages(runtime)[stage] = "registration" THEN newRuntimeRegistration
                     ELSE readiness
    BY DEF StagePasses
  <2> QED
    BY <2>1, <2>2, <2>3, <2>4, <2>5 DEF LifecycleInv, ReadinessInv
<1>6. LeaseInv'
  BY DEF StagePasses, LifecycleInv, LeaseInv
<1> QED
  BY <1>4, <1>5, <1>6 DEF LifecycleInv

\* A step that leaves the stages alone keeps what ReadinessInv says of them.
LEMMA ReadinessStays ==
  ASSUME LifecycleInv, UNCHANGED process,
         pc' \in {"publishing", "serving", "stopping"} => stage = Len(Stages(runtime)) + 1
  PROVE  ReadinessInv'
BY DEF LifecycleInv, ReadinessInv, process, newRuntimeRegistration

LEMMA StartupStep == LifecycleInv /\ Startup => LifecycleInv'
<1> SUFFICES ASSUME LifecycleInv, Startup PROVE LifecycleInv'
  OBVIOUS
<1>1. CASE StagePasses
  BY <1>1, StagePassesStep
<1>2. CASE StageFails
  BY <1>2, ReadinessStays
  DEF StageFails, LifecycleInv, TypeOK, LeaseInv, process, Causes
<1>3. CASE HostRuns
  <2>1. stage = Len(Stages(runtime)) + 1
    BY <1>3, StagesHaveRegistration DEF HostRuns, LifecycleInv, TypeOK
  <2> QED
    BY <1>3, <2>1, ReadinessStays DEF HostRuns, LifecycleInv, TypeOK, LeaseInv, process
<1>4. CASE Published
  BY <1>4, ReadinessStays DEF Published, LifecycleInv, TypeOK, LeaseInv, ReadinessInv, process
<1>5. CASE PublishFails
  BY <1>5, ReadinessStays
  DEF PublishFails, LifecycleInv, TypeOK, LeaseInv, process, Causes
<1> QED
  BY <1>1, <1>2, <1>3, <1>4, <1>5 DEF Startup

\* Requests change neither the stages nor the lease.
LEMMA RequestStep ==
  ASSUME LifecycleInv, UNCHANGED <<process, pc, lease, registered, cause>>, TypeOK'
  PROVE  LifecycleInv'
<1>1. ReadinessInv'
  BY ReadinessStays DEF LifecycleInv, ReadinessInv
<1> QED
  BY <1>1 DEF LifecycleInv, LeaseInv, process

\* A request that is not in flight is answered or starts work.
LEMMA ClientsStep ==
  ASSUME LifecycleInv, NEW q \in Requests
  PROVE  /\ Probe(q) => LifecycleInv'
         /\ \A credential, waits \in BOOLEAN, path \in {"agent", "unavailable"} :
              Call(q, credential, path, waits) => LifecycleInv'
         /\ CallEnds(q) => LifecycleInv'
         /\ Cut(q) => LifecycleInv'
<1>1. pc \in {"publishing", "serving", "stopping"} => stage = Len(Stages(runtime)) + 1
  BY DEF LifecycleInv, ReadinessInv
<1>2. TypeOK
  BY DEF LifecycleInv
<1>3. ASSUME Probe(q) PROVE LifecycleInv'
  <2>1. PICK a \in Answers : answer' = [answer EXCEPT ![q] = a]
    BY <1>3 DEF Probe, Answers
  <2>2. TypeOK'
    BY <1>1, <1>2, <1>3, <2>1 DEF Probe, Serves, TypeOK, process
  <2> QED
    BY <1>3, <2>2, RequestStep DEF Probe
<1>4. ASSUME NEW credential \in BOOLEAN, NEW waits \in BOOLEAN, NEW path,
             Call(q, credential, path, waits)
      PROVE  LifecycleInv'
  <2>1. CASE authenticated(credential) /\ ~(runtime = "runtime-b" /\ path = "unavailable")
    <3> DEFINE w == [credential |-> credential, waits |-> waits]
    <3>1. w \in Work /\ w.credential
      BY <2>1 DEF Work, authenticated
    <3>2. inFlight' = [inFlight EXCEPT ![q] = w] /\ UNCHANGED answer
      BY <1>4, <2>1 DEF Call
    <3> HIDE DEF w
    <3>3. TypeOK'
      BY <1>1, <1>2, <1>4, <3>1, <3>2 DEF Call, Serves, TypeOK, process
    <3> QED
      BY <1>4, <3>3, RequestStep DEF Call
  <2>2. CASE ~(authenticated(credential) /\ ~(runtime = "runtime-b" /\ path = "unavailable"))
    <3>1. PICK a \in Answers : answer' = [answer EXCEPT ![q] = a] /\ UNCHANGED inFlight
      BY <1>4, <2>2 DEF Call, Answers
    <3>2. TypeOK'
      BY <1>1, <1>2, <1>4, <3>1 DEF Call, Serves, TypeOK, process
    <3> QED
      BY <1>4, <3>2, RequestStep DEF Call
  <2> QED
    BY <2>1, <2>2
<1>5. ASSUME CallEnds(q) PROVE LifecycleInv'
  <2>1. TypeOK'
    BY <1>1, <1>2, <1>5 DEF CallEnds, Serves, TypeOK, process, Answers
  <2> QED
    BY <1>5, <2>1, RequestStep DEF CallEnds
<1>6. ASSUME Cut(q) PROVE LifecycleInv'
  <2>1. TypeOK'
    BY <1>1, <1>2, <1>6 DEF Cut, TypeOK, process, Answers
  <2> QED
    BY <1>6, <2>1, RequestStep DEF Cut
<1> QED
  BY <1>3, <1>4, <1>5, <1>6

\* The end of the process, from the signal or the lost lease to the exit.
LEMMA EndStep ==
  LifecycleInv /\ (HostNoticesLoss \/ Deregister \/ Exit \/ LeaseLost \/ Killed
                  \/ \E s \in {"interrupt", "SIGTERM"} : Signal(s))
  => LifecycleInv'
<1> SUFFICES ASSUME LifecycleInv,
                    HostNoticesLoss \/ Deregister \/ Exit \/ LeaseLost \/ Killed
                    \/ \E s \in {"interrupt", "SIGTERM"} : Signal(s)
             PROVE  LifecycleInv'
  OBVIOUS
<1>1. CASE HostNoticesLoss
  BY <1>1, ReadinessStays
  DEF HostNoticesLoss, LifecycleInv, TypeOK, LeaseInv, ReadinessInv, process, Causes
<1>2. CASE Deregister
  BY <1>2, ReadinessStays
  DEF Deregister, LifecycleInv, TypeOK, LeaseInv, ReadinessInv, process, Causes
<1>3. CASE Exit
  BY <1>3, ReadinessStays DEF Exit, LifecycleInv, TypeOK, LeaseInv, process
<1>4. CASE LeaseLost
  BY <1>4, ReadinessStays DEF LeaseLost, LifecycleInv, TypeOK, LeaseInv, ReadinessInv, process
<1>5. CASE Killed
  BY <1>5, ReadinessStays DEF Killed, LifecycleInv, TypeOK, LeaseInv, process, Causes
<1>6. ASSUME NEW s \in {"interrupt", "SIGTERM"}, Signal(s) PROVE LifecycleInv'
  BY <1>6, ReadinessStays
  DEF Signal, Signals, LifecycleInv, TypeOK, LeaseInv, ReadinessInv, process, Causes
<1> QED
  BY <1>1, <1>2, <1>3, <1>4, <1>5, <1>6

LEMMA LifecycleStep == LifecycleInv /\ [Next]_vars => LifecycleInv'
<1> SUFFICES ASSUME LifecycleInv, [Next]_vars PROVE LifecycleInv'
  OBVIOUS
<1>1. CASE Startup
  BY <1>1, StartupStep
<1>2. CASE Host
  BY <1>2, EndStep, ClientsStep DEF Host
<1>3. CASE Clients
  BY <1>3, ClientsStep DEF Clients
<1>4. CASE LeaseLost \/ Killed \/ \E s \in {"interrupt", "SIGTERM"} : Signal(s)
  BY <1>4, EndStep
<1>5. CASE UNCHANGED vars
  BY <1>5
  DEF vars, LifecycleInv, TypeOK, LeaseInv, ReadinessInv, newRuntimeRegistration
<1> QED
  BY <1>1, <1>2, <1>3, <1>4, <1>5 DEF Next

\* Readiness, lease and registration fit the stage of a process.
THEOREM Lifecycle == Spec => []LifecycleInv
<1> QED
  BY LifecycleInit, LifecycleStep, PTL DEF Spec

-----------------------------------------------------------------------------
(* What follows from it.                                                   *)

\* Work is done for the Router only, by a process that passed every stage.
THEOREM TypeCorrect == Spec => []TypeOK
<1>1. LifecycleInv => TypeOK
  BY DEF LifecycleInv
<1> QED
  BY <1>1, Lifecycle, PTL

\* A process that ended by itself is not listed.
THEOREM EndedAreDeregistered == Spec => []EndedIsDeregistered
<1>1. LifecycleInv => EndedIsDeregistered
  BY DEF LifecycleInv, TypeOK, LeaseInv, EndedIsDeregistered
<1> QED
  BY <1>1, Lifecycle, PTL

\* A process that runs and has a registration asks it.
LEMMA RegisteredAsksLease ==
  ASSUME LifecycleInv, Serves
  PROVE  readiness = IF mode = "disabled" THEN "always" ELSE "lease"
<1>1. stage = Len(Stages(runtime)) + 1
  BY DEF Serves, LifecycleInv, ReadinessInv
<1> QED
  BY <1>1, ReadyAfterStages DEF newRuntimeRegistration

\* Whenever a probe is answered, ready means listed under a lease that is held.
THEOREM ReadinessFollows == Spec => ReadinessFollowsLease
<1>1. LifecycleInv /\ [Next]_vars =>
        [\A q \in Requests : Probe(q) =>
           (answer'[q] = "200" <=> mode = "disabled" \/ (lease = "held" /\ registered))]_vars
  <2> SUFFICES ASSUME LifecycleInv, NEW q \in Requests, Probe(q)
               PROVE  answer'[q] = "200" <=> mode = "disabled" \/ (lease = "held" /\ registered)
    OBVIOUS
  <2>1. answer'[q] = IF Ready THEN "200" ELSE "503"
    BY DEF Probe, LifecycleInv, TypeOK
  <2>2. Ready <=> mode = "disabled" \/ lease = "held"
    BY RegisteredAsksLease DEF Probe, Ready, LifecycleInv, TypeOK
  <2>3. lease = "held" => registered
    BY DEF LifecycleInv, LeaseInv
  <2> QED
    BY <2>1, <2>2, <2>3
<1> QED
  BY <1>1, Lifecycle, PTL DEF Spec, ReadinessFollowsLease
=============================================================================
