--------------------------- MODULE ProviderLifecycle ---------------------------
(***************************************************************************)
(* A provider's process: the stages of runWithLookup, the registration and *)
(* readiness that it hands on, the routes of its HTTP server, and its end  *)
(* (main.go of both runtimes, runtime-b/server.go, runtime-a/handler.go).  *)
(*                                                                         *)
(* The host and the Nacos registration are outside the repository.  They   *)
(* are modelled from what main.go gives them and from what the READMEs say *)
(* of them: publishing before serving, stopping on a signal or a lost      *)
(* lease, deregistering on shutdown.                                       *)
(***************************************************************************)
EXTENDS Naturals, Sequences

CONSTANTS
  Requests,  \* HTTP requests
  None       \* not in flight, no answer, no cause

Runtimes == {"runtime-a", "runtime-b"}

\* The stages of startup; the last leads to the host's Run.
Stages(r) ==
  IF r = "runtime-a"
  THEN <<"config", "registration-config", "registration", "handler", "challenge", "host">>
  ELSE <<"listen-address", "auth-config", "config", "registration-config", "registration",
         "handler", "http-handler", "challenge", "host">>

\* A call of the agent, and what requests get.
Work == [credential: BOOLEAN, waits: BOOLEAN]
Answers == {"200", "401", "503", "done", "cut"}

\* Why a process stops.
Causes == {"startup", "interrupt", "SIGTERM", "lease", "killed", "nacos-failed"}

ASSUME NoneAssumption == None \notin Work \cup Answers \cup Causes

VARIABLES
  runtime, mode,   \* which provider, and its registration mode
  pc,              \* "starting", "publishing", "serving", "stopping", "ended"
  stage,           \* the stage that is next
  readiness,       \* what /readyz asks: nothing yet, a constant, or the lease
  lease,           \* of the registration: "none", "held", "lost"
  registered,      \* Nacos lists the instance
  inFlight,        \* calls of the agent: their credential, whether they wait for a cancel
  answer,          \* what each request got
  cause            \* history: why the process stopped

vars == <<runtime, mode, pc, stage, readiness, lease, registered, inFlight, answer, cause>>
process == <<runtime, mode, stage, readiness>>

Init ==
  /\ runtime \in Runtimes
  /\ mode \in {"disabled", "nacos"}
  /\ pc = "starting" /\ stage = 1 /\ readiness = "none"
  /\ lease = "none" /\ registered = FALSE
  /\ inFlight = [q \in Requests |-> None]
  /\ answer = [q \in Requests |-> None]
  /\ cause = None

-----------------------------------------------------------------------------
(* Startup.                                                                *)

\* Mutant: every registration goes with the readiness of a static one.
alwaysReady == "always"

\* The readiness that goes with a registration: a constant without one, else itself.
newRuntimeRegistration == IF mode = "disabled" THEN "always" ELSE "lease"

StagePasses ==
  /\ pc = "starting" /\ stage <= Len(Stages(runtime))
  /\ readiness' = IF Stages(runtime)[stage] = "registration" THEN newRuntimeRegistration
                  ELSE readiness
  /\ stage' = stage + 1
  /\ UNCHANGED <<runtime, mode, pc, lease, registered, inFlight, answer, cause>>

\* A stage fails, and so does the process.
StageFails ==
  /\ pc = "starting" /\ stage <= Len(Stages(runtime))
  /\ pc' = "ended" /\ cause' = "startup"
  /\ UNCHANGED <<process, lease, registered, inFlight, answer>>

\* The host serves at once, or when it has a registration, publishes first (external).
HostRuns ==
  /\ pc = "starting" /\ stage > Len(Stages(runtime))
  /\ pc' = IF mode = "disabled" THEN "serving" ELSE "publishing"
  /\ UNCHANGED <<process, lease, registered, inFlight, answer, cause>>

Published ==
  /\ pc = "publishing"
  /\ pc' = "serving" /\ lease' = "held" /\ registered' = TRUE
  /\ UNCHANGED <<process, inFlight, answer, cause>>

PublishFails ==
  /\ pc = "publishing"
  /\ pc' = "ended" /\ cause' = "startup"
  /\ UNCHANGED <<process, lease, registered, inFlight, answer>>

-----------------------------------------------------------------------------
(* Serving.                                                                *)

Ready == readiness = "always" \/ lease = "held"

\* Mutant: the mux leads to the agent without the middleware.
noAuthentication(credential) == TRUE

\* routerauth's middleware (external) lets through what the Router signed.
authenticated(credential) == credential

\* The host (external) may have the HTTP server run at any time of its Run: the READMEs
\* have the publish come first and the drain come last, the handlers ask for neither.
Serves == pc \in {"publishing", "serving", "stopping"}

\* GET /readyz is open to all, starts no work and asks for nothing but the readiness.
Probe(q) ==
  /\ Serves /\ inFlight[q] = None /\ answer[q] = None
  /\ answer' = [answer EXCEPT ![q] = IF Ready THEN "200" ELSE "503"]
  /\ UNCHANGED <<process, pc, lease, registered, inFlight, cause>>

\* Any other route: the agent, behind authentication.  The unavailable route of
\* Runtime B answers 503 to whoever is authenticated.
Call(q, credential, path, waits) ==
  /\ Serves /\ inFlight[q] = None /\ answer[q] = None
  /\ IF authenticated(credential) /\ ~(runtime = "runtime-b" /\ path = "unavailable")
     THEN /\ inFlight' = [inFlight EXCEPT ![q] =
                            [credential |-> credential, waits |-> waits]]
          /\ UNCHANGED answer
     ELSE /\ answer' = [answer EXCEPT ![q] = IF authenticated(credential) THEN "503" ELSE "401"]
          /\ UNCHANGED inFlight
  /\ UNCHANGED <<process, pc, lease, registered, cause>>

\* A hold stream does not end by itself.
CallEnds(q) ==
  /\ Serves
  /\ inFlight[q] # None /\ ~inFlight[q].waits
  /\ inFlight' = [inFlight EXCEPT ![q] = None]
  /\ answer' = [answer EXCEPT ![q] = "done"]
  /\ UNCHANGED <<process, pc, lease, registered, cause>>

-----------------------------------------------------------------------------
(* The end of the process; the host is external.                           *)

\* Mutant: only the interrupt of a terminal is handled.
interruptOnly == {"interrupt"}

Signals == {"interrupt", "SIGTERM"}

\* A signal that the host does not wait for ends the process on the spot.
Signal(s) ==
  /\ pc \in {"publishing", "serving"}
  /\ cause' = s
  /\ pc' = IF s \in Signals THEN "stopping" ELSE "ended"
  /\ UNCHANGED <<process, lease, registered, inFlight, answer>>

\* Heartbeats fail for good; the host, which waits for that, stops.
LeaseLost ==
  /\ pc \in {"serving", "stopping"} /\ lease = "held"
  /\ lease' = "lost"
  /\ UNCHANGED <<process, pc, registered, inFlight, answer, cause>>

HostNoticesLoss ==
  /\ pc = "serving" /\ lease = "lost"
  /\ pc' = "stopping" /\ cause' = "lease"
  /\ UNCHANGED <<process, lease, registered, inFlight, answer>>

Killed ==
  /\ pc # "ended"
  /\ pc' = "ended" /\ cause' = "killed"
  /\ UNCHANGED <<process, lease, registered, inFlight, answer>>

\* The lease is closed and the instance deregistered, if Nacos answers.
Deregister ==
  /\ pc = "stopping" /\ lease # "none"
  /\ lease' = "none"
  /\ \/ registered' = FALSE /\ UNCHANGED cause
     \/ cause' = "nacos-failed" /\ UNCHANGED registered
  /\ UNCHANGED <<process, pc, inFlight, answer>>

\* Without a registration there is no request timeout.
requestTimeout == IF mode = "disabled" THEN 0 ELSE 1

\* Mutant: the request timeout is taken as it is.
timeoutWithoutDefault == requestTimeout

shutdownTimeout == IF requestTimeout > 0 THEN requestTimeout ELSE 5

\* Shutdown waits for the requests in flight, but not beyond its bound.
Cut(q) ==
  /\ pc = "stopping" /\ inFlight[q] # None
  /\ shutdownTimeout > 0
  /\ inFlight' = [inFlight EXCEPT ![q] = None]
  /\ answer' = [answer EXCEPT ![q] = "cut"]
  /\ UNCHANGED <<process, pc, lease, registered, cause>>

Exit ==
  /\ pc = "stopping" /\ lease = "none"
  /\ \A q \in Requests : inFlight[q] = None
  /\ pc' = "ended"
  /\ UNCHANGED <<process, lease, registered, inFlight, answer, cause>>

-----------------------------------------------------------------------------

Startup == StagePasses \/ StageFails \/ HostRuns \/ Published \/ PublishFails

Host == HostNoticesLoss \/ Deregister \/ Exit \/ \E q \in Requests : Cut(q)

Clients ==
  \E q \in Requests :
    \/ Probe(q) \/ CallEnds(q)
    \/ \E credential, waits \in BOOLEAN, path \in {"agent", "unavailable"} :
         Call(q, credential, path, waits)

Next == Startup \/ Host \/ Clients \/ LeaseLost \/ Killed \/ \E s \in {"interrupt", "SIGTERM"} : Signal(s)

\* The host goes on with its shutdown.  Neither clients nor an operator owe anything.
Spec == Init /\ [][Next]_vars /\ WF_vars(Host)

-----------------------------------------------------------------------------
(* Properties.                                                             *)

\* Type invariant: only a credential that the Router signed has the agent work, only a
\* process that passed every stage takes requests, and only a registration has a lease.
TypeOK ==
  /\ runtime \in Runtimes /\ mode \in {"disabled", "nacos"}
  /\ pc \in {"starting", "publishing", "serving", "stopping", "ended"}
  /\ stage \in 1 .. Len(Stages(runtime)) + 1
  /\ readiness \in {"none", "always", "lease"}
  /\ lease \in {"none", "held", "lost"} /\ registered \in BOOLEAN
  /\ inFlight \in [Requests -> Work \cup {None}]
  /\ answer \in [Requests -> Answers \cup {None}]
  /\ cause \in Causes \cup {None}
  /\ \A q \in Requests :
       /\ inFlight[q] # None => inFlight[q].credential /\ answer[q] = None
       /\ inFlight[q] # None \/ answer[q] # None => stage = Len(Stages(runtime)) + 1
  /\ mode = "disabled" => lease = "none" /\ ~registered

\* A process that stopped is not listed in Nacos: not after a stage that failed late, an
\* initial publish that failed, a lost lease, or either of the signals by which a
\* terminal and a container runtime stop it.  Only a process that was killed, or that
\* Nacos did not answer, leaves its record to the expiry there.
EndedIsDeregistered == pc = "ended" /\ cause \notin {"killed", "nacos-failed"} => ~registered

\* The strengthening under which that is inductive, as is what /readyz promises below.
\* ReadinessInv: the readiness is that of the registration from that stage on.
ReadinessInv ==
  /\ readiness = IF \E k \in 1 .. stage - 1 : Stages(runtime)[k] = "registration"
                 THEN newRuntimeRegistration ELSE "none"
  /\ pc \in {"publishing", "serving", "stopping"} => stage = Len(Stages(runtime)) + 1

\* LeaseInv: a lease is there from the publish to the shutdown, an instance with one is
\* listed, and an instance that is listed without one has been given up.
LeaseInv ==
  /\ pc \in {"starting", "publishing"} => lease = "none" /\ ~registered
  /\ pc = "publishing" => mode = "nacos"
  /\ pc = "serving" /\ mode = "nacos" => lease # "none"
  /\ lease = "held" => registered
  /\ registered /\ lease = "none" => cause \in {"killed", "nacos-failed"}
  /\ pc = "ended" /\ lease # "none" => cause = "killed"

LifecycleInv == TypeOK /\ ReadinessInv /\ LeaseInv

\* Whenever the server answers, be it before the initial publish, after the lease was lost
\* but before the host noticed, or while the host shuts down, /readyz says what the Router
\* may rely on: a registered process is ready exactly while it holds its lease and is
\* listed, and a process without registration always is.
ReadinessFollowsLease ==
  [][\A q \in Requests : Probe(q) =>
       (answer'[q] = "200" <=> mode = "disabled" \/ (lease = "held" /\ registered))]_vars

\* Once it stops, a process ends, though a hold stream that nobody cancels is open: the
\* bound on the shutdown is never zero, also without a registration's request timeout.
ShutdownEnds == (pc = "stopping") ~> (pc = "ended")
=============================================================================
