------------------------------ MODULE NestedCalls ------------------------------
(***************************************************************************)
(* Managed invocations of Runtime A and Runtime B, and the nested calls    *)
(* they make through the Router (runtime-a/{handler,runtime,nested}.go,    *)
(* runtime-b/{handler,nested}.go).                                         *)
(*                                                                         *)
(* The Router is outside the repository.  It is modelled from what the     *)
(* handlers and their tests expect of it: it gives every invocation an     *)
(* identifier, a parent and a lineage, delivers it once, and replies to a  *)
(* nested request once its child is answered; it may also mix up replies   *)
(* or lose them.  The client of the SDK checks the lineage of a reply for  *)
(* the agents that are built with it.  An agent handles any number of      *)
(* invocations concurrently; the call of the SDK is the one point at which *)
(* a handler waits.                                                        *)
(***************************************************************************)
EXTENDS Integers, FiniteSets

CONSTANTS
  Invocations,  \* identifiers that the Router gives to invocations
  Lineages,     \* pairs of root task and trace
  Roots,        \* what the Router may deliver at the start of a task
  Targets,      \* configurations: which agent and capability each runtime calls
  Correlating,  \* agents whose invoker refuses a reply of another lineage, as the SDK does
  MaxRoots,     \* bound: root invocations that the Router starts
  None          \* no invocation, no lineage, no answer, no reply

Agents == {"runtime-a", "runtime-b"}

\* The fixture of a message; "malformed" stands for every message that message/send
\* refuses.  The fixtures that Runtime B answers from its own state are elsewhere.
FixtureKinds == {"success", "nested", "failure", "malformed"}

\* How complete the call context of an invocation is.
Managed == {"full", "no-claims", "other-agent", "no-headers"}

\* A delivered invocation.  Capability runtime.echo matters to Runtime A only.
Delivery ==
  {v \in [parent: Invocations \cup {None}, lineage: Lineages, agent: Agents, echo: BOOLEAN,
          fixture: FixtureKinds, managed: Managed] : v.echo => v.agent = "runtime-a"}

\* A nested request, and what the Router made of it: a child, a refusal or nothing yet.
Requests ==
  [invocation: Invocations, lineage: Lineages, fixture: FixtureKinds,
   state: {"sent", "accepted", "refused"}]

\* What arrives over HTTP from the Router, or an error of the SDK itself.  A result
\* may lack the identifier, the lineage or the result proper; this last is named after
\* the invocation whose answer it is.
Result(id, lineage, succeeded, result) ==
  [kind |-> "result", id |-> id, lineage |-> lineage, succeeded |-> succeeded, result |-> result]
RouterError == [kind |-> "router-error"]
RawError    == [kind |-> "raw-error"]

Replies ==
  {RouterError, RawError}
  \cup [kind: {"result"}, id: Invocations \cup {None}, lineage: Lineages \cup {None},
        succeeded: BOOLEAN, result: Invocations \cup {None}]

Errors == {"invalid-params", "fixture-failure", "router-failure", "unknown-failure"}

\* A successful answer names the child and the invocation whose result it embeds.
Success(child, result) == [ok |-> TRUE, child |-> child, result |-> result, error |-> ""]
Failure(error) == [ok |-> FALSE, child |-> None, result |-> None, error |-> error]

Answers ==
  {a \in [ok: BOOLEAN, child: Invocations \cup {None}, result: Invocations \cup {None},
          error: Errors \cup {""}] : a.ok = (a.error = "")}

\* None is none of the values that it stands in for.
ASSUME NoneAssumption ==
  None \notin Invocations \cup Lineages \cup Delivery \cup Requests \cup Replies \cup Answers
ASSUME RootsAssumption == Roots \subseteq {v \in Delivery : v.parent = None}
ASSUME TargetsAssumption == Targets \subseteq [Agents -> [agent: Agents, echo: BOOLEAN]]
ASSUME CorrelatingAssumption == Correlating \subseteq Agents
ASSUME MaxRootsAssumption == MaxRoots \in Nat

VARIABLES
  target,   \* the configuration in use
  inv,      \* each invocation as it was delivered, or None
  pc,       \* where the handler of each invocation is
  request,  \* the nested request of each invocation: its context and input, or None
  sent,     \* history: nested requests that each invocation sent
  reply,    \* what the SDK call of a handler returned and it has yet to look at, or None
  answer    \* what each invocation was answered, or None

vars == <<target, inv, pc, request, sent, reply, answer>>

Init ==
  /\ target \in Targets
  /\ inv     = [i \in Invocations |-> None]
  /\ pc      = [i \in Invocations |-> "free"]
  /\ request = [i \in Invocations |-> None]
  /\ sent    = [i \in Invocations |-> 0]
  /\ reply   = [i \in Invocations |-> None]
  /\ answer  = [i \in Invocations |-> None]

-----------------------------------------------------------------------------
(* The Router (external).                                                  *)

\* Invocation i reaches an agent.
RouterDelivers(i, v) ==
  /\ pc[i] = "free"
  /\ inv' = [inv EXCEPT ![i] = v]
  /\ pc' = [pc EXCEPT ![i] = "received"]

roots == {i \in Invocations : inv[i] # None /\ inv[i].parent = None}

RouterStartsRoot(i) ==
  /\ Cardinality(roots) < MaxRoots
  /\ \E v \in Roots : RouterDelivers(i, v)
  /\ UNCHANGED <<target, request, sent, reply, answer>>

\* A nested request becomes a child of the invocation that its context names.
child(i) ==
  [parent |-> request[i].invocation, lineage |-> request[i].lineage,
   agent |-> target[inv[i].agent].agent,
   echo |-> target[inv[i].agent].echo /\ target[inv[i].agent].agent = "runtime-a",
   fixture |-> request[i].fixture, managed |-> "full"]

\* The request may have been answered wrongly or its reply lost by then: the Router
\* and the caller do not wait for the same thing.
RouterStartsChild(i, c) ==
  /\ request[i] # None
  /\ request[i].state = "sent"
  /\ RouterDelivers(c, child(i))
  /\ request' = [request EXCEPT ![i].state = "accepted"]
  /\ UNCHANGED <<target, sent, reply, answer>>

children(i) == {c \in Invocations : inv[c] # None /\ inv[c].parent = i}

\* The client of the SDK compares the lineage of a result with that of the request.
correlated(i, r) ==
  IF /\ inv[i].agent \in Correlating
     /\ r.kind = "result"
     /\ r.lineage # request[i].lineage
  THEN RawError
  ELSE r

\* The SDK call ends with what became of r.
InvokeReturns(i, r) ==
  /\ pc[i] = "calling"
  /\ reply' = [reply EXCEPT ![i] = correlated(i, r)]
  /\ pc' = [pc EXCEPT ![i] = "replied"]

\* The child was answered, and the Router reports that.
RouterReplies(i, c) ==
  /\ c \in children(i)
  /\ answer[c] # None
  /\ InvokeReturns(i, IF answer[c].ok THEN Result(c, inv[c].lineage, TRUE, c) ELSE RouterError)
  /\ UNCHANGED <<target, inv, request, sent, answer>>

\* The Router is at fault: it replies with the outcome of any invocation that was
\* answered, the right one included, under an identifier that may be that of the
\* caller, and it may leave out each of identifier, lineage and result.
RouterMixesUp(i, c) ==
  /\ answer[c] # None
  /\ \E id \in {c, i, None}, lineage \in {inv[c].lineage, None}, result \in {c, None} :
       InvokeReturns(i, Result(id, lineage, answer[c].ok, result))
  /\ UNCHANGED <<target, inv, request, sent, answer>>

\* The Router refuses the request.
RouterRefuses(i) ==
  /\ request[i] # None
  /\ request[i].state = "sent"
  /\ InvokeReturns(i, RouterError)
  /\ request' = [request EXCEPT ![i].state = "refused"]
  /\ UNCHANGED <<target, inv, sent, answer>>

\* The connection breaks or the caller of i goes away, before or after the request
\* reached the Router; what the Router does for it goes on.
ReplyLost(i) ==
  /\ InvokeReturns(i, RawError)
  /\ UNCHANGED <<target, inv, request, sent, answer>>

-----------------------------------------------------------------------------
(* The handlers.                                                           *)

Answer(i, a) ==
  /\ answer' = [answer EXCEPT ![i] = a]
  /\ pc' = [pc EXCEPT ![i] = "answered"]

\* Mutant: the fixture of the message is passed on.
sameFixture(i) == inv[i].fixture

\* The fixture that both runtimes put into the input of a nested request.
nestedFixture(i) == "success"

\* Mutant: the handler keeps one context, which a concurrent invocation replaces.
contextOfAnother(i) ==
  {[invocation |-> i, lineage |-> inv[j].lineage] :
     j \in {k \in Invocations : inv[k] # None /\ inv[k].agent = inv[i].agent}}

\* The context of a nested request: the invocation at hand and its lineage.
platformContext(i) == {[invocation |-> i, lineage |-> inv[i].lineage]}

Invoke(i) ==
  /\ \E context \in platformContext(i) :
       request' = [request EXCEPT ![i] =
                     [invocation |-> context.invocation, lineage |-> context.lineage,
                      fixture |-> nestedFixture(i), state |-> "sent"]]
  /\ sent' = [sent EXCEPT ![i] = @ + 1]
  /\ pc' = [pc EXCEPT ![i] = "calling"]

\* Mutant: the claims may name another agent.
anyClaims(i) == inv[i].managed # "no-claims"

\* The Router's credential was checked and its claims name this agent.
claimed(i) == inv[i].managed \notin {"no-claims", "other-agent"}

\* Runtime A, up to the SDK call.  A capability of runtime.echo is answered on the
\* spot; anything else needs the context headers and calls the configured target.
OnSendMessageA(i) ==
  /\ pc[i] = "received"
  /\ inv[i].agent = "runtime-a"
  /\ LET rootInput == inv[i].fixture = "success"
         headers == inv[i].managed # "no-headers"
     IN \/ /\ claimed(i) /\ rootInput /\ inv[i].echo
           /\ Answer(i, Success(None, None))
           /\ UNCHANGED <<request, sent>>
        \/ /\ claimed(i) /\ rootInput /\ ~inv[i].echo /\ headers
           /\ Invoke(i)
           /\ UNCHANGED answer
        \/ /\ ~claimed(i) \/ ~rootInput \/ (~inv[i].echo /\ ~headers)
           /\ Answer(i, Failure("invalid-params"))
           /\ UNCHANGED <<request, sent>>
  /\ UNCHANGED <<target, inv, reply>>

\* Runtime B, up to the SDK call.  Only the nested fixture looks at the claims.
OnSendMessageB(i) ==
  /\ pc[i] = "received"
  /\ inv[i].agent = "runtime-b"
  /\ \/ /\ inv[i].fixture = "success"
        /\ Answer(i, Success(None, None))
        /\ UNCHANGED <<request, sent>>
     \/ /\ inv[i].fixture = "failure"
        /\ Answer(i, Failure("fixture-failure"))
        /\ UNCHANGED <<request, sent>>
     \/ /\ inv[i].fixture = "nested" /\ claimed(i)
        /\ Invoke(i)
        /\ UNCHANGED answer
     \/ /\ inv[i].fixture = "malformed" \/ (inv[i].fixture = "nested" /\ ~claimed(i))
        /\ Answer(i, Failure("invalid-params"))
        /\ UNCHANGED <<request, sent>>
  /\ UNCHANGED <<target, inv, reply>>

\* What both runtimes ask of a result: it is there and whole, succeeded, and names a
\* child that is not its own parent.
completeResult(i, r) ==
  /\ r.id # None
  /\ r.id # request[i].invocation
  /\ r.lineage # None
  /\ r.succeeded
  /\ r.result # None

\* Mutant: what Runtime B decodes is taken without its completeness.
acceptedIfCorrelated(i, r) ==
  r.id # None /\ r.id # request[i].invocation /\ r.lineage = request[i].lineage

\* Runtime A leaves the lineage to the SDK.
acceptedByA(i, r) == completeResult(i, r)

\* Runtime B compares the lineage of the result with its own.
acceptedByB(i, r) == completeResult(i, r) /\ r.lineage = request[i].lineage

acceptedResult(i, r) ==
  IF inv[i].agent = "runtime-a" THEN acceptedByA(i, r) ELSE acceptedByB(i, r)

\* Mutant: the error of the SDK is passed on with its text.
rawFailures(i, r) == {r.kind}

\* What a failed call is answered: the code of a Router error and nothing else.
\* Whether the type of the error survives the runner of Runtime A is up to that.
safeFailures(i, r) ==
  IF r.kind # "router-error" THEN {"unknown-failure"}
  ELSE IF inv[i].agent = "runtime-a" THEN {"router-failure", "unknown-failure"}
  ELSE {"router-failure"}

\* Mutant: a request whose reply was lost is sent again.
FinishOrRetry(i) ==
  /\ pc[i] = "replied"
  /\ IF reply[i].kind = "raw-error" /\ sent[i] < 2
     THEN Invoke(i) /\ UNCHANGED answer
     ELSE Answer(i, Failure("unknown-failure")) /\ UNCHANGED <<request, sent>>
  /\ reply' = [reply EXCEPT ![i] = None]
  /\ UNCHANGED <<target, inv>>

\* Mutant: the loop over the events of the runner goes on after a terminal error.
FinishUnlessFailed(i) ==
  /\ pc[i] = "replied"
  /\ reply[i].kind = "result"
  /\ acceptedResult(i, reply[i])
  /\ Answer(i, Success(reply[i].id, reply[i].result))
  /\ reply' = [reply EXCEPT ![i] = None]
  /\ UNCHANGED <<target, inv, request, sent>>

\* The handler continues after the SDK call, whatever it returned.
FinishNested(i) ==
  /\ pc[i] = "replied"
  /\ IF reply[i].kind = "result" /\ acceptedResult(i, reply[i])
     THEN Answer(i, Success(reply[i].id, reply[i].result))
     ELSE \E error \in safeFailures(i, reply[i]) : Answer(i, Failure(error))
  /\ reply' = [reply EXCEPT ![i] = None]
  /\ UNCHANGED <<target, inv, request, sent>>

-----------------------------------------------------------------------------

Handle(i) == OnSendMessageA(i) \/ OnSendMessageB(i) \/ FinishNested(i)

RouterStep(i) ==
  \/ \E c \in Invocations :
       RouterStartsChild(i, c) \/ RouterReplies(i, c) \/ RouterMixesUp(i, c)
  \/ RouterRefuses(i)

Next ==
  \E i \in Invocations :
    RouterStartsRoot(i) \/ RouterStep(i) \/ ReplyLost(i) \/ Handle(i)

\* What the Router owes a caller that waits: a child, and the reply about it.
RouterServes(i) ==
  /\ pc[i] = "calling"
  /\ \E c \in Invocations : RouterStartsChild(i, c) \/ RouterReplies(i, c)

\* Handlers run, and the Router serves every request, which it need not refuse, for as
\* long as the caller waits.  The client of the SDK has no timeout of its own, so
\* nothing is assumed of lost replies.
Fairness == \A i \in Invocations : WF_vars(Handle(i)) /\ WF_vars(RouterServes(i))

Spec == Init /\ [][Next]_vars /\ Fairness

-----------------------------------------------------------------------------
(* Properties.                                                             *)

delivered == {i \in Invocations : inv[i] # None}

\* Type invariant: what the handlers answer is of the few safe forms, and the state of
\* each invocation fits the place where its handler is.
TypeOK ==
  /\ target \in Targets
  /\ inv \in [Invocations -> Delivery \cup {None}]
  /\ pc \in [Invocations -> {"free", "received", "calling", "replied", "answered"}]
  /\ request \in [Invocations -> Requests \cup {None}]
  /\ sent \in [Invocations -> Nat]
  /\ reply \in [Invocations -> Replies \cup {None}]
  /\ answer \in [Invocations -> Answers \cup {None}]
  /\ \A i \in Invocations :
       /\ (inv[i] = None) = (pc[i] = "free")
       /\ (request[i] # None) = (sent[i] > 0)
       /\ pc[i] \in {"free", "received"} => request[i] = None
       /\ pc[i] \in {"calling", "replied"} => request[i] # None
       /\ (answer[i] # None) = (pc[i] = "answered")
       /\ (reply[i] # None) = (pc[i] = "replied")

\* An invocation leads to one nested request and one child at most, whatever was
\* refused, answered wrongly or lost: nothing is retried.
AtMostOneChild == \A i \in Invocations : sent[i] <= 1 /\ Cardinality(children(i)) <= 1

\* A nested call is answered with success only for the successful answer, in full, of
\* another invocation in the lineage of the caller, under its own name: no incomplete
\* or failed result, no parent under the name of a child, nothing of another root
\* task, however the Router mixes its replies up.  Runtime B sees to all of it; Runtime
\* A leaves the lineage to the SDK.  Neither could tell its child from another
\* invocation of the same lineage.
AnswersAreTruthful ==
  \A i \in Invocations :
    /\ answer[i] # None /\ answer[i].ok /\ sent[i] > 0
    /\ inv[i].agent \in Correlating \cup {"runtime-b"}
    => LET c == answer[i].result IN
       /\ c \in Invocations \ {i}
       /\ answer[i].child = c
       /\ inv[c] # None /\ inv[c].lineage = inv[i].lineage
       /\ answer[c] # None /\ answer[c].ok

\* Every invocation is in the lineage of the one that started it, over any depth.
LineageIsKept ==
  \A c \in delivered : inv[c].parent # None => inv[c].lineage = inv[inv[c].parent].lineage

\* Only an invocation whose context is complete leads to a nested request, and one
\* of the echo capability of Runtime A to none.
OnlyManagedCallsNest ==
  \A i \in Invocations : sent[i] > 0 =>
    /\ inv[i].managed \in {"full", "no-headers"}
    /\ inv[i].agent = "runtime-a" => ~inv[i].echo /\ inv[i].managed = "full"

grandparent(i) ==
  IF inv[i] = None \/ inv[i].parent = None THEN None ELSE inv[inv[i].parent].parent

\* Runtime A is its own target, for another nested call.
callsItself == target["runtime-a"] = [agent |-> "runtime-a", echo |-> FALSE]

\* A chain of invocations has a fourth link only if Runtime A is configured to call
\* itself, and then every link past the first is one of Runtime A: a nested request
\* asks for the plain fixture, so no other ring of the two runtimes goes around.
ChainsEnd ==
  \A i \in Invocations :
    grandparent(i) # None /\ inv[grandparent(i)].parent # None
      => /\ callsItself
         /\ \A link \in {i, inv[i].parent, grandparent(i)} :
              inv[link].agent = "runtime-a" /\ ~inv[link].echo

\* The strengthening under which the invariants above are inductive.  RequestInv is
\* about the nested request of an invocation, ChildInv about an invocation that the
\* Router started for one, ReplyInv about what the SDK call returned.
RequestInv(i) ==
  request[i] # None =>
    /\ sent[i] = 1
    /\ request[i].invocation = i
    /\ request[i].lineage = inv[i].lineage
    /\ request[i].fixture = "success"
    /\ inv[i].managed \in {"full", "no-headers"}
    /\ inv[i].agent = "runtime-a" => ~inv[i].echo /\ inv[i].managed = "full"
    /\ inv[i].agent = "runtime-b" => inv[i].fixture = "nested"

ChildInv(c) ==
  inv[c] # None /\ inv[c].parent # None =>
    /\ request[inv[c].parent] # None
    /\ request[inv[c].parent].state = "accepted"
    /\ inv[c] = child(inv[c].parent)
    /\ children(inv[c].parent) = {c}

ReplyInv(i) ==
  reply[i] # None /\ reply[i].kind = "result" =>
    /\ inv[i].agent \in Correlating => reply[i].lineage = request[i].lineage
    /\ \E c \in Invocations :
         /\ answer[c] # None
         /\ reply[i].id \in {c, i, None}
         /\ reply[i].lineage \in {inv[c].lineage, None}
         /\ reply[i].result \in {c, None}
         /\ reply[i].succeeded = answer[c].ok

CallTreeInv ==
  /\ TypeOK
  /\ \A i \in Invocations : RequestInv(i) /\ ChildInv(i) /\ ReplyInv(i)
  /\ AnswersAreTruthful

\* Every invocation that was delivered is answered in the end, although handlers wait
\* for each other: no ring of the runtimes, B calling B or A and B calling each other,
\* goes around, and no failed call leaves its handler waiting.  Only where Runtime A
\* calls itself does nothing in the code end the chain.
EveryoneIsAnswered ==
  \A i \in Invocations : (pc[i] = "received" /\ ~callsItself) ~> (answer[i] # None)
=============================================================================
