----------------------------- MODULE RuntimeEngine -----------------------------
(***************************************************************************)
(* One call of Runtime A's engine: runtimeEngine.run between the handler   *)
(* and the framework's runner (runtime-a/runtime.go), and what the handler *)
(* makes of the result (runtime-a/handler.go).                             *)
(*                                                                         *)
(* The runner is outside the repository.  It is modelled from what the     *)
(* loop over its events guards against: it runs the agent, emits any       *)
(* events in any order and closes its channel; when the channel is full it *)
(* waits for the loop or for the end of the context it was given.          *)
(***************************************************************************)
EXTENDS Naturals, Sequences, FiniteSets

CONSTANTS
  Contents,   \* contents of messages that are combined results
  Broken,     \* a content that is not a combined result
  MaxEvents,  \* bound on the events of a runner
  Capacity,   \* of the channel
  None        \* no content, no event, no outcome

\* An event that is not nil.  Its choices stand for the last one with a content; None is an
\* empty content.  The runner's completion may carry a response too.
Event == [error: BOOLEAN, choices: {<<>>} \cup {<<c>> : c \in Contents \cup {Broken, None}},
          completion: BOOLEAN]

Success(c) == [ok |-> TRUE, result |-> c]
Failure == [ok |-> FALSE, result |-> None]

\* What the handler answers.
Outcomes == {Failure} \cup {Success(c) : c \in Contents}

ASSUME NoneAssumption == None \notin Contents \cup {Broken} \cup Event \cup Outcomes
ASSUME BrokenAssumption == Broken \notin Contents
ASSUME BoundsAssumption == MaxEvents \in Nat /\ Capacity \in Nat \ {0}

VARIABLES
  pc,       \* run: "start", "range", "returned"
  content,  \* the last content that was not empty, or None
  outcome,  \* what the handler answers, or None
  runner,   \* "idle", "agent", "emitting", "closed"
  pending,  \* a sequence of at most one event that the runner is about to send
  events,   \* the channel
  emitted,  \* history: the events that were sent
  ctxDone   \* the context of the request is done

vars == <<pc, content, outcome, runner, pending, events, emitted, ctxDone>>

Init ==
  /\ pc = "start" /\ content = None /\ outcome = None
  /\ runner = "idle" /\ pending = <<>> /\ events = <<>> /\ emitted = <<>>
  /\ ctxDone = FALSE

-----------------------------------------------------------------------------
(* The agent and the runner.                                               *)

\* Mutant: the runner gets a context of its own.
neverDone == FALSE

\* The runner's context is derived from that of the request.
runContextDone == ctxDone

\* Run of the agent: the nested call succeeded and gives the one response event, or
\* something failed and the runner makes an error event of it.
AgentRuns ==
  /\ runner = "agent" /\ pending = <<>>
  /\ \E e \in {[error |-> FALSE, choices |-> <<c>>, completion |-> FALSE] : c \in Contents}
              \cup {[error |-> TRUE, choices |-> <<>>, completion |-> FALSE]} :
       pending' = <<e>>
  /\ runner' = "emitting"
  /\ UNCHANGED <<pc, content, outcome, events, emitted, ctxDone>>

\* The runner has another event to send, a nil one included (external).
RunnerPrepares ==
  /\ runner \in {"agent", "emitting"} /\ pending = <<>>
  /\ Len(emitted) < MaxEvents
  /\ \E e \in Event \cup {None} : pending' = <<e>>
  /\ UNCHANGED <<pc, content, outcome, runner, events, emitted, ctxDone>>

\* (External.)
RunnerSends ==
  /\ pending # <<>>
  /\ Len(events) < Capacity
  /\ events' = events \o pending
  /\ emitted' = emitted \o pending
  /\ pending' = <<>>
  /\ UNCHANGED <<pc, content, outcome, runner, ctxDone>>

\* The runner is through, or gives up sending (external).
RunnerCloses ==
  /\ \/ runner = "emitting" /\ pending = <<>>
     \/ pending # <<>> /\ runContextDone
  /\ runner' = "closed"
  /\ pending' = <<>>
  /\ UNCHANGED <<pc, content, outcome, events, emitted, ctxDone>>

-----------------------------------------------------------------------------
(* The engine and the handler.                                             *)

Return(o) ==
  /\ outcome' = o
  /\ pc' = "returned"

\* runner.Run starts, or fails at once.
Run ==
  /\ pc = "start"
  /\ \/ /\ pc' = "range" /\ runner' = "agent" /\ UNCHANGED outcome
     \/ /\ Return(Failure) /\ UNCHANGED runner
  /\ UNCHANGED <<content, pending, events, emitted, ctxDone>>

\* Mutant: any content is taken.
anyContent(c) == IF c # None THEN Success(c) ELSE Failure

\* No content, or one that is not a combined result, is a failure.
combinedData(c) == IF c \in Contents THEN Success(c) ELSE Failure

\* The content after event e: an empty one does not replace it.
contentAfter(e) ==
  IF e.choices # <<>> /\ e.choices[1] # None THEN e.choices[1] ELSE content

\* Mutant: completion is looked at before the response that comes with it.
ReceiveCompletionFirst ==
  /\ pc = "range" /\ events # <<>>
  /\ events' = Tail(events)
  /\ LET e == Head(events) IN
     \/ e = None /\ UNCHANGED <<pc, content, outcome>>
     \/ e # None /\ e.error /\ Return(Failure) /\ UNCHANGED content
     \/ e # None /\ ~e.error /\ e.completion /\ Return(combinedData(content)) /\ UNCHANGED content
     \/ /\ e # None /\ ~e.error /\ ~e.completion
        /\ content' = contentAfter(e)
        /\ UNCHANGED <<pc, outcome>>
  /\ UNCHANGED <<runner, pending, emitted, ctxDone>>

\* One turn of the loop over the events.
Receive ==
  /\ pc = "range" /\ events # <<>>
  /\ events' = Tail(events)
  /\ LET e == Head(events) IN
     \/ e = None /\ UNCHANGED <<pc, content, outcome>>
     \/ e # None /\ e.error /\ Return(Failure) /\ UNCHANGED content
     \/ /\ e # None /\ ~e.error
        /\ content' = contentAfter(e)
        /\ IF e.completion THEN Return(combinedData(content')) ELSE UNCHANGED <<pc, outcome>>
  /\ UNCHANGED <<runner, pending, emitted, ctxDone>>

\* Mutant: a closed channel reads as one nil event after the other.
ReceiveNil ==
  /\ pc = "range" /\ events = <<>> /\ runner = "closed"
  /\ UNCHANGED vars

\* The channel is closed and drained: the loop ends without a completion.
Drained ==
  /\ pc = "range" /\ events = <<>> /\ runner = "closed"
  /\ Return(combinedData(content))
  /\ UNCHANGED <<content, runner, pending, events, emitted, ctxDone>>

\* The client goes away, or the server is through with an answered request.
RequestEnds ==
  /\ ~ctxDone
  /\ ctxDone' = TRUE
  /\ UNCHANGED <<pc, content, outcome, runner, pending, events, emitted>>

-----------------------------------------------------------------------------

Engine == Run \/ Receive \/ Drained

Runner == AgentRuns \/ RunnerPrepares \/ RunnerSends \/ RunnerCloses

Next == Engine \/ Runner \/ RequestEnds

\* The handler runs, the agent's nested call returns and the runner goes on to close its
\* channel, and the HTTP server ends the context of a request that was answered.
Fairness ==
  /\ WF_vars(Engine) /\ WF_vars(Runner)
  /\ WF_vars(pc = "returned" /\ RequestEnds)

Spec == Init /\ [][Next]_vars /\ Fairness

-----------------------------------------------------------------------------
(* Properties.                                                             *)

\* Type invariant; nothing is in the channel that was not sent.
TypeOK ==
  /\ pc \in {"start", "range", "returned"}
  /\ content \in Contents \cup {Broken, None}
  /\ outcome \in Outcomes \cup {None}
  /\ runner \in {"idle", "agent", "emitting", "closed"}
  /\ pending \in {<<>>} \cup {<<e>> : e \in Event \cup {None}}
  /\ events \in Seq(Event \cup {None}) /\ emitted \in Seq(Event \cup {None})
  /\ ctxDone \in BOOLEAN
  /\ Len(events) <= Capacity /\ Len(events) <= Len(emitted)
  /\ \A k \in DOMAIN events : events[k] = emitted[Len(emitted) - Len(events) + k]
  /\ (outcome # None) = (pc = "returned")

happened == {k \in DOMAIN emitted : emitted[k] # None}

\* The events before the first one that ends the run, that one included.
relevant ==
  {k \in happened : ~\E j \in happened : j < k /\ (emitted[j].error \/ emitted[j].completion)}

contents == {k \in relevant : emitted[k].choices \notin {<<>>, <<None>>}}

\* A success is the content that came last before the runner completed or closed its
\* channel, and there was no error before that: neither what follows the completion nor
\* an intermediate content gets into the answer, and no error is passed over.
AnswerMatchesEvents ==
  outcome # None /\ outcome.ok =>
    /\ \A k \in relevant : ~emitted[k].error
    /\ \E k \in contents : /\ \A j \in contents : j <= k
                           /\ outcome.result = emitted[k].choices[1]

\* The strengthening under which that is inductive.  While the loop runs, it has received
\* no event that ends it, and holds the last content among those it received.
received == 1 .. Len(emitted) - Len(events)

receivedContents ==
  {k \in received : emitted[k] # None /\ emitted[k].choices \notin {<<>>, <<None>>}}

ReceivedInv ==
  /\ \A k \in received : emitted[k] # None => ~emitted[k].error /\ ~emitted[k].completion
  /\ IF receivedContents = {} THEN content = None
     ELSE \E k \in receivedContents : /\ \A j \in receivedContents : j <= k
                                     /\ content = emitted[k].choices[1]

\* A success is not affected by what is sent after it.
SettledInv ==
  outcome # None /\ outcome.ok =>
    runner = "closed" \/ \E k \in happened : emitted[k].error \/ emitted[k].completion

EngineInv ==
  /\ TypeOK
  /\ AnswerMatchesEvents
  /\ pc # "returned" => ReceivedInv
  /\ SettledInv
  /\ pc = "start" => runner = "idle"
  /\ runner \in {"idle", "closed"} => pending = <<>>

\* The handler returns once it has called the runner, in whatever way that ends.
HandlerReturns == (pc = "range") ~> (pc = "returned")

\* The loop leaves the channel before it is drained; the runner that waits to send is
\* released all the same, by the end of the request.
RunnerIsReleased == (runner = "agent") ~> (runner = "closed")
=============================================================================
