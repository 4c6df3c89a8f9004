--------------------------- MODULE NestedCallsProofs ---------------------------
(***************************************************************************)
(* Theorems about NestedCalls, for every set of invocations and lineages,  *)
(* every delivery at the root and every configuration of the targets.      *)
(***************************************************************************)
EXTENDS NestedCalls, FiniteSetTheorems, TLAPS

\* Each of the variables of an invocation stands for None or for a value that is not.
LEMMA NoneIsApart ==
  /\ None \notin Invocations
  /\ None \notin Lineages
  /\ \A v \in Delivery : v # None
  /\ \A r \in Requests : r # None
  /\ \A r \in Replies : r # None
  /\ \A a \in Answers : a # None
BY NoneAssumption

\* The answers of the handlers are answers, and none is None.
LEMMA AnswerTypes ==
  /\ \A c, d \in Invocations \cup {None} :
       Success(c, d) \in Answers /\ Success(c, d).ok
       /\ Success(c, d).child = c /\ Success(c, d).result = d
  /\ \A e \in Errors : Failure(e) \in Answers /\ ~Failure(e).ok
BY DEF Answers, Success, Failure, Errors

\* Only answers that are successes are ok.
LEMMA AnswerCases ==
  ASSUME NEW a \in Answers
  PROVE  /\ a.ok \in BOOLEAN
         /\ a.child \in Invocations \cup {None}
         /\ a.result \in Invocations \cup {None}
BY DEF Answers, Success, Failure

\* A reply of the kind "result" has the fields of one.
LEMMA ReplyCases ==
  ASSUME NEW r \in Replies
  PROVE  /\ r.kind \in {"result", "router-error", "raw-error"}
         /\ r.kind = "result" => r \in [kind: {"result"}, id: Invocations \cup {None},
                                        lineage: Lineages \cup {None},
                                        succeeded: BOOLEAN,
                                        result: Invocations \cup {None}]
BY DEF Replies, RouterError, RawError

\* What the Router takes from a nested request, and what from the configuration.
LEMMA ChildFields ==
  ASSUME NEW i \in Invocations
  PROVE  /\ child(i).lineage = request[i].lineage
         /\ child(i).fixture = request[i].fixture
         /\ child(i).agent = target[inv[i].agent].agent
         /\ child(i).echo = (target[inv[i].agent].echo
                            /\ target[inv[i].agent].agent = "runtime-a")
BY DEF child

\* What the Router delivers for a nested request is a delivery.
LEMMA ChildType ==
  ASSUME TypeOK, NEW i \in Invocations, request[i] # None
  PROVE  child(i) \in Delivery
<1>1. request[i] \in Requests /\ inv[i] \in Delivery
  BY DEF TypeOK
<1>2. target[inv[i].agent] \in [agent: Agents, echo: BOOLEAN]
  BY <1>1, TargetsAssumption DEF TypeOK, Delivery
<1> DEFINE e == target[inv[i].agent].echo /\ target[inv[i].agent].agent = "runtime-a"
<1>3. e \in BOOLEAN /\ (e => target[inv[i].agent].agent = "runtime-a")
  BY <1>2
<1>4. child(i) = [parent |-> request[i].invocation, lineage |-> request[i].lineage,
                  agent |-> target[inv[i].agent].agent, echo |-> e,
                  fixture |-> request[i].fixture, managed |-> "full"]
  BY DEF child
<1> HIDE DEF e
<1> QED
  BY <1>1, <1>2, <1>3, <1>4 DEF Delivery, Requests, Managed, Agents

-----------------------------------------------------------------------------
(* Type correctness.                                                       *)

LEMMA TypeInit == Init => TypeOK
BY DEF Init, TypeOK

\* The variables that only the Router's deliveries change.
LEMMA TypeDeliver ==
  ASSUME TypeOK, NEW i \in Invocations, NEW v \in Delivery, RouterDelivers(i, v),
         UNCHANGED <<target, sent, reply, answer>>,
         request' \in [Invocations -> Requests \cup {None}],
         \A j \in Invocations : (request'[j] = None) = (request[j] = None)
  PROVE  TypeOK'
BY NoneIsApart DEF TypeOK, RouterDelivers

LEMMA TypeStartsRoot ==
  ASSUME TypeOK, NEW i \in Invocations, RouterStartsRoot(i)
  PROVE  TypeOK'
<1>1. PICK v \in Roots : RouterDelivers(i, v)
  BY DEF RouterStartsRoot
<1>2. v \in Delivery
  BY RootsAssumption
<1> QED
  BY <1>1, <1>2, TypeDeliver DEF RouterStartsRoot, TypeOK

LEMMA TypeStartsChild ==
  ASSUME TypeOK, NEW i \in Invocations, NEW c \in Invocations, RouterStartsChild(i, c)
  PROVE  TypeOK'
<1>1. request[i] \in Requests /\ request[i] # None
  BY DEF TypeOK, RouterStartsChild
<1>2. child(i) \in Delivery
  BY <1>1, ChildType
<1>3. [request[i] EXCEPT !.state = "accepted"] \in Requests
  BY <1>1 DEF Requests
<1>4. request' = [request EXCEPT ![i] = [request[i] EXCEPT !.state = "accepted"]]
  BY DEF RouterStartsChild
<1>5. /\ request' \in [Invocations -> Requests \cup {None}]
      /\ \A j \in Invocations : (request'[j] = None) = (request[j] = None)
  BY <1>1, <1>3, <1>4, NoneIsApart DEF TypeOK
<1> QED
  BY <1>2, <1>5, TypeDeliver DEF RouterStartsChild

\* The SDK call returns a reply, or an error in its place.
LEMMA CorrelatedType ==
  ASSUME NEW i, NEW r \in Replies
  PROVE  /\ correlated(i, r) \in Replies
         /\ correlated(i, r) \in {r, RawError}
BY DEF correlated, Replies

LEMMA TypeReturns ==
  ASSUME TypeOK, NEW i \in Invocations, NEW r \in Replies, InvokeReturns(i, r),
         UNCHANGED <<target, inv, sent, answer>>,
         request' \in [Invocations -> Requests \cup {None}],
         \A j \in Invocations : (request'[j] = None) = (request[j] = None)
  PROVE  TypeOK'
<1>1. correlated(i, r) \in Replies /\ correlated(i, r) # None
  BY CorrelatedType, NoneIsApart
<1> QED
  BY <1>1 DEF TypeOK, InvokeReturns

\* What the Router replies, rightly or not, is a reply about an answered invocation.
LEMMA RepliesType ==
  ASSUME TypeOK, NEW i \in Invocations, NEW c \in Invocations,
         RouterReplies(i, c) \/ RouterMixesUp(i, c)
  PROVE  \E r \in Replies :
           /\ InvokeReturns(i, r)
           /\ answer[c] # None
           /\ r.kind = "result" =>
                /\ r.id \in {c, i, None}
                /\ r.lineage \in {inv[c].lineage, None}
                /\ r.result \in {c, None}
                /\ r.succeeded = answer[c].ok
<1>1. answer[c] # None /\ answer[c].ok \in BOOLEAN /\ inv[c].lineage \in Lineages
  <2>1. answer[c] # None
    BY DEF RouterReplies, RouterMixesUp
  <2>2. answer[c] \in Answers /\ inv[c] # None
    BY <2>1 DEF TypeOK
  <2>3. inv[c] \in Delivery
    BY <2>2 DEF TypeOK
  <2> QED
    BY <2>1, <2>2, <2>3, AnswerCases DEF Delivery
<1>2. ASSUME NEW id \in {c, i, None}, NEW lineage \in {inv[c].lineage, None},
             NEW ok \in BOOLEAN, NEW result \in {c, None}
      PROVE  /\ Result(id, lineage, ok, result) \in Replies
             /\ Result(id, lineage, ok, result).id = id
             /\ Result(id, lineage, ok, result).lineage = lineage
             /\ Result(id, lineage, ok, result).succeeded = ok
             /\ Result(id, lineage, ok, result).result = result
  BY <1>1 DEF Replies, Result
<1>3. CASE RouterReplies(i, c) /\ answer[c].ok
  <2> DEFINE r == Result(c, inv[c].lineage, TRUE, c)
  <2>1. InvokeReturns(i, r)
    BY <1>3 DEF RouterReplies
  <2>2. /\ r \in Replies /\ r.id = c /\ r.lineage = inv[c].lineage
        /\ r.succeeded = TRUE /\ r.result = c
    BY <1>2
  <2> HIDE DEF r
  <2> QED
    BY <1>1, <1>3, <2>1, <2>2
<1>4. CASE RouterReplies(i, c) /\ ~answer[c].ok
  BY <1>1, <1>4 DEF RouterReplies, Replies, RouterError
<1>5. CASE RouterMixesUp(i, c)
  <2>1. PICK id \in {c, i, None}, lineage \in {inv[c].lineage, None}, result \in {c, None} :
               InvokeReturns(i, Result(id, lineage, answer[c].ok, result))
    BY <1>5 DEF RouterMixesUp
  <2> DEFINE r == Result(id, lineage, answer[c].ok, result)
  <2>2. /\ r \in Replies /\ r.id = id /\ r.lineage = lineage
        /\ r.succeeded = answer[c].ok /\ r.result = result
    BY <1>1, <1>2
  <2>3. InvokeReturns(i, r)
    BY <2>1
  <2> HIDE DEF r
  <2> QED
    BY <1>1, <2>2, <2>3
<1> QED
  BY <1>3, <1>4, <1>5

LEMMA TypeReplies ==
  ASSUME TypeOK, NEW i \in Invocations, NEW c \in Invocations,
         RouterReplies(i, c) \/ RouterMixesUp(i, c)
  PROVE  TypeOK'
<1>1. PICK r \in Replies : InvokeReturns(i, r)
  BY RepliesType
<1>2. UNCHANGED <<target, inv, request, sent, answer>>
  BY DEF RouterReplies, RouterMixesUp
<1> QED
  BY <1>1, <1>2, TypeReturns DEF TypeOK

\* What the Router writes into a request that it refuses.
LEMMA RefusedRequest ==
  ASSUME TypeOK, NEW i \in Invocations, RouterRefuses(i)
  PROVE  /\ request[i] \in Requests /\ request[i] # None
         /\ request' = [request EXCEPT ![i] = [request[i] EXCEPT !.state = "refused"]]
         /\ request' \in [Invocations -> Requests \cup {None}]
         /\ \A j \in Invocations : (request'[j] = None) = (request[j] = None)
<1>1. request[i] \in Requests /\ request[i] # None
  BY DEF TypeOK, RouterRefuses
<1>2. [request[i] EXCEPT !.state = "refused"] \in Requests
  BY <1>1 DEF Requests
<1>3. request' = [request EXCEPT ![i] = [request[i] EXCEPT !.state = "refused"]]
  BY DEF RouterRefuses
<1> QED
  BY <1>1, <1>2, <1>3, NoneIsApart DEF TypeOK

LEMMA TypeRefuses ==
  ASSUME TypeOK, NEW i \in Invocations, RouterRefuses(i) \/ ReplyLost(i)
  PROVE  TypeOK'
<1>1. RouterError \in Replies /\ RawError \in Replies
  BY DEF Replies
<1>2. CASE RouterRefuses(i)
  BY <1>1, <1>2, RefusedRequest, TypeReturns DEF RouterRefuses
<1>3. CASE ReplyLost(i)
  BY <1>1, <1>3, TypeReturns DEF ReplyLost, TypeOK
<1> QED
  BY <1>2, <1>3

\* The handler of a received or replied invocation answers.
LEMMA TypeAnswer ==
  ASSUME TypeOK, NEW i \in Invocations, NEW a \in Answers, Answer(i, a),
         \/ pc[i] = "received" /\ UNCHANGED reply
         \/ pc[i] = "replied" /\ reply' = [reply EXCEPT ![i] = None],
         UNCHANGED <<target, inv, request, sent>>
  PROVE  TypeOK'
BY NoneIsApart DEF TypeOK, Answer

\* What a handler asks for names its own invocation and lineage.
LEMMA InvokeRequest ==
  ASSUME TypeOK, NEW i \in Invocations, pc[i] = "received", Invoke(i)
  PROVE  LET r == [invocation |-> i, lineage |-> inv[i].lineage,
                   fixture |-> "success", state |-> "sent"]
         IN  r \in Requests /\ request' = [request EXCEPT ![i] = r]
<1>1. inv[i] \in Delivery
  BY DEF TypeOK
<1>2. inv[i].lineage \in Lineages
  BY <1>1 DEF Delivery
<1>3. PICK context \in platformContext(i) :
        request' = [request EXCEPT ![i] =
                      [invocation |-> context.invocation, lineage |-> context.lineage,
                       fixture |-> nestedFixture(i), state |-> "sent"]]
  BY DEF Invoke
<1>4. context.invocation = i /\ context.lineage = inv[i].lineage
  BY DEF platformContext
<1> QED
  BY <1>2, <1>3, <1>4 DEF nestedFixture, Requests, FixtureKinds

LEMMA TypeInvoke ==
  ASSUME TypeOK, NEW i \in Invocations, pc[i] = "received", Invoke(i),
         UNCHANGED <<target, inv, reply, answer>>
  PROVE  TypeOK'
<1>1. PICK r \in Requests : request' = [request EXCEPT ![i] = r]
  BY InvokeRequest
<1>2. r # None
  BY NoneIsApart
<1>3. sent[i] \in Nat /\ sent[i] + 1 \in Nat /\ sent[i] + 1 > 0
  BY DEF TypeOK
<1>4. sent' = [sent EXCEPT ![i] = sent[i] + 1] /\ pc' = [pc EXCEPT ![i] = "calling"]
  BY DEF Invoke
<1>5. sent' \in [Invocations -> Nat]
  BY <1>3, <1>4 DEF TypeOK
<1> QED
  BY <1>1, <1>2, <1>3, <1>4, <1>5 DEF TypeOK

\* The errors that a handler may answer are the safe ones.
LEMMA ErrorTypes ==
  /\ "invalid-params" \in Errors
  /\ "fixture-failure" \in Errors
  /\ \A i, r : safeFailures(i, r) \subseteq Errors
BY DEF Errors, safeFailures

LEMMA TypeSendMessageA ==
  ASSUME TypeOK, NEW i \in Invocations, OnSendMessageA(i)
  PROVE  TypeOK'
<1>1. CASE Answer(i, Success(None, None)) /\ UNCHANGED <<request, sent>>
  BY <1>1, TypeAnswer, AnswerTypes DEF OnSendMessageA
<1>2. CASE Invoke(i) /\ UNCHANGED answer
  BY <1>2, TypeInvoke DEF OnSendMessageA
<1>3. CASE Answer(i, Failure("invalid-params")) /\ UNCHANGED <<request, sent>>
  BY <1>3, TypeAnswer, AnswerTypes, ErrorTypes DEF OnSendMessageA
<1> QED
  BY <1>1, <1>2, <1>3 DEF OnSendMessageA

LEMMA TypeSendMessageB ==
  ASSUME TypeOK, NEW i \in Invocations, OnSendMessageB(i)
  PROVE  TypeOK'
<1>1. CASE Answer(i, Success(None, None)) /\ UNCHANGED <<request, sent>>
  BY <1>1, TypeAnswer, AnswerTypes DEF OnSendMessageB
<1>2. CASE Answer(i, Failure("fixture-failure")) /\ UNCHANGED <<request, sent>>
  BY <1>2, TypeAnswer, AnswerTypes, ErrorTypes DEF OnSendMessageB
<1>3. CASE Invoke(i) /\ UNCHANGED answer
  BY <1>3, TypeInvoke DEF OnSendMessageB
<1>4. CASE Answer(i, Failure("invalid-params")) /\ UNCHANGED <<request, sent>>
  BY <1>4, TypeAnswer, AnswerTypes, ErrorTypes DEF OnSendMessageB
<1> QED
  BY <1>1, <1>2, <1>3, <1>4 DEF OnSendMessageB

LEMMA TypeFinish ==
  ASSUME TypeOK, NEW i \in Invocations, FinishNested(i)
  PROVE  TypeOK'
<1>1. reply[i] \in Replies
  BY DEF TypeOK, FinishNested
<1>2. CASE reply[i].kind = "result" /\ acceptedResult(i, reply[i])
  <2>1. Success(reply[i].id, reply[i].result) \in Answers
    BY <1>1, <1>2, ReplyCases, AnswerTypes
  <2> QED
    BY <1>2, <2>1, TypeAnswer DEF FinishNested
<1>3. CASE ~(reply[i].kind = "result" /\ acceptedResult(i, reply[i]))
  <2>1. PICK error \in safeFailures(i, reply[i]) : Answer(i, Failure(error))
    BY <1>3 DEF FinishNested
  <2>2. Failure(error) \in Answers
    BY ErrorTypes, AnswerTypes
  <2> QED
    BY <2>1, <2>2, TypeAnswer DEF FinishNested
<1> QED
  BY <1>2, <1>3

LEMMA TypeStep == TypeOK /\ [Next]_vars => TypeOK'
<1> SUFFICES ASSUME TypeOK, [Next]_vars PROVE TypeOK'
  OBVIOUS
<1>1. ASSUME NEW i \in Invocations, RouterStartsRoot(i) PROVE TypeOK'
  BY <1>1, TypeStartsRoot
<1>2. ASSUME NEW i \in Invocations, NEW c \in Invocations, RouterStartsChild(i, c) PROVE TypeOK'
  BY <1>2, TypeStartsChild
<1>3. ASSUME NEW i \in Invocations, NEW c \in Invocations,
             RouterReplies(i, c) \/ RouterMixesUp(i, c)
      PROVE TypeOK'
  BY <1>3, TypeReplies
<1>4. ASSUME NEW i \in Invocations, RouterRefuses(i) \/ ReplyLost(i) PROVE TypeOK'
  BY <1>4, TypeRefuses
<1>5. ASSUME NEW i \in Invocations, OnSendMessageA(i) PROVE TypeOK'
  BY <1>5, TypeSendMessageA
<1>6. ASSUME NEW i \in Invocations, OnSendMessageB(i) PROVE TypeOK'
  BY <1>6, TypeSendMessageB
<1>7. ASSUME NEW i \in Invocations, FinishNested(i) PROVE TypeOK'
  BY <1>7, TypeFinish
<1>8. CASE UNCHANGED vars
  BY <1>8 DEF TypeOK, vars
<1> QED
  BY <1>1, <1>2, <1>3, <1>4, <1>5, <1>6, <1>7, <1>8 DEF Next, RouterStep, Handle

\* The state of every invocation fits the place where its handler is.
THEOREM TypeCorrect == Spec => []TypeOK
<1> QED
  BY TypeInit, TypeStep, PTL DEF Spec

-----------------------------------------------------------------------------
(* The tree of invocations.  Handlers and the Router change it in five     *)
(* ways: a root or a child is delivered, a handler sends a request, the    *)
(* SDK call returns, and a handler answers.                                *)

\* An invocation that has asked for something has been delivered, and one that has
\* been delivered is not free.
LEMMA Stages ==
  ASSUME TypeOK, NEW i \in Invocations
  PROVE  /\ request[i] # None => inv[i] # None
         /\ request[i] # None => pc[i] \notin {"free", "received"}
         /\ inv[i] # None => pc[i] # "free"
         /\ answer[i] # None => pc[i] = "answered" /\ inv[i] # None
         /\ answer[i] \in Answers \cup {None}
         /\ inv[i] # None => inv[i] \in Delivery
         /\ sent[i] \in Nat
         /\ request[i] = None => sent[i] = 0
         /\ request[i] # None => sent[i] > 0
         /\ reply[i] # None => pc[i] = "replied" /\ request[i] # None
         /\ reply[i] \in Replies \cup {None}
BY DEF TypeOK

\* A delivery is of an invocation that asked for nothing and was told nothing yet.
LEMMA Settled ==
  ASSUME TypeOK, NEW c \in Invocations, NEW v, RouterDelivers(c, v), NEW j \in Invocations,
         answer[j] # None \/ reply[j] # None \/ request[j] # None
  PROVE  j # c /\ inv'[j] = inv[j]
<1>1. inv[j] # None /\ pc[j] # "free"
  BY Stages
<1> QED
  BY <1>1 DEF RouterDelivers, TypeOK

\* What was answered is settled: it stays true as long as its invocations stay.
LEMMA TruthKept ==
  ASSUME CallTreeInv, UNCHANGED answer,
         \A j \in Invocations : answer[j] # None =>
           inv'[j] = inv[j] /\ (sent'[j] > 0 => sent[j] > 0)
  PROVE  AnswersAreTruthful'
BY DEF CallTreeInv, AnswersAreTruthful

\* So does what a reply says.
LEMMA ReplyKept ==
  ASSUME CallTreeInv, NEW i \in Invocations, reply'[i] = reply[i],
         reply[i] # None => inv'[i] = inv[i] /\ request'[i].lineage = request[i].lineage,
         \A c \in Invocations : answer[c] # None => answer'[c] = answer[c] /\ inv'[c] = inv[c]
  PROVE  ReplyInv(i)'
BY DEF CallTreeInv, ReplyInv

LEMMA TreeInit == Init => CallTreeInv
<1> SUFFICES ASSUME Init PROVE CallTreeInv
  OBVIOUS
<1>1. TypeOK
  BY TypeInit
<1> QED
  BY <1>1 DEF Init, CallTreeInv, RequestInv, ChildInv, ReplyInv, AnswersAreTruthful

\* A root has no parent, and nothing that happened before was about it.
LEMMA TreeRoot ==
  ASSUME CallTreeInv, NEW i \in Invocations, RouterStartsRoot(i), TypeOK'
  PROVE  CallTreeInv'
<1>1. PICK v \in Roots : RouterDelivers(i, v)
  BY DEF RouterStartsRoot
<1>2. v \in Delivery /\ v.parent = None
  BY RootsAssumption
<1>3. TypeOK /\ inv \in [Invocations -> Delivery \cup {None}]
  BY DEF CallTreeInv, TypeOK
<1>4. /\ inv[i] = None /\ inv'[i] = v
      /\ \A j \in Invocations : j # i => inv'[j] = inv[j]
      /\ UNCHANGED <<target, request, sent, reply, answer>>
  BY <1>1, <1>3 DEF RouterStartsRoot, RouterDelivers, TypeOK
<1>5. ASSUME NEW j \in Invocations PROVE children(j)' = children(j)
  BY <1>2, <1>4, NoneIsApart DEF children
<1>6. ASSUME NEW j \in Invocations PROVE RequestInv(j)'
  BY <1>3, <1>4, Stages DEF CallTreeInv, RequestInv
<1>7. ASSUME NEW c \in Invocations, inv'[c] # None, inv'[c].parent # None PROVE ChildInv(c)'
  <2>1. c # i /\ inv'[c] = inv[c] /\ inv[c] # None /\ inv[c].parent \in Invocations
    BY <1>2, <1>3, <1>4, <1>7 DEF Delivery
  <2>2. request[inv[c].parent] # None /\ ChildInv(c)
    BY <1>7, <2>1 DEF CallTreeInv, ChildInv
  <2>3. inv'[inv[c].parent] = inv[inv[c].parent]
    BY <1>3, <1>4, <2>1, <2>2, Stages
  <2>4. child(inv[c].parent)' = child(inv[c].parent)
    BY <1>4, <2>1, <2>3 DEF child
  <2> QED
    BY <1>4, <1>5, <1>7, <2>1, <2>2, <2>4 DEF ChildInv
<1>8. ASSUME NEW j \in Invocations PROVE ReplyInv(j)'
  BY <1>1, <1>3, <1>4, Settled, ReplyKept
<1>9. AnswersAreTruthful'
  BY <1>1, <1>3, <1>4, Settled, TruthKept
<1> QED
  BY <1>6, <1>7, <1>8, <1>9 DEF CallTreeInv, ChildInv

\* A child is the only one of its parent, whose request had not been accepted.
LEMMA TreeChild ==
  ASSUME CallTreeInv, NEW i \in Invocations, NEW c \in Invocations,
         RouterStartsChild(i, c), TypeOK'
  PROVE  CallTreeInv'
<1>1. TypeOK /\ inv \in [Invocations -> Delivery \cup {None}]
  BY DEF CallTreeInv, TypeOK
<1>2. /\ request[i] # None /\ request[i].state = "sent"
      /\ pc[c] = "free" /\ inv[c] = None /\ inv'[c] = child(i) /\ c # i
      /\ \A j \in Invocations : j # c => inv'[j] = inv[j]
      /\ UNCHANGED <<target, sent, reply, answer>>
      /\ request' = [request EXCEPT ![i].state = "accepted"]
  BY <1>1 DEF RouterStartsChild, RouterDelivers, TypeOK
<1>3. request[i] \in Requests /\ request[i] # None /\ request[i].invocation = i
  BY <1>1, <1>2 DEF TypeOK, CallTreeInv, RequestInv
<1>4. /\ child(i).parent = i
      /\ child(i) # None
  <2>1. child(i).parent = i
    BY <1>3 DEF child
  <2> QED
    BY <1>1, <1>3, <2>1, ChildType, NoneIsApart
<1>5. /\ \A j \in Invocations : j # i => request'[j] = request[j]
      /\ request'[i].state = "accepted"
      /\ request'[i].invocation = i /\ request'[i].lineage = request[i].lineage
      /\ request'[i].fixture = request[i].fixture
  BY <1>1, <1>2, <1>3 DEF TypeOK, Requests
<1>6. \A j \in Invocations : request'[j] # None <=> request[j] # None
  BY <1>1, <1>3, <1>5, <1>2 DEF TypeOK
<1>7. children(i) = {}
  BY <1>2, <1>3, NoneIsApart DEF children, CallTreeInv, ChildInv
<1>8. children(i)' = {c} /\ \A j \in Invocations : j # i => children(j)' = children(j)
  <2>1. ASSUME NEW d \in Invocations, d # c, inv[d] # None PROVE inv[d].parent # i
    BY <1>7, <2>1 DEF children
  <2> QED
    BY <1>2, <1>4, <2>1 DEF children
<1>9. ASSUME NEW j \in Invocations, inv[j] # None PROVE child(j)' = child(j)
  <2>1. j # c /\ inv'[j] = inv[j]
    BY <1>2, <1>9
  <2> QED
    BY <1>2, <1>3, <1>5, <2>1 DEF child
<1>10. ASSUME NEW j \in Invocations PROVE RequestInv(j)'
  <2> SUFFICES ASSUME request[j] # None PROVE RequestInv(j)'
    BY <1>6 DEF RequestInv
  <2>1. inv'[j] = inv[j]
    BY <1>1, <1>2, Stages
  <2>2. RequestInv(j)
    BY DEF CallTreeInv
  <2> QED
    BY <1>2, <1>5, <1>6, <2>1, <2>2 DEF RequestInv
<1>11. ASSUME NEW d \in Invocations, inv'[d] # None, inv'[d].parent # None PROVE ChildInv(d)'
  <2>1. CASE d = c
    <3>1. inv'[d].parent = i /\ inv[i] # None
      BY <1>1, <1>2, <1>3, <1>4, <2>1, Stages
    <3>2. child(i)' = child(i)
      BY <1>9, <3>1
    <3> QED
      BY <1>2, <1>3, <1>5, <1>6, <1>8, <2>1, <3>1, <3>2 DEF ChildInv
  <2>2. CASE d # c
    <3>1. inv'[d] = inv[d] /\ inv[d].parent \in Invocations
      BY <1>1, <1>2, <1>11, <2>2 DEF Delivery
    <3>2. ChildInv(d) /\ request[inv[d].parent] # None /\ request[inv[d].parent].state = "accepted"
      BY <1>11, <3>1 DEF CallTreeInv, ChildInv
    <3>3. inv[d].parent # i /\ inv[inv[d].parent] # None
      BY <1>1, <1>2, <3>1, <3>2, Stages
    <3>4. child(inv[d].parent)' = child(inv[d].parent)
      BY <1>9, <3>1, <3>3
    <3> QED
      BY <1>5, <1>8, <1>11, <3>1, <3>2, <3>3, <3>4 DEF ChildInv
  <2> QED
    BY <2>1, <2>2
<1>12. ASSUME NEW j \in Invocations PROVE ReplyInv(j)'
  <2>1. request'[j].lineage = request[j].lineage
    BY <1>5
  <2> QED
    BY <1>1, <1>2, <2>1, Settled, ReplyKept DEF RouterStartsChild
<1>13. AnswersAreTruthful'
  BY <1>1, <1>2, Settled, TruthKept DEF RouterStartsChild
<1> QED
  BY <1>10, <1>11, <1>12, <1>13 DEF CallTreeInv, ChildInv

\* A handler that sends its first request has no child, no reply and no answer yet.
LEMMA TreeInvoke ==
  ASSUME CallTreeInv, NEW i \in Invocations, pc[i] = "received", Invoke(i),
         UNCHANGED <<target, inv, reply, answer>>, TypeOK',
         inv[i].managed \in {"full", "no-headers"},
         inv[i].agent = "runtime-a" => ~inv[i].echo /\ inv[i].managed = "full",
         inv[i].agent = "runtime-b" => inv[i].fixture = "nested"
  PROVE  CallTreeInv'
<1>1. TypeOK
  BY DEF CallTreeInv
<1>2. PICK r \in Requests : /\ request' = [request EXCEPT ![i] = r]
                            /\ r.invocation = i /\ r.lineage = inv[i].lineage
                            /\ r.fixture = "success"
  BY <1>1, InvokeRequest
<1>3. request[i] = None /\ sent[i] = 0
  BY <1>1, Stages DEF TypeOK
<1>4. /\ request'[i] = r /\ sent'[i] = 1
      /\ \A j \in Invocations : j # i => request'[j] = request[j] /\ sent'[j] = sent[j]
  BY <1>1, <1>2, <1>3 DEF TypeOK, Invoke
<1>5. \A j \in Invocations : children(j)' = children(j)
  BY DEF children
<1>6. ASSUME NEW j \in Invocations PROVE RequestInv(j)'
  BY <1>2, <1>4 DEF CallTreeInv, RequestInv
<1>7. ASSUME NEW c \in Invocations, inv[c] # None, inv[c].parent # None PROVE ChildInv(c)'
  <2>1. ChildInv(c) /\ inv[c].parent \in Invocations /\ inv[c].parent # i
    BY <1>1, <1>3, <1>7, Stages DEF CallTreeInv, ChildInv, Delivery
  <2>2. child(inv[c].parent)' = child(inv[c].parent)
    BY <1>4, <2>1 DEF child
  <2> QED
    BY <1>4, <1>5, <1>7, <2>1, <2>2 DEF ChildInv
<1>8. ASSUME NEW j \in Invocations PROVE ReplyInv(j)'
  <2>1. reply[j] # None => j # i
    BY <1>1, Stages
  <2> QED
    BY <1>4, <2>1, ReplyKept
<1>9. AnswersAreTruthful'
  <2>1. answer[i] = None
    BY <1>1, Stages
  <2> QED
    BY <1>4, <2>1, TruthKept
<1> QED
  BY <1>6, <1>7, <1>8, <1>9 DEF CallTreeInv, ChildInv

\* What the SDK call returns is about an invocation whose answer is known by then, and
\* of the lineage of the request if the SDK compares them.
LEMMA TreeReturns ==
  ASSUME CallTreeInv, NEW i \in Invocations, NEW r \in Replies, InvokeReturns(i, r), TypeOK',
         UNCHANGED <<target, inv, request, sent, answer>>,
         r.kind = "result" =>
           \E c \in Invocations :
             /\ answer[c] # None
             /\ r.id \in {c, i, None}
             /\ r.lineage \in {inv[c].lineage, None}
             /\ r.result \in {c, None}
             /\ r.succeeded = answer[c].ok
  PROVE  CallTreeInv'
<1>1. /\ reply'[i] = correlated(i, r)
      /\ \A j \in Invocations : j # i => reply'[j] = reply[j]
  BY DEF InvokeReturns, CallTreeInv, TypeOK
<1>2. \A j \in Invocations : children(j)' = children(j) /\ child(j)' = child(j)
  BY DEF children, child
<1>3. ReplyInv(i)'
  <2>1. CASE correlated(i, r) = RawError
    BY <1>1, <2>1 DEF ReplyInv, RawError
  <2>2. CASE correlated(i, r) # RawError
    <3>1. /\ correlated(i, r) = r
          /\ inv[i].agent \in Correlating /\ r.kind = "result" => r.lineage = request[i].lineage
      BY <2>2 DEF correlated
    <3> QED
      BY <1>1, <3>1 DEF ReplyInv
  <2> QED
    BY <2>1, <2>2
<1>4. ASSUME NEW j \in Invocations PROVE ReplyInv(j)'
  BY <1>1, <1>3, ReplyKept
<1>5. ASSUME NEW j \in Invocations PROVE RequestInv(j)'
  BY DEF CallTreeInv, RequestInv
<1>6. ASSUME NEW j \in Invocations PROVE ChildInv(j)'
  BY <1>2 DEF CallTreeInv, ChildInv, children, child
<1>7. AnswersAreTruthful'
  BY TruthKept
<1> QED
  BY <1>4, <1>5, <1>6, <1>7 DEF CallTreeInv

\* A request that is refused has no child, and names what it named.
LEMMA TreeRefuses ==
  ASSUME CallTreeInv, NEW i \in Invocations, RouterRefuses(i), TypeOK'
  PROVE  CallTreeInv'
<1>1. TypeOK
  BY DEF CallTreeInv
<1>2. /\ request[i] \in Requests /\ request[i] # None /\ request[i].state = "sent"
      /\ request' = [request EXCEPT ![i] = [request[i] EXCEPT !.state = "refused"]]
      /\ \A j \in Invocations : (request'[j] = None) = (request[j] = None)
  BY <1>1, RefusedRequest DEF RouterRefuses
<1>3. /\ \A j \in Invocations : j # i => request'[j] = request[j]
      /\ request'[i].invocation = request[i].invocation
      /\ request'[i].lineage = request[i].lineage
      /\ request'[i].fixture = request[i].fixture
  BY <1>1, <1>2 DEF TypeOK, Requests
<1>4. /\ UNCHANGED <<target, inv, sent, answer>>
      /\ InvokeReturns(i, RouterError)
  BY DEF RouterRefuses
<1>5. /\ reply'[i] = RouterError
      /\ \A j \in Invocations : j # i => reply'[j] = reply[j]
  <2>1. correlated(i, RouterError) = RouterError
    BY DEF correlated, RouterError
  <2> QED
    BY <1>1, <1>4, <2>1 DEF InvokeReturns, TypeOK
<1>6. \A j \in Invocations : children(j)' = children(j) /\ child(j)' = child(j)
  BY <1>3, <1>4 DEF children, child
<1>7. ASSUME NEW j \in Invocations PROVE ReplyInv(j)'
  <2>1. CASE j = i
    BY <1>5, <2>1 DEF ReplyInv, RouterError
  <2>2. CASE j # i
    BY <1>3, <1>4, <1>5, <2>2, ReplyKept
  <2> QED
    BY <2>1, <2>2
<1>8. ASSUME NEW j \in Invocations PROVE RequestInv(j)'
  BY <1>2, <1>3, <1>4 DEF CallTreeInv, RequestInv
<1>9. ASSUME NEW c \in Invocations, inv[c] # None, inv[c].parent # None PROVE ChildInv(c)'
  <2>1. ChildInv(c) /\ inv[c].parent \in Invocations
    BY <1>1, <1>9, Stages DEF CallTreeInv, Delivery
  <2>2. inv[c].parent # i /\ request'[inv[c].parent] = request[inv[c].parent]
    BY <1>2, <1>3, <1>9, <2>1 DEF ChildInv
  <2> QED
    BY <1>4, <1>6, <1>9, <2>1, <2>2 DEF ChildInv
<1>10. AnswersAreTruthful'
  BY <1>4, TruthKept
<1> QED
  BY <1>4, <1>7, <1>8, <1>9, <1>10 DEF CallTreeInv, ChildInv

\* An answer tells of another invocation that succeeded, or of no nested call at all.
LEMMA TreeAnswer ==
  ASSUME CallTreeInv, NEW i \in Invocations, NEW a \in Answers, Answer(i, a), TypeOK',
         UNCHANGED <<target, inv, request, sent>>,
         answer[i] = None,
         \A j \in Invocations : reply'[j] \in {reply[j], None},
         a.ok /\ sent[i] > 0 /\ inv[i].agent \in Correlating \cup {"runtime-b"} =>
           /\ a.result \in Invocations \ {i} /\ a.child = a.result
           /\ inv[a.result] # None /\ inv[a.result].lineage = inv[i].lineage
           /\ answer[a.result] # None /\ answer[a.result].ok
  PROVE  CallTreeInv'
<1>1. TypeOK
  BY DEF CallTreeInv
<1>2. /\ answer'[i] = a
      /\ \A j \in Invocations : j # i => answer'[j] = answer[j]
  BY <1>1 DEF Answer, TypeOK
<1>3. \A j \in Invocations : answer[j] # None => answer'[j] = answer[j]
  BY <1>2
<1>4. \A j \in Invocations : children(j)' = children(j) /\ child(j)' = child(j)
  BY DEF children, child
<1>5. ASSUME NEW j \in Invocations PROVE RequestInv(j)'
  BY DEF CallTreeInv, RequestInv
<1>6. ASSUME NEW j \in Invocations PROVE ChildInv(j)'
  BY <1>4 DEF CallTreeInv, ChildInv, children, child
<1>7. ASSUME NEW j \in Invocations PROVE ReplyInv(j)'
  <2>1. CASE reply'[j] = reply[j]
    BY <1>3, <2>1, ReplyKept
  <2>2. CASE reply'[j] = None
    BY <2>2 DEF ReplyInv
  <2> QED
    BY <2>1, <2>2
<1>8. AnswersAreTruthful'
  <2> SUFFICES ASSUME NEW j \in Invocations, answer'[j] # None, answer'[j].ok, sent[j] > 0,
                      inv[j].agent \in Correlating \cup {"runtime-b"}
               PROVE  LET c == answer'[j].result IN
                      /\ c \in Invocations \ {j} /\ answer'[j].child = c
                      /\ inv[c] # None /\ inv[c].lineage = inv[j].lineage
                      /\ answer'[c] # None /\ answer'[c].ok
    BY DEF AnswersAreTruthful
  <2>1. CASE j # i
    BY <1>2, <1>3, <2>1 DEF CallTreeInv, AnswersAreTruthful
  <2>2. CASE j = i
    BY <1>2, <1>3, <2>2
  <2> QED
    BY <2>1, <2>2
<1> QED
  BY <1>5, <1>6, <1>7, <1>8 DEF CallTreeInv

LEMMA TreeSendMessageA ==
  ASSUME CallTreeInv, NEW i \in Invocations, OnSendMessageA(i), TypeOK'
  PROVE  CallTreeInv'
<1>1. TypeOK /\ sent[i] = 0 /\ answer[i] = None /\ inv[i] \in Delivery
  BY Stages DEF CallTreeInv, OnSendMessageA, TypeOK
<1>2. CASE Answer(i, Success(None, None)) /\ UNCHANGED <<request, sent>>
  BY <1>1, <1>2, TreeAnswer, AnswerTypes DEF OnSendMessageA
<1>3. CASE /\ Invoke(i) /\ UNCHANGED answer
           /\ claimed(i) /\ ~inv[i].echo /\ inv[i].managed # "no-headers"
  <2>1. inv[i].managed = "full"
    BY <1>1, <1>3 DEF claimed, Delivery, Managed
  <2> QED
    BY <1>1, <1>3, <2>1, TreeInvoke DEF OnSendMessageA
<1>4. CASE Answer(i, Failure("invalid-params")) /\ UNCHANGED <<request, sent>>
  BY <1>1, <1>4, TreeAnswer, AnswerTypes, ErrorTypes DEF OnSendMessageA
<1> QED
  BY <1>2, <1>3, <1>4 DEF OnSendMessageA

LEMMA TreeSendMessageB ==
  ASSUME CallTreeInv, NEW i \in Invocations, OnSendMessageB(i), TypeOK'
  PROVE  CallTreeInv'
<1>1. TypeOK /\ sent[i] = 0 /\ answer[i] = None /\ inv[i] \in Delivery
  BY Stages DEF CallTreeInv, OnSendMessageB, TypeOK
<1>2. CASE Answer(i, Success(None, None)) /\ UNCHANGED <<request, sent>>
  BY <1>1, <1>2, TreeAnswer, AnswerTypes DEF OnSendMessageB
<1>3. CASE \E e \in Errors : Answer(i, Failure(e)) /\ UNCHANGED <<request, sent>>
  BY <1>1, <1>3, TreeAnswer, AnswerTypes DEF OnSendMessageB
<1>4. CASE Invoke(i) /\ UNCHANGED answer /\ claimed(i) /\ inv[i].fixture = "nested"
  <2>1. inv[i].managed \in {"full", "no-headers"}
    BY <1>1, <1>4 DEF claimed, Delivery, Managed
  <2> QED
    BY <1>1, <1>4, <2>1, TreeInvoke DEF OnSendMessageB
<1> QED
  BY <1>2, <1>3, <1>4, ErrorTypes DEF OnSendMessageB

\* A result that is accepted is whole, so that it names the invocation it is of; that one
\* is in the lineage that Runtime B, or the SDK for Runtime A, compared.
LEMMA TreeFinish ==
  ASSUME CallTreeInv, NEW i \in Invocations, FinishNested(i), TypeOK'
  PROVE  CallTreeInv'
<1>1. TypeOK /\ answer[i] = None /\ reply[i] # None /\ reply[i] \in Replies
  BY DEF CallTreeInv, FinishNested, TypeOK
<1>2. /\ UNCHANGED <<target, inv, request, sent>>
      /\ \A j \in Invocations : reply'[j] \in {reply[j], None}
  BY <1>1 DEF FinishNested, TypeOK
<1>3. CASE reply[i].kind = "result" /\ acceptedResult(i, reply[i])
  <2> DEFINE q == reply[i]
             a == Success(q.id, q.result)
  <2>1. /\ q.id # None /\ q.id # i /\ q.lineage # None /\ q.succeeded /\ q.result # None
        /\ inv[i].agent = "runtime-b" => q.lineage = request[i].lineage
    <3>1. request[i].invocation = i /\ inv[i] \in Delivery
      BY <1>1, Stages DEF CallTreeInv, RequestInv
    <3> QED
      BY <1>3, <3>1
      DEF acceptedResult, acceptedByA, acceptedByB, completeResult, Delivery, Agents
  <2>2. PICK c \in Invocations :
               /\ answer[c] # None
               /\ q.id \in {c, i, None}
               /\ q.lineage \in {inv[c].lineage, None}
               /\ q.result \in {c, None}
               /\ q.succeeded = answer[c].ok
    BY <1>1, <1>3 DEF CallTreeInv, ReplyInv
  <2>3. q.id = c /\ q.result = c /\ c # i /\ answer[c].ok /\ inv[c].lineage = q.lineage
    BY <2>1, <2>2
  <2>4. inv[c] # None
    BY <1>1, <2>2, Stages
  <2>5. inv[i].agent \in Correlating \cup {"runtime-b"} => inv[c].lineage = inv[i].lineage
    <3>1. request[i] # None /\ request[i].lineage = inv[i].lineage
      BY <1>1, Stages DEF CallTreeInv, RequestInv
    <3>2. inv[i].agent \in Correlating => q.lineage = request[i].lineage
      BY <1>1, <1>3 DEF CallTreeInv, ReplyInv
    <3> QED
      BY <2>1, <2>3, <3>1, <3>2
  <2>6. Answer(i, a) /\ a \in Answers /\ a.child = c /\ a.result = c
    BY <1>3, <2>3, AnswerTypes DEF FinishNested
  <2> HIDE DEF q, a
  <2> QED
    BY <1>1, <1>2, <2>2, <2>3, <2>4, <2>5, <2>6, TreeAnswer
<1>4. CASE ~(reply[i].kind = "result" /\ acceptedResult(i, reply[i]))
  <2>1. PICK error \in safeFailures(i, reply[i]) : Answer(i, Failure(error))
    BY <1>4 DEF FinishNested
  <2> QED
    BY <1>1, <1>2, <2>1, TreeAnswer, AnswerTypes, ErrorTypes
<1> QED
  BY <1>3, <1>4

LEMMA TreeStep == CallTreeInv /\ [Next]_vars => CallTreeInv'
<1> SUFFICES ASSUME CallTreeInv, [Next]_vars PROVE CallTreeInv'
  OBVIOUS
<1>1. TypeOK /\ TypeOK'
  BY TypeStep DEF CallTreeInv
<1>2. ASSUME NEW i \in Invocations, RouterStartsRoot(i) PROVE CallTreeInv'
  BY <1>1, <1>2, TreeRoot
<1>3. ASSUME NEW i \in Invocations, NEW c \in Invocations, RouterStartsChild(i, c)
      PROVE  CallTreeInv'
  BY <1>1, <1>3, TreeChild
<1>4. ASSUME NEW i \in Invocations, NEW c \in Invocations,
             RouterReplies(i, c) \/ RouterMixesUp(i, c)
      PROVE  CallTreeInv'
  <2>1. UNCHANGED <<target, inv, request, sent, answer>>
    BY <1>4 DEF RouterReplies, RouterMixesUp
  <2> QED
    BY <1>1, <1>4, <2>1, RepliesType, TreeReturns
<1>5. ASSUME NEW i \in Invocations, RouterRefuses(i) \/ ReplyLost(i) PROVE CallTreeInv'
  <2>1. RawError \in Replies /\ RawError.kind # "result"
    BY DEF Replies, RawError
  <2> QED
    BY <1>1, <1>5, <2>1, TreeRefuses, TreeReturns DEF ReplyLost
<1>6. ASSUME NEW i \in Invocations, OnSendMessageA(i) PROVE CallTreeInv'
  BY <1>1, <1>6, TreeSendMessageA
<1>7. ASSUME NEW i \in Invocations, OnSendMessageB(i) PROVE CallTreeInv'
  BY <1>1, <1>7, TreeSendMessageB
<1>8. ASSUME NEW i \in Invocations, FinishNested(i) PROVE CallTreeInv'
  BY <1>1, <1>8, TreeFinish
<1>9. CASE UNCHANGED vars
  <2>1. UNCHANGED <<target, inv, pc, request, sent, reply, answer>>
    BY <1>9 DEF vars
  <2>2. \A i \in Invocations : children(i)' = children(i) /\ child(i)' = child(i)
    BY <2>1 DEF children, child
  <2>3. \A i \in Invocations : RequestInv(i)'
    BY <2>1 DEF CallTreeInv, RequestInv
  <2>4. \A i \in Invocations : ChildInv(i)'
    <3> SUFFICES ASSUME NEW i \in Invocations, ChildInv(i) PROVE ChildInv(i)'
      BY DEF CallTreeInv
    <3> QED
      BY <2>1 DEF ChildInv, children, child
  <2>5. \A i \in Invocations : ReplyInv(i)'
    BY <2>1, ReplyKept
  <2>6. AnswersAreTruthful'
    BY <2>1, TruthKept
  <2> QED
    BY <1>1, <2>3, <2>4, <2>5, <2>6 DEF CallTreeInv
<1> QED
  BY <1>2, <1>3, <1>4, <1>5, <1>6, <1>7, <1>8, <1>9 DEF Next, RouterStep, Handle

\* The nested requests, the children they led to and the replies fit one another.
THEOREM CallTree == Spec => []CallTreeInv
<1> QED
  BY TreeInit, TreeStep, PTL DEF Spec

-----------------------------------------------------------------------------
(* What follows from it.                                                   *)

\* Whatever was refused, answered wrongly or lost, nothing is sent twice and the
\* Router starts one child at most.
THEOREM OneChildAtMost == Spec => []AtMostOneChild
<1>1. CallTreeInv => AtMostOneChild
  <2> SUFFICES ASSUME CallTreeInv, NEW i \in Invocations
               PROVE  sent[i] <= 1 /\ Cardinality(children(i)) <= 1
    BY DEF AtMostOneChild
  <2>1. sent[i] <= 1
    BY Stages DEF CallTreeInv, RequestInv
  <2>2. CASE children(i) = {}
    BY <2>1, <2>2, FS_EmptySet
  <2>3. ASSUME NEW c \in children(i) PROVE children(i) = {c}
    BY <2>3, NoneIsApart DEF children, CallTreeInv, ChildInv
  <2>4. CASE children(i) # {}
    BY <2>1, <2>3, <2>4, FS_Singleton
  <2> QED
    BY <2>2, <2>4
<1> QED
  BY <1>1, CallTree, PTL

\* A nested call that succeeds embeds the whole, successful answer of another invocation
\* in its lineage, whatever the Router mixed up.
THEOREM SuccessesAreTruthful == Spec => []AnswersAreTruthful
<1>1. CallTreeInv => AnswersAreTruthful
  BY DEF CallTreeInv
<1> QED
  BY <1>1, CallTree, PTL

\* A child is in the lineage of its parent.
THEOREM LineagesAreKept == Spec => []LineageIsKept
<1>1. CallTreeInv => LineageIsKept
  <2> SUFFICES ASSUME CallTreeInv, NEW c \in Invocations, inv[c] # None, inv[c].parent # None
               PROVE  inv[c].lineage = inv[inv[c].parent].lineage
    BY DEF LineageIsKept, delivered
  <2>1. inv[c].parent \in Invocations
    BY Stages DEF CallTreeInv, Delivery
  <2>2. ChildInv(c) /\ RequestInv(inv[c].parent)
    BY <2>1 DEF CallTreeInv
  <2> QED
    BY <2>1, <2>2, ChildFields DEF ChildInv, RequestInv
<1> QED
  BY <1>1, CallTree, PTL

\* Nothing is asked of the Router without a complete context.
THEOREM OnlyManagedNest == Spec => []OnlyManagedCallsNest
<1>1. CallTreeInv => OnlyManagedCallsNest
  BY DEF CallTreeInv, TypeOK, RequestInv, OnlyManagedCallsNest
<1> QED
  BY <1>1, CallTree, PTL

\* An invocation that was started by a nested request starts another one only if it is
\* one of Runtime A for its plain capability.
LEMMA OnlyPlainCallsOfANestAgain ==
  ASSUME CallTreeInv, NEW c \in Invocations,
         inv[c] # None, inv[c].parent # None, request[c] # None
  PROVE  inv[c].agent = "runtime-a" /\ ~inv[c].echo
<1>1. inv[c] \in Delivery /\ inv[c].parent \in Invocations
  BY Stages DEF CallTreeInv, Delivery
<1>2. inv[c].fixture = "success"
  BY <1>1, ChildFields DEF CallTreeInv, ChildInv, RequestInv
<1> QED
  BY <1>1, <1>2 DEF CallTreeInv, RequestInv, Delivery, Agents

\* A chain of invocations goes on past its third link only where Runtime A calls itself,
\* and is all Runtime A's past its first.
THEOREM ChainsAreShort == Spec => []ChainsEnd
<1>1. CallTreeInv => ChainsEnd
  <2> SUFFICES ASSUME CallTreeInv, NEW i \in Invocations, grandparent(i) # None,
                      inv[grandparent(i)].parent # None
               PROVE  /\ callsItself
                      /\ \A link \in {i, inv[i].parent, grandparent(i)} :
                           inv[link].agent = "runtime-a" /\ ~inv[link].echo
    BY DEF ChainsEnd
  <2> DEFINE p == inv[i].parent
             g == grandparent(i)
  <2>1. inv[i] # None /\ p # None /\ g = inv[p].parent
    BY DEF grandparent
  <2>2. /\ p \in Invocations /\ request[p] # None /\ inv[p] # None /\ inv[p] \in Delivery
        /\ inv[i] = child(p)
    BY <2>1, Stages DEF CallTreeInv, ChildInv, Delivery
  <2>3. g \in Invocations /\ request[g] # None /\ inv[g] # None /\ inv[p] = child(g)
    BY <2>1, <2>2, Stages DEF CallTreeInv, ChildInv, Delivery
  <2>4. inv[p].agent = "runtime-a" /\ ~inv[p].echo
    BY <2>1, <2>2, OnlyPlainCallsOfANestAgain
  <2>5. inv[g].agent = "runtime-a" /\ ~inv[g].echo
    BY <2>3, OnlyPlainCallsOfANestAgain
  <2> DEFINE t == target["runtime-a"]
  <2>6. t \in [agent: Agents, echo: BOOLEAN]
    BY TargetsAssumption DEF CallTreeInv, TypeOK, Agents
  <2>7. t.agent = "runtime-a" /\ ~t.echo
    BY <2>3, <2>4, <2>5, <2>6, ChildFields
  <2>8. callsItself
    BY <2>6, <2>7 DEF callsItself
  <2>9. inv[i].agent = "runtime-a" /\ ~inv[i].echo
    BY <2>2, <2>4, <2>7, ChildFields
  <2> QED
    BY <2>4, <2>5, <2>8, <2>9
<1> QED
  BY <1>1, CallTree, PTL
=============================================================================
