-------------------------- MODULE RuntimeEngineProofs --------------------------
(***************************************************************************)
(* Theorems about RuntimeEngine, for every set of contents and every bound *)
(* on the events and the channel of the runner.                            *)
(***************************************************************************)
EXTENDS RuntimeEngine, SequenceTheorems, TLAPS

\* What the runner sends: an event, or a nil one.
Slot == Event \cup {None}

\* None differs from whatever it is the absence of.
LEMMA NoneIsApart ==
  /\ None \notin Contents /\ None # Broken
  /\ \A e \in Event : e # None
  /\ \A o \in Outcomes : o # None
BY NoneAssumption

LEMMA EventFields ==
  ASSUME NEW e \in Event
  PROVE  /\ e.error \in BOOLEAN /\ e.completion \in BOOLEAN
         /\ e.choices \in {<<>>} \cup {<<c>> : c \in Contents \cup {Broken, None}}
BY DEF Event

\* An event has a content unless it has no choice or an empty one.
LEMMA EventContent ==
  ASSUME NEW e \in Event
  PROVE  /\ e.choices \notin {<<>>, <<None>>} =>
              /\ contentAfter(e) = e.choices[1]
              /\ contentAfter(e) \in Contents \cup {Broken}
         /\ e.choices \in {<<>>, <<None>>} => contentAfter(e) = content
<1>1. CASE e.choices = <<>>
  BY <1>1 DEF contentAfter
<1>2. ASSUME NEW c \in Contents \cup {Broken, None}, e.choices = <<c>>
      PROVE  /\ e.choices \notin {<<>>, <<None>>} =>
                  /\ contentAfter(e) = e.choices[1]
                  /\ contentAfter(e) \in Contents \cup {Broken}
             /\ e.choices \in {<<>>, <<None>>} => contentAfter(e) = content
  <2>1. e.choices # <<>> /\ e.choices[1] = c
    BY <1>2
  <2>2. e.choices = <<None>> <=> c = None
    BY <1>2
  <2> QED
    BY <2>1, <2>2 DEF contentAfter
<1> QED
  BY <1>1, <1>2, EventFields

\* A result is a success just when it is a content.
LEMMA CombinedCases ==
  ASSUME NEW c
  PROVE  /\ combinedData(c) \in Outcomes
         /\ combinedData(c).ok => c \in Contents /\ combinedData(c).result = c
BY DEF combinedData, Outcomes, Success, Failure

\* What is sent goes to the end of the channel and of the history.
LEMMA SendsOne ==
  ASSUME TypeOK, RunnerSends
  PROVE  \E e \in Slot :
           /\ pending = <<e>>
           /\ events' = Append(events, e) /\ emitted' = Append(emitted, e)
<1>1. PICK e \in Slot : pending = <<e>>
  BY DEF TypeOK, RunnerSends, Slot
<1>2. events \in Seq(Slot) /\ emitted \in Seq(Slot)
  BY DEF TypeOK, Slot
<1>3. events \o <<e>> = Append(events, e) /\ emitted \o <<e>> = Append(emitted, e)
  BY <1>2
<1> QED
  BY <1>1, <1>3 DEF RunnerSends

\* What is received is the event after those received before.
LEMMA ReceivesNext ==
  ASSUME TypeOK, events # <<>>, events' = Tail(events), UNCHANGED emitted
  PROVE  LET n == Len(emitted) - Len(events) + 1 IN
         /\ Len(emitted) \in Nat /\ Len(events) \in Nat /\ Len(events) > 0
         /\ n \in DOMAIN emitted /\ Head(events) = emitted[n]
         /\ received' = received \cup {n} /\ n \notin received
         /\ \A k \in received : k < n
         /\ events' \in Seq(Slot) /\ Len(events') = Len(events) - 1
         /\ \A k \in DOMAIN events' : events'[k] = emitted[Len(emitted) - Len(events') + k]
<1> DEFINE n == Len(emitted) - Len(events) + 1
<1>1. events \in Seq(Slot) /\ emitted \in Seq(Slot)
  BY DEF TypeOK, Slot
<1>2. Len(emitted) \in Nat /\ Len(events) \in Nat /\ Len(events) > 0
  BY <1>1, EmptySeq, LenProperties
<1>3. Len(events) <= Len(emitted)
  BY DEF TypeOK
<1>4. n \in 1 .. Len(emitted) /\ DOMAIN emitted = 1 .. Len(emitted)
  BY <1>1, <1>2, <1>3, LenProperties
<1>5. /\ Head(events) = events[1]
      /\ events' \in Seq(Slot) /\ Len(events') = Len(events) - 1
      /\ \A k \in 1 .. Len(events) - 1 : events'[k] = events[k + 1]
  BY <1>1, HeadTailProperties
<1>6. Head(events) = emitted[n]
  BY <1>1, <1>2, <1>5, LenProperties DEF TypeOK
<1>7. /\ received' = received \cup {n} /\ n \notin received
      /\ \A k \in received : k < n
  BY <1>2, <1>3, <1>5 DEF received
<1>8. ASSUME NEW k \in DOMAIN events'
      PROVE  events'[k] = emitted[Len(emitted) - Len(events') + k]
  <2>1. k \in 1 .. Len(events) - 1 /\ k + 1 \in DOMAIN events
    BY <1>1, <1>2, <1>5, LenProperties
  <2>2. events'[k] = emitted[Len(emitted) - Len(events) + (k + 1)]
    BY <1>5, <2>1 DEF TypeOK
  <2>3. Len(emitted) - Len(events) + (k + 1) = Len(emitted) - Len(events') + k
    BY <1>2, <1>5, <2>1
  <2> QED
    BY <2>2, <2>3
<1> QED
  BY <1>2, <1>4, <1>5, <1>6, <1>7, <1>8

-----------------------------------------------------------------------------
(* The type invariant.                                                     *)

LEMMA TypeInit == Init => TypeOK
<1> SUFFICES ASSUME Init PROVE TypeOK
  OBVIOUS
<1>1. events \in Seq(Event \cup {None}) /\ emitted \in Seq(Event \cup {None})
  BY DEF Init
<1>2. Len(events) = 0 /\ Len(emitted) = 0 /\ 0 <= Capacity
  BY BoundsAssumption DEF Init
<1>3. DOMAIN events = {}
  BY <1>1, <1>2, LenProperties
<1>4. pending \in {<<>>} \cup {<<e>> : e \in Event \cup {None}}
  BY DEF Init
<1>5. Len(events) <= Capacity /\ Len(events) <= Len(emitted)
  BY <1>2
<1>6. \A k \in DOMAIN events : events[k] = emitted[Len(emitted) - Len(events) + k]
  BY <1>3
<1>7. /\ pc = "start" /\ content = None /\ outcome = None
      /\ runner = "idle" /\ ctxDone = FALSE
  BY DEF Init
<1> QED
  BY <1>1, <1>4, <1>5, <1>6, <1>7 DEF TypeOK

LEMMA TypeSends == TypeOK /\ RunnerSends => TypeOK'
<1> SUFFICES ASSUME TypeOK, RunnerSends PROVE TypeOK'
  OBVIOUS
<1>1. PICK e \in Slot : events' = Append(events, e) /\ emitted' = Append(emitted, e)
  BY SendsOne
<1>2. /\ events \in Seq(Slot) /\ emitted \in Seq(Slot)
      /\ Len(events) \in Nat /\ Len(emitted) \in Nat
      /\ DOMAIN events = 1 .. Len(events) /\ DOMAIN emitted = 1 .. Len(emitted)
      /\ Len(events) <= Len(emitted)
  BY LenProperties DEF TypeOK, Slot
<1>3. /\ events' \in Seq(Slot) /\ emitted' \in Seq(Slot)
      /\ Len(events') = Len(events) + 1 /\ Len(emitted') = Len(emitted) + 1
      /\ \A k \in 1 .. Len(events) : events'[k] = events[k]
      /\ \A k \in 1 .. Len(emitted) : emitted'[k] = emitted[k]
      /\ events'[Len(events) + 1] = e /\ emitted'[Len(emitted) + 1] = e
  BY <1>1, <1>2, AppendProperties
<1>4. ASSUME NEW k \in DOMAIN events'
      PROVE  events'[k] = emitted'[Len(emitted') - Len(events') + k]
  <2>1. k \in 1 .. Len(events) + 1
    BY <1>2, <1>3, LenProperties
  <2>2. Len(emitted') - Len(events') = Len(emitted) - Len(events)
    BY <1>2, <1>3
  <2>3. CASE k = Len(events) + 1
    <3>1. Len(emitted') - Len(events') + k = Len(emitted) + 1
      BY <1>2, <2>2, <2>3
    <3> QED
      BY <1>3, <2>3, <3>1
  <2>4. CASE k \in 1 .. Len(events)
    <3>1. Len(emitted) - Len(events) + k \in 1 .. Len(emitted)
      BY <1>2, <2>4
    <3>2. events[k] = emitted[Len(emitted) - Len(events) + k]
      BY <1>2, <2>4 DEF TypeOK
    <3> QED
      BY <1>3, <2>2, <2>4, <3>1, <3>2
  <2> QED
    BY <1>2, <2>1, <2>3, <2>4
<1>5. Len(events') <= Capacity /\ Len(events') <= Len(emitted')
  BY <1>2, <1>3, BoundsAssumption DEF RunnerSends
<1> QED
  BY <1>3, <1>4, <1>5 DEF RunnerSends, TypeOK, Slot

LEMMA TypeReceive == TypeOK /\ Receive => TypeOK'
<1> SUFFICES ASSUME TypeOK, Receive PROVE TypeOK'
  OBVIOUS
<1>1. /\ Len(events) \in Nat /\ Len(emitted) \in Nat
      /\ events' \in Seq(Slot) /\ Len(events') = Len(events) - 1
      /\ \A k \in DOMAIN events' : events'[k] = emitted[Len(emitted) - Len(events') + k]
      /\ Head(events) \in Slot
  <2>1. Head(events) \in Slot
    BY HeadTailProperties DEF Receive, TypeOK, Slot
  <2> QED
    BY <2>1, ReceivesNext DEF Receive
<1>2. /\ content' \in Contents \cup {Broken, None}
      /\ pc' \in {"range", "returned"} /\ outcome' \in Outcomes \cup {None}
      /\ (outcome' # None) = (pc' = "returned")
  <2> DEFINE e == Head(events)
  <2>1. outcome = None /\ content \in Contents \cup {Broken, None}
    BY DEF TypeOK, Receive
  <2>2. CASE e = None /\ UNCHANGED <<pc, content, outcome>>
    BY <2>1, <2>2 DEF Receive
  <2>3. CASE e.error /\ Return(Failure) /\ UNCHANGED content
    <3>1. Failure \in Outcomes
      BY DEF Outcomes
    <3> QED
      BY <2>1, <2>3, <3>1, NoneIsApart DEF Return
  <2>4. CASE /\ e # None /\ ~e.error
             /\ content' = contentAfter(e)
             /\ IF e.completion THEN Return(combinedData(content'))
                ELSE UNCHANGED <<pc, outcome>>
    <3>1. e \in Event
      BY <1>1, <2>4 DEF Slot
    <3>2. content' \in Contents \cup {Broken, None}
      BY <2>1, <2>4, <3>1, EventContent
    <3> QED
      BY <2>1, <2>4, <3>2, CombinedCases, NoneIsApart DEF Return, Receive
  <2> QED
    BY <2>2, <2>3, <2>4 DEF Receive
<1>3. Len(events') <= Capacity /\ Len(events') <= Len(emitted)
  BY <1>1, BoundsAssumption DEF TypeOK
<1> QED
  BY <1>1, <1>2, <1>3 DEF Receive, TypeOK, Slot

LEMMA TypeStep == TypeOK /\ [Next]_vars => TypeOK'
<1> SUFFICES ASSUME TypeOK, [Next]_vars PROVE TypeOK'
  OBVIOUS
<1>1. CASE Run
  <2>1. Failure \in Outcomes
    BY DEF Outcomes
  <2> QED
    BY <1>1, <2>1, NoneIsApart DEF Run, Return, TypeOK
<1>2. CASE Receive
  BY <1>2, TypeReceive
<1>3. CASE Drained
  BY <1>3, CombinedCases, NoneIsApart DEF Drained, Return, TypeOK
<1>4. CASE AgentRuns
  <2>1. \A c \in Contents :
          [error |-> FALSE, choices |-> <<c>>, completion |-> FALSE] \in Event
    BY DEF Event
  <2>2. [error |-> TRUE, choices |-> <<>>, completion |-> FALSE] \in Event
    BY DEF Event
  <2>3. \E e \in Event : pending' = <<e>>
    BY <1>4, <2>1, <2>2 DEF AgentRuns
  <2> QED
    BY <1>4, <2>3 DEF AgentRuns, TypeOK
<1>5. CASE RunnerPrepares
  BY <1>5 DEF RunnerPrepares, TypeOK
<1>6. CASE RunnerSends
  BY <1>6, TypeSends
<1>7. CASE RunnerCloses
  BY <1>7 DEF RunnerCloses, TypeOK
<1>8. CASE RequestEnds
  BY <1>8 DEF RequestEnds, TypeOK
<1>9. CASE UNCHANGED vars
  BY <1>9 DEF vars, TypeOK
<1> QED
  BY <1>1, <1>2, <1>3, <1>4, <1>5, <1>6, <1>7, <1>8, <1>9 DEF Next, Engine, Runner

\* The channel holds the last of what was sent, within its capacity.
THEOREM TypeCorrect == Spec => []TypeOK
<1> QED
  BY TypeInit, TypeStep, PTL DEF Spec

-----------------------------------------------------------------------------
(* The inductive invariant.                                                *)

\* As long as nothing that was received ends the run, everything received is relevant.
LEMMA ReceivedIsRelevant ==
  ASSUME EngineInv, pc # "returned", NEW n \in DOMAIN emitted, \A k \in received : k < n,
         \A k \in DOMAIN emitted : k < n => k \in received
  PROVE  /\ \A k \in happened : k < n => k \in relevant
         /\ n \in happened => n \in relevant
         /\ n \in happened /\ (emitted[n].error \/ emitted[n].completion)
              => \A k \in relevant : k <= n
<1>1. /\ DOMAIN emitted \subseteq Nat
      /\ \A k \in received : emitted[k] # None => ~emitted[k].error /\ ~emitted[k].completion
  BY LenProperties DEF EngineInv, TypeOK, ReceivedInv
<1>2. \A k \in happened : k < n => ~emitted[k].error /\ ~emitted[k].completion
  BY <1>1 DEF happened
<1>3. ASSUME NEW k \in happened, k <= n PROVE k \in relevant
  <2>1. \A j \in happened : j < k => j < n
    BY <1>1, <1>3 DEF happened
  <2> QED
    BY <1>2, <2>1 DEF relevant
<1>4. ASSUME n \in happened, emitted[n].error \/ emitted[n].completion,
             NEW k \in relevant
      PROVE  k <= n
  BY <1>1, <1>4 DEF relevant, happened
<1> QED
  BY <1>1, <1>3, <1>4 DEF happened

\* What is received next becomes the content, if it has one.
LEMMA ReceivedStep ==
  ASSUME EngineInv, pc = "range", events # <<>>, events' = Tail(events), UNCHANGED emitted,
         Head(events) = None \/ (~Head(events).error /\ ~Head(events).completion),
         content' = IF Head(events) = None THEN content ELSE contentAfter(Head(events))
  PROVE  ReceivedInv'
<1> DEFINE n == Len(emitted) - Len(events) + 1
           e == Head(events)
<1>1. /\ n \in DOMAIN emitted /\ e = emitted[n]
      /\ received' = received \cup {n} /\ n \notin received
      /\ \A k \in received : k < n
  BY ReceivesNext DEF EngineInv
<1>2. received \subseteq Int /\ n \in Int /\ e \in Slot
  BY <1>1, LenProperties, ElementOfSeq DEF received, EngineInv, TypeOK, Slot
<1>3. ReceivedInv
  BY DEF EngineInv
<1>4. \A k \in received' : emitted'[k] # None => ~emitted'[k].error /\ ~emitted'[k].completion
  BY <1>1, <1>3 DEF ReceivedInv
<1> HIDE DEF n, e
<1>5. CASE e # None /\ e.choices \notin {<<>>, <<None>>}
  <2>1. receivedContents' = receivedContents \cup {n}
    BY <1>1, <1>5 DEF receivedContents
  <2>2. content' = e.choices[1]
    BY <1>2, <1>5, EventContent DEF e, Slot
  <2>3. \A j \in receivedContents' : j <= n
    BY <1>1, <1>2, <2>1 DEF receivedContents
  <2> QED
    BY <1>1, <1>4, <2>1, <2>2, <2>3 DEF ReceivedInv
<1>6. CASE ~(e # None /\ e.choices \notin {<<>>, <<None>>})
  <2>1. receivedContents' = receivedContents
    BY <1>1, <1>6 DEF receivedContents
  <2>2. content' = content
    BY <1>2, <1>6, EventContent DEF e, Slot
  <2> QED
    BY <1>3, <1>4, <2>1, <2>2 DEF ReceivedInv
<1> QED
  BY <1>5, <1>6

\* When the loop ends with a success, the content is the last relevant one.
LEMMA LastContentAnswers ==
  ASSUME NEW c \in Contents, outcome' = Success(c), UNCHANGED emitted,
         NEW n \in Int,
         \A k \in happened : k <= n <=> k \in relevant,
         \A k \in happened : k <= n => ~emitted[k].error,
         NEW last \in happened, last <= n,
         emitted[last].choices \notin {<<>>, <<None>>}, emitted[last].choices[1] = c,
         \A k \in happened : k <= n /\ emitted[k].choices \notin {<<>>, <<None>>} => k <= last
  PROVE  AnswerMatchesEvents'
<1>1. relevant \subseteq happened
  BY DEF relevant
<1>2. last \in contents /\ \A j \in contents : j <= last
  BY <1>1 DEF contents
<1>3. outcome'.result = c
  BY DEF Success
<1>4. relevant' = relevant /\ contents' = contents
  BY DEF relevant, contents, happened
<1> QED
  BY <1>1, <1>2, <1>3, <1>4 DEF AnswerMatchesEvents

LEMMA EngineInit == Init => EngineInv
<1> SUFFICES ASSUME Init PROVE EngineInv
  OBVIOUS
<1>1. TypeOK
  BY TypeInit
<1>2. Len(emitted) = 0 /\ Len(events) = 0
  BY DEF Init
<1>3. received = {} /\ receivedContents = {}
  BY <1>2 DEF received, receivedContents
<1>4. ReceivedInv
  BY <1>3 DEF Init, ReceivedInv
<1> QED
  BY <1>1, <1>4 DEF Init, EngineInv, AnswerMatchesEvents, SettledInv

\* The loop ends without an answer that is a success, or goes on.
LEMMA RunStep == EngineInv /\ Run /\ TypeOK' => EngineInv'
<1> SUFFICES ASSUME EngineInv, Run, TypeOK' PROVE EngineInv'
  OBVIOUS
<1>1. pc = "start" /\ outcome = None /\ UNCHANGED <<content, pending, events, emitted>>
  BY DEF Run, EngineInv, TypeOK
<1>2. outcome' = None \/ ~outcome'.ok
  BY <1>1 DEF Run, Return, Failure
<1>3. ReceivedInv'
  BY <1>1 DEF EngineInv, ReceivedInv, received, receivedContents
<1> QED
  BY <1>1, <1>2, <1>3 DEF EngineInv, Run, Return, AnswerMatchesEvents, SettledInv

LEMMA ReceiveStep == EngineInv /\ Receive /\ TypeOK' => EngineInv'
<1> SUFFICES ASSUME EngineInv, Receive, TypeOK' PROVE EngineInv'
  OBVIOUS
<1> DEFINE e == Head(events)
           n == Len(emitted) - Len(events) + 1
<1>1. /\ pc = "range" /\ events # <<>> /\ events' = Tail(events)
      /\ UNCHANGED <<runner, pending, emitted>>
      /\ TypeOK /\ outcome = None /\ ReceivedInv
  BY DEF Receive, EngineInv, TypeOK
<1>2. /\ n \in DOMAIN emitted /\ e = emitted[n] /\ DOMAIN emitted = 1 .. Len(emitted)
      /\ Len(emitted) \in Nat /\ n \in Int
      /\ \A k \in received : k < n
      /\ \A k \in DOMAIN emitted : k < n => k \in received
  BY <1>1, ReceivesNext, LenProperties DEF TypeOK, received
<1>3. e \in Slot
  BY <1>1, <1>2, ElementOfSeq DEF TypeOK, Slot
<1>4. CASE e = None /\ UNCHANGED <<pc, content, outcome>>
  <2>1. ReceivedInv'
    BY <1>1, <1>4, ReceivedStep
  <2> QED
    BY <1>1, <1>4, <2>1 DEF EngineInv, AnswerMatchesEvents, SettledInv
<1>5. CASE Return(Failure)
  BY <1>1, <1>5 DEF EngineInv, AnswerMatchesEvents, SettledInv, Return, Failure
<1>6. CASE /\ e # None /\ ~e.error /\ ~e.completion
           /\ content' = contentAfter(e) /\ UNCHANGED <<pc, outcome>>
  <2>1. ReceivedInv'
    BY <1>1, <1>6, ReceivedStep
  <2> QED
    BY <1>1, <1>6, <2>1 DEF EngineInv, AnswerMatchesEvents, SettledInv
<1>7. CASE /\ e # None /\ ~e.error /\ e.completion
           /\ content' = contentAfter(e) /\ Return(combinedData(content'))
  <2> HIDE DEF e, n
  <2>1. n \in happened /\ emitted[n].completion /\ ~emitted[n].error
    BY <1>2, <1>7 DEF happened
  <2>2. \A k \in happened : k <= n <=> k \in relevant
    BY <1>1, <1>2, <2>1, ReceivedIsRelevant DEF happened
  <2>3. \A k \in happened : k <= n => ~emitted[k].error
    BY <1>1, <1>2, <2>1 DEF happened, ReceivedInv
  <2>4. SettledInv'
    BY <1>1, <2>1 DEF SettledInv, happened
  <2>5. AnswerMatchesEvents'
    <3> SUFFICES ASSUME outcome'.ok PROVE AnswerMatchesEvents'
      BY DEF AnswerMatchesEvents
    <3>1. content' \in Contents /\ outcome' = Success(content')
      BY <1>7, CombinedCases DEF Return, combinedData
    <3>2. CASE e.choices \notin {<<>>, <<None>>}
      <4>1. e.choices[1] = content'
        BY <1>3, <1>7, <3>2, EventContent DEF Slot
      <4> QED
        BY <1>1, <1>2, <2>1, <2>2, <2>3, <3>1, <3>2, <4>1, LastContentAnswers
    <3>3. CASE e.choices \in {<<>>, <<None>>}
      <4>1. content' = content /\ content # None
        BY <1>3, <1>7, <3>1, <3>3, EventContent, NoneIsApart DEF Slot
      <4>2. PICK last \in receivedContents :
              /\ \A j \in receivedContents : j <= last
              /\ content = emitted[last].choices[1]
        BY <1>1, <4>1 DEF ReceivedInv
      <4>3. last \in happened /\ last <= n /\ emitted[last].choices \notin {<<>>, <<None>>}
        BY <1>1, <1>2, <4>2, ReceivesNext DEF receivedContents, received, happened
      <4>4. \A k \in happened : k <= n /\ emitted[k].choices \notin {<<>>, <<None>>} => k <= last
        BY <1>2, <3>3, <4>2 DEF receivedContents, happened
      <4> QED
        BY <1>1, <1>2, <2>2, <2>3, <3>1, <4>1, <4>2, <4>3, <4>4, LastContentAnswers
    <3> QED
      BY <1>3, <3>2, <3>3
  <2> QED
    BY <1>1, <1>7, <2>4, <2>5 DEF EngineInv, Return
<1> QED
  BY <1>1, <1>4, <1>5, <1>6, <1>7 DEF Receive

LEMMA DrainedStep == EngineInv /\ Drained /\ TypeOK' => EngineInv'
<1> SUFFICES ASSUME EngineInv, Drained, TypeOK' PROVE EngineInv'
  OBVIOUS
<1> DEFINE n == Len(emitted)
<1>1. /\ pc = "range" /\ events = <<>> /\ runner = "closed"
      /\ UNCHANGED <<content, runner, pending, events, emitted>>
      /\ TypeOK /\ ReceivedInv
      /\ pc' = "returned" /\ outcome' = combinedData(content)
  BY DEF Drained, EngineInv, Return
<1>2. n \in Nat /\ DOMAIN emitted = 1 .. n /\ received = 1 .. n
  BY <1>1, LenProperties DEF TypeOK, received
<1>3. \A k \in happened : k <= n /\ ~emitted[k].error /\ ~emitted[k].completion
  BY <1>1, <1>2 DEF happened, ReceivedInv
<1>4. relevant = happened
  BY <1>3 DEF relevant
<1>5. AnswerMatchesEvents'
  <2> SUFFICES ASSUME outcome'.ok PROVE AnswerMatchesEvents'
    BY DEF AnswerMatchesEvents
  <2>1. content \in Contents /\ outcome' = Success(content) /\ content # None
    BY <1>1, CombinedCases, NoneIsApart DEF combinedData
  <2>2. PICK last \in receivedContents :
          /\ \A j \in receivedContents : j <= last
          /\ content = emitted[last].choices[1]
    BY <1>1, <2>1 DEF ReceivedInv
  <2>3. last \in happened /\ last <= n /\ emitted[last].choices \notin {<<>>, <<None>>}
    BY <1>2, <2>2 DEF receivedContents, happened
  <2>4. \A k \in happened : k <= n /\ emitted[k].choices \notin {<<>>, <<None>>} => k <= last
    BY <1>2, <2>2 DEF receivedContents, happened
  <2> QED
    BY <1>1, <1>2, <1>3, <1>4, <2>1, <2>2, <2>3, <2>4, LastContentAnswers
<1>6. SettledInv'
  BY <1>1 DEF SettledInv
<1> QED
  BY <1>1, <1>5, <1>6 DEF EngineInv

\* What a runner sends after the run has ended is not relevant.
LEMMA SendsStep == EngineInv /\ RunnerSends /\ TypeOK' => EngineInv'
<1> SUFFICES ASSUME EngineInv, RunnerSends, TypeOK' PROVE EngineInv'
  OBVIOUS
<1>1. TypeOK /\ runner \notin {"idle", "closed"}
      /\ UNCHANGED <<pc, content, outcome, runner>> /\ pending' = <<>>
  BY DEF EngineInv, RunnerSends
<1>2. PICK e \in Slot : events' = Append(events, e) /\ emitted' = Append(emitted, e)
  BY <1>1, SendsOne
<1> DEFINE n == Len(emitted)
<1>3. /\ n \in Nat /\ DOMAIN emitted = 1 .. n /\ DOMAIN emitted' = 1 .. n + 1
      /\ \A k \in 1 .. n : emitted'[k] = emitted[k]
      /\ Len(events) \in Nat /\ Len(events') = Len(events) + 1 /\ Len(emitted') = n + 1
      /\ Len(events) <= n
  <2>1. events \in Seq(Slot) /\ emitted \in Seq(Slot)
    BY <1>1 DEF TypeOK, Slot
  <2> QED
    BY <1>1, <1>2, <2>1, AppendProperties, LenProperties DEF TypeOK
<1> HIDE DEF n
<1>4. pc # "returned" => ReceivedInv'
  <2> SUFFICES ASSUME pc # "returned" PROVE ReceivedInv'
    OBVIOUS
  <2>1. received' = received /\ received \subseteq 1 .. n
    BY <1>3 DEF received, n
  <2>2. receivedContents' = receivedContents /\ receivedContents \subseteq received
    BY <1>3, <2>1 DEF receivedContents
  <2> QED
    BY <1>1, <1>3, <2>1, <2>2 DEF EngineInv, ReceivedInv
<1>5. CASE outcome = None \/ ~outcome.ok
  BY <1>1, <1>4, <1>5 DEF EngineInv, AnswerMatchesEvents, SettledInv
<1>6. CASE outcome # None /\ outcome.ok
  <2>1. PICK k \in happened : emitted[k].error \/ emitted[k].completion
    BY <1>1, <1>6 DEF EngineInv, SettledInv
  <2>2. happened \subseteq 1 .. n /\ happened' \cap (1 .. n) = happened
        /\ happened' \subseteq 1 .. n + 1
    BY <1>3 DEF happened
  <2>3. k \in happened' /\ k \in 1 .. n /\ (emitted'[k].error \/ emitted'[k].completion)
    BY <1>3, <2>1, <2>2
  <2>4. relevant' \subseteq 1 .. n
    <3> SUFFICES ASSUME NEW j \in relevant', j \notin 1 .. n PROVE FALSE
      OBVIOUS
    <3>1. j \in happened' /\ ~(k < j)
      BY <2>3 DEF relevant
    <3>2. n \in Nat /\ j \in 1 .. n + 1 /\ k \in 1 .. n
      BY <1>3, <2>2, <2>3, <3>1
    <3>3. k < j
      BY ONLY <3>2, j \notin 1 .. n
    <3> QED
      BY <3>1, <3>3
  <2>5. ASSUME NEW j \in 1 .. n PROVE j \in relevant' <=> j \in relevant
    <3>1. \A i \in happened' : i < j => i \in happened /\ emitted'[i] = emitted[i]
      BY <1>3, <2>2
    <3>2. \A i \in happened : i < j => i \in happened' /\ emitted'[i] = emitted[i]
      BY <1>3, <2>2
    <3> QED
      BY <2>2, <3>1, <3>2 DEF relevant
  <2>6. relevant' = relevant /\ relevant \subseteq 1 .. n
    BY <2>2, <2>4, <2>5 DEF relevant
  <2>7. contents' = contents /\ contents \subseteq 1 .. n
    BY <1>3, <2>6 DEF contents
  <2>8. AnswerMatchesEvents'
    BY <1>1, <1>3, <2>6, <2>7 DEF EngineInv, AnswerMatchesEvents
  <2>9. SettledInv'
    BY <2>3 DEF SettledInv
  <2> QED
    BY <1>1, <1>4, <2>8, <2>9 DEF EngineInv
<1> QED
  BY <1>5, <1>6

\* The rest of the system leaves the loop and what was sent alone.
LEMMA OtherStep ==
  ASSUME EngineInv, TypeOK', UNCHANGED <<pc, content, outcome, events, emitted>>,
         runner' = runner \/ (runner \in {"agent", "emitting"} /\ runner' = "emitting")
           \/ (runner # "idle" /\ runner' = "closed"),
         runner' \in {"idle", "closed"} => pending' = <<>>
  PROVE  EngineInv'
<1>1. AnswerMatchesEvents'
  BY DEF EngineInv, AnswerMatchesEvents, contents, relevant, happened
<1>2. pc' # "returned" => ReceivedInv'
  BY DEF EngineInv, ReceivedInv, receivedContents, received
<1>3. SettledInv'
  BY DEF EngineInv, SettledInv, happened
<1> QED
  BY <1>1, <1>2, <1>3 DEF EngineInv

LEMMA EngineStep == EngineInv /\ [Next]_vars => EngineInv'
<1> SUFFICES ASSUME EngineInv, [Next]_vars PROVE EngineInv'
  OBVIOUS
<1>1. TypeOK'
  BY TypeStep DEF EngineInv
<1>2. CASE Engine
  BY <1>1, <1>2, RunStep, ReceiveStep, DrainedStep DEF Engine
<1>3. CASE AgentRuns
  BY <1>1, <1>3, OtherStep DEF AgentRuns
<1>4. CASE RunnerPrepares
  BY <1>1, <1>4, OtherStep DEF RunnerPrepares
<1>5. CASE RunnerSends
  BY <1>1, <1>5, SendsStep
<1>6. CASE RunnerCloses
  BY <1>1, <1>6, OtherStep DEF RunnerCloses, EngineInv
<1>7. CASE RequestEnds
  BY <1>1, <1>7, OtherStep DEF RequestEnds, EngineInv
<1>8. CASE UNCHANGED vars
  BY <1>1, <1>8, OtherStep DEF vars, EngineInv
<1> QED
  BY <1>2, <1>3, <1>4, <1>5, <1>6, <1>7, <1>8 DEF Next, Runner

\* What the loop holds is what it received, and an answer stays true.
THEOREM EngineInvariant == Spec => []EngineInv
<1> QED
  BY EngineInit, EngineStep, PTL DEF Spec

\* A success is the last content before the end of the run, which had no error.
THEOREM AnswersMatchEvents == Spec => []AnswerMatchesEvents
<1>1. EngineInv => AnswerMatchesEvents
  BY DEF EngineInv
<1> QED
  BY <1>1, EngineInvariant, PTL
=============================================================================
