-------------------------- MODULE MessageInputsProofs --------------------------
(***************************************************************************)
(* Theorems about MessageInputs, for every set of messages.                *)
(***************************************************************************)
EXTENDS MessageInputs, FiniteSetTheorems, TLAPS

\* What each handler makes of the message.
Made(h) ==
  CASE h = "echo-of-A"        -> SendOfA(message, "success")
    [] h = "nested-call-of-A" -> SendOfA(message, "nested")
    [] h = "send-of-B"        -> SendOfB(message)
    [] h = "stream-of-B"      -> StreamOfB(message)

\* An answer is what the handler makes of the message, whichever answered before.
MadeInv ==
  /\ message \in Messages
  /\ answer \in [Handlers -> {None} \cup {Made(h) : h \in Handlers}]
  /\ \A h \in Handlers : answered(h) => answer[h] = Made(h)

LEMMA MadeInit == Init => MadeInv
BY DEF Init, MadeInv, answered

LEMMA MadeStep == MadeInv /\ [Next]_vars => MadeInv'
<1> SUFFICES ASSUME MadeInv, [Next]_vars PROVE MadeInv'
  OBVIOUS
<1>1. ASSUME NEW h \in Handlers, Handle(h, Made(h)) PROVE MadeInv'
  <2>1. message' = message /\ answer' = [answer EXCEPT ![h] = Made(h)]
    BY <1>1 DEF Handle
  <2>2. \A g \in Handlers : Made(g)' = Made(g)
    BY <2>1 DEF Made
  <2> HIDE DEF Made
  <2> QED
    BY <2>1, <2>2 DEF MadeInv, answered
<1>2. CASE UNCHANGED vars
  <2>1. message' = message /\ answer' = answer
    BY <1>2 DEF vars
  <2>2. \A g \in Handlers : Made(g)' = Made(g)
    BY <2>1 DEF Made
  <2> QED
    BY <2>1, <2>2 DEF MadeInv, answered
<1>3. Next => \E h \in Handlers : Handle(h, Made(h))
  BY DEF Next, Handlers, Made
<1> QED
  BY <1>1, <1>2, <1>3

\* Every answer is what its handler makes of the message.
THEOREM AnswersAreMade == Spec => []MadeInv
<1> QED
  BY MadeInit, MadeStep, PTL DEF Spec

\* Refusals, failures and answers differ.
LEMMA Kinds ==
  /\ Refused.kind = "invalid-params" /\ Refused # Failed
  /\ \A kind, m : Done(kind, m).kind = kind /\ Done(kind, m).value = m.value
  /\ \A kind, m : kind \notin {"invalid-params", "fixture-failure"} =>
       Done(kind, m) # Refused /\ Done(kind, m) # Failed
BY DEF Refused, Failed, Done

\* A message with a fixture is served by message/send or by message/stream, never by both
\* and by neither only if it lacks its marker.
THEOREM OneMethod == Spec => []OneMethodServes
<1>1. MadeInv => OneMethodServes
  <2> SUFFICES ASSUME MadeInv, answered("send-of-B"), answered("stream-of-B"),
                      parseFixture(message)
               PROVE  LET served == {h \in {"send-of-B", "stream-of-B"} : answer[h] # Refused} IN
                      IF message.fixture = "failure"
                      THEN \A h \in {"send-of-B", "stream-of-B"} : answer[h] = Failed
                      ELSE Cardinality(served) = IF markerMissing(message) THEN 0 ELSE 1
    BY DEF OneMethodServes
  <2> DEFINE served == {h \in {"send-of-B", "stream-of-B"} : answer[h] # Refused}
  <2>1. answer["send-of-B"] = SendOfB(message) /\ answer["stream-of-B"] = StreamOfB(message)
    BY DEF MadeInv, Made, Handlers
  <2>2. message.fixture \in SendFixtures \cup StreamFixtures \cup {"failure"}
    BY DEF parseFixture, Fixtures
  <2>3. CASE message.fixture = "failure"
    <3>1. SendOfB(message) = Failed /\ StreamOfB(message) = Failed
      BY <2>3 DEF SendOfB, StreamOfB, SendFixtures, StreamFixtures
    <3> QED
      BY <2>1, <2>3, <3>1
  <2>4. CASE message.fixture \in StreamFixtures
    <3>1. SendOfB(message) = Refused /\ StreamOfB(message) = Done("stream", message)
      BY <2>4 DEF SendOfB, StreamOfB, SendFixtures, StreamFixtures
    <3>2. served = {"stream-of-B"}
      BY <2>1, <3>1, Kinds
    <3>3. ~markerMissing(message) /\ message.fixture # "failure"
      BY <2>4 DEF markerMissing, StreamFixtures
    <3> QED
      BY <3>2, <3>3, FS_Singleton
  <2>5. CASE message.fixture \in SendFixtures /\ ~markerMissing(message)
    <3>1. StreamOfB(message) = Refused /\ SendOfB(message) = Done(message.fixture, message)
      BY <2>5 DEF SendOfB, StreamOfB, SendFixtures, StreamFixtures
    <3>2. Done(message.fixture, message) # Refused
      BY <2>5, Kinds DEF SendFixtures
    <3>3. served = {"send-of-B"}
      BY <2>1, <3>1, <3>2
    <3>4. message.fixture # "failure"
      BY <2>5 DEF SendFixtures
    <3> QED
      BY <2>5, <3>3, <3>4, FS_Singleton
  <2>6. CASE message.fixture \in SendFixtures /\ markerMissing(message)
    <3>1. StreamOfB(message) = Refused /\ SendOfB(message) = Refused
      BY <2>6 DEF SendOfB, StreamOfB, SendFixtures, StreamFixtures
    <3>2. served = {} /\ message.fixture # "failure"
      BY <2>1, <2>6, <3>1 DEF SendFixtures
    <3> QED
      BY <2>6, <3>2, FS_EmptySet
  <2> QED
    BY <2>2, <2>3, <2>4, <2>5, <2>6
<1> QED
  BY <1>1, AnswersAreMade, PTL

\* The two echoes take the same messages and answer the same.
THEOREM EchoesAreOne == Spec => []EchoesAgree
<1>1. MadeInv => EchoesAgree
  <2> SUFFICES ASSUME MadeInv, answered("echo-of-A"), answered("send-of-B"),
                      "success" \in {answer["echo-of-A"].kind, answer["send-of-B"].kind}
               PROVE  answer["echo-of-A"] = answer["send-of-B"]
    BY DEF EchoesAgree
  <2>1. /\ answer["echo-of-A"] = SendOfA(message, "success")
        /\ answer["send-of-B"] = SendOfB(message)
    BY DEF MadeInv, Made, Handlers
  <2>2. CASE rootInput(message)
    <3>1. SendOfA(message, "success") = Done("success", message)
      BY <2>2 DEF SendOfA
    <3>2. SendOfB(message) = Done("success", message)
      BY <2>2 DEF SendOfB, rootInput, parseFixture, Fixtures, SendFixtures, markerMissing
    <3> QED
      BY <2>1, <3>1, <3>2
  <2>3. CASE ~rootInput(message)
    <3>1. SendOfA(message, "success") = Refused
      BY <2>3 DEF SendOfA
    <3>2. SendOfB(message).kind # "success"
      <4>1. ASSUME parseFixture(message) PROVE message.fixture # "success"
        BY <2>3, <4>1 DEF parseFixture, rootInput
      <4> QED
        BY <4>1, Kinds DEF SendOfB, Failed
    <3> QED
      BY <2>1, <3>1, <3>2, Kinds
  <2> QED
    BY <2>2, <2>3
<1> QED
  BY <1>1, AnswersAreMade, PTL

\* A nested call gets through the checks of either target with the caller's value.
THEOREM NestedInputsPass == Spec => []NestedInputsAreUnderstood
<1>1. MadeInv => NestedInputsAreUnderstood
  <2> SUFFICES ASSUME MadeInv, NEW h \in {"nested-call-of-A", "send-of-B"}, answered(h),
                      answer[h].kind = "nested"
               PROVE  /\ SendOfB(nestedInput(message)) = Done("success", message)
                      /\ SendOfA(nestedInput(message), "success") = Done("success", message)
    BY DEF NestedInputsAreUnderstood
  <2>1. message.value # "missing"
    <3>1. CASE h = "nested-call-of-A"
      <4>1. answer[h] = SendOfA(message, "nested")
        BY <3>1 DEF MadeInv, Made, Handlers
      <4> QED
        BY <4>1, Kinds DEF SendOfA, rootInput
    <3>2. CASE h = "send-of-B"
      <4>1. answer[h] = SendOfB(message)
        BY <3>2 DEF MadeInv, Made, Handlers
      <4> QED
        BY <4>1, Kinds DEF SendOfB, Failed, parseFixture
    <3> QED
      BY <3>1, <3>2
  <2> DEFINE n == nestedInput(message)
  <2>2. envelope(n) /\ n.fixture = "success" /\ n.value = message.value
    BY DEF nestedInput, envelope
  <2> HIDE DEF n
  <2>3. rootInput(n) /\ parseFixture(n) /\ ~markerMissing(n)
    BY <2>1, <2>2 DEF rootInput, parseFixture, markerMissing, Fixtures, SendFixtures
  <2>4. \A kind : Done(kind, n) = Done(kind, message)
    BY <2>2 DEF Done
  <2>5. SendOfB(n) = Done("success", n) /\ SendOfA(n, "success") = Done("success", n)
    BY <2>2, <2>3 DEF SendOfB, SendOfA, SendFixtures
  <2> QED
    BY <2>4, <2>5 DEF n
<1> QED
  BY <1>1, AnswersAreMade, PTL
=============================================================================
