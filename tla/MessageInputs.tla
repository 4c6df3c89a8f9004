----------------------------- MODULE MessageInputs -----------------------------
(***************************************************************************)
(* What the two runtimes make of a message: parseFixture and the dispatch  *)
(* of message/send and message/stream in Runtime B (runtime-b/{fixture,    *)
(* handler,nested}.go), rootInput and the two answers of Runtime A         *)
(* (runtime-a/{handler,nested}.go).                                        *)
(*                                                                         *)
(* Validation changes nothing, so its early returns are a conjunction.     *)
(* What follows it is modelled elsewhere: streams and the counter of       *)
(* cancels in RuntimeBTasks, nested calls in NestedCalls.                  *)
(***************************************************************************)
EXTENDS Naturals, FiniteSets

CONSTANTS
  Messages,  \* messages that clients send
  None       \* no answer

SendFixtures   == {"success", "cancel-observed", "nested", "protocol"}
StreamFixtures == {"stream-success", "hold", "interrupted"}
Fixtures == SendFixtures \cup StreamFixtures \cup {"failure"}

\* Parameters as the JSON-RPC server hands them over.  The parts are counted, and the
\* first is structured data or not; the fields of the data are counted too.  A value is
\* a text, empty or not, or something else.  It was JSON, so that copying it succeeds.
Message ==
  {m \in [present: BOOLEAN, id: BOOLEAN, role: {"user", "agent"}, parts: 0 .. 2,
          data: BOOLEAN, fields: 0 .. 3,
          fixture: Fixtures \cup {"missing", "not-text", "", "unknown"},
          value: {"missing", "", "text", "other"}] :
     m.fields >= Cardinality({f \in {"fixture", "value"} : m[f] # "missing"})}

ASSUME MessagesAssumption == Messages \subseteq Message

Handlers == {"echo-of-A", "nested-call-of-A", "send-of-B", "stream-of-B"}

VARIABLES
  message,  \* the message that each handler gets
  answer    \* what each handler makes of it

vars == <<message, answer>>

Init ==
  /\ message \in Messages
  /\ answer = [h \in Handlers |-> None]

\* A message is refused, fails as its fixture says, is answered, or leads on.
Refused == [kind |-> "invalid-params", value |-> "missing"]
Failed  == [kind |-> "fixture-failure", value |-> "missing"]
Done(kind, m) == [kind |-> kind, value |-> m.value]

-----------------------------------------------------------------------------

\* The checks that parseFixture and rootInput share, in code of their own.
envelope(m) ==
  /\ m.present /\ m.id /\ m.role = "user"
  /\ m.parts = 1 /\ m.data /\ m.fields = 2

parseFixture(m) == envelope(m) /\ m.fixture \in Fixtures /\ m.value # "missing"

\* Mutant: fields beside the two are let through.
rootInputWithExtras(m) ==
  /\ m.present /\ m.id /\ m.role = "user" /\ m.parts = 1 /\ m.data
  /\ m.fixture = "success" /\ m.value # "missing"

rootInput(m) == envelope(m) /\ m.fixture = "success" /\ m.value # "missing"

markerMissing(m) == m.fixture = "cancel-observed" /\ m.value # "text"

\* OnSendMessage of Runtime B.
SendOfB(m) ==
  IF parseFixture(m) /\ m.fixture \in SendFixtures /\ ~markerMissing(m) THEN Done(m.fixture, m)
  ELSE IF parseFixture(m) /\ m.fixture = "failure" THEN Failed
  ELSE Refused

\* Mutant: message/stream takes the plain fixture too.
StreamWithSuccess(m) ==
  IF parseFixture(m) /\ m.fixture \in StreamFixtures \cup {"success"} THEN Done("stream", m)
  ELSE IF parseFixture(m) /\ m.fixture = "failure" THEN Failed
  ELSE Refused

\* OnSendMessageStream of Runtime B, up to the stream.
StreamOfB(m) ==
  IF parseFixture(m) /\ m.fixture \in StreamFixtures THEN Done("stream", m)
  ELSE IF parseFixture(m) /\ m.fixture = "failure" THEN Failed
  ELSE Refused

\* OnSendMessage of Runtime A, for the capability runtime.echo and for others.
SendOfA(m, kind) == IF rootInput(m) THEN Done(kind, m) ELSE Refused

\* Mutant: the fixture goes on as it came.
inputWithFixture(m) ==
  [present |-> TRUE, id |-> TRUE, role |-> "user", parts |-> 1, data |-> TRUE, fields |-> 2,
   fixture |-> m.fixture, value |-> m.value]

\* The message that the Router makes of the input of a nested call (the envelope is
\* external): both runtimes put the plain fixture and the value they got into it.
nestedInput(m) ==
  [present |-> TRUE, id |-> TRUE, role |-> "user", parts |-> 1, data |-> TRUE, fields |-> 2,
   fixture |-> "success", value |-> m.value]

Handle(h, a) ==
  /\ answer[h] = None
  /\ answer' = [answer EXCEPT ![h] = a]
  /\ UNCHANGED message

Next ==
  \/ Handle("echo-of-A", SendOfA(message, "success"))
  \/ Handle("nested-call-of-A", SendOfA(message, "nested"))
  \/ Handle("send-of-B", SendOfB(message))
  \/ Handle("stream-of-B", StreamOfB(message))

Spec == Init /\ [][Next]_vars

-----------------------------------------------------------------------------
(* Properties.                                                             *)

answered(h) == answer[h] # None

\* A message that parseFixture takes is served by one of message/send and
\* message/stream and refused by the other, though neither switch knows the other;
\* only a failure is one by both methods, and a cancel observation also needs a marker.
OneMethodServes ==
  answered("send-of-B") /\ answered("stream-of-B") /\ parseFixture(message) =>
    LET served == {h \in {"send-of-B", "stream-of-B"} : answer[h] # Refused} IN
    IF message.fixture = "failure"
    THEN \A h \in {"send-of-B", "stream-of-B"} : answer[h] = Failed
    ELSE Cardinality(served) = IF markerMissing(message) THEN 0 ELSE 1

\* The echo of Runtime A and the plain fixture of Runtime B are interchangeable: they
\* take and refuse the same messages and answer the same value, with code of their own.
EchoesAgree ==
  /\ answered("echo-of-A") /\ answered("send-of-B")
  /\ "success" \in {answer["echo-of-A"].kind, answer["send-of-B"].kind}
  => answer["echo-of-A"] = answer["send-of-B"]

\* A nested call of either runtime is understood by either target, which answers the
\* value that the caller was given.
NestedInputsAreUnderstood ==
  \A h \in {"nested-call-of-A", "send-of-B"} :
    answered(h) /\ answer[h].kind = "nested" =>
      /\ SendOfB(nestedInput(message)) = Done("success", message)
      /\ SendOfA(nestedInput(message), "success") = Done("success", message)
=============================================================================
