---------------------------- MODULE MCNestedCalls ----------------------------
(* Finite instances of NestedCalls for TLC.                                *)
EXTENDS NestedCalls, TLC

Call(agent, echo) == [agent |-> agent, echo |-> echo]

\* Every configuration of the two runtimes, Runtime A calling itself included.
AllTargets == [Agents -> [agent: Agents, echo: BOOLEAN]]

\* The configurations in which Runtime B calls Runtime A and that one calls it back,
\* itself or its own echo, and the one in which both call Runtime B: the chains of the
\* others are parts of theirs.
LinkedTargets ==
  {t \in AllTargets : /\ \A a \in Agents : t[a].agent = "runtime-b" => ~t[a].echo
                      /\ \/ t["runtime-b"] = Call("runtime-a", FALSE)
                         \/ \A a \in Agents : t[a].agent = "runtime-b"}

\* Everything that the Router may deliver.
AllRoots == {v \in Delivery : v.parent = None}

\* Invocations that lead to nested requests, and for each agent one that fails.
NestingRoots ==
  {v \in AllRoots : \/ /\ v.managed = "full" /\ ~v.echo
                       /\ v.agent = "runtime-a" => v.fixture = "success"
                       /\ v.agent = "runtime-b" => v.fixture \in {"nested", "failure"}
                    \/ v.managed = "other-agent" /\ ~v.echo /\ v.fixture = "nested"}

Symmetry == Permutations(Invocations) \cup Permutations(Lineages)
=============================================================================
