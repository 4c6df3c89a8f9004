--------------------------- MODULE MCRuntimeBTasks ---------------------------
(* Finite instances of RuntimeBTasks for TLC.                              *)
EXTENDS RuntimeBTasks, TLC

CONSTANTS scope1, scope2, inv1, inv2

\* One invocation, which sends a message again.
OneContext == {[scope |-> scope1, invocation |-> inv1]}
\* Two invocations of one release: they share observations and no task.
OneScope  == {[scope |-> scope1, invocation |-> inv1], [scope |-> scope1, invocation |-> inv2]}
\* The same, another workspace that happens to use one of the invocation
\* identifiers, and requests without router claims.
AllCallers == OneScope \cup {None, [scope |-> scope2, invocation |-> inv1]}

\* Calls and message identifiers are interchangeable.  Not used for liveness.
Symmetry == Permutations(Streams) \cup Permutations(MessageIDs)
=============================================================================
