---------------------------- MODULE MCRuntimeEngine ----------------------------
(* A finite instance of RuntimeEngine for TLC.                             *)
EXTENDS RuntimeEngine, TLC

CONSTANTS result, other

\* Two results, so that an old one can be mistaken for the last.
Results == {result, other}
=============================================================================
