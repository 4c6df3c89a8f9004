---------------------------- MODULE MCMessageInputs ----------------------------
(* MessageInputs over every shape of message, for TLC.                     *)
EXTENDS MessageInputs

AllMessages == Message
=============================================================================
