---------------------------- MODULE MCChatHistory ----------------------------
(* ChatHistory on small instances, with its mutants.                         *)
EXTENDS ChatHistory, TLC
=============================================================================
