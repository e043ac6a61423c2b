---------------------------- MODULE MCChatDelivery ----------------------------
(* ChatDelivery on small instances, with its mutants.                        *)
EXTENDS ChatDelivery, TLC

\* Sockets, clients and messages are interchangeable.
Symmetric == Permutations(Sockets) \cup Permutations(Clients) \cup Permutations(Messages)
=============================================================================
