------------------------- MODULE MCContactAuthority -------------------------
(* One NPC and one label of a player, which Sam.py may or may not publish  *)
(* and may bind to another identity.                                       *)
EXTENDS ContactAuthority, TLC

Published(enemies, players) == [ready |-> TRUE, enemies |-> enemies, players |-> players]

NpcOrPlayer ==
    {Published([n \in Npcs |-> Avatars], <<>>)} \cup {Published(<<>>, [l \in Labels |-> p]) : p \in Players}

Symmetry == Permutations(Contacts) \cup Permutations(Players)
=============================================================================
