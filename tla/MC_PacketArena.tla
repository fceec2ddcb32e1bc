-------------------------- MODULE MC_PacketArena --------------------------
(* A small archive for TLC: packets of one and two cells.                  *)
EXTENDS PacketArena

MCTrack == [p \in Packets |-> IF p = 2 THEN 2 ELSE 1]
MCSize == [p \in Packets |-> IF p % 2 = 1 THEN 2 ELSE 1]
=============================================================================
