------------------------- MODULE MCGlobalEventQueue -------------------------
(***************************************************************************)
(* A DRAM cache at the clock of the processor and a main memory at two     *)
(* thirds of it: the two clocks meet every third global cycle.             *)
(***************************************************************************)
EXTENDS GlobalEventQueue, TLC

CONSTANTS cache, memory

CacheAndMemory == cache :> 3 @@ memory :> 2
=============================================================================
