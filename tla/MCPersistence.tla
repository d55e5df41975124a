--------------------------- MODULE MCPersistence ---------------------------
(***************************************************************************)
(* Persistence on a disk of a few sectors.  Every interleaving of saves,   *)
(* loads, boots, failures and losses of power is explored; only the        *)
(* operations that change the table are bounded, by MaxOps.                *)
(***************************************************************************)
EXTENDS Persistence
=============================================================================
