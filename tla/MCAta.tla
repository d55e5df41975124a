-------------------------------- MODULE MCAta --------------------------------
(***************************************************************************)
(* Ata implements SectorStore.  A sector written has its new content from  *)
(* the moment the drive has the last word.                                 *)
(***************************************************************************)
EXTENDS Ata

Called == pc \notin {"boot", "idle"}

Asked == [op |-> op, lba |-> lba, data |-> IF op = "write" THEN data ELSE Empty]

Passed == op = "write" /\ word > NumWords

Success == IF op = "write" THEN <<1>> ELSE <<1, data>>

Answer == IF Called THEN << >> ELSE IF result = 0 THEN <<0>> ELSE Success

Store == INSTANCE SectorStore WITH
    store <- Stored, request <- Asked, written <- Passed, answer <- Answer

\* Until the drive is late or fails after taking the data, a call reads or
\* writes exactly the sector it was asked for and says so, or changes nothing:
\* the contract Persistence relies on.
ImplementsSectorStore == Store!Spec
=============================================================================
