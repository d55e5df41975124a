----------------------------- MODULE SectorStore -----------------------------
(***************************************************************************)
(* What Persistence takes disk_read_sector and disk_write_sector to do: a  *)
(* call does all it was asked for and returns 1, or returns 0 and leaves   *)
(* every sector as it was.  Ata implements this (MCAta) as long as the     *)
(* drive answers in time and reports no error after it has taken the data; *)
(* variable broken is TRUE once it did not, and then nothing is promised.  *)
(***************************************************************************)
CONSTANTS Lbas, Sector

VARIABLES store, request, written, answer, broken

vars == <<store, request, written, answer, broken>>

Busy   == << >>
Failed == <<0>>

Request == [op : {"read", "write"}, lba : Lbas, data : Sector]

Init ==
    /\ store \in [Lbas -> Sector]
    /\ request \in Request
    /\ written = FALSE
    /\ answer = Failed
    /\ broken = FALSE

Call ==
    /\ answer # Busy
    /\ request' \in Request
    /\ answer' = Busy
    /\ written' = FALSE
    /\ UNCHANGED store

\* The data of a write become the sector's at one moment of the call.
Write ==
    /\ answer = Busy /\ request.op = "write" /\ ~written
    /\ store' = [store EXCEPT ![request.lba] = request.data]
    /\ written' = TRUE
    /\ UNCHANGED <<request, answer>>

Succeed ==
    /\ answer = Busy
    /\ \/ /\ request.op = "write" /\ written
          /\ answer' = <<1>>
       \/ /\ request.op = "read"
          /\ answer' = <<1, store[request.lba]>>
    /\ UNCHANGED <<store, request, written>>

Fail ==
    /\ answer = Busy /\ ~written
    /\ answer' = Failed
    /\ UNCHANGED <<store, request, written>>

Next ==
    \/ (Call \/ Write \/ Succeed \/ Fail) /\ UNCHANGED broken
    \/ broken'

Spec == Init /\ [][Next]_vars
=============================================================================
