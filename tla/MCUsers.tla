------------------------------ MODULE MCUsers ------------------------------
(***************************************************************************)
(* Users on a table of four slots.                                         *)
(***************************************************************************)
EXTENDS Users

MCUserNames == {"root", "guest", "ann", "bob"}
=============================================================================
