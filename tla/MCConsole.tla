------------------------------ MODULE MCConsole ------------------------------
(***************************************************************************)
(* Console with lines of two cells, a screen of two lines and a ring of    *)
(* three, which the fourth line turns over.                                *)
(***************************************************************************)
EXTENDS Console

MCChars == {"a", "b"}
=============================================================================
