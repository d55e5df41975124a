------------------------------ MODULE MCKernel ------------------------------
(***************************************************************************)
(* Kernel with a table of seven nodes and two programs, whose names the    *)
(* user's files and folders may have too.                                  *)
(***************************************************************************)
EXTENDS Kernel

MCNames    == {"a", "b"}
MCBytes    == {"h", "x"}
MCHelps    == <<"a", "b">>
MCHelpText == <<"h", "h">>
MCTexts    == {<<"x">>}
MCWelcome  == << >>
=============================================================================
