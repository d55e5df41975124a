---------------------------- MODULE MCFilesystem ----------------------------
(***************************************************************************)
(* Filesystem on a small table.                                            *)
(***************************************************************************)
EXTENDS Filesystem

MCNames   == {"a", "b"}
MCBytes   == {"x"}
MCTexts   == {<<>>}
MCWelcome == << >>
=============================================================================
