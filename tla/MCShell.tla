------------------------------- MODULE MCShell -------------------------------
(***************************************************************************)
(* Shell with names of two characters, paths of two components and two     *)
(* arguments, and words that reach each of these limits.                   *)
(***************************************************************************)
EXTENDS Shell

MCChars == {" ", "\t", "\"", "/", ".", "a", "b", "c", "l"}

MCCd   == <<"c">>
MCLoad == <<"l">>

MCWords == {
    MCCd, MCLoad, << >>, <<"a">>, <<".", ".", "/", "b">>,
    <<"a", " ", "b">>, <<".", ".">>, <<"/", "a">>,
    <<"a", "/", "/", "b">>, <<"a", "b", "a">>, <<".", "/", "b", "/">>,
    <<"/", "a", "b", "a", "b", "a", "b">>}
=============================================================================
