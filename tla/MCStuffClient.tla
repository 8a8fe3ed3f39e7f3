--------------------------- MODULE MCStuffClient ---------------------------
(***************************************************************************)
(* Instances of StuffClient for TLC.                                       *)
(***************************************************************************)
EXTENDS StuffClient

MCBytes == {"x", "y", "a", "b", "c"}
\* Outputs with parts of the markers in them.
MCOutputs == {<<>>, <<"x">>, <<NULs, "x", "y">>, <<NULs, Error, "x">>, <<Error, NULs, "x">>}
MCFiles == {<<>>, <<"a">>, <<"a", "b", "c">>}
=============================================================================
