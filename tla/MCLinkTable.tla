----------------------------- MODULE MCLinkTable -----------------------------
(***************************************************************************)
(* Instances of LinkTable for TLC.                                         *)
(***************************************************************************)
EXTENDS LinkTable

Name(word, caps) == [word |-> word, caps |-> caps]

\* Two names that differ in case, and another one.
TwoWords == {Name("a", FALSE), Name("a", TRUE), Name("b", FALSE)}
===============================================================================
