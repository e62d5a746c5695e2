------------------------------ MODULE MCStrRC ------------------------------
(***************************************************************************)
(* Instances of StrRC for TLC.                                             *)
(***************************************************************************)
EXTENDS StrRC, TLC

\* Objects are interchangeable, and so are strings; addresses are numbers.
Interchangeable == Permutations(Objects) \cup Permutations(Strings)

=============================================================================
