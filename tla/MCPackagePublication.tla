------------------------- MODULE MCPackagePublication -------------------------
(***************************************************************************)
(* PackagePublication for TLC.  Requests name all types, so that types are *)
(* interchangeable.                                                        *)
(***************************************************************************)
EXTENDS PackagePublication, TLC

Symmetry == Permutations(Types)
=============================================================================
