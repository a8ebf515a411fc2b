--------------------------- MODULE MCPackageStore ---------------------------
(* Instances of PackageStore for TLC. *)
EXTENDS PackageStore, TLC

CONSTANTS r1, r2, a, b

RootSymmetry == Permutations({r1, r2})
=============================================================================
