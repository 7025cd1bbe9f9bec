------------------------------ MODULE MCShipper ------------------------------
(***************************************************************************)
(* Shipper on small instances.                                             *)
(***************************************************************************)
EXTENDS Shipper

\* Permits are interchangeable: no action or safety property tells them apart.
PermitSymmetry == Permutations(Permits)

=============================================================================
