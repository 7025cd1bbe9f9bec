----------------------------- MODULE MCTransport -----------------------------
(***************************************************************************)
(* Transport on small instances.                                           *)
(***************************************************************************)
EXTENDS Transport

=============================================================================
