-------------------------------- MODULE MCCli --------------------------------
(***************************************************************************)
(* Cli on small instances.                                                 *)
(***************************************************************************)
EXTENDS Cli

=============================================================================
