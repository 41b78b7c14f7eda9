--------------------------- MODULE MCAccountSetup ---------------------------
(***************************************************************************)
(* A small instance of AccountSetup, whose constants need no definitions.  *)
(***************************************************************************)
EXTENDS AccountSetup
=============================================================================
