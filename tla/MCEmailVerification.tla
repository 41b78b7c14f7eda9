------------------------ MODULE MCEmailVerification ------------------------
(***************************************************************************)
(* Small instances of EmailVerification, whose constants need no           *)
(* definitions.                                                            *)
(***************************************************************************)
EXTENDS EmailVerification
=============================================================================
