---------------------------- MODULE MCAdmission -----------------------------
(***************************************************************************)
(* A small instance of Admission: three REST requests on two routes, and   *)
(* RPCs.                                                                   *)
(***************************************************************************)
EXTENDS Admission, TLC

CONSTANTS a1, a2, b1, c1, c2

MCRest == {a1, a2, b1}
MCRouteOf == a1 :> "login" @@ a2 :> "login" @@ b1 :> "register"
=============================================================================
