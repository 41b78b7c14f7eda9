--------------------------- MODULE MCCredentials ---------------------------
(***************************************************************************)
(* Small instances of Credentials.                                         *)
(***************************************************************************)
EXTENDS Credentials, TLC

Interchangeable == Permutations(Requests) \cup Permutations(Passwords) \cup Permutations(Tokens)
=============================================================================
