----------------------------- MODULE MCWallets -----------------------------
(***************************************************************************)
(* A small instance of WalletSync: two users, two requests at a time.      *)
(***************************************************************************)
EXTENDS WalletSync, TLC

Interchangeable == Permutations(Requests) \cup Permutations(Users)

\* With Chain Bridge cut off, a process that comes to its look-up or its registration
\* can only end, and nobody sees whether it has: let it end at once.
Settling == {p \in Procs : proc[p].stage \in {"lookup", "register"}}
SettlesFirst == Settling # {} => \E p \in Settling : Finish(p)
=============================================================================
