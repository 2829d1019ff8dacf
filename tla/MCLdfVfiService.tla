-------------------------- MODULE MCLdfVfiService --------------------------
(***************************************************************************)
(* LdfVfiService for TLC: threads are alike, and so are clients.           *)
(***************************************************************************)
EXTENDS LdfVfiService, TLC

Alike == Permutations(Workers) \cup Permutations(Clients)
=============================================================================
