------------------------------- MODULE MCVotes -------------------------------
(***************************************************************************)
(* Finite instance of Votes: two tabs of one guest, one of another.        *)
(***************************************************************************)
EXTENDS Votes, TLC

CONSTANTS a1, a2, b1, alice, bob

MCOwnerOf == (a1 :> alice) @@ (a2 :> alice) @@ (b1 :> bob)
=============================================================================
