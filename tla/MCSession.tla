------------------------------ MODULE MCSession ------------------------------
(***************************************************************************)
(* Finite instances of Session.                                            *)
(***************************************************************************)
EXTENDS Session, TLC

CONSTANTS h1, c1, c2, host, guest

MCHosts == {h1}
MCGuestConns == {c1, c2}
MCIds == {host, guest}
MCOwnerOf == [c \in {h1, c1, c2} |-> IF c = h1 THEN host ELSE guest]
MCTargets == {guest}

Symmetry == Permutations({c1, c2}) \cup Permutations(Rooms)
=============================================================================
