----------------------------- MODULE MCChainstate -----------------------------
(***************************************************************************)
(* A block tree for model checking Chainstate: a branch of four blocks     *)
(* whose third block is invalid against the coins view, a competing block  *)
(* with more work than the valid part of that branch, and a block with a   *)
(* bad header.                                                             *)
(*                                                                         *)
(*     G --- A --- B --- C --- D          work 1, 1, 1, 1, 2               *)
(*      \                                                                  *)
(*       A2                               work 3                           *)
(*      H (bad header, on G)              work 5                           *)
(*                                                                         *)
(* B spends the coin A creates; C spends B's coin and A's coin again, and  *)
(* is invalid.  D is valid in itself and built on C.  A2 spends the        *)
(* genesis coin.  G-A2 has more work than G-A-B and ties with G-A-B-C, so  *)
(* the order of arrival decides what happens:                              *)
(*   A, B, A2        A and B are disconnected, A2 connected;               *)
(*   A, B, C         C is attempted at once, fails, D is refused later;    *)
(*   A2, A, B, C, D  C waits unattempted behind A2; D makes its branch the *)
(*                   best one, A2 is disconnected, A and B connect, C      *)
(*                   fails and takes D with it, B and A are disconnected   *)
(*                   and A2 is connected again.                            *)
(* No reader thread runs here; MCChainstateReaders has one.                *)
(***************************************************************************)
EXTENDS Chainstate

CONSTANTS G, A, B, C, D, A2, H

MCBlocks == {G, A, B, C, D, A2, H}

MCPrev ==
    (G :> NULL) @@ (A :> G) @@ (B :> A) @@ (C :> B) @@ (D :> C)
        @@ (A2 :> G) @@ (H :> G)

MCWork == [b \in MCBlocks |-> CASE b = D -> 2 [] b = A2 -> 3 [] b = H -> 5 [] OTHER -> 1]

MCBadHeader == {H}

MCInputs ==
    [b \in MCBlocks |->
        CASE b = B  -> << <<"oA">> >>
          [] b = C  -> << <<"oB">>, <<"oA">> >>
          [] b = A2 -> << <<"oG">> >>
          [] OTHER  -> << >>]

MCCreates ==
    [b \in MCBlocks |->
        CASE b = G  -> {"oG"}
          [] b = A  -> {"oA"}
          [] b = B  -> {"oB"}
          [] b = A2 -> {"oA2"}
          [] OTHER  -> {}]
=============================================================================
