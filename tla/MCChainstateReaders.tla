------------------------- MODULE MCChainstateReaders -------------------------
(***************************************************************************)
(* A block tree and one reader thread for model checking the queries of    *)
(* Chainstate against a reorganisation that happens between two of them.   *)
(*                                                                         *)
(*     G --- A                            work 1, 1                        *)
(*      \                                                                  *)
(*       A2 --- B2                        work 1, 1                        *)
(*                                                                         *)
(* A and A2 tie, so whichever arrives first is connected.  When A is, B2   *)
(* later takes A off the active chain and puts A2 and B2 on it: a handle   *)
(* to A that the reader obtained before is then beside a chain that has    *)
(* entries at A's height and above it.  B2 has two transactions, the       *)
(* second with two inputs, so that its undo data has rows of different     *)
(* length; the reader asks for indices within and beyond both.             *)
(***************************************************************************)
EXTENDS Chainstate

CONSTANTS G, A, A2, B2, r1

MCBlocks == {G, A, A2, B2}

MCPrev == (G :> NULL) @@ (A :> G) @@ (A2 :> G) @@ (B2 :> A2)

MCWork == [b \in MCBlocks |-> 1]

MCInputs ==
    [b \in MCBlocks |->
        CASE b = A2 -> << <<"oG">> >>
          [] b = B2 -> << <<"oA2">>, <<"oG2", "oG3">> >>
          [] OTHER  -> << >>]

MCCreates ==
    [b \in MCBlocks |->
        CASE b = G  -> {"oG", "oG2", "oG3"}
          [] b = A  -> {"oA"}
          [] b = A2 -> {"oA2"}
          [] b = B2 -> {"oB2"}]

MCReaders == {r1}
=============================================================================
