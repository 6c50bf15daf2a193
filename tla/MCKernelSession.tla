--------------------------- MODULE MCKernelSession ---------------------------
(***************************************************************************)
(* A client with two contexts and one block on top of the genesis block    *)
(* for model checking KernelSession.                                       *)
(*                                                                         *)
(*     G --- A          A spends an output of G.                           *)
(*                                                                         *)
(* Context c1 is built from the context options, c2 is default             *)
(* constructed: a manager may take its interrupt from one of them and its  *)
(* notifications from the other.  The client's notification struct has     *)
(* every callback but progress, so that a callback that is set and one     *)
(* that is not are both met; its validation interface has block_checked.   *)
(***************************************************************************)
EXTENDS KernelSession

CONSTANTS G, A, c1, c2

MCBlocks == {G, A}

MCPrev == (G :> NULL) @@ (A :> G)

MCWork == (G :> 1) @@ (A :> 1)

MCInputs == (G :> << >>) @@ (A :> << <<"oG">> >>)

MCCreates == (G :> {"oG"}) @@ (A :> {"oA"})

MCContexts == {c1, c2}

MCOptionContexts == {c1}

MCNotificationChoices == { NotificationCallbacks \ {"progress"} }

MCValidationChoices == { {"block_checked"} }
=============================================================================
