------------------------------ MODULE ChainSpec ------------------------------
(***************************************************************************)
(* What a chainstate manager promises its client, without the way it is    *)
(* kept: a tree of known blocks, one branch of it that is active, and the  *)
(* unspent outputs of that branch.                                         *)
(*                                                                         *)
(* The tree grows by a block whose predecessor is known and whose header   *)
(* is good.  The active branch changes by one block at a time: a block is  *)
(* connected on the tip when everything it spends is unspent, and the tip  *)
(* is disconnected, which gives back what it spent and takes away what it  *)
(* created.  Nothing else ever changes the unspent outputs.                *)
(*                                                                         *)
(* Which branch is active is not said here: that is the business of        *)
(* best-chain selection, and the properties of Chainstate state it.        *)
(***************************************************************************)
EXTENDS Sequences, SequencesExt

CONSTANTS
    Blocks,     \* the blocks there are
    Genesis,    \* the root of the tree
    Prev,       \* Prev[b]: the predecessor of b
    BadHeader,  \* blocks whose header fails its checks
    Inputs,     \* Inputs[b]: per transaction, the outpoints it spends
    Creates     \* Creates[b]: the outpoints b creates

VARIABLES
    tree,    \* the blocks known
    active,  \* the active branch, from the genesis block to the tip
    utxo     \* the unspent outpoints

absVars == <<tree, active, utxo>>

Spent(b) == Range(FlattenSeq(Inputs[b]))

\* Every input of b is unspent, and b spends none twice.
Spendable(b) == IsInjective(FlattenSeq(Inputs[b])) /\ Spent(b) \subseteq utxo

\* A block becomes known.
Learn(b) ==
    /\ b \notin tree \cup BadHeader /\ Prev[b] \in tree
    /\ tree' = tree \cup {b}
    /\ UNCHANGED <<active, utxo>>

\* A known block is connected on the tip.
Advance(b) ==
    /\ b \in tree /\ Prev[b] = Last(active) /\ Spendable(b)
    /\ active' = Append(active, b)
    /\ utxo' = (utxo \ Spent(b)) \cup Creates[b]
    /\ UNCHANGED tree

\* The tip is disconnected; the genesis block never is.
Retreat ==
    /\ Len(active) > 1
    /\ active' = Front(active)
    /\ utxo' = (utxo \ Creates[Last(active)]) \cup Spent(Last(active))
    /\ UNCHANGED tree

AbsInit ==
    /\ tree = {Genesis}
    /\ active = <<Genesis>>
    /\ utxo = Creates[Genesis]

AbsNext ==
    \/ \E b \in Blocks : Learn(b) \/ Advance(b)
    \/ Retreat

AbsSpec == AbsInit /\ [][AbsNext]_absVars
=============================================================================
