-------------------------- MODULE MCChainmanLifecycle --------------------------
(***************************************************************************)
(* ChainmanLifecycle for model checking.  A chain of three blocks above    *)
(* the genesis block is enough for the data directory to hold a block tree *)
(* ahead of the chainstate by one and by two blocks, for an import of one  *)
(* or several blocks, and for a wipe to lose something.                    *)
(***************************************************************************)
EXTENDS ChainmanLifecycle

MCMaxHeight == 3
=============================================================================
