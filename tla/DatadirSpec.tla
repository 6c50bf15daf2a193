----------------------------- MODULE DatadirSpec -----------------------------
(***************************************************************************)
(* What a data directory promises the client of a chainstate manager,      *)
(* without the two databases it is kept in: the directory stores the       *)
(* height of a chain, and a manager opened on it starts at that height.    *)
(*                                                                         *)
(* A manager advances in memory and saves when it flushes.  Closing it     *)
(* saves; the death of the process does not, and loses what was not saved. *)
(* What is stored goes back only by a wipe, which is done while no manager *)
(* is open.  A manager that keeps its stores in memory is no manager of    *)
(* the directory, and leaves it as it is.                                  *)
(***************************************************************************)
EXTENDS Integers

CONSTANTS
    MaxHeight,  \* bound on the height the chain reaches
    NULL

VARIABLES
    stored,   \* the height the directory holds
    tip,      \* the height of the manager opened on the directory, or NULL
    crashed   \* the process has died and was not started again

absVars == <<stored, tip, crashed>>

Open ==
    /\ ~crashed /\ tip = NULL
    /\ tip' = stored
    /\ UNCHANGED <<stored, crashed>>

Wipe ==
    /\ ~crashed /\ tip = NULL
    /\ stored' = 0
    /\ UNCHANGED <<tip, crashed>>

\* The manager connects blocks, and saves or not.
Advance ==
    /\ ~crashed /\ tip # NULL
    /\ tip' \in tip .. MaxHeight
    /\ stored' \in {stored, tip'}
    /\ crashed' = crashed

\* The manager is destroyed.
Close ==
    /\ ~crashed /\ tip # NULL
    /\ stored' = tip
    /\ tip' = NULL
    /\ crashed' = crashed

\* The process dies, with or without a manager.
Die ==
    /\ ~crashed
    /\ crashed' = TRUE /\ tip' = NULL
    /\ stored' = stored

Restart ==
    /\ crashed
    /\ crashed' = FALSE
    /\ UNCHANGED <<stored, tip>>

AbsInit == stored = 0 /\ tip = NULL /\ crashed = FALSE

AbsNext == Open \/ Wipe \/ Advance \/ Close \/ Die \/ Restart

AbsSpec == AbsInit /\ [][AbsNext]_absVars
=============================================================================
