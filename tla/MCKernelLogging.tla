--------------------------- MODULE MCKernelLogging ---------------------------
(***************************************************************************)
(* KernelLogging for model checking: three Logger objects, which is enough *)
(* for a first connection, a later one, and one that comes or goes while   *)
(* the other two stay.                                                     *)
(***************************************************************************)
EXTENDS KernelLogging

CONSTANTS L1, L2, L3

MCLoggers == {L1, L2, L3}

\* StartLogging succeeds or throws.
MCStartOrThrow == {"started", "threw"}

\* StartLogging may also return false.
MCStartMayFail == {"started", "failed", "threw"}
=============================================================================
