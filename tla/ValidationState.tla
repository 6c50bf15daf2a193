--------------------------- MODULE ValidationState ---------------------------
(***************************************************************************)
(* The verdict object that validation hands to the client: the class       *)
(* ValidationState<BlockValidationResult> of kernel/validation_state.h,    *)
(* the two C accessors that translate it to the C enumerations, and the    *)
(* classification the BlockChecked handler of the chainstate tool makes.   *)
(*                                                                         *)
(* A state is a record.  The reject reason and debug message are strings   *)
(* in the code; here a reason is a token, because the only thing the code  *)
(* does with it besides printing is to decide which of two reasons         *)
(* survives.  This module has no variables: the modules that run           *)
(* validation hold the states.                                             *)
(***************************************************************************)
EXTENDS Sequences

\* enum class BlockValidationResult
BlockValidationResult ==
    { "BLOCK_RESULT_UNSET", "BLOCK_CONSENSUS", "BLOCK_CACHED_INVALID",
      "BLOCK_INVALID_HEADER", "BLOCK_MUTATED", "BLOCK_MISSING_PREV",
      "BLOCK_INVALID_PREV", "BLOCK_TIME_FUTURE", "BLOCK_HEADER_LOW_WORK" }

\* enum class ModeState
ModeState == { "M_VALID", "M_INVALID", "M_ERROR" }

\* The reject reasons the modelled validation paths pass in.
RejectReason ==
    { "", "high-hash", "duplicate-invalid", "prev-blk-not-found",
      "bad-prevblk", "bad-txns-inputs-missingorspent", "write-failed" }

BlockValidationState ==
    [m_mode : ModeState, m_result : BlockValidationResult, m_reject_reason : RejectReason]

\* A default-constructed state: m_mode{M_VALID}, m_result{}, empty reason.
NewValidationState ==
    [m_mode |-> "M_VALID", m_result |-> "BLOCK_RESULT_UNSET", m_reject_reason |-> ""]

\* A variant of Invalid() that records result and reason and leaves the mode.
InvalidKeepsMode(s, result, reason) ==
    [s EXCEPT !.m_result = result, !.m_reject_reason = reason]

\* Invalid(): result and reason are always overwritten, the mode only when
\* no run-time error was recorded before.
Invalid(s, result, reason) ==
    [m_mode          |-> IF s.m_mode # "M_ERROR" THEN "M_INVALID" ELSE s.m_mode,
     m_result        |-> result,
     m_reject_reason |-> reason]

\* Error(): the reason is kept from an earlier Invalid(), the result is
\* left alone, the mode always becomes M_ERROR.
Error(s, reason) ==
    [s EXCEPT !.m_mode = "M_ERROR",
              !.m_reject_reason = IF s.m_mode = "M_VALID" THEN reason ELSE @]

IsValid(s)   == s.m_mode = "M_VALID"
IsInvalid(s) == s.m_mode = "M_INVALID"
IsError(s)   == s.m_mode = "M_ERROR"

\* kernel_get_validation_mode_from_block_validation_state
KernelValidationMode(s) ==
    CASE IsValid(s)   -> "kernel_VALIDATION_STATE_VALID"
      [] IsInvalid(s) -> "kernel_VALIDATION_STATE_INVALID"
      [] OTHER        -> "kernel_VALIDATION_STATE_ERROR"

\* kernel_get_block_validation_result_from_block_validation_state: the
\* switch maps every enumerator to the C enumerator of the same name.
KernelBlockValidationResult(s) == "kernel_" \o s.m_result

\* TestValidationInterface::BlockCheckedHandler: what the tool reports for a
\* checked block.  The mode is looked at first, the result only for an
\* invalid state.
BlockCheckedHandler(s) ==
    CASE IsValid(s) -> "Valid block"
      [] IsError(s) -> "Internal error"
      [] OTHER      -> s.m_result

\* Everything BlockCheckedHandler can report.
Report == { "Valid block", "Internal error" } \cup BlockValidationResult
=============================================================================
