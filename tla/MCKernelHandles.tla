--------------------------- MODULE MCKernelHandles ---------------------------
(***************************************************************************)
(* KernelHandles for model checking.  Two callback objects of a kind can   *)
(* be alive at a time (the one the options point to and the one a context  *)
(* kept), so two is the bound that never blocks a step.                    *)
(***************************************************************************)
EXTENDS KernelHandles

MCMaxShared == 2

\* One wrapper of a type left allocated is enough to tell a function that
\* leaks from one that does not.
MCMaxLeaks == 1
=============================================================================
