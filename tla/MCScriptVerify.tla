---------------------------- MODULE MCScriptVerify ----------------------------
(***************************************************************************)
(* ScriptVerify for model checking: three addresses, so that two outputs   *)
(* can be adjacent or apart, and a transaction of up to two inputs, so     *)
(* that the spent outputs can be too few, right, or too many.  Two spent    *)
(* outputs are the shortest array whose second element matters.            *)
(***************************************************************************)
EXTENDS ScriptVerify

MCAddresses == 1 .. 3
MCMaxInputs == 2
MCMaxSpentC == 2
=============================================================================
