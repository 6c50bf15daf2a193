----------------------------- MODULE ScriptVerify -----------------------------
(***************************************************************************)
(* The entry point of script verification: ScriptPubkey::VerifyScript of   *)
(* kernel/bitcoinkernel.cpp with verify_flags and                          *)
(* is_valid_flag_combination, and the C function kernel_verify_script that *)
(* turns the client's array of pointers into the span VerifyScript reads.  *)
(*                                                                         *)
(* The interpreter behind ::VerifyScript is not modelled: its verdict is   *)
(* an input.  What is modelled is everything between the client's          *)
(* arguments and the interpreter: which calls are refused, in which order  *)
(* the arguments are looked at, which objects are dereferenced, and which  *)
(* spent outputs the precomputed transaction data is built from.           *)
(*                                                                         *)
(* Memory.  A TransactionOutput object lives at an address.  A span of n   *)
(* outputs that begins at address a is the objects at a, a+1, ..., a+n-1;  *)
(* an address that holds no TransactionOutput is memory of something else. *)
(* A C++ client passes a span over a container of its own; a C client      *)
(* passes an array of pointers to objects it created one by one.           *)
(*                                                                         *)
(* Flags.  The numeric values of the script flags are not in the sources;  *)
(* a flag word is the set of the flags set in it.  UNDEFINED stands for    *)
(* any bit at or above SCRIPT_VERIFY_END_MARKER.                           *)
(***************************************************************************)
EXTENDS Integers, Sequences, FiniteSets, SequencesExt

CONSTANTS
    Addresses,       \* where TransactionOutput objects can be allocated: 1 .. n
    MaxInputs,       \* bound on the number of inputs of the transaction
    MaxSpentC,       \* bound on spent_outputs_len of kernel_verify_script
    NULL

ASSUME ConstantsOK ==
    /\ IsFiniteSet(Addresses) /\ Addresses = 1 .. Cardinality(Addresses)
    /\ MaxInputs \in Nat /\ MaxSpentC \in Nat

\* The flags the code names, and a bit the interpreter does not define.
ScriptFlags == {"P2SH", "WITNESS", "CLEANSTACK", "TAPROOT"}
FlagWords   == SUBSET (ScriptFlags \cup {"UNDEFINED"})

VARIABLES
    allocated,  \* the addresses that hold a TransactionOutput
    tx,         \* the client's Transaction: NULL, or whether it decoded and its input count
    call,       \* the call of VerifyScript that has just returned: its arguments and what
                \* became of it; NULL between calls
    fault       \* the process has dereferenced a null or foreign pointer

vars == <<allocated, tx, call, fault>>

\* The client is between two calls of the library.
Idle == call = NULL /\ ~fault

-----------------------------------------------------------------------------
(* The flag checks                                                         *)

\* verify_flags: (flags & all_valid_flags) == flags.
verify_flags(flags) == flags \subseteq ScriptFlags

\* A variant of is_valid_flag_combination without its second rule.
is_valid_flag_combination_cleanstack_only(flags) ==
    ~("CLEANSTACK" \in flags /\ {"P2SH", "WITNESS"} \ flags # {})

\* is_valid_flag_combination: CLEANSTACK needs P2SH and WITNESS, WITNESS
\* needs P2SH.
is_valid_flag_combination(flags) ==
    /\ ~("CLEANSTACK" \in flags /\ {"P2SH", "WITNESS"} \ flags # {})
    /\ ~("WITNESS" \in flags /\ "P2SH" \notin flags)

-----------------------------------------------------------------------------
(* ScriptPubkey::VerifyScript                                              *)

\* A variant of the refusal that reports an error code.
RefusedWithErrorCode == -1

\* "return false" of a function that returns int.
Refused == 0

\* A variant of the guards that reads the transaction before it looks at
\* the flags.
GuardsTransactionFirst(span, input_index, flags) ==
    << <<~tx.valid,                                           "null transaction">>,
       <<~verify_flags(flags),                                "refused">>,
       <<~is_valid_flag_combination(flags),                   "refused">>,
       <<"TAPROOT" \in flags /\ span = <<>>,                  "refused">>,
       <<span # <<>> /\ Len(span) # tx.vin,                   "refused">>,
       <<\E k \in DOMAIN span : span[k] \notin allocated,     "bad spent output">>,
       <<input_index >= tx.vin,                               "refused">> >>

\* The guards of VerifyScript in the order the code evaluates them, each
\* with what happens when it fires: the call is refused, or a pointer that
\* is not what the code takes it for is dereferenced.
Guards(span, input_index, flags) ==
    << <<~verify_flags(flags),                                "refused">>,
       <<~is_valid_flag_combination(flags),                   "refused">>,
       <<"TAPROOT" \in flags /\ span = <<>>,                  "refused">>,
       <<~tx.valid,                                           "null transaction">>,
       <<span # <<>> /\ Len(span) # tx.vin,                   "refused">>,
       <<\E k \in DOMAIN span : span[k] \notin allocated,     "bad spent output">>,
       <<input_index >= tx.vin,                               "refused">> >>

\* A variant that initialises the precomputed data whenever spent outputs
\* were given.
PrecomputeAlways(span, flags) == IF span # <<>> THEN span ELSE NULL

\* txdata.Init(tx, std::move(spent_outputs_vec)): the spent outputs the
\* precomputed transaction data is built from, NULL when it is left as
\* constructed.
Precompute(span, flags) ==
    IF span # <<>> /\ "TAPROOT" \in flags THEN span ELSE NULL

\* VerifyScript: the first guard that fires decides; when none does the
\* interpreter runs and its verdict is returned.  The spent outputs are
\* read, one m_impl after the other, once the size check has passed.
VerifyScript(span, input_index, flags, verdict) ==
    LET guards == Guards(span, input_index, flags)
        fired  == SelectInSeq(guards, LAMBDA g : g[1])
    IN  [how         |-> IF fired = 0 THEN "evaluated" ELSE guards[fired][2],
         ret         |-> IF fired = 0 THEN verdict ELSE Refused,
         read        |-> IF fired \in {0, 6, 7} THEN span ELSE <<>>,
         precomputed |-> IF fired = 0 THEN Precompute(span, flags) ELSE NULL]

-----------------------------------------------------------------------------
(* The two ways in                                                         *)

\* The spans a C++ client can pass: runs of adjacent objects.
Spans ==
    {<<>>} \cup { [k \in 1 .. n |-> a + k - 1] : a \in allocated, n \in 1 .. MaxInputs + 1 }

\* The arrays a C client can pass: pointers to objects it created, none
\* included.
PointerArrays ==
    UNION { [1 .. n -> allocated] : n \in 0 .. MaxSpentC }

\* kernel_verify_script: the span begins at the object the first pointer
\* of the array points to and has spent_outputs_len elements.
Span(ptrs, len) == [k \in 1 .. len |-> ptrs[1] + k - 1]

\* The state after a call: what the client meant to pass, what VerifyScript
\* was given and what it did.
Record(spent, span, input_index, flags, result) ==
    /\ call' = [spent |-> spent, span |-> span, input_index |-> input_index,
                flags |-> flags, vin |-> tx.vin] @@ result
    /\ fault' = (result.how \in {"null transaction", "bad spent output"})
    /\ UNCHANGED <<allocated, tx>>

\* A C++ client calls ScriptPubkey::VerifyScript, on a Transaction it has
\* tested with operator bool.
VerifyScriptCpp ==
    /\ Idle /\ tx # NULL /\ tx.valid
    /\ \E span \in Spans, input_index \in 0 .. MaxInputs, flags \in FlagWords, verdict \in {0, 1} :
        /\ \A k \in DOMAIN span : span[k] \in allocated
        /\ Record(span, span, input_index, flags, VerifyScript(span, input_index, flags, verdict))

\* A variant of kernel_verify_script that reads the array without testing
\* the pointer to it.
kernel_verify_script_unchecked ==
    /\ Idle /\ tx # NULL
    /\ \E ptrs \in PointerArrays \cup {NULL}, input_index \in 0 .. MaxInputs,
          flags \in FlagWords, verdict \in {0, 1} :
        IF ptrs = NULL
        THEN /\ fault' = TRUE
             /\ UNCHANGED <<allocated, tx, call>>
        ELSE Record(ptrs, Span(ptrs, Len(ptrs)), input_index, flags,
                    VerifyScript(Span(ptrs, Len(ptrs)), input_index, flags, verdict))

\* A C client calls kernel_verify_script with a null pointer or with an
\* array of pointers and its length, on whatever kernel_transaction_create
\* returned: the C API has no function that tells whether a Transaction is
\* valid.  The int VerifyScript returns becomes a bool.
kernel_verify_script ==
    /\ Idle /\ tx # NULL
    /\ \E ptrs \in PointerArrays \cup {NULL}, input_index \in 0 .. MaxInputs,
          flags \in FlagWords, verdict \in {0, 1} :
        LET spent  == IF ptrs = NULL THEN <<>> ELSE ptrs
            span   == IF ptrs = NULL THEN <<>> ELSE Span(ptrs, Len(ptrs))
            result == VerifyScript(span, input_index, flags, verdict)
        IN  Record(spent, span, input_index, flags,
                   [result EXCEPT !.ret = IF @ # 0 THEN 1 ELSE 0])

\* The client has the result and goes on.
Return ==
    /\ call # NULL /\ ~fault
    /\ call' = NULL
    /\ UNCHANGED <<allocated, tx, fault>>

-----------------------------------------------------------------------------
(* The client's objects                                                    *)

\* kernel_transaction_output_create: a new object, wherever the allocator
\* puts it.
CreateTransactionOutput ==
    /\ Idle
    /\ \E a \in Addresses \ allocated : allocated' = allocated \cup {a}
    /\ UNCHANGED <<tx, call, fault>>

\* kernel_transaction_output_destroy.
DestroyTransactionOutput ==
    /\ Idle
    /\ \E a \in allocated : allocated' = allocated \ {a}
    /\ UNCHANGED <<tx, call, fault>>

\* kernel_transaction_create: the object is returned whether or not the
\* bytes decoded.
CreateTransaction ==
    /\ Idle /\ tx = NULL
    /\ \E vin \in 0 .. MaxInputs, valid \in BOOLEAN :
        tx' = [valid |-> valid, vin |-> IF valid THEN vin ELSE 0]
    /\ UNCHANGED <<allocated, call, fault>>

\* kernel_transaction_destroy.
DestroyTransaction ==
    /\ Idle /\ tx # NULL
    /\ tx' = NULL
    /\ UNCHANGED <<allocated, call, fault>>

-----------------------------------------------------------------------------
(* Specification                                                           *)

Init ==
    /\ allocated = {}
    /\ tx = NULL
    /\ call = NULL
    /\ fault = FALSE

\* A dereference of null or of foreign memory ends the process; the client
\* starts again, with no objects.
Restart ==
    /\ fault
    /\ allocated' = {} /\ tx' = NULL /\ call' = NULL /\ fault' = FALSE

Next ==
    \/ CreateTransactionOutput \/ DestroyTransactionOutput
    \/ CreateTransaction \/ DestroyTransaction
    \/ VerifyScriptCpp
    \/ kernel_verify_script
    \/ Return
    \/ Restart

Spec == Init /\ [][Next]_vars

-----------------------------------------------------------------------------
(* Properties                                                              *)

Outcome == {"evaluated", "refused", "null transaction", "bad spent output"}

TypeOK ==
    /\ allocated \subseteq Addresses
    /\ tx \in {NULL} \cup [valid : BOOLEAN, vin : 0 .. MaxInputs]
    /\ fault \in BOOLEAN
    /\ call # NULL =>
        /\ call.how \in Outcome /\ call.ret \in {0, 1}
        /\ call.flags \in FlagWords /\ call.input_index \in 0 .. MaxInputs
        /\ call.spent \in Seq(Addresses) /\ call.span \in Seq(Int) /\ call.read \in Seq(Int)
        /\ call.precomputed \in {NULL} \cup Seq(Int)

\* What the caller must have got right, as the contract of verification
\* lists it, in no particular order.
Preconditions(c) ==
    /\ c.flags \subseteq ScriptFlags
    /\ "CLEANSTACK" \in c.flags => {"P2SH", "WITNESS"} \subseteq c.flags
    /\ "WITNESS" \in c.flags => "P2SH" \in c.flags
    /\ "TAPROOT" \in c.flags => c.spent # <<>>
    /\ c.spent # <<>> => Len(c.spent) = c.vin
    /\ c.input_index < c.vin

\* The interpreter runs exactly for the calls that meet the contract, and
\* every other call returns false: the order in which VerifyScript tests
\* its arguments, and the conversion of its int to the bool of
\* kernel_verify_script, refuse neither more nor less than the contract.
ContractOfVerify ==
    (call # NULL /\ ~fault) =>
        /\ call.how = "evaluated" <=> Preconditions(call)
        /\ call.how # "evaluated" => call.ret = 0

\* The precomputed transaction data is built from spent outputs exactly
\* when the TAPROOT flag is set and outputs were given, and then from one
\* output for every input of the transaction: txdata.Init comes after the
\* size check and before the interpreter.
PrecomputedWhenAvailable ==
    (call # NULL /\ call.how = "evaluated") =>
        /\ call.precomputed # NULL <=> ("TAPROOT" \in call.flags /\ call.spent # <<>>)
        /\ call.precomputed # NULL => Len(call.precomputed) = call.vin

\* The flags are judged before any pointer is followed: a call with a flag
\* word the contract rejects, or with TAPROOT and no spent outputs, returns
\* false without reading the transaction or a spent output, also when the
\* transaction is one that did not decode or the array is one the span
\* misreads.  The order of the tests in VerifyScript is what makes it so.
RefusedBeforeDereference ==
    LET FlagsAdmitted(c) ==
            /\ verify_flags(c.flags) /\ is_valid_flag_combination(c.flags)
            /\ "TAPROOT" \in c.flags => c.spent # <<>>
    IN  (call # NULL /\ ~FlagsAdmitted(call)) =>
            ~fault /\ call.how = "refused" /\ call.read = <<>>

\* The process dereferences a pointer that is not what the code takes it
\* for in two cases and no other: a Transaction that did not decode meets
\* admitted flags, or a C client passes two or more spent outputs that are
\* not adjacent in memory.  No other argument, wrong as it may be, and no
\* order of creating and destroying the objects makes a call fault.
OnlyKnownFaults ==
    fault =>
        /\ call # NULL
        /\ \/ call.how = "null transaction" /\ ~tx.valid
           \/ call.how = "bad spent output" /\ Len(call.spent) >= 2 /\ call.span # call.spent

\* The spent outputs VerifyScript reads are the ones the client passed, in
\* the client's order: the span kernel_verify_script builds covers the
\* objects of the client's array and nothing else.
SpentOutputsAreTheClients ==
    call # NULL => call.read \in {<<>>, call.spent} /\ call.how # "bad spent output"

\* A call of VerifyScript returns: a wrong argument is a refusal, never a
\* dereference of a null m_impl or of memory that is not the object the
\* code takes it for.
VerifyNeverFaults == ~fault
=============================================================================
