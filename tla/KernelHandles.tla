---------------------------- MODULE KernelHandles ----------------------------
(***************************************************************************)
(* The C API as its client sees it: every function that returns a pointer  *)
(* allocates an object the client must release with the matching destroy   *)
(* function, and every function that takes a pointer dereferences it.      *)
(* The module follows each object from new to delete, through the          *)
(* functions of kernel/bitcoinkernel.cpp's C part and the constructors and *)
(* destructors of the kernel_header classes they call.                     *)
(*                                                                         *)
(* A C++ wrapper object whose construction failed has a null m_impl: it is *)
(* "invalid".  What a create function does with an invalid object differs  *)
(* from function to function, and is what this module is about: one        *)
(* deletes it and returns null, others return null and leave it allocated, *)
(* kernel_context_create returns it.  Every construction that can fail     *)
(* may fail here.  A function that reads a null m_impl ends the process    *)
(* (fault); a new process starts with nothing allocated.                   *)
(*                                                                         *)
(* Abstractions.  The client holds at most one object of each type at a    *)
(* time.  The content of an object is left out; what is kept is whether it *)
(* is valid, and for the two callback objects a context shares with its    *)
(* options (KernelNotifications, ValidationInterface) which object it is,  *)
(* and which of the objects it was made from it still refers to.           *)
(* The client keeps to the lifetime rule of the header: a context outlives *)
(* the options and the manager made from it, a manager its block indexes.  *)
(***************************************************************************)
EXTENDS Integers, FiniteSets, FiniteSetsExt, TLC

CONSTANTS
    MaxShared,  \* bound on the callback objects alive at a time, per kind
    MaxLeaks,   \* bound on the wrappers left allocated without a pointer to them
    NULL

\* The object types of the C API.
Types ==
    { "Transaction", "ScriptPubkey", "TransactionOutput", "ChainParameters",
      "ContextOptions", "Context", "ChainstateManagerOptions", "ChainstateManager",
      "Block", "ByteArray", "BlockHash", "BlockIndex", "BlockUndo" }

\* The two callback objects held through std::shared_ptr.
Shared == { "notifications", "validation_interface" }

ASSUME ConstantsOK == MaxShared \in Nat \ {0} /\ MaxLeaks \in Nat

VARIABLES
    handle,     \* per type: "none", or whether the object the client holds is valid
    heap,       \* per type: the number of wrapper objects allocated
    keeps,      \* per type: the objects the held object refers to and does not own
    optShared,  \* per callback kind: the object the context options point to, 0 for none
    ctxShared,  \* per callback kind: the object the context points to, 0 for none
    live,       \* per callback kind: the objects allocated
    interrupted,\* the context's interrupt signal was raised
    fault       \* the process has dereferenced a null pointer

vars == <<handle, heap, keeps, optShared, ctxShared, live, interrupted, fault>>
shared == <<optShared, ctxShared, live>>
owned == <<handle, heap, keeps>>

\* cast_transaction ... cast_block_undo: the assert of a C function on a
\* pointer it is passed.  The client passes pointers it holds, never null.
Cast(t)    == handle[t] # "none"
Valid(t)   == handle[t] = "valid"
Running    == fault = FALSE

\* The wrappers whose constructor can leave m_impl null: a transaction or
\* a block that does not decode, a context whose sanity check fails,
\* directories that cannot be created, a chainstate that does not load, a
\* chain without a tip.
Fallible ==
    { "Transaction", "Block", "Context", "ChainstateManagerOptions",
      "ChainstateManager", "BlockIndex" }

\* Outcomes of a construction of type t.
Outcomes(t) == {"valid"} \cup (IF t \in Fallible THEN {"invalid"} ELSE {})

-----------------------------------------------------------------------------
(* What the Impl of a wrapper holds: the types of the constructor's        *)
(* arguments it refers to; what it copies or shares is not in the set.     *)

\* A variant of TransactionOutputImpl with members "const CTxOut&" and
\* "const CScript&" where the code has a CTxOut of its own.
TransactionOutputByReference == {"ScriptPubkey", "BlockUndo"}

ScriptPubkeyImpl      == {}     \* CScript m_script_pubkey, built from the span
TransactionOutputImpl == {}     \* CTxOut m_tx_out, the script copied into it
BlockImpl             == {}     \* std::shared_ptr<CBlock>, decoded or read from disk
BlockUndoImpl         == {}     \* std::shared_ptr<CBlockUndo>
BlockIndexImpl        == {"ChainstateManager"}  \* CBlockIndex& m_block_index
ChainstateManagerOptionsImpl == {"Context"}     \* chainparams and notifications
ChainstateManagerImpl == {"Context"}            \* interrupt; the options are copied

Impl ==
    [ ScriptPubkey |-> ScriptPubkeyImpl, TransactionOutput |-> TransactionOutputImpl,
      Block |-> BlockImpl, BlockUndo |-> BlockUndoImpl, BlockIndex |-> BlockIndexImpl,
      ChainstateManagerOptions |-> ChainstateManagerOptionsImpl,
      ChainstateManager |-> ChainstateManagerImpl ]
    @@ [t \in Types |-> {}]

-----------------------------------------------------------------------------
(* Allocation and release                                                  *)

\* The pointer is returned whatever the state of the object: the client
\* holds it.  An object without m_impl refers to nothing.
ReturnObject(t, state, from) ==
    /\ handle' = [handle EXCEPT ![t] = state]
    /\ heap' = [heap EXCEPT ![t] = @ + 1]
    /\ keeps' = [keeps EXCEPT ![t] = IF state = "valid" THEN Impl[t] \cap from ELSE {}]

\* An invalid object is deleted and nullptr returned.
DeleteAndReturnNull(t) == UNCHANGED owned

\* The wrappers of type t that are allocated and not held.
Leaked(t) == heap[t] - (IF handle[t] = "none" THEN 0 ELSE 1)

\* nullptr is returned for an invalid object, which stays allocated.
ReturnNullOnly(t) ==
    /\ MapThenSumSet(Leaked, Fallible) < MaxLeaks
    /\ heap' = [heap EXCEPT ![t] = @ + 1]
    /\ UNCHANGED <<handle, keeps>>

\* delete through a destroy function.
Delete(t) ==
    /\ handle' = [handle EXCEPT ![t] = "none"]
    /\ heap' = [heap EXCEPT ![t] = @ - 1]
    /\ keeps' = [keeps EXCEPT ![t] = {}]

\* A function that makes an object that cannot fail, from objects it reads.
Make(t, from) ==
    /\ Running /\ handle[t] = "none" /\ \A f \in from : Valid(f)
    /\ ReturnObject(t, "valid", from)
    /\ UNCHANGED <<shared, interrupted, fault>>

\* A variant of a destroy function that deletes whatever it is given, a
\* pointer that was destroyed before included.
DestroyUnchecked(t, dependants) ==
    /\ Running /\ \A d \in dependants : handle[d] = "none"
    /\ Delete(t)
    /\ UNCHANGED <<shared, interrupted, fault>>

\* A destroy function with a null check: "if (x) delete x".
Destroy(t, dependants) ==
    /\ Running /\ handle[t] # "none" /\ \A d \in dependants : handle[d] = "none"
    /\ Delete(t)
    /\ UNCHANGED <<shared, interrupted, fault>>

\* Dereferencing the m_impl of an object of type t.
Deref(t) == fault' = (handle[t] = "invalid")

-----------------------------------------------------------------------------
(* Shared callback objects                                                 *)

\* A std::shared_ptr gives up its object: the object is freed when no
\* other pointer holds it.
Release(w, object, others) ==
    IF object = 0 \/ object \in others THEN live[w] ELSE live[w] \ {object}

\* A variant of Release in which the pointer frees what it points to.
ReleaseOwned(w, object, others) == live[w] \ {object}

\* make_shared: a new object; which address it gets makes no difference,
\* so it is given the least name that is free.
Fresh(w) == LET free == (1 .. MaxShared) \ live[w] IN {o \in free : o = Min(free)}

\* kernel_context_options_set_notifications and _set_validation_interface:
\* make_shared of a new callback object, which replaces the one set before.
SetCallbacks(w) ==
    /\ Running /\ Cast("ContextOptions")
    /\ \E object \in Fresh(w) :
        /\ optShared' = [optShared EXCEPT ![w] = object]
        /\ live' = [live EXCEPT ![w] = Release(w, optShared[w], {ctxShared[w]}) \cup {object}]
    /\ UNCHANGED <<owned, ctxShared, interrupted, fault>>

\* kernel_context_options_destroy: ~ContextOptions releases both pointers.
DestroyContextOptions ==
    /\ Running /\ handle["ContextOptions"] # "none"
    /\ Delete("ContextOptions")
    /\ live' = [w \in Shared |-> Release(w, optShared[w], {ctxShared[w]})]
    /\ optShared' = [w \in Shared |-> 0]
    /\ UNCHANGED <<ctxShared, interrupted, fault>>

-----------------------------------------------------------------------------
(* Context                                                                 *)

\* What ContextImpl holds after its constructor: the options' callback
\* objects, and a KernelNotifications of its own when the options have none.
ContextCallbacks(own) ==
    [w \in Shared |-> IF optShared[w] # 0 THEN optShared[w]
                      ELSE IF w = "notifications" THEN own ELSE 0]

\* kernel_context_create: new Context{*options}.  When the sanity check
\* fails the constructor drops its ContextImpl, and with it the pointers it
\* had copied; the Context object is returned all the same.
CreateContext ==
    /\ Running /\ handle["Context"] = "none" /\ Cast("ContextOptions")
    /\ \E state \in Outcomes("Context"), own \in Fresh("notifications") :
        /\ ReturnObject("Context", state, {"ContextOptions"})
        /\ IF state = "valid"
           THEN /\ ctxShared' = ContextCallbacks(own)
                /\ live' = [live EXCEPT !["notifications"] = @ \cup {ctxShared'["notifications"]}]
           ELSE UNCHANGED <<ctxShared, live>>
    /\ interrupted' = FALSE
    /\ UNCHANGED <<optShared, fault>>

\* kernel_context_interrupt: (*m_impl->m_interrupt)().
InterruptContext ==
    /\ Running /\ Cast("Context") /\ ~interrupted
    /\ Deref("Context")
    /\ interrupted' = Valid("Context")
    /\ UNCHANGED <<owned, shared>>

\* A variant of kernel_context_destroy in which the context's pointers free
\* their objects whoever else holds them.
DestroyContextOwning ==
    /\ Running /\ Cast("Context")
    /\ \A d \in {"ChainstateManagerOptions", "ChainstateManager"} : handle[d] = "none"
    /\ Deref("Context")
    /\ IF Valid("Context")
       THEN /\ Delete("Context")
            /\ live' = [w \in Shared |-> ReleaseOwned(w, ctxShared[w], {optShared[w]})]
            /\ ctxShared' = [w \in Shared |-> 0]
       ELSE UNCHANGED <<owned, ctxShared, live>>
    /\ UNCHANGED <<optShared, interrupted>>

\* kernel_context_destroy: delete without a null check of the pointer;
\* ~Context reads m_impl->m_validation_interface before anything else.
DestroyContext ==
    /\ Running /\ Cast("Context")
    /\ \A d \in {"ChainstateManagerOptions", "ChainstateManager"} : handle[d] = "none"
    /\ Deref("Context")
    /\ IF Valid("Context")
       THEN /\ Delete("Context")
            /\ live' = [w \in Shared |-> Release(w, ctxShared[w], {optShared[w]})]
            /\ ctxShared' = [w \in Shared |-> 0]
       ELSE UNCHANGED <<owned, ctxShared, live>>
    /\ UNCHANGED <<optShared, interrupted>>

-----------------------------------------------------------------------------
(* Objects whose construction can fail                                     *)

\* A create function of the shape "auto x{new T(...)}; if (!*x) return
\* nullptr; return x": kernel_chainstate_manager_options_create,
\* kernel_chainstate_manager_create and kernel_get_block_index_from_tip.
\* The first two read the context's m_impl.
CreateOrNull(t, from) ==
    /\ Running /\ handle[t] = "none" /\ \A f \in from : Cast(f)
    /\ fault' = (\E f \in from : handle[f] = "invalid")
    /\ IF fault'
       THEN UNCHANGED owned
       ELSE \E state \in Outcomes(t) :
                IF state = "valid" THEN ReturnObject(t, "valid", from) ELSE ReturnNullOnly(t)
    /\ UNCHANGED <<shared, interrupted>>

\* A variant of kernel_block_create without the delete.
CreateBlockNoDelete ==
    /\ Running /\ handle["Block"] = "none"
    /\ \E state \in Outcomes("Block") :
        IF state = "valid" THEN ReturnObject("Block", "valid", {}) ELSE ReturnNullOnly("Block")
    /\ UNCHANGED <<shared, interrupted, fault>>

\* kernel_block_create: a block that failed to decode is deleted.
CreateBlock ==
    /\ Running /\ handle["Block"] = "none"
    /\ \E state \in Outcomes("Block") :
        IF state = "valid" THEN ReturnObject("Block", "valid", {}) ELSE DeleteAndReturnNull("Block")
    /\ UNCHANGED <<shared, interrupted, fault>>

\* kernel_transaction_create: the constructor catches the decoding error
\* itself and leaves m_impl null; the function's own catch never runs and
\* the object is returned.  kernel_verify_script is what reads it
\* (module ScriptVerify).
CreateTransaction ==
    /\ Running /\ handle["Transaction"] = "none"
    /\ \E state \in Outcomes("Transaction") : ReturnObject("Transaction", state, {})
    /\ UNCHANGED <<shared, interrupted, fault>>

-----------------------------------------------------------------------------
(* Objects read from a chainstate manager                                  *)

\* A function that returns a new object or nullptr when there is none:
\* the std::optional getters and readers.
Find(t, from) ==
    /\ Running /\ handle[t] = "none" /\ \A f \in from : Valid(f)
    /\ \/ ReturnObject(t, "valid", from)
       \/ DeleteAndReturnNull(t)
    /\ UNCHANGED <<shared, interrupted, fault>>

\* A variant of kernel_get_undo_output_by_index that wraps what the
\* accessor returned without looking at it.
GetUndoOutputUnchecked ==
    /\ Running /\ handle["TransactionOutput"] = "none" /\ Valid("BlockUndo")
    /\ \E state \in {"valid", "invalid"} : ReturnObject("TransactionOutput", state, {"BlockUndo"})
    /\ UNCHANGED <<shared, interrupted, fault>>

\* kernel_get_undo_output_by_index: an index out of range gives an invalid
\* TransactionOutput, for which nullptr is returned.
GetUndoOutput == Find("TransactionOutput", {"BlockUndo"})

\* TransactionOutput::GetScriptPubkey: a ScriptPubkey with a copy of the script.
GetScriptPubkey == ReturnObject("ScriptPubkey", "valid", {"TransactionOutput"})

\* kernel_get_transaction_output_amount and
\* kernel_copy_script_pubkey_from_output read the output's m_impl.
ReadOutput ==
    /\ Running /\ Cast("TransactionOutput") /\ handle["ScriptPubkey"] = "none"
    /\ Deref("TransactionOutput")
    /\ IF fault' THEN UNCHANGED owned ELSE GetScriptPubkey
    /\ UNCHANGED <<shared, interrupted>>

-----------------------------------------------------------------------------
(* The functions, by the object they return or release                     *)

Create ==
    \/ CreateTransaction
    \/ Make("ScriptPubkey", {})                                 \* kernel_script_pubkey_create
    \/ Make("TransactionOutput", {"ScriptPubkey"})              \* kernel_transaction_output_create
    \/ Make("ChainParameters", {})                              \* kernel_chain_parameters_create
    \/ Make("ContextOptions", {})                               \* kernel_context_options_create
    \/ CreateContext
    \/ CreateOrNull("ChainstateManagerOptions", {"Context"})
    \/ CreateOrNull("ChainstateManager", {"Context", "ChainstateManagerOptions"})
    \/ CreateBlock

\* The getters that serialise into a vector or an array of the caller's.
GetScriptPubkeyData == Make("ByteArray", {"ScriptPubkey"})
GetBlockData        == Make("ByteArray", {"Block"})
GetHash             == Make("BlockHash", {"Block"})
kernel_block_index_get_block_hash == Make("BlockHash", {"BlockIndex"})

kernel_copy_block_data == GetBlockData
kernel_block_get_hash  == GetHash

Copy ==
    \/ GetScriptPubkeyData                                      \* kernel_copy_script_pubkey_data
    \/ kernel_copy_block_data
    \/ kernel_block_get_hash
    \/ kernel_block_index_get_block_hash
    \/ ReadOutput

Get ==
    \/ CreateOrNull("BlockIndex", {"ChainstateManager"})        \* kernel_get_block_index_from_tip
    \/ Make("BlockIndex", {"ChainstateManager"})                \* kernel_get_block_index_from_genesis
    \/ Find("BlockIndex", {"ChainstateManager"})                \* from hash, height, next, previous
    \/ Find("Block", {"ChainstateManager", "BlockIndex"})       \* kernel_read_block_from_disk
    \/ Find("BlockUndo", {"ChainstateManager", "BlockIndex"})   \* kernel_read_block_undo_from_disk
    \/ GetUndoOutput

kernel_block_destroy      == Destroy("Block", {})
kernel_block_hash_destroy == Destroy("BlockHash", {})
kernel_context_destroy    == DestroyContext
kernel_chainstate_manager_options_destroy == Destroy("ChainstateManagerOptions", {})
kernel_chainstate_manager_destroy == Destroy("ChainstateManager", {"BlockIndex"})

DestroyAny ==
    \/ \E t \in {"Transaction", "ScriptPubkey", "TransactionOutput", "ChainParameters",
                 "ByteArray", "BlockIndex", "BlockUndo"} :
            Destroy(t, {})
    \/ kernel_block_destroy
    \/ kernel_block_hash_destroy
    \/ kernel_chainstate_manager_options_destroy
    \/ kernel_chainstate_manager_destroy
    \/ DestroyContextOptions
    \/ kernel_context_destroy

-----------------------------------------------------------------------------
(* Specification                                                           *)

Init ==
    /\ handle = [t \in Types |-> "none"]
    /\ heap = [t \in Types |-> 0]
    /\ keeps = [t \in Types |-> {}]
    /\ optShared = [w \in Shared |-> 0] /\ ctxShared = [w \in Shared |-> 0]
    /\ live = [w \in Shared |-> {}]
    /\ interrupted = FALSE
    /\ fault = FALSE

\* A null dereference ends the process; the client starts again, with
\* nothing allocated.
Restart ==
    /\ fault
    /\ handle' = [t \in Types |-> "none"]
    /\ heap' = [t \in Types |-> 0]
    /\ keeps' = [t \in Types |-> {}]
    /\ optShared' = [w \in Shared |-> 0] /\ ctxShared' = [w \in Shared |-> 0]
    /\ live' = [w \in Shared |-> {}]
    /\ interrupted' = FALSE
    /\ fault' = FALSE

Next ==
    \/ Create \/ Copy \/ Get \/ DestroyAny
    \/ \E w \in Shared : SetCallbacks(w)
    \/ InterruptContext
    \/ Restart

Spec == Init /\ [][Next]_vars

-----------------------------------------------------------------------------
(* Properties                                                              *)

TypeOK ==
    /\ handle \in [Types -> {"none", "valid", "invalid"}]
    /\ heap \in [Types -> Nat]
    /\ keeps \in [Types -> SUBSET Types]
    /\ optShared \in [Shared -> 0 .. MaxShared] /\ ctxShared \in [Shared -> 0 .. MaxShared]
    /\ live \in [Shared -> SUBSET (1 .. MaxShared)]
    /\ interrupted \in BOOLEAN /\ fault \in BOOLEAN

\* The create functions that return nullptr for a wrapper they leave
\* allocated.
ReturnsNullOnly == {"ChainstateManagerOptions", "ChainstateManager", "BlockIndex"}

\* The only objects the API leaks are the wrappers of a failed
\* kernel_chainstate_manager_options_create, kernel_chainstate_manager_create
\* and kernel_get_block_index_from_tip: every other object allocated by a
\* function of the API is one the client holds a pointer to and can destroy,
\* whichever constructions failed before, and every callback object
\* allocated is held by the options or by the context.
OnlyNullReturnsLeak ==
    /\ \A t \in Types \ ReturnsNullOnly : Leaked(t) = 0
    /\ \A t \in ReturnsNullOnly : Leaked(t) >= 0
    /\ \A w \in Shared : live[w] \subseteq {optShared[w], ctxShared[w]}

\* What the header promises: nothing is leaked.  A create function that
\* answers nullptr for a failed construction has deleted what it allocated.
NoLeak ==
    /\ \A t \in Types : Leaked(t) = 0
    /\ \A w \in Shared : live[w] \subseteq {optShared[w], ctxShared[w]}

\* The only null m_impl a function of this module dereferences is that of a
\* context whose sanity check failed, which kernel_context_create returns
\* like any other: no function hands out another wrapper without m_impl
\* that a later call reads, whichever constructions failed.  (An invalid
\* Transaction is handed out too; its one reader is kernel_verify_script,
\* module ScriptVerify.)
OnlyContextFaults == fault => handle["Context"] = "invalid"

\* What a client expects: no function dereferences a null m_impl, and
\* whatever pointer the API has returned can be passed to every function
\* that takes it, its destroy function included.
NoNullDereference == ~fault

\* No object the client holds refers to an object that was destroyed: a
\* client that keeps a context until its options and manager are gone, and
\* a manager until its block indexes are gone, may destroy everything else
\* in any order.  The blocks, undo data, outputs and scripts the API hands
\* out are copies (or share ownership) of what they were read from, so a
\* TransactionOutput outlives its BlockUndo and its ScriptPubkey, and a
\* Block the manager and the BlockIndex it was read with.
NoDanglingReference ==
    \A t \in Types : \A r \in keeps[t] : handle[r] # "none"

\* A context's callback objects are alive as long as the context is,
\* whatever happens to the options they were set on: the options may be
\* changed or destroyed after kernel_context_create, as std::shared_ptr
\* promises; and the options' objects are not freed by the context that
\* shared them.
CallbacksOutliveOptions ==
    \A w \in Shared :
        /\ Valid("Context") /\ ctxShared[w] # 0 => ctxShared[w] \in live[w]
        /\ optShared[w] # 0 => optShared[w] \in live[w]
=============================================================================
