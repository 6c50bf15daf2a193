------------------------------ MODULE Chainstate ------------------------------
(***************************************************************************)
(* A loaded ChainstateManager: ProcessBlock, the queries on the active     *)
(* chain and the block index, the reads of blocks and undo data, the two   *)
(* reports the engine makes (BlockChecked and blockTip) and Interrupt.     *)
(* Which client callback a report reaches is the subject of module         *)
(* KernelSession.                                                          *)
(*                                                                         *)
(* The wrapper methods are in kernel/bitcoinkernel.cpp.  What they call    *)
(* into (ProcessNewBlock, CChain, the block index, the coins view and the  *)
(* block store) is not part of the repository's sources; those definitions *)
(* follow the specification of the validation engine and are marked        *)
(* "engine" below.                                                         *)
(*                                                                         *)
(* Abstractions.  A block is a model value and is its own hash (hashes do  *)
(* not collide).  Its header is reduced to its parent, its work and        *)
(* whether it passes the context-free header checks.  Its transactions are *)
(* reduced to the outpoints each one spends (a sequence per transaction,   *)
(* the shape undo data has) and the set of outpoints the block creates.    *)
(* Scripts are not evaluated here.                                         *)
(*                                                                         *)
(* Granularity.  ProcessBlock is a call followed by the steps of           *)
(* ActivateBestChain; each step connects or disconnects one block while    *)
(* holding the validation lock, and the lock is free between steps, so     *)
(* queries of other threads and Interrupt interleave with a                *)
(* reorganisation.  A query is one atomic step: it takes the lock, reads   *)
(* and returns.                                                            *)
(***************************************************************************)
EXTENDS Integers, FiniteSets, SequencesExt, ValidationState

CONSTANTS
    Blocks,       \* the blocks a client may submit
    Genesis,      \* the block of the chain parameters, loaded at construction
    Prev,         \* Prev[b]: the block b's header names as its predecessor
    Work,         \* Work[b]: the work b's header proves
    BadHeader,    \* blocks whose header fails proof of work or time checks
    Inputs,       \* Inputs[b]: per transaction, the outpoints it spends, in order
    Creates,      \* Creates[b]: the outpoints the block's transactions create
    Readers,      \* threads that query the chainstate manager
    MaxUndoIndex, \* largest index a reader passes to the undo accessors
    DiskMayFail,  \* whether writing a block to the store can fail
    NULL          \* nullptr, std::nullopt, an invalid handle

Outpoints ==
    UNION { Creates[b] : b \in Blocks }
        \cup UNION { Range(tx) : tx \in UNION { Range(Inputs[b]) : b \in Blocks } }

ASSUME ConstantsOK ==
    /\ Genesis \in Blocks /\ NULL \notin Blocks \cup Outpoints
    /\ Prev \in [Blocks -> Blocks \cup {NULL}]
    /\ \A b \in Blocks : (Prev[b] = NULL) <=> (b = Genesis)
    /\ Work \in [Blocks -> Nat \ {0}]
    /\ BadHeader \subseteq Blocks \ {Genesis}
    /\ Inputs \in [Blocks -> Seq(Seq(Outpoints))] /\ Inputs[Genesis] = <<>>
    /\ Creates \in [Blocks -> SUBSET Outpoints]
    /\ MaxUndoIndex \in Nat /\ DiskMayFail \in BOOLEAN

VARIABLES
    index,      \* the block index: entry of every block accepted so far
    failed,     \* entries flagged as failed validation, or built on one
    rejected,   \* blocks refused at the header check and remembered as such
    chain,      \* the active chain, chain[h + 1] the entry at height h
    coins,      \* the coins view: the unspent outpoints
    undoStore,  \* the undo data written for each block ever connected
    proc,       \* the ProcessBlock call in progress, or NULL
    ret,        \* what the last finished ProcessBlock call returned
    interrupt,  \* the context's interrupt signal
    fatal,      \* a fatal error was notified: the manager is unusable
    checked,    \* per block, the verdict last reported to BlockChecked
    tipSeen,    \* the entry last passed to blockTip
    reader      \* per reader thread: its last query and what that returned

engine  == <<index, failed, rejected, chain, coins, undoStore>>
client  == <<checked, tipSeen>>
vars    == <<index, failed, rejected, chain, coins, undoStore, proc, ret,
             interrupt, fatal, checked, tipSeen, reader>>

-----------------------------------------------------------------------------
(* Engine: blocks, the index and the active chain                          *)

\* The outpoints a block spends, in the order its transactions list them.
AllInputs(b) == FlattenSeq(Inputs[b])
SpentBy(b)   == Range(AllInputs(b))

\* The path from the genesis block to b along the header links.
RECURSIVE Branch(_)
Branch(b) == IF Prev[b] = NULL THEN <<b>> ELSE Append(Branch(Prev[b]), b)

\* The entry the index creates for a block whose predecessor entry is known.
NewIndexEntry(b) ==
    [nHeight     |-> IF b = Genesis THEN 0 ELSE index[Prev[b]].nHeight + 1,
     nChainWork  |-> IF b = Genesis THEN Work[b] ELSE index[Prev[b]].nChainWork + Work[b],
     nSequenceId |-> Cardinality(DOMAIN index) + 1]

\* CChain: Tip, Height, operator[], Contains, Next.
ChainTip == IF chain = <<>> THEN NULL ELSE Last(chain)
ChainHeight == Len(chain) - 1
ChainAt(h) == IF h < 0 \/ h > ChainHeight THEN NULL ELSE chain[h + 1]
ChainContains(e) == ChainAt(index[e].nHeight) = e
ChainNext(e) == IF ChainContains(e) THEN ChainAt(index[e].nHeight + 1) ELSE NULL

\* The entry activation aims for: most cumulative work among the entries not
\* flagged failed, the earlier arrival on a tie.
MoreWork(a, b) ==
    \/ index[a].nChainWork > index[b].nChainWork
    \/ /\ index[a].nChainWork = index[b].nChainWork
       /\ index[a].nSequenceId <= index[b].nSequenceId

FindMostWorkChain ==
    LET candidates == DOMAIN index \ failed
    IN  CHOOSE a \in candidates : \A b \in candidates : MoreWork(a, b)

\* The coins view that connecting the blocks of a chain in order produces.
ApplyBlock(view, b) == (view \ SpentBy(b)) \cup Creates[b]
ReplayCoins(c) == FoldLeft(ApplyBlock, {}, c)

-----------------------------------------------------------------------------
(* Callbacks                                                               *)

\* ValidationInterfaceImpl::BlockChecked forwards block and state to
\* BlockCheckedHandler; kept is what the handler of the tool makes of it.
BlockChecked(b, state) == [checked EXCEPT ![b] = BlockCheckedHandler(state)]

\* KernelNotificationsImpl::blockTip wraps the entry in a BlockIndex and
\* hands it to BlockTipHandler.
blockTip(e) == e

\* main of the tool, once ProcessBlock has returned: what it prints of the
\* return value r.
Printed(r) ==
    {IF r.accepted THEN "Block has not yet been rejected" ELSE "Block was not accepted"}
        \cup (IF r.new_block THEN {} ELSE {"Block is a duplicate"})

-----------------------------------------------------------------------------
(* ProcessBlock: the call                                                  *)

\* What the caller gets back for its block: the return value and the
\* out-parameter.
Return(b, accepted, new_block) ==
    ret' = [block |-> b, accepted |-> accepted, new_block |-> new_block]

\* A refusal: the verdict goes to BlockChecked, nothing else changes.
Refuse(b, state) ==
    /\ checked' = BlockChecked(b, state)
    /\ Return(b, FALSE, FALSE)
    /\ UNCHANGED <<index, failed, chain, coins, undoStore, proc, interrupt, tipSeen, reader>>

\* After a fatal error every call fails the same way.
RefuseUnusable(b) ==
    /\ fatal
    /\ Return(b, FALSE, FALSE)
    /\ UNCHANGED <<engine, client, proc, interrupt, fatal, reader>>

\* The block, or one it builds on, was found invalid before.
RefuseCachedInvalid(b) ==
    /\ ~fatal /\ b \in failed \cup rejected
    /\ Refuse(b, Invalid(NewValidationState, "BLOCK_CACHED_INVALID", "duplicate-invalid"))
    /\ UNCHANGED <<rejected, fatal>>

\* The header fails its checks: refused and remembered.
RefuseBadHeader(b) ==
    /\ ~fatal /\ b \notin DOMAIN index \cup rejected /\ b \in BadHeader
    /\ Refuse(b, Invalid(NewValidationState, "BLOCK_INVALID_HEADER", "high-hash"))
    /\ rejected' = rejected \cup {b}
    /\ UNCHANGED fatal

\* The predecessor is not in the index: refused, and free to come again.
RefuseMissingPrev(b) ==
    /\ ~fatal /\ b \notin DOMAIN index \cup rejected \cup BadHeader
    /\ Prev[b] \notin DOMAIN index
    /\ Refuse(b, Invalid(NewValidationState, "BLOCK_MISSING_PREV", "prev-blk-not-found"))
    /\ UNCHANGED <<rejected, fatal>>

\* The predecessor is flagged failed.
RefuseInvalidPrev(b) ==
    /\ ~fatal /\ b \notin DOMAIN index \cup rejected \cup BadHeader
    /\ Prev[b] \in failed
    /\ Refuse(b, Invalid(NewValidationState, "BLOCK_INVALID_PREV", "bad-prevblk"))
    /\ UNCHANGED <<rejected, fatal>>

\* The block passes the checks that need no coins.
Acceptable(b) ==
    /\ ~fatal /\ b \notin DOMAIN index \cup rejected \cup BadHeader
    /\ Prev[b] \in DOMAIN index \ failed

\* Writing the block to the store fails: a run-time error, reported as a
\* fatal error; the index is left as it was.
RefuseWriteFailed(b) ==
    /\ DiskMayFail /\ Acceptable(b)
    /\ Refuse(b, Error(NewValidationState, "write-failed"))
    /\ fatal' = TRUE
    /\ UNCHANGED rejected

\* The block is stored and indexed; activation follows.
AcceptBlock(b) ==
    /\ Acceptable(b)
    /\ index' = index @@ (b :> NewIndexEntry(b))
    /\ proc' = [block |-> b, new_block |-> TRUE]
    /\ UNCHANGED <<failed, rejected, chain, coins, undoStore, ret, interrupt,
                   fatal, client, reader>>

\* A variant of the duplicate that is reported as new.
AcceptDuplicateAsNew(b) ==
    /\ ~fatal /\ b \in DOMAIN index \ failed
    /\ proc' = [block |-> b, new_block |-> TRUE]
    /\ UNCHANGED <<engine, ret, interrupt, fatal, client, reader>>

\* The block is already indexed and not failed: nothing is stored, activation
\* runs as for any call.
AcceptDuplicate(b) ==
    /\ ~fatal /\ b \in DOMAIN index \ failed
    /\ proc' = [block |-> b, new_block |-> FALSE]
    /\ UNCHANGED <<engine, ret, interrupt, fatal, client, reader>>

\* engine: ProcessNewBlock up to the point where the block is in the index.
ProcessNewBlock(b) ==
    \/ RefuseUnusable(b)
    \/ RefuseCachedInvalid(b)
    \/ RefuseBadHeader(b)
    \/ RefuseMissingPrev(b)
    \/ RefuseInvalidPrev(b)
    \/ RefuseWriteFailed(b)
    \/ AcceptBlock(b)
    \/ AcceptDuplicate(b)

\* ChainstateManager::ProcessBlock: one call at a time holds the manager.
ProcessBlock(b) == proc = NULL /\ ProcessNewBlock(b)

-----------------------------------------------------------------------------
(* ProcessBlock: the steps of ActivateBestChain                            *)

\* The next block to connect when the tip is on the way to the best entry.
TipOnBestBranch == IsPrefix(chain, Branch(FindMostWorkChain))
NextToConnect   == Branch(FindMostWorkChain)[Len(chain) + 1]

\* A block connects when every outpoint it spends is unspent in the view,
\* and none is spent twice.
InputsAvailable(b) == IsInjective(AllInputs(b)) /\ SpentBy(b) \subseteq coins

Activating == proc # NULL /\ ~interrupt /\ ChainTip # FindMostWorkChain

\* A variant of ConnectTip that updates the coins view and the chain but
\* writes no undo data.
ConnectTipNoUndo ==
    /\ Activating /\ TipOnBestBranch /\ InputsAvailable(NextToConnect)
    /\ coins' = ApplyBlock(coins, NextToConnect)
    /\ chain' = Append(chain, NextToConnect)
    /\ checked' = BlockChecked(NextToConnect, NewValidationState)
    /\ tipSeen' = blockTip(NextToConnect)
    /\ UNCHANGED <<index, failed, rejected, undoStore, proc, ret, interrupt, fatal, reader>>

\* A variant of ConnectTip that connects the next block of the best branch
\* without looking its inputs up in the view.
ConnectTipUnchecked ==
    /\ Activating /\ TipOnBestBranch
    /\ undoStore' = (NextToConnect :> Inputs[NextToConnect]) @@ undoStore
    /\ coins' = ApplyBlock(coins, NextToConnect)
    /\ chain' = Append(chain, NextToConnect)
    /\ checked' = BlockChecked(NextToConnect, NewValidationState)
    /\ tipSeen' = blockTip(NextToConnect)
    /\ UNCHANGED <<index, failed, rejected, proc, ret, interrupt, fatal, reader>>

\* The block is valid against the view: its undo data is written, the view
\* and the chain move forward, the client hears of both.
ConnectTip ==
    /\ Activating /\ TipOnBestBranch /\ InputsAvailable(NextToConnect)
    /\ undoStore' = (NextToConnect :> Inputs[NextToConnect]) @@ undoStore
    /\ coins' = ApplyBlock(coins, NextToConnect)
    /\ chain' = Append(chain, NextToConnect)
    /\ checked' = BlockChecked(NextToConnect, NewValidationState)
    /\ tipSeen' = blockTip(NextToConnect)
    /\ UNCHANGED <<index, failed, rejected, proc, ret, interrupt, fatal, reader>>

\* A variant of InvalidBlockFound that reports the block and flags nothing.
InvalidBlockFoundNoFlag ==
    /\ Activating /\ TipOnBestBranch /\ ~InputsAvailable(NextToConnect)
    /\ checked' = BlockChecked(NextToConnect, Invalid(NewValidationState,
                      "BLOCK_CONSENSUS", "bad-txns-inputs-missingorspent"))
    /\ UNCHANGED <<index, failed, rejected, chain, coins, undoStore, proc, ret,
                   interrupt, fatal, tipSeen, reader>>

\* The block is invalid against the view: it and the entries built on it
\* are flagged, the view and the chain stay where they are.
InvalidBlockFound ==
    /\ Activating /\ TipOnBestBranch /\ ~InputsAvailable(NextToConnect)
    /\ failed' = failed \cup { d \in DOMAIN index : NextToConnect \in Range(Branch(d)) }
    /\ checked' = BlockChecked(NextToConnect, Invalid(NewValidationState,
                      "BLOCK_CONSENSUS", "bad-txns-inputs-missingorspent"))
    /\ UNCHANGED <<index, rejected, chain, coins, undoStore, proc, ret,
                   interrupt, fatal, tipSeen, reader>>

\* A variant of DisconnectTip that takes back what the block created and
\* does not restore what it spent.
DisconnectTipNoRestore ==
    /\ Activating /\ ~TipOnBestBranch
    /\ ChainTip \in DOMAIN undoStore
    /\ coins' = coins \ Creates[ChainTip]
    /\ chain' = Front(chain)
    /\ UNCHANGED <<index, failed, rejected, undoStore, proc, ret, interrupt,
                   fatal, client, reader>>

\* The tip is not on the best branch: it is taken off, its undo data
\* restores what it spent.
DisconnectTip ==
    /\ Activating /\ ~TipOnBestBranch
    /\ ChainTip \in DOMAIN undoStore
    /\ coins' = (coins \ Creates[ChainTip]) \cup Range(FlattenSeq(undoStore[ChainTip]))
    /\ chain' = Front(chain)
    /\ UNCHANGED <<index, failed, rejected, undoStore, proc, ret, interrupt,
                   fatal, client, reader>>

\* A variant of the end of activation that returns as soon as the tip has
\* at least the work it had, wherever the best entry is.
ActivationDoneEarly ==
    /\ proc # NULL
    /\ interrupt \/ TipOnBestBranch
    /\ Return(proc.block, TRUE, proc.new_block)
    /\ proc' = NULL
    /\ UNCHANGED <<engine, interrupt, fatal, client, reader>>

\* Activation ends when the tip is the best entry, or at the first
\* checkpoint after an interrupt; the call returns.
ActivationDone ==
    /\ proc # NULL
    /\ interrupt \/ ChainTip = FindMostWorkChain
    /\ Return(proc.block, TRUE, proc.new_block)
    /\ proc' = NULL
    /\ UNCHANGED <<engine, interrupt, fatal, client, reader>>

\* engine: one step of ActivateBestChain.
ActivateBestChain ==
    ConnectTip \/ InvalidBlockFound \/ DisconnectTip \/ ActivationDone

\* Context::Interrupt raises the signal the engine polls.
Interrupt ==
    /\ ~interrupt
    /\ interrupt' = TRUE
    /\ UNCHANGED <<engine, proc, ret, fatal, client, reader>>

-----------------------------------------------------------------------------
(* Queries: ChainstateManager, BlockIndex and BlockUndo                    *)

\* A null tip gives an invalid handle.
GetBlockIndexFromTip == IF ChainTip = NULL THEN NULL ELSE ChainTip

\* The genesis entry is dereferenced as it is.
GetBlockIndexFromGenesis == chain[1]

\* A variant of GetBlockIndexByHash that wraps whatever the lookup returns.
GetBlockIndexByHashUnchecked(hash) == hash

\* LookupBlockIndex finds every indexed entry, failed ones included.
GetBlockIndexByHash(hash) == IF hash \in DOMAIN index THEN hash ELSE NULL

\* A variant of GetBlockIndexByHeight whose range check excludes the tip.
GetBlockIndexByHeightBelowTip(height) ==
    IF height < 0 \/ height >= ChainHeight THEN NULL ELSE ChainAt(height)

GetBlockIndexByHeight(height) ==
    IF height < 0 \/ height > ChainHeight THEN NULL ELSE ChainAt(height)

\* A variant of GetNextBlockIndex that looks one height up without asking
\* whether the entry is on the active chain.
GetNextBlockIndexByHeight(e) == ChainAt(index[e].nHeight + 1)

GetNextBlockIndex(e) == ChainNext(e)

GetHeight(e) == index[e].nHeight
GetHash(e)   == e
GetPreviousBlockIndex(e) == Prev[e]

\* What a read may return.  The block of every indexed entry is in the
\* store, and reading it from disk may fail: std::nullopt.
ReadBlock(e) == {e, NULL}

\* Undo data exists for the blocks that were connected at least once; the
\* read of what exists may fail as well.
ReadBlockUndo(e) == {NULL} \cup (IF e \in DOMAIN undoStore THEN {undoStore[e]} ELSE {})

\* m_size, GetTxOutSize and GetTxUndoPrevoutByIndex of a BlockUndo.
UndoSize(undo) == Len(undo)

\* A variant of GetTxOutSize that answers with the number of transactions.
GetTxOutSizeOfBlock(undo, i) == IF Len(undo) <= i THEN 0 ELSE Len(undo)

GetTxOutSize(undo, i) == IF Len(undo) <= i THEN 0 ELSE Len(undo[i + 1])
GetTxUndoPrevoutByIndex(undo, i, j) ==
    IF i >= Len(undo) THEN NULL
    ELSE IF j >= Len(undo[i + 1]) THEN NULL
    ELSE undo[i + 1][j + 1]

\* A reader thread makes one query and keeps what it returned.  Handles are
\* obtained from the manager or from a handle held; data is read through a
\* handle held.
Answer(t, op, handle, data) ==
    /\ reader' = [reader EXCEPT ![t] = [op |-> op, handle |-> handle, data |-> data]]
    /\ UNCHANGED <<engine, proc, ret, interrupt, fatal, client>>

Holds(t) == reader[t].handle # NULL

QueryTip(t)       == Answer(t, "tip", GetBlockIndexFromTip, NULL)
QueryGenesis(t)   == Answer(t, "genesis", GetBlockIndexFromGenesis, NULL)
QueryByHash(t, b) == Answer(t, "hash", GetBlockIndexByHash(b), NULL)
QueryByHeight(t, h) == Answer(t, "height", GetBlockIndexByHeight(h), NULL)
QueryNext(t) == Holds(t) /\ Answer(t, "next", GetNextBlockIndex(reader[t].handle), NULL)
QueryPrevious(t) ==
    Holds(t) /\ Answer(t, "previous", GetPreviousBlockIndex(reader[t].handle), NULL)
QueryBlock(t) ==
    /\ Holds(t)
    /\ \E block \in ReadBlock(reader[t].handle) :
            Answer(t, "block", reader[t].handle, block)
QueryUndo(t) ==
    /\ Holds(t)
    /\ \E undo \in ReadBlockUndo(reader[t].handle) :
            Answer(t, "undo", reader[t].handle, undo)
QueryPrevout(t, i, j) ==
    /\ reader[t].op = "undo" /\ reader[t].data # NULL
    /\ Answer(t, "prevout", reader[t].handle,
              GetTxUndoPrevoutByIndex(reader[t].data, i, j))

Query(t) ==
    \/ QueryTip(t) \/ QueryGenesis(t) \/ QueryNext(t) \/ QueryPrevious(t)
    \/ QueryBlock(t) \/ QueryUndo(t)
    \/ \E b \in Blocks : QueryByHash(t, b)
    \/ \E h \in -1 .. Cardinality(Blocks) : QueryByHeight(t, h)
    \/ \E i, j \in 0 .. MaxUndoIndex : QueryPrevout(t, i, j)

-----------------------------------------------------------------------------
(* Specification                                                           *)

\* A manager whose construction succeeded: the genesis block is indexed and
\* connected, nothing else is known.
Init ==
    /\ index = (Genesis :> [nHeight |-> 0, nChainWork |-> Work[Genesis], nSequenceId |-> 1])
    /\ failed = {} /\ rejected = {}
    /\ chain = <<Genesis>>
    /\ coins = Creates[Genesis]
    /\ undoStore = <<>>
    /\ proc = NULL /\ ret = NULL
    /\ interrupt = FALSE /\ fatal = FALSE
    /\ checked = [b \in Blocks |-> NULL]
    /\ tipSeen = NULL
    /\ reader = [t \in Readers |-> [op |-> "none", handle |-> NULL, data |-> NULL]]

Next ==
    \/ \E b \in Blocks : ProcessBlock(b)
    \/ ActivateBestChain
    \/ Interrupt
    \/ \E t \in Readers : Query(t)

\* The thread inside ProcessBlock keeps running until the call returns.
Fairness == WF_vars(ActivateBestChain)

Spec == Init /\ [][Next]_vars /\ Fairness

-----------------------------------------------------------------------------
(* Properties                                                              *)

IndexEntry == [nHeight : Nat, nChainWork : Nat, nSequenceId : Nat]
UndoData   == UNION { {Inputs[b]} : b \in Blocks }

TypeOK ==
    /\ DOMAIN index \subseteq Blocks /\ index \in [DOMAIN index -> IndexEntry]
    /\ failed \subseteq DOMAIN index /\ rejected \subseteq Blocks
    /\ chain \in Seq(Blocks) /\ coins \subseteq Outpoints
    /\ DOMAIN undoStore \subseteq DOMAIN index
    /\ \A b \in DOMAIN undoStore : undoStore[b] \in UndoData
    /\ proc \in [block : Blocks, new_block : BOOLEAN] \cup {NULL}
    /\ ret \in [block : Blocks, accepted : BOOLEAN, new_block : BOOLEAN] \cup {NULL}
    /\ interrupt \in BOOLEAN /\ fatal \in BOOLEAN
    /\ checked \in [Blocks -> Report \cup {NULL}]
    /\ tipSeen \in Blocks \cup {NULL}
    /\ reader \in [Readers -> [op : STRING, handle : DOMAIN index \cup {NULL},
                               data : Blocks \cup UndoData \cup Outpoints \cup {NULL}]]

\* The coins view is exactly what connecting the blocks of the active chain
\* from the genesis block produces: at every step of a reorganisation,
\* after a connection that failed half way through a new branch, and after
\* an interrupt, ConnectTip and DisconnectTip leave no coin behind and
\* restore every coin they took.
CoinsMatchActiveChain == coins = ReplayCoins(chain)

\* The active chain is a branch of the index: it starts at the genesis
\* block, every entry is the successor of the one below it and stands at
\* the height GetHeight reports for it, so that GetBlockIndexByHeight and
\* GetHeight are inverse on the active chain; and no entry of the index,
\* on the chain or beside it, lacks its predecessor entry.
ChainIsBranchOfIndex ==
    /\ chain # <<>> /\ chain = Branch(ChainTip)
    /\ \A e \in Range(chain) : GetBlockIndexByHeight(GetHeight(e)) = e
    /\ \A e \in DOMAIN index \ {Genesis} :
          /\ GetPreviousBlockIndex(e) \in DOMAIN index
          /\ GetHeight(e) = GetHeight(GetPreviousBlockIndex(e)) + 1

\* When ProcessBlock has returned and no interrupt was raised, the tip has
\* the most cumulative work of all entries that are not flagged failed, and
\* no failed entry is on the active chain: a reorganisation towards a branch
\* that turns out invalid ends on the best branch that is left, not where
\* the failure happened.
TipIsBestWhenIdle ==
    (proc = NULL /\ ~interrupt) =>
        /\ \A e \in DOMAIN index \ failed :
              index[ChainTip].nChainWork >= index[e].nChainWork
        /\ Range(chain) \cap failed = {}

\* Every block on the active chain above the genesis block has undo data in
\* the store, so DisconnectTip can always take the tip off and ReadBlockUndo
\* has something to return for every entry reached through the active chain.
ActiveChainHasUndo ==
    \A h \in 1 .. ChainHeight : ReadBlockUndo(GetBlockIndexByHeight(h)) # {NULL}

\* What the engine reports agrees with the manager: a block on the active
\* chain was last reported valid by BlockChecked, a block never reported
\* valid is not on it, a failed entry was not last reported valid, and once
\* ProcessBlock has returned without interrupt the entry last passed to
\* BlockTipHandler is the tip.
ClientViewAgrees ==
    /\ \A b \in Range(chain) \ {Genesis} : checked[b] = "Valid block"
    /\ \A b \in failed : checked[b] # "Valid block"
    /\ (proc = NULL /\ ~interrupt /\ ChainHeight > 0) => tipSeen = GetBlockIndexFromTip

\* What ProcessBlock returns is what became of the block: until the next
\* call a block reported as new is the entry the index created last, so that
\* submitting a block again, at once or after others, is never reported as
\* new; a call that
\* returned true left its block in the index, where the queries find it, also
\* when activation found it invalid; and a block refused by a manager that is
\* still usable is not an entry activation could choose.
ReturnTellsTheIndex ==
    ret # NULL =>
        /\ ret.new_block /\ proc = NULL =>
            /\ ret.accepted
            /\ \A e \in DOMAIN index : index[e].nSequenceId <= index[ret.block].nSequenceId
        /\ ret.accepted => GetBlockIndexByHash(ret.block) # NULL
        /\ ~ret.accepted /\ ~fatal => ret.block \notin DOMAIN index \ failed

\* A block the tool calls a duplicate is one the manager has seen before: it
\* is in the index, or remembered as refused.  The tool's main prints "Block
\* is a duplicate" whenever the out-parameter new_block is false.
DuplicateWasSeenBefore ==
    (ret # NULL /\ "Block is a duplicate" \in Printed(ret)) =>
        ret.block \in DOMAIN index \cup rejected

\* The two accessors of a BlockUndo agree on its shape: for the undo data of
\* every block, connected now or before a reorganisation, and for every pair
\* of indices a caller may pass, in range or beyond it,
\* GetTxUndoPrevoutByIndex returns an output exactly when the second index is
\* below what GetTxOutSize reports for the first, and there are outputs for
\* exactly m_size transactions.
UndoAccessorsAgree ==
    \A e \in DOMAIN index : \A undo \in ReadBlockUndo(e) \ {NULL} :
        \A i, j \in 0 .. MaxUndoIndex :
            /\ (GetTxUndoPrevoutByIndex(undo, i, j) # NULL) <=> (j < GetTxOutSize(undo, i))
            /\ (GetTxOutSize(undo, i) > 0) => i < UndoSize(undo)

\* GetNextBlockIndex returns the successor of the entry it is given or
\* nothing, also when the handle was obtained before a reorganisation took
\* the entry off the active chain.
NextIsSuccessor ==
    [][ \A t \in Readers :
          (reader'[t] # reader[t] /\ reader'[t].op = "next" /\ reader'[t].handle # NULL)
              => GetPreviousBlockIndex(reader'[t].handle) = reader[t].handle ]_vars

\* The manager implements ChainSpec: every step of ProcessBlock and of
\* ActivateBestChain either leaves index, active chain and coins view alone,
\* adds one block with a known predecessor to the index, connects one block
\* whose inputs are all unspent at that moment, or disconnects the tip and
\* restores from its undo data exactly what it had spent.  A block checked
\* against a view that another step has moved since, or undo data that no
\* longer matches the block, would be a step ChainSpec does not have.
Abstract == INSTANCE ChainSpec WITH tree <- DOMAIN index, active <- chain, utxo <- coins
ImplementsChainSpec == Abstract!AbsSpec

\* Every ProcessBlock call returns: activation ends, whatever blocks are in
\* the index and however many branches fail while it runs.
ProcessBlockReturns == (proc # NULL) ~> (proc = NULL)
=============================================================================
