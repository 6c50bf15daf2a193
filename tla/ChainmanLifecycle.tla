-------------------------- MODULE ChainmanLifecycle --------------------------
(***************************************************************************)
(* The life of a ChainstateManager over one data directory: the options    *)
(* object and its setters, the steps of the constructor, ProcessBlock and  *)
(* ImportBlocks as far as they move the tip, the flush in the destructor,  *)
(* and the loss of everything in memory when the process dies.             *)
(*                                                                         *)
(* The wrapper is kernel/bitcoinkernel.cpp.  What the engine does with the *)
(* options (open or wipe a database, load the index, find the coins' best  *)
(* block in it, replay blocks, write the index before the coins) follows   *)
(* the specification of the validation engine; those definitions are       *)
(* marked "engine".  The client is a client of the C API: the actions of   *)
(* the next-state relation are the functions of kernel/types.h, each of    *)
(* which calls the method of the same name.                                *)
(*                                                                         *)
(* Abstractions.  The block tree database and the chainstate database are  *)
(* each reduced to the height of the best block they record on the one     *)
(* chain the model has; 0 is the genesis block, which an empty database    *)
(* gets at load.  Block files are append-only and never wiped, so a block  *)
(* the index knows can be read and connected again.  Paths and cache sizes *)
(* do not influence what is modelled.                                      *)
(*                                                                         *)
(* Nothing is assumed of the client: a setter may run on another thread    *)
(* while a manager is constructed from the same options, the two in-memory *)
(* flags need not agree, and a method may be called on a manager whose     *)
(* construction failed.                                                    *)
(***************************************************************************)
EXTENDS Integers

CONSTANTS
    MaxHeight,          \* bound on the height the chain reaches
    WorkerThreads,      \* the numbers a client passes to SetWorkerThreads
    StepsMayFail,       \* opening, verifying and activating can fail
    NULL                \* nullptr: an invalid object

ASSUME ConstantsOK ==
    /\ MaxHeight \in Nat \ {0}
    /\ WorkerThreads \subseteq Int
    /\ StepsMayFail \in BOOLEAN

VARIABLES
    options,    \* ChainstateManagerOptionsImpl, or NULL for an invalid object
    pc,         \* where the manager is: absent, a constructor step, valid, invalid
    workers,    \* the worker_threads_num the engine's manager was built with
    blockman,   \* the m_blockman_options the engine's manager was built with
    load_opts,  \* the chainstate_load_opts the constructor copied
    blockIndex, \* height of the best block of the index in memory
    coinsTip,   \* height of the best block of the coins views, NULL without views
    disk,       \* what the data directory holds
    orphaned    \* history: the chainstate on disk was written for a block tree
                \* that is not on disk, and has not been wiped since

vars == <<options, pc, workers, blockman, load_opts, blockIndex, coinsTip, disk, orphaned>>
memory == <<workers, blockman, load_opts, blockIndex, coinsTip>>
durable == <<disk, orphaned>>

Heights == 0 .. MaxHeight

\* m_blockman_options.block_tree_db_params and m_chainstate_load_options, each
\* reduced to its two flags, and m_chainman_options to its number of threads.
BlockTreeDbParams == [wipe_data : BOOLEAN, memory_only : BOOLEAN]
ChainstateLoadOptions == [wipe_chainstate_db : BOOLEAN, coins_db_in_memory : BOOLEAN]
Options == [worker_threads_num : WorkerThreads \cup {0},
            block_tree_db_params : BlockTreeDbParams,
            chainstate_load_options : ChainstateLoadOptions]

\* The steps of the constructor, in the order the code takes them.
CtorSteps == {"impl", "load_opts", "loaded", "verified"}

-----------------------------------------------------------------------------
(* ChainstateManagerOptions                                                *)

\* ChainstateManagerOptionsImpl's constructor: nothing wiped, everything on disk.
DefaultOptions ==
    [worker_threads_num      |-> 0,
     block_tree_db_params    |-> [wipe_data |-> FALSE, memory_only |-> FALSE],
     chainstate_load_options |-> [wipe_chainstate_db |-> FALSE, coins_db_in_memory |-> FALSE]]

\* The options can be set whenever they exist, also by a second thread
\* while a constructor reads them.
MaySet == options # NULL /\ pc # "crashed"

\* ChainstateManagerOptions(context, data_dir, blocks_dir): creating the
\* directories can throw, which leaves an invalid object.
CreateOptions ==
    /\ pc \notin CtorSteps \cup {"crashed"}
    /\ options' \in {DefaultOptions} \cup (IF StepsMayFail THEN {NULL} ELSE {})
    /\ UNCHANGED <<pc, memory, durable>>

\* SetWipeDbs: wiping the block tree alone is refused before the lock is
\* taken; both fields are written in one critical section.
SetWipeDbs(wipe_block_tree, wipe_chainstate) ==
    /\ MaySet
    /\ ~(wipe_block_tree /\ ~wipe_chainstate)
    /\ options' = [options EXCEPT
            !.block_tree_db_params.wipe_data = wipe_block_tree,
            !.chainstate_load_options.wipe_chainstate_db = wipe_chainstate]
    /\ UNCHANGED <<pc, memory, durable>>

\* SetWorkerThreads: the number is stored as it is given.
SetWorkerThreads(worker_threads) ==
    /\ MaySet
    /\ options' = [options EXCEPT !.worker_threads_num = worker_threads]
    /\ UNCHANGED <<pc, memory, durable>>

SetBlockTreeDbInMemory(block_tree_db_in_memory) ==
    /\ MaySet
    /\ options' = [options EXCEPT !.block_tree_db_params.memory_only = block_tree_db_in_memory]
    /\ UNCHANGED <<pc, memory, durable>>

SetChainstateDbInMemory(chainstate_db_in_memory) ==
    /\ MaySet
    /\ options' = [options EXCEPT
            !.chainstate_load_options.coins_db_in_memory = chainstate_db_in_memory]
    /\ UNCHANGED <<pc, memory, durable>>

-----------------------------------------------------------------------------
(* Engine: what the databases do                                           *)

\* A database an open with these flags empties on disk.
WipesDisk(wipe, in_memory) == wipe /\ ~in_memory

\* Opening the block tree database: a wipe empties it unless it is in memory,
\* and an in-memory database starts empty.
OpenBlockTree(params, d) ==
    [d EXCEPT !.block_tree = IF WipesDisk(params.wipe_data, params.memory_only) THEN 0 ELSE @]
LoadBlockIndex(params, d) == IF params.memory_only THEN 0 ELSE d.block_tree

\* Opening the chainstate database, likewise.
OpenCoinsDb(opts, d) ==
    [d EXCEPT !.chainstate =
        IF WipesDisk(opts.wipe_chainstate_db, opts.coins_db_in_memory) THEN 0 ELSE @]
LoadCoinsTip(opts, d) == IF opts.coins_db_in_memory THEN 0 ELSE d.chainstate

\* The chain tip is the index entry of the coins' best block: loading fails
\* when the index does not have it.
LoadChainTip(tree, coins) == coins <= tree

\* A data directory from which a plain manager can be constructed.
Loadable(d) == LoadChainTip(d.block_tree, d.chainstate)

\* A chainstate has coins views from LoadChainstate until they are reset.
CanFlushToDisk == coinsTip # NULL

\* Coins written by this manager are coins of a block tree that is not on
\* disk.
WritesOrphans == blockman.memory_only /\ ~load_opts.coins_db_in_memory

\* A variant of WriteCoins that does not wait for the index.
WriteCoinsFirst ==
    /\ pc = "valid" /\ ~load_opts.coins_db_in_memory
    /\ disk' = [disk EXCEPT !.chainstate = coinsTip]
    /\ orphaned' = (orphaned \/ WritesOrphans)
    /\ UNCHANGED <<options, pc, memory>>

\* A flush writes the index, then the coins; either write can be the last
\* thing the process does.
WriteBlockIndex ==
    /\ pc = "valid" /\ ~blockman.memory_only
    /\ disk' = [disk EXCEPT !.block_tree = blockIndex]
    /\ UNCHANGED <<options, pc, memory, orphaned>>

WriteCoins ==
    /\ pc = "valid" /\ ~load_opts.coins_db_in_memory
    /\ blockman.memory_only \/ disk.block_tree >= coinsTip
    /\ disk' = [disk EXCEPT !.chainstate = coinsTip]
    /\ orphaned' = (orphaned \/ WritesOrphans)
    /\ UNCHANGED <<options, pc, memory>>

\* ForceFlushStateToDisk: both writes, of a manager that stands at height.
ForceFlushStateToDisk(height) ==
    /\ disk' = [block_tree |-> IF blockman.memory_only THEN disk.block_tree ELSE height,
                chainstate |-> IF load_opts.coins_db_in_memory THEN disk.chainstate ELSE height]
    /\ orphaned' = (orphaned \/ WritesOrphans)

\* The process is gone, and with it the options, the manager and all they
\* had in memory; the data directory stays as the last write left it.
Die ==
    /\ pc' = "crashed" /\ options' = NULL
    /\ workers' = NULL /\ blockman' = NULL /\ load_opts' = NULL
    /\ blockIndex' = 0 /\ coinsTip' = NULL
    /\ UNCHANGED durable

-----------------------------------------------------------------------------
(* ChainstateManager: the constructor                                      *)

\* m_impl = nullptr: the engine's manager and everything it had in memory
\* are released.
ResetImpl ==
    /\ workers' = NULL /\ blockman' = NULL /\ load_opts' = NULL
    /\ blockIndex' = 0 /\ coinsTip' = NULL

\* Every failure of the constructor ends the same way: m_impl = nullptr.
Invalidate == pc' = "invalid" /\ ResetImpl

\* First critical section on the options: the engine's manager is built
\* from a copy of the block manager options and opens the block tree.  It
\* can throw before the database is opened and after.
CtorCreateImpl ==
    /\ pc = "absent" /\ options # NULL
    /\ \/ /\ pc' = "impl"
          /\ workers' = options.worker_threads_num
          /\ blockman' = options.block_tree_db_params
          /\ disk' = OpenBlockTree(options.block_tree_db_params, disk)
          /\ UNCHANGED <<load_opts, blockIndex, coinsTip>>
       \/ /\ StepsMayFail
          /\ Invalidate
          /\ disk' \in {disk, OpenBlockTree(options.block_tree_db_params, disk)}
    /\ orphaned' = (orphaned \/ disk'.block_tree < disk.block_tree)
    /\ UNCHANGED options

\* A variant of the second copy that takes the other member of the options.
CtorCopyBlockmanOptions ==
    /\ pc = "impl"
    /\ pc' = "load_opts"
    /\ load_opts' = options.block_tree_db_params
    /\ UNCHANGED <<options, workers, blockman, blockIndex, coinsTip, durable>>

\* Second critical section: the load options are copied.
CtorCopyLoadOptions ==
    /\ pc = "impl"
    /\ pc' = "load_opts"
    /\ load_opts' = options.chainstate_load_options
    /\ UNCHANGED <<options, workers, blockman, blockIndex, coinsTip, durable>>

\* LoadChainstate: the index is loaded, the coins database opened, the tip
\* looked up.  Any other status than SUCCESS and any exception drop the
\* manager, before the coins database is opened or after.
CtorLoadChainstate ==
    /\ pc = "load_opts"
    /\ LET opened == OpenCoinsDb(load_opts, disk)
           tree == LoadBlockIndex(blockman, disk)
           coins == LoadCoinsTip(load_opts, opened)
       IN  \/ /\ LoadChainTip(tree, coins)
              /\ disk' = opened
              /\ pc' = "loaded"
              /\ blockIndex' = tree /\ coinsTip' = coins
              /\ UNCHANGED <<workers, blockman, load_opts>>
           \/ /\ ~LoadChainTip(tree, coins) \/ StepsMayFail
              /\ disk' = opened
              /\ Invalidate
           \/ /\ StepsMayFail
              /\ disk' = disk
              /\ Invalidate
    /\ orphaned' = (orphaned /\ disk'.chainstate # 0)
    /\ UNCHANGED options

\* VerifyLoadedChainstate.
CtorVerify ==
    /\ pc = "loaded"
    /\ \/ pc' = "verified" /\ UNCHANGED memory
       \/ StepsMayFail /\ Invalidate
    /\ UNCHANGED <<options, durable>>

\* A variant of the last step that leaves the tip where the coins are.
CtorSkipActivate ==
    /\ pc = "verified"
    /\ pc' = "valid"
    /\ UNCHANGED <<options, memory, durable>>

\* ActivateBestChain on every chainstate: the blocks the index has beyond
\* the coins' best block are connected.
CtorActivateBestChain ==
    /\ pc = "verified"
    /\ \/ /\ pc' = "valid"
          /\ coinsTip' = blockIndex
          /\ UNCHANGED <<workers, blockman, load_opts, blockIndex>>
       \/ StepsMayFail /\ Invalidate
    /\ UNCHANGED <<options, durable>>

Constructor ==
    \/ CtorCreateImpl \/ CtorCopyLoadOptions \/ CtorLoadChainstate
    \/ CtorVerify \/ CtorActivateBestChain

-----------------------------------------------------------------------------
(* ChainstateManager: use and destruction                                  *)

\* ProcessBlock with a block that extends the tip.  m_impl is read without
\* a test: on a manager whose construction failed the process dies.
ProcessBlock ==
    \/ /\ pc = "valid" /\ coinsTip < MaxHeight
       /\ blockIndex' = coinsTip + 1 /\ coinsTip' = coinsTip + 1
       /\ UNCHANGED <<options, pc, workers, blockman, load_opts, durable>>
    \/ pc = "invalid" /\ Die

\* A variant of ImportBlocks that flushes before it imports.
ImportBlocksFlushFirst(n) ==
    \/ /\ pc = "valid" /\ coinsTip + n <= MaxHeight
       /\ blockIndex' = coinsTip + n /\ coinsTip' = coinsTip + n
       /\ \/ ForceFlushStateToDisk(coinsTip)
          \/ StepsMayFail /\ UNCHANGED durable
       /\ UNCHANGED <<options, pc, workers, blockman, load_opts>>
    \/ pc = "invalid" /\ Die

\* ImportBlocks: the n blocks of the files are connected and the state is
\* flushed; when the import throws, what it connected stays in memory and
\* the flush is skipped.  m_impl is read without a test, as in ProcessBlock.
ImportBlocks(n) ==
    \/ /\ pc = "valid" /\ coinsTip + n <= MaxHeight
       /\ blockIndex' = coinsTip + n /\ coinsTip' = coinsTip + n
       /\ \/ ForceFlushStateToDisk(coinsTip + n)
          \/ StepsMayFail /\ UNCHANGED durable
       /\ UNCHANGED <<options, pc, workers, blockman, load_opts>>
    \/ pc = "invalid" /\ Die

\* A variant of the destructor that releases the manager as it is.
DestructorNoFlush ==
    /\ pc \in {"valid", "invalid"}
    /\ pc' = "absent" /\ ResetImpl
    /\ UNCHANGED <<options, durable>>

\* ~ChainstateManager: a manager that has its m_impl flushes the chainstate
\* that can flush and resets its coins views; an invalid one has nothing to
\* flush.
Destructor ==
    /\ pc \in {"valid", "invalid"}
    /\ pc' = "absent" /\ ResetImpl
    /\ IF pc = "valid" /\ CanFlushToDisk
       THEN ForceFlushStateToDisk(coinsTip)
       ELSE UNCHANGED durable
    /\ UNCHANGED options

\* The process dies while a manager is constructed or in use: no
\* destructor runs.
Crash == pc \in CtorSteps \cup {"valid"} /\ Die

\* The client is started again on the same data directory.
Restart ==
    /\ pc = "crashed"
    /\ pc' = "absent"
    /\ UNCHANGED <<options, memory, durable>>

-----------------------------------------------------------------------------
(* Specification                                                           *)

\* A data directory that was never used and a process that has created
\* nothing yet.
Init ==
    /\ options = NULL /\ pc = "absent"
    /\ workers = NULL /\ blockman = NULL /\ load_opts = NULL
    /\ blockIndex = 0 /\ coinsTip = NULL
    /\ disk = [block_tree |-> 0, chainstate |-> 0]
    /\ orphaned = FALSE

\* The setters of the C API.
kernel_chainstate_manager_options_set ==
    \/ \E worker_threads \in WorkerThreads : SetWorkerThreads(worker_threads)
    \/ \E wipe_block_tree_db, wipe_chainstate_db \in BOOLEAN :
            SetWipeDbs(wipe_block_tree_db, wipe_chainstate_db)
    \/ \E in_memory \in BOOLEAN :
            SetBlockTreeDbInMemory(in_memory) \/ SetChainstateDbInMemory(in_memory)

\* kernel_import_blocks: the paths that are not null are passed on; n is
\* the number of blocks in their files, none when every path is null.
kernel_import_blocks == \E n \in 0 .. MaxHeight : ImportBlocks(n)

Next ==
    \/ CreateOptions
    \/ kernel_chainstate_manager_options_set
    \/ Constructor
    \/ ProcessBlock
    \/ kernel_import_blocks
    \/ WriteBlockIndex \/ WriteCoins
    \/ Destructor
    \/ Crash \/ Restart

Spec == Init /\ [][Next]_vars

-----------------------------------------------------------------------------
(* Properties                                                              *)

TypeOK ==
    /\ options \in Options \cup {NULL}
    /\ pc \in {"absent", "valid", "invalid", "crashed"} \cup CtorSteps
    /\ workers \in WorkerThreads \cup {0, NULL}
    /\ blockman \in BlockTreeDbParams \cup {NULL}
    /\ load_opts \in ChainstateLoadOptions \cup {NULL}
    /\ blockIndex \in Heights /\ coinsTip \in Heights \cup {NULL}
    /\ disk \in [block_tree : Heights, chainstate : Heights]
    /\ orphaned \in BOOLEAN

\* The constructor works on the flags of one call of SetWipeDbs: no manager
\* runs with a wiped block tree and a chainstate that was kept, the
\* combination SetWipeDbs refuses, although the constructor reads the two
\* flags in two critical sections.
EffectiveWipeRule ==
    (blockman # NULL /\ load_opts # NULL) =>
        ~(blockman.wipe_data /\ ~load_opts.wipe_chainstate_db)

\* A plain manager can be constructed from the data directory: the best
\* block of the chainstate is in the block tree, at every moment, after
\* constructors that failed at any step, imports that threw, a flush or a
\* construction cut short by the death of the process, and options changed
\* by a second thread during construction.  The exception is a chainstate
\* that was orphaned, by a wipe of the block tree or by a manager that kept
\* its block tree in memory, until LoadChainstate wipes it.
DatadirLoadable == ~orphaned => Loadable(disk)

\* Crash recovery as the specification asks for it: a plain manager can be
\* constructed from the data directory whenever the process died, without
\* exception.
DatadirSurvivesCrash == pc = "crashed" => Loadable(disk)

\* What a client expects of ~ChainstateManager: the data directory a valid
\* manager leaves behind can be loaded by a plain manager, whichever of its
\* stores the options placed in memory.
ShutdownLeavesLoadable ==
    [][ (pc = "valid" /\ pc' = "absent") => Loadable(disk') ]_vars

\* A manager that reports itself valid stands on the best block of its
\* index: what a crash left unconnected (index written, coins not) or a
\* wipe of the chainstate removed was connected again by the constructor's
\* ActivateBestChain.
ValidManagerIsOnBestBlock == pc = "valid" => coinsTip = blockIndex

\* Destroying a valid manager loses nothing: every store that is on disk
\* holds, after ~ChainstateManager, the height the manager had reached, so
\* that the next manager starts where this one stopped, whatever imports
\* threw and whichever writes happened before.
CleanShutdownIsDurable ==
    [][ (pc = "valid" /\ pc' = "absent") =>
            /\ blockman.memory_only \/ disk'.block_tree = blockIndex
            /\ load_opts.coins_db_in_memory \/ disk'.chainstate = coinsTip ]_vars

\* The lifecycle implements DatadirSpec, with the block tree database as
\* what the directory stores and the manager that has its stores on disk
\* as the manager opened on it: a constructor that ends valid has opened
\* the directory at the height stored or failed, ProcessBlock and
\* ImportBlocks advance and save what they reached, ~ChainstateManager
\* saves the tip, and nothing but the wipe at the start of a constructor
\* takes the directory back.
Datadir ==
    INSTANCE DatadirSpec WITH
        stored <- disk.block_tree,
        tip <- IF pc = "valid" /\ ~blockman.memory_only THEN coinsTip ELSE NULL,
        crashed <- (pc = "crashed")
ImplementsDatadirSpec == Datadir!AbsSpec
=============================================================================
