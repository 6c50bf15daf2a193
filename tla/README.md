# Model checking the kernel wrapper

TLA+ models of the C++ wrapper classes of the kernel library
(`src/depend/bitcoin/src/kernel/bitcoinkernel.cpp`), of the C API built on
them (`src/depend/bitcoin/src/kernel/types.h`) and of the validation engine
they drive, checked with TLC. `PROJECT.json` records, for every definition,
the source lines it models, and for every run the properties it checks.

## 1. The system

| part | source | state | operations |
| --- | --- | --- | --- |
| validation state | `unnamed/part_002` 1-83, `types.h` 561-577 | mode, result, reject reason | `Invalid`, `Error`, `IsValid/IsInvalid/IsError`, the two C accessors |
| chainstate manager in use | `bitcoinkernel.cpp` 846-922 | block index, failed flags, active chain, coins view, undo store | `ProcessBlock`, the queries by tip, genesis, hash, height and successor, `ReadBlock`, `ReadBlockUndo`, the `BlockUndo` accessors |
| callbacks | `bitcoinkernel.cpp` 321-481, `types.h` 292-349 | what the client's callbacks were handed | the seven handlers of `KernelNotificationsImpl`, `BlockChecked`, the adapters of the C API with their null tests and conversions |
| manager life cycle | `bitcoinkernel.cpp` 700-844, 917-929, `types.h` 604-631, 735-750 | the options, the constructor's copies of them, the two databases in memory and on disk | the four setters, the constructor, `ImportBlocks`, the destructor |
| context | `bitcoinkernel.cpp` 524-608 | chain parameters, the two shared callback objects, the interrupt signal | `ContextOptions` setters, both constructors with the sanity check, `Interrupt`, the destructor |
| C API handles and value wrappers | `types.h` 177-291, 353-920, `bitcoinkernel.cpp` 73-164, 320-344, 609-670 | the heap objects a client owns, and what each refers to | the `cast_*` helpers, every `kernel_*_create`, `_copy`, `_get_*`, `_destroy`, the `Impl` structs and their constructors |
| script verification | `bitcoinkernel.cpp` 67-72, 165-223, `types.h` 409-431 | none (a function of its arguments) | `verify_flags`, `is_valid_flag_combination`, `VerifyScript`, `kernel_verify_script` |
| logging | `bitcoinkernel.cpp` 225-319, `types.h` 433-489 | the callback list, the buffering flag, the category mask, the levels and the format switches of the global log instance | `Logger` constructor and destructor, `DisableLogging`, the category, level and format setters |
| enum conversions | `types.h` 74-176 | none | `get_bclog_level`, `get_bclog_flag`, `get_chain_type`, `cast_state`, `cast_kernel_warning` |
| example tool | `unnamed/part_000` | none of its own | reads blocks from standard input and calls `ProcessBlock` |

How the parts interact. A client makes `ContextOptions`, sets callbacks on
it, and constructs a `Context`, which copies the shared pointers to the
callback objects. From the context it makes `ChainstateManagerOptions`, sets
the wipe and in-memory flags, and constructs a `ChainstateManager`: the
constructor copies the options under their mutex in two critical sections,
loads and verifies the chainstate and activates the best chain. The manager
is then used from any thread: `ProcessBlock` hands a block to the engine,
which reports through `BlockChecked` and `blockTip`; queries take the
validation lock for one read and return `BlockIndex` handles that point into
the manager. The destructor flushes. A manager has three ties to contexts:
its notifications and chain parameters are those of the context its options
were made from, its interrupt signal is that of the context passed to its
constructor, and the validation signals a context registered the client's
validation interface with are passed to no manager. Script verification and
logging are independent of all of this: the first is a function, the second
a global.

The engine behind the wrapper (`ProcessNewBlock`, `ActivateBestChain`,
`CChain`, the coins view, the block store, `LoadChainstate`, `LogInstance`,
the script interpreter) is not in the sources. Where a module needs it, the
definition follows the specification of the engine and its map entry says
`spec_modelled`; fewer than a quarter of the definitions are of that kind.

## 2. Modules

| module | models | state | lines |
| --- | --- | --- | --- |
| `ValidationState` | `ValidationState<BlockValidationResult>`, the C accessors, the classification `BlockCheckedHandler` makes | operators on a record | 78 |
| `ChainSpec` | what a chainstate manager promises: a tree of known blocks, one active branch, its unspent outputs | `tree`, `active`, `utxo` | 68 |
| `Chainstate` | a loaded manager; implements `ChainSpec` | `index`, `failed`, `rejected`, `chain`, `coins`, `undoStore`, the call in progress `proc` and its `ret`, `interrupt`, `fatal`, what the engine last reported (`checked`, `tipSeen`), per reader `reader` | 577 |
| `KernelSession` | context options, contexts, manager options and a manager wired together, with the callback adapters; extends `Chainstate` | `ctxOptions`, `context`, `given`, `chainmanOptions`, `chainman`, `warnings`, `seen`, `alive` | 528 |
| `DatadirSpec` | what a data directory promises: it stores a height, a manager opened on it starts there | `stored`, `tip`, `crashed` | 66 |
| `ChainmanLifecycle` | options, construction, import, destruction, death of the process; implements `DatadirSpec` | `options`, `pc`, `workers`, `blockman`, `load_opts`, `blockIndex`, `coinsTip`, `disk`, `orphaned` | 438 |
| `KernelHandles` | the C API as allocation and release, and what each object keeps of the objects it was made from | `handle`, `heap`, `keeps`, `optShared`, `ctxShared`, `live`, `interrupted`, `fault` | 459 |
| `KernelLogging` | `LoggerImpl` and the configuration functions over the log instance | `callbacks`, `buffering`, `disabled`, `pc`, `fault`, `conf`, `asked` | 388 |
| `ScriptVerify` | the entry point of verification | `allocated`, `tx`, `call`, `fault` | 316 |

`MCChainstate`, `MCChainstateReaders`, `MCKernelSession`,
`MCChainmanLifecycle`, `MCKernelHandles`, `MCKernelLogging` and
`MCScriptVerify` extend a module and give its constants their values; the
`.cfg` files name them.

### Chainstate

A block is a model value and its own hash. Its header is its parent
(`Prev`), its work (`Work`) and whether it fails the header checks
(`BadHeader`); its transactions are the outpoints each one spends
(`Inputs`, a sequence per transaction, which is the shape of undo data) and
the outpoints the block creates (`Creates`).

`ProcessBlock(b)` is the call: the header refusals (duplicate, bad header,
unknown or failed parent), storing the block (which may fail and raise the
fatal error) and indexing it. A refusal returns at once; `ret` is what the
last call returned, for which block, with the out-parameter `new_block`,
and `Printed(ret)` is what the tool's `main` prints of it. An accepted
block leaves `proc` set, and `ActivateBestChain`
then takes one step at a time with the validation lock held during the step
and free between steps: `DisconnectTip`, `ConnectTip`, `InvalidBlockFound`
or `ActivationDone`. Each step includes the report the engine makes
(`checked` is the verdict it last gave `BlockChecked` for each block,
`tipSeen` the entry it last gave `blockTip`); whether a callback of the
client is behind the report is the matter of `KernelSession`. `Interrupt` sets the
signal the loop tests. The queries (`GetBlockIndexFromTip`,
`...FromGenesis`, `...ByHash`, `...ByHeight`, `GetNextBlockIndex`,
`ReadBlock`, `ReadBlockUndo`, `GetTxOutSize`, `GetTxUndoPrevoutByIndex`)
are single steps of a reader thread that record the answer in `reader`.
`ReadBlock(e)` and `ReadBlockUndo(e)` are the sets of what the read may
return: the data when the store has it, and nothing (`std::nullopt`) when
it has not or when the read fails.

### ChainSpec and the refinement

`ChainSpec` has three actions: `Learn(b)` adds a block with a good header
and a known predecessor to the tree, `Advance(b)` connects on the tip a
known block whose inputs are all unspent, and `Retreat` disconnects the
tip, giving back what it spent and taking away what it created. It says
nothing of which branch is active, of undo data, of calls or callbacks.
`Chainstate` instantiates it with the refinement mapping

    tree <- DOMAIN index,  active <- chain,  utxo <- coins

and `ImplementsChainSpec` states that every behaviour of `Chainstate` is a
behaviour of `ChainSpec` under that mapping: `AcceptBlock` is `Learn`,
`ConnectTip` is `Advance`, `DisconnectTip` is `Retreat`, and every other
step (refusals, `InvalidBlockFound`, `ActivationDone`, `Interrupt`, the
queries) leaves the three mapped values alone.

### KernelSession

`KernelSession` extends `Chainstate` and adds the objects in front of the
engine. `ctxOptions` is the `ContextOptions` object with its three members;
`context[c]` is the `ContextImpl` of context `c`: the copy of the chain
parameters (main net when none were set), the copy of the notifications (an
object without callbacks when none were set), the validation interface and
the interrupt flag; `Insane` is a context whose sanity check failed: its
`m_impl` is null, `kernel_context_create` returns it all the same, and the
destructor, `Interrupt` and the constructors of the manager options and of
the manager read through it without a test. A client that passes such a
context to one of them dies (`Die`, `alive` becomes false), and a process
that died takes no further step.
`chainmanOptions` and `chainman` record which context each of their
references points to: `ChainstateManagerOptionsImpl(c)` takes chain
parameters and notifications from `c` and no signals;
`ChainstateManagerImpl(c, opts, ok)` takes the interrupt from the context
`c` of the constructor and everything else from the options. `Referenced(c)`
is the client's reason to keep a context: its options or its manager were
constructed with it, or (constant `KeepsOptionsContext`) the manager refers
to it through the options it copied.

A callback struct is the set of its members that are not null.
`Handler(view, cbs, cb, arg)` is a handler of `CallbackKernelNotifications`:
the test of the member, the conversion of the argument (`cast_state`,
`cast_kernel_warning`) and what the call changes in the client's view
`seen`. `ProcessBlockStep` is a step of `Chainstate` (`ProcessBlock` or a
step of `ActivateBestChain`) together with the callbacks it makes;
`headerTip`, `progress`, `flushError`, `warningSet` and `warningUnset` are
the engine's other notifications. `given` is a history variable: the
callbacks the options held when each context was constructed, which is what
the client is entitled to hear through that context.

### ChainmanLifecycle

The block tree database and the chainstate database are each the height of
the best block they record. The actions of `Next` are the functions of the
C API (`kernel_chainstate_manager_options_set` for the four setters,
`kernel_import_blocks`), each with the method it calls. The constructor is
a sequence of steps in the code's order (`CtorCreateImpl`,
`CtorCopyLoadOptions`, `CtorLoadChainstate`, `CtorVerify`,
`CtorActivateBestChain`), because the options mutex is released between the
two copies and each step can fail and leave an invalid manager
(`Invalidate`). A step that opens a database can fail before it opened it
or after: `CtorCreateImpl` may have wiped the block tree when it fails, and
`CtorLoadChainstate` may fail before the chainstate is wiped (a throw
caught at 823-826) or after (a status at 803-807). The setters are enabled
whenever the options exist, also between two steps of a constructor, and
the two in-memory flags are set independently. `ProcessBlock` and
`ImportBlocks` move the tips in memory; called on a manager whose
construction failed they read a null `m_impl`, and the process dies
(`Die`). `WriteBlockIndex` and `WriteCoins` are the engine's periodic
flush, index first; `Destructor` flushes both when the manager has its
`m_impl` and its chainstate can flush (`CanFlushToDisk`). `Crash` ends the
process during any step of the constructor or while the manager is in use,
drops what is in memory and leaves `disk` as the last write left it;
`Restart` begins again over the same `disk`. `orphaned` is a history
variable: the chainstate on disk was written for a block tree that is not
on disk (the block tree was wiped and the chainstate kept, or the coins
were flushed by a manager whose block tree was in memory), and the
chainstate has not been wiped since.

### DatadirSpec and the refinement

`DatadirSpec` has one stored height, the height `tip` of the manager opened
on the directory, and six actions: `Open` (the manager starts at the stored
height), `Wipe` (only while no manager is open), `Advance` (the manager
moves forward and saves where it stands, or does not save), `Close` (saves
the tip), `Die` (the manager is gone, nothing is saved) and `Restart`.
`ChainmanLifecycle` instantiates it with

    stored <- disk.block_tree
    tip <- IF pc = "valid" /\ ~blockman.memory_only THEN coinsTip ELSE NULL
    crashed <- (pc = "crashed")

so a manager is open from the moment its constructor has ended valid, and a
manager with its stores in memory is none. `ImplementsDatadirSpec` then
says, among other things, that a constructor that ends valid stands on the
stored height whatever an earlier crash left between the two databases,
that `ImportBlocks` saves the height it reached and not the one it started
from, that no step of a manager in use takes the stored height back, and
that the stored height is lost only by a wipe while no manager is open.

### KernelHandles

Each of the thirteen handle types of the C API is a heap object that is
absent, valid, or invalid (a wrapper whose `m_impl` is null). `Create`,
`Copy`, `Get` and `DestroyAny` are the four families of functions; what
distinguishes the functions within a family is what they do when the
construction behind them fails: return the invalid object, delete it and
return null, or return null without deleting. Every construction that can
fail (`Fallible`) may fail. `Leaked(t)` is the number of wrappers of a type
that are allocated and that the client has no pointer to. A function that
reads a null `m_impl` sets `fault`: the process is gone, and `Restart` is a
new process with nothing allocated. The two callback objects a context
shares with its options are counted in `live`, with `optShared` and
`ctxShared` the two owners.

`Cast(t)` is the `assert` of the `cast_*` helpers: a function is called
with pointers the client holds. `ScriptPubkeyImpl`, `TransactionOutputImpl`,
`BlockImpl`, `BlockUndoImpl`, `BlockIndexImpl`,
`ChainstateManagerOptionsImpl` and `ChainstateManagerImpl` say, for each
`Impl` struct, which of its constructor's arguments it still refers to once
it is built: none where the struct holds a copy or a shared pointer, the
manager for a `BlockIndex` (`CBlockIndex&`), the context for the manager
and its options. `keeps` records it for the object the client holds. The
destroy functions are guarded by the client's side of the bargain: a
context is destroyed after its options and its manager, a manager after its
block indexes, everything else in any order.

### KernelLogging

The callback list of the log instance is a sequence of Logger identities,
the stored iterator of a Logger is its identity, and erasing an iterator
that is not in the list sets `fault`. The constructor is three steps
(`PushBackCallback`, the `NumConnections() == 1` test, `StartLogging` with
its two failure paths), the destructor three (`DeleteCallback`, the
`Enabled()` test, `DisconnectTestLogger`), because each call takes the log
instance's lock for itself. `DisableLogging` is taken once, while no Logger
exists; Loggers may be constructed after it as before it.

`conf` is the configuration of the log instance: the set of enabled
categories `m_categories`, the global level `m_log_level`, the level of
each category and the five format switches. The C functions
(`kernel_add_log_level_category`, `kernel_enable_log_category`,
`kernel_disable_log_category`, the five `kernel_set_log_*`) convert their
argument with `get_bclog_level` and `get_bclog_flag` and call the function
of `bitcoinkernel.cpp` of the same name; `AddLogLevelCategory` with
`kernel_LOG_ALL` sets the global level and then, as the code does, goes on
to set the level of the category. `asked` is a history variable: the
categories the client has enabled and not disabled since, in the client's
own terms.

### ScriptVerify

A flag word is the set of flags set in it, with `UNDEFINED` for any bit the
interpreter does not define. Memory is a small range of addresses, some of
which hold a `TransactionOutput`; a span is a run of adjacent addresses, an
array of pointers is a sequence of addresses. `Guards` lists the tests of
`VerifyScript` in the order the code makes them, including the two
dereferences that happen between tests; `VerifyScript` takes the first that
fires. `Span` is the conversion `kernel_verify_script` makes from the
client's array to the span; the array may be null, empty or hold up to
`MaxSpentC` pointers. A transaction is one that decoded or one that did
not (`m_impl` is null). The interpreter's verdict is an input. A call that
reads a null `m_impl` or memory that holds no output sets `fault`, and
`Restart` is a new process.

## 3. Runs

Run from this directory, for example `tlc -workers 2 -config MCChainstate.cfg
MCChainstate`.

| run | module, config | result | distinct states |
| --- | --- | --- | --- |
| `engine` | `MCChainstate`, `MCChainstate.cfg` | holds | 95,734 |
| `readers` | `MCChainstateReaders`, `MCChainstateReaders.cfg` | holds | 34,648 |
| `session` | `MCKernelSession`, `MCKernelSession.cfg` | holds | 1,378,961 |
| `session_observer` | `MCKernelSession`, `MCKernelSessionObserver.cfg` | `ObserverSeesVerdicts` violated | trace of 7 states |
| `session_warnings` | `MCKernelSession`, `MCKernelSessionWarnings.cfg` | `ClientKnowsWarnings` violated | trace of 8 states |
| `lifecycle` | `MCChainmanLifecycle`, `MCChainmanLifecycle.cfg` | holds | 71,382 |
| `lifecycle_torn_options` | `MCChainmanLifecycle`, `MCChainmanLifecycleTorn.cfg` | `EffectiveWipeRule` violated | trace of 6 states |
| `handles` | `MCKernelHandles`, `MCKernelHandles.cfg` | holds | 1,056,768 |
| `logging` | `MCKernelLogging`, `MCKernelLogging.cfg` | holds | 119,232 |
| `logging_start_fails` | `MCKernelLogging`, `MCKernelLoggingFailed.cfg` | `NoInvalidErase` violated | trace of 5 states |
| `script` | `MCScriptVerify`, `MCScriptVerify.cfg` | holds | 17,576 |
| `script_spent_outputs` | `MCScriptVerify`, `MCScriptVerifySpent.cfg` | `SpentOutputsAreTheClients` violated | trace of 4 states |

`session` and `handles` take about two minutes, `engine` one, the others
seconds. Nine more configurations are kept beside the runs; each asks one
more question of a passing run, or drops one assumption of it, and
reproduces one finding of the table further down:

| config | module | what it asks or drops | result |
| --- | --- | --- | --- |
| `MCChainstateTool.cfg` | `MCChainstate` | nothing: it asks what the tool's messages say of a block | `DuplicateWasSeenBefore` violated, 2 states |
| `MCChainmanLifecycleCrash.cfg` | `MCChainmanLifecycle` | asks whether the directory is loadable after every death, without the exception `DatadirLoadable` makes | `DatadirSurvivesCrash` violated, 10 states |
| `MCChainmanLifecycleMixed.cfg` | `MCChainmanLifecycle` | asks whether the directory is loadable after every clean shutdown | `ShutdownLeavesLoadable` violated, 10 states |
| `MCKernelLoggingThreads.cfg` | `MCKernelLogging` | `Concurrent = FALSE` | `ConnectedMeansStarted` violated, 4 states |
| `MCKernelLoggingDisabled.cfg` | `MCKernelLogging` | nothing: it asks whether `DisableLogging` lasts | `DisabledNeverBuffers` violated, 8 states |
| `MCKernelHandlesContext.cfg` | `MCKernelHandles` | asks whether a null `m_impl` is ever read, without the exception `OnlyContextFaults` makes | `NoNullDereference` violated, 5 states |
| `MCKernelHandlesLeak.cfg` | `MCKernelHandles` | asks whether anything is leaked, without the exception `OnlyNullReturnsLeak` makes | `NoLeak` violated, 5 states |
| `MCScriptVerifyInvalidTx.cfg` | `MCScriptVerify` | asks whether every call returns, without the exceptions `OnlyKnownFaults` makes | `VerifyNeverFaults` violated, 3 states |
| `MCKernelSessionLifetime.cfg` | `MCKernelSession` | `KeepsOptionsContext = TRUE` | `NotificationsOutliveManager` violated, 8 states |

### What the passing runs show

`engine`. Seven blocks on three branches are submitted in every order, with
`Interrupt` at any moment and a block store that may fail.
- `CoinsMatchActiveChain`: the coins view equals the replay of the active
  chain from the genesis block, in every intermediate state of a
  reorganisation.
- `ChainIsBranchOfIndex`: the active chain is the branch of its tip, and
  lookup by height inverts `GetHeight` on it.
- `TipIsBestWhenIdle`: after `ProcessBlock` has returned, the tip has the
  most work among the entries not flagged failed; a reorganisation towards
  a branch that turns out invalid ends on the best branch left.
- `ActiveChainHasUndo`: every block on the active chain can be disconnected.
- `ClientViewAgrees`: what the engine reported to `BlockChecked` and
  `blockTip` is what the manager holds.
- `ReturnTellsTheIndex`: what a call returns is what became of its block.
  A block reported as new is the entry the index created last, so a block
  submitted again, at once or after others, is never reported as new; a
  call that returned true left its block in the index, also when
  activation found it invalid; a block refused by a usable manager is not
  an entry activation could choose.
- `ProcessBlockReturns` (liveness): every call returns.
- `ImplementsChainSpec` (refinement): every step is a step of `ChainSpec`.
  This says what `CoinsMatchActiveChain` cannot: the replay of a chain
  does not ask whether each block's inputs were unspent when it was
  connected, so a `ConnectTip` that skips the lookup keeps the invariant
  and breaks the refinement; and `DisconnectTip` must restore from the
  undo store exactly what the block's transactions spent.

`readers`. One reader thread queries while another thread reorganises;
every read of a block or of undo data may fail.
- `NextIsSuccessor` (action property): `GetNextBlockIndex` answers with the
  successor or nothing even for a handle that a reorganisation has taken
  off the active chain since it was obtained.
- `UndoAccessorsAgree`: the index checks of `GetTxOutSize` and
  `GetTxUndoPrevoutByIndex`, which use different comparisons, agree for
  every pair of indices within and beyond the data.

`session`. A client builds options, two contexts, manager options and a
manager in every order, replaces and destroys the options in between,
interrupts either context and processes a block while the engine notifies.
The sanity check of a context, the creation of the directories and the
load may fail; a client that uses a context without `m_impl` dies.
- `ClientHearsEngine`: the callbacks that were on the options when the
  context was constructed are handed every tip and the fatal error, and a
  member left null is never called, whatever was done to the options or to
  the other context afterwards.
- `WarningsClearedForClient`: when no warning condition holds in the
  engine, the client believes none set. It holds although the client is
  told the wrong warning (`session_warnings`): it is about the unset
  handler being reached, not about the identifier.
- `InterruptStopsManager` (action property): once the context a manager was
  constructed with is interrupted, the manager's chain does not change.
  Interrupting the context its options were made from does not count.

`lifecycle`. Managers are configured, constructed step by step, used,
destroyed and killed, during construction and in use, over one directory.
Nothing is assumed of the client: it sets options at any time, also while
a manager is constructed, puts either store in memory, and calls a manager
whose construction failed. Every constructor step may fail, before or
after it touched its database.
- `DatadirLoadable`: the chainstate on disk is ahead of the block tree on
  disk only when it is `orphaned`, that is, when the block tree it was
  written for was wiped or was never on disk. Every other way to a
  directory that cannot be loaded (a flush that writes the coins before
  the index, a failure or a death at any step) is excluded. The two ways
  it excepts are real and are the findings of `MCChainmanLifecycleCrash.cfg`
  and `MCChainmanLifecycleMixed.cfg`: the run does not show that the
  directory is always loadable, and it is not.
- `ValidManagerIsOnBestBlock`: what a crash left unconnected is connected
  by the next constructor.
- `CleanShutdownIsDurable` (action property): the destructor writes what
  the manager had reached.
- `ImplementsDatadirSpec` (refinement): every step is a step of
  `DatadirSpec`. It relates what one manager saved to where the next one
  starts, across destruction, death and restart, which none of the
  invariants does.

`EffectiveWipeRule` (no manager is built from a wiped block tree and a kept
chainstate) is not a property of this run: with setters that run at any
time it is false, which is the run `lifecycle_torn_options`.

`handles`. Every function of the C API in every order the lifetime rule
allows, with every construction that can fail failing or not.
- `OnlyNullReturnsLeak`: a wrapper is allocated without the client having a
  pointer to it only for the three types whose create or get function
  returns null without deleting (`ChainstateManagerOptions`,
  `ChainstateManager`, `BlockIndex`); for every other type, a failed
  `kernel_block_create` included, what is allocated is what the client
  holds. That the three do leak is the finding of `MCKernelHandlesLeak.cfg`.
- `OnlyContextFaults`: a null `m_impl` is read only through a context whose
  sanity check failed; every other invalid object is stopped before it
  reaches the client (a transaction is the matter of `script`). That a
  context is not is the finding of `MCKernelHandlesContext.cfg`.
- `NoDanglingReference`: no object the client holds refers to one that was
  destroyed. The client's rule names two dependencies (context, manager);
  the property holds because every other object the API hands out (a
  block or undo data read with a block index, an output taken from undo
  data or made from a script, a script taken from an output) is a copy.
  An `Impl` that kept a reference instead breaks it in three calls.
- `CallbacksOutliveOptions`: each shared callback object lives exactly
  while the options or a context hold it.

`logging`. Up to three `Logger` objects come and go while the client
configures the log instance, before and after a `DisableLogging`. The
client of this run has one thread of set-up (`Concurrent = FALSE`) and a
`StartLogging` that succeeds or throws; what follows holds for that client
and not for every client (findings `logging_start_fails`,
`MCKernelLoggingThreads.cfg`, `MCKernelLoggingDisabled.cfg`).
- `ConnectionsMatchLoggers`, `ConnectedMeansStarted`,
  `BufferingWhenUnconnected`, `NoInvalidErase`: the callback list follows
  the objects, logging is started while one is connected, buffering resumes
  when the last one is gone, and no iterator is erased twice.
- `CategoriesAreTheClients`: the categories enabled in the log instance are
  those the client enabled and has not disabled, through the conversion of
  `get_bclog_flag` and with `kernel_LOG_ALL` standing for all of them.

`script`. Every call of `VerifyScript` from C++ and from C, with an array
of up to two spent outputs, on a transaction that decoded or did not.
- `ContractOfVerify`: of the calls that return, the interpreter runs
  exactly for those the documented preconditions admit (`Preconditions` is
  the reference definition, written from the contract and not from the
  code's order of tests), and every other returns 0.
- `PrecomputedWhenAvailable`: the precomputed transaction data is built
  from the spent outputs exactly when the taproot flag asks for it.
- `RefusedBeforeDereference`: a call whose flags are not admitted (an
  undefined bit, an invalid combination, taproot without spent outputs) is
  refused before the transaction or a spent output is read, whatever they
  are. A `VerifyScript` that looked at the transaction first breaks it.
- `OnlyKnownFaults`: a call faults in two cases only: the transaction did
  not decode, or the array has two or more outputs and the span built from
  its first pointer is not the array. Both are findings
  (`MCScriptVerifyInvalidTx.cfg`, `script_spent_outputs`); the property says
  there is no third.

Each module has one type invariant. For every property of a passing run
`PROJECT.json` names a variant of one definition (a dropped guard, a
swapped order, an off-by-one; the variants are the definitions introduced
as "A variant of ..." in the modules) under which TLC reports the property
violated, so no property holds by the shape of the model alone.

### What the violations show (findings)

| shown by | where | what |
| --- | --- | --- |
| `lifecycle_torn_options` | `bitcoinkernel.cpp:799` | The constructor reads the options in two critical sections (791 and 799). `SetWipeDbs` of another thread in between gives it `wipe_data` without `wipe_chainstate_db`, the combination `SetWipeDbs` itself refuses at 754. `src/doc/index.md:120` calls the package thread-safe, `src/README.md:143` says it is currently not threadsafe. |
| `session_observer` | `bitcoinkernel.cpp:715` | `ContextImpl` registers the client's validation interface with validation signals of its own; `ChainstateManagerOptionsImpl` passes chain parameters, directories and notifications to the engine and not the signals. No manager reports a verdict to `BlockCheckedHandler`. |
| `session_warnings` | `types.h:171` | `cast_kernel_warning` returns `kernel_LARGE_WORK_INVALID_CHAIN` for both warnings of the engine: the client is told of the wrong warning, and the unset of one clears the other. |
| `logging_start_fails` | `bitcoinkernel.cpp:285` | When `StartLogging` returns false the constructor deletes the callback and completes; the destructor erases the same iterator again at 299. |
| `script_spent_outputs` | `types.h:421` | `kernel_verify_script` builds a span of `spent_outputs_len` objects from the first pointer of an array of pointers; from the second element on `VerifyScript` reads the memory behind the first object. |
| `MCChainstateTool.cfg` | `part_000:229` | The tool prints "Block is a duplicate" whenever `new_block` is false. `new_block` is true only for a block that was stored, so a block refused the first time it is submitted, for one because its predecessor has not arrived, is called a duplicate. |
| `MCChainmanLifecycleCrash.cfg` | `bitcoinkernel.cpp:802` | A rebuild wipes the block tree when the engine's manager is built (792) and the chainstate when `LoadChainstate` runs (802). A process that dies in between, or a constructor that fails in between (793-797, 803-807, 823-826), leaves a chainstate without its block tree; only a manager that wipes the chainstate again recovers. Nothing records the unfinished rebuild. |
| `MCChainmanLifecycleMixed.cfg` | `bitcoinkernel.cpp:773` | The two in-memory flags are set independently and nothing says they must agree. A manager with the block tree in memory and the chainstate on disk leaves a directory the next manager cannot load. |
| `MCKernelLoggingThreads.cfg` | `bitcoinkernel.cpp:283` | Two constructors push their callbacks before either counts, both count two, and logging is never started. |
| `MCKernelLoggingDisabled.cfg` | `bitcoinkernel.cpp:304` | The destructor of the last Logger calls `DisconnectTestLogger` whenever the instance is not enabled. After `DisableLogging` it is not, so a Logger constructed and destroyed after `DisableLogging` leaves the instance buffering again. Nothing says whether a Logger may follow `DisableLogging`. |
| `MCKernelHandlesContext.cfg` | `bitcoinkernel.cpp:600` | When the sanity check fails `m_impl` is null, `kernel_context_create` returns the object all the same, and the destructor, `Interrupt` and the manager options read through it. |
| `MCKernelHandlesLeak.cfg` | `types.h:598` | `kernel_chainstate_manager_options_create` and `kernel_chainstate_manager_create` return null for an invalid object without deleting it, and `kernel_get_block_index_from_tip` does at 756; `kernel_block_create` deletes. |
| `MCKernelSessionLifetime.cfg` | `bitcoinkernel.cpp:718` | The manager copies the engine's options, and with them the references to the notifications and chain parameters of the context the options were made from. A manager constructed with another context depends on both; a client that destroys the options and then their context leaves it with dangling references. The constructor names one context, and no comment names the other. |
| `MCScriptVerifyInvalidTx.cfg` | `types.h:356` | `Transaction`'s constructor catches the decoding error itself, so `kernel_transaction_create` returns an object with a null `m_impl`, which `VerifyScript` dereferences at `bitcoinkernel.cpp:194`. |

## 4. Bounds and assumptions

| constant | value | why it is enough |
| --- | --- | --- |
| block tree of `MCChainstate` | G-A-B-C-D, A2 on G, H on G with a bad header | C is invalid against the coins view with a valid D on top; A2 outweighs A-B and ties with A-B-C. The orders of arrival give a plain reorganisation, a failure at once, and a reorganisation that fails half way and walks back. |
| block tree of `MCChainstateReaders` | G-A, G-A2-B2, one reader | A and A2 tie, so B2 reorganises a chain the reader holds a handle into; B2 has undo rows of length one and two. |
| `MaxUndoIndex` | 2 | one past the longest row and the number of rows |
| block tree of `MCKernelSession` | G-A | one block is connected, so a tip, a verdict and (with a failing store) a fatal error are reported; reorganisations are the matter of `engine` |
| `Contexts`, `OptionContexts` | {c1, c2}, {c1} | one context from the options and one default constructed: the context of a manager's constructor and the context of its options can differ |
| `NotificationChoices` | every callback but `progress` | a member that is set and a member that is null are both met, on options that have notifications and on options that have none |
| `Warnings` | both | one warning can be cleared while the other holds |
| `Failures` (session) | sanity, directories, load | a context can be without `m_impl`, options can be missing, a manager can be invalid |
| `MaxHeight` | 3 | the block tree on disk can be ahead of the chainstate by one and by two blocks, an import can add one or several blocks, a wipe loses something |
| `WorkerThreads` | {2} | a value that differs from the default 0 |
| `MaxShared` | 2 | two callback objects of a kind can be alive at once (options' and context's); a third is never needed |
| `MaxLeaks` | 1 | one wrapper left allocated tells a function that leaks from one that does not; the bound keeps the count of leaked wrappers finite |
| `Loggers` | 3 | a first connection, a later one, and one that comes or goes while the other two stay |
| `Categories`, `Levels`, `Switches` | validation, kernel, all; info, trace; thread names | two single categories and the one that stands for all, so that enabling all and disabling one, and the reverse, happen; two levels so that a level is replaced; the five switches are set by the same code |
| `Addresses`, `MaxInputs`, `MaxSpentC` | 1..3, 2, 2 | two outputs can be adjacent or apart; the spent outputs can be too few, right or too many; an array of two is the shortest whose second element matters |

Assumptions a run can make or drop:
- `StepsMayFail` (lifecycle), `DiskMayFail` (engine), `Failures` (session),
  `StartOutcomes` (logging): which failures the environment produces. All
  are on in the passing runs, except that `StartOutcomes` of `logging`
  leaves out a `StartLogging` that returns false, and `DiskMayFail` is off
  in `readers`, whose reads fail independently of it.
- `KeepsOptionsContext` (session): whether the client keeps the context
  its manager's options were made from for as long as the manager. TRUE in
  the runs, FALSE in `MCKernelSessionLifetime.cfg`.
- `Concurrent` (logging): whether constructors and destructors of different
  `Logger` objects interleave. FALSE in the passing run.

`lifecycle`, `handles` and `script` make no assumption about the client or
the environment: where the code misbehaves, the property of the passing run
names the case as its exception, and a property without the exception is
violated under the configuration the tables above give.

Granularity. A step of `Chainstate` is what happens under one hold of the
validation lock; a step of `ChainmanLifecycle` or `KernelLogging` is what
happens between two lock acquisitions or two calls that can fail; a call of
`KernelHandles`, `ScriptVerify` or of the wiring of `KernelSession` is one
step, because nothing it touches is shared. A dereference of a null or
foreign pointer is undefined behaviour; the models take it as the death of
the process: `KernelHandles`, `ScriptVerify` and `KernelLogging` record it
in `fault`, `ChainmanLifecycle` in `pc = "crashed"`, `KernelSession` in
`alive`.

The process may die (`Crash`) in `ChainmanLifecycle` only: it is the one
module with state that outlives the process. The data directory after a
crash is what the last completed write left; a write is atomic, which is
what the engine's databases give.

## 5. Fairness

Only `Chainstate` has a fairness condition: `WF_vars(ActivateBestChain)`.
The thread inside `ProcessBlock` keeps running the loop of
`ActivateBestChain` until it returns, and the validation lock is released
between steps, so a step that stays enabled is eventually taken. Nothing is
assumed of the client: it may stop submitting blocks, never query, never
destroy what it created. `ProcessBlockReturns` is the only liveness
property; the other modules are checked for safety only and their
specifications have no fairness. Deadlock is checked in every run; a
process that died restarts (`Restart`) or, in `KernelSession`, stays dead
(`Dead`, a step that changes nothing).

## 6. Not modelled

- The script interpreter, signature checks, proof of work, serialisation
  and hashing: reduced to an outcome that is an input.
- The content of the value wrappers (`ScriptPubkey`, `TransactionOutput`,
  `Block`, `BlockHash`): bytes. `KernelHandles` has whether an object is
  valid, who owns it and what it refers to.
- `UnownedBlock` (`bitcoinkernel.cpp` 453-481) with
  `kernel_copy_block_pointer_data` and `kernel_block_pointer_get_hash`
  (`types.h` 694-708, 719-726), the block a `BlockChecked` callback is
  handed by reference: no manager makes that callback (finding
  `session_observer`), so no client ever holds one.
- A null pointer passed to a function of the C API: the `cast_*` helpers
  stop the process with an `assert`, the destroy functions return. The
  client of `KernelHandles` passes the pointers it holds.
- Which messages the log instance lets through: the filter is the
  engine's. `KernelLogging` models what the wrapper writes into the
  configuration the filter reads.
- The format setters racing each other (`bitcoinkernel.cpp` 249-272 write
  plain members without a lock): a data race on a boolean, with no state
  of the wrapper that depends on its outcome.
- The main loop of the example tool (`unnamed/part_000` 147-233) as a
  module of its own: one sequential client that builds its objects in one
  order, stops when the manager is invalid and submits blocks in a loop.
  Every call it makes is an action of `KernelSession` or `KernelLogging`,
  and its order of calls is one of the behaviours the runs cover. What it
  prints of a call is `Printed` in `Chainstate`; the decoding of the input
  line (`hex_string_to_char_vec`) is left out: a line is a block or fails
  to decode.
- A query on a manager whose construction failed (`ProcessBlock` and
  `ImportBlocks` on one are modelled, in `ChainmanLifecycle`), and a
  manager destroyed while another thread is inside one of its calls: the
  C API hands out no pointer to a failed manager and the tool stops, and
  the second is a use of freed memory whatever the wrapper does.
- A `StartLogging` that returns false and two threads constructing
  Loggers, in the passing run `logging`: both are findings, checked by
  configurations of their own.
- What the engine does with a directory left by an unfinished rebuild
  beyond refusing to load it.
- The Python package documentation and the build files.

## 7. Plan

Built, in this order: `ValidationState`, `Chainstate` (engine, then
readers), `ChainmanLifecycle`, `KernelHandles`, `KernelLogging`,
`ScriptVerify`, `ChainSpec` with the refinement of `Chainstate`,
`KernelSession`, the configuration of `KernelLogging`, the crash inside the
constructor, `DatadirSpec` with the refinement of `ChainmanLifecycle`, and
the references between objects in `KernelHandles` with the client's
lifetime rule in `KernelSession`, and last what `ProcessBlock` returns and
the tool prints of it, and Loggers constructed after `DisableLogging`; then
every failure and every misuse the wrapper does not stop, in the passing
runs of `ChainmanLifecycle`, `KernelHandles`, `ScriptVerify` and
`KernelSession`, with the properties restated so that they name what the
code gets wrong.

Every function of `types.h` and `bitcoinkernel.cpp` is now an action or an
operator of a module, `UnownedBlock` excepted. Two things earlier plans
named were looked at again and left out:

- Best-chain selection as a liveness property of `ChainSpec`. The engine
  run already has it in two halves: `ProcessBlockReturns` (every call
  returns) and `TipIsBestWhenIdle` (after a call that was not interrupted
  the tip is the best entry that is not failed). An abstract statement
  would need work, failure and interrupt in `ChainSpec`, which is kept to
  what a client can rely on whatever branch is chosen.
- `KernelTool` as a module, for the reasons given under "Not modelled";
  the messages of its loop are in `Chainstate`.

What is left, most important first:

1. **The reproducing configurations as runs of their own**, once runs that
   overlap are merged.
2. **The logging run without its two assumptions** (`Concurrent`, a
   `StartLogging` that returns false), with properties that name the
   exceptions as those of `handles` and `script` do.
3. **More than one object of a type** in `KernelHandles` (two block
   indexes of one manager, a copy of a block index), which the lifetime
   rule treats alike and the present instance has one of.
