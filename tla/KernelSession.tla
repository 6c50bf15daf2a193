---------------------------- MODULE KernelSession ----------------------------
(***************************************************************************)
(* A client session: ContextOptions, Context, ChainstateManagerOptions and *)
(* ChainstateManager of kernel/bitcoinkernel.cpp wired together, the       *)
(* callback adapters of the C API (CallbackKernelNotifications and         *)
(* KernelValidationInterface of kernel/types.h), and the loaded manager of *)
(* module Chainstate running behind them.                                  *)
(*                                                                         *)
(* Chainstate says what the engine signals: the verdict of every block it  *)
(* checks and the entry of every tip it connects.  This module says who    *)
(* hears it.  A Context copies the chain parameters and the callback       *)
(* objects of its options when it is constructed; the options of a manager *)
(* refer to the notifications of the context they were made from; the      *)
(* manager polls the interrupt signal of the context it was constructed    *)
(* with.  The variable seen is what the client's callbacks were handed.    *)
(*                                                                         *)
(* Abstractions.  A callback struct is the set of its members that are not *)
(* null.  Messages, titles, heights and timestamps are left out.  The      *)
(* construction of a manager is one step whose outcome is chosen here; its *)
(* steps are those of module ChainmanLifecycle.  A client destroys a       *)
(* context only after the options and the manager made from it, as the     *)
(* header requires.  A Context whose sanity check failed has no m_impl,    *)
(* and every member function reads it: the process of a client that uses   *)
(* such a context dies.                                                    *)
(***************************************************************************)
EXTENDS Chainstate

CONSTANTS
    Contexts,             \* the Context objects a client may construct
    OptionContexts,       \* those it may construct from its ContextOptions
    NotificationChoices,  \* the kernel_NotificationInterfaceCallbacks a client may pass
    ValidationChoices,    \* the kernel_ValidationInterfaceCallbacks a client may pass
    ChainTypeChoices,     \* the kernel_ChainType values a client may pass
    SyncStates,           \* the synchronization states the engine is in when it notifies
    Warnings,             \* the warning conditions that come to hold in the engine
    Failures,             \* what may fail: "sanity", "directories", "load"
    KeepsOptionsContext   \* the client keeps the context a manager's options were made from

\* The members of kernel_NotificationInterfaceCallbacks.
NotificationCallbacks ==
    { "block_tip", "header_tip", "progress", "warning_set", "warning_unset",
      "flush_error", "fatal_error" }

\* enum class SynchronizationState, kernel::Warning.
SynchronizationState == { "INIT_REINDEX", "INIT_DOWNLOAD", "POST_INIT" }
Warning == { "UNKNOWN_NEW_RULES_ACTIVATED", "LARGE_WORK_INVALID_CHAIN" }

ASSUME SessionConstantsOK ==
    /\ IsFiniteSet(Contexts) /\ NULL \notin Contexts /\ OptionContexts \subseteq Contexts
    /\ NotificationChoices \subseteq SUBSET NotificationCallbacks
    /\ ValidationChoices \subseteq SUBSET {"block_checked"}
    /\ SyncStates \subseteq SynchronizationState /\ Warnings \subseteq Warning
    /\ Failures \subseteq {"sanity", "directories", "load"}
    /\ KeepsOptionsContext \in BOOLEAN

VARIABLES
    ctxOptions,      \* the ContextOptions object, or NULL
    context,         \* per Context: NULL, or its ContextImpl, or Insane
    given,           \* per Context: the callbacks its options held at construction
    chainmanOptions, \* the ChainstateManagerOptions object, or NULL
    chainman,        \* the ChainstateManager: NULL, or what it is wired to
    warnings,        \* the warning conditions that hold in the engine
    seen,            \* what the client's callbacks were handed
    alive            \* the client's process has not died

wiring == <<ctxOptions, context, given, chainmanOptions, chainman, alive>>
sessionVars == <<wiring, warnings, seen>>
allVars == <<vars, sessionVars>>

-----------------------------------------------------------------------------
(* Conversions of kernel/types.h                                           *)

\* get_chain_type: the ChainType of a kernel_ChainType.
get_chain_type ==
    [ kernel_CHAIN_TYPE_MAINNET   |-> "MAIN",
      kernel_CHAIN_TYPE_TESTNET   |-> "TESTNET",
      kernel_CHAIN_TYPE_TESTNET_4 |-> "TESTNET4",
      kernel_CHAIN_TYPE_SIGNET    |-> "SIGNET",
      kernel_CHAIN_TYPE_REGTEST   |-> "REGTEST" ]

\* cast_state: the kernel_SynchronizationState of a SynchronizationState.
cast_state ==
    [ INIT_REINDEX  |-> "kernel_INIT_REINDEX",
      INIT_DOWNLOAD |-> "kernel_INIT_DOWNLOAD",
      POST_INIT     |-> "kernel_POST_INIT" ]

\* cast_kernel_warning: both cases of the switch return the same enumerator.
cast_kernel_warning ==
    [ UNKNOWN_NEW_RULES_ACTIVATED |-> "kernel_LARGE_WORK_INVALID_CHAIN",
      LARGE_WORK_INVALID_CHAIN    |-> "kernel_LARGE_WORK_INVALID_CHAIN" ]

\* ChainParametersImpl: the parameters of a chain type, one set per type.
ChainParameters(chain_type) == chain_type

\* CChainParams::Main(), the default of a Context.
MainParams == ChainParameters("MAIN")

-----------------------------------------------------------------------------
(* Callback adapters                                                       *)

\* What a handler of CallbackKernelNotifications passes to the C callback.
CallbackArgument(cb, arg) ==
    CASE cb = "header_tip"                      -> cast_state[arg]
      [] cb \in {"warning_set", "warning_unset"} -> cast_kernel_warning[arg]
      [] OTHER                                  -> arg

\* What the client keeps of a callback: the tip, the warnings that are set,
\* a fatal error, and the last of the other notifications.
ClientCallback(view, cb, carg) ==
    CASE cb = "block_tip"     -> [view EXCEPT !.tip = carg]
      [] cb = "warning_set"   -> [view EXCEPT !.warnings = @ \cup {carg}]
      [] cb = "warning_unset" -> [view EXCEPT !.warnings = @ \ {carg}]
      [] cb = "fatal_error"   -> [view EXCEPT !.fatal = TRUE]
      [] OTHER                -> [view EXCEPT !.last = <<cb, carg>>]

\* A variant of the adapter whose WarningUnsetHandler does nothing.
HandlerNoUnset(view, cbs, cb, arg) ==
    IF cb \in cbs \ {"warning_unset"}
    THEN ClientCallback(view, cb, CallbackArgument(cb, arg))
    ELSE view

\* KernelNotificationsImpl forwards a notification of the engine to the
\* handler of its KernelNotifications; CallbackKernelNotifications calls the
\* C callback when that member is not null.  The handlers of the base class
\* do nothing.
Handler(view, cbs, cb, arg) ==
    IF cb \in cbs
    THEN ClientCallback(view, cb, CallbackArgument(cb, arg))
    ELSE view

\* ValidationInterfaceImpl::BlockChecked and
\* KernelValidationInterface::BlockCheckedHandler: the verdicts go to the
\* block_checked callback of every interface registered with the signals.
BlockCheckedCallback(view, iface, verdicts) ==
    IF iface # NULL /\ "block_checked" \in iface
    THEN [view EXCEPT !.checked = verdicts]
    ELSE view

-----------------------------------------------------------------------------
(* ContextOptions                                                          *)

\* ContextOptionsImpl as it is constructed: nothing is set.
NoOptions == [chainparams |-> NULL, notifications |-> NULL, validation_interface |-> NULL]

\* ContextOptions::ContextOptions, kernel_context_options_create.
CreateContextOptions ==
    /\ ctxOptions = NULL
    /\ ctxOptions' = NoOptions
    /\ UNCHANGED <<vars, context, given, chainmanOptions, chainman, warnings, seen, alive>>

\* One of the three setters; each replaces one member under m_mutex.
SetOption(member, value) ==
    /\ ctxOptions # NULL /\ ctxOptions[member] # value
    /\ ctxOptions' = [ctxOptions EXCEPT ![member] = value]
    /\ UNCHANGED <<vars, context, given, chainmanOptions, chainman, warnings, seen, alive>>

\* kernel_chain_parameters_create and ContextOptions::SetChainParameters.
SetChainParameters(chain_type) ==
    SetOption("chainparams", ChainParameters(get_chain_type[chain_type]))

\* kernel_context_options_set_notifications.
SetNotifications(cbs) == SetOption("notifications", cbs)

\* kernel_context_options_set_validation_interface.
SetValidationInterface(cbs) == SetOption("validation_interface", cbs)

\* ContextOptions::~ContextOptions.
DestroyContextOptions ==
    /\ ctxOptions # NULL
    /\ ctxOptions' = NULL
    /\ UNCHANGED <<vars, context, given, chainmanOptions, chainman, warnings, seen, alive>>

-----------------------------------------------------------------------------
(* Context                                                                 *)

\* Whether a step succeeds: it may fail when Failures names it.
Outcomes(step) == IF step \in Failures THEN BOOLEAN ELSE {TRUE}

\* A Context whose sanity check failed: m_impl is null.
Insane == [sane |-> FALSE]

\* A manager that was destroyed; its data directory is not opened again.
Closed ==
    [valid |-> FALSE, context |-> NULL, interrupt |-> NULL,
     notifications |-> NULL, signals |-> NULL]

Sane(c) == context[c] # NULL /\ context[c].sane

\* A variant of the constructor that leaves the callbacks of the options
\* behind.
ContextImplDefaults(options) ==
    [sane                 |-> TRUE,
     chainparams          |-> IF options.chainparams # NULL
                              THEN options.chainparams ELSE MainParams,
     notifications        |-> {},
     validation_interface |-> NULL,
     interrupted          |-> FALSE]

\* A variant of the constructor without the default notifications.
ContextImplNoDefault(options) ==
    [sane                 |-> TRUE,
     chainparams          |-> IF options.chainparams # NULL
                              THEN options.chainparams ELSE MainParams,
     notifications        |-> options.notifications,
     validation_interface |-> options.validation_interface,
     interrupted          |-> FALSE]

\* ContextImpl::ContextImpl: what the options hold is copied under their
\* lock, the validation interface is registered with the new signals; chain
\* parameters that are not set become those of the main chain,
\* notifications that are not set a KernelNotifications that does nothing.
ContextImpl(options) ==
    [sane                 |-> TRUE,
     chainparams          |-> IF options.chainparams # NULL
                              THEN options.chainparams ELSE MainParams,
     notifications        |-> IF options.notifications # NULL
                              THEN options.notifications ELSE {},
     validation_interface |-> options.validation_interface,
     interrupted          |-> FALSE]

\* The two constructors: m_impl is reset when the sanity check fails.
Construct(c, options) ==
    /\ context[c] = NULL
    /\ \E sane \in Outcomes("sanity") :
        context' = [context EXCEPT ![c] = IF sane THEN ContextImpl(options) ELSE Insane]
    /\ given' = [given EXCEPT ![c] = options]
    /\ UNCHANGED <<vars, ctxOptions, chainmanOptions, chainman, warnings, seen, alive>>

\* Context::Context(const ContextOptions&), kernel_context_create.
ContextFromOptions(c) == ctxOptions # NULL /\ Construct(c, ctxOptions)

\* Context::Context(): the options are new ones.
ContextDefault(c) ==
    Construct(c, NoOptions)

\* The client keeps the context: it is the one it made its options or
\* its manager from, or the one the manager refers to through the copy of
\* the options it was given.
Referenced(c) ==
    \/ chainmanOptions # NULL /\ chainmanOptions.notifications = c
    \/ chainman # NULL /\ chainman.context = c
    \/ KeepsOptionsContext /\ chainman # NULL /\ chainman.notifications = c

\* A null m_impl is dereferenced: the process dies and every object of
\* the client with it; what the engine did and what the client was handed
\* stay as they are.
Die ==
    /\ alive' = FALSE
    /\ ctxOptions' = NULL /\ chainmanOptions' = NULL /\ chainman' = NULL
    /\ context' = [c \in Contexts |-> NULL]
    /\ given' = [c \in Contexts |-> NULL]
    /\ UNCHANGED <<vars, warnings, seen>>

\* m_impl of context c is read without a test, and it is null.
DerefNull(c) == context[c] = Insane /\ Die

\* Context::~Context: the interface is unregistered, the objects go.
DestroyContext(c) ==
    \/ /\ Sane(c) /\ ~Referenced(c)
       /\ context' = [context EXCEPT ![c] = NULL]
       /\ given' = [given EXCEPT ![c] = NULL]
       /\ UNCHANGED <<vars, ctxOptions, chainmanOptions, chainman, warnings, seen, alive>>
    \/ DerefNull(c)

\* Context::Interrupt, kernel_context_interrupt: the signal is raised, and
\* the manager that polls it sees it.
InterruptContext(c) ==
    \/ /\ Sane(c) /\ ~context[c].interrupted
       /\ context' = [context EXCEPT ![c].interrupted = TRUE]
       /\ interrupt' = (interrupt \/ (chainman # NULL /\ chainman.interrupt = c))
       /\ UNCHANGED <<engine, proc, ret, fatal, client, reader>>
       /\ UNCHANGED <<ctxOptions, given, chainmanOptions, chainman, warnings, seen, alive>>
    \/ DerefNull(c)

-----------------------------------------------------------------------------
(* ChainstateManagerOptions                                                *)

\* ChainstateManagerOptionsImpl: the options of the engine refer to the
\* chain parameters and the notifications of the context; no validation
\* signals are named.
ChainstateManagerOptionsImpl(c) ==
    [chainparams |-> c, notifications |-> c, signals |-> NULL]

\* ChainstateManagerOptions::ChainstateManagerOptions,
\* kernel_chainstate_manager_options_create: nothing is returned when the
\* directories cannot be created.
CreateChainmanOptions(c) ==
    /\ chainmanOptions = NULL
    /\ \/ /\ Sane(c)
          /\ \E ok \in Outcomes("directories") :
                chainmanOptions' = IF ok THEN ChainstateManagerOptionsImpl(c) ELSE NULL
          /\ UNCHANGED <<vars, ctxOptions, context, given, chainman, warnings, seen, alive>>
       \/ DerefNull(c)

\* ChainstateManagerOptions::~ChainstateManagerOptions.
DestroyChainmanOptions ==
    /\ chainmanOptions # NULL
    /\ chainmanOptions' = NULL
    /\ UNCHANGED <<vars, ctxOptions, context, given, chainman, warnings, seen, alive>>

-----------------------------------------------------------------------------
(* ChainstateManager                                                       *)

\* A variant of the manager that polls the signal of the context its
\* options were made from.
ChainstateManagerImplOfOptions(c, opts, ok) ==
    [valid |-> ok, context |-> c, interrupt |-> opts.notifications,
     notifications |-> opts.notifications, signals |-> opts.signals]

\* ChainstateManagerImpl: the engine is given the interrupt signal of the
\* context passed to the constructor and a copy of the options, with what
\* they refer to.
ChainstateManagerImpl(c, opts, ok) ==
    [valid |-> ok, context |-> c, interrupt |-> c,
     notifications |-> opts.notifications, signals |-> opts.signals]

\* ChainstateManager::ChainstateManager, kernel_chainstate_manager_create:
\* m_impl is reset when loading, verifying or activating fails.
CreateChainman(c) ==
    /\ chainman = NULL /\ chainmanOptions # NULL
    /\ \/ /\ Sane(c)
          /\ \E ok \in Outcomes("load") :
                /\ chainman' = ChainstateManagerImpl(c, chainmanOptions, ok)
                /\ interrupt' = context[chainman'.interrupt].interrupted
          /\ UNCHANGED <<engine, proc, ret, fatal, client, reader>>
          /\ UNCHANGED <<ctxOptions, context, given, chainmanOptions, warnings, seen, alive>>
       \/ DerefNull(c)

\* ChainstateManager::~ChainstateManager, kernel_chainstate_manager_destroy,
\* between two calls.
DestroyChainman ==
    /\ chainman \notin {NULL, Closed} /\ proc = NULL
    /\ chainman' = IF chainman.valid THEN Closed ELSE NULL
    /\ UNCHANGED <<vars, ctxOptions, context, given, chainmanOptions, warnings, seen, alive>>

Running == chainman # NULL /\ chainman.valid

\* The callbacks the manager's notifications end in, and the validation
\* interface registered with the signals its options name, if any.
Notifications == context[chainman.notifications].notifications
Observer ==
    IF chainman.signals = NULL THEN NULL
    ELSE context[chainman.signals].validation_interface

\* What a step of the engine hands the client: the new tip, a fatal error,
\* and the verdicts of the blocks checked.
Delivered ==
    LET tip == IF tipSeen' # tipSeen
               THEN Handler(seen, Notifications, "block_tip", tipSeen') ELSE seen
        err == IF fatal' /\ ~fatal
               THEN Handler(tip, Notifications, "fatal_error", NULL) ELSE tip
    IN  BlockCheckedCallback(err, Observer, checked')

\* ChainstateManager::ProcessBlock, kernel_chainstate_manager_process_block,
\* and the steps of the activation it starts, with the callbacks they make.
ProcessBlockStep ==
    /\ Running
    /\ (\E b \in Blocks : ProcessBlock(b)) \/ ActivateBestChain
    /\ seen' = Delivered
    /\ UNCHANGED <<wiring, warnings>>

\* engine: notifications while a block is processed.
headerTip(state) ==
    /\ Running /\ proc # NULL
    /\ seen' = Handler(seen, Notifications, "header_tip", state)
    /\ UNCHANGED <<vars, wiring, warnings>>

progress ==
    /\ Running /\ proc # NULL
    /\ seen' = Handler(seen, Notifications, "progress", NULL)
    /\ UNCHANGED <<vars, wiring, warnings>>

flushError ==
    /\ Running /\ proc # NULL
    /\ seen' = Handler(seen, Notifications, "flush_error", NULL)
    /\ UNCHANGED <<vars, wiring, warnings>>

\* engine: a warning condition begins to hold, or is found to hold still.
warningSet(id) ==
    /\ Running /\ proc # NULL
    /\ warnings' = warnings \cup {id}
    /\ seen' = Handler(seen, Notifications, "warning_set", id)
    /\ UNCHANGED <<vars, wiring>>

\* engine: a warning condition is found not to hold.
warningUnset(id) ==
    /\ Running /\ proc # NULL
    /\ warnings' = warnings \ {id}
    /\ seen' = Handler(seen, Notifications, "warning_unset", id)
    /\ UNCHANGED <<vars, wiring>>
-----------------------------------------------------------------------------
(* Specification                                                           *)

SessionInit ==
    /\ Init
    /\ ctxOptions = NULL
    /\ context = [c \in Contexts |-> NULL]
    /\ given = [c \in Contexts |-> NULL]
    /\ chainmanOptions = NULL /\ chainman = NULL
    /\ alive = TRUE
    /\ warnings = {}
    /\ seen = [tip |-> NULL, checked |-> [b \in Blocks |-> NULL], warnings |-> {},
               fatal |-> FALSE, last |-> NULL]

ContextOptionsStep ==
    \/ CreateContextOptions
    \/ \E t \in ChainTypeChoices : SetChainParameters(t)
    \/ \E cbs \in NotificationChoices : SetNotifications(cbs)
    \/ \E cbs \in ValidationChoices : SetValidationInterface(cbs)
    \/ DestroyContextOptions

ContextStep(c) ==
    \/ c \in OptionContexts /\ ContextFromOptions(c)
    \/ ContextDefault(c)
    \/ InterruptContext(c)
    \/ DestroyContext(c)

ChainmanStep ==
    \/ \E c \in Contexts : CreateChainmanOptions(c) \/ CreateChainman(c)
    \/ DestroyChainmanOptions
    \/ ProcessBlockStep
    \/ DestroyChainman

NotificationStep ==
    \/ \E state \in SyncStates : headerTip(state)
    \/ progress
    \/ flushError
    \/ \E id \in Warnings : warningSet(id) \/ warningUnset(id)

\* A process that died takes no step.
Dead == ~alive /\ UNCHANGED allVars

SessionNext ==
    \/ alive /\ ContextOptionsStep
    \/ alive /\ \E c \in Contexts : ContextStep(c)
    \/ alive /\ ChainmanStep
    \/ alive /\ NotificationStep
    \/ Dead

SessionSpec == SessionInit /\ [][SessionNext]_allVars

-----------------------------------------------------------------------------
(* Properties                                                              *)

Callbacks(choices) == choices \cup {NULL}

SessionTypeOK ==
    /\ ctxOptions \in {NULL} \cup
          [chainparams : Range(get_chain_type) \cup {NULL},
           notifications : Callbacks(NotificationChoices),
           validation_interface : Callbacks(ValidationChoices)]
    /\ \A c \in Contexts :
          context[c] \in {NULL, Insane} \cup
              [sane : {TRUE}, chainparams : Range(get_chain_type),
               notifications : NotificationChoices \cup {{}},
               validation_interface : Callbacks(ValidationChoices),
               interrupted : BOOLEAN]
    /\ chainmanOptions \in {NULL} \cup
          [chainparams : Contexts, notifications : Contexts, signals : {NULL}]
    /\ chainman \in {NULL, Closed} \cup
          [valid : BOOLEAN, context : Contexts, interrupt : Contexts,
           notifications : Contexts, signals : Contexts \cup {NULL}]
    /\ \A o \in {chainmanOptions, chainman} \ {NULL, Closed} :
          Sane(o.notifications) /\ (o = chainman => Sane(o.context))
    /\ warnings \subseteq Warning /\ alive \in BOOLEAN
    /\ seen.warnings \subseteq Range(cast_kernel_warning)

\* The callbacks the client set on the options from which it constructed
\* the context that the manager's options were made from.
Asked == given[chainman.notifications]
Wants(cb) == Asked.notifications # NULL /\ cb \in Asked.notifications

\* A client that set a block_tip callback is handed every tip the engine
\* connects and no other entry, a client that set fatal_error learns of a
\* fatal error, and a member left null is never called: ContextImpl copies
\* the notifications of the options, ChainstateManagerOptionsImpl refers to
\* the copy, and CallbackKernelNotifications tests the member before the
\* call, whatever was done to the options or to other contexts in between.
ClientHearsEngine ==
    Running =>
        /\ seen.tip = IF Wants("block_tip") THEN tipSeen ELSE NULL
        /\ seen.fatal = (Wants("fatal_error") /\ fatal)

\* The notifications a manager reports to are alive as long as the manager
\* is, for a client that keeps alive the context it passed to the
\* constructor of every object it holds: the header names no other object
\* a ChainstateManager depends on.  ChainstateManagerImpl copies the
\* engine's options, and with them the references to the notifications and
\* the chain parameters of the context the options were made from.
NotificationsOutliveManager ==
    chainman \notin {NULL, Closed} => context[chainman.notifications] # NULL

\* Once the context a manager was constructed with has been interrupted,
\* the manager connects and disconnects no block: ChainstateManagerImpl
\* hands the engine the signal of that context, not one of its own or of
\* the context its options were made from.
InterruptStopsManager ==
    [][(chainman \notin {NULL, Closed} /\ context[chainman.context].interrupted)
            => chain' = chain]_allVars

\* When no warning condition holds in the engine, a client that set both
\* warning callbacks believes none set: every warningUnset reaches
\* WarningUnsetHandler and clears what WarningSetHandler reported.
WarningsClearedForClient ==
    (Running /\ Wants("warning_set") /\ Wants("warning_unset") /\ warnings = {})
        => seen.warnings = {}

\* The warning a client takes a kernel_Warning for.
WarningOfKernel ==
    [ kernel_UNKNOWN_NEW_RULES_ACTIVATED |-> "UNKNOWN_NEW_RULES_ACTIVATED",
      kernel_LARGE_WORK_INVALID_CHAIN    |-> "LARGE_WORK_INVALID_CHAIN" ]

\* A client that set both warning callbacks knows which warning conditions
\* hold: the identifier passed to warning_set and warning_unset is that of
\* the warning the engine raised or cleared (cast_kernel_warning).
ClientKnowsWarnings ==
    (Running /\ Wants("warning_set") /\ Wants("warning_unset"))
        => { WarningOfKernel[k] : k \in seen.warnings } = warnings

\* A client that registered a validation interface with a block_checked
\* callback is handed the verdict of every block the manager checks: the
\* interface is registered with the validation signals of the context
\* (ContextImpl), and ProcessBlock reports to BlockChecked.
ObserverSeesVerdicts ==
    (Running /\ Asked.validation_interface # NULL
             /\ "block_checked" \in Asked.validation_interface)
        => seen.checked = checked
=============================================================================
