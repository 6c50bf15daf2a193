---------------------------- MODULE KernelLogging ----------------------------
(***************************************************************************)
(* Logging: the class Logger of kernel/bitcoinkernel.cpp with its          *)
(* LoggerImpl, the setters of categories, levels and format switches, and  *)
(* the C functions of kernel/types.h in front of them with the conversions *)
(* of their arguments.                                                     *)
(*                                                                         *)
(* All Logger objects share the global log instance.  Its list of print    *)
(* callbacks and its buffering flag are the state the constructor and the  *)
(* destructor of LoggerImpl coordinate through: the first connection       *)
(* starts logging, the last one to go puts the log instance back to        *)
(* buffering.  Each call into the log instance takes the instance's lock   *)
(* for itself, so a constructor or destructor is a sequence of steps, and  *)
(* pc records where each Logger object is.                                 *)
(*                                                                         *)
(* The log instance is not part of the sources.  What is assumed of it is  *)
(* what LoggerImpl's comments say: it buffers until logging is started, it *)
(* is not buffering while it has a connection, and it is enabled while it  *)
(* buffers or has a callback.  Of its configuration the model keeps what   *)
(* the setters write: the mask of enabled categories, the levels and the   *)
(* format switches.  The messages and their filtering are left out.        *)
(***************************************************************************)
EXTENDS Integers, Sequences, FiniteSets, SequencesExt

CONSTANTS
    Loggers,        \* the Logger objects a client may have at a time
    StartOutcomes,  \* what StartLogging may do: "started", "failed", "threw"
    Concurrent,     \* TRUE: threads construct and destroy Loggers concurrently
    Categories,     \* the kernel_LogCategory values a client passes
    Levels,         \* the kernel_LogLevel values a client passes
    Switches        \* the format switches a client sets

-----------------------------------------------------------------------------
(* Conversions of kernel/types.h                                           *)

\* get_bclog_level: the BCLog::Level of a kernel_LogLevel.
get_bclog_level ==
    [ kernel_LOG_INFO  |-> "Info",
      kernel_LOG_DEBUG |-> "Debug",
      kernel_LOG_TRACE |-> "Trace" ]

\* A variant of get_bclog_flag with the flag of one case in another.
get_bclog_flag_conflated ==
    [ kernel_LOG_BENCH        |-> "BENCH",
      kernel_LOG_BLOCKSTORAGE |-> "BLOCKSTORAGE",
      kernel_LOG_COINDB       |-> "COINDB",
      kernel_LOG_LEVELDB      |-> "LEVELDB",
      kernel_LOG_MEMPOOL      |-> "MEMPOOL",
      kernel_LOG_PRUNE        |-> "PRUNE",
      kernel_LOG_RAND         |-> "RAND",
      kernel_LOG_REINDEX      |-> "REINDEX",
      kernel_LOG_VALIDATION   |-> "VALIDATION",
      kernel_LOG_KERNEL       |-> "VALIDATION",
      kernel_LOG_ALL          |-> "ALL" ]

\* get_bclog_flag: the BCLog::LogFlags of a kernel_LogCategory.
get_bclog_flag ==
    [ kernel_LOG_BENCH        |-> "BENCH",
      kernel_LOG_BLOCKSTORAGE |-> "BLOCKSTORAGE",
      kernel_LOG_COINDB       |-> "COINDB",
      kernel_LOG_LEVELDB      |-> "LEVELDB",
      kernel_LOG_MEMPOOL      |-> "MEMPOOL",
      kernel_LOG_PRUNE        |-> "PRUNE",
      kernel_LOG_RAND         |-> "RAND",
      kernel_LOG_REINDEX      |-> "REINDEX",
      kernel_LOG_VALIDATION   |-> "VALIDATION",
      kernel_LOG_KERNEL       |-> "KERNEL",
      kernel_LOG_ALL          |-> "ALL" ]

\* The categories a message can have, and the members of the log instance
\* the format setters write.
LogFlags == { "BENCH", "BLOCKSTORAGE", "COINDB", "LEVELDB", "MEMPOOL", "PRUNE",
              "RAND", "REINDEX", "VALIDATION", "KERNEL" }
FormatSwitches ==
    { "m_always_print_category_level", "m_log_timestamps", "m_log_time_micros",
      "m_log_threadnames", "m_log_sourcelocations" }

ASSUME ConstantsOK ==
    /\ IsFiniteSet(Loggers)
    /\ StartOutcomes \subseteq {"started", "failed", "threw"}
    /\ Concurrent \in BOOLEAN
    /\ Categories \subseteq DOMAIN get_bclog_flag
    /\ Levels \subseteq DOMAIN get_bclog_level
    /\ Switches \subseteq FormatSwitches

VARIABLES
    callbacks,  \* m_print_callbacks of the log instance: the Loggers connected, in order
    buffering,  \* the log instance keeps messages until logging is started
    disabled,   \* DisableLogging was called
    pc,         \* per Logger: where its constructor or destructor is
    fault,      \* an iterator that is not in the list was erased
    conf,       \* the configuration of the log instance
    asked       \* history: the kernel_LogCategory values the client has enabled

connections == <<callbacks, buffering, disabled, pc, fault>>
vars == <<callbacks, buffering, disabled, pc, fault, conf, asked>>

\* A Logger that is not inside its constructor or destructor.
Stable == {"none", "connected", "invalid"}

\* The steps of a Logger may be taken now: the process is running, and no
\* other Logger is halfway unless threads run concurrently.
MayStep(l) ==
    /\ ~fault
    /\ Concurrent \/ \A m \in Loggers \ {l} : pc[m] \in Stable

-----------------------------------------------------------------------------
(* The log instance                                                        *)

\* LogInstance().NumConnections() == 1
IsFirst == Len(callbacks) = 1

\* LogInstance().Enabled()
Enabled == buffering \/ callbacks # <<>>

\* LogInstance().DeleteCallback(m_connection): std::list::erase of the
\* stored iterator, which must be an element of the list.
DeleteCallback(l) ==
    /\ callbacks' = Remove(callbacks, l)
    /\ fault' = ~Contains(callbacks, l)

-----------------------------------------------------------------------------
(* Logger::Logger, LoggerImpl::LoggerImpl                                  *)

\* kernel_logging_connection_create, first step of the constructor:
\* m_connection = LogInstance().PushBackCallback(...).
CtorPushBackCallback(l) ==
    /\ MayStep(l) /\ pc[l] = "none"
    /\ callbacks' = Append(callbacks, l)
    /\ pc' = [pc EXCEPT ![l] = "pushed"]
    /\ UNCHANGED <<buffering, disabled, fault>>

\* A variant of the test that starts logging when the list is empty.
CtorCountConnectionsOffByOne(l) ==
    /\ MayStep(l) /\ pc[l] = "pushed"
    /\ pc' = [pc EXCEPT ![l] = IF callbacks = <<>> THEN "starting" ELSE "connected"]
    /\ UNCHANGED <<callbacks, buffering, disabled, fault>>

\* "Only start logging if we just added the connection."
CtorCountConnections(l) ==
    /\ MayStep(l) /\ pc[l] = "pushed"
    /\ pc' = [pc EXCEPT ![l] = IF IsFirst THEN "starting" ELSE "connected"]
    /\ UNCHANGED <<callbacks, buffering, disabled, fault>>

\* A variant of the constructor whose failure paths leave the callback in
\* the list.
CtorStartLoggingNoCleanup(l) ==
    /\ MayStep(l) /\ pc[l] = "starting"
    /\ \E outcome \in StartOutcomes :
        /\ pc' = [pc EXCEPT ![l] = IF outcome = "threw" THEN "invalid" ELSE "connected"]
        /\ buffering' = (buffering /\ outcome # "started")
        /\ UNCHANGED <<callbacks, fault>>
    /\ UNCHANGED disabled

\* LogInstance().StartLogging() and what the constructor does with its
\* result.  When it returns false the callback is deleted and construction
\* goes on: the Logger is valid and holds the iterator of a callback that is
\* gone.  When it throws the callback is deleted, the exception leaves the
\* constructor, and Logger::Logger sets m_impl to nullptr.
CtorStartLogging(l) ==
    /\ MayStep(l) /\ pc[l] = "starting"
    /\ \E outcome \in StartOutcomes :
        /\ pc' = [pc EXCEPT ![l] = IF outcome = "threw" THEN "invalid" ELSE "connected"]
        /\ IF outcome = "started"
           THEN buffering' = FALSE /\ UNCHANGED <<callbacks, fault>>
           ELSE DeleteCallback(l) /\ UNCHANGED buffering
    /\ UNCHANGED disabled

-----------------------------------------------------------------------------
(* Logger::~Logger, LoggerImpl::~LoggerImpl                                *)

\* A variant of the destructor that leaves its callback in the list.
DtorKeepCallback(l) ==
    /\ MayStep(l) /\ pc[l] = "connected"
    /\ pc' = [pc EXCEPT ![l] = "deleted"]
    /\ UNCHANGED <<callbacks, buffering, disabled, fault>>

\* kernel_logging_connection_destroy of a valid Logger, first step of the
\* destructor: LogInstance().DeleteCallback(m_connection).
DtorDeleteCallback(l) ==
    /\ MayStep(l) /\ pc[l] = "connected"
    /\ DeleteCallback(l)
    /\ pc' = [pc EXCEPT ![l] = "deleted"]
    /\ UNCHANGED <<buffering, disabled>>

\* A variant of the destructor that never disconnects.
DtorNeverDisconnect(l) ==
    /\ MayStep(l) /\ pc[l] = "deleted"
    /\ pc' = [pc EXCEPT ![l] = "none"]
    /\ UNCHANGED <<callbacks, buffering, disabled, fault>>

\* A variant of the destructor that disconnects without asking.
DtorAlwaysDisconnect(l) ==
    /\ MayStep(l) /\ pc[l] = "deleted"
    /\ pc' = [pc EXCEPT ![l] = "disconnecting"]
    /\ UNCHANGED <<callbacks, buffering, disabled, fault>>

\* if (!LogInstance().Enabled()): was this the last connection?
DtorCheckEnabled(l) ==
    /\ MayStep(l) /\ pc[l] = "deleted"
    /\ pc' = [pc EXCEPT ![l] = IF Enabled THEN "none" ELSE "disconnecting"]
    /\ UNCHANGED <<callbacks, buffering, disabled, fault>>

\* LogInstance().DisconnectTestLogger(): the log instance drops every
\* callback and buffers again.
DtorDisconnect(l) ==
    /\ MayStep(l) /\ pc[l] = "disconnecting"
    /\ callbacks' = <<>>
    /\ buffering' = TRUE
    /\ pc' = [pc EXCEPT ![l] = "none"]
    /\ UNCHANGED <<disabled, fault>>

\* kernel_logging_connection_destroy of a Logger whose m_impl is null:
\* the unique_ptr has nothing to destroy.
DestroyInvalid(l) ==
    /\ MayStep(l) /\ pc[l] = "invalid"
    /\ pc' = [pc EXCEPT ![l] = "none"]
    /\ UNCHANGED <<callbacks, buffering, disabled, fault>>

-----------------------------------------------------------------------------
(* kernel_disable_logging                                                  *)

\* DisableLogging(): the log instance drops what it has buffered and stops
\* buffering.  The client calls it once, while it has no Logger; nothing in
\* the code keeps it from constructing one afterwards.
DisableLogging ==
    /\ ~fault /\ ~disabled /\ \A l \in Loggers : pc[l] = "none"
    /\ disabled' = TRUE
    /\ buffering' = FALSE
    /\ UNCHANGED <<callbacks, pc, fault>>

-----------------------------------------------------------------------------
(* Categories, levels and format switches                                  *)

\* The bits of a flag in the mask of enabled categories: ALL is every bit.
Bits(flag) == IF flag = "ALL" THEN LogFlags ELSE {flag}

\* AddLogLevelCategory: ALL sets the level of the log instance, and every
\* category, ALL included, is given its own level.
AddLogLevelCategory(category, level) ==
    conf' = [conf EXCEPT
        !.m_log_level = IF category = "ALL" THEN level ELSE @,
        !.m_category_log_levels[category] = level]

EnableLogCategory(category) ==
    conf' = [conf EXCEPT !.m_categories = @ \cup Bits(category)]

DisableLogCategory(category) ==
    conf' = [conf EXCEPT !.m_categories = @ \ Bits(category)]

\* SetLogAlwaysPrintCategoryLevel, SetLogTimestamps, SetLogTimeMicros,
\* SetLogThreadnames, SetLogSourcelocations: a member is assigned.
SetLogSwitch(switch, value) ==
    conf' = [conf EXCEPT !.format[switch] = value]

\* What the client takes kernel_LOG_ALL for: every category.
Meant(category) ==
    IF category = "kernel_LOG_ALL" THEN DOMAIN get_bclog_flag \ {category}
    ELSE {category}

kernel_add_log_level_category(category, level) ==
    /\ AddLogLevelCategory(get_bclog_flag[category], get_bclog_level[level])
    /\ UNCHANGED asked

kernel_enable_log_category(category) ==
    /\ EnableLogCategory(get_bclog_flag[category])
    /\ asked' = asked \cup Meant(category)

kernel_disable_log_category(category) ==
    /\ DisableLogCategory(get_bclog_flag[category])
    /\ asked' = asked \ Meant(category)

\* kernel_set_log_always_print_category_level, kernel_set_log_timestamps,
\* kernel_set_log_time_micros, kerenl_set_log_threadname and
\* kernel_set_log_sourcelocations.
kernel_set_log(switch, value) ==
    /\ SetLogSwitch(switch, value)
    /\ UNCHANGED asked

\* The setters may be called at any time, by any thread.
Configure ==
    /\ ~fault
    /\ \/ \E category \in Categories :
            \/ \E level \in Levels : kernel_add_log_level_category(category, level)
            \/ kernel_enable_log_category(category)
            \/ kernel_disable_log_category(category)
       \/ \E switch \in Switches, value \in BOOLEAN : kernel_set_log(switch, value)
    /\ UNCHANGED connections

-----------------------------------------------------------------------------
(* Specification                                                           *)

\* The log instance of a process that has not touched it.
DefaultConf ==
    [ m_categories          |-> {},
      m_log_level           |-> "Debug",
      m_category_log_levels |-> [f \in LogFlags \cup {"ALL"} |-> "none"],
      format                |-> [s \in FormatSwitches |-> s = "m_log_timestamps"] ]

Init ==
    /\ callbacks = <<>>
    /\ buffering = TRUE
    /\ disabled = FALSE
    /\ pc = [l \in Loggers |-> "none"]
    /\ fault = FALSE
    /\ conf = DefaultConf
    /\ asked = {}

Constructor(l) ==
    \/ CtorPushBackCallback(l)
    \/ CtorCountConnections(l)
    \/ CtorStartLogging(l)

Destructor(l) ==
    \/ DtorDeleteCallback(l)
    \/ DtorCheckEnabled(l)
    \/ DtorDisconnect(l)
    \/ DestroyInvalid(l)

\* new Logger and delete of a Logger that is not null, one step at a time.
kernel_logging_connection_create(l) == Constructor(l)
kernel_logging_connection_destroy(l) == Destructor(l)
kernel_disable_logging == DisableLogging

Connect ==
    /\ \/ \E l \in Loggers :
            kernel_logging_connection_create(l) \/ kernel_logging_connection_destroy(l)
       \/ kernel_disable_logging
    /\ UNCHANGED <<conf, asked>>

Next == Connect \/ Configure

Spec == Init /\ [][Next]_vars

-----------------------------------------------------------------------------
(* Properties                                                              *)

TypeOK ==
    /\ callbacks \in Seq(Loggers) /\ Len(callbacks) <= Cardinality(Loggers)
    /\ buffering \in BOOLEAN /\ disabled \in BOOLEAN /\ fault \in BOOLEAN
    /\ pc \in [Loggers -> Stable \cup {"pushed", "starting", "deleted", "disconnecting"}]
    /\ conf \in [m_categories : SUBSET LogFlags,
                 m_log_level : Range(get_bclog_level),
                 m_category_log_levels :
                    [LogFlags \cup {"ALL"} -> Range(get_bclog_level) \cup {"none"}],
                 format : [FormatSwitches -> BOOLEAN]]
    /\ asked \subseteq DOMAIN get_bclog_flag

\* The callback list and the Logger objects agree: a Logger that was
\* constructed and not yet destroyed has its callback in the list, and the
\* list holds no callback of a Logger that is gone or invalid.  This is what
\* the cleanup in the constructor's catch block and the DeleteCallback of
\* the destructor are for.
ConnectionsMatchLoggers ==
    \A l \in Loggers :
        /\ pc[l] = "connected" => Contains(callbacks, l)
        /\ Contains(callbacks, l) => pc[l] \in {"pushed", "starting", "connected"}

\* "We are not buffering if we have a connection": once a Logger is
\* constructed its callback receives the messages, whichever Logger was the
\* one to start logging and whichever were destroyed since.
ConnectedMeansStarted ==
    (\E l \in Loggers : pc[l] = "connected") => ~buffering

\* With no Logger left the log instance buffers again, so that the next
\* first connection finds it as the first one did: the destructor of the
\* last Logger calls DisconnectTestLogger.
BufferingWhenUnconnected ==
    (~disabled /\ \A l \in Loggers : pc[l] \in {"none", "invalid"}) => buffering

\* The categories the log instance has enabled are those the client
\* enabled and has not disabled since, one by one or all at once with
\* kernel_LOG_ALL: get_bclog_flag gives every category of the C API a flag
\* of its own, so that disabling one category leaves the others as set.
CategoriesAreTheClients ==
    conf.m_categories = { get_bclog_flag[category] : category \in asked }

\* Once DisableLogging was called the log instance holds no messages back
\* for a connection to come.  The destructor of LoggerImpl does not know of
\* DisableLogging: when the last Logger goes it calls DisconnectTestLogger
\* as it does in a process that never disabled logging.
DisabledNeverBuffers == disabled => ~buffering

\* DeleteCallback is only given an iterator of a callback that is in the
\* list: no callback is erased twice, by the constructor's failure path and
\* again by the destructor, or after DisconnectTestLogger dropped it.
NoInvalidErase == ~fault
=============================================================================
