----------------------------- MODULE LogPrivate ------------------------------
(***************************************************************************)
(* The logger singleton behind the Logger facade                           *)
(* (common/private/logger/logger_p.cpp): how it gets its spdlog logger     *)
(* from a YAML file or from defaults, how it falls back when that fails,   *)
(* and how callbacks are attached to and detached from it.                 *)
(*                                                                         *)
(* The calls are made by one thread and run to their end: the class does   *)
(* not synchronise them.  Which exception a call raises, and what has      *)
(* already changed when it is raised, decides what the next call finds.    *)
(* Beside that thread, spdlog's worker logs what an asynchronous logger    *)
(* has put into the queue of the thread pool (AsyncLogger has its steps).  *)
(*                                                                         *)
(* Abstractions.  A configuration file is one of the kinds below, told     *)
(* apart by where loadConfigFile leaves it.  Of a logger only its sinks    *)
(* count: those the file names, whether it has a stream sink, and the      *)
(* callback sinks, numbered in the order they are created.  The queued     *)
(* messages are one bit: those of one logger are logged together.          *)
(***************************************************************************)
EXTENDS Naturals

CONSTANTS
    Paths,          \* configuration file paths
    DefaultPath,    \* "./log_config.yaml"
    Ids,            \* identifiers m_id8Generator can produce
    IdsCollide,     \* whether it may produce one that is in use
    MaxSinks,       \* bound: callback sinks created
    MaxEdits,       \* bound: configuration files edited from outside
    MaxRestarts     \* bound: restarts of the process

ASSUME ConstantsAssumption ==
    /\ DefaultPath \in Paths
    /\ IdsCollide \in BOOLEAN
    /\ MaxSinks \in Nat /\ MaxEdits \in Nat /\ MaxRestarts \in Nat

(***************************************************************************)
(* absent, broken: no file, no YAML, or no log_config/logger node          *)
(* scalar:    the document is a scalar, indexing it throws YAML::Exception *)
(* badType:   a value of the wrong type, or a sink or thread pool whose    *)
(*            constructor throws something else than spdlog_ex             *)
(* badSink:   the sinks node is missing or not a sequence, or a sink or    *)
(*            thread pool whose constructor throws spdlog_ex               *)
(* unsized:   a rotating_file sink without a max_size                      *)
(* empty:     the sequence of sinks is empty, async is false               *)
(* good, defaults: sinks that can be built, async is false; defaults is    *)
(*            what loadDefaultConfig writes                                *)
(* async:     sinks that can be built, async is true                       *)
(***************************************************************************)
Contents == {"absent", "broken", "scalar", "badType", "badSink",
             "unsized", "empty", "good", "async", "defaults"}

VARIABLES
    content,    \* what each configuration file holds
    writable,   \* paths the process may create, write and delete
    logsOk,     \* the log files the sinks name can be opened
    built,      \* the static instance has been constructed
    path,       \* m_configFilePath
    logger,     \* m_logger
    cbMap,      \* m_callbackSinks: identifier to sink, 0 for none
    outcome,    \* how the last configuration call ended
    regs,       \* registrations the program holds: identifier and sink
    removed,    \* sinks of registrations the program has removed
    queued,     \* messages wait in the queue of the thread pool
    left,       \* callback sinks of a replaced logger that queued them
    gone,       \* sinks removed before the last of them was logged
    crashed,    \* a null m_logger was dereferenced
    nextSink, edits, restarts

config == <<content, path, logger, outcome>>
callbacks == <<cbMap, regs, removed, nextSink>>
pool == <<queued, left, gone>>
environment == <<writable, logsOk>>
bounds == <<edits, restarts>>
vars == <<config, callbacks, pool, environment, built, crashed, bounds>>

NoLogger ==
    [null |-> TRUE, fileSinks |-> FALSE, async |-> FALSE, stream |-> FALSE, cbs |-> {}]
Logger(withSinks, async) ==
    [null |-> FALSE, fileSinks |-> withSinks, async |-> async, stream |-> FALSE, cbs |-> {}]

\* m_logger after a change of its vector of sinks.
LoggerWith(stream, cbs) ==
    [null |-> FALSE, fileSinks |-> logger.fileSinks, async |-> logger.async,
     stream |-> stream, cbs |-> cbs]

-----------------------------------------------------------------------------
(* loadConfigFile and loadDefaultConfig                                    *)

\* max_size * 8 * 1024, computed in an int of 32 bits, in units of 8 KiB; and the
\* max_size a sink without one gets.
Blocks(maxSize) == maxSize % 2^19
DefaultMaxSize == 52428800

\* The sinks the file lists are built, if the log files can be opened.
SinksBuilt(c) ==
    /\ logsOk
    /\ c \in {"good", "async", "defaults"} \/ (c = "unsized" /\ Blocks(DefaultMaxSize) # 0)

\* Faulty variant: an empty list of sinks is an error.
ThrowsOnEmpty(c) ==
    IF c \in {"scalar", "badType"} THEN "other"
    ELSE IF SinksBuilt(c) THEN "none" ELSE "spdlog_ex"

\* The exception that leaves loadConfigFile.
Throws(c) ==
    IF c \in {"scalar", "badType"} THEN "other"
    ELSE IF c = "empty" \/ SinksBuilt(c) THEN "none" ELSE "spdlog_ex"

\* The load got as far as the assignment of m_configFilePath.
SetsPath(c) == c \notin {"absent", "broken", "scalar"}

\* m_logger after loadConfigFile: it is reset first, so an exception leaves it
\* null; with an empty list of sinks the console logger that is made first is
\* replaced by one without sinks.
LoggerFrom(c) ==
    IF Throws(c) = "none" THEN Logger(c # "empty", c = "async") ELSE NoLogger

\* Faulty variant: the defaults are saved and not loaded.
AfterDefaultsUnloaded(p) ==
    LET c == IF p \in writable THEN "defaults" ELSE content[p]
    IN  [content |-> [content EXCEPT ![p] = c], path |-> p,
         logger |-> NoLogger, threw |-> FALSE]

\* loadDefaultConfig(p): write the defaults, which an ofstream that does not
\* open silently skips, and load the file; exceptions end here.
AfterDefaults(p) ==
    LET c == IF p \in writable THEN "defaults" ELSE content[p]
    IN  [content |-> [content EXCEPT ![p] = c], path |-> p,
         logger |-> LoggerFrom(c), threw |-> FALSE]

\* loadConfigFile(p) inside the try of the constructor and of setConfigPath:
\* spdlog_ex leads to the defaults, anything else goes to the caller.
AfterLoad(p) ==
    LET c == content[p]
    IN  IF Throws(c) = "spdlog_ex" THEN AfterDefaults(p)
        ELSE [content |-> content, path |-> IF SetsPath(c) THEN p ELSE path,
              logger |-> LoggerFrom(c), threw |-> Throws(c) = "other"]

\* What a load leaves of the queue: init_thread_pool ends the pool there was, whose
\* workers log what waits first; without it the messages stay, and keep the logger
\* that queued them, which m_logger does not point to any more.
PoolAfter(new) ==
    IF new.async THEN queued' = FALSE /\ left' = {} /\ gone' = {}
    ELSE /\ left' = IF queued /\ logger.async THEN logger.cbs ELSE left
         /\ UNCHANGED <<queued, gone>>

Init ==
    /\ content \in [Paths -> Contents]
    /\ writable \in SUBSET Paths
    /\ logsOk \in BOOLEAN
    /\ built = FALSE
    /\ path = DefaultPath
    /\ logger = NoLogger
    /\ cbMap = [i \in Ids |-> 0]
    /\ outcome = "none"
    /\ regs = {} /\ removed = {}
    /\ queued = FALSE /\ left = {} /\ gone = {}
    /\ crashed = FALSE
    /\ nextSink = 1 /\ edits = 0 /\ restarts = 0

-----------------------------------------------------------------------------
(* Operations.  Every call goes through getInstance(), whose first success *)
(* constructs the object; if the constructor throws, the next call tries   *)
(* again.                                                                  *)

\* LogPrivate::LogPrivate()
Construct ==
    /\ ~built /\ ~crashed
    /\ LET r == AfterLoad(DefaultPath)
       IN  /\ content' = r.content /\ path' = r.path
           /\ built' = ~r.threw
           /\ logger' = r.logger /\ PoolAfter(r.logger)
           /\ outcome' = IF r.threw THEN "threw" ELSE "ok"
    /\ UNCHANGED <<callbacks, environment, crashed, bounds>>

\* deleteOldConfig(old) after the load: fs::remove throws when it may not
\* delete.
DeleteOld(files, old) ==
    IF files[old] # "absent" /\ old \in writable
    THEN [files EXCEPT ![old] = "absent"] ELSE files

SetConfigPath(p, isDeleteOldConfig) ==
    /\ built /\ ~crashed
    /\ LET r == AfterLoad(p)
           deletes == isDeleteOldConfig /\ ~r.threw
       IN  /\ path' = r.path
           /\ logger' = r.logger /\ PoolAfter(r.logger)
           /\ content' = IF deletes THEN DeleteOld(r.content, path) ELSE r.content
           /\ outcome' = IF r.threw \/ (deletes /\ r.content[path] # "absent"
                                                /\ path \notin writable)
                         THEN "threw" ELSE "ok"
    /\ UNCHANGED <<callbacks, environment, built, crashed, bounds>>

\* logImpl dereferences m_logger without a test.  An asynchronous logger queues
\* the message.
Log ==
    /\ built /\ ~crashed
    /\ crashed' = logger.null
    /\ IF logger.async THEN queued' = TRUE /\ gone' = removed /\ UNCHANGED left
       ELSE UNCHANGED pool
    /\ UNCHANGED <<config, callbacks, environment, built, bounds>>

\* A worker logs what waits, to the sinks its logger has by then; or shutdown ends
\* the pool, after which log calls queue nothing.
Deliver ==
    /\ queued
    /\ queued' = FALSE /\ left' = {} /\ gone' = {}
    /\ UNCHANGED <<config, callbacks, environment, built, crashed, bounds>>

\* So does setStreamOutPut, which adds a sink nobody can remove.
SetStreamOutPut ==
    /\ built /\ ~crashed
    /\ IF logger.null THEN crashed' = TRUE /\ UNCHANGED logger
       ELSE logger' = LoggerWith(TRUE, logger.cbs) /\ UNCHANGED crashed
    /\ UNCHANGED <<content, path, outcome, callbacks, pool, environment, built, bounds>>

\* What the generator may produce: it hashes a counter and the clock to 8 digits,
\* so an identifier that is still registered can come again.
NewIds == {id \in Ids : IdsCollide \/ cbMap[id] = 0}

\* Faulty variant: the sink registered under the same identifier stays.
AddCallBackSinkKeepsOld(id) ==
    /\ built /\ ~crashed /\ ~logger.null
    /\ nextSink <= MaxSinks
    /\ id \in NewIds
    /\ logger' = LoggerWith(logger.stream, logger.cbs \cup {nextSink})
    /\ cbMap' = [cbMap EXCEPT ![id] = nextSink]
    /\ regs' = regs \cup {[id |-> id, sink |-> nextSink]}
    /\ nextSink' = nextSink + 1
    /\ UNCHANGED <<content, path, outcome, removed, pool, environment, built, crashed, bounds>>

\* addCallBackSink, with the identifier the generator produced: a sink already
\* registered under it is taken out.
AddCallBackSink(id) ==
    /\ built /\ ~crashed /\ ~logger.null
    /\ nextSink <= MaxSinks
    /\ id \in NewIds
    /\ logger' = LoggerWith(logger.stream, (logger.cbs \ {cbMap[id]}) \cup {nextSink})
    /\ cbMap' = [cbMap EXCEPT ![id] = nextSink]
    /\ regs' = regs \cup {[id |-> id, sink |-> nextSink]}
    /\ nextSink' = nextSink + 1
    /\ UNCHANGED <<content, path, outcome, removed, pool, environment, built, crashed, bounds>>

\* Faulty variant: the entry is erased and the sink stays in the logger.
RemoveCallBackSinkFromMap(r) ==
    /\ built /\ ~crashed
    /\ IF logger.null THEN UNCHANGED cbMap
       ELSE cbMap' = [cbMap EXCEPT ![r.id] = 0]
    /\ regs' = regs \ {r}
    /\ removed' = removed \cup {r.sink}
    /\ UNCHANGED <<content, path, outcome, logger, nextSink, pool, environment, built, crashed, bounds>>

\* Faulty variant: the identifier can not be looked up any more.
RemoveCallBackSinkErasesKey(r) ==
    /\ built /\ ~crashed
    /\ IF logger.null THEN UNCHANGED <<logger, cbMap>>
       ELSE /\ logger' = LoggerWith(logger.stream, logger.cbs \ {cbMap[r.id]})
            /\ cbMap' = [i \in DOMAIN cbMap \ {r.id} |-> cbMap[i]]
    /\ regs' = regs \ {r}
    /\ removed' = removed \cup {r.sink}
    /\ UNCHANGED <<content, path, outcome, nextSink, pool, environment, built, crashed, bounds>>

\* removeCallBackSink for a registration the program holds.  With a null logger
\* the call returns at once.
RemoveCallBackSink(r) ==
    /\ built /\ ~crashed
    /\ IF logger.null THEN UNCHANGED <<logger, cbMap>>
       ELSE /\ logger' = LoggerWith(logger.stream, logger.cbs \ {cbMap[r.id]})
            /\ cbMap' = [cbMap EXCEPT ![r.id] = 0]
    /\ regs' = regs \ {r}
    /\ removed' = removed \cup {r.sink}
    /\ UNCHANGED <<content, path, outcome, nextSink, pool, environment, built, crashed, bounds>>

\* Somebody edits a configuration file.
EditConfig(p, c) ==
    /\ edits < MaxEdits
    /\ content' = [content EXCEPT ![p] = c]
    /\ edits' = edits + 1
    /\ UNCHANGED <<path, logger, outcome, callbacks, pool, environment, built, crashed, restarts>>

\* Everything but the files is gone, and another process starts.
StartAgain ==
    /\ restarts < MaxRestarts
    /\ built' = FALSE /\ crashed' = FALSE
    /\ path' = DefaultPath /\ logger' = NoLogger /\ outcome' = "none"
    /\ cbMap' = [i \in Ids |-> 0] /\ regs' = {} /\ removed' = {}
    /\ queued' = FALSE /\ left' = {} /\ gone' = {}
    /\ restarts' = restarts + 1
    /\ UNCHANGED <<nextSink, environment, edits>>

\* The process ends, by a crash or not.
Restart == StartAgain /\ UNCHANGED content

\* It dies in loadDefaultConfig, after the ofstream has emptied the file and before
\* the defaults are in it.
DieSavingDefaults(p) ==
    /\ ~crashed /\ (built \/ p = DefaultPath)
    /\ Throws(content[p]) = "spdlog_ex" /\ p \in writable
    /\ content' = [content EXCEPT ![p] = "broken"]
    /\ StartAgain

Next ==
    \/ Construct
    \/ \E p \in Paths, del \in BOOLEAN : SetConfigPath(p, del)
    \/ Log
    \/ Deliver
    \/ SetStreamOutPut
    \/ \E id \in Ids : AddCallBackSink(id)
    \/ \E r \in regs : RemoveCallBackSink(r)
    \/ \E p \in Paths, c \in Contents : EditConfig(p, c)
    \/ Restart
    \/ \E p \in Paths : DieSavingDefaults(p)

Spec == Init /\ [][Next]_vars

-----------------------------------------------------------------------------
(* Properties.                                                             *)

\* Types of the variables.
TypeOK ==
    /\ content \in [Paths -> Contents]
    /\ writable \in SUBSET Paths /\ logsOk \in BOOLEAN
    /\ built \in BOOLEAN /\ crashed \in BOOLEAN
    /\ path \in Paths
    /\ logger \in [null: BOOLEAN, fileSinks: BOOLEAN, async: BOOLEAN,
                  stream: BOOLEAN, cbs: SUBSET Nat]
    /\ cbMap \in [Ids -> Nat]
    /\ outcome \in {"none", "ok", "threw"}
    /\ regs \subseteq [id: Ids, sink: Nat]
    /\ removed \subseteq Nat
    /\ queued \in BOOLEAN /\ left \subseteq Nat /\ gone \subseteq Nat
    /\ nextSink \in Nat /\ edits \in Nat /\ restarts \in Nat

\* The fallback works: a configuration call that returned normally leaves a
\* logger, whatever the file held and whatever was called before, provided the
\* defaults can be saved and the log files opened.
DefaultsRescue ==
    built /\ outcome = "ok" /\ logsOk /\ path \in writable => ~logger.null

\* No message logged after the removal of a callback reaches it: the logger does not
\* have its sink, whatever was reloaded and whatever identifiers were produced twice,
\* and neither has a replaced logger whose queue still holds such a message.  A
\* message logged before the removal may reach it later: when a synchronous logger
\* replaces an asynchronous one, what waits in the queue keeps the old logger, and
\* removeCallBackSink takes the sink out of the new one only.
RemovedNotCalled == removed \cap logger.cbs = {} /\ gone \cap left = {}

\* Every callback sink of the logger can be found by its identifier, so it can
\* be removed.
CallbacksRemovable == \A s \in logger.cbs : \E id \in Ids : cbMap[id] = s

\* Nothing but an edit changes a configuration that can be loaded: no call and no
\* death of the process replaces it by the defaults or empties it, and setConfigPath
\* deletes the one that was in use, no other.
WorkingConfigKept ==
    [][\A p \in Paths :
         /\ content[p] \in {"good", "async", "empty"} /\ logsOk /\ edits' = edits
         /\ content'[p] # content[p]
         => content'[p] = "absent" /\ built /\ p = path]_vars
=============================================================================
