-------------------------- MODULE LogPrivateProofs ---------------------------
(***************************************************************************)
(* Proofs about the logger singleton, for any set of files and identifiers *)
(* and any number of calls, edits, sinks and restarts: the state is well   *)
(* typed, the fallback to the defaults works, no message logged after the  *)
(* removal of a callback reaches it, every callback of the logger can be   *)
(* removed, and no call destroys a configuration that can be loaded.       *)
(***************************************************************************)
EXTENDS LogPrivate, TLAPS

LoggerState == [null: BOOLEAN, fileSinks: BOOLEAN, async: BOOLEAN, stream: BOOLEAN,
                cbs: SUBSET Nat]

\* Sinks are numbered from 1 in the order they are created, and a sink the program
\* has a registration of is in m_callbackSinks under the identifier of that
\* registration or not at all.
CallbackInv ==
    /\ 1 <= nextSink
    /\ logger.null => logger.cbs = {}
    /\ \A id \in Ids : cbMap[id] < nextSink
    /\ \A s \in logger.cbs : s < nextSink
    /\ \A s \in removed : s < nextSink
    /\ \A r \in regs : 1 <= r.sink /\ r.sink < nextSink
    /\ \A r \in regs : \A id \in Ids : cbMap[id] = r.sink => id = r.id
    /\ CallbacksRemovable
    /\ removed \cap logger.cbs = {}

\* What waits was logged with the removals made by then, and only a synchronous logger
\* leaves a replaced one to the queue, with the sinks it had.
QueueInv ==
    /\ gone \subseteq removed
    /\ logger.async => left = {}
    /\ gone \cap left = {}

\* The constructors of m_logger.
LEMMA Loggers ==
    /\ NoLogger \in LoggerState /\ NoLogger.null = TRUE /\ NoLogger.cbs = {}
    /\ NoLogger.async = FALSE
    /\ \A b, a \in BOOLEAN :
         /\ Logger(b, a) \in LoggerState
         /\ Logger(b, a).null = FALSE /\ Logger(b, a).cbs = {}
<1>1. /\ NoLogger \in LoggerState /\ NoLogger.null = TRUE /\ NoLogger.cbs = {}
      /\ NoLogger.async = FALSE
  BY DEF NoLogger, LoggerState
<1>2. ASSUME NEW b \in BOOLEAN, NEW a \in BOOLEAN
      PROVE  /\ Logger(b, a) \in LoggerState
             /\ Logger(b, a).null = FALSE /\ Logger(b, a).cbs = {}
  BY DEF Logger, LoggerState
<1> QED
  BY <1>1, <1>2

\* A change of the sinks of a logger.
LEMMA ChangedLogger ==
    ASSUME logger \in LoggerState, NEW b \in BOOLEAN, NEW S \in SUBSET Nat
    PROVE  /\ LoggerWith(b, S) \in LoggerState
           /\ LoggerWith(b, S).null = FALSE
           /\ LoggerWith(b, S).cbs = S
           /\ LoggerWith(b, S).async = logger.async
BY DEF LoggerWith, LoggerState

\* A load makes a logger if and only if it does not throw.
LEMMA LoadedLogger ==
    ASSUME NEW c
    PROVE  /\ LoggerFrom(c) \in LoggerState /\ LoggerFrom(c).cbs = {}
           /\ Throws(c) = "none" => LoggerFrom(c).null = FALSE
<1>1. CASE Throws(c) = "none"
  <2>1. LoggerFrom(c) = Logger(c # "empty", c = "async")
    BY <1>1 DEF LoggerFrom
  <2> QED
    BY <2>1, Loggers
<1>2. CASE Throws(c) # "none"
  <2>1. LoggerFrom(c) = NoLogger
    BY <1>2 DEF LoggerFrom
  <2> QED
    BY <1>2, <2>1, Loggers
<1> QED
  BY <1>1, <1>2

\* What loadConfigFile and the fallback to the defaults do: a logger that has no
\* callbacks, and is there when the defaults can be saved and the log files
\* opened, unless an exception is passed on; a file that can be loaded is kept.
LEMMA LoadResult ==
    ASSUME TypeOK, NEW p \in Paths
    PROVE  /\ AfterLoad(p).content \in [Paths -> Contents]
           /\ AfterLoad(p).path \in Paths
           /\ AfterLoad(p).threw \in BOOLEAN
           /\ AfterLoad(p).logger \in LoggerState
           /\ AfterLoad(p).logger.cbs = {}
           /\ logsOk /\ AfterLoad(p).path \in writable /\ ~AfterLoad(p).threw
                => AfterLoad(p).logger.null = FALSE
           /\ \A q \in Paths : content[q] \in {"good", "async", "empty"} /\ logsOk
                => AfterLoad(p).content[q] = content[q]
<1> DEFINE c == content[p]
<1>0. /\ content \in [Paths -> Contents] /\ path \in Paths /\ logsOk \in BOOLEAN
      /\ "defaults" \in Contents
  BY DEF TypeOK, Contents
<1>1. Throws(c) \in {"none", "other", "spdlog_ex"}
  BY DEF Throws
<1>2. CASE Throws(c) = "spdlog_ex"
  <2> DEFINE d == IF p \in writable THEN "defaults" ELSE c
  <2>1. AfterLoad(p) = [content |-> [content EXCEPT ![p] = d], path |-> p,
                        logger |-> LoggerFrom(d), threw |-> FALSE]
    BY <1>2 DEF AfterLoad, AfterDefaults
  <2>2. /\ AfterLoad(p).content = [content EXCEPT ![p] = d] /\ AfterLoad(p).path = p
        /\ AfterLoad(p).logger = LoggerFrom(d) /\ AfterLoad(p).threw = FALSE
    BY <2>1
  <2>3. logsOk /\ p \in writable => LoggerFrom(d).null = FALSE
    <3> SUFFICES ASSUME logsOk, p \in writable PROVE Throws("defaults") = "none"
      BY LoadedLogger
    <3> QED
      BY DEF Throws, SinksBuilt
  <2>4. ASSUME NEW q \in Paths, content[q] \in {"good", "async", "empty"}, logsOk PROVE q # p
    <3>1. content[q] \notin {"scalar", "badType"}
      BY <2>4
    <3>2. Throws(content[q]) = "none"
      BY <2>4, <3>1 DEF Throws, SinksBuilt
    <3> QED
      BY <1>2, <3>2
  <2>5. [content EXCEPT ![p] = d] \in [Paths -> Contents]
    BY <1>0
  <2>6. \A q \in Paths \ {p} : [content EXCEPT ![p] = d][q] = content[q]
    BY <1>0
  <2> HIDE DEF d
  <2> QED
    BY <1>0, <2>2, <2>3, <2>4, <2>5, <2>6, LoadedLogger
<1>3. CASE Throws(c) # "spdlog_ex"
  <2>1. AfterLoad(p) = [content |-> content, path |-> IF SetsPath(c) THEN p ELSE path,
                        logger |-> LoggerFrom(c), threw |-> Throws(c) = "other"]
    BY <1>3 DEF AfterLoad
  <2>2. /\ AfterLoad(p).content = content
        /\ AfterLoad(p).path = IF SetsPath(c) THEN p ELSE path
        /\ AfterLoad(p).logger = LoggerFrom(c) /\ AfterLoad(p).threw = (Throws(c) = "other")
    BY <2>1
  <2>3. ~AfterLoad(p).threw => Throws(c) = "none"
    BY <1>1, <1>3, <2>2
  <2>4. AfterLoad(p).threw \in BOOLEAN
    BY <2>2
  <2>5. AfterLoad(p).path \in Paths
    BY <1>0, <2>2
  <2> QED
    BY <1>0, <2>2, <2>3, <2>4, <2>5, LoadedLogger
<1> QED
  BY <1>2, <1>3

\* What deleteOldConfig leaves: the file of the previous path is the only one it
\* may change.
LEMMA DeleteResult ==
    ASSUME NEW files \in [Paths -> Contents], NEW old \in Paths
    PROVE  /\ DeleteOld(files, old) \in [Paths -> Contents]
           /\ \A q \in Paths : DeleteOld(files, old)[q] # files[q] =>
                DeleteOld(files, old)[q] = "absent" /\ q = old
BY DEF DeleteOld, Contents

\* How a step changes the queue of the thread pool: it is emptied, left to a replaced
\* logger, given a message, or not touched.
LEMMA PoolChange ==
    ASSUME TypeOK, [Next]_vars
    PROVE  \/ queued' = FALSE /\ left' = {} /\ gone' = {}
           \/ /\ queued' = queued /\ gone' = gone /\ ~logger'.async /\ removed' = removed
              /\ left' = IF queued /\ logger.async THEN logger.cbs ELSE left
           \/ /\ queued' = TRUE /\ gone' = removed /\ left' = left
              /\ logger.async /\ removed' = removed
           \/ /\ UNCHANGED pool
              /\ logger'.async = logger.async /\ removed \subseteq removed'
<1> USE DEF config, callbacks, environment, bounds
<1>1. ASSUME NEW r, PoolAfter(r), logger' = r, removed' = removed
      PROVE  \/ queued' = FALSE /\ left' = {} /\ gone' = {}
             \/ /\ queued' = queued /\ gone' = gone /\ ~logger'.async /\ removed' = removed
                /\ left' = IF queued /\ logger.async THEN logger.cbs ELSE left
  BY <1>1 DEF PoolAfter
<1>2. CASE Construct
  BY <1>1, <1>2, ConstantsAssumption DEF Construct
<1>3. ASSUME NEW p \in Paths, NEW del \in BOOLEAN, SetConfigPath(p, del)
      PROVE  \/ queued' = FALSE /\ left' = {} /\ gone' = {}
             \/ /\ queued' = queued /\ gone' = gone /\ ~logger'.async /\ removed' = removed
                /\ left' = IF queued /\ logger.async THEN logger.cbs ELSE left
  BY <1>1, <1>3 DEF SetConfigPath
<1>4. CASE Log
  BY <1>4 DEF Log
<1>5. CASE Deliver \/ StartAgain
  BY <1>5 DEF Deliver, StartAgain
<1>6. CASE (\E p \in Paths, c \in Contents : EditConfig(p, c)) \/ UNCHANGED vars
  BY <1>6 DEF EditConfig, vars
<1>7. CASE SetStreamOutPut
  <2>1. UNCHANGED pool /\ logger'.async = logger.async /\ removed' = removed
    BY <1>7 DEF SetStreamOutPut, LoggerWith
  <2> QED
    BY <2>1
<1>8. ASSUME NEW id \in Ids, AddCallBackSink(id)
      PROVE  UNCHANGED pool /\ logger'.async = logger.async /\ removed' = removed
  BY <1>8 DEF AddCallBackSink, LoggerWith
<1>9. ASSUME NEW r \in regs, RemoveCallBackSink(r)
      PROVE  UNCHANGED pool /\ logger'.async = logger.async /\ removed \subseteq removed'
  BY <1>9 DEF RemoveCallBackSink, LoggerWith
<1> QED
  BY <1>2, <1>3, <1>4, <1>5, <1>6, <1>7, <1>8, <1>9 DEF Next, Restart, DieSavingDefaults

\* Types of what describes the queue.
PoolType == queued \in BOOLEAN /\ left \subseteq Nat /\ gone \subseteq Nat

LEMMA PoolTypeStep ==
    ASSUME TypeOK, [Next]_vars
    PROVE  PoolType'
<1>1. PoolType /\ removed \subseteq Nat /\ logger.cbs \subseteq Nat
  BY DEF TypeOK, PoolType
<1>2. left' \subseteq Nat /\ gone' \subseteq Nat
  BY <1>1, PoolChange DEF PoolType, pool
<1>3. queued' \in BOOLEAN
  BY <1>1, PoolChange DEF PoolType, pool
<1> QED
  BY <1>2, <1>3 DEF PoolType

-----------------------------------------------------------------------------
\* Every variable keeps its type: the file system, the configuration and logger of
\* the singleton, and the callback bookkeeping.
THEOREM TypeCorrect == Spec => []TypeOK
<1>0. DefaultPath \in Paths /\ "absent" \in Contents /\ "broken" \in Contents
  BY ConstantsAssumption DEF Contents
<1>1. Init => TypeOK
  <2> SUFFICES ASSUME Init PROVE TypeOK
    OBVIOUS
  <2>1. logger \in LoggerState
    BY Loggers DEF Init
  <2>2. built \in BOOLEAN /\ crashed \in BOOLEAN
    BY DEF Init
  <2> QED
    BY <1>0, <2>1, <2>2 DEF Init, TypeOK, LoggerState
<1>2. TypeOK /\ [Next]_vars => TypeOK'
  <2> SUFFICES ASSUME TypeOK, [Next]_vars PROVE TypeOK'
    OBVIOUS
  <2> USE DEF config, callbacks, pool, environment, bounds
  <2>p. PoolType'
    BY PoolTypeStep
  <2>0. /\ content \in [Paths -> Contents] /\ path \in Paths /\ logger \in LoggerState
        /\ cbMap \in [Ids -> Nat] /\ regs \subseteq [id: Ids, sink: Nat]
        /\ logger.cbs \in SUBSET Nat /\ logger.stream \in BOOLEAN
        /\ logger.null \in BOOLEAN /\ logger.async \in BOOLEAN
    BY DEF TypeOK, LoggerState
  <2>1. CASE Construct
    <3>1. (AfterLoad(DefaultPath).threw \in BOOLEAN) => built' \in BOOLEAN
      BY <2>1 DEF Construct
    <3>2. /\ content' = AfterLoad(DefaultPath).content /\ path' = AfterLoad(DefaultPath).path
          /\ logger' = AfterLoad(DefaultPath).logger
          /\ outcome' \in {"none", "ok", "threw"}
          /\ UNCHANGED <<callbacks, environment, crashed, bounds>>
      BY <2>1 DEF Construct
    <3> QED
      BY <1>0, <3>1, <3>2, LoadResult, <2>p DEF TypeOK, LoggerState, PoolType
  <2>2. ASSUME NEW p \in Paths, NEW del \in BOOLEAN, SetConfigPath(p, del) PROVE TypeOK'
    <3>1. /\ path' = AfterLoad(p).path /\ logger' = AfterLoad(p).logger
          /\ \/ content' = AfterLoad(p).content
             \/ content' = DeleteOld(AfterLoad(p).content, path)
          /\ outcome' \in {"none", "ok", "threw"}
          /\ UNCHANGED <<callbacks, environment, built, crashed, bounds>>
      BY <2>2 DEF SetConfigPath
    <3>2. content' \in [Paths -> Contents]
      <4>1. AfterLoad(p).content \in [Paths -> Contents]
        BY LoadResult
      <4>2. DeleteOld(AfterLoad(p).content, path) \in [Paths -> Contents]
        BY <2>0, <4>1, DeleteResult
      <4> QED
        BY <3>1, <4>1, <4>2
    <3> QED
      BY <3>1, <3>2, LoadResult, <2>p DEF TypeOK, LoggerState, PoolType
  <2>3. CASE Log
    <3>1. crashed' \in BOOLEAN
      BY <2>0, <2>3 DEF Log
    <3> QED
      BY <2>3, <3>1, <2>p DEF Log, TypeOK, PoolType
  <2>4. CASE SetStreamOutPut
    <3>1. LoggerWith(TRUE, logger.cbs) \in LoggerState
      BY <2>0, ChangedLogger
    <3>2. crashed' \in BOOLEAN
      BY <2>4 DEF SetStreamOutPut, TypeOK
    <3>3. logger' \in LoggerState
      BY <2>0, <2>4, <3>1 DEF SetStreamOutPut
    <3> QED
      BY <2>4, <3>2, <3>3, <2>p DEF SetStreamOutPut, TypeOK, LoggerState, PoolType
  <2>5. ASSUME NEW id \in Ids, AddCallBackSink(id) PROVE TypeOK'
    <3>1. logger' \in LoggerState
      BY <2>0, <2>5, ChangedLogger DEF AddCallBackSink, TypeOK
    <3>2. regs' \subseteq [id: Ids, sink: Nat] /\ cbMap' \in [Ids -> Nat] /\ nextSink' \in Nat
      BY <2>0, <2>5 DEF AddCallBackSink, TypeOK
    <3> QED
      BY <2>5, <3>1, <3>2, <2>p DEF AddCallBackSink, TypeOK, LoggerState, PoolType
  <2>6. ASSUME NEW r \in regs, RemoveCallBackSink(r) PROVE TypeOK'
    <3>0. r.id \in Ids /\ r.sink \in Nat
      BY <2>0
    <3>1. logger' \in LoggerState
      <4>1. logger.cbs \ {cbMap[r.id]} \in SUBSET Nat
        BY <2>0
      <4>2. LoggerWith(logger.stream, logger.cbs \ {cbMap[r.id]}) \in LoggerState
        BY <2>0, <4>1, ChangedLogger
      <4> QED
        BY <2>0, <2>6, <4>2 DEF RemoveCallBackSink
    <3>2. /\ regs' \subseteq [id: Ids, sink: Nat] /\ cbMap' \in [Ids -> Nat]
          /\ removed' \subseteq Nat
      <4>1. cbMap' = cbMap \/ cbMap' = [cbMap EXCEPT ![r.id] = 0]
        BY <2>6 DEF RemoveCallBackSink
      <4>2. regs' = regs \ {r} /\ removed' = removed \cup {r.sink}
        BY <2>6 DEF RemoveCallBackSink
      <4>3. removed \subseteq Nat
        BY DEF TypeOK
      <4>4. regs' \subseteq [id: Ids, sink: Nat]
        BY <2>0, <4>2
      <4>5. removed' \subseteq Nat
        BY <3>0, <4>2, <4>3
      <4> QED
        BY <2>0, <4>1, <4>4, <4>5
    <3> QED
      BY <2>6, <3>1, <3>2, <2>p DEF RemoveCallBackSink, TypeOK, LoggerState, PoolType
  <2>7. ASSUME NEW p \in Paths, NEW c \in Contents, EditConfig(p, c) PROVE TypeOK'
    BY <2>7, <2>p DEF EditConfig, TypeOK, PoolType
  <2>8. ASSUME StartAgain, content' \in [Paths -> Contents] PROVE TypeOK'
    <3>1. logger' \in LoggerState
      BY <2>8, Loggers DEF StartAgain
    <3>2. built' \in BOOLEAN /\ crashed' \in BOOLEAN
      BY <2>8 DEF StartAgain
    <3> QED
      BY <1>0, <2>8, <3>1, <3>2, <2>p DEF StartAgain, TypeOK, LoggerState, PoolType
  <2>9. CASE Restart
    BY <2>0, <2>8, <2>9 DEF Restart
  <2>10. ASSUME NEW p \in Paths, DieSavingDefaults(p) PROVE TypeOK'
    BY <1>0, <2>0, <2>8, <2>10 DEF DieSavingDefaults
  <2>11. CASE Deliver
    BY <2>11, <2>p DEF Deliver, TypeOK, PoolType
  <2>12. CASE UNCHANGED vars
    BY <2>12, <2>p DEF vars, TypeOK, PoolType
  <2> QED
    BY <2>1, <2>2, <2>3, <2>4, <2>5, <2>6, <2>7, <2>9, <2>10, <2>11, <2>12 DEF Next
<1> QED
  BY <1>1, <1>2, PTL DEF Spec

-----------------------------------------------------------------------------
\* A configuration call that returned normally leaves a logger when the defaults
\* can be saved and the log files opened.
THEOREM DefaultsAlwaysRescue == Spec => []DefaultsRescue
<1>0. DefaultPath \in Paths
  BY ConstantsAssumption
<1>1. Init => DefaultsRescue
  BY DEF Init, DefaultsRescue
<1>2. TypeOK /\ DefaultsRescue /\ [Next]_vars => DefaultsRescue'
  <2> SUFFICES ASSUME TypeOK, DefaultsRescue, [Next]_vars PROVE DefaultsRescue'
    OBVIOUS
  <2> USE DEF config, callbacks, environment, bounds
  <2>0. logger \in LoggerState /\ logger.cbs \in SUBSET Nat /\ logger.stream \in BOOLEAN
    BY DEF TypeOK, LoggerState
  <2>1. ASSUME NEW p \in Paths, path' = AfterLoad(p).path, logger' = AfterLoad(p).logger,
               AfterLoad(p).threw => outcome' = "threw", UNCHANGED environment
        PROVE  DefaultsRescue'
    <3> SUFFICES ASSUME outcome' = "ok", logsOk', path' \in writable'
                 PROVE  logger'.null = FALSE
      BY DEF DefaultsRescue
    <3>1. ~AfterLoad(p).threw
      BY <2>1
    <3> QED
      BY <2>1, <3>1, LoadResult
  <2>2. CASE Construct
    BY <1>0, <2>1, <2>2 DEF Construct
  <2>3. ASSUME NEW p \in Paths, NEW del \in BOOLEAN, SetConfigPath(p, del)
        PROVE  DefaultsRescue'
    BY <2>1, <2>3 DEF SetConfigPath
  <2>4. ASSUME logger' = logger \/ ~logger'.null, UNCHANGED <<built, outcome, path, environment>>
        PROVE  DefaultsRescue'
    BY <2>4 DEF DefaultsRescue
  <2>5. CASE SetStreamOutPut
    BY <2>0, <2>4, <2>5, ChangedLogger DEF SetStreamOutPut
  <2>6. ASSUME NEW id \in Ids, AddCallBackSink(id) PROVE DefaultsRescue'
    <3>1. ~logger.null
      BY <2>6 DEF AddCallBackSink
    <3>2. LoggerWith(logger.stream, (logger.cbs \ {cbMap[id]}) \cup {nextSink}).null = FALSE
      <4>1. (logger.cbs \ {cbMap[id]}) \cup {nextSink} \in SUBSET Nat
        BY <2>0 DEF TypeOK
      <4> QED
        BY <2>0, <4>1, ChangedLogger
    <3> QED
      BY <2>4, <2>6, <3>1, <3>2 DEF AddCallBackSink
  <2>7. ASSUME NEW r \in regs, RemoveCallBackSink(r) PROVE DefaultsRescue'
    <3>1. LoggerWith(logger.stream, logger.cbs \ {cbMap[r.id]}).null = FALSE
      BY DEF LoggerWith
    <3> QED
      BY <2>4, <2>7, <3>1 DEF RemoveCallBackSink
  <2>8. CASE Log \/ Deliver \/ (\E p \in Paths, c \in Contents : EditConfig(p, c)) \/ UNCHANGED vars
    BY <2>4, <2>8 DEF Log, Deliver, EditConfig, vars
  <2>9. CASE StartAgain
    BY <2>9 DEF StartAgain, DefaultsRescue
  <2> QED
    BY <2>2, <2>3, <2>5, <2>6, <2>7, <2>8, <2>9 DEF Next, Restart, DieSavingDefaults
<1> QED
  BY <1>1, <1>2, TypeCorrect, PTL DEF Spec

-----------------------------------------------------------------------------
\* Every step keeps CallbackInv: a sink that is added is a new one, and replaces
\* the registration of its identifier.
LEMMA CallbackStep ==
    ASSUME TypeOK, CallbackInv, [Next]_vars
    PROVE  CallbackInv'
<1> USE DEF config, callbacks, environment, bounds
<1>0. /\ logger \in LoggerState /\ logger.cbs \in SUBSET Nat /\ logger.stream \in BOOLEAN
      /\ cbMap \in [Ids -> Nat] /\ regs \subseteq [id: Ids, sink: Nat]
      /\ nextSink \in Nat /\ removed \subseteq Nat
  BY DEF TypeOK, LoggerState
<1>1. ASSUME logger'.cbs = {}, UNCHANGED callbacks PROVE CallbackInv'
  BY <1>1 DEF CallbackInv, CallbacksRemovable
<1>2. ASSUME logger'.cbs = logger.cbs, logger'.null => logger.null, UNCHANGED callbacks
      PROVE  CallbackInv'
  BY <1>2 DEF CallbackInv, CallbacksRemovable
<1>3. CASE Construct \/ \E p \in Paths, del \in BOOLEAN : SetConfigPath(p, del)
  <2>1. PICK p \in Paths : logger' = AfterLoad(p).logger /\ UNCHANGED callbacks
    BY <1>3, ConstantsAssumption DEF Construct, SetConfigPath
  <2> QED
    BY <1>1, <2>1, LoadResult
<1>4. CASE SetStreamOutPut
  BY <1>0, <1>2, <1>4, ChangedLogger DEF SetStreamOutPut
<1>5. ASSUME NEW id \in Ids, AddCallBackSink(id) PROVE CallbackInv'
  <2>1. /\ nextSink' = nextSink + 1 /\ removed' = removed
        /\ regs' = regs \cup {[id |-> id, sink |-> nextSink]}
        /\ cbMap'[id] = nextSink /\ \A i \in Ids \ {id} : cbMap'[i] = cbMap[i]
    BY <1>0, <1>5 DEF AddCallBackSink
  <2>2. /\ logger'.null = FALSE
        /\ logger'.cbs = (logger.cbs \ {cbMap[id]}) \cup {nextSink}
    BY <1>0, <1>5, ChangedLogger DEF AddCallBackSink
  <2>3. /\ 1 <= nextSink'
        /\ \A i \in Ids : cbMap'[i] < nextSink'
        /\ \A s \in logger'.cbs : s < nextSink'
        /\ \A s \in removed' : s < nextSink'
    <3>1. 1 <= nextSink' /\ nextSink < nextSink'
      BY <1>0, <2>1 DEF CallbackInv
    <3>2. \A n \in Nat : n < nextSink => n < nextSink'
      BY <1>0, <2>1
    <3>3. \A i \in Ids : cbMap'[i] < nextSink'
      BY <1>0, <2>1, <3>1, <3>2 DEF CallbackInv
    <3>4. \A s \in logger'.cbs : s < nextSink'
      BY <1>0, <2>2, <3>1, <3>2 DEF CallbackInv
    <3>5. \A s \in removed' : s < nextSink'
      BY <1>0, <2>1, <3>2 DEF CallbackInv
    <3> QED
      BY <3>1, <3>3, <3>4, <3>5
  <2>4. \A r \in regs' : 1 <= r.sink /\ r.sink < nextSink'
    BY <1>0, <2>1 DEF CallbackInv
  <2>5. \A r \in regs' : \A i \in Ids : cbMap'[i] = r.sink => i = r.id
    BY <1>0, <2>1 DEF CallbackInv
  <2>6. CallbacksRemovable'
    BY <1>0, <2>1, <2>2 DEF CallbackInv, CallbacksRemovable
  <2>7. removed' \cap logger'.cbs = {}
    BY <1>0, <2>1, <2>2 DEF CallbackInv
  <2> QED
    BY <2>2, <2>3, <2>4, <2>5, <2>6, <2>7 DEF CallbackInv
<1>6. ASSUME NEW r \in regs, RemoveCallBackSink(r) PROVE CallbackInv'
  <2>0. r.id \in Ids /\ r.sink \in Nat
    BY <1>0
  <2>1. /\ nextSink' = nextSink /\ removed' = removed \cup {r.sink} /\ regs' \subseteq regs
    BY <1>6 DEF RemoveCallBackSink
  <2>2. CASE logger.null
    <3>1. UNCHANGED <<logger, cbMap>>
      BY <1>6, <2>2 DEF RemoveCallBackSink
    <3> QED
      BY <1>0, <2>0, <2>1, <2>2, <3>1 DEF CallbackInv, CallbacksRemovable
  <2>3. CASE ~logger.null
    <3>1. /\ logger'.null = FALSE /\ logger'.cbs = logger.cbs \ {cbMap[r.id]}
          /\ cbMap'[r.id] = 0 /\ \A i \in Ids \ {r.id} : cbMap'[i] = cbMap[i]
      <4>1. /\ logger' = LoggerWith(logger.stream, logger.cbs \ {cbMap[r.id]})
            /\ cbMap' = [cbMap EXCEPT ![r.id] = 0]
        BY <1>6, <2>3 DEF RemoveCallBackSink
      <4>2. logger.cbs \ {cbMap[r.id]} \in SUBSET Nat
        BY <1>0
      <4>3. logger'.null = FALSE /\ logger'.cbs = logger.cbs \ {cbMap[r.id]}
        BY <1>0, <4>1, <4>2, ChangedLogger
      <4> QED
        BY <1>0, <2>0, <4>1, <4>3
    <3>2. /\ 1 <= nextSink'
          /\ \A i \in Ids : cbMap'[i] < nextSink'
          /\ \A s \in logger'.cbs : s < nextSink'
          /\ \A s \in removed' : s < nextSink'
          /\ \A q \in regs' : 1 <= q.sink /\ q.sink < nextSink'
      BY <1>0, <2>0, <2>1, <3>1 DEF CallbackInv
    <3>3. \A q \in regs' : \A i \in Ids : cbMap'[i] = q.sink => i = q.id
      BY <1>0, <2>0, <2>1, <3>1 DEF CallbackInv
    <3>4. CallbacksRemovable'
      BY <1>0, <2>0, <3>1 DEF CallbackInv, CallbacksRemovable
    <3>5. r.sink \notin logger'.cbs
      BY <1>0, <2>0, <3>1 DEF CallbackInv, CallbacksRemovable
    <3>6. removed' \cap logger'.cbs = {}
      BY <2>1, <3>1, <3>5 DEF CallbackInv
    <3> QED
      BY <3>1, <3>2, <3>3, <3>4, <3>6 DEF CallbackInv
  <2> QED
    BY <2>2, <2>3
<1>7. CASE Log \/ Deliver \/ (\E p \in Paths, c \in Contents : EditConfig(p, c)) \/ UNCHANGED vars
  BY <1>2, <1>7 DEF Log, Deliver, EditConfig, vars
<1>8. CASE StartAgain
  <2>1. /\ logger'.null = TRUE /\ logger'.cbs = {} /\ regs' = {} /\ removed' = {}
        /\ nextSink' = nextSink /\ \A i \in Ids : cbMap'[i] = 0
    BY <1>8, Loggers DEF StartAgain
  <2> QED
    BY <1>0, <2>1 DEF CallbackInv, CallbacksRemovable
<1> QED
  BY <1>3, <1>4, <1>5, <1>6, <1>7, <1>8 DEF Next, Restart, DieSavingDefaults

\* Every step keeps QueueInv.
LEMMA QueueStep ==
    ASSUME TypeOK, CallbackInv, QueueInv, [Next]_vars
    PROVE  QueueInv'
<1>1. removed \cap logger.cbs = {}
  BY DEF CallbackInv
<1> QED
  BY <1>1, PoolChange DEF QueueInv, pool

\* Both invariants hold in every reachable state.
LEMMA CallbackAlways == Spec => [](CallbackInv /\ QueueInv)
<1>1. Init => CallbackInv /\ QueueInv
  <2> SUFFICES ASSUME Init PROVE CallbackInv /\ QueueInv
    OBVIOUS
  <2>1. /\ logger.null = TRUE /\ logger.cbs = {} /\ regs = {} /\ removed = {}
        /\ nextSink = 1 /\ \A i \in Ids : cbMap[i] = 0
    BY Loggers DEF Init
  <2>2. CallbackInv
    BY <2>1 DEF CallbackInv, CallbacksRemovable
  <2>3. QueueInv
    BY DEF Init, QueueInv
  <2> QED
    BY <2>2, <2>3
<1> QED
  BY <1>1, CallbackStep, QueueStep, TypeCorrect, PTL DEF Spec

\* No message logged after the removal of a callback reaches it, across reloads,
\* identifiers produced twice, calls on a null logger, and messages that wait in the
\* queue for a logger that has been replaced.
THEOREM RemovedNeverCalled == Spec => []RemovedNotCalled
<1>1. CallbackInv /\ QueueInv => RemovedNotCalled
  BY DEF CallbackInv, QueueInv, RemovedNotCalled
<1> QED
  BY <1>1, CallbackAlways, PTL

\* Every callback sink of the logger is registered under some identifier.
THEOREM CallbacksAlwaysRemovable == Spec => []CallbacksRemovable
<1>1. CallbackInv => CallbacksRemovable
  BY DEF CallbackInv
<1> QED
  BY <1>1, CallbackAlways, PTL

-----------------------------------------------------------------------------
\* Only an edit from outside changes a configuration file that can be loaded, and
\* setConfigPath deletes none but the one that was in use.
THEOREM WorkingConfigAlwaysKept == Spec => WorkingConfigKept
<1> DEFINE Kept == \A p \in Paths :
                     /\ content[p] \in {"good", "async", "empty"} /\ logsOk /\ edits' = edits
                     /\ content'[p] # content[p]
                     => content'[p] = "absent" /\ built /\ p = path
<1>1. TypeOK /\ [Next]_vars => [Kept]_vars
  <2> SUFFICES ASSUME TypeOK, Next PROVE Kept
    OBVIOUS
  <2> USE DEF config, callbacks, environment, bounds
  <2> SUFFICES ASSUME NEW p \in Paths, content[p] \in {"good", "async", "empty"}, logsOk,
                      edits' = edits, content'[p] # content[p]
               PROVE  content'[p] = "absent" /\ built /\ p = path
    OBVIOUS
  <2>0. content \in [Paths -> Contents] /\ path \in Paths /\ edits \in Nat
    BY DEF TypeOK
  <2>1. Throws(content[p]) = "none"
    <3>1. content[p] \notin {"scalar", "badType"}
      OBVIOUS
    <3> QED
      BY <3>1 DEF Throws, SinksBuilt
  <2>2. ~Construct
    <3> SUFFICES ASSUME Construct PROVE FALSE
      OBVIOUS
    <3>1. content' = AfterLoad(DefaultPath).content
      BY DEF Construct
    <3> QED
      BY <3>1, ConstantsAssumption, LoadResult
  <2>3. ASSUME NEW q \in Paths, NEW del \in BOOLEAN, SetConfigPath(q, del)
        PROVE  content'[p] = "absent" /\ built /\ p = path
    <3>1. /\ AfterLoad(q).content \in [Paths -> Contents]
          /\ AfterLoad(q).content[p] = content[p]
      BY LoadResult
    <3>2. /\ built
          /\ content' = AfterLoad(q).content \/ content' = DeleteOld(AfterLoad(q).content, path)
      BY <2>3 DEF SetConfigPath
    <3>3. DeleteOld(AfterLoad(q).content, path)[p] # AfterLoad(q).content[p] =>
            DeleteOld(AfterLoad(q).content, path)[p] = "absent" /\ p = path
      BY <2>0, <3>1, DeleteResult
    <3> QED
      BY <3>1, <3>2, <3>3
  <2>4. ASSUME NEW q \in Paths, DieSavingDefaults(q) PROVE FALSE
    <3>1. Throws(content[q]) = "spdlog_ex" /\ content' = [content EXCEPT ![q] = "broken"]
      BY <2>4 DEF DieSavingDefaults
    <3> QED
      BY <2>0, <2>1, <3>1
  <2>5. ASSUME NEW q \in Paths, NEW c \in Contents, EditConfig(q, c) PROVE FALSE
    BY <2>0, <2>5 DEF EditConfig
  <2>6. ASSUME \/ Log \/ Deliver \/ SetStreamOutPut \/ (\E id \in Ids : AddCallBackSink(id))
               \/ (\E r \in regs : RemoveCallBackSink(r)) \/ Restart
        PROVE  FALSE
    BY <2>6 DEF Log, Deliver, SetStreamOutPut, AddCallBackSink, RemoveCallBackSink, Restart
  <2> QED
    BY <2>2, <2>3, <2>4, <2>5, <2>6 DEF Next
<1> QED
  BY <1>1, TypeCorrect, PTL DEF Spec, WorkingConfigKept
=============================================================================
