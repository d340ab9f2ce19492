-------------------------- MODULE CountRotatingSink --------------------------
(***************************************************************************)
(* CustomSink::count_rotating_file_mt, the log sink that starts a new file *)
(* after max_count messages and keeps max_files renamed backups            *)
(* (common/private/logger/count_rotating_file_mt_sink.hpp).                *)
(*                                                                         *)
(* The files on disk outlive the sink object: a restart of the process or  *)
(* a reload of the configuration constructs a new sink, possibly with      *)
(* other parameters, over the files the previous one left.  sink_it_ runs  *)
(* under the mutex of spdlog's base_sink, so one call is in progress at a  *)
(* time, but every file operation is a step of its own: the process may    *)
(* die between any two of them, and the code ignores the error codes of    *)
(* the file operations, so each may fail and the code carries on.          *)
(*                                                                         *)
(* Abstractions.  A message is the number of its successful write (1, 2,   *)
(* ...), and a file is the set of the messages it holds: a file is only    *)
(* appended to, so its text is its messages in ascending order.  Of the    *)
(* text only the newlines, and whether the last line is unterminated, are  *)
(* kept, because count_lines_in_file_ reads nothing else.  The content of  *)
(* the stdio buffer of the open FILE* is kept apart from the file: it is   *)
(* what a killed process loses.                                            *)
(***************************************************************************)
EXTENDS Naturals

CONSTANTS
    MaxSlot,        \* highest backup number any configuration uses
    Configs,        \* constructor parameters a sink may be built with
    LineCounts,     \* number of lines a formatted message may have
    FailingOps,     \* the file operations that may fail
    MaxMsgs,        \* bound: messages written in a behaviour
    MaxRestarts,    \* bound: orderly destructions of the sink
    MaxCrashes      \* bound: process deaths

Config == [maxCount: Nat, maxFiles: 0..MaxSlot,
           rotateOnOpen: BOOLEAN, strict: BOOLEAN]

Ops == {"open", "write", "close", "exists", "read", "remove", "rename"}

ASSUME ConstantsAssumption ==
    /\ MaxSlot \in Nat
    /\ Configs \subseteq Config /\ Configs # {}
    /\ LineCounts \subseteq Nat \ {0} /\ LineCounts # {}
    /\ FailingOps \subseteq Ops
    /\ MaxMsgs \in Nat /\ MaxRestarts \in Nat /\ MaxCrashes \in Nat

VARIABLES
    disk,       \* disk[0] is stem.log, disk[i] is stem.i.log
    buf,        \* what the open FILE* still buffers for stem.log
    cfg,        \* the sink's constructor parameters
    fd,         \* file_helper_ holds an open FILE*
    opened,     \* opened_
    logCount,   \* log_count_
    rotDone,    \* rotated_on_open_done_
    pc,         \* next step of sink_it_, or "idle"
    cont,       \* where ensure_opened_for_write_ returns to
    ret,        \* where rotate_files_ returns to
    src,        \* index of the file rotate_files_ moves next
    nextId,     \* number of the next message
    lost,       \* messages that died in a stdio buffer
    restarts, crashes

sink == <<cfg, fd, opened, logCount, rotDone>>
control == <<pc, cont, ret, src>>
bounds == <<restarts, crashes>>
vars == <<disk, buf, sink, control, nextId, lost, bounds>>

Slots == 0..MaxSlot

File == [exists: BOOLEAN, ids: SUBSET Nat, newlines: Nat, torn: BOOLEAN]
Absent == [exists |-> FALSE, ids |-> {}, newlines |-> 0, torn |-> FALSE]
Empty == [exists |-> TRUE, ids |-> {}, newlines |-> 0, torn |-> FALSE]

-----------------------------------------------------------------------------
(* What a file holds.                                                      *)

\* g appended to f; nothing is appended when g has neither message nor fragment.
Join(f, g) ==
    [exists |-> TRUE,
     ids |-> f.ids \cup g.ids,
     newlines |-> f.newlines + g.newlines,
     torn |-> IF g.ids = {} /\ ~g.torn THEN f.torn ELSE g.torn]

\* count_lines_in_file_: the newlines, plus one for an unterminated last line.
CountLines(f) == f.newlines + (IF f.torn THEN 1 ELSE 0)

\* Messages a reader of the log directory, or of the open FILE*, can still see.
Stored == UNION {disk[i].ids : i \in Slots}
Retained == Stored \cup buf.ids

Fails(op) == op \in FailingOps

\* What fs::exists(path, ec) && !ec may answer.
ExistsAnswers(i) ==
    {disk[i].exists} \cup (IF Fails("exists") THEN {FALSE} ELSE {})

\* What count_lines_in_file_ may return: 0 when the ifstream does not open.
LineAnswers ==
    {CountLines(disk[0])} \cup (IF Fails("read") THEN {0} ELSE {})

-----------------------------------------------------------------------------
(* Control.                                                                *)

Goto(label) == pc' = label /\ UNCHANGED <<cont, ret, src>>

CallRotate(return) == pc' = "close" /\ ret' = return /\ UNCHANGED <<cont, src>>

\* An exception leaves sink_it_; the logger reports it and drops the message.
Throw == Goto("idle")

\* The state of a sink object that has just been constructed.
NewSink ==
    /\ cfg' \in Configs
    /\ fd' = FALSE /\ opened' = FALSE /\ logCount' = 0 /\ rotDone' = FALSE
    /\ pc' = "idle" /\ cont' = "check" /\ ret' = "idle" /\ src' = 0

Init ==
    /\ disk = [i \in Slots |-> Absent]
    /\ buf = Empty
    /\ cfg \in Configs
    /\ fd = FALSE /\ opened = FALSE /\ logCount = 0 /\ rotDone = FALSE
    /\ pc = "idle" /\ cont = "check" /\ ret = "idle" /\ src = 0
    /\ nextId = 1
    /\ lost = {}
    /\ restarts = 0 /\ crashes = 0

-----------------------------------------------------------------------------
(* sink_it_                                                                *)

\* A message arrives.  The first one of a sink built with rotate_on_open
\* rotates a stem.log left by an earlier sink.
Log ==
    /\ pc = "idle" /\ nextId <= MaxMsgs
    /\ rotDone' = TRUE
    /\ \E there \in ExistsAnswers(0) :
         IF ~rotDone /\ cfg.rotateOnOpen /\ cfg.maxFiles > 0 /\ there
         THEN CallRotate("entry")
         ELSE Goto("entry")
    /\ UNCHANGED <<disk, buf, cfg, fd, opened, logCount, nextId, lost, bounds>>

\* The first test of log_count_.  With max_files == 0 the counter is pinned.
CheckEntry ==
    /\ pc = "entry"
    /\ cont' = "check"
    /\ IF logCount >= cfg.maxCount /\ cfg.maxFiles > 0
       THEN pc' = "close" /\ ret' = "ensure" /\ UNCHANGED logCount
       ELSE /\ pc' = "ensure" /\ UNCHANGED ret
            /\ logCount' = IF logCount >= cfg.maxCount
                           THEN cfg.maxCount ELSE logCount
    /\ UNCHANGED <<disk, buf, cfg, fd, opened, rotDone, src, nextId, lost, bounds>>

\* Faulty variant: the lines that are already in stem.log are not counted.
EnsureOpenedUncounted ==
    /\ pc = "ensure"
    /\ IF opened THEN Goto(cont) /\ UNCHANGED logCount
                 ELSE logCount' = 0 /\ Goto("open")
    /\ UNCHANGED <<disk, buf, cfg, fd, opened, rotDone, nextId, lost, bounds>>

\* ensure_opened_for_write_ up to the open, with adjust_for_strict_on_open_.
EnsureOpened ==
    /\ pc = "ensure"
    /\ \/ /\ opened
          /\ Goto(cont) /\ UNCHANGED logCount
       \/ /\ ~opened
          /\ ~cfg.strict \/ cfg.maxCount = 0
          /\ logCount' = 0 /\ Goto("open")
       \/ /\ ~opened
          /\ cfg.strict /\ cfg.maxCount > 0
          /\ \E there \in ExistsAnswers(0), lines \in LineAnswers :
               IF there /\ lines >= cfg.maxCount
               THEN CallRotate("open") /\ UNCHANGED logCount
               ELSE logCount' = (IF there THEN lines ELSE 0) /\ Goto("open")
    /\ UNCHANGED <<disk, buf, cfg, fd, opened, rotDone, nextId, lost, bounds>>

\* file_helper_.open: mode "ab" creates a missing stem.log.
OpenFile ==
    /\ pc = "open"
    /\ disk' = [disk EXCEPT ![0] = Join(@, Empty)]
    /\ fd' = TRUE /\ opened' = TRUE
    /\ Goto(cont)
    /\ UNCHANGED <<buf, cfg, logCount, rotDone, nextId, lost, bounds>>

\* Every attempt to open failed: file_helper throws.
OpenFails ==
    /\ pc = "open" /\ Fails("open")
    /\ Throw
    /\ UNCHANGED <<disk, buf, sink, nextId, lost, bounds>>

\* Faulty variant: the test comes one message too early.
CheckBeforeWriteEarly ==
    /\ pc = "check"
    /\ IF logCount + 1 >= cfg.maxCount
       THEN pc' = "close" /\ ret' = "ensure" /\ cont' = "write"
       ELSE pc' = "write" /\ UNCHANGED <<cont, ret>>
    /\ UNCHANGED <<disk, buf, sink, src, nextId, lost, bounds>>

\* Faulty variant: the test is repeated after the rotation.
CheckBeforeWriteAgain ==
    /\ pc = "check"
    /\ IF logCount >= cfg.maxCount
       THEN pc' = "close" /\ ret' = "ensure" /\ cont' = "check"
       ELSE pc' = "write" /\ UNCHANGED <<cont, ret>>
    /\ UNCHANGED <<disk, buf, sink, src, nextId, lost, bounds>>

\* The second test of log_count_, between the open and the write.
CheckBeforeWrite ==
    /\ pc = "check"
    /\ IF logCount >= cfg.maxCount
       THEN pc' = "close" /\ ret' = "ensure" /\ cont' = "write"
       ELSE pc' = "write" /\ UNCHANGED <<cont, ret>>
    /\ UNCHANGED <<disk, buf, sink, src, nextId, lost, bounds>>

\* What fwrite does with a message of n lines.  Either stdio buffers it, or it
\* overflows the buffer: what was buffered and a head of the message, with j of
\* its newlines, reach the file and the rest is buffered.  file_helper::write
\* does nothing when no file is open.
Fwrite(n) ==
    LET message(k) == [exists |-> TRUE, ids |-> {nextId}, newlines |-> k,
                       torn |-> FALSE]
        head(k) == [exists |-> TRUE, ids |-> {}, newlines |-> k, torn |-> TRUE]
    IN  IF ~fd THEN UNCHANGED <<disk, buf>>
        ELSE \/ /\ buf' = Join(buf, message(n))
                /\ UNCHANGED disk
             \/ \E j \in 0..(n - 1) :
                  /\ disk' = [disk EXCEPT ![0] = Join(Join(@, buf), head(j))]
                  /\ buf' = message(n - j)

\* The write, ++log_count_ and the last test of log_count_: a full file is
\* closed and rotated at once, and the next message opens a new one.
Write ==
    /\ pc = "write"
    /\ \E n \in LineCounts : Fwrite(n)
    /\ nextId' = nextId + 1
    /\ logCount' = logCount + 1
    /\ IF logCount + 1 >= cfg.maxCount THEN CallRotate("idle") ELSE Goto("idle")
    /\ UNCHANGED <<cfg, fd, opened, rotDone, lost, bounds>>

\* fwrite reports a short write: file_helper throws before ++log_count_, and a
\* head of the message may stay behind.
WriteFails ==
    /\ pc = "write" /\ fd /\ Fails("write")
    /\ \/ UNCHANGED buf
       \/ \E n \in LineCounts : \E j \in 0..(n - 1) :
            buf' = Join(buf, [exists |-> TRUE, ids |-> {}, newlines |-> j,
                              torn |-> TRUE])
    /\ Throw
    /\ UNCHANGED <<disk, sink, nextId, lost, bounds>>

-----------------------------------------------------------------------------
(* rotate_files_                                                           *)

\* The stdio buffer reaches the file, or is dropped when fclose fails.
CloseBuffer ==
    /\ buf' = Empty
    /\ \/ /\ disk' = IF fd THEN [disk EXCEPT ![0] = Join(@, buf)] ELSE disk
          /\ UNCHANGED lost
       \/ /\ fd /\ Fails("close")
          /\ lost' = lost \cup buf.ids
          /\ UNCHANGED disk

\* Faulty variant: opened_ stays true, so the next message goes to a closed file.
CloseKeepsOpened ==
    /\ pc = "close"
    /\ CloseBuffer
    /\ fd' = FALSE /\ logCount' = 0
    /\ Goto(IF cfg.maxFiles = 0 THEN ret ELSE "rmOldest")
    /\ UNCHANGED <<cfg, opened, rotDone, nextId, bounds>>

\* file_helper_.close(), opened_ = false, log_count_ = 0.
Close ==
    /\ pc = "close"
    /\ CloseBuffer
    /\ fd' = FALSE /\ opened' = FALSE /\ logCount' = 0
    /\ Goto(IF cfg.maxFiles = 0 THEN ret ELSE "rmOldest")
    /\ UNCHANGED <<cfg, rotDone, nextId, bounds>>

\* fs::remove(path, ec): a failure leaves the file.
Remove(i) ==
    \/ disk' = [disk EXCEPT ![i] = Absent]
    \/ Fails("remove") /\ UNCHANGED disk

\* Faulty variant: the newest backup is removed.
RemoveNewest ==
    /\ pc = "rmOldest"
    /\ Remove(1)
    /\ pc' = "shift" /\ src' = cfg.maxFiles - 1
    /\ UNCHANGED <<buf, sink, cont, ret, nextId, lost, bounds>>

RemoveOldest ==
    /\ pc = "rmOldest"
    /\ Remove(cfg.maxFiles)
    /\ pc' = "shift" /\ src' = cfg.maxFiles - 1
    /\ UNCHANGED <<buf, sink, cont, ret, nextId, lost, bounds>>

\* Faulty variant: the loop does not stop at stem.log.
NextSourceEndless == pc' = "shift" /\ src' = src - 1 /\ UNCHANGED <<cont, ret>>

\* The loop counter runs from max_files-1 down to 1; the move of stem.log to
\* stem.1.log after the loop is the same code with index 0.
NextSource ==
    IF src = 0 THEN Goto(ret)
    ELSE pc' = "shift" /\ src' = src - 1 /\ UNCHANGED <<cont, ret>>

\* One turn of the loop: if the source exists, the target is removed and the
\* source renamed.
Shift ==
    /\ pc = "shift"
    /\ \E there \in ExistsAnswers(src) :
         IF there THEN Remove(src + 1) /\ Goto("rename")
                  ELSE NextSource /\ UNCHANGED disk
    /\ UNCHANGED <<buf, sink, nextId, lost, bounds>>

\* Faulty variant: the source is copied and stays.
RenameKeepsSource ==
    /\ pc = "rename"
    /\ \/ disk' = [disk EXCEPT ![src + 1] = disk[src]]
       \/ Fails("rename") /\ UNCHANGED disk
    /\ NextSource
    /\ UNCHANGED <<buf, sink, nextId, lost, bounds>>

\* fs::rename(src, dst, ec) replaces a target that is still there.
Rename ==
    /\ pc = "rename"
    /\ \/ disk' = [disk EXCEPT ![src + 1] = disk[src], ![src] = Absent]
       \/ Fails("rename") /\ UNCHANGED disk
    /\ NextSource
    /\ UNCHANGED <<buf, sink, nextId, lost, bounds>>

-----------------------------------------------------------------------------
(* The life of the sink object.                                            *)

\* flush_ between two messages; fflush(NULL) on a closed file changes nothing.
Flush ==
    /\ pc = "idle"
    /\ IF fd THEN disk' = [disk EXCEPT ![0] = Join(@, buf)] /\ buf' = Empty
             ELSE UNCHANGED <<disk, buf>>
    /\ UNCHANGED <<sink, control, nextId, lost, bounds>>

\* The sink is destroyed (its file_helper closes the file) and another is built.
Restart ==
    /\ pc = "idle" /\ restarts < MaxRestarts
    /\ CloseBuffer
    /\ NewSink
    /\ restarts' = restarts + 1
    /\ UNCHANGED <<nextId, crashes>>

\* The process dies anywhere; what stdio buffered is gone.
Crash ==
    /\ crashes < MaxCrashes
    /\ lost' = lost \cup buf.ids
    /\ buf' = Empty
    /\ NewSink
    /\ crashes' = crashes + 1
    /\ UNCHANGED <<disk, nextId, restarts>>

-----------------------------------------------------------------------------
SinkIt == \/ CheckEntry \/ EnsureOpened \/ OpenFile \/ OpenFails
          \/ CheckBeforeWrite \/ Write \/ WriteFails
          \/ Close \/ RemoveOldest \/ Shift \/ Rename

Next == Log \/ SinkIt \/ Flush \/ Restart \/ Crash

Spec == Init /\ [][Next]_vars

\* A call of sink_it_ is a thread running straight-line code: it goes on.
FairSpec == Spec /\ WF_vars(SinkIt)

-----------------------------------------------------------------------------
(* Properties.                                                             *)

\* Types of the variables, and the program counter's labels.
TypeOK ==
    /\ disk \in [Slots -> File]
    /\ buf \in File
    /\ cfg \in Configs
    /\ fd \in BOOLEAN /\ opened \in BOOLEAN /\ rotDone \in BOOLEAN
    /\ logCount \in Nat
    /\ pc \in {"idle", "entry", "ensure", "open", "check", "write",
               "close", "rmOldest", "shift", "rename"}
    /\ cont \in {"check", "write"}
    /\ ret \in {"idle", "entry", "ensure", "open"}
    /\ src \in Slots
    /\ nextId \in Nat \ {0}
    /\ lost \subseteq Nat
    /\ restarts \in Nat /\ crashes \in Nat

\* Reading stem.N.log, ..., stem.1.log, stem.log and then the buffer shows the
\* messages in the order they were logged, each at most once: whatever fails in
\* rotate_files_, wherever the process dies and however the parameters change.
ChainOrdered ==
    /\ \A i, j \in Slots : i < j =>
         \A a \in disk[i].ids, b \in disk[j].ids : b < a
    /\ \A i \in Slots : \A a \in disk[i].ids, b \in buf.ids : a < b
    /\ \A i \in Slots : \A a \in disk[i].ids : a < nextId
    /\ \A b \in buf.ids : b < nextId

\* A message that sink_it_ wrote and no buffer lost is missing only if every
\* older message is missing too: rotation discards from the old end only, and
\* no message is counted that went to a closed file.
DiscardsOldestFirst ==
    \A a \in 1..(nextId - 1) :
        a \notin Retained \cup lost => \A b \in Retained : a < b

\* The same promise as a specification, for every step of the code: the sink
\* implements RetainedLog.
Abstract == INSTANCE RetainedLog WITH stored <- Stored, pending <- buf.ids

RefinesRetainedLog == Abstract!Spec

\* "strict_count_on_open: every file has at most max_count lines": stem.log
\* with what is still buffered for it, and every backup.
StrictLineBound ==
    cfg.strict /\ cfg.maxCount > 0 =>
        \A i \in Slots :
            CountLines(IF i = 0 THEN Join(disk[0], buf) ELSE disk[i]) <= cfg.maxCount

\* The backups are worth their number: until a process dies, the newest
\* max_files * max_count messages that no failing fclose lost can always be
\* read, also while a rotation is under way and across orderly restarts
\* (rotate_on_open starts short files and gives this up).
RetentionFloor ==
    crashes = 0 /\ ~cfg.rotateOnOpen =>
        \A a \in 1..(nextId - 1) :
            a + cfg.maxFiles * cfg.maxCount >= nextId => a \in Retained \cup lost

\* A call of sink_it_ comes to an end, for max_count = 0 too, which makes every
\* test of log_count_ succeed.
LogReturns == pc # "idle" ~> pc = "idle"
=============================================================================
