---------------------------- MODULE DailySizeSink ----------------------------
(***************************************************************************)
(* CustomSink::daily_size_rotating_file_mt, the log sink that keeps one    *)
(* group of files per day and, within a day, starts a new file before a    *)
(* write that would exceed max_size                                        *)
(* (common/private/logger/daily_size_rotating_file_mt_sink.hpp).           *)
(*                                                                         *)
(* As in CountRotatingSink every file operation is a step, the process may *)
(* die between two of them, and the errors of remove, exists and rename    *)
(* are ignored.  The clock is a number of ticks; it is read once per call, *)
(* so it moves only between calls.                                         *)
(*                                                                         *)
(* Abstractions.  A date is the number of the day (date_format             *)
(* yyyy-MM-dd), so a group is a day.  Local time changes its offset once,  *)
(* by at most a tick, which makes the first day longer or shorter.  A      *)
(* message is its number, a file the set of its messages and its size in   *)
(* bytes; bytes of a message whose process died before the rest was        *)
(* written count in the size only.                                         *)
(***************************************************************************)
EXTENDS Integers, Sequences, FiniteSets

CONSTANTS
    DayLen,         \* ticks of a day
    RotTick,        \* rotation_hour and rotation_min
    Shifts,         \* changes of the local time's offset: -1, 0, 1
    ShiftAt,        \* when it changes
    MaxDay,         \* bound: the last day
    MaxSlot,        \* highest backup number any configuration uses
    Configs,        \* the other constructor parameters
    Sizes,          \* sizes of formatted messages
    FailingOps,     \* the file operations that may fail
    MaxMsgs,        \* bound: messages written
    MaxFaults,      \* bound: operations that fail
    MaxRestarts,    \* bound: sinks destroyed, orderly or by a process death
    MaxSetBacks     \* bound: times the clock is set back

Config == [maxSize: Nat \ {0}, maxFiles: 0..MaxSlot, rotateOnOpen: BOOLEAN]

ASSUME ConstantsAssumption ==
    /\ DayLen \in Nat \ {0} /\ RotTick \in 0..(DayLen - 1) /\ MaxDay \in Nat
    /\ Shifts \subseteq {-1, 0, 1} /\ ShiftAt \in 1..(DayLen - 1)
    /\ MaxSlot \in Nat
    /\ Configs \subseteq Config /\ Configs # {}
    /\ Sizes \subseteq Nat \ {0} /\ Sizes # {}
    /\ FailingOps \subseteq {"open", "size", "write", "close", "exists", "remove",
                             "rename"}
    /\ MaxMsgs \in Nat /\ MaxFaults \in Nat
    /\ MaxRestarts \in Nat /\ MaxSetBacks \in Nat

VARIABLES
    disk,       \* disk[d][0] is the base file of day d, disk[d][i] its backup i
    buf,        \* what the open FILE* still buffers
    fd,         \* the day whose base file file_helper_ has open, or Closed
    cfg,        \* the sink's parameters
    base,       \* current_basename_
    next,       \* next_rotation_
    opened,     \* opened_
    size,       \* current_size_bytes_
    rotDone,    \* rotated_on_open_done_
    pc,         \* next step of sink_it_, or "idle"
    cont,       \* where ensure_opened_for_write_ returns to
    src,        \* index of the file the chain moves next
    len,        \* will_write
    at,         \* the days each message may be filed under
    clock,      \* system_clock
    shift,      \* by how much the local time's offset changes
    faults,     \* file operations that have failed
    stuck,      \* the sink writes to a file that it should have moved, or whose size
                \* it does not know
    spilled,    \* bytes that failed writes have left in files
    restarts, setBacks

target == <<base, next>>
sink == <<cfg, opened, size, rotDone>>
control == <<pc, cont, src, len>>
bounds == <<faults, stuck, spilled, restarts, setBacks>>
vars == <<disk, buf, fd, target, sink, control, at, clock, shift, bounds>>

Days == 0..MaxDay
Slots == 0..MaxSlot
Closed == -1

Absent == [exists |-> FALSE, ids |-> {}, size |-> 0]
Empty == [exists |-> TRUE, ids |-> {}, size |-> 0]

Join(f, g) ==
    [exists |-> TRUE, ids |-> f.ids \cup g.ids, size |-> f.size + g.size]

\* Operation op fails, within the bound.
Fails(op) == op \in FailingOps /\ faults < MaxFaults /\ faults' = faults + 1
Goto(label) == pc' = label /\ UNCHANGED <<cont, src, len>>
Return == pc' = "idle" /\ cont' = "check" /\ len' = 0 /\ UNCHANGED src

-----------------------------------------------------------------------------
(* The day of a message.                                                   *)

\* localtime: the offset, and the time of the calendar.
Offset(tp) == IF tp < ShiftAt THEN 0 ELSE shift
Local(tp) == tp + Offset(tp)

\* make_basename_for_tp_
DayOf(tp) == Local(tp) \div DayLen

\* compute_next_rotation_.  mktime takes the offset of tp, and tomorrow's rotation
\* is 24 hours after today's.  The result lies after tp, so the loop that follows
\* it in rotate_if_needed_by_time_ has nothing to do.
NextRotation(tp) ==
    LET today == DayOf(tp) * DayLen + RotTick - Offset(tp)
    IN  IF tp < today THEN today ELSE today + DayLen

\* The days in whose group a message of time tp belongs: its own, and until the
\* rotation time also the day before, or an hour longer in the night after a change
\* to daylight saving time.
Groups(tp) ==
    LET end(d) == (d + 1) * DayLen + RotTick + (IF shift = 1 /\ d = 0 THEN 1 ELSE 0)
    IN  {d \in Days : d * DayLen <= Local(tp) /\ Local(tp) < end(d)}

\* A sink object that has just been constructed, with update_targets_for_now_.
NewSink ==
    /\ cfg' \in Configs
    /\ base' = DayOf(clock) /\ next' = NextRotation(clock)
    /\ fd' = Closed /\ opened' = FALSE /\ size' = 0 /\ rotDone' = FALSE
    /\ pc' = "idle" /\ cont' = "check" /\ src' = 0 /\ len' = 0

Init ==
    /\ disk = [d \in Days |-> [i \in Slots |-> Absent]]
    /\ buf = Empty /\ fd = Closed
    /\ cfg \in Configs
    /\ shift \in Shifts
    /\ clock = 0 /\ base = DayOf(0) /\ next = NextRotation(0)
    /\ opened = FALSE /\ size = 0 /\ rotDone = FALSE
    /\ pc = "idle" /\ cont = "check" /\ src = 0 /\ len = 0
    /\ at = <<>>
    /\ faults = 0 /\ stuck = FALSE /\ spilled = 0 /\ restarts = 0 /\ setBacks = 0

\* What is buffered goes to the file that is open.
Synced == IF fd = Closed THEN disk ELSE [disk EXCEPT ![fd][0] = Join(@, buf)]

\* file_helper_.close(): fclose writes the buffer, or fails and drops it.
CloseBuffer ==
    /\ buf' = Empty
    /\ \/ disk' = Synced /\ UNCHANGED faults
       \/ fd # Closed /\ Fails("close") /\ UNCHANGED disk

-----------------------------------------------------------------------------
(* sink_it_                                                                *)

\* Faulty variant: the day changes and the file of the old one stays open.
RotateByTimeKeepsOpen ==
    IF clock < next THEN UNCHANGED <<disk, buf, fd, target, sink, faults>>
    ELSE /\ base' = DayOf(clock) /\ next' = NextRotation(clock)
         /\ rotDone' = FALSE
         /\ UNCHANGED <<disk, buf, fd, cfg, opened, size, faults>>

\* rotate_if_needed_by_time_
RotateByTime ==
    IF clock < next THEN UNCHANGED <<disk, buf, fd, target, sink, faults>>
    ELSE /\ CloseBuffer
         /\ fd' = Closed /\ opened' = FALSE /\ size' = 0
         /\ base' = DayOf(clock) /\ next' = NextRotation(clock)
         /\ rotDone' = FALSE
         /\ UNCHANGED cfg

Log ==
    /\ pc = "idle" /\ Len(at) < MaxMsgs
    /\ RotateByTime
    /\ Goto("entry")
    /\ UNCHANGED <<at, clock, shift, stuck, spilled, restarts, setBacks>>

\* rotate_on_open, once per sink and once more after each change of day.  An error
\* of exists counts as no file.
RotateOnOpen ==
    /\ pc = "entry"
    /\ rotDone' = TRUE
    /\ LET asks == ~rotDone /\ cfg.rotateOnOpen /\ cfg.maxFiles > 0
       IN  \/ /\ Goto(IF asks /\ disk[base][0].exists THEN "close" ELSE "open")
              /\ UNCHANGED faults
           \/ asks /\ Fails("exists") /\ Goto("open")
    /\ UNCHANGED <<disk, buf, fd, target, cfg, opened, size, at, clock, shift, stuck,
                   spilled, restarts, setBacks>>

\* Faulty variant: the size of a file that is already there is not asked for.
OpenFileUnsized ==
    /\ pc = "open"
    /\ IF opened THEN UNCHANGED <<disk, fd, opened, size>>
       ELSE /\ disk' = [disk EXCEPT ![base][0] = Join(@, Empty)]
            /\ fd' = base /\ opened' = TRUE /\ size' = 0
    /\ Goto(cont)
    /\ UNCHANGED <<buf, target, cfg, rotDone, at, clock, shift, bounds>>

\* ensure_opened_for_write_: the size is that of the file, which mode "ab"
\* creates if need be.
OpenFile ==
    /\ pc = "open"
    /\ IF opened THEN UNCHANGED <<disk, fd, opened, size>>
       ELSE /\ disk' = [disk EXCEPT ![base][0] = Join(@, Empty)]
            /\ fd' = base /\ opened' = TRUE /\ size' = disk[base][0].size
    /\ Goto(cont)
    /\ UNCHANGED <<buf, target, cfg, rotDone, at, clock, shift, bounds>>

\* file_helper gives up and throws: the message is dropped.
OpenFails ==
    /\ pc = "open" /\ ~opened /\ Fails("open")
    /\ Return
    /\ UNCHANGED <<disk, buf, fd, target, sink, at, clock, shift, stuck, spilled,
                   restarts, setBacks>>

\* The file is open when file_helper_.size() throws: opened_ has been set, and
\* current_size_bytes_ stays 0 whatever the file holds.  The message is dropped, the
\* next one appends.
SizeFails ==
    /\ pc = "open" /\ ~opened /\ Fails("size")
    /\ disk' = [disk EXCEPT ![base][0] = Join(@, Empty)]
    /\ fd' = base /\ opened' = TRUE
    /\ stuck' = (stuck \/ disk[base][0].size > 0)
    /\ Return
    /\ UNCHANGED <<buf, target, cfg, size, rotDone, at, clock, shift, spilled,
                   restarts, setBacks>>

\* The message is formatted, and the file rotated if it would get too large.
CheckSize ==
    /\ pc = "check"
    /\ len' \in Sizes
    /\ pc' = IF cfg.maxFiles > 0 /\ size + len' > cfg.maxSize
             THEN "close" ELSE "write"
    /\ cont' = "write"
    /\ UNCHANGED <<src, disk, buf, fd, target, sink, at, clock, shift, bounds>>

\* fwrite buffers the message, or writes out the buffer and a head of it;
\* file_helper::write does nothing when no file is open.
Fwrite ==
    LET id == Len(at) + 1
        bytes(ids, n) == [exists |-> TRUE, ids |-> ids, size |-> n]
    IN  IF fd = Closed THEN UNCHANGED <<disk, buf>>
        ELSE \/ buf' = Join(buf, bytes({id}, len)) /\ UNCHANGED disk
             \/ \E j \in 0..(len - 1) :
                  /\ disk' = [disk EXCEPT ![fd][0] = Join(Join(@, buf), bytes({}, j))]
                  /\ buf' = bytes({id}, len - j)

Write ==
    /\ pc = "write"
    /\ Fwrite
    /\ size' = size + len
    /\ at' = Append(at, Groups(clock))
    /\ Return
    /\ UNCHANGED <<fd, target, cfg, opened, rotDone, clock, shift, bounds>>

\* fwrite reports a short write: file_helper throws, a head of the message may
\* stay behind and is not counted.
WriteFails ==
    /\ pc = "write" /\ fd # Closed /\ Fails("write")
    /\ \E j \in 0..(len - 1) :
         /\ buf' = Join(buf, [exists |-> TRUE, ids |-> {}, size |-> j])
         /\ spilled' = spilled + j
    /\ Return
    /\ UNCHANGED <<disk, fd, target, sink, at, clock, shift, stuck, restarts, setBacks>>

-----------------------------------------------------------------------------
(* rotate_by_size_chain_, after which the base file is opened anew.        *)

\* close_file_
Close ==
    /\ pc = "close"
    /\ CloseBuffer
    /\ fd' = Closed /\ opened' = FALSE /\ size' = 0
    /\ Goto("rmOldest")
    /\ UNCHANGED <<target, cfg, rotDone, at, clock, shift, stuck, spilled,
                   restarts, setBacks>>

Remove(i) ==
    \/ disk' = [disk EXCEPT ![base][i] = Absent] /\ UNCHANGED faults
    \/ Fails("remove") /\ UNCHANGED disk

RemoveOldest ==
    /\ pc = "rmOldest"
    /\ Remove(cfg.maxFiles)
    /\ pc' = "shift" /\ src' = cfg.maxFiles - 1 /\ UNCHANGED <<cont, len>>
    /\ UNCHANGED <<buf, fd, target, sink, at, clock, shift, stuck, spilled,
                   restarts, setBacks>>

\* Faulty variant: the loop runs past the base file.
NextSourceEndless == pc' = "shift" /\ src' = src - 1 /\ UNCHANGED <<cont, len>>

\* The loop moves the backups, the block after it the base file.
NextSource ==
    IF src = 0 THEN Goto("open")
    ELSE pc' = "shift" /\ src' = src - 1 /\ UNCHANGED <<cont, len>>

\* A base file that is not moved before a write is written to although it is full.
Unmoved == stuck' = (stuck \/ (src = 0 /\ cont = "write" /\ disk[base][0].size > 0))

\* A link is skipped when its file is not there, and also when exists fails.
Shift ==
    /\ pc = "shift"
    /\ \/ /\ IF disk[base][src].exists THEN Remove(src + 1) /\ Goto("rename")
                                        ELSE NextSource /\ UNCHANGED <<disk, faults>>
          /\ UNCHANGED stuck
       \/ Fails("exists") /\ Unmoved /\ NextSource /\ UNCHANGED disk
    /\ UNCHANGED <<buf, fd, target, sink, at, clock, shift, spilled, restarts, setBacks>>

\* Faulty variant: a rename that fails half-way leaves a copy.
RenameKeepsSource ==
    /\ pc = "rename"
    /\ disk' = [disk EXCEPT ![base][src + 1] = disk[base][src]]
    /\ NextSource
    /\ UNCHANGED <<buf, fd, target, sink, at, clock, shift, bounds>>

Rename ==
    /\ pc = "rename"
    /\ \/ /\ disk' = [disk EXCEPT ![base][src + 1] = disk[base][src],
                                  ![base][src] = Absent]
          /\ UNCHANGED <<faults, stuck>>
       \/ Fails("rename") /\ Unmoved /\ UNCHANGED disk
    /\ NextSource
    /\ UNCHANGED <<buf, fd, target, sink, at, clock, shift, spilled, restarts, setBacks>>

-----------------------------------------------------------------------------
(* The environment.                                                        *)

\* flush_ between two messages.
Flush ==
    /\ pc = "idle"
    /\ disk' = Synced /\ buf' = Empty
    /\ UNCHANGED <<fd, target, sink, control, at, clock, shift, bounds>>

\* The sink is destroyed and another one built.
Restart ==
    /\ pc = "idle" /\ restarts < MaxRestarts
    /\ CloseBuffer
    /\ NewSink
    /\ restarts' = restarts + 1
    /\ UNCHANGED <<at, clock, shift, stuck, spilled, setBacks>>

\* The process dies with what stdio buffered.
Crash ==
    /\ restarts < MaxRestarts
    /\ buf' = Empty
    /\ NewSink
    /\ restarts' = restarts + 1
    /\ UNCHANGED <<disk, at, clock, shift, faults, stuck, spilled, setBacks>>

\* Time passes: the next tick, or a day and a tick while the machine sleeps.
Tick ==
    /\ pc = "idle"
    /\ \E t \in {clock + 1, clock + DayLen + 1} :
         DayOf(t) <= MaxDay /\ clock' = t
    /\ UNCHANGED <<disk, buf, fd, target, sink, control, at, shift, bounds>>

\* The clock is set back by a tick, which may be the first of a day.  To bound the
\* states, not in a year in which the offset changes as well.
SetBack ==
    /\ pc = "idle" /\ setBacks < MaxSetBacks /\ shift = 0
    /\ clock > 0 /\ clock' = clock - 1
    /\ setBacks' = setBacks + 1
    /\ UNCHANGED <<disk, buf, fd, target, sink, control, at, shift, faults,
                   stuck, spilled, restarts>>

SinkIt == \/ RotateOnOpen \/ OpenFile \/ OpenFails \/ SizeFails \/ CheckSize \/ Write
          \/ WriteFails \/ Close \/ RemoveOldest \/ Shift \/ Rename

Next == Log \/ SinkIt \/ Flush \/ Restart \/ Crash \/ Tick \/ SetBack

Spec == Init /\ [][Next]_vars

-----------------------------------------------------------------------------
(* Properties.                                                             *)

File == [exists: BOOLEAN, ids: SUBSET (1..MaxMsgs), size: Nat]

\* Types of the variables.
TypeOK ==
    /\ \A d \in Days, i \in Slots : disk[d][i] \in File
    /\ buf \in File
    /\ fd \in Days \cup {Closed} /\ cfg \in Configs
    /\ base \in Days /\ next \in Nat
    /\ opened \in BOOLEAN /\ size \in Nat /\ rotDone \in BOOLEAN
    /\ pc \in {"idle", "entry", "open", "check", "write", "close", "rmOldest",
               "shift", "rename"}
    /\ cont \in {"check", "write"}
    /\ src \in Slots /\ len \in Sizes \cup {0}
    /\ at \in Seq(SUBSET Days) /\ clock \in Nat /\ shift \in Shifts
    /\ faults \in Nat /\ stuck \in BOOLEAN /\ spilled \in Nat
    /\ restarts \in Nat /\ setBacks \in Nat

\* The messages of a file, with what is buffered for it.
Ids(d, i) == disk[d][i].ids \cup (IF fd = d /\ i = 0 THEN buf.ids ELSE {})

\* Reading a day's files from the oldest backup to the base file shows the
\* messages in the order they were logged and none twice; as long as the clock
\* is not set back, so does reading the days one after the other.
DaysOrdered ==
    \A d, e \in Days, i, j \in Slots :
        (d = e /\ i > j) \/ (d < e /\ setBacks = 0) =>
            \A a \in Ids(d, i), b \in Ids(e, j) : a < b

\* A day's group holds what was logged from the start of that day to the
\* rotation time of the next one, or an hour after that in the night after a change
\* to daylight saving time, across restarts, crashes and pauses that skip the
\* rotation time, as long as the clock is not set back.
DayGroups ==
    setBacks = 0 => \A d \in Days, i \in Slots : \A a \in Ids(d, i) : d \in at[a]

\* The bytes of a file, with what is buffered for it.
Bytes(d, i) == disk[d][i].size + (IF fd = d /\ i = 0 THEN buf.size ELSE 0)

\* No file is larger than max_size, apart from one with a single message that is
\* larger itself, also when a sink appends to the file of an earlier one with its torn
\* messages.  The heads that failed writes leave behind come on top: the sink does not
\* count them.  It holds until the base file can not be moved out of the way of a
\* message, or its size not be asked for.
SizeBound ==
    cfg.maxFiles > 0 /\ ~stuck =>
        \A d \in Days, i \in Slots :
            \/ Bytes(d, i) <= cfg.maxSize + spilled
            \/ /\ Cardinality(Ids(d, i)) <= 1
               /\ \E n \in Sizes : Bytes(d, i) <= n + spilled
=============================================================================
