-------------------------- MODULE OverlappingSinks ---------------------------
(***************************************************************************)
(* Two count_rotating_file_mt sinks over the same files                    *)
(* (common/private/logger/count_rotating_file_mt_sink.hpp).                *)
(*                                                                         *)
(* A reload from asynchronous to synchronous logging leaves the old thread *)
(* pool alone (logger_p.cpp, loadConfigFile): its worker goes on writing   *)
(* the messages that are queued through the old logger's sink, while the   *)
(* program already logs through the new one.  Each sink has its own mutex, *)
(* so nothing orders their file operations.  The old sink is destroyed     *)
(* with the last queued message, which holds the old logger.               *)
(*                                                                         *)
(* CountRotatingSink models one sink with failures, crashes and buffering; *)
(* here every operation succeeds if the files allow it, and what matters   *)
(* is what a name refers to when the operation is done.  Names and files   *)
(* are therefore kept apart: dir maps a name to a file, and an open FILE*  *)
(* keeps its file when the name is moved or removed (POSIX); on Windows a  *)
(* file that is open can be neither removed nor renamed, and the code      *)
(* ignores the error.  A message has one line.                             *)
(***************************************************************************)
EXTENDS Naturals, Sequences

CONSTANTS
    MaxCount,       \* max_count of both sinks
    MaxFiles,       \* max_files of both sinks
    Platforms,      \* which of "posix" and "windows" are considered
    OpenModes,      \* values of rotate_on_open considered
    StrictModes,    \* values of strict_count_on_open considered
    MaxOld,         \* bound: messages posted before the reload
    MaxNew          \* bound: messages logged after it

ASSUME ConstantsAssumption ==
    /\ MaxCount \in Nat \ {0} /\ MaxFiles \in Nat \ {0}
    /\ Platforms \subseteq {"posix", "windows"}
    /\ OpenModes \subseteq BOOLEAN /\ StrictModes \subseteq BOOLEAN
    /\ MaxOld \in Nat /\ MaxNew \in Nat

Sinks == {"old", "new"}
Other(s) == IF s = "old" THEN "new" ELSE "old"
Slots == 0..MaxFiles

\* A name refers to at most one file, and each sink holds at most one more.
Files == 1..(MaxFiles + 3)
None == 0

VARIABLES
    platform, rotateOnOpen, strict,
    dir,        \* dir[0] is stem.log, dir[i] is stem.i.log
    file,       \* the messages in each file: sink and number
    fd,         \* file_helper_: the file each sink has open
    dirty,      \* the last message is still in the sink's stdio buffer
    logCount,   \* log_count_
    rotDone,    \* rotated_on_open_done_
    pc, cont, ret, src,     \* as in CountRotatingSink, for each sink
    sent,       \* messages each sink has written
    posted,     \* messages posted to the old logger's queue
    phase,      \* "before" the reload, "overlap", or "after" it
    clean       \* first message the new sink put into a file it opened after
                \* the overlap; 0 until then

settings == <<platform, rotateOnOpen, strict>>
sinkVars == <<fd, dirty, logCount, rotDone, sent>>
control == <<pc, cont, ret, src>>
reload == <<posted, phase, clean>>
vars == <<settings, dir, file, sinkVars, control, reload>>

Init ==
    /\ platform \in Platforms
    /\ rotateOnOpen \in OpenModes /\ strict \in StrictModes
    /\ dir = [i \in Slots |-> None]
    /\ file = [f \in Files |-> <<>>]
    /\ fd = [s \in Sinks |-> None]
    /\ dirty = [s \in Sinks |-> FALSE]
    /\ logCount = [s \in Sinks |-> 0]
    /\ rotDone = [s \in Sinks |-> FALSE]
    /\ pc = [s \in Sinks |-> "idle"]
    /\ cont = [s \in Sinks |-> "check"]
    /\ ret = [s \in Sinks |-> "flush"]
    /\ src = [s \in Sinks |-> 0]
    /\ sent = [s \in Sinks |-> 0]
    /\ posted = 0 /\ phase = "before" /\ clean = 0

-----------------------------------------------------------------------------
(* Files.                                                                  *)

Exists(i) == dir[i] # None
Held(f) == f # None /\ \E s \in Sinks : fd[s] = f
Referenced(names, handles, f) ==
    (\E i \in Slots : names[i] = f) \/ (\E s \in Sinks : handles[s] = f)

\* Contents of a file nothing refers to any more are gone.
SetDir(names) ==
    /\ dir' = names
    /\ file' = [f \in Files |-> IF Referenced(names, fd, f) THEN file[f] ELSE <<>>]

\* The file a new name gets.
FreshFile == CHOOSE f \in Files : ~Referenced(dir, fd, f)

\* What stands in s's buffer reaches the file s has open, wherever that is.
Flushed(s) ==
    IF dirty[s] THEN [file EXCEPT ![fd[s]] = Append(@, <<s, sent[s]>>)] ELSE file

Movable(i) == platform = "windows" => ~Held(dir[i])

\* fs::remove(path, ec); a name that is not there is no error.
Removed(i) == IF Movable(i) THEN [dir EXCEPT ![i] = None] ELSE dir

-----------------------------------------------------------------------------
(* Control of one sink.                                                    *)

Goto(s, label) ==
    /\ pc' = [pc EXCEPT ![s] = label]
    /\ UNCHANGED <<cont, ret, src>>

CallRotate(s, return) ==
    /\ pc' = [pc EXCEPT ![s] = "close"]
    /\ ret' = [ret EXCEPT ![s] = return]
    /\ UNCHANGED <<cont, src>>

-----------------------------------------------------------------------------
(* The reload.                                                             *)

\* The program logs; the message waits in the queue of the old pool.
Post ==
    /\ phase = "before" /\ posted < MaxOld
    /\ posted' = posted + 1
    /\ UNCHANGED <<settings, dir, file, sinkVars, control, phase, clean>>

\* loadConfigFile with async false: a new sink, and the old pool goes on.
Reload ==
    /\ phase = "before"
    /\ phase' = "overlap"
    /\ UNCHANGED <<settings, dir, file, sinkVars, control, posted, clean>>

\* The worker has written the last message and drops the old logger: the
\* destructor of its sink closes the file.
Retire ==
    /\ phase = "overlap" /\ pc["old"] = "idle" /\ sent["old"] = posted
    /\ phase' = "after"
    /\ fd' = [fd EXCEPT !["old"] = None]
    /\ file' = [f \in Files |->
                  IF Referenced(dir, fd', f) THEN file[f] ELSE <<>>]
    /\ UNCHANGED <<settings, dir, dirty, logCount, rotDone, sent, control,
                   posted, clean>>

\* The worker takes a message from the queue, or the program logs.
HasMessage(s) ==
    IF s = "old" THEN sent[s] < posted
                 ELSE phase # "before" /\ sent[s] < MaxNew

-----------------------------------------------------------------------------
(* sink_it_ of sink s, one file operation at a time.                       *)

\* rotate_on_open, and the first test of log_count_.
Log(s) ==
    /\ pc[s] = "idle" /\ HasMessage(s)
    /\ rotDone' = [rotDone EXCEPT ![s] = TRUE]
    /\ pc' = [pc EXCEPT ![s] =
                IF (~rotDone[s] /\ rotateOnOpen /\ Exists(0)) \/ logCount[s] >= MaxCount
                THEN "close" ELSE "ensure"]
    /\ ret' = [ret EXCEPT ![s] = "ensure"]
    /\ cont' = [cont EXCEPT ![s] = "check"]
    /\ UNCHANGED <<settings, dir, file, fd, dirty, logCount, sent, src, reload>>

\* ensure_opened_for_write_ up to the open.  fs::exists and the reading of the
\* lines are one step: if stem.log disappears between them, 0 lines are read,
\* which is what a missing file gives.
EnsureOpened(s) ==
    LET lines == IF Exists(0) THEN Len(file[dir[0]]) ELSE 0
    IN  /\ pc[s] = "ensure"
        /\ \/ /\ fd[s] # None
              /\ Goto(s, cont[s]) /\ UNCHANGED logCount
           \/ /\ fd[s] = None /\ ~strict
              /\ Goto(s, "open") /\ logCount' = [logCount EXCEPT ![s] = 0]
           \/ /\ fd[s] = None /\ strict /\ lines < MaxCount
              /\ Goto(s, "open") /\ logCount' = [logCount EXCEPT ![s] = lines]
           \/ /\ fd[s] = None /\ strict /\ lines >= MaxCount
              /\ CallRotate(s, "open") /\ UNCHANGED logCount
        /\ UNCHANGED <<settings, dir, file, fd, dirty, rotDone, sent, reload>>

\* file_helper_.open: whatever stem.log is by now is opened for appending.
OpenFile(s) ==
    /\ pc[s] = "open"
    /\ LET f == IF Exists(0) THEN dir[0] ELSE FreshFile
       IN  /\ dir' = [dir EXCEPT ![0] = f]
           /\ fd' = [fd EXCEPT ![s] = f]
    /\ clean' = IF s = "new" /\ phase = "after" /\ clean = 0
                THEN sent[s] + 1 ELSE clean
    /\ Goto(s, cont[s])
    /\ UNCHANGED <<settings, file, dirty, logCount, rotDone, sent, posted, phase>>

\* The second test of log_count_.
CheckBeforeWrite(s) ==
    /\ pc[s] = "check"
    /\ IF logCount[s] >= MaxCount
       THEN /\ pc' = [pc EXCEPT ![s] = "close"]
            /\ ret' = [ret EXCEPT ![s] = "ensure"]
            /\ cont' = [cont EXCEPT ![s] = "write"]
            /\ UNCHANGED src
       ELSE Goto(s, "write")
    /\ UNCHANGED <<settings, dir, file, sinkVars, reload>>

\* The write, into the stdio buffer, and the last test of log_count_.
Write(s) ==
    /\ pc[s] = "write"
    /\ dirty' = [dirty EXCEPT ![s] = TRUE]
    /\ sent' = [sent EXCEPT ![s] = @ + 1]
    /\ logCount' = [logCount EXCEPT ![s] = @ + 1]
    /\ IF logCount[s] + 1 >= MaxCount THEN CallRotate(s, "flush") ELSE Goto(s, "flush")
    /\ UNCHANGED <<settings, dir, file, fd, rotDone, reload>>

\* flush_, which flush_on "trace" asks for after every message.  After a
\* rotation the FILE* is null, and fflush(NULL) flushes every open stream.
Flush(s) ==
    LET t == IF fd[s] # None THEN s ELSE Other(s)
    IN  /\ pc[s] = "flush"
        /\ file' = Flushed(t)
        /\ dirty' = [dirty EXCEPT ![t] = FALSE]
        /\ Goto(s, "idle")
        /\ UNCHANGED <<settings, dir, fd, logCount, rotDone, sent, reload>>

-----------------------------------------------------------------------------
(* rotate_files_ of sink s.                                                *)

\* Faulty variant: the FILE* stays open and follows the renamed file.
CloseKeepsHandle(s) ==
    /\ pc[s] = "close"
    /\ file' = Flushed(s)
    /\ dirty' = [dirty EXCEPT ![s] = FALSE]
    /\ logCount' = [logCount EXCEPT ![s] = 0]
    /\ Goto(s, "rmOldest")
    /\ UNCHANGED <<settings, dir, fd, rotDone, sent, reload>>

Close(s) ==
    /\ pc[s] = "close"
    /\ fd' = [fd EXCEPT ![s] = None]
    /\ file' = [f \in Files |->
                  IF Referenced(dir, fd', f) THEN Flushed(s)[f] ELSE <<>>]
    /\ dirty' = [dirty EXCEPT ![s] = FALSE]
    /\ logCount' = [logCount EXCEPT ![s] = 0]
    /\ Goto(s, "rmOldest")
    /\ UNCHANGED <<settings, dir, rotDone, sent, reload>>

\* Faulty variant: the newest backup is removed.
RemoveNewest(s) ==
    /\ pc[s] = "rmOldest"
    /\ SetDir(Removed(1))
    /\ pc' = [pc EXCEPT ![s] = "exists"]
    /\ src' = [src EXCEPT ![s] = MaxFiles - 1]
    /\ UNCHANGED <<settings, sinkVars, cont, ret, reload>>

RemoveOldest(s) ==
    /\ pc[s] = "rmOldest"
    /\ SetDir(Removed(MaxFiles))
    /\ pc' = [pc EXCEPT ![s] = "exists"]
    /\ src' = [src EXCEPT ![s] = MaxFiles - 1]
    /\ UNCHANGED <<settings, sinkVars, cont, ret, reload>>

\* Faulty variant: the loop does not stop at stem.log.
NextSourceEndless(s) ==
    /\ pc' = [pc EXCEPT ![s] = "exists"]
    /\ src' = [src EXCEPT ![s] = @ - 1]
    /\ UNCHANGED <<cont, ret>>

\* The next file to move; after stem.log the rotation returns.
NextSource(s) ==
    IF src[s] = 0 THEN Goto(s, ret[s])
    ELSE /\ pc' = [pc EXCEPT ![s] = "exists"]
         /\ src' = [src EXCEPT ![s] = @ - 1]
         /\ UNCHANGED <<cont, ret>>

SourceExists(s) ==
    /\ pc[s] = "exists"
    /\ IF Exists(src[s]) THEN Goto(s, "rmTarget") ELSE NextSource(s)
    /\ UNCHANGED <<settings, dir, file, sinkVars, reload>>

RemoveTarget(s) ==
    /\ pc[s] = "rmTarget"
    /\ SetDir(Removed(src[s] + 1))
    /\ Goto(s, "rename")
    /\ UNCHANGED <<settings, sinkVars, reload>>

\* Faulty variant: the source is copied and stays.
RenameKeepsSource(s) ==
    /\ pc[s] = "rename"
    /\ LET i == src[s]
           f == IF Exists(i + 1) THEN dir[i + 1] ELSE FreshFile
       IN  IF Exists(i)
           THEN /\ dir' = [dir EXCEPT ![i + 1] = f]
                /\ file' = [file EXCEPT ![f] = file[dir[i]]]
           ELSE UNCHANGED <<dir, file>>
    /\ NextSource(s)
    /\ UNCHANGED <<settings, sinkVars, reload>>

\* On Windows a file also resists while the other sink counts its lines.
MayBeRead(s, i) ==
    LET o == Other(s)
    IN  platform = "windows" /\ i = 0 /\ strict /\ pc[o] = "ensure" /\ fd[o] = None

\* fs::rename(src, dst, ec), with whatever the two names refer to by now.
Rename(s) ==
    /\ pc[s] = "rename"
    /\ LET i == src[s]
           possible == Exists(i) /\ Movable(i) /\ Movable(i + 1)
       IN  \/ /\ possible
              /\ SetDir([dir EXCEPT ![i + 1] = dir[i], ![i] = None])
           \/ /\ ~possible \/ MayBeRead(s, i)
              /\ UNCHANGED <<dir, file>>
    /\ NextSource(s)
    /\ UNCHANGED <<settings, sinkVars, reload>>

-----------------------------------------------------------------------------
SinkIt(s) ==
    \/ EnsureOpened(s) \/ OpenFile(s) \/ CheckBeforeWrite(s) \/ Write(s) \/ Flush(s)
    \/ Close(s) \/ RemoveOldest(s) \/ SourceExists(s) \/ RemoveTarget(s) \/ Rename(s)

Next == Post \/ Reload \/ Retire \/ \E s \in Sinks : Log(s) \/ SinkIt(s)

Spec == Init /\ [][Next]_vars

-----------------------------------------------------------------------------
(* Properties.                                                             *)

\* Types of the variables, and no two names for one file.
TypeOK ==
    /\ platform \in Platforms
    /\ rotateOnOpen \in OpenModes /\ strict \in StrictModes
    /\ dir \in [Slots -> Files \cup {None}]
    /\ \A i, j \in Slots : i # j /\ Exists(i) => dir[i] # dir[j]
    /\ DOMAIN file = Files
    /\ \A f \in Files : file[f] \in Seq(Sinks \X Nat)
    /\ fd \in [Sinks -> Files \cup {None}]
    /\ dirty \in [Sinks -> BOOLEAN] /\ rotDone \in [Sinks -> BOOLEAN]
    /\ \A s \in Sinks : dirty[s] => fd[s] # None
    /\ logCount \in [Sinks -> 0..MaxCount]
    /\ pc \in [Sinks -> {"idle", "ensure", "open", "check", "write", "flush",
                         "close", "rmOldest", "exists", "rmTarget", "rename"}]
    /\ cont \in [Sinks -> {"check", "write"}]
    /\ ret \in [Sinks -> {"ensure", "open", "flush"}]
    /\ src \in [Sinks -> 0..(MaxFiles - 1)]
    /\ sent \in [Sinks -> Nat]
    /\ posted \in 0..MaxOld /\ phase \in {"before", "overlap", "after"}
    /\ clean \in Nat

MessagesOf(s, f) == {file[f][k][2] : k \in {j \in 1..Len(file[f]) : file[f][j][1] = s}}

\* However the two rotations interleave, the log still shows the messages of
\* each sink in the order it wrote them, none twice: along the chain from the
\* oldest backup to stem.log and inside each file.
SinkOrder ==
    \A s \in Sinks :
        /\ \A i, j \in Slots : i < j /\ Exists(i) /\ Exists(j) =>
             \A a \in MessagesOf(s, dir[i]), b \in MessagesOf(s, dir[j]) : b < a
        /\ \A f \in Files : \A j, k \in 1..Len(file[f]) :
             j < k /\ file[f][j][1] = s /\ file[f][k][1] = s
                => file[f][j][2] < file[f][k][2]

\* Two sinks count their messages apart, so a file may exceed max_count while
\* they overlap, but each adds at most max_count to it: no file of the POSIX
\* build ever has more than twice max_count lines.
OverlapBound ==
    platform = "posix" => \A f \in Files : Len(file[f]) <= 2 * MaxCount

\* Messages of one sink that can be read.
Readable(s) == UNION {MessagesOf(s, dir[i]) : i \in {j \in Slots : Exists(j)}}

\* The overlap does no lasting damage.  Once the old sink is gone and the new
\* one has opened a file, its newest max_files * max_count messages can always
\* be read, also those the overlap made it put into files it did not start.
RecoversAfterOverlap ==
    clean > 0 =>
        \A n \in clean..sent["new"] :
            n + MaxFiles * MaxCount > sent["new"] =>
                n \in Readable("new") \/ (n = sent["new"] /\ dirty["new"])
=============================================================================
