----------------------- MODULE CountRotatingSinkProofs -----------------------
(***************************************************************************)
(* Proofs about CountRotatingSink for every number of backups, limit,      *)
(* message length, set of failing operations and bound.                    *)
(***************************************************************************)
EXTENDS CountRotatingSink, TLAPS

\* While files are moved no FILE* is open, so nothing is buffered, and the
\* target of a move is a slot of the chain.
ControlInv ==
    /\ ~fd => buf.ids = {}
    /\ pc \in {"rmOldest", "shift", "rename"} => ~fd /\ cfg.maxFiles > 0
    /\ pc \in {"shift", "rename"} => src < cfg.maxFiles

-----------------------------------------------------------------------------
(* Facts about files.                                                      *)

\* Joining two files gives a file that holds the messages of both.
LEMMA JoinFile ==
    ASSUME NEW f \in File, NEW g \in File
    PROVE  /\ Join(f, g) \in File
           /\ Join(f, g).ids = f.ids \cup g.ids
           /\ Join(f, g).newlines = f.newlines + g.newlines
           /\ Join(f, g).exists = TRUE
BY DEF Join, File

\* The absent and the empty file are files without messages.
LEMMA EmptyFile ==
    /\ Absent \in File /\ Absent.ids = {} /\ Absent.exists = FALSE
    /\ Empty \in File /\ Empty.ids = {} /\ Empty.newlines = 0 /\ ~Empty.torn
BY DEF Absent, Empty, File

\* The parameters of a sink are numbers and Booleans in range.
LEMMA ConfigType ==
    ASSUME NEW c \in Configs
    PROVE  /\ c.maxCount \in Nat
           /\ c.maxFiles \in Nat /\ c.maxFiles <= MaxSlot
           /\ c.rotateOnOpen \in BOOLEAN /\ c.strict \in BOOLEAN
BY ConstantsAssumption DEF Config

-----------------------------------------------------------------------------
(* Type correctness.                                                       *)

\* What TypeOK says of the files, and of everything else.
FilesOK == disk \in [Slots -> File] /\ buf \in File

ControlOK ==
    /\ cfg \in Configs
    /\ fd \in BOOLEAN /\ opened \in BOOLEAN /\ rotDone \in BOOLEAN
    /\ logCount \in Nat
    /\ pc \in {"idle", "entry", "ensure", "open", "check", "write",
               "close", "rmOldest", "shift", "rename"}
    /\ cont \in {"check", "write"}
    /\ ret \in {"idle", "entry", "ensure", "open"}
    /\ src \in Nat /\ src <= MaxSlot
    /\ nextId \in Nat /\ nextId > 0
    /\ lost \subseteq Nat
    /\ restarts \in Nat /\ crashes \in Nat

\* TypeOK, split into what holds of the files and what holds of the control.
LEMMA TypeSplit == TypeOK <=> FilesOK /\ ControlOK
BY ConstantsAssumption DEF TypeOK, FilesOK, ControlOK, Slots

\* A new sink over an empty directory is well typed.
LEMMA TypeInit == Init => TypeOK /\ ControlInv
<1> SUFFICES ASSUME Init PROVE TypeOK /\ ControlInv
  OBVIOUS
<1>1. FilesOK
  BY EmptyFile DEF Init, FilesOK
<1>2. ControlOK
  <2>1. MaxSlot \in Nat
    BY ConstantsAssumption
  <2>2. src \in Nat /\ src <= MaxSlot
    BY <2>1 DEF Init
  <2>3. fd \in BOOLEAN /\ opened \in BOOLEAN /\ rotDone \in BOOLEAN
    BY DEF Init
  <2>4. lost \subseteq Nat /\ nextId \in Nat /\ nextId > 0 /\ logCount \in Nat
        /\ restarts \in Nat /\ crashes \in Nat
    BY DEF Init
  <2> QED
    BY <2>2, <2>3, <2>4 DEF Init, ControlOK
<1>3. ControlInv
  BY EmptyFile DEF Init, ControlInv
<1> QED
  BY <1>1, <1>2, <1>3, TypeSplit

\* Every step keeps the types and the control invariant.
LEMMA TypeStep ==
    ASSUME TypeOK, ControlInv, [Next]_vars
    PROVE  TypeOK' /\ ControlInv'
<1>0. FilesOK /\ ControlOK
  BY TypeSplit
<1>s. SUFFICES FilesOK' /\ ControlOK' /\ ControlInv'
  BY TypeSplit, ConstantsAssumption DEF TypeOK, FilesOK, ControlOK, Slots
<1>f. 0 \in Slots /\ \A i \in Slots : disk[i] \in File
  BY <1>0, ConstantsAssumption DEF FilesOK, Slots
<1>g. /\ cfg.maxCount \in Nat /\ cfg.maxFiles \in Nat /\ cfg.maxFiles <= MaxSlot
      /\ MaxSlot \in Nat
  BY <1>0, ConfigType, ConstantsAssumption DEF ControlOK
<1>h. /\ buf \in File /\ buf.ids \subseteq Nat
      /\ Join(disk[0], buf) \in File
  BY <1>0, <1>f, JoinFile DEF FilesOK, File
<1>1. CASE Log
  <2>1. FilesOK'
    BY <1>1, <1>0, <1>f, <1>h, <1>g DEF FilesOK, Log, CallRotate, Goto, bounds
  <2>2. ControlOK'
    BY <1>1, <1>0, <1>f, <1>g, <1>h DEF ControlOK, FilesOK, Log, CallRotate, Goto, bounds
  <2>3. ControlInv'
    BY <1>1, <1>0, <1>g, EmptyFile DEF ControlInv, ControlOK, Log, CallRotate, Goto, bounds
  <2> QED  BY <2>1, <2>2, <2>3
<1>2. CASE CheckEntry
  <2>1. FilesOK'
    BY <1>2, <1>0, <1>f, <1>h, <1>g DEF FilesOK, CheckEntry, bounds
  <2>2. ControlOK'
    BY <1>2, <1>0, <1>f, <1>g, <1>h DEF ControlOK, FilesOK, CheckEntry, bounds
  <2>3. ControlInv'
    BY <1>2, <1>0, <1>g, EmptyFile DEF ControlInv, ControlOK, CheckEntry, bounds
  <2> QED  BY <2>1, <2>2, <2>3
<1>3. CASE EnsureOpened
  <2>1. FilesOK'
    BY <1>3, <1>0, <1>f, <1>h, <1>g DEF FilesOK, EnsureOpened, CallRotate, Goto, bounds, LineAnswers, CountLines, File
  <2>2. ControlOK'
    BY <1>3, <1>0, <1>f, <1>g, <1>h DEF ControlOK, FilesOK, EnsureOpened, CallRotate, Goto, bounds, LineAnswers, CountLines, File
  <2>3. ControlInv'
    BY <1>3, <1>0, <1>g, EmptyFile DEF ControlInv, ControlOK, EnsureOpened, CallRotate, Goto, bounds, LineAnswers, CountLines, File
  <2> QED  BY <2>1, <2>2, <2>3
<1>4. CASE OpenFile
  <2>1. FilesOK'
    BY <1>4, <1>0, <1>f, <1>h, JoinFile, EmptyFile, <1>g DEF FilesOK, OpenFile, Goto, bounds
  <2>2. ControlOK'
    BY <1>4, <1>0, <1>f, <1>g, <1>h DEF ControlOK, FilesOK, OpenFile, Goto, bounds
  <2>3. ControlInv'
    BY <1>4, <1>0, <1>g, EmptyFile DEF ControlInv, ControlOK, OpenFile, Goto, bounds
  <2> QED  BY <2>1, <2>2, <2>3
<1>5. CASE OpenFails
  <2>1. FilesOK'
    BY <1>5, <1>0, <1>f, <1>h, <1>g DEF FilesOK, OpenFails, Throw, Goto, bounds, sink
  <2>2. ControlOK'
    BY <1>5, <1>0, <1>f, <1>g, <1>h DEF ControlOK, FilesOK, OpenFails, Throw, Goto, bounds, sink
  <2>3. ControlInv'
    BY <1>5, <1>0, <1>g, EmptyFile DEF ControlInv, ControlOK, OpenFails, Throw, Goto, bounds, sink
  <2> QED  BY <2>1, <2>2, <2>3
<1>6. CASE CheckBeforeWrite
  <2>1. FilesOK'
    BY <1>6, <1>0, <1>f, <1>h, <1>g DEF FilesOK, CheckBeforeWrite, bounds, sink
  <2>2. ControlOK'
    BY <1>6, <1>0, <1>f, <1>g, <1>h DEF ControlOK, FilesOK, CheckBeforeWrite, bounds, sink
  <2>3. ControlInv'
    BY <1>6, <1>0, <1>g, EmptyFile DEF ControlInv, ControlOK, CheckBeforeWrite, bounds, sink
  <2> QED  BY <2>1, <2>2, <2>3
<1>7. CASE Write
  <2>1. FilesOK'
    <3>1. PICK n \in LineCounts : Fwrite(n)
      BY <1>7 DEF Write
    <3> DEFINE message(k) == [exists |-> TRUE, ids |-> {nextId}, newlines |-> k, torn |-> FALSE]
               head(k) == [exists |-> TRUE, ids |-> {}, newlines |-> k, torn |-> TRUE]
    <3>2. n \in Nat /\ n > 0
      BY ConstantsAssumption
    <3>3. \A k \in Nat : message(k) \in File /\ head(k) \in File
      BY <1>0 DEF ControlOK, File
    <3>4. CASE ~fd
      BY <3>1, <3>4, <1>0 DEF Fwrite, FilesOK
    <3>5. CASE fd /\ buf' = Join(buf, message(n)) /\ UNCHANGED disk
      <4>1. buf' \in File
        BY <3>5, <3>2, <3>3, <1>h, JoinFile
      <4> QED  BY <4>1, <3>5, <1>0 DEF FilesOK
    <3>6. ASSUME NEW j \in 0..(n - 1),
                 disk' = [disk EXCEPT ![0] = Join(Join(@, buf), head(j))],
                 buf' = message(n - j)
          PROVE  FilesOK'
      <4>1. j \in Nat /\ n - j \in Nat
        BY <3>2
      <4>2. Join(Join(disk[0], buf), head(j)) \in File
        BY <4>1, <3>3, <1>h, JoinFile
      <4>3. buf' \in File
        BY <4>1, <3>3, <3>6
      <4> QED  BY <4>2, <4>3, <3>6, <1>0, <1>f DEF FilesOK
    <3> QED
      BY <3>1, <3>4, <3>5, <3>6 DEF Fwrite
  <2>2. ControlOK'
    BY <1>7, <1>0, <1>f, <1>g, <1>h DEF ControlOK, FilesOK, Write, Fwrite, CallRotate, Goto, bounds
  <2>3. ControlInv'
    BY <1>7, <1>0, <1>g, EmptyFile DEF ControlInv, ControlOK, Write, Fwrite, CallRotate, Goto, bounds
  <2> QED  BY <2>1, <2>2, <2>3
<1>8. CASE WriteFails
  <2>1. FilesOK'
    <3>1. CASE UNCHANGED buf
      BY <1>8, <3>1, <1>0 DEF WriteFails, FilesOK
    <3>2. ASSUME NEW n \in LineCounts, NEW j \in 0..(n - 1),
                 buf' = Join(buf, [exists |-> TRUE, ids |-> {}, newlines |-> j, torn |-> TRUE])
          PROVE  buf' \in File
      <4>1. j \in Nat
        BY ConstantsAssumption
      <4>2. [exists |-> TRUE, ids |-> {}, newlines |-> j, torn |-> TRUE] \in File
        BY <4>1 DEF File
      <4> QED  BY <4>2, <3>2, <1>h, JoinFile
    <3> QED
      BY <1>8, <3>1, <3>2, <1>0 DEF WriteFails, FilesOK
  <2>2. ControlOK'
    BY <1>8, <1>0, <1>f, <1>g, <1>h DEF ControlOK, FilesOK, WriteFails, Throw, Goto, bounds, sink
  <2>3. ControlInv'
    BY <1>8, <1>0, <1>g, EmptyFile DEF ControlInv, ControlOK, WriteFails, Throw, Goto, bounds, sink
  <2> QED  BY <2>1, <2>2, <2>3
<1>9. CASE Close
  <2>1. FilesOK'
    BY <1>9, <1>0, <1>f, <1>h, EmptyFile DEF FilesOK, Close, CloseBuffer
  <2>2. ControlOK'
    BY <1>9, <1>0, <1>f, <1>g, <1>h DEF ControlOK, FilesOK, Close, CloseBuffer, Goto, bounds
  <2>3. ControlInv'
    BY <1>9, <1>0, <1>g, EmptyFile DEF ControlInv, ControlOK, Close, CloseBuffer, Goto, bounds
  <2> QED  BY <2>1, <2>2, <2>3
<1>10. CASE RemoveOldest
  <2>1. FilesOK'
    BY <1>10, <1>0, <1>f, <1>h, EmptyFile, <1>g DEF FilesOK, RemoveOldest, Remove, bounds, sink
  <2>2. ControlOK'
    BY <1>10, <1>0, <1>g DEF ControlOK, ControlInv, RemoveOldest, bounds, sink
  <2>3. ControlInv'
    BY <1>10, <1>0, <1>g, EmptyFile DEF ControlInv, ControlOK, RemoveOldest, Remove, bounds, sink
  <2> QED  BY <2>1, <2>2, <2>3
<1>11. CASE Shift
  <2>1. FilesOK'
    BY <1>11, <1>0, <1>f, <1>h, EmptyFile, <1>g DEF FilesOK, Shift, Remove, NextSource, Goto, bounds, sink
  <2>2. ControlOK'
    BY <1>11, <1>0, <1>f, <1>g, <1>h DEF ControlOK, FilesOK, Shift, Remove, NextSource, Goto, bounds, sink
  <2>3. ControlInv'
    BY <1>11, <1>0, <1>g, EmptyFile DEF ControlInv, ControlOK, Shift, Remove, NextSource, Goto, bounds, sink
  <2> QED  BY <2>1, <2>2, <2>3
<1>12. CASE Rename
  <2>1. FilesOK'
    <3>1. src + 1 \in Slots /\ src \in Slots
      BY <1>12, <1>0, <1>g DEF Rename, ControlOK, ControlInv, Slots
    <3> QED
      BY <1>12, <3>1, <1>0, <1>f, EmptyFile DEF FilesOK, Rename
  <2>2. ControlOK'
    BY <1>12, <1>0, <1>f, <1>g, <1>h DEF ControlOK, FilesOK, Rename, NextSource, Goto, bounds, sink
  <2>3. ControlInv'
    BY <1>12, <1>0, <1>g, EmptyFile DEF ControlInv, ControlOK, Rename, NextSource, Goto, bounds, sink
  <2> QED  BY <2>1, <2>2, <2>3
<1>13. CASE Flush
  <2>1. FilesOK'
    BY <1>13, <1>0, <1>f, <1>h, EmptyFile DEF FilesOK, Flush
  <2>2. ControlOK'
    BY <1>13, <1>0, <1>f, <1>g, <1>h DEF ControlOK, FilesOK, Flush, bounds, sink, control
  <2>3. ControlInv'
    BY <1>13, <1>0, <1>g, EmptyFile DEF ControlInv, ControlOK, Flush, bounds, sink, control
  <2> QED  BY <2>1, <2>2, <2>3
<1>14. CASE Restart
  <2>1. FilesOK'
    BY <1>14, <1>0, <1>f, <1>h, EmptyFile DEF FilesOK, Restart, CloseBuffer
  <2>2. ControlOK'
    <3>1. src' \in Nat /\ src' <= MaxSlot /\ logCount' \in Nat
      BY <1>14, <1>g DEF Restart, NewSink
    <3>2. lost' \subseteq Nat
      BY <1>14, <1>0, <1>h DEF Restart, CloseBuffer, ControlOK
    <3>3. fd' \in BOOLEAN /\ opened' \in BOOLEAN /\ rotDone' \in BOOLEAN
      BY <1>14 DEF Restart, NewSink
    <3>4. /\ nextId' \in Nat /\ nextId' > 0
          /\ restarts' \in Nat /\ crashes' \in Nat
      BY <1>14, <1>0 DEF Restart, ControlOK
    <3> QED
      BY <1>14, <3>1, <3>2, <3>3, <3>4 DEF Restart, NewSink, ControlOK
  <2>3. ControlInv'
    BY <1>14, <1>0, <1>g, EmptyFile DEF ControlInv, ControlOK, Restart, CloseBuffer, NewSink, bounds
  <2> QED  BY <2>1, <2>2, <2>3
<1>15. CASE Crash
  <2>1. FilesOK'
    BY <1>15, <1>0, <1>f, <1>h, EmptyFile, <1>g DEF FilesOK, Crash, NewSink, bounds
  <2>2. ControlOK'
    <3>1. src' \in Nat /\ src' <= MaxSlot /\ logCount' \in Nat
      BY <1>15, <1>g DEF Crash, NewSink
    <3>2. lost' \subseteq Nat
      BY <1>15, <1>0, <1>h DEF Crash, ControlOK
    <3>3. fd' \in BOOLEAN /\ opened' \in BOOLEAN /\ rotDone' \in BOOLEAN
      BY <1>15 DEF Crash, NewSink
    <3>4. /\ nextId' \in Nat /\ nextId' > 0
          /\ restarts' \in Nat /\ crashes' \in Nat
      BY <1>15, <1>0 DEF Crash, ControlOK
    <3> QED
      BY <1>15, <3>1, <3>2, <3>3, <3>4 DEF Crash, NewSink, ControlOK
  <2>3. ControlInv'
    BY <1>15, <1>0, <1>g, EmptyFile DEF ControlInv, ControlOK, Crash, NewSink, bounds
  <2> QED  BY <2>1, <2>2, <2>3
<1>16. CASE UNCHANGED vars
  <2>1. FilesOK'
    BY <1>16, <1>0, <1>f, <1>h, <1>g DEF FilesOK, vars, sink, control, bounds
  <2>2. ControlOK'
    BY <1>16, <1>0, <1>f, <1>g, <1>h DEF ControlOK, FilesOK, vars, sink, control, bounds
  <2>3. ControlInv'
    BY <1>16, <1>0, <1>g, EmptyFile DEF ControlInv, ControlOK, vars, sink, control, bounds
  <2> QED  BY <2>1, <2>2, <2>3
<1> QED
  BY <1>1, <1>2, <1>3, <1>4, <1>5, <1>6, <1>7, <1>8, <1>9, <1>10, <1>11,
     <1>12, <1>13, <1>14, <1>15, <1>16 DEF Next, SinkIt

\* Type correctness of the sink, and what is known while files are moved.
THEOREM TypeCorrect == Spec => [](TypeOK /\ ControlInv)
<1>1. TypeOK /\ ControlInv /\ [Next]_vars => (TypeOK /\ ControlInv)'
  BY TypeStep
<1> QED
  BY TypeInit, <1>1, PTL DEF Spec

-----------------------------------------------------------------------------
(* The order of the chain.                                                 *)

\* ChainOrdered, in terms of the messages of each slot (D), of the buffer (B)
\* and of the next number only.
InOrder(D, B, n) ==
    /\ \A i, j \in Slots : i < j => \A a \in D[i], b \in D[j] : b < a
    /\ \A i \in Slots : \A a \in D[i], b \in B : a < b
    /\ \A i \in Slots : \A a \in D[i] : a < n
    /\ \A b \in B : b < n

IdSets == [Slots -> SUBSET Nat]

Ids == [i \in Slots |-> disk[i].ids]

\* ChainOrdered is InOrder of the sets of messages.
LEMMA ChainInOrder ==
    ChainOrdered <=> InOrder(Ids, buf.ids, nextId)
BY DEF ChainOrdered, InOrder, Ids

\* Losing messages keeps the order.
LEMMA OrderShrink ==
    ASSUME NEW D \in IdSets, NEW E \in IdSets, NEW B \in SUBSET Nat,
           NEW C \in SUBSET Nat, NEW n \in Nat,
           InOrder(D, B, n), C \subseteq B,
           \A i \in Slots : E[i] \subseteq D[i]
    PROVE  InOrder(E, C, n)
BY DEF InOrder, IdSets

\* What is buffered joins stem.log.
LEMMA OrderSync ==
    ASSUME NEW D \in IdSets, NEW E \in IdSets, NEW B \in SUBSET Nat, NEW n \in Nat,
           InOrder(D, B, n), E[0] = D[0] \cup B,
           \A i \in Slots : i # 0 => E[i] = D[i]
    PROVE  InOrder(E, {}, n)
BY ConstantsAssumption DEF InOrder, IdSets, Slots

\* A new message is buffered.
LEMMA OrderAppend ==
    ASSUME NEW D \in IdSets, NEW B \in SUBSET Nat, NEW n \in Nat,
           InOrder(D, B, n)
    PROVE  InOrder(D, B \cup {n}, n + 1)
BY DEF InOrder, IdSets

\* A backup moves up by one slot over what was there.
LEMMA OrderMove ==
    ASSUME NEW D \in IdSets, NEW E \in IdSets, NEW B \in SUBSET Nat, NEW n \in Nat,
           NEW s \in Slots, s + 1 \in Slots,
           InOrder(D, B, n), E[s] = {}, E[s + 1] = D[s],
           \A i \in Slots : i # s /\ i # s + 1 => E[i] = D[i]
    PROVE  InOrder(E, B, n)
BY ConstantsAssumption DEF InOrder, IdSets, Slots

-----------------------------------------------------------------------------
(* What each step does to the messages of the chain.                       *)

KeepsIds == Ids' = Ids /\ buf'.ids = buf.ids /\ nextId' = nextId /\ lost' = lost

\* The buffer reaches stem.log.
SyncsIds ==
    /\ Ids' = [Ids EXCEPT ![0] = @ \cup buf.ids] /\ buf'.ids = {}
    /\ nextId' = nextId /\ lost' = lost

\* A new message is buffered, alone or behind what was buffered before.
AppendsId ==
    /\ nextId' = nextId + 1 /\ lost' = lost
    /\ \/ Ids' = Ids /\ buf'.ids = buf.ids \cup {nextId}
       \/ /\ Ids' = [Ids EXCEPT ![0] = @ \cup buf.ids]
          /\ buf'.ids = {nextId}

\* A number is given to a message that went to a closed file.
SkipsId == ~fd /\ Ids' = Ids /\ buf'.ids = buf.ids /\ nextId' = nextId + 1 /\ lost' = lost

RemovesIds(k) ==
    /\ Ids' = [Ids EXCEPT ![k] = {}]
    /\ buf'.ids = buf.ids /\ nextId' = nextId /\ lost' = lost

MovesIds(k) ==
    /\ Ids' = [Ids EXCEPT ![k + 1] = Ids[k], ![k] = {}]
    /\ buf'.ids = buf.ids /\ nextId' = nextId /\ lost' = lost

LosesIds ==
    /\ Ids' = Ids /\ buf'.ids = {}
    /\ nextId' = nextId /\ lost' = lost \cup buf.ids

\* The effect of a step, action by action.
LEMMA StepEffect ==
    ASSUME TypeOK, ControlInv, Next
    PROVE  /\ Log \/ CheckEntry \/ EnsureOpened \/ OpenFile \/ OpenFails
              \/ CheckBeforeWrite \/ WriteFails => KeepsIds
           /\ Write => AppendsId \/ SkipsId
           /\ Close \/ Restart => SyncsIds \/ (Fails("close") /\ LosesIds)
           /\ Flush => SyncsIds \/ KeepsIds
           /\ Crash => LosesIds
           /\ RemoveOldest => RemovesIds(cfg.maxFiles) \/ KeepsIds
           /\ Shift => (disk[src].exists /\ RemovesIds(src + 1)) \/ KeepsIds
           /\ Rename => MovesIds(src) \/ (Fails("rename") /\ KeepsIds)
<1>0. FilesOK /\ ControlOK
  BY TypeSplit
<1>1. 0 \in Slots /\ (\A i \in Slots : disk[i] \in File) /\ buf \in File
  BY <1>0, ConstantsAssumption DEF FilesOK, Slots
<1>2. DOMAIN disk = Slots
  BY <1>0 DEF FilesOK
<1>3. Log \/ CheckEntry \/ EnsureOpened \/ OpenFails \/ CheckBeforeWrite => KeepsIds
  BY DEF Log, CheckEntry, EnsureOpened, OpenFails, CheckBeforeWrite, KeepsIds, Ids
<1>4. ASSUME OpenFile PROVE KeepsIds
  <2>1. disk'[0].ids = disk[0].ids
    BY <1>4, <1>1, <1>2 DEF OpenFile, Join, Empty
  <2>2. \A i \in Slots : i # 0 => disk'[i] = disk[i]
    BY <1>4, <1>1, <1>2 DEF OpenFile
  <2>3. Ids' = Ids
    BY <2>1, <2>2, <1>1 DEF Ids
  <2> QED  BY <2>3, <1>4 DEF OpenFile, KeepsIds
<1>5. WriteFails => KeepsIds
  <2> SUFFICES ASSUME WriteFails PROVE KeepsIds
    OBVIOUS
  <2>1. ASSUME NEW n \in LineCounts, NEW j \in 0..(n - 1),
               buf' = Join(buf, [exists |-> TRUE, ids |-> {}, newlines |-> j, torn |-> TRUE])
        PROVE  buf'.ids = buf.ids
    BY <2>1 DEF Join
  <2> QED
    BY <2>1 DEF WriteFails, KeepsIds, Ids
<1>6. Write => AppendsId \/ SkipsId
  <2> SUFFICES ASSUME Write PROVE AppendsId \/ SkipsId
    OBVIOUS
  <2>1. PICK n \in LineCounts : Fwrite(n)
    BY DEF Write
  <2>2. nextId' = nextId + 1 /\ lost' = lost
    BY DEF Write
  <2>3. CASE ~fd
    BY <2>1, <2>2, <2>3 DEF Fwrite, SkipsId, Ids
  <2>4. CASE buf' = Join(buf, [exists |-> TRUE, ids |-> {nextId}, newlines |-> n, torn |-> FALSE])
             /\ UNCHANGED disk
    BY <2>2, <2>4 DEF Join, AppendsId, Ids
  <2>5. ASSUME NEW j \in 0..(n - 1),
               disk' = [disk EXCEPT ![0] = Join(Join(@, buf),
                          [exists |-> TRUE, ids |-> {}, newlines |-> j, torn |-> TRUE])],
               buf' = [exists |-> TRUE, ids |-> {nextId}, newlines |-> n - j, torn |-> FALSE]
        PROVE  AppendsId
    <3>1. Ids' = [Ids EXCEPT ![0] = @ \cup buf.ids]
      <4>1. disk'[0].ids = disk[0].ids \cup buf.ids
        BY <2>5, <1>1, <1>2 DEF Join
      <4>2. \A i \in Slots : i # 0 => disk'[i] = disk[i]
        BY <2>5, <1>1, <1>2
      <4> QED  BY <4>1, <4>2, <1>1 DEF Ids
    <3>2. buf'.ids = {nextId}
      BY <2>5
    <3> QED  BY <3>1, <3>2, <2>2 DEF AppendsId
  <2> QED
    BY <2>1, <2>3, <2>4, <2>5 DEF Fwrite
<1>7. ASSUME disk' = [disk EXCEPT ![0] = Join(@, buf)]
      PROVE  Ids' = [Ids EXCEPT ![0] = @ \cup buf.ids]
  <2>1. disk'[0].ids = disk[0].ids \cup buf.ids
    BY <1>7, <1>1, <1>2 DEF Join
  <2>2. \A i \in Slots : i # 0 => disk'[i] = disk[i]
    BY <1>7, <1>1, <1>2
  <2> QED  BY <2>1, <2>2, <1>1 DEF Ids
<1>8. disk' = disk => Ids' = Ids
  BY DEF Ids
<1>9. CloseBuffer /\ nextId' = nextId => SyncsIds \/ (Fails("close") /\ LosesIds)
  <2> SUFFICES ASSUME CloseBuffer, nextId' = nextId
               PROVE  SyncsIds \/ (Fails("close") /\ LosesIds)
    OBVIOUS
  <2>1. buf'.ids = {}
    BY EmptyFile DEF CloseBuffer
  <2>2. CASE fd /\ disk' = [disk EXCEPT ![0] = Join(@, buf)] /\ lost' = lost
    BY <2>1, <2>2, <1>7 DEF SyncsIds
  <2>3. CASE ~fd /\ disk' = disk /\ lost' = lost
    <3>1. buf.ids = {}
      BY <2>3 DEF ControlInv
    <3>2. Ids = [Ids EXCEPT ![0] = @ \cup buf.ids]
      BY <3>1, <1>1 DEF Ids
    <3> QED  BY <2>1, <2>3, <3>2, <1>8 DEF SyncsIds
  <2>4. CASE Fails("close") /\ lost' = lost \cup buf.ids /\ disk' = disk
    BY <2>1, <2>4, <1>8 DEF LosesIds
  <2> QED
    BY <2>2, <2>3, <2>4 DEF CloseBuffer
<1>10. Close \/ Restart => SyncsIds \/ (Fails("close") /\ LosesIds)
  BY <1>9 DEF Close, Restart
<1>11. Flush => SyncsIds \/ KeepsIds
  BY <1>7, <1>8, EmptyFile DEF Flush, SyncsIds, KeepsIds
<1>12. Crash => LosesIds
  BY <1>8, EmptyFile DEF Crash, LosesIds
<1>13. ASSUME NEW k \in Slots, Remove(k), buf' = buf, nextId' = nextId, lost' = lost
       PROVE  RemovesIds(k) \/ KeepsIds
  BY <1>13, <1>2, <1>8, EmptyFile DEF Remove, RemovesIds, KeepsIds, Ids
<1>14. RemoveOldest => RemovesIds(cfg.maxFiles) \/ KeepsIds
  <2>1. cfg.maxFiles \in Slots
    BY <1>0, ConfigType DEF ControlOK, Slots
  <2> QED  BY <2>1, <1>13 DEF RemoveOldest
<1>15. pc \in {"shift", "rename"} => src \in Slots /\ src + 1 \in Slots
  BY <1>0, ConfigType, ConstantsAssumption DEF ControlOK, ControlInv, Slots
<1>16. Shift => (disk[src].exists /\ RemovesIds(src + 1)) \/ KeepsIds
  <2> SUFFICES ASSUME Shift PROVE (disk[src].exists /\ RemovesIds(src + 1)) \/ KeepsIds
    OBVIOUS
  <2>1. PICK there \in ExistsAnswers(src) :
          IF there THEN Remove(src + 1) /\ Goto("rename")
                   ELSE NextSource /\ UNCHANGED disk
    BY DEF Shift
  <2>2. buf' = buf /\ nextId' = nextId /\ lost' = lost /\ src + 1 \in Slots /\ src \in Slots
    BY <1>15 DEF Shift
  <2>3. disk[src].exists \in BOOLEAN
    BY <1>1, <2>2 DEF File
  <2>4. there => disk[src].exists
    BY <2>3 DEF ExistsAnswers
  <2>5. CASE there
    BY <2>1, <2>2, <2>4, <2>5, <1>13
  <2>6. CASE ~there
    BY <2>1, <2>2, <2>6, <1>8 DEF KeepsIds
  <2> QED  BY <2>5, <2>6
<1>17. Rename => MovesIds(src) \/ (Fails("rename") /\ KeepsIds)
  <2> SUFFICES ASSUME Rename PROVE MovesIds(src) \/ (Fails("rename") /\ KeepsIds)
    OBVIOUS
  <2>1. src \in Slots /\ src + 1 \in Slots /\ src # src + 1
    BY <1>15, <1>0 DEF Rename, ControlOK
  <2>2. buf' = buf /\ nextId' = nextId /\ lost' = lost
    BY DEF Rename
  <2>3. CASE disk' = [disk EXCEPT ![src + 1] = disk[src], ![src] = Absent]
    BY <2>1, <2>2, <2>3, <1>2, EmptyFile DEF MovesIds, Ids
  <2>4. CASE Fails("rename") /\ UNCHANGED disk
    BY <2>2, <2>4, <1>8 DEF KeepsIds
  <2> QED  BY <2>3, <2>4 DEF Rename
<1> QED
  BY <1>3, <1>4, <1>5, <1>6, <1>10, <1>11, <1>12, <1>14, <1>16, <1>17

\* The sets of messages have the types the order lemmas ask for.
LEMMA IdsType ==
    ASSUME TypeOK
    PROVE  Ids \in IdSets /\ buf.ids \in SUBSET Nat /\ nextId \in Nat /\ 0 \in Slots
BY ConstantsAssumption DEF TypeOK, Ids, IdSets, File, Slots

\* No step disturbs the order of the chain.
LEMMA OrderStep ==
    ASSUME TypeOK, ControlInv, ChainOrdered, [Next]_vars
    PROVE  ChainOrdered'
<1>1. InOrder(Ids, buf.ids, nextId)
  BY ChainInOrder
<1>2. Ids \in IdSets /\ buf.ids \in SUBSET Nat /\ nextId \in Nat /\ 0 \in Slots
  BY IdsType
<1>3. TypeOK' /\ ControlInv'
  BY TypeStep
<1>4. Ids' \in IdSets /\ buf'.ids \in SUBSET Nat /\ nextId' \in Nat
  BY <1>3, ConstantsAssumption DEF TypeOK, Ids, IdSets, File, Slots
<1>5. SUFFICES InOrder(Ids', buf'.ids, nextId')
  BY DEF ChainOrdered, InOrder, Ids
<1>6. CASE KeepsIds
  BY <1>1, <1>6 DEF KeepsIds
<1>7. SyncsIds => InOrder(Ids', buf'.ids, nextId')
  <2> SUFFICES ASSUME SyncsIds PROVE InOrder(Ids', buf'.ids, nextId')
    OBVIOUS
  <2>1. /\ Ids'[0] = Ids[0] \cup buf.ids
        /\ \A i \in Slots : i # 0 => Ids'[i] = Ids[i]
    BY <1>2 DEF SyncsIds, IdSets
  <2>2. InOrder(Ids', {}, nextId)
    BY <2>1, <1>1, <1>2, <1>4, OrderSync
  <2> QED  BY <2>2 DEF SyncsIds
<1>8. AppendsId => InOrder(Ids', buf'.ids, nextId')
  <2>1. CASE Ids' = Ids /\ buf'.ids = buf.ids \cup {nextId} /\ nextId' = nextId + 1
    BY <2>1, <1>1, <1>2, OrderAppend
  <2>2. CASE /\ Ids' = [Ids EXCEPT ![0] = @ \cup buf.ids]
             /\ buf'.ids = {nextId} /\ nextId' = nextId + 1
    <3>1. InOrder(Ids', {}, nextId)
      BY <2>2, <1>1, <1>2, <1>4, OrderSync DEF IdSets
    <3>2. InOrder(Ids', {} \cup {nextId}, nextId + 1)
      BY <3>1, <1>2, <1>4, OrderAppend
    <3>3. {} \cup {nextId} = {nextId}
      OBVIOUS
    <3> QED  BY <2>2, <3>2, <3>3
  <2> QED  BY <2>1, <2>2 DEF AppendsId
<1>9. SkipsId => InOrder(Ids', buf'.ids, nextId')
  BY <1>1, <1>2 DEF SkipsId, InOrder, IdSets
<1>10. \A k \in Slots : RemovesIds(k) => InOrder(Ids', buf'.ids, nextId')
  BY <1>1, <1>2, <1>4, OrderShrink DEF RemovesIds, IdSets
<1>11. \A k \in Slots : k + 1 \in Slots /\ MovesIds(k) => InOrder(Ids', buf'.ids, nextId')
  <2> SUFFICES ASSUME NEW k \in Slots, k + 1 \in Slots, MovesIds(k)
               PROVE  InOrder(Ids', buf'.ids, nextId')
    OBVIOUS
  <2>1. k # k + 1
    BY DEF Slots
  <2>2. /\ Ids'[k] = {} /\ Ids'[k + 1] = Ids[k]
        /\ \A i \in Slots : i # k /\ i # k + 1 => Ids'[i] = Ids[i]
    BY <2>1, <1>2 DEF MovesIds, IdSets
  <2>3. InOrder(Ids', buf.ids, nextId)
    BY <2>2, <1>1, <1>2, <1>4, OrderMove
  <2> QED  BY <2>3 DEF MovesIds
<1>12. LosesIds => InOrder(Ids', buf'.ids, nextId')
  BY <1>1, <1>2, <1>4, OrderShrink DEF LosesIds
<1>13. pc \in {"shift", "rename"} => src \in Slots /\ src + 1 \in Slots
  BY ConfigType, ConstantsAssumption DEF TypeOK, ControlInv, Slots
<1>14. cfg.maxFiles \in Slots
  BY ConfigType DEF TypeOK, Slots
<1>15. CASE Next
  <2>1. CASE Shift
    <3>1. src + 1 \in Slots
      BY <2>1, <1>13 DEF Shift
    <3> QED  BY <2>1, <3>1, <1>15, <1>6, <1>10, StepEffect
  <2>2. CASE Rename
    <3>1. src \in Slots /\ src + 1 \in Slots
      BY <2>2, <1>13 DEF Rename
    <3> QED  BY <2>2, <3>1, <1>15, <1>6, <1>11, StepEffect
  <2>3. CASE RemoveOldest
    BY <2>3, <1>14, <1>15, <1>6, <1>10, StepEffect
  <2>4. CASE Write \/ Close \/ Restart \/ Flush \/ Crash
    BY <2>4, <1>15, <1>6, <1>7, <1>8, <1>9, <1>12, StepEffect
  <2>5. CASE Log \/ CheckEntry \/ EnsureOpened \/ OpenFile \/ OpenFails
             \/ CheckBeforeWrite \/ WriteFails
    BY <2>5, <1>15, <1>6, StepEffect
  <2> QED
    BY <2>1, <2>2, <2>3, <2>4, <2>5, <1>15 DEF Next, SinkIt
<1>16. CASE UNCHANGED vars
  BY <1>16, <1>1 DEF vars, Ids
<1> QED
  BY <1>15, <1>16

\* Whatever fails, wherever the process dies and however the parameters change
\* from one sink to the next, the backups, stem.log and the buffer hold the
\* messages in the order they were logged and none of them twice.
THEOREM ChainAlwaysOrdered == Spec => []ChainOrdered
<1>1. Init => ChainOrdered
  BY EmptyFile DEF Init, ChainOrdered
<1>2. TypeOK /\ ControlInv /\ ChainOrdered /\ [Next]_vars => ChainOrdered'
  BY OrderStep
<1> QED
  BY <1>1, <1>2, TypeCorrect, PTL DEF Spec

-----------------------------------------------------------------------------
(* The sink implements RetainedLog, if a file that should be moved is      *)
(* moved, a closed file is written, and the number of backups stays.       *)

MovesSucceed == FailingOps \cap {"exists", "rename", "close"} = {}

SameBackups == \A c, d \in Configs : c.maxFiles = d.maxFiles

\* A message is only written to an open file; no file lies beyond the last
\* slot; and the slot a file is about to be moved to is vacant, or is the last
\* one, whose file is the oldest.
VacantInv ==
    /\ opened => fd
    /\ pc \in {"check", "write"} => fd
    /\ \A i \in Slots : ~disk[i].exists => disk[i].ids = {}
    /\ \A i \in Slots : i > cfg.maxFiles => disk[i].ids = {}
    /\ pc \in {"shift", "rename"} =>
          disk[src + 1].ids = {} \/ src + 1 = cfg.maxFiles

\* VacantInv holds initially.
LEMMA VacantInit == Init => VacantInv
<1> SUFFICES ASSUME Init PROVE VacantInv
  OBVIOUS
<1>1. \A i \in Slots : disk[i].ids = {}
  BY EmptyFile DEF Init
<1> QED
  BY <1>1 DEF Init, VacantInv

\* Every step keeps VacantInv.
LEMMA VacantStep ==
    ASSUME MovesSucceed, SameBackups, TypeOK, ControlInv, VacantInv, [Next]_vars
    PROVE  VacantInv'
<1>1. 0 \in Slots /\ DOMAIN disk = Slots /\ buf \in File
      /\ \A i \in Slots : disk[i] \in File
  BY ConstantsAssumption DEF TypeOK, Slots
<1>2. cfg.maxFiles \in Nat /\ cfg.maxFiles \in Slots /\ cfg \in Configs
  BY ConfigType DEF TypeOK, Slots
<1>3. pc \in {"shift", "rename"} => src \in Slots /\ src + 1 \in Slots /\ src \in Nat
  BY ConfigType, ConstantsAssumption DEF TypeOK, ControlInv, Slots
<1>4. Slots \subseteq Nat
  BY DEF Slots
<1>a. ASSUME NEW f \in File, disk' = [disk EXCEPT ![0] = Join(f, buf)],
             cfg' = cfg \/ cfg'.maxFiles = cfg.maxFiles
      PROVE  /\ \A i \in Slots : ~disk'[i].exists => disk'[i].ids = {}
             /\ \A i \in Slots : i > cfg'.maxFiles => disk'[i].ids = {}
  <2>1. disk'[0].exists = TRUE
    BY <1>a, <1>1 DEF Join
  <2>2. \A i \in Slots : i # 0 => disk'[i] = disk[i]
    BY <1>a, <1>1
  <2> QED  BY <2>1, <2>2, <1>a, <1>2, <1>4 DEF VacantInv
<1>5. CASE Log \/ CheckEntry \/ EnsureOpened \/ OpenFails \/ CheckBeforeWrite \/ WriteFails
  BY <1>5 DEF Log, CheckEntry, EnsureOpened, OpenFails, CheckBeforeWrite, WriteFails,
     CallRotate, Goto, Throw, VacantInv, TypeOK, sink
<1>6. CASE OpenFile
  <2>1. disk'[0].exists = TRUE
    BY <1>6, <1>1 DEF OpenFile, Join
  <2>2. \A i \in Slots : i # 0 => disk'[i] = disk[i]
    BY <1>6, <1>1 DEF OpenFile
  <2>3. fd' /\ cfg' = cfg /\ pc' \in {"check", "write"}
    BY <1>6 DEF OpenFile, Goto, TypeOK
  <2> QED  BY <2>1, <2>2, <2>3, <1>2, <1>4 DEF VacantInv
<1>7. CASE Write
  <2>1. PICK n \in LineCounts : Fwrite(n)
    BY <1>7 DEF Write
  <2>2. /\ \A i \in Slots : ~disk'[i].exists => disk'[i].ids = {}
        /\ \A i \in Slots : i > cfg.maxFiles => disk'[i].ids = {}
    <3>1. CASE disk' = disk
      BY <3>1 DEF VacantInv
    <3>2. ASSUME NEW j \in 0..(n - 1),
                 disk' = [disk EXCEPT ![0] = Join(Join(@, buf),
                            [exists |-> TRUE, ids |-> {}, newlines |-> j, torn |-> TRUE])]
          PROVE  disk'[0].exists = TRUE /\ \A i \in Slots : i # 0 => disk'[i] = disk[i]
      BY <3>2, <1>1 DEF Join
    <3>3. disk' = disk \/ (disk'[0].exists = TRUE /\ \A i \in Slots : i # 0 => disk'[i] = disk[i])
      BY <2>1, <3>2 DEF Fwrite
    <3> QED  BY <3>1, <3>3, <1>2, <1>4 DEF VacantInv
  <2>3. pc' \in {"idle", "close"} /\ fd' = fd /\ opened' = opened /\ cfg' = cfg
    BY <1>7 DEF Write, CallRotate, Goto
  <2> QED  BY <2>2, <2>3 DEF VacantInv
<1>8. ASSUME CloseBuffer, cfg' \in Configs
      PROVE  /\ \A i \in Slots : ~disk'[i].exists => disk'[i].ids = {}
             /\ \A i \in Slots : i > cfg'.maxFiles => disk'[i].ids = {}
  <2>1. cfg'.maxFiles = cfg.maxFiles
    BY <1>8, <1>2 DEF SameBackups
  <2>2. CASE disk' = [disk EXCEPT ![0] = Join(disk[0], buf)]
    BY <2>1, <2>2, <1>1, <1>a
  <2>3. CASE disk' = disk
    BY <2>1, <2>3 DEF VacantInv
  <2> QED  BY <1>8, <2>2, <2>3 DEF CloseBuffer
<1>9. CASE Close
  <2>1. ~fd' /\ ~opened' /\ cfg' = cfg /\ pc' \notin {"check", "write", "shift", "rename"}
    BY <1>9 DEF Close, Goto, TypeOK
  <2>2. CloseBuffer
    BY <1>9 DEF Close
  <2> QED  BY <2>1, <2>2, <1>2, <1>8 DEF VacantInv
<1>10. ASSUME NEW k \in Slots, Remove(k)
       PROVE  \A i \in Slots : \/ disk'[i] = disk[i]
                               \/ disk'[i].ids = {} /\ ~disk'[i].exists
  BY <1>10, <1>1, EmptyFile DEF Remove
<1>11. CASE RemoveOldest
  <2>1. /\ pc' = "shift" /\ src' + 1 = cfg'.maxFiles /\ cfg' = cfg
        /\ fd' = fd /\ opened' = opened
    BY <1>11, <1>2 DEF RemoveOldest, ControlInv, sink
  <2>2. Remove(cfg.maxFiles)
    BY <1>11 DEF RemoveOldest
  <2> QED  BY <2>1, <2>2, <1>2, <1>10 DEF VacantInv
<1>12. CASE Shift
  <2>0. src \in Slots /\ src + 1 \in Slots /\ src \in Nat /\ src < cfg.maxFiles
    BY <1>12, <1>3 DEF Shift, ControlInv
  <2>1. cfg' = cfg /\ fd' = fd /\ opened' = opened
    BY <1>12 DEF Shift, sink
  <2>2. PICK there \in ExistsAnswers(src) :
          IF there THEN Remove(src + 1) /\ Goto("rename")
                   ELSE NextSource /\ UNCHANGED disk
    BY <1>12 DEF Shift
  <2>3. there = disk[src].exists
    BY DEF ExistsAnswers, MovesSucceed, Fails
  <2>4. CASE there
    <3>1. pc' = "rename" /\ src' = src
      BY <2>2, <2>4 DEF Goto
    <3> QED  BY <2>0, <2>1, <2>2, <2>4, <3>1, <1>10, <1>12 DEF VacantInv, Shift
  <2>5. CASE ~there
    <3>1. disk' = disk /\ disk[src].ids = {}
      BY <2>0, <2>2, <2>3, <2>5 DEF VacantInv
    <3>2. CASE src = 0
      <4>1. pc' \notin {"check", "write", "shift", "rename"}
        BY <2>2, <2>5, <3>2 DEF NextSource, Goto, TypeOK
      <4> QED  BY <4>1, <3>1, <2>1 DEF VacantInv
    <3>3. CASE src # 0
      <4>1. pc' = "shift" /\ src' + 1 = src
        BY <2>0, <2>2, <2>5, <3>3 DEF NextSource
      <4> QED  BY <4>1, <3>1, <2>1 DEF VacantInv
    <3> QED  BY <3>2, <3>3
  <2> QED  BY <2>4, <2>5
<1>13. CASE Rename
  <2>0. src \in Slots /\ src + 1 \in Slots /\ src \in Nat /\ src < cfg.maxFiles
        /\ src # src + 1
    BY <1>13, <1>3 DEF Rename, ControlInv
  <2>1. cfg' = cfg /\ fd' = fd /\ opened' = opened
    BY <1>13 DEF Rename, sink
  <2>2. disk' = [disk EXCEPT ![src + 1] = disk[src], ![src] = Absent]
    BY <1>13 DEF Rename, MovesSucceed, Fails
  <2>3. /\ disk'[src] = Absent /\ disk'[src + 1] = disk[src]
        /\ \A i \in Slots : i # src /\ i # src + 1 => disk'[i] = disk[i]
    BY <2>0, <2>2, <1>1
  <2>4. disk'[src].ids = {}
    BY <2>3, EmptyFile
  <2>5. \A i \in Slots : ~disk'[i].exists => disk'[i].ids = {}
    BY <2>0, <2>3, <2>4 DEF VacantInv
  <2>6. \A i \in Slots : i > cfg.maxFiles => disk'[i].ids = {}
    BY <2>0, <2>3, <2>4, <1>2, <1>4 DEF VacantInv
  <2>7. CASE src = 0
    <3>1. pc' \notin {"check", "write", "shift", "rename"}
      BY <1>13, <2>7 DEF Rename, NextSource, Goto, TypeOK
    <3> QED  BY <3>1, <2>1, <2>5, <2>6 DEF VacantInv
  <2>8. CASE src # 0
    <3>1. pc' = "shift" /\ src' + 1 = src
      BY <1>13, <2>0, <2>8 DEF Rename, NextSource
    <3> QED  BY <3>1, <2>1, <2>4, <2>5, <2>6 DEF VacantInv
  <2> QED  BY <2>7, <2>8
<1>14. CASE Flush
  <2>1. pc' = "idle" /\ cfg' = cfg /\ fd' = fd /\ opened' = opened
    BY <1>14 DEF Flush, sink, control
  <2>2. CASE disk' = [disk EXCEPT ![0] = Join(disk[0], buf)]
    BY <2>1, <2>2, <1>1, <1>a DEF VacantInv
  <2>3. CASE disk' = disk
    BY <2>1, <2>3 DEF VacantInv
  <2> QED  BY <1>14, <2>2, <2>3 DEF Flush
<1>15. CASE Restart
  <2>1. pc' = "idle" /\ cfg' \in Configs /\ ~fd' /\ ~opened' /\ CloseBuffer
    BY <1>15 DEF Restart, NewSink
  <2> QED  BY <2>1, <1>8 DEF VacantInv
<1>16. CASE Crash
  <2>1. pc' = "idle" /\ cfg' \in Configs /\ ~fd' /\ ~opened' /\ disk' = disk
    BY <1>16 DEF Crash, NewSink
  <2>2. cfg'.maxFiles = cfg.maxFiles
    BY <2>1, <1>2 DEF SameBackups
  <2> QED  BY <2>1, <2>2 DEF VacantInv
<1>17. CASE UNCHANGED vars
  BY <1>17 DEF vars, sink, control, VacantInv
<1> QED
  BY <1>5, <1>6, <1>7, <1>9, <1>11, <1>12, <1>13, <1>14, <1>15, <1>16, <1>17
  DEF Next, SinkIt

\* A message is stored when some slot holds it.
LEMMA StoredIds == \A a : a \in Stored <=> \E i \in Slots : a \in Ids[i]
BY DEF Stored, Ids

\* The same after a step.
LEMMA StoredIdsPrime == \A a : a \in Stored' <=> \E i \in Slots : a \in Ids'[i]
BY DEF Stored, Ids

\* Every step of the sink is a step of RetainedLog or leaves it alone.
LEMMA AbstractStep ==
    ASSUME MovesSucceed, SameBackups, TypeOK, ControlInv, ChainOrdered, VacantInv,
           [Next]_vars
    PROVE  [Abstract!Next]_(Abstract!vars)
<1>1. Ids \in IdSets /\ buf.ids \in SUBSET Nat /\ nextId \in Nat /\ 0 \in Slots
  BY IdsType
<1>2. InOrder(Ids, buf.ids, nextId)
  BY ChainInOrder
<1>3. Slots \subseteq Nat /\ cfg.maxFiles \in Slots
  BY ConfigType DEF Slots, TypeOK
<1>4. \A i \in Slots : i > cfg.maxFiles => Ids[i] = {}
  BY DEF VacantInv, Ids
<1>5. ASSUME KeepsIds PROVE UNCHANGED Abstract!vars
  <2>1. Stored' = Stored
    BY <1>5, StoredIds, StoredIdsPrime DEF KeepsIds
  <2> QED  BY <2>1, <1>5 DEF KeepsIds, Abstract!vars
<1>6. ASSUME Ids' = [Ids EXCEPT ![0] = @ \cup buf.ids]
      PROVE  Stored' = Stored \cup buf.ids
  <2>1. /\ Ids'[0] = Ids[0] \cup buf.ids
        /\ \A i \in Slots : i # 0 => Ids'[i] = Ids[i]
    BY <1>6, <1>1 DEF IdSets
  <2> QED  BY <2>1, <1>1, StoredIds, StoredIdsPrime
<1>7. ASSUME SyncsIds PROVE Abstract!Sync
  BY <1>6, <1>7 DEF SyncsIds, Abstract!Sync
<1>8. ASSUME AppendsId PROVE Abstract!Append
  <2>1. Ids' = Ids => Stored' = Stored
    BY StoredIds, StoredIdsPrime
  <2> QED  BY <2>1, <1>6, <1>8 DEF AppendsId, Abstract!Append
<1>9. ASSUME LosesIds PROVE Abstract!Lose
  <2>1. Stored' = Stored
    BY <1>9, StoredIds, StoredIdsPrime DEF LosesIds
  <2> QED  BY <2>1, <1>9 DEF LosesIds, Abstract!Lose
<1>10. ASSUME NEW k \in Slots, k = cfg.maxFiles \/ Ids[k] = {},
              \A i \in Slots : i # k => \A a \in Ids[i] : a \in Stored',
              \A i \in Slots : Ids'[i] \subseteq Stored,
              \A a \in Ids[k] : a \notin Stored',
              buf'.ids = buf.ids, nextId' = nextId, lost' = lost
       PROVE  Abstract!Discard
  <2>1. Stored' \subseteq Stored
    BY <1>10, StoredIdsPrime
  <2>2. \A a \in Stored \ Stored' : a \in Ids[k] /\ k = cfg.maxFiles
    BY <1>10, StoredIds
  <2>3. ASSUME NEW a \in Stored \ Stored', NEW b \in Stored' PROVE a < b
    <3>1. a \in Ids[k] /\ k = cfg.maxFiles
      BY <2>2
    <3>2. PICK i \in Slots : b \in Ids[i]
      BY <2>1, StoredIds
    <3>3. i # k
      BY <1>10, <3>2
    <3>4. i < k
      BY <3>1, <3>2, <3>3, <1>3, <1>4
    <3> QED  BY <3>1, <3>2, <3>4, <1>2 DEF InOrder
  <2> QED  BY <2>1, <2>3, <1>10 DEF Abstract!Discard
<1>11. ASSUME NEW k \in Slots, RemovesIds(k), k = cfg.maxFiles \/ Ids[k] = {}
       PROVE  Abstract!Discard
  <2>1. Ids'[k] = {} /\ \A i \in Slots : i # k => Ids'[i] = Ids[i]
    BY <1>11, <1>1 DEF RemovesIds, IdSets
  <2>2. \A i \in Slots : i # k => \A a \in Ids[i] : a \in Stored'
    BY <2>1, StoredIdsPrime
  <2>3. \A i \in Slots : Ids'[i] \subseteq Stored
    BY <2>1, StoredIds
  <2>4. \A i, j \in Slots : i # j => \A a \in Ids[i] : a \notin Ids[j]
    BY <1>1, <1>2, <1>3 DEF InOrder, IdSets
  <2>5. \A a \in Ids[k] : a \notin Stored'
    BY <2>1, <2>4, StoredIdsPrime
  <2> QED  BY <2>2, <2>3, <2>5, <1>10, <1>11 DEF RemovesIds
<1>12. ASSUME NEW s \in Slots, s + 1 \in Slots, MovesIds(s),
              s + 1 = cfg.maxFiles \/ Ids[s + 1] = {}
       PROVE  Abstract!Discard
  <2>0. s # s + 1
    BY <1>3
  <2>1. /\ Ids'[s] = {} /\ Ids'[s + 1] = Ids[s]
        /\ \A i \in Slots : i # s /\ i # s + 1 => Ids'[i] = Ids[i]
    BY <2>0, <1>12, <1>1 DEF MovesIds, IdSets
  <2>2. \A i \in Slots : i # s + 1 => \A a \in Ids[i] : a \in Stored'
    BY <2>1, <1>12, StoredIdsPrime
  <2>3. \A i \in Slots : Ids'[i] \subseteq Stored
    BY <2>1, StoredIds
  <2>4. \A i, j \in Slots : i # j => \A a \in Ids[i] : a \notin Ids[j]
    BY <1>1, <1>2, <1>3 DEF InOrder, IdSets
  <2>5. \A a \in Ids[s + 1] : a \notin Stored'
    BY <2>0, <2>1, <2>4, <1>12, StoredIdsPrime
  <2> QED  BY <2>2, <2>3, <2>5, <1>10, <1>12 DEF MovesIds
<1>13. pc \in {"shift", "rename"} => src \in Slots /\ src + 1 \in Slots
                                     /\ (src + 1 = cfg.maxFiles \/ Ids[src + 1] = {})
  BY ConfigType, ConstantsAssumption DEF TypeOK, ControlInv, VacantInv, Ids, Slots
<1>14. ~Fails("close")
  BY DEF MovesSucceed, Fails
<1>15. CASE Next
  <2>1. CASE Shift
    <3>1. KeepsIds \/ RemovesIds(src + 1)
      BY <2>1, <1>15, StepEffect
    <3> QED  BY <2>1, <3>1, <1>5, <1>11, <1>13 DEF Shift, Abstract!Next
  <2>2. CASE Rename
    <3>1. KeepsIds \/ MovesIds(src)
      BY <2>2, <1>15, StepEffect
    <3> QED  BY <2>2, <3>1, <1>5, <1>12, <1>13 DEF Rename, Abstract!Next
  <2>3. CASE RemoveOldest
    <3>1. KeepsIds \/ RemovesIds(cfg.maxFiles)
      BY <2>3, <1>15, StepEffect
    <3> QED  BY <3>1, <1>3, <1>5, <1>11 DEF Abstract!Next
  <2>4. CASE Write
    <3>1. fd
      BY <2>4 DEF Write, VacantInv
    <3>2. AppendsId
      BY <2>4, <3>1, <1>15, StepEffect DEF SkipsId
    <3> QED  BY <3>2, <1>8 DEF Abstract!Next
  <2>5. CASE Close \/ Restart \/ Flush
    <3>1. KeepsIds \/ SyncsIds
      BY <2>5, <1>14, <1>15, StepEffect
    <3> QED  BY <3>1, <1>5, <1>7 DEF Abstract!Next
  <2>6. CASE Crash
    BY <2>6, <1>9, <1>15, StepEffect DEF Abstract!Next
  <2>7. CASE Log \/ CheckEntry \/ EnsureOpened \/ OpenFile \/ OpenFails
             \/ CheckBeforeWrite \/ WriteFails
    BY <2>7, <1>5, <1>15, StepEffect
  <2> QED
    BY <2>1, <2>2, <2>3, <2>4, <2>5, <2>6, <2>7, <1>15 DEF Next, SinkIt
<1>16. CASE UNCHANGED vars
  <2>1. KeepsIds
    BY <1>16 DEF vars, KeepsIds, Ids
  <2> QED  BY <2>1, <1>5
<1> QED
  BY <1>15, <1>16

\* The sink implements RetainedLog: with a fixed number of backups, and as long
\* as renames, existence tests and closes succeed, every step of the code (also
\* of an interrupted and repeated rotation) is a step of the abstract log.
THEOREM SinkImplementsRetainedLog ==
    ASSUME MovesSucceed, SameBackups
    PROVE  Spec => RefinesRetainedLog
<1>1. Init => Abstract!Init
  <2> SUFFICES ASSUME Init PROVE Abstract!Init
    OBVIOUS
  <2>1. \A i \in Slots : Ids[i] = {}
    BY EmptyFile DEF Init, Ids
  <2>2. Stored = {}
    BY <2>1, StoredIds
  <2> QED  BY <2>2, EmptyFile DEF Init, Abstract!Init
<1>2. TypeOK /\ ControlInv /\ VacantInv /\ [Next]_vars => VacantInv'
  BY VacantStep
<1>3. TypeOK /\ ControlInv /\ ChainOrdered /\ VacantInv /\ [Next]_vars
        => [Abstract!Next]_(Abstract!vars)
  BY AbstractStep
<1> QED
  BY <1>1, <1>2, <1>3, VacantInit, TypeCorrect, ChainAlwaysOrdered, PTL
  DEF Spec, RefinesRetainedLog, Abstract!Spec

\* Rotation gives up messages from the old end only, and sink_it_ never counts
\* a message it did not write.
THEOREM OldestDiscardedFirst ==
    ASSUME MovesSucceed, SameBackups
    PROVE  Spec => []DiscardsOldestFirst
<1>1. Init => DiscardsOldestFirst
  BY DEF Init, DiscardsOldestFirst
<1>2. ASSUME TypeOK, ChainOrdered, DiscardsOldestFirst, [Abstract!Next]_(Abstract!vars)
      PROVE  DiscardsOldestFirst'
  <2>1. nextId \in Nat /\ \A a \in Stored, b \in buf.ids : a < b
    BY <1>2 DEF TypeOK, ChainOrdered, Stored
  <2>2. \A a \in Stored \cup buf.ids : a < nextId
    BY <1>2 DEF ChainOrdered, Stored
  <2>3. CASE Abstract!Append
    BY <1>2, <2>1, <2>2, <2>3 DEF Abstract!Append, DiscardsOldestFirst, Retained
  <2>4. CASE Abstract!Sync
    BY <1>2, <2>4 DEF Abstract!Sync, DiscardsOldestFirst, Retained
  <2>5. CASE Abstract!Discard
    BY <1>2, <2>1, <2>5 DEF Abstract!Discard, DiscardsOldestFirst, Retained
  <2>6. CASE Abstract!Lose
    BY <1>2, <2>6 DEF Abstract!Lose, DiscardsOldestFirst, Retained
  <2>7. CASE UNCHANGED Abstract!vars
    BY <1>2, <2>7 DEF Abstract!vars, DiscardsOldestFirst, Retained
  <2> QED  BY <1>2, <2>3, <2>4, <2>5, <2>6, <2>7 DEF Abstract!Next
<1>3. TypeOK /\ ControlInv /\ VacantInv /\ [Next]_vars => VacantInv'
  BY VacantStep
<1>4. /\ TypeOK /\ ControlInv /\ ChainOrdered /\ VacantInv
      /\ DiscardsOldestFirst /\ [Next]_vars
      => DiscardsOldestFirst'
  BY <1>2, AbstractStep
<1> QED
  BY <1>1, <1>3, <1>4, VacantInit, TypeCorrect, ChainAlwaysOrdered, PTL DEF Spec

-----------------------------------------------------------------------------
(* How many lines the files have, when every message is one line.          *)

OneLine == LineCounts = {1} /\ FailingOps \cap {"exists", "rename", "write"} = {}

\* The lines of stem.log once its buffer has reached it.
OpenLines == CountLines(Join(disk[0], buf))

AbsentHoldsNothing ==
    \A i \in Slots : ~disk[i].exists =>
        disk[i].ids = {} /\ disk[i].newlines = 0 /\ ~disk[i].torn

\* A file that does not exist holds nothing, what is buffered are whole lines,
\* and opened_ tells the truth about file_helper_.
ContentInv ==
    /\ AbsentHoldsNothing
    /\ ~buf.torn
    /\ buf.newlines = 0 => buf.ids = {}
    /\ ~fd => buf.newlines = 0
    /\ opened => fd
    /\ fd => opened
    /\ pc \in {"check", "write"} => opened
    /\ pc \in {"rmOldest", "shift", "rename"} => ~opened /\ logCount = 0

\* A buffer of whole lines.
WholeLines(g) == ~g.torn /\ (g.newlines = 0 => g.ids = {})

\* A number of lines is a natural number.
LEMMA LinesNat == \A f \in File : CountLines(f) \in Nat
BY DEF CountLines, File

\* A buffer of whole lines makes a file longer, not shorter.
LEMMA JoinLines ==
    ASSUME NEW f \in File, NEW g \in File, WholeLines(g)
    PROVE  /\ CountLines(f) \in Nat /\ CountLines(Join(f, g)) \in Nat
           /\ CountLines(f) <= CountLines(Join(f, g))
           /\ g.newlines = 0 => CountLines(Join(f, g)) = CountLines(f)
<1>1. CountLines(f) \in Nat /\ CountLines(Join(f, g)) \in Nat
  BY JoinFile, LinesNat
<1>2. g.newlines \in Nat /\ f.newlines \in Nat /\ Join(f, g).newlines = f.newlines + g.newlines
  BY JoinFile DEF File
<1>3. CASE g.ids = {}
  <2>1. Join(f, g).torn = f.torn
    BY <1>3 DEF Join, WholeLines
  <2> QED  BY <1>1, <1>2, <2>1 DEF CountLines
<1>4. CASE g.ids # {}
  <2>1. ~Join(f, g).torn /\ g.newlines # 0
    BY <1>4 DEF Join, WholeLines
  <2> QED  BY <1>1, <1>2, <2>1 DEF CountLines
<1> QED  BY <1>3, <1>4

\* What has reached the file counts as what was buffered.
LEMMA SyncLines ==
    ASSUME NEW f \in File, NEW g \in File
    PROVE  CountLines(Join(Join(f, g), Empty)) = CountLines(Join(f, g))
<1>1. Join(f, g).newlines \in Nat
  BY JoinFile DEF File
<1>2. Join(Join(f, g), Empty).newlines = Join(f, g).newlines
  BY <1>1, EmptyFile DEF Join
<1>3. Join(Join(f, g), Empty).torn = Join(f, g).torn
  BY EmptyFile DEF Join
<1> QED  BY <1>2, <1>3 DEF CountLines

\* A message of one line makes a file at most one line longer, whether it is
\* buffered whole or leaves a head in the file.
LEMMA WriteLines ==
    ASSUME NEW f \in File, NEW g \in File, WholeLines(g), NEW m \in File,
           m.newlines = 1, ~m.torn, m.ids # {}, NEW h \in File,
           h.ids = {}, h.newlines = 0, h.torn
    PROVE  /\ CountLines(Join(f, Join(g, m))) <= CountLines(Join(f, g)) + 1
           /\ CountLines(Join(Join(Join(f, g), h), m)) <= CountLines(Join(f, g)) + 1
<1>1. /\ Join(f, g) \in File /\ Join(g, m) \in File /\ Join(f, Join(g, m)) \in File
      /\ Join(Join(f, g), h) \in File /\ Join(Join(Join(f, g), h), m) \in File
  BY JoinFile
<1>2. ~Join(f, Join(g, m)).torn /\ ~Join(Join(Join(f, g), h), m).torn
  BY DEF Join
<1>3. /\ Join(f, Join(g, m)).newlines = Join(f, g).newlines + 1
      /\ Join(Join(Join(f, g), h), m).newlines = Join(f, g).newlines + 1
  BY <1>1 DEF Join, File
<1>4. Join(f, g).newlines \in Nat
  BY <1>1 DEF File
<1> QED  BY <1>2, <1>3, <1>4 DEF CountLines

\* So does a file that has just been opened.
LEMMA OpenedLines ==
    ASSUME NEW f \in File, NEW g \in File
    PROVE  CountLines(Join(Join(f, Empty), g)) = CountLines(Join(f, g))
<1>1. f.newlines \in Nat /\ g.newlines \in Nat
  BY DEF File
<1>2. Join(Join(f, Empty), g).newlines = Join(f, g).newlines
  BY <1>1, EmptyFile DEF Join
<1>3. Join(Join(f, Empty), g).torn = Join(f, g).torn
  BY EmptyFile DEF Join
<1> QED  BY <1>2, <1>3 DEF CountLines

\* The backups stay, stem.log with its buffer gets n lines longer at most.
Lengthens(n) ==
    /\ \A i \in Slots : i # 0 => disk'[i] = disk[i]
    /\ OpenLines' <= OpenLines + n

\* The message Fwrite is given and the head of it that may reach the file.
Message == [exists |-> TRUE, ids |-> {nextId}, newlines |-> 1, torn |-> FALSE]
Head == [exists |-> TRUE, ids |-> {}, newlines |-> 0, torn |-> TRUE]

\* What the steps do to the lines of the files, and to the buffer.
LEMMA LinesEffect ==
    ASSUME OneLine, TypeOK, ControlInv, ContentInv, Next
    PROVE  /\ Log \/ CheckEntry \/ EnsureOpened \/ OpenFails \/ CheckBeforeWrite
                => UNCHANGED <<disk, buf>> /\ Lengthens(0)
           /\ OpenFile => Lengthens(0) /\ disk'[0].exists /\ buf' = buf
           /\ Write => Lengthens(1) /\ disk'[0] \in {disk[0], Join(Join(disk[0], buf), Head)}
                       /\ ~buf'.torn /\ buf'.newlines # 0
           /\ ~WriteFails
           /\ Close \/ Restart \/ Crash => Lengthens(0) /\ buf' = Empty
                /\ disk'[0] \in {disk[0], Join(disk[0], buf)}
           /\ Flush => Lengthens(0) /\ disk'[0] \in {disk[0], Join(disk[0], buf)}
                /\ ((buf' = buf /\ ~fd) \/ buf' = Empty)
           /\ RemoveOldest => disk' = [disk EXCEPT ![cfg.maxFiles] = Absent] \/ disk' = disk
           /\ Rename => disk' = [disk EXCEPT ![src + 1] = disk[src], ![src] = Absent]
<1>1. 0 \in Slots /\ DOMAIN disk = Slots /\ buf \in File
      /\ (\A i \in Slots : disk[i] \in File) /\ disk[0] \in File
  BY ConstantsAssumption DEF TypeOK, Slots
<1>2. WholeLines(buf)
  BY DEF ContentInv, WholeLines
<1>3. OpenLines \in Nat /\ CountLines(disk[0]) <= OpenLines
  BY <1>1, <1>2, JoinLines DEF OpenLines
<1>e. Empty \in File /\ WholeLines(Empty) /\ Empty.newlines = 0
  BY EmptyFile DEF WholeLines
<1>4. UNCHANGED <<disk, buf>> => Lengthens(0)
  BY <1>3 DEF Lengthens, OpenLines
<1>5. Log \/ CheckEntry \/ EnsureOpened \/ OpenFails \/ CheckBeforeWrite
        => UNCHANGED <<disk, buf>> /\ Lengthens(0)
  BY <1>4 DEF Log, CheckEntry, EnsureOpened, OpenFails, CheckBeforeWrite
<1>6. ASSUME OpenFile PROVE Lengthens(0) /\ disk'[0].exists /\ buf' = buf
  <2>1. disk'[0] = Join(disk[0], Empty) /\ buf' = buf
        /\ \A i \in Slots : i # 0 => disk'[i] = disk[i]
    BY <1>6, <1>1 DEF OpenFile
  <2>2. OpenLines' = OpenLines
    BY <2>1, <1>1, OpenedLines DEF OpenLines
  <2>3. disk'[0].exists
    BY <2>1 DEF Join
  <2> QED  BY <2>1, <2>2, <2>3, <1>3 DEF Lengthens
<1>7. ASSUME Write
      PROVE  Lengthens(1) /\ disk'[0] \in {disk[0], Join(Join(disk[0], buf), Head)}
             /\ ~buf'.torn /\ buf'.newlines # 0
  <2>1. Fwrite(1) /\ fd
    BY <1>7 DEF Write, OneLine, ContentInv
  <2>2. Message \in File /\ Head \in File
    BY DEF Message, Head, File, TypeOK
  <2>3. CASE buf' = Join(buf, Message) /\ disk' = disk
    <3>1. OpenLines' <= OpenLines + 1
      BY <2>3, <2>2, <1>1, <1>2, WriteLines DEF OpenLines, Message, Head
    <3>2. ~buf'.torn /\ buf'.newlines # 0
      BY <2>3, <1>1 DEF Join, Message, File
    <3> QED  BY <2>3, <3>1, <3>2 DEF Lengthens
  <2>4. CASE disk' = [disk EXCEPT ![0] = Join(Join(@, buf), Head)] /\ buf' = Message
    <3>1. disk'[0] = Join(Join(disk[0], buf), Head)
          /\ \A i \in Slots : i # 0 => disk'[i] = disk[i]
      BY <2>4, <1>1
    <3>2. OpenLines' <= OpenLines + 1
      BY <2>4, <3>1, <2>2, <1>1, <1>2, WriteLines DEF OpenLines, Message, Head
    <3>3. ~buf'.torn /\ buf'.newlines # 0
      BY <2>4 DEF Message
    <3> QED  BY <3>1, <3>2, <3>3 DEF Lengthens
  <2> QED
    <3>1. 0..(1 - 1) = {0} /\ 1 - 0 = 1
      OBVIOUS
    <3> QED  BY <2>1, <2>3, <2>4, <3>1 DEF Fwrite, Message, Head
<1>8. ~WriteFails
  BY DEF WriteFails, Fails, OneLine
<1>9. ASSUME buf' = Empty, disk' = disk PROVE Lengthens(0)
  <2>1. OpenLines' = CountLines(disk[0])
    BY <1>9, <1>1, <1>e, JoinLines DEF OpenLines
  <2> QED  BY <1>3, <2>1, <1>9, <1>1, LinesNat DEF Lengthens
<1>10. ASSUME buf' = Empty, disk' = [disk EXCEPT ![0] = Join(@, buf)] PROVE Lengthens(0)
  <2>1. disk'[0] = Join(disk[0], buf) /\ \A i \in Slots : i # 0 => disk'[i] = disk[i]
    BY <1>10, <1>1
  <2>2. OpenLines' = OpenLines
    BY <1>10, <2>1, <1>1, SyncLines DEF OpenLines
  <2> QED  BY <2>1, <2>2, <1>3 DEF Lengthens
<1>11. Close \/ Restart \/ Crash => Lengthens(0) /\ buf' = Empty
                /\ disk'[0] \in {disk[0], Join(disk[0], buf)}
  BY <1>9, <1>10, <1>1 DEF Close, Restart, Crash, CloseBuffer
<1>12. Flush => Lengthens(0) /\ disk'[0] \in {disk[0], Join(disk[0], buf)}
                /\ ((buf' = buf /\ ~fd) \/ buf' = Empty)
  BY <1>4, <1>10, <1>1 DEF Flush
<1>13. RemoveOldest => disk' = [disk EXCEPT ![cfg.maxFiles] = Absent] \/ disk' = disk
  BY DEF RemoveOldest, Remove
<1>14. Rename => disk' = [disk EXCEPT ![src + 1] = disk[src], ![src] = Absent]
  BY DEF Rename, Fails, OneLine
<1> QED  BY <1>5, <1>6, <1>7, <1>8, <1>11, <1>12, <1>13, <1>14

\* The initial state.
LEMMA ContentInit == Init => ContentInv
<1> SUFFICES ASSUME Init PROVE ContentInv
  OBVIOUS
<1>1. \A i \in Slots : disk[i] = Absent
  BY DEF Init
<1>2. Absent.ids = {} /\ Absent.newlines = 0 /\ ~Absent.torn
  BY DEF Absent
<1>3. buf = Empty
  BY DEF Init
<1> QED  BY <1>1, <1>2, <1>3, EmptyFile DEF Init, ContentInv, AbsentHoldsNothing

\* Every step keeps ContentInv.
LEMMA ContentStep ==
    ASSUME OneLine, TypeOK, ControlInv, ContentInv, [Next]_vars
    PROVE  ContentInv'
<1>1. 0 \in Slots /\ DOMAIN disk = Slots /\ buf \in File
      /\ (\A i \in Slots : disk[i] \in File) /\ disk[0] \in File
  BY ConstantsAssumption DEF TypeOK, Slots
<1>2. AbsentHoldsNothing
  BY DEF ContentInv, AbsentHoldsNothing
<1>3. \A f, g : Join(f, g).exists
  BY DEF Join
<1>4. ~Empty.torn /\ Empty.newlines = 0 /\ Empty.ids = {}
  BY EmptyFile
<1>5. Absent.ids = {} /\ Absent.newlines = 0 /\ ~Absent.torn
  BY DEF Absent
<1>6. ASSUME NEW n \in Nat, Lengthens(n), disk'[0] = disk[0] \/ disk'[0].exists
      PROVE  AbsentHoldsNothing'
  BY <1>6, <1>2, <1>1 DEF Lengthens, AbsentHoldsNothing
<1>7. CASE Log \/ CheckEntry \/ EnsureOpened \/ OpenFails \/ CheckBeforeWrite
  <2>1. UNCHANGED <<disk, buf, fd, opened>>
    BY <1>7 DEF Log, CheckEntry, EnsureOpened, OpenFails, CheckBeforeWrite, sink
  <2>2. pc' \in {"check", "write"} => opened
    BY <1>7 DEF Log, CheckEntry, EnsureOpened, OpenFails, CheckBeforeWrite,
       CallRotate, Goto, Throw, ContentInv
  <2>3. pc' \notin {"rmOldest", "shift", "rename"}
    BY <1>7 DEF Log, CheckEntry, EnsureOpened, OpenFails, CheckBeforeWrite,
       CallRotate, Goto, Throw, TypeOK
  <2> QED  BY <2>1, <2>2, <2>3 DEF ContentInv, AbsentHoldsNothing
<1>8. CASE OpenFile
  <2>1. AbsentHoldsNothing' /\ buf' = buf
    BY <1>8, <1>6, LinesEffect DEF Next, SinkIt
  <2>2. fd' /\ opened' /\ pc' \in {"check", "write"}
    BY <1>8 DEF OpenFile, Goto, TypeOK
  <2> QED  BY <2>1, <2>2 DEF ContentInv, AbsentHoldsNothing
<1>9. CASE Write
  <2>1. Lengthens(1) /\ disk'[0] \in {disk[0], Join(Join(disk[0], buf), Head)}
        /\ ~buf'.torn /\ buf'.newlines # 0
    BY <1>9, LinesEffect DEF Next, SinkIt
  <2>2. AbsentHoldsNothing'
    BY <2>1, <1>6, <1>3
  <2>3. fd /\ opened
    BY <1>9 DEF Write, ContentInv
  <2>4. fd' = fd /\ opened' = opened /\ pc' \in {"idle", "close"}
    BY <1>9 DEF Write, CallRotate, Goto
  <2> QED  BY <2>1, <2>2, <2>3, <2>4 DEF ContentInv, AbsentHoldsNothing
<1>10. CASE Close \/ Restart \/ Crash
  <2>1. Lengthens(0) /\ buf' = Empty /\ disk'[0] \in {disk[0], Join(disk[0], buf)}
    BY <1>10, LinesEffect DEF Next, SinkIt
  <2>2. AbsentHoldsNothing'
    BY <2>1, <1>6, <1>3
  <2>3. ~fd' /\ ~opened' /\ logCount' = 0 /\ pc' \notin {"check", "write"}
    BY <1>10 DEF Close, Restart, Crash, NewSink, Goto, TypeOK
  <2> QED  BY <2>1, <2>2, <2>3, <1>4 DEF ContentInv, AbsentHoldsNothing
<1>11. CASE Flush
  <2>1. /\ Lengthens(0) /\ disk'[0] \in {disk[0], Join(disk[0], buf)}
        /\ buf' = buf \/ buf' = Empty
    BY <1>11, LinesEffect DEF Next, SinkIt
  <2>2. AbsentHoldsNothing'
    BY <2>1, <1>6, <1>3
  <2>3. UNCHANGED <<fd, opened, pc, logCount>>
    BY <1>11 DEF Flush, sink, control
  <2> QED  BY <2>1, <2>2, <2>3, <1>4 DEF ContentInv, AbsentHoldsNothing
<1>12. CASE RemoveOldest \/ Shift \/ Rename
  <2>1. /\ buf' = buf /\ fd' = fd /\ opened' = opened /\ logCount' = logCount
        /\ ~opened /\ logCount = 0
    BY <1>12 DEF RemoveOldest, Shift, Rename, sink, ContentInv
  <2>2. pc' \notin {"check", "write"}
    BY <1>12 DEF RemoveOldest, Shift, Rename, NextSource, Goto, TypeOK
  <2>3. src \in Slots /\ (pc \in {"shift", "rename"} => src + 1 \in Slots)
        /\ cfg.maxFiles \in Slots
    BY ConfigType, ConstantsAssumption DEF TypeOK, ControlInv, Slots
  <2>4. ASSUME NEW k \in Slots, disk' = [disk EXCEPT ![k] = Absent]
        PROVE  AbsentHoldsNothing'
    BY <2>4, <1>1, <1>2, <1>5 DEF AbsentHoldsNothing
  <2>5. disk' = disk => AbsentHoldsNothing'
    BY <1>2 DEF AbsentHoldsNothing
  <2>6. RemoveOldest => AbsentHoldsNothing'
    BY <2>3, <2>4, <2>5, LinesEffect DEF Next, SinkIt
  <2>7. Shift => AbsentHoldsNothing'
    BY <2>3, <2>4, <2>5 DEF Shift, Remove
  <2>8. ASSUME Rename PROVE AbsentHoldsNothing'
    <3>1. disk' = [disk EXCEPT ![src + 1] = disk[src], ![src] = Absent]
      BY <2>8, LinesEffect DEF Next, SinkIt
    <3>2. src \in Slots /\ src + 1 \in Slots
      BY <2>8, <2>3 DEF Rename
    <3>3. \A i \in Slots : disk'[i] = disk[i] \/ disk'[i] = Absent \/ disk'[i] = disk[src]
      BY <3>1, <3>2, <1>1
    <3> QED  BY <3>3, <3>2, <1>2, <1>5 DEF AbsentHoldsNothing
  <2>9. AbsentHoldsNothing'
    BY <1>12, <2>6, <2>7, <2>8
  <2> QED  BY <2>1, <2>2, <2>9 DEF ContentInv, AbsentHoldsNothing
<1>13. CASE UNCHANGED vars
  BY <1>13 DEF vars, sink, control, ContentInv, AbsentHoldsNothing
<1>14. ~WriteFails
  BY DEF WriteFails, Fails, OneLine
<1> QED
  BY <1>7, <1>8, <1>9, <1>10, <1>11, <1>12, <1>13, <1>14 DEF Next, SinkIt

-----------------------------------------------------------------------------
(* strict_count_on_open.                                                   *)

\* Every sink counts on open, with the same positive limit, keeps a backup and
\* can read the file it counts.
StrictLimit ==
    /\ \A c \in Configs : c.strict /\ c.maxCount > 0 /\ c.maxFiles > 0
    /\ \A c, d \in Configs : c.maxCount = d.maxCount
    /\ "read" \notin FailingOps

\* No file is longer than the limit, and log_count_ does not fall behind the
\* lines of the open file: also not those a dead process left in it.
LinesInv ==
    /\ \A i \in Slots : i # 0 => CountLines(disk[i]) <= cfg.maxCount
    /\ OpenLines <= cfg.maxCount
    /\ opened \/ pc = "open" => OpenLines <= logCount
    /\ pc \in {"open", "write"} => logCount < cfg.maxCount
    /\ pc = "ensure" /\ opened => cont = "check"

\* The initial state.
LEMMA LinesInit ==
    ASSUME StrictLimit, Init
    PROVE  LinesInv
<1>1. \A i \in Slots : disk[i] = Absent
  BY DEF Init
<1>2. Absent \in File /\ CountLines(Absent) = 0
  BY EmptyFile DEF Absent, CountLines
<1>3. 0 \in Slots
  BY ConstantsAssumption DEF Slots
<1>4. OpenLines = 0
  BY <1>1, <1>2, <1>3, EmptyFile, JoinLines DEF Init, OpenLines, WholeLines
<1>5. cfg.maxCount \in Nat
  BY ConfigType DEF Init
<1> QED  BY <1>1, <1>2, <1>4, <1>5 DEF Init, LinesInv

\* Every step keeps the limit.
LEMMA LinesStep ==
    ASSUME OneLine, StrictLimit, TypeOK, ControlInv, ContentInv, LinesInv, [Next]_vars
    PROVE  LinesInv'
<1>1. 0 \in Slots /\ DOMAIN disk = Slots /\ buf \in File
      /\ (\A i \in Slots : disk[i] \in File) /\ disk[0] \in File
  BY ConstantsAssumption DEF TypeOK, Slots
<1>2. /\ cfg \in Configs /\ cfg.maxCount \in Nat /\ cfg.maxCount > 0
      /\ cfg.maxFiles \in Nat /\ cfg.maxFiles > 0 /\ cfg.maxFiles <= MaxSlot
      /\ cfg.strict /\ logCount \in Nat
  BY ConfigType DEF TypeOK, StrictLimit
<1>3. WholeLines(buf) /\ OpenLines \in Nat
  BY <1>1, JoinLines DEF ContentInv, WholeLines, OpenLines
<1>4. ~fd => OpenLines = CountLines(disk[0])
  BY <1>1, <1>3, JoinLines DEF OpenLines, ContentInv
<1>5. ~disk[0].exists => CountLines(disk[0]) = 0
  BY <1>1 DEF ContentInv, AbsentHoldsNothing, CountLines
<1>6. cfg' = cfg \/ cfg' \in Configs => cfg'.maxCount = cfg.maxCount
  BY <1>2 DEF StrictLimit
<1>7. TypeOK' /\ ContentInv'
  BY TypeStep, ContentStep
<1>8. buf' \in File /\ disk'[0] \in File /\ OpenLines' \in Nat /\ logCount' \in Nat
  <2>1. buf' \in File /\ disk'[0] \in File /\ logCount' \in Nat
    BY <1>7, <1>1 DEF TypeOK
  <2> QED  BY <2>1, JoinFile, LinesNat DEF OpenLines
<1>9. CASE Log \/ CheckEntry \/ EnsureOpened \/ OpenFails \/ CheckBeforeWrite
  <2>1. UNCHANGED <<disk, buf, cfg, opened>> /\ OpenLines' = OpenLines
    BY <1>9 DEF Log, CheckEntry, EnsureOpened, OpenFails, CheckBeforeWrite, sink, OpenLines
  <2>2. CASE Log
    <3>1. logCount' = logCount /\ pc' \in {"close", "entry"}
      BY <2>2 DEF Log, CallRotate, Goto
    <3> QED  BY <2>1, <3>1 DEF LinesInv
  <2>3. CASE CheckEntry
    <3>1. /\ logCount' = logCount /\ cont' = "check" /\ pc' \in {"close", "ensure"}
      BY <2>3, <1>2 DEF CheckEntry
    <3> QED  BY <2>1, <3>1 DEF LinesInv
  <2>4. CASE OpenFails
    <3>1. logCount' = logCount /\ pc' = "idle"
      BY <2>4 DEF OpenFails, Throw, Goto, sink
    <3> QED  BY <2>1, <3>1 DEF LinesInv
  <2>5. CASE CheckBeforeWrite
    <3>1. logCount' = logCount /\ (pc' = "close" \/ (pc' = "write" /\ logCount < cfg.maxCount))
      BY <2>5, <1>2 DEF CheckBeforeWrite, sink
    <3> QED  BY <2>1, <3>1 DEF LinesInv
  <2>6. CASE EnsureOpened
    <3>1. CASE opened
      <4>1. pc' = "check" /\ logCount' = logCount
        BY <2>6, <3>1 DEF EnsureOpened, Goto, LinesInv
      <4> QED  BY <2>1, <4>1 DEF LinesInv
    <3>2. CASE ~opened
      <4>1. LineAnswers = {CountLines(disk[0])} /\ ExistsAnswers(0) = {disk[0].exists}
        BY DEF LineAnswers, ExistsAnswers, Fails, OneLine, StrictLimit
      <4>2. OpenLines = CountLines(disk[0])
        BY <3>2, <1>4 DEF ContentInv
      <4>3. IF disk[0].exists /\ OpenLines >= cfg.maxCount
            THEN pc' = "close" /\ logCount' = logCount
            ELSE pc' = "open" /\ logCount' = (IF disk[0].exists THEN OpenLines ELSE 0)
        BY <2>6, <3>2, <4>1, <4>2, <1>2 DEF EnsureOpened, Goto, CallRotate
      <4> QED  BY <2>1, <3>2, <4>2, <4>3, <1>2, <1>3, <1>5 DEF LinesInv
    <3> QED  BY <3>1, <3>2
  <2> QED  BY <1>9, <2>2, <2>3, <2>4, <2>5, <2>6
<1>10. CASE OpenFile
  <2>1. Lengthens(0)
    BY <1>10, LinesEffect DEF Next, SinkIt
  <2>2. UNCHANGED <<cfg, logCount>> /\ pc = "open" /\ pc' \in {"check", "write"}
    BY <1>10 DEF OpenFile, Goto, TypeOK
  <2> QED  BY <2>1, <2>2, <1>2, <1>3, <1>8 DEF LinesInv, Lengthens
<1>11. CASE Write
  <2>1. Lengthens(1)
    BY <1>11, LinesEffect DEF Next, SinkIt
  <2>2. cfg' = cfg /\ logCount' = logCount + 1 /\ pc = "write" /\ pc' \in {"close", "idle"}
    BY <1>11 DEF Write, Goto, CallRotate
  <2>3. opened
    BY <2>2 DEF ContentInv
  <2> QED  BY <2>1, <2>2, <2>3, <1>2, <1>3, <1>8 DEF LinesInv, Lengthens
<1>12. CASE Close \/ Restart \/ Crash
  <2>1. Lengthens(0)
    BY <1>12, LinesEffect DEF Next, SinkIt
  <2>2. cfg'.maxCount = cfg.maxCount /\ ~opened' /\ pc' \in {"idle", "rmOldest"}
    BY <1>12, <1>2, <1>6 DEF Close, Restart, Crash, NewSink, Goto
  <2> QED  BY <2>1, <2>2, <1>2, <1>3, <1>8 DEF LinesInv, Lengthens
<1>13. CASE Flush
  <2>1. Lengthens(0)
    BY <1>13, LinesEffect DEF Next, SinkIt
  <2>2. UNCHANGED <<cfg, opened, logCount, pc, cont>>
    BY <1>13 DEF Flush, sink, control
  <2> QED  BY <2>1, <2>2, <1>2, <1>3, <1>8 DEF LinesInv, Lengthens
<1>14. CASE RemoveOldest \/ Shift \/ Rename
  <2>1. UNCHANGED <<buf, cfg, opened, logCount>> /\ ~opened /\ logCount = 0 /\ ~fd
    BY <1>14 DEF RemoveOldest, Shift, Rename, sink, ContentInv
  <2>2. OpenLines' = CountLines(disk'[0])
    <3>1. WholeLines(buf') /\ buf'.newlines = 0
      BY <2>1 DEF WholeLines, ContentInv
    <3> QED  BY <3>1, <1>8, JoinLines DEF OpenLines
  <2>3. OpenLines = CountLines(disk[0])
    BY <2>1, <1>4
  <2>4. CountLines(Absent) = 0
    BY DEF CountLines, Absent
  <2>5. \A i \in Slots : CountLines(disk[i]) <= cfg.maxCount
    BY <2>3 DEF LinesInv
  <2>6. SUFFICES /\ \A i \in Slots : CountLines(disk'[i]) <= cfg.maxCount
                 /\ pc' \in {"open", "write"} => CountLines(disk'[0]) = 0
    BY <1>1, <1>2, <2>1, <2>2 DEF LinesInv
  <2>7. CASE RemoveOldest
    <3>1. \A i \in Slots : disk'[i] = disk[i] \/ disk'[i] = Absent
      BY <2>7, <1>1 DEF RemoveOldest, Remove
    <3>2. pc' = "shift"
      BY <2>7 DEF RemoveOldest
    <3> QED  BY <3>1, <3>2, <2>4, <2>5, <1>2
  <2>8. CASE Shift
    <3>1. \A i \in Slots : disk'[i] = disk[i] \/ disk'[i] = Absent
      BY <2>8, <1>1 DEF Shift, Remove
    <3>2. ExistsAnswers(src) = {disk[src].exists}
      BY DEF ExistsAnswers, Fails, OneLine
    <3>3. pc' \in {"open", "write"} => src = 0 /\ ~disk[0].exists /\ disk' = disk
      BY <2>8, <3>2 DEF Shift, NextSource, Goto
    <3> QED  BY <3>1, <3>3, <2>4, <2>5, <1>2, <1>5
  <2>9. CASE Rename
    <3>1. disk' = [disk EXCEPT ![src + 1] = disk[src], ![src] = Absent]
      BY <2>9, LinesEffect DEF Next, SinkIt
    <3>2. src \in Slots /\ src \in Nat
      BY DEF TypeOK, Slots
    <3>3. \A i \in Slots : disk'[i] = disk[i] \/ disk'[i] = Absent \/ disk'[i] = disk[src]
      BY <3>1, <3>2, <1>1
    <3>4. pc' \in {"open", "write"} => src = 0
      BY <2>9 DEF Rename, NextSource, Goto
    <3>5. src = 0 => disk'[0] = Absent
      BY <3>1, <3>2, <1>1
    <3> QED  BY <3>2, <3>3, <3>4, <3>5, <2>4, <2>5, <1>2
  <2> QED  BY <1>14, <2>7, <2>8, <2>9
<1>15. CASE UNCHANGED vars
  BY <1>15 DEF vars, sink, control, LinesInv, OpenLines
<1>16. ~WriteFails
  BY DEF WriteFails, Fails, OneLine
<1> QED
  BY <1>9, <1>10, <1>11, <1>12, <1>13, <1>14, <1>15, <1>16 DEF Next, SinkIt

\* strict_count_on_open keeps its promise: with messages of one line no file is
\* ever longer than max_count lines, over restarts, deaths of the process in the
\* middle of a rotation or of a line, failing opens, removes and closes.
THEOREM LinesAlwaysBounded ==
    ASSUME OneLine, StrictLimit
    PROVE  Spec => []StrictLineBound
<1>1. Init => LinesInv
  BY LinesInit
<1>2. TypeOK /\ ControlInv /\ ContentInv /\ [Next]_vars => ContentInv'
  BY ContentStep
<1>3. TypeOK /\ ControlInv /\ ContentInv /\ LinesInv /\ [Next]_vars => LinesInv'
  BY LinesStep
<1>4. LinesInv => StrictLineBound
  BY DEF LinesInv, OpenLines, StrictLineBound
<1> QED
  BY <1>1, <1>2, <1>3, <1>4, ContentInit, TypeCorrect, PTL DEF Spec

-----------------------------------------------------------------------------
(* How much history the chain keeps.                                       *)

\* All sinks have the same limits, and none starts a file before it is full.
SameLimits ==
    /\ \A c, d \in Configs : c.maxFiles = d.maxFiles /\ c.maxCount = d.maxCount
    /\ \A c \in Configs : ~c.rotateOnOpen

\* Of the messages below n, the last x are in S or in the slots 0 to k of D.
Covered(D, S, n, x, k) ==
    \A a \in 1..(n - 1) : a + x >= n =>
        a \in S \/ \E j \in Slots : j <= k /\ a \in D[j]

\* Fewer messages are in more slots.
LEMMA CoverWeaken ==
    ASSUME NEW D \in IdSets, NEW S \in SUBSET Nat, NEW n \in Nat, NEW x \in Nat,
           NEW k \in Nat, NEW y \in Nat, NEW m \in Nat,
           Covered(D, S, n, x, k), y <= x, k <= m
    PROVE  Covered(D, S, n, y, m)
BY DEF Covered, Slots

\* Nothing is asked of no messages.
LEMMA CoverNone ==
    ASSUME NEW D, NEW S, NEW n \in Nat, NEW k
    PROVE  Covered(D, S, n, 0, k)
BY DEF Covered

\* What was buffered is in stem.log.
LEMMA CoverSync ==
    ASSUME NEW D \in IdSets, NEW E \in IdSets, NEW S \in SUBSET Nat,
           NEW T \in SUBSET Nat, NEW B \in SUBSET Nat,
           NEW n \in Nat, NEW x \in Nat, NEW k \in Nat,
           Covered(D, S, n, x, k), S = T \cup B, E[0] = D[0] \cup B,
           \A i \in Slots : i # 0 => E[i] = D[i]
    PROVE  Covered(E, T, n, x, k)
BY ConstantsAssumption DEF Covered, Slots

\* A new message is one more that can be read.
LEMMA CoverAppend ==
    ASSUME NEW D \in IdSets, NEW S \in SUBSET Nat, NEW T \in SUBSET Nat,
           NEW n \in Nat, NEW x \in Nat, NEW y \in Nat, NEW k \in Nat,
           Covered(D, S, n, x, k), T = S \cup {n}, y <= x + 1
    PROVE  Covered(D, T, n + 1, y, k)
BY DEF Covered

\* A slot that is not counted on, or is vacant, may be emptied.
LEMMA CoverRemove ==
    ASSUME NEW D \in IdSets, NEW E \in IdSets, NEW S \in SUBSET Nat,
           NEW n \in Nat, NEW x \in Nat, NEW k \in Nat, NEW s \in Slots,
           Covered(D, S, n, x, k), s > k \/ D[s] = {},
           \A i \in Slots : i # s => E[i] = D[i]
    PROVE  Covered(E, S, n, x, k)
BY DEF Covered, Slots

\* A file moves up over a vacant slot, or one that is not counted on.
LEMMA CoverMove ==
    ASSUME NEW D \in IdSets, NEW E \in IdSets, NEW S \in SUBSET Nat,
           NEW n \in Nat, NEW x \in Nat, NEW k \in Nat, NEW m \in Nat,
           NEW s \in Slots, s + 1 \in Slots,
           Covered(D, S, n, x, k), k <= m, s <= k => s + 1 <= m,
           s + 1 > k \/ D[s + 1] = {}, E[s + 1] = D[s],
           \A i \in Slots : i # s /\ i # s + 1 => E[i] = D[i]
    PROVE  Covered(E, S, n, x, m)
<1> SUFFICES ASSUME NEW a \in 1..(n - 1), a + x >= n, a \notin S
             PROVE  \E j \in Slots : j <= m /\ a \in E[j]
  BY DEF Covered
<1>1. PICK j \in Slots : j <= k /\ a \in D[j]
  BY DEF Covered
<1>2. CASE j = s
  BY <1>1, <1>2
<1>3. CASE j # s
  <2>1. j # s + 1
    BY <1>1 DEF Slots
  <2> QED  BY <1>1, <1>3, <2>1 DEF Slots
<1> QED  BY <1>2, <1>3

\* Below a full file the same messages are one slot closer.
LEMMA CoverFull ==
    ASSUME NEW D \in IdSets, NEW S \in SUBSET Nat, NEW n \in Nat, NEW F \in Nat,
           NEW M \in Nat, NEW c \in Nat, c >= M,
           \A i \in 0..F : Covered(D, S, n, c + i * M, i)
    PROVE  \A i \in 1..F : Covered(D, S, n, i * M, i - 1)
<1> SUFFICES ASSUME NEW i \in 1..F PROVE Covered(D, S, n, i * M, i - 1)
  OBVIOUS
<1>1. i - 1 \in 0..F /\ i - 1 \in Nat /\ i \in Nat
  OBVIOUS
<1>2. i * M \in Nat /\ (i - 1) * M \in Nat /\ i * M = (i - 1) * M + M
  BY <1>1
<1>3. Covered(D, S, n, c + (i - 1) * M, i - 1)
  BY <1>1
<1>4. c + (i - 1) * M \in Nat /\ i * M <= c + (i - 1) * M
  BY <1>2
<1> QED  BY <1>1, <1>2, <1>3, <1>4, CoverWeaken

\* The slot that holds the i-th newest full file while files are moved: one
\* less than i until its turn has come.
SlotOf(i, s) == IF i - 1 <= s THEN i - 1 ELSE i

Safe == buf.ids \cup lost

\* Outside a rotation the open file and i backups hold what they should, by the
\* lines of stem.log as well as by log_count_.
FloorAtRest ==
    \A i \in 0..cfg.maxFiles :
        /\ Covered(Ids, Safe, nextId, OpenLines + i * cfg.maxCount, i)
        /\ Covered(Ids, Safe, nextId, logCount + i * cfg.maxCount, i)

\* In a rotation stem.log is a full file.
FloorBefore ==
    \A i \in 1..cfg.maxFiles :
        Covered(Ids, Safe, nextId, i * cfg.maxCount, i - 1)

\* The files from src down have still to be moved.
FloorMoving(s) ==
    \A i \in 1..cfg.maxFiles :
        Covered(Ids, Safe, nextId, i * cfg.maxCount, SlotOf(i, s))

FloorInv ==
    crashes = 0 =>
        /\ pc \notin {"rmOldest", "shift", "rename"} => FloorAtRest
        /\ pc \in {"close", "rmOldest"} => FloorBefore
        /\ pc \in {"shift", "rename"} =>
             /\ FloorMoving(src)
             /\ src + 1 < cfg.maxFiles => disk[src + 1].ids = {}

\* The initial state.
LEMMA FloorInit == Init => FloorInv
<1> SUFFICES ASSUME Init PROVE FloorInv
  OBVIOUS
<1>1. 1..(nextId - 1) = {}
  BY DEF Init
<1>2. FloorAtRest
  BY <1>1 DEF FloorAtRest, Covered
<1> QED  BY <1>2 DEF Init, FloorInv

\* Every step keeps FloorInv.
LEMMA FloorStep ==
    ASSUME OneLine, SameLimits, TypeOK, ControlInv, ContentInv, FloorInv, [Next]_vars
    PROVE  FloorInv'
<1> DEFINE F == cfg.maxFiles
           M == cfg.maxCount
<1>1. 0 \in Slots /\ DOMAIN disk = Slots /\ buf \in File
      /\ (\A i \in Slots : disk[i] \in File) /\ disk[0] \in File
  BY ConstantsAssumption DEF TypeOK, Slots
<1>2. /\ cfg \in Configs /\ F \in Nat /\ M \in Nat /\ F <= MaxSlot /\ F \in Slots
      /\ logCount \in Nat /\ src \in Nat /\ crashes \in Nat
  BY ConfigType DEF TypeOK, Slots
<1>3. TypeOK' /\ ControlInv' /\ ContentInv'
  BY TypeStep, ContentStep
<1>4. cfg'.maxFiles = F /\ cfg'.maxCount = M /\ ~cfg.rotateOnOpen
  BY <1>2, <1>3 DEF TypeOK, SameLimits
<1>5. /\ Ids \in IdSets /\ Safe \in SUBSET Nat /\ nextId \in Nat
      /\ buf.ids \in SUBSET Nat /\ lost \in SUBSET Nat
  BY IdsType DEF Safe, TypeOK
<1>6. /\ Ids' \in IdSets /\ Safe' \in SUBSET Nat /\ nextId' \in Nat
      /\ buf'.ids \in SUBSET Nat /\ lost' \in SUBSET Nat
      /\ buf' \in File /\ disk'[0] \in File /\ logCount' \in Nat
  BY <1>3, <1>1, ConstantsAssumption DEF Safe, TypeOK, Ids, IdSets, File, Slots
<1>7. OpenLines \in Nat /\ OpenLines' \in Nat /\ CountLines(disk[0]) <= OpenLines
  BY <1>1, <1>6, JoinFile, LinesNat, JoinLines DEF OpenLines, ContentInv, WholeLines
<1>8. \A i \in Nat : i * M \in Nat
  BY <1>2
<1> HIDE DEF F, M
<1>9. SUFFICES ASSUME crashes' = 0, crashes = 0
               PROVE  /\ pc' \notin {"rmOldest", "shift", "rename"} => FloorAtRest'
                      /\ pc' \in {"close", "rmOldest"} => FloorBefore'
                      /\ pc' \in {"shift", "rename"} =>
                           /\ FloorMoving(src)'
                           /\ src' + 1 < F => disk'[src' + 1].ids = {}
  <2>1. crashes' = crashes \/ crashes' = crashes + 1
    BY DEF Next, SinkIt, Log, CheckEntry, EnsureOpened, OpenFile, OpenFails,
       CheckBeforeWrite, Write, WriteFails, Close, RemoveOldest, Shift, Rename,
       Flush, Restart, Crash, bounds, vars
  <2>2. crashes' = 0 => crashes = 0
    BY <2>1, <1>2
  <2> QED  BY <2>2, <1>4 DEF FloorInv
<1>10. ~Crash
  BY <1>9 DEF Crash
<1>11. FloorAtRest' <=>
         \A i \in 0..F : /\ Covered(Ids', Safe', nextId', OpenLines' + i * M, i)
                         /\ Covered(Ids', Safe', nextId', logCount' + i * M, i)
  BY <1>4 DEF FloorAtRest
<1>12. FloorBefore' <=> \A i \in 1..F : Covered(Ids', Safe', nextId', i * M, i - 1)
  BY <1>4 DEF FloorBefore
<1>13. /\ FloorAtRest =>
            \A i \in 0..F : /\ Covered(Ids, Safe, nextId, OpenLines + i * M, i)
                            /\ Covered(Ids, Safe, nextId, logCount + i * M, i)
       /\ FloorBefore => \A i \in 1..F : Covered(Ids, Safe, nextId, i * M, i - 1)
       /\ FloorMoving(src) =>
            \A i \in 1..F : Covered(Ids, Safe, nextId, i * M, SlotOf(i, src))
  BY DEF FloorAtRest, FloorBefore, FloorMoving, F, M
<1>14. FloorMoving(src)' <=>
         \A i \in 1..F : Covered(Ids', Safe', nextId', i * M, SlotOf(i, src'))
  BY <1>4 DEF FloorMoving
(* A step that leaves the messages where they are, or brings the buffer to
   stem.log, or loses it. *)
<1>15. ASSUME KeepsIds \/ SyncsIds \/ LosesIds,
              NEW x \in Nat, NEW k \in Nat, Covered(Ids, Safe, nextId, x, k)
       PROVE  Covered(Ids', Safe', nextId', x, k)
  <2>1. CASE KeepsIds
    BY <2>1, <1>15 DEF KeepsIds, Safe
  <2>2. CASE SyncsIds
    <3>1. /\ Ids'[0] = Ids[0] \cup buf.ids /\ \A i \in Slots : i # 0 => Ids'[i] = Ids[i]
          /\ Safe = Safe' \cup buf.ids /\ nextId' = nextId
      BY <2>2, <1>1, <1>5 DEF SyncsIds, IdSets, Safe
    <3> QED  BY <3>1, <1>15, <1>5, <1>6, CoverSync
  <2>3. CASE LosesIds
    <3>1. Ids' = Ids /\ Safe' = Safe /\ nextId' = nextId
      BY <2>3 DEF LosesIds, Safe
    <3> QED  BY <3>1, <1>15
  <2> QED  BY <1>15, <2>1, <2>2, <2>3
<1>16. ASSUME KeepsIds \/ SyncsIds \/ LosesIds, FloorAtRest, OpenLines' <= OpenLines,
              logCount' <= logCount \/ logCount' <= OpenLines
       PROVE  FloorAtRest'
  <2> SUFFICES ASSUME NEW i \in 0..F
               PROVE  /\ Covered(Ids', Safe', nextId', OpenLines' + i * M, i)
                      /\ Covered(Ids', Safe', nextId', logCount' + i * M, i)
    BY <1>11
  <2>1. i \in Nat /\ i * M \in Nat
    BY <1>2, <1>8
  <2>2. /\ Covered(Ids, Safe, nextId, OpenLines + i * M, i)
        /\ Covered(Ids, Safe, nextId, logCount + i * M, i)
    BY <1>16, <1>13
  <2>3. /\ Covered(Ids', Safe', nextId', OpenLines + i * M, i)
        /\ Covered(Ids', Safe', nextId', logCount + i * M, i)
    BY <2>1, <2>2, <1>15, <1>16, <1>2, <1>7
  <2>4. Covered(Ids', Safe', nextId', OpenLines' + i * M, i)
    BY <2>1, <2>3, <1>16, <1>6, <1>7, CoverWeaken
  <2>5. CASE logCount' <= logCount
    BY <2>1, <2>3, <2>4, <2>5, <1>2, <1>6, CoverWeaken
  <2>6. CASE logCount' <= OpenLines
    BY <2>1, <2>3, <2>4, <2>6, <1>7, <1>6, CoverWeaken
  <2> QED  BY <2>5, <2>6, <1>16
<1>17. ASSUME FloorAtRest', logCount' >= M \/ OpenLines' >= M
       PROVE  FloorBefore'
  BY <1>17, <1>11, <1>12, <1>6, <1>7, <1>2, CoverFull
<1>18. CASE Log \/ CheckEntry \/ EnsureOpened \/ OpenFails \/ CheckBeforeWrite
  <2>1. KeepsIds /\ disk' = disk /\ buf' = buf
    BY <1>18, StepEffect, LinesEffect DEF Next, SinkIt
  <2>2. OpenLines' = OpenLines
    BY <2>1 DEF OpenLines
  <2>3. pc \notin {"rmOldest", "shift", "rename", "close"}
        /\ pc' \notin {"rmOldest", "shift", "rename"}
    BY <1>18 DEF Log, CheckEntry, EnsureOpened, OpenFails, CheckBeforeWrite,
       CallRotate, Goto, Throw, TypeOK
  <2>4. logCount' <= logCount \/ logCount' <= OpenLines
    <3>1. CASE EnsureOpened
      <4>1. logCount' \in {logCount, 0, CountLines(disk[0])}
        BY <3>1 DEF EnsureOpened, LineAnswers
      <4> QED  BY <4>1, <1>2, <1>7
    <3>2. CASE CheckEntry
      BY <3>2, <1>2 DEF CheckEntry, M
    <3>3. CASE Log \/ OpenFails \/ CheckBeforeWrite
      BY <3>3, <1>2 DEF Log, OpenFails, CheckBeforeWrite, sink
    <3> QED  BY <1>18, <3>1, <3>2, <3>3
  <2>5. FloorAtRest'
    BY <2>1, <2>2, <2>3, <2>4, <1>7, <1>9, <1>16 DEF FloorInv
  <2>6. pc' = "close" => logCount' >= M \/ OpenLines' >= M
    <3>1. CASE EnsureOpened
      <4>1. ASSUME pc' = "close"
            PROVE  \E lines \in LineAnswers : lines >= M /\ cfg.maxCount > 0
        BY <3>1, <4>1 DEF EnsureOpened, Goto, CallRotate, TypeOK, M
      <4>2. ASSUME NEW lines \in LineAnswers, lines >= M, cfg.maxCount > 0
            PROVE  OpenLines >= M
        <5>1. lines = CountLines(disk[0]) \/ lines = 0
          BY DEF LineAnswers
        <5>2. CountLines(disk[0]) \in Nat /\ M > 0
          BY <1>1, <4>2, LinesNat DEF M
        <5> QED  BY <4>2, <5>1, <5>2, <1>2, <1>7
      <4> QED  BY <4>1, <4>2, <2>2
    <3>2. CASE CheckEntry
      BY <3>2 DEF CheckEntry, M
    <3>3. CASE Log
      BY <3>3, <1>4 DEF Log, Goto
    <3>4. CASE OpenFails
      BY <3>4 DEF OpenFails, Throw, Goto
    <3>5. CASE CheckBeforeWrite
      BY <3>5 DEF CheckBeforeWrite, sink, M
    <3> QED  BY <1>18, <3>1, <3>2, <3>3, <3>4, <3>5
  <2>7. pc' = "close" => FloorBefore'
    BY <2>5, <2>6, <1>17
  <2> QED  BY <2>3, <2>5, <2>7
<1>19. CASE OpenFile
  <2>1. KeepsIds /\ OpenLines' <= OpenLines + 0
    BY <1>19, StepEffect, LinesEffect DEF Next, SinkIt, Lengthens
  <2>2. logCount' = logCount /\ pc = "open" /\ pc' \in {"check", "write"}
    BY <1>19 DEF OpenFile, Goto, TypeOK
  <2>3. FloorAtRest
    BY <2>2, <1>9 DEF FloorInv
  <2>4. OpenLines' <= OpenLines /\ logCount' <= logCount
    BY <2>1, <2>2, <1>2, <1>7
  <2>5. FloorAtRest'
    BY <2>1, <2>3, <2>4, <1>16
  <2> QED  BY <2>2, <2>5
<1>20. CASE Write
  <2>1. AppendsId
    <3>1. AppendsId \/ SkipsId
      BY <1>20, StepEffect DEF Next, SinkIt
    <3>2. fd
      BY <1>20 DEF Write, ContentInv
    <3> QED  BY <3>1, <3>2 DEF SkipsId
  <2>2. OpenLines' <= OpenLines + 1
    BY <1>20, LinesEffect DEF Next, SinkIt, Lengthens
  <2>3. /\ logCount' = logCount + 1 /\ pc = "write" /\ pc' \in {"idle", "close"}
        /\ pc' = "close" => logCount' >= M
    BY <1>20 DEF Write, Goto, CallRotate, M
  <2>4. FloorAtRest
    BY <2>3, <1>9 DEF FloorInv
  <2>5. ASSUME NEW x \in Nat, NEW y \in Nat, NEW k \in Nat, y <= x + 1,
               Covered(Ids, Safe, nextId, x, k)
        PROVE  Covered(Ids', Safe', nextId', y, k)
    <3>1. CASE Ids' = Ids /\ buf'.ids = buf.ids \cup {nextId}
      <4>1. Safe' = Safe \cup {nextId} /\ nextId' = nextId + 1
        BY <3>1, <2>1 DEF Safe, AppendsId
      <4> QED  BY <3>1, <4>1, <2>5, <1>5, <1>6, CoverAppend
    <3>2. CASE Ids' = [Ids EXCEPT ![0] = @ \cup buf.ids] /\ buf'.ids = {nextId}
      <4>1. Safe' = lost \cup {nextId} /\ nextId' = nextId + 1 /\ Safe = lost \cup buf.ids
        BY <3>2, <2>1 DEF Safe, AppendsId
      <4>2. Ids'[0] = Ids[0] \cup buf.ids /\ \A i \in Slots : i # 0 => Ids'[i] = Ids[i]
        BY <3>2, <1>1, <1>5 DEF IdSets
      <4>3. Covered(Ids', lost, nextId, x, k)
        BY <4>1, <4>2, <2>5, <1>5, <1>6, CoverSync
      <4> QED  BY <4>1, <4>3, <2>5, <1>5, <1>6, CoverAppend
    <3> QED  BY <3>1, <3>2, <2>1 DEF AppendsId
  <2>6. FloorAtRest'
    <3> SUFFICES ASSUME NEW i \in 0..F
                 PROVE  /\ Covered(Ids', Safe', nextId', OpenLines' + i * M, i)
                        /\ Covered(Ids', Safe', nextId', logCount' + i * M, i)
      BY <1>11
    <3>1. i \in Nat /\ i * M \in Nat
      BY <1>2, <1>8
    <3>2. /\ Covered(Ids, Safe, nextId, OpenLines + i * M, i)
          /\ Covered(Ids, Safe, nextId, logCount + i * M, i)
      BY <2>4, <1>13
    <3>3. ASSUME NEW p \in Nat, NEW x \in Nat, NEW y \in Nat, y <= x + 1,
                 Covered(Ids, Safe, nextId, x + p, i)
          PROVE  Covered(Ids', Safe', nextId', y + p, i)
      <4>1. x + p \in Nat /\ y + p \in Nat /\ y + p <= (x + p) + 1
        BY <3>3
      <4> QED  BY <4>1, <3>1, <3>3, <2>5
    <3>4. OpenLines \in Nat /\ OpenLines' \in Nat /\ logCount \in Nat /\ logCount' \in Nat
          /\ logCount' <= logCount + 1
      BY <2>3, <1>2, <1>6, <1>7
    <3> QED  BY <3>1, <3>2, <3>3, <3>4, <2>2
  <2>7. pc' = "close" => FloorBefore'
    BY <2>3, <2>6, <1>17
  <2> QED  BY <2>3, <2>6, <2>7
<1>21. CASE Close
  <2>1. SyncsIds \/ LosesIds
    BY <1>21, StepEffect DEF Next, SinkIt
  <2>2. OpenLines' <= OpenLines + 0
    BY <1>21, LinesEffect DEF Next, SinkIt, Lengthens
  <2>3. /\ logCount' = 0 /\ pc = "close"
        /\ F = 0 => pc' \in {"idle", "entry", "ensure", "open"}
        /\ F # 0 => pc' = "rmOldest"
    BY <1>21 DEF Close, Goto, TypeOK, F
  <2>4. FloorAtRest /\ FloorBefore
    BY <2>3, <1>9 DEF FloorInv
  <2>5. OpenLines' <= OpenLines /\ logCount' <= logCount
    BY <2>2, <2>3, <1>2, <1>7
  <2>6. FloorAtRest'
    BY <2>1, <2>4, <2>5, <1>16
  <2>7. FloorBefore'
    <3> SUFFICES ASSUME NEW i \in 1..F PROVE Covered(Ids', Safe', nextId', i * M, i - 1)
      BY <1>12
    <3>1. i \in Nat /\ i * M \in Nat /\ i - 1 \in Nat
      BY <1>2, <1>8
    <3>2. Covered(Ids, Safe, nextId, i * M, i - 1)
      BY <2>4, <1>13
    <3> QED  BY <2>1, <3>1, <3>2, <1>15
  <2> QED  BY <2>3, <2>6, <2>7
<1>22. CASE Restart \/ Flush
  <2>1. KeepsIds \/ SyncsIds \/ LosesIds
    BY <1>22, StepEffect DEF Next
  <2>2. OpenLines' <= OpenLines + 0
    BY <1>22, LinesEffect DEF Next, Lengthens
  <2>3. (logCount' = 0 \/ logCount' = logCount) /\ pc = "idle" /\ pc' = "idle"
    BY <1>22 DEF Restart, NewSink, Flush, sink, control
  <2>4. FloorAtRest
    BY <2>3, <1>9 DEF FloorInv
  <2>5. OpenLines' <= OpenLines /\ logCount' <= logCount
    BY <2>2, <2>3, <1>2, <1>7
  <2>6. FloorAtRest'
    BY <2>1, <2>4, <2>5, <1>16
  <2> QED  BY <2>3, <2>6
<1>23. CASE RemoveOldest
  <2>1. RemovesIds(F) \/ KeepsIds
    BY <1>23, StepEffect DEF Next, SinkIt, F
  <2>2. pc = "rmOldest" /\ pc' = "shift" /\ src' = F - 1 /\ F > 0
    BY <1>23 DEF RemoveOldest, ControlInv, F
  <2>3. FloorBefore
    BY <2>2, <1>9 DEF FloorInv
  <2>4. FloorMoving(src)'
    <3> SUFFICES ASSUME NEW i \in 1..F
                 PROVE  Covered(Ids', Safe', nextId', i * M, SlotOf(i, src'))
      BY <1>14
    <3>1. i \in Nat /\ i * M \in Nat /\ i - 1 \in Nat /\ F > i - 1 /\ SlotOf(i, src') = i - 1
      BY <2>2, <1>2, <1>8 DEF SlotOf
    <3>2. Covered(Ids, Safe, nextId, i * M, i - 1)
      BY <2>3, <1>13
    <3>3. CASE KeepsIds
      BY <3>1, <3>2, <3>3, <1>15
    <3>4. CASE RemovesIds(F)
      <4>1. /\ \A j \in Slots : j # F => Ids'[j] = Ids[j]
            /\ Safe' = Safe /\ nextId' = nextId
        BY <3>4, <1>2, <1>5 DEF RemovesIds, IdSets, Safe
      <4> QED  BY <3>1, <3>2, <4>1, <1>2, <1>5, <1>6, CoverRemove
    <3> QED  BY <2>1, <3>3, <3>4
  <2> QED  BY <2>2, <2>4, <1>2
(* The end of one turn of the loop: the file of slot src has left it. *)
<1>24. ASSUME NextSource, pc \in {"shift", "rename"}, logCount' = 0,
              src = 0 => OpenLines' = 0, disk'[src].ids = {},
              \A i \in 1..F : Covered(Ids', Safe', nextId', i * M,
                                      IF i - 1 < src THEN i - 1 ELSE i)
       PROVE  /\ pc' \notin {"rmOldest", "shift", "rename"} => FloorAtRest'
              /\ pc' \in {"close", "rmOldest"} => FloorBefore'
              /\ pc' \in {"shift", "rename"} =>
                   /\ FloorMoving(src)'
                   /\ src' + 1 < F => disk'[src' + 1].ids = {}
  <2>1. CASE src = 0
    <3>1. pc' \in {"idle", "entry", "ensure", "open"}
      BY <1>24, <2>1 DEF NextSource, Goto, TypeOK
    <3>2. ASSUME NEW i \in 0..F PROVE Covered(Ids', Safe', nextId', 0 + i * M, i)
      <4>1. i \in Nat /\ i * M \in Nat /\ 0 * M = 0
        BY <1>2, <1>8
      <4>2. CASE i = 0
        <5>1. 0 + i * M = 0
          BY <4>1, <4>2
        <5> QED  BY <5>1, <1>6, CoverNone
      <4>3. CASE i # 0
        <5>1. i \in 1..F /\ ~(i - 1 < src) /\ 0 + i * M = i * M
          BY <2>1, <4>1, <4>3
        <5> QED  BY <5>1, <1>24
      <4> QED  BY <4>2, <4>3
    <3>3. FloorAtRest'
      BY <3>2, <2>1, <1>24, <1>11
    <3> QED  BY <3>1, <3>3
  <2>2. CASE src # 0
    <3>1. pc' = "shift" /\ src' = src - 1
      BY <1>24, <2>2 DEF NextSource
    <3>2. src' + 1 = src /\ src' \in Nat
      BY <3>1, <2>2, <1>2
    <3>3. ASSUME NEW i \in 1..F
          PROVE  Covered(Ids', Safe', nextId', i * M, SlotOf(i, src'))
      <4>1. SlotOf(i, src') = IF i - 1 < src THEN i - 1 ELSE i
        BY <3>2 DEF SlotOf
      <4> QED  BY <4>1, <1>24
    <3>4. FloorMoving(src)'
      BY <3>3, <1>14
    <3> QED  BY <3>1, <3>2, <3>4, <1>24
  <2> QED  BY <2>1, <2>2
<1>25. pc \in {"shift", "rename"} =>
         /\ src \in Slots /\ src + 1 \in Slots /\ src < F /\ logCount = 0
         /\ \A i \in 1..F : Covered(Ids, Safe, nextId, i * M, SlotOf(i, src))
         /\ src + 1 < F => Ids[src + 1] = {}
  <2> SUFFICES ASSUME pc \in {"shift", "rename"}
               PROVE  /\ src \in Slots /\ src + 1 \in Slots /\ src < F /\ logCount = 0
                      /\ \A i \in 1..F : Covered(Ids, Safe, nextId, i * M, SlotOf(i, src))
                      /\ src + 1 < F => Ids[src + 1] = {}
    OBVIOUS
  <2>1. src < F /\ logCount = 0
    BY DEF ControlInv, ContentInv, F
  <2>2. src \in Slots /\ src + 1 \in Slots
    BY <2>1, <1>2, ConstantsAssumption DEF Slots
  <2>3. FloorMoving(src) /\ (src + 1 < F => disk[src + 1].ids = {})
    BY <1>9 DEF FloorInv, F
  <2> QED  BY <2>1, <2>2, <2>3, <1>13 DEF Ids
<1>26. \A i \in 1..F : /\ i \in Nat /\ i * M \in Nat /\ i - 1 \in Nat
                       /\ SlotOf(i, src) \in Nat
                       /\ SlotOf(i, src) = IF i - 1 <= src THEN i - 1 ELSE i
  BY <1>2, <1>8 DEF SlotOf
<1>27. CASE Shift
  <2>1. pc = "shift"
    BY <1>27 DEF Shift
  <2>2. ExistsAnswers(src) = {disk[src].exists} /\ disk[src].exists \in BOOLEAN
    BY <2>1, <1>25, <1>1 DEF ExistsAnswers, Fails, OneLine, File
  <2>3. logCount' = 0 /\ buf' = buf /\ lost' = lost /\ nextId' = nextId /\ ~fd
    BY <1>27, <2>1, <1>25 DEF Shift, sink, ControlInv
  <2>4. CASE disk[src].exists
    <3>1. Remove(src + 1) /\ pc' = "rename" /\ src' = src
      BY <1>27, <2>2, <2>4 DEF Shift, Goto
    <3>2. /\ \A j \in Slots : j # src + 1 => Ids'[j] = Ids[j]
          /\ Safe' = Safe /\ disk'[src + 1] \in {disk[src + 1], Absent}
      BY <3>1, <2>1, <2>3, <1>1, <1>25 DEF Remove, Ids, Safe
    <3>3. ASSUME NEW i \in 1..F
          PROVE  Covered(Ids', Safe', nextId', i * M, SlotOf(i, src'))
      <4>1. src + 1 > SlotOf(i, src) \/ Ids[src + 1] = {}
        BY <2>1, <1>2, <1>25, <1>26
      <4>2. Covered(Ids, Safe, nextId, i * M, SlotOf(i, src))
        BY <2>1, <1>25
      <4> QED  BY <4>1, <4>2, <3>1, <3>2, <2>1, <2>3, <1>5, <1>6, <1>25, <1>26, CoverRemove
    <3>4. src + 1 < F => disk'[src + 1].ids = {}
      BY <3>2, <2>1, <1>25, EmptyFile DEF Ids
    <3> QED  BY <3>1, <3>3, <3>4, <1>14
  <2>5. CASE ~disk[src].exists
    <3>1. NextSource /\ disk' = disk
      BY <1>27, <2>2, <2>5 DEF Shift
    <3>2. disk'[src].ids = {}
      BY <3>1, <2>1, <2>5, <1>25 DEF ContentInv, AbsentHoldsNothing
    <3>3. src = 0 => OpenLines' = 0
      <4> SUFFICES ASSUME src = 0 PROVE OpenLines = 0
        BY <3>1, <2>3 DEF OpenLines
      <4>1. CountLines(disk[0]) = 0
        BY <2>5, <1>1 DEF ContentInv, AbsentHoldsNothing, CountLines
      <4>2. buf.newlines = 0 /\ WholeLines(buf)
        BY <2>3 DEF ContentInv, WholeLines
      <4> QED  BY <4>1, <4>2, <1>1, JoinLines DEF OpenLines
    <3>4. ASSUME NEW i \in 1..F
          PROVE  Covered(Ids', Safe', nextId', i * M, IF i - 1 < src THEN i - 1 ELSE i)
      <4>1. Covered(Ids, Safe, nextId, i * M, SlotOf(i, src))
        BY <2>1, <1>25
      <4>2. Ids' = Ids /\ Safe' = Safe
        BY <3>1, <2>3 DEF Ids, Safe
      <4>3. /\ SlotOf(i, src) <= IF i - 1 < src THEN i - 1 ELSE i
            /\ (IF i - 1 < src THEN i - 1 ELSE i) \in Nat
        BY <1>2, <1>26
      <4> QED  BY <4>1, <4>2, <4>3, <2>3, <1>5, <1>26, CoverWeaken
    <3> QED  BY <3>1, <3>2, <3>3, <3>4, <2>1, <2>3, <1>24
  <2> QED  BY <2>4, <2>5
<1>28. CASE Rename
  <2>1. pc = "rename" /\ NextSource
    BY <1>28 DEF Rename
  <2>2. disk' = [disk EXCEPT ![src + 1] = disk[src], ![src] = Absent]
    BY <1>28, LinesEffect DEF Next, SinkIt
  <2>3. logCount' = 0 /\ buf' = buf /\ lost' = lost /\ nextId' = nextId /\ ~fd
    BY <1>28, <2>1, <1>25 DEF Rename, sink, ControlInv
  <2>4. /\ disk'[src] = Absent /\ disk'[src + 1] = disk[src]
        /\ \A j \in Slots : j # src /\ j # src + 1 => disk'[j] = disk[j]
    BY <2>1, <2>2, <1>1, <1>2, <1>25
  <2>5. disk'[src].ids = {}
    BY <2>4, EmptyFile
  <2>6. src = 0 => OpenLines' = 0
    <3> SUFFICES ASSUME src = 0 PROVE OpenLines' = 0
      OBVIOUS
    <3>1. disk'[0] = Absent /\ CountLines(Absent) = 0
      BY <2>4 DEF CountLines, Absent
    <3>2. buf'.newlines = 0 /\ WholeLines(buf')
      BY <2>3 DEF ContentInv, WholeLines
    <3> QED  BY <3>1, <3>2, <1>6, JoinLines DEF OpenLines
  <2>7. ASSUME NEW i \in 1..F
        PROVE  Covered(Ids', Safe', nextId', i * M, IF i - 1 < src THEN i - 1 ELSE i)
    <3> DEFINE m == IF i - 1 < src THEN i - 1 ELSE i
    <3>1. Covered(Ids, Safe, nextId, i * M, SlotOf(i, src))
      BY <2>1, <1>25
    <3>2. /\ Ids'[src + 1] = Ids[src] /\ Safe' = Safe
          /\ \A j \in Slots : j # src /\ j # src + 1 => Ids'[j] = Ids[j]
      BY <2>1, <2>3, <2>4, <1>25 DEF Ids, Safe
    <3>3. /\ m \in Nat /\ SlotOf(i, src) <= m
          /\ src <= SlotOf(i, src) => src + 1 <= m
      BY <1>2, <1>26
    <3>4. src + 1 > SlotOf(i, src) \/ Ids[src + 1] = {}
      BY <2>1, <1>2, <1>25, <1>26
    <3> HIDE DEF m
    <3>5. Covered(Ids', Safe', nextId', i * M, m)
      BY <3>1, <3>2, <3>3, <3>4, <2>1, <2>3, <1>5, <1>6, <1>25, <1>26, CoverMove
    <3> QED  BY <3>5 DEF m
  <2> QED  BY <2>1, <2>3, <2>5, <2>6, <2>7, <1>24
<1>29. CASE UNCHANGED vars
  <2>1. KeepsIds /\ OpenLines' = OpenLines
    BY <1>29 DEF vars, KeepsIds, Ids, OpenLines
  <2>2. Safe' = Safe
    BY <1>29 DEF vars, Safe
  <2>3. FloorInv'
    BY <1>29, <2>1, <2>2 DEF vars, sink, control, bounds, FloorInv, FloorAtRest,
       FloorBefore, FloorMoving, KeepsIds
  <2> QED  BY <2>3, <1>9, <1>4 DEF FloorInv
<1>30. ~WriteFails
  BY DEF WriteFails, Fails, OneLine
<1> QED
  BY <1>10, <1>18, <1>19, <1>20, <1>21, <1>22, <1>23, <1>27, <1>28, <1>29, <1>30
  DEF Next, SinkIt

\* The chain is worth its number of backups: until a process dies, the newest
\* max_files * max_count messages can be read or died with a buffer fclose could
\* not write, also in the middle of a rotation and across orderly restarts.
THEOREM HistoryAlwaysKept ==
    ASSUME OneLine, SameLimits
    PROVE  Spec => []RetentionFloor
<1>1. TypeOK /\ ControlInv /\ ContentInv /\ [Next]_vars => ContentInv'
  BY ContentStep
<1>2. TypeOK /\ ControlInv /\ ContentInv /\ FloorInv /\ [Next]_vars => FloorInv'
  BY FloorStep
<1>3. ASSUME TypeOK, ControlInv, FloorInv PROVE RetentionFloor
  <2> DEFINE F == cfg.maxFiles
             M == cfg.maxCount
  <2>1. F \in Nat /\ M \in Nat /\ F \in 0..F /\ F * M \in Nat /\ logCount \in Nat
    BY <1>3, ConfigType DEF TypeOK
  <2>2. OpenLines \in Nat /\ nextId \in Nat /\ src \in Nat
    <3>1. 0 \in Slots /\ buf \in File /\ disk[0] \in File
      BY <1>3, ConstantsAssumption DEF TypeOK, Slots
    <3>2. OpenLines \in Nat
      BY <3>1, JoinFile, LinesNat DEF OpenLines
    <3> QED  BY <3>2, <1>3 DEF TypeOK, Slots
  <2>3. Ids \in IdSets /\ Safe \in SUBSET Nat
    BY <1>3, IdsType DEF Safe, TypeOK
  <2>4. ASSUME NEW x \in Nat, NEW k \in Nat, x >= F * M, Covered(Ids, Safe, nextId, x, k)
        PROVE  \A a \in 1..(nextId - 1) : a + F * M >= nextId => a \in Retained \cup lost
    BY <2>1, <2>2, <2>4 DEF Covered, Ids, Safe, Retained, Stored
  <2>5. CASE pc \notin {"rmOldest", "shift", "rename"} /\ crashes = 0
    <3>1. Covered(Ids, Safe, nextId, logCount + F * M, F)
      BY <1>3, <2>1, <2>5 DEF FloorInv, FloorAtRest
    <3> QED  BY <2>1, <2>4, <3>1 DEF RetentionFloor
  <2>6. CASE pc = "rmOldest" /\ crashes = 0
    <3>1. F \in 1..F /\ F - 1 \in Nat
      BY <1>3, <2>1, <2>6 DEF ControlInv
    <3>2. Covered(Ids, Safe, nextId, F * M, F - 1)
      BY <1>3, <2>6, <3>1 DEF FloorInv, FloorBefore
    <3> QED  BY <2>1, <2>4, <3>1, <3>2 DEF RetentionFloor
  <2>7. CASE pc \in {"shift", "rename"} /\ crashes = 0
    <3>1. F \in 1..F /\ SlotOf(F, src) \in Nat
      BY <1>3, <2>1, <2>2, <2>7 DEF ControlInv, SlotOf
    <3>2. Covered(Ids, Safe, nextId, F * M, SlotOf(F, src))
      BY <1>3, <2>7, <3>1 DEF FloorInv, FloorMoving
    <3> QED  BY <2>1, <2>4, <3>1, <3>2 DEF RetentionFloor
  <2>8. CASE crashes # 0
    BY <2>8 DEF RetentionFloor
  <2> QED  BY <2>5, <2>6, <2>7, <2>8
<1> QED
  BY <1>1, <1>2, <1>3, ContentInit, FloorInit, TypeCorrect, PTL DEF Spec
=============================================================================
