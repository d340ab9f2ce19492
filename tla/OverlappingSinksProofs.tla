------------------------ MODULE OverlappingSinksProofs ------------------------
(***************************************************************************)
(* Proofs about two sinks over the same files, for any max_count and       *)
(* max_files, on both platforms, and for any number of messages.           *)
(***************************************************************************)
EXTENDS OverlappingSinks, FiniteSetTheorems, TLAPS

Chain == {"rmOldest", "exists", "rmTarget", "rename"}
Labels == Chain \cup {"idle", "ensure", "open", "check", "write", "flush", "close"}
Lines == Seq(Sinks \X Nat)

\* The type invariant in parts, with file as a function.
SettingsOK ==
    platform \in Platforms /\ rotateOnOpen \in OpenModes /\ strict \in StrictModes
Distinct(names) == \A i, j \in Slots : i # j /\ names[i] # None => names[i] # names[j]
FilesOK ==
    /\ dir \in [Slots -> Files \cup {None}] /\ Distinct(dir)
    /\ file \in [Files -> Lines]
    /\ fd \in [Sinks -> Files \cup {None}]
SinksOK ==
    /\ dirty \in [Sinks -> BOOLEAN] /\ rotDone \in [Sinks -> BOOLEAN]
    /\ logCount \in [Sinks -> 0..MaxCount] /\ sent \in [Sinks -> Nat]
ControlOK ==
    /\ pc \in [Sinks -> Labels] /\ cont \in [Sinks -> {"check", "write"}]
    /\ ret \in [Sinks -> {"ensure", "open", "flush"}] /\ src \in [Sinks -> 0..(MaxFiles - 1)]
ReloadOK == posted \in 0..MaxOld /\ phase \in {"before", "overlap", "after"} /\ clean \in Nat

\* What is buffered is buffered for an open file until the message's flush or the rotation
\* closes it; a rotation runs with the file closed, and a message is written with the file
\* open and the counter below the limit.
ControlOf(s) ==
    /\ dirty[s] => fd[s] # None /\ pc[s] \in {"close", "flush"}
    /\ pc[s] \in Chain \cup {"open"} => fd[s] = None
    /\ pc[s] \in {"check", "write"} => fd[s] # None
    /\ pc[s] = "ensure" /\ fd[s] # None => cont[s] = "check"
    /\ pc[s] \in Chain \cup {"open", "write"} => logCount[s] < MaxCount
ControlInv == \A s \in Sinks : ControlOf(s)

TypeInv == SettingsOK /\ FilesOK /\ SinksOK /\ ControlOK /\ ReloadOK /\ ControlInv

-----------------------------------------------------------------------------
(* Files.                                                                  *)

\* What the assumption on the constants gives the proofs.
LEMMA Constants ==
    /\ MaxCount \in Nat /\ 0 < MaxCount /\ MaxFiles \in Nat /\ 0 < MaxFiles
    /\ Files \subseteq Nat /\ Slots \subseteq Nat /\ 0 \in Slots /\ MaxFiles \in Slots
    /\ None \notin Files
    /\ \A k \in 0..(MaxFiles - 1) : k \in Slots /\ k + 1 \in Slots
BY ConstantsAssumption DEF Files, Slots, None

\* There are two sinks.
LEMMA Sides ==
    /\ "old" \in Sinks /\ "new" \in Sinks /\ "old" # "new"
    /\ \A s \in Sinks : Other(s) \in Sinks /\ Other(s) # s
    /\ \A s, t \in Sinks : t = s \/ t = Other(s)
BY DEF Sinks, Other

\* There are more files than names and handles, so open finds one that is not in use.
LEMMA FreshFileUnused ==
    ASSUME FilesOK, NEW s \in Sinks, fd[s] = None, ~Exists(0)
    PROVE  FreshFile \in Files /\ ~Referenced(dir, fd, FreshFile)
<1> DEFINE o == Other(s)
           holders == 0..MaxFiles
           used(f) == \E i \in 1..MaxFiles : dir[i] = f
           holder == [f \in Files |-> IF used(f) THEN CHOOSE i \in 1..MaxFiles : dir[i] = f ELSE 0]
<1>0. o \in Sinks /\ \A u \in Sinks : u = s \/ u = o
  BY Sides
<1> SUFFICES \E f \in Files : ~Referenced(dir, fd, f)
  BY DEF FreshFile
<1> SUFFICES ASSUME \A f \in Files : Referenced(dir, fd, f) PROVE FALSE
  OBVIOUS
<1>1. \A f \in Files : used(f) \/ f = fd[o]
  BY <1>0, Constants DEF Referenced, Exists, Slots
<1>2. holder \in [Files -> holders]
  BY Constants
<1>3. IsFiniteSet(holders) /\ Cardinality(holders) = MaxFiles + 1
  BY Constants, FS_Interval
<1>4. IsFiniteSet(Files) /\ Cardinality(Files) = MaxFiles + 3
  BY Constants, FS_Interval DEF Files
<1>5. PICK f, g \in Files : f # g /\ holder[f] = holder[g]
  <2> HIDE DEF holder, holders
  <2>1. Cardinality(holders) < Cardinality(Files)
    BY <1>3, <1>4, Constants
  <2> QED
    BY <1>2, <1>3, <1>4, <2>1, FS_PigeonHole
<1>6. used(f) => holder[f] \in 1..MaxFiles /\ dir[holder[f]] = f
  OBVIOUS
<1>7. used(g) => holder[g] \in 1..MaxFiles /\ dir[holder[g]] = g
  OBVIOUS
<1>8. (~used(f) => holder[f] = 0) /\ (~used(g) => holder[g] = 0)
  OBVIOUS
<1> QED
  BY <1>1, <1>5, <1>6, <1>7, <1>8

\* Contents of files that lose their last reference are gone, the others stay.
Kept(new, old) == \A f \in Files : new[f] \in {old[f], <<>>}

\* Setting the names clears the files that nothing refers to any more and keeps the
\* others.
LEMMA SetDirTyped ==
    ASSUME FilesOK, NEW names \in [Slots -> Files \cup {None}], Distinct(names), SetDir(names),
           fd' = fd
    PROVE  /\ FilesOK' /\ Kept(file', file)
           /\ \A f \in Files : file'[f] = IF Referenced(names, fd, f) THEN file[f] ELSE <<>>
<1>1. <<>> \in Lines
  BY DEF Lines
<1>2. \A f \in Files : file'[f] = IF Referenced(names, fd, f) THEN file[f] ELSE <<>>
  BY DEF SetDir
<1>3. file' \in [Files -> Lines]
  BY <1>1 DEF SetDir, FilesOK
<1>4. dir' = names
  BY DEF SetDir
<1>5. Distinct(dir)'
  BY <1>4 DEF Distinct
<1> QED
  BY <1>2, <1>3, <1>4, <1>5 DEF FilesOK, Kept

\* Removing a name leaves the others.
LEMMA RemovedTyped ==
    ASSUME FilesOK, NEW i \in Slots
    PROVE  /\ Removed(i) \in [Slots -> Files \cup {None}] /\ Distinct(Removed(i))
           /\ \A j \in Slots : Removed(i)[j] \in {dir[j], None}
BY DEF FilesOK, Removed, Distinct

\* A flush appends the buffered line to the open file.
LEMMA FlushedTyped ==
    ASSUME FilesOK, SinksOK, NEW s \in Sinks, dirty[s] => fd[s] # None
    PROVE  /\ Flushed(s) \in [Files -> Lines]
           /\ dirty[s] => /\ fd[s] \in Files
                          /\ Flushed(s)[fd[s]] = Append(file[fd[s]], <<s, sent[s]>>)
                          /\ \A f \in Files : f # fd[s] => Flushed(s)[f] = file[f]
           /\ ~dirty[s] => Flushed(s) = file
<1>1. CASE dirty[s]
  <2>1. fd[s] \in Files /\ <<s, sent[s]>> \in Sinks \X Nat /\ file[fd[s]] \in Lines
    BY <1>1 DEF FilesOK, SinksOK
  <2>2. Append(file[fd[s]], <<s, sent[s]>>) \in Lines
    BY <2>1 DEF Lines
  <2>3. Flushed(s) = [file EXCEPT ![fd[s]] = Append(file[fd[s]], <<s, sent[s]>>)]
    BY <1>1, <2>1 DEF Flushed, FilesOK
  <2> QED
    BY <1>1, <2>1, <2>2, <2>3 DEF FilesOK
<1>2. CASE ~dirty[s]
  BY <1>2 DEF Flushed, FilesOK
<1> QED
  BY <1>1, <1>2

\* A step of rotate_files_ removes a name, moves a file to the next one, or does nothing.
DirShrink(new, old) == \A i \in Slots : new[i] \in {old[i], None}
DirMove(new, old) ==
    \E k \in Slots :
        /\ k + 1 \in Slots /\ new[k + 1] = old[k] /\ new[k] = None
        /\ \A i \in Slots : i # k /\ i # k + 1 => new[i] = old[i]
Swept == \A f \in Files : file'[f] = IF Referenced(dir', fd, f) THEN file[f] ELSE <<>>

\* What the steps of rotate_files_ do to names and files.
LEMMA ChainFiles ==
    ASSUME FilesOK, ControlOK, NEW s \in Sinks, fd' = fd,
           RemoveOldest(s) \/ SourceExists(s) \/ RemoveTarget(s) \/ Rename(s)
    PROVE  /\ FilesOK' /\ Kept(file', file)
           /\ DirShrink(dir', dir) \/ DirMove(dir', dir)
           /\ UNCHANGED <<dir, file>> \/ Swept
<1>0. src[s] \in Slots /\ src[s] + 1 \in Slots /\ MaxFiles \in Slots
  BY Constants DEF ControlOK
<1>1. ASSUME NEW i \in Slots, SetDir(Removed(i))
      PROVE  FilesOK' /\ Kept(file', file) /\ DirShrink(dir', dir) /\ Swept
  <2>1. /\ Removed(i) \in [Slots -> Files \cup {None}] /\ Distinct(Removed(i))
        /\ \A j \in Slots : Removed(i)[j] \in {dir[j], None}
    BY RemovedTyped
  <2>2. PICK names : names = Removed(i)
    OBVIOUS
  <2>3. SetDir(names) /\ dir' = names
    BY <1>1, <2>2 DEF SetDir
  <2>4. /\ FilesOK' /\ Kept(file', file)
        /\ \A f \in Files : file'[f] = IF Referenced(names, fd, f) THEN file[f] ELSE <<>>
    BY <2>1, <2>2, <2>3, SetDirTyped
  <2> QED
    BY <2>1, <2>2, <2>3, <2>4 DEF DirShrink, Swept
<1>2. CASE UNCHANGED <<dir, file>>
  <2>1. FilesOK'
    BY <1>2 DEF FilesOK, Distinct
  <2> QED
    BY <1>2, <2>1 DEF Kept, DirShrink
<1>3. ASSUME Exists(src[s]), SetDir([dir EXCEPT ![src[s] + 1] = dir[src[s]], ![src[s]] = None])
      PROVE  FilesOK' /\ Kept(file', file) /\ DirMove(dir', dir) /\ Swept
  <2>1. PICK k \in Slots : k = src[s] /\ k + 1 \in Slots
    BY <1>0
  <2>2. PICK names : names = [dir EXCEPT ![k + 1] = dir[k], ![k] = None]
    OBVIOUS
  <2>3. SetDir(names) /\ dir' = names
    BY <1>3, <2>1, <2>2 DEF SetDir
  <2>4. /\ names \in [Slots -> Files \cup {None}]
        /\ names[k + 1] = dir[k] /\ names[k] = None
        /\ \A i \in Slots : i # k /\ i # k + 1 => names[i] = dir[i]
    BY <2>1, <2>2, Constants DEF FilesOK
  <2>5. Distinct(names)
    BY <2>1, <2>4 DEF FilesOK, Distinct
  <2>6. /\ FilesOK' /\ Kept(file', file)
        /\ \A f \in Files : file'[f] = IF Referenced(names, fd, f) THEN file[f] ELSE <<>>
    BY <2>3, <2>4, <2>5, SetDirTyped
  <2> QED
    BY <2>1, <2>3, <2>4, <2>6 DEF DirMove, Swept
<1>4. CASE Rename(s)
  BY <1>2, <1>3, <1>4 DEF Rename
<1>5. CASE RemoveOldest(s) \/ RemoveTarget(s)
  BY <1>0, <1>1, <1>5 DEF RemoveOldest, RemoveTarget
<1>6. CASE SourceExists(s)
  BY <1>2, <1>6 DEF SourceExists
<1> QED
  BY <1>4, <1>5, <1>6

-----------------------------------------------------------------------------
(* Control.                                                                *)

\* A sink that moves on leaves the other alone.
LEMMA GotoEffect ==
    ASSUME ControlOK, NEW s \in Sinks, NEW label \in Labels, Goto(s, label)
    PROVE  /\ ControlOK' /\ pc'[s] = label /\ cont' = cont /\ ret' = ret /\ src' = src
           /\ \A u \in Sinks : u # s => pc'[u] = pc[u]
BY DEF ControlOK, Goto

\* So does one that calls rotate_files_.
LEMMA CallRotateEffect ==
    ASSUME ControlOK, NEW s \in Sinks, NEW r \in {"ensure", "open", "flush"}, CallRotate(s, r)
    PROVE  /\ ControlOK' /\ pc'[s] = "close" /\ cont' = cont
           /\ \A u \in Sinks : u # s => pc'[u] = pc[u]
<1>1. "close" \in Labels
  BY DEF Labels
<1> QED
  BY <1>1 DEF ControlOK, CallRotate

\* The chain goes on with the next file, or is done.
LEMMA NextSourceEffect ==
    ASSUME ControlOK, NEW s \in Sinks, NextSource(s)
    PROVE  /\ ControlOK' /\ cont' = cont
           /\ \/ pc'[s] = ret[s] /\ src[s] = 0
              \/ pc'[s] = "exists"
           /\ \A u \in Sinks : u # s => pc'[u] = pc[u]
<1>0. /\ ret[s] \in {"ensure", "open", "flush"} /\ src[s] \in 0..(MaxFiles - 1)
      /\ ret[s] \in Labels /\ "exists" \in Labels
  BY DEF ControlOK, Labels, Chain
<1>1. CASE src[s] = 0
  BY <1>0, <1>1 DEF NextSource, Goto, ControlOK
<1>2. CASE src[s] # 0
  <2>1. src[s] - 1 \in 0..(MaxFiles - 1)
    BY <1>0, <1>2, Constants
  <2> QED
    BY <1>0, <1>2, <2>1 DEF NextSource, ControlOK
<1> QED
  BY <1>1, <1>2

\* A step of one sink leaves the control of the other alone.
LEMMA ControlStep ==
    ASSUME ControlInv, NEW s \in Sinks, ControlOf(s)',
           \A u \in Sinks : u # s =>
             /\ pc'[u] = pc[u] /\ fd'[u] = fd[u] /\ cont'[u] = cont[u]
             /\ logCount'[u] = logCount[u] /\ (dirty'[u] => dirty[u])
    PROVE  ControlInv'
<1> SUFFICES ASSUME NEW u \in Sinks, u # s PROVE ControlOf(u)'
  BY DEF ControlInv
<1>1. ControlOf(u)
  BY DEF ControlInv
<1> QED
  BY <1>1 DEF ControlOf

\* The types and ControlInv hold at first.
LEMMA TypeInit == Init => TypeInv
<1> SUFFICES ASSUME Init PROVE TypeInv
  OBVIOUS
<1>1. SettingsOK /\ ReloadOK
  BY ConstantsAssumption DEF Init, SettingsOK, ReloadOK
<1>2. FilesOK
  <2>1. <<>> \in Lines
    BY DEF Lines
  <2> QED
    BY <2>1 DEF Init, FilesOK, Distinct
<1>3. SinksOK
  BY Constants DEF Init, SinksOK
<1>4. ControlOK
  <2>1. "idle" \in Labels /\ 0 \in 0..(MaxFiles - 1)
    BY Constants DEF Labels
  <2> QED
    BY <2>1 DEF Init, ControlOK
<1>5. ControlInv
  <2> SUFFICES ASSUME NEW s \in Sinks PROVE ControlOf(s)
    BY DEF ControlInv
  <2>1. pc[s] = "idle" /\ ~dirty[s]
    BY DEF Init
  <2>2. pc[s] \notin Chain \cup {"open"} /\ pc[s] \notin {"check", "write"} /\ pc[s] # "ensure"
        /\ pc[s] \notin Chain \cup {"open", "write"}
    BY <2>1 DEF Chain
  <2> QED
    BY <2>1, <2>2, Zenon DEF ControlOf
<1> QED
  BY <1>1, <1>2, <1>3, <1>4, <1>5 DEF TypeInv

\* Every step keeps them.
LEMMA TypeStep == TypeInv /\ [Next]_vars => TypeInv'
<1> SUFFICES ASSUME TypeInv, [Next]_vars PROVE TypeInv'
  OBVIOUS
<1> USE DEF settings, sinkVars, control, reload
<1>0. SettingsOK /\ FilesOK /\ SinksOK /\ ControlOK /\ ReloadOK /\ ControlInv
  BY DEF TypeInv
<1>0a. /\ fd \in [Sinks -> Files \cup {None}] /\ dirty \in [Sinks -> BOOLEAN]
       /\ rotDone \in [Sinks -> BOOLEAN] /\ logCount \in [Sinks -> 0..MaxCount]
       /\ sent \in [Sinks -> Nat] /\ pc \in [Sinks -> Labels]
       /\ dir \in [Slots -> Files \cup {None}] /\ file \in [Files -> Lines]
       /\ \A s \in Sinks : /\ cont[s] \in {"check", "write"} /\ src[s] \in Slots
                           /\ src[s] + 1 \in Slots /\ cont[s] \in Labels
                           /\ ret[s] \in {"ensure", "open", "flush"}
  BY <1>0, Constants DEF FilesOK, SinksOK, ControlOK, Labels
<1>1. CASE Post \/ Reload
  <2>1. UNCHANGED <<settings, dir, file, sinkVars, control>>
    BY <1>1 DEF Post, Reload
  <2>2. ReloadOK'
    BY <1>0, <1>1, ConstantsAssumption DEF Post, Reload, ReloadOK
  <2>3. SettingsOK' /\ FilesOK' /\ SinksOK' /\ ControlOK'
    BY <1>0, <2>1 DEF SettingsOK, FilesOK, Distinct, SinksOK, ControlOK
  <2>4. ControlInv'
    BY <1>0, <2>1 DEF ControlInv, ControlOf
  <2> QED
    BY <2>2, <2>3, <2>4 DEF TypeInv
<1>2. CASE Retire
  <2>1. /\ pc["old"] = "idle" /\ phase' = "after" /\ fd' = [fd EXCEPT !["old"] = None]
        /\ file' = [f \in Files |-> IF Referenced(dir, fd', f) THEN file[f] ELSE <<>>]
        /\ UNCHANGED <<settings, dir, dirty, logCount, rotDone, sent, control, posted, clean>>
    BY <1>2 DEF Retire
  <2>2. SettingsOK' /\ SinksOK' /\ ControlOK' /\ ReloadOK'
    BY <1>0, <2>1 DEF SettingsOK, SinksOK, ControlOK, ReloadOK
  <2>3. FilesOK'
    <3>1. <<>> \in Lines
      BY DEF Lines
    <3>2. fd' \in [Sinks -> Files \cup {None}] /\ file' \in [Files -> Lines]
      BY <1>0a, <2>1, <3>1
    <3> QED
      BY <1>0, <2>1, <3>2 DEF FilesOK, Distinct
  <2>4. ControlOf("old")'
    <3>1. pc'["old"] = "idle" /\ ~dirty'["old"]
      <4>1. dirty["old"] => pc["old"] \in {"close", "flush"}
        BY <1>0, Sides DEF ControlInv, ControlOf
      <4> QED
        BY <2>1, <4>1
    <3>2. /\ pc'["old"] \notin Chain \cup {"open"} /\ pc'["old"] \notin {"check", "write"}
          /\ pc'["old"] # "ensure" /\ pc'["old"] \notin Chain \cup {"open", "write"}
      BY <3>1 DEF Chain
    <3> QED
      BY <3>1, <3>2, Zenon DEF ControlOf
  <2>5. ControlInv'
    BY <1>0, <1>0a, <2>1, <2>4, ControlStep, Sides
  <2> QED
    BY <2>2, <2>3, <2>5 DEF TypeInv
<1>3. ASSUME NEW s \in Sinks, Log(s) PROVE TypeInv'
  <2>1. /\ pc[s] = "idle" /\ rotDone' = [rotDone EXCEPT ![s] = TRUE]
        /\ ret' = [ret EXCEPT ![s] = "ensure"] /\ cont' = [cont EXCEPT ![s] = "check"]
        /\ UNCHANGED <<settings, dir, file, fd, dirty, logCount, sent, src, reload>>
        /\ \/ pc' = [pc EXCEPT ![s] = "close"]
           \/ pc' = [pc EXCEPT ![s] = "ensure"]
    BY <1>3 DEF Log
  <2>2. "close" \in Labels /\ "ensure" \in Labels
    BY DEF Labels
  <2>3. SettingsOK' /\ FilesOK' /\ ReloadOK'
    BY <1>0, <2>1 DEF SettingsOK, FilesOK, Distinct, ReloadOK
  <2>4. SinksOK' /\ ControlOK'
    BY <1>0, <2>1, <2>2 DEF SinksOK, ControlOK
  <2>5. /\ pc'[s] \in {"close", "ensure"} /\ cont'[s] = "check" /\ ~dirty'[s]
        /\ \A u \in Sinks : u # s => pc'[u] = pc[u] /\ cont'[u] = cont[u]
    <3>1. dirty[s] => pc[s] \in {"close", "flush"}
      BY <1>0 DEF ControlInv, ControlOf
    <3> QED
      BY <1>0, <1>0a, <2>1, <3>1 DEF ControlOK
  <2>6. /\ pc'[s] \notin Chain \cup {"open"} /\ pc'[s] \notin {"check", "write"}
        /\ pc'[s] \notin Chain \cup {"open", "write"}
    BY <2>5 DEF Chain
  <2>7. ControlOf(s)'
    BY <2>5, <2>6, Zenon DEF ControlOf
  <2>8. ControlInv'
    BY <1>0, <2>1, <2>5, <2>7, ControlStep
  <2> QED
    BY <2>3, <2>4, <2>8 DEF TypeInv
<1>4. ASSUME NEW s \in Sinks, EnsureOpened(s) PROVE TypeInv'
  <2>1. /\ pc[s] = "ensure"
        /\ UNCHANGED <<settings, dir, file, fd, dirty, rotDone, sent, reload>>
    BY <1>4 DEF EnsureOpened
  <2>2. SettingsOK' /\ FilesOK' /\ ReloadOK'
    BY <1>0, <2>1 DEF SettingsOK, FilesOK, Distinct, ReloadOK
  <2>3. ~dirty[s] /\ (fd[s] # None => cont[s] = "check")
    <3>1. ControlOf(s)
      BY <1>0 DEF ControlInv
    <3> QED
      BY <2>1, <3>1 DEF ControlOf
  <2>4. "open" \in Labels /\ "open" \in {"ensure", "open", "flush"}
    BY DEF Labels
  <2>5. /\ ControlOK' /\ logCount' \in [Sinks -> 0..MaxCount] /\ cont' = cont
        /\ \/ fd[s] # None /\ pc'[s] = cont[s]
           \/ fd[s] = None /\ pc'[s] = "open" /\ logCount'[s] < MaxCount
           \/ fd[s] = None /\ pc'[s] = "close"
        /\ \A u \in Sinks : u # s => pc'[u] = pc[u] /\ logCount'[u] = logCount[u]
    <3>1. CASE fd[s] # None /\ Goto(s, cont[s]) /\ UNCHANGED logCount
      BY <1>0, <1>0a, <3>1, GotoEffect
    <3>2. CASE fd[s] = None /\ Goto(s, "open") /\ logCount' = [logCount EXCEPT ![s] = 0]
      BY <1>0, <1>0a, <2>4, <3>2, GotoEffect, Constants
    <3>3. ASSUME NEW lines \in Nat, fd[s] = None, lines < MaxCount, Goto(s, "open"),
                 logCount' = [logCount EXCEPT ![s] = lines]
          PROVE  /\ ControlOK' /\ logCount' \in [Sinks -> 0..MaxCount] /\ cont' = cont
                 /\ fd[s] = None /\ pc'[s] = "open" /\ logCount'[s] < MaxCount
                 /\ \A u \in Sinks : u # s => pc'[u] = pc[u] /\ logCount'[u] = logCount[u]
      BY <1>0, <1>0a, <2>4, <3>3, GotoEffect, Constants
    <3>4. CASE fd[s] = None /\ CallRotate(s, "open") /\ UNCHANGED logCount
      BY <1>0, <1>0a, <2>4, <3>4, CallRotateEffect
    <3>5. PICK lines : /\ lines = (IF Exists(0) THEN Len(file[dir[0]]) ELSE 0)
                       /\ \/ fd[s] # None /\ Goto(s, cont[s]) /\ UNCHANGED logCount
                          \/ fd[s] = None /\ Goto(s, "open") /\ logCount' = [logCount EXCEPT ![s] = 0]
                          \/ /\ fd[s] = None /\ lines < MaxCount /\ Goto(s, "open")
                             /\ logCount' = [logCount EXCEPT ![s] = lines]
                          \/ fd[s] = None /\ CallRotate(s, "open") /\ UNCHANGED logCount
      BY <1>4 DEF EnsureOpened
    <3>6. lines \in Nat
      <4>1. Exists(0) => dir[0] \in Files
        BY <1>0a, Constants DEF Exists
      <4>2. Exists(0) => file[dir[0]] \in Lines
        BY <1>0a, <4>1
      <4> QED
        BY <3>5, <4>2 DEF Lines
    <3> QED
      BY <3>1, <3>2, <3>3, <3>4, <3>5, <3>6
  <2>6. SinksOK'
    BY <1>0, <2>1, <2>5 DEF SinksOK
  <2>7. ControlOf(s)'
    <3>1. CASE fd[s] # None /\ pc'[s] = cont[s]
      <4>1. pc'[s] = "check" /\ fd'[s] # None /\ ~dirty'[s]
        BY <2>1, <2>3, <3>1
      <4>2. pc'[s] \notin Chain \cup {"open"} /\ pc'[s] # "ensure" /\ pc'[s] \notin Chain \cup {"open", "write"}
        BY <4>1 DEF Chain
      <4> QED
        BY <4>1, <4>2, Zenon DEF ControlOf
    <3>2. CASE fd[s] = None /\ pc'[s] = "open" /\ logCount'[s] < MaxCount
      <4>1. fd'[s] = None /\ ~dirty'[s] /\ pc'[s] \notin {"check", "write"} /\ pc'[s] # "ensure"
        BY <2>1, <2>3, <3>2
      <4> QED
        BY <3>2, <4>1, Zenon DEF ControlOf
    <3>3. CASE fd[s] = None /\ pc'[s] = "close"
      <4>1. /\ ~dirty'[s] /\ pc'[s] \notin {"check", "write"} /\ pc'[s] # "ensure"
            /\ pc'[s] \notin Chain \cup {"open"} /\ pc'[s] \notin Chain \cup {"open", "write"}
        BY <2>1, <2>3, <3>3 DEF Chain
      <4> QED
        BY <4>1, Zenon DEF ControlOf
    <3> QED
      BY <2>5, <3>1, <3>2, <3>3
  <2>8. ControlInv'
    BY <1>0, <2>1, <2>5, <2>7, ControlStep
  <2> QED
    BY <2>2, <2>5, <2>6, <2>8 DEF TypeInv
<1>5. ASSUME NEW s \in Sinks, OpenFile(s) PROVE TypeInv'
  <2>0. ControlOf(s) /\ pc[s] = "open"
    BY <1>0, <1>5 DEF ControlInv, OpenFile
  <2>1. /\ fd[s] = None /\ ~dirty[s] /\ logCount[s] < MaxCount
        /\ Goto(s, cont[s])
        /\ UNCHANGED <<settings, file, dirty, logCount, rotDone, sent, posted, phase>>
    BY <1>5, <2>0 DEF OpenFile, ControlOf
  <2>2. PICK f : /\ f = (IF Exists(0) THEN dir[0] ELSE FreshFile)
                 /\ dir' = [dir EXCEPT ![0] = f] /\ fd' = [fd EXCEPT ![s] = f]
    BY <1>5 DEF OpenFile
  <2>3. f \in Files /\ (~Exists(0) => ~Referenced(dir, fd, f))
    BY <1>0, <1>0a, <2>1, <2>2, FreshFileUnused, Constants DEF Exists
  <2>4. FilesOK'
    <3>1. dir' \in [Slots -> Files \cup {None}] /\ fd' \in [Sinks -> Files \cup {None}]
      BY <1>0a, <2>2, <2>3, Constants
    <3>2. Distinct(dir)'
      <4>1. CASE Exists(0)
        BY <1>0, <1>0a, <2>2, <4>1, Constants DEF Distinct, FilesOK
      <4>2. CASE ~Exists(0)
        <5>1. \A i \in Slots : dir[i] # f
          BY <2>3, <4>2 DEF Referenced
        <5> QED
          BY <1>0, <1>0a, <2>2, <5>1, Constants DEF Distinct, FilesOK
      <4> QED
        BY <4>1, <4>2
    <3> QED
      BY <1>0, <2>1, <3>1, <3>2 DEF FilesOK
  <2>5. SettingsOK' /\ SinksOK'
    BY <1>0, <2>1 DEF SettingsOK, SinksOK
  <2>6. ReloadOK'
    <3>1. clean' \in Nat
      BY <1>0, <1>0a, <1>5 DEF OpenFile, ReloadOK
    <3> QED
      BY <1>0, <2>1, <3>1 DEF ReloadOK
  <2>7. ControlOK' /\ pc'[s] = cont[s] /\ cont' = cont /\ \A u \in Sinks : u # s => pc'[u] = pc[u]
    BY <1>0, <1>0a, <2>1, GotoEffect
  <2>8. ControlOf(s)'
    <3>1. /\ pc'[s] \in {"check", "write"} /\ fd'[s] # None /\ ~dirty'[s]
          /\ logCount'[s] < MaxCount
      BY <1>0a, <2>1, <2>2, <2>3, <2>7, Constants
    <3>2. pc'[s] \notin Chain \cup {"open"} /\ pc'[s] # "ensure"
      BY <3>1 DEF Chain
    <3> QED
      BY <3>1, <3>2, Zenon DEF ControlOf
  <2>9. ControlInv'
    BY <1>0, <1>0a, <2>1, <2>2, <2>7, <2>8, ControlStep
  <2> QED
    BY <2>4, <2>5, <2>6, <2>7, <2>9 DEF TypeInv
<1>6. ASSUME NEW s \in Sinks, CheckBeforeWrite(s) PROVE TypeInv'
  <2>0. ControlOf(s) /\ pc[s] = "check"
    BY <1>0, <1>6 DEF ControlInv, CheckBeforeWrite
  <2>1. fd[s] # None /\ ~dirty[s] /\ UNCHANGED <<settings, dir, file, sinkVars, reload>>
    BY <1>6, <2>0 DEF CheckBeforeWrite, ControlOf
  <2>2. SettingsOK' /\ FilesOK' /\ SinksOK' /\ ReloadOK'
    BY <1>0, <2>1 DEF SettingsOK, FilesOK, Distinct, SinksOK, ReloadOK
  <2>3. "close" \in Labels /\ "write" \in Labels
    BY DEF Labels
  <2>4. /\ ControlOK'
        /\ \/ pc'[s] = "close"
           \/ pc'[s] = "write" /\ logCount[s] < MaxCount
        /\ \A u \in Sinks : u # s => pc'[u] = pc[u] /\ cont'[u] = cont[u]
    <3>1. CASE logCount[s] >= MaxCount
      BY <1>0, <1>0a, <1>6, <2>3, <3>1 DEF CheckBeforeWrite, ControlOK
    <3>2. CASE ~(logCount[s] >= MaxCount)
      <4>1. Goto(s, "write") /\ logCount[s] < MaxCount
        BY <1>0a, <1>6, <3>2, Constants DEF CheckBeforeWrite
      <4> QED
        BY <1>0, <2>3, <4>1, GotoEffect
    <3> QED
      BY <3>1, <3>2
  <2>5. ControlOf(s)'
    <3>1. /\ pc'[s] \notin Chain \cup {"open"} /\ pc'[s] # "ensure" /\ fd'[s] # None /\ ~dirty'[s]
          /\ (pc'[s] \in Chain \cup {"open", "write"} => logCount'[s] < MaxCount)
      BY <2>1, <2>4 DEF Chain
    <3> QED
      BY <3>1, Zenon DEF ControlOf
  <2>6. ControlInv'
    BY <1>0, <2>1, <2>4, <2>5, ControlStep
  <2> QED
    BY <2>2, <2>4, <2>6 DEF TypeInv
<1>7. ASSUME NEW s \in Sinks, Write(s) PROVE TypeInv'
  <2>0. ControlOf(s) /\ pc[s] = "write"
    BY <1>0, <1>7 DEF ControlInv, Write
  <2>1. /\ fd[s] # None /\ logCount[s] < MaxCount
        /\ dirty' = [dirty EXCEPT ![s] = TRUE]
        /\ sent' = [sent EXCEPT ![s] = sent[s] + 1]
        /\ logCount' = [logCount EXCEPT ![s] = logCount[s] + 1]
        /\ CallRotate(s, "flush") \/ Goto(s, "flush")
        /\ UNCHANGED <<settings, dir, file, fd, rotDone, reload>>
    BY <1>0a, <1>7, <2>0, Constants DEF Write, ControlOf, Chain
  <2>2. SettingsOK' /\ FilesOK' /\ ReloadOK'
    BY <1>0, <2>1 DEF SettingsOK, FilesOK, Distinct, ReloadOK
  <2>3. SinksOK'
    <3>1. logCount[s] + 1 \in 0..MaxCount /\ sent[s] + 1 \in Nat
      BY <1>0a, <2>1, Constants
    <3> QED
      BY <1>0a, <2>1, <3>1 DEF SinksOK
  <2>4. "flush" \in Labels
    BY DEF Labels
  <2>5. /\ ControlOK' /\ pc'[s] \in {"close", "flush"} /\ cont' = cont
        /\ \A u \in Sinks : u # s => pc'[u] = pc[u]
    <3>1. CASE CallRotate(s, "flush")
      BY <1>0, <3>1, CallRotateEffect
    <3>2. CASE Goto(s, "flush")
      BY <1>0, <2>4, <3>2, GotoEffect
    <3> QED
      BY <2>1, <3>1, <3>2
  <2>6. ControlOf(s)'
    <3>1. /\ pc'[s] \notin Chain \cup {"open"} /\ pc'[s] # "ensure" /\ fd'[s] # None
          /\ pc'[s] \notin Chain \cup {"open", "write"}
      BY <2>1, <2>5 DEF Chain
    <3> QED
      BY <2>5, <3>1, Zenon DEF ControlOf
  <2>7. ControlInv'
    BY <1>0, <1>0a, <2>1, <2>5, <2>6, ControlStep
  <2> QED
    BY <2>2, <2>3, <2>5, <2>7 DEF TypeInv
<1>8. ASSUME NEW s \in Sinks, Flush(s) PROVE TypeInv'
  <2>0. ControlOf(s) /\ pc[s] = "flush"
    BY <1>0, <1>8 DEF ControlInv, Flush
  <2>1. PICK t \in Sinks : /\ t = (IF fd[s] # None THEN s ELSE Other(s))
                           /\ file' = Flushed(t) /\ dirty' = [dirty EXCEPT ![t] = FALSE]
    BY <1>8, Sides DEF Flush
  <2>2. Goto(s, "idle") /\ UNCHANGED <<settings, dir, fd, logCount, rotDone, sent, reload>>
    BY <1>8 DEF Flush
  <2>3. file' \in [Files -> Lines]
    <3>1. dirty[t] => fd[t] # None
      BY <1>0 DEF ControlInv, ControlOf
    <3> QED
      BY <1>0, <2>1, <3>1, FlushedTyped
  <2>4. SettingsOK' /\ FilesOK' /\ ReloadOK'
    BY <1>0, <2>2, <2>3 DEF SettingsOK, FilesOK, Distinct, ReloadOK
  <2>5. SinksOK'
    BY <1>0a, <2>1, <2>2 DEF SinksOK
  <2>6. "idle" \in Labels
    BY DEF Labels
  <2>7. ControlOK' /\ pc'[s] = "idle" /\ cont' = cont /\ \A u \in Sinks : u # s => pc'[u] = pc[u]
    BY <1>0, <2>2, <2>6, GotoEffect
  <2>8. ControlOf(s)'
    <3>1. ~dirty'[s]
      <4>1. dirty[s] => t = s
        BY <2>0, <2>1 DEF ControlOf
      <4> QED
        BY <1>0a, <2>1, <4>1
    <3>2. /\ pc'[s] \notin Chain \cup {"open"} /\ pc'[s] # "ensure"
          /\ pc'[s] \notin Chain \cup {"open", "write"} /\ pc'[s] \notin {"check", "write"}
      BY <2>7 DEF Chain
    <3> QED
      BY <3>1, <3>2, Zenon DEF ControlOf
  <2>9. ControlInv'
    BY <1>0, <1>0a, <2>1, <2>2, <2>7, <2>8, ControlStep
  <2> QED
    BY <2>4, <2>5, <2>7, <2>9 DEF TypeInv
<1>9. ASSUME NEW s \in Sinks, Close(s) PROVE TypeInv'
  <2>1. /\ fd' = [fd EXCEPT ![s] = None] /\ dirty' = [dirty EXCEPT ![s] = FALSE]
        /\ logCount' = [logCount EXCEPT ![s] = 0] /\ Goto(s, "rmOldest")
        /\ UNCHANGED <<settings, dir, rotDone, sent, reload>>
    BY <1>9 DEF Close
  <2>2. file' = [f \in Files |-> IF Referenced(dir, fd', f) THEN Flushed(s)[f] ELSE <<>>]
    BY <1>9 DEF Close
  <2>3. FilesOK'
    <3>1. dirty[s] => fd[s] # None
      BY <1>0 DEF ControlInv, ControlOf
    <3>2. Flushed(s) \in [Files -> Lines] /\ <<>> \in Lines
      BY <1>0, <3>1, FlushedTyped DEF Lines
    <3>3. file' \in [Files -> Lines] /\ fd' \in [Sinks -> Files \cup {None}]
      BY <1>0a, <2>1, <2>2, <3>2
    <3> QED
      BY <1>0, <2>1, <3>3 DEF FilesOK, Distinct
  <2>4. SettingsOK' /\ ReloadOK'
    BY <1>0, <2>1 DEF SettingsOK, ReloadOK
  <2>5. SinksOK'
    BY <1>0a, <2>1, Constants DEF SinksOK
  <2>6. "rmOldest" \in Labels
    BY DEF Labels, Chain
  <2>7. ControlOK' /\ pc'[s] = "rmOldest" /\ cont' = cont /\ \A u \in Sinks : u # s => pc'[u] = pc[u]
    BY <1>0, <2>1, <2>6, GotoEffect
  <2>8. ControlOf(s)'
    <3>1. ~dirty'[s] /\ fd'[s] = None /\ logCount'[s] < MaxCount
      BY <1>0a, <2>1, Constants
    <3>2. pc'[s] # "ensure" /\ pc'[s] \notin {"check", "write"}
      BY <2>7
    <3> QED
      BY <3>1, <3>2, Zenon DEF ControlOf
  <2>9. ControlInv'
    BY <1>0, <1>0a, <2>1, <2>7, <2>8, ControlStep
  <2> QED
    BY <2>3, <2>4, <2>5, <2>7, <2>9 DEF TypeInv
<1>10. ASSUME NEW s \in Sinks, RemoveOldest(s) \/ SourceExists(s) \/ RemoveTarget(s) \/ Rename(s)
       PROVE  TypeInv'
  <2>0. ControlOf(s) /\ pc[s] \in Chain
    BY <1>0, <1>10 DEF ControlInv, RemoveOldest, SourceExists, RemoveTarget, Rename, Chain
  <2>1. UNCHANGED <<settings, sinkVars, reload>>
    BY <1>10 DEF RemoveOldest, SourceExists, RemoveTarget, Rename
  <2>2. FilesOK'
    <3>1. fd' = fd
      BY <2>1
    <3> QED
      BY <1>0, <1>10, <3>1, ChainFiles
  <2>3. SettingsOK' /\ SinksOK' /\ ReloadOK'
    BY <1>0, <2>1 DEF SettingsOK, SinksOK, ReloadOK
  <2>4. /\ ControlOK' /\ cont' = cont /\ pc'[s] \in Chain \cup {"ensure", "open", "flush"}
        /\ \A u \in Sinks : u # s => pc'[u] = pc[u]
    <3>1. CASE RemoveOldest(s)
      <4>1. "exists" \in Labels /\ MaxFiles - 1 \in 0..(MaxFiles - 1)
        BY Constants DEF Labels, Chain
      <4> QED
        BY <1>0, <1>0a, <3>1, <4>1 DEF RemoveOldest, ControlOK, Chain
    <3>2. "rmTarget" \in Labels /\ "rename" \in Labels /\ "exists" \in Chain /\ "rmTarget" \in Chain
          /\ "rename" \in Chain
      BY DEF Labels, Chain
    <3>3. CASE NextSource(s)
      BY <1>0, <1>0a, <3>2, <3>3, NextSourceEffect
    <3>4. CASE Goto(s, "rmTarget") \/ Goto(s, "rename")
      BY <1>0, <3>2, <3>4, GotoEffect
    <3> QED
      BY <1>10, <3>1, <3>3, <3>4 DEF SourceExists, RemoveTarget, Rename
  <2>5. ControlOf(s)'
    <3>1. fd'[s] = None /\ logCount'[s] < MaxCount
      BY <2>0, <2>1 DEF ControlOf
    <3>2. pc'[s] \notin {"check", "write"}
      BY <2>4 DEF Chain
    <3>3. ~dirty'[s]
      BY <2>0, <2>1, <3>1 DEF ControlOf
    <3> QED
      BY <3>1, <3>2, <3>3, Zenon DEF ControlOf
  <2>6. ControlInv'
    BY <1>0, <2>1, <2>4, <2>5, ControlStep
  <2> QED
    BY <2>2, <2>3, <2>4, <2>6 DEF TypeInv
<1>11. CASE UNCHANGED vars
  <2>1. UNCHANGED <<settings, dir, file, sinkVars, control, reload>>
    BY <1>11 DEF vars
  <2>2. SettingsOK' /\ FilesOK' /\ SinksOK' /\ ControlOK' /\ ReloadOK'
    BY <1>0, <2>1 DEF SettingsOK, FilesOK, Distinct, SinksOK, ControlOK, ReloadOK
  <2>3. ControlInv'
    BY <1>0, <2>1 DEF ControlInv, ControlOf
  <2> QED
    BY <2>2, <2>3 DEF TypeInv
<1> QED
  BY <1>1, <1>2, <1>3, <1>4, <1>5, <1>6, <1>7, <1>8, <1>9, <1>10, <1>11 DEF Next, SinkIt

\* Types of the variables; no two names refer to one file, a file never opens without one to
\* give it, and nothing stays in the buffer of a sink that has no file open.
THEOREM TypeCorrect == Spec => []TypeOK
<1>1. TypeInv => TypeOK
  <2> SUFFICES ASSUME TypeInv PROVE TypeOK
    OBVIOUS
  <2>1. \A s \in Sinks : dirty[s] => fd[s] # None
    BY DEF TypeInv, ControlInv, ControlOf
  <2>2. pc \in [Sinks -> {"idle", "ensure", "open", "check", "write", "flush",
                          "close", "rmOldest", "exists", "rmTarget", "rename"}]
    BY DEF TypeInv, ControlOK, Labels, Chain
  <2>3. \A i, j \in Slots : i # j /\ Exists(i) => dir[i] # dir[j]
    BY DEF TypeInv, FilesOK, Distinct, Exists
  <2> QED
    BY <2>1, <2>2, <2>3 DEF TypeInv, SettingsOK, FilesOK, SinksOK, ControlOK, ReloadOK, TypeOK, Lines
<1> QED
  BY <1>1, TypeInit, TypeStep, PTL DEF Spec

-----------------------------------------------------------------------------
(* The messages of a file.                                                 *)

\* MessagesOf for any contents.
Msgs(fl, s, f) == {fl[f][k][2] : k \in {j \in 1..Len(fl[f]) : fl[f][j][1] = s}}

\* The messages of a file are numbers, and an empty file has none.
LEMMA MsgsOfLines ==
    ASSUME NEW fl \in [Files -> Lines], NEW s \in Sinks, NEW f \in Files
    PROVE  /\ fl[f] = <<>> => Msgs(fl, s, f) = {}
           /\ Msgs(fl, s, f) \subseteq Nat
           /\ \A k \in 1..Len(fl[f]) : fl[f][k] \in Sinks \X Nat /\ fl[f][k][2] \in Nat
<1>1. \A k \in 1..Len(fl[f]) : fl[f][k] \in Sinks \X Nat
  BY DEF Lines
<1>2. \A k \in 1..Len(fl[f]) : fl[f][k][2] \in Nat
  BY <1>1
<1>3. fl[f] = <<>> => Len(fl[f]) = 0
  OBVIOUS
<1> QED
  BY <1>1, <1>2, <1>3 DEF Msgs

\* Contents g are contents fl with a line appended to f.
Appended(fl, g, f, t, n) ==
    g[f] = Append(fl[f], <<t, n>>) /\ \A e \in Files : e # f => g[e] = fl[e]
MsgsAppended(fl, g, f, t, n) ==
    /\ \A s \in Sinks, e \in Files :
         \/ s = t /\ e = f /\ Msgs(g, s, e) = Msgs(fl, s, e) \cup {n}
         \/ ~(s = t /\ e = f) /\ Msgs(g, s, e) = Msgs(fl, s, e)
    /\ Len(g[f]) = Len(fl[f]) + 1 /\ Len(fl[f]) \in Nat
    /\ g[f][Len(fl[f]) + 1] = <<t, n>>
    /\ \A k \in 1..Len(fl[f]) : g[f][k] = fl[f][k]

\* A line that is appended to a file adds one message of one sink.
LEMMA MsgsAppend ==
    ASSUME NEW fl \in [Files -> Lines], NEW g \in [Files -> Lines], NEW f \in Files,
           NEW t \in Sinks, NEW n \in Nat, Appended(fl, g, f, t, n)
    PROVE  MsgsAppended(fl, g, f, t, n)
<1> USE DEF Appended
<1>1. fl[f] \in Seq(Sinks \X Nat) /\ <<t, n>> \in Sinks \X Nat
  BY DEF Lines
<1>2. /\ Len(g[f]) = Len(fl[f]) + 1 /\ Len(fl[f]) \in Nat
      /\ g[f][Len(fl[f]) + 1] = <<t, n>>
      /\ \A k \in 1..Len(fl[f]) : g[f][k] = fl[f][k]
  BY <1>1
<1>3. <<t, n>>[1] = t /\ <<t, n>>[2] = n
  OBVIOUS
<1>4. ASSUME NEW s \in Sinks, NEW e \in Files, e # f PROVE Msgs(g, s, e) = Msgs(fl, s, e)
  BY <1>4 DEF Msgs
<1>5. \A k \in 1..Len(g[f]) : k \in 1..Len(fl[f]) \/ k = Len(fl[f]) + 1
  BY <1>2
<1>6. 1..Len(fl[f]) \subseteq 1..Len(g[f]) /\ Len(fl[f]) + 1 \in 1..Len(g[f])
  BY <1>2
<1>7. ASSUME NEW s \in Sinks, s # t PROVE Msgs(g, s, f) = Msgs(fl, s, f)
  BY <1>2, <1>3, <1>5, <1>6, <1>7 DEF Msgs
<1>8. Msgs(g, t, f) = Msgs(fl, t, f) \cup {n}
  BY <1>2, <1>3, <1>5, <1>6 DEF Msgs
<1> QED
  BY <1>2, <1>4, <1>7, <1>8 DEF MsgsAppended

-----------------------------------------------------------------------------
(* The order of the messages of each sink.                                 *)

\* What a file holds is not newer than what its sink has written, and what waits in the
\* buffer is newer than all of it.  Files under newer names than the one a sink writes to
\* have none of its messages: that is why a message may follow the file it belongs to
\* wherever the other sink's renames take it.
Written(fl, sn, dt) ==
    \A s \in Sinks, f \in Files :
        \A n \in Msgs(fl, s, f) : n <= sn[s] /\ (dt[s] => n < sn[s])
Writer(dr, fl, hd) ==
    \A s \in Sinks, i, k \in Slots :
        i < k /\ dr[i] # None /\ dr[k] # None /\ dr[k] = hd[s] => Msgs(fl, s, dr[i]) = {}
ChainOrder(dr, fl) ==
    \A s \in Sinks, i, j \in Slots : i < j /\ dr[i] # None /\ dr[j] # None =>
        \A a \in Msgs(fl, s, dr[i]), b \in Msgs(fl, s, dr[j]) : b < a
FileOrder(fl) ==
    \A s \in Sinks, f \in Files : \A j, k \in 1..Len(fl[f]) :
        j < k /\ fl[f][j][1] = s /\ fl[f][k][1] = s => fl[f][j][2] < fl[f][k][2]
Ordered(dr, fl, hd, sn, dt) ==
    Written(fl, sn, dt) /\ Writer(dr, fl, hd) /\ ChainOrder(dr, fl) /\ FileOrder(fl)

\* A file nothing refers to is empty.
FreshInv == \A f \in Files : ~Referenced(dir, fd, f) => file[f] = <<>>

OrderInv == Ordered(dir, file, fd, sent, dirty) /\ FreshInv

\* The line that was buffered is appended to the file that is open.
LEMMA AppendOrdered ==
    ASSUME NEW dr \in [Slots -> Files \cup {None}], Distinct(dr),
           NEW fl \in [Files -> Lines], NEW g \in [Files -> Lines],
           NEW hd \in [Sinks -> Files \cup {None}], NEW sn \in [Sinks -> Nat],
           NEW dt, NEW dt2, NEW t \in Sinks,
           Ordered(dr, fl, hd, sn, dt), dt[t], ~dt2[t], hd[t] \in Files,
           \A s \in Sinks : dt2[s] => dt[s],
           Appended(fl, g, hd[t], t, sn[t])
    PROVE  Ordered(dr, g, hd, sn, dt2)
<1> DEFINE f == hd[t]
<1>1. /\ \A s \in Sinks, e \in Files :
           \/ s = t /\ e = f /\ Msgs(g, s, e) = Msgs(fl, s, e) \cup {sn[t]}
           \/ ~(s = t /\ e = f) /\ Msgs(g, s, e) = Msgs(fl, s, e)
      /\ Len(g[f]) = Len(fl[f]) + 1 /\ Len(fl[f]) \in Nat
      /\ g[f][Len(fl[f]) + 1] = <<t, sn[t]>>
      /\ \A k \in 1..Len(fl[f]) : g[f][k] = fl[f][k]
  <2>1. f \in Files /\ sn[t] \in Nat /\ Appended(fl, g, f, t, sn[t])
    BY DEF Appended
  <2> HIDE DEF f
  <2>2. MsgsAppended(fl, g, f, t, sn[t])
    BY <2>1, MsgsAppend
  <2> QED
    BY <2>2 DEF MsgsAppended
<1>2. Written(fl, sn, dt) /\ Writer(dr, fl, hd) /\ ChainOrder(dr, fl) /\ FileOrder(fl)
  BY DEF Ordered
<1>3. \A n \in Msgs(fl, t, f) : n < sn[t]
  BY <1>2 DEF Written
<1>4. sn[t] \in Nat /\ \A s \in Sinks, e \in Files : Msgs(fl, s, e) \subseteq Nat
  BY MsgsOfLines
<1> HIDE DEF f
<1>5. Written(g, sn, dt2)
  BY <1>1, <1>2, <1>4 DEF Written
<1>6. Writer(dr, g, hd)
  <2> SUFFICES ASSUME NEW s \in Sinks, NEW i \in Slots, NEW k \in Slots,
                      i < k, dr[i] # None, dr[k] # None, dr[k] = hd[s]
               PROVE  Msgs(g, s, dr[i]) = {}
    BY DEF Writer
  <2>1. Msgs(fl, s, dr[i]) = {} /\ dr[i] \in Files
    BY <1>2 DEF Writer
  <2>2. ~(s = t /\ dr[i] = f)
    BY Constants DEF Distinct, f
  <2> QED
    BY <1>1, <2>1, <2>2
<1>7. ChainOrder(dr, g)
  <2> SUFFICES ASSUME NEW s \in Sinks, NEW i \in Slots, NEW j \in Slots,
                      i < j, dr[i] # None, dr[j] # None,
                      NEW a \in Msgs(g, s, dr[i]), NEW b \in Msgs(g, s, dr[j])
               PROVE  b < a
    BY DEF ChainOrder
  <2>1. dr[i] \in Files /\ dr[j] \in Files /\ dr[i] # dr[j]
    BY Constants DEF Distinct
  <2>2. CASE s = t /\ dr[j] = f
    <3>1. Msgs(fl, s, dr[i]) = {}
      BY <1>2, <2>2 DEF Writer, f
    <3> QED
      BY <1>1, <2>1, <2>2, <3>1
  <2>3. CASE s = t /\ dr[i] = f
    <3>1. b \in Msgs(fl, s, dr[j]) /\ (a \in Msgs(fl, s, dr[i]) \/ a = sn[t])
      BY <1>1, <2>1, <2>3
    <3>2. b < sn[t]
      BY <1>2, <2>1, <2>3, <3>1 DEF Written
    <3> QED
      BY <1>2, <3>1, <3>2 DEF ChainOrder
  <2>4. CASE ~(s = t /\ dr[i] = f) /\ ~(s = t /\ dr[j] = f)
    BY <1>1, <1>2, <2>1, <2>4 DEF ChainOrder
  <2> QED
    BY <2>2, <2>3, <2>4
<1>8. FileOrder(g)
  <2> SUFFICES ASSUME NEW s \in Sinks, NEW e \in Files, NEW j \in 1..Len(g[e]), NEW k \in 1..Len(g[e]),
                      j < k, g[e][j][1] = s, g[e][k][1] = s
               PROVE  g[e][j][2] < g[e][k][2]
    BY DEF FileOrder
  <2>1. CASE e # f
    <3>1. g[e] = fl[e]
      BY <2>1 DEF f, Appended
    <3> QED
      BY <1>2, <3>1 DEF FileOrder
  <2>2. CASE e = f
    <3>1. j \in 1..Len(fl[f]) /\ (k \in 1..Len(fl[f]) \/ k = Len(fl[f]) + 1)
      BY <1>1, <2>2
    <3>2. CASE k \in 1..Len(fl[f])
      <4>1. g[f][j] = fl[f][j] /\ g[f][k] = fl[f][k]
        BY <1>1, <3>1, <3>2
      <4> QED
        BY <1>2, <2>2, <3>1, <3>2, <4>1 DEF FileOrder
    <3>3. CASE k = Len(fl[f]) + 1
      <4>1. g[f][j] = fl[f][j] /\ g[f][k] = <<t, sn[t]>>
        BY <1>1, <3>1, <3>3
      <4>2. s = t /\ g[f][k][2] = sn[t]
        BY <2>2, <4>1
      <4>3. fl[f][j][2] \in Msgs(fl, t, f)
        BY <2>2, <3>1, <4>1, <4>2 DEF Msgs
      <4> QED
        BY <1>3, <2>2, <4>1, <4>2, <4>3
    <3> QED
      BY <3>1, <3>2, <3>3
  <2> QED
    BY <2>1, <2>2
<1> QED
  BY <1>5, <1>6, <1>7, <1>8 DEF Ordered

\* Names are removed or moved, files and handles dropped.
LEMMA ShrinkOrdered ==
    ASSUME NEW dr \in [Slots -> Files \cup {None}], NEW dr2 \in [Slots -> Files \cup {None}],
           DirShrink(dr2, dr) \/ DirMove(dr2, dr),
           NEW fl \in [Files -> Lines], NEW g \in [Files -> Lines], Kept(g, fl),
           NEW hd \in [Sinks -> Files \cup {None}], NEW hd2 \in [Sinks -> Files \cup {None}],
           \A s \in Sinks : hd2[s] \in {hd[s], None},
           NEW sn \in [Sinks -> Nat], NEW dt, NEW dt2, \A s \in Sinks : dt2[s] => dt[s],
           Ordered(dr, fl, hd, sn, dt)
    PROVE  Ordered(dr2, g, hd2, sn, dt2)
<1>1. Written(fl, sn, dt) /\ Writer(dr, fl, hd) /\ ChainOrder(dr, fl) /\ FileOrder(fl)
  BY DEF Ordered
<1>2. \A s \in Sinks, f \in Files : Msgs(g, s, f) \in {Msgs(fl, s, f), {}}
  <2> SUFFICES ASSUME NEW s \in Sinks, NEW f \in Files PROVE Msgs(g, s, f) \in {Msgs(fl, s, f), {}}
    OBVIOUS
  <2>1. CASE g[f] = fl[f]
    BY <2>1 DEF Msgs
  <2>2. CASE g[f] = <<>>
    BY <2>2, MsgsOfLines
  <2> QED
    BY <2>1, <2>2 DEF Kept
<1>3. PICK m \in [Slots -> Slots] :
        /\ \A i \in Slots : dr2[i] # None => dr2[i] = dr[m[i]]
        /\ \A i, j \in Slots : i < j /\ dr2[i] # None /\ dr2[j] # None => m[i] < m[j]
  <2>1. CASE DirShrink(dr2, dr)
    <3>1. [i \in Slots |-> i] \in [Slots -> Slots]
      OBVIOUS
    <3> QED
      BY <2>1, <3>1 DEF DirShrink
  <2>2. CASE DirMove(dr2, dr)
    <3>1. PICK k \in Slots : /\ k + 1 \in Slots /\ dr2[k + 1] = dr[k] /\ dr2[k] = None
                             /\ \A i \in Slots : i # k /\ i # k + 1 => dr2[i] = dr[i]
      BY <2>2 DEF DirMove
    <3> DEFINE m == [i \in Slots |-> IF i = k + 1 THEN k ELSE i]
    <3>2. m \in [Slots -> Slots]
      OBVIOUS
    <3>3. \A i \in Slots : m[i] = IF i = k + 1 THEN k ELSE i
      OBVIOUS
    <3>4. \A i \in Slots : dr2[i] # None => dr2[i] = dr[m[i]]
      BY <3>1, <3>3
    <3>5. \A i, j \in Slots : i < j /\ dr2[i] # None /\ dr2[j] # None => m[i] < m[j]
      BY <3>1, <3>3, Constants
    <3> QED
      BY <3>2, <3>4, <3>5
  <2> QED
    BY <2>1, <2>2
<1>4. Written(g, sn, dt2)
  BY <1>1, <1>2 DEF Written
<1>5. Writer(dr2, g, hd2)
  <2> SUFFICES ASSUME NEW s \in Sinks, NEW i \in Slots, NEW k \in Slots,
                      i < k, dr2[i] # None, dr2[k] # None, dr2[k] = hd2[s]
               PROVE  Msgs(g, s, dr2[i]) = {}
    BY DEF Writer
  <2>1. /\ m[i] \in Slots /\ m[k] \in Slots /\ m[i] < m[k] /\ dr2[i] = dr[m[i]] /\ dr2[k] = dr[m[k]]
        /\ dr[m[k]] = hd[s] /\ dr2[i] \in Files
    BY <1>3
  <2>2. Msgs(fl, s, dr2[i]) = {}
    BY <1>1, <2>1 DEF Writer
  <2> QED
    BY <1>2, <2>1, <2>2
<1>6. ChainOrder(dr2, g)
  <2> SUFFICES ASSUME NEW s \in Sinks, NEW i \in Slots, NEW j \in Slots,
                      i < j, dr2[i] # None, dr2[j] # None,
                      NEW a \in Msgs(g, s, dr2[i]), NEW b \in Msgs(g, s, dr2[j])
               PROVE  b < a
    BY DEF ChainOrder
  <2>1. /\ m[i] \in Slots /\ m[j] \in Slots /\ m[i] < m[j] /\ dr2[i] = dr[m[i]] /\ dr2[j] = dr[m[j]]
        /\ dr2[i] \in Files /\ dr2[j] \in Files
    BY <1>3
  <2>2. a \in Msgs(fl, s, dr[m[i]]) /\ b \in Msgs(fl, s, dr[m[j]])
    BY <1>2, <2>1
  <2> QED
    BY <1>1, <2>1, <2>2 DEF ChainOrder
<1>7. FileOrder(g)
  <2> SUFFICES ASSUME NEW s \in Sinks, NEW f \in Files, NEW j \in 1..Len(g[f]), NEW k \in 1..Len(g[f]),
                      j < k, g[f][j][1] = s, g[f][k][1] = s
               PROVE  g[f][j][2] < g[f][k][2]
    BY DEF FileOrder
  <2>1. CASE g[f] = fl[f]
    BY <1>1, <2>1 DEF FileOrder
  <2>2. CASE g[f] = <<>>
    <3>1. Len(g[f]) = 0
      BY <2>2
    <3> QED
      BY <3>1
  <2> QED
    BY <2>1, <2>2 DEF Kept
<1> QED
  BY <1>4, <1>5, <1>6, <1>7 DEF Ordered

\* open() gives a sink the file of stem.log, or a fresh one that is empty.
OpensAs(dr, dr2, fl, hd, hd2, t, f) ==
    /\ dr[0] = f \/ (dr[0] = None /\ fl[f] = <<>> /\ \A i \in Slots : dr[i] # f)
    /\ dr2[0] = f /\ \A i \in Slots : i # 0 => dr2[i] = dr[i]
    /\ hd2[t] = f /\ \A s \in Sinks : s # t => hd2[s] = hd[s]

\* Opening a file keeps the order: it is the newest one, or a new one.
LEMMA OpenOrdered ==
    ASSUME NEW dr \in [Slots -> Files \cup {None}], Distinct(dr), NEW fl \in [Files -> Lines],
           NEW hd, NEW sn, NEW dt, NEW t \in Sinks, NEW f \in Files, NEW dr2, NEW hd2,
           OpensAs(dr, dr2, fl, hd, hd2, t, f), Ordered(dr, fl, hd, sn, dt)
    PROVE  Ordered(dr2, fl, hd2, sn, dt)
<1> USE DEF OpensAs
<1>1. Written(fl, sn, dt) /\ Writer(dr, fl, hd) /\ ChainOrder(dr, fl) /\ FileOrder(fl)
  BY DEF Ordered
<1>2. dr[0] # f => \A s \in Sinks : Msgs(fl, s, f) = {}
  BY MsgsOfLines
<1>3. \A i \in Slots : i # 0 => dr2[i] # f
  BY Constants DEF Distinct
<1>4. \A i \in Slots, s \in Sinks : dr2[i] = dr[i] \/ (i = 0 /\ Msgs(fl, s, dr2[i]) = {})
  BY <1>2
<1>5. Writer(dr2, fl, hd2)
  <2> SUFFICES ASSUME NEW s \in Sinks, NEW i \in Slots, NEW k \in Slots,
                      i < k, dr2[i] # None, dr2[k] # None, dr2[k] = hd2[s]
               PROVE  Msgs(fl, s, dr2[i]) = {}
    BY DEF Writer
  <2>1. k # 0 /\ dr2[k] = dr[k] /\ s # t
    BY <1>3, Constants
  <2> QED
    BY <1>1, <1>4, <2>1 DEF Writer
<1>6. ChainOrder(dr2, fl)
  <2> SUFFICES ASSUME NEW s \in Sinks, NEW i \in Slots, NEW j \in Slots,
                      i < j, dr2[i] # None, dr2[j] # None,
                      NEW a \in Msgs(fl, s, dr2[i]), NEW b \in Msgs(fl, s, dr2[j])
               PROVE  b < a
    BY DEF ChainOrder
  <2>1. dr2[i] = dr[i] /\ dr2[j] = dr[j]
    BY <1>4
  <2> QED
    BY <1>1, <2>1 DEF ChainOrder
<1> QED
  BY <1>1, <1>5, <1>6 DEF Ordered

\* Nothing is stored at first.
LEMMA OrderInit == Init => OrderInv
<1> SUFFICES ASSUME Init PROVE OrderInv
  OBVIOUS
<1>1. /\ \A f \in Files : file[f] = <<>>
      /\ \A i \in Slots : dir[i] = None
  BY DEF Init
<1>2. \A s \in Sinks, f \in Files : Msgs(file, s, f) = {}
  <2>1. file \in [Files -> Lines]
    BY TypeInit DEF TypeInv, FilesOK
  <2> QED
    BY <1>1, <2>1, MsgsOfLines
<1>3. Written(file, sent, dirty) /\ Writer(dir, file, fd) /\ ChainOrder(dir, file)
  BY <1>1, <1>2 DEF Written, Writer, ChainOrder
<1>4. FileOrder(file)
  <2>1. \A f \in Files : Len(file[f]) = 0
    BY <1>1
  <2> QED
    BY <2>1 DEF FileOrder
<1> QED
  BY <1>1, <1>3, <1>4 DEF OrderInv, Ordered, FreshInv

\* What a flush or close of sink t writes is in order.
LEMMA FlushedOrdered ==
    ASSUME TypeInv, Ordered(dir, file, fd, sent, dirty), NEW t \in Sinks, NEW dt2, ~dt2[t],
           \A s \in Sinks : dt2[s] => dirty[s]
    PROVE  /\ Flushed(t) \in [Files -> Lines]
           /\ Ordered(dir, Flushed(t), fd, sent, dt2)
           /\ \A f \in Files : Flushed(t)[f] = file[f] \/ f = fd[t]
<1>0. /\ FilesOK /\ SinksOK /\ (dirty[t] => fd[t] # None)
      /\ dir \in [Slots -> Files \cup {None}] /\ Distinct(dir)
      /\ file \in [Files -> Lines] /\ fd \in [Sinks -> Files \cup {None}] /\ sent \in [Sinks -> Nat]
  BY DEF TypeInv, ControlInv, ControlOf, FilesOK, SinksOK
<1>1. /\ Flushed(t) \in [Files -> Lines]
      /\ dirty[t] => /\ fd[t] \in Files
                     /\ Flushed(t)[fd[t]] = Append(file[fd[t]], <<t, sent[t]>>)
                     /\ \A f \in Files : f # fd[t] => Flushed(t)[f] = file[f]
      /\ ~dirty[t] => Flushed(t) = file
  BY <1>0, FlushedTyped
<1>2. CASE dirty[t]
  <2>1. Appended(file, Flushed(t), fd[t], t, sent[t]) /\ fd[t] \in Files
    BY <1>1, <1>2 DEF Appended
  <2>2. Ordered(dir, Flushed(t), fd, sent, dt2)
    BY <1>0, <1>1, <1>2, <2>1, AppendOrdered
  <2> QED
    BY <1>1, <1>2, <2>2
<1>3. CASE ~dirty[t]
  <2>1. Written(file, sent, dt2)
    BY DEF Ordered, Written
  <2> QED
    BY <1>1, <1>3, <2>1 DEF Ordered
<1> QED
  BY <1>2, <1>3

\* Every step of either sink keeps OrderInv.
LEMMA OrderStep == TypeInv /\ TypeInv' /\ OrderInv /\ [Next]_vars => OrderInv'
<1> SUFFICES ASSUME TypeInv, TypeInv', OrderInv, [Next]_vars PROVE OrderInv'
  OBVIOUS
<1> USE DEF settings, sinkVars, control, reload
<1>0. /\ FilesOK /\ ControlOK /\ Ordered(dir, file, fd, sent, dirty) /\ FreshInv
      /\ dir \in [Slots -> Files \cup {None}] /\ dir' \in [Slots -> Files \cup {None}]
      /\ Distinct(dir) /\ file \in [Files -> Lines] /\ file' \in [Files -> Lines]
      /\ fd \in [Sinks -> Files \cup {None}] /\ fd' \in [Sinks -> Files \cup {None}]
      /\ sent \in [Sinks -> Nat] /\ dirty \in [Sinks -> BOOLEAN]
  BY DEF TypeInv, FilesOK, SinksOK, OrderInv
<1> SUFFICES Ordered(dir', file', fd', sent', dirty') /\ FreshInv'
  BY DEF OrderInv, Ordered, Written, Writer, ChainOrder, FileOrder, Msgs
<1>1. CASE UNCHANGED <<dir, file, fd, sent, dirty>>
  BY <1>0, <1>1 DEF FreshInv, Referenced
<1>2. CASE Retire
  <2>1. /\ fd' = [fd EXCEPT !["old"] = None] /\ UNCHANGED <<dir, dirty, sent>>
        /\ \A f \in Files : file'[f] = IF Referenced(dir, fd', f) THEN file[f] ELSE <<>>
    BY <1>2 DEF Retire
  <2>2. /\ DirShrink(dir', dir) /\ Kept(file', file) /\ \A s \in Sinks : fd'[s] \in {fd[s], None}
        /\ \A s \in Sinks : dirty'[s] => dirty[s]
    BY <1>0, <2>1 DEF DirShrink, Kept
  <2>3. Ordered(dir', file', fd', sent, dirty')
    BY <1>0, <2>2, ShrinkOrdered
  <2>4. FreshInv'
    BY <2>1 DEF FreshInv, Referenced
  <2> QED
    BY <2>1, <2>3, <2>4
<1>3. ASSUME NEW s \in Sinks, OpenFile(s) PROVE Ordered(dir', file', fd', sent', dirty') /\ FreshInv'
  <2>1. fd[s] = None
    BY <1>3 DEF TypeInv, ControlInv, ControlOf, OpenFile
  <2>2. PICK f : /\ f = (IF Exists(0) THEN dir[0] ELSE FreshFile)
                 /\ dir' = [dir EXCEPT ![0] = f] /\ fd' = [fd EXCEPT ![s] = f]
    BY <1>3 DEF OpenFile
  <2>3. UNCHANGED <<file, sent, dirty>>
    BY <1>3 DEF OpenFile
  <2>4. f \in Files /\ (~Exists(0) => ~Referenced(dir, fd, f))
    BY <1>0, <2>1, <2>2, FreshFileUnused, Constants DEF Exists
  <2>5. dir[0] = f \/ (dir[0] = None /\ file[f] = <<>> /\ \A i \in Slots : dir[i] # f)
    BY <1>0, <2>2, <2>4 DEF Exists, FreshInv, Referenced
  <2>6. /\ dir'[0] = f /\ \A i \in Slots : i # 0 => dir'[i] = dir[i]
        /\ fd'[s] = f /\ \A u \in Sinks : u # s => fd'[u] = fd[u]
    BY <1>0, <2>2, Constants
  <2>7. Ordered(dir', file, fd', sent, dirty)
    <3>1. OpensAs(dir, dir', file, fd, fd', s, f)
      BY <2>5, <2>6 DEF OpensAs
    <3> QED
      BY <1>0, <2>4, <3>1, OpenOrdered
  <2>8. FreshInv'
    <3> SUFFICES ASSUME NEW e \in Files, ~Referenced(dir', fd', e) PROVE file[e] = <<>>
      BY <2>3 DEF FreshInv, Referenced
    <3>1. e # f /\ (\A i \in Slots : dir'[i] # e) /\ (\A u \in Sinks : fd'[u] # e)
      BY <2>6 DEF Referenced
    <3>2. (\A i \in Slots : dir[i] # e) /\ (\A u \in Sinks : fd[u] # e)
      BY <2>1, <2>5, <2>6, <3>1, Constants
    <3> QED
      BY <1>0, <3>2 DEF FreshInv, Referenced
  <2> QED
    BY <2>3, <2>7, <2>8
<1>4. ASSUME NEW s \in Sinks, Write(s) PROVE Ordered(dir', file', fd', sent', dirty') /\ FreshInv'
  <2>1. sent' = [sent EXCEPT ![s] = sent[s] + 1] /\ UNCHANGED <<dir, file, fd>>
    BY <1>0, <1>4 DEF Write
  <2>2. \A u \in Sinks : u # s => dirty'[u] = dirty[u] /\ sent'[u] = sent[u]
    BY <1>0, <1>4 DEF Write
  <2>3. sent'[s] = sent[s] + 1
    BY <1>0, <2>1
  <2>4. Written(file, sent', dirty')
    <3> SUFFICES ASSUME NEW u \in Sinks, NEW f \in Files, NEW n \in Msgs(file, u, f)
                 PROVE  n <= sent'[u] /\ (dirty'[u] => n < sent'[u])
      BY DEF Written
    <3>1. n <= sent[u] /\ (dirty[u] => n < sent[u])
      BY <1>0 DEF Ordered, Written
    <3>2. n \in Nat /\ sent[u] \in Nat
      BY <1>0, MsgsOfLines
    <3> QED
      BY <2>2, <2>3, <3>1, <3>2
  <2> QED
    BY <1>0, <2>1, <2>4 DEF Ordered, FreshInv, Referenced
<1>5. ASSUME NEW s \in Sinks, Flush(s) PROVE Ordered(dir', file', fd', sent', dirty') /\ FreshInv'
  <2>1. PICK t \in Sinks : file' = Flushed(t) /\ dirty' = [dirty EXCEPT ![t] = FALSE]
    BY <1>5, Sides DEF Flush
  <2>2. UNCHANGED <<dir, fd, sent>>
    BY <1>5 DEF Flush
  <2>3. ~dirty'[t] /\ \A u \in Sinks : dirty'[u] => dirty[u]
    BY <1>0, <2>1
  <2>4. /\ Ordered(dir, Flushed(t), fd, sent, dirty')
        /\ \A f \in Files : Flushed(t)[f] = file[f] \/ f = fd[t]
    BY <1>0, <2>3, FlushedOrdered
  <2>5. FreshInv'
    BY <1>0, <2>1, <2>2, <2>4 DEF FreshInv, Referenced
  <2> QED
    BY <2>1, <2>2, <2>4, <2>5
<1>6. ASSUME NEW s \in Sinks, Close(s) PROVE Ordered(dir', file', fd', sent', dirty') /\ FreshInv'
  <2>1. /\ fd' = [fd EXCEPT ![s] = None] /\ dirty' = [dirty EXCEPT ![s] = FALSE]
        /\ UNCHANGED <<dir, sent>>
        /\ \A f \in Files : file'[f] = IF Referenced(dir, fd', f) THEN Flushed(s)[f] ELSE <<>>
    BY <1>6 DEF Close
  <2>2. ~dirty'[s] /\ \A u \in Sinks : dirty'[u] => dirty[u]
    BY <1>0, <2>1
  <2>3. Flushed(s) \in [Files -> Lines] /\ Ordered(dir, Flushed(s), fd, sent, dirty')
    BY <1>0, <2>2, FlushedOrdered
  <2>4. /\ DirShrink(dir', dir) /\ Kept(file', Flushed(s))
        /\ \A u \in Sinks : fd'[u] \in {fd[u], None}
    BY <1>0, <2>1 DEF DirShrink, Kept
  <2>5. Ordered(dir', file', fd', sent, dirty')
    BY <1>0, <2>3, <2>4, ShrinkOrdered
  <2>6. FreshInv'
    BY <2>1 DEF FreshInv, Referenced
  <2> QED
    BY <2>1, <2>5, <2>6
<1>7. ASSUME NEW s \in Sinks, RemoveOldest(s) \/ SourceExists(s) \/ RemoveTarget(s) \/ Rename(s)
      PROVE  Ordered(dir', file', fd', sent', dirty') /\ FreshInv'
  <2>1. UNCHANGED <<fd, sent, dirty>>
    BY <1>7 DEF RemoveOldest, SourceExists, RemoveTarget, Rename
  <2>2. fd' = fd
    BY <2>1
  <2>3. /\ Kept(file', file) /\ (DirShrink(dir', dir) \/ DirMove(dir', dir))
        /\ (UNCHANGED <<dir, file>> \/ Swept)
    BY <1>0, <1>7, <2>2, ChainFiles
  <2>4. \A u \in Sinks : fd'[u] \in {fd[u], None} /\ (dirty'[u] => dirty[u])
    BY <2>1
  <2>5. Ordered(dir', file', fd', sent, dirty')
    BY <1>0, <2>3, <2>4, ShrinkOrdered
  <2>6. FreshInv'
    BY <1>0, <2>2, <2>3 DEF FreshInv, Referenced, Swept
  <2> QED
    BY <2>1, <2>5, <2>6
<1>8. ASSUME NEW s \in Sinks, Log(s) \/ EnsureOpened(s) \/ CheckBeforeWrite(s)
      PROVE  UNCHANGED <<dir, file, fd, sent, dirty>>
  BY <1>8 DEF Log, EnsureOpened, CheckBeforeWrite
<1>9. Post \/ Reload \/ UNCHANGED vars => UNCHANGED <<dir, file, fd, sent, dirty>>
  BY DEF Post, Reload, vars
<1> QED
  BY <1>1, <1>2, <1>3, <1>4, <1>5, <1>6, <1>7, <1>8, <1>9 DEF Next, SinkIt

\* However the two rotations interleave, on both platforms, the chain of files and each file
\* show the messages of a sink in the order it wrote them, none twice.
THEOREM SinksAlwaysOrdered == Spec => []SinkOrder
<1>1. TypeInv /\ OrderInv => SinkOrder
  BY DEF OrderInv, Ordered, ChainOrder, FileOrder, Msgs, SinkOrder, MessagesOf, Exists
<1> QED
  BY <1>1, TypeInit, TypeStep, OrderInit, OrderStep, PTL DEF Spec

-----------------------------------------------------------------------------
(* The number of lines.                                                    *)

\* Every line is the line of one message of one sink.
Count(fl, s, f) == Cardinality(Msgs(fl, s, f))
Counted(fl) ==
    \A f \in Files :
        /\ \A s \in Sinks : IsFiniteSet(Msgs(fl, s, f)) /\ Count(fl, s, f) \in Nat
        /\ Len(fl[f]) = Count(fl, "old", f) + Count(fl, "new", f)

\* An empty file has no messages to count.
LEMMA EmptyCounted ==
    ASSUME NEW fl \in [Files -> Lines], NEW f \in Files, fl[f] = <<>>
    PROVE  /\ Len(fl[f]) = 0
           /\ \A s \in Sinks : IsFiniteSet(Msgs(fl, s, f)) /\ Count(fl, s, f) = 0
<1>1. \A s \in Sinks : Msgs(fl, s, f) = {}
  BY MsgsOfLines
<1>2. Len(fl[f]) = 0
  OBVIOUS
<1> QED
  BY <1>1, <1>2, FS_EmptySet DEF Count

\* Files that are kept or cleared stay counted, and no count grows.
LEMMA KeptCounted ==
    ASSUME NEW fl \in [Files -> Lines], NEW g \in [Files -> Lines], Kept(g, fl), Counted(fl)
    PROVE  Counted(g) /\ \A s \in Sinks, f \in Files : Count(g, s, f) <= Count(fl, s, f)
<1> SUFFICES ASSUME NEW f \in Files
             PROVE  /\ \A s \in Sinks : /\ IsFiniteSet(Msgs(g, s, f)) /\ Count(g, s, f) \in Nat
                                        /\ Count(g, s, f) <= Count(fl, s, f)
                    /\ Len(g[f]) = Count(g, "old", f) + Count(g, "new", f)
  BY DEF Counted
<1>1. CASE g[f] = fl[f]
  <2>1. \A s \in Sinks : Msgs(g, s, f) = Msgs(fl, s, f)
    BY <1>1 DEF Msgs
  <2> QED
    BY <1>1, <2>1, Sides DEF Counted, Count
<1>2. CASE g[f] = <<>>
  <2>1. Len(g[f]) = 0 /\ \A s \in Sinks : IsFiniteSet(Msgs(g, s, f)) /\ Count(g, s, f) = 0
    BY <1>2, EmptyCounted
  <2>2. \A s \in Sinks : Count(fl, s, f) \in Nat
    BY DEF Counted
  <2> QED
    BY <2>1, <2>2, Sides
<1> QED
  BY <1>1, <1>2 DEF Kept

\* A new message adds one to the count of its sink in its file.
LEMMA AppendCounted ==
    ASSUME NEW fl \in [Files -> Lines], NEW g \in [Files -> Lines], NEW f \in Files,
           NEW t \in Sinks, NEW n \in Nat, Appended(fl, g, f, t, n), n \notin Msgs(fl, t, f),
           Counted(fl)
    PROVE  /\ Counted(g) /\ Count(g, t, f) = Count(fl, t, f) + 1
           /\ \A s \in Sinks, e \in Files :
                ~(s = t /\ e = f) => Msgs(g, s, e) = Msgs(fl, s, e) /\ Count(g, s, e) = Count(fl, s, e)
<1>1. MsgsAppended(fl, g, f, t, n)
  BY MsgsAppend
<1>2. Msgs(g, t, f) = Msgs(fl, t, f) \cup {n}
  BY <1>1 DEF MsgsAppended
<1>3. \A s \in Sinks, e \in Files : ~(s = t /\ e = f) => Msgs(g, s, e) = Msgs(fl, s, e)
  BY <1>1 DEF MsgsAppended
<1>4. /\ IsFiniteSet(Msgs(fl, t, f)) /\ Count(fl, t, f) \in Nat
      /\ Len(fl[f]) = Count(fl, "old", f) + Count(fl, "new", f)
  BY DEF Counted
<1>5. IsFiniteSet(Msgs(g, t, f)) /\ Count(g, t, f) = Count(fl, t, f) + 1
  BY <1>2, <1>4, FS_AddElement DEF Count
<1>6. \A s \in Sinks, e \in Files : ~(s = t /\ e = f) => Count(g, s, e) = Count(fl, s, e)
  BY <1>3 DEF Count
<1>7. \A e \in Files : e # f => g[e] = fl[e]
  BY DEF Appended
<1>8. Len(g[f]) = Len(fl[f]) + 1
  BY <1>1 DEF MsgsAppended
<1>9. Counted(g)
  <2> SUFFICES ASSUME NEW e \in Files
               PROVE  /\ \A s \in Sinks : IsFiniteSet(Msgs(g, s, e)) /\ Count(g, s, e) \in Nat
                      /\ Len(g[e]) = Count(g, "old", e) + Count(g, "new", e)
    BY DEF Counted
  <2>1. \A s \in Sinks : IsFiniteSet(Msgs(fl, s, e)) /\ Count(fl, s, e) \in Nat
    BY DEF Counted
  <2>2. \A s \in Sinks : IsFiniteSet(Msgs(g, s, e)) /\ Count(g, s, e) \in Nat
    <3> SUFFICES ASSUME NEW s \in Sinks PROVE IsFiniteSet(Msgs(g, s, e)) /\ Count(g, s, e) \in Nat
      OBVIOUS
    <3>1. CASE s = t /\ e = f
      BY <1>4, <1>5, <3>1
    <3>2. CASE ~(s = t /\ e = f)
      BY <1>3, <1>6, <2>1, <3>2
    <3> QED
      BY <3>1, <3>2
  <2>3. Len(g[e]) = Count(g, "old", e) + Count(g, "new", e)
    <3>1. CASE e # f
      <4>1. Len(fl[e]) = Count(fl, "old", e) + Count(fl, "new", e)
        BY DEF Counted
      <4> QED
        BY <1>6, <1>7, <3>1, <4>1, Sides
    <3>2. CASE e = f /\ t = "old"
      BY <1>4, <1>5, <1>6, <1>8, <2>1, <3>2, Sides
    <3>3. CASE e = f /\ t = "new"
      BY <1>4, <1>5, <1>6, <1>8, <2>1, <3>3, Sides
    <3> QED
      BY <3>1, <3>2, <3>3 DEF Sinks
  <2> QED
    BY <2>2, <2>3
<1> QED
  BY <1>3, <1>5, <1>6, <1>9

-----------------------------------------------------------------------------
(* The bound on the lines of the POSIX build.                              *)

\* The counter of a sink counts at least its own lines of the file it has open, and a
\* sink never opens a file again that it has written to: its rotation moves whatever
\* stem.log is by then.
CapInv == \A s \in Sinks, f \in Files : Count(file, s, f) <= MaxCount
OpenInv ==
    \A s \in Sinks : fd[s] # None =>
        Count(file, s, fd[s]) + (IF dirty[s] THEN 1 ELSE 0) <= logCount[s]
OnceOf(s) ==
    fd[s] = None /\ ~(s = "old" /\ phase = "after") /\ pc[s] \notin Chain \cup {"close"} /\ Exists(0)
        => Msgs(file, s, dir[0]) = {}
OnceInv == \A s \in Sinks : OnceOf(s)
RetiredInv == phase = "after" => pc["old"] = "idle" /\ sent["old"] = posted
BoundInv ==
    /\ Counted(file) /\ RetiredInv
    /\ platform = "posix" => CapInv /\ OpenInv /\ OnceInv

\* All files are empty at first.
LEMMA BoundInit == Init => BoundInv
<1> SUFFICES ASSUME Init PROVE BoundInv
  OBVIOUS
<1>1. /\ \A f \in Files : file[f] = <<>>
      /\ \A i \in Slots : dir[i] = None /\ \A s \in Sinks : fd[s] = None
  BY DEF Init
<1>2. file \in [Files -> Lines]
  BY TypeInit DEF TypeInv, FilesOK
<1>3. \A f \in Files : /\ Len(file[f]) = 0
                       /\ \A s \in Sinks : IsFiniteSet(Msgs(file, s, f)) /\ Count(file, s, f) = 0
  BY <1>1, <1>2, EmptyCounted
<1>4. Counted(file)
  <2>1. \A f \in Files : Count(file, "old", f) = 0 /\ Count(file, "new", f) = 0
    BY <1>3, Sides
  <2>2. \A f \in Files : Len(file[f]) = Count(file, "old", f) + Count(file, "new", f)
    BY <1>3, <2>1
  <2> QED
    BY <1>3, <2>2 DEF Counted
<1>5. CapInv
  BY <1>3, Constants DEF CapInv
<1>6. OpenInv /\ OnceInv
  BY <1>1, Constants DEF OpenInv, OnceInv, OnceOf, Exists, Init
<1>7. RetiredInv
  BY DEF Init, RetiredInv
<1> QED
  BY <1>4, <1>5, <1>6, <1>7 DEF BoundInv

\* What a flush or close of sink t writes.
LEMMA FlushedCounted ==
    ASSUME TypeInv, OrderInv, Counted(file), NEW t \in Sinks
    PROVE  /\ Flushed(t) \in [Files -> Lines] /\ Counted(Flushed(t))
           /\ CapInv /\ OpenInv =>
                /\ \A s \in Sinks, f \in Files : Count(Flushed(t), s, f) <= MaxCount
                /\ \A s \in Sinks : fd[s] # None =>
                     Count(Flushed(t), s, fd[s]) + (IF dirty[s] /\ s # t THEN 1 ELSE 0) <= logCount[s]
           /\ \A s \in Sinks, f \in Files : fd[s] = None => Msgs(Flushed(t), s, f) = Msgs(file, s, f)
<1>0. /\ FilesOK /\ SinksOK /\ (dirty[t] => fd[t] # None)
      /\ file \in [Files -> Lines] /\ fd \in [Sinks -> Files \cup {None}] /\ sent \in [Sinks -> Nat]
      /\ logCount \in [Sinks -> 0..MaxCount] /\ dirty \in [Sinks -> BOOLEAN]
      /\ Written(file, sent, dirty)
  BY DEF TypeInv, ControlInv, ControlOf, FilesOK, SinksOK, OrderInv, Ordered
<1>1. /\ Flushed(t) \in [Files -> Lines]
      /\ dirty[t] => /\ fd[t] \in Files
                     /\ Flushed(t)[fd[t]] = Append(file[fd[t]], <<t, sent[t]>>)
                     /\ \A f \in Files : f # fd[t] => Flushed(t)[f] = file[f]
      /\ ~dirty[t] => Flushed(t) = file
  BY <1>0, FlushedTyped
<1>2. \A s \in Sinks, f \in Files : Count(file, s, f) \in Nat
  BY DEF Counted
<1>3. \A s \in Sinks : logCount[s] \in Nat /\ logCount[s] <= MaxCount
  BY <1>0, Constants
<1>4. CASE ~dirty[t]
  <2>1. OpenInv => \A s \in Sinks : fd[s] # None =>
          Count(file, s, fd[s]) + (IF dirty[s] /\ s # t THEN 1 ELSE 0) <= logCount[s]
    BY <1>4 DEF OpenInv
  <2> QED
    BY <1>1, <1>4, <2>1 DEF CapInv
<1>5. CASE dirty[t]
  <2>0. PICK n \in Nat : n = sent[t]
    BY <1>0
  <2>1. PICK f \in Files : f = fd[t]
    BY <1>1, <1>5
  <2>2. PICK g \in [Files -> Lines] : g = Flushed(t)
    BY <1>1
  <2>3. Appended(file, g, f, t, n)
    BY <1>1, <1>5, <2>0, <2>1, <2>2 DEF Appended
  <2>4. n \notin Msgs(file, t, f)
    <3>1. \A k \in Msgs(file, t, f) : k < n /\ k \in Nat
      BY <1>0, <1>5, <2>0, MsgsOfLines DEF Written
    <3> QED
      BY <3>1
  <2>5. /\ Counted(g) /\ Count(g, t, f) = Count(file, t, f) + 1
        /\ \A s \in Sinks, e \in Files :
             ~(s = t /\ e = f) => Msgs(g, s, e) = Msgs(file, s, e) /\ Count(g, s, e) = Count(file, s, e)
    BY <1>0, <2>3, <2>4, AppendCounted
  <2>6. ASSUME CapInv, OpenInv
        PROVE  /\ \A s \in Sinks, e \in Files : Count(g, s, e) <= MaxCount
               /\ \A s \in Sinks : fd[s] # None =>
                    Count(g, s, fd[s]) + (IF dirty[s] /\ s # t THEN 1 ELSE 0) <= logCount[s]
    <3>1. Count(file, t, f) + 1 <= logCount[t]
      <4>1. fd[t] # None => Count(file, t, fd[t]) + 1 <= logCount[t]
        BY <1>5, <2>6 DEF OpenInv
      <4> QED
        BY <1>0, <1>5, <2>1, <4>1
    <3>2. Count(g, t, f) <= logCount[t] /\ Count(g, t, f) \in Nat
      BY <1>2, <2>5, <3>1
    <3>3. ASSUME NEW s \in Sinks, NEW e \in Files PROVE Count(g, s, e) <= MaxCount
      <4>1. CASE s = t /\ e = f
        BY <1>3, <3>2, <4>1, Constants
      <4>2. CASE ~(s = t /\ e = f)
        BY <2>5, <2>6, <4>2 DEF CapInv
      <4> QED
        BY <4>1, <4>2
    <3>4. ASSUME NEW s \in Sinks, fd[s] # None
          PROVE  Count(g, s, fd[s]) + (IF dirty[s] /\ s # t THEN 1 ELSE 0) <= logCount[s]
      <4>1. CASE s = t
        BY <1>3, <2>1, <3>2, <4>1
      <4>2. CASE s # t
        <5>1. fd[s] \in Files
          BY <1>0, <3>4
        <5>2. Count(g, s, fd[s]) = Count(file, s, fd[s])
          BY <2>5, <4>2, <5>1
        <5> QED
          BY <2>6, <3>4, <4>2, <5>2 DEF OpenInv
      <4> QED
        BY <4>1, <4>2
    <3> QED
      BY <3>3, <3>4
  <2>7. \A s \in Sinks, e \in Files : fd[s] = None => Msgs(g, s, e) = Msgs(file, s, e)
    BY <1>0, <1>5, <2>5
  <2> QED
    BY <1>1, <2>2, <2>5, <2>6, <2>7
<1> QED
  BY <1>4, <1>5

\* A step of one sink does not move the other one.
LEMMA OthersKept ==
    ASSUME TypeInv, NEW s \in Sinks, Log(s) \/ SinkIt(s), NEW u \in Sinks, u # s
    PROVE  pc'[u] = pc[u] /\ sent'[u] = sent[u]
<1>0. ControlOK /\ pc \in [Sinks -> Labels] /\ sent \in [Sinks -> Nat]
  BY DEF TypeInv, ControlOK, SinksOK
<1>1. pc'[u] = pc[u]
  <2>1. ASSUME NEW l, Goto(s, l) PROVE pc'[u] = pc[u]
    BY <1>0, <2>1 DEF Goto
  <2>2. ASSUME NEW r, CallRotate(s, r) PROVE pc'[u] = pc[u]
    BY <1>0, <2>2 DEF CallRotate
  <2>3. NextSource(s) => pc'[u] = pc[u]
    BY <1>0, NextSourceEffect
  <2>4. CASE Log(s) \/ CheckBeforeWrite(s) \/ RemoveOldest(s)
    BY <1>0, <2>1, <2>4 DEF Log, CheckBeforeWrite, RemoveOldest
  <2>5. CASE EnsureOpened(s) \/ OpenFile(s) \/ Write(s) \/ Flush(s) \/ Close(s)
    BY <2>1, <2>2, <2>5 DEF EnsureOpened, OpenFile, Write, Flush, Close
  <2>6. CASE SourceExists(s) \/ RemoveTarget(s) \/ Rename(s)
    BY <2>1, <2>3, <2>6 DEF SourceExists, RemoveTarget, Rename
  <2> QED
    BY <2>4, <2>5, <2>6 DEF SinkIt
<1>2. sent'[u] = sent[u]
  <2>1. CASE Write(s)
    BY <1>0, <2>1 DEF Write
  <2>2. CASE ~Write(s)
    BY <2>2 DEF Log, SinkIt, EnsureOpened, OpenFile, CheckBeforeWrite, Flush, Close,
                RemoveOldest, SourceExists, RemoveTarget, Rename, sinkVars
  <2> QED
    BY <2>1, <2>2
<1> QED
  BY <1>1, <1>2

\* OnceInv of the next state, by what stem.log holds there.
LEMMA OnceNext ==
    ASSUME \A u \in Sinks :
             /\ fd'[u] = None /\ ~(u = "old" /\ phase' = "after")
             /\ pc'[u] \notin Chain \cup {"close"} /\ dir'[0] # None
             => Msgs(file', u, dir'[0]) = {}
    PROVE  OnceInv'
BY DEF OnceInv, OnceOf, Exists, Msgs

\* A step that leaves the files, the handles and the buffers alone and does not bring a sink
\* without a file out of its rotation.
LEMMA QuietBound ==
    ASSUME TypeInv, BoundInv, RetiredInv',
           UNCHANGED <<platform, dir, file, fd, dirty>>, phase = "after" => phase' = "after",
           \A s \in Sinks : logCount'[s] = logCount[s] \/ fd[s] = None,
           \A s \in Sinks : fd[s] = None /\ pc'[s] \notin Chain \cup {"close"} /\ Exists(0)
                              => pc[s] \notin Chain \cup {"close"}
    PROVE  BoundInv'
<1>1. Counted(file)'
  <2>1. Counted(file')
    BY Zenon DEF BoundInv
  <2> QED
    BY <2>1 DEF Counted, Count, Msgs
<1>2. ASSUME platform = "posix" PROVE CapInv' /\ OpenInv' /\ OnceInv'
  <2>1. CapInv /\ OpenInv /\ OnceInv
    BY <1>2 DEF BoundInv
  <2>2. CapInv'
    BY <2>1 DEF CapInv, Count, Msgs
  <2>3. OpenInv'
    <3> SUFFICES ASSUME NEW s \in Sinks, fd[s] # None
                 PROVE  Count(file, s, fd[s]) + (IF dirty[s] THEN 1 ELSE 0) <= logCount'[s]
      BY DEF OpenInv, Count, Msgs
    <3> QED
      BY <2>1 DEF OpenInv
  <2>4. OnceInv'
    <3> SUFFICES ASSUME NEW s \in Sinks PROVE OnceOf(s)'
      BY DEF OnceInv
    <3>1. OnceOf(s)
      BY <2>1 DEF OnceInv
    <3> QED
      BY <3>1 DEF OnceOf, Exists, Msgs
  <2> QED
    BY <2>2, <2>3, <2>4
<1> QED
  BY <1>1, <1>2 DEF BoundInv

\* A step that drops files or handles.
LEMMA KeptBound ==
    ASSUME TypeInv, TypeInv', BoundInv, RetiredInv', UNCHANGED <<platform, dirty, logCount>>,
           Kept(file', file), \A s \in Sinks : fd'[s] \in {fd[s], None},
           platform = "posix" => OnceInv'
    PROVE  BoundInv'
<1>0. /\ file \in [Files -> Lines] /\ file' \in [Files -> Lines] /\ Counted(file)
      /\ fd \in [Sinks -> Files \cup {None}] /\ logCount \in [Sinks -> 0..MaxCount]
  BY DEF TypeInv, FilesOK, SinksOK, BoundInv
<1>1. Counted(file') /\ \A s \in Sinks, f \in Files : Count(file', s, f) <= Count(file, s, f)
  BY <1>0, KeptCounted
<1>2. \A s \in Sinks, f \in Files : Count(file, s, f) \in Nat /\ Count(file', s, f) \in Nat
  BY <1>0, <1>1 DEF Counted
<1>3. Counted(file)'
  BY <1>1 DEF Counted, Count, Msgs
<1>4. ASSUME platform = "posix" PROVE CapInv' /\ OpenInv'
  <2>1. CapInv /\ OpenInv
    BY <1>4 DEF BoundInv
  <2>2. CapInv'
    <3>1. \A s \in Sinks, f \in Files : Count(file', s, f) <= MaxCount
      BY <1>1, <1>2, <2>1, Constants DEF CapInv
    <3> QED
      BY <3>1 DEF CapInv, Count, Msgs
  <2>3. OpenInv'
    <3> SUFFICES ASSUME NEW s \in Sinks, fd'[s] # None
                 PROVE  Count(file', s, fd'[s]) + (IF dirty[s] THEN 1 ELSE 0) <= logCount[s]
      BY DEF OpenInv, Count, Msgs
    <3>1. fd'[s] = fd[s] /\ fd[s] \in Files /\ logCount[s] \in Nat
      BY <1>0
    <3>2. Count(file, s, fd[s]) + (IF dirty[s] THEN 1 ELSE 0) <= logCount[s]
      BY <2>1, <3>1 DEF OpenInv
    <3> QED
      BY <1>1, <1>2, <3>1, <3>2
  <2> QED
    BY <2>2, <2>3
<1> QED
  BY <1>3, <1>4 DEF BoundInv

\* Every step of either sink keeps BoundInv.
LEMMA BoundStep == TypeInv /\ TypeInv' /\ OrderInv /\ BoundInv /\ [Next]_vars => BoundInv'
<1> SUFFICES ASSUME TypeInv, TypeInv', OrderInv, BoundInv, [Next]_vars PROVE BoundInv'
  OBVIOUS
<1> USE DEF settings, sinkVars, control, reload
<1>0. /\ FilesOK /\ ControlOK /\ RetiredInv /\ Counted(file)
      /\ dir \in [Slots -> Files \cup {None}] /\ dir' \in [Slots -> Files \cup {None}]
      /\ Distinct(dir) /\ file \in [Files -> Lines] /\ file' \in [Files -> Lines]
      /\ fd \in [Sinks -> Files \cup {None}] /\ fd' \in [Sinks -> Files \cup {None}]
      /\ sent \in [Sinks -> Nat] /\ dirty \in [Sinks -> BOOLEAN]
      /\ logCount \in [Sinks -> 0..MaxCount] /\ pc \in [Sinks -> Labels]
  BY DEF TypeInv, FilesOK, SinksOK, ControlOK, BoundInv
<1>1. RetiredInv'
  <2>1. CASE Post \/ Reload \/ UNCHANGED vars
    BY <1>0, <2>1 DEF Post, Reload, vars, RetiredInv
  <2>2. CASE Retire
    BY <2>2 DEF Retire, RetiredInv
  <2>3. ASSUME NEW s \in Sinks, Log(s) \/ SinkIt(s) PROVE RetiredInv'
    <3>1. UNCHANGED <<posted, phase>>
      BY <2>3 DEF Log, SinkIt, EnsureOpened, OpenFile, CheckBeforeWrite, Write, Flush, Close,
                  RemoveOldest, SourceExists, RemoveTarget, Rename
    <3>2. CASE s = "old"
      <4>1. pc["old"] # "idle" \/ sent["old"] < posted
        BY <2>3, <3>2 DEF Log, HasMessage, SinkIt, EnsureOpened, OpenFile, CheckBeforeWrite, Write,
                          Flush, Close, RemoveOldest, SourceExists, RemoveTarget, Rename
      <4>2. phase # "after"
        BY <1>0, <4>1, Sides DEF RetiredInv
      <4> QED
        BY <3>1, <4>2 DEF RetiredInv
    <3>3. CASE s # "old"
      BY <1>0, <2>3, <3>1, <3>3, OthersKept, Sides DEF RetiredInv
    <3> QED
      BY <3>2, <3>3
  <2> QED
    BY <2>1, <2>2, <2>3 DEF Next
<1>2. ASSUME NEW u \in Sinks, pc[u] \in {"idle", "ensure", "check", "open", "write", "flush"}
      PROVE  pc[u] \notin Chain \cup {"close"}
  BY <1>2 DEF Chain
<1>3. ASSUME Kept(file', file), NEW u \in Sinks, NEW f \in Files, Msgs(file, u, f) = {}
      PROVE  Msgs(file', u, f) = {}
  <2>1. CASE file'[f] = file[f]
    BY <1>3, <2>1 DEF Msgs
  <2>2. CASE file'[f] = <<>>
    BY <1>0, <2>2, MsgsOfLines
  <2> QED
    BY <1>3, <2>1, <2>2 DEF Kept
<1>4. CASE Post \/ Reload \/ UNCHANGED vars
  <2>1. /\ UNCHANGED <<platform, dir, file, fd, dirty, logCount, pc>>
        /\ phase = "after" => phase' = "after"
    BY <1>4 DEF Post, Reload, vars
  <2> QED
    BY <1>1, <2>1, QuietBound
<1>5. ASSUME NEW s \in Sinks, Log(s) \/ EnsureOpened(s) \/ CheckBeforeWrite(s) PROVE BoundInv'
  <2>1. UNCHANGED <<platform, dir, file, fd, dirty, phase>> /\ pc[s] \in {"idle", "ensure", "check"}
    BY <1>5 DEF Log, EnsureOpened, CheckBeforeWrite
  <2>2. \A u \in Sinks : logCount'[u] = logCount[u] \/ fd[u] = None
    BY <1>0, <1>5 DEF Log, EnsureOpened, CheckBeforeWrite
  <2>3. ASSUME NEW u \in Sinks, pc'[u] \notin Chain \cup {"close"} PROVE pc[u] \notin Chain \cup {"close"}
    <3>1. CASE u = s
      BY <1>2, <2>1, <3>1
    <3>2. CASE u # s
      BY <1>5, <2>3, <3>2, OthersKept DEF SinkIt
    <3> QED
      BY <3>1, <3>2
  <2> QED
    BY <1>1, <2>1, <2>2, <2>3, QuietBound
<1>6. CASE Retire
  <2>1. /\ fd' = [fd EXCEPT !["old"] = None] /\ UNCHANGED <<platform, dir, dirty, logCount, pc>>
        /\ \A f \in Files : file'[f] = IF Referenced(dir, fd', f) THEN file[f] ELSE <<>>
        /\ phase = "overlap" /\ phase' = "after"
    BY <1>6 DEF Retire
  <2>2. Kept(file', file) /\ \A s \in Sinks : fd'[s] \in {fd[s], None}
    BY <1>0, <2>1 DEF Kept
  <2>3. ASSUME platform = "posix" PROVE OnceInv'
    <3> SUFFICES ASSUME NEW s \in Sinks, fd'[s] = None, ~(s = "old" /\ phase' = "after"),
                        pc'[s] \notin Chain \cup {"close"}, dir'[0] # None
                 PROVE  Msgs(file', s, dir'[0]) = {}
      BY OnceNext
    <3>0. s # "old" /\ fd[s] = None /\ pc[s] \notin Chain \cup {"close"} /\ dir' = dir /\ Exists(0)
      BY <1>0, <2>1 DEF Exists
    <3>1. OnceOf(s)
      BY <2>3 DEF BoundInv, OnceInv
    <3>2. Msgs(file, s, dir[0]) = {} /\ dir[0] \in Files
      BY <1>0, <3>0, <3>1, Constants DEF OnceOf, Exists
    <3> QED
      BY <1>3, <2>2, <3>0, <3>2
  <2> QED
    BY <1>1, <2>1, <2>2, <2>3, KeptBound
<1>7. ASSUME NEW s \in Sinks, RemoveOldest(s) \/ SourceExists(s) \/ RemoveTarget(s) \/ Rename(s)
      PROVE  BoundInv'
  <2>1. UNCHANGED <<platform, fd, dirty, logCount, phase>>
    BY <1>7 DEF RemoveOldest, SourceExists, RemoveTarget, Rename
  <2>2. fd' = fd
    BY <2>1
  <2>3. Kept(file', file) /\ (DirShrink(dir', dir) \/ DirMove(dir', dir))
    BY <1>0, <1>7, <2>2, ChainFiles
  <2>4. dir'[0] \in {dir[0], None}
    BY <2>3, Constants DEF DirShrink, DirMove
  <2>5. ASSUME platform = "posix", pc'[s] \notin Chain \cup {"close"} PROVE dir'[0] = None
    <3>1. NextSource(s) /\ pc'[s] # "exists"
      <4>1. /\ pc'[s] # "exists" /\ pc'[s] # "rmTarget" /\ pc'[s] # "rename"
        BY <2>5 DEF Chain
      <4>2. \A l : Goto(s, l) => pc'[s] = l
        BY <1>0 DEF Goto
      <4>3. RemoveOldest(s) => pc'[s] = "exists"
        BY <1>0 DEF RemoveOldest
      <4> QED
        BY <1>7, <4>1, <4>2, <4>3 DEF SourceExists, RemoveTarget, Rename
    <3>2. src[s] = 0
      BY <1>0, <3>1, NextSourceEffect
    <3>3. CASE SourceExists(s)
      <4>1. \A l : Goto(s, l) => pc'[s] = l
        BY <1>0 DEF Goto
      <4>2. ~Exists(0) /\ dir' = dir
        BY <2>5, <3>2, <3>3, <4>1 DEF SourceExists, Chain
      <4> QED
        BY <4>2 DEF Exists
    <3>4. CASE Rename(s)
      <4>1. Movable(0) /\ Movable(0 + 1) /\ ~MayBeRead(s, 0)
        BY <2>5 DEF Movable, MayBeRead
      <4>2. \/ SetDir([dir EXCEPT ![0 + 1] = dir[0], ![0] = None])
            \/ ~Exists(0) /\ UNCHANGED <<dir, file>>
        BY <3>2, <3>4, <4>1 DEF Rename
      <4> QED
        BY <1>0, <4>2, Constants DEF SetDir, Exists
    <3>5. CASE RemoveOldest(s) \/ RemoveTarget(s)
      <4>1. \A l : Goto(s, l) => pc'[s] = l
        BY <1>0 DEF Goto
      <4>2. pc'[s] \in {"exists", "rename"}
        BY <1>0, <3>5, <4>1 DEF RemoveOldest, RemoveTarget
      <4> QED
        BY <2>5, <4>2 DEF Chain
    <3> QED
      BY <1>7, <3>3, <3>4, <3>5
  <2>6. ASSUME platform = "posix" PROVE OnceInv'
    <3> SUFFICES ASSUME NEW u \in Sinks, fd'[u] = None, ~(u = "old" /\ phase' = "after"),
                        pc'[u] \notin Chain \cup {"close"}, dir'[0] # None
                 PROVE  Msgs(file', u, dir'[0]) = {}
      BY OnceNext
    <3>1. u # s /\ dir'[0] = dir[0]
      BY <2>4, <2>5, <2>6
    <3>2. pc'[u] = pc[u]
      BY <1>7, <3>1, OthersKept DEF SinkIt
    <3>3. OnceOf(u)
      BY <2>6 DEF BoundInv, OnceInv
    <3>4. Msgs(file, u, dir[0]) = {} /\ dir[0] \in Files
      BY <1>0, <2>1, <3>1, <3>2, <3>3, Constants DEF OnceOf, Exists
    <3> QED
      BY <1>3, <2>3, <3>1, <3>4
  <2> QED
    BY <1>1, <2>1, <2>3, <2>6, KeptBound
<1>8. ASSUME NEW s \in Sinks, Write(s) PROVE BoundInv'
  <2>1. /\ UNCHANGED <<platform, dir, file, fd, phase>> /\ pc[s] = "write"
        /\ logCount' = [logCount EXCEPT ![s] = logCount[s] + 1]
        /\ dirty' = [dirty EXCEPT ![s] = TRUE]
    BY <1>0, <1>8 DEF Write
  <2>2. ~dirty[s] /\ fd[s] # None
    BY <2>1 DEF TypeInv, ControlInv, ControlOf
  <2>3. Counted(file)'
    <3>1. Counted(file')
      BY <1>0, <2>1, Zenon
    <3> QED
      BY <3>1 DEF Counted, Count, Msgs
  <2>4. ASSUME platform = "posix" PROVE CapInv' /\ OpenInv' /\ OnceInv'
    <3>0. CapInv /\ OpenInv /\ OnceInv
      BY <2>4 DEF BoundInv
    <3>1. CapInv'
      BY <2>1, <3>0 DEF CapInv, Count, Msgs
    <3>2. OpenInv'
      <4> SUFFICES ASSUME NEW u \in Sinks, fd[u] # None
                   PROVE  Count(file, u, fd[u]) + (IF dirty'[u] THEN 1 ELSE 0) <= logCount'[u]
        BY <2>1 DEF OpenInv, Count, Msgs
      <4>1. Count(file, u, fd[u]) + (IF dirty[u] THEN 1 ELSE 0) <= logCount[u]
        BY <3>0 DEF OpenInv
      <4>2. fd[u] \in Files /\ Count(file, u, fd[u]) \in Nat /\ logCount[u] \in Nat
        BY <1>0 DEF Counted
      <4>3. CASE u = s
        BY <1>0, <2>1, <2>2, <4>1, <4>2, <4>3
      <4>4. CASE u # s
        BY <1>0, <2>1, <4>1, <4>4
      <4> QED
        BY <4>3, <4>4
    <3>3. OnceInv'
      <4> SUFFICES ASSUME NEW u \in Sinks, fd[u] = None PROVE OnceOf(u)'
        BY <2>1 DEF OnceInv, OnceOf
      <4>1. pc'[u] = pc[u] /\ OnceOf(u)
        BY <1>8, <2>2, <3>0, OthersKept DEF SinkIt, OnceInv
      <4> QED
        BY <2>1, <4>1 DEF OnceOf, Exists, Msgs
    <3> QED
      BY <3>1, <3>2, <3>3
  <2> QED
    BY <1>1, <2>1, <2>3, <2>4 DEF BoundInv
<1>9. ASSUME NEW s \in Sinks, Flush(s) PROVE BoundInv'
  <2>1. PICK t \in Sinks : file' = Flushed(t) /\ dirty' = [dirty EXCEPT ![t] = FALSE]
    BY <1>9, Sides DEF Flush
  <2>2. UNCHANGED <<platform, dir, fd, logCount, phase>> /\ pc[s] = "flush"
    BY <1>9 DEF Flush
  <2>3. /\ Counted(Flushed(t))
        /\ CapInv /\ OpenInv =>
             /\ \A u \in Sinks, f \in Files : Count(Flushed(t), u, f) <= MaxCount
             /\ \A u \in Sinks : fd[u] # None =>
                  Count(Flushed(t), u, fd[u]) + (IF dirty[u] /\ u # t THEN 1 ELSE 0) <= logCount[u]
        /\ \A u \in Sinks, f \in Files : fd[u] = None => Msgs(Flushed(t), u, f) = Msgs(file, u, f)
    BY <1>0, FlushedCounted
  <2>4. Counted(file)'
    <3>1. Counted(file')
      BY <2>1, <2>3, Zenon
    <3> QED
      BY <3>1 DEF Counted, Count, Msgs
  <2>5. ASSUME platform = "posix" PROVE CapInv' /\ OpenInv' /\ OnceInv'
    <3>0. CapInv /\ OpenInv /\ OnceInv
      BY <2>5 DEF BoundInv
    <3>1. CapInv'
      <4>1. \A u \in Sinks, f \in Files : Count(file', u, f) <= MaxCount
        BY <2>1, <2>3, <3>0
      <4> QED
        BY <4>1 DEF CapInv, Count, Msgs
    <3>2. OpenInv'
      <4> SUFFICES ASSUME NEW u \in Sinks, fd[u] # None
                   PROVE  Count(file', u, fd[u]) + (IF dirty'[u] THEN 1 ELSE 0) <= logCount[u]
        BY <2>2 DEF OpenInv, Count, Msgs
      <4>1. Count(file', u, fd[u]) + (IF dirty[u] /\ u # t THEN 1 ELSE 0) <= logCount[u]
        BY <2>1, <2>3, <3>0
      <4>2. dirty'[u] <=> dirty[u] /\ u # t
        BY <1>0, <2>1
      <4> QED
        BY <4>1, <4>2
    <3>3. OnceInv'
      <4> SUFFICES ASSUME NEW u \in Sinks, fd'[u] = None, ~(u = "old" /\ phase' = "after"),
                          pc'[u] \notin Chain \cup {"close"}, dir'[0] # None
                   PROVE  Msgs(file', u, dir'[0]) = {}
        BY OnceNext
      <4>0. fd[u] = None /\ ~(u = "old" /\ phase = "after") /\ dir' = dir /\ Exists(0)
        BY <2>2 DEF Exists
      <4>1. pc[u] \notin Chain \cup {"close"}
        <5>1. CASE u = s
          BY <1>2, <2>2, <5>1
        <5>2. CASE u # s
          BY <1>9, <5>2, OthersKept DEF SinkIt
        <5> QED
          BY <5>1, <5>2
      <4>2. Msgs(file, u, dir[0]) = {}
        BY <3>0, <4>0, <4>1 DEF OnceInv, OnceOf
      <4>3. dir[0] \in Files
        BY <1>0, <4>0, Constants DEF Exists
      <4> QED
        BY <2>1, <2>3, <4>0, <4>2, <4>3
    <3> QED
      BY <3>1, <3>2, <3>3
  <2> QED
    BY <1>1, <2>2, <2>4, <2>5 DEF BoundInv
<1>10. ASSUME NEW s \in Sinks, Close(s) PROVE BoundInv'
  <2>1. /\ fd' = [fd EXCEPT ![s] = None] /\ dirty' = [dirty EXCEPT ![s] = FALSE]
        /\ logCount' = [logCount EXCEPT ![s] = 0] /\ Goto(s, "rmOldest")
        /\ UNCHANGED <<platform, dir, phase>>
        /\ \A f \in Files : file'[f] = IF Referenced(dir, fd', f) THEN Flushed(s)[f] ELSE <<>>
    BY <1>10 DEF Close
  <2>2. PICK g \in [Files -> Lines] : g = Flushed(s) /\ Kept(file', g)
    BY <1>0, <2>1, FlushedCounted DEF Kept
  <2>3. /\ Counted(g)
        /\ CapInv /\ OpenInv =>
             /\ \A u \in Sinks, f \in Files : Count(g, u, f) <= MaxCount
             /\ \A u \in Sinks : fd[u] # None =>
                  Count(g, u, fd[u]) + (IF dirty[u] /\ u # s THEN 1 ELSE 0) <= logCount[u]
        /\ \A u \in Sinks, f \in Files : fd[u] = None => Msgs(g, u, f) = Msgs(file, u, f)
    BY <1>0, <2>2, FlushedCounted
  <2>4. Counted(file') /\ \A u \in Sinks, f \in Files : Count(file', u, f) <= Count(g, u, f)
    BY <1>0, <2>2, <2>3, KeptCounted
  <2>5. \A u \in Sinks, f \in Files : Count(g, u, f) \in Nat /\ Count(file', u, f) \in Nat
    BY <2>3, <2>4 DEF Counted
  <2>6. Counted(file)'
    BY <2>4 DEF Counted, Count, Msgs
  <2>7. ASSUME platform = "posix" PROVE CapInv' /\ OpenInv' /\ OnceInv'
    <3>0. CapInv /\ OpenInv /\ OnceInv
      BY <2>7 DEF BoundInv
    <3>1. CapInv'
      <4>1. \A u \in Sinks, f \in Files : Count(file', u, f) <= MaxCount
        BY <2>3, <2>4, <2>5, <3>0, Constants
      <4> QED
        BY <4>1 DEF CapInv, Count, Msgs
    <3>2. OpenInv'
      <4> SUFFICES ASSUME NEW u \in Sinks, fd'[u] # None
                   PROVE  Count(file', u, fd'[u]) + (IF dirty'[u] THEN 1 ELSE 0) <= logCount'[u]
        BY DEF OpenInv, Count, Msgs
      <4>0. u # s
        BY <1>0, <2>1
      <4>1. /\ fd'[u] = fd[u] /\ fd[u] # None /\ (dirty'[u] <=> dirty[u])
            /\ logCount'[u] = logCount[u] /\ fd[u] \in Files /\ logCount[u] \in Nat
        BY <1>0, <2>1, <4>0
      <4>2. Count(g, u, fd[u]) + (IF dirty[u] /\ u # s THEN 1 ELSE 0) <= logCount[u]
        BY <2>3, <3>0, <4>1
      <4>3. Count(file', u, fd[u]) <= Count(g, u, fd[u])
        BY <2>4, <4>1
      <4>4. Count(g, u, fd[u]) \in Nat /\ Count(file', u, fd[u]) \in Nat
        BY <2>5, <4>1
      <4>5. CASE dirty[u]
        BY <4>0, <4>1, <4>2, <4>3, <4>4, <4>5
      <4>6. CASE ~dirty[u]
        BY <4>1, <4>2, <4>3, <4>4, <4>6
      <4> QED
        BY <4>5, <4>6
    <3>3. OnceInv'
      <4> SUFFICES ASSUME NEW u \in Sinks, fd'[u] = None, ~(u = "old" /\ phase' = "after"),
                          pc'[u] \notin Chain \cup {"close"}, dir'[0] # None
                   PROVE  Msgs(file', u, dir'[0]) = {}
        BY OnceNext
      <4>1. u # s
        <5>1. pc'[s] = "rmOldest"
          BY <1>0, <2>1 DEF Goto
        <5> QED
          BY <5>1 DEF Chain
      <4>2. pc'[u] = pc[u] /\ fd[u] = None /\ dir' = dir /\ phase' = phase /\ Exists(0)
        BY <1>0, <1>10, <2>1, <4>1, OthersKept DEF SinkIt, Exists
      <4>3. Msgs(file, u, dir[0]) = {} /\ dir[0] \in Files
        BY <1>0, <3>0, <4>2, Constants DEF OnceInv, OnceOf, Exists
      <4>4. Msgs(g, u, dir[0]) = {}
        BY <2>3, <4>2, <4>3
      <4>5. CASE file'[dir[0]] = g[dir[0]]
        BY <4>2, <4>4, <4>5 DEF Msgs
      <4>6. CASE file'[dir[0]] = <<>>
        BY <1>0, <4>2, <4>3, <4>6, MsgsOfLines
      <4> QED
        BY <2>2, <4>3, <4>5, <4>6 DEF Kept
    <3> QED
      BY <3>1, <3>2, <3>3
  <2> QED
    BY <1>1, <2>1, <2>6, <2>7 DEF BoundInv
<1>11. ASSUME NEW s \in Sinks, OpenFile(s) PROVE BoundInv'
  <2>1. fd[s] = None /\ ~dirty[s] /\ pc[s] = "open"
    BY <1>11 DEF TypeInv, ControlInv, ControlOf, OpenFile
  <2>2. PICK f : /\ f = (IF Exists(0) THEN dir[0] ELSE FreshFile)
                 /\ dir' = [dir EXCEPT ![0] = f] /\ fd' = [fd EXCEPT ![s] = f]
    BY <1>11 DEF OpenFile
  <2>3. UNCHANGED <<platform, file, dirty, logCount, phase>>
    BY <1>11 DEF OpenFile
  <2>4. f \in Files /\ (~Exists(0) => ~Referenced(dir, fd, f))
    BY <1>0, <2>1, <2>2, FreshFileUnused, Constants DEF Exists
  <2>5. ~Exists(0) => \A u \in Sinks : Msgs(file, u, f) = {}
    <3>1. ~Exists(0) => file[f] = <<>>
      BY <2>4 DEF OrderInv, FreshInv
    <3> QED
      BY <1>0, <2>4, <3>1, MsgsOfLines
  <2>6. Counted(file)'
    <3>1. Counted(file')
      BY <1>0, <2>3, Zenon
    <3> QED
      BY <3>1 DEF Counted, Count, Msgs
  <2>7. ASSUME platform = "posix" PROVE CapInv' /\ OpenInv' /\ OnceInv'
    <3>0. CapInv /\ OpenInv /\ OnceInv
      BY <2>7 DEF BoundInv
    <3>1. CapInv'
      BY <2>3, <3>0 DEF CapInv, Count, Msgs
    <3>2. Msgs(file, s, f) = {}
      <4>1. CASE Exists(0)
        <5>1. ~(s = "old" /\ phase = "after") /\ pc[s] \notin Chain \cup {"close"}
          BY <1>0, <1>2, <2>1 DEF RetiredInv
        <5> QED
          BY <2>1, <2>2, <3>0, <4>1, <5>1 DEF OnceInv, OnceOf
      <4>2. CASE ~Exists(0)
        BY <2>5, <4>2
      <4> QED
        BY <4>1, <4>2
    <3>3. OpenInv'
      <4> SUFFICES ASSUME NEW u \in Sinks, fd'[u] # None
                   PROVE  Count(file, u, fd'[u]) + (IF dirty[u] THEN 1 ELSE 0) <= logCount[u]
        BY <2>3 DEF OpenInv, Count, Msgs
      <4>1. CASE u = s
        <5>1. fd'[u] = f /\ logCount[u] \in Nat
          BY <1>0, <2>2, <4>1
        <5>2. Count(file, u, f) = 0
          BY <3>2, <4>1, FS_EmptySet DEF Count
        <5> QED
          BY <2>1, <4>1, <5>1, <5>2
      <4>2. CASE u # s
        <5>1. fd'[u] = fd[u]
          BY <1>0, <2>2, <4>2
        <5> QED
          BY <3>0, <5>1 DEF OpenInv
      <4> QED
        BY <4>1, <4>2
    <3>4. OnceInv'
      <4> SUFFICES ASSUME NEW u \in Sinks, fd'[u] = None, ~(u = "old" /\ phase' = "after"),
                          pc'[u] \notin Chain \cup {"close"}, dir'[0] # None
                   PROVE  Msgs(file', u, dir'[0]) = {}
        BY OnceNext
      <4>1. u # s /\ dir'[0] = f
        BY <1>0, <2>2, <2>4, Constants
      <4>2. pc'[u] = pc[u] /\ fd[u] = None /\ file' = file /\ phase' = phase
        BY <1>0, <1>11, <2>2, <2>3, <4>1, OthersKept DEF SinkIt
      <4>3. CASE Exists(0)
        BY <2>2, <3>0, <4>1, <4>2, <4>3 DEF OnceInv, OnceOf
      <4>4. CASE ~Exists(0)
        BY <2>5, <4>1, <4>2, <4>4
      <4> QED
        BY <4>3, <4>4
    <3> QED
      BY <3>1, <3>3, <3>4
  <2> QED
    BY <1>1, <2>3, <2>6, <2>7 DEF BoundInv
<1> QED
  BY <1>4, <1>5, <1>6, <1>7, <1>8, <1>9, <1>10, <1>11 DEF Next, SinkIt

\* No file of the POSIX build ever has more than twice max_count lines, whenever the reload
\* happens and however the sinks interleave: each adds at most max_count to it.
THEOREM OverlapAlwaysBounded == Spec => []OverlapBound
<1>1. TypeInv /\ BoundInv => OverlapBound
  <2> SUFFICES ASSUME TypeInv, BoundInv, platform = "posix", NEW f \in Files
               PROVE  Len(file[f]) <= 2 * MaxCount
    BY DEF OverlapBound
  <2>1. /\ Len(file[f]) = Count(file, "old", f) + Count(file, "new", f)
        /\ Count(file, "old", f) \in Nat /\ Count(file, "new", f) \in Nat
    BY Sides DEF BoundInv, Counted
  <2>2. Count(file, "old", f) <= MaxCount /\ Count(file, "new", f) <= MaxCount
    BY Sides DEF BoundInv, CapInv
  <2> QED
    BY <2>1, <2>2, Constants
<1> QED
  BY <1>1, TypeInit, TypeStep, OrderInit, OrderStep, BoundInit, BoundStep, PTL DEF Spec

-----------------------------------------------------------------------------
(* How much history the new sink keeps once the old one is gone.           *)

\* The new sink's messages under each name, and the one that is buffered.
NewIds(dr, fl) ==
    [j \in Slots |-> IF dr[j] = None THEN {} ELSE Msgs(fl, "new", dr[j])]
Pending == IF dirty["new"] THEN {sent["new"]} ELSE {}

\* Of the messages c to n, the last x are in S or under the names 0 to k of D.
Covered(D, S, c, n, x, k) ==
    \A a \in c..n : a + x > n => a \in S \/ \E j \in Slots : j <= k /\ a \in D[j]

\* The name of the i-th newest full file while files are moved: one less than i
\* until its turn has come.
SlotOf(i, k) == IF i - 1 <= k THEN i - 1 ELSE i

\* Since clean, the open file and i backups hold log_count_ + i * max_count messages.
CoverAtRest ==
    \A i \in 0..MaxFiles :
        Covered(NewIds(dir, file), Pending, clean, sent["new"], logCount["new"] + i * MaxCount, i)
\* stem.log is full.
CoverBefore ==
    \A i \in 1..MaxFiles :
        Covered(NewIds(dir, file), Pending, clean, sent["new"], i * MaxCount, i - 1)
\* The files from k down have still to be moved.
CoverMoving(k) ==
    \A i \in 1..MaxFiles :
        Covered(NewIds(dir, file), Pending, clean, sent["new"], i * MaxCount, SlotOf(i, k))

\* The old sink has closed its file when it is gone, and a call of the new one has been
\* through rotate_on_open.
SoloInv ==
    /\ phase = "after" => fd["old"] = None
    /\ pc["new"] # "idle" => rotDone["new"]

\* A sink that is alone writes to the file named stem.log, finds no such file after a
\* rotation, and moves each file to a name that is free or the last one.
AloneInv ==
    clean > 0 =>
        /\ phase = "after" /\ rotDone["new"]
        /\ fd["new"] # None => fd["new"] = dir[0]
        /\ fd["new"] = None => logCount["new"] = 0
        /\ fd["new"] = None /\ pc["new"] \notin Chain => dir[0] = None
        /\ pc["new"] \in {"exists", "rmTarget", "rename"} /\ src["new"] + 1 < MaxFiles =>
             dir[src["new"] + 1] = None
CoverInv ==
    clean > 0 =>
        /\ pc["new"] \notin Chain => CoverAtRest
        /\ pc["new"] \in {"close", "rmOldest"} => CoverBefore
        /\ pc["new"] \in {"exists", "rmTarget", "rename"} => CoverMoving(src["new"])

IdSets == [Slots -> SUBSET Nat]

\* Fewer messages are under more names.
LEMMA CoverWeaken ==
    ASSUME NEW D \in IdSets, NEW S \in SUBSET Nat, NEW c \in Nat, NEW n \in Nat,
           NEW x \in Nat, NEW k \in Nat, NEW y \in Nat, NEW m \in Nat,
           Covered(D, S, c, n, x, k), y <= x, k <= m
    PROVE  Covered(D, S, c, n, y, m)
BY DEF Covered, Slots

\* Nothing is asked of no messages.
LEMMA CoverNone ==
    ASSUME NEW D, NEW S, NEW c \in Nat, NEW n \in Nat, NEW k, NEW x \in Nat, x = 0 \/ c > n
    PROVE  Covered(D, S, c, n, x, k)
BY DEF Covered

\* What was buffered is in stem.log.
LEMMA CoverSync ==
    ASSUME NEW D \in IdSets, NEW E \in IdSets, NEW S \in SUBSET Nat,
           NEW c \in Nat, NEW n \in Nat, NEW x \in Nat, NEW k \in Nat,
           Covered(D, S, c, n, x, k), E[0] = D[0] \cup S,
           \A i \in Slots : i # 0 => E[i] = D[i]
    PROVE  Covered(E, {}, c, n, x, k)
BY Constants DEF Covered

\* A new message is one more that can be read.
LEMMA CoverAppend ==
    ASSUME NEW D \in IdSets, NEW c \in Nat, NEW n \in Nat, NEW x \in Nat, NEW k \in Nat,
           Covered(D, {}, c, n, x, k)
    PROVE  Covered(D, {n + 1}, c, n + 1, x + 1, k)
BY DEF Covered

\* A name that is not counted on, or is free, may be removed.
LEMMA CoverRemove ==
    ASSUME NEW D \in IdSets, NEW E \in IdSets, NEW S \in SUBSET Nat,
           NEW c \in Nat, NEW n \in Nat, NEW x \in Nat, NEW k \in Nat, NEW p \in Slots,
           Covered(D, S, c, n, x, k), p > k \/ D[p] = {},
           \A i \in Slots : i # p => E[i] = D[i]
    PROVE  Covered(E, S, c, n, x, k)
BY Constants DEF Covered

\* A file moves to a name that is free, or that is not counted on.
LEMMA CoverMove ==
    ASSUME NEW D \in IdSets, NEW E \in IdSets, NEW S \in SUBSET Nat,
           NEW c \in Nat, NEW n \in Nat, NEW x \in Nat, NEW k \in Nat, NEW m \in Nat,
           NEW p \in Slots, p + 1 \in Slots,
           Covered(D, S, c, n, x, k), k <= m, p <= k => p + 1 <= m,
           p + 1 > k \/ D[p + 1] = {}, E[p + 1] = D[p],
           \A i \in Slots : i # p /\ i # p + 1 => E[i] = D[i]
    PROVE  Covered(E, S, c, n, x, m)
<1> SUFFICES ASSUME NEW a \in c..n, a + x > n, a \notin S
             PROVE  \E j \in Slots : j <= m /\ a \in E[j]
  BY DEF Covered
<1>1. PICK j \in Slots : j <= k /\ a \in D[j]
  BY DEF Covered
<1>2. CASE j = p
  BY <1>1, <1>2
<1>3. CASE j # p
  <2>1. j # p + 1
    BY <1>1 DEF Slots
  <2> QED  BY <1>1, <1>3, <2>1 DEF Slots
<1> QED  BY <1>2, <1>3

\* Below a full file the same messages are one name closer.
LEMMA CoverFull ==
    ASSUME NEW D \in IdSets, NEW S \in SUBSET Nat, NEW c \in Nat, NEW n \in Nat,
           NEW F \in Nat, NEW M \in Nat, NEW l \in Nat, l >= M,
           \A i \in 0..F : Covered(D, S, c, n, l + i * M, i)
    PROVE  \A i \in 1..F : Covered(D, S, c, n, i * M, i - 1)
<1> SUFFICES ASSUME NEW i \in 1..F PROVE Covered(D, S, c, n, i * M, i - 1)
  OBVIOUS
<1>1. i - 1 \in 0..F /\ i - 1 \in Nat /\ i \in Nat
  OBVIOUS
<1>2. i * M \in Nat /\ (i - 1) * M \in Nat /\ i * M = (i - 1) * M + M
  BY <1>1
<1>3. Covered(D, S, c, n, l + (i - 1) * M, i - 1)
  BY <1>1
<1>4. l + (i - 1) * M \in Nat /\ i * M <= l + (i - 1) * M
  BY <1>2
<1> QED  BY <1>1, <1>2, <1>3, <1>4, CoverWeaken

\* Both facts of SoloInv hold initially.
LEMMA SoloInit == Init => SoloInv /\ AloneInv /\ CoverInv
BY Sides DEF Init, SoloInv, AloneInv, CoverInv

\* Every step keeps SoloInv.
LEMMA SoloStep ==
    ASSUME TypeInv, RetiredInv, SoloInv, [Next]_vars
    PROVE  SoloInv'
<1> USE DEF settings, sinkVars, control, reload
<1>0. /\ fd \in [Sinks -> Files \cup {None}] /\ rotDone \in [Sinks -> BOOLEAN]
      /\ pc \in [Sinks -> Labels]
  BY DEF TypeInv, FilesOK, SinksOK, ControlOK
<1>1. CASE Post \/ Reload \/ UNCHANGED vars
  BY <1>1 DEF Post, Reload, vars, SoloInv
<1>2. CASE Retire
  BY <1>0, <1>2, Sides DEF Retire, SoloInv
<1>3. ASSUME NEW s \in Sinks, Log(s) \/ SinkIt(s) PROVE SoloInv'
  <2>1. UNCHANGED <<posted, phase>>
    BY <1>3 DEF Log, SinkIt, EnsureOpened, OpenFile, CheckBeforeWrite, Write, Flush, Close,
                RemoveOldest, SourceExists, RemoveTarget, Rename
  <2>2. CASE s = "old"
    <3>1. pc["old"] # "idle" \/ sent["old"] < posted
      BY <1>3, <2>2 DEF Log, HasMessage, SinkIt, EnsureOpened, OpenFile, CheckBeforeWrite, Write,
                        Flush, Close, RemoveOldest, SourceExists, RemoveTarget, Rename
    <3>2. phase # "after"
      BY <3>1, Sides DEF RetiredInv, TypeInv, SinksOK, ReloadOK
    <3>3. pc'["new"] = pc["new"] /\ (rotDone["new"] => rotDone'["new"])
      <4>1. pc'["new"] = pc["new"]
        BY <1>3, <2>2, OthersKept, Sides DEF TypeInv
      <4>2. rotDone' = rotDone \/ rotDone' = [rotDone EXCEPT ![s] = TRUE]
        BY <1>3 DEF Log, SinkIt, EnsureOpened, OpenFile, CheckBeforeWrite, Write, Flush, Close,
                    RemoveOldest, SourceExists, RemoveTarget, Rename
      <4> QED  BY <1>0, <2>2, <4>1, <4>2, Sides
    <3> QED  BY <2>1, <3>2, <3>3 DEF SoloInv
  <2>3. CASE s = "new"
    <3>1. fd'["old"] = fd["old"]
      <4>1. fd' = fd \/ \E f : fd' = [fd EXCEPT ![s] = f]
        BY <1>3 DEF Log, SinkIt, EnsureOpened, OpenFile, CheckBeforeWrite, Write, Flush, Close,
                    RemoveOldest, SourceExists, RemoveTarget, Rename
      <4> QED  BY <1>0, <2>3, <4>1, Sides
    <3>2. rotDone'["new"]
      <4>1. CASE Log(s)
        BY <1>0, <2>3, <4>1, Sides DEF Log
      <4>2. CASE SinkIt(s)
        <5>1. rotDone' = rotDone /\ pc[s] # "idle"
          BY <4>2 DEF SinkIt, EnsureOpened, OpenFile, CheckBeforeWrite, Write, Flush, Close,
                      RemoveOldest, SourceExists, RemoveTarget, Rename
        <5> QED  BY <2>3, <5>1 DEF SoloInv
      <4> QED  BY <1>3, <4>1, <4>2
    <3> QED  BY <2>1, <3>1, <3>2 DEF SoloInv
  <2> QED  BY <2>2, <2>3 DEF Sinks
<1> QED  BY <1>1, <1>2, <1>3 DEF Next

\* Once the old sink is gone only the new one takes steps.
LEMMA OnlyNew ==
    ASSUME TypeInv, RetiredInv, phase = "after", Next
    PROVE  Log("new") \/ SinkIt("new")
<1>1. ~Post /\ ~Reload /\ ~Retire
  BY DEF Post, Reload, Retire
<1>2. ~Log("old") /\ ~SinkIt("old")
  <2>1. pc["old"] = "idle" /\ sent["old"] = posted /\ posted \in Nat
    BY DEF RetiredInv, TypeInv, ReloadOK
  <2> QED
    BY <2>1 DEF Log, HasMessage, SinkIt, EnsureOpened, OpenFile, CheckBeforeWrite, Write,
                Flush, Close, RemoveOldest, SourceExists, RemoveTarget, Rename
<1> QED  BY <1>1, <1>2 DEF Next, Sinks

-----------------------------------------------------------------------------
(* What each step of the new sink does to its messages.                    *)

New == NewIds(dir, file)

\* The sets of messages are sets of numbers.
LEMMA NewIdsType ==
    ASSUME NEW dr \in [Slots -> Files \cup {None}], NEW fl \in [Files -> Lines]
    PROVE  NewIds(dr, fl) \in IdSets
<1> SUFFICES ASSUME NEW j \in Slots, dr[j] # None PROVE Msgs(fl, "new", dr[j]) \subseteq Nat
  BY DEF NewIds, IdSets
<1>1. dr[j] \in Files
  OBVIOUS
<1> QED  BY <1>1, MsgsOfLines, Sides

\* What is under a name depends on the name and the contents of its file only.
LEMMA NewIdsSame ==
    ASSUME NEW dr, NEW dr2, NEW fl, NEW fl2, NEW j \in Slots, NEW k \in Slots, dr2[j] = dr[k],
           dr[k] # None => fl2[dr[k]] = fl[dr[k]]
    PROVE  NewIds(dr2, fl2)[j] = NewIds(dr, fl)[k]
BY DEF NewIds, Msgs

KeepsNew == New' = New /\ Pending' = Pending /\ sent'["new"] = sent["new"]
SyncsNew ==
    /\ New'[0] = New[0] \cup Pending /\ \A j \in Slots : j # 0 => New'[j] = New[j]
    /\ Pending' = {} /\ sent'["new"] = sent["new"]
AppendsNew ==
    /\ New' = New /\ Pending = {} /\ Pending' = {sent["new"] + 1}
    /\ sent'["new"] = sent["new"] + 1
RemovesNew(k) ==
    /\ dir' = [dir EXCEPT ![k] = None]
    /\ \A j \in Slots : j # k => New'[j] = New[j]
    /\ Pending' = Pending /\ sent'["new"] = sent["new"]
MovesNew(k) ==
    /\ dir' = [dir EXCEPT ![k + 1] = dir[k], ![k] = None]
    /\ New'[k + 1] = New[k] /\ \A j \in Slots : j # k /\ j # k + 1 => New'[j] = New[j]
    /\ Pending' = Pending /\ sent'["new"] = sent["new"]

\* The effect of the new sink's steps once it is alone.
LEMMA NewEffect ==
    ASSUME TypeInv, TypeInv', OrderInv, RetiredInv, SoloInv, AloneInv, clean > 0
    PROVE  /\ Log("new") \/ EnsureOpened("new") \/ CheckBeforeWrite("new")
                \/ SourceExists("new") => KeepsNew /\ dir' = dir
           /\ OpenFile("new") => KeepsNew
           /\ Write("new") => AppendsNew /\ dir' = dir
           /\ Flush("new") => (KeepsNew \/ SyncsNew) /\ dir' = dir
           /\ Close("new") => (KeepsNew \/ SyncsNew) /\ dir' = dir
           /\ RemoveOldest("new") => RemovesNew(MaxFiles)
           /\ RemoveTarget("new") => RemovesNew(src["new"] + 1)
           /\ Rename("new") => MovesNew(src["new"]) \/ (KeepsNew /\ dir' = dir /\ dir[src["new"]] = None)
<1> USE DEF settings, sinkVars, control, reload
<1>0. /\ FilesOK /\ SinksOK /\ ControlOK /\ ControlOf("new") /\ ControlOf("old")
      /\ dir \in [Slots -> Files \cup {None}] /\ dir' \in [Slots -> Files \cup {None}]
      /\ Distinct(dir) /\ file \in [Files -> Lines] /\ file' \in [Files -> Lines]
      /\ fd \in [Sinks -> Files \cup {None}] /\ fd' \in [Sinks -> Files \cup {None}]
      /\ sent \in [Sinks -> Nat] /\ dirty \in [Sinks -> BOOLEAN]
      /\ "new" \in Sinks /\ "old" \in Sinks /\ 0 \in Slots
  BY Sides, Constants DEF TypeInv, FilesOK, SinksOK, ControlInv
<1>1. /\ phase = "after" /\ fd["old"] = None /\ ~dirty["old"]
      /\ fd["new"] # None => fd["new"] = dir[0]
      /\ pc["old"] = "idle"
  BY <1>0 DEF AloneInv, SoloInv, ControlOf, RetiredInv
<1>2. ASSUME UNCHANGED <<dir, file, dirty, sent>> PROVE KeepsNew /\ dir' = dir
  BY <1>2 DEF KeepsNew, New, NewIds, Msgs, Pending
<1>3. Log("new") \/ EnsureOpened("new") \/ CheckBeforeWrite("new") \/ SourceExists("new")
        => KeepsNew /\ dir' = dir
  BY <1>2 DEF Log, EnsureOpened, CheckBeforeWrite, SourceExists
<1>4. ASSUME OpenFile("new") PROVE KeepsNew
  <2>1. UNCHANGED <<file, dirty, sent>> /\ fd["new"] = None /\ pc["new"] = "open"
    BY <1>0, <1>4 DEF OpenFile, ControlOf
  <2>2. dir[0] = None
    BY <2>1 DEF AloneInv, Chain
  <2>3. dir' = [dir EXCEPT ![0] = FreshFile]
    BY <1>4, <2>2 DEF OpenFile, Exists
  <2>4. FreshFile \in Files /\ file[FreshFile] = <<>>
    BY <1>0, <2>1, <2>2, FreshFileUnused DEF Exists, OrderInv, FreshInv
  <2>5. Msgs(file, "new", FreshFile) = {}
    BY <1>0, <2>4, MsgsOfLines
  <2>6. New'[0] = New[0]
    BY <1>0, <2>1, <2>2, <2>3, <2>5 DEF New, NewIds
  <2>7. \A j \in Slots : j # 0 => New'[j] = New[j]
    BY <1>0, <2>1, <2>3 DEF New, NewIds, Msgs
  <2>8. New' = New
    BY <2>6, <2>7 DEF New, NewIds
  <2> QED  BY <2>1, <2>8 DEF KeepsNew, Pending
<1>5. ASSUME Write("new") PROVE AppendsNew /\ dir' = dir
  <2>1. UNCHANGED <<dir, file>> /\ dirty'["new"] /\ sent'["new"] = sent["new"] + 1
    BY <1>0, <1>5 DEF Write
  <2>2. ~dirty["new"]
    BY <1>0, <1>5 DEF Write, ControlOf
  <2> QED  BY <2>1, <2>2 DEF AppendsNew, New, NewIds, Msgs, Pending
<1>6. ASSUME NEW g \in [Files -> Lines], g = Flushed("new"),
             \A j \in Slots : dir[j] # None => file'[dir[j]] = g[dir[j]],
             dir' = dir, ~dirty'["new"], sent' = sent
      PROVE  KeepsNew \/ SyncsNew
  <2>1. Pending' = {}
    BY <1>6 DEF Pending
  <2>2. CASE ~dirty["new"]
    <3>1. g = file /\ Pending = {}
      BY <1>6, <2>2 DEF Flushed, Pending
    <3>2. ASSUME NEW j \in Slots PROVE New'[j] = New[j]
      <4>1. dir'[j] = dir[j]
        BY <1>6
      <4>2. dir[j] # None => file'[dir[j]] = file[dir[j]]
        BY <1>6, <3>1
      <4>3. NewIds(dir', file')[j] = NewIds(dir, file)[j]
        BY <4>1, <4>2 DEF NewIds, Msgs
      <4> QED  BY <4>3 DEF New
    <3>3. New' = New
      BY <3>2 DEF New, NewIds
    <3> QED  BY <1>6, <2>1, <3>1, <3>3 DEF KeepsNew
  <2>3. CASE dirty["new"]
    <3>1. Pending = {sent["new"]} /\ fd["new"] = dir[0] /\ dir[0] \in Files
      BY <1>0, <1>1, <2>3 DEF Pending, ControlOf
    <3>2. Appended(file, g, dir[0], "new", sent["new"])
      <4>1. dirty["new"] => fd["new"] # None
        BY <1>0 DEF ControlOf
      <4>2. /\ g[fd["new"]] = Append(file[fd["new"]], <<"new", sent["new"]>>)
            /\ \A f \in Files : f # fd["new"] => g[f] = file[f]
        BY <1>0, <1>6, <2>3, <4>1, FlushedTyped
      <4> QED  BY <3>1, <4>2 DEF Appended
    <3>3. MsgsAppended(file, g, dir[0], "new", sent["new"])
      BY <1>0, <1>6, <3>1, <3>2, MsgsAppend
    <3>4. Msgs(g, "new", dir[0]) = Msgs(file, "new", dir[0]) \cup {sent["new"]}
      BY <1>0, <3>1, <3>3 DEF MsgsAppended
    <3>5. ASSUME NEW j \in Slots, j # 0, dir[j] # None
          PROVE  Msgs(g, "new", dir[j]) = Msgs(file, "new", dir[j])
      <4>1. dir[j] \in Files /\ dir[j] # dir[0]
        BY <1>0, <3>5 DEF Distinct
      <4> QED  BY <1>0, <3>3, <4>1 DEF MsgsAppended
    <3>6. \A j \in Slots : dir[j] # None => Msgs(file', "new", dir[j]) = Msgs(g, "new", dir[j])
      BY <1>6 DEF Msgs
    <3>7. New'[0] = New[0] \cup Pending
      BY <1>0, <1>6, <3>1, <3>4, <3>6, Constants DEF New, NewIds
    <3>8. \A j \in Slots : j # 0 => New'[j] = New[j]
      BY <1>6, <3>5, <3>6 DEF New, NewIds
    <3> QED  BY <1>6, <2>1, <3>7, <3>8 DEF SyncsNew
  <2> QED  BY <2>2, <2>3
<1>7. Flushed("new") \in [Files -> Lines]
  BY <1>0, FlushedTyped DEF ControlOf
<1>8. ASSUME Flush("new") PROVE (KeepsNew \/ SyncsNew) /\ dir' = dir
  <2>1. dir' = dir /\ sent' = sent
    BY <1>8 DEF Flush
  <2>2. CASE fd["new"] # None
    <3>1. file' = Flushed("new") /\ ~dirty'["new"]
      BY <1>0, <1>8, <2>2 DEF Flush
    <3> QED  BY <2>1, <3>1, <1>6, <1>7
  <2>3. CASE fd["new"] = None
    <3>1. file' = Flushed("old") /\ dirty' = [dirty EXCEPT !["old"] = FALSE]
      BY <1>8, <2>3, Sides DEF Flush, Other
    <3>2. file' = file /\ dirty' = dirty
      BY <1>0, <1>1, <3>1 DEF Flushed
    <3> QED  BY <2>1, <3>2, <1>2
  <2> QED  BY <2>2, <2>3
<1>9. ASSUME Close("new") PROVE (KeepsNew \/ SyncsNew) /\ dir' = dir
  <2>1. dir' = dir /\ sent' = sent /\ ~dirty'["new"]
        /\ \A f \in Files : file'[f] = IF Referenced(dir, fd', f) THEN Flushed("new")[f] ELSE <<>>
    BY <1>0, <1>9 DEF Close
  <2>2. \A j \in Slots : dir[j] # None => file'[dir[j]] = Flushed("new")[dir[j]]
    BY <1>0, <2>1 DEF Referenced
  <2> QED  BY <2>1, <2>2, <1>6, <1>7
<1>10. ASSUME fd["new"] = None PROVE \A i \in Slots : Movable(i)
  BY <1>1, <1>10 DEF Movable, Held, Sinks
<1>11. ASSUME NEW k \in Slots, SetDir(Removed(k)), fd["new"] = None, UNCHANGED <<dirty, sent>>
       PROVE  RemovesNew(k)
  <2>1. dir' = [dir EXCEPT ![k] = None]
    BY <1>10, <1>11 DEF SetDir, Removed
  <2>2. \A f \in Files : file'[f] = IF Referenced(dir', fd, f) THEN file[f] ELSE <<>>
    BY <1>11 DEF SetDir
  <2>3. ASSUME NEW j \in Slots, j # k PROVE New'[j] = New[j]
    <3>1. dir'[j] = dir[j]
      BY <1>0, <2>1, <2>3
    <3>2. dir[j] # None => file'[dir[j]] = file[dir[j]]
      BY <1>0, <2>2, <3>1 DEF Referenced
    <3> QED  BY <3>1, <3>2, NewIdsSame DEF New
  <2> QED  BY <1>11, <2>1, <2>3 DEF RemovesNew, Pending
<1>12. src["new"] \in Slots /\ src["new"] + 1 \in Slots /\ MaxFiles \in Slots /\ src["new"] \in Nat
  BY <1>0, Constants DEF ControlOK
<1>13. pc["new"] \in Chain => fd["new"] = None
  BY <1>0 DEF ControlOf
<1>14. RemoveOldest("new") => RemovesNew(MaxFiles)
  BY <1>11, <1>12, <1>13 DEF RemoveOldest, Chain
<1>15. RemoveTarget("new") => RemovesNew(src["new"] + 1)
  BY <1>11, <1>12, <1>13 DEF RemoveTarget, Chain
<1>16. ASSUME Rename("new")
       PROVE  MovesNew(src["new"]) \/ (KeepsNew /\ dir' = dir /\ dir[src["new"]] = None)
  <2>1. PICK k \in Slots : k = src["new"] /\ k + 1 \in Slots /\ k # k + 1
    BY <1>12
  <2>2. fd["new"] = None /\ UNCHANGED <<dirty, sent>>
    BY <1>13, <1>16 DEF Rename, Chain
  <2>3. Movable(k) /\ Movable(k + 1) /\ ~MayBeRead("new", k)
    BY <1>1, <1>10, <2>1, <2>2 DEF MayBeRead, Other
  <2>4. CASE dir[k] = None
    <3>1. UNCHANGED <<dir, file>>
      BY <1>16, <2>1, <2>4 DEF Rename, Exists
    <3> QED  BY <1>2, <2>1, <2>2, <2>4, <3>1
  <2>5. CASE dir[k] # None
    <3>1. SetDir([dir EXCEPT ![k + 1] = dir[k], ![k] = None])
      BY <1>16, <2>1, <2>3, <2>5 DEF Rename, Exists
    <3>2. dir' = [dir EXCEPT ![k + 1] = dir[k], ![k] = None]
      BY <3>1 DEF SetDir
    <3>3. \A f \in Files : file'[f] = IF Referenced(dir', fd, f) THEN file[f] ELSE <<>>
      BY <3>1 DEF SetDir
    <3>4. dir'[k + 1] = dir[k] /\ \A j \in Slots : j # k /\ j # k + 1 => dir'[j] = dir[j]
      BY <1>0, <2>1, <3>2
    <3>5. New'[k + 1] = New[k]
      <4>1. dir[k] # None => file'[dir[k]] = file[dir[k]]
        BY <1>0, <2>1, <3>3, <3>4 DEF Referenced
      <4>2. PICK m \in Slots : m = k + 1
        BY <2>1
      <4>3. dir'[m] = dir[k]
        BY <3>4, <4>2
      <4>4. New'[m] = New[k]
        <5>1. NewIds(dir', file')[m] = NewIds(dir, file)[k]
          BY <2>5, <4>1, <4>3 DEF NewIds, Msgs
        <5> QED  BY <5>1 DEF New
      <4> QED  BY <4>2, <4>4
    <3>6. ASSUME NEW j \in Slots, j # k, j # k + 1 PROVE New'[j] = New[j]
      <4>1. dir[j] # None => file'[dir[j]] = file[dir[j]]
        BY <1>0, <3>3, <3>4, <3>6 DEF Referenced
      <4> QED  BY <3>4, <3>6, <4>1, NewIdsSame DEF New
    <3> QED  BY <2>1, <2>2, <3>2, <3>5, <3>6 DEF MovesNew, Pending
  <2> QED  BY <2>4, <2>5
<1> QED
  BY <1>3, <1>4, <1>5, <1>8, <1>9, <1>14, <1>15, <1>16

-----------------------------------------------------------------------------
(* Every step of the lone sink keeps what the invariants say.              *)

\* What is known of the state while the new sink is alone.
LEMMA AloneFacts ==
    ASSUME TypeInv
    PROVE  /\ New \in IdSets /\ Pending \in SUBSET Nat /\ sent["new"] \in Nat
           /\ logCount["new"] \in Nat /\ clean \in Nat
           /\ src["new"] \in Slots /\ src["new"] + 1 \in Slots /\ src["new"] \in Nat
<1>1. dir \in [Slots -> Files \cup {None}] /\ file \in [Files -> Lines]
  BY DEF TypeInv, FilesOK
<1>2. New \in IdSets
  BY <1>1, NewIdsType DEF New
<1>3. sent["new"] \in Nat /\ logCount["new"] \in Nat /\ clean \in Nat
  BY Sides, Constants DEF TypeInv, SinksOK, ReloadOK
<1>4. Pending \in SUBSET Nat
  BY <1>3 DEF Pending
<1>5. src["new"] \in 0..(MaxFiles - 1)
  BY Sides DEF TypeInv, ControlOK
<1> QED  BY <1>2, <1>3, <1>4, <1>5, Constants

\* The first file the new sink opens after the overlap: nothing is asked of it yet.
LEMMA CleanStart ==
    ASSUME TypeInv, TypeInv', SoloInv, clean = 0, clean' > 0, Next
    PROVE  AloneInv' /\ CoverInv'
<1> USE DEF settings, sinkVars, control, reload
<1>1. OpenFile("new") /\ phase = "after" /\ clean' = sent["new"] + 1
  <2>1. ASSUME NEW s \in Sinks, Log(s) \/ SinkIt(s), ~OpenFile(s) PROVE clean' = clean
    BY <2>1 DEF Log, SinkIt, EnsureOpened, CheckBeforeWrite, Write, Flush, Close,
                RemoveOldest, SourceExists, RemoveTarget, Rename
  <2>2. Post \/ Reload \/ Retire => clean' = clean
    BY DEF Post, Reload, Retire
  <2>3. PICK s \in Sinks : OpenFile(s)
    BY <2>1, <2>2 DEF Next
  <2>4. s = "new" /\ phase = "after" /\ clean' = sent[s] + 1
    BY <2>3 DEF OpenFile
  <2> QED  BY <2>3, <2>4
<1>2. /\ fd \in [Sinks -> Files \cup {None}] /\ dir \in [Slots -> Files \cup {None}]
      /\ FilesOK /\ ControlOf("new") /\ pc \in [Sinks -> Labels] /\ "new" \in Sinks
  BY Sides DEF TypeInv, FilesOK, ControlOK, ControlInv
<1>3. pc["new"] = "open" /\ fd["new"] = None
  BY <1>1, <1>2 DEF OpenFile, ControlOf
<1>4. pc'["new"] \in {"check", "write"} /\ phase' = phase /\ rotDone' = rotDone /\ sent' = sent
  BY <1>1, <1>2 DEF OpenFile, Goto, TypeInv, ControlOK
<1>5. pc'["new"] \notin Chain \cup {"close"}
  BY <1>4 DEF Chain
<1>6. fd'["new"] = dir'[0] /\ fd'["new"] # None
  <2>1. PICK f : /\ f = (IF Exists(0) THEN dir[0] ELSE FreshFile)
                 /\ dir' = [dir EXCEPT ![0] = f] /\ fd' = [fd EXCEPT !["new"] = f]
    BY <1>1 DEF OpenFile
  <2>2. f # None
    BY <1>2, <1>3, <2>1, FreshFileUnused, Constants DEF Exists
  <2> QED  BY <1>2, <2>1, <2>2, Constants
<1>7. AloneInv'
  <2>1. rotDone["new"]
    BY <1>3 DEF SoloInv
  <2>2. pc'["new"] \notin {"exists", "rmTarget", "rename"}
    BY <1>4
  <2> QED  BY <1>1, <1>4, <1>6, <2>1, <2>2 DEF AloneInv
<1>8. CoverAtRest'
  <2> SUFFICES ASSUME NEW i \in 0..MaxFiles
               PROVE  Covered(New', Pending', clean', sent'["new"], logCount'["new"] + i * MaxCount, i)
    BY DEF CoverAtRest, New
  <2>1. sent["new"] \in Nat /\ logCount'["new"] \in Nat
    BY AloneFacts, Sides, Constants DEF TypeInv, SinksOK
  <2>2. i * MaxCount \in Nat
    BY Constants
  <2>3. logCount'["new"] + i * MaxCount \in Nat
    BY <2>1, <2>2
  <2>4. clean' \in Nat /\ clean' > sent'["new"] /\ sent'["new"] \in Nat
    BY <1>1, <1>4, <2>1
  <2> QED  BY <2>3, <2>4, CoverNone
<1>9. CoverInv'
  BY <1>4, <1>5, <1>8 DEF CoverInv, Chain
<1> QED  BY <1>7, <1>9

\* Every step of the new sink keeps what is known of its files.
LEMMA AloneStep ==
    ASSUME TypeInv, TypeInv', OrderInv, RetiredInv, SoloInv, AloneInv, clean > 0, Next
    PROVE  AloneInv'
<1> USE DEF settings, sinkVars, control, reload
<1>1. Log("new") \/ SinkIt("new")
  BY OnlyNew DEF AloneInv
<1>2. /\ phase = "after" /\ rotDone["new"]
      /\ fd["new"] # None => fd["new"] = dir[0]
      /\ fd["new"] = None => logCount["new"] = 0
      /\ fd["new"] = None /\ pc["new"] \notin Chain => dir[0] = None
      /\ pc["new"] \in {"exists", "rmTarget", "rename"} /\ src["new"] + 1 < MaxFiles =>
           dir[src["new"] + 1] = None
  BY DEF AloneInv
<1>3. /\ fd \in [Sinks -> Files \cup {None}] /\ dir \in [Slots -> Files \cup {None}]
      /\ rotDone \in [Sinks -> BOOLEAN] /\ logCount \in [Sinks -> 0..MaxCount]
      /\ FilesOK /\ ControlOf("new") /\ ControlOK /\ pc \in [Sinks -> Labels] /\ "new" \in Sinks
      /\ src \in [Sinks -> 0..(MaxFiles - 1)] /\ ret["new"] \in {"ensure", "open", "flush"}
      /\ cont["new"] \in {"check", "write"} /\ 0 \in Slots
  BY Sides, Constants DEF TypeInv, FilesOK, SinksOK, ControlOK, ControlInv
<1>4. phase' = phase /\ rotDone'["new"]
  BY <1>1, <1>2, <1>3 DEF Log, SinkIt, EnsureOpened, OpenFile, CheckBeforeWrite, Write, Flush,
     Close, RemoveOldest, SourceExists, RemoveTarget, Rename
<1>c. {"exists", "rmTarget", "rename"} \subseteq Chain
      /\ \A l \in {"idle", "ensure", "open", "check", "write", "flush", "close"} : l \notin Chain
  BY DEF Chain
<1>5. SUFFICES /\ fd'["new"] # None => fd'["new"] = dir'[0]
               /\ fd'["new"] = None => logCount'["new"] = 0
               /\ fd'["new"] = None /\ pc'["new"] \notin Chain => dir'[0] = None
               /\ pc'["new"] \in {"exists", "rmTarget", "rename"} /\ src'["new"] + 1 < MaxFiles =>
                    dir'[src'["new"] + 1] = None
  BY <1>2, <1>4 DEF AloneInv
<1>6. ASSUME Log("new") \/ CheckBeforeWrite("new") \/ Write("new") \/ Flush("new")
      PROVE  /\ fd' = fd /\ dir' = dir
             /\ pc["new"] \in {"idle", "check", "write", "flush"}
             /\ pc'["new"] \in {"close", "ensure", "write", "flush", "idle"}
             /\ fd["new"] = None => logCount'["new"] = logCount["new"]
  <2>1. fd' = fd /\ dir' = dir /\ pc["new"] \in {"idle", "check", "write", "flush"}
    BY <1>6 DEF Log, CheckBeforeWrite, Write, Flush
  <2>2. pc'["new"] \in {"close", "ensure", "write", "flush", "idle"}
    BY <1>6, <1>3 DEF Log, CheckBeforeWrite, Write, Flush, Goto, CallRotate
  <2>3. fd["new"] = None => ~Write("new")
    BY <1>3 DEF ControlOf, Write
  <2>4. ~Write("new") => logCount' = logCount
    BY <1>6 DEF Log, CheckBeforeWrite, Flush
  <2> QED  BY <2>1, <2>2, <2>3, <2>4
<1>7. CASE Log("new") \/ CheckBeforeWrite("new") \/ Write("new") \/ Flush("new")
  <2>1. pc'["new"] \notin {"exists", "rmTarget", "rename"}
    BY <1>6, <1>7
  <2> QED  BY <1>2, <1>6, <1>7, <1>c, <2>1
<1>8. CASE EnsureOpened("new")
  <2>1. fd' = fd /\ dir' = dir /\ pc["new"] = "ensure"
    BY <1>8 DEF EnsureOpened
  <2>2. CASE fd["new"] # None
    <3>1. pc'["new"] = cont["new"]
      BY <1>3, <1>8, <2>2 DEF EnsureOpened, Goto
    <3>2. pc'["new"] \notin {"exists", "rmTarget", "rename"}
      BY <1>3, <3>1
    <3> QED  BY <1>2, <2>1, <2>2, <3>2
  <2>3. CASE fd["new"] = None
    <3>1. dir[0] = None
      BY <1>2, <1>c, <2>1, <2>3
    <3>2. pc'["new"] = "open" /\ logCount'["new"] = 0
      BY <1>3, <1>8, <2>3, <3>1, Constants DEF EnsureOpened, Exists, Goto
    <3> QED  BY <1>2, <2>1, <2>3, <3>1, <3>2
  <2> QED  BY <2>2, <2>3
<1>9. CASE OpenFile("new")
  <2>1. PICK f : /\ f = (IF Exists(0) THEN dir[0] ELSE FreshFile)
                 /\ dir' = [dir EXCEPT ![0] = f] /\ fd' = [fd EXCEPT !["new"] = f]
    BY <1>9 DEF OpenFile
  <2>2. fd["new"] = None
    BY <1>3, <1>9 DEF OpenFile, ControlOf
  <2>3. f # None
    BY <1>3, <2>1, <2>2, FreshFileUnused, Constants DEF Exists
  <2>4. fd'["new"] = dir'[0] /\ fd'["new"] # None
    BY <1>3, <2>1, <2>3
  <2>5. pc'["new"] \notin {"exists", "rmTarget", "rename"}
    BY <1>3, <1>9 DEF OpenFile, Goto
  <2> QED  BY <2>4, <2>5
<1>10. CASE Close("new")
  <2>1. fd'["new"] = None /\ logCount'["new"] = 0 /\ pc'["new"] = "rmOldest"
    BY <1>3, <1>10 DEF Close, Goto
  <2> QED  BY <2>1 DEF Chain
<1>11. CASE RemoveOldest("new")
  <2>1. /\ fd' = fd /\ logCount' = logCount /\ pc'["new"] = "exists"
        /\ src'["new"] = MaxFiles - 1 /\ pc["new"] = "rmOldest"
    BY <1>3, <1>11 DEF RemoveOldest
  <2>2. fd["new"] = None
    BY <1>3, <2>1 DEF ControlOf, Chain
  <2> QED  BY <1>2, <1>c, <2>1, <2>2, Constants
<1>12. CASE RemoveTarget("new")
  <2>1. /\ fd' = fd /\ logCount' = logCount /\ pc'["new"] = "rename"
        /\ src' = src /\ pc["new"] = "rmTarget"
    BY <1>3, <1>12 DEF RemoveTarget, Goto
  <2>2. fd["new"] = None
    BY <1>3, <2>1 DEF ControlOf, Chain
  <2>3. dir' = [dir EXCEPT ![src["new"] + 1] = None] /\ src["new"] + 1 \in Slots
    BY <1>12, NewEffect, AloneFacts DEF RemovesNew
  <2> QED  BY <1>2, <1>3, <1>c, <2>1, <2>2, <2>3
<1>13. CASE SourceExists("new") \/ Rename("new")
  <2>1. /\ fd' = fd /\ logCount' = logCount /\ pc["new"] \in {"exists", "rename"}
    BY <1>13 DEF SourceExists, Rename
  <2>2. fd["new"] = None
    BY <1>3, <1>c, <2>1 DEF ControlOf
  <2>3. src["new"] \in Slots /\ src["new"] + 1 \in Slots /\ src["new"] \in Nat
    BY AloneFacts
  <2>4. CASE SourceExists("new") /\ dir[src["new"]] # None
    <3>1. pc'["new"] = "rmTarget" /\ src' = src /\ dir' = dir /\ pc["new"] = "exists"
      BY <1>3, <2>4 DEF SourceExists, Exists, Goto
    <3> QED  BY <1>2, <1>c, <2>1, <2>2, <3>1
  <2>5. CASE NextSource("new") /\ dir'[src["new"]] = None
    <3>1. CASE src["new"] = 0
      <4>1. pc'["new"] = ret["new"]
        BY <1>3, <2>5, <3>1 DEF NextSource, Goto
      <4>2. pc'["new"] \notin {"exists", "rmTarget", "rename"}
        BY <1>3, <4>1
      <4> QED  BY <1>2, <2>1, <2>2, <2>5, <3>1, <4>2
    <3>2. CASE src["new"] # 0
      <4>1. pc'["new"] = "exists" /\ src'["new"] = src["new"] - 1
        BY <1>3, <2>5, <3>2 DEF NextSource
      <4>2. src'["new"] + 1 = src["new"]
        BY <2>3, <4>1
      <4> QED  BY <1>2, <1>c, <2>1, <2>2, <2>5, <4>1, <4>2
    <3> QED  BY <3>1, <3>2
  <2>6. SourceExists("new") /\ dir[src["new"]] = None => NextSource("new") /\ dir'[src["new"]] = None
    BY DEF SourceExists, Exists
  <2>7. Rename("new") => NextSource("new") /\ dir'[src["new"]] = None
    <3>1. Rename("new") => NextSource("new")
      BY DEF Rename
    <3>2. MovesNew(src["new"]) => dir'[src["new"]] = None
      BY <1>3, <2>3 DEF MovesNew
    <3>3. Rename("new") => dir'[src["new"]] = None
      BY <3>2, NewEffect
    <3> QED  BY <3>1, <3>3
  <2> QED  BY <1>13, <2>4, <2>5, <2>6, <2>7
<1> QED
  BY <1>1, <1>7, <1>8, <1>9, <1>10, <1>11, <1>12, <1>13 DEF SinkIt

\* Every step of the new sink keeps the messages it has to.
LEMMA CoverStep ==
    ASSUME TypeInv, TypeInv', OrderInv, RetiredInv, SoloInv, AloneInv, CoverInv, clean > 0, Next
    PROVE  CoverInv'
<1> USE DEF settings, sinkVars, control, reload
<1> DEFINE n == sent["new"]
           l == logCount["new"]
           k == src["new"]
           Has(x, m) == Covered(New, Pending, clean, n, x, m)
           Keeps(x, m) == Covered(New', Pending', clean, n', x, m)
<1>1. Log("new") \/ SinkIt("new")
  BY OnlyNew DEF AloneInv
<1>2. /\ phase = "after" /\ rotDone["new"]
      /\ fd["new"] = None => l = 0
      /\ fd["new"] = None /\ pc["new"] \notin Chain => dir[0] = None
      /\ pc["new"] \in {"exists", "rmTarget", "rename"} /\ k + 1 < MaxFiles => dir[k + 1] = None
  BY DEF AloneInv
<1>3. /\ ControlOf("new") /\ pc \in [Sinks -> Labels] /\ "new" \in Sinks
      /\ logCount \in [Sinks -> 0..MaxCount]
      /\ src \in [Sinks -> 0..(MaxFiles - 1)] /\ ret["new"] \in {"ensure", "open", "flush"}
      /\ cont["new"] \in {"check", "write"} /\ 0 \in Slots /\ MaxFiles \in Slots
  BY Sides, Constants DEF TypeInv, FilesOK, SinksOK, ControlOK, ControlInv
<1>4. /\ New \in IdSets /\ Pending \in SUBSET Nat /\ n \in Nat /\ l \in Nat /\ clean \in Nat
      /\ k \in Slots /\ k + 1 \in Slots /\ k \in Nat /\ k < MaxFiles
      /\ MaxFiles \in Nat /\ MaxFiles > 0 /\ MaxCount \in Nat /\ MaxCount > 0
  <2>1. k < MaxFiles
    BY <1>3, Constants
  <2> QED  BY <2>1, AloneFacts, Constants
<1>5. /\ New' \in IdSets /\ Pending' \in SUBSET Nat /\ n' \in Nat /\ l' \in Nat
  <2>1. dir' \in [Slots -> Files \cup {None}] /\ file' \in [Files -> Lines]
    BY DEF TypeInv, FilesOK
  <2>2. New' \in IdSets
    <3>1. NewIds(dir', file') \in IdSets
      BY <2>1, NewIdsType
    <3> QED  BY <3>1 DEF New
  <2>3. n' \in Nat /\ l' \in Nat
    BY Sides, Constants DEF TypeInv, SinksOK
  <2> QED  BY <2>2, <2>3 DEF Pending
<1>6. clean' = clean
  BY <1>1, <1>4 DEF Log, SinkIt, EnsureOpened, OpenFile, CheckBeforeWrite, Write, Flush, Close,
     RemoveOldest, SourceExists, RemoveTarget, Rename
<1>7. \A i \in Nat : i * MaxCount \in Nat
  BY <1>4
<1>8. {"exists", "rmTarget", "rename"} \subseteq Chain /\ "rmOldest" \in Chain
      /\ \A q \in {"idle", "ensure", "open", "check", "write", "flush", "close"} : q \notin Chain
  BY DEF Chain
<1>9. /\ CoverAtRest => \A i \in 0..MaxFiles : Has(l + i * MaxCount, i)
      /\ CoverBefore => \A i \in 1..MaxFiles : Has(i * MaxCount, i - 1)
      /\ CoverMoving(k) => \A i \in 1..MaxFiles : Has(i * MaxCount, SlotOf(i, k))
  BY DEF CoverAtRest, CoverBefore, CoverMoving, New
<1>10. CoverAtRest' <=> \A i \in 0..MaxFiles : Keeps(l' + i * MaxCount, i)
  BY <1>6 DEF CoverAtRest, New
<1>11. CoverBefore' <=> \A i \in 1..MaxFiles : Keeps(i * MaxCount, i - 1)
  BY <1>6 DEF CoverBefore, New
<1>12. CoverMoving(src["new"])' <=> \A i \in 1..MaxFiles : Keeps(i * MaxCount, SlotOf(i, k'))
  BY <1>6 DEF CoverMoving, New
<1>13. SUFFICES /\ pc'["new"] \notin Chain => CoverAtRest'
                /\ pc'["new"] \in {"close", "rmOldest"} => CoverBefore'
                /\ pc'["new"] \in {"exists", "rmTarget", "rename"} => CoverMoving(src["new"])'
  BY DEF CoverInv
<1>14. /\ pc["new"] \notin Chain => CoverAtRest
       /\ pc["new"] \in {"close", "rmOldest"} => CoverBefore
       /\ pc["new"] \in {"exists", "rmTarget", "rename"} => CoverMoving(k)
  BY DEF CoverInv
(* A step that leaves the messages where they are, or brings the buffer to stem.log. *)
<1>15. ASSUME KeepsNew \/ SyncsNew, NEW x \in Nat, NEW m \in Nat, Has(x, m)
       PROVE  Keeps(x, m)
  <2>1. CASE KeepsNew
    BY <1>15, <2>1 DEF KeepsNew
  <2>2. CASE SyncsNew
    <3>1. /\ New'[0] = New[0] \cup Pending /\ \A j \in Slots : j # 0 => New'[j] = New[j]
          /\ Pending' = {} /\ n' = n
      BY <2>2 DEF SyncsNew
    <3>2. Covered(New', {}, clean, n, x, m)
      BY <1>4, <1>5, <1>15, <3>1, CoverSync
    <3> QED  BY <3>1, <3>2
  <2> QED  BY <1>15, <2>1, <2>2
<1> HIDE DEF Has, Keeps
<1>16. ASSUME KeepsNew \/ SyncsNew, CoverAtRest, l' <= l PROVE CoverAtRest'
  <2> SUFFICES ASSUME NEW i \in 0..MaxFiles PROVE Keeps(l' + i * MaxCount, i)
    BY <1>10
  <2>1. i \in Nat /\ i * MaxCount \in Nat
    BY <1>4, <1>7
  <2>2. Has(l + i * MaxCount, i)
    BY <1>9, <1>16
  <2>3. l + i * MaxCount \in Nat /\ l' + i * MaxCount \in Nat
        /\ l' + i * MaxCount <= l + i * MaxCount
    BY <1>4, <1>5, <1>16, <2>1
  <2>4. Keeps(l + i * MaxCount, i)
    BY <1>15, <1>16, <2>1, <2>2, <2>3
  <2> QED  BY <1>4, <1>5, <2>1, <2>3, <2>4, CoverWeaken DEF Keeps
<1>17. ASSUME CoverAtRest', l' >= MaxCount PROVE CoverBefore'
  <2>1. \A i \in 0..MaxFiles : Covered(New', Pending', clean, n', l' + i * MaxCount, i)
    BY <1>10, <1>17 DEF Keeps
  <2>2. \A i \in 1..MaxFiles : Covered(New', Pending', clean, n', i * MaxCount, i - 1)
    BY <1>4, <1>5, <1>17, <2>1, CoverFull
  <2> QED  BY <1>11, <2>2 DEF Keeps
<1>18. CASE Log("new") \/ EnsureOpened("new") \/ OpenFile("new") \/ CheckBeforeWrite("new")
              \/ Flush("new")
  <2>1. KeepsNew \/ SyncsNew
    BY <1>18, NewEffect
  <2>2. pc["new"] \in {"idle", "ensure", "open", "check", "flush"}
    BY <1>18 DEF Log, EnsureOpened, OpenFile, CheckBeforeWrite, Flush
  <2>3. CoverAtRest
    BY <1>8, <1>14, <2>2
  <2>4. /\ l' <= l /\ pc'["new"] \in {"idle", "ensure", "open", "check", "write", "close"}
        /\ pc'["new"] = "close" => l' >= MaxCount
    <3>1. CASE Log("new")
      <4>1. logCount' = logCount /\ pc' = [pc EXCEPT !["new"] = IF l >= MaxCount THEN "close" ELSE "ensure"]
        BY <1>2, <3>1 DEF Log
      <4> QED  BY <1>3, <1>4, <4>1
    <3>2. CASE EnsureOpened("new") /\ fd["new"] # None
      <4>1. logCount' = logCount /\ pc'["new"] = cont["new"]
        BY <1>3, <3>2 DEF EnsureOpened, Goto
      <4> QED  BY <1>3, <1>4, <4>1
    <3>3. CASE EnsureOpened("new") /\ fd["new"] = None
      <4>1. dir[0] = None
        BY <1>2, <1>8, <2>2, <3>3
      <4>2. pc'["new"] = "open" /\ l' = 0
        BY <1>3, <1>4, <3>3, <4>1 DEF EnsureOpened, Exists, Goto
      <4> QED  BY <1>4, <4>2
    <3>4. CASE OpenFile("new")
      <4>1. logCount' = logCount /\ pc'["new"] = cont["new"]
        BY <1>3, <3>4 DEF OpenFile, Goto
      <4> QED  BY <1>3, <1>4, <4>1
    <3>5. CASE CheckBeforeWrite("new")
      <4>1. logCount' = logCount /\ pc'["new"] = IF l >= MaxCount THEN "close" ELSE "write"
        BY <1>3, <3>5 DEF CheckBeforeWrite, Goto
      <4> QED  BY <1>4, <4>1
    <3>6. CASE Flush("new")
      <4>1. logCount' = logCount /\ pc'["new"] = "idle"
        BY <1>3, <3>6 DEF Flush, Goto
      <4> QED  BY <1>4, <4>1
    <3> QED  BY <1>18, <3>1, <3>2, <3>3, <3>4, <3>5, <3>6
  <2>5. CoverAtRest'
    BY <1>16, <2>1, <2>3, <2>4
  <2>6. pc'["new"] = "close" => CoverBefore'
    BY <1>17, <2>4, <2>5
  <2>7. pc'["new"] \notin {"rmOldest", "exists", "rmTarget", "rename"}
    BY <2>4
  <2> QED  BY <2>5, <2>6, <2>7
<1>19. CASE Write("new")
  <2>1. AppendsNew
    BY <1>19, NewEffect
  <2>2. /\ l' = l + 1 /\ pc["new"] = "write" /\ pc'["new"] \in {"close", "flush"}
        /\ pc'["new"] = "close" => l' >= MaxCount
    <3>1. l' = l + 1 /\ pc["new"] = "write"
      BY <1>3, <1>19 DEF Write
    <3>2. pc'["new"] = IF l + 1 >= MaxCount THEN "close" ELSE "flush"
      BY <1>3, <1>19 DEF Write, Goto, CallRotate
    <3> QED  BY <3>1, <3>2
  <2>3. CoverAtRest
    BY <1>8, <1>14, <2>2
  <2>4. ASSUME NEW i \in 0..MaxFiles PROVE Keeps(l' + i * MaxCount, i)
    <3>1. i \in Nat /\ i * MaxCount \in Nat
      BY <1>4, <1>7
    <3>2. l + i * MaxCount \in Nat /\ l' + i * MaxCount = (l + i * MaxCount) + 1
      BY <1>4, <2>2, <3>1
    <3>3. Covered(New, {}, clean, n, l + i * MaxCount, i)
      BY <1>9, <2>1, <2>3 DEF Has, AppendsNew
    <3>4. Covered(New, {n + 1}, clean, n + 1, (l + i * MaxCount) + 1, i)
      BY <1>4, <3>1, <3>2, <3>3, CoverAppend
    <3> QED  BY <2>1, <3>2, <3>4 DEF Keeps, AppendsNew
  <2>5. CoverAtRest'
    BY <1>10, <2>4
  <2>6. pc'["new"] = "close" => CoverBefore'
    BY <1>17, <2>2, <2>5
  <2> QED  BY <2>2, <2>5, <2>6
<1>20. CASE Close("new")
  <2>1. KeepsNew \/ SyncsNew
    BY <1>20, NewEffect
  <2>2. pc["new"] = "close" /\ pc'["new"] = "rmOldest"
    BY <1>3, <1>20 DEF Close, Goto
  <2>3. CoverBefore
    BY <1>14, <2>2
  <2>4. ASSUME NEW i \in 1..MaxFiles PROVE Keeps(i * MaxCount, i - 1)
    <3>1. i * MaxCount \in Nat /\ i - 1 \in Nat
      BY <1>4, <1>7
    <3> QED  BY <1>9, <1>15, <2>1, <2>3, <3>1
  <2>5. CoverBefore'
    BY <1>11, <2>4
  <2> QED  BY <1>8, <2>2, <2>5
<1>21. CASE RemoveOldest("new")
  <2>1. RemovesNew(MaxFiles)
    BY <1>21, NewEffect
  <2>2. pc["new"] = "rmOldest" /\ pc'["new"] = "exists" /\ k' = MaxFiles - 1
    BY <1>3, <1>21 DEF RemoveOldest
  <2>3. CoverBefore
    BY <1>14, <2>2
  <2>4. ASSUME NEW i \in 1..MaxFiles PROVE Keeps(i * MaxCount, SlotOf(i, k'))
    <3>1. i * MaxCount \in Nat /\ i - 1 \in Nat /\ MaxFiles > i - 1 /\ SlotOf(i, k') = i - 1
      BY <1>4, <1>7, <2>2 DEF SlotOf
    <3>2. Has(i * MaxCount, i - 1)
      BY <1>9, <2>3
    <3>3. Keeps(i * MaxCount, i - 1)
      BY <1>3, <1>4, <1>5, <2>1, <3>1, <3>2, CoverRemove DEF Has, Keeps, RemovesNew
    <3> QED  BY <3>1, <3>3
  <2>5. CoverMoving(src["new"])'
    BY <1>12, <2>4
  <2> QED  BY <1>8, <2>2, <2>5
(* While files are moved. *)
<1>22. ASSUME pc["new"] \in {"exists", "rmTarget", "rename"}
       PROVE  /\ \A i \in 1..MaxFiles : Has(i * MaxCount, SlotOf(i, k))
              /\ k + 1 < MaxFiles => New[k + 1] = {}
              /\ l = 0
  <2>1. fd["new"] = None
    BY <1>3, <1>8, <1>22 DEF ControlOf
  <2>2. k + 1 < MaxFiles => New[k + 1] = {}
    BY <1>2, <1>4, <1>22 DEF New, NewIds
  <2> QED  BY <1>2, <1>9, <1>14, <1>22, <2>1, <2>2
<1>23. \A i \in 1..MaxFiles : /\ i \in Nat /\ i * MaxCount \in Nat /\ i - 1 \in Nat
                              /\ SlotOf(i, k) \in Nat
                              /\ SlotOf(i, k) = IF i - 1 <= k THEN i - 1 ELSE i
  BY <1>4, <1>7 DEF SlotOf
<1>24. ASSUME pc["new"] \in {"exists", "rmTarget", "rename"}, NEW i \in 1..MaxFiles
       PROVE  k + 1 > SlotOf(i, k) \/ New[k + 1] = {}
  BY <1>4, <1>22, <1>23, <1>24
(* The end of one turn of the loop: the file under name k has left it. *)
<1>25. ASSUME NextSource("new"), l' = 0,
              \A i \in 1..MaxFiles : Keeps(i * MaxCount, IF i - 1 < k THEN i - 1 ELSE i)
       PROVE  /\ pc'["new"] \notin Chain => CoverAtRest'
              /\ pc'["new"] \in {"close", "rmOldest"} => CoverBefore'
              /\ pc'["new"] \in {"exists", "rmTarget", "rename"} => CoverMoving(src["new"])'
  <2>1. CASE k = 0
    <3>1. pc'["new"] \in {"ensure", "open", "flush"}
      BY <1>3, <1>25, <2>1 DEF NextSource, Goto
    <3>2. ASSUME NEW i \in 0..MaxFiles PROVE Keeps(0 + i * MaxCount, i)
      <4>1. i \in Nat /\ i * MaxCount \in Nat /\ 0 * MaxCount = 0
        BY <1>4, <1>7
      <4>2. CASE i = 0
        <5>1. 0 + i * MaxCount = 0
          BY <4>1, <4>2
        <5> QED  BY <1>4, <1>5, <5>1, CoverNone DEF Keeps
      <4>3. CASE i # 0
        <5>1. i \in 1..MaxFiles /\ ~(i - 1 < k) /\ 0 + i * MaxCount = i * MaxCount
          BY <1>4, <2>1, <4>1, <4>3
        <5> QED  BY <5>1, <1>25
      <4> QED  BY <4>2, <4>3
    <3>3. CoverAtRest'
      BY <1>10, <1>25, <3>2
    <3> QED  BY <3>1, <3>3
  <2>2. CASE k # 0
    <3>1. pc'["new"] = "exists" /\ k' = k - 1
      BY <1>3, <1>25, <2>2 DEF NextSource
    <3>2. k' + 1 = k /\ k' \in Nat
      BY <1>4, <2>2, <3>1
    <3>3. ASSUME NEW i \in 1..MaxFiles PROVE Keeps(i * MaxCount, SlotOf(i, k'))
      <4>1. SlotOf(i, k') = IF i - 1 < k THEN i - 1 ELSE i
        BY <3>2 DEF SlotOf
      <4> QED  BY <1>25, <4>1
    <3>4. CoverMoving(src["new"])'
      BY <1>12, <3>3
    <3> QED  BY <1>8, <3>1, <3>4
  <2> QED  BY <2>1, <2>2
(* There is no file under name k: nothing has moved. *)
<1>26. ASSUME KeepsNew, dir[k] = None, NextSource("new"), l' = l,
              pc["new"] \in {"exists", "rename"}
       PROVE  /\ pc'["new"] \notin Chain => CoverAtRest'
              /\ pc'["new"] \in {"close", "rmOldest"} => CoverBefore'
              /\ pc'["new"] \in {"exists", "rmTarget", "rename"} => CoverMoving(src["new"])'
  <2>1. ASSUME NEW i \in 1..MaxFiles
        PROVE  Keeps(i * MaxCount, IF i - 1 < k THEN i - 1 ELSE i)
    <3>1. Has(i * MaxCount, SlotOf(i, k))
      BY <1>22, <1>26
    <3>2. Keeps(i * MaxCount, SlotOf(i, k))
      BY <1>15, <1>23, <1>26, <3>1
    <3>3. /\ SlotOf(i, k) <= IF i - 1 < k THEN i - 1 ELSE i
          /\ (IF i - 1 < k THEN i - 1 ELSE i) \in Nat
      BY <1>4, <1>23
    <3> QED  BY <1>4, <1>5, <1>23, <3>2, <3>3, CoverWeaken DEF Keeps
  <2> QED  BY <1>22, <1>25, <1>26, <2>1
<1>27. CASE SourceExists("new")
  <2>1. KeepsNew /\ pc["new"] = "exists" /\ l' = l
    BY <1>27, NewEffect DEF SourceExists
  <2>2. CASE dir[k] # None
    <3>1. pc'["new"] = "rmTarget" /\ k' = k
      BY <1>3, <1>27, <2>2 DEF SourceExists, Exists, Goto
    <3>2. ASSUME NEW i \in 1..MaxFiles PROVE Keeps(i * MaxCount, SlotOf(i, k'))
      BY <1>15, <1>22, <1>23, <2>1, <3>1
    <3>3. CoverMoving(src["new"])'
      BY <1>12, <3>2
    <3> QED  BY <1>8, <3>1, <3>3
  <2>3. CASE dir[k] = None
    <3>1. NextSource("new")
      BY <1>27, <2>3 DEF SourceExists, Exists
    <3> QED  BY <1>26, <2>1, <2>3, <3>1
  <2> QED  BY <2>2, <2>3
<1>28. CASE RemoveTarget("new")
  <2>1. RemovesNew(k + 1)
    BY <1>28, NewEffect
  <2>2. pc["new"] = "rmTarget" /\ pc'["new"] = "rename" /\ k' = k
    BY <1>3, <1>28 DEF RemoveTarget, Goto
  <2>3. ASSUME NEW i \in 1..MaxFiles PROVE Keeps(i * MaxCount, SlotOf(i, k'))
    <3>1. Has(i * MaxCount, SlotOf(i, k))
      BY <1>22, <2>2
    <3>2. k + 1 > SlotOf(i, k) \/ New[k + 1] = {}
      BY <1>24, <2>2
    <3>3. Keeps(i * MaxCount, SlotOf(i, k))
      BY <1>4, <1>5, <1>23, <2>1, <3>1, <3>2, CoverRemove DEF Has, Keeps, RemovesNew
    <3> QED  BY <2>2, <3>3
  <2>4. CoverMoving(src["new"])'
    BY <1>12, <2>3
  <2> QED  BY <1>8, <2>2, <2>4
<1>29. CASE Rename("new")
  <2>1. NextSource("new") /\ l' = l /\ pc["new"] = "rename"
    BY <1>29 DEF Rename
  <2>2. CASE MovesNew(k)
    <3>1. ASSUME NEW i \in 1..MaxFiles
          PROVE  Keeps(i * MaxCount, IF i - 1 < k THEN i - 1 ELSE i)
      <4> DEFINE m == IF i - 1 < k THEN i - 1 ELSE i
      <4>1. Has(i * MaxCount, SlotOf(i, k))
        BY <1>22, <2>1
      <4>2. k + 1 > SlotOf(i, k) \/ New[k + 1] = {}
        BY <1>24, <2>1
      <4>3. /\ m \in Nat /\ SlotOf(i, k) <= m
            /\ k <= SlotOf(i, k) => k + 1 <= m
        BY <1>4, <1>23
      <4> HIDE DEF m
      <4>4. Keeps(i * MaxCount, m)
        BY <1>4, <1>5, <1>23, <2>2, <4>1, <4>2, <4>3, CoverMove DEF Has, Keeps, MovesNew
      <4> QED  BY <4>4 DEF m
    <3> QED  BY <1>22, <1>25, <2>1, <3>1
  <2>3. CASE KeepsNew /\ dir[k] = None
    BY <1>26, <2>1, <2>3
  <2> QED  BY <1>29, <2>2, <2>3, NewEffect
<1> QED
  BY <1>1, <1>18, <1>19, <1>20, <1>21, <1>27, <1>28, <1>29 DEF SinkIt

\* The invariants of this part hold together.
RecoveryInv == SoloInv /\ AloneInv /\ CoverInv

\* Every step keeps them, also the one with which clean is set.
LEMMA RecoveryStep ==
    ASSUME TypeInv, TypeInv', OrderInv, BoundInv, RecoveryInv, [Next]_vars
    PROVE  RecoveryInv'
<1>0. RetiredInv /\ clean \in Nat /\ clean' \in Nat
  BY DEF BoundInv, TypeInv, ReloadOK
<1>1. SoloInv'
  BY <1>0, SoloStep DEF RecoveryInv
<1>2. CASE UNCHANGED vars
  <2>1. AloneInv'
    BY <1>2 DEF vars, sinkVars, control, reload, RecoveryInv, AloneInv
  <2>2. CoverInv'
    BY <1>2 DEF vars, sinkVars, control, reload, RecoveryInv, CoverInv, CoverAtRest,
                CoverBefore, CoverMoving, Covered, NewIds, Msgs, Pending
  <2> QED  BY <1>1, <2>1, <2>2 DEF RecoveryInv
<1>3. CASE Next /\ clean > 0
  <2>1. AloneInv' /\ CoverInv'
    BY <1>0, <1>3, AloneStep, CoverStep DEF RecoveryInv
  <2> QED  BY <1>1, <2>1 DEF RecoveryInv
<1>4. CASE Next /\ clean = 0 /\ clean' > 0
  <2>1. AloneInv' /\ CoverInv'
    BY <1>4, CleanStart DEF RecoveryInv
  <2> QED  BY <1>1, <2>1 DEF RecoveryInv
<1>5. CASE clean' = 0
  <2>1. AloneInv' /\ CoverInv'
    BY <1>5 DEF AloneInv, CoverInv
  <2> QED  BY <1>1, <2>1 DEF RecoveryInv
<1> QED  BY <1>0, <1>2, <1>3, <1>4, <1>5

\* The overlap does no lasting damage, for any limits and any number of messages: once
\* the old sink is gone and the new one has opened a file, its newest
\* max_files * max_count messages can be read, also in the middle of a rotation.
THEOREM HistoryAlwaysRecovers == Spec => []RecoversAfterOverlap
<1>1. ASSUME TypeInv, RecoveryInv PROVE RecoversAfterOverlap
  <2> DEFINE n == sent["new"]
             k == src["new"]
             X == MaxFiles * MaxCount
  <2> SUFFICES ASSUME clean > 0, NEW a \in clean..n, a + X > n
               PROVE  a \in Readable("new") \/ (a = n /\ dirty["new"])
    BY DEF RecoversAfterOverlap
  <2>1. /\ n \in Nat /\ k \in Nat /\ clean \in Nat /\ logCount["new"] \in Nat
        /\ MaxFiles \in Nat /\ MaxFiles > 0 /\ MaxCount \in Nat /\ X \in Nat
    BY <1>1, AloneFacts, Constants
  <2> HIDE DEF X
  <2>2. PICK x \in Nat, m \in Nat : x >= X /\ Covered(New, Pending, clean, n, x, m)
    <3>1. CASE pc["new"] \notin Chain
      <4>1. CoverAtRest /\ MaxFiles \in 0..MaxFiles
        BY <1>1, <2>1, <3>1 DEF RecoveryInv, CoverInv
      <4>2. Covered(New, Pending, clean, n, logCount["new"] + X, MaxFiles)
        BY <4>1 DEF CoverAtRest, New, X
      <4>3. logCount["new"] + X \in Nat /\ logCount["new"] + X >= X
        BY <2>1
      <4> QED  BY <2>1, <4>2, <4>3
    <3>2. CASE pc["new"] = "rmOldest"
      <4>1. CoverBefore /\ MaxFiles \in 1..MaxFiles /\ MaxFiles - 1 \in Nat
        BY <1>1, <2>1, <3>2 DEF RecoveryInv, CoverInv
      <4>2. Covered(New, Pending, clean, n, X, MaxFiles - 1)
        BY <4>1 DEF CoverBefore, New, X
      <4> QED  BY <2>1, <4>1, <4>2
    <3>3. CASE pc["new"] \in {"exists", "rmTarget", "rename"}
      <4>1. CoverMoving(k) /\ MaxFiles \in 1..MaxFiles /\ SlotOf(MaxFiles, k) \in Nat
        BY <1>1, <2>1, <3>3 DEF RecoveryInv, CoverInv, SlotOf
      <4>2. Covered(New, Pending, clean, n, X, SlotOf(MaxFiles, k))
        BY <4>1 DEF CoverMoving, New, X
      <4> QED  BY <2>1, <4>1, <4>2
    <3> QED  BY <3>1, <3>2, <3>3 DEF Chain
  <2>3. a \in Nat /\ a + x > n
    BY <2>1, <2>2
  <2>4. a \in Pending \/ \E j \in Slots : a \in New[j]
    BY <2>2, <2>3 DEF Covered
  <2>5. CASE a \in Pending
    BY <2>5 DEF Pending
  <2>6. ASSUME NEW j \in Slots, a \in New[j] PROVE a \in Readable("new")
    <3>1. dir[j] # None /\ a \in Msgs(file, "new", dir[j])
      BY <2>6 DEF New, NewIds
    <3>2. a \in MessagesOf("new", dir[j])
      BY <3>1 DEF Msgs, MessagesOf
    <3> QED  BY <3>1, <3>2 DEF Readable, Exists
  <2> QED  BY <2>4, <2>5, <2>6
<1>2. Init => RecoveryInv
  BY SoloInit DEF RecoveryInv
<1>3. TypeInv /\ TypeInv' /\ OrderInv /\ BoundInv /\ RecoveryInv /\ [Next]_vars => RecoveryInv'
  BY RecoveryStep
<1> QED
  BY <1>1, <1>2, <1>3, TypeInit, TypeStep, OrderInit, OrderStep, BoundInit, BoundStep, PTL
  DEF Spec
=============================================================================
