------------------------- MODULE DailySizeSinkProofs -------------------------
(***************************************************************************)
(* Proofs about the daily sink, for any length of the day, rotation time,  *)
(* change of the local time's offset, number of backups, parameters, set   *)
(* of failing operations and number of messages, restarts and crashes.     *)
(***************************************************************************)
EXTENDS DailySizeSink, TLAPS, FiniteSetTheorems

Labels == {"idle", "entry", "open", "check", "write", "close", "rmOldest", "shift", "rename"}

\* A file that is not there has no bytes, and one without bytes no messages.
Solid == {f \in File : (f.size = 0 => f.ids = {}) /\ (~f.exists => f.size = 0)}

\* The type invariant in parts, with disk as a function.
FilesOK == disk \in [Days -> [Slots -> Solid]] /\ buf \in Solid
SinkOK ==
    /\ fd \in Days \cup {Closed} /\ cfg \in Configs
    /\ base \in Days /\ next \in Nat
    /\ opened \in BOOLEAN /\ size \in Nat /\ rotDone \in BOOLEAN
ControlOK ==
    /\ pc \in Labels /\ cont \in {"check", "write"}
    /\ src \in Slots /\ len \in Sizes \cup {0}
RestOK ==
    /\ at \in Seq(SUBSET Days) /\ clock \in Nat /\ shift \in Shifts
    /\ faults \in Nat /\ stuck \in BOOLEAN /\ spilled \in Nat
    /\ restarts \in Nat /\ setBacks \in Nat

\* The open file is that of the current day, and nothing is buffered when none is
\* open; the size chain runs with the file closed and inside the backups there are;
\* a call works with the clock it read before the next rotation.
ControlInv ==
    /\ DayOf(clock) <= MaxDay
    /\ fd \in {Closed, base}
    /\ opened => fd # Closed
    /\ fd = Closed => buf = Empty
    /\ pc \in {"close", "rmOldest", "shift", "rename"} => cfg.maxFiles > 0
    /\ pc \in {"rmOldest", "shift", "rename"} => fd = Closed
    /\ pc \in {"shift", "rename"} => src < cfg.maxFiles
    /\ pc = "write" => cont = "write"
    /\ cont = "write" => len \in Sizes
    /\ pc # "idle" => Len(at) < MaxMsgs /\ clock < next

TypeInv == FilesOK /\ SinkOK /\ ControlOK /\ RestOK /\ ControlInv

-----------------------------------------------------------------------------
(* Time.                                                                   *)

\* What division with remainder gives.
LEMMA Division ==
    ASSUME NEW L \in Nat \ {0}, NEW a \in Nat
    PROVE  /\ a \div L \in Nat
           /\ (a \div L) * L <= a /\ a < (a \div L) * L + L
OBVIOUS

\* Division by a positive number keeps the order.
LEMMA DivisionMonotone ==
    ASSUME NEW L \in Nat \ {0}, NEW a \in Nat, NEW b \in Nat, a <= b
    PROVE  a \div L <= b \div L
OBVIOUS

\* What the assumption on the constants gives the proofs.
LEMMA Constants ==
    /\ DayLen \in Nat \ {0} /\ RotTick \in Nat /\ RotTick < DayLen
    /\ ShiftAt \in Nat /\ 1 <= ShiftAt /\ ShiftAt < DayLen
    /\ MaxDay \in Nat /\ MaxSlot \in Nat /\ MaxMsgs \in Nat
    /\ Shifts \subseteq {-1, 0, 1}
    /\ Closed \notin Days
BY ConstantsAssumption DEF Closed, Days

\* The local time is a natural number and does not run backwards.
LEMMA LocalTime ==
    ASSUME shift \in Shifts, NEW a \in Nat, NEW b \in Nat, a <= b
    PROVE  /\ Local(a) \in Nat /\ Local(a) <= Local(b)
           /\ DayOf(a) \in Nat /\ DayOf(a) <= DayOf(b)
<1>1. shift \in {-1, 0, 1}
  BY Constants
<1>2. Local(a) \in Nat /\ Local(b) \in Nat /\ Local(a) <= Local(b)
  BY <1>1, Constants DEF Local, Offset
<1> QED
  BY <1>2, Constants, Division, DivisionMonotone DEF DayOf

\* The next rotation lies in the future, and the local time before it is in the
\* group of the day the sink writes to.
GroupEnd(d) == (d + 1) * DayLen + RotTick + (IF shift = 1 /\ d = 0 THEN 1 ELSE 0)

\* The next rotation lies in the future, and the local time until then in the group
\* of the current day.
LEMMA Rotation ==
    ASSUME shift \in Shifts, NEW c \in Nat
    PROVE  /\ NextRotation(c) \in Nat /\ c < NextRotation(c)
           /\ \A t \in Nat : t < NextRotation(c) => Local(t) < GroupEnd(DayOf(c))
<1> DEFINE day == DayOf(c)
           start == day * DayLen
<1>0. shift \in {-1, 0, 1}
  BY Constants
<1>1. Local(c) \in Nat /\ day \in Nat
  BY LocalTime
<1>2. start \in Nat /\ start <= Local(c) /\ Local(c) < start + DayLen
  BY <1>1, Constants, Division DEF DayOf
<1>3. (day + 1) * DayLen = start + DayLen
  BY <1>1, Constants
<1>4. c < ShiftAt => day = 0
  <2> SUFFICES ASSUME c < ShiftAt PROVE c \div DayLen = 0
    BY DEF DayOf, Local, Offset
  <2>1. c < DayLen
    BY Constants
  <2> QED
    BY <2>1, Constants
<1> HIDE DEF day, start
<1>5. /\ NextRotation(c) = IF c < start + RotTick - Offset(c) THEN start + RotTick - Offset(c)
                           ELSE start + RotTick - Offset(c) + DayLen
  BY DEF NextRotation, day, start
<1>6. Local(c) = c + Offset(c) /\ Offset(c) \in {-1, 0, 1}
  BY <1>0 DEF Local, Offset
<1>7. NextRotation(c) \in Nat /\ c < NextRotation(c)
  BY <1>2, <1>5, <1>6, Constants
<1>8. NextRotation(c) <= start + DayLen + RotTick - Offset(c)
  BY <1>2, <1>5, <1>6, Constants
<1>9. ASSUME NEW t \in Nat, t < NextRotation(c)
      PROVE  Local(t) < start + DayLen + RotTick + (IF shift = 1 /\ day = 0 THEN 1 ELSE 0)
  <2>1. Local(t) = t + Offset(t) /\ Offset(t) \in {-1, 0, 1}
    BY <1>0 DEF Local, Offset
  <2>2. CASE Offset(t) <= Offset(c)
    BY <1>2, <1>6, <1>7, <1>8, <1>9, <2>1, <2>2, Constants
  <2>3. CASE Offset(t) > Offset(c) /\ shift = 1
    <3>1. c < ShiftAt /\ Offset(c) = 0
      BY <2>1, <2>3 DEF Offset
    <3> QED
      BY <1>2, <1>4, <1>7, <1>8, <1>9, <2>1, <2>3, <3>1, Constants
  <2>4. CASE Offset(t) > Offset(c) /\ shift # 1
    <3>1. Offset(t) = 0 /\ t < ShiftAt
      BY <1>0, <2>4, Constants DEF Offset
    <3> QED
      BY <1>2, <2>1, <3>1, Constants
  <2> QED
    BY <1>0, <1>6, <2>1, <2>2, <2>3, <2>4
<1> QED
  BY <1>3, <1>7, <1>9 DEF GroupEnd, day

\* A message of the current call belongs to the group of the day the sink writes to.
LEMMA InGroup ==
    ASSUME shift \in Shifts, clock \in Nat, base \in Days, base <= DayOf(clock),
           Local(clock) < GroupEnd(base)
    PROVE  base \in Groups(clock)
<1>1. Local(clock) \in Nat /\ DayOf(clock) \in Nat /\ base \in Nat
  BY LocalTime DEF Days
<1>2. DayOf(clock) * DayLen <= Local(clock)
  BY <1>1, Constants, Division DEF DayOf
<1>3. base * DayLen <= DayOf(clock) * DayLen
  BY <1>1, Constants
<1>4. base * DayLen \in Nat /\ DayOf(clock) * DayLen \in Nat
  BY <1>1, Constants
<1>5. base * DayLen <= Local(clock)
  BY <1>1, <1>2, <1>3, <1>4
<1> QED
  BY <1>5 DEF Groups, GroupEnd

-----------------------------------------------------------------------------
(* Files.                                                                  *)

\* Joining files joins their messages and adds their sizes.
LEMMA Files ==
    /\ Absent \in Solid /\ Absent.ids = {} /\ Absent.size = 0
    /\ Empty \in Solid /\ Empty.ids = {} /\ Empty.size = 0
    /\ \A f, g \in Solid : /\ Join(f, g) \in Solid /\ Join(f, g).ids = f.ids \cup g.ids
                           /\ Join(f, g).size = f.size + g.size
    /\ \A f \in Solid : f.ids \subseteq 1..MaxMsgs /\ f.size \in Nat
<1>1. Absent \in Solid /\ Absent.ids = {} /\ Absent.size = 0
  BY DEF Absent, File, Solid
<1>2. Empty \in Solid /\ Empty.ids = {} /\ Empty.size = 0
  BY DEF Empty, File, Solid
<1>3. ASSUME NEW f \in Solid, NEW g \in Solid
      PROVE  /\ Join(f, g) \in Solid /\ Join(f, g).ids = f.ids \cup g.ids
             /\ Join(f, g).size = f.size + g.size
  <2>1. /\ f \in File /\ g \in File /\ f.size \in Nat /\ g.size \in Nat
        /\ (f.size = 0 => f.ids = {}) /\ (g.size = 0 => g.ids = {})
    BY DEF Solid, File
  <2>2. /\ Join(f, g).ids = f.ids \cup g.ids /\ Join(f, g).size = f.size + g.size
        /\ Join(f, g).exists = TRUE
    BY DEF Join
  <2>3. Join(f, g) \in File
    BY <2>1 DEF Join, File
  <2>4. Join(f, g).size = 0 => Join(f, g).ids = {}
    BY <2>1, <2>2
  <2> QED
    BY <2>2, <2>3, <2>4 DEF Solid
<1>4. \A f \in Solid : f.ids \subseteq 1..MaxMsgs /\ f.size \in Nat
  BY DEF File, Solid
<1> QED
  BY <1>1, <1>2, <1>3, <1>4

\* A piece of a message, as fwrite leaves it.
Piece(S, n) == [exists |-> TRUE, ids |-> S, size |-> n]

\* Its messages and its size.
LEMMA PieceFacts ==
    /\ \A S \in SUBSET (1..MaxMsgs), n \in Nat \ {0} :
         Piece(S, n) \in Solid /\ Piece(S, n).ids = S /\ Piece(S, n).size = n
    /\ \A n \in Nat : Piece({}, n) \in Solid /\ Piece({}, n).ids = {} /\ Piece({}, n).size = n
<1>1. \A S \in SUBSET (1..MaxMsgs), n \in Nat :
        /\ Piece(S, n) \in File /\ Piece(S, n).ids = S /\ Piece(S, n).size = n
        /\ Piece(S, n).exists = TRUE
  BY DEF Piece, File
<1>2. {} \in SUBSET (1..MaxMsgs)
  OBVIOUS
<1> QED
  BY <1>1, <1>2 DEF Solid

\* A change of one file.
LEMMA SetFile ==
    ASSUME disk \in [Days -> [Slots -> Solid]], NEW d \in Days, NEW i \in Slots, NEW f \in Solid
    PROVE  /\ [disk EXCEPT ![d][i] = f] \in [Days -> [Slots -> Solid]]
           /\ [disk EXCEPT ![d][i] = f][d][i] = f
           /\ \A e \in Days, j \in Slots : e # d \/ j # i =>
                [disk EXCEPT ![d][i] = f][e][j] = disk[e][j]
OBVIOUS

\* What is buffered is written to the file that is open.
LEMMA SyncEffect ==
    ASSUME FilesOK, fd \in Days \cup {Closed}, disk' = Synced, buf' = Empty
    PROVE  /\ FilesOK'
           /\ \A d \in Days, i \in Slots :
                disk'[d][i].ids = Ids(d, i) /\ disk'[d][i].size = Bytes(d, i)
<1>0. 0 \in Slots /\ disk \in [Days -> [Slots -> Solid]] /\ buf \in Solid /\ buf' \in Solid
  BY Constants, Files DEF Slots, FilesOK
<1>1. \A d \in Days, i \in Slots : disk[d][i].size \in Nat
  BY <1>0, Files
<1>2. CASE fd = Closed
  <2>1. disk' = disk
    BY <1>2 DEF Synced
  <2>2. \A d \in Days, i \in Slots :
          Ids(d, i) = disk[d][i].ids /\ Bytes(d, i) = disk[d][i].size
    BY <1>1, <1>2, Constants DEF Ids, Bytes
  <2> QED
    BY <1>0, <2>1, <2>2 DEF FilesOK
<1>3. CASE fd # Closed
  <2>1. PICK f \in Solid : f = Join(disk[fd][0], buf) /\ fd \in Days
    BY <1>0, <1>3, Files
  <2>2. disk' = [disk EXCEPT ![fd][0] = f]
    BY <1>0, <1>3, <2>1 DEF Synced
  <2>3. f.ids = disk[fd][0].ids \cup buf.ids /\ f.size = disk[fd][0].size + buf.size
    BY <1>0, <2>1, Files
  <2>4. /\ disk' \in [Days -> [Slots -> Solid]] /\ disk'[fd][0] = f
        /\ \A d \in Days, i \in Slots : d # fd \/ i # 0 => disk'[d][i] = disk[d][i]
    BY <1>0, <2>1, <2>2, SetFile
  <2> QED
    BY <1>0, <1>1, <2>3, <2>4 DEF FilesOK, Ids, Bytes
<1> QED
  BY <1>2, <1>3

\* close() writes what is buffered to the file that is open, or loses it.
LEMMA CloseEffect ==
    ASSUME FilesOK, fd \in Days \cup {Closed}, faults \in Nat, CloseBuffer
    PROVE  /\ FilesOK' /\ buf' = Empty /\ faults' \in Nat
           /\ \A d \in Days, i \in Slots :
                disk'[d][i].ids \subseteq Ids(d, i) /\ disk'[d][i].size <= Bytes(d, i)
<1>0. /\ disk \in [Days -> [Slots -> Solid]] /\ buf' = Empty /\ buf' \in Solid /\ buf.size \in Nat
      /\ \A d \in Days, i \in Slots : disk[d][i].size \in Nat
  BY Files DEF FilesOK, CloseBuffer
<1>1. CASE disk' = Synced /\ UNCHANGED faults
  <2>1. /\ FilesOK'
        /\ \A d \in Days, i \in Slots :
             disk'[d][i].ids = Ids(d, i) /\ disk'[d][i].size = Bytes(d, i)
    BY <1>0, <1>1, SyncEffect
  <2>2. \A d \in Days, i \in Slots : Bytes(d, i) \in Nat
    BY <1>0 DEF Bytes
  <2> QED
    BY <1>0, <1>1, <2>1, <2>2
<1>2. CASE Fails("close") /\ UNCHANGED disk
  <2>1. faults' \in Nat /\ FilesOK'
    BY <1>0, <1>2 DEF Fails, FilesOK
  <2> QED
    BY <1>0, <1>2, <2>1 DEF Ids, Bytes
<1> QED
  BY <1>1, <1>2 DEF CloseBuffer

\* Opening creates the file or leaves it as it is.
LEMMA CreateEffect ==
    ASSUME FilesOK, base \in Days, disk' = [disk EXCEPT ![base][0] = Join(@, Empty)]
    PROVE  /\ disk' \in [Days -> [Slots -> Solid]]
           /\ \A d \in Days, i \in Slots :
                disk'[d][i].ids = disk[d][i].ids /\ disk'[d][i].size = disk[d][i].size
<1>0. 0 \in Slots /\ disk \in [Days -> [Slots -> Solid]] /\ disk[base][0] \in Solid
  BY Constants DEF FilesOK, Slots
<1>1. PICK f \in Solid, e \in Solid : f = disk[base][0] /\ e = Empty
  BY <1>0, Files
<1>2. /\ Join(f, e) \in Solid /\ Join(f, e).ids = f.ids \cup e.ids
      /\ Join(f, e).size = f.size + e.size
      /\ e.ids = {} /\ e.size = 0 /\ f.size \in Nat
  BY <1>1, Files
<1>3. PICK g \in Solid : g = Join(f, e) /\ g.ids = f.ids /\ g.size = f.size
  BY <1>2
<1>4. disk' = [disk EXCEPT ![base][0] = g]
  BY <1>0, <1>1, <1>3
<1>5. /\ disk' \in [Days -> [Slots -> Solid]] /\ disk'[base][0] = g
      /\ \A d \in Days, i \in Slots : d # base \/ i # 0 => disk'[d][i] = disk[d][i]
  BY <1>0, <1>4, SetFile
<1> QED
  BY <1>1, <1>3, <1>5

\* A remove loses what the file had, or fails.
LEMMA RemoveEffect ==
    ASSUME FilesOK, base \in Days, faults \in Nat, NEW i \in Slots, Remove(i), buf' = buf
    PROVE  /\ FilesOK' /\ faults' \in Nat
           /\ \A d \in Days, j \in Slots :
                /\ disk'[d][j].ids \subseteq disk[d][j].ids
                /\ disk'[d][j].size <= disk[d][j].size
                /\ j # i => disk'[d][j] = disk[d][j]
<1>0. \A d \in Days, j \in Slots : disk[d][j].size \in Nat
  BY Files DEF FilesOK
<1>1. CASE disk' = [disk EXCEPT ![base][i] = Absent] /\ UNCHANGED faults
  <2>1. /\ disk' \in [Days -> [Slots -> Solid]] /\ disk'[base][i] = Absent
        /\ \A d \in Days, j \in Slots : d # base \/ j # i => disk'[d][j] = disk[d][j]
    BY <1>1, Files, SetFile DEF FilesOK
  <2> QED
    BY <1>0, <1>1, <2>1, Files DEF FilesOK
<1>2. CASE Fails("remove") /\ UNCHANGED disk
  BY <1>0, <1>2 DEF Fails, FilesOK
<1> QED
  BY <1>1, <1>2 DEF Remove

\* A rename moves what the file had, or fails.
LEMMA RenameEffect ==
    ASSUME FilesOK, base \in Days, faults \in Nat, stuck \in BOOLEAN, src \in Slots,
           src + 1 \in Slots, Rename, buf' = buf
    PROVE  /\ FilesOK' /\ faults' \in Nat /\ stuck' \in BOOLEAN
           /\ \/ disk' = disk /\ Unmoved
              \/ /\ disk'[base][src] = Absent /\ disk'[base][src + 1] = disk[base][src]
                 /\ \A d \in Days, j \in Slots :
                      d # base \/ (j # src /\ j # src + 1) => disk'[d][j] = disk[d][j]
<1>1. CASE /\ disk' = [disk EXCEPT ![base][src + 1] = disk[base][src], ![base][src] = Absent]
           /\ UNCHANGED <<faults, stuck>>
  <2> DEFINE moved == [disk EXCEPT ![base][src + 1] = disk[base][src]]
  <2>1. src # src + 1 /\ disk[base][src] \in Solid /\ disk \in [Days -> [Slots -> Solid]]
    BY Constants DEF FilesOK, Slots
  <2>2. /\ moved \in [Days -> [Slots -> Solid]]
        /\ moved[base][src + 1] = disk[base][src]
        /\ \A d \in Days, j \in Slots : d # base \/ j # src + 1 => moved[d][j] = disk[d][j]
    BY <2>1, SetFile
  <2>3. disk' = [moved EXCEPT ![base][src] = Absent]
    BY <1>1
  <2> HIDE DEF moved
  <2>4. /\ disk' \in [Days -> [Slots -> Solid]] /\ disk'[base][src] = Absent
        /\ \A d \in Days, j \in Slots : d # base \/ j # src => disk'[d][j] = moved[d][j]
    BY <2>2, <2>3, Files
  <2> QED
    BY <1>1, <2>1, <2>2, <2>4, Files DEF FilesOK
<1>2. CASE Fails("rename") /\ Unmoved /\ UNCHANGED disk
  <2>1. stuck' \in BOOLEAN
    BY <1>2 DEF Unmoved
  <2> QED
    BY <1>2, <2>1 DEF Fails, FilesOK
<1> QED
  BY <1>1, <1>2 DEF Rename

\* A write adds the next message to the file that is open.
LEMMA WriteEffect ==
    ASSUME FilesOK, fd \in Days \cup {Closed}, len \in Nat \ {0}, Len(at) \in Nat,
           Len(at) < MaxMsgs, Fwrite, fd' = fd
    PROVE  /\ FilesOK' /\ (fd = Closed => buf' = buf)
           /\ \A d \in Days, i \in Slots :
                \/ /\ fd = d /\ i = 0 /\ Ids(d, i)' = Ids(d, i) \cup {Len(at) + 1}
                   /\ Bytes(d, i)' = Bytes(d, i) + len
                \/ ~(fd = d /\ i = 0) /\ Ids(d, i)' = Ids(d, i) /\ Bytes(d, i)' = Bytes(d, i)
<1> DEFINE id == Len(at) + 1
<1>0. 0 \in Slots /\ disk \in [Days -> [Slots -> Solid]] /\ buf \in Solid
  BY Constants DEF Slots, FilesOK
<1>1. {id} \in SUBSET (1..MaxMsgs)
  BY Constants
<1>2. \/ fd = Closed /\ UNCHANGED <<disk, buf>>
      \/ fd # Closed /\ buf' = Join(buf, Piece({id}, len)) /\ UNCHANGED disk
      \/ fd # Closed /\ \E j \in 0..(len - 1) :
           /\ disk' = [disk EXCEPT ![fd][0] = Join(Join(disk[fd][0], buf), Piece({}, j))]
           /\ buf' = Piece({id}, len - j)
  BY <1>0 DEF Fwrite, Piece
<1> HIDE DEF id
<1>3. CASE fd = Closed /\ UNCHANGED <<disk, buf>>
  BY <1>0, <1>3, Constants DEF FilesOK, Ids, Bytes
<1>4. CASE fd # Closed /\ buf' = Join(buf, Piece({id}, len)) /\ UNCHANGED disk
  <2>0. PICK p \in Solid : p = Piece({id}, len) /\ p.ids = {id} /\ p.size = len
    BY <1>1, PieceFacts
  <2>1. buf' \in Solid /\ buf'.ids = buf.ids \cup {id} /\ buf'.size = buf.size + len
    <3>1. /\ Join(buf, p) \in Solid /\ Join(buf, p).ids = buf.ids \cup p.ids
          /\ Join(buf, p).size = buf.size + p.size
      BY <1>0, Files
    <3> QED
      BY <1>4, <2>0, <3>1
  <2>2. buf.size \in Nat /\ disk[fd][0].size \in Nat
    BY <1>0, <1>4, Files
  <2>3. FilesOK'
    BY <1>0, <1>4, <2>1 DEF FilesOK
  <2>4. \A d \in Days, i \in Slots :
          \/ fd = d /\ i = 0 /\ Ids(d, i)' = Ids(d, i) \cup {id} /\ Bytes(d, i)' = Bytes(d, i) + len
          \/ ~(fd = d /\ i = 0) /\ Ids(d, i)' = Ids(d, i) /\ Bytes(d, i)' = Bytes(d, i)
    <3> SUFFICES ASSUME NEW d \in Days, NEW i \in Slots
                 PROVE  \/ /\ fd = d /\ i = 0 /\ Ids(d, i)' = Ids(d, i) \cup {id}
                           /\ Bytes(d, i)' = Bytes(d, i) + len
                        \/ /\ ~(fd = d /\ i = 0) /\ Ids(d, i)' = Ids(d, i)
                           /\ Bytes(d, i)' = Bytes(d, i)
      OBVIOUS
    <3>1. CASE fd = d /\ i = 0
      <4>1. /\ Ids(d, i) = disk[fd][0].ids \cup buf.ids /\ Bytes(d, i) = disk[fd][0].size + buf.size
            /\ Ids(d, i)' = disk[fd][0].ids \cup buf'.ids
            /\ Bytes(d, i)' = disk[fd][0].size + buf'.size
        BY <1>4, <3>1 DEF Ids, Bytes
      <4>2. Ids(d, i)' = Ids(d, i) \cup {id}
        BY <2>1, <4>1
      <4>3. Bytes(d, i)' = Bytes(d, i) + len
        BY <2>1, <2>2, <4>1
      <4> QED
        BY <3>1, <4>2, <4>3
    <3>2. CASE ~(fd = d /\ i = 0)
      BY <1>4, <3>2 DEF Ids, Bytes
    <3> QED
      BY <3>1, <3>2
  <2> QED
    BY <1>4, <2>3, <2>4 DEF id
<1>5. ASSUME fd # Closed, NEW j \in 0..(len - 1),
             disk' = [disk EXCEPT ![fd][0] = Join(Join(disk[fd][0], buf), Piece({}, j))],
             buf' = Piece({id}, len - j)
      PROVE  /\ FilesOK'
             /\ \A d \in Days, i \in Slots :
                  \/ /\ fd = d /\ i = 0 /\ Ids(d, i)' = Ids(d, i) \cup {id}
                     /\ Bytes(d, i)' = Bytes(d, i) + len
                  \/ ~(fd = d /\ i = 0) /\ Ids(d, i)' = Ids(d, i) /\ Bytes(d, i)' = Bytes(d, i)
  <2>1. j \in Nat /\ len - j \in Nat \ {0} /\ fd \in Days
    BY <1>5
  <2>2. buf' \in Solid /\ buf'.ids = {id} /\ buf'.size = len - j
    BY <1>1, <1>5, <2>1, PieceFacts
  <2>3. PICK p \in Solid : p = Piece({}, j) /\ p.ids = {} /\ p.size = j
    BY <2>1, PieceFacts
  <2>4. PICK f \in Solid : f = disk[fd][0] /\ f.size \in Nat /\ buf.size \in Nat
    BY <1>0, <2>1, Files
  <2>5. PICK g \in Solid : /\ g = Join(f, buf) /\ g.ids = f.ids \cup buf.ids
                           /\ g.size = f.size + buf.size
    BY <1>0, Files
  <2>6. PICK h \in Solid : h = Join(g, p) /\ h.ids = g.ids /\ h.size = g.size + j
    <3>1. /\ Join(g, p) \in Solid /\ Join(g, p).ids = g.ids \cup p.ids
          /\ Join(g, p).size = g.size + p.size
      BY Files
    <3> QED
      BY <2>3, <3>1
  <2>7. disk' = [disk EXCEPT ![fd][0] = h]
    BY <1>5, <2>3, <2>4, <2>5, <2>6
  <2>8. /\ disk' \in [Days -> [Slots -> Solid]] /\ disk'[fd][0] = h
        /\ \A d \in Days, i \in Slots : d # fd \/ i # 0 => disk'[d][i] = disk[d][i]
    BY <1>0, <2>1, <2>7, SetFile
  <2>9. /\ h.ids \cup {id} = (f.ids \cup buf.ids) \cup {id}
        /\ h.size + (len - j) = (f.size + buf.size) + len
    <3>1. h.size = (f.size + buf.size) + j
      BY <2>5, <2>6
    <3>2. h.size + (len - j) = (f.size + buf.size) + len
      BY <2>1, <2>4, <3>1
    <3> QED
      BY <2>5, <2>6, <3>2
  <2>10. FilesOK'
    BY <2>2, <2>8 DEF FilesOK
  <2> QED
    BY <2>2, <2>4, <2>8, <2>9, <2>10 DEF Ids, Bytes
<1> QED
  BY <1>2, <1>3, <1>4, <1>5 DEF id

-----------------------------------------------------------------------------
\* The types and ControlInv hold at first.
LEMMA TypeInit == Init => TypeInv
<1> SUFFICES ASSUME Init PROVE TypeInv
  OBVIOUS
<1>0. /\ shift \in Shifts /\ clock = 0 /\ base = DayOf(0) /\ next = NextRotation(0)
      /\ cfg \in Configs /\ fd = Closed /\ pc = "idle" /\ cont = "check" /\ src = 0 /\ len = 0
      /\ at = <<>> /\ size = 0 /\ faults = 0 /\ spilled = 0 /\ restarts = 0 /\ setBacks = 0
  BY DEF Init
<1>1. DayOf(0) = 0 /\ 0 \in Days
  BY Constants DEF DayOf, Local, Offset, Days
<1>2. NextRotation(0) \in Nat
  BY <1>0, Rotation
<1>3. FilesOK
  BY Files DEF Init, FilesOK
<1>4. opened \in BOOLEAN /\ rotDone \in BOOLEAN /\ stuck \in BOOLEAN /\ ~opened
  BY DEF Init
<1>5. SinkOK
  BY <1>0, <1>1, <1>2, <1>4 DEF SinkOK
<1>6. ControlOK
  BY <1>0, Constants DEF ControlOK, Labels, Slots
<1>7. RestOK
  BY <1>0, <1>4 DEF RestOK
<1>8. buf = Empty
  BY Files DEF Init
<1>9. pc \notin {"close", "rmOldest", "shift", "rename", "write"} /\ cont # "write"
  BY <1>0
<1>10. DayOf(clock) <= MaxDay
  BY <1>0, <1>1, Constants
<1>11. ControlInv
  BY <1>0, <1>4, <1>8, <1>9, <1>10, Zenon DEF ControlInv
<1> QED
  BY <1>3, <1>5, <1>6, <1>7, <1>11 DEF TypeInv

\* A sink that has just been constructed.
LEMMA NewSinkEffect ==
    ASSUME TypeInv, NewSink, FilesOK', buf' = Empty, faults' \in Nat, restarts' = restarts + 1,
           UNCHANGED <<at, clock, shift, stuck, spilled, setBacks>>
    PROVE  TypeInv'
<1>1. clock \in Nat /\ shift \in Shifts /\ DayOf(clock) <= MaxDay
  BY DEF TypeInv, RestOK, ControlInv
<1>2. DayOf(clock) \in Days /\ NextRotation(clock) \in Nat
  BY <1>1, LocalTime, Rotation, Constants DEF Days
<1>3. opened' \in BOOLEAN /\ rotDone' \in BOOLEAN /\ ~opened'
  BY DEF NewSink
<1>4. SinkOK'
  BY <1>2, <1>3 DEF NewSink, SinkOK
<1>5. ControlOK'
  BY Constants DEF NewSink, ControlOK, Labels, Slots
<1>6. RestOK'
  BY DEF TypeInv, RestOK
<1>7. pc' = "idle" /\ cont' = "check" /\ fd' = Closed
  BY DEF NewSink
<1>8. pc' \notin {"close", "rmOldest", "shift", "rename", "write"} /\ cont' # "write"
  BY <1>7
<1>9. DayOf(clock)' <= MaxDay
  BY <1>1 DEF DayOf, Local, Offset
<1>10. ControlInv'
  BY <1>3, <1>7, <1>8, <1>9, Zenon DEF ControlInv
<1> QED
  BY <1>4, <1>5, <1>6, <1>10 DEF TypeInv

\* A step inside a call that leaves the target, the clock and the messages alone.
LEMMA StepTyped ==
    ASSUME TypeInv, FilesOK', ControlOK',
           fd' \in {Closed, base}, opened' => fd' # Closed, opened' \in BOOLEAN,
           fd' = Closed => buf' = Empty,
           size' \in Nat, rotDone' \in BOOLEAN, faults' \in Nat, stuck' \in BOOLEAN,
           spilled' \in Nat,
           UNCHANGED <<cfg, base, next, at, clock, shift, restarts, setBacks>>,
           pc # "idle",
           pc' \in {"close", "rmOldest", "shift", "rename"} => cfg.maxFiles > 0,
           pc' \in {"rmOldest", "shift", "rename"} => fd' = Closed,
           pc' \in {"shift", "rename"} => src' < cfg.maxFiles,
           pc' = "write" => cont' = "write",
           cont' = "write" => len' \in Sizes
    PROVE  TypeInv'
<1>1. SinkOK'
  BY DEF TypeInv, SinkOK
<1>2. RestOK'
  BY DEF TypeInv, RestOK
<1>3. DayOf(clock)' <= MaxDay
  BY DEF TypeInv, ControlInv, DayOf, Local, Offset
<1>4. Len(at') < MaxMsgs /\ clock' < next'
  BY DEF TypeInv, ControlInv
<1>5. ControlInv'
  BY <1>3, <1>4, Zenon DEF ControlInv
<1> QED
  BY <1>1, <1>2, <1>5 DEF TypeInv

\* rotate_if_needed_by_time_ closes the file of the old day, or does nothing.
LEMMA RotateEffect ==
    ASSUME TypeInv, RotateByTime
    PROVE  /\ FilesOK' /\ SinkOK' /\ cfg' = cfg /\ faults' \in Nat
           /\ fd' \in {Closed, base'} /\ (opened' => fd' # Closed)
           /\ (fd' = Closed => buf' = Empty) /\ clock < next'
           /\ \/ clock < next /\ UNCHANGED <<disk, buf, fd, base, next>>
              \/ /\ CloseBuffer /\ fd' = Closed
                 /\ base' = DayOf(clock) /\ next' = NextRotation(clock)
<1>0. /\ FilesOK /\ SinkOK /\ clock \in Nat /\ shift \in Shifts /\ DayOf(clock) <= MaxDay
      /\ next \in Nat /\ faults \in Nat /\ fd \in Days \cup {Closed} /\ fd \in {Closed, base}
      /\ (opened => fd # Closed) /\ (fd = Closed => buf = Empty)
  BY DEF TypeInv, RestOK, ControlInv, SinkOK
<1>1. CASE clock < next
  <2>1. UNCHANGED <<disk, buf, fd, target, sink, faults>>
    BY <1>1 DEF RotateByTime
  <2>2. UNCHANGED <<disk, buf, fd, base, next, cfg, opened, size, rotDone, faults>>
    BY <2>1 DEF target, sink
  <2>3. FilesOK' /\ SinkOK'
    BY <1>0, <2>2 DEF FilesOK, SinkOK
  <2> QED
    BY <1>0, <1>1, <2>2, <2>3
<1>2. CASE ~(clock < next)
  <2>1. /\ CloseBuffer /\ fd' = Closed /\ opened' = FALSE /\ size' = 0
        /\ base' = DayOf(clock) /\ next' = NextRotation(clock) /\ rotDone' = FALSE /\ cfg' = cfg
    BY <1>2 DEF RotateByTime
  <2>2. DayOf(clock) \in Days /\ NextRotation(clock) \in Nat /\ clock < NextRotation(clock)
    BY <1>0, LocalTime, Rotation, Constants DEF Days
  <2>3. FilesOK' /\ buf' = Empty /\ faults' \in Nat
    BY <1>0, <2>1, CloseEffect
  <2>4. opened' \in BOOLEAN /\ rotDone' \in BOOLEAN /\ ~opened'
    BY <2>1
  <2>5. SinkOK'
    BY <1>0, <2>1, <2>2, <2>4 DEF SinkOK
  <2> QED
    BY <2>1, <2>2, <2>3, <2>4, <2>5
<1> QED
  BY <1>1, <1>2

\* The chain goes on with the next file, or is done.
LEMMA NextSourceEffect ==
    ASSUME TypeInv, NextSource, src \in Slots
    PROVE  /\ ControlOK' /\ UNCHANGED <<cont, len>>
           /\ \/ pc' = "open" /\ src' = src
              \/ pc' = "shift" /\ src' < src
<1>1. src \in Nat /\ 0 \in Slots
  BY Constants DEF Slots
<1>2. CASE src = 0
  BY <1>2 DEF NextSource, Goto, TypeInv, ControlOK, Labels
<1>3. CASE src # 0
  <2>1. src - 1 \in Slots /\ src - 1 < src
    BY <1>1, <1>3, Constants DEF Slots
  <2> QED
    BY <1>3, <2>1 DEF NextSource, Goto, TypeInv, ControlOK, Labels
<1> QED
  BY <1>2, <1>3

\* Every step keeps them.
LEMMA TypeStep == TypeInv /\ [Next]_vars => TypeInv'
<1> SUFFICES ASSUME TypeInv, [Next]_vars PROVE TypeInv'
  OBVIOUS
<1> USE DEF target, sink, control, bounds
<1>0. /\ FilesOK /\ SinkOK /\ ControlOK /\ RestOK /\ ControlInv
      /\ fd \in Days \cup {Closed} /\ fd \in {Closed, base} /\ base \in Days
      /\ cfg \in Config /\ cfg.maxFiles \in 0..MaxSlot
      /\ (fd = Closed => buf = Empty) /\ (opened => fd # Closed)
      /\ opened \in BOOLEAN /\ rotDone \in BOOLEAN /\ stuck \in BOOLEAN
      /\ faults \in Nat /\ spilled \in Nat /\ size \in Nat /\ src \in Slots /\ len \in Sizes \cup {0}
      /\ len \in Nat /\ (len \in Sizes => len # 0) /\ cont \in {"check", "write"}
      /\ (cont = "write" => len \in Sizes)
      /\ buf \in Solid /\ disk \in [Days -> [Slots -> Solid]] /\ 0 \in Slots
  <2>1. FilesOK /\ SinkOK /\ ControlOK /\ RestOK /\ ControlInv
    BY DEF TypeInv
  <2>2. cfg \in Config
    BY <2>1, ConstantsAssumption DEF SinkOK
  <2>3. cfg.maxFiles \in 0..MaxSlot
    BY <2>2 DEF Config
  <2>4. len \in Nat /\ (len \in Sizes => len # 0) /\ 0 \in Slots
    BY <2>1, ConstantsAssumption DEF ControlOK, Slots
  <2> QED
    BY <2>1, <2>2, <2>3, <2>4 DEF FilesOK, SinkOK, ControlOK, RestOK, ControlInv
<1>1. CASE Log
  <2>1. /\ pc = "idle" /\ Len(at) < MaxMsgs /\ RotateByTime /\ pc' = "entry"
        /\ UNCHANGED <<cont, src, len, at, clock, shift, stuck, spilled, restarts, setBacks>>
    BY <1>1 DEF Log, Goto
  <2>2. /\ FilesOK' /\ SinkOK' /\ fd' \in {Closed, base'} /\ (opened' => fd' # Closed)
        /\ (fd' = Closed => buf' = Empty) /\ clock' < next' /\ cfg' = cfg
        /\ faults' \in Nat
    BY <2>1, RotateEffect
  <2>3. ControlOK' /\ RestOK'
    BY <1>0, <2>1, <2>2 DEF ControlOK, RestOK, Labels
  <2>4. DayOf(clock)' <= MaxDay
    BY <1>0, <2>1 DEF ControlInv, DayOf, Local, Offset
  <2>5. pc' \notin {"close", "rmOldest", "shift", "rename", "write"} /\ pc' # "write"
    BY <2>1
  <2>6. (cont' = "write" => len' \in Sizes) /\ Len(at') < MaxMsgs
    BY <1>0, <2>1
  <2>7. ControlInv'
    BY <2>2, <2>4, <2>5, <2>6, Zenon DEF ControlInv
  <2> QED
    BY <2>2, <2>3, <2>7 DEF TypeInv
<1>2. CASE RotateOnOpen
  <2>1. /\ pc = "entry" /\ rotDone' = TRUE
        /\ UNCHANGED <<disk, buf, fd, base, next, cfg, opened, size, at, clock, shift,
                       stuck, spilled, restarts, setBacks, cont, src, len>>
        /\ \/ pc' = "close" /\ cfg.maxFiles > 0
           \/ pc' = "open"
        /\ faults' \in {faults, faults + 1}
    BY <1>2 DEF RotateOnOpen, Fails, Goto
  <2>2. rotDone' \in BOOLEAN /\ faults' \in Nat
    BY <1>0, <2>1
  <2>3. FilesOK' /\ ControlOK'
    BY <1>0, <2>1 DEF FilesOK, ControlOK, Labels
  <2>4. pc # "idle" /\ pc' \notin {"rmOldest", "shift", "rename"} /\ pc' # "write"
    BY <2>1
  <2>5. pc' \in {"close", "rmOldest", "shift", "rename"} => cfg.maxFiles > 0
    BY <2>1
  <2> QED
    BY <1>0, <2>1, <2>2, <2>3, <2>4, <2>5, StepTyped, Zenon
<1>3. CASE OpenFile
  <2>1. /\ pc = "open" /\ pc' = cont
        /\ UNCHANGED <<cont, src, len, buf, base, next, cfg, rotDone, at, clock, shift,
                       faults, stuck, spilled, restarts, setBacks>>
    BY <1>3 DEF OpenFile, Goto
  <2>2. /\ disk' \in [Days -> [Slots -> Solid]] /\ fd' = base /\ opened' /\ opened' \in BOOLEAN
        /\ size' \in Nat
    <3>1. CASE opened
      BY <1>0, <1>3, <3>1 DEF OpenFile
    <3>2. CASE ~opened
      <4>1. /\ disk' = [disk EXCEPT ![base][0] = Join(disk[base][0], Empty)]
            /\ fd' = base /\ opened' = TRUE /\ size' = disk[base][0].size
        BY <1>0, <1>3, <3>2 DEF OpenFile
      <4>2. disk[base][0].size \in Nat
        BY <1>0, Files
      <4> QED
        BY <1>0, <4>1, <4>2, CreateEffect
    <3> QED
      BY <3>1, <3>2
  <2>3. FilesOK' /\ ControlOK'
    BY <1>0, <2>1, <2>2 DEF FilesOK, ControlOK, Labels
  <2>4. /\ pc # "idle" /\ pc' \notin {"close", "rmOldest", "shift", "rename"}
        /\ pc' \notin {"rmOldest", "shift", "rename"} /\ pc' \notin {"shift", "rename"}
    BY <1>0, <2>1
  <2>5. fd' \in {Closed, base} /\ fd' # Closed
    BY <1>0, <2>2, Constants
  <2>6. (pc' = "write" => cont' = "write") /\ (cont' = "write" => len' \in Sizes)
    BY <1>0, <2>1
  <2>7. rotDone' \in BOOLEAN /\ faults' \in Nat /\ stuck' \in BOOLEAN /\ spilled' \in Nat
    BY <1>0, <2>1
  <2> QED
    BY <1>0, <2>1, <2>2, <2>3, <2>4, <2>5, <2>6, <2>7, StepTyped, Zenon
<1>4. CASE OpenFails
  <2>1. /\ pc = "open" /\ pc' = "idle" /\ cont' = "check" /\ len' = 0 /\ faults' = faults + 1
        /\ UNCHANGED <<src, disk, buf, fd, base, next, cfg, opened, size, rotDone, at, clock,
                       shift, stuck, spilled, restarts, setBacks>>
    BY <1>4 DEF OpenFails, Fails, Return
  <2>2. FilesOK' /\ ControlOK' /\ faults' \in Nat
    BY <1>0, <2>1 DEF FilesOK, ControlOK, Labels
  <2>3. /\ pc # "idle" /\ pc' \notin {"close", "rmOldest", "shift", "rename"}
        /\ pc' \notin {"rmOldest", "shift", "rename"} /\ pc' \notin {"shift", "rename"}
        /\ pc' # "write" /\ cont' # "write"
    BY <2>1
  <2> QED
    BY <1>0, <2>1, <2>2, <2>3, StepTyped, Zenon
<1>5. CASE CheckSize
  <2>1. /\ pc = "check" /\ len' \in Sizes /\ cont' = "write"
        /\ \/ pc' = "close" /\ cfg.maxFiles > 0
           \/ pc' = "write"
        /\ UNCHANGED <<src, disk, buf, fd, base, next, cfg, opened, size, rotDone, at, clock,
                       shift, faults, stuck, spilled, restarts, setBacks>>
    BY <1>5 DEF CheckSize
  <2>2. FilesOK' /\ ControlOK'
    BY <1>0, <2>1 DEF FilesOK, ControlOK, Labels
  <2>3. pc # "idle" /\ pc' \notin {"rmOldest", "shift", "rename"} /\ pc' \notin {"shift", "rename"}
    BY <2>1
  <2>4. pc' \in {"close", "rmOldest", "shift", "rename"} => cfg.maxFiles > 0
    BY <2>1
  <2> QED
    BY <1>0, <2>1, <2>2, <2>3, <2>4, StepTyped, Zenon
<1>6. CASE Write
  <2>1. /\ pc = "write" /\ Fwrite /\ size' = size + len
        /\ at' = Append(at, Groups(clock))
        /\ pc' = "idle" /\ cont' = "check" /\ len' = 0
        /\ UNCHANGED <<src, fd, base, next, cfg, opened, rotDone, clock, shift, faults, stuck,
                       spilled, restarts, setBacks>>
    BY <1>6 DEF Write, Return
  <2>2. len \in Nat \ {0} /\ Len(at) \in Nat /\ Len(at) < MaxMsgs /\ DayOf(clock) <= MaxDay
    BY <1>0, <2>1 DEF ControlInv, RestOK
  <2>3. FilesOK' /\ (fd = Closed => buf' = buf)
    BY <1>0, <2>1, <2>2, WriteEffect
  <2>4. Groups(clock) \in SUBSET Days
    BY DEF Groups
  <2>5. RestOK'
    BY <1>0, <2>1, <2>4 DEF RestOK
  <2>6. ControlOK' /\ SinkOK'
    BY <1>0, <2>1 DEF ControlOK, SinkOK, Labels
  <2>7. DayOf(clock)' <= MaxDay
    BY <2>1, <2>2 DEF DayOf, Local, Offset
  <2>8. /\ pc' \notin {"close", "rmOldest", "shift", "rename"}
        /\ pc' \notin {"rmOldest", "shift", "rename"} /\ pc' \notin {"shift", "rename"}
        /\ pc' # "write" /\ cont' # "write"
    BY <2>1
  <2>9. fd' \in {Closed, base'} /\ (opened' => fd' # Closed) /\ (fd' = Closed => buf' = Empty)
    BY <1>0, <2>1, <2>3
  <2>10. ControlInv'
    BY <2>1, <2>7, <2>8, <2>9, Zenon DEF ControlInv
  <2> QED
    BY <2>3, <2>5, <2>6, <2>10 DEF TypeInv
<1>7. CASE WriteFails
  <2>1. /\ pc = "write" /\ fd # Closed /\ faults' = faults + 1
        /\ pc' = "idle" /\ cont' = "check" /\ len' = 0
        /\ UNCHANGED <<src, disk, fd, base, next, cfg, opened, size, rotDone, at, clock, shift,
                       stuck, restarts, setBacks>>
    BY <1>7 DEF WriteFails, Fails, Return
  <2>2. PICK j \in 0..(len - 1) : buf' = Join(buf, Piece({}, j)) /\ spilled' = spilled + j
    BY <1>7 DEF WriteFails, Piece
  <2>3. j \in Nat /\ spilled' \in Nat /\ Piece({}, j) \in Solid
    BY <1>0, <2>2, PieceFacts
  <2>4. buf' \in Solid
    BY <1>0, <2>2, <2>3, Files
  <2>5. FilesOK' /\ ControlOK' /\ faults' \in Nat
    BY <1>0, <2>1, <2>4 DEF FilesOK, ControlOK, Labels
  <2>6. /\ pc # "idle" /\ pc' \notin {"close", "rmOldest", "shift", "rename"}
        /\ pc' \notin {"rmOldest", "shift", "rename"} /\ pc' \notin {"shift", "rename"}
        /\ pc' # "write" /\ cont' # "write"
    BY <2>1
  <2> QED
    BY <1>0, <2>1, <2>3, <2>5, <2>6, StepTyped, Zenon
<1>8. CASE Close
  <2>1. /\ pc = "close" /\ CloseBuffer /\ fd' = Closed /\ opened' = FALSE /\ size' = 0
        /\ pc' = "rmOldest"
        /\ UNCHANGED <<cont, src, len, base, next, cfg, rotDone, at, clock, shift, stuck,
                       spilled, restarts, setBacks>>
    BY <1>8 DEF Close, Goto
  <2>2. FilesOK' /\ buf' = Empty /\ faults' \in Nat
    BY <1>0, <2>1, CloseEffect
  <2>3. ControlOK' /\ size' \in Nat
    BY <1>0, <2>1 DEF ControlOK, Labels
  <2>4. opened' \in BOOLEAN /\ ~opened'
    BY <2>1
  <2>5. pc # "idle" /\ pc' \notin {"shift", "rename"} /\ pc' # "write" /\ cfg.maxFiles > 0
    BY <1>0, <2>1 DEF ControlInv
  <2> QED
    BY <1>0, <2>1, <2>2, <2>3, <2>4, <2>5, StepTyped, Zenon
<1>9. CASE RemoveOldest
  <2>1. /\ pc = "rmOldest" /\ Remove(cfg.maxFiles) /\ pc' = "shift" /\ src' = cfg.maxFiles - 1
        /\ UNCHANGED <<cont, len, buf, fd, base, next, cfg, opened, size, rotDone, at, clock,
                       shift, stuck, spilled, restarts, setBacks>>
    BY <1>9 DEF RemoveOldest
  <2>2. cfg.maxFiles > 0 /\ fd = Closed
    BY <1>0, <2>1 DEF ControlInv
  <2>3. cfg.maxFiles \in Slots /\ src' \in Slots /\ src' < cfg.maxFiles
    BY <1>0, <2>1, <2>2, Constants DEF Slots
  <2>4. FilesOK' /\ faults' \in Nat
    BY <1>0, <2>1, <2>3, RemoveEffect
  <2>5. ControlOK'
    BY <1>0, <2>1, <2>3 DEF ControlOK, Labels
  <2>6. pc # "idle" /\ pc' # "write"
    BY <2>1
  <2> QED
    BY <1>0, <2>1, <2>2, <2>3, <2>4, <2>5, <2>6, StepTyped, Zenon
<1>10. CASE Shift
  <2>1. /\ pc = "shift"
        /\ UNCHANGED <<buf, fd, base, next, cfg, opened, size, rotDone, at, clock, shift, spilled,
                       restarts, setBacks>>
        /\ \/ Remove(src + 1) /\ pc' = "rename" /\ UNCHANGED <<cont, src, len, stuck>>
           \/ NextSource /\ UNCHANGED <<disk, faults, stuck>>
           \/ NextSource /\ disk' = disk /\ faults' = faults + 1 /\ Unmoved
    BY <1>10 DEF Shift, Fails, Goto
  <2>2. cfg.maxFiles > 0 /\ fd = Closed /\ src < cfg.maxFiles
    BY <1>0, <2>1 DEF ControlInv
  <2>3. src + 1 \in Slots /\ src \in Nat
    BY <1>0, <2>2, Constants DEF Slots
  <2>4. FilesOK' /\ faults' \in Nat
    BY <1>0, <2>1, <2>3, RemoveEffect DEF FilesOK
  <2>7. stuck' \in BOOLEAN
    BY <1>0, <2>1 DEF Unmoved
  <2>5. ControlOK' /\ UNCHANGED <<cont, len>> /\ pc' \in {"rename", "shift", "open"}
        /\ (pc' \in {"rename", "shift"} => src' < cfg.maxFiles)
    BY <1>0, <2>1, <2>2, <2>3, NextSourceEffect DEF ControlOK, Labels, Slots
  <2>6. pc # "idle" /\ pc' # "write" /\ (pc' \in {"shift", "rename"} => src' < cfg.maxFiles)
    BY <2>1, <2>5
  <2> QED
    BY <1>0, <2>1, <2>2, <2>4, <2>5, <2>6, <2>7, StepTyped, Zenon
<1>11. CASE Rename
  <2>1. /\ pc = "rename" /\ NextSource
        /\ UNCHANGED <<buf, fd, base, next, cfg, opened, size, rotDone, at, clock, shift,
                       spilled, restarts, setBacks>>
    BY <1>11 DEF Rename
  <2>2. cfg.maxFiles > 0 /\ fd = Closed /\ src < cfg.maxFiles
    BY <1>0, <2>1 DEF ControlInv
  <2>3. src + 1 \in Slots /\ src \in Nat
    BY <1>0, <2>2, Constants DEF Slots
  <2>4. FilesOK' /\ faults' \in Nat /\ stuck' \in BOOLEAN
    BY <1>0, <1>11, <2>1, <2>3, RenameEffect
  <2>5. ControlOK' /\ UNCHANGED <<cont, len>> /\ pc' \in {"shift", "open"}
        /\ (pc' = "shift" => src' < cfg.maxFiles)
    BY <1>0, <2>1, <2>2, <2>3, NextSourceEffect DEF ControlOK, Slots
  <2>6. pc # "idle" /\ pc' # "write" /\ (pc' \in {"shift", "rename"} => src' < cfg.maxFiles)
    BY <2>1, <2>5
  <2> QED
    BY <1>0, <2>1, <2>2, <2>4, <2>5, <2>6, StepTyped, Zenon
<1>12. CASE Flush
  <2>1. /\ disk' = Synced /\ buf' = Empty
        /\ UNCHANGED <<fd, base, next, cfg, opened, size, rotDone, pc, cont, src, len, at, clock,
                       shift, faults, stuck, spilled, restarts, setBacks>>
    BY <1>12 DEF Flush
  <2>2. FilesOK' /\ buf' = Empty
    BY <1>0, <2>1, SyncEffect
  <2>3. SinkOK' /\ ControlOK' /\ RestOK'
    BY <1>0, <2>1 DEF SinkOK, ControlOK, RestOK
  <2>4. ControlInv'
    BY <1>0, <2>1, <2>2 DEF ControlInv, DayOf, Local, Offset
  <2> QED
    BY <2>2, <2>3, <2>4 DEF TypeInv
<1>13. CASE Restart
  <2>1. /\ CloseBuffer /\ NewSink /\ restarts' = restarts + 1
        /\ UNCHANGED <<at, clock, shift, stuck, spilled, setBacks>>
    BY <1>13 DEF Restart
  <2>2. FilesOK' /\ buf' = Empty /\ faults' \in Nat
    BY <1>0, <2>1, CloseEffect
  <2> QED
    BY <2>1, <2>2, NewSinkEffect
<1>14. CASE Crash
  <2>1. /\ buf' = Empty /\ NewSink /\ restarts' = restarts + 1 /\ disk' = disk
        /\ UNCHANGED <<at, clock, shift, faults, stuck, spilled, setBacks>>
    BY <1>14 DEF Crash
  <2>2. FilesOK' /\ buf' = Empty /\ faults' \in Nat
    BY <1>0, <2>1, Files DEF FilesOK
  <2> QED
    BY <2>1, <2>2, NewSinkEffect
<1>15. CASE Tick \/ SetBack
  <2>1. /\ pc = "idle"
        /\ UNCHANGED <<disk, buf, fd, base, next, cfg, opened, size, rotDone, pc, cont, src, len,
                       at, shift, faults, stuck, spilled, restarts>>
    BY <1>15 DEF Tick, SetBack
  <2>2. clock' \in Nat /\ setBacks' \in Nat /\ DayOf(clock') <= MaxDay
    <3>1. clock \in Nat /\ shift \in Shifts /\ setBacks \in Nat /\ DayOf(clock) <= MaxDay
      BY <1>0 DEF RestOK, ControlInv
    <3>2. CASE Tick
      BY <3>1, <3>2, Constants DEF Tick
    <3>3. CASE SetBack
      <4>1. clock' \in Nat /\ clock' <= clock /\ setBacks' \in Nat
        BY <3>1, <3>3 DEF SetBack
      <4>2. DayOf(clock') \in Nat /\ DayOf(clock') <= DayOf(clock) /\ DayOf(clock) \in Nat
        BY <3>1, <4>1, LocalTime
      <4> QED
        BY <3>1, <4>1, <4>2, Constants
    <3> QED
      BY <1>15, <3>2, <3>3
  <2>3. DayOf(clock)' <= MaxDay
    BY <2>1, <2>2 DEF DayOf, Local, Offset
  <2>4. FilesOK' /\ SinkOK' /\ ControlOK'
    BY <1>0, <2>1 DEF FilesOK, SinkOK, ControlOK
  <2>5. RestOK'
    BY <1>0, <2>1, <2>2 DEF RestOK
  <2>6. /\ pc' \notin {"close", "rmOldest", "shift", "rename"}
        /\ pc' \notin {"rmOldest", "shift", "rename"} /\ pc' \notin {"shift", "rename"}
        /\ pc' # "write" /\ pc' = "idle"
    BY <2>1
  <2>7. fd' \in {Closed, base'} /\ (opened' => fd' # Closed) /\ (fd' = Closed => buf' = Empty)
        /\ (cont' = "write" => len' \in Sizes)
    BY <1>0, <2>1
  <2>8. ControlInv'
    BY <2>3, <2>6, <2>7, Zenon DEF ControlInv
  <2> QED
    BY <2>4, <2>5, <2>8 DEF TypeInv
<1>16. CASE UNCHANGED vars
  <2>1. UNCHANGED <<disk, buf, fd, base, next, cfg, opened, size, rotDone, pc, cont, src, len, at,
                    clock, shift, faults, stuck, spilled, restarts, setBacks>>
    BY <1>16 DEF vars
  <2>2. FilesOK' /\ SinkOK' /\ ControlOK' /\ RestOK'
    BY <1>0, <2>1 DEF FilesOK, SinkOK, ControlOK, RestOK
  <2>3. ControlInv'
    BY <1>0, <2>1 DEF ControlInv, DayOf, Local, Offset
  <2> QED
    BY <2>2, <2>3 DEF TypeInv
<1>17. CASE SizeFails
  <2>1. /\ pc = "open" /\ pc' = "idle" /\ cont' = "check" /\ len' = 0 /\ faults' = faults + 1
        /\ fd' = base /\ opened' = TRUE /\ stuck' = (stuck \/ disk[base][0].size > 0)
        /\ disk' = [disk EXCEPT ![base][0] = Join(@, Empty)]
        /\ UNCHANGED <<src, buf, base, next, cfg, size, rotDone, at, clock, shift, spilled,
                       restarts, setBacks>>
    BY <1>17 DEF SizeFails, Fails, Return
  <2>2. disk' \in [Days -> [Slots -> Solid]]
    BY <1>0, <2>1, CreateEffect
  <2>3. FilesOK' /\ ControlOK' /\ faults' \in Nat
    BY <1>0, <2>1, <2>2 DEF FilesOK, ControlOK, Labels
  <2>4. /\ pc # "idle" /\ pc' \notin {"close", "rmOldest", "shift", "rename"}
        /\ pc' \notin {"rmOldest", "shift", "rename"} /\ pc' \notin {"shift", "rename"}
        /\ pc' # "write" /\ cont' # "write"
    BY <2>1
  <2>5. opened' \in BOOLEAN /\ opened' /\ stuck' \in BOOLEAN
    BY <1>0, <2>1
  <2>6. fd' \in {Closed, base} /\ fd' # Closed
    BY <1>0, <2>1, Constants
  <2> QED
    BY <1>0, <2>1, <2>3, <2>4, <2>5, <2>6, StepTyped, Zenon
<1> QED
  BY <1>1, <1>2, <1>3, <1>4, <1>5, <1>6, <1>7, <1>8, <1>9, <1>10, <1>11, <1>12, <1>13, <1>14,
     <1>15, <1>16, <1>17 DEF Next, SinkIt

\* The variables have their types: the chain of renames stays inside the backups there are,
\* and the days inside those of the calendar.
THEOREM TypeCorrect == Spec => []TypeOK
<1>1. TypeInv => TypeOK
  BY DEF TypeInv, FilesOK, Solid, SinkOK, ControlOK, RestOK, Labels, TypeOK
<1> QED
  BY <1>1, TypeInit, TypeStep, PTL DEF Spec

-----------------------------------------------------------------------------
(* What a step does to the files and to the current day.                   *)

\* A file has no more than one had before: messages and, apart from the heads of failed
\* writes, bytes.
Less(d, i, e, j) ==
    Ids(d, i)' \subseteq Ids(e, j) /\ Bytes(d, i)' + spilled <= Bytes(e, j) + spilled'

\* No file gains anything.
FilesShrink == \A d \in Days, i \in Slots : Less(d, i, d, i)

\* One file of a day becomes the backup after it.
FilesMove ==
    \E b \in Days, k \in Slots :
        /\ k + 1 \in Slots
        /\ Less(b, k + 1, b, k) /\ Ids(b, k)' = {} /\ Bytes(b, k)' = 0
        /\ \A d \in Days, i \in Slots : d # b \/ (i # k /\ i # k + 1) => Less(d, i, d, i)

\* The current day stays, or the one of the clock is computed anew.
TargetKept == base' = base /\ next' = next
TargetNew == base' = DayOf(clock) /\ next' = NextRotation(clock) /\ clock' = clock

\* The bytes of a file are a number.
LEMMA BytesType ==
    FilesOK => \A d \in Days, i \in Slots : Bytes(d, i) \in Nat /\ disk[d][i].size \in Nat
<1> SUFFICES ASSUME FilesOK PROVE \A d \in Days, i \in Slots :
                                    Bytes(d, i) \in Nat /\ disk[d][i].size \in Nat
  OBVIOUS
<1>1. buf.size \in Nat /\ \A d \in Days, i \in Slots : disk[d][i].size \in Nat
  BY Files DEF FilesOK
<1> QED
  BY <1>1 DEF Bytes

\* Files that stay as they are.
LEMMA Unchanged ==
    ASSUME FilesOK, spilled \in Nat, UNCHANGED <<disk, buf, fd, spilled>>
    PROVE  FilesShrink
<1>1. \A d \in Days, i \in Slots : Bytes(d, i) \in Nat
  BY BytesType
<1>2. \A d \in Days, i \in Slots : Ids(d, i)' = Ids(d, i) /\ Bytes(d, i)' = Bytes(d, i)
  BY DEF Ids, Bytes
<1> QED
  BY <1>1, <1>2 DEF FilesShrink, Less

\* Files that have nothing buffered after the step and on the disk no more than they had.
LEMMA Settled ==
    ASSUME FilesOK, FilesOK', spilled \in Nat, spilled' = spilled, buf' = Empty \/ fd' = Closed,
           fd' \in Days \cup {Closed},
           \A d \in Days, i \in Slots :
             disk'[d][i].ids \subseteq Ids(d, i) /\ disk'[d][i].size <= Bytes(d, i)
    PROVE  FilesShrink
<1>1. \A d \in Days, i \in Slots : Bytes(d, i) \in Nat
  BY BytesType
<1>2. \A d \in Days, i \in Slots : disk'[d][i].size \in Nat
  BY Files DEF FilesOK
<1>3. \A d \in Days, i \in Slots : Ids(d, i)' = disk'[d][i].ids /\ Bytes(d, i)' = disk'[d][i].size
  BY <1>2, Files, Constants DEF Ids, Bytes
<1> QED
  BY <1>1, <1>2, <1>3 DEF FilesShrink, Less

\* All steps but Write take from files or move one file of a day, in which case none is
\* open, and keep the current day or compute it anew.
LEMMA StepEffect ==
    ASSUME TypeInv, TypeInv', [Next]_vars, ~Write
    PROVE  /\ at' = at /\ shift' = shift
           /\ FilesShrink \/ (FilesMove /\ fd' = Closed)
           /\ TargetKept \/ TargetNew
           /\ setBacks' = 0 => setBacks = 0 /\ clock <= clock'
<1> USE DEF target, sink, control, bounds
<1>0. /\ FilesOK /\ FilesOK' /\ ControlInv
      /\ fd \in Days \cup {Closed} /\ fd \in {Closed, base} /\ base \in Days
      /\ fd' \in Days \cup {Closed}
      /\ (fd = Closed => buf = Empty) /\ (opened => fd # Closed) /\ opened \in BOOLEAN
      /\ faults \in Nat /\ stuck \in BOOLEAN /\ src \in Slots /\ clock \in Nat /\ setBacks \in Nat
      /\ spilled \in Nat /\ buf \in Solid
      /\ disk \in [Days -> [Slots -> Solid]] /\ 0 \in Slots /\ cfg.maxFiles \in 0..MaxSlot
  <2>1. cfg \in Config
    BY ConstantsAssumption DEF TypeInv, SinkOK
  <2>2. cfg.maxFiles \in 0..MaxSlot /\ 0 \in Slots
    BY <2>1, Constants DEF Config, Slots
  <2> QED
    BY <2>2 DEF TypeInv, FilesOK, SinkOK, ControlOK, RestOK, ControlInv
<1>1. \A d \in Days, i \in Slots : Bytes(d, i) \in Nat /\ disk[d][i].size \in Nat
  BY <1>0, BytesType
<1>2. CASE Log
  <2>1. /\ RotateByTime /\ UNCHANGED <<at, shift, clock, setBacks, spilled>>
    BY <1>2 DEF Log
  <2>2. \/ UNCHANGED <<disk, buf, fd, base, next>>
        \/ CloseBuffer /\ fd' = Closed /\ base' = DayOf(clock) /\ next' = NextRotation(clock)
    BY <2>1, RotateEffect
  <2>3. FilesShrink
    <3>1. CASE UNCHANGED <<disk, buf, fd, base, next>>
      BY <1>0, <2>1, <3>1, Unchanged
    <3>2. CASE CloseBuffer /\ fd' = Closed
      BY <1>0, <2>1, <3>2, CloseEffect, Settled
    <3> QED
      BY <2>2, <3>1, <3>2
  <2> QED
    BY <1>0, <2>1, <2>2, <2>3 DEF TargetKept, TargetNew
<1>3. CASE RotateOnOpen \/ OpenFails \/ CheckSize
  <2>1. UNCHANGED <<disk, buf, fd, base, next, at, shift, clock, setBacks, spilled>>
    BY <1>3 DEF RotateOnOpen, OpenFails, CheckSize
  <2> QED
    BY <1>0, <2>1, Unchanged DEF TargetKept
<1>4. CASE OpenFile \/ SizeFails
  <2>1. UNCHANGED <<buf, base, next, at, shift, clock, setBacks, spilled>>
    BY <1>4 DEF OpenFile, SizeFails
  <2>2. FilesShrink
    <3>1. CASE opened
      BY <1>0, <1>4, <2>1, <3>1, Unchanged DEF OpenFile, SizeFails
    <3>2. CASE ~opened
      <4>1. disk' = [disk EXCEPT ![base][0] = Join(@, Empty)] /\ fd' = base
        BY <1>4, <3>2 DEF OpenFile, SizeFails
      <4>2. \A d \in Days, i \in Slots :
              disk'[d][i].ids = disk[d][i].ids /\ disk'[d][i].size = disk[d][i].size
        BY <1>0, <4>1, CreateEffect
      <4>3. \A d \in Days, i \in Slots : Ids(d, i)' \subseteq Ids(d, i)
        <5>1. buf.ids = {} \/ fd = base
          BY <1>0, Files
        <5> QED
          BY <1>0, <2>1, <4>1, <4>2, <5>1 DEF Ids
      <4>4. \A d \in Days, i \in Slots : Bytes(d, i)' = Bytes(d, i)
        <5>1. buf.size = 0 \/ fd = base
          BY <1>0, Files
        <5>2. \A d \in Days, i \in Slots :
                Bytes(d, i)' = disk[d][i].size + (IF base = d /\ i = 0 THEN buf.size ELSE 0)
          BY <2>1, <4>1, <4>2 DEF Bytes
        <5>3. CASE fd = base
          BY <5>2, <5>3 DEF Bytes
        <5>4. CASE buf.size = 0
          BY <1>1, <5>2, <5>4 DEF Bytes
        <5> QED
          BY <5>1, <5>3, <5>4
      <4> QED
        BY <1>0, <1>1, <2>1, <4>3, <4>4 DEF FilesShrink, Less
    <3> QED
      BY <3>1, <3>2
  <2> QED
    BY <1>0, <2>1, <2>2 DEF TargetKept
<1>5. CASE WriteFails
  <2>1. UNCHANGED <<disk, fd, base, next, at, shift, clock, setBacks>>
    BY <1>5 DEF WriteFails
  <2>2. PICK j \in 0..(len - 1) : buf' = Join(buf, Piece({}, j)) /\ spilled' = spilled + j
    BY <1>5 DEF WriteFails, Piece
  <2>3. buf'.ids = buf.ids /\ buf'.size = buf.size + j
    <3>1. PICK p \in Solid : p = Piece({}, j) /\ p.ids = {} /\ p.size = j
      <4>1. j \in Nat
        OBVIOUS
      <4> QED
        BY <4>1, PieceFacts
    <3>2. Join(buf, p).ids = buf.ids \cup p.ids /\ Join(buf, p).size = buf.size + p.size
      BY <1>0, Files
    <3> QED
      BY <2>2, <3>1, <3>2
  <2>4. \A d \in Days, i \in Slots : Ids(d, i)' \subseteq Ids(d, i)
    BY <2>1, <2>3 DEF Ids
  <2>5. \A d \in Days, i \in Slots : Bytes(d, i)' + spilled <= Bytes(d, i) + spilled'
    <3>1. buf.size \in Nat /\ j \in Nat
      BY <1>0, Files
    <3> QED
      BY <1>0, <1>1, <2>1, <2>2, <2>3, <3>1 DEF Bytes
  <2> QED
    BY <1>0, <2>1, <2>4, <2>5 DEF FilesShrink, Less, TargetKept
<1>6. CASE Close
  <2>1. CloseBuffer /\ fd' = Closed /\ UNCHANGED <<base, next, at, shift, clock, setBacks, spilled>>
    BY <1>6 DEF Close
  <2> QED
    BY <1>0, <2>1, CloseEffect, Settled DEF TargetKept
<1>7. CASE Flush
  <2>1. /\ disk' = Synced /\ buf' = Empty
        /\ UNCHANGED <<fd, base, next, at, shift, clock, setBacks, spilled>>
    BY <1>7 DEF Flush
  <2>2. \A d \in Days, i \in Slots :
          disk'[d][i].ids \subseteq Ids(d, i) /\ disk'[d][i].size <= Bytes(d, i)
    BY <1>0, <1>1, <2>1, SyncEffect
  <2> QED
    BY <1>0, <2>1, <2>2, Settled DEF TargetKept
<1>8. CASE RemoveOldest \/ Shift
  <2>1. /\ UNCHANGED <<buf, fd, base, next, at, shift, clock, setBacks, spilled>>
        /\ \/ Remove(cfg.maxFiles)
           \/ pc = "shift" /\ Remove(src + 1)
           \/ disk' = disk
        /\ pc \in {"rmOldest", "shift"}
    BY <1>8 DEF RemoveOldest, Shift
  <2>2. cfg.maxFiles \in Slots /\ (pc = "shift" => src + 1 \in Slots) /\ fd = Closed
    BY <1>0, <2>1, Constants DEF Slots, ControlInv
  <2>3. \A d \in Days, i \in Slots :
          disk'[d][i].ids \subseteq disk[d][i].ids /\ disk'[d][i].size <= disk[d][i].size
    BY <1>0, <1>1, <2>1, <2>2, RemoveEffect
  <2>4. \A d \in Days, i \in Slots :
          disk'[d][i].ids \subseteq Ids(d, i) /\ disk'[d][i].size <= Bytes(d, i)
    BY <1>1, <2>2, <2>3, Constants DEF Ids, Bytes
  <2> QED
    BY <1>0, <2>1, <2>2, <2>4, Settled DEF TargetKept
<1>9. CASE Rename
  <2>1. UNCHANGED <<buf, fd, base, next, at, shift, clock, setBacks, spilled>> /\ pc = "rename"
    BY <1>9 DEF Rename
  <2>2. fd = Closed /\ src \in Nat /\ src + 1 \in Slots
    BY <1>0, <2>1, Constants DEF ControlInv, Slots
  <2>3. \/ disk' = disk
        \/ /\ disk'[base][src] = Absent /\ disk'[base][src + 1] = disk[base][src]
           /\ \A d \in Days, j \in Slots :
                d # base \/ (j # src /\ j # src + 1) => disk'[d][j] = disk[d][j]
    BY <1>0, <1>9, <2>1, <2>2, RenameEffect
  <2>4. \A d \in Days, i \in Slots :
          /\ Ids(d, i) = disk[d][i].ids /\ Ids(d, i)' = disk'[d][i].ids
          /\ Bytes(d, i) = disk[d][i].size /\ Bytes(d, i)' = disk'[d][i].size
    <3>1. \A d \in Days, i \in Slots : disk'[d][i].size \in Nat
      BY <1>0, Files DEF FilesOK
    <3> QED
      BY <1>1, <2>1, <2>2, <3>1, Constants DEF Ids, Bytes
  <2>5. FilesShrink \/ FilesMove
    <3>1. CASE disk' = disk
      BY <1>0, <2>1, <3>1, Unchanged
    <3>2. CASE disk' # disk
      <4>1. PICK b \in Days, k \in Slots : b = base /\ k = src
        BY <1>0
      <4>2. k + 1 \in Slots
        BY <2>2, <4>1
      <4>3. \A d \in Days, i \in Slots : d # b \/ (i # k /\ i # k + 1) => Less(d, i, d, i)
        BY <1>0, <1>1, <2>1, <2>3, <2>4, <3>2, <4>1 DEF Less
      <4>4. disk'[b][k] = Absent /\ disk'[b][k + 1] = disk[b][k]
        BY <2>3, <3>2, <4>1
      <4>5. Ids(b, k)' = {} /\ Bytes(b, k)' = 0
        BY <2>4, <4>4, Files
      <4>6. Less(b, k + 1, b, k)
        BY <1>0, <1>1, <2>1, <2>4, <4>2, <4>4 DEF Less
      <4> QED
        BY <4>2, <4>3, <4>5, <4>6 DEF FilesMove
    <3> QED
      BY <3>1, <3>2
  <2> QED
    BY <1>0, <2>1, <2>2, <2>5 DEF TargetKept
<1>10. CASE Restart
  <2>1. /\ CloseBuffer /\ fd' = Closed /\ base' = DayOf(clock) /\ next' = NextRotation(clock)
        /\ UNCHANGED <<at, clock, shift, setBacks, spilled>>
    BY <1>10 DEF Restart, NewSink
  <2> QED
    BY <1>0, <2>1, CloseEffect, Settled DEF TargetNew
<1>11. CASE Crash
  <2>1. /\ disk' = disk /\ fd' = Closed /\ base' = DayOf(clock) /\ next' = NextRotation(clock)
        /\ UNCHANGED <<at, clock, shift, setBacks, spilled>>
    BY <1>11 DEF Crash, NewSink
  <2>2. \A d \in Days, i \in Slots :
          disk'[d][i].ids \subseteq Ids(d, i) /\ disk'[d][i].size <= Bytes(d, i)
    <3>1. buf.size \in Nat
      BY <1>0, Files
    <3> QED
      BY <1>1, <2>1, <3>1 DEF Ids, Bytes
  <2> QED
    BY <1>0, <2>1, <2>2, Settled DEF TargetNew
<1>12. CASE Tick
  <2>1. UNCHANGED <<disk, buf, fd, base, next, at, shift, setBacks, spilled>> /\ clock <= clock'
    BY <1>0, <1>12, Constants DEF Tick
  <2> QED
    BY <1>0, <2>1, Unchanged DEF TargetKept
<1>13. CASE SetBack
  <2>1. UNCHANGED <<disk, buf, fd, base, next, at, shift, spilled>> /\ setBacks' # 0
    BY <1>0, <1>13 DEF SetBack
  <2> QED
    BY <1>0, <2>1, Unchanged DEF TargetKept
<1>14. CASE UNCHANGED vars
  <2>1. UNCHANGED <<disk, buf, fd, base, next, at, shift, clock, setBacks, spilled>>
    BY <1>14 DEF vars
  <2> QED
    BY <1>0, <2>1, Unchanged DEF TargetKept
<1> QED
  BY <1>2, <1>3, <1>4, <1>5, <1>6, <1>7, <1>8, <1>9, <1>10, <1>11, <1>12, <1>13, <1>14
  DEF Next, SinkIt

-----------------------------------------------------------------------------
(* The order of the messages.                                              *)

\* Every file holds messages that were logged, and while the clock is not set back
\* the current day is not in the future and no later day has a message yet: that is
\* why the next message comes after all others.
LoggedInv == \A d \in Days, i \in Slots : \A a \in Ids(d, i) : a \in 1..Len(at)
PresentInv == setBacks = 0 => base <= DayOf(clock)
FutureInv == setBacks = 0 => \A d \in Days, i \in Slots : d > base => Ids(d, i) = {}
OrderInv == LoggedInv /\ PresentInv /\ FutureInv /\ DaysOrdered

\* Nothing is stored at first.
LEMMA OrderInit == Init => OrderInv
<1> SUFFICES ASSUME Init PROVE OrderInv
  OBVIOUS
<1>1. \A d \in Days, i \in Slots : Ids(d, i) = {}
  <2>1. \A d \in Days, i \in Slots : disk[d][i] = Absent
    BY DEF Init
  <2>2. buf = Empty
    BY Files DEF Init
  <2> QED
    BY <2>1, <2>2, Files DEF Ids
<1>2. base = DayOf(clock) /\ DayOf(clock) \in Nat
  BY LocalTime DEF Init
<1> QED
  BY <1>1, <1>2 DEF OrderInv, LoggedInv, PresentInv, FutureInv, DaysOrdered

\* Every step keeps OrderInv: a message that is written comes after all the others.
LEMMA OrderStep == TypeInv /\ TypeInv' /\ OrderInv /\ [Next]_vars => OrderInv'
<1> SUFFICES ASSUME TypeInv, TypeInv', OrderInv, [Next]_vars PROVE OrderInv'
  OBVIOUS
<1>0. /\ LoggedInv /\ PresentInv /\ FutureInv /\ DaysOrdered
      /\ base \in Days /\ base' \in Days /\ clock \in Nat /\ clock' \in Nat /\ shift \in Shifts
      /\ setBacks \in Nat /\ Len(at) \in Nat /\ Days \subseteq Nat /\ Slots \subseteq Nat
  BY Constants DEF OrderInv, TypeInv, SinkOK, RestOK, Days, Slots
<1>1. CASE Write
  <2>1. /\ pc = "write" /\ Fwrite /\ at' = Append(at, Groups(clock))
        /\ UNCHANGED <<fd, base, next, clock, shift, setBacks>>
    BY <1>1 DEF Write, target, bounds
  <2>2. /\ FilesOK /\ fd \in Days \cup {Closed} /\ fd \in {Closed, base} /\ len \in Nat \ {0}
        /\ Len(at) < MaxMsgs
    BY <2>1, ConstantsAssumption DEF TypeInv, SinkOK, ControlOK, ControlInv
  <2>3. \A d \in Days, i \in Slots :
          \/ fd = d /\ i = 0 /\ Ids(d, i)' = Ids(d, i) \cup {Len(at) + 1}
          \/ ~(fd = d /\ i = 0) /\ Ids(d, i)' = Ids(d, i)
    BY <1>0, <2>1, <2>2, WriteEffect
  <2>4. Len(at') = Len(at) + 1
    BY <1>0, <2>1 DEF TypeInv, RestOK
  <2>5. LoggedInv'
    BY <1>0, <2>3, <2>4 DEF LoggedInv
  <2>6. PresentInv'
    BY <1>0, <2>1 DEF PresentInv, DayOf, Local, Offset
  <2>7. FutureInv'
    BY <1>0, <2>1, <2>2, <2>3, Constants DEF FutureInv
  <2>8. DaysOrdered'
    <3> SUFFICES ASSUME NEW d \in Days, NEW e \in Days, NEW i \in Slots, NEW j \in Slots,
                        (d = e /\ i > j) \/ (d < e /\ setBacks = 0),
                        NEW a \in Ids(d, i)', NEW b \in Ids(e, j)'
                 PROVE  a < b
      BY <2>1 DEF DaysOrdered
    <3>1. a \in Ids(d, i)
      <4> SUFFICES ASSUME fd = d /\ i = 0 PROVE FALSE
        BY <2>3
      <4>1. d < e /\ setBacks = 0 /\ base = d /\ fd # e
        BY <1>0, <2>2, Constants
      <4>2. Ids(e, j) = {} /\ Ids(e, j)' = Ids(e, j)
        BY <1>0, <2>3, <4>1 DEF FutureInv
      <4> QED
        BY <4>2
    <3>2. CASE b \in Ids(e, j)
      BY <1>0, <3>1, <3>2 DEF DaysOrdered
    <3>3. CASE b = Len(at) + 1
      BY <1>0, <3>1, <3>3 DEF LoggedInv
    <3> QED
      BY <2>3, <3>2, <3>3
  <2> QED
    BY <2>5, <2>6, <2>7, <2>8 DEF OrderInv
<1>2. CASE ~Write
  <2>1. /\ at' = at /\ shift' = shift /\ (FilesShrink \/ FilesMove) /\ (TargetKept \/ TargetNew)
        /\ (setBacks' = 0 => setBacks = 0 /\ clock <= clock')
    BY <1>2, StepEffect
  <2>2. \A tp \in Nat : DayOf(tp)' = DayOf(tp)
    BY <2>1 DEF DayOf, Local, Offset
  <2>3. DayOf(clock)' = DayOf(clock')
    BY <2>1 DEF DayOf, Local, Offset
  <2>4. setBacks' = 0 => base <= base' /\ base' <= DayOf(clock)'
    <3> SUFFICES ASSUME setBacks' = 0 PROVE base <= base' /\ base' <= DayOf(clock')
      BY <2>3
    <3>1. /\ clock <= clock' /\ base <= DayOf(clock)
          /\ DayOf(clock) \in Nat /\ DayOf(clock') \in Nat /\ DayOf(clock) <= DayOf(clock')
      BY <1>0, <2>1, LocalTime DEF PresentInv
    <3> QED
      BY <1>0, <2>1, <3>1 DEF TargetKept, TargetNew
  <2>5. LoggedInv' /\ FutureInv' /\ DaysOrdered'
    <3>1. CASE FilesShrink
      <4>1. LoggedInv'
        BY <1>0, <2>1, <3>1 DEF LoggedInv, FilesShrink, Less
      <4>2. FutureInv'
        BY <1>0, <2>1, <2>4, <3>1 DEF FutureInv, FilesShrink, Less
      <4>3. DaysOrdered'
        BY <1>0, <2>1, <3>1 DEF DaysOrdered, FilesShrink, Less
      <4> QED
        BY <4>1, <4>2, <4>3
    <3>2. CASE FilesMove
      <4>1. PICK c \in Days, k \in Slots :
              /\ k + 1 \in Slots
              /\ Ids(c, k + 1)' \subseteq Ids(c, k) /\ Ids(c, k)' = {}
              /\ \A d \in Days, i \in Slots :
                   d # c \/ (i # k /\ i # k + 1) => Ids(d, i)' \subseteq Ids(d, i)
        BY <3>2 DEF FilesMove, Less
      <4>2. \A d \in Days, i \in Slots :
              \/ Ids(d, i)' = {}
              \/ Ids(d, i)' \subseteq Ids(d, i) /\ (d # c \/ (i # k /\ i # k + 1))
              \/ d = c /\ i = k + 1 /\ Ids(d, i)' \subseteq Ids(d, k)
        BY <4>1
      <4>3. LoggedInv'
        BY <1>0, <2>1, <4>2 DEF LoggedInv
      <4>4. FutureInv'
        BY <1>0, <2>1, <2>4, <4>2 DEF FutureInv
      <4>5. DaysOrdered'
        <5> SUFFICES ASSUME NEW d \in Days, NEW e \in Days, NEW i \in Slots, NEW j \in Slots,
                            (d = e /\ i > j) \/ (d < e /\ setBacks = 0),
                            NEW a \in Ids(d, i)', NEW b \in Ids(e, j)'
                     PROVE  a < b
          BY <2>1 DEF DaysOrdered
        <5>1. PICK m \in Slots : /\ a \in Ids(d, m)
                                 /\ \/ m = i /\ (d # c \/ (i # k /\ i # k + 1))
                                    \/ d = c /\ i = k + 1 /\ m = k
          BY <4>2
        <5>2. PICK n \in Slots : /\ b \in Ids(e, n)
                                 /\ \/ n = j /\ (e # c \/ (j # k /\ j # k + 1))
                                    \/ e = c /\ j = k + 1 /\ n = k
          BY <4>2
        <5>3. (d = e /\ m > n) \/ (d < e /\ setBacks = 0)
          BY <1>0, <5>1, <5>2
        <5> QED
          BY <1>0, <5>1, <5>2, <5>3 DEF DaysOrdered
      <4> QED
        BY <4>3, <4>4, <4>5
    <3> QED
      BY <2>1, <3>1, <3>2
  <2>6. PresentInv'
    BY <2>4 DEF PresentInv
  <2> QED
    BY <2>5, <2>6 DEF OrderInv
<1> QED
  BY <1>1, <1>2

\* Read from the oldest backup to the base file, a day's files show the messages in the order
\* they were logged and none twice, whatever operations fail and wherever the process dies;
\* so do the days one after the other while the clock is not set back.
THEOREM DaysAlwaysOrdered == Spec => []DaysOrdered
<1>1. OrderInv => DaysOrdered
  BY DEF OrderInv
<1> QED
  BY <1>1, TypeInit, TypeStep, OrderInit, OrderStep, PTL DEF Spec

-----------------------------------------------------------------------------
(* The day of a message.                                                   *)

\* Every time before the next rotation is inside the current day's group.
NextInv == \A tp \in Nat : tp < next => Local(tp) < GroupEnd(base)
GroupInv == NextInv /\ DayGroups

\* Nothing is stored at first, and the next rotation is that of the clock.
LEMMA GroupInit == Init => GroupInv
<1> SUFFICES ASSUME Init PROVE GroupInv
  OBVIOUS
<1>1. \A d \in Days, i \in Slots : Ids(d, i) = {}
  <2>1. \A d \in Days, i \in Slots : disk[d][i] = Absent
    BY DEF Init
  <2>2. buf = Empty
    BY Files DEF Init
  <2> QED
    BY <2>1, <2>2, Files DEF Ids
<1>2. NextInv
  <2>1. 0 \in Nat /\ shift \in Shifts /\ base = DayOf(0) /\ next = NextRotation(0)
    BY DEF Init
  <2> QED
    BY <2>1, Rotation DEF NextInv
<1> QED
  BY <1>1, <1>2 DEF GroupInv, DayGroups

\* Every step keeps GroupInv: a message is written before the next rotation.
LEMMA GroupStep ==
    TypeInv /\ TypeInv' /\ OrderInv /\ GroupInv /\ [Next]_vars => GroupInv'
<1> SUFFICES ASSUME TypeInv, TypeInv', OrderInv, GroupInv, [Next]_vars PROVE GroupInv'
  OBVIOUS
<1>0. /\ LoggedInv /\ PresentInv /\ NextInv /\ DayGroups
      /\ base \in Days /\ clock \in Nat /\ shift \in Shifts /\ setBacks \in Nat /\ Len(at) \in Nat
      /\ at \in Seq(SUBSET Days)
  BY DEF OrderInv, GroupInv, TypeInv, SinkOK, RestOK
<1>1. CASE Write
  <2>1. /\ pc = "write" /\ Fwrite /\ at' = Append(at, Groups(clock))
        /\ UNCHANGED <<fd, base, next, clock, shift, setBacks>>
    BY <1>1 DEF Write, target, bounds
  <2>2. /\ FilesOK /\ fd \in Days \cup {Closed} /\ fd \in {Closed, base} /\ len \in Nat \ {0}
        /\ Len(at) < MaxMsgs /\ clock < next
    BY <2>1, ConstantsAssumption DEF TypeInv, SinkOK, ControlOK, ControlInv
  <2>3. \A d \in Days, i \in Slots :
          \/ fd = d /\ i = 0 /\ Ids(d, i)' = Ids(d, i) \cup {Len(at) + 1}
          \/ ~(fd = d /\ i = 0) /\ Ids(d, i)' = Ids(d, i)
    BY <1>0, <2>1, <2>2, WriteEffect
  <2>4. NextInv'
    BY <1>0, <2>1 DEF NextInv, Local, Offset, GroupEnd
  <2>5. /\ \A a \in 1..Len(at) : at'[a] = at[a]
        /\ at'[Len(at) + 1] = Groups(clock)
    <3>1. Groups(clock) \in SUBSET Days
      BY DEF Groups
    <3> QED
      BY <1>0, <2>1, <3>1
  <2>6. setBacks = 0 => base \in Groups(clock)
    BY <1>0, <2>2, InGroup DEF PresentInv, NextInv
  <2>7. DayGroups'
    <3> SUFFICES ASSUME setBacks = 0, NEW d \in Days, NEW i \in Slots, NEW a \in Ids(d, i)'
                 PROVE  d \in at'[a]
      BY <2>1 DEF DayGroups
    <3>1. CASE a \in Ids(d, i)
      BY <1>0, <2>5, <3>1 DEF DayGroups, LoggedInv
    <3>2. CASE a = Len(at) + 1 /\ fd = d
      BY <2>2, <2>5, <2>6, <3>2, Constants
    <3> QED
      BY <2>3, <3>1, <3>2
  <2> QED
    BY <2>4, <2>7 DEF GroupInv
<1>2. CASE ~Write
  <2>1. /\ at' = at /\ shift' = shift /\ (FilesShrink \/ FilesMove) /\ (TargetKept \/ TargetNew)
        /\ (setBacks' = 0 => setBacks = 0 /\ clock <= clock')
    BY <1>2, StepEffect
  <2>2. NextInv'
    <3>1. \A tp \in Nat : tp < next' => Local(tp) < GroupEnd(base')
      <4>1. CASE TargetKept
        BY <1>0, <4>1 DEF NextInv, TargetKept
      <4>2. CASE TargetNew
        BY <1>0, <4>2, Rotation DEF TargetNew
      <4> QED
        BY <2>1, <4>1, <4>2
    <3>2. \A tp \in Nat : Local(tp)' = Local(tp)
      BY <2>1 DEF Local, Offset
    <3>3. GroupEnd(base)' = GroupEnd(base')
      BY <2>1 DEF GroupEnd
    <3> QED
      BY <3>1, <3>2, <3>3 DEF NextInv
  <2>3. DayGroups'
    <3>1. \A d \in Days, i \in Slots : \E m \in Slots : Ids(d, i)' \subseteq Ids(d, m)
      BY <2>1 DEF FilesShrink, FilesMove, Less
    <3> QED
      BY <1>0, <2>1, <3>1 DEF DayGroups
  <2> QED
    BY <2>2, <2>3 DEF GroupInv
<1> QED
  BY <1>1, <1>2

\* A message is in the files of its own day or, until the rotation time, of the day before;
\* in the night after a change to daylight saving time, until an hour after the rotation
\* time.  For any rotation time and any change of the offset, across restarts, crashes and
\* pauses, while the clock is not set back.
THEOREM DayGroupsAlways == Spec => []DayGroups
<1>1. GroupInv => DayGroups
  BY DEF GroupInv
<1> QED
  BY <1>1, TypeInit, TypeStep, OrderInit, OrderStep, GroupInit, GroupStep, PTL DEF Spec

-----------------------------------------------------------------------------
(* The size of a file.                                                     *)

\* Every sink has the same size limit and rotates by size.
SameSize == \A c, d \in Configs : c.maxSize = d.maxSize /\ c.maxFiles > 0

\* The size the sink keeps is not less than what it would find in its file, apart from
\* the heads of failed writes.
CountedInv ==
    /\ opened <=> fd # Closed
    /\ ~stuck /\ fd # Closed => Bytes(base, 0) <= size + spilled

\* A message that is about to be written finds room, or an empty file.
RoomInv ==
    /\ cont = "write" => pc \in {"close", "rmOldest", "shift", "rename", "open", "write"}
    /\ ~stuck /\ cont = "write" /\ pc = "open" => fd = Closed /\ disk[base][0].size = 0
    /\ ~stuck /\ pc = "write" => size + len <= cfg.maxSize \/ Bytes(base, 0) = 0

Fits(ids, n, limit, extra) ==
    \/ n <= limit + extra
    \/ Cardinality(ids) <= 1 /\ \E k \in Sizes : n <= k + extra
FitsInv ==
    ~stuck => \A d \in Days, i \in Slots : Fits(Ids(d, i), Bytes(d, i), cfg.maxSize, spilled)
SizeInv == CountedInv /\ RoomInv /\ FitsInv

\* What the proofs below need of a state.
LEMMA SizeFacts ==
    ASSUME TypeInv
    PROVE  /\ FilesOK /\ disk \in [Days -> [Slots -> Solid]] /\ buf \in Solid
           /\ 0 \in Slots /\ base \in Days /\ fd \in {Closed, base} /\ fd \in Days \cup {Closed}
           /\ size \in Nat /\ spilled \in Nat /\ faults \in Nat
           /\ cfg \in Configs /\ cfg.maxSize \in Nat /\ cfg.maxFiles \in Nat
           /\ stuck \in BOOLEAN /\ opened \in BOOLEAN /\ Closed # base
           /\ \A d \in Days, i \in Slots : /\ Ids(d, i) \in SUBSET (1..MaxMsgs)
                                           /\ Bytes(d, i) \in Nat /\ disk[d][i].size \in Nat
           /\ fd = Closed => buf = Empty
<1>1. /\ FilesOK /\ disk \in [Days -> [Slots -> Solid]] /\ buf \in Solid
      /\ 0 \in Slots /\ base \in Days /\ fd \in {Closed, base} /\ fd \in Days \cup {Closed}
      /\ size \in Nat /\ cfg \in Configs /\ (fd = Closed => buf = Empty)
      /\ stuck \in BOOLEAN /\ opened \in BOOLEAN /\ spilled \in Nat /\ faults \in Nat
  BY Constants DEF TypeInv, SinkOK, ControlInv, Slots, FilesOK, RestOK
<1>2. cfg.maxSize \in Nat /\ cfg.maxFiles \in Nat
  <2>1. cfg \in Config
    BY <1>1, ConstantsAssumption
  <2> QED
    BY <2>1, Constants DEF Config
<1>3. Closed # base
  BY <1>1, Constants
<1>4. \A d \in Days, i \in Slots : Ids(d, i) \in SUBSET (1..MaxMsgs)
  BY <1>1, Files DEF Ids
<1> QED
  BY <1>1, <1>2, <1>3, <1>4, BytesType

\* A file without bytes has no messages.
LEMMA NoBytes ==
    ASSUME FilesOK, NEW d \in Days, NEW i \in Slots, Bytes(d, i) = 0
    PROVE  Ids(d, i) = {}
<1>1. disk[d][i].size \in Nat /\ buf.size \in Nat
  BY Files DEF FilesOK
<1>2. disk[d][i].size = 0 /\ (fd = d /\ i = 0 => buf.size = 0)
  BY <1>1 DEF Bytes
<1>3. disk[d][i].ids = {} /\ (fd = d /\ i = 0 => buf.ids = {})
  BY <1>2 DEF FilesOK, Solid
<1> QED
  BY <1>3 DEF Ids

\* A file that got too large stays: stuck is never reset.
LEMMA StuckStays ==
    ASSUME TypeInv, TypeInv', [Next]_vars, ~stuck'
    PROVE  ~stuck
<1>1. stuck \in BOOLEAN /\ stuck' \in BOOLEAN
  BY DEF TypeInv, RestOK
<1>2. stuck => stuck'
  <2> USE DEF bounds
  <2>1. CASE Shift \/ Rename \/ SizeFails
    BY <1>1, <2>1 DEF Shift, Rename, SizeFails, Unmoved
  <2>2. CASE ~(Shift \/ Rename \/ SizeFails)
    BY <1>1, <2>2 DEF Next, SinkIt, Log, RotateOnOpen, OpenFile, OpenFails, CheckSize, Write,
         WriteFails, Close, RemoveOldest, Flush, Restart, Crash, Tick, SetBack, vars
  <2> QED
    BY <2>1, <2>2
<1> QED
  BY <1>2

\* A file with less fits as well.
LEMMA FitsLess ==
    ASSUME NEW S \in SUBSET (1..MaxMsgs), NEW T \in SUBSET S, NEW n \in Nat, NEW k \in Nat,
           NEW m \in Nat, NEW e \in Nat, NEW f \in Nat, Fits(S, n, m, e), k + e <= n + f
    PROVE  Fits(T, k, m, f)
<1>1. IsFiniteSet(S) /\ IsFiniteSet(T) /\ Cardinality(T) <= Cardinality(S)
  <2>1. IsFiniteSet(1..MaxMsgs)
    BY Constants, FS_Interval
  <2>2. IsFiniteSet(S)
    BY <2>1, FS_Subset
  <2> QED
    BY <2>2, FS_Subset
<1>2. Cardinality(T) \in Nat /\ Cardinality(S) \in Nat
  BY <1>1, FS_CardinalityType
<1>3. CASE n <= m + e
  BY <1>3 DEF Fits
<1>4. CASE Cardinality(S) <= 1 /\ \E x \in Sizes : n <= x + e
  <2>1. PICK x \in Sizes : n <= x + e
    BY <1>4
  <2>2. x \in Nat
    BY ConstantsAssumption
  <2>3. k <= x + f
    BY <2>1, <2>2
  <2>4. Cardinality(T) <= 1
    BY <1>1, <1>2, <1>4
  <2> QED
    BY <2>3, <2>4 DEF Fits
<1> QED
  BY <1>3, <1>4 DEF Fits

\* Only a write makes a file larger.
LEMMA FitsStep ==
    ASSUME SameSize, TypeInv, TypeInv', FitsInv, [Next]_vars, ~Write
    PROVE  FitsInv'
<1>1. /\ cfg \in Configs /\ cfg.maxSize \in Nat /\ spilled \in Nat
      /\ \A d \in Days, i \in Slots : Ids(d, i) \in SUBSET (1..MaxMsgs) /\ Bytes(d, i) \in Nat
  BY SizeFacts
<1>2. cfg'.maxSize = cfg.maxSize /\ spilled' \in Nat
  BY <1>1 DEF SameSize, TypeInv, SinkOK, RestOK
<1>3. \A d \in Days, i \in Slots : Bytes(d, i)' \in Nat
  BY Files DEF TypeInv, FilesOK, Bytes
<1> SUFFICES ASSUME ~stuck', NEW d \in Days, NEW i \in Slots
             PROVE  Fits(Ids(d, i)', Bytes(d, i)', cfg.maxSize, spilled')
  BY <1>2 DEF FitsInv, Fits
<1>4. \A e \in Days, j \in Slots : Fits(Ids(e, j), Bytes(e, j), cfg.maxSize, spilled)
  BY StuckStays DEF FitsInv
<1>5. ASSUME NEW e \in Days, NEW j \in Slots, Less(d, i, e, j)
      PROVE  Fits(Ids(d, i)', Bytes(d, i)', cfg.maxSize, spilled')
  <2>1. PICK S \in SUBSET (1..MaxMsgs), n \in Nat : S = Ids(e, j) /\ n = Bytes(e, j)
    BY <1>1
  <2>2. PICK T \in SUBSET S : T = Ids(d, i)'
    BY <1>5, <2>1 DEF Less
  <2>3. PICK k \in Nat : k = Bytes(d, i)' /\ k + spilled <= n + spilled'
    BY <1>3, <1>5, <2>1 DEF Less
  <2>4. Fits(S, n, cfg.maxSize, spilled)
    BY <1>4, <2>1
  <2>5. Fits(T, k, cfg.maxSize, spilled')
    BY <1>1, <1>2, <2>3, <2>4, FitsLess
  <2> QED
    BY <2>2, <2>3, <2>5
<1>6. CASE FilesShrink
  BY <1>5, <1>6 DEF FilesShrink
<1>7. CASE FilesMove
  <2>1. PICK b \in Days, k \in Slots :
          /\ k + 1 \in Slots
          /\ Less(b, k + 1, b, k) /\ Ids(b, k)' = {} /\ Bytes(b, k)' = 0
          /\ \A e \in Days, j \in Slots : e # b \/ (j # k /\ j # k + 1) => Less(e, j, e, j)
    BY <1>7 DEF FilesMove
  <2>2. CASE d = b /\ i = k
    <3>1. Bytes(d, i)' = 0
      BY <2>1, <2>2
    <3> QED
      BY <1>1, <1>2, <3>1 DEF Fits
  <2>3. CASE d = b /\ i = k + 1
    BY <1>5, <2>1, <2>3
  <2>4. CASE d # b \/ (i # k /\ i # k + 1)
    BY <1>5, <2>1, <2>4
  <2> QED
    BY <2>2, <2>3, <2>4
<1> QED
  BY <1>6, <1>7, StepEffect

\* What is known of the message of a write.
LEMMA WriteFacts ==
    ASSUME TypeInv, pc = "write"
    PROVE  len \in Sizes /\ len \in Nat \ {0} /\ Len(at) \in Nat /\ Len(at) < MaxMsgs
<1>1. pc # "idle"
  OBVIOUS
<1>2. len \in Sizes /\ Len(at) < MaxMsgs
  BY <1>1 DEF TypeInv, ControlInv
<1>3. Len(at) \in Nat
  BY DEF TypeInv, RestOK
<1> QED
  BY <1>2, <1>3, ConstantsAssumption

\* A message that is written finds room or is alone in its file.
LEMMA FitsWrite ==
    ASSUME TypeInv, TypeInv', CountedInv, RoomInv, FitsInv, Write
    PROVE  FitsInv'
<1> USE DEF target, sink, control, bounds
<1>1. /\ FilesOK /\ 0 \in Slots /\ base \in Days /\ fd \in {Closed, base} /\ size \in Nat
      /\ fd \in Days \cup {Closed} /\ spilled \in Nat /\ cfg.maxSize \in Nat
      /\ \A d \in Days, i \in Slots : Ids(d, i) \in SUBSET (1..MaxMsgs) /\ Bytes(d, i) \in Nat
  BY SizeFacts
<1>2. Fwrite /\ pc = "write" /\ UNCHANGED <<fd, base, cfg, stuck, spilled>>
  BY DEF Write
<1>3. len \in Sizes /\ len \in Nat \ {0} /\ Len(at) \in Nat /\ Len(at) < MaxMsgs
  BY <1>2, WriteFacts
<1>4. \A d \in Days, i \in Slots :
        \/ /\ fd = d /\ i = 0 /\ Ids(d, i)' = Ids(d, i) \cup {Len(at) + 1}
           /\ Bytes(d, i)' = Bytes(d, i) + len
        \/ ~(fd = d /\ i = 0) /\ Ids(d, i)' = Ids(d, i) /\ Bytes(d, i)' = Bytes(d, i)
  BY <1>1, <1>2, <1>3, WriteEffect
<1> SUFFICES ASSUME ~stuck, NEW d \in Days, NEW i \in Slots
             PROVE  Fits(Ids(d, i)', Bytes(d, i)', cfg.maxSize, spilled)
  BY <1>2 DEF FitsInv, Fits
<1>5. CASE Ids(d, i)' = Ids(d, i) /\ Bytes(d, i)' = Bytes(d, i)
  BY <1>5 DEF FitsInv
<1>6. CASE /\ fd = d /\ i = 0 /\ Ids(d, i)' = Ids(d, i) \cup {Len(at) + 1}
           /\ Bytes(d, i)' = Bytes(d, i) + len
  <2>1. d = base /\ fd # Closed /\ i = 0
    BY <1>1, <1>6, Constants
  <2>2. Bytes(base, 0) <= size + spilled /\ Bytes(base, 0) \in Nat
    BY <1>1, <2>1 DEF CountedInv
  <2>3. CASE size + len <= cfg.maxSize
    <3>1. Bytes(d, i)' <= cfg.maxSize + spilled
      BY <1>1, <1>3, <1>6, <2>1, <2>2, <2>3
    <3> QED
      BY <3>1 DEF Fits
  <2>4. CASE Bytes(base, 0) = 0
    <3>1. Ids(d, i) = {} /\ Bytes(d, i) = 0
      BY <1>1, <2>1, <2>4, NoBytes
    <3>2. PICK a : a = Len(at) + 1
      OBVIOUS
    <3>3. Ids(d, i)' = {a}
      BY <1>6, <3>1, <3>2
    <3>4. Cardinality({a}) = 1
      BY FS_Singleton
    <3>5. Cardinality(Ids(d, i)') = 1
      BY <3>3, <3>4, Zenon
    <3>6. Cardinality(Ids(d, i)') <= 1
      BY <3>5
    <3>7. Bytes(d, i)' <= len + spilled
      BY <1>1, <1>3, <1>6, <3>1
    <3> QED
      BY <1>3, <3>6, <3>7 DEF Fits
  <2> QED
    BY <1>2, <2>3, <2>4 DEF RoomInv
<1> QED
  BY <1>4, <1>5, <1>6

\* Every step keeps the size the sink knows of.
LEMMA CountedStep ==
    ASSUME TypeInv, TypeInv', CountedInv, [Next]_vars
    PROVE  CountedInv'
<1> USE DEF target, sink, control, bounds
<1>1. /\ FilesOK /\ 0 \in Slots /\ base \in Days /\ fd \in {Closed, base} /\ size \in Nat
      /\ fd \in Days \cup {Closed} /\ spilled \in Nat /\ faults \in Nat /\ Closed # base
      /\ opened \in BOOLEAN /\ stuck \in BOOLEAN /\ buf \in Solid
      /\ \A d \in Days, i \in Slots : Bytes(d, i) \in Nat /\ disk[d][i].size \in Nat
      /\ fd = Closed => buf = Empty
  BY SizeFacts
<1>2. (opened <=> fd # Closed) /\ (~stuck /\ fd # Closed => Bytes(base, 0) <= size + spilled)
  BY DEF CountedInv
<1>3. spilled' \in Nat /\ \A d \in Days, i \in Slots : Bytes(d, i)' \in Nat
  BY Files DEF TypeInv, FilesOK, Bytes, RestOK
<1>4. ASSUME opened' = FALSE, fd' = Closed PROVE CountedInv'
  BY <1>4 DEF CountedInv
<1>5. ASSUME UNCHANGED <<opened, fd, base, size>>, ~Write PROVE CountedInv'
  <2> SUFFICES ASSUME ~stuck', fd' # Closed PROVE Bytes(base, 0)' <= size' + spilled'
    BY <1>2, <1>5 DEF CountedInv
  <2>1. FilesShrink
    BY <1>5, StepEffect
  <2>2. PICK b \in Days : b = base
    BY <1>1
  <2>3. Bytes(b, 0)' + spilled <= Bytes(b, 0) + spilled'
    BY <1>1, <2>1 DEF FilesShrink, Less
  <2>4. Bytes(b, 0) <= size + spilled
    BY <1>2, <1>5, <2>2, StuckStays
  <2>5. Bytes(b, 0)' <= size + spilled'
    BY <1>1, <1>3, <2>3, <2>4
  <2> QED
    BY <1>5, <2>2, <2>5 DEF Bytes
<1>6. CASE Log
  <2>1. RotateByTime
    BY <1>6 DEF Log
  <2>2. ~Write
    BY <1>6 DEF Log, Write
  <2>3. CASE clock < next
    <3>1. UNCHANGED <<opened, fd, base, size>>
      BY <2>1, <2>3 DEF RotateByTime
    <3> QED
      BY <1>5, <2>2, <3>1
  <2>4. CASE ~(clock < next)
    BY <1>4, <2>1, <2>4 DEF RotateByTime
  <2> QED
    BY <2>3, <2>4
<1>7. CASE /\ RotateOnOpen \/ OpenFails \/ CheckSize \/ WriteFails \/ Flush \/ Tick \/ SetBack
              \/ UNCHANGED vars
           /\ ~Write
  <2>1. UNCHANGED <<opened, fd, base, size>>
    BY <1>7 DEF RotateOnOpen, OpenFails, CheckSize, WriteFails, Flush, Tick, SetBack, vars
  <2> QED
    BY <1>5, <1>7, <2>1
<1>8. CASE Close \/ Restart \/ Crash
  BY <1>4, <1>8 DEF Close, Restart, Crash, NewSink
<1>9. CASE RemoveOldest \/ Shift \/ Rename
  <2>1. UNCHANGED <<opened, fd>> /\ pc \in {"rmOldest", "shift", "rename"}
    BY <1>9 DEF RemoveOldest, Shift, Rename
  <2>2. fd = Closed
    BY <2>1 DEF TypeInv, ControlInv
  <2> QED
    BY <1>2, <2>1, <2>2 DEF CountedInv
<1>10. CASE OpenFile \/ SizeFails
  <2>1. CASE opened
    <3>1. OpenFile /\ UNCHANGED <<opened, fd, base, size>> /\ pc = "open"
      BY <1>10, <2>1 DEF OpenFile, SizeFails
    <3>2. ~Write
      BY <3>1 DEF Write
    <3> QED
      BY <1>5, <3>1, <3>2
  <2>2. CASE ~opened
    <3>1. /\ disk' = [disk EXCEPT ![base][0] = Join(@, Empty)]
          /\ fd' = base /\ opened' = TRUE /\ UNCHANGED <<buf, base, spilled>>
          /\ \/ size' = disk[base][0].size
             \/ size' = size /\ stuck' = (stuck \/ disk[base][0].size > 0)
      BY <1>10, <2>2 DEF OpenFile, SizeFails
    <3>2. buf = Empty
      BY <1>1, <1>2, <2>2
    <3>3. disk'[base][0].size = disk[base][0].size
      BY <1>1, <3>1, CreateEffect
    <3>4. Bytes(base, 0)' = disk[base][0].size
      <4>1. Bytes(base, 0)' = disk'[base][0].size + buf.size
        BY <3>1 DEF Bytes
      <4>2. buf.size = 0 /\ disk[base][0].size \in Nat
        BY <1>1, <3>2, Files
      <4> QED
        BY <3>3, <4>1, <4>2
    <3>5. ~stuck' => Bytes(base, 0)' <= size' + spilled'
      <4>1. disk[base][0].size \in Nat
        BY <1>1
      <4>2. CASE size' = disk[base][0].size
        BY <1>1, <3>1, <3>4, <4>1, <4>2
      <4>3. CASE size' = size /\ stuck' = (stuck \/ disk[base][0].size > 0)
        <5>1. ~stuck' => ~(disk[base][0].size > 0)
          BY <4>3
        <5>2. ~stuck' => disk[base][0].size = 0
          BY <4>1, <5>1
        <5> QED
          BY <1>1, <3>1, <3>4, <4>3, <5>2
      <4> QED
        BY <3>1, <4>2, <4>3
    <3>6. opened' /\ fd' # Closed
      BY <1>1, <3>1
    <3> QED
      BY <3>5, <3>6 DEF CountedInv
  <2> QED
    BY <1>1, <2>1, <2>2
<1>11. CASE Write
  <2>1. /\ Fwrite /\ pc = "write" /\ size' = size + len
        /\ UNCHANGED <<fd, base, opened, stuck, spilled>>
    BY <1>11 DEF Write
  <2> SUFFICES ASSUME ~stuck, fd # Closed PROVE Bytes(base, 0)' <= size' + spilled'
    BY <1>2, <2>1 DEF CountedInv
  <2>2. len \in Nat \ {0} /\ Len(at) \in Nat /\ Len(at) < MaxMsgs
    BY <2>1, WriteFacts
  <2>3. PICK b \in Days : b = base /\ fd = b
    BY <1>1
  <2>4. Bytes(b, 0)' = Bytes(b, 0) + len
    BY <1>1, <2>1, <2>2, <2>3, WriteEffect
  <2>5. Bytes(b, 0) <= size + spilled
    BY <1>2, <2>3
  <2>6. Bytes(b, 0)' <= size' + spilled'
    BY <1>1, <2>1, <2>2, <2>4, <2>5
  <2> QED
    BY <2>1, <2>3, <2>6 DEF Bytes
<1> QED
  BY <1>6, <1>7, <1>8, <1>9, <1>10, <1>11 DEF Next, SinkIt

\* Every step keeps the room for the message that is about to be written.
LEMMA RoomStep ==
    ASSUME SameSize, TypeInv, TypeInv', CountedInv, RoomInv, [Next]_vars
    PROVE  RoomInv'
<1> USE DEF target, sink, control, bounds
<1>1. /\ FilesOK /\ disk \in [Days -> [Slots -> Solid]] /\ buf \in Solid
      /\ 0 \in Slots /\ base \in Days /\ fd \in {Closed, base} /\ size \in Nat
      /\ cfg \in Configs /\ cfg.maxSize \in Nat /\ stuck \in BOOLEAN /\ opened \in BOOLEAN
      /\ \A d \in Days, i \in Slots : disk[d][i].size \in Nat
      /\ fd = Closed => buf = Empty
  BY SizeFacts
<1>2. /\ cont = "write" => pc \in {"close", "rmOldest", "shift", "rename", "open", "write"}
      /\ ~stuck /\ cont = "write" /\ pc = "open" => fd = Closed /\ disk[base][0].size = 0
      /\ ~stuck /\ pc = "write" => size + len <= cfg.maxSize \/ Bytes(base, 0) = 0
      /\ cont \in {"check", "write"} /\ (pc = "write" => cont = "write")
      /\ opened <=> fd # Closed
      /\ pc \in {"shift", "rename"} => fd = Closed /\ src \in Nat /\ src + 1 \in Slots
  <2>1. /\ pc \in {"shift", "rename"} => fd = Closed /\ src < cfg.maxFiles
        /\ src \in Slots /\ cfg \in Config
    BY ConstantsAssumption DEF TypeInv, ControlOK, ControlInv, SinkOK
  <2>2. cfg.maxFiles \in 0..MaxSlot
    BY <2>1 DEF Config
  <2>3. pc \in {"shift", "rename"} => src \in Nat /\ src + 1 \in Slots
    BY <2>1, <2>2, Constants DEF Slots
  <2> QED
    BY <2>1, <2>3 DEF RoomInv, CountedInv, TypeInv, ControlOK, ControlInv
<1>3. cfg.maxFiles > 0
  BY <1>1 DEF SameSize
<1>4. CASE Log \/ Flush \/ Restart \/ Crash \/ Tick \/ SetBack \/ OpenFails \/ SizeFails \/ Write
           \/ WriteFails
  <2>1. cont' = "check" /\ pc' \in {"idle", "entry"}
    <3>1. CASE Log \/ Flush \/ Tick \/ SetBack
      <4>1. cont' = cont /\ pc = "idle" /\ pc' \in {"idle", "entry"}
        BY <3>1 DEF Log, Flush, Tick, SetBack, Goto
      <4> QED
        BY <1>2, <4>1
    <3>2. CASE Restart \/ Crash
      BY <3>2 DEF Restart, Crash, NewSink
    <3>3. CASE OpenFails \/ SizeFails \/ Write \/ WriteFails
      BY <3>3 DEF OpenFails, SizeFails, Write, WriteFails, Return
    <3> QED
      BY <1>4, <3>1, <3>2, <3>3
  <2>2. cont' # "write" /\ pc' # "write"
    BY <2>1
  <2> QED
    BY <2>2 DEF RoomInv
<1>5. CASE RotateOnOpen
  <2>1. cont' = cont /\ pc = "entry" /\ pc' \in {"close", "open"}
    BY <1>5 DEF RotateOnOpen, Goto
  <2>2. cont' # "write" /\ pc' # "write"
    BY <1>2, <2>1
  <2> QED
    BY <2>2 DEF RoomInv
<1>6. CASE CheckSize
  <2>1. /\ pc' = (IF size + len' > cfg.maxSize THEN "close" ELSE "write")
        /\ cfg' = cfg /\ size' = size /\ len' \in Nat
    <3>1. len' \in Sizes
      BY <1>6 DEF CheckSize
    <3> QED
      BY <1>1, <1>3, <1>6, <3>1, ConstantsAssumption DEF CheckSize
  <2>2. pc' \in {"close", "write"} /\ (pc' = "write" => size' + len' <= cfg'.maxSize)
    BY <1>1, <2>1
  <2>3. pc' # "open"
    BY <2>2
  <2> QED
    BY <2>2, <2>3 DEF RoomInv
<1>7. CASE OpenFile
  <2>1. pc' = cont /\ cont' = cont /\ stuck' = stuck /\ pc = "open" /\ base' = base
    BY <1>7 DEF OpenFile, Goto
  <2>2. CASE cont = "check"
    <3>1. cont' # "write" /\ pc' # "write"
      BY <2>1, <2>2
    <3> QED
      BY <3>1 DEF RoomInv
  <2>3. CASE cont = "write"
    <3>1. ASSUME ~stuck PROVE Bytes(base, 0)' = 0
      <4>1. fd = Closed /\ disk[base][0].size = 0 /\ ~opened /\ buf = Empty
        BY <1>1, <1>2, <2>1, <2>3, <3>1
      <4>2. disk' = [disk EXCEPT ![base][0] = Join(@, Empty)] /\ buf' = buf
        BY <1>7, <4>1 DEF OpenFile
      <4>3. disk'[base][0].size = 0
        BY <1>1, <4>1, <4>2, CreateEffect
      <4>4. buf'.size = 0
        BY <4>1, <4>2, Files
      <4> QED
        BY <2>1, <4>3, <4>4 DEF Bytes
    <3>2. pc' = "write"
      BY <2>1, <2>3
    <3> QED
      BY <2>1, <3>1, <3>2 DEF RoomInv
  <2> QED
    BY <1>2, <2>2, <2>3
<1>8. CASE Close
  <2>1. pc' = "rmOldest"
    BY <1>8 DEF Close, Goto
  <2> QED
    BY <2>1 DEF RoomInv
<1>9. CASE RemoveOldest
  <2>1. pc' = "shift"
    BY <1>9 DEF RemoveOldest
  <2> QED
    BY <2>1 DEF RoomInv
<1>10. ASSUME NextSource, fd' = Closed, base' = base,
              src = 0 /\ cont = "write" /\ ~stuck' => disk'[base][0].size = 0
       PROVE  RoomInv'
  <2>1. CASE src = 0
    <3>1. pc' = "open" /\ cont' = cont
      BY <1>10, <2>1 DEF NextSource, Goto
    <3> QED
      BY <1>10, <2>1, <3>1 DEF RoomInv
  <2>2. CASE src # 0
    <3>1. pc' = "shift"
      BY <1>10, <2>2 DEF NextSource
    <3> QED
      BY <3>1 DEF RoomInv
  <2> QED
    BY <2>1, <2>2
<1>11. ASSUME Unmoved, disk' = disk
       PROVE  src = 0 /\ cont = "write" /\ ~stuck' => disk'[base][0].size = 0
  <2>1. src = 0 /\ cont = "write" /\ ~stuck' => ~(disk[base][0].size > 0)
    BY <1>11 DEF Unmoved
  <2> QED
    BY <1>1, <1>11, <2>1
<1>12. CASE Shift
  <2>1. fd' = fd /\ base' = base /\ pc = "shift"
    BY <1>12 DEF Shift
  <2>2. CASE pc' = "rename"
    BY <2>2 DEF RoomInv
  <2>3. CASE NextSource /\ disk' = disk /\ ~disk[base][src].exists
    <3>1. src = 0 => disk[base][0].size = 0
      BY <1>1, <2>3 DEF Solid
    <3> QED
      BY <1>2, <1>10, <2>1, <2>3, <3>1
  <2>4. CASE NextSource /\ disk' = disk /\ Unmoved
    BY <1>2, <1>10, <1>11, <2>1, <2>4
  <2> QED
    BY <1>12, <2>2, <2>3, <2>4 DEF Shift, Goto
<1>13. CASE Rename
  <2>1. fd' = fd /\ base' = base /\ buf' = buf /\ pc = "rename" /\ NextSource
    BY <1>13 DEF Rename
  <2>2. CASE disk' = disk /\ Unmoved
    BY <1>2, <1>10, <1>11, <2>1, <2>2
  <2>3. CASE disk'[base][src] = Absent
    BY <1>2, <1>10, <2>1, <2>3, Files
  <2>4. faults \in Nat /\ src \in Slots
    BY DEF TypeInv, RestOK, ControlOK
  <2> QED
    BY <1>1, <1>2, <1>13, <2>1, <2>2, <2>3, <2>4, RenameEffect
<1>14. CASE UNCHANGED vars
  <2>1. UNCHANGED <<disk, buf, fd, base, cfg, size, len, pc, cont, stuck>>
    BY <1>14 DEF vars
  <2> QED
    BY <2>1 DEF RoomInv, Bytes
<1> QED
  BY <1>4, <1>5, <1>6, <1>7, <1>8, <1>9, <1>12, <1>13, <1>14 DEF Next, SinkIt

\* Nothing is stored at first.
LEMMA SizeInit == Init => SizeInv
<1> SUFFICES ASSUME Init PROVE SizeInv
  OBVIOUS
<1>0. TypeInv
  BY TypeInit
<1>1. /\ fd = Closed /\ opened = FALSE /\ pc = "idle" /\ cont = "check" /\ 0 \in Slots
      /\ \A d \in Days, i \in Slots : disk[d][i] = Absent
  BY Constants DEF Init, Slots
<1>2. CountedInv /\ RoomInv
  BY <1>1 DEF CountedInv, RoomInv
<1>3. \A d \in Days, i \in Slots : Bytes(d, i) = 0
  BY <1>1, Files, Constants DEF Bytes
<1>4. cfg.maxSize \in Nat /\ spilled \in Nat
  BY <1>0, SizeFacts
<1>5. FitsInv
  BY <1>3, <1>4 DEF FitsInv, Fits
<1> QED
  BY <1>2, <1>5 DEF SizeInv

\* Every step keeps the invariant.
LEMMA SizeStep ==
    ASSUME SameSize, TypeInv, TypeInv', SizeInv, [Next]_vars
    PROVE  SizeInv'
<1>1. CountedInv' /\ RoomInv'
  BY CountedStep, RoomStep DEF SizeInv
<1>2. FitsInv'
  <2>1. CASE Write
    BY <2>1, FitsWrite DEF SizeInv
  <2>2. CASE ~Write
    BY <2>2, FitsStep DEF SizeInv
  <2> QED
    BY <2>1, <2>2
<1> QED
  BY <1>1, <1>2 DEF SizeInv

\* No file is larger than max_size, apart from one with a single message that is larger
\* itself and from the heads that failed writes left, across restarts, crashes and changes
\* of the day.  It holds while the base file can be moved out of the way of a message and
\* its size be asked for; the sinks have the same limit, and all rotate by size.
THEOREM SizesAlwaysBounded ==
    ASSUME SameSize
    PROVE  Spec => []SizeBound
<1>1. SizeInv => SizeBound
  BY DEF SizeInv, FitsInv, Fits, SizeBound
<1>2. TypeInv /\ TypeInv' /\ SizeInv /\ [Next]_vars => SizeInv'
  BY SizeStep
<1> QED
  BY <1>1, <1>2, SizeInit, TypeInit, TypeStep, PTL DEF Spec
=============================================================================
