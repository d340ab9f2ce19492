------------------------------ MODULE YamlTool -------------------------------
(***************************************************************************)
(* YamlTool (common/private/yamltool/yamltool_p.cpp): a singleton with a   *)
(* registry of readers and writers for each type, created on first use by  *)
(* double-checked locking, and the operations on YAML documents that go    *)
(* through it.                                                             *)
(*                                                                         *)
(* Any thread may make the first call.  Nodes are not synchronised, so the *)
(* threads take turns at the document, and an operation on it is one step. *)
(* s_instance is a plain pointer that is read outside the lock.  The       *)
(* object behind it has no members, and on the x86-64 builds stores are    *)
(* seen in program order: a read gives the old or the new pointer and,     *)
(* with the new one, everything stored before it.                          *)
(*                                                                         *)
(* Abstractions.  yaml-cpp keeps a scalar as text; a text is told apart by *)
(* the types it can be read as.  A document is its kind, the child under   *)
(* one key, and the number of its sequence elements.  A child yaml-cpp has *)
(* created by a look-up and nobody has assigned is absent: it is neither   *)
(* read nor written out.                                                   *)
(***************************************************************************)
EXTENDS Naturals, Sequences

CONSTANTS
    Threads,
    MaxItems,       \* bound: elements of a sequence
    MaxCrashes      \* bound: process deaths

ASSUME ConstantsAssumption ==
    "free" \notin Threads /\ MaxItems \in Nat /\ MaxCrashes \in Nat

\* The registered types, in the order of registration, and one that is not.
Types == <<"int", "bool", "double", "string">>
Registered(n) == {Types[i] : i \in 1..n}
CallTypes == Registered(4) \cup {"unregistered"}

\* What a text can be read as.
Texts == {"integer", "boolean", "real", "word"}
ReadableAs ==
    [integer |-> {"int", "double", "string"},
     boolean |-> {"bool", "string"},
     real    |-> {"double", "string"},
     word    |-> {"string"}]

\* The texts a value of a type is written as: 1.0 is written "1", and a string
\* may look like anything.
WrittenAs ==
    [int    |-> {"integer"},
     bool   |-> {"boolean"},
     double |-> {"integer", "real"},
     string |-> Texts]

Children == Texts \cup {"absent", "null", "node"}
Document == [kind: {"null", "map", "seq", "scalar"}, child: Children,
             items: 0..MaxItems]
NullDocument == [kind |-> "null", child |-> "absent", items |-> 0]

\* Files that are no document: none at all, one without content, and one that cannot
\* be parsed.
Absent == [kind |-> "absent", child |-> "absent", items |-> 0]
Empty == [kind |-> "empty", child |-> "absent", items |-> 0]
Broken == [kind |-> "broken", child |-> "absent", items |-> 0]
Files == Document \cup {Absent, Empty, Broken}

VARIABLES
    instance,   \* s_instance is not null
    registered, \* number of types in the registry
    lock,       \* the thread that holds s_mutex, or "free"
    pc,         \* what each thread is doing
    doc,        \* the document
    file,       \* its file, a member of Files
    writable,   \* whether the file can be opened for writing
    outcome,    \* how the last operation ended
    crashes

singleton == <<instance, registered, lock>>
vars == <<singleton, pc, doc, file, writable, outcome, crashes>>

Init ==
    /\ instance = FALSE /\ registered = 0 /\ lock = "free"
    /\ pc = [t \in Threads |-> "idle"]
    /\ doc = NullDocument
    /\ file = Absent
    /\ writable \in BOOLEAN
    /\ outcome = "none"
    /\ crashes = 0

Goto(t, label) == pc' = [pc EXCEPT ![t] = label]

-----------------------------------------------------------------------------
(* getInstance                                                             *)

\* A call of YamlTool: the first look at s_instance, without the lock.
Enter(t) ==
    /\ pc[t] = "idle"
    /\ Goto(t, IF instance THEN "ready" ELSE "lock")
    /\ UNCHANGED <<singleton, doc, file, writable, outcome, crashes>>

\* Faulty variant: s_instance is not looked at again.
LockWithoutRecheck(t) ==
    /\ pc[t] = "lock" /\ lock = "free"
    /\ lock' = t /\ registered' = 0 /\ Goto(t, "register")
    /\ UNCHANGED <<instance, doc, file, writable, outcome, crashes>>

\* The lock, and the second look.
Lock(t) ==
    /\ pc[t] = "lock" /\ lock = "free"
    /\ IF instance THEN Goto(t, "ready") /\ UNCHANGED lock
                   ELSE Goto(t, "register") /\ lock' = t
    /\ UNCHANGED <<instance, registered, doc, file, writable, outcome, crashes>>

\* Faulty variant: the lock is not given up.
RegisterKeepsLock(t) ==
    /\ pc[t] = "register"
    /\ IF registered < Len(Types)
       THEN registered' = registered + 1 /\ UNCHANGED <<instance, pc>>
       ELSE instance' = TRUE /\ Goto(t, "ready") /\ UNCHANGED registered
    /\ UNCHANGED <<lock, doc, file, writable, outcome, crashes>>

\* Faulty variant: the constructor goes one past the last type.
RegisterOneMore(t) ==
    /\ pc[t] = "register"
    /\ IF registered <= Len(Types)
       THEN registered' = registered + 1 /\ UNCHANGED <<instance, lock, pc>>
       ELSE instance' = TRUE /\ lock' = "free" /\ Goto(t, "ready") /\ UNCHANGED registered
    /\ UNCHANGED <<doc, file, writable, outcome, crashes>>

\* The constructor registers one type after the other; then the pointer is set
\* and the lock given up.
Register(t) ==
    /\ pc[t] = "register"
    /\ IF registered < Len(Types)
       THEN registered' = registered + 1 /\ UNCHANGED <<instance, lock, pc>>
       ELSE instance' = TRUE /\ lock' = "free" /\ Goto(t, "ready") /\ UNCHANGED registered
    /\ UNCHANGED <<doc, file, writable, outcome, crashes>>

-----------------------------------------------------------------------------
(* The operations.                                                         *)

\* The call ends: the document, and what the caller sees.
Return(t, d, result) ==
    /\ pc[t] = "ready"
    /\ doc' = d /\ outcome' = result
    /\ Goto(t, "idle")
    /\ UNCHANGED <<singleton, writable, crashes>>

\* node[key] of a node that is not const makes a map of anything but a scalar,
\* which it refuses; the elements of a sequence stay under their indices.
Subscripts(d) == d.kind # "scalar"
WithChild(d, x) == [kind |-> "map", child |-> x, items |-> d.items]
AsMap(d) == WithChild(d, d.child)

\* TypeRegistry::read finds a reader and the text converts.
Reads(child, type) == child \in Texts /\ type \in ReadableAs[child]

\* TypeRegistry::write has a writer for the type.
Writes(type) == type \in Registered(registered)

\* _set: the registry is asked before the node is touched.
Set(t, type) ==
    LET d == doc
    IN  /\ \/ /\ Writes(type) /\ Subscripts(d)
              /\ \E x \in WrittenAs[type] : Return(t, WithChild(d, x), "ok")
           \/ /\ ~(Writes(type) /\ Subscripts(d))
              /\ Return(t, d, "threw")
        /\ UNCHANGED file

\* Faulty variant: a value of another type is overwritten.
SetDefOverwrites(t, type) ==
    LET d == doc
    IN  /\ \/ ~Subscripts(d) /\ Return(t, d, "threw")
           \/ /\ Subscripts(d) /\ Reads(d.child, type)
              /\ Return(t, AsMap(d), "false")
           \/ /\ Subscripts(d) /\ ~Reads(d.child, type)
              /\ IF Writes(type)
                 THEN \E x \in WrittenAs[type] : Return(t, WithChild(d, x), "true")
                 ELSE Return(t, AsMap(d), "threw")
        /\ UNCHANGED file

\* _setDef: a scalar that can be read as the type is kept, one that cannot is an
\* error; anything else is replaced.  The look-up has made a map of the node by
\* the time a type that is not registered is refused.
SetDef(t, type) ==
    LET d == doc
    IN  /\ \/ ~Subscripts(d) /\ Return(t, d, "threw")
           \/ /\ Subscripts(d) /\ d.child \in Texts
              /\ Return(t, AsMap(d), IF Reads(d.child, type) THEN "false" ELSE "threw")
           \/ /\ Subscripts(d) /\ d.child \notin Texts
              /\ IF Writes(type)
                 THEN \E x \in WrittenAs[type] : Return(t, WithChild(d, x), "true")
                 ELSE Return(t, AsMap(d), "threw")
        /\ UNCHANGED file

SetNull(t) ==
    LET d == doc
    IN  /\ IF Subscripts(d) THEN Return(t, WithChild(d, "null"), "ok")
                            ELSE Return(t, d, "threw")
        /\ UNCHANGED file

\* setNullDef: a child that is null counts as there.
SetNullDef(t) ==
    LET d == doc
    IN  /\ IF ~Subscripts(d) THEN Return(t, d, "threw")
           ELSE IF d.child # "absent" THEN Return(t, AsMap(d), "false")
           ELSE Return(t, WithChild(d, "null"), "true")
        /\ UNCHANGED file

\* addNode with a null node, a scalar or a collection.
AddNode(t, x) ==
    LET d == doc
    IN  /\ IF Subscripts(d) THEN Return(t, WithChild(d, x), "ok")
                            ELSE Return(t, d, "threw")
        /\ UNCHANGED file

\* pushBack makes a sequence of a null node and refuses maps and scalars.
PushBack(t) ==
    LET d == doc
    IN  /\ d.items < MaxItems
        /\ IF d.kind \in {"null", "seq"}
           THEN Return(t, [kind |-> "seq", child |-> d.child, items |-> d.items + 1], "ok")
           ELSE Return(t, d, "threw")
        /\ UNCHANGED file

\* _getDef: subscripting a scalar and reading a wrong type throw, what is not
\* there or null gives the default.
GetDef(t, type) ==
    LET d == doc
    IN  /\ d.kind # "null"
        /\ \/ d.kind = "scalar" /\ Return(t, d, "threw")
           \/ /\ d.kind # "scalar" /\ d.child \in {"absent", "null"}
              /\ Return(t, d, "default")
           \/ /\ d.kind # "scalar" /\ d.child \in Texts \cup {"node"}
              /\ Return(t, d, IF Reads(d.child, type) /\ Writes(type)
                              THEN "value" ELSE "threw")
        /\ UNCHANGED file

\* The facade answers for a null node without the singleton.
GetDefOfNull ==
    /\ doc.kind = "null"
    /\ outcome' = "default"
    /\ UNCHANGED <<singleton, pc, doc, file, writable, crashes>>

\* getNode and getSequenceNode; the former subscripts a const node.
GetNode(t) ==
    /\ Return(t, doc, IF doc.kind = "scalar" THEN "threw" ELSE "ok")
    /\ UNCHANGED file

\* saveAsFile refuses a null document.  An ofstream that does not open is not
\* noticed.
SaveAsFile(t) ==
    /\ Return(t, doc, IF doc.kind = "null" THEN "threw" ELSE "ok")
    /\ file' = IF writable /\ doc.kind # "null" THEN doc ELSE file

\* loadFile: a file that is not there or cannot be parsed leaves the node; an empty
\* one is a null document, which is defined.
LoadFile(t) ==
    /\ IF file \in {Absent, Broken} THEN Return(t, doc, "false")
       ELSE Return(t, IF file = Empty THEN NullDocument ELSE file, "true")
    /\ UNCHANGED file

\* The program starts another document: null, or a scalar.
NewDocument(k) ==
    /\ doc' = [kind |-> k, child |-> "absent", items |-> 0]
    /\ outcome' = "none"
    /\ UNCHANGED <<singleton, pc, file, writable, crashes>>

\* What a file may hold when the process dies in saveAsFile: nothing yet, a text that
\* cannot be parsed, the beginning of a first key or value, or a document with fewer
\* elements and a child that is missing or cut off.
Prefixes(d) ==
    {Empty, Broken, [kind |-> "scalar", child |-> "absent", items |-> 0], d}
    \cup {p \in Document :
            /\ p.kind = d.kind /\ p.items <= d.items
            /\ d.child = "absent" => p.child = "absent"
            /\ p.child # "absent" \/ p.items > 0}

\* The process dies and starts again, perhaps in saveAsFile, which writes to the file
\* itself.
Crash ==
    /\ crashes < MaxCrashes
    /\ crashes' = crashes + 1
    /\ \/ UNCHANGED file
       \/ /\ \E t \in Threads : pc[t] = "ready"
          /\ writable /\ doc.kind # "null"
          /\ file' \in Prefixes(doc)
    /\ instance' = FALSE /\ registered' = 0 /\ lock' = "free"
    /\ pc' = [t \in Threads |-> "idle"]
    /\ doc' = NullDocument /\ outcome' = "none"
    /\ UNCHANGED writable

-----------------------------------------------------------------------------
Operation(t) ==
    \/ \E type \in CallTypes : Set(t, type) \/ SetDef(t, type) \/ GetDef(t, type)
    \/ SetNull(t) \/ SetNullDef(t) \/ PushBack(t) \/ GetNode(t)
    \/ \E x \in {"null", "word", "node"} : AddNode(t, x)
    \/ SaveAsFile(t) \/ LoadFile(t)

GetInstance(t) == Lock(t) \/ Register(t)

Next ==
    \/ \E t \in Threads : Enter(t) \/ GetInstance(t) \/ Operation(t)
    \/ \E k \in {"null", "scalar"} : NewDocument(k)
    \/ GetDefOfNull
    \/ Crash

Spec == Init /\ [][Next]_vars

\* A thread in a call goes on, and gets the mutex when it is free again and again.
FairSpec ==
    Spec /\ \A t \in Threads : SF_vars(Lock(t)) /\ WF_vars(Register(t) \/ Operation(t))

-----------------------------------------------------------------------------
(* Properties.                                                             *)

\* Types of the variables.
TypeOK ==
    /\ instance \in BOOLEAN /\ registered \in 0..Len(Types)
    /\ lock \in Threads \cup {"free"}
    /\ pc \in [Threads -> {"idle", "lock", "register", "ready"}]
    /\ doc \in Document /\ file \in Files
    /\ writable \in BOOLEAN
    /\ outcome \in {"none", "ok", "true", "false", "value", "default", "threw"}
    /\ crashes \in Nat

\* However the first calls race, a thread that uses the registry finds every type
\* registered and nobody still inserting: the hash tables have no lock.
RegistrySettled ==
    \A t \in Threads : pc[t] = "ready" =>
        registered = Len(Types) /\ \A u \in Threads : pc[u] # "register"

\* The child and the elements stay.
Kept == doc'.child = doc.child /\ doc'.items = doc.items

\* A program that fills in defaults loses none of what its file said.  setNullDef
\* keeps every child that is there, null included.  setDef keeps every scalar, also
\* one that cannot be read as the type it is given, which it refuses with an
\* exception; a child that is null or a collection it replaces, and then it returns
\* true.  And no call that throws, declines, or gives a value or a default loses a
\* child or an element, although it may have made a map of a null node or of a
\* sequence.
ValuesKept ==
    [][\A t \in Threads :
         /\ doc.child # "absent" /\ SetNullDef(t) => Kept
         /\ (\E type \in CallTypes : SetDef(t, type)) =>
              Kept \/ (doc.child \notin Texts /\ outcome' = "true")
         /\ outcome' \in {"threw", "false", "value", "default"} /\ Operation(t) => Kept]_vars

\* Every call returns: the first ones too, which wait for each other.
CallReturns == \A t \in Threads : pc[t] # "idle" ~> pc[t] = "idle"
=============================================================================
