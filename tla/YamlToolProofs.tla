---------------------------- MODULE YamlToolProofs ----------------------------
(***************************************************************************)
(* Proofs about YamlTool for any number of threads that make the first     *)
(* call at once, any length of sequences and any number of crashes.        *)
(***************************************************************************)
EXTENDS YamlTool, TLAPS

\* The thread that constructs the object is the one that holds the mutex; the
\* pointer is set after the last type is registered and before any thread
\* goes on to use it.
SingletonInv ==
    /\ \A t \in Threads : pc[t] = "register" => lock = t
    /\ instance => registered = Len(Types) /\ \A t \in Threads : pc[t] # "register"
    /\ \A t \in Threads : pc[t] = "ready" => instance

IndInv == TypeOK /\ SingletonInv

-----------------------------------------------------------------------------
(* Documents and types.                                                    *)

\* There are four types.
LEMMA FourTypes == Len(Types) = 4
BY DEF Types

\* A type of the registry is written as one of the texts.
LEMMA WrittenTexts ==
    ASSUME registered \in 0..Len(Types), NEW type, Writes(type)
    PROVE  WrittenAs[type] \subseteq Texts
<1>1. type \in {"int", "bool", "double", "string"}
  <2>1. PICK i \in 1..registered : type = Types[i]
    BY DEF Writes, Registered
  <2>2. i \in {1, 2, 3, 4}
    BY <2>1, FourTypes
  <2> QED
    BY <2>1, <2>2 DEF Types
<1> QED
  BY <1>1 DEF WrittenAs, Texts

\* A subscript makes a document of a document.
LEMMA DocumentFacts ==
    ASSUME NEW d \in Document
    PROVE  /\ d.kind \in {"null", "map", "seq", "scalar"}
           /\ d.child \in Children /\ d.items \in 0..MaxItems
           /\ AsMap(d) \in Document
           /\ AsMap(d).child = d.child /\ AsMap(d).items = d.items
           /\ \A x \in Children : WithChild(d, x) \in Document
           /\ d.items < MaxItems =>
                [kind |-> "seq", child |-> d.child, items |-> d.items + 1] \in Document
BY ConstantsAssumption DEF Document, AsMap, WithChild

\* The documents a program starts with.
LEMMA NewDocuments ==
    /\ NullDocument \in Document
    /\ \A k \in {"null", "scalar"} :
         [kind |-> k, child |-> "absent", items |-> 0] \in Document
BY ConstantsAssumption DEF NullDocument, Document, Children

Outcomes == {"none", "ok", "true", "false", "value", "default", "threw"}

\* An operation gives back a document and an outcome, and the thread is idle again.
\* It loses nothing when it fails, declines or reads, and what setDef and setNullDef
\* replace is what they may.
LEMMA OperationEffect ==
    ASSUME TypeOK, NEW t \in Threads, Operation(t)
    PROVE  /\ pc[t] = "ready" /\ pc' = [pc EXCEPT ![t] = "idle"]
           /\ UNCHANGED <<singleton, writable, crashes>>
           /\ doc' \in Document /\ outcome' \in Outcomes
           /\ file' \in Files
           /\ outcome' \in {"threw", "false", "value", "default"} => Kept
           /\ doc.child # "absent" /\ SetNullDef(t) => Kept
           /\ (\E type \in CallTypes : SetDef(t, type)) =>
                Kept \/ (doc.child \notin Texts /\ outcome' = "true")
<1> USE DEF Outcomes
<1>0. doc \in Document /\ file \in Files
      /\ registered \in 0..Len(Types)
  BY DEF TypeOK
<1>t. Texts \subseteq Children /\ "null" \in Children /\ "word" \in Children
      /\ "node" \in Children
  BY DEF Children, Texts
<1>d. /\ doc.items \in 0..MaxItems
      /\ AsMap(doc) \in Document
      /\ AsMap(doc).child = doc.child /\ AsMap(doc).items = doc.items
      /\ \A x \in Children : WithChild(doc, x) \in Document
  BY <1>0, DocumentFacts
<1> DEFINE Effect == /\ doc' \in Document /\ outcome' \in Outcomes
                     /\ file' \in Files
                     /\ outcome' \in {"threw", "false", "value", "default"} => Kept
<1>c. /\ pc[t] = "ready" /\ pc' = [pc EXCEPT ![t] = "idle"]
      /\ UNCHANGED <<singleton, writable, crashes>>
  BY DEF Operation, Set, SetDef, GetDef, SetNull, SetNullDef, PushBack, GetNode,
         AddNode, SaveAsFile, LoadFile, Return, Goto
<1>1. ASSUME NEW type \in CallTypes, Set(t, type) PROVE Effect
  <2>1. CASE Writes(type) /\ Subscripts(doc)
    <3>1. PICK x \in WrittenAs[type] : Return(t, WithChild(doc, x), "ok")
      BY <1>1, <2>1 DEF Set
    <3>2. x \in Children
      BY <1>0, <1>t, <2>1, <3>1, WrittenTexts
    <3> QED
      BY <1>0, <1>1, <1>d, <3>1, <3>2 DEF Set, Return
  <2>2. CASE ~(Writes(type) /\ Subscripts(doc))
    BY <1>0, <1>1, <2>2 DEF Set, Return, Kept
  <2> QED
    BY <2>1, <2>2
<1>2. ASSUME NEW type \in CallTypes, SetDef(t, type)
      PROVE  Effect /\ (Kept \/ (doc.child \notin Texts /\ outcome' = "true"))
  <2>1. CASE ~Subscripts(doc)
    BY <1>0, <1>2, <2>1 DEF SetDef, Return, Kept
  <2>2. CASE Subscripts(doc) /\ doc.child \in Texts
    BY <1>0, <1>2, <1>d, <2>2 DEF SetDef, Return, Kept
  <2>3. CASE Subscripts(doc) /\ doc.child \notin Texts /\ Writes(type)
    <3>1. PICK x \in WrittenAs[type] : Return(t, WithChild(doc, x), "true")
      BY <1>2, <2>3 DEF SetDef
    <3>2. x \in Children
      BY <1>0, <1>t, <2>3, <3>1, WrittenTexts
    <3> QED
      BY <1>0, <1>2, <1>d, <2>3, <3>1, <3>2 DEF SetDef, Return
  <2>4. CASE Subscripts(doc) /\ doc.child \notin Texts /\ ~Writes(type)
    BY <1>0, <1>2, <1>d, <2>4 DEF SetDef, Return, Kept
  <2> QED
    BY <2>1, <2>2, <2>3, <2>4
<1>3. ASSUME NEW type \in CallTypes, GetDef(t, type) PROVE Effect
  BY <1>0, <1>3 DEF GetDef, Return, Kept
<1>4. ASSUME SetNull(t) PROVE Effect
  BY <1>0, <1>4, <1>d, <1>t DEF SetNull, Return, Kept
<1>5. ASSUME SetNullDef(t) PROVE Effect /\ (doc.child # "absent" => Kept)
  BY <1>0, <1>5, <1>d, <1>t DEF SetNullDef, Return, Kept, Texts
<1>6. ASSUME PushBack(t) PROVE Effect
  BY <1>0, <1>6, DocumentFacts DEF PushBack, Return, Kept
<1>7. ASSUME GetNode(t) PROVE Effect
  BY <1>0, <1>7 DEF GetNode, Return, Kept
<1>8. ASSUME NEW x \in {"null", "word", "node"}, AddNode(t, x) PROVE Effect
  BY <1>0, <1>8, <1>d, <1>t DEF AddNode, Return, Kept
<1>9. ASSUME SaveAsFile(t) PROVE Effect
  BY <1>0, <1>9 DEF SaveAsFile, Return, Kept, Files
<1>10. ASSUME LoadFile(t) PROVE Effect
  <2>1. doc' = doc \/ doc' = NullDocument \/ (file \in Document /\ doc' = file)
    BY <1>0, <1>10 DEF LoadFile, Return, Files
  <2>2. UNCHANGED file /\ outcome' \in {"true", "false"} /\ (outcome' = "false" => doc' = doc)
    BY <1>10 DEF LoadFile, Return
  <2> QED
    BY <1>0, <2>1, <2>2, NewDocuments DEF Kept
<1>11. Effect
  BY <1>1, <1>2, <1>3, <1>4, <1>5, <1>6, <1>7, <1>8, <1>9, <1>10 DEF Operation
<1>12. SetNullDef(t) /\ doc.child # "absent" => Kept
  BY <1>5
<1>13. (\E type \in CallTypes : SetDef(t, type)) =>
         Kept \/ (doc.child \notin Texts /\ outcome' = "true")
  BY <1>2
<1> QED
  BY <1>c, <1>11, <1>12, <1>13

-----------------------------------------------------------------------------
(* The singleton.                                                          *)

\* A process that has just started.
LEMMA InitInv == Init => IndInv
<1> SUFFICES ASSUME Init PROVE IndInv
  OBVIOUS
<1>1. instance \in BOOLEAN /\ writable \in BOOLEAN
  BY DEF Init
<1>2. /\ registered \in 0..Len(Types) /\ crashes \in Nat
      /\ lock \in Threads \cup {"free"} /\ pc \in [Threads -> {"idle", "lock", "register", "ready"}]
  BY FourTypes DEF Init
<1>3. doc \in Document /\ file \in Files /\ outcome = "none"
  BY NewDocuments DEF Init, Files
<1>4. TypeOK
  BY <1>1, <1>2, <1>3 DEF TypeOK
<1>5. SingletonInv
  BY DEF Init, SingletonInv
<1> QED
  BY <1>4, <1>5 DEF IndInv

\* Every step keeps the invariant.
LEMMA InvStep == IndInv /\ [Next]_vars => IndInv'
<1> SUFFICES ASSUME IndInv, [Next]_vars PROVE IndInv'
  OBVIOUS
<1> USE FourTypes DEF IndInv
<1>1. ASSUME NEW t \in Threads, Enter(t) PROVE IndInv'
  BY <1>1 DEF Enter, Goto, TypeOK, SingletonInv, singleton
<1>2. ASSUME NEW t \in Threads, Lock(t) PROVE IndInv'
  <2>1. TypeOK'
    BY <1>2 DEF Lock, Goto, TypeOK
  <2>2. \A u \in Threads : pc[u] # "register"
    BY <1>2, ConstantsAssumption DEF Lock, SingletonInv
  <2>3. SingletonInv'
    BY <1>2, <2>2 DEF Lock, Goto, TypeOK, SingletonInv
  <2> QED
    BY <2>1, <2>3
<1>3. ASSUME NEW t \in Threads, Register(t) PROVE IndInv'
  <2>1. TypeOK'
    <3>1. instance' \in BOOLEAN
      BY <1>3 DEF Register, TypeOK
    <3>2. registered' \in 0..Len(Types)
      BY <1>3 DEF Register, TypeOK
    <3>3. pc' \in [Threads -> {"idle", "lock", "register", "ready"}]
          /\ lock' \in Threads \cup {"free"}
      BY <1>3 DEF Register, Goto, TypeOK
    <3> QED
      BY <1>3, <3>1, <3>2, <3>3 DEF Register, TypeOK
  <2>2. lock = t /\ ~instance /\ \A u \in Threads : pc[u] = "register" => u = t
    BY <1>3 DEF Register, SingletonInv, TypeOK
  <2>3. CASE registered < Len(Types)
    BY <1>3, <2>2, <2>3 DEF Register, Goto, TypeOK, SingletonInv
  <2>4. CASE ~(registered < Len(Types))
    BY <1>3, <2>2, <2>4 DEF Register, Goto, TypeOK, SingletonInv
  <2> QED
    BY <2>1, <2>3, <2>4
<1>4. ASSUME NEW t \in Threads, Operation(t) PROVE IndInv'
  <2>1. /\ pc[t] = "ready" /\ pc' = [pc EXCEPT ![t] = "idle"]
        /\ UNCHANGED <<singleton, writable, crashes>>
        /\ doc' \in Document /\ outcome' \in Outcomes
        /\ file' \in Files
    BY <1>4, OperationEffect
  <2>2. TypeOK'
    BY <2>1 DEF TypeOK, Outcomes, singleton
  <2>3. SingletonInv'
    BY <2>1 DEF TypeOK, SingletonInv, singleton
  <2> QED
    BY <2>2, <2>3
<1>5. ASSUME NEW k \in {"null", "scalar"}, NewDocument(k) PROVE IndInv'
  BY <1>5, NewDocuments DEF NewDocument, TypeOK, SingletonInv, singleton
<1>6. CASE GetDefOfNull
  BY <1>6 DEF GetDefOfNull, TypeOK, SingletonInv, singleton
<1>7. CASE Crash
  <2>1. file' \in Files
    <3>1. Prefixes(doc) \subseteq Files
      BY NewDocuments DEF Prefixes, Files, TypeOK
    <3> QED
      BY <1>7, <3>1 DEF Crash, TypeOK
  <2>2. TypeOK'
    <3>1. instance' \in BOOLEAN /\ writable' \in BOOLEAN
      BY <1>7 DEF Crash, TypeOK
    <3>2. registered' \in 0..Len(Types) /\ crashes' \in Nat
      BY <1>7 DEF Crash, TypeOK
    <3>3. pc' \in [Threads -> {"idle", "lock", "register", "ready"}]
          /\ lock' \in Threads \cup {"free"}
      BY <1>7 DEF Crash
    <3> QED
      BY <1>7, <2>1, <3>1, <3>2, <3>3, NewDocuments DEF Crash, TypeOK
  <2>3. SingletonInv'
    BY <1>7 DEF Crash, SingletonInv
  <2> QED
    BY <2>2, <2>3
<1>8. CASE UNCHANGED vars
  BY <1>8 DEF vars, singleton, TypeOK, SingletonInv
<1> QED
  BY <1>1, <1>2, <1>3, <1>4, <1>5, <1>6, <1>7, <1>8 DEF Next, GetInstance

\* The invariant holds at all times.
LEMMA Invariance == Spec => []IndInv
<1>1. Init => IndInv
  BY InitInv
<1>2. IndInv /\ [Next]_vars => IndInv'
  BY InvStep
<1> QED
  BY <1>1, <1>2, PTL DEF Spec

\* Documents, files and the registry keep their types through all calls.
THEOREM TypeCorrect == Spec => []TypeOK
<1>1. IndInv => TypeOK
  BY DEF IndInv
<1> QED
  BY <1>1, Invariance, PTL

\* Double-checked locking works for any number of threads: a thread that uses the
\* registry finds it complete, and nobody is inserting any more.
THEOREM RegistryAlwaysSettled == Spec => []RegistrySettled
<1>1. IndInv => RegistrySettled
  BY DEF IndInv, SingletonInv, RegistrySettled
<1> QED
  BY <1>1, Invariance, PTL

\* setNullDef keeps every child that is there, setDef every scalar, and calls that
\* throw, decline or read keep all children and elements.
THEOREM ValuesAlwaysKept == Spec => ValuesKept
<1>1. IndInv /\ [Next]_vars =>
        [\A t \in Threads :
           /\ doc.child # "absent" /\ SetNullDef(t) => Kept
           /\ (\E type \in CallTypes : SetDef(t, type)) =>
                Kept \/ (doc.child \notin Texts /\ outcome' = "true")
           /\ outcome' \in {"threw", "false", "value", "default"} /\ Operation(t) => Kept]_vars
  <2> SUFFICES ASSUME IndInv, NEW t \in Threads
               PROVE  /\ doc.child # "absent" /\ SetNullDef(t) => Kept
                      /\ (\E type \in CallTypes : SetDef(t, type)) =>
                           Kept \/ (doc.child \notin Texts /\ outcome' = "true")
                      /\ outcome' \in {"threw", "false", "value", "default"} /\ Operation(t)
                           => Kept
    OBVIOUS
  <2>1. SetNullDef(t) \/ (\E type \in CallTypes : SetDef(t, type)) => Operation(t)
    BY DEF Operation
  <2> QED
    BY <2>1, OperationEffect DEF IndInv
<1> QED
  BY <1>1, Invariance, PTL DEF Spec, ValuesKept
=============================================================================
