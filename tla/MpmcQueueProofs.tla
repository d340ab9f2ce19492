--------------------------- MODULE MpmcQueueProofs ---------------------------
(***************************************************************************)
(* Proofs about MpmcQueue for any number of logging threads and workers,   *)
(* any word size and any configured queue size from -1 up.                 *)
(***************************************************************************)
EXTENDS MpmcQueue, FiniteSetTheorems, TLAPS

Threads == Producers \cup Consumers

\* What a slot of the ring may hold.
Slot == (Producers \X Nat) \cup {Moved}

\* The ring has one slot more than was asked for, also for -1, where the sum in
\* size_t wraps to none; nothing has been overrun.
RingInv ==
    /\ maxItems = size + 1
    /\ overrun = 0
    /\ v \in [0..(maxItems - 1) -> Slot]

\* The parts of TypeOK that concern the ring, and the threads.
RingOK ==
    /\ size \in Sizes
    /\ maxItems \in 0..(Word - 1)
    /\ IF maxItems = 0 THEN head = 0 /\ tail = 0
       ELSE head \in 0..(maxItems - 1) /\ tail \in 0..(maxItems - 1)
    /\ overrun \in Nat
    /\ DOMAIN v = 0..(maxItems - 1)

ThreadsOK ==
    /\ pc \in [Threads -> {"idle", "enter", "wait", "notify"}]
    /\ sent \in [Producers -> Nat]

-----------------------------------------------------------------------------
(* Arithmetic of the ring.                                                 *)

\* An index below twice the number of slots, taken modulo that number.
LEMMA Wrap ==
    ASSUME NEW n \in Nat, n > 0, NEW x \in 0..(2 * n - 1)
    PROVE  x % n = IF x < n THEN x ELSE x - n
<1>1. CASE x < n
  BY <1>1, SMT
<1>2. CASE x >= n
  BY <1>2, SMT
<1> QED
  BY <1>1, <1>2

\* The constructor's sum in size_t is the sum of integers, and wraps to 0 for -1.
LEMMA RingSizeValue ==
    ASSUME NEW n \in Sizes
    PROVE  RingSize(n) = n + 1 /\ n \in Int /\ n + 1 \in 0..(Word - 1)
<1>1. Word \in Nat /\ Word > 0 /\ n \in Int /\ -1 <= n /\ n <= Word - 2
  BY ConstantsAssumption
<1>2. CASE n = -1
  <2>1. n % Word = Word - 1
    BY <1>1, <1>2, SMT
  <2>2. Word % Word = 0
    BY <1>1, SMT
  <2> QED
    BY <1>1, <1>2, <2>1, <2>2 DEF RingSize
<1>3. CASE n >= 0
  <2>1. n % Word = n /\ (n + 1) % Word = n + 1
    BY <1>1, <1>3, SMT
  <2> QED
    BY <1>1, <1>3, <2>1 DEF RingSize
<1> QED
  BY <1>1, <1>2, <1>3

\* TypeOK is the conjunction of its parts.
LEMMA TypeSplit == TypeOK <=> RingOK /\ ThreadsOK
BY DEF TypeOK, RingOK, ThreadsOK, Threads

\* The number of messages in the ring, and whether it is full.
LEMMA QSizeFacts ==
    ASSUME RingOK, RingInv
    PROVE  /\ QSize \in Nat
           /\ maxItems = 0 => QSize = 0
           /\ maxItems > 0 => QSize < maxItems
           /\ QSize = 0 <=> IsEmpty
           /\ maxItems > 0 => (QSize = size <=> IsFull)
           /\ IsFull => maxItems > 0
           /\ maxItems \in Nat /\ size \in Int /\ size = maxItems - 1
           /\ ~IsEmpty => maxItems > 0
<1>1. /\ maxItems \in Nat /\ size \in Int /\ size = maxItems - 1 /\ size >= -1
      /\ head \in Nat /\ tail \in Nat
      /\ maxItems = 0 => head = 0 /\ tail = 0
      /\ maxItems > 0 => head < maxItems /\ tail < maxItems
  BY RingSizeValue, ConstantsAssumption DEF RingOK, RingInv
<1>2. maxItems > 0 => (tail + 1) % maxItems = IF tail + 1 < maxItems THEN tail + 1 ELSE 0
  BY <1>1, Wrap
<1> QED
  BY <1>1, <1>2 DEF QSize, IsFull, IsEmpty

\* An enqueue into a ring with slots that is not full adds one message at the
\* end and overruns nothing.
LEMMA PushAppends ==
    ASSUME RingOK, RingInv, maxItems > 0, ~IsFull,
           NEW item \in Producers \X Nat, PushBack(item), UNCHANGED size
    PROVE  /\ RingOK' /\ RingInv'
           /\ QSize' = QSize + 1
           /\ Contents' = Append(Contents, item)
<1>1. /\ maxItems \in Nat /\ maxItems' = maxItems
      /\ head \in 0..(maxItems - 1) /\ tail \in 0..(maxItems - 1)
  BY QSizeFacts DEF RingOK, PushBack
<1>2. (tail + 1) % maxItems = IF tail + 1 < maxItems THEN tail + 1 ELSE 0
  BY <1>1, Wrap
<1>3. /\ tail' = (IF tail + 1 < maxItems THEN tail + 1 ELSE 0)
      /\ tail' # head /\ head' = head /\ overrun' = overrun
      /\ v' = [v EXCEPT ![tail] = item]
  BY <1>1, <1>2 DEF PushBack, IsFull
<1>4. v' \in [0..(maxItems - 1) -> Slot] /\ v'[tail] = item
      /\ \A i \in 0..(maxItems - 1) : i # tail => v'[i] = v[i]
  BY <1>1, <1>3 DEF RingInv, Slot
<1>5. RingOK' /\ RingInv'
  BY <1>1, <1>3, <1>4 DEF RingOK, RingInv
<1>6. QSize' = QSize + 1 /\ QSize \in Nat /\ QSize' < maxItems
  BY <1>1, <1>3, QSizeFacts DEF QSize
<1>7. Contents \in [1..QSize -> Slot] /\ Contents' \in [1..(QSize + 1) -> Slot]
  <2>1. \A i \in 1..QSize : (head + i - 1) % maxItems \in 0..(maxItems - 1)
    BY <1>1, <1>6, SMT
  <2>2. \A i \in 1..(QSize + 1) : (head + i - 1) % maxItems \in 0..(maxItems - 1)
    BY <1>1, <1>6, SMT
  <2> QED
    BY <1>1, <1>3, <1>4, <1>6, <2>1, <2>2 DEF Contents, At, RingInv
<1>8. \A i \in 1..QSize : Contents'[i] = Contents[i]
  <2> SUFFICES ASSUME NEW i \in 1..QSize PROVE Contents'[i] = Contents[i]
    OBVIOUS
  <2>1. head + (i - 1) \in 0..(2 * maxItems - 1)
    BY <1>1, <1>6
  <2>2. (head + (i - 1)) % maxItems \in 0..(maxItems - 1)
        /\ (head + (i - 1)) % maxItems # tail
    BY <1>1, <1>6, <2>1, Wrap DEF QSize
  <2> QED
    BY <1>1, <1>3, <1>4, <1>6, <2>2 DEF Contents, At
<1>9. Contents'[QSize + 1] = item
  <2>1. head + QSize \in 0..(2 * maxItems - 1)
    BY <1>1, <1>6
  <2>2. (head + QSize) % maxItems = tail
    BY <1>1, <1>6, <2>1, Wrap DEF QSize
  <2> QED
    BY <1>1, <1>3, <1>4, <1>6, <2>2 DEF Contents, At
<1> QED
  BY <1>5, <1>6, <1>7, <1>8, <1>9

\* A dequeue from a ring that is not empty takes the first message out.
LEMMA PopTakesFirst ==
    ASSUME RingOK, RingInv, ~IsEmpty, PopFront, UNCHANGED size
    PROVE  /\ RingOK' /\ RingInv'
           /\ QSize' = QSize - 1
           /\ Contents # <<>> /\ Head(Contents) = v[head]
           /\ Contents' = Tail(Contents)
<1>1. /\ maxItems \in Nat /\ maxItems > 0 /\ maxItems' = maxItems
      /\ head \in 0..(maxItems - 1) /\ tail \in 0..(maxItems - 1) /\ tail # head
  BY QSizeFacts DEF RingOK, PopFront, IsEmpty
<1>2. (head + 1) % maxItems = IF head + 1 < maxItems THEN head + 1 ELSE 0
  BY <1>1, Wrap
<1>3. /\ head' = (IF head + 1 < maxItems THEN head + 1 ELSE 0)
      /\ tail' = tail /\ overrun' = overrun
      /\ v' = [v EXCEPT ![head] = Moved]
  BY <1>1, <1>2 DEF PopFront
<1>4. v' \in [0..(maxItems - 1) -> Slot]
      /\ \A i \in 0..(maxItems - 1) : i # head => v'[i] = v[i]
  BY <1>1, <1>3 DEF RingInv, Slot
<1>5. RingOK' /\ RingInv'
  BY <1>1, <1>3, <1>4 DEF RingOK, RingInv
<1>6. QSize' = QSize - 1 /\ QSize \in Nat /\ QSize > 0 /\ QSize < maxItems
  BY <1>1, <1>3, QSizeFacts DEF QSize
<1>7. Contents \in [1..QSize -> Slot] /\ Contents' \in [1..(QSize - 1) -> Slot]
  <2>1. \A i \in 1..QSize : (head + (i - 1)) % maxItems \in 0..(maxItems - 1)
    BY <1>1, <1>6, SMT
  <2>2. \A i \in 1..(QSize - 1) : (head' + (i - 1)) % maxItems \in 0..(maxItems - 1)
    BY <1>1, <1>3, <1>6, SMT
  <2> QED
    BY <1>1, <1>3, <1>4, <1>6, <2>1, <2>2 DEF Contents, At, RingInv
<1>8. \A i \in 1..(QSize - 1) : Contents'[i] = Contents[i + 1]
  <2> SUFFICES ASSUME NEW i \in 1..(QSize - 1) PROVE Contents'[i] = Contents[i + 1]
    OBVIOUS
  <2>1. head + i \in 0..(2 * maxItems - 1) /\ head' + (i - 1) \in 0..(2 * maxItems - 1)
    BY <1>1, <1>3, <1>6
  <2>2. /\ (head + i) % maxItems \in 0..(maxItems - 1)
        /\ (head + i) % maxItems # head
        /\ (head' + (i - 1)) % maxItems = (head + i) % maxItems
    BY <1>1, <1>3, <1>6, <2>1, Wrap
  <2>3. Contents[i + 1] = v[(head + i) % maxItems]
    BY <1>6 DEF Contents, At
  <2>4. Contents'[i] = v'[(head' + (i - 1)) % maxItems]
    BY <1>1, <1>6 DEF Contents, At
  <2> QED
    BY <1>4, <2>2, <2>3, <2>4
<1>9. Contents[1] = v[head]
  <2>1. (head + 0) % maxItems = head
    BY <1>1, Wrap
  <2> QED
    BY <1>1, <1>6, <2>1 DEF Contents, At
<1> QED
  BY <1>5, <1>6, <1>7, <1>8, <1>9

-----------------------------------------------------------------------------
(* Type correctness.                                                       *)

\* A new queue.
LEMMA InitInv == Init => TypeOK /\ RingInv
<1> SUFFICES ASSUME Init PROVE TypeOK /\ RingInv
  OBVIOUS
<1>1. maxItems = size + 1 /\ size \in Sizes /\ size \in Int /\ maxItems \in 0..(Word - 1)
  BY RingSizeValue DEF Init
<1>2. RingOK /\ RingInv
  BY <1>1, ConstantsAssumption DEF Init, RingOK, RingInv, Slot
<1>3. ThreadsOK
  BY DEF Init, ThreadsOK, Threads
<1> QED
  BY <1>2, <1>3, TypeSplit

\* An enqueue that gets the mutex sleeps, drops its message (a ring without
\* slots) or appends it.
LEMMA EnqueueCases ==
    ASSUME TypeOK, RingInv, NEW p \in Producers, Enqueue(p)
    PROVE  /\ RingOK' /\ RingInv' /\ ThreadsOK'
           /\ UNCHANGED <<size, taken>>
           /\ \/ /\ IsFull /\ pc' = [pc EXCEPT ![p] = "wait"]
                 /\ UNCHANGED <<ring, sent>>
              \/ /\ ~IsFull /\ pc' = [pc EXCEPT ![p] = "notify"]
                 /\ sent' = [sent EXCEPT ![p] = @ + 1]
                 /\ \/ maxItems = 0 /\ UNCHANGED ring
                    \/ /\ maxItems > 0
                       /\ QSize' = QSize + 1
                       /\ Contents' = Append(Contents, <<p, sent'[p]>>)
<1>0. RingOK /\ ThreadsOK
  BY TypeSplit
<1>1. CASE IsFull
  BY <1>0, <1>1 DEF Enqueue, RingOK, RingInv, ThreadsOK, Threads, ring
<1>2. CASE ~IsFull
  <2>1. /\ sent' = [sent EXCEPT ![p] = @ + 1] /\ PushBack(<<p, sent'[p]>>)
        /\ pc' = [pc EXCEPT ![p] = "notify"] /\ UNCHANGED <<size, taken>>
    BY <1>2 DEF Enqueue
  <2>2. ThreadsOK' /\ <<p, sent'[p]>> \in Producers \X Nat
    BY <1>0, <2>1 DEF ThreadsOK, Threads
  <2>3. CASE maxItems = 0
    <3>1. UNCHANGED ring
      BY <2>1, <2>3 DEF PushBack
    <3> QED
      BY <1>0, <1>2, <2>1, <2>2, <2>3, <3>1 DEF ring, RingOK, RingInv
  <2>4. CASE maxItems # 0
    <3>1. maxItems > 0
      BY <1>0, <2>4, QSizeFacts
    <3>2. /\ RingOK' /\ RingInv' /\ QSize' = QSize + 1
          /\ Contents' = Append(Contents, <<p, sent'[p]>>)
      BY <1>0, <1>2, <2>1, <2>2, <3>1, PushAppends
    <3> QED
      BY <1>2, <2>1, <2>2, <3>1, <3>2
  <2> QED
    BY <2>3, <2>4
<1> QED
  BY <1>1, <1>2

\* A dequeue that gets the mutex sleeps or takes the first message.
LEMMA DequeueCases ==
    ASSUME TypeOK, RingInv, NEW c \in Consumers, Dequeue(c)
    PROVE  /\ RingOK' /\ RingInv' /\ ThreadsOK'
           /\ UNCHANGED <<size, sent>>
           /\ \/ /\ IsEmpty /\ pc' = [pc EXCEPT ![c] = "wait"]
                 /\ UNCHANGED <<ring, taken>>
              \/ /\ ~IsEmpty /\ pc' = [pc EXCEPT ![c] = "notify"]
                 /\ QSize' = QSize - 1
                 /\ Contents # <<>>
                 /\ taken' = Append(taken, Head(Contents))
                 /\ Contents' = Tail(Contents)
<1>0. RingOK /\ ThreadsOK
  BY TypeSplit
<1>1. CASE IsEmpty
  BY <1>0, <1>1 DEF Dequeue, RingOK, RingInv, ThreadsOK, Threads, ring
<1>2. CASE ~IsEmpty
  <2>1. /\ taken' = Append(taken, v[head]) /\ PopFront
        /\ pc' = [pc EXCEPT ![c] = "notify"] /\ UNCHANGED <<size, sent>>
    BY <1>2 DEF Dequeue
  <2>2. ThreadsOK'
    BY <1>0, <2>1 DEF ThreadsOK, Threads
  <2>3. /\ RingOK' /\ RingInv' /\ QSize' = QSize - 1
        /\ Contents # <<>> /\ Head(Contents) = v[head]
        /\ Contents' = Tail(Contents)
    BY <1>0, <1>2, <2>1, PopTakesFirst
  <2> QED
    BY <1>2, <2>1, <2>2, <2>3
<1> QED
  BY <1>1, <1>2

\* The other steps leave the ring and the messages alone.
OtherStep == \E t \in Threads : Call(t) \/ Notify(t) \/ SpuriousWake(t)

\* The steps outside the lock leave the ring alone.
LEMMA OtherCases ==
    ASSUME TypeOK, RingInv, OtherStep
    PROVE  /\ RingOK' /\ RingInv' /\ ThreadsOK'
           /\ UNCHANGED <<size, ring, sent, taken>>
<1>0. RingOK /\ ThreadsOK
  BY TypeSplit
<1>1. UNCHANGED <<size, ring, sent, taken>>
  BY DEF OtherStep, Call, Notify, SpuriousWake
<1>2. RingOK' /\ RingInv'
  BY <1>0, <1>1 DEF RingOK, RingInv, ring
<1>3. ThreadsOK'
  BY <1>0, <1>1 DEF ThreadsOK, OtherStep, Call, Notify, SpuriousWake
<1> QED
  BY <1>1, <1>2, <1>3

\* The invariant of the ring is inductive.
LEMMA TypeStep == TypeOK /\ RingInv /\ [Next]_vars => TypeOK' /\ RingInv'
<1> SUFFICES ASSUME TypeOK, RingInv, [Next]_vars PROVE TypeOK' /\ RingInv'
  OBVIOUS
<1>s. SUFFICES RingOK' /\ ThreadsOK' /\ RingInv'
  BY DEF TypeOK, RingOK, ThreadsOK, Threads
<1>1. CASE \E p \in Producers : Enqueue(p)
  BY <1>1, EnqueueCases
<1>2. CASE \E c \in Consumers : Dequeue(c)
  BY <1>2, DequeueCases
<1>3. CASE OtherStep
  BY <1>3, OtherCases
<1>4. CASE UNCHANGED vars
  BY <1>4, TypeSplit DEF vars, ring, RingOK, ThreadsOK, RingInv
<1> QED
  BY <1>1, <1>2, <1>3, <1>4 DEF Next, OtherStep, Threads

\* Whatever the configured size, the indices of the ring stay within its slots.
THEOREM TypeCorrect == Spec => []TypeOK
<1>1. Init => TypeOK /\ RingInv
  BY InitInv
<1>2. TypeOK /\ RingInv /\ [Next]_vars => (TypeOK /\ RingInv)'
  BY TypeStep
<1> QED
  BY <1>1, <1>2, PTL DEF Spec

-----------------------------------------------------------------------------
(* The ring implements a bounded FIFO queue.                               *)

\* An empty ring is an empty queue.
LEMMA RefinementInit == Init => Abstract!Init
<1> SUFFICES ASSUME Init PROVE Abstract!Init
  OBVIOUS
<1>1. RingOK /\ RingInv /\ size \in Int
  BY InitInv, TypeSplit, RingSizeValue DEF Init
<1>2. QSize = 0
  BY DEF Init, QSize
<1>3. Contents = <<>>
  BY <1>2 DEF Contents
<1> QED
  BY <1>1, <1>3 DEF Init, Abstract!Init

\* Every step of the ring is a Put, a Take or no step of the queue.
LEMMA RefinementStep ==
    TypeOK /\ RingInv /\ [Next]_vars => [Abstract!Next]_Abstract!vars
<1> SUFFICES ASSUME TypeOK, RingInv, [Next]_vars
             PROVE  [Abstract!Next]_Abstract!vars
  OBVIOUS
<1>0. RingOK /\ ThreadsOK
  BY TypeSplit
<1>f. /\ QSize \in Nat /\ maxItems \in Nat /\ size \in Int /\ size = maxItems - 1
      /\ maxItems > 0 => QSize < maxItems
      /\ maxItems > 0 => (QSize = size <=> IsFull)
  BY <1>0, QSizeFacts
<1>l. Len(Contents) = QSize
  BY <1>f DEF Contents
<1>u. ASSUME UNCHANGED ring PROVE Contents' = Contents
  BY <1>u DEF ring, Contents, QSize, At
<1>1. CASE \E p \in Producers : Enqueue(p)
  <2> PICK p \in Producers : Enqueue(p)
    BY <1>1
  <2>1. CASE UNCHANGED <<ring, sent>>
    BY <2>1, <1>u, EnqueueCases DEF Abstract!vars
  <2>2. CASE maxItems = 0 /\ UNCHANGED ring /\ sent' = [sent EXCEPT ![p] = @ + 1]
    <3>1. Contents' = Contents /\ size < 0 /\ UNCHANGED <<size, taken>>
      BY <2>2, <1>u, <1>f, EnqueueCases
    <3>2. Abstract!Put(p)
      BY <2>2, <3>1 DEF Abstract!Put
    <3> QED
      BY <3>2 DEF Abstract!Next
  <2>3. CASE /\ maxItems > 0 /\ ~IsFull
             /\ Contents' = Append(Contents, <<p, sent'[p]>>)
             /\ sent' = [sent EXCEPT ![p] = @ + 1]
    <3>1. Len(Contents) < size
      BY <2>3, <1>f, <1>l
    <3>0. UNCHANGED <<size, taken>>
      BY DEF Enqueue
    <3>2. Abstract!Put(p)
      BY <2>3, <3>0, <3>1 DEF Abstract!Put
    <3> QED
      BY <3>2 DEF Abstract!Next
  <2> QED
    BY <2>1, <2>2, <2>3, EnqueueCases
<1>2. CASE \E c \in Consumers : Dequeue(c)
  <2> PICK c \in Consumers : Dequeue(c)
    BY <1>2
  <2>1. CASE UNCHANGED <<ring, taken>>
    BY <2>1, <1>u, DequeueCases DEF Abstract!vars
  <2>2. CASE /\ Contents # <<>> /\ taken' = Append(taken, Head(Contents))
             /\ Contents' = Tail(Contents)
    <3>1. Abstract!Take
      BY <2>2, DequeueCases DEF Abstract!Take
    <3> QED
      BY <3>1 DEF Abstract!Next
  <2> QED
    BY <2>1, <2>2, DequeueCases
<1>3. CASE OtherStep
  BY <1>3, <1>u, OtherCases DEF Abstract!vars
<1>4. CASE UNCHANGED vars
  BY <1>4, <1>u DEF vars, Abstract!vars
<1> QED
  BY <1>1, <1>2, <1>3, <1>4 DEF Next, OtherStep, Threads

\* For every configured size the ring buffer under its mutex is a FIFO queue of
\* that size: no message is overrun, lost, doubled or taken out of order, -1
\* swallows messages and 0 accepts none.
THEOREM QueueImplementsBoundedQueue == Spec => ImplementsBoundedQueue
<1>1. Init => TypeOK /\ RingInv
  BY InitInv
<1>2. TypeOK /\ RingInv /\ [Next]_vars => (TypeOK /\ RingInv)'
  BY TypeStep
<1>3. Init => Abstract!Init
  BY RefinementInit
<1>4. TypeOK /\ RingInv /\ [Next]_vars => [Abstract!Next]_Abstract!vars
  BY RefinementStep
<1> QED
  BY <1>1, <1>2, <1>3, <1>4, PTL DEF Spec, ImplementsBoundedQueue, Abstract!Spec

-----------------------------------------------------------------------------
(* No lost wake-up.                                                        *)

\* The number of threads of S at a label.
Num(S, label) == Cardinality({t \in S : pc[t] = label})

\* A group of threads none of which moves keeps its numbers.
LEMMA NumSame ==
    ASSUME NEW S, \A t \in S : pc'[t] = pc[t], NEW label
    PROVE  Num(S, label)' = Num(S, label)
<1>1. {t \in S : pc'[t] = label} = {t \in S : pc[t] = label}
  OBVIOUS
<1> QED
  BY <1>1 DEF Num

\* One thread of a finite group goes from label a to label b.
LEMMA NumMoves ==
    ASSUME NEW S, IsFiniteSet(S), NEW u \in S,
           \A t \in S \ {u} : pc'[t] = pc[t],
           NEW a, NEW b, a # b, pc[u] = a, pc'[u] = b
    PROVE  /\ Num(S, a) \in Nat /\ Num(S, b) \in Nat
           /\ Num(S, a) > 0
           /\ Num(S, a)' = Num(S, a) - 1
           /\ Num(S, b)' = Num(S, b) + 1
           /\ \A l : l \notin {a, b} => Num(S, l)' = Num(S, l)
<1> DEFINE Here(l) == {t \in S : pc[t] = l}
           Then(l) == {t \in S : pc'[t] = l}
<1>1. IsFiniteSet(Here(a)) /\ IsFiniteSet(Here(b))
  BY FS_Subset
<1>2. u \in Here(a) /\ Then(a) = Here(a) \ {u}
  OBVIOUS
<1>3. Cardinality(Then(a)) = Cardinality(Here(a)) - 1
  BY <1>1, <1>2, FS_RemoveElement
<1>4. u \notin Here(b) /\ Then(b) = Here(b) \cup {u}
  OBVIOUS
<1>5. Cardinality(Then(b)) = Cardinality(Here(b)) + 1
  BY <1>1, <1>4, FS_AddElement
<1>6. Cardinality(Here(a)) \in Nat /\ Cardinality(Here(b)) \in Nat
  BY <1>1, FS_CardinalityType
<1>7. Cardinality(Here(a)) # 0
  BY <1>1, <1>2, FS_EmptySet
<1>8. ASSUME NEW l, l \notin {a, b} PROVE Cardinality(Then(l)) = Cardinality(Here(l))
  <2>1. Then(l) = Here(l)
    BY <1>8
  <2> QED
    BY <2>1
<1>9. ASSUME NEW l PROVE Num(S, l) = Cardinality(Here(l)) /\ Num(S, l)' = Cardinality(Then(l))
  BY DEF Num
<1> HIDE DEF Here, Then
<1> QED
  BY <1>3, <1>5, <1>6, <1>7, <1>8, <1>9

\* The two halves of NoLostWakeup.
WorkersWoken ==
    Num(Consumers, "wait") > 0 =>
        QSize <= Num(Producers, "notify") + Num(Consumers, "enter")

ProducersWoken ==
    Num(Producers, "wait") > 0 =>
        size - QSize <= Num(Consumers, "notify") + Num(Producers, "enter")

\* NoLostWakeup has a part for the workers and one for the producers.
LEMMA WakeupSplit == NoLostWakeup <=> WorkersWoken /\ ProducersWoken
BY DEF NoLostWakeup, WorkersWoken, ProducersWoken, Num

\* The numbers of threads are numbers, before and after a step.
LEMMA NumType ==
    ASSUME NEW label, NEW S \in {Producers, Consumers}
    PROVE  Num(S, label) \in Nat /\ Num(S, label)' \in Nat
<1>1. IsFiniteSet(S)
  BY ConstantsAssumption
<1>2. IsFiniteSet({t \in S : pc[t] = label}) /\ IsFiniteSet({t \in S : pc'[t] = label})
  BY <1>1, FS_Subset
<1> QED
  BY <1>2, FS_CardinalityType DEF Num

\* A step adds a message and a notification, or a sleeper where there is nothing
\* to wait for, or turns a notification into a thread on its way to the mutex.
LEMMA WakeupStep ==
    TypeOK /\ RingInv /\ NoLostWakeup /\ [Next]_vars => NoLostWakeup'
<1> SUFFICES ASSUME TypeOK, RingInv, NoLostWakeup, [Next]_vars
             PROVE  NoLostWakeup'
  OBVIOUS
<1>s. SUFFICES WorkersWoken' /\ ProducersWoken'
  BY DEF NoLostWakeup, WorkersWoken, ProducersWoken, Num
<1>0. WorkersWoken /\ ProducersWoken /\ RingOK /\ ThreadsOK
  BY WakeupSplit, TypeSplit
<1>f. /\ QSize \in Nat /\ maxItems \in Nat /\ size \in Int /\ size = maxItems - 1
      /\ maxItems = 0 => QSize = 0
      /\ maxItems > 0 => (QSize = size <=> IsFull)
      /\ IsFull => maxItems > 0
      /\ QSize = 0 <=> IsEmpty
  BY <1>0, QSizeFacts
<1>u. ASSUME UNCHANGED ring PROVE QSize' = QSize
  BY <1>u DEF ring, QSize
<1>n. \A l \in {"idle", "enter", "wait", "notify"} :
         /\ Num(Producers, l) \in Nat /\ Num(Consumers, l) \in Nat
         /\ Num(Producers, l)' \in Nat /\ Num(Consumers, l)' \in Nat
  BY NumType
<1>d. Producers \cap Consumers = {} /\ IsFiniteSet(Producers) /\ IsFiniteSet(Consumers)
  BY ConstantsAssumption
<1>p. pc \in [Threads -> {"idle", "enter", "wait", "notify"}]
  BY <1>0 DEF ThreadsOK
\* A thread t of S goes from label a to label b, and the threads of T stay.
<1>m. ASSUME NEW S \in {Producers, Consumers}, NEW T \in {Producers, Consumers}, S # T,
             NEW t \in S, NEW a \in {"idle", "enter", "wait", "notify"},
             NEW b \in {"idle", "enter", "wait", "notify"}, a # b,
             pc[t] = a, pc' = [pc EXCEPT ![t] = b]
      PROVE  /\ Num(S, a)' = Num(S, a) - 1 /\ Num(S, b)' = Num(S, b) + 1
             /\ \A l : l \notin {a, b} => Num(S, l)' = Num(S, l)
             /\ \A l : Num(T, l)' = Num(T, l)
  <2>1. \A x \in S \ {t} : pc'[x] = pc[x]
    BY <1>m, <1>p DEF Threads
  <2>2. pc'[t] = b
    BY <1>m, <1>p DEF Threads
  <2>3. \A x \in T : pc'[x] = pc[x]
    BY <1>m, <1>p, <1>d DEF Threads
  <2>4. IsFiniteSet(S)
    BY <1>d
  <2> QED
    BY <1>m, <2>1, <2>2, <2>3, <2>4, NumMoves, NumSame
<1>1. CASE \E p \in Producers : Enqueue(p)
  <2> PICK p \in Producers : Enqueue(p)
    BY <1>1
  <2>0. pc[p] = "enter" /\ size' = size
    BY DEF Enqueue
  <2>1. CASE Producers = Consumers
    BY <1>d, <2>1
  <2>2. CASE Producers # Consumers
    <3>1. CASE IsFull /\ pc' = [pc EXCEPT ![p] = "wait"] /\ UNCHANGED ring
      <4>1. /\ \A l : Num(Consumers, l)' = Num(Consumers, l)
            /\ Num(Producers, "notify")' = Num(Producers, "notify")
            /\ Num(Producers, "enter")' = Num(Producers, "enter") - 1
        BY <1>m, <2>0, <2>2, <3>1
      <4>2. QSize' = QSize
        BY <3>1, <1>u
      <4> QED
        BY <1>0, <1>f, <1>n, <2>0, <3>1, <4>1, <4>2 DEF WorkersWoken, ProducersWoken
    <3>2. CASE ~IsFull /\ pc' = [pc EXCEPT ![p] = "notify"]
      <4>1. /\ \A l : Num(Consumers, l)' = Num(Consumers, l)
            /\ Num(Producers, "notify")' = Num(Producers, "notify") + 1
            /\ Num(Producers, "enter")' = Num(Producers, "enter") - 1
            /\ Num(Producers, "wait")' = Num(Producers, "wait")
        BY <1>m, <2>0, <2>2, <3>2
      <4>2. \/ maxItems = 0 /\ QSize' = QSize
            \/ QSize' = QSize + 1
        BY <3>2, <1>u, EnqueueCases
      <4> QED
        BY <1>0, <1>f, <1>n, <2>0, <4>1, <4>2 DEF WorkersWoken, ProducersWoken
    <3> QED
      BY <3>1, <3>2, EnqueueCases
  <2> QED
    BY <2>1, <2>2
<1>2. CASE \E c \in Consumers : Dequeue(c)
  <2> PICK c \in Consumers : Dequeue(c)
    BY <1>2
  <2>0. pc[c] = "enter" /\ size' = size
    BY DEF Dequeue
  <2>1. Producers # Consumers
    BY <1>d
  <2>2. CASE IsEmpty /\ pc' = [pc EXCEPT ![c] = "wait"] /\ UNCHANGED ring
    <3>1. /\ \A l : Num(Producers, l)' = Num(Producers, l)
          /\ Num(Consumers, "notify")' = Num(Consumers, "notify")
          /\ Num(Consumers, "enter")' = Num(Consumers, "enter") - 1
      BY <1>m, <2>0, <2>1, <2>2
    <3>2. QSize' = QSize
      BY <2>2, <1>u
    <3> QED
      BY <1>0, <1>f, <1>n, <2>0, <2>2, <3>1, <3>2 DEF WorkersWoken, ProducersWoken
  <2>3. CASE ~IsEmpty /\ pc' = [pc EXCEPT ![c] = "notify"] /\ QSize' = QSize - 1
    <3>1. /\ \A l : Num(Producers, l)' = Num(Producers, l)
          /\ Num(Consumers, "notify")' = Num(Consumers, "notify") + 1
          /\ Num(Consumers, "enter")' = Num(Consumers, "enter") - 1
          /\ Num(Consumers, "wait")' = Num(Consumers, "wait")
      BY <1>m, <2>0, <2>1, <2>3
    <3> QED
      BY <1>0, <1>f, <1>n, <2>0, <2>3, <3>1 DEF WorkersWoken, ProducersWoken
  <2> QED
    BY <2>2, <2>3, DequeueCases
<1>3. CASE \E t \in Threads : Call(t) \/ SpuriousWake(t)
  <2> PICK t \in Threads : Call(t) \/ SpuriousWake(t)
    BY <1>3
  <2>1. /\ pc' = [pc EXCEPT ![t] = "enter"] /\ pc[t] \in {"idle", "wait"}
        /\ UNCHANGED <<size, ring>>
    BY DEF Call, SpuriousWake
  <2>2. QSize' = QSize /\ size' = size /\ Producers # Consumers
    BY <2>1, <1>u, <1>d DEF Threads
  <2>3. CASE t \in Producers
    <3>1. /\ \A l : Num(Consumers, l)' = Num(Consumers, l)
          /\ Num(Producers, "notify")' = Num(Producers, "notify")
          /\ Num(Producers, "enter")' = Num(Producers, "enter") + 1
          /\ Num(Producers, "wait")' <= Num(Producers, "wait")
      <4>1. CASE pc[t] = "idle"
        <5>1. /\ \A l : Num(Consumers, l)' = Num(Consumers, l)
              /\ Num(Producers, "notify")' = Num(Producers, "notify")
              /\ Num(Producers, "enter")' = Num(Producers, "enter") + 1
              /\ Num(Producers, "wait")' = Num(Producers, "wait")
          BY <1>m, <2>1, <2>2, <2>3, <4>1
        <5> QED
          BY <1>n, <5>1
      <4>2. CASE pc[t] = "wait"
        <5>1. /\ \A l : Num(Consumers, l)' = Num(Consumers, l)
              /\ Num(Producers, "notify")' = Num(Producers, "notify")
              /\ Num(Producers, "enter")' = Num(Producers, "enter") + 1
              /\ Num(Producers, "wait")' = Num(Producers, "wait") - 1
          BY <1>m, <2>1, <2>2, <2>3, <4>2
        <5> QED
          BY <1>n, <5>1
      <4> QED
        BY <2>1, <4>1, <4>2
    <3> QED
      BY <1>0, <1>f, <1>n, <2>2, <3>1 DEF WorkersWoken, ProducersWoken
  <2>4. CASE t \in Consumers
    <3>1. /\ \A l : Num(Producers, l)' = Num(Producers, l)
          /\ Num(Consumers, "notify")' = Num(Consumers, "notify")
          /\ Num(Consumers, "enter")' = Num(Consumers, "enter") + 1
          /\ Num(Consumers, "wait")' <= Num(Consumers, "wait")
      <4>1. CASE pc[t] = "idle"
        <5>1. /\ \A l : Num(Producers, l)' = Num(Producers, l)
              /\ Num(Consumers, "notify")' = Num(Consumers, "notify")
              /\ Num(Consumers, "enter")' = Num(Consumers, "enter") + 1
              /\ Num(Consumers, "wait")' = Num(Consumers, "wait")
          BY <1>m, <2>1, <2>2, <2>4, <4>1
        <5> QED
          BY <1>n, <5>1
      <4>2. CASE pc[t] = "wait"
        <5>1. /\ \A l : Num(Producers, l)' = Num(Producers, l)
              /\ Num(Consumers, "notify")' = Num(Consumers, "notify")
              /\ Num(Consumers, "enter")' = Num(Consumers, "enter") + 1
              /\ Num(Consumers, "wait")' = Num(Consumers, "wait") - 1
          BY <1>m, <2>1, <2>2, <2>4, <4>2
        <5> QED
          BY <1>n, <5>1
      <4> QED
        BY <2>1, <4>1, <4>2
    <3> QED
      BY <1>0, <1>f, <1>n, <2>2, <3>1 DEF WorkersWoken, ProducersWoken
  <2> QED
    BY <2>3, <2>4 DEF Threads
<1>4. CASE \E t \in Threads : Notify(t)
  <2> PICK t \in Threads : Notify(t)
    BY <1>4
  <2>1. pc[t] = "notify" /\ UNCHANGED <<size, ring>>
    BY DEF Notify
  <2>2. QSize' = QSize /\ size' = size
    BY <2>1, <1>u
  <2> DEFINE S == IF t \in Producers THEN Producers ELSE Consumers
             T == IF t \in Producers THEN Consumers ELSE Producers
  <2>3. /\ t \in S /\ t \notin T /\ S \cap T = {} /\ S \cup T = Threads
        /\ IsFiniteSet(S) /\ IsFiniteSet(T)
        /\ Sleepers(t) = {u \in T : pc[u] = "wait"}
    BY <1>d DEF Threads, Sleepers
  <2> HIDE DEF S, T
  <2>4. CASE Sleepers(t) = {}
    <3>1. pc' = [pc EXCEPT ![t] = "idle"]
      BY <2>4 DEF Notify
    <3>2. /\ pc'[t] = "idle" /\ \A x \in S \ {t} : pc'[x] = pc[x]
          /\ \A x \in T : pc'[x] = pc[x]
      BY <1>p, <2>3, <3>1
    <3>3. /\ Num(S, "enter")' = Num(S, "enter") /\ Num(S, "wait")' = Num(S, "wait")
          /\ \A l : Num(T, l)' = Num(T, l)
      BY <2>1, <2>3, <3>2, NumMoves, NumSame
    <3>4. Num(T, "wait") = 0
      BY <2>3, <2>4, FS_EmptySet DEF Num
    <3>5. CASE t \in Producers
      <4>1. S = Producers /\ T = Consumers
        BY <3>5 DEF S, T
      <4> QED
        BY <1>0, <1>f, <1>n, <2>2, <3>3, <3>4, <4>1 DEF WorkersWoken, ProducersWoken
    <3>6. CASE t \notin Producers
      <4>1. S = Consumers /\ T = Producers
        BY <3>6 DEF S, T
      <4> QED
        BY <1>0, <1>f, <1>n, <2>2, <3>3, <3>4, <4>1 DEF WorkersWoken, ProducersWoken
    <3> QED
      BY <3>5, <3>6
  <2>5. CASE Sleepers(t) # {}
    <3>1. PICK u \in Sleepers(t) : pc' = [pc EXCEPT ![t] = "idle", ![u] = "enter"]
      BY <2>5 DEF Notify
    <3>2. u \in T /\ pc[u] = "wait" /\ u # t
      BY <2>3, <3>1
    <3>3. /\ pc'[t] = "idle" /\ \A x \in S \ {t} : pc'[x] = pc[x]
          /\ pc'[u] = "enter" /\ \A x \in T \ {u} : pc'[x] = pc[x]
      BY <1>p, <2>3, <3>1, <3>2
    <3>4. /\ Num(S, "notify")' = Num(S, "notify") - 1
          /\ Num(S, "enter")' = Num(S, "enter") /\ Num(S, "wait")' = Num(S, "wait")
      BY <2>1, <2>3, <3>3, NumMoves
    <3>5. /\ Num(T, "enter")' = Num(T, "enter") + 1
          /\ Num(T, "wait")' = Num(T, "wait") - 1
          /\ Num(T, "notify")' = Num(T, "notify")
          /\ Num(T, "wait") > 0
      BY <2>3, <3>2, <3>3, NumMoves
    <3>6. CASE t \in Producers
      <4>1. S = Producers /\ T = Consumers
        BY <3>6 DEF S, T
      <4> QED
        BY <1>0, <1>f, <1>n, <2>2, <3>4, <3>5, <4>1 DEF WorkersWoken, ProducersWoken
    <3>7. CASE t \notin Producers
      <4>1. S = Consumers /\ T = Producers
        BY <3>7 DEF S, T
      <4> QED
        BY <1>0, <1>f, <1>n, <2>2, <3>4, <3>5, <4>1 DEF WorkersWoken, ProducersWoken
    <3> QED
      BY <3>6, <3>7
  <2> QED
    BY <2>4, <2>5
<1>5. CASE UNCHANGED vars
  <2>1. QSize' = QSize /\ size' = size /\ pc' = pc
    BY <1>5, <1>u DEF vars
  <2> QED
    BY <1>0, <2>1 DEF WorkersWoken, ProducersWoken, Num
<1> QED
  BY <1>1, <1>2, <1>3, <1>4, <1>5 DEF Next, Threads

\* However many threads share the queue, no wake-up is lost.
THEOREM WakeupsKept == Spec => []NoLostWakeup
<1>1. Init => TypeOK /\ RingInv /\ NoLostWakeup
  <2> SUFFICES ASSUME Init PROVE WorkersWoken /\ ProducersWoken
    BY InitInv, WakeupSplit
  <2>1. {t \in Producers : pc[t] = "wait"} = {} /\ {t \in Consumers : pc[t] = "wait"} = {}
    BY DEF Init
  <2>2. Num(Producers, "wait") = 0 /\ Num(Consumers, "wait") = 0
    BY <2>1, FS_EmptySet DEF Num
  <2> QED
    BY <2>2 DEF WorkersWoken, ProducersWoken
<1>2. TypeOK /\ RingInv /\ NoLostWakeup /\ [Next]_vars
      => (TypeOK /\ RingInv /\ NoLostWakeup)'
  BY TypeStep, WakeupStep
<1> QED
  BY <1>1, <1>2, PTL DEF Spec
=============================================================================
