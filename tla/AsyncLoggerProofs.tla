-------------------------- MODULE AsyncLoggerProofs --------------------------
(***************************************************************************)
(* Proofs about asynchronous logging, for any number of threads, workers,  *)
(* pools, messages and calls.  Five invariants build on one another:       *)
(*   TypeInv    types, and what the label of a thread says of its pointers *)
(*   LifeInv    a pool without strong pointers stays so, and is destroyed  *)
(*              by one thread                                              *)
(*   DrainInv   terminate messages come last in a queue, so a worker that  *)
(*              has taken one has left no message behind                   *)
(*   OwedInv    what a quiet shutdown owes is in the pool it destroys      *)
(*   NumberInv, OrderInv   the messages of a thread stay in order from     *)
(*              what is written to the end of the queue                    *)
(***************************************************************************)
EXTENDS AsyncLogger, TLAPS, FiniteSetTheorems

Labels == {"idle", "sink_it", "enqueue", "release", "terminate", "join", "install"}
N == Cardinality(Workers)

\* The type invariant in parts.
PoolsOK ==
    /\ queue \in [Pools -> Seq(Msgs \cup {Terminate})]
    /\ hand \in [Pools -> [Workers -> Msgs \cup {Nothing}]]
    /\ done \subseteq Pools \X Workers
    /\ joined \subseteq Pools
RefsOK ==
    /\ tp \in 0..MaxPools /\ current \in -1..MaxPools /\ last \in Pools
    /\ mine \in [Threads -> -1..MaxPools]
    /\ holds \in [Threads -> 0..MaxPools]
ThreadsOK ==
    /\ pc \in [Procs -> Labels]
    /\ dying \in [Procs -> 0..MaxPools]
    /\ terms \in [Procs -> 0..N]
HistoryOK ==
    /\ sent \in [Threads -> 0..MaxMsgs]
    /\ posted \in [Pools -> Seq(Msgs)]
    /\ written \in Seq(Msgs)
CallsOK ==
    /\ shutdowns \in Nat
    /\ owed \subseteq Msgs /\ quiet \in BOOLEAN

\* What the label of a thread says about its other variables: inside a log call a
\* message has been numbered, a strong pointer is held between the lock and the
\* release, and a destructor is run from the first terminate message to the join.
LabelInv ==
    /\ \A t \in Threads :
         /\ pc[t] \in {"sink_it", "enqueue", "release"} => sent[t] >= 1
         /\ holds[t] # 0 <=> pc[t] \in {"enqueue", "release"}
    /\ \A p \in Procs :
         /\ dying[p] # 0 <=> pc[p] \in {"terminate", "join"}
         /\ pc[p] = "terminate" => terms[p] >= 1
    /\ pc[Main] \notin {"sink_it", "enqueue", "release"}

TypeInv == PoolsOK /\ RefsOK /\ ThreadsOK /\ HistoryOK /\ CallsOK /\ LabelInv

\* TypeOK is the conjunction of its parts.
LEMMA TypeSplit == TypeOK <=> PoolsOK /\ RefsOK /\ ThreadsOK /\ HistoryOK /\ CallsOK
BY DEF TypeOK, PoolsOK, RefsOK, ThreadsOK, HistoryOK, CallsOK, Labels, N

\* What the assumption on the constants gives the proofs.
LEMMA Constants ==
    /\ N \in Nat /\ N >= 1
    /\ MaxPools \in Nat /\ MaxPools >= 1 /\ MaxMsgs \in Nat
    /\ Main \in Procs /\ Main \notin Threads /\ Threads \subseteq Procs
    /\ \A p \in Procs : p = Main \/ p \in Threads
<1>1. N \in Nat /\ N # 0
  BY ConstantsAssumption, FS_CardinalityType, FS_EmptySet DEF N
<1> QED
  BY <1>1, ConstantsAssumption DEF Procs

\* A terminate message and an empty hand are not messages.
LEMMA Distinct == Terminate \notin Msgs /\ Nothing \notin Msgs /\ Terminate # Nothing
BY DEF Terminate, Nothing, Msgs

\* The members of a sequence.
LEMMA InSeqEmpty == InSeq(<<>>) = {}
BY DEF InSeq

\* A sequence with one more element has that element besides its own.
LEMMA InSeqAppend ==
    ASSUME NEW S, NEW s \in Seq(S), NEW e \in S
    PROVE  InSeq(Append(s, e)) = InSeq(s) \cup {e}
BY DEF InSeq

\* The elements of a sequence over S are in S.
LEMMA InSeqType ==
    ASSUME NEW S, NEW s \in Seq(S)
    PROVE  InSeq(s) \subseteq S
BY DEF InSeq

\* A sequence has its head and the elements of its tail.
LEMMA InSeqTail ==
    ASSUME NEW S, NEW s \in Seq(S), s # <<>>
    PROVE  /\ Head(s) \in S /\ Tail(s) \in Seq(S)
           /\ InSeq(s) = {Head(s)} \cup InSeq(Tail(s))
<1>1. Head(s) = s[1] /\ Len(s) \in Nat /\ Len(s) >= 1
  OBVIOUS
<1>2. Tail(s) \in Seq(S) /\ Len(Tail(s)) = Len(s) - 1
  OBVIOUS
<1>3. \A i \in 1..(Len(s) - 1) : Tail(s)[i] = s[i + 1]
  OBVIOUS
<1>4. ASSUME NEW x \in InSeq(s) PROVE x \in {Head(s)} \cup InSeq(Tail(s))
  <2>1. PICK i \in 1..Len(s) : x = s[i]
    BY DEF InSeq
  <2>2. CASE i = 1
    BY <1>1, <2>1, <2>2
  <2>3. CASE i # 1
    <3>1. i - 1 \in 1..Len(Tail(s)) /\ Tail(s)[i - 1] = x
      BY <1>1, <1>2, <1>3, <2>1, <2>3
    <3> QED
      BY <3>1 DEF InSeq
  <2> QED
    BY <2>2, <2>3
<1>5. ASSUME NEW x \in InSeq(Tail(s)) PROVE x \in InSeq(s)
  <2>1. PICK i \in 1..Len(Tail(s)) : x = Tail(s)[i]
    BY DEF InSeq
  <2>2. i + 1 \in 1..Len(s) /\ s[i + 1] = x
    BY <1>1, <1>2, <1>3, <2>1
  <2> QED
    BY <2>2 DEF InSeq
<1>6. Head(s) \in InSeq(s) /\ Head(s) \in S
  BY <1>1 DEF InSeq
<1> QED
  BY <1>2, <1>4, <1>5, <1>6

\* The message of a thread inside a log call is its latest one.
LEMMA MsgType ==
    ASSUME TypeInv, NEW t \in Threads, pc[t] \in {"sink_it", "enqueue", "release"}
    PROVE  Msg(t) \in Msgs /\ Msg(t)[1] = t /\ Msg(t)[2] = sent[t]
BY Constants DEF TypeInv, HistoryOK, LabelInv, Msg, Msgs

-----------------------------------------------------------------------------
\* A thread that only moves on keeps what its label says about the destructor.
LEMMA GotoTyped ==
    ASSUME ThreadsOK, NEW p \in Procs, NEW l \in Labels, Goto(p, l)
    PROVE  /\ ThreadsOK'
           /\ pc'[p] = l /\ \A q \in Procs \ {p} : pc'[q] = pc[q]
           /\ dying' = dying /\ terms' = terms
BY DEF Goto, ThreadsOK

\* Drop makes the thread that holds the last pointer run the destructor, and no
\* other.
LEMMA DropTyped ==
    ASSUME ThreadsOK, NEW p \in Procs, NEW g \in 0..MaxPools, NEW isLast, NEW l \in Labels,
           Drop(p, g, isLast, l)
    PROVE  /\ ThreadsOK'
           /\ \/ /\ g # 0 /\ isLast
                 /\ pc'[p] = "terminate" /\ dying'[p] = g /\ terms'[p] = N
              \/ /\ ~(g # 0 /\ isLast)
                 /\ pc'[p] = l /\ dying'[p] = dying[p] /\ terms'[p] = terms[p]
           /\ \A q \in Procs \ {p} :
                pc'[q] = pc[q] /\ dying'[q] = dying[q] /\ terms'[q] = terms[q]
<1>1. CASE g # 0 /\ isLast
  <2>1. /\ pc' = [pc EXCEPT ![p] = "terminate"]
        /\ dying' = [dying EXCEPT ![p] = g] /\ terms' = [terms EXCEPT ![p] = N]
    BY <1>1 DEF Drop, N
  <2>2. "terminate" \in Labels /\ N \in 0..N
    BY Constants DEF Labels
  <2> QED
    BY <1>1, <2>1, <2>2 DEF ThreadsOK
<1>2. CASE ~(g # 0 /\ isLast)
  <2>1. Goto(p, l)
    BY <1>2 DEF Drop
  <2> QED
    BY <1>2, <2>1, GotoTyped
<1> QED
  BY <1>1, <1>2

\* Only the thread that moves has to be looked at.
LEMMA LabelKept ==
    ASSUME LabelInv, NEW p \in Procs,
           \A q \in Procs \ {p} :
             pc'[q] = pc[q] /\ dying'[q] = dying[q] /\ terms'[q] = terms[q],
           \A t \in Threads \ {p} : holds'[t] = holds[t] /\ sent'[t] = sent[t],
           p \in Threads =>
             /\ pc'[p] \in {"sink_it", "enqueue", "release"} => sent'[p] >= 1
             /\ holds'[p] # 0 <=> pc'[p] \in {"enqueue", "release"},
           dying'[p] # 0 <=> pc'[p] \in {"terminate", "join"},
           pc'[p] = "terminate" => terms'[p] >= 1,
           p = Main => pc'[p] \notin {"sink_it", "enqueue", "release"}
    PROVE  LabelInv'
<1>1. ASSUME NEW t \in Threads
      PROVE  /\ pc'[t] \in {"sink_it", "enqueue", "release"} => sent'[t] >= 1
             /\ holds'[t] # 0 <=> pc'[t] \in {"enqueue", "release"}
  BY Constants, Zenon DEF LabelInv
<1>2. ASSUME NEW q \in Procs
      PROVE  /\ dying'[q] # 0 <=> pc'[q] \in {"terminate", "join"}
             /\ pc'[q] = "terminate" => terms'[q] >= 1
  BY Zenon DEF LabelInv
<1>3. pc'[Main] \notin {"sink_it", "enqueue", "release"}
  BY Constants, Zenon DEF LabelInv
<1> QED
  BY <1>1, <1>2, <1>3, Zenon DEF LabelInv

\* The types and the labels hold at first.
LEMMA TypeInit == Init => TypeInv
<1> SUFFICES ASSUME Init PROVE TypeInv
  OBVIOUS
<1>1. \A S : <<>> \in Seq(S)
  OBVIOUS
<1>2. PoolsOK
  BY <1>1 DEF Init, PoolsOK
<1>3. RefsOK
  BY Constants DEF Init, RefsOK, Pools, Null
<1>4. ThreadsOK
  BY Constants DEF Init, ThreadsOK, Labels
<1>5. HistoryOK
  BY <1>1, Constants DEF Init, HistoryOK
<1>6. CallsOK
  <2>1. quiet \in BOOLEAN
    BY DEF Init
  <2> QED
    BY <2>1 DEF Init, CallsOK
<1>7. LabelInv
  <2>1. (\A p \in Procs : pc[p] = "idle" /\ dying[p] = 0) /\ \A t \in Threads : holds[t] = 0
    BY DEF Init
  <2>2. \A p \in Procs : pc[p] \notin {"sink_it", "enqueue", "release", "terminate", "join"}
    BY <2>1
  <2> QED
    BY <2>1, <2>2, Constants DEF LabelInv
<1> QED
  BY <1>2, <1>3, <1>4, <1>5, <1>6, <1>7 DEF TypeInv

\* Every step keeps the types and what the labels say.
LEMMA TypeStep == TypeInv /\ [Next]_vars => TypeInv'
<1> SUFFICES ASSUME TypeInv, [Next]_vars PROVE TypeInv'
  OBVIOUS
<1> USE DEF pools, refs, threads, history, calls
<1>0. PoolsOK /\ RefsOK /\ ThreadsOK /\ HistoryOK /\ CallsOK /\ LabelInv
  BY DEF TypeInv
<1>a. /\ "idle" \in Labels /\ "sink_it" \in Labels /\ "enqueue" \in Labels
      /\ "release" \in Labels /\ "terminate" \in Labels /\ "join" \in Labels
      /\ "install" \in Labels
  BY DEF Labels
<1>1. ASSUME NEW t \in Threads, Call(t) PROVE TypeInv'
  <2>1. /\ pc[t] = "idle" /\ Goto(t, "sink_it") /\ sent[t] < MaxMsgs
        /\ sent' = [sent EXCEPT ![t] = @ + 1] /\ mine' = [mine EXCEPT ![t] = current]
        /\ UNCHANGED <<pools, tp, current, last, holds, posted, written, calls>>
    BY <1>1 DEF Call
  <2>2. PoolsOK' /\ CallsOK'
    BY <1>0, <2>1 DEF PoolsOK, CallsOK
  <2>3. RefsOK'
    BY <1>0, <2>1 DEF RefsOK
  <2>4. HistoryOK' /\ sent'[t] >= 1 /\ \A u \in Threads \ {t} : sent'[u] = sent[u]
    BY <1>0, <2>1, Constants DEF HistoryOK
  <2>5. /\ ThreadsOK' /\ pc'[t] = "sink_it" /\ (\A q \in Procs \ {t} : pc'[q] = pc[q])
        /\ dying' = dying /\ terms' = terms
    BY <1>0, <1>a, <2>1, Constants, GotoTyped
  <2>6. holds[t] = 0 /\ dying[t] = 0
    BY <1>0, <2>1, Constants DEF LabelInv
  <2>7. LabelInv'
    BY <1>0, <2>1, <2>4, <2>5, <2>6, Constants, LabelKept
  <2> QED
    BY <2>2, <2>3, <2>4, <2>5, <2>7 DEF TypeInv
<1>2. ASSUME NEW t \in Threads, WriteSync(t) PROVE TypeInv'
  <2>1. /\ pc[t] = "sink_it" /\ Goto(t, "idle") /\ written' = Append(written, Msg(t))
        /\ UNCHANGED <<pools, refs, sent, posted, calls>>
    BY <1>2 DEF WriteSync
  <2>2. PoolsOK' /\ CallsOK' /\ RefsOK'
    BY <1>0, <2>1 DEF PoolsOK, CallsOK, RefsOK
  <2>3. HistoryOK'
    BY <1>0, <2>1, MsgType DEF HistoryOK
  <2>5. /\ ThreadsOK' /\ pc'[t] = "idle" /\ (\A q \in Procs \ {t} : pc'[q] = pc[q])
        /\ dying' = dying /\ terms' = terms
    BY <1>0, <1>a, <2>1, Constants, GotoTyped
  <2>6. holds[t] = 0 /\ dying[t] = 0
    BY <1>0, <2>1, Constants DEF LabelInv
  <2>7. LabelInv'
    BY <1>0, <2>1, <2>5, <2>6, Constants, LabelKept
  <2> QED
    BY <2>2, <2>3, <2>5, <2>7 DEF TypeInv
<1>3. ASSUME NEW t \in Threads, Lock(t) PROVE TypeInv'
  <2>1. /\ pc[t] = "sink_it" /\ mine[t] # 0
        /\ UNCHANGED <<pools, tp, current, last, mine, history, calls>>
    BY <1>3 DEF Lock, Sync
  <2>2. PoolsOK' /\ CallsOK' /\ HistoryOK'
    BY <1>0, <2>1 DEF PoolsOK, CallsOK, HistoryOK
  <2>3. holds[t] = 0 /\ dying[t] = 0 /\ sent[t] >= 1
    BY <1>0, <2>1, Constants DEF LabelInv
  <2>4. CASE Alive(mine[t])
    <3>1. holds' = [holds EXCEPT ![t] = mine[t]] /\ Goto(t, "enqueue")
      BY <1>3, <2>4 DEF Lock
    <3>2. mine[t] \in 0..MaxPools
      BY <1>0, <2>4, Constants DEF RefsOK, Alive, Holders
    <3>3. RefsOK' /\ holds'[t] # 0 /\ \A u \in Threads \ {t} : holds'[u] = holds[u]
      BY <1>0, <2>1, <3>1, <3>2 DEF RefsOK
    <3>4. /\ ThreadsOK' /\ pc'[t] = "enqueue" /\ (\A q \in Procs \ {t} : pc'[q] = pc[q])
          /\ dying' = dying /\ terms' = terms
      BY <1>0, <1>a, <3>1, Constants, GotoTyped
    <3>5. LabelInv'
      BY <1>0, <2>1, <2>3, <3>3, <3>4, Constants, LabelKept
    <3> QED
      BY <2>2, <3>3, <3>4, <3>5 DEF TypeInv
  <2>5. CASE ~Alive(mine[t])
    <3>1. holds' = holds /\ Goto(t, "idle")
      BY <1>3, <2>5 DEF Lock
    <3>3. RefsOK'
      BY <1>0, <2>1, <3>1 DEF RefsOK
    <3>4. /\ ThreadsOK' /\ pc'[t] = "idle" /\ (\A q \in Procs \ {t} : pc'[q] = pc[q])
          /\ dying' = dying /\ terms' = terms
      BY <1>0, <1>a, <3>1, Constants, GotoTyped
    <3>5. LabelInv'
      BY <1>0, <2>1, <2>3, <3>1, <3>4, Constants, LabelKept
    <3> QED
      BY <2>2, <3>3, <3>4, <3>5 DEF TypeInv
  <2> QED
    BY <2>4, <2>5
<1>4. ASSUME NEW t \in Threads, Enqueue(t) PROVE TypeInv'
  <2>1. /\ pc[t] = "enqueue" /\ Goto(t, "release")
        /\ queue' = [queue EXCEPT ![holds[t]] = Append(@, Msg(t))]
        /\ posted' = [posted EXCEPT ![holds[t]] = Append(@, Msg(t))]
        /\ UNCHANGED <<hand, done, joined, refs, sent, written, calls>>
    BY <1>4 DEF Enqueue
  <2>2. RefsOK' /\ CallsOK'
    BY <1>0, <2>1 DEF RefsOK, CallsOK
  <2>3. holds[t] # 0 /\ dying[t] = 0 /\ sent[t] >= 1
    BY <1>0, <2>1, Constants DEF LabelInv
  <2>4. holds[t] \in Pools
    BY <1>0, <2>3 DEF RefsOK, Pools
  <2>5. Msg(t) \in Msgs
    BY <2>1, MsgType
  <2>6. PoolsOK' /\ HistoryOK'
    BY <1>0, <2>1, <2>4, <2>5 DEF PoolsOK, HistoryOK
  <2>7. /\ ThreadsOK' /\ pc'[t] = "release" /\ (\A q \in Procs \ {t} : pc'[q] = pc[q])
        /\ dying' = dying /\ terms' = terms
    BY <1>0, <1>a, <2>1, Constants, GotoTyped
  <2>8. LabelInv'
    BY <1>0, <2>1, <2>3, <2>7, Constants, LabelKept
  <2> QED
    BY <2>2, <2>6, <2>7, <2>8 DEF TypeInv
<1>5. ASSUME NEW t \in Threads, Release(t) PROVE TypeInv'
  <2>1. /\ pc[t] = "release" /\ holds' = [holds EXCEPT ![t] = 0]
        /\ Drop(t, holds[t], tp # holds[t] /\ Holders(holds[t]) = {t}, "idle")
        /\ UNCHANGED <<pools, tp, current, last, mine, history, calls>>
    BY <1>5 DEF Release
  <2>2. PoolsOK' /\ CallsOK' /\ HistoryOK'
    BY <1>0, <2>1 DEF PoolsOK, CallsOK, HistoryOK
  <2>3. RefsOK' /\ holds'[t] = 0 /\ \A u \in Threads \ {t} : holds'[u] = holds[u]
    BY <1>0, <2>1, Constants DEF RefsOK
  <2>4. dying[t] = 0
    BY <1>0, <2>1, Constants DEF LabelInv
  <2>5. /\ ThreadsOK'
        /\ \/ pc'[t] = "terminate" /\ dying'[t] # 0 /\ terms'[t] = N
           \/ pc'[t] = "idle" /\ dying'[t] = 0
        /\ \A q \in Procs \ {t} :
             pc'[q] = pc[q] /\ dying'[q] = dying[q] /\ terms'[q] = terms[q]
    <3>1. holds[t] \in 0..MaxPools
      BY <1>0 DEF RefsOK
    <3> QED
      BY <1>0, <1>a, <2>1, <2>4, <3>1, Constants, DropTyped
  <2>6. LabelInv'
    BY <1>0, <2>1, <2>3, <2>5, Constants, LabelKept
  <2> QED
    BY <2>2, <2>3, <2>5, <2>6 DEF TypeInv
<1>6. ASSUME NEW p \in Procs, PostTerminate(p) PROVE TypeInv'
  <2>1. /\ pc[p] = "terminate"
        /\ queue' = [queue EXCEPT ![dying[p]] = Append(@, Terminate)]
        /\ terms' = [terms EXCEPT ![p] = @ - 1]
        /\ pc' = [pc EXCEPT ![p] = IF terms[p] = 1 THEN "join" ELSE "terminate"]
        /\ UNCHANGED <<hand, done, joined, refs, dying, history, calls>>
    BY <1>6 DEF PostTerminate
  <2>2. RefsOK' /\ CallsOK' /\ HistoryOK'
    BY <1>0, <2>1 DEF RefsOK, CallsOK, HistoryOK
  <2>3. dying[p] # 0 /\ terms[p] >= 1
    BY <1>0, <2>1 DEF LabelInv
  <2>4. dying[p] \in Pools
    BY <1>0, <2>3 DEF ThreadsOK, Pools
  <2>5. PoolsOK'
    BY <1>0, <2>1, <2>4 DEF PoolsOK
  <2>6. /\ ThreadsOK' /\ terms'[p] = terms[p] - 1
        /\ pc'[p] = IF terms[p] = 1 THEN "join" ELSE "terminate"
        /\ \A q \in Procs \ {p} : pc'[q] = pc[q] /\ terms'[q] = terms[q]
    BY <1>0, <1>a, <2>1, <2>3, Constants DEF ThreadsOK
  <2>7. /\ pc'[p] \in {"terminate", "join"} /\ pc'[p] = "terminate" => terms'[p] >= 1
    BY <1>0, <2>3, <2>6, Constants DEF ThreadsOK
  <2>8. p \in Threads => holds[p] = 0
    BY <1>0, <2>1 DEF LabelInv
  <2>9. pc'[p] \notin {"sink_it", "enqueue", "release"}
    BY <2>6
  <2>10. LabelInv'
    BY <1>0, <2>1, <2>3, <2>6, <2>7, <2>8, <2>9, LabelKept
  <2> QED
    BY <2>2, <2>5, <2>6, <2>10 DEF TypeInv
<1>7. ASSUME NEW p \in Procs, Join(p) PROVE TypeInv'
  <2>1. /\ pc[p] = "join" /\ joined' = joined \cup {dying[p]}
        /\ dying' = [dying EXCEPT ![p] = 0]
        /\ pc' = [pc EXCEPT ![p] = AfterDestructor(p)]
        /\ UNCHANGED <<queue, hand, done, refs, terms, history, calls>>
    BY <1>7 DEF Join
  <2>2. RefsOK' /\ CallsOK' /\ HistoryOK'
    BY <1>0, <2>1 DEF RefsOK, CallsOK, HistoryOK
  <2>3. dying[p] \in Pools
    <3>1. dying[p] # 0
      BY <1>0, <2>1 DEF LabelInv
    <3> QED
      BY <1>0, <3>1 DEF ThreadsOK, Pools
  <2>4. PoolsOK'
    BY <1>0, <2>1, <2>3 DEF PoolsOK
  <2>5. AfterDestructor(p) \in {"idle", "install"}
    BY DEF AfterDestructor
  <2>6. /\ ThreadsOK' /\ dying'[p] = 0 /\ pc'[p] \in {"idle", "install"}
        /\ \A q \in Procs \ {p} : pc'[q] = pc[q] /\ dying'[q] = dying[q]
    BY <1>0, <1>a, <2>1, <2>5, Constants DEF ThreadsOK
  <2>7. p \in Threads => holds[p] = 0
    BY <1>0, <2>1 DEF LabelInv
  <2>8. pc'[p] \notin {"sink_it", "enqueue", "release", "terminate", "join"}
    BY <2>6
  <2>9. LabelInv'
    BY <1>0, <2>1, <2>6, <2>7, <2>8, LabelKept
  <2> QED
    BY <2>2, <2>4, <2>6, <2>9 DEF TypeInv
<1>8. ASSUME NEW g \in Pools, NEW w \in Workers, Dequeue(g, w) PROVE TypeInv'
  <2>1. /\ queue[g] # <<>> /\ queue' = [queue EXCEPT ![g] = Tail(@)]
        /\ \/ done' = done \cup {<<g, w>>} /\ UNCHANGED hand
           \/ /\ Head(queue[g]) # Terminate /\ UNCHANGED done
              /\ hand' = [hand EXCEPT ![g][w] = Head(queue[g])]
        /\ UNCHANGED <<joined, refs, threads, history, calls>>
    BY <1>8 DEF Dequeue
  <2>2. /\ Head(queue[g]) \in Msgs \cup {Terminate}
        /\ Tail(queue[g]) \in Seq(Msgs \cup {Terminate})
    BY <1>0, <2>1, InSeqTail DEF PoolsOK
  <2>3. queue' \in [Pools -> Seq(Msgs \cup {Terminate})]
    BY <1>0, <2>1, <2>2 DEF PoolsOK
  <2>4. done' \subseteq Pools \X Workers
    BY <1>0, <2>1 DEF PoolsOK
  <2>5. hand' \in [Pools -> [Workers -> Msgs \cup {Nothing}]]
    <3>1. CASE UNCHANGED hand
      BY <1>0, <3>1 DEF PoolsOK
    <3>2. CASE /\ Head(queue[g]) # Terminate
               /\ hand' = [hand EXCEPT ![g][w] = Head(queue[g])]
      <4> DEFINE m == Head(queue[g])
      <4>1. m \in Msgs \cup {Nothing}
        BY <2>2, <3>2
      <4>2. hand' = [hand EXCEPT ![g][w] = m]
        BY <3>2
      <4> HIDE DEF m
      <4> QED
        BY <1>0, <4>1, <4>2 DEF PoolsOK
    <3> QED
      BY <2>1, <3>1, <3>2
  <2>6. PoolsOK'
    BY <1>0, <2>1, <2>3, <2>4, <2>5 DEF PoolsOK
  <2>7. RefsOK' /\ ThreadsOK' /\ HistoryOK' /\ CallsOK' /\ LabelInv'
    BY <1>0, <2>1 DEF RefsOK, ThreadsOK, HistoryOK, CallsOK, LabelInv
  <2> QED
    BY <2>6, <2>7 DEF TypeInv
<1>9. ASSUME NEW g \in Pools, NEW w \in Workers, WriteAsync(g, w) PROVE TypeInv'
  <2>1. /\ hand[g][w] # Nothing /\ written' = Append(written, hand[g][w])
        /\ hand' = [hand EXCEPT ![g][w] = Nothing]
        /\ UNCHANGED <<queue, done, joined, refs, threads, sent, posted, calls>>
    BY <1>9 DEF WriteAsync
  <2>2. hand' \in [Pools -> [Workers -> Msgs \cup {Nothing}]]
    BY <1>0, <2>1 DEF PoolsOK
  <2>3. hand[g][w] \in Msgs
    BY <1>0, <2>1 DEF PoolsOK
  <2>4. PoolsOK' /\ HistoryOK'
    BY <1>0, <2>1, <2>2, <2>3 DEF PoolsOK, HistoryOK
  <2>5. RefsOK' /\ ThreadsOK' /\ CallsOK' /\ LabelInv'
    BY <1>0, <2>1 DEF RefsOK, ThreadsOK, CallsOK, LabelInv
  <2> QED
    BY <2>4, <2>5 DEF TypeInv
<1>10. ASSUME pc[Main] = "idle", UNCHANGED <<pools, mine, holds, history>>,
              tp' \in 0..MaxPools, current' \in -1..MaxPools, last' \in Pools, CallsOK',
              NEW isLast, NEW l \in {"idle", "install"}, Drop(Main, tp, isLast, l)
       PROVE  TypeInv'
  <2>1. PoolsOK' /\ HistoryOK' /\ RefsOK'
    BY <1>0, <1>10 DEF PoolsOK, HistoryOK, RefsOK
  <2>2. dying[Main] = 0
    BY <1>0, <1>10, Constants DEF LabelInv
  <2>3. tp \in 0..MaxPools /\ l \in Labels
    BY <1>0, <1>a, <1>10 DEF RefsOK
  <2>4. /\ ThreadsOK'
        /\ \/ pc'[Main] = "terminate" /\ dying'[Main] # 0 /\ terms'[Main] = N
           \/ pc'[Main] = l /\ dying'[Main] = 0
        /\ \A q \in Procs \ {Main} :
             pc'[q] = pc[q] /\ dying'[q] = dying[q] /\ terms'[q] = terms[q]
    BY <1>0, <1>10, <2>2, <2>3, Constants, DropTyped
  <2>5. l \notin {"sink_it", "enqueue", "release", "terminate", "join"}
    BY <1>10
  <2>6. LabelInv'
    BY <1>0, <1>10, <2>4, <2>5, Constants, LabelKept
  <2> QED
    BY <1>10, <2>1, <2>4, <2>6 DEF TypeInv
<1>11. CASE Shutdown
  <2>1. Waiting \subseteq Msgs
    <3>1. \A g \in Pools : InSeq(posted[g]) \subseteq Msgs
      BY <1>0, InSeqType DEF HistoryOK
    <3> QED
      BY <3>1 DEF Waiting
  <2>2. quiet' \in BOOLEAN
    BY <1>11 DEF Shutdown
  <2>3. CallsOK'
    BY <1>0, <1>11, <2>1, <2>2 DEF Shutdown, CallsOK
  <2>4. tp' \in 0..MaxPools /\ current' \in -1..MaxPools /\ last' \in Pools
    BY <1>0, <1>11, Constants DEF Shutdown, RefsOK
  <2> QED
    BY <1>10, <1>11, <2>3, <2>4 DEF Shutdown
<1>12. CASE ReloadAsync
  <2>1. CallsOK'
    BY <1>0, <1>12 DEF ReloadAsync, CallsOK
  <2>2. tp' \in 0..MaxPools /\ current' \in -1..MaxPools /\ last' \in Pools
    BY <1>0, <1>12, Constants DEF ReloadAsync, RefsOK, Pools, Null
  <2> QED
    BY <1>10, <1>12, <2>1, <2>2 DEF ReloadAsync
<1>13. CASE Install
  <2>1. /\ pc[Main] = "install" /\ current' = tp /\ Goto(Main, "idle")
        /\ UNCHANGED <<pools, tp, last, mine, holds, history, calls>>
    BY <1>13 DEF Install
  <2>2. PoolsOK' /\ CallsOK' /\ HistoryOK' /\ RefsOK'
    BY <1>0, <2>1, Constants DEF PoolsOK, CallsOK, HistoryOK, RefsOK
  <2>5. /\ ThreadsOK' /\ pc'[Main] = "idle" /\ (\A q \in Procs \ {Main} : pc'[q] = pc[q])
        /\ dying' = dying /\ terms' = terms
    BY <1>0, <1>a, <2>1, Constants, GotoTyped
  <2>6. dying[Main] = 0
    BY <1>0, <2>1, Constants DEF LabelInv
  <2>7. LabelInv'
    BY <1>0, <2>1, <2>5, <2>6, Constants, LabelKept
  <2> QED
    BY <2>2, <2>5, <2>7 DEF TypeInv
<1>14. CASE ReloadSync
  <2>1. PoolsOK' /\ ThreadsOK' /\ HistoryOK' /\ CallsOK' /\ LabelInv'
    BY <1>0, <1>14 DEF ReloadSync, PoolsOK, ThreadsOK, HistoryOK, CallsOK, LabelInv
  <2>2. RefsOK'
    BY <1>0, <1>14, Constants DEF ReloadSync, Sync, RefsOK
  <2> QED
    BY <2>1, <2>2 DEF TypeInv
<1>15. CASE UNCHANGED vars
  BY <1>0, <1>15
     DEF vars, TypeInv, PoolsOK, RefsOK, ThreadsOK, HistoryOK, CallsOK, LabelInv
<1> QED
  BY <1>1, <1>2, <1>3, <1>4, <1>5, <1>6, <1>7, <1>8, <1>9, <1>11, <1>12, <1>13, <1>14, <1>15
     DEF Next, Proceed, Destroy, Work

\* They hold in every reachable state.
LEMMA TypeAlways == Spec => []TypeInv
BY TypeInit, TypeStep, PTL DEF Spec

\* Every variable keeps its type.
THEOREM TypeCorrect == Spec => []TypeOK
<1>1. TypeInv => TypeOK
  BY TypeSplit DEF TypeInv
<1> QED
  BY <1>1, TypeAlways, PTL

-----------------------------------------------------------------------------
\* The pool has existed and no strong pointer to it is left.
Dead(g) == g <= last /\ tp # g /\ \A t \in Threads : holds[t] # g

\* It is so in the next state.
DeadNext(g) == g <= last' /\ tp' # g /\ \A t \in Threads : holds'[t] # g

\* The life of a pool: strong pointers are to pools that have been created; a pool
\* is destroyed by one thread, once, and only when it is dead; and a dead pool is
\* being destroyed or has been.
LifeInv ==
    /\ tp <= last /\ \A t \in Threads : holds[t] <= last
    /\ \A p \in Procs : dying[p] # 0 => Dead(dying[p]) /\ dying[p] \notin joined
    /\ \A p, q \in Procs : dying[p] # 0 /\ dying[q] = dying[p] => q = p
    /\ \A g \in joined : Dead(g)
    /\ \A g \in Pools : Dead(g) => g \in joined \/ \E p \in Procs : dying[p] = g

\* At first there is one pool, and the registry points to it.
LEMMA LifeInit == Init => LifeInv
<1> SUFFICES ASSUME Init PROVE LifeInv
  OBVIOUS
<1>1. /\ tp = 1 /\ last = 1 /\ joined = {} /\ (\A t \in Threads : holds[t] = 0)
      /\ \A p \in Procs : dying[p] = 0
  BY DEF Init
<1> QED
  BY <1>1 DEF LifeInv, Dead, Pools

\* The ways a step changes the strong pointers and the destructors.
LEMMA LifeCases ==
    ASSUME TypeInv, [Next]_vars
    PROVE  \/ UNCHANGED <<tp, last, holds, dying, joined>>
           \/ \E t \in Threads :
                /\ holds[t] = 0 /\ mine[t] \in Pools /\ Alive(mine[t])
                /\ holds' = [holds EXCEPT ![t] = mine[t]]
                /\ UNCHANGED <<tp, last, dying, joined>>
           \/ \E t \in Threads :
                /\ holds[t] \in Pools /\ dying[t] = 0
                /\ holds' = [holds EXCEPT ![t] = 0]
                /\ \/ tp # holds[t] /\ Holders(holds[t]) = {t} /\ dying'[t] = holds[t]
                   \/ ~(tp # holds[t] /\ Holders(holds[t]) = {t}) /\ dying'[t] = 0
                /\ \A q \in Procs \ {t} : dying'[q] = dying[q]
                /\ UNCHANGED <<tp, last, joined>>
           \/ \E p \in Procs :
                /\ dying[p] \in Pools
                /\ joined' = joined \cup {dying[p]} /\ dying'[p] = 0
                /\ \A q \in Procs \ {p} : dying'[q] = dying[q]
                /\ UNCHANGED <<tp, last, holds>>
           \/ /\ \/ tp' = 0 /\ last' = last
                 \/ tp' = last + 1 /\ last' = last + 1
              /\ dying[Main] = 0
              /\ \/ tp # 0 /\ Holders(tp) = {} /\ dying'[Main] = tp
                 \/ ~(tp # 0 /\ Holders(tp) = {}) /\ dying'[Main] = 0
              /\ \A q \in Procs \ {Main} : dying'[q] = dying[q]
              /\ UNCHANGED <<holds, joined>>
<1> USE DEF pools, refs, threads, history, calls
<1>0. ThreadsOK /\ LabelInv /\ RefsOK
  BY DEF TypeInv
<1>1. ASSUME NEW t \in Threads, Call(t) \/ WriteSync(t) \/ Enqueue(t)
      PROVE  UNCHANGED <<tp, last, holds, dying, joined>>
  BY <1>1 DEF Call, WriteSync, Enqueue, Goto
<1>2. ASSUME NEW t \in Threads, Lock(t)
      PROVE  \/ UNCHANGED <<tp, last, holds, dying, joined>>
             \/ /\ holds[t] = 0 /\ mine[t] \in Pools /\ Alive(mine[t])
                /\ holds' = [holds EXCEPT ![t] = mine[t]]
                /\ UNCHANGED <<tp, last, dying, joined>>
  <2>1. CASE Alive(mine[t])
    <3>1. mine[t] \in Pools
      BY <1>0, <1>2, <2>1, Constants DEF Lock, Sync, RefsOK, Alive, Holders, Pools
    <3>2. holds[t] = 0
      BY <1>0, <1>2 DEF Lock, LabelInv
    <3> QED
      BY <1>2, <2>1, <3>1, <3>2 DEF Lock, Goto
  <2>2. CASE ~Alive(mine[t])
    BY <1>2, <2>2 DEF Lock, Goto
  <2> QED
    BY <2>1, <2>2
<1>3. ASSUME NEW t \in Threads, Release(t)
      PROVE  /\ holds[t] \in Pools /\ dying[t] = 0
             /\ holds' = [holds EXCEPT ![t] = 0]
             /\ \/ tp # holds[t] /\ Holders(holds[t]) = {t} /\ dying'[t] = holds[t]
                \/ ~(tp # holds[t] /\ Holders(holds[t]) = {t}) /\ dying'[t] = 0
             /\ \A q \in Procs \ {t} : dying'[q] = dying[q]
             /\ UNCHANGED <<tp, last, joined>>
  <2>1. /\ pc[t] = "release" /\ holds' = [holds EXCEPT ![t] = 0]
        /\ Drop(t, holds[t], tp # holds[t] /\ Holders(holds[t]) = {t}, "idle")
        /\ UNCHANGED <<pools, tp, current, last, mine, history, calls>>
    BY <1>3 DEF Release
  <2>2. holds[t] # 0 /\ dying[t] = 0
    BY <1>0, <2>1, Constants DEF LabelInv
  <2>3. holds[t] \in 0..MaxPools /\ holds[t] \in Pools /\ "idle" \in Labels
    BY <1>0, <2>2 DEF RefsOK, Pools, Labels
  <2> QED
    BY <1>0, <2>1, <2>2, <2>3, Constants, DropTyped
<1>4. ASSUME NEW p \in Procs, PostTerminate(p)
      PROVE  UNCHANGED <<tp, last, holds, dying, joined>>
  BY <1>4 DEF PostTerminate
<1>5. ASSUME NEW p \in Procs, Join(p)
      PROVE  /\ dying[p] \in Pools
             /\ joined' = joined \cup {dying[p]} /\ dying'[p] = 0
             /\ \A q \in Procs \ {p} : dying'[q] = dying[q]
             /\ UNCHANGED <<tp, last, holds>>
  <2>1. dying[p] # 0
    BY <1>0, <1>5 DEF Join, LabelInv
  <2> QED
    BY <1>0, <1>5, <2>1 DEF Join, ThreadsOK, Pools
<1>6. ASSUME NEW g \in Pools, NEW w \in Workers, Work(g, w)
      PROVE  UNCHANGED <<tp, last, holds, dying, joined>>
  BY <1>6 DEF Work, Dequeue, WriteAsync
<1>7. ASSUME pc[Main] = "idle", NEW l \in {"idle", "install"},
             Drop(Main, tp, Holders(tp) = {}, l)
      PROVE  /\ dying[Main] = 0
             /\ \/ tp # 0 /\ Holders(tp) = {} /\ dying'[Main] = tp
                \/ ~(tp # 0 /\ Holders(tp) = {}) /\ dying'[Main] = 0
             /\ \A q \in Procs \ {Main} : dying'[q] = dying[q]
  <2>1. dying[Main] = 0
    BY <1>0, <1>7, Constants DEF LabelInv
  <2>2. tp \in 0..MaxPools /\ l \in Labels
    BY <1>0, <1>7 DEF RefsOK, Labels
  <2> QED
    BY <1>0, <1>7, <2>1, <2>2, Constants, DropTyped
<1>8. CASE Shutdown
  BY <1>7, <1>8 DEF Shutdown
<1>9. CASE ReloadAsync
  BY <1>7, <1>9 DEF ReloadAsync
<1>10. CASE Install \/ ReloadSync \/ UNCHANGED vars
  BY <1>10 DEF Install, ReloadSync, Goto, vars
<1> QED
  BY <1>1, <1>2, <1>3, <1>4, <1>5, <1>6, <1>8, <1>9, <1>10 DEF Next, Proceed, Destroy

\* A step keeps the life of every pool in order, and a dead pool stays dead.
LEMMA LifeStep ==
    ASSUME TypeInv, LifeInv, [Next]_vars
    PROVE  LifeInv' /\ \A g \in Pools : Dead(g) => Dead(g)'
<1>0. /\ tp \in 0..MaxPools /\ last \in Pools /\ holds \in [Threads -> 0..MaxPools]
      /\ dying \in [Procs -> 0..MaxPools] /\ joined \subseteq Pools
  BY DEF TypeInv, RefsOK, ThreadsOK, PoolsOK
<1>1. CASE UNCHANGED <<tp, last, holds, dying, joined>>
  BY <1>1 DEF LifeInv, Dead
<1>2. ASSUME NEW t \in Threads, holds[t] = 0, mine[t] \in Pools, Alive(mine[t]),
             holds' = [holds EXCEPT ![t] = mine[t]], UNCHANGED <<tp, last, dying, joined>>
      PROVE  LifeInv' /\ \A g \in Pools : Dead(g) => Dead(g)'
  <2>1. holds'[t] = mine[t] /\ \A u \in Threads \ {t} : holds'[u] = holds[u]
    BY <1>0, <1>2
  <2>2. mine[t] <= last
    BY <1>2 DEF Alive, Holders, LifeInv
  <2>3. \A g \in Pools : Dead(g) <=> Dead(g)'
    BY <1>0, <1>2, <2>1 DEF Alive, Holders, Dead, Pools
  <2>4. \A p \in Procs : dying[p] # 0 => dying[p] \in Pools
    BY <1>0 DEF Pools
  <2> QED
    BY <1>0, <1>2, <2>1, <2>2, <2>3, <2>4 DEF LifeInv
<1>3. ASSUME NEW t \in Threads, holds[t] \in Pools, dying[t] = 0,
             holds' = [holds EXCEPT ![t] = 0],
             \/ tp # holds[t] /\ Holders(holds[t]) = {t} /\ dying'[t] = holds[t]
             \/ ~(tp # holds[t] /\ Holders(holds[t]) = {t}) /\ dying'[t] = 0,
             \A q \in Procs \ {t} : dying'[q] = dying[q],
             UNCHANGED <<tp, last, joined>>
      PROVE  LifeInv' /\ \A g \in Pools : Dead(g) => Dead(g)'
  <2> DEFINE h == holds[t]
  <2>1. holds'[t] = 0 /\ \A u \in Threads \ {t} : holds'[u] = holds[u]
    BY <1>0, <1>3
  <2>2. h \in Pools /\ h # 0 /\ h <= last /\ ~Dead(h)
    BY <1>3 DEF Pools, LifeInv, Dead
  <2>3. \A g \in Pools \ {h} : DeadNext(g) <=> Dead(g)
    BY <1>0, <1>3, <2>1 DEF Dead, DeadNext, Pools
  <2>4. DeadNext(h) <=> (tp # h /\ Holders(h) = {t})
    BY <1>0, <1>3, <2>1, <2>2 DEF Dead, DeadNext, Holders
  <2>5. h \notin joined /\ \A p \in Procs : dying[p] # h
    BY <2>2 DEF LifeInv
  <2>6. \A p \in Procs : dying[p] # 0 => dying[p] \in Pools \ {h}
    BY <1>0, <2>5 DEF Pools
  <2>7. \/ DeadNext(h) /\ dying'[t] = h
        \/ ~DeadNext(h) /\ dying'[t] = 0
    BY <1>3, <2>4
  <2> HIDE DEF h
  <2>8. tp' <= last' /\ \A u \in Threads : holds'[u] <= last'
    BY <1>0, <1>3, <2>1 DEF LifeInv, Pools
  <2>9. \A p \in Procs : dying'[p] # 0 => DeadNext(dying'[p]) /\ dying'[p] \notin joined'
    BY <1>3, <2>3, <2>5, <2>6, <2>7 DEF LifeInv
  <2>10. \A p, q \in Procs : dying'[p] # 0 /\ dying'[q] = dying'[p] => q = p
    BY <1>3, <2>5, <2>7 DEF LifeInv
  <2>11. \A g \in joined' : DeadNext(g)
    BY <1>0, <1>3, <2>3, <2>5 DEF LifeInv
  <2>12. \A g \in Pools : DeadNext(g) => g \in joined' \/ \E p \in Procs : dying'[p] = g
    <3>1. ASSUME NEW g \in Pools \ {h}, Dead(g), g \notin joined
          PROVE  \E p \in Procs : dying'[p] = g
      <4>1. PICK p \in Procs : dying[p] = g
        BY <3>1 DEF LifeInv
      <4>2. p # t
        BY <1>3, <4>1 DEF Pools
      <4> QED
        BY <1>3, <4>1, <4>2
    <3> QED
      BY <1>3, <2>3, <2>7, <3>1, Constants
  <2>13. \A g \in Pools : Dead(g) => DeadNext(g)
    BY <2>2, <2>3
  <2> QED
    BY <2>8, <2>9, <2>10, <2>11, <2>12, <2>13 DEF LifeInv, Dead, DeadNext
<1>4. ASSUME NEW p \in Procs, dying[p] \in Pools, joined' = joined \cup {dying[p]},
             dying'[p] = 0, \A q \in Procs \ {p} : dying'[q] = dying[q],
             UNCHANGED <<tp, last, holds>>
      PROVE  LifeInv' /\ \A g \in Pools : Dead(g) => Dead(g)'
  <2>1. \A g : DeadNext(g) <=> Dead(g)
    BY <1>4 DEF Dead, DeadNext
  <2>2. dying[p] # 0
    BY <1>4 DEF Pools
  <2>3. \A q \in Procs : dying'[q] # 0 => DeadNext(dying'[q]) /\ dying'[q] \notin joined'
    BY <1>4, <2>1, <2>2 DEF LifeInv
  <2>4. \A q, r \in Procs : dying'[q] # 0 /\ dying'[r] = dying'[q] => r = q
    BY <1>4 DEF LifeInv
  <2>5. \A g \in joined' : DeadNext(g)
    BY <1>4, <2>1, <2>2 DEF LifeInv
  <2>6. \A g \in Pools : DeadNext(g) => g \in joined' \/ \E q \in Procs : dying'[q] = g
    BY <1>4, <2>1 DEF LifeInv
  <2>7. tp' <= last' /\ \A t \in Threads : holds'[t] <= last'
    BY <1>4 DEF LifeInv
  <2> QED
    BY <2>1, <2>3, <2>4, <2>5, <2>6, <2>7 DEF LifeInv, Dead, DeadNext
<1>5. ASSUME \/ tp' = 0 /\ last' = last
             \/ tp' = last + 1 /\ last' = last + 1,
             dying[Main] = 0,
             \/ tp # 0 /\ Holders(tp) = {} /\ dying'[Main] = tp
             \/ ~(tp # 0 /\ Holders(tp) = {}) /\ dying'[Main] = 0,
             \A q \in Procs \ {Main} : dying'[q] = dying[q],
             UNCHANGED <<holds, joined>>
      PROVE  LifeInv' /\ \A g \in Pools : Dead(g) => Dead(g)'
  <2>1. \A g \in Pools \ {tp} : DeadNext(g) <=> Dead(g)
    BY <1>0, <1>5 DEF Dead, DeadNext, Pools, LifeInv
  <2>2. tp # 0 => tp \in Pools /\ ~Dead(tp) /\ (DeadNext(tp) <=> Holders(tp) = {})
    BY <1>0, <1>5 DEF Dead, DeadNext, Pools, Holders, LifeInv
  <2>3. tp \notin joined /\ \A p \in Procs : dying[p] # 0 => dying[p] # tp /\ dying[p] \in Pools
    BY <1>0, <2>2 DEF LifeInv, Dead, Pools
  <2>4. tp' <= last' /\ \A t \in Threads : holds'[t] <= last'
    BY <1>0, <1>5 DEF LifeInv, Pools
  <2>5. \/ tp # 0 /\ DeadNext(tp) /\ dying'[Main] = tp
        \/ ~(tp # 0 /\ DeadNext(tp)) /\ dying'[Main] = 0
    BY <1>5, <2>2
  <2>6. \A p \in Procs : dying'[p] # 0 => DeadNext(dying'[p]) /\ dying'[p] \notin joined'
    BY <1>5, <2>1, <2>3, <2>5 DEF LifeInv
  <2>7. \A p, q \in Procs : dying'[p] # 0 /\ dying'[q] = dying'[p] => q = p
    BY <1>5, <2>3, <2>5 DEF LifeInv
  <2>8. \A g \in joined' : DeadNext(g)
    BY <1>0, <1>5, <2>1, <2>3 DEF LifeInv
  <2>9. \A g \in Pools : DeadNext(g) => g \in joined' \/ \E p \in Procs : dying'[p] = g
    <3>1. ASSUME NEW g \in Pools \ {tp}, Dead(g), g \notin joined
          PROVE  \E p \in Procs : dying'[p] = g
      <4>1. PICK p \in Procs : dying[p] = g
        BY <3>1 DEF LifeInv
      <4>2. p # Main
        BY <1>5, <4>1 DEF Pools
      <4> QED
        BY <1>5, <4>1, <4>2
    <3>2. 0 \notin Pools
      BY DEF Pools
    <3> QED
      BY <1>5, <2>1, <2>5, <3>1, <3>2, Constants
  <2>10. \A g \in Pools : Dead(g) => DeadNext(g)
    BY <2>1, <2>2 DEF Pools
  <2> QED
    BY <2>4, <2>6, <2>7, <2>8, <2>9, <2>10 DEF LifeInv, Dead, DeadNext
<1> QED
  BY <1>1, <1>2, <1>3, <1>4, <1>5, LifeCases

\* LifeInv holds in every reachable state.
LEMMA LifeAlways == Spec => []LifeInv
<1>1. TypeInv /\ LifeInv /\ [Next]_vars => LifeInv'
  BY LifeStep
<1> QED
  BY <1>1, LifeInit, TypeAlways, PTL DEF Spec

\* The destructor of a pool is run by one thread, once.
THEOREM DestroyedAlwaysOnce == Spec => []DestroyedOnce
<1>1. LifeInv => DestroyedOnce
  BY DEF LifeInv, DestroyedOnce
<1> QED
  BY <1>1, LifeAlways, PTL

-----------------------------------------------------------------------------
\* Nothing follows a terminate message in a queue but terminate messages.
TermsLast(g) ==
    \A i, j \in 1..Len(queue[g]) :
        i < j /\ queue[g][i] = Terminate => queue[g][j] = Terminate

\* A worker that has ended has left nothing behind, neither in its hand nor in the
\* queue.
EndedIn(g, w) ==
    Dead(g) /\ hand[g][w] = Nothing /\ InSeq(queue[g]) \subseteq {Terminate}

\* A message is somewhere: written, in a hand, or in the queue.
Accounted(g, x) ==
    x \in InSeq(written) \/ x \in InSeq(queue[g]) \/ \E w \in Workers : hand[g][w] = x

\* How a queue is drained: only a dead pool is sent terminate messages, so no
\* message can come after one, and the first worker that takes one takes it after
\* the last message.
DrainInv ==
    /\ \A g \in Pools : TermsLast(g)
    /\ \A g \in Pools : Terminate \in InSeq(queue[g]) => Dead(g)
    /\ \A g \in Pools, w \in Workers : <<g, w>> \in done => EndedIn(g, w)
    /\ \A g \in Pools : \A x \in InSeq(posted[g]) : Accounted(g, x)
    /\ \A g \in Pools : g > last => InSeq(posted[g]) = {}
    /\ \A g \in joined : InSeq(posted[g]) \subseteq InSeq(written)

\* At first every queue is empty and no worker has ended.
LEMMA DrainInit == Init => DrainInv
<1> SUFFICES ASSUME Init PROVE DrainInv
  OBVIOUS
<1>1. /\ done = {} /\ joined = {}
      /\ \A g \in Pools : queue[g] = <<>> /\ posted[g] = <<>>
  BY DEF Init
<1>2. \A g \in Pools : TermsLast(g)
  BY <1>1 DEF TermsLast
<1> QED
  BY <1>1, <1>2, InSeqEmpty DEF DrainInv

\* Taking the head of a queue keeps the terminate messages last; behind one that is
\* taken there are only others.
LEMMA TermsLastTail ==
    ASSUME TypeInv, NEW g \in Pools, TermsLast(g), queue[g] # <<>>,
           queue'[g] = Tail(queue[g])
    PROVE  /\ TermsLast(g)'
           /\ Head(queue[g]) = Terminate => InSeq(queue'[g]) \subseteq {Terminate}
<1> DEFINE s == queue[g]
<1>0. s \in Seq(Msgs \cup {Terminate})
  BY DEF TypeInv, PoolsOK
<1>1. Head(s) = s[1] /\ Len(s) \in Nat /\ Len(s) >= 1
  BY <1>0
<1>2. /\ Len(queue'[g]) = Len(s) - 1
      /\ \A i \in 1..(Len(s) - 1) : queue'[g][i] = s[i + 1]
  BY <1>0
<1>3. \A i, j \in 1..Len(s) : i < j /\ s[i] = Terminate => s[j] = Terminate
  BY DEF TermsLast
<1> HIDE DEF s
<1>4. \A i, j \in 1..Len(queue'[g]) :
        i < j /\ queue'[g][i] = Terminate => queue'[g][j] = Terminate
  <2> SUFFICES ASSUME NEW i \in 1..Len(queue'[g]), NEW j \in 1..Len(queue'[g]),
                      i < j, queue'[g][i] = Terminate
               PROVE  queue'[g][j] = Terminate
    OBVIOUS
  <2>1. /\ i + 1 \in 1..Len(s) /\ j + 1 \in 1..Len(s) /\ i + 1 < j + 1
        /\ s[i + 1] = Terminate
    BY <1>1, <1>2
  <2>2. s[j + 1] = Terminate
    BY <1>3, <2>1
  <2> QED
    BY <1>1, <1>2, <2>2
<1>5. ASSUME Head(s) = Terminate, NEW i \in 1..Len(queue'[g])
      PROVE  queue'[g][i] = Terminate
  <2>1. 1 \in 1..Len(s) /\ i + 1 \in 1..Len(s) /\ 1 < i + 1 /\ s[1] = Terminate
    BY <1>1, <1>2, <1>5
  <2>2. s[i + 1] = Terminate
    BY <1>3, <2>1
  <2> QED
    BY <1>1, <1>2, <2>2
<1> QED
  BY <1>4, <1>5 DEF TermsLast, InSeq, s

\* Every step keeps DrainInv: only a dead pool is sent terminate messages, and
\* nobody can post to it.
LEMMA DrainStep ==
    ASSUME TypeInv, LifeInv, DrainInv, [Next]_vars
    PROVE  DrainInv'
<1> USE DEF pools, refs, threads, history, calls
<1>0. /\ queue \in [Pools -> Seq(Msgs \cup {Terminate})]
      /\ hand \in [Pools -> [Workers -> Msgs \cup {Nothing}]]
      /\ done \subseteq Pools \X Workers /\ joined \subseteq Pools
      /\ posted \in [Pools -> Seq(Msgs)] /\ written \in Seq(Msgs)
      /\ last \in Pools /\ LabelInv /\ ThreadsOK /\ RefsOK
  BY DEF TypeInv, PoolsOK, HistoryOK, RefsOK
<1>1. \A g \in Pools : Dead(g) => Dead(g)'
  BY LifeStep
<1>2. ASSUME UNCHANGED <<queue, hand, done, joined, posted, written>>, last' = last \/ last' = last + 1
      PROVE  DrainInv'
  <2>1. \A g \in Pools : TermsLast(g)'
    BY <1>2 DEF DrainInv, TermsLast
  <2>2. \A g \in Pools, w \in Workers : <<g, w>> \in done' => EndedIn(g, w)'
    BY <1>1, <1>2 DEF DrainInv, EndedIn
  <2>3. \A g \in Pools : \A x \in InSeq(posted'[g]) : Accounted(g, x)'
    BY <1>2 DEF DrainInv, Accounted
  <2>4. \A g \in Pools : g > last' => InSeq(posted'[g]) = {}
    BY <1>0, <1>2 DEF DrainInv, Pools
  <2>5. \A g \in Pools : Terminate \in InSeq(queue'[g]) => Dead(g)'
    BY <1>1, <1>2 DEF DrainInv
  <2>6. \A g \in joined' : InSeq(posted'[g]) \subseteq InSeq(written')
    BY <1>2 DEF DrainInv
  <2> QED
    BY <2>1, <2>2, <2>3, <2>4, <2>5, <2>6 DEF DrainInv
<1>3. ASSUME NEW t \in Threads, Call(t) \/ Lock(t) \/ Release(t) PROVE DrainInv'
  BY <1>2, <1>3 DEF Call, Lock, Release
<1>4. ASSUME NEW m \in Msgs, written' = Append(written, m),
             UNCHANGED <<queue, done, joined, posted, last>>,
             \A g \in Pools, w \in Workers :
               hand'[g][w] = hand[g][w] \/ (hand[g][w] = m /\ hand'[g][w] = Nothing)
      PROVE  DrainInv'
  <2>1. InSeq(written') = InSeq(written) \cup {m}
    BY <1>0, <1>4, InSeqAppend
  <2>2. \A g \in Pools : TermsLast(g)'
    BY <1>4 DEF DrainInv, TermsLast
  <2>3. \A g \in Pools, w \in Workers : <<g, w>> \in done' => EndedIn(g, w)'
    BY <1>1, <1>4 DEF DrainInv, EndedIn
  <2>4. \A g \in Pools : \A x \in InSeq(posted'[g]) : Accounted(g, x)'
    <3> SUFFICES ASSUME NEW g \in Pools, NEW x \in InSeq(posted[g]) PROVE Accounted(g, x)'
      BY <1>4
    <3>1. CASE x \in InSeq(written) \/ x = m
      BY <2>1, <3>1 DEF Accounted
    <3>2. CASE x \in InSeq(queue[g])
      BY <1>4, <3>2 DEF Accounted
    <3>3. CASE \E w \in Workers : hand[g][w] = x /\ x # m
      BY <1>4, <3>3 DEF Accounted
    <3> QED
      BY <3>1, <3>2, <3>3 DEF DrainInv, Accounted
  <2>5. \A g \in Pools : g > last' => InSeq(posted'[g]) = {}
    BY <1>4 DEF DrainInv
  <2>6. \A g \in Pools : Terminate \in InSeq(queue'[g]) => Dead(g)'
    BY <1>1, <1>4 DEF DrainInv
  <2>7. \A g \in joined' : InSeq(posted'[g]) \subseteq InSeq(written')
    BY <1>4, <2>1 DEF DrainInv
  <2> QED
    BY <2>2, <2>3, <2>4, <2>5, <2>6, <2>7 DEF DrainInv
<1>5. ASSUME NEW t \in Threads, WriteSync(t) PROVE DrainInv'
  <2>1. Msg(t) \in Msgs
    BY <1>5, MsgType DEF WriteSync
  <2>2. /\ written' = Append(written, Msg(t))
        /\ UNCHANGED <<queue, hand, done, joined, posted, last>>
    BY <1>5 DEF WriteSync
  <2> QED
    BY <1>4, <2>1, <2>2
<1>6. ASSUME NEW g \in Pools, NEW w \in Workers, WriteAsync(g, w) PROVE DrainInv'
  <2>1. /\ hand[g][w] # Nothing /\ written' = Append(written, hand[g][w])
        /\ hand' = [hand EXCEPT ![g][w] = Nothing]
        /\ UNCHANGED <<queue, done, joined, posted, last>>
    BY <1>6 DEF WriteAsync
  <2>2. hand[g][w] \in Msgs
    BY <1>0, <2>1
  <2>3. \A h \in Pools, v \in Workers :
          hand'[h][v] = hand[h][v] \/ (h = g /\ v = w /\ hand'[h][v] = Nothing)
    BY <1>0, <2>1
  <2> QED
    BY <1>4, <2>1, <2>2, <2>3
<1>7. ASSUME NEW g \in Pools, NEW e \in Msgs \cup {Terminate},
             queue' = [queue EXCEPT ![g] = Append(@, e)],
             UNCHANGED <<hand, done, joined, written, last>>,
             \/ /\ e \in Msgs /\ ~Dead(g) /\ g <= last
                /\ posted' = [posted EXCEPT ![g] = Append(@, e)]
             \/ e = Terminate /\ Dead(g) /\ posted' = posted
      PROVE  DrainInv'
  <2>1. /\ \A h \in Pools \ {g} : queue'[h] = queue[h] /\ posted'[h] = posted[h]
        /\ queue'[g] = Append(queue[g], e)
    BY <1>0, <1>7
  <2>2. InSeq(queue'[g]) = InSeq(queue[g]) \cup {e}
    BY <1>0, <2>1, InSeqAppend
  <2>3. \A h \in Pools : TermsLast(h)'
    <3>1. ASSUME NEW h \in Pools \ {g} PROVE TermsLast(h)'
      BY <2>1, <3>1 DEF DrainInv, TermsLast
    <3>2. TermsLast(g)'
      <4> SUFFICES ASSUME NEW i \in 1..Len(queue'[g]), NEW j \in 1..Len(queue'[g]),
                          i < j, queue'[g][i] = Terminate
                   PROVE  queue'[g][j] = Terminate
        BY DEF TermsLast
      <4>0. /\ queue[g] \in Seq(Msgs \cup {Terminate}) /\ Len(queue[g]) \in Nat
            /\ Len(queue'[g]) = Len(queue[g]) + 1
            /\ queue'[g][Len(queue[g]) + 1] = e
            /\ \A k \in 1..Len(queue[g]) : queue'[g][k] = queue[g][k]
        BY <1>0, <2>1
      <4>1. i \in 1..Len(queue[g]) /\ queue[g][i] = Terminate
        BY <4>0
      <4>2. Terminate \in InSeq(queue[g])
        BY <4>1 DEF InSeq
      <4>3. e = Terminate
        BY <1>7, <4>2 DEF DrainInv
      <4>4. CASE j = Len(queue[g]) + 1
        BY <4>0, <4>3, <4>4
      <4>5. CASE j # Len(queue[g]) + 1
        <5>1. j \in 1..Len(queue[g])
          BY <4>0, <4>5
        <5> QED
          BY <4>0, <4>1, <5>1 DEF DrainInv, TermsLast
      <4> QED
        BY <4>4, <4>5
    <3> QED
      BY <3>1, <3>2
  <2>4. \A h \in Pools : Terminate \in InSeq(queue'[h]) => Dead(h)'
    BY <1>1, <1>7, <2>1, <2>2, Distinct DEF DrainInv
  <2>5. \A h \in Pools, w \in Workers : <<h, w>> \in done' => EndedIn(h, w)'
    <3> SUFFICES ASSUME NEW h \in Pools, NEW w \in Workers, <<h, w>> \in done
                 PROVE  EndedIn(h, w)'
      BY <1>7
    <3>1. EndedIn(h, w)
      BY DEF DrainInv
    <3>2. CASE h # g
      BY <1>1, <1>7, <2>1, <3>1, <3>2 DEF EndedIn
    <3>3. CASE h = g
      <4>1. e = Terminate
        BY <1>7, <3>1, <3>3 DEF EndedIn
      <4> QED
        BY <1>1, <1>7, <2>2, <3>1, <3>3, <4>1 DEF EndedIn
    <3> QED
      BY <3>2, <3>3
  <2>6. \A h \in Pools : \A x \in InSeq(posted'[h]) : Accounted(h, x)'
    <3> SUFFICES ASSUME NEW h \in Pools, NEW x \in InSeq(posted'[h])
                 PROVE  Accounted(h, x)'
      OBVIOUS
    <3>1. CASE x \in InSeq(posted[h])
      <4>1. Accounted(h, x)
        BY <3>1 DEF DrainInv
      <4> QED
        BY <1>7, <2>1, <2>2, <4>1 DEF Accounted
    <3>2. CASE x \notin InSeq(posted[h])
      <4>1. h = g /\ e \in Msgs /\ posted' = [posted EXCEPT ![g] = Append(@, e)]
        BY <1>7, <2>1, <3>2
      <4>2. InSeq(posted'[g]) = InSeq(posted[g]) \cup {e}
        BY <1>0, <4>1, InSeqAppend
      <4> QED
        BY <2>2, <3>2, <4>1, <4>2 DEF Accounted
    <3> QED
      BY <3>1, <3>2
  <2>7. posted'[g] = posted[g] \/ (g <= last /\ g \notin joined)
    BY <1>7 DEF LifeInv
  <2>8. \A h \in Pools : h > last' => InSeq(posted'[h]) = {}
    BY <1>0, <1>7, <2>1, <2>7 DEF DrainInv, Pools
  <2>9. \A h \in joined' : InSeq(posted'[h]) \subseteq InSeq(written')
    BY <1>0, <1>7, <2>1, <2>7 DEF DrainInv
  <2> QED
    BY <2>3, <2>4, <2>5, <2>6, <2>8, <2>9 DEF DrainInv
<1>8. ASSUME NEW t \in Threads, Enqueue(t) PROVE DrainInv'
  <2>1. /\ pc[t] = "enqueue"
        /\ queue' = [queue EXCEPT ![holds[t]] = Append(@, Msg(t))]
        /\ posted' = [posted EXCEPT ![holds[t]] = Append(@, Msg(t))]
        /\ UNCHANGED <<hand, done, joined, refs, sent, written, calls>>
    BY <1>8 DEF Enqueue
  <2>2. holds[t] # 0
    BY <1>0, <2>1 DEF LabelInv
  <2>3. holds[t] \in Pools /\ ~Dead(holds[t]) /\ holds[t] <= last
    BY <1>0, <2>2 DEF RefsOK, Pools, Dead, LifeInv
  <2>4. Msg(t) \in Msgs
    BY <2>1, MsgType
  <2> QED
    BY <1>7, <2>1, <2>3, <2>4
<1>9. ASSUME NEW p \in Procs, PostTerminate(p) PROVE DrainInv'
  <2>1. /\ pc[p] = "terminate"
        /\ queue' = [queue EXCEPT ![dying[p]] = Append(@, Terminate)]
        /\ UNCHANGED <<hand, done, joined, refs, dying, history, calls>>
    BY <1>9 DEF PostTerminate
  <2>2. dying[p] # 0
    BY <1>0, <2>1 DEF LabelInv
  <2>3. dying[p] \in Pools /\ Dead(dying[p])
    BY <1>0, <2>2 DEF ThreadsOK, Pools, LifeInv
  <2> QED
    BY <1>7, <2>1, <2>3
<1>10. ASSUME NEW p \in Procs, Join(p) PROVE DrainInv'
  <2>1. /\ pc[p] = "join" /\ (\A w \in Workers : <<dying[p], w>> \in done)
        /\ joined' = joined \cup {dying[p]}
        /\ UNCHANGED <<queue, hand, done, refs, terms, history, calls>>
    BY <1>10 DEF Join
  <2>2. dying[p] # 0
    BY <1>0, <2>1 DEF LabelInv
  <2>3. dying[p] \in Pools
    BY <1>0, <2>2 DEF ThreadsOK, Pools
  <2>4. InSeq(posted[dying[p]]) \subseteq InSeq(written)
    <3> SUFFICES ASSUME NEW x \in InSeq(posted[dying[p]]), x \notin InSeq(written)
                 PROVE  FALSE
      OBVIOUS
    <3>1. x \in Msgs
      BY <1>0, <2>3, InSeqType
    <3>2. \A w \in Workers : EndedIn(dying[p], w)
      BY <2>1, <2>3 DEF DrainInv
    <3>3. Accounted(dying[p], x)
      BY <2>3 DEF DrainInv
    <3> QED
      BY <3>1, <3>2, <3>3, Distinct, ConstantsAssumption DEF EndedIn, Accounted
  <2>5. \A g \in joined' : InSeq(posted'[g]) \subseteq InSeq(written')
    BY <2>1, <2>4 DEF DrainInv
  <2>6. /\ \A g \in Pools : TermsLast(g)'
        /\ \A g \in Pools, w \in Workers : <<g, w>> \in done' => EndedIn(g, w)'
    BY <1>1, <2>1 DEF DrainInv, TermsLast, EndedIn
  <2>7. /\ \A g \in Pools : \A x \in InSeq(posted'[g]) : Accounted(g, x)'
        /\ \A g \in Pools : g > last' => InSeq(posted'[g]) = {}
        /\ \A g \in Pools : Terminate \in InSeq(queue'[g]) => Dead(g)'
    BY <1>1, <2>1 DEF DrainInv, Accounted
  <2> QED
    BY <2>5, <2>6, <2>7 DEF DrainInv
<1>11. ASSUME NEW g \in Pools, NEW w \in Workers, Dequeue(g, w) PROVE DrainInv'
  <2>1. /\ <<g, w>> \notin done /\ hand[g][w] = Nothing
        /\ queue[g] # <<>> /\ queue' = [queue EXCEPT ![g] = Tail(@)]
        /\ \/ /\ Head(queue[g]) = Terminate
              /\ done' = done \cup {<<g, w>>} /\ UNCHANGED hand
           \/ /\ Head(queue[g]) # Terminate /\ UNCHANGED done
              /\ hand' = [hand EXCEPT ![g][w] = Head(queue[g])]
        /\ UNCHANGED <<joined, refs, threads, history, calls>>
    BY <1>11 DEF Dequeue
  <2>2. queue'[g] = Tail(queue[g]) /\ \A h \in Pools \ {g} : queue'[h] = queue[h]
    BY <1>0, <2>1
  <2>3. InSeq(queue[g]) = {Head(queue[g])} \cup InSeq(queue'[g])
    BY <1>0, <2>1, <2>2, InSeqTail
  <2>4. /\ TermsLast(g)'
        /\ Head(queue[g]) = Terminate => InSeq(queue'[g]) \subseteq {Terminate}
    BY <2>1, <2>2, TermsLastTail DEF DrainInv
  <2>5. \A h \in Pools : TermsLast(h)'
    <3>1. ASSUME NEW h \in Pools \ {g} PROVE TermsLast(h)'
      BY <2>2, <3>1 DEF DrainInv, TermsLast
    <3> QED
      BY <2>4, <3>1
  <2>6. \A h \in Pools : Terminate \in InSeq(queue'[h]) => Dead(h)'
    BY <1>1, <2>2, <2>3 DEF DrainInv
  <2>7. \A h \in Pools, v \in Workers :
          \/ hand'[h][v] = hand[h][v]
          \/ h = g /\ v = w /\ Head(queue[g]) # Terminate /\ hand'[h][v] = Head(queue[g])
    BY <1>0, <2>1
  <2>8. \A h \in Pools, v \in Workers : <<h, v>> \in done' => EndedIn(h, v)'
    <3> SUFFICES ASSUME NEW h \in Pools, NEW v \in Workers, <<h, v>> \in done'
                 PROVE  EndedIn(h, v)'
      OBVIOUS
    <3>1. CASE <<h, v>> \in done
      <4>1. EndedIn(h, v)
        BY <3>1 DEF DrainInv
      <4>2. hand'[h][v] = hand[h][v]
        BY <2>1, <2>7, <3>1
      <4>3. InSeq(queue'[h]) \subseteq InSeq(queue[h])
        BY <2>2, <2>3
      <4> QED
        BY <1>1, <4>1, <4>2, <4>3 DEF EndedIn
    <3>2. CASE <<h, v>> \notin done
      <4>1. h = g /\ v = w /\ Head(queue[g]) = Terminate /\ hand' = hand
        BY <2>1, <3>2
      <4>2. Dead(g)
        BY <2>3, <4>1 DEF DrainInv
      <4> QED
        BY <1>1, <2>1, <2>4, <4>1, <4>2 DEF EndedIn
    <3> QED
      BY <3>1, <3>2
  <2>9. \A h \in Pools : \A x \in InSeq(posted'[h]) : Accounted(h, x)'
    <3> SUFFICES ASSUME NEW h \in Pools, NEW x \in InSeq(posted[h]) PROVE Accounted(h, x)'
      BY <2>1
    <3>0. x \in Msgs /\ Accounted(h, x)
      BY <1>0, InSeqType DEF DrainInv
    <3>1. CASE x \in InSeq(written)
      BY <2>1, <3>1 DEF Accounted
    <3>2. CASE x \in InSeq(queue[h])
      <4>1. CASE x \in InSeq(queue'[h])
        BY <4>1 DEF Accounted
      <4>2. CASE x \notin InSeq(queue'[h])
        <5>1. h = g /\ x = Head(queue[g]) /\ x # Terminate
          BY <2>2, <2>3, <3>0, <3>2, <4>2, Distinct
        <5>2. hand'[g][w] = x
          BY <1>0, <2>1, <5>1
        <5> QED
          BY <5>1, <5>2 DEF Accounted
      <4> QED
        BY <4>1, <4>2
    <3>3. CASE \E v \in Workers : hand[h][v] = x
      <4>1. PICK v \in Workers : hand[h][v] = x
        BY <3>3
      <4>2. hand'[h][v] = x
        BY <2>1, <2>7, <3>0, <4>1, Distinct
      <4> QED
        BY <4>2 DEF Accounted
    <3> QED
      BY <3>0, <3>1, <3>2, <3>3 DEF Accounted
  <2>10. /\ \A h \in Pools : h > last' => InSeq(posted'[h]) = {}
         /\ \A h \in joined' : InSeq(posted'[h]) \subseteq InSeq(written')
    BY <2>1 DEF DrainInv
  <2> QED
    BY <2>5, <2>6, <2>8, <2>9, <2>10 DEF DrainInv
<1>12. CASE Shutdown \/ ReloadAsync \/ Install \/ ReloadSync \/ UNCHANGED vars
  BY <1>2, <1>12 DEF Shutdown, ReloadAsync, Install, ReloadSync, vars
<1> QED
  BY <1>3, <1>5, <1>6, <1>8, <1>9, <1>10, <1>11, <1>12 DEF Next, Proceed, Destroy, Work

\* DrainInv holds in every reachable state.
LEMMA DrainAlways == Spec => []DrainInv
<1>1. TypeInv /\ LifeInv /\ DrainInv /\ [Next]_vars => DrainInv'
  BY DrainStep
<1> QED
  BY <1>1, DrainInit, TypeAlways, LifeAlways, PTL DEF Spec

\* When a pool is freed, everything that was posted to it has been written and no
\* thread has a pointer to it.
THEOREM DrainedAlwaysWhenJoined == Spec => []DrainedWhenJoined
<1>1. LifeInv /\ DrainInv => DrainedWhenJoined
  BY DEF LifeInv, DrainInv, DrainedWhenJoined, Dead, Holders
<1> QED
  BY <1>1, LifeAlways, DrainAlways, PTL

-----------------------------------------------------------------------------
\* What a shutdown that met no log call owes is written, or the calling thread is
\* destroying the pool all of it was posted to.
OwedInv ==
    quiet => \/ owed \subseteq InSeq(written)
             \/ dying[Main] # 0 /\ owed \subseteq InSeq(posted[dying[Main]])

\* Every step keeps OwedInv: what shutdown owes is written before its thread has
\* joined the workers.
LEMMA OwedStep ==
    ASSUME TypeInv, LifeInv, DrainInv, OwedInv, [Next]_vars
    PROVE  OwedInv'
<1> USE DEF pools, refs, threads, history, calls
<1>0. /\ queue \in [Pools -> Seq(Msgs \cup {Terminate})]
      /\ hand \in [Pools -> [Workers -> Msgs \cup {Nothing}]]
      /\ posted \in [Pools -> Seq(Msgs)] /\ written \in Seq(Msgs)
      /\ LabelInv /\ ThreadsOK /\ RefsOK /\ quiet \in BOOLEAN
  BY DEF TypeInv, PoolsOK, HistoryOK, CallsOK
<1>1. dying[Main] # 0 => dying[Main] \in Pools
  BY <1>0, Constants DEF ThreadsOK, Pools
<1>2. ASSUME UNCHANGED calls, InSeq(written) \subseteq InSeq(written'),
             \/ owed \subseteq InSeq(written')
             \/ /\ dying'[Main] = dying[Main]
                /\ \A g \in Pools : InSeq(posted[g]) \subseteq InSeq(posted'[g])
             \/ dying[Main] = 0
      PROVE  OwedInv'
  BY <1>1, <1>2 DEF OwedInv
<1>3. ASSUME NEW m \in Msgs, written' = Append(written, m)
      PROVE  InSeq(written) \subseteq InSeq(written')
  BY <1>0, <1>3, InSeqAppend
<1>4. ASSUME NEW t \in Threads, Call(t) \/ WriteSync(t) \/ Lock(t) PROVE OwedInv'
  <2>1. CASE Call(t) \/ Lock(t)
    BY <1>2, <2>1 DEF Call, Lock, Goto
  <2>2. CASE WriteSync(t)
    BY <1>2, <1>3, <2>2, MsgType DEF WriteSync, Goto
  <2> QED
    BY <1>4, <2>1, <2>2
<1>5. ASSUME NEW t \in Threads, Enqueue(t) PROVE OwedInv'
  <2>1. /\ pc[t] = "enqueue"
        /\ posted' = [posted EXCEPT ![holds[t]] = Append(@, Msg(t))]
        /\ dying' = dying /\ written' = written /\ UNCHANGED calls
    BY <1>5 DEF Enqueue, Goto
  <2>2. holds[t] # 0 /\ Msg(t) \in Msgs
    BY <1>0, <2>1, MsgType DEF LabelInv
  <2>3. holds[t] \in Pools
    BY <1>0, <2>2 DEF RefsOK, Pools
  <2>4. InSeq(posted[holds[t]]) \subseteq InSeq(posted'[holds[t]])
    BY <1>0, <2>1, <2>2, <2>3, InSeqAppend
  <2>5. \A g \in Pools : InSeq(posted[g]) \subseteq InSeq(posted'[g])
    BY <1>0, <2>1, <2>4
  <2> QED
    BY <1>2, <2>1, <2>5
<1>6. ASSUME NEW t \in Threads, Release(t) PROVE OwedInv'
  <2>1. /\ Drop(t, holds[t], tp # holds[t] /\ Holders(holds[t]) = {t}, "idle")
        /\ UNCHANGED <<pools, tp, current, last, mine, history, calls>>
    BY <1>6 DEF Release
  <2>2. holds[t] \in 0..MaxPools /\ "idle" \in Labels /\ t \in Procs /\ Main \in Procs \ {t}
    BY <1>0, Constants DEF RefsOK, Labels
  <2>3. dying'[Main] = dying[Main]
    BY <1>0, <2>1, <2>2, DropTyped
  <2> QED
    BY <1>2, <2>1, <2>3
<1>7. ASSUME NEW p \in Procs, PostTerminate(p) PROVE OwedInv'
  BY <1>2, <1>7 DEF PostTerminate
<1>8. ASSUME NEW p \in Procs, Join(p) PROVE OwedInv'
  <2>1. /\ joined' = joined \cup {dying[p]} /\ dying' = [dying EXCEPT ![p] = 0]
        /\ posted' = posted /\ written' = written /\ UNCHANGED calls
    BY <1>8 DEF Join
  <2>2. CASE p # Main
    <3>1. dying'[Main] = dying[Main]
      BY <1>0, <2>1, <2>2, Constants DEF ThreadsOK
    <3> QED
      BY <1>2, <2>1, <3>1
  <2>3. CASE p = Main
    <3>1. InSeq(posted[dying[Main]]) \subseteq InSeq(written)
      <4>1. DrainInv'
        BY DrainStep
      <4>2. \A g \in joined' : InSeq(posted'[g]) \subseteq InSeq(written')
        BY <4>1 DEF DrainInv
      <4> QED
        BY <2>1, <2>3, <4>2
    <3>2. quiet => owed \subseteq InSeq(written)
      BY <3>1 DEF OwedInv
    <3> QED
      BY <2>1, <3>2 DEF OwedInv
  <2> QED
    BY <2>2, <2>3
<1>9. ASSUME NEW g \in Pools, NEW w \in Workers, Work(g, w) PROVE OwedInv'
  <2>1. CASE Dequeue(g, w)
    BY <1>2, <2>1 DEF Dequeue
  <2>2. CASE WriteAsync(g, w)
    <3>1. hand[g][w] \in Msgs
      BY <1>0, <2>2 DEF WriteAsync
    <3> QED
      BY <1>2, <1>3, <2>2, <3>1 DEF WriteAsync
  <2> QED
    BY <1>9, <2>1, <2>2 DEF Work
<1>10. CASE Shutdown
  <2> SUFFICES ASSUME quiet'
               PROVE  \/ owed' \subseteq InSeq(written')
                      \/ dying'[Main] # 0 /\ owed' \subseteq InSeq(posted'[dying'[Main]])
    BY DEF OwedInv
  <2>1. /\ pc[Main] = "idle" /\ owed' = Waiting /\ quiet' = (\A t \in Threads : pc[t] = "idle")
        /\ Drop(Main, tp, Holders(tp) = {}, "idle")
        /\ UNCHANGED <<pools, current, last, mine, holds, history>>
    BY <1>10 DEF Shutdown
  <2>2. \A p \in Procs : pc[p] = "idle"
    BY <2>1, Constants
  <2>3. \A p \in Procs : dying[p] = 0
    BY <1>0, <2>2 DEF LabelInv
  <2>4. \A t \in Threads : holds[t] = 0
    <3>1. \A t \in Threads : pc[t] \notin {"enqueue", "release"}
      BY <2>2, Constants
    <3> QED
      BY <1>0, <3>1 DEF LabelInv
  <2>5. \A g \in Pools : g = tp \/ InSeq(posted[g]) \subseteq InSeq(written)
    <3> SUFFICES ASSUME NEW g \in Pools, g # tp PROVE InSeq(posted[g]) \subseteq InSeq(written)
      OBVIOUS
    <3>1. CASE g > last
      BY <3>1 DEF DrainInv
    <3>2. CASE g <= last
      <4>1. Dead(g)
        BY <2>4, <3>2 DEF Dead, Pools
      <4>2. g \in joined
        BY <2>3, <4>1 DEF LifeInv, Pools
      <4> QED
        BY <4>2 DEF DrainInv
    <3> QED
      BY <1>0, <3>1, <3>2 DEF RefsOK, Pools
  <2>6. CASE tp = 0
    <3>1. \A g \in Pools : InSeq(posted[g]) \subseteq InSeq(written)
      BY <2>5, <2>6 DEF Pools
    <3>2. Waiting \subseteq InSeq(written)
      BY <3>1 DEF Waiting
    <3> QED
      BY <2>1, <3>2
  <2>7. CASE tp # 0
    <3>1. Holders(tp) = {} /\ tp \in 0..MaxPools /\ "idle" \in Labels
      BY <1>0, <2>4, <2>7 DEF Holders, RefsOK, Labels
    <3>2. dying'[Main] = tp
      BY <1>0, <2>1, <2>7, <3>1, Constants, DropTyped
    <3>3. Waiting \subseteq InSeq(posted[tp])
      <4> SUFFICES ASSUME NEW x \in Waiting PROVE x \in InSeq(posted[tp])
        OBVIOUS
      <4>1. PICK g \in Pools : x \in InSeq(posted[g]) /\ x \notin InSeq(written)
        BY DEF Waiting
      <4> QED
        BY <2>5, <4>1
    <3> QED
      BY <2>1, <2>7, <3>2, <3>3
  <2> QED
    BY <2>6, <2>7
<1>11. CASE ReloadAsync
  <2>1. dying[Main] = 0
    BY <1>0, <1>11, Constants DEF ReloadAsync, LabelInv
  <2> QED
    BY <1>2, <1>11, <2>1 DEF ReloadAsync
<1>12. CASE Install \/ ReloadSync \/ UNCHANGED vars
  BY <1>2, <1>12 DEF Install, ReloadSync, Goto, vars
<1> QED
  BY <1>4, <1>5, <1>6, <1>7, <1>8, <1>9, <1>10, <1>11, <1>12 DEF Next, Proceed, Destroy

\* A shutdown that is called while no thread is inside a log call has, when it
\* returns, written everything that was queued.
THEOREM QuietShutdownAlwaysDrains == Spec => []QuietShutdownDrains
<1>1. Init => OwedInv
  BY DEF Init, OwedInv
<1>2. TypeInv /\ LifeInv /\ DrainInv /\ OwedInv /\ [Next]_vars => OwedInv'
  BY OwedStep
<1>3. TypeInv /\ OwedInv => QuietShutdownDrains
  BY Constants DEF TypeInv, LabelInv, OwedInv, QuietShutdownDrains, ShutdownDrains
<1> QED
  BY <1>1, <1>2, <1>3, TypeAlways, LifeAlways, DrainAlways, PTL DEF Spec

-----------------------------------------------------------------------------
\* A thread has a message that it has neither posted nor written.
Unsent(t) == pc[t] \in {"sink_it", "enqueue"}

\* The message is not newer than its thread's last one, and older while the last
\* one is unsent.
Old(x) == x[2] <= sent[x[1]] /\ (Unsent(x[1]) => x[2] < sent[x[1]])

\* Messages are numbered by their thread and are posted to one pool at most; what a
\* worker or a queue has was posted there.
NumberInv ==
    /\ \A x \in InSeq(written) : Old(x)
    /\ \A g \in Pools : \A x \in InSeq(posted[g]) : Old(x)
    /\ \A g, h \in Pools : \A x \in InSeq(posted[g]) \cap InSeq(posted[h]) : g = h
    /\ \A g \in Pools : InSeq(queue[g]) \subseteq InSeq(posted[g]) \cup {Terminate}
    /\ \A g \in Pools, w \in Workers : hand[g][w] \in InSeq(posted[g]) \cup {Nothing}

\* Only a call makes a message.
LEMMA NoNewMessage ==
    ASSUME TypeInv, [Next]_vars
    PROVE  \/ \E t \in Threads : Call(t)
           \/ /\ sent' = sent
              /\ \A t \in Threads : Unsent(t)' => Unsent(t)
<1> USE DEF pools, refs, threads, history, calls
<1>0. ThreadsOK /\ LabelInv /\ RefsOK
  BY DEF TypeInv
<1>1. ASSUME NEW p \in Procs, \A q \in Procs \ {p} : pc'[q] = pc[q],
             p \in Threads => Unsent(p) \/ pc'[p] \notin {"sink_it", "enqueue"}
      PROVE  \A t \in Threads : Unsent(t)' => Unsent(t)
  BY <1>1, Constants DEF Unsent
<1>a. "idle" \in Labels /\ "release" \in Labels /\ "enqueue" \in Labels /\ "install" \in Labels
  BY DEF Labels
<1>2. ASSUME NEW t \in Threads, WriteSync(t) \/ Lock(t) \/ Enqueue(t)
      PROVE  /\ sent' = sent
             /\ \A u \in Threads : Unsent(u)' => Unsent(u)
  <2>1. /\ sent' = sent /\ Unsent(t)
        /\ Goto(t, "idle") \/ Goto(t, "enqueue") \/ Goto(t, "release")
    BY <1>2 DEF WriteSync, Lock, Enqueue, Unsent
  <2>2. \A q \in Procs \ {t} : pc'[q] = pc[q]
    BY <1>0, <1>a, <2>1, Constants, GotoTyped
  <2> QED
    BY <1>1, <2>1, <2>2, Constants
<1>3. ASSUME NEW t \in Threads, Release(t)
      PROVE  /\ sent' = sent
             /\ \A u \in Threads : Unsent(u)' => Unsent(u)
  <2>1. /\ sent' = sent /\ holds[t] \in 0..MaxPools
        /\ Drop(t, holds[t], tp # holds[t] /\ Holders(holds[t]) = {t}, "idle")
    BY <1>0, <1>3 DEF Release, RefsOK
  <2>2. /\ pc'[t] = "terminate" \/ pc'[t] = "idle"
        /\ \A q \in Procs \ {t} : pc'[q] = pc[q]
    BY <1>0, <1>a, <2>1, Constants, DropTyped
  <2>3. pc'[t] \notin {"sink_it", "enqueue"}
    BY <2>2
  <2> QED
    BY <1>1, <2>1, <2>2, <2>3, Constants
<1>4. ASSUME NEW p \in Procs, PostTerminate(p) \/ Join(p)
      PROVE  /\ sent' = sent
             /\ \A u \in Threads : Unsent(u)' => Unsent(u)
  <2>1. /\ sent' = sent /\ \A q \in Procs \ {p} : pc'[q] = pc[q]
        /\ pc'[p] \in {"join", "terminate", "idle", "install"}
    BY <1>0, <1>4 DEF PostTerminate, Join, AfterDestructor, ThreadsOK
  <2>2. pc'[p] \notin {"sink_it", "enqueue"}
    BY <2>1
  <2> QED
    BY <1>1, <2>1, <2>2
<1>5. ASSUME NEW g \in Pools, NEW w \in Workers, Work(g, w)
      PROVE  /\ sent' = sent
             /\ \A u \in Threads : Unsent(u)' => Unsent(u)
  BY <1>5 DEF Work, Dequeue, WriteAsync, Unsent
<1>6. CASE Shutdown \/ ReloadAsync
  <2>1. PICK l \in {"idle", "install"} : Drop(Main, tp, Holders(tp) = {}, l) /\ sent' = sent
    BY <1>6 DEF Shutdown, ReloadAsync
  <2>2. l \in Labels /\ tp \in 0..MaxPools
    BY <1>0, <1>a DEF RefsOK
  <2>3. \A q \in Procs \ {Main} : pc'[q] = pc[q]
    BY <1>0, <2>1, <2>2, Constants, DropTyped
  <2> QED
    BY <1>1, <2>1, <2>3, Constants
<1>7. CASE Install
  <2>1. sent' = sent /\ \A q \in Procs \ {Main} : pc'[q] = pc[q]
    BY <1>0, <1>a, <1>7, Constants, GotoTyped DEF Install
  <2> QED
    BY <1>1, <2>1, Constants
<1>8. CASE ReloadSync \/ UNCHANGED vars
  BY <1>8 DEF ReloadSync, vars, Unsent
<1> QED
  BY <1>2, <1>3, <1>4, <1>5, <1>6, <1>7, <1>8 DEF Next, Proceed, Destroy

\* An old message stays old.
LEMMA OldStays ==
    ASSUME TypeInv, [Next]_vars, NEW x \in Msgs, Old(x)
    PROVE  Old(x)'
<1>0. x[1] \in Threads /\ x[2] \in Nat /\ sent \in [Threads -> 0..MaxMsgs]
  BY Constants DEF Msgs, TypeInv, HistoryOK
<1>1. ASSUME NEW t \in Threads, Call(t) PROVE Old(x)'
  <2>1. /\ pc[t] = "idle" /\ sent' = [sent EXCEPT ![t] = @ + 1]
        /\ \A u \in Threads \ {t} : pc'[u] = pc[u]
    <3>1. "sink_it" \in Labels /\ ThreadsOK /\ t \in Procs
      BY Constants DEF Labels, TypeInv
    <3> QED
      BY <1>1, <3>1, Constants, GotoTyped DEF Call
  <2>2. CASE x[1] = t
    <3>1. sent'[x[1]] = sent[x[1]] + 1 /\ sent[x[1]] \in Nat
      BY <1>0, <2>1, <2>2, Constants
    <3> QED
      BY <1>0, <3>1 DEF Old
  <2>3. CASE x[1] # t
    <3>1. sent'[x[1]] = sent[x[1]] /\ (Unsent(x[1])' <=> Unsent(x[1]))
      BY <1>0, <2>1, <2>3 DEF Unsent
    <3> QED
      BY <3>1 DEF Old
  <2> QED
    BY <2>2, <2>3
<1>2. CASE sent' = sent /\ \A t \in Threads : Unsent(t)' => Unsent(t)
  BY <1>0, <1>2 DEF Old
<1> QED
  BY <1>1, <1>2, NoNewMessage

\* Every step keeps NumberInv.
LEMMA NumberStep ==
    ASSUME TypeInv, NumberInv, [Next]_vars
    PROVE  NumberInv'
<1> USE DEF pools, refs, threads, history, calls
<1>0. /\ queue \in [Pools -> Seq(Msgs \cup {Terminate})]
      /\ hand \in [Pools -> [Workers -> Msgs \cup {Nothing}]]
      /\ posted \in [Pools -> Seq(Msgs)] /\ written \in Seq(Msgs)
      /\ LabelInv /\ ThreadsOK /\ RefsOK
  BY DEF TypeInv, PoolsOK, HistoryOK
<1>1. InSeq(written) \subseteq Msgs /\ \A g \in Pools : InSeq(posted[g]) \subseteq Msgs
  BY <1>0, InSeqType
<1>2. /\ \A x \in InSeq(written) : Old(x)'
      /\ \A g \in Pools : \A x \in InSeq(posted[g]) : Old(x)'
  BY <1>1, OldStays DEF NumberInv
\* The message a thread posts or writes itself is its newest one.
<1>3. ASSUME NEW t \in Threads, WriteSync(t) \/ Enqueue(t)
      PROVE  /\ Msg(t) \in Msgs
             /\ \A x : x = Msg(t) => Old(x)'
             /\ Msg(t) \notin InSeq(written)
             /\ \A g \in Pools : Msg(t) \notin InSeq(posted[g])
  <2>1. /\ pc[t] \in {"sink_it", "enqueue"} /\ sent' = sent
        /\ Goto(t, "idle") \/ Goto(t, "release")
    BY <1>3 DEF WriteSync, Enqueue
  <2>2. Msg(t) \in Msgs /\ Msg(t)[1] = t /\ Msg(t)[2] = sent[t] /\ sent[t] \in Nat
    BY <2>1, MsgType, Constants DEF TypeInv, HistoryOK
  <2>3. pc'[t] \in {"idle", "release"}
    <3>1. "idle" \in Labels /\ "release" \in Labels /\ t \in Procs
      BY Constants DEF Labels
    <3> QED
      BY <1>0, <2>1, <3>1, GotoTyped
  <2>4. ASSUME NEW x, x = Msg(t) PROVE Old(x)'
    <3>1. x[1] = t /\ x[2] = sent'[t] /\ ~Unsent(t)' /\ sent'[t] \in Nat
      BY <2>1, <2>2, <2>3, <2>4 DEF Unsent
    <3> QED
      BY <3>1 DEF Old
  <2>5. ~Old(Msg(t))
    BY <2>1, <2>2 DEF Old, Unsent
  <2> QED
    BY <2>2, <2>4, <2>5 DEF NumberInv
<1>4. ASSUME UNCHANGED <<posted, queue, written>>,
             \A g \in Pools, w \in Workers :
               hand'[g][w] = hand[g][w] \/ hand'[g][w] \in InSeq(posted[g]) \cup {Nothing}
      PROVE  NumberInv'
  BY <1>2, <1>4 DEF NumberInv
<1>5. ASSUME NEW m \in Msgs, written' = Append(written, m), \A x : x = m => Old(x)',
             UNCHANGED <<posted, queue>>,
             \A g \in Pools, w \in Workers :
               hand'[g][w] = hand[g][w] \/ hand'[g][w] \in InSeq(posted[g]) \cup {Nothing}
      PROVE  NumberInv'
  <2>1. InSeq(written') = InSeq(written) \cup {m}
    BY <1>0, <1>5, InSeqAppend
  <2> QED
    BY <1>2, <1>5, <2>1 DEF NumberInv
<1>6. ASSUME NEW t \in Threads, WriteSync(t) PROVE NumberInv'
  BY <1>3, <1>5, <1>6 DEF WriteSync
<1>7. ASSUME NEW t \in Threads, Enqueue(t) PROVE NumberInv'
  <2> DEFINE k == holds[t]
             m == Msg(t)
  <2>1. /\ pc[t] = "enqueue"
        /\ queue' = [queue EXCEPT ![k] = Append(@, m)]
        /\ posted' = [posted EXCEPT ![k] = Append(@, m)]
        /\ UNCHANGED <<hand, written>>
    BY <1>7 DEF Enqueue
  <2>2. k # 0
    BY <1>0, <2>1 DEF LabelInv
  <2>3. k \in Pools
    BY <1>0, <2>2 DEF RefsOK, Pools
  <2>4. /\ m \in Msgs /\ \A g \in Pools : m \notin InSeq(posted[g])
        /\ \A x : x = m => Old(x)'
    BY <1>3, <1>7
  <2> HIDE DEF k, m
  <2>5. /\ \A g \in Pools \ {k} : queue'[g] = queue[g] /\ posted'[g] = posted[g]
        /\ queue'[k] = Append(queue[k], m) /\ posted'[k] = Append(posted[k], m)
    BY <1>0, <2>1, <2>3
  <2>6. /\ InSeq(queue'[k]) = InSeq(queue[k]) \cup {m}
        /\ InSeq(posted'[k]) = InSeq(posted[k]) \cup {m}
    <3>1. /\ queue[k] \in Seq(Msgs \cup {Terminate}) /\ m \in Msgs \cup {Terminate}
          /\ posted[k] \in Seq(Msgs)
      BY <1>0, <2>3, <2>4
    <3>2. InSeq(Append(queue[k], m)) = InSeq(queue[k]) \cup {m}
      BY <3>1, InSeqAppend
    <3>3. InSeq(Append(posted[k], m)) = InSeq(posted[k]) \cup {m}
      BY <2>4, <3>1, InSeqAppend
    <3> QED
      BY <2>5, <3>2, <3>3
  <2>7. \A g \in Pools : \A x \in InSeq(posted'[g]) : Old(x)'
    BY <1>2, <2>4, <2>5, <2>6
  <2>8. \A g, h \in Pools : \A x \in InSeq(posted'[g]) \cap InSeq(posted'[h]) : g = h
    <3> SUFFICES ASSUME NEW g \in Pools, NEW h \in Pools, NEW x \in InSeq(posted'[g]),
                        x \in InSeq(posted'[h])
                 PROVE  g = h
      OBVIOUS
    <3>1. CASE x = m
      <4>1. g = k /\ h = k
        BY <2>4, <2>5, <3>1
      <4> QED
        BY <4>1
    <3>2. CASE x # m
      <4>1. x \in InSeq(posted[g]) /\ x \in InSeq(posted[h])
        BY <2>5, <2>6, <3>2
      <4> QED
        BY <4>1 DEF NumberInv
    <3> QED
      BY <3>1, <3>2
  <2>9. \A g \in Pools : InSeq(queue'[g]) \subseteq InSeq(posted'[g]) \cup {Terminate}
    BY <2>5, <2>6 DEF NumberInv
  <2>10. \A g \in Pools, w \in Workers : hand'[g][w] \in InSeq(posted'[g]) \cup {Nothing}
    BY <2>1, <2>5, <2>6 DEF NumberInv
  <2> QED
    BY <1>2, <2>1, <2>7, <2>8, <2>9, <2>10 DEF NumberInv
<1>8. ASSUME NEW p \in Procs, PostTerminate(p) PROVE NumberInv'
  <2>1. /\ pc[p] = "terminate"
        /\ queue' = [queue EXCEPT ![dying[p]] = Append(@, Terminate)]
        /\ UNCHANGED <<hand, posted, written>>
    BY <1>8 DEF PostTerminate
  <2>2. dying[p] # 0
    BY <1>0, <2>1 DEF LabelInv
  <2>3. dying[p] \in Pools
    BY <1>0, <2>2 DEF ThreadsOK, Pools
  <2>4. InSeq(queue'[dying[p]]) = InSeq(queue[dying[p]]) \cup {Terminate}
    <3>1. queue[dying[p]] \in Seq(Msgs \cup {Terminate})
      BY <1>0, <2>3
    <3>2. queue'[dying[p]] = Append(queue[dying[p]], Terminate)
      BY <1>0, <2>1, <2>3
    <3> QED
      BY <3>1, <3>2, InSeqAppend
  <2>5. \A g \in Pools : InSeq(queue'[g]) \subseteq InSeq(posted'[g]) \cup {Terminate}
    BY <1>0, <2>1, <2>4 DEF NumberInv
  <2> QED
    BY <1>2, <2>1, <2>5 DEF NumberInv
<1>9. ASSUME NEW g \in Pools, NEW w \in Workers, Dequeue(g, w) PROVE NumberInv'
  <2>1. /\ queue[g] # <<>> /\ queue' = [queue EXCEPT ![g] = Tail(@)]
        /\ \/ UNCHANGED hand
           \/ /\ Head(queue[g]) # Terminate
              /\ hand' = [hand EXCEPT ![g][w] = Head(queue[g])]
        /\ UNCHANGED <<posted, written>>
    BY <1>9 DEF Dequeue
  <2>2. InSeq(queue[g]) = {Head(queue[g])} \cup InSeq(queue'[g])
    BY <1>0, <2>1, InSeqTail
  <2>3. \A h \in Pools : InSeq(queue'[h]) \subseteq InSeq(posted'[h]) \cup {Terminate}
    BY <1>0, <2>1, <2>2 DEF NumberInv
  <2>4. \A h \in Pools, v \in Workers :
          hand'[h][v] = hand[h][v] \/
          (h = g /\ Head(queue[g]) # Terminate /\ hand'[h][v] = Head(queue[g]))
    BY <1>0, <2>1
  <2>5. \A h \in Pools, v \in Workers : hand'[h][v] \in InSeq(posted'[h]) \cup {Nothing}
    <3> SUFFICES ASSUME NEW h \in Pools, NEW v \in Workers
                 PROVE  hand'[h][v] \in InSeq(posted[h]) \cup {Nothing}
      BY <2>1
    <3>1. CASE hand'[h][v] = hand[h][v]
      BY <3>1 DEF NumberInv
    <3>2. CASE h = g /\ Head(queue[g]) # Terminate /\ hand'[h][v] = Head(queue[g])
      <4>1. Head(queue[g]) \in InSeq(posted[g])
        BY <2>2, <3>2 DEF NumberInv
      <4> QED
        BY <3>2, <4>1
    <3> QED
      BY <2>4, <3>1, <3>2
  <2> QED
    BY <1>2, <2>1, <2>3, <2>5 DEF NumberInv
<1>10. ASSUME NEW g \in Pools, NEW w \in Workers, WriteAsync(g, w) PROVE NumberInv'
  <2>1. /\ hand[g][w] # Nothing /\ written' = Append(written, hand[g][w])
        /\ hand' = [hand EXCEPT ![g][w] = Nothing]
        /\ UNCHANGED <<queue, posted>>
    BY <1>10 DEF WriteAsync
  <2>2. hand[g][w] \in Msgs /\ hand[g][w] \in InSeq(posted[g])
    BY <1>0, <2>1 DEF NumberInv
  <2>3. \A x : x = hand[g][w] => Old(x)'
    BY <1>2, <2>2
  <2>4. \A h \in Pools, v \in Workers : hand'[h][v] = hand[h][v] \/ hand'[h][v] = Nothing
    BY <1>0, <2>1
  <2> QED
    BY <1>5, <2>1, <2>2, <2>3, <2>4
<1>11. CASE \/ \E t \in Threads : Call(t) \/ Lock(t) \/ Release(t)
            \/ \E p \in Procs : Join(p)
            \/ Shutdown \/ ReloadAsync \/ Install \/ ReloadSync \/ UNCHANGED vars
  <2>1. UNCHANGED <<posted, queue, written, hand>>
    BY <1>11 DEF Call, Lock, Release, Join, Shutdown, ReloadAsync, Install, ReloadSync, vars
  <2> QED
    BY <1>4, <2>1
<1> QED
  BY <1>6, <1>7, <1>8, <1>9, <1>10, <1>11 DEF Next, Proceed, Destroy, Work

\* NumberInv holds in every reachable state.
LEMMA NumberAlways == Spec => []NumberInv
<1>1. Init => NumberInv
  <2> SUFFICES ASSUME Init PROVE NumberInv
    OBVIOUS
  <2>1. /\ written = <<>>
        /\ \A g \in Pools : queue[g] = <<>> /\ posted[g] = <<>>
        /\ \A g \in Pools, w \in Workers : hand[g][w] = Nothing
    BY DEF Init
  <2> QED
    BY <2>1, InSeqEmpty DEF NumberInv
<1>2. TypeInv /\ NumberInv /\ [Next]_vars => NumberInv'
  BY NumberStep
<1> QED
  BY <1>1, <1>2, TypeAlways, PTL DEF Spec

-----------------------------------------------------------------------------
\* Of two messages of one thread the first was logged first.
Before(x, y) == x[1] = y[1] => x[2] < y[2]

\* The messages posted to a pool are in order from the oldest written one through
\* the worker's hand to the end of the queue.
WrittenOrder(g) ==
    \A i, j \in 1..Len(written) :
        i < j /\ written[i] \in InSeq(posted[g]) /\ written[j] \in InSeq(posted[g])
        => Before(written[i], written[j])
HandAfterWritten(g) ==
    \A x \in InSeq(written) \cap InSeq(posted[g]), w \in Workers :
        hand[g][w] # Nothing => Before(x, hand[g][w])
QueueAfterWritten(g) ==
    \A x \in InSeq(written) \cap InSeq(posted[g]), y \in InSeq(queue[g]) \ {Terminate} :
        Before(x, y)
QueueAfterHand(g) ==
    \A w \in Workers, y \in InSeq(queue[g]) \ {Terminate} :
        hand[g][w] # Nothing => Before(hand[g][w], y)
QueueOrder(g) ==
    \A i, j \in 1..Len(queue[g]) :
        i < j /\ queue[g][i] # Terminate /\ queue[g][j] # Terminate
        => Before(queue[g][i], queue[g][j])
Ordered(g) ==
    /\ WrittenOrder(g) /\ HandAfterWritten(g) /\ QueueAfterWritten(g)
    /\ QueueAfterHand(g) /\ QueueOrder(g)

OneWorker == \A v, w \in Workers : v = w

OrderInv == OneWorker => \A g \in Pools : Ordered(g)

\* Appending a message keeps the order of a sequence whose members are before it.
LEMMA AppendOrder ==
    ASSUME NEW S, NEW s \in Seq(S), NEW m \in S, NEW P,
           \A i, j \in 1..Len(s) : i < j /\ s[i] \in P /\ s[j] \in P => Before(s[i], s[j]),
           m \in P => \A x \in InSeq(s) \cap P : Before(x, m)
    PROVE  \A i, j \in 1..Len(Append(s, m)) :
             i < j /\ Append(s, m)[i] \in P /\ Append(s, m)[j] \in P
             => Before(Append(s, m)[i], Append(s, m)[j])
<1> SUFFICES ASSUME NEW i \in 1..Len(Append(s, m)), NEW j \in 1..Len(Append(s, m)), i < j,
                    Append(s, m)[i] \in P, Append(s, m)[j] \in P
             PROVE  Before(Append(s, m)[i], Append(s, m)[j])
  OBVIOUS
<1>1. /\ Len(s) \in Nat /\ Len(Append(s, m)) = Len(s) + 1
      /\ Append(s, m)[Len(s) + 1] = m
      /\ \A k \in 1..Len(s) : Append(s, m)[k] = s[k]
  OBVIOUS
<1>2. i \in 1..Len(s) /\ Append(s, m)[i] = s[i]
  BY <1>1
<1>3. CASE j = Len(s) + 1
  <2>1. s[i] \in InSeq(s) \cap P /\ m \in P /\ Append(s, m)[j] = m
    BY <1>1, <1>2, <1>3 DEF InSeq
  <2> QED
    BY <1>2, <2>1
<1>4. CASE j # Len(s) + 1
  <2>1. j \in 1..Len(s) /\ Append(s, m)[j] = s[j]
    BY <1>1, <1>4
  <2> QED
    BY <1>2, <2>1
<1> QED
  BY <1>3, <1>4

\* So does taking the first member away, and that one is before the others.
LEMMA TailOrder ==
    ASSUME NEW S, NEW s \in Seq(S), s # <<>>, NEW P,
           \A i, j \in 1..Len(s) : i < j /\ s[i] \in P /\ s[j] \in P => Before(s[i], s[j])
    PROVE  /\ \A i, j \in 1..Len(Tail(s)) :
                i < j /\ Tail(s)[i] \in P /\ Tail(s)[j] \in P => Before(Tail(s)[i], Tail(s)[j])
           /\ Head(s) \in P => \A y \in InSeq(Tail(s)) \cap P : Before(Head(s), y)
<1>1. /\ Head(s) = s[1] /\ Len(s) \in Nat /\ Len(s) >= 1 /\ Len(Tail(s)) = Len(s) - 1
      /\ \A i \in 1..(Len(s) - 1) : Tail(s)[i] = s[i + 1]
  OBVIOUS
<1>2. ASSUME NEW i \in 1..Len(Tail(s)), NEW j \in 1..Len(Tail(s)), i < j,
             Tail(s)[i] \in P, Tail(s)[j] \in P
      PROVE  Before(Tail(s)[i], Tail(s)[j])
  <2>1. /\ i + 1 \in 1..Len(s) /\ j + 1 \in 1..Len(s) /\ i + 1 < j + 1
        /\ Tail(s)[i] = s[i + 1] /\ Tail(s)[j] = s[j + 1]
    BY <1>1, <1>2
  <2> QED
    BY <1>2, <2>1
<1>3. ASSUME Head(s) \in P, NEW y \in InSeq(Tail(s)) \cap P PROVE Before(Head(s), y)
  <2>1. PICK i \in 1..Len(Tail(s)) : y = Tail(s)[i]
    BY DEF InSeq
  <2>2. 1 \in 1..Len(s) /\ i + 1 \in 1..Len(s) /\ 1 < i + 1 /\ y = s[i + 1]
    BY <1>1, <2>1
  <2> QED
    BY <1>1, <1>3, <2>2
<1> QED
  BY <1>2, <1>3

\* Every step keeps the order of a pool with one worker.
LEMMA OrderStep ==
    ASSUME TypeInv, NumberInv, [Next]_vars, OneWorker, \A g \in Pools : Ordered(g)
    PROVE  \A g \in Pools : Ordered(g)'
<1> USE DEF pools, refs, threads, history, calls
<1>0. /\ queue \in [Pools -> Seq(Msgs \cup {Terminate})]
      /\ hand \in [Pools -> [Workers -> Msgs \cup {Nothing}]]
      /\ posted \in [Pools -> Seq(Msgs)] /\ written \in Seq(Msgs)
      /\ LabelInv /\ ThreadsOK /\ RefsOK
  BY DEF TypeInv, PoolsOK, HistoryOK
<1>1. /\ InSeq(written) \subseteq Msgs
      /\ \A g \in Pools : /\ InSeq(posted[g]) \subseteq Msgs
                          /\ InSeq(queue[g]) \subseteq Msgs \cup {Terminate}
  BY <1>0, InSeqType
<1>2. ASSUME NEW g \in Pools, UNCHANGED written, queue'[g] = queue[g],
             posted'[g] = posted[g], \A w \in Workers : hand'[g][w] = hand[g][w]
      PROVE  Ordered(g)'
  <2>1. WrittenOrder(g)' /\ QueueOrder(g)'
    BY <1>2 DEF Ordered, WrittenOrder, QueueOrder
  <2>2. HandAfterWritten(g)' /\ QueueAfterWritten(g)' /\ QueueAfterHand(g)'
    BY <1>2 DEF Ordered, HandAfterWritten, QueueAfterWritten, QueueAfterHand
  <2> QED
    BY <2>1, <2>2 DEF Ordered
\* A write of a message that was not posted to g.
<1>3. ASSUME NEW g \in Pools, NEW m \in Msgs, written' = Append(written, m),
             m \notin InSeq(posted[g]), queue'[g] = queue[g], posted'[g] = posted[g],
             \A w \in Workers : hand'[g][w] = hand[g][w]
      PROVE  Ordered(g)'
  <2>1. InSeq(written') \cap InSeq(posted'[g]) = InSeq(written) \cap InSeq(posted[g])
    BY <1>0, <1>3, InSeqAppend
  <2>2. WrittenOrder(g)'
    <3>1. \A i, j \in 1..Len(written) :
            i < j /\ written[i] \in InSeq(posted[g]) /\ written[j] \in InSeq(posted[g])
            => Before(written[i], written[j])
      BY DEF Ordered, WrittenOrder
    <3>2. \A i, j \in 1..Len(written') :
            i < j /\ written'[i] \in InSeq(posted[g]) /\ written'[j] \in InSeq(posted[g])
            => Before(written'[i], written'[j])
      BY <1>0, <1>3, <3>1, AppendOrder
    <3> QED
      BY <1>3, <3>2 DEF WrittenOrder, Before
  <2>3. HandAfterWritten(g)' /\ QueueAfterWritten(g)'
    BY <1>3, <2>1 DEF Ordered, HandAfterWritten, QueueAfterWritten
  <2>4. QueueAfterHand(g)' /\ QueueOrder(g)'
    BY <1>3 DEF Ordered, QueueAfterHand, QueueOrder
  <2> QED
    BY <2>2, <2>3, <2>4 DEF Ordered
<1>4. ASSUME NEW t \in Threads, WriteSync(t) PROVE \A g \in Pools : Ordered(g)'
  <2>1. /\ Unsent(t) /\ pc[t] = "sink_it" /\ written' = Append(written, Msg(t))
        /\ UNCHANGED <<queue, hand, posted>>
    BY <1>4 DEF WriteSync, Unsent
  <2>2. /\ Msg(t) \in Msgs /\ Msg(t)[1] = t /\ Msg(t)[2] = sent[t]
        /\ sent[t] \in Nat
    BY <2>1, MsgType, Constants DEF TypeInv, HistoryOK
  <2>3. ~Old(Msg(t))
    BY <2>1, <2>2 DEF Old
  <2>4. \A g \in Pools : Msg(t) \notin InSeq(posted[g])
    BY <2>3 DEF NumberInv
  <2> QED
    BY <1>3, <2>1, <2>2, <2>4
<1>5. ASSUME NEW g \in Pools, NEW w \in Workers, WriteAsync(g, w)
      PROVE  \A h \in Pools : Ordered(h)'
  <2> DEFINE m == hand[g][w]
  <2>1. /\ m # Nothing /\ written' = Append(written, m)
        /\ hand' = [hand EXCEPT ![g][w] = Nothing] /\ UNCHANGED <<queue, posted>>
    BY <1>5 DEF WriteAsync
  <2>2. m \in Msgs /\ m \in InSeq(posted[g]) /\ \A h \in Pools \ {g} : m \notin InSeq(posted[h])
    BY <1>0, <2>1 DEF NumberInv
  <2>3. /\ \A h \in Pools \ {g} : \A v \in Workers : hand'[h][v] = hand[h][v]
        /\ \A v \in Workers : hand'[g][v] = Nothing
    BY <1>0, <2>1 DEF OneWorker
  <2>4. /\ \A x \in InSeq(written) \cap InSeq(posted[g]) : Before(x, m)
        /\ \A y \in InSeq(queue[g]) \ {Terminate} : Before(m, y)
    BY <2>1 DEF Ordered, HandAfterWritten, QueueAfterHand
  <2> HIDE DEF m
  <2>5. InSeq(written') = InSeq(written) \cup {m}
    BY <1>0, <2>1, <2>2, InSeqAppend
  <2>6. WrittenOrder(g)'
    <3>1. \A i, j \in 1..Len(written) :
            i < j /\ written[i] \in InSeq(posted[g]) /\ written[j] \in InSeq(posted[g])
            => Before(written[i], written[j])
      BY DEF Ordered, WrittenOrder
    <3>2. \A i, j \in 1..Len(written') :
            i < j /\ written'[i] \in InSeq(posted[g]) /\ written'[j] \in InSeq(posted[g])
            => Before(written'[i], written'[j])
      BY <1>0, <2>1, <2>2, <2>4, <3>1, AppendOrder
    <3> QED
      BY <2>1, <3>2 DEF WrittenOrder, Before
  <2>7. HandAfterWritten(g)' /\ QueueAfterHand(g)'
    BY <2>3 DEF HandAfterWritten, QueueAfterHand
  <2>8. QueueAfterWritten(g)'
    BY <2>1, <2>4, <2>5 DEF Ordered, QueueAfterWritten
  <2>9. QueueOrder(g)'
    BY <2>1 DEF Ordered, QueueOrder
  <2>10. Ordered(g)'
    BY <2>6, <2>7, <2>8, <2>9 DEF Ordered
  <2>11. \A h \in Pools \ {g} : Ordered(h)'
    BY <1>3, <2>1, <2>2, <2>3
  <2> QED
    BY <2>10, <2>11
<1>6. ASSUME NEW t \in Threads, Enqueue(t) PROVE \A h \in Pools : Ordered(h)'
  <2>a. PICK k : k = holds[t]
    OBVIOUS
  <2>b. PICK m : m = Msg(t)
    OBVIOUS
  <2>1. /\ pc[t] = "enqueue" /\ Unsent(t)
        /\ queue' = [queue EXCEPT ![k] = Append(@, m)]
        /\ posted' = [posted EXCEPT ![k] = Append(@, m)]
        /\ UNCHANGED <<hand, written>>
    BY <1>6, <2>a, <2>b DEF Enqueue, Unsent
  <2>2. k \in Pools
    <3>1. k # 0
      BY <1>0, <2>1, <2>a DEF LabelInv
    <3> QED
      BY <1>0, <2>a, <3>1 DEF RefsOK, Pools
  <2>3. m \in Msgs /\ m[1] = t /\ m[2] = sent[t] /\ sent[t] \in Nat
    BY <2>1, <2>b, MsgType, Constants DEF TypeInv, HistoryOK
  <2>4. ~Old(m)
    BY <2>1, <2>3 DEF Old
  <2>5. m \notin InSeq(written) /\ \A g \in Pools : m \notin InSeq(posted[g])
    BY <2>4 DEF NumberInv
  <2>6. \A x \in InSeq(posted[k]) : Before(x, m)
    BY <2>1, <2>2, <2>3 DEF NumberInv, Old, Before
  <2>7. /\ \A g \in Pools \ {k} : queue'[g] = queue[g] /\ posted'[g] = posted[g]
        /\ queue'[k] = Append(queue[k], m) /\ posted'[k] = Append(posted[k], m)
        /\ queue[k] \in Seq(Msgs \cup {Terminate}) /\ posted[k] \in Seq(Msgs)
        /\ m \in Msgs \cup {Terminate}
    BY <1>0, <2>1, <2>2, <2>3
  <2>8. InSeq(queue'[k]) = InSeq(queue[k]) \cup {m}
    BY <2>7, InSeqAppend
  <2>9. InSeq(posted'[k]) = InSeq(posted[k]) \cup {m}
    BY <2>3, <2>7, InSeqAppend
  <2>10. InSeq(written') \cap InSeq(posted'[k]) = InSeq(written) \cap InSeq(posted[k])
    BY <2>1, <2>5, <2>9
  <2>11. WrittenOrder(k)'
    <3>1. \A i \in 1..Len(written) : written[i] # m
      BY <2>5 DEF InSeq
    <3>2. \A i, j \in 1..Len(written) :
            i < j /\ written[i] \in InSeq(posted'[k]) /\ written[j] \in InSeq(posted'[k])
            => Before(written[i], written[j])
      BY <2>2, <2>9, <3>1 DEF Ordered, WrittenOrder
    <3> QED
      BY <2>1, <3>2 DEF WrittenOrder, Before
  <2>12. HandAfterWritten(k)'
    BY <2>1, <2>2, <2>10 DEF Ordered, HandAfterWritten
  <2>13. QueueAfterWritten(k)'
    BY <2>2, <2>6, <2>8, <2>10 DEF Ordered, QueueAfterWritten
  <2>14. QueueAfterHand(k)'
    <3> SUFFICES ASSUME NEW w \in Workers, NEW y \in InSeq(queue'[k]) \ {Terminate},
                        hand[k][w] # Nothing
                 PROVE  Before(hand[k][w], y)
      BY <2>1 DEF QueueAfterHand, Before
    <3>1. hand[k][w] \in InSeq(posted[k])
      BY <2>2 DEF NumberInv
    <3> QED
      BY <2>2, <2>6, <2>8, <3>1 DEF Ordered, QueueAfterHand
  <2>15. QueueOrder(k)'
    <3>0. \A i \in 1..Len(queue[k]) : queue[k][i] \in Msgs <=> queue[k][i] # Terminate
      BY <2>7, Distinct
    <3>1. \A i, j \in 1..Len(queue[k]) :
            i < j /\ queue[k][i] \in Msgs /\ queue[k][j] \in Msgs
            => Before(queue[k][i], queue[k][j])
      BY <2>2, <3>0 DEF Ordered, QueueOrder
    <3>2. \A x \in InSeq(queue[k]) \cap Msgs : Before(x, m)
      BY <2>2, <2>6, Distinct DEF NumberInv
    <3>3. \A i, j \in 1..Len(queue'[k]) :
            i < j /\ queue'[k][i] \in Msgs /\ queue'[k][j] \in Msgs
            => Before(queue'[k][i], queue'[k][j])
      BY <2>7, <3>1, <3>2, AppendOrder
    <3>4. \A i \in 1..Len(queue'[k]) : queue'[k][i] # Terminate => queue'[k][i] \in Msgs
      BY <2>7
    <3> QED
      BY <3>3, <3>4 DEF QueueOrder, Before
  <2>16. \A g \in Pools \ {k} : Ordered(g)'
    BY <1>2, <2>1, <2>7
  <2> QED
    BY <2>11, <2>12, <2>13, <2>14, <2>15, <2>16 DEF Ordered
<1>7. ASSUME NEW p \in Procs, PostTerminate(p) PROVE \A h \in Pools : Ordered(h)'
  <2>a. PICK k : k = dying[p]
    OBVIOUS
  <2>1. /\ pc[p] = "terminate" /\ queue' = [queue EXCEPT ![k] = Append(@, Terminate)]
        /\ UNCHANGED <<hand, posted, written>>
    BY <1>7, <2>a DEF PostTerminate
  <2>2. k \in Pools
    <3>1. k # 0
      BY <1>0, <2>1, <2>a DEF LabelInv
    <3> QED
      BY <1>0, <2>a, <3>1 DEF ThreadsOK, Pools
  <2>3. /\ queue'[k] = Append(queue[k], Terminate)
        /\ queue[k] \in Seq(Msgs \cup {Terminate})
        /\ \A g \in Pools \ {k} : queue'[g] = queue[g]
    BY <1>0, <2>1, <2>2
  <2>4. InSeq(queue'[k]) = InSeq(queue[k]) \cup {Terminate}
    BY <2>3, InSeqAppend
  <2>5. WrittenOrder(k)' /\ HandAfterWritten(k)'
    BY <2>1, <2>2 DEF Ordered, WrittenOrder, HandAfterWritten
  <2>6. QueueAfterWritten(k)' /\ QueueAfterHand(k)'
    BY <2>1, <2>2, <2>4 DEF Ordered, QueueAfterWritten, QueueAfterHand
  <2>7. QueueOrder(k)'
    <3>1. /\ Len(queue[k]) \in Nat /\ Len(queue'[k]) = Len(queue[k]) + 1
          /\ queue'[k][Len(queue[k]) + 1] = Terminate
          /\ \A i \in 1..Len(queue[k]) : queue'[k][i] = queue[k][i]
      BY <2>3
    <3>2. \A i \in 1..Len(queue'[k]) : queue'[k][i] # Terminate => i \in 1..Len(queue[k])
      BY <3>1
    <3> QED
      BY <2>2, <3>1, <3>2 DEF Ordered, QueueOrder, Before
  <2>8. \A g \in Pools \ {k} : Ordered(g)'
    BY <1>2, <2>1, <2>3
  <2> QED
    BY <2>5, <2>6, <2>7, <2>8 DEF Ordered
<1>8. ASSUME NEW g \in Pools, NEW w \in Workers, Dequeue(g, w)
      PROVE  \A h \in Pools : Ordered(h)'
  <2>a. PICK m : m = Head(queue[g])
    OBVIOUS
  <2>1. /\ hand[g][w] = Nothing
        /\ queue[g] # <<>> /\ queue' = [queue EXCEPT ![g] = Tail(@)]
        /\ \/ m = Terminate /\ UNCHANGED hand
           \/ m # Terminate /\ hand' = [hand EXCEPT ![g][w] = m]
        /\ UNCHANGED <<posted, written>>
    BY <1>8, <2>a DEF Dequeue
  <2>2. /\ queue'[g] = Tail(queue[g]) /\ queue[g] \in Seq(Msgs \cup {Terminate})
        /\ \A h \in Pools \ {g} : queue'[h] = queue[h]
    BY <1>0, <2>1
  <2>3. InSeq(queue[g]) = {m} \cup InSeq(queue'[g])
    BY <2>1, <2>2, <2>a, InSeqTail
  <2>4. /\ \A h \in Pools \ {g} : \A v \in Workers : hand'[h][v] = hand[h][v]
        /\ \A v \in Workers : hand'[g][v] # Nothing => m # Terminate /\ hand'[g][v] = m
    BY <1>0, <2>1 DEF OneWorker
  <2>5. /\ \A i, j \in 1..Len(queue'[g]) :
             i < j /\ queue'[g][i] \in Msgs /\ queue'[g][j] \in Msgs
             => Before(queue'[g][i], queue'[g][j])
        /\ m \in Msgs => \A y \in InSeq(queue'[g]) \cap Msgs : Before(m, y)
    <3>0. \A i \in 1..Len(queue[g]) : queue[g][i] \in Msgs <=> queue[g][i] # Terminate
      BY <2>2, Distinct
    <3>1. \A i, j \in 1..Len(queue[g]) :
            i < j /\ queue[g][i] \in Msgs /\ queue[g][j] \in Msgs
            => Before(queue[g][i], queue[g][j])
      BY <3>0 DEF Ordered, QueueOrder
    <3> QED
      BY <2>1, <2>2, <2>a, <3>1, TailOrder
  <2>6. /\ m \in Msgs \cup {Terminate} /\ queue'[g] \in Seq(Msgs \cup {Terminate})
        /\ InSeq(queue'[g]) \subseteq Msgs \cup {Terminate}
    BY <1>1, <2>1, <2>2, <2>3, InSeqTail
  <2>7. WrittenOrder(g)'
    BY <2>1 DEF Ordered, WrittenOrder
  <2>8. HandAfterWritten(g)'
    <3>1. m # Terminate =>
            \A x \in InSeq(written) \cap InSeq(posted[g]) : Before(x, m)
      BY <2>3 DEF Ordered, QueueAfterWritten
    <3> QED
      BY <2>1, <2>4, <3>1 DEF HandAfterWritten
  <2>9. QueueAfterWritten(g)'
    BY <2>1, <2>3 DEF Ordered, QueueAfterWritten
  <2>10. QueueAfterHand(g)'
    BY <2>4, <2>5, <2>6 DEF QueueAfterHand
  <2>11. QueueOrder(g)'
    <3>1. \A i \in 1..Len(queue'[g]) : queue'[g][i] # Terminate => queue'[g][i] \in Msgs
      BY <2>6
    <3> QED
      BY <2>5, <3>1 DEF QueueOrder, Before
  <2>12. \A h \in Pools \ {g} : Ordered(h)'
    BY <1>2, <2>1, <2>2, <2>4
  <2> QED
    BY <2>7, <2>8, <2>9, <2>10, <2>11, <2>12 DEF Ordered
<1>9. CASE \/ \E t \in Threads : Call(t) \/ Lock(t) \/ Release(t)
           \/ \E p \in Procs : Join(p)
           \/ Shutdown \/ ReloadAsync \/ Install \/ ReloadSync \/ UNCHANGED vars
  <2>1. UNCHANGED <<posted, queue, written, hand>>
    BY <1>9 DEF Call, Lock, Release, Join, Shutdown, ReloadAsync, Install, ReloadSync, vars
  <2> QED
    BY <1>2, <2>1
<1> QED
  BY <1>4, <1>5, <1>6, <1>7, <1>8, <1>9 DEF Next, Proceed, Destroy, Work

\* The messages one thread posts to a pool with one worker reach the sinks in the
\* order they were logged.
THEOREM ThreadOrderAlways == Spec => []ThreadOrder
<1>1. Init => OrderInv
  <2> SUFFICES ASSUME Init, NEW g \in Pools PROVE Ordered(g)
    BY DEF OrderInv
  <2>1. /\ written = <<>> /\ queue[g] = <<>> /\ InSeq(written) = {} /\ InSeq(queue[g]) = {}
    BY InSeqEmpty DEF Init
  <2>2. WrittenOrder(g) /\ QueueOrder(g)
    BY <2>1 DEF WrittenOrder, QueueOrder
  <2>3. HandAfterWritten(g) /\ QueueAfterWritten(g) /\ QueueAfterHand(g)
    BY <2>1 DEF HandAfterWritten, QueueAfterWritten, QueueAfterHand
  <2> QED
    BY <2>2, <2>3 DEF Ordered
<1>2. TypeInv /\ NumberInv /\ OrderInv /\ [Next]_vars => OrderInv'
  BY OrderStep DEF OrderInv, OneWorker
<1>3. TypeInv /\ OrderInv => ThreadOrder
  <2> SUFFICES ASSUME TypeInv, OrderInv, Cardinality(Workers) = 1, NEW g \in Pools,
                      NEW i \in 1..Len(written), NEW j \in 1..Len(written),
                      i < j, written[i][1] = written[j][1],
                      written[i] \in InSeq(posted[g]), written[j] \in InSeq(posted[g])
               PROVE  written[i][2] < written[j][2]
    BY DEF ThreadOrder
  <2>1. \E w : Workers = {w}
    BY ConstantsAssumption, FS_Singleton
  <2>2. OneWorker
    BY <2>1 DEF OneWorker
  <2>3. WrittenOrder(g)
    BY <2>2 DEF OrderInv, Ordered
  <2> QED
    BY <2>3 DEF WrittenOrder, Before
<1> QED
  BY <1>1, <1>2, <1>3, TypeAlways, NumberAlways, PTL DEF Spec
=============================================================================
