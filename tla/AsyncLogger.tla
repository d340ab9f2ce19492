----------------------------- MODULE AsyncLogger -----------------------------
(***************************************************************************)
(* Asynchronous logging ("async: true"): LogPrivate hands each message to  *)
(* a bounded queue, worker threads of a spdlog thread pool take messages   *)
(* out and call the sinks.  The pool belongs to spdlog's registry; the     *)
(* logger holds a weak pointer to it and each call that posts a message    *)
(* holds a strong one while it does, so the pool's destructor, which       *)
(* drains the queue and joins the workers, runs in whichever thread lets   *)
(* go of the last strong pointer: the thread that called Logger::shutdown, *)
(* the thread that reloads the configuration, or a logging thread.         *)
(*                                                                         *)
(* From logger_p.cpp (logImpl, shutdown, the pool of loadConfigFile) and   *)
(* from the spdlog sources the project builds (async_logger, thread_pool,  *)
(* mpmc_blocking_q, circular_q, registry).                                 *)
(*                                                                         *)
(* Abstractions.  A wait on a condition variable is the guard of the step  *)
(* after it.  The sinks are one log, whose mutex makes a write one step.   *)
(* A flush request travels like a message and is not told apart from one.  *)
(* No log call starts while the configuration is reloaded: m_logger is not *)
(* synchronised and is null meanwhile.  A call that has already copied     *)
(* m_logger may overlap the reload.                                        *)
(***************************************************************************)
EXTENDS Integers, Sequences, FiniteSets

CONSTANTS
    Threads,        \* threads that log
    Main,           \* the thread that reloads and shuts down
    Workers,        \* async_thread_count worker threads of each pool
    QueueSize,      \* async_queue_size
    Modes,          \* what "async" may be in a reloaded configuration
    MaxMsgs,        \* bound: messages per logging thread
    MaxPools,       \* bound: pools created, one per asynchronous load
    MaxShutdowns    \* bound: calls of Logger::shutdown

ASSUME ConstantsAssumption ==
    /\ Main \notin Threads
    /\ IsFiniteSet(Workers) /\ Workers # {}
    /\ QueueSize \in Nat
    /\ Modes \subseteq {"async", "sync"}
    /\ MaxMsgs \in Nat /\ MaxPools \in Nat \ {0} /\ MaxShutdowns \in Nat

VARIABLES
    queue,      \* the queue of each pool
    hand,       \* what each worker has taken out and not yet written
    done,       \* workers that have left worker_loop_
    joined,     \* pools whose destructor has joined the workers
    tp,         \* the registry's pool, 0 for none
    current,    \* m_logger: its pool, Sync, or Null
    last,       \* number of the newest pool
    mine,       \* the logger a log call has copied
    holds,      \* the pool a log call has a strong pointer to, 0 for none
    pc,         \* what each thread is doing
    dying,      \* the pool whose destructor a thread runs, 0 for none
    terms,      \* terminate messages that destructor still has to post
    sent,       \* number of messages each logging thread has logged
    posted,     \* messages that entered each queue, in order
    written,    \* messages the sinks have got, in order
    shutdowns,  \* calls of Logger::shutdown so far
    owed,       \* messages in some queue when shutdown was called last
    quiet       \* no thread was inside a log call then

pools == <<queue, hand, done, joined>>
refs == <<tp, current, last, mine, holds>>
threads == <<pc, dying, terms>>
history == <<sent, posted, written>>
calls == <<shutdowns, owed, quiet>>
vars == <<pools, refs, threads, history, calls>>

Pools == 1..MaxPools
Procs == Threads \cup {Main}
Msgs == Threads \X (1..MaxMsgs)
Nothing == <<>>
Terminate == <<"terminate">>
Sync == 0
Null == -1

InSeq(s) == {s[i] : i \in 1..Len(s)}

Init ==
    /\ queue = [g \in Pools |-> <<>>]
    /\ hand = [g \in Pools |-> [w \in Workers |-> Nothing]]
    /\ done = {} /\ joined = {}
    /\ tp = 1 /\ current = 1 /\ last = 1
    /\ mine = [t \in Threads |-> Null]
    /\ holds = [t \in Threads |-> 0]
    /\ pc = [p \in Procs |-> "idle"]
    /\ dying = [p \in Procs |-> 0]
    /\ terms = [p \in Procs |-> 0]
    /\ sent = [t \in Threads |-> 0]
    /\ posted = [g \in Pools |-> <<>>]
    /\ written = <<>>
    /\ shutdowns = 0 /\ owed = {} /\ quiet = FALSE

-----------------------------------------------------------------------------
(* Strong pointers to a pool.                                              *)

Holders(g) == {t \in Threads : holds[t] = g}

\* thread_pool_.lock() succeeds.
Alive(g) == tp = g \/ Holders(g) # {}

Goto(p, label) == pc' = [pc EXCEPT ![p] = label] /\ UNCHANGED <<dying, terms>>

\* Faulty variant: the destructor posts one terminate message too few.
DropOneTerminateLess(p, g, isLast, next) ==
    IF g # 0 /\ isLast
    THEN /\ pc' = [pc EXCEPT ![p] = IF Cardinality(Workers) = 1
                                    THEN "join" ELSE "terminate"]
         /\ dying' = [dying EXCEPT ![p] = g]
         /\ terms' = [terms EXCEPT ![p] = Cardinality(Workers) - 1]
    ELSE Goto(p, next)

\* Thread p has dropped a strong pointer to pool g: if no other is left it runs
\* ~thread_pool, else it goes on at label next.
Drop(p, g, isLast, next) ==
    IF g # 0 /\ isLast
    THEN /\ pc' = [pc EXCEPT ![p] = "terminate"]
         /\ dying' = [dying EXCEPT ![p] = g]
         /\ terms' = [terms EXCEPT ![p] = Cardinality(Workers)]
    ELSE Goto(p, next)

\* Where a thread goes on after the destructor: the logging thread and shutdown
\* return, the reload installs the new logger.
AfterDestructor(p) == IF p = Main /\ current = Null THEN "install" ELSE "idle"

-----------------------------------------------------------------------------
(* A log call: logImpl copies m_logger, async_logger::sink_it_ locks the   *)
(* weak pointer, posts, and lets go.                                       *)

Msg(t) == <<t, sent[t]>>

Call(t) ==
    /\ pc[t] = "idle" /\ sent[t] < MaxMsgs /\ current # Null
    /\ sent' = [sent EXCEPT ![t] = @ + 1]
    /\ mine' = [mine EXCEPT ![t] = current]
    /\ Goto(t, "sink_it")
    /\ UNCHANGED <<pools, tp, current, last, holds, posted, written, calls>>

\* A logger made without a pool writes to its sinks in the caller's thread.
WriteSync(t) ==
    /\ pc[t] = "sink_it" /\ mine[t] = Sync
    /\ written' = Append(written, Msg(t))
    /\ Goto(t, "idle")
    /\ UNCHANGED <<pools, refs, sent, posted, calls>>

\* Without a pool the call throws spdlog_ex, which the logger catches and hands
\* to its error handler: the message is dropped.
Lock(t) ==
    /\ pc[t] = "sink_it" /\ mine[t] # Sync
    /\ IF Alive(mine[t])
       THEN holds' = [holds EXCEPT ![t] = mine[t]] /\ Goto(t, "enqueue")
       ELSE Goto(t, "idle") /\ UNCHANGED holds
    /\ UNCHANGED <<pools, tp, current, last, mine, history, calls>>

Full(g) == Len(queue[g]) >= QueueSize

\* Faulty variant: the message goes to the front of the queue.
EnqueueFront(t) ==
    /\ pc[t] = "enqueue" /\ ~Full(holds[t])
    /\ queue' = [queue EXCEPT ![holds[t]] = <<Msg(t)>> \o @]
    /\ posted' = [posted EXCEPT ![holds[t]] = Append(@, Msg(t))]
    /\ Goto(t, "release")
    /\ UNCHANGED <<hand, done, joined, refs, sent, written, calls>>

\* mpmc_blocking_queue::enqueue, once there is room.
Enqueue(t) ==
    /\ pc[t] = "enqueue" /\ ~Full(holds[t])
    /\ queue' = [queue EXCEPT ![holds[t]] = Append(@, Msg(t))]
    /\ posted' = [posted EXCEPT ![holds[t]] = Append(@, Msg(t))]
    /\ Goto(t, "release")
    /\ UNCHANGED <<hand, done, joined, refs, sent, written, calls>>

\* Faulty variant: only the registry's pointer is looked at.
ReleaseIgnoresOthers(t) ==
    /\ pc[t] = "release"
    /\ holds' = [holds EXCEPT ![t] = 0]
    /\ Drop(t, holds[t], tp # holds[t], "idle")
    /\ UNCHANGED <<pools, tp, current, last, mine, history, calls>>

\* pool_ptr goes out of scope.
Release(t) ==
    /\ pc[t] = "release"
    /\ holds' = [holds EXCEPT ![t] = 0]
    /\ Drop(t, holds[t], tp # holds[t] /\ Holders(holds[t]) = {t}, "idle")
    /\ UNCHANGED <<pools, tp, current, last, mine, history, calls>>

-----------------------------------------------------------------------------
(* ~thread_pool, in whichever thread dropped the last strong pointer.      *)

\* Faulty variant: the loop posts one terminate message too many.
PostTerminateTooOften(p) ==
    /\ pc[p] = "terminate" /\ ~Full(dying[p])
    /\ queue' = [queue EXCEPT ![dying[p]] = Append(@, Terminate)]
    /\ terms' = [terms EXCEPT ![p] = @ - 1]
    /\ pc' = [pc EXCEPT ![p] = IF terms[p] = 0 THEN "join" ELSE "terminate"]
    /\ UNCHANGED <<hand, done, joined, refs, dying, history, calls>>

PostTerminate(p) ==
    /\ pc[p] = "terminate" /\ ~Full(dying[p])
    /\ queue' = [queue EXCEPT ![dying[p]] = Append(@, Terminate)]
    /\ terms' = [terms EXCEPT ![p] = @ - 1]
    /\ pc' = [pc EXCEPT ![p] = IF terms[p] = 1 THEN "join" ELSE "terminate"]
    /\ UNCHANGED <<hand, done, joined, refs, dying, history, calls>>

\* Faulty variant: the workers are detached.
JoinNobody(p) ==
    /\ pc[p] = "join"
    /\ joined' = joined \cup {dying[p]}
    /\ dying' = [dying EXCEPT ![p] = 0]
    /\ pc' = [pc EXCEPT ![p] = AfterDestructor(p)]
    /\ UNCHANGED <<queue, hand, done, refs, terms, history, calls>>

\* All workers have ended; the queue is freed with what is left in it.
Join(p) ==
    /\ pc[p] = "join"
    /\ \A w \in Workers : <<dying[p], w>> \in done
    /\ joined' = joined \cup {dying[p]}
    /\ dying' = [dying EXCEPT ![p] = 0]
    /\ pc' = [pc EXCEPT ![p] = AfterDestructor(p)]
    /\ UNCHANGED <<queue, hand, done, refs, terms, history, calls>>

-----------------------------------------------------------------------------
(* worker_loop_                                                            *)

\* q_.dequeue; a terminate message ends the loop.
Dequeue(g, w) ==
    /\ <<g, w>> \notin done /\ hand[g][w] = Nothing
    /\ queue[g] # <<>>
    /\ queue' = [queue EXCEPT ![g] = Tail(@)]
    /\ IF Head(queue[g]) = Terminate
       THEN done' = done \cup {<<g, w>>} /\ UNCHANGED hand
       ELSE hand' = [hand EXCEPT ![g][w] = Head(queue[g])] /\ UNCHANGED done
    /\ UNCHANGED <<joined, refs, threads, history, calls>>

\* backend_sink_it_
WriteAsync(g, w) ==
    /\ hand[g][w] # Nothing
    /\ written' = Append(written, hand[g][w])
    /\ hand' = [hand EXCEPT ![g][w] = Nothing]
    /\ UNCHANGED <<queue, done, joined, refs, threads, sent, posted, calls>>

-----------------------------------------------------------------------------
(* The thread that configures the logger.                                  *)

Waiting == (UNION {InSeq(posted[g]) : g \in Pools}) \ InSeq(written)

\* Faulty variant: the pool is destroyed although a log call still uses it.
ShutdownIgnoresHolders ==
    /\ pc[Main] = "idle" /\ shutdowns < MaxShutdowns
    /\ shutdowns' = shutdowns + 1
    /\ owed' = Waiting /\ quiet' = \A t \in Threads : pc[t] = "idle"
    /\ tp' = 0
    /\ Drop(Main, tp, TRUE, "idle")
    /\ UNCHANGED <<pools, current, last, mine, holds, history>>

\* spdlog::shutdown(): the registry drops its pool.
Shutdown ==
    /\ pc[Main] = "idle" /\ shutdowns < MaxShutdowns
    /\ shutdowns' = shutdowns + 1
    /\ owed' = Waiting /\ quiet' = \A t \in Threads : pc[t] = "idle"
    /\ tp' = 0
    /\ Drop(Main, tp, Holders(tp) = {}, "idle")
    /\ UNCHANGED <<pools, current, last, mine, holds, history>>

\* loadConfigFile with async: true resets m_logger, then init_thread_pool makes
\* a pool, and set_tp drops the previous one before m_logger is assigned.
ReloadAsync ==
    /\ pc[Main] = "idle" /\ "async" \in Modes /\ last < MaxPools
    /\ current' = Null
    /\ last' = last + 1 /\ tp' = last + 1
    /\ Drop(Main, tp, Holders(tp) = {}, "install")
    /\ UNCHANGED <<pools, mine, holds, history, calls>>

Install ==
    /\ pc[Main] = "install"
    /\ current' = tp
    /\ Goto(Main, "idle")
    /\ UNCHANGED <<pools, tp, last, mine, holds, history, calls>>

\* loadConfigFile with async: false leaves the registry's pool as it is.
ReloadSync ==
    /\ pc[Main] = "idle" /\ "sync" \in Modes /\ current # Sync
    /\ current' = Sync
    /\ UNCHANGED <<pools, tp, last, mine, holds, threads, history, calls>>

-----------------------------------------------------------------------------
\* What a thread does once it is inside a call.
Proceed(t) == WriteSync(t) \/ Lock(t) \/ Enqueue(t) \/ Release(t)
Destroy(p) == PostTerminate(p) \/ Join(p)
Work(g, w) == Dequeue(g, w) \/ WriteAsync(g, w)

Next ==
    \/ \E t \in Threads : Call(t) \/ Proceed(t)
    \/ \E p \in Procs : Destroy(p)
    \/ \E g \in Pools, w \in Workers : Work(g, w)
    \/ Shutdown \/ ReloadAsync \/ Install \/ ReloadSync

Spec == Init /\ [][Next]_vars

\* The scheduler runs every thread that can take a step.  No thread has to
\* start a call.
Fairness ==
    /\ \A t \in Threads : WF_vars(Proceed(t))
    /\ \A p \in Procs : WF_vars(Destroy(p))
    /\ \A g \in Pools, w \in Workers : WF_vars(Work(g, w))
    /\ WF_vars(Install)

FairSpec == Spec /\ Fairness

-----------------------------------------------------------------------------
(* Properties.                                                             *)

\* Types of the variables.
TypeOK ==
    /\ queue \in [Pools -> Seq(Msgs \cup {Terminate})]
    /\ hand \in [Pools -> [Workers -> Msgs \cup {Nothing}]]
    /\ done \subseteq Pools \X Workers
    /\ joined \subseteq Pools
    /\ tp \in 0..MaxPools /\ current \in -1..MaxPools /\ last \in Pools
    /\ mine \in [Threads -> -1..MaxPools]
    /\ holds \in [Threads -> 0..MaxPools]
    /\ pc \in [Procs -> {"idle", "sink_it", "enqueue", "release", "terminate",
                         "join", "install"}]
    /\ dying \in [Procs -> 0..MaxPools]
    /\ terms \in [Procs -> 0..Cardinality(Workers)]
    /\ sent \in [Threads -> 0..MaxMsgs]
    /\ posted \in [Pools -> Seq(Msgs)]
    /\ written \in Seq(Msgs)
    /\ shutdowns \in Nat
    /\ owed \subseteq Msgs /\ quiet \in BOOLEAN

\* A pool is freed only when everything posted to it has been written and no
\* thread can reach it any more, whoever ran the destructor and however many
\* workers shared the queue.
DrainedWhenJoined ==
    \A g \in joined :
        /\ InSeq(posted[g]) \subseteq InSeq(written)
        /\ Holders(g) = {} /\ tp # g

\* One destructor per pool: two threads that drop their pointers at the same
\* time do not both run it.
DestroyedOnce ==
    \A p, q \in Procs : dying[p] # 0 =>
        /\ dying[p] \notin joined
        /\ dying[q] = dying[p] => q = p

\* The messages one thread posts to a queue reach the sinks in the order it
\* logged them, if a single worker serves the queue (the default
\* async_thread_count).
ThreadOrder ==
    Cardinality(Workers) = 1 =>
        \A g \in Pools : \A i, j \in 1..Len(written) :
            /\ i < j /\ written[i][1] = written[j][1]
            /\ {written[i], written[j]} \subseteq InSeq(posted[g])
            => written[i][2] < written[j][2]

\* Every call comes back: a log call that found the queue full, the shutdown
\* and the reload that wait for the workers, and the log call that has to run
\* the destructor.
CallsReturn == \A p \in Procs : pc[p] # "idle" ~> pc[p] = "idle"

\* A message that entered a queue is written, also when the pool it entered is
\* being replaced or shut down.
PostedIsWritten ==
    \A m \in Msgs :
        (\E g \in Pools : m \in InSeq(posted[g])) ~> m \in InSeq(written)

\* shutdown "waits until the asynchronous queue is drained" and "makes sure that
\* all logs are written" (logger.h): once it has returned, what was queued when
\* it was called has been written.
ShutdownDrains ==
    pc[Main] = "idle" /\ shutdowns > 0 => owed \subseteq InSeq(written)

\* That promise under the condition the code needs for it: no other thread is
\* inside a log call when shutdown is called.
QuietShutdownDrains == quiet => ShutdownDrains
=============================================================================
