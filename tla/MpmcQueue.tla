----------------------------- MODULE MpmcQueue -------------------------------
(***************************************************************************)
(* The queue between the logging threads and the workers of the thread     *)
(* pool: spdlog's mpmc_blocking_queue, a ring buffer (circular_q) under a  *)
(* mutex with one condition variable for "not empty" and one for "not      *)
(* full", used with the blocking overflow policy.  AsyncLogger takes it    *)
(* for a BoundedQueue; this module shows that it implements one, with the  *)
(* index arithmetic, the unlock before the notification, notify_one and    *)
(* spurious wake-ups, for every size the configuration may ask for.        *)
(*                                                                         *)
(* The fields of the ring are only touched with the mutex held, and a wait *)
(* releases it and sleeps in one step, so what a thread does between       *)
(* taking the mutex and giving it up is one step here.  The notification   *)
(* comes after the unlock and is another.                                  *)
(***************************************************************************)
EXTENDS Integers, Sequences, FiniteSets

CONSTANTS
    Producers,  \* logging threads
    Consumers,  \* workers
    Sizes,      \* values of async_queue_size
    Word,       \* 2^64: the number of values of a size_t
    MaxItems    \* bound: messages per producer

ASSUME ConstantsAssumption ==
    /\ IsFiniteSet(Producers) /\ IsFiniteSet(Consumers)
    /\ Producers \cap Consumers = {}
    /\ Word \in Nat \ {0}
    /\ Sizes \subseteq -1..(Word - 2)
    /\ MaxItems \in Nat

VARIABLES
    size,                   \* async_queue_size, as configured
    maxItems, head, tail,   \* circular_q: max_items_, head_, tail_
    overrun,                \* overrun_counter_
    v,                      \* v_
    pc,         \* "idle", "enter" (wants the mutex), "wait", or "notify"
    sent,       \* messages each producer has put
    taken       \* messages the consumers got, in order

ring == <<maxItems, head, tail, overrun, v>>
vars == <<size, ring, pc, sent, taken>>

Moved == <<>>       \* what std::move leaves in a slot

-----------------------------------------------------------------------------
(* circular_q                                                              *)

\* Faulty variant: no slot is reserved to tell a full queue from an empty one.
RingSizeUnreserved(n) == n % Word

\* The constructor: one slot more than asked for, in size_t.
RingSize(n) == ((n % Word) + 1) % Word

IsEmpty == tail = head
IsFull == maxItems > 0 /\ (tail + 1) % maxItems = head

\* Faulty variant: the tail wraps one slot too late.
PushBackLateWrap(item) ==
    IF maxItems > 0
    THEN /\ v' = [v EXCEPT ![tail] = item]
         /\ tail' = (tail + 1) % (maxItems + 1)
         /\ UNCHANGED <<maxItems, head, overrun>>
    ELSE UNCHANGED ring

PushBack(item) ==
    IF maxItems > 0
    THEN /\ v' = [v EXCEPT ![tail] = item]
         /\ tail' = (tail + 1) % maxItems
         /\ IF tail' = head
            THEN head' = (head + 1) % maxItems /\ overrun' = overrun + 1
            ELSE UNCHANGED <<head, overrun>>
         /\ UNCHANGED maxItems
    ELSE UNCHANGED ring

\* front() is moved out, then pop_front().
PopFront ==
    /\ v' = [v EXCEPT ![head] = Moved]
    /\ head' = (head + 1) % maxItems
    /\ UNCHANGED <<maxItems, tail, overrun>>

\* size() and at(i)
QSize == IF tail >= head THEN tail - head ELSE maxItems - (head - tail)
At(i) == v[(head + i) % maxItems]

-----------------------------------------------------------------------------
(* mpmc_blocking_queue                                                     *)

Init ==
    /\ size \in Sizes
    /\ maxItems = RingSize(size)
    /\ head = 0 /\ tail = 0 /\ overrun = 0
    /\ v = [i \in 0..(maxItems - 1) |-> Moved]
    /\ pc = [t \in Producers \cup Consumers |-> "idle"]
    /\ sent = [p \in Producers |-> 0]
    /\ taken = <<>>

\* A logging thread posts a message, a worker asks for one.
Call(t) ==
    /\ pc[t] = "idle"
    /\ t \in Producers => sent[t] < MaxItems
    /\ pc' = [pc EXCEPT ![t] = "enter"]
    /\ UNCHANGED <<size, ring, sent, taken>>

\* enqueue with the mutex: sleep on pop_cv_ while the queue is full, else push.
Enqueue(p) ==
    /\ pc[p] = "enter"
    /\ IF IsFull
       THEN /\ pc' = [pc EXCEPT ![p] = "wait"]
            /\ UNCHANGED <<ring, sent>>
       ELSE /\ sent' = [sent EXCEPT ![p] = @ + 1]
            /\ PushBack(<<p, sent'[p]>>)
            /\ pc' = [pc EXCEPT ![p] = "notify"]
    /\ UNCHANGED <<size, taken>>

\* dequeue with the mutex: sleep on push_cv_ while the queue is empty, else pop.
Dequeue(c) ==
    /\ pc[c] = "enter"
    /\ IF IsEmpty
       THEN /\ pc' = [pc EXCEPT ![c] = "wait"]
            /\ UNCHANGED <<ring, taken>>
       ELSE /\ taken' = Append(taken, v[head])
            /\ PopFront
            /\ pc' = [pc EXCEPT ![c] = "notify"]
    /\ UNCHANGED <<size, sent>>

\* Threads asleep on the condition variable that thread t notifies.
Sleepers(t) ==
    {u \in (IF t \in Producers THEN Consumers ELSE Producers) : pc[u] = "wait"}

\* Faulty variant: a producer notifies only if the queue was empty before.
NotifyIfWasEmpty(t) ==
    /\ pc[t] = "notify"
    /\ IF Sleepers(t) = {} \/ (t \in Producers /\ QSize > 1)
       THEN pc' = [pc EXCEPT ![t] = "idle"]
       ELSE \E u \in Sleepers(t) : pc' = [pc EXCEPT ![t] = "idle", ![u] = "enter"]
    /\ UNCHANGED <<size, ring, sent, taken>>

\* Faulty variant: a consumer notifies only if the queue was full before.
NotifyIfWasFull(t) ==
    /\ pc[t] = "notify"
    /\ IF Sleepers(t) = {} \/ (t \in Consumers /\ QSize + 1 < size)
       THEN pc' = [pc EXCEPT ![t] = "idle"]
       ELSE \E u \in Sleepers(t) : pc' = [pc EXCEPT ![t] = "idle", ![u] = "enter"]
    /\ UNCHANGED <<size, ring, sent, taken>>

\* notify_one after the unlock: one sleeper, if there is one by now, goes for
\* the mutex.
Notify(t) ==
    /\ pc[t] = "notify"
    /\ IF Sleepers(t) = {}
       THEN pc' = [pc EXCEPT ![t] = "idle"]
       ELSE \E u \in Sleepers(t) : pc' = [pc EXCEPT ![t] = "idle", ![u] = "enter"]
    /\ UNCHANGED <<size, ring, sent, taken>>

\* A condition variable may wake a thread for no reason.
SpuriousWake(t) ==
    /\ pc[t] = "wait"
    /\ pc' = [pc EXCEPT ![t] = "enter"]
    /\ UNCHANGED <<size, ring, sent, taken>>

Next ==
    \/ \E p \in Producers : Enqueue(p)
    \/ \E c \in Consumers : Dequeue(c)
    \/ \E t \in Producers \cup Consumers : Call(t) \/ Notify(t) \/ SpuriousWake(t)

Spec == Init /\ [][Next]_vars

\* A thread that is not asleep goes on, and a worker always asks for the next
\* message (worker_loop_).  Nothing is assumed about spurious wake-ups or about
\* which sleeper notify_one chooses.
Fairness ==
    /\ \A p \in Producers : WF_vars(Enqueue(p) \/ Notify(p))
    /\ \A c \in Consumers : WF_vars(Call(c) \/ Dequeue(c) \/ Notify(c))

FairSpec == Spec /\ Fairness

-----------------------------------------------------------------------------
(* Properties.                                                             *)

\* Types, and the indices of the ring within its slots.
TypeOK ==
    /\ size \in Sizes
    /\ maxItems \in 0..(Word - 1)
    /\ IF maxItems = 0 THEN head = 0 /\ tail = 0
       ELSE head \in 0..(maxItems - 1) /\ tail \in 0..(maxItems - 1)
    /\ overrun \in Nat
    /\ DOMAIN v = 0..(maxItems - 1)
    /\ pc \in [Producers \cup Consumers -> {"idle", "enter", "wait", "notify"}]
    /\ sent \in [Producers -> Nat]

\* The ring buffer, its lock and its notifications make a FIFO queue of exactly
\* the configured size, that no message overruns; a configured -1 swallows every
\* message and 0 accepts none.
Contents == [i \in 1..QSize |-> At(i - 1)]
Abstract == INSTANCE BoundedQueue WITH contents <- Contents

ImplementsBoundedQueue == Abstract!Spec

\* No wake-up is lost, although each notification wakes one thread and comes
\* after the unlock: while a worker sleeps, every message in the queue has a
\* notification still to come or a worker on its way to the mutex, and while a
\* producer sleeps so has every free slot.
NoLostWakeup ==
    LET num(S, label) == Cardinality({t \in S : pc[t] = label})
    IN  /\ num(Consumers, "wait") > 0 =>
             QSize <= num(Producers, "notify") + num(Consumers, "enter")
        /\ num(Producers, "wait") > 0 =>
             size - QSize <= num(Consumers, "notify") + num(Producers, "enter")

\* With at least one slot every call of enqueue returns, however the threads
\* interleave and whichever sleepers are notified.
EnqueueReturns ==
    \A p \in Producers : size >= 1 /\ pc[p] # "idle" ~> pc[p] = "idle"

\* With at least one slot every message reaches a worker.
ItemsTaken ==
    \A p \in Producers : \A n \in 1..MaxItems :
        size >= 1 /\ sent[p] >= n ~> \E i \in 1..Len(taken) : taken[i] = <<p, n>>
=============================================================================
