----------------------------- MODULE RetainedLog -----------------------------
(***************************************************************************)
(* What a rotating file sink promises, without files: an ever growing log  *)
(* of which a process keeps a window.  New messages enter at the young end *)
(* and are pending until they reach the disk; stored messages leave at the *)
(* old end only; the death of the process takes pending messages only.     *)
(***************************************************************************)
EXTENDS Naturals

VARIABLES
    stored,     \* messages on disk
    pending,    \* messages accepted and not yet on disk
    lost,       \* pending messages that died with their process
    nextId      \* number of the next message

vars == <<stored, pending, lost, nextId>>

Init == stored = {} /\ pending = {} /\ lost = {} /\ nextId = 1

\* A message is accepted; what was pending may reach the disk with it.
Append ==
    /\ nextId' = nextId + 1
    /\ \/ pending' = pending \cup {nextId} /\ UNCHANGED stored
       \/ stored' = stored \cup pending /\ pending' = {nextId}
    /\ UNCHANGED lost

\* Everything pending reaches the disk.
Sync ==
    /\ stored' = stored \cup pending
    /\ pending' = {}
    /\ UNCHANGED <<lost, nextId>>

\* Stored messages are given up, each older than every message that stays.
Discard ==
    /\ stored' \subseteq stored
    /\ \A a \in stored \ stored', b \in stored' : a < b
    /\ UNCHANGED <<pending, lost, nextId>>

\* The process dies.
Lose ==
    /\ lost' = lost \cup pending
    /\ pending' = {}
    /\ UNCHANGED <<stored, nextId>>

Next == Append \/ Sync \/ Discard \/ Lose

Spec == Init /\ [][Next]_vars

=============================================================================
