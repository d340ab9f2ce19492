---------------------------- MODULE BoundedQueue -----------------------------
(***************************************************************************)
(* What the asynchronous logger relies on in its message queue: a FIFO     *)
(* queue of async_queue_size messages, filled and emptied in single steps. *)
(* The configured size is an int; a negative one makes a queue that        *)
(* swallows what it is given, and 0 one that accepts nothing.              *)
(***************************************************************************)
EXTENDS Integers, Sequences

CONSTANT Producers

VARIABLES
    size,       \* async_queue_size
    contents,   \* the messages in the queue
    sent,       \* number of messages each producer has put
    taken       \* messages taken out, in order

vars == <<size, contents, sent, taken>>

Init ==
    /\ size \in Int
    /\ contents = <<>>
    /\ sent = [p \in Producers |-> 0]
    /\ taken = <<>>

Put(p) ==
    /\ sent' = [sent EXCEPT ![p] = @ + 1]
    /\ \/ Len(contents) < size /\ contents' = Append(contents, <<p, sent'[p]>>)
       \/ size < 0 /\ UNCHANGED contents
    /\ UNCHANGED <<size, taken>>

Take ==
    /\ contents # <<>>
    /\ contents' = Tail(contents)
    /\ taken' = Append(taken, Head(contents))
    /\ UNCHANGED <<size, sent>>

Next == Take \/ \E p \in Producers : Put(p)

Spec == Init /\ [][Next]_vars
=============================================================================
