---------------------------- MODULE BoundedFifo ----------------------------
(***************************************************************************)
(* What a ring of the arena promises to its users: a first-in first-out    *)
(* queue of at most Capacity items.  A Take hands the oldest item to one   *)
(* consumer, which keeps it until it has returned from the call.  Module   *)
(* Ring, the lock-free algorithm, implements this specification.           *)
(***************************************************************************)
EXTENDS Naturals, Sequences

CONSTANTS Items,      \* what can be put in the queue
          Consumers,  \* the threads that take items
          Capacity,   \* how many items the queue holds
          NoItem      \* "this consumer holds nothing"

VARIABLES queue,      \* the items, oldest first
          hand        \* hand[c]: the item consumer c has taken

vars == <<queue, hand>>

Init == /\ queue = <<>>
        /\ hand = [c \in Consumers |-> NoItem]

Put(v) == /\ Len(queue) < Capacity
          /\ queue' = Append(queue, v)
          /\ UNCHANGED hand

Take(c) == /\ queue # <<>>
           /\ hand[c] = NoItem
           /\ queue' = Tail(queue)
           /\ hand' = [hand EXCEPT ![c] = Head(queue)]

Return(c) == /\ hand[c] # NoItem
             /\ hand' = [hand EXCEPT ![c] = NoItem]
             /\ UNCHANGED queue

Next == \/ \E v \in Items : Put(v)
        \/ \E c \in Consumers : Take(c) \/ Return(c)

Spec == Init /\ [][Next]_vars
============================================================================
