------------------------------- MODULE Ring -------------------------------
(***************************************************************************)
(* The lock-free rings of the arena (consumers/thanatos/platform/arena.c): *)
(* try_enqueue, try_dequeue and the two blocking wrappers over them.  The  *)
(* submission, completion, stdin, stdout and waiter queues are all rings.  *)
(*                                                                         *)
(* One action is one access to shared memory.  Tickets (head, tail, the    *)
(* sequence number of a slot) are unbounded here and 32 bits wide in the   *)
(* code, which compares them by the sign of a wrapped difference: what     *)
(* WordsSuffice says of the two.                                           *)
(***************************************************************************)
EXTENDS Integers, Sequences

CONSTANTS Entries,    \* the number of slots, ring->entries
          Producers,  \* the threads that enqueue
          Consumers,  \* the threads that dequeue
          Blocking,   \* the threads that call the blocking variants
          Items,      \* what is enqueued
          NoItem,     \* not an item
          MaxCalls,   \* bound: the calls the producers make
          Width       \* how many values a word has, 2^32

Threads == Producers \cup Consumers

ASSUME EntriesAssumption == Entries \in Nat \ {0, 1}
ASSUME ThreadsAssumption == /\ Producers \cap Consumers = {}
                            /\ Blocking \subseteq Threads
ASSUME NoItemAssumption == NoItem \notin Items
ASSUME MaxCallsAssumption == MaxCalls \in Nat
ASSUME WidthAssumption == Width \in Nat \ {0, 1} /\ Width % Entries = 0

VARIABLES head,      \* the next ticket to dequeue
          tail,      \* the next ticket to enqueue
          seq,       \* seq[i]: sequence number of slot i
          cell,      \* cell[i]: payload of slot i
          notEmpty,  \* futex word bumped by every enqueue
          notFull,   \* futex word bumped by every dequeue
          pc,        \* where each thread is
          ticket,    \* its local t or h
          item,      \* what a producer brings, what a consumer has copied out
          seen,      \* the futex word a blocking call has read
          second,    \* a blocking call is at its second try
          calls,     \* how many calls the producers have made (bounds the model)
          log        \* history: the items in ticket order

ring   == <<head, tail, seq, cell, notEmpty, notFull>>
locals == <<pc, ticket, item, seen, second>>
vars   == <<ring, locals, calls, log>>

Slots == 0 .. Entries - 1
Slot(t) == t % Entries

PC == {"idle", "asleep",
       "enqTail", "enqSeq", "enqCas", "enqCopy", "enqPublish", "enqCount",
       "enqNotify", "enqEvent", "enqWait",
       "deqHead", "deqSeq", "deqCas", "deqCopy", "deqPublish", "deqCount",
       "deqNotify", "deqEvent", "deqWait"}

(* Fault: slots numbered from one.                                         *)
InitFromOne ==
        /\ head = 0
        /\ tail = 0
        /\ seq = [i \in Slots |-> i - 1]
        /\ cell = [i \in Slots |-> NoItem]
        /\ notEmpty = 0
        /\ notFull = 0
        /\ pc = [th \in Threads |-> "idle"]
        /\ ticket = [th \in Threads |-> 0]
        /\ item = [th \in Threads |-> NoItem]
        /\ seen = [th \in Threads |-> 0]
        /\ second = [th \in Threads |-> FALSE]
        /\ calls = 0
        /\ log = <<>>

Init == /\ head = 0
        /\ tail = 0
        /\ seq = [i \in Slots |-> i]
        /\ cell = [i \in Slots |-> NoItem]
        /\ notEmpty = 0
        /\ notFull = 0
        /\ pc = [th \in Threads |-> "idle"]
        /\ ticket = [th \in Threads |-> 0]
        /\ item = [th \in Threads |-> NoItem]
        /\ seen = [th \in Threads |-> 0]
        /\ second = [th \in Threads |-> FALSE]
        /\ calls = 0
        /\ log = <<>>

-----------------------------------------------------------------------------
Goto(th, label) == pc' = [pc EXCEPT ![th] = label]

(* A thread leaves the call: its locals die.                               *)
Leave(th) == /\ Goto(th, "idle")
             /\ ticket' = [ticket EXCEPT ![th] = 0]
             /\ item' = [item EXCEPT ![th] = NoItem]
             /\ seen' = [seen EXCEPT ![th] = 0]
             /\ second' = [second EXCEPT ![th] = FALSE]

(* A try has returned false.  The plain variants report it to the caller;  *)
(* a blocking one reads its futex word after the first try and goes to     *)
(* wait after the second.                                                  *)
TryFails(th, event, wait) ==
  \/ /\ th \notin Blocking
     /\ Leave(th)
  \/ /\ th \in Blocking
     /\ Goto(th, IF second[th] THEN wait ELSE event)
     /\ ticket' = [ticket EXCEPT ![th] = 0]
     /\ UNCHANGED <<item, seen, second>>

(* FUTEX_WAKE of one waiter: some sleeper of the set, if there is one.     *)
Notify(th, sleepers) ==
  LET asleep == {w \in sleepers : pc[w] = "asleep"}
      woken(w) == IF w \in Producers THEN "enqTail" ELSE "deqHead"
  IN  \/ /\ asleep = {}
         /\ pc' = [pc EXCEPT ![th] = "idle"]
      \/ \E w \in asleep : pc' = [pc EXCEPT ![th] = "idle", ![w] = woken(w)]

-----------------------------------------------------------------------------
(* Producers: try_enqueue, enqueue_blocking.                               *)

EnqCall(p) ==
  /\ pc[p] = "idle"
  /\ calls < MaxCalls
  /\ calls' = calls + 1
  /\ \E v \in Items : item' = [item EXCEPT ![p] = v]
  /\ Goto(p, "enqTail")
  /\ UNCHANGED <<ring, ticket, seen, second, log>>

EnqTail(p) ==
  /\ pc[p] = "enqTail"
  /\ ticket' = [ticket EXCEPT ![p] = tail]
  /\ Goto(p, "enqSeq")
  /\ UNCHANGED <<ring, item, seen, second, calls, log>>

EnqSeq(p) ==
  /\ pc[p] = "enqSeq"
  /\ LET diff == seq[Slot(ticket[p])] - ticket[p]
     IN  \/ /\ diff = 0
            /\ Goto(p, "enqCas")
            /\ UNCHANGED <<ticket, item, seen, second>>
         \/ /\ diff < 0
            /\ TryFails(p, "enqEvent", "enqWait")
         \/ /\ diff > 0
            /\ Goto(p, "enqTail")
            /\ UNCHANGED <<ticket, item, seen, second>>
  /\ UNCHANGED <<ring, calls, log>>

(* Fault: the ticket is taken by a plain store.                            *)
EnqClaimPlain(p) ==
  /\ pc[p] = "enqCas"
  /\ tail' = ticket[p] + 1
  /\ log' = Append(log, item[p])
  /\ Goto(p, "enqCopy")
  /\ UNCHANGED <<head, seq, cell, notEmpty, notFull,
                 ticket, item, seen, second, calls>>

(* The compare-and-swap is weak: it may fail though the ticket is current. *)
EnqClaim(p) ==
  /\ pc[p] = "enqCas"
  /\ tail = ticket[p]
  /\ tail' = tail + 1
  /\ log' = Append(log, item[p])
  /\ Goto(p, "enqCopy")
  /\ UNCHANGED <<head, seq, cell, notEmpty, notFull,
                 ticket, item, seen, second, calls>>

EnqCasFails(p) ==
  /\ pc[p] = "enqCas"
  /\ Goto(p, "enqTail")
  /\ UNCHANGED <<ring, ticket, item, seen, second, calls, log>>

EnqCopy(p) ==
  /\ pc[p] = "enqCopy"
  /\ cell' = [cell EXCEPT ![Slot(ticket[p])] = item[p]]
  /\ Goto(p, "enqPublish")
  /\ UNCHANGED <<head, tail, seq, notEmpty, notFull,
                 ticket, item, seen, second, calls, log>>

EnqPublish(p) ==
  /\ pc[p] = "enqPublish"
  /\ seq' = [seq EXCEPT ![Slot(ticket[p])] = ticket[p] + 1]
  /\ Goto(p, "enqCount")
  /\ UNCHANGED <<head, tail, cell, notEmpty, notFull,
                 ticket, item, seen, second, calls, log>>

EnqCount(p) ==
  /\ pc[p] = "enqCount"
  /\ notEmpty' = notEmpty + 1
  /\ Goto(p, "enqNotify")
  /\ UNCHANGED <<head, tail, seq, cell, notFull,
                 ticket, item, seen, second, calls, log>>

EnqNotify(p) ==
  /\ pc[p] = "enqNotify"
  /\ Notify(p, Consumers)
  /\ ticket' = [ticket EXCEPT ![p] = 0]
  /\ item' = [item EXCEPT ![p] = NoItem]
  /\ seen' = [seen EXCEPT ![p] = 0]
  /\ second' = [second EXCEPT ![p] = FALSE]
  /\ UNCHANGED <<ring, calls, log>>

(* Fault: no second try after the futex word is read.                      *)
EnqEventNoRetry(p) ==
  /\ pc[p] = "enqEvent"
  /\ seen' = [seen EXCEPT ![p] = notFull]
  /\ Goto(p, "enqWait")
  /\ UNCHANGED <<ring, ticket, item, second, calls, log>>

EnqEvent(p) ==
  /\ pc[p] = "enqEvent"
  /\ seen' = [seen EXCEPT ![p] = notFull]
  /\ second' = [second EXCEPT ![p] = TRUE]
  /\ Goto(p, "enqTail")
  /\ UNCHANGED <<ring, ticket, item, calls, log>>

(* FUTEX_WAIT sleeps only if the word still has the value read before.     *)
EnqWait(p) ==
  /\ pc[p] = "enqWait"
  /\ Goto(p, IF notFull = seen[p] THEN "asleep" ELSE "enqTail")
  /\ seen' = [seen EXCEPT ![p] = 0]
  /\ second' = [second EXCEPT ![p] = FALSE]
  /\ UNCHANGED <<ring, ticket, item, calls, log>>

-----------------------------------------------------------------------------
(* Consumers: try_dequeue, dequeue_blocking.                               *)

DeqCall(c) ==
  /\ pc[c] = "idle"
  /\ Goto(c, "deqHead")
  /\ UNCHANGED <<ring, ticket, item, seen, second, calls, log>>

DeqHead(c) ==
  /\ pc[c] = "deqHead"
  /\ ticket' = [ticket EXCEPT ![c] = head]
  /\ Goto(c, "deqSeq")
  /\ UNCHANGED <<ring, item, seen, second, calls, log>>

DeqSeq(c) ==
  /\ pc[c] = "deqSeq"
  /\ LET diff == seq[Slot(ticket[c])] - (ticket[c] + 1)
     IN  \/ /\ diff = 0
            /\ Goto(c, "deqCas")
            /\ UNCHANGED <<ticket, item, seen, second>>
         \/ /\ diff < 0
            /\ TryFails(c, "deqEvent", "deqWait")
         \/ /\ diff > 0
            /\ Goto(c, "deqHead")
            /\ UNCHANGED <<ticket, item, seen, second>>
  /\ UNCHANGED <<ring, calls, log>>

DeqClaim(c) ==
  /\ pc[c] = "deqCas"
  /\ head = ticket[c]
  /\ head' = head + 1
  /\ Goto(c, "deqCopy")
  /\ UNCHANGED <<tail, seq, cell, notEmpty, notFull,
                 ticket, item, seen, second, calls, log>>

DeqCasFails(c) ==
  /\ pc[c] = "deqCas"
  /\ Goto(c, "deqHead")
  /\ UNCHANGED <<ring, ticket, item, seen, second, calls, log>>

(* Fault: the slot of the current head is copied, not that of the ticket.  *)
DeqCopyAtHead(c) ==
  /\ pc[c] = "deqCopy"
  /\ item' = [item EXCEPT ![c] = cell[Slot(head)]]
  /\ Goto(c, "deqPublish")
  /\ UNCHANGED <<ring, ticket, seen, second, calls, log>>

DeqCopy(c) ==
  /\ pc[c] = "deqCopy"
  /\ item' = [item EXCEPT ![c] = cell[Slot(ticket[c])]]
  /\ Goto(c, "deqPublish")
  /\ UNCHANGED <<ring, ticket, seen, second, calls, log>>

DeqPublish(c) ==
  /\ pc[c] = "deqPublish"
  /\ seq' = [seq EXCEPT ![Slot(ticket[c])] = ticket[c] + Entries]
  /\ Goto(c, "deqCount")
  /\ UNCHANGED <<head, tail, cell, notEmpty, notFull,
                 ticket, item, seen, second, calls, log>>

(* Fault: the futex word is not bumped.                                    *)
DeqCountMissing(c) ==
  /\ pc[c] = "deqCount"
  /\ Goto(c, "deqNotify")
  /\ UNCHANGED <<ring, ticket, item, seen, second, calls, log>>

DeqCount(c) ==
  /\ pc[c] = "deqCount"
  /\ notFull' = notFull + 1
  /\ Goto(c, "deqNotify")
  /\ UNCHANGED <<head, tail, seq, cell, notEmpty,
                 ticket, item, seen, second, calls, log>>

DeqNotify(c) ==
  /\ pc[c] = "deqNotify"
  /\ Notify(c, Producers)
  /\ ticket' = [ticket EXCEPT ![c] = 0]
  /\ item' = [item EXCEPT ![c] = NoItem]
  /\ seen' = [seen EXCEPT ![c] = 0]
  /\ second' = [second EXCEPT ![c] = FALSE]
  /\ UNCHANGED <<ring, calls, log>>

(* Fault: no second try after the futex word is read.                      *)
DeqEventNoRetry(c) ==
  /\ pc[c] = "deqEvent"
  /\ seen' = [seen EXCEPT ![c] = notEmpty]
  /\ Goto(c, "deqWait")
  /\ UNCHANGED <<ring, ticket, item, second, calls, log>>

DeqEvent(c) ==
  /\ pc[c] = "deqEvent"
  /\ seen' = [seen EXCEPT ![c] = notEmpty]
  /\ second' = [second EXCEPT ![c] = TRUE]
  /\ Goto(c, "deqHead")
  /\ UNCHANGED <<ring, ticket, item, calls, log>>

DeqWait(c) ==
  /\ pc[c] = "deqWait"
  /\ Goto(c, IF notEmpty = seen[c] THEN "asleep" ELSE "deqHead")
  /\ seen' = [seen EXCEPT ![c] = 0]
  /\ second' = [second EXCEPT ![c] = FALSE]
  /\ UNCHANGED <<ring, ticket, item, calls, log>>

-----------------------------------------------------------------------------
(* The words of the code: a ticket is kept modulo Width, and the difference*)
(* of two tickets is taken for a number with a sign.                       *)
Word(n) == n % Width

(* Fault: the words are compared as they are.                              *)
WordDiffPlain(a, b) == Word(a) - Word(b)

WordDiff(a, b) ==
  LET diff == (Width + Word(a) - Word(b)) % Width
  IN  IF diff < Width \div 2 THEN diff ELSE diff - Width

-----------------------------------------------------------------------------
EnqStep(p) == \/ EnqTail(p) \/ EnqSeq(p) \/ EnqClaim(p) \/ EnqCasFails(p)
              \/ EnqCopy(p) \/ EnqPublish(p) \/ EnqCount(p) \/ EnqNotify(p)
              \/ EnqEvent(p) \/ EnqWait(p)

DeqStep(c) == \/ DeqHead(c) \/ DeqSeq(c) \/ DeqClaim(c) \/ DeqCasFails(c)
              \/ DeqCopy(c) \/ DeqPublish(c) \/ DeqCount(c) \/ DeqNotify(c)
              \/ DeqEvent(c) \/ DeqWait(c)

Next == \/ \E p \in Producers : EnqCall(p) \/ EnqStep(p)
        \/ \E c \in Consumers : DeqCall(c) \/ DeqStep(c)

Spec == Init /\ [][Next]_vars

(* A thread inside a call keeps running, and a weak compare-and-swap does  *)
(* not fail spuriously for ever.  Consumers (the worker loop, the          *)
(* dispatcher, the pump) call again whenever they have returned; no        *)
(* producer is obliged to call.                                            *)
Fairness ==
  /\ \A p \in Producers : WF_vars(EnqStep(p)) /\ SF_vars(EnqClaim(p))
  /\ \A c \in Consumers : WF_vars(DeqCall(c) \/ DeqStep(c)) /\ SF_vars(DeqClaim(c))

FairSpec == Spec /\ Fairness

-----------------------------------------------------------------------------
(* The types of the shared words and of the threads' locals.               *)
TypeOK ==
  /\ head \in Nat
  /\ tail \in Nat
  /\ seq \in [Slots -> Nat]
  /\ cell \in [Slots -> Items \cup {NoItem}]
  /\ notEmpty \in Nat
  /\ notFull \in Nat
  /\ pc \in [Threads -> PC]
  /\ ticket \in [Threads -> Nat]
  /\ item \in [Threads -> Items \cup {NoItem}]
  /\ seen \in [Threads -> Nat]
  /\ second \in [Threads -> BOOLEAN]
  /\ calls \in 0 .. MaxCalls
  /\ log \in Seq(Items)

(* The threads that are between winning a ticket and publishing its slot:  *)
(* they access the payload with plain memory operations.                   *)
InSlot == {th \in Threads : pc[th] \in {"enqCopy", "enqPublish",
                                       "deqCopy", "deqPublish"}}

(* Two threads never touch the payload of one slot at the same time.  The  *)
(* payload is copied by memcpy: this is what keeps it free of data races.  *)
SlotExclusive ==
  \A a, b \in InSlot : Slot(ticket[a]) = Slot(ticket[b]) => a = b

(* Why: the sequence number of a slot names the one ticket that may use    *)
(* it, and whether it is to be written or read.  A thread inside a slot    *)
(* has a ticket of its own, below the counter it was taken from ...        *)
Writer(th) == pc[th] \in {"enqCopy", "enqPublish"}
Reader(th) == pc[th] \in {"deqCopy", "deqPublish"}
OwnTickets ==
  /\ \A a \in Threads : Writer(a) => ticket[a] < tail /\ seq[Slot(ticket[a])] = ticket[a]
  /\ \A a \in Threads : Reader(a) => ticket[a] < head /\ seq[Slot(ticket[a])] = ticket[a] + 1
  /\ \A a, b \in Threads : Writer(a) /\ Writer(b) /\ a # b => ticket[a] # ticket[b]
  /\ \A a, b \in Threads : Reader(a) /\ Reader(b) /\ a # b => ticket[a] # ticket[b]

(* ... a thread that is about to claim a ticket has seen its slot ready ...*)
SeenReady ==
  \A a \in Threads : /\ pc[a] = "enqCas" => seq[Slot(ticket[a])] >= ticket[a]
                     /\ pc[a] = "deqCas" => seq[Slot(ticket[a])] >= ticket[a] + 1

(* ... and every slot stands for one ticket of the current window.         *)
SlotWindow ==
  /\ head <= tail
  /\ \A i \in Slots : \E x \in 0 .. head + Entries - 1 :
       /\ Slot(x) = i
       /\ seq[i] = x \/ (seq[i] = x + 1 /\ x < tail)

TicketInv == OwnTickets /\ SeenReady /\ SlotWindow

(* A thread compares a counter some time after it has read it: how far the *)
(* others have moved on, and how far they may for a difference to have room*)
(* beside its sign.                                                        *)
Behind(th) == (IF th \in Producers THEN tail ELSE head) - ticket[th]
Fresh(th) == Behind(th) + Entries <= Width \div 2

(* Words of 32 bits do for the tickets.  The difference of two words is    *)
(* that of the tickets if no thread sleeps over 2^31 items, less the slots,*)
(* between reading a counter and comparing it, and a compare-and-swap that *)
(* finds its word finds its ticket if none sleeps over 2^32.               *)
WordsSuffice ==
  /\ \A p \in Producers :
       /\ pc[p] = "enqSeq" /\ Fresh(p) =>
            WordDiff(seq[Slot(ticket[p])], ticket[p]) = seq[Slot(ticket[p])] - ticket[p]
       /\ pc[p] = "enqCas" /\ Behind(p) < Width =>
            (Word(tail) = Word(ticket[p])) = (tail = ticket[p])
  /\ \A c \in Consumers :
       /\ pc[c] = "deqSeq" /\ Fresh(c) =>
            WordDiff(seq[Slot(ticket[c])], ticket[c] + 1) = seq[Slot(ticket[c])] - (ticket[c] + 1)
       /\ pc[c] = "deqCas" /\ Behind(c) < Width =>
            (Word(head) = Word(ticket[c])) = (head = ticket[c])

(* A wake-up is never lost: the futex words are read before the second try *)
(* so that when every producer is out of the code and every consumer       *)
(* sleeps, nothing is left in the ring.                                    *)
NoItemLeftBehind ==
  (/\ \A p \in Producers : pc[p] \in {"idle", "asleep"}
   /\ \A c \in Consumers : pc[c] = "asleep") => head = tail

(* The dual for enqueue_blocking, which the completion queue relies on     *)
(* with its one dispatcher: a producer sleeps on a quiet ring only if the  *)
(* ring is full.  With several consumers a freed slot behind the head can  *)
(* take its wake-up, so it is stated for one.                              *)
NoFreeSlotMissed ==
  (/\ \A p \in Producers : pc[p] \in {"idle", "asleep"}
   /\ \E p \in Producers : pc[p] = "asleep"
   /\ \A c \in Consumers : pc[c] \in {"idle", "asleep"})
     => tail - head = Entries

(* The history of the ring refines a FIFO queue: a claimed ticket is the   *)
(* queue position of its item, and a consumer holds the item of the ticket *)
(* it has won from the moment it wins it.                                  *)
Fifo == INSTANCE BoundedFifo WITH
          Capacity <- Entries,
          queue <- SubSeq(log, head + 1, tail),
          hand <- [c \in Consumers |-> IF pc[c] = "deqCopy"
                                        THEN log[ticket[c] + 1]
                                        ELSE item[c]]

(* try_enqueue and try_dequeue together deliver every item exactly once,   *)
(* unaltered and in ticket order, and never more than Entries are queued.  *)
ImplementsFifo == Fifo!Spec

(* Everything enqueued is dequeued, however producers and consumers        *)
(* interleave and sleep.                                                   *)
EverythingDelivered ==
  \A n \in 1 .. Entries + 1 : (tail >= n) ~> (head >= n)

(* A blocking enqueue on a full ring returns once consumers make room.     *)
BlockedProducersReturn ==
  \A p \in Producers : (pc[p] # "idle") ~> (pc[p] = "idle")
=============================================================================
