---------------------------- MODULE RingProofs ----------------------------
(***************************************************************************)
(* Proofs about module Ring, for any number of slots (at least two), any   *)
(* sets of producers and consumers, blocking or polling, and any number of *)
(* calls: types, exclusion, the queue, the wake-ups, and that words of any *)
(* width that the number of slots divides do for the tickets.              *)
(***************************************************************************)
EXTENDS Ring, SequenceTheorems, FiniteSetTheorems, TLAPS

(* --- Arithmetic of slots ------------------------------------------------ *)

(* A ticket is a number of whole rounds and a slot.                        *)
LEMMA Division == \A t \in Nat : /\ t = Entries * (t \div Entries) + (t % Entries)
                                 /\ t \div Entries \in Nat
                                 /\ t % Entries \in 0 .. Entries - 1
  BY EntriesAssumption

(* Round and slot are determined by the ticket.                            *)
LEMMA Unique ==
  ASSUME NEW q \in Nat, NEW r \in Nat,
         NEW a \in 0 .. Entries - 1, NEW b \in 0 .. Entries - 1,
         Entries * q + a = Entries * r + b
  PROVE  q = r /\ a = b
<1>1. Entries \in Nat /\ Entries > 1
  BY EntriesAssumption
<1>2. ASSUME r >= q + 1 PROVE FALSE
  <2>1. Entries * r >= Entries * (q + 1)
    BY <1>1, <1>2, Z3
  <2>2. Entries * (q + 1) = Entries * q + Entries
    BY <1>1, Z3
  <2> QED
    BY <2>1, <2>2, <1>1
<1>3. ASSUME q >= r + 1 PROVE FALSE
  <2>1. Entries * q >= Entries * (r + 1)
    BY <1>1, <1>3, Z3
  <2>2. Entries * (r + 1) = Entries * r + Entries
    BY <1>1, Z3
  <2> QED
    BY <2>1, <2>2, <1>1
<1>4. q = r
  BY <1>1, <1>2, <1>3
<1> QED
  BY <1>4, <1>1

(* A ticket of the next round uses the same slot.                          *)
LEMMA NextRound == ASSUME NEW t \in Nat PROVE Slot(t + Entries) = Slot(t)
<1>1. t + Entries \in Nat /\ Entries \in Nat
  BY EntriesAssumption
<1>2. /\ t = Entries * (t \div Entries) + (t % Entries)
      /\ t \div Entries \in Nat /\ t % Entries \in 0 .. Entries - 1
  BY Division
<1>3. /\ t + Entries = Entries * ((t + Entries) \div Entries) + ((t + Entries) % Entries)
      /\ (t + Entries) \div Entries \in Nat
      /\ (t + Entries) % Entries \in 0 .. Entries - 1
  BY <1>1, Division
<1>4. Entries * ((t \div Entries) + 1) = Entries * (t \div Entries) + Entries
  BY <1>1, <1>2, Z3
<1>5. t + Entries = Entries * ((t \div Entries) + 1) + (t % Entries)
  BY <1>1, <1>2, <1>4
<1>6. (t \div Entries) + 1 \in Nat
  BY <1>2
<1> QED
  BY <1>2, <1>3, <1>5, <1>6, Unique DEF Slot

(* Two tickets less than a round apart have the same slot only if equal.   *)
LEMMA SameSlot ==
  ASSUME NEW x \in Nat, NEW y \in Nat, Slot(x) = Slot(y), x <= y, y < x + Entries
  PROVE  x = y
<1> DEFINE q == x \div Entries
           r == y \div Entries
<1>1. /\ q \in Nat /\ r \in Nat /\ Entries \in Nat /\ Entries > 1
      /\ x % Entries \in 0 .. Entries - 1
  BY EntriesAssumption, Division
<1>2. x = Entries * q + (x % Entries)
  BY Division
<1>3. y = Entries * r + (x % Entries)
  BY Division DEF Slot
<1> HIDE DEF q, r
<1>4. ASSUME r >= q + 1 PROVE FALSE
  <2>1. Entries * r >= Entries * (q + 1)
    BY <1>1, <1>4, Z3
  <2>2. Entries * (q + 1) = Entries * q + Entries
    BY <1>1, Z3
  <2> QED
    BY <2>1, <2>2, <1>1, <1>2, <1>3
<1>5. ASSUME q >= r + 1 PROVE FALSE
  <2>1. Entries * q >= Entries * (r + 1)
    BY <1>1, <1>5, Z3
  <2>2. Entries * (r + 1) = Entries * r + Entries
    BY <1>1, Z3
  <2> QED
    BY <2>1, <2>2, <1>1, <1>2, <1>3
<1>6. q = r
  BY <1>1, <1>4, <1>5
<1> QED
  BY <1>6, <1>2, <1>3

(* Neighbouring tickets use different slots.                               *)
LEMMA NextSlot == ASSUME NEW x \in Nat PROVE Slot(x + 1) # Slot(x)
<1>1. x <= x + 1 /\ x + 1 < x + Entries /\ x + 1 \in Nat /\ x + 1 # x
  BY EntriesAssumption
<1> QED
  BY <1>1, SameSlot

LEMMA SlotRange == \A t \in Nat : Slot(t) \in Slots
  BY Division DEF Slot, Slots

(* --- Types --------------------------------------------------------------- *)

(* A producer inside a call has an item to put.                            *)
ItemHeld == \A p \in Producers : pc[p] # "idle" => item[p] \in Items

TypeInv == TypeOK /\ ItemHeld

LEMMA TypeInit == Init => TypeInv
  BY EntriesAssumption, MaxCallsAssumption DEF Init, TypeInv, TypeOK, ItemHeld, Slots, PC, Threads

LEMMA TypeStep == TypeInv /\ [Next]_vars => TypeInv'
<1> SUFFICES ASSUME TypeInv, [Next]_vars PROVE TypeInv'
  OBVIOUS
<1> USE EntriesAssumption, ThreadsAssumption, NoItemAssumption, MaxCallsAssumption
<1> USE DEF TypeInv, TypeOK, ItemHeld, PC, Threads, Goto, ring
<1>1. ASSUME NEW p \in Producers, EnqCall(p) PROVE TypeInv'
  BY <1>1 DEF EnqCall
<1>2. ASSUME NEW p \in Producers, EnqTail(p) PROVE TypeInv'
  BY <1>2 DEF EnqTail
<1>3. ASSUME NEW p \in Producers, EnqSeq(p) PROVE TypeInv'
  <2>1. CASE TryFails(p, "enqEvent", "enqWait") /\ UNCHANGED <<ring, calls, log>>
    <3>1. CASE p \notin Blocking
      <4>1. /\ pc' = [pc EXCEPT ![p] = "idle"]
            /\ ticket' = [ticket EXCEPT ![p] = 0]
            /\ item' = [item EXCEPT ![p] = NoItem]
            /\ seen' = [seen EXCEPT ![p] = 0]
            /\ second' = [second EXCEPT ![p] = FALSE]
            /\ UNCHANGED <<head, tail, seq, cell, notEmpty, notFull, calls, log>>
        BY <2>1, <3>1 DEF TryFails, Leave
      <4>2. TypeOK'
        BY <4>1
      <4> QED
        BY <4>1, <4>2
    <3>2. CASE p \in Blocking
      <4>1. /\ \/ pc' = [pc EXCEPT ![p] = "enqEvent"]
               \/ pc' = [pc EXCEPT ![p] = "enqWait"]
            /\ ticket' = [ticket EXCEPT ![p] = 0]
            /\ UNCHANGED <<item, seen, second, head, tail, seq, cell, notEmpty,
                           notFull, calls, log>>
        BY <2>1, <3>2 DEF TryFails
      <4>2. TypeOK'
        BY <4>1
      <4> QED
        BY <4>1, <4>2, <1>3 DEF EnqSeq
    <3> QED
      BY <3>1, <3>2
  <2>2. CASE /\ Goto(p, "enqCas") \/ Goto(p, "enqTail")
             /\ UNCHANGED <<ring, ticket, item, seen, second, calls, log>>
    BY <2>2, <1>3 DEF EnqSeq
  <2> QED
    BY <1>3, <2>1, <2>2 DEF EnqSeq
<1>4. ASSUME NEW p \in Producers, EnqClaim(p) PROVE TypeInv'
  BY <1>4 DEF EnqClaim
<1>5. ASSUME NEW p \in Producers, EnqCasFails(p) PROVE TypeInv'
  BY <1>5 DEF EnqCasFails
<1>6. ASSUME NEW p \in Producers, EnqCopy(p) PROVE TypeInv'
  BY <1>6, SlotRange DEF EnqCopy
<1>7. ASSUME NEW p \in Producers, EnqPublish(p) PROVE TypeInv'
  <2>1. ticket[p] \in Nat /\ Slot(ticket[p]) \in Slots
    BY SlotRange
  <2>2. seq' \in [Slots -> Nat]
    BY <1>7, <2>1 DEF EnqPublish
  <2> QED
    BY <1>7, <2>2 DEF EnqPublish
<1>8. ASSUME NEW p \in Producers, EnqCount(p) PROVE TypeInv'
  BY <1>8 DEF EnqCount
<1>9. ASSUME NEW p \in Producers, EnqNotify(p) PROVE TypeInv'
  BY <1>9 DEF EnqNotify, Notify
<1>10. ASSUME NEW p \in Producers, EnqEvent(p) PROVE TypeInv'
  BY <1>10 DEF EnqEvent
<1>11. ASSUME NEW p \in Producers, EnqWait(p) PROVE TypeInv'
  BY <1>11 DEF EnqWait
<1>12. ASSUME NEW c \in Consumers, DeqCall(c) PROVE TypeInv'
  BY <1>12 DEF DeqCall
<1>13. ASSUME NEW c \in Consumers, DeqHead(c) PROVE TypeInv'
  BY <1>13 DEF DeqHead
<1>14. ASSUME NEW c \in Consumers, DeqSeq(c) PROVE TypeInv'
  <2>1. CASE TryFails(c, "deqEvent", "deqWait") /\ UNCHANGED <<ring, calls, log>>
    <3>1. CASE c \notin Blocking
      <4>1. /\ pc' = [pc EXCEPT ![c] = "idle"]
            /\ ticket' = [ticket EXCEPT ![c] = 0]
            /\ item' = [item EXCEPT ![c] = NoItem]
            /\ seen' = [seen EXCEPT ![c] = 0]
            /\ second' = [second EXCEPT ![c] = FALSE]
            /\ UNCHANGED <<head, tail, seq, cell, notEmpty, notFull, calls, log>>
        BY <2>1, <3>1 DEF TryFails, Leave
      <4>2. TypeOK'
        BY <4>1
      <4> QED
        BY <4>1, <4>2
    <3>2. CASE c \in Blocking
      <4>1. /\ \/ pc' = [pc EXCEPT ![c] = "deqEvent"]
               \/ pc' = [pc EXCEPT ![c] = "deqWait"]
            /\ ticket' = [ticket EXCEPT ![c] = 0]
            /\ UNCHANGED <<item, seen, second, head, tail, seq, cell, notEmpty,
                           notFull, calls, log>>
        BY <2>1, <3>2 DEF TryFails
      <4>2. TypeOK'
        BY <4>1
      <4> QED
        BY <4>1, <4>2, <1>14 DEF DeqSeq
    <3> QED
      BY <3>1, <3>2
  <2>2. CASE /\ Goto(c, "deqCas") \/ Goto(c, "deqHead")
             /\ UNCHANGED <<ring, ticket, item, seen, second, calls, log>>
    BY <2>2, <1>14 DEF DeqSeq
  <2> QED
    BY <1>14, <2>1, <2>2 DEF DeqSeq
<1>15. ASSUME NEW c \in Consumers, DeqClaim(c) PROVE TypeInv'
  BY <1>15 DEF DeqClaim
<1>16. ASSUME NEW c \in Consumers, DeqCasFails(c) PROVE TypeInv'
  BY <1>16 DEF DeqCasFails
<1>17. ASSUME NEW c \in Consumers, DeqCopy(c) PROVE TypeInv'
  BY <1>17, SlotRange DEF DeqCopy
<1>18. ASSUME NEW c \in Consumers, DeqPublish(c) PROVE TypeInv'
  <2>1. ticket[c] \in Nat /\ Slot(ticket[c]) \in Slots
    BY SlotRange
  <2>2. seq' \in [Slots -> Nat]
    BY <1>18, <2>1 DEF DeqPublish
  <2> QED
    BY <1>18, <2>2 DEF DeqPublish
<1>19. ASSUME NEW c \in Consumers, DeqCount(c) PROVE TypeInv'
  BY <1>19 DEF DeqCount
<1>20. ASSUME NEW c \in Consumers, DeqNotify(c) PROVE TypeInv'
  BY <1>20 DEF DeqNotify, Notify
<1>21. ASSUME NEW c \in Consumers, DeqEvent(c) PROVE TypeInv'
  BY <1>21 DEF DeqEvent
<1>22. ASSUME NEW c \in Consumers, DeqWait(c) PROVE TypeInv'
  BY <1>22 DEF DeqWait
<1>23. CASE UNCHANGED vars
  BY <1>23 DEF vars, locals
<1> QED
  BY <1>1, <1>2, <1>3, <1>4, <1>5, <1>6, <1>7, <1>8, <1>9, <1>10, <1>11, <1>12,
     <1>13, <1>14, <1>15, <1>16, <1>17, <1>18, <1>19, <1>20, <1>21, <1>22, <1>23
  DEF Next, EnqStep, DeqStep

(* Every variable of the ring keeps its type, for any number of slots,     *)
(* threads and calls.                                                      *)
THEOREM TypeCorrect == Spec => []TypeOK
<1>1. TypeInv => TypeOK
  BY DEF TypeInv
<1> QED
  BY <1>1, TypeInit, TypeStep, PTL DEF Spec

(* --- Who may use a slot --------------------------------------------------- *)

(* A step that leaves the counters and sequence numbers alone, lets nobody *)
(* into a slot, and brings nobody to a compare-and-swap on a slot that is  *)
(* not ready.                                                              *)
Quiet ==
  /\ UNCHANGED <<head, tail, seq>>
  /\ \A a \in Threads : Writer(a)' => Writer(a) /\ ticket'[a] = ticket[a]
  /\ \A a \in Threads : Reader(a)' => Reader(a) /\ ticket'[a] = ticket[a]
  /\ \A a \in Threads : pc'[a] = "enqCas" => seq[Slot(ticket'[a])] >= ticket'[a]
  /\ \A a \in Threads : pc'[a] = "deqCas" => seq[Slot(ticket'[a])] >= ticket'[a] + 1

LEMMA QuietKeeps == TicketInv /\ Quiet => TicketInv'
<1> SUFFICES ASSUME TicketInv, Quiet PROVE TicketInv'
  OBVIOUS
<1>1. OwnTickets'
  BY DEF OwnTickets, TicketInv, Quiet
<1>2. SeenReady'
  BY DEF SeenReady, TicketInv, Quiet
<1>3. SlotWindow'
  BY DEF SlotWindow, TicketInv, Quiet
<1> QED
  BY <1>1, <1>2, <1>3 DEF TicketInv

(* A slot that is ready for a ticket at or beyond the tail is ready for    *)
(* exactly that ticket, and the ring is not full.                          *)
LEMMA ReadyToWrite ==
  ASSUME TypeInv, SlotWindow, seq[Slot(tail)] >= tail
  PROVE  seq[Slot(tail)] = tail /\ tail < head + Entries
<1>1. /\ head \in Nat /\ tail \in Nat /\ Entries \in Nat /\ Entries > 1
      /\ Slot(tail) \in Slots
  BY SlotRange, EntriesAssumption DEF TypeInv, TypeOK
<1>2. PICK x \in 0 .. head + Entries - 1 :
        /\ Slot(x) = Slot(tail)
        /\ seq[Slot(tail)] = x \/ (seq[Slot(tail)] = x + 1 /\ x < tail)
  BY <1>1 DEF SlotWindow
<1>3. x \in Nat /\ head <= tail
  BY <1>1, <1>2 DEF SlotWindow
<1>4. CASE seq[Slot(tail)] = x
  <2>1. tail <= x /\ x < tail + Entries
    BY <1>1, <1>2, <1>3, <1>4
  <2>2. tail = x
    BY <2>1, <1>1, <1>2, <1>3, SameSlot
  <2> QED
    BY <2>2, <1>1, <1>2, <1>4
<1>5. CASE seq[Slot(tail)] = x + 1 /\ x < tail
  <2>1. tail = x + 1
    BY <1>1, <1>3, <1>5
  <2> QED
    BY <2>1, <1>2, <1>3, NextSlot
<1> QED
  BY <1>2, <1>4, <1>5

(* A slot that is ready for the head to be read has been written.          *)
LEMMA ReadyToRead ==
  ASSUME TypeInv, SlotWindow, seq[Slot(head)] >= head + 1
  PROVE  seq[Slot(head)] = head + 1 /\ head < tail
<1>1. /\ head \in Nat /\ tail \in Nat /\ Entries \in Nat /\ Entries > 1
      /\ Slot(head) \in Slots
  BY SlotRange, EntriesAssumption DEF TypeInv, TypeOK
<1>2. PICK x \in 0 .. head + Entries - 1 :
        /\ Slot(x) = Slot(head)
        /\ seq[Slot(head)] = x \/ (seq[Slot(head)] = x + 1 /\ x < tail)
  BY <1>1 DEF SlotWindow
<1>3. x \in Nat /\ head <= x /\ x < head + Entries
  BY <1>1, <1>2
<1>4. head = x
  BY <1>1, <1>2, <1>3, SameSlot
<1> QED
  BY <1>1, <1>2, <1>4

(* A thread inside a slot shares it with nobody.                           *)
LEMMA TicketInvExcludes == TypeInv /\ OwnTickets => SlotExclusive
<1> SUFFICES ASSUME TypeInv, OwnTickets,
                    NEW a \in InSlot, NEW b \in InSlot,
                    Slot(ticket[a]) = Slot(ticket[b])
             PROVE  a = b
  BY DEF SlotExclusive
<1>1. /\ a \in Threads /\ b \in Threads
      /\ ticket[a] \in Nat /\ ticket[b] \in Nat
      /\ Writer(a) \/ Reader(a)
      /\ Writer(b) \/ Reader(b)
  BY DEF InSlot, Writer, Reader, TypeInv, TypeOK
<1>2. ASSUME Writer(a), Reader(b) PROVE FALSE
  <2>1. ticket[a] = ticket[b] + 1
    BY <1>1, <1>2 DEF OwnTickets
  <2> QED
    BY <2>1, <1>1, NextSlot
<1>3. ASSUME Reader(a), Writer(b) PROVE FALSE
  <2>1. ticket[b] = ticket[a] + 1
    BY <1>1, <1>3 DEF OwnTickets
  <2> QED
    BY <2>1, <1>1, NextSlot
<1>4. CASE Writer(a) /\ Writer(b)
  BY <1>1, <1>4 DEF OwnTickets
<1>5. CASE Reader(a) /\ Reader(b)
  <2>1. ticket[a] + 1 = ticket[b] + 1
    BY <1>1, <1>5 DEF OwnTickets
  <2> QED
    BY <2>1, <1>1, <1>5 DEF OwnTickets
<1> QED
  BY <1>1, <1>2, <1>3, <1>4, <1>5

LEMMA TicketInit == Init => TicketInv
<1> SUFFICES ASSUME Init PROVE TicketInv
  OBVIOUS
<1>1. OwnTickets /\ SeenReady
  BY DEF Init, OwnTickets, SeenReady, Writer, Reader
<1>2. SlotWindow
  <2>1. ASSUME NEW i \in Slots PROVE Slot(i) = i
    <3>1. i \in Nat /\ i \in 0 .. Entries - 1 /\ Entries \in Nat
      BY EntriesAssumption DEF Slots
    <3>2. i = Entries * (i \div Entries) + (i % Entries)
          /\ i \div Entries \in Nat /\ i % Entries \in 0 .. Entries - 1
      BY <3>1, Division
    <3>3. Entries * 0 + i = i
      BY <3>1
    <3> QED
      BY <3>1, <3>2, <3>3, Unique DEF Slot
  <2> QED
    BY <2>1, EntriesAssumption DEF Init, SlotWindow, Slots
<1> QED
  BY <1>1, <1>2 DEF TicketInv

(* The producers' steps that are quiet.                                    *)
LEMMA EnqQuiet ==
  ASSUME TypeInv, TicketInv, NEW p \in Producers,
         \/ EnqCall(p) \/ EnqTail(p) \/ EnqSeq(p) \/ EnqCasFails(p)
         \/ EnqCopy(p) \/ EnqCount(p) \/ EnqNotify(p) \/ EnqEvent(p) \/ EnqWait(p)
  PROVE  Quiet
<1> USE ThreadsAssumption
<1> USE DEF TypeInv, TypeOK, TicketInv, SeenReady, Quiet, Writer, Reader, Threads, Goto, ring
<1>1. CASE EnqCall(p)
  BY <1>1 DEF EnqCall
<1>2. CASE EnqTail(p)
  BY <1>2 DEF EnqTail
<1>3. CASE EnqSeq(p)
  <2>1. CASE TryFails(p, "enqEvent", "enqWait")
    <3>1. UNCHANGED <<head, tail, seq>>
      BY <1>3 DEF EnqSeq
    <3>2. CASE pc' = [pc EXCEPT ![p] = "idle"]
      BY <2>1, <3>1, <3>2 DEF TryFails, Leave
    <3>3. CASE pc' = [pc EXCEPT ![p] = "enqWait"]
      BY <2>1, <3>1, <3>3 DEF TryFails, Leave
    <3>4. CASE pc' = [pc EXCEPT ![p] = "enqEvent"]
      BY <2>1, <3>1, <3>4 DEF TryFails, Leave
    <3> QED
      BY <2>1, <3>2, <3>3, <3>4 DEF TryFails, Leave
  <2>2. CASE /\ seq[Slot(ticket[p])] - ticket[p] = 0
             /\ Goto(p, "enqCas")
             /\ UNCHANGED ticket
    <3>1. seq[Slot(ticket[p])] \in Nat /\ ticket[p] \in Nat
      BY SlotRange
    <3>2. seq[Slot(ticket[p])] >= ticket[p]
      BY <2>2, <3>1
    <3> QED
      BY <1>3, <2>2, <3>2 DEF EnqSeq
  <2>3. CASE Goto(p, "enqTail") /\ UNCHANGED ticket
    BY <1>3, <2>3 DEF EnqSeq
  <2> QED
    BY <1>3, <2>1, <2>2, <2>3 DEF EnqSeq
<1>4. CASE EnqCasFails(p)
  BY <1>4 DEF EnqCasFails
<1>5. CASE EnqCopy(p)
  BY <1>5 DEF EnqCopy
<1>6. CASE EnqCount(p)
  BY <1>6 DEF EnqCount
<1>7. CASE EnqNotify(p)
  BY <1>7 DEF EnqNotify, Notify
<1>8. CASE EnqEvent(p)
  BY <1>8 DEF EnqEvent
<1>9. CASE EnqWait(p)
  BY <1>9 DEF EnqWait
<1> QED
  BY <1>1, <1>2, <1>3, <1>4, <1>5, <1>6, <1>7, <1>8, <1>9

(* The consumers' steps that are quiet.                                    *)
LEMMA DeqQuiet ==
  ASSUME TypeInv, TicketInv, NEW c \in Consumers,
         \/ DeqCall(c) \/ DeqHead(c) \/ DeqSeq(c) \/ DeqCasFails(c)
         \/ DeqCopy(c) \/ DeqCount(c) \/ DeqNotify(c) \/ DeqEvent(c) \/ DeqWait(c)
  PROVE  Quiet
<1> USE ThreadsAssumption
<1> USE DEF TypeInv, TypeOK, TicketInv, SeenReady, Quiet, Writer, Reader, Threads, Goto, ring
<1>1. CASE DeqCall(c)
  BY <1>1 DEF DeqCall
<1>2. CASE DeqHead(c)
  BY <1>2 DEF DeqHead
<1>3. CASE DeqSeq(c)
  <2>1. CASE TryFails(c, "deqEvent", "deqWait")
    <3>1. UNCHANGED <<head, tail, seq>>
      BY <1>3 DEF DeqSeq
    <3>2. CASE pc' = [pc EXCEPT ![c] = "idle"]
      BY <2>1, <3>1, <3>2 DEF TryFails, Leave
    <3>3. CASE pc' = [pc EXCEPT ![c] = "deqWait"]
      BY <2>1, <3>1, <3>3 DEF TryFails, Leave
    <3>4. CASE pc' = [pc EXCEPT ![c] = "deqEvent"]
      BY <2>1, <3>1, <3>4 DEF TryFails, Leave
    <3> QED
      BY <2>1, <3>2, <3>3, <3>4 DEF TryFails, Leave
  <2>2. CASE /\ seq[Slot(ticket[c])] - (ticket[c] + 1) = 0
             /\ Goto(c, "deqCas")
             /\ UNCHANGED ticket
    <3>1. seq[Slot(ticket[c])] \in Nat /\ ticket[c] \in Nat
      BY SlotRange
    <3>2. seq[Slot(ticket[c])] >= ticket[c] + 1
      BY <2>2, <3>1
    <3> QED
      BY <1>3, <2>2, <3>2 DEF DeqSeq
  <2>3. CASE Goto(c, "deqHead") /\ UNCHANGED ticket
    BY <1>3, <2>3 DEF DeqSeq
  <2> QED
    BY <1>3, <2>1, <2>2, <2>3 DEF DeqSeq
<1>4. CASE DeqCasFails(c)
  BY <1>4 DEF DeqCasFails
<1>5. CASE DeqCopy(c)
  BY <1>5 DEF DeqCopy
<1>6. CASE DeqCount(c)
  BY <1>6 DEF DeqCount
<1>7. CASE DeqNotify(c)
  BY <1>7 DEF DeqNotify, Notify
<1>8. CASE DeqEvent(c)
  BY <1>8 DEF DeqEvent
<1>9. CASE DeqWait(c)
  BY <1>9 DEF DeqWait
<1> QED
  BY <1>1, <1>2, <1>3, <1>4, <1>5, <1>6, <1>7, <1>8, <1>9

(* Winning a ticket to write.                                              *)
LEMMA EnqClaimKeeps ==
  ASSUME TypeInv, TicketInv, NEW p \in Producers, EnqClaim(p) PROVE TicketInv'
<1> USE DEF TypeInv, TypeOK, Threads, Goto
<1>1. /\ pc[p] = "enqCas" /\ tail = ticket[p] /\ tail' = tail + 1
      /\ pc' = [pc EXCEPT ![p] = "enqCopy"]
      /\ UNCHANGED <<head, seq, ticket>>
      /\ head \in Nat /\ tail \in Nat /\ \A a \in Threads : ticket[a] \in Nat
  BY DEF EnqClaim
<1>2. seq[Slot(tail)] = tail
  BY <1>1, ReadyToWrite DEF TicketInv, SeenReady
<1>3. OwnTickets'
  BY <1>1, <1>2 DEF OwnTickets, TicketInv, Writer, Reader
<1>4. SeenReady'
  BY <1>1 DEF SeenReady, TicketInv
<1>5. SlotWindow'
  <2>1. head' <= tail'
    BY <1>1 DEF TicketInv, SlotWindow
  <2>2. \A x \in 0 .. head + Entries - 1 : x < tail => x < tail'
    BY <1>1, EntriesAssumption
  <2> QED
    BY <1>1, <2>1, <2>2 DEF SlotWindow, TicketInv
<1> QED
  BY <1>3, <1>4, <1>5 DEF TicketInv

(* Winning a ticket to read.                                               *)
LEMMA DeqClaimKeeps ==
  ASSUME TypeInv, TicketInv, NEW c \in Consumers, DeqClaim(c) PROVE TicketInv'
<1> USE DEF TypeInv, TypeOK, Threads, Goto
<1>1. /\ pc[c] = "deqCas" /\ head = ticket[c] /\ head' = head + 1
      /\ pc' = [pc EXCEPT ![c] = "deqCopy"]
      /\ UNCHANGED <<tail, seq, ticket>>
      /\ head \in Nat /\ tail \in Nat /\ \A a \in Threads : ticket[a] \in Nat
  BY DEF DeqClaim
<1>2. seq[Slot(head)] = head + 1 /\ head < tail
  BY <1>1, ReadyToRead DEF TicketInv, SeenReady
<1>3. OwnTickets'
  BY <1>1, <1>2 DEF OwnTickets, TicketInv, Writer, Reader
<1>4. SeenReady'
  BY <1>1 DEF SeenReady, TicketInv
<1>5. SlotWindow'
  <2>1. head' <= tail'
    BY <1>1, <1>2
  <2>2. \A x \in 0 .. head + Entries - 1 : x \in 0 .. head' + Entries - 1
    BY <1>1, EntriesAssumption
  <2> QED
    BY <1>1, <2>1, <2>2 DEF SlotWindow, TicketInv
<1> QED
  BY <1>3, <1>4, <1>5 DEF TicketInv

(* A slot passes on to the next state: from written to readable, or from   *)
(* read to writable in the next round.  The thread that does it is the     *)
(* only one in the slot.                                                   *)
LEMMA PublishKeeps ==
  ASSUME TypeInv, TypeInv', TicketInv, NEW th \in Threads, NEW n \in Nat,
         th \in InSlot, th \notin InSlot',
         pc'[th] \notin {"enqCas", "deqCas"},
         \A a \in Threads \ {th} : pc'[a] = pc[a],
         seq' = [seq EXCEPT ![Slot(ticket[th])] = n],
         UNCHANGED <<head, tail, ticket>>,
         n > seq[Slot(ticket[th])],
         \E x \in 0 .. head + Entries - 1 :
           /\ Slot(x) = Slot(ticket[th])
           /\ n = x \/ (n = x + 1 /\ x < tail)
  PROVE  TicketInv'
<1> USE DEF TypeInv, TypeOK
<1>1. /\ \A a \in Threads : ticket[a] \in Nat /\ Slot(ticket[a]) \in Slots
      /\ \A i \in Slots : seq[i] \in Nat
      /\ \A i \in Slots \ {Slot(ticket[th])} : seq'[i] = seq[i]
      /\ seq'[Slot(ticket[th])] = n
  BY SlotRange
<1>2. \A a \in Threads : (Writer(a) \/ Reader(a)) <=> a \in InSlot
  BY DEF Writer, Reader, InSlot
<1>3. \A a \in Threads : (Writer(a) \/ Reader(a))' <=> a \in InSlot'
  BY DEF Writer, Reader, InSlot
<1>4. ASSUME NEW a \in Threads, (Writer(a) \/ Reader(a))'
      PROVE  /\ a # th
             /\ Writer(a)' <=> Writer(a)
             /\ Reader(a)' <=> Reader(a)
             /\ seq'[Slot(ticket[a])] = seq[Slot(ticket[a])]
  <2>1. a # th
    BY <1>3, <1>4
  <2>2. (Writer(a)' <=> Writer(a)) /\ (Reader(a)' <=> Reader(a))
    BY <2>1 DEF Writer, Reader
  <2>3. Slot(ticket[a]) # Slot(ticket[th])
    BY <1>2, <1>4, <2>1, <2>2, TicketInvExcludes DEF TicketInv, SlotExclusive
  <2> QED
    BY <1>1, <2>1, <2>2, <2>3
<1>5. OwnTickets'
  BY <1>4 DEF OwnTickets, TicketInv
<1>6. SeenReady'
  <2>1. \A i \in Slots : seq'[i] >= seq[i]
    BY <1>1
  <2>2. ASSUME NEW a \in Threads, pc'[a] = "enqCas"
        PROVE  seq'[Slot(ticket[a])] >= ticket[a]
    <3>1. seq[Slot(ticket[a])] >= ticket[a] /\ Slot(ticket[a]) \in Slots
      BY <1>1, <2>2 DEF SeenReady, TicketInv
    <3>2. /\ seq[Slot(ticket[a])] \in Nat /\ ticket[a] \in Nat
          /\ seq'[Slot(ticket[a])] \in Nat
          /\ seq'[Slot(ticket[a])] >= seq[Slot(ticket[a])]
      BY <1>1, <2>1, <3>1
    <3> HIDE DEF TypeInv, TypeOK
    <3> QED
      BY <3>1, <3>2
  <2>3. ASSUME NEW a \in Threads, pc'[a] = "deqCas"
        PROVE  seq'[Slot(ticket[a])] >= ticket[a] + 1
    <3>1. seq[Slot(ticket[a])] >= ticket[a] + 1 /\ Slot(ticket[a]) \in Slots
      BY <1>1, <2>3 DEF SeenReady, TicketInv
    <3>2. /\ seq[Slot(ticket[a])] \in Nat /\ ticket[a] \in Nat
          /\ seq'[Slot(ticket[a])] \in Nat
          /\ seq'[Slot(ticket[a])] >= seq[Slot(ticket[a])]
      BY <1>1, <2>1, <3>1
    <3> HIDE DEF TypeInv, TypeOK
    <3> QED
      BY <3>1, <3>2
  <2> QED
    BY <2>2, <2>3 DEF SeenReady
<1>7. SlotWindow'
  <2>1. ASSUME NEW i \in Slots
        PROVE  \E x \in 0 .. head + Entries - 1 :
                 /\ Slot(x) = i
                 /\ seq'[i] = x \/ (seq'[i] = x + 1 /\ x < tail)
    <3>1. CASE i = Slot(ticket[th])
      BY <1>1, <3>1
    <3>2. CASE i # Slot(ticket[th])
      BY <1>1, <3>2 DEF SlotWindow, TicketInv
    <3> QED
      BY <3>1, <3>2
  <2> QED
    BY <2>1 DEF SlotWindow, TicketInv
<1> QED
  BY <1>5, <1>6, <1>7 DEF TicketInv

(* A writer hands its slot to the reader of the same ticket.               *)
LEMMA EnqPublishKeeps ==
  ASSUME TypeInv, TypeInv', TicketInv, NEW p \in Producers, EnqPublish(p)
  PROVE  TicketInv'
<1> DEFINE t == ticket[p]
<1>1. /\ p \in Threads /\ t \in Nat /\ Slot(t) \in Slots
      /\ head \in Nat /\ Entries \in Nat /\ tail \in Nat
  BY SlotRange, EntriesAssumption DEF TypeInv, TypeOK, Threads
<1>2. /\ pc[p] = "enqPublish"
      /\ pc' = [pc EXCEPT ![p] = "enqCount"]
      /\ seq' = [seq EXCEPT ![Slot(t)] = t + 1]
      /\ UNCHANGED <<head, tail, ticket>>
  BY DEF EnqPublish, Goto
<1>3. t < tail /\ seq[Slot(t)] = t
  BY <1>1, <1>2 DEF OwnTickets, TicketInv, Writer
<1>4. PICK x \in 0 .. head + Entries - 1 :
        Slot(x) = Slot(t) /\ (seq[Slot(t)] = x \/ (seq[Slot(t)] = x + 1 /\ x < tail))
  BY <1>1 DEF SlotWindow, TicketInv
<1>5. x = t
  BY <1>1, <1>3, <1>4, NextSlot
<1>6. /\ p \in InSlot /\ p \notin InSlot' /\ pc'[p] = "enqCount"
      /\ \A a \in Threads \ {p} : pc'[a] = pc[a]
  BY <1>1, <1>2 DEF InSlot, TypeInv, TypeOK
<1>7. t + 1 \in Nat /\ t + 1 > seq[Slot(t)]
  BY <1>1, <1>3
<1>8. \E y \in 0 .. head + Entries - 1 :
        Slot(y) = Slot(t) /\ (t + 1 = y \/ (t + 1 = y + 1 /\ y < tail))
  BY <1>3, <1>4, <1>5
<1> QED
  BY <1>1, <1>2, <1>6, <1>7, <1>8, PublishKeeps

(* A reader hands its slot to the writer of the next round.                *)
LEMMA DeqPublishKeeps ==
  ASSUME TypeInv, TypeInv', TicketInv, NEW c \in Consumers, DeqPublish(c)
  PROVE  TicketInv'
<1> DEFINE t == ticket[c]
<1>1. /\ c \in Threads /\ t \in Nat /\ Slot(t) \in Slots
      /\ head \in Nat /\ Entries \in Nat /\ Entries > 1 /\ tail \in Nat
  BY SlotRange, EntriesAssumption DEF TypeInv, TypeOK, Threads
<1>2. /\ pc[c] = "deqPublish"
      /\ pc' = [pc EXCEPT ![c] = "deqCount"]
      /\ seq' = [seq EXCEPT ![Slot(t)] = t + Entries]
      /\ UNCHANGED <<head, tail, ticket>>
  BY DEF DeqPublish, Goto
<1>3. t < head /\ seq[Slot(t)] = t + 1
  BY <1>1, <1>2 DEF OwnTickets, TicketInv, Reader
<1>4. /\ c \in InSlot /\ c \notin InSlot' /\ pc'[c] = "deqCount"
      /\ \A a \in Threads \ {c} : pc'[a] = pc[a]
  BY <1>1, <1>2 DEF InSlot, TypeInv, TypeOK
<1>5. t + Entries \in Nat /\ t + Entries > seq[Slot(t)]
  BY <1>1, <1>3
<1>6. t + Entries \in 0 .. head + Entries - 1 /\ Slot(t + Entries) = Slot(t)
  BY <1>1, <1>3, NextRound
<1> QED
  BY <1>1, <1>2, <1>4, <1>5, <1>6, PublishKeeps

LEMMA TicketStep == TypeInv /\ TypeInv' /\ TicketInv /\ [Next]_vars => TicketInv'
<1> SUFFICES ASSUME TypeInv, TypeInv', TicketInv, [Next]_vars PROVE TicketInv'
  OBVIOUS
<1>1. ASSUME NEW p \in Producers, EnqCall(p) \/ EnqStep(p) PROVE TicketInv'
  BY <1>1, EnqQuiet, QuietKeeps, EnqClaimKeeps, EnqPublishKeeps DEF EnqStep
<1>2. ASSUME NEW c \in Consumers, DeqCall(c) \/ DeqStep(c) PROVE TicketInv'
  BY <1>2, DeqQuiet, QuietKeeps, DeqClaimKeeps, DeqPublishKeeps DEF DeqStep
<1>3. CASE UNCHANGED vars
  <2>1. Quiet
    BY <1>3 DEF vars, ring, locals, Quiet, Writer, Reader, TicketInv, SeenReady
  <2> QED
    BY <2>1, QuietKeeps
<1> QED
  BY <1>1, <1>2, <1>3 DEF Next

(* The sequence number of a slot always names the one ticket that may use  *)
(* it, for any number of slots, threads and calls: the claim of            *)
(* try_enqueue and try_dequeue is sound however they interleave.           *)
THEOREM TicketsInTurn == Spec => []TicketInv
<1>1. Init => TypeInv /\ TicketInv
  BY TypeInit, TicketInit
<1>2. TypeInv /\ TicketInv /\ [Next]_vars => (TypeInv /\ TicketInv)'
  BY TypeStep, TicketStep
<1> QED
  BY <1>1, <1>2, PTL DEF Spec

(* No two threads are ever inside one slot: the payloads, copied with      *)
(* plain memory accesses, are free of data races.                          *)
THEOREM SlotsExclusive == Spec => []SlotExclusive
<1>1. Init => TypeInv /\ TicketInv
  BY TypeInit, TicketInit
<1>2. TypeInv /\ TicketInv /\ [Next]_vars => (TypeInv /\ TicketInv)'
  BY TypeStep, TicketStep
<1>3. TypeInv /\ TicketInv => SlotExclusive
  BY TicketInvExcludes DEF TicketInv
<1> QED
  BY <1>1, <1>2, <1>3, PTL DEF Spec
(* --- What is in the slots -------------------------------------------------- *)

(* The history and the slots agree: a published slot holds the item of its *)
(* ticket, and so does, in its hands or already in the slot, the producer  *)
(* that has yet to publish it.  Never more than Entries tickets are out.   *)
LogInv ==
  /\ Len(log) = tail
  /\ tail <= head + Entries
  /\ \A t \in 0 .. tail - 1 : seq[Slot(t)] = t + 1 => cell[Slot(t)] = log[t + 1]
  /\ \A a \in Threads : Writer(a) => item[a] = log[ticket[a] + 1]
  /\ \A a \in Threads : pc[a] = "enqPublish" => cell[Slot(ticket[a])] = item[a]

(* A consumer has an item from its copy of the payload to its return.      *)
HasCopied(th) == pc[th] \in {"deqPublish", "deqCount", "deqNotify"}
HandInv ==
  \A c \in Consumers : /\ HasCopied(c) => item[c] \in Items
                       /\ ~ HasCopied(c) => item[c] = NoItem

DataInv == LogInv /\ HandInv

(* A step that moves no item: what the slots and the consumers hold, and   *)
(* who is about to write what, stays as it is.                             *)
Still ==
  /\ UNCHANGED <<head, tail, seq, cell, log>>
  /\ \A a \in Threads : Writer(a)' => /\ Writer(a)
                                      /\ ticket'[a] = ticket[a]
                                      /\ item'[a] = item[a]
  /\ \A a \in Threads : pc'[a] = "enqPublish" => pc[a] = "enqPublish"
  /\ item' \in [Threads -> Items \cup {NoItem}]
  /\ \A c \in Consumers : /\ HasCopied(c)' <=> HasCopied(c)
                          /\ pc'[c] = "deqCopy" <=> pc[c] = "deqCopy"
                          /\ pc'[c] = "deqCopy" => ticket'[c] = ticket[c]
                          /\ item'[c] = item[c]

LEMMA StillKeeps == DataInv /\ Still => DataInv'
<1> SUFFICES ASSUME DataInv, Still PROVE DataInv'
  OBVIOUS
<1>1. LogInv'
  BY DEF LogInv, DataInv, Still, Writer
<1>2. HandInv'
  BY DEF HandInv, DataInv, Still
<1> QED
  BY <1>1, <1>2 DEF DataInv

(* The producers' steps that move no item.                                 *)
LEMMA EnqStill ==
  ASSUME TypeInv, TypeInv', NEW p \in Producers,
         \/ EnqCall(p) \/ EnqTail(p) \/ EnqSeq(p) \/ EnqCasFails(p)
         \/ EnqCount(p) \/ EnqNotify(p) \/ EnqEvent(p) \/ EnqWait(p)
  PROVE  Still
<1> USE ThreadsAssumption
<1> USE DEF TypeInv, TypeOK, Still, Writer, HasCopied, Threads, Goto, ring
<1>1. CASE EnqCall(p)
  BY <1>1 DEF EnqCall
<1>2. CASE EnqTail(p)
  BY <1>2 DEF EnqTail
<1>3. CASE EnqSeq(p)
  <2>1. CASE TryFails(p, "enqEvent", "enqWait")
    BY <1>3, <2>1 DEF EnqSeq, TryFails, Leave
  <2>2. CASE /\ Goto(p, "enqCas") \/ Goto(p, "enqTail")
             /\ UNCHANGED <<ticket, item>>
    BY <1>3, <2>2 DEF EnqSeq
  <2> QED
    BY <1>3, <2>1, <2>2 DEF EnqSeq
<1>4. CASE EnqCasFails(p)
  BY <1>4 DEF EnqCasFails
<1>5. CASE EnqCount(p)
  BY <1>5 DEF EnqCount
<1>6. CASE EnqNotify(p)
  <2>1. CASE pc' = [pc EXCEPT ![p] = "idle"]
    BY <1>6, <2>1 DEF EnqNotify
  <2>2. ASSUME NEW w \in Consumers, pc[w] = "asleep",
               pc' = [pc EXCEPT ![p] = "idle", ![w] = "deqHead"]
        PROVE  Still
    BY <1>6, <2>2 DEF EnqNotify
  <2>3. \A w \in Consumers : w \notin Producers
    OBVIOUS
  <2> QED
    BY <1>6, <2>1, <2>2, <2>3, Zenon DEF EnqNotify, Notify
<1>7. CASE EnqEvent(p)
  BY <1>7 DEF EnqEvent
<1>8. CASE EnqWait(p)
  BY <1>8 DEF EnqWait
<1> QED
  BY <1>1, <1>2, <1>3, <1>4, <1>5, <1>6, <1>7, <1>8

(* The consumers' steps that move no item.                                 *)
LEMMA DeqStill ==
  ASSUME TypeInv, TypeInv', HandInv, NEW c \in Consumers,
         \/ DeqCall(c) \/ DeqHead(c) \/ DeqSeq(c) \/ DeqCasFails(c)
         \/ DeqCount(c) \/ DeqEvent(c) \/ DeqWait(c)
  PROVE  Still
<1> USE ThreadsAssumption
<1> USE DEF TypeInv, TypeOK, Still, Writer, HasCopied, Threads, Goto, ring
<1>1. CASE DeqCall(c)
  BY <1>1 DEF DeqCall
<1>2. CASE DeqHead(c)
  BY <1>2 DEF DeqHead
<1>3. CASE DeqSeq(c)
  <2>1. CASE TryFails(c, "deqEvent", "deqWait")
    <3>1. item[c] = NoItem
      BY <1>3 DEF DeqSeq, HandInv
    <3>2. item' = item
      BY <2>1, <3>1 DEF TryFails, Leave
    <3>3. CASE c \notin Blocking
      BY <1>3, <2>1, <3>2, <3>3 DEF DeqSeq, TryFails, Leave
    <3>4. CASE c \in Blocking
      BY <1>3, <2>1, <3>2, <3>4 DEF DeqSeq, TryFails
    <3> QED
      BY <3>3, <3>4
  <2>2. CASE /\ Goto(c, "deqCas") \/ Goto(c, "deqHead")
             /\ UNCHANGED <<ticket, item>>
    BY <1>3, <2>2 DEF DeqSeq
  <2> QED
    BY <1>3, <2>1, <2>2 DEF DeqSeq
<1>4. CASE DeqCasFails(c)
  BY <1>4 DEF DeqCasFails
<1>5. CASE DeqCount(c)
  BY <1>5 DEF DeqCount
<1>6. CASE DeqEvent(c)
  BY <1>6 DEF DeqEvent
<1>7. CASE DeqWait(c)
  BY <1>7 DEF DeqWait
<1> QED
  BY <1>1, <1>2, <1>3, <1>4, <1>5, <1>6, <1>7

(* A won ticket is the position of its item in the history.                *)
LEMMA EnqClaimData ==
  ASSUME TypeInv, TicketInv, DataInv, NEW p \in Producers, EnqClaim(p)
  PROVE  /\ DataInv'
         /\ tail < head + Entries
         /\ item[p] \in Items
<1>1. /\ pc[p] = "enqCas" /\ tail = ticket[p] /\ tail' = tail + 1
      /\ log' = Append(log, item[p])
      /\ pc' = [pc EXCEPT ![p] = "enqCopy"]
      /\ UNCHANGED <<head, seq, cell, ticket, item>>
  BY DEF EnqClaim, Goto
<1>2. /\ head \in Nat /\ tail \in Nat /\ Entries \in Nat
      /\ pc \in [Threads -> PC] /\ p \in Threads
      /\ log \in Seq(Items) /\ item[p] \in Items
      /\ \A a \in Threads : ticket[a] \in Nat
  BY <1>1, EntriesAssumption DEF TypeInv, TypeOK, ItemHeld, Threads
<1>3. seq[Slot(tail)] = tail /\ tail < head + Entries
  <2>1. seq[Slot(ticket[p])] >= ticket[p]
    BY <1>1, <1>2 DEF TicketInv, SeenReady
  <2> QED
    BY <1>1, <2>1, ReadyToWrite DEF TicketInv
<1>4. /\ Len(log) = tail /\ Len(log') = tail'
      /\ \A t \in 0 .. tail - 1 : log'[t + 1] = log[t + 1]
      /\ log'[tail + 1] = item[p]
  BY <1>1, <1>2 DEF LogInv, DataInv
<1>5. \A t \in 0 .. tail' - 1 : seq[Slot(t)] = t + 1 => cell[Slot(t)] = log'[t + 1]
  <2> SUFFICES ASSUME NEW t \in 0 .. tail' - 1, seq[Slot(t)] = t + 1
               PROVE  cell[Slot(t)] = log'[t + 1]
    OBVIOUS
  <2>1. t # tail
    BY <1>2, <1>3
  <2>2. t \in 0 .. tail - 1
    BY <2>1, <1>1, <1>2
  <2> QED
    BY <2>2, <1>4 DEF LogInv, DataInv
<1>6. ASSUME NEW a \in Threads, Writer(a)' PROVE item'[a] = log'[ticket'[a] + 1]
  <2>1. CASE a = p
    BY <2>1, <1>1, <1>4
  <2>2. CASE a # p
    <3>1. Writer(a)
      BY <1>1, <1>2, <1>6, <2>2 DEF Writer
    <3>2. ticket[a] \in 0 .. tail - 1 /\ item[a] = log[ticket[a] + 1]
      BY <1>2, <3>1 DEF TicketInv, OwnTickets, LogInv, DataInv
    <3> QED
      BY <3>2, <1>1, <1>4
  <2> QED
    BY <2>1, <2>2
<1>7. LogInv'
  <2>1. tail' <= head' + Entries
    BY <1>1, <1>2, <1>3
  <2>2. \A a \in Threads : pc'[a] = "enqPublish" => cell'[Slot(ticket'[a])] = item'[a]
    BY <1>1, <1>2 DEF LogInv, DataInv
  <2> QED
    BY <1>1, <1>4, <1>5, <1>6, <2>1, <2>2 DEF LogInv
<1>8. HandInv'
  BY <1>1, <1>2 DEF HandInv, DataInv, HasCopied
<1> QED
  BY <1>2, <1>3, <1>7, <1>8 DEF DataInv

(* Winning a ticket to read finds a queued item.                           *)
LEMMA DeqClaimData ==
  ASSUME TypeInv, TicketInv, DataInv, NEW c \in Consumers, DeqClaim(c)
  PROVE  DataInv' /\ head < tail
<1>1. /\ pc[c] = "deqCas" /\ head = ticket[c] /\ head' = head + 1
      /\ pc' = [pc EXCEPT ![c] = "deqCopy"]
      /\ UNCHANGED <<tail, seq, cell, log, ticket, item>>
      /\ head \in Nat /\ tail \in Nat /\ Entries \in Nat
      /\ pc \in [Threads -> PC] /\ c \in Threads
  BY EntriesAssumption DEF DeqClaim, Goto, TypeInv, TypeOK, Threads
<1>2. head < tail
  BY <1>1, ReadyToRead DEF TicketInv, SeenReady
<1>3. LogInv'
  BY <1>1 DEF LogInv, DataInv, Writer
<1>4. HandInv'
  BY <1>1 DEF HandInv, DataInv, HasCopied
<1> QED
  BY <1>2, <1>3, <1>4 DEF DataInv

(* A producer writes into a slot that nobody else uses and nobody may yet  *)
(* read.                                                                   *)
LEMMA EnqCopyData ==
  ASSUME TypeInv, TicketInv, DataInv, NEW p \in Producers, EnqCopy(p)
  PROVE  DataInv'
<1> DEFINE u == ticket[p]
<1>1. /\ pc[p] = "enqCopy"
      /\ pc' = [pc EXCEPT ![p] = "enqPublish"]
      /\ cell' = [cell EXCEPT ![Slot(u)] = item[p]]
      /\ UNCHANGED <<head, tail, seq, log, ticket, item>>
  BY DEF EnqCopy, Goto
<1>2. /\ p \in Threads /\ u \in Nat /\ Slot(u) \in Slots /\ tail \in Nat
      /\ pc \in [Threads -> PC] /\ DOMAIN cell = Slots
      /\ \A a \in Threads : ticket[a] \in Nat /\ Slot(ticket[a]) \in Slots
      /\ Writer(p) /\ p \in InSlot
  BY <1>1, SlotRange DEF TypeInv, TypeOK, Threads, Writer, InSlot
<1>3. seq[Slot(u)] = u
  BY <1>2 DEF TicketInv, OwnTickets
<1>4. ASSUME NEW t \in 0 .. tail - 1, seq[Slot(t)] = t + 1
      PROVE  cell'[Slot(t)] = log[t + 1]
  <2>1. t \in Nat /\ Slot(t) \in Slots
    BY <1>2, SlotRange
  <2>2. Slot(t) # Slot(u)
    BY <1>2, <1>3, <1>4, <2>1, NextSlot
  <2> QED
    BY <1>1, <1>2, <1>4, <2>1, <2>2 DEF LogInv, DataInv
<1>5. ASSUME NEW a \in Threads, pc'[a] = "enqPublish"
      PROVE  cell'[Slot(ticket[a])] = item[a]
  <2>1. CASE a = p
    BY <1>1, <1>2, <2>1
  <2>2. CASE a # p
    <3>1. pc[a] = "enqPublish" /\ a \in InSlot
      BY <1>1, <1>2, <1>5, <2>2 DEF InSlot
    <3>2. Slot(ticket[a]) # Slot(u)
      BY <1>2, <2>2, <3>1, TicketInvExcludes DEF TicketInv, SlotExclusive
    <3> QED
      BY <1>1, <1>2, <3>1, <3>2 DEF LogInv, DataInv
  <2> QED
    BY <2>1, <2>2
<1>6. ASSUME NEW a \in Threads, Writer(a)' PROVE Writer(a)
  BY <1>1, <1>2, <1>6 DEF Writer
<1>7. LogInv'
  BY <1>1, <1>4, <1>5, <1>6 DEF LogInv, DataInv
<1>8. HandInv'
  BY <1>1, <1>2 DEF HandInv, DataInv, HasCopied
<1> QED
  BY <1>7, <1>8 DEF DataInv

(* What a producer publishes is the item of its ticket.                    *)
LEMMA EnqPublishData ==
  ASSUME TypeInv, TicketInv, DataInv, NEW p \in Producers, EnqPublish(p)
  PROVE  DataInv'
<1> DEFINE u == ticket[p]
<1>1. /\ pc[p] = "enqPublish"
      /\ pc' = [pc EXCEPT ![p] = "enqCount"]
      /\ seq' = [seq EXCEPT ![Slot(u)] = u + 1]
      /\ UNCHANGED <<head, tail, cell, log, ticket, item>>
  BY DEF EnqPublish, Goto
<1>2. /\ p \in Threads /\ u \in Nat /\ Slot(u) \in Slots /\ tail \in Nat
      /\ pc \in [Threads -> PC] /\ DOMAIN seq = Slots /\ Writer(p)
  BY <1>1, SlotRange DEF TypeInv, TypeOK, Threads, Writer
<1>3. cell[Slot(u)] = log[u + 1]
  BY <1>1, <1>2 DEF LogInv, DataInv
<1>4. ASSUME NEW t \in 0 .. tail - 1, seq'[Slot(t)] = t + 1
      PROVE  cell[Slot(t)] = log[t + 1]
  <2>1. t \in Nat /\ Slot(t) \in Slots
    BY <1>2, SlotRange
  <2>2. CASE Slot(t) = Slot(u)
    <3>1. t = u
      BY <1>1, <1>2, <1>4, <2>1, <2>2
    <3> QED
      BY <1>3, <3>1
  <2>3. CASE Slot(t) # Slot(u)
    BY <1>1, <1>2, <1>4, <2>1, <2>3 DEF LogInv, DataInv
  <2> QED
    BY <2>2, <2>3
<1>5. ASSUME NEW a \in Threads
      PROVE  /\ Writer(a)' => Writer(a)
             /\ pc'[a] = "enqPublish" => pc[a] = "enqPublish"
  BY <1>1, <1>2 DEF Writer
<1>6. LogInv'
  BY <1>1, <1>4, <1>5 DEF LogInv, DataInv
<1>7. HandInv'
  BY <1>1, <1>2 DEF HandInv, DataInv, HasCopied
<1> QED
  BY <1>6, <1>7 DEF DataInv

(* A consumer copies out the item of the ticket it has won.                *)
LEMMA DeqCopyData ==
  ASSUME TypeInv, TicketInv, DataInv, NEW c \in Consumers, DeqCopy(c)
  PROVE  /\ DataInv'
         /\ item' = [item EXCEPT ![c] = log[ticket[c] + 1]]
<1> DEFINE u == ticket[c]
<1>1. /\ pc[c] = "deqCopy"
      /\ pc' = [pc EXCEPT ![c] = "deqPublish"]
      /\ item' = [item EXCEPT ![c] = cell[Slot(u)]]
      /\ UNCHANGED <<head, tail, seq, cell, log, ticket>>
  BY DEF DeqCopy, Goto, ring
<1>2. /\ c \in Threads /\ u \in Nat /\ tail \in Nat /\ head \in Nat
      /\ pc \in [Threads -> PC] /\ Reader(c)
      /\ item \in [Threads -> Items \cup {NoItem}]
      /\ log \in Seq(Items) /\ Consumers \subseteq Threads
  BY <1>1 DEF TypeInv, TypeOK, Threads, Reader
<1>3. u \in 0 .. tail - 1 /\ seq[Slot(u)] = u + 1
  BY <1>2 DEF TicketInv, OwnTickets, SlotWindow
<1>4. cell[Slot(u)] = log[u + 1]
  BY <1>3 DEF LogInv, DataInv
<1>5. log[u + 1] \in Items
  BY <1>2, <1>3 DEF LogInv, DataInv
<1>6. ASSUME NEW a \in Threads, Writer(a)'
      PROVE  Writer(a) /\ item'[a] = item[a]
  BY <1>1, <1>2, <1>6 DEF Writer
<1>7. ASSUME NEW a \in Threads, pc'[a] = "enqPublish"
      PROVE  pc[a] = "enqPublish" /\ item'[a] = item[a]
  BY <1>1, <1>2, <1>7
<1>8. LogInv'
  BY <1>1, <1>6, <1>7 DEF LogInv, DataInv
<1>9. HandInv'
  BY <1>1, <1>2, <1>4, <1>5 DEF HandInv, DataInv, HasCopied
<1> QED
  BY <1>1, <1>4, <1>8, <1>9 DEF DataInv

(* Releasing a slot for the next round publishes nothing.                  *)
LEMMA DeqPublishData ==
  ASSUME TypeInv, TicketInv, DataInv, NEW c \in Consumers, DeqPublish(c)
  PROVE  DataInv'
<1> DEFINE u == ticket[c]
<1>1. /\ pc[c] = "deqPublish"
      /\ pc' = [pc EXCEPT ![c] = "deqCount"]
      /\ seq' = [seq EXCEPT ![Slot(u)] = u + Entries]
      /\ UNCHANGED <<head, tail, cell, log, ticket, item>>
  BY DEF DeqPublish, Goto
<1>2. /\ c \in Threads /\ u \in Nat /\ Slot(u) \in Slots /\ tail \in Nat
      /\ Entries \in Nat /\ Entries > 1
      /\ pc \in [Threads -> PC] /\ DOMAIN seq = Slots
  BY <1>1, SlotRange, EntriesAssumption DEF TypeInv, TypeOK, Threads
<1>3. ASSUME NEW t \in 0 .. tail - 1, seq'[Slot(t)] = t + 1
      PROVE  cell[Slot(t)] = log[t + 1]
  <2>1. t \in Nat /\ Slot(t) \in Slots
    BY <1>2, SlotRange
  <2>2. Slot(t) # Slot(u)
    <3> SUFFICES ASSUME Slot(t) = Slot(u) PROVE FALSE
      OBVIOUS
    <3>1. t + 1 = u + Entries
      BY <1>1, <1>2, <1>3
    <3>2. Slot(t + 1) = Slot(u)
      BY <3>1, <1>2, NextRound
    <3> QED
      BY <3>2, <2>1, NextSlot
  <2> QED
    BY <1>1, <1>2, <1>3, <2>1, <2>2 DEF LogInv, DataInv
<1>4. ASSUME NEW a \in Threads
      PROVE  /\ Writer(a)' => Writer(a)
             /\ pc'[a] = "enqPublish" => pc[a] = "enqPublish"
  BY <1>1, <1>2 DEF Writer
<1>5. LogInv'
  BY <1>1, <1>3, <1>4 DEF LogInv, DataInv
<1>6. HandInv'
  BY <1>1, <1>2 DEF HandInv, DataInv, HasCopied
<1> QED
  BY <1>5, <1>6 DEF DataInv

(* A consumer returns with the item it has copied out.                     *)
LEMMA DeqNotifyData ==
  ASSUME TypeInv, DataInv, NEW c \in Consumers, DeqNotify(c)
  PROVE  /\ DataInv'
         /\ item' = [item EXCEPT ![c] = NoItem]
         /\ UNCHANGED <<head, tail, log>>
         /\ \A w \in Consumers : /\ pc[w] = "deqCopy" <=> pc'[w] = "deqCopy"
                                 /\ pc'[w] = "deqCopy" => ticket'[w] = ticket[w]
<1> USE ThreadsAssumption
<1>1. /\ pc[c] = "deqNotify"
      /\ Notify(c, Producers)
      /\ item' = [item EXCEPT ![c] = NoItem]
      /\ ticket' = [ticket EXCEPT ![c] = 0]
      /\ UNCHANGED <<head, tail, seq, cell, log>>
      /\ pc \in [Threads -> PC] /\ c \in Threads
      /\ item \in [Threads -> Items \cup {NoItem}]
      /\ ticket \in [Threads -> Nat]
      /\ Consumers \subseteq Threads
  BY DEF DeqNotify, ring, TypeInv, TypeOK, Threads
<1>2. /\ pc'[c] = "idle"
      /\ \A a \in Threads \ {c} : \/ pc'[a] = pc[a]
                                  \/ a \in Producers /\ pc[a] = "asleep" /\ pc'[a] = "enqTail"
  BY <1>1 DEF Notify
<1>3. \A a \in Threads : /\ Writer(a)' => /\ Writer(a) /\ ticket'[a] = ticket[a]
                                          /\ item'[a] = item[a]
                         /\ pc'[a] = "enqPublish" => pc[a] = "enqPublish"
  BY <1>1, <1>2 DEF Writer
<1>4. LogInv'
  BY <1>1, <1>3 DEF LogInv, DataInv, Writer
<1>5. HandInv'
  BY <1>1, <1>2 DEF HandInv, DataInv, HasCopied
<1> QED
  BY <1>1, <1>2, <1>4, <1>5 DEF DataInv

LEMMA DataInit == Init => DataInv
  BY EntriesAssumption DEF Init, DataInv, LogInv, HandInv, Writer, HasCopied, Threads

LEMMA DataStep ==
  TypeInv /\ TypeInv' /\ TicketInv /\ DataInv /\ [Next]_vars => DataInv'
<1> SUFFICES ASSUME TypeInv, TypeInv', TicketInv, DataInv, [Next]_vars PROVE DataInv'
  OBVIOUS
<1>1. ASSUME NEW p \in Producers, EnqCall(p) \/ EnqStep(p) PROVE DataInv'
  BY <1>1, EnqStill, StillKeeps, EnqClaimData, EnqCopyData, EnqPublishData DEF EnqStep
<1>2. ASSUME NEW c \in Consumers, DeqCall(c) \/ DeqStep(c) PROVE DataInv'
  BY <1>2, DeqStill, StillKeeps, DeqClaimData, DeqCopyData, DeqPublishData, DeqNotifyData
     DEF DeqStep, DataInv
<1>3. CASE UNCHANGED vars
  BY <1>3 DEF vars, ring, locals, DataInv, LogInv, HandInv, Writer, HasCopied
<1> QED
  BY <1>1, <1>2, <1>3 DEF Next

(* --- The ring is a queue --------------------------------------------------- *)

(* The window of a history that grows at its end ...                       *)
LEMMA WindowGrows ==
  ASSUME NEW S, NEW s \in Seq(S), NEW v \in S, NEW h \in Nat, h <= Len(s)
  PROVE  SubSeq(Append(s, v), h + 1, Len(s) + 1) = Append(SubSeq(s, h + 1, Len(s)), v)
<1> DEFINE a == SubSeq(Append(s, v), h + 1, Len(s) + 1)
           b == Append(SubSeq(s, h + 1, Len(s)), v)
<1>1. /\ Len(s) \in Nat /\ \A i \in 1 .. Len(s) : s[i] \in S
      /\ Len(Append(s, v)) = Len(s) + 1
      /\ \A i \in 1 .. Len(s) : Append(s, v)[i] = s[i]
      /\ Append(s, v)[Len(s) + 1] = v
      /\ Append(s, v) \in Seq(S)
  OBVIOUS
<1>2. /\ SubSeq(s, h + 1, Len(s)) \in Seq(S)
      /\ Len(SubSeq(s, h + 1, Len(s))) = Len(s) - h
      /\ \A i \in 1 .. Len(s) - h : SubSeq(s, h + 1, Len(s))[i] = s[h + i]
  BY <1>1
<1>3. /\ a \in Seq(S) /\ Len(a) = Len(s) + 1 - h
      /\ \A i \in 1 .. Len(s) + 1 - h : a[i] = Append(s, v)[h + i]
  BY <1>1
<1>4. /\ b \in Seq(S) /\ Len(b) = Len(s) + 1 - h
      /\ \A i \in 1 .. Len(s) - h : b[i] = s[h + i]
      /\ b[Len(s) + 1 - h] = v
  BY <1>1, <1>2
<1>5. ASSUME NEW i \in 1 .. Len(s) + 1 - h PROVE a[i] = b[i]
  <2>1. CASE i = Len(s) + 1 - h
    BY <1>1, <1>3, <1>4, <2>1
  <2>2. CASE i # Len(s) + 1 - h
    BY <1>1, <1>3, <1>4, <2>2
  <2> QED
    BY <2>1, <2>2
<1>6. Len(a) = Len(b) /\ Len(a) = Len(s) + 1 - h
  BY <1>3, <1>4
<1> HIDE DEF a, b
<1>7. a = b
  BY <1>3, <1>4, <1>5, <1>6, SeqEqual
<1> QED
  BY <1>7 DEF a, b

(* ... and shrinks at its front.                                           *)
LEMMA WindowShrinks ==
  ASSUME NEW S, NEW s \in Seq(S), NEW h \in Nat, h < Len(s)
  PROVE  /\ SubSeq(s, h + 1, Len(s)) # <<>>
         /\ Head(SubSeq(s, h + 1, Len(s))) = s[h + 1]
         /\ Tail(SubSeq(s, h + 1, Len(s))) = SubSeq(s, h + 2, Len(s))
<1>1. /\ Len(s) \in Nat /\ h + 1 \in 1 .. Len(s) /\ Len(s) \in (h + 1) .. Len(s)
      /\ (h + 1) + 1 = h + 2
  OBVIOUS
<1>2. SubSeq(s, h + 1, Len(s)) # <<>>
  <2> DEFINE q == SubSeq(s, h + 1, Len(s))
  <2>1. \A i \in h + 1 .. Len(s) : s[i] \in S
    BY <1>1
  <2>2. Len(q) = Len(s) - (h + 1) + 1
    BY <1>1, <2>1, SubSeqProperties
  <2> HIDE DEF q
  <2>3. Len(q) # 0
    BY <1>1, <2>2
  <2>4. q # <<>>
    BY <2>3
  <2> QED
    BY <2>4 DEF q
<1> QED
  BY <1>1, <1>2, HeadTailOfSubSeq

Queue == SubSeq(log, head + 1, tail)
Hand == [c \in Consumers |-> IF pc[c] = "deqCopy" THEN log[ticket[c] + 1] ELSE item[c]]

(* A step that moves no item is no step of the queue.                      *)
LEMMA StillStutters == Still => UNCHANGED <<Queue, Hand>>
  BY DEF Still, Queue, Hand

LEMMA EnqRefines ==
  ASSUME TypeInv, TypeInv', TicketInv, DataInv, NEW p \in Producers,
         EnqCall(p) \/ EnqStep(p)
  PROVE  [Fifo!Next]_(Fifo!vars)
<1> USE ThreadsAssumption
<1>1. CASE EnqClaim(p)
  <2>1. /\ pc[p] = "enqCas" /\ tail = ticket[p] /\ tail' = tail + 1
        /\ log' = Append(log, item[p])
        /\ pc' = [pc EXCEPT ![p] = "enqCopy"]
        /\ UNCHANGED <<head, ticket, item>>
    BY <1>1 DEF EnqClaim, Goto
  <2>2. item[p] \in Items /\ tail < head + Entries
    BY <1>1, EnqClaimData
  <2>3. /\ head \in Nat /\ tail \in Nat /\ log \in Seq(Items) /\ Len(log) = tail
        /\ head <= tail /\ Entries \in Nat /\ pc \in [Threads -> PC]
        /\ Consumers \subseteq Threads /\ p \notin Consumers
        /\ \A a \in Threads : ticket[a] \in Nat
    BY EntriesAssumption DEF TypeInv, TypeOK, DataInv, LogInv, TicketInv, SlotWindow, Threads
  <2>4. Queue' = Append(Queue, item[p])
    <3>1. SubSeq(Append(log, item[p]), head + 1, Len(log) + 1)
            = Append(SubSeq(log, head + 1, Len(log)), item[p])
      BY <2>2, <2>3, WindowGrows
    <3> QED
      BY <2>1, <2>3, <3>1 DEF Queue
  <2>5. Len(Queue) < Entries
    BY <2>2, <2>3 DEF Queue
  <2>6. ASSUME NEW c \in Consumers PROVE Hand'[c] = Hand[c]
    <3>1. pc'[c] = pc[c] /\ c \in Threads
      BY <2>1, <2>3
    <3>2. CASE pc[c] = "deqCopy"
      <4>1. ticket[c] \in 0 .. tail - 1
        BY <2>3, <3>1, <3>2 DEF TicketInv, OwnTickets, Reader
      <4>2. log'[ticket[c] + 1] = log[ticket[c] + 1]
        <5>1. \A i \in 1 .. Len(log) : Append(log, item[p])[i] = log[i]
          BY <2>2, <2>3
        <5>2. ticket[c] + 1 \in 1 .. Len(log)
          BY <2>3, <4>1
        <5> QED
          BY <2>1, <5>1, <5>2
      <4> QED
        BY <2>1, <3>1, <3>2, <4>2 DEF Hand
    <3>3. CASE pc[c] # "deqCopy"
      BY <2>1, <3>1, <3>3 DEF Hand
    <3> QED
      BY <3>2, <3>3
  <2>7. Hand' = Hand
    BY <2>6 DEF Hand
  <2>8. Fifo!Put(item[p])
    BY <2>4, <2>5, <2>7 DEF Fifo!Put, Queue, Hand
  <2> QED
    BY <2>2, <2>8 DEF Fifo!Next
<1>2. CASE EnqCopy(p) \/ EnqPublish(p)
  <2>1. UNCHANGED <<head, tail, log, ticket, item>>
    BY <1>2 DEF EnqCopy, EnqPublish
  <2>2. \A c \in Consumers : pc'[c] = pc[c]
    BY <1>2 DEF EnqCopy, EnqPublish, Goto, TypeInv, TypeOK, Threads
  <2> QED
    BY <2>1, <2>2 DEF Fifo!vars
<1>3. CASE ~ EnqClaim(p) /\ ~ EnqCopy(p) /\ ~ EnqPublish(p)
  <2>1. Still
    BY <1>3, EnqStill DEF EnqStep
  <2> QED
    BY <2>1, StillStutters DEF Fifo!vars, Queue, Hand
<1> QED
  BY <1>1, <1>2, <1>3

LEMMA DeqRefines ==
  ASSUME TypeInv, TypeInv', TicketInv, DataInv, NEW c \in Consumers,
         DeqCall(c) \/ DeqStep(c)
  PROVE  [Fifo!Next]_(Fifo!vars)
<1> USE ThreadsAssumption
<1>0. /\ head \in Nat /\ tail \in Nat /\ log \in Seq(Items) /\ Len(log) = tail
      /\ pc \in [Threads -> PC] /\ Consumers \subseteq Threads
      /\ item \in [Threads -> Items \cup {NoItem}] /\ ticket \in [Threads -> Nat]
  BY DEF TypeInv, TypeOK, DataInv, LogInv, Threads
<1>1. CASE DeqClaim(c)
  <2>1. /\ pc[c] = "deqCas" /\ head = ticket[c] /\ head' = head + 1
        /\ pc' = [pc EXCEPT ![c] = "deqCopy"]
        /\ UNCHANGED <<tail, log, ticket, item>>
    BY <1>1 DEF DeqClaim, Goto
  <2>2. head < tail
    BY <1>1, DeqClaimData
  <2>3. Hand[c] = NoItem
    BY <2>1, <1>0 DEF DataInv, HandInv, HasCopied, Hand
  <2>4. Queue # <<>> /\ Head(Queue) = log[head + 1] /\ Queue' = Tail(Queue)
    <3>1. /\ Queue # <<>> /\ Head(Queue) = log[head + 1]
          /\ Tail(Queue) = SubSeq(log, head + 2, tail)
      BY <1>0, <2>2, WindowShrinks DEF Queue
    <3>2. (head + 1) + 1 = head + 2
      BY <1>0
    <3>3. Queue' = SubSeq(log, head + 2, tail)
      BY <2>1, <3>2 DEF Queue
    <3> QED
      BY <3>1, <3>3
  <2>5. Hand' = [Hand EXCEPT ![c] = Head(Queue)]
    BY <1>0, <2>1, <2>4 DEF Hand
  <2>6. Fifo!Take(c)
    BY <2>3, <2>4, <2>5 DEF Fifo!Take, Queue, Hand
  <2> QED
    BY <2>6 DEF Fifo!Next
<1>2. CASE DeqCopy(c)
  <2>1. /\ item' = [item EXCEPT ![c] = log[ticket[c] + 1]]
        /\ pc[c] = "deqCopy" /\ pc' = [pc EXCEPT ![c] = "deqPublish"]
        /\ UNCHANGED <<head, tail, log, ticket>>
    BY <1>2, DeqCopyData DEF DeqCopy, Goto, ring
  <2>2. Hand' = Hand
    BY <1>0, <2>1 DEF Hand
  <2> QED
    BY <2>1, <2>2 DEF Fifo!vars, Hand
<1>3. CASE DeqPublish(c)
  <2>1. /\ UNCHANGED <<head, tail, log, ticket, item>>
        /\ pc[c] = "deqPublish" /\ pc' = [pc EXCEPT ![c] = "deqCount"]
    BY <1>3 DEF DeqPublish, Goto
  <2>2. Hand' = Hand
    BY <1>0, <2>1 DEF Hand
  <2> QED
    BY <2>1, <2>2 DEF Fifo!vars, Hand
<1>4. CASE DeqNotify(c)
  <2>1. /\ item' = [item EXCEPT ![c] = NoItem]
        /\ UNCHANGED <<head, tail, log>>
        /\ \A w \in Consumers : /\ pc[w] = "deqCopy" <=> pc'[w] = "deqCopy"
                                /\ pc'[w] = "deqCopy" => ticket'[w] = ticket[w]
    BY <1>4, DeqNotifyData
  <2>2. pc[c] = "deqNotify"
    BY <1>4 DEF DeqNotify
  <2>3. Hand[c] # NoItem
    BY <1>0, <2>2, NoItemAssumption DEF DataInv, HandInv, HasCopied, Hand
  <2>4. Hand' = [Hand EXCEPT ![c] = NoItem]
    BY <1>0, <2>1, <2>2 DEF Hand
  <2>5. Fifo!Return(c)
    BY <2>1, <2>3, <2>4 DEF Fifo!Return, Hand
  <2> QED
    BY <2>5 DEF Fifo!Next
<1>5. CASE ~ DeqClaim(c) /\ ~ DeqCopy(c) /\ ~ DeqPublish(c) /\ ~ DeqNotify(c)
  <2>1. Still
    BY <1>5, DeqStill DEF DeqStep, DataInv
  <2> QED
    BY <2>1, StillStutters DEF Fifo!vars, Queue, Hand
<1> QED
  BY <1>1, <1>2, <1>3, <1>4, <1>5

LEMMA InitRefines == Init => Fifo!Init
<1> SUFFICES ASSUME Init PROVE Fifo!Init
  OBVIOUS
<1>1. SubSeq(log, head + 1, tail) = <<>>
  BY DEF Init
<1>2. \A c \in Consumers : pc[c] = "idle" /\ item[c] = NoItem
  BY DEF Init, Threads
<1> QED
  BY <1>1, <1>2 DEF Fifo!Init

(* The lock-free ring is a bounded first-in first-out queue, for any       *)
(* number of slots, threads and calls: try_enqueue puts at most Entries    *)
(* items, try_dequeue hands each to one consumer, unaltered and in ticket  *)
(* order, and enqueue and dequeue take effect at their compare-and-swap.   *)
THEOREM RingIsQueue == Spec => ImplementsFifo
<1>1. Init => TypeInv /\ TicketInv /\ DataInv /\ Fifo!Init
  BY TypeInit, TicketInit, DataInit, InitRefines
<1>2. TypeInv /\ TicketInv /\ DataInv /\ [Next]_vars => (TypeInv /\ TicketInv /\ DataInv)'
  BY TypeStep, TicketStep, DataStep
<1>3. TypeInv /\ TypeInv' /\ TicketInv /\ DataInv /\ [Next]_vars => [Fifo!Next]_(Fifo!vars)
  <2> SUFFICES ASSUME TypeInv, TypeInv', TicketInv, DataInv, [Next]_vars
               PROVE  [Fifo!Next]_(Fifo!vars)
    OBVIOUS
  <2>1. CASE UNCHANGED vars
    BY <2>1 DEF vars, ring, locals, Fifo!vars
  <2> QED
    BY <2>1, EnqRefines, DeqRefines DEF Next
<1> QED
  BY <1>1, <1>2, <1>3, PTL DEF Spec, ImplementsFifo, Fifo!Spec

(* --- No wake-up of a consumer is lost --------------------------------------- *)

(* A step of a thread leaves the locals of the others alone, and moves     *)
(* them only by waking them.                                               *)
MovesOnly(th) ==
  \A a \in Threads \ {th} :
    /\ ticket'[a] = ticket[a] /\ item'[a] = item[a]
    /\ seen'[a] = seen[a] /\ second'[a] = second[a]
    /\ \/ pc'[a] = pc[a]
       \/ pc[a] = "asleep" /\ pc'[a] = IF a \in Producers THEN "enqTail" ELSE "deqHead"

LEMMA EnqMovesOnly ==
  ASSUME TypeInv, NEW p \in Producers, EnqCall(p) \/ EnqStep(p) PROVE MovesOnly(p)
<1> USE DEF TypeInv, TypeOK, MovesOnly, Threads, Goto, ring
<1>1. CASE EnqCall(p)
  BY <1>1 DEF EnqCall
<1>2. CASE EnqTail(p)
  BY <1>2 DEF EnqTail
<1>3. CASE EnqSeq(p)
  BY <1>3 DEF EnqSeq, TryFails, Leave
<1>4. CASE EnqClaim(p)
  BY <1>4 DEF EnqClaim
<1>5. CASE EnqCasFails(p)
  BY <1>5 DEF EnqCasFails
<1>6. CASE EnqCopy(p)
  BY <1>6 DEF EnqCopy
<1>7. CASE EnqPublish(p)
  BY <1>7 DEF EnqPublish
<1>8. CASE EnqCount(p)
  BY <1>8 DEF EnqCount
<1>9. CASE EnqNotify(p)
  BY <1>9 DEF EnqNotify, Notify
<1>10. CASE EnqEvent(p)
  BY <1>10 DEF EnqEvent
<1>11. CASE EnqWait(p)
  BY <1>11 DEF EnqWait
<1> QED
  BY <1>1, <1>2, <1>3, <1>4, <1>5, <1>6, <1>7, <1>8, <1>9, <1>10, <1>11 DEF EnqStep

LEMMA DeqMovesOnly ==
  ASSUME TypeInv, NEW c \in Consumers, DeqCall(c) \/ DeqStep(c) PROVE MovesOnly(c)
<1> USE DEF TypeInv, TypeOK, MovesOnly, Threads, Goto, ring
<1>1. CASE DeqCall(c)
  BY <1>1 DEF DeqCall
<1>2. CASE DeqHead(c)
  BY <1>2 DEF DeqHead
<1>3. CASE DeqSeq(c)
  BY <1>3 DEF DeqSeq, TryFails, Leave
<1>4. CASE DeqClaim(c)
  BY <1>4 DEF DeqClaim
<1>5. CASE DeqCasFails(c)
  BY <1>5 DEF DeqCasFails
<1>6. CASE DeqCopy(c)
  BY <1>6 DEF DeqCopy
<1>7. CASE DeqPublish(c)
  BY <1>7 DEF DeqPublish
<1>8. CASE DeqCount(c)
  BY <1>8 DEF DeqCount
<1>9. CASE DeqNotify(c)
  BY <1>9 DEF DeqNotify, Notify
<1>10. CASE DeqEvent(c)
  BY <1>10 DEF DeqEvent
<1>11. CASE DeqWait(c)
  BY <1>11 DEF DeqWait
<1> QED
  BY <1>1, <1>2, <1>3, <1>4, <1>5, <1>6, <1>7, <1>8, <1>9, <1>10, <1>11 DEF DeqStep

(* What a step does to the counters and the sequence numbers: it wins a    *)
(* ticket, or publishes a slot, or leaves them alone.                      *)
LEMMA EnqEffect ==
  ASSUME TypeInv, TicketInv, NEW p \in Producers, EnqCall(p) \/ EnqStep(p)
  PROVE  /\ head' = head
         /\ \/ /\ EnqClaim(p) /\ tail' = tail + 1 /\ seq' = seq
               /\ tail = ticket[p] /\ seq[Slot(tail)] = tail /\ tail < head + Entries
            \/ /\ EnqPublish(p) /\ tail' = tail /\ ticket' = ticket
               /\ Slot(ticket[p]) \in Slots
               /\ seq[Slot(ticket[p])] = ticket[p]
               /\ seq' = [seq EXCEPT ![Slot(ticket[p])] = ticket[p] + 1]
            \/ /\ ~ EnqClaim(p) /\ ~ EnqPublish(p)
               /\ UNCHANGED <<tail, seq>>
<1>1. CASE EnqClaim(p)
  <2>1. /\ pc[p] = "enqCas" /\ tail = ticket[p] /\ tail' = tail + 1
        /\ UNCHANGED <<head, seq>> /\ p \in Threads
    BY <1>1 DEF EnqClaim, Threads
  <2>2. seq[Slot(tail)] >= tail
    BY <2>1 DEF TicketInv, SeenReady
  <2>3. seq[Slot(tail)] = tail /\ tail < head + Entries
    BY <2>2, ReadyToWrite DEF TicketInv
  <2> QED
    BY <1>1, <2>1, <2>3
<1>2. CASE EnqPublish(p)
  <2>1. /\ pc[p] = "enqPublish" /\ p \in Threads /\ ticket[p] \in Nat
        /\ seq' = [seq EXCEPT ![Slot(ticket[p])] = ticket[p] + 1]
        /\ UNCHANGED <<head, tail, ticket>>
    BY <1>2 DEF EnqPublish, Threads, TypeInv, TypeOK
  <2>2. seq[Slot(ticket[p])] = ticket[p]
    BY <2>1 DEF TicketInv, OwnTickets, Writer
  <2> QED
    BY <1>2, <2>1, <2>2, SlotRange
<1>3. CASE ~ EnqClaim(p) /\ ~ EnqPublish(p)
  <2>1. UNCHANGED <<head, tail, seq>>
    BY <1>3 DEF EnqStep, EnqCall, EnqTail, EnqSeq, EnqCasFails, EnqCopy, EnqCount,
                EnqNotify, EnqEvent, EnqWait, ring
  <2> QED
    BY <1>3, <2>1
<1> QED
  BY <1>1, <1>2, <1>3

LEMMA DeqEffect ==
  ASSUME TypeInv, TicketInv, NEW c \in Consumers, DeqCall(c) \/ DeqStep(c)
  PROVE  /\ tail' = tail /\ notEmpty' = notEmpty
         /\ \/ /\ DeqClaim(c) /\ head' = head + 1 /\ seq' = seq
               /\ head = ticket[c] /\ seq[Slot(head)] = head + 1 /\ head < tail
            \/ /\ DeqPublish(c) /\ head' = head /\ ticket' = ticket
               /\ Slot(ticket[c]) \in Slots
               /\ ticket[c] < head /\ seq[Slot(ticket[c])] = ticket[c] + 1
               /\ seq' = [seq EXCEPT ![Slot(ticket[c])] = ticket[c] + Entries]
            \/ /\ ~ DeqClaim(c) /\ ~ DeqPublish(c)
               /\ UNCHANGED <<head, seq>>
<1>1. CASE DeqClaim(c)
  <2>1. /\ pc[c] = "deqCas" /\ head = ticket[c] /\ head' = head + 1
        /\ UNCHANGED <<tail, seq, notEmpty>> /\ c \in Threads
    BY <1>1 DEF DeqClaim, Threads
  <2>2. seq[Slot(head)] >= head + 1
    BY <2>1 DEF TicketInv, SeenReady
  <2>3. seq[Slot(head)] = head + 1 /\ head < tail
    BY <2>2, ReadyToRead DEF TicketInv
  <2> QED
    BY <1>1, <2>1, <2>3
<1>2. CASE DeqPublish(c)
  <2>1. /\ pc[c] = "deqPublish" /\ c \in Threads /\ ticket[c] \in Nat
        /\ seq' = [seq EXCEPT ![Slot(ticket[c])] = ticket[c] + Entries]
        /\ UNCHANGED <<head, tail, ticket, notEmpty>>
    BY <1>2 DEF DeqPublish, Threads, TypeInv, TypeOK
  <2>2. ticket[c] < head /\ seq[Slot(ticket[c])] = ticket[c] + 1
    BY <2>1 DEF TicketInv, OwnTickets, Reader
  <2> QED
    BY <1>2, <2>1, <2>2, SlotRange
<1>3. CASE ~ DeqClaim(c) /\ ~ DeqPublish(c)
  <2>1. UNCHANGED <<head, tail, seq, notEmpty>>
    BY <1>3 DEF DeqStep, DeqCall, DeqHead, DeqSeq, DeqCasFails, DeqCopy, DeqCount,
                DeqNotify, DeqEvent, DeqWait, ring
  <2> QED
    BY <1>3, <2>1
<1> QED
  BY <1>1, <1>2, <1>3

(* The slots behind the head have been read or are being read, and those   *)
(* between head and tail have been published or are being written.         *)
PassedInv == \A t \in 0 .. head - 1 : seq[Slot(t)] >= t + 1
FilledInv ==
  \A t \in head .. tail - 1 :
    seq[Slot(t)] = t + 1 \/ \E p \in Producers : Writer(p) /\ ticket[p] = t

LEMMA EnqKeepsPassed ==
  ASSUME TypeInv, TypeInv', TicketInv, PassedInv, NEW p \in Producers, EnqCall(p) \/ EnqStep(p)
  PROVE  PassedInv'
<1>1. /\ head' = head
      /\ \/ seq' = seq
         \/ /\ Slot(ticket[p]) \in Slots
            /\ seq[Slot(ticket[p])] = ticket[p]
            /\ seq' = [seq EXCEPT ![Slot(ticket[p])] = ticket[p] + 1]
  BY EnqEffect
<1>2. head \in Nat /\ seq \in [Slots -> Nat] /\ ticket[p] \in Nat
  BY DEF TypeInv, TypeOK, Threads
<1>3. \A t \in 0 .. head - 1 : t \in Nat /\ Slot(t) \in Slots
  BY <1>2, SlotRange
<1> QED
  BY <1>1, <1>2, <1>3 DEF PassedInv

LEMMA DeqKeepsPassed ==
  ASSUME TypeInv, TypeInv', TicketInv, PassedInv, NEW c \in Consumers, DeqCall(c) \/ DeqStep(c)
  PROVE  PassedInv'
<1>0. /\ head \in Nat /\ seq \in [Slots -> Nat] /\ ticket[c] \in Nat
      /\ Entries \in Nat /\ Entries > 1
  BY EntriesAssumption DEF TypeInv, TypeOK, Threads
<1>a. \A t \in 0 .. head : t \in Nat /\ Slot(t) \in Slots
  BY <1>0, SlotRange
<1>1. CASE head' = head + 1 /\ seq' = seq /\ seq[Slot(head)] = head + 1
  <2> SUFFICES ASSUME NEW t \in 0 .. head PROVE seq[Slot(t)] >= t + 1
    BY <1>0, <1>1 DEF PassedInv
  <2>1. CASE t = head
    BY <1>0, <1>1, <2>1
  <2>2. CASE t # head
    BY <1>0, <2>2 DEF PassedInv
  <2> QED
    BY <2>1, <2>2
<1>2. CASE /\ head' = head /\ Slot(ticket[c]) \in Slots
           /\ seq[Slot(ticket[c])] = ticket[c] + 1
           /\ seq' = [seq EXCEPT ![Slot(ticket[c])] = ticket[c] + Entries]
  BY <1>0, <1>a, <1>2 DEF PassedInv
<1>3. CASE UNCHANGED <<head, seq>>
  BY <1>3 DEF PassedInv
<1> QED
  BY <1>1, <1>2, <1>3, DeqEffect

LEMMA EnqKeepsFilled ==
  ASSUME TypeInv, TypeInv', TicketInv, FilledInv, NEW p \in Producers, EnqCall(p) \/ EnqStep(p)
  PROVE  FilledInv'
<1>0. /\ head \in Nat /\ tail \in Nat /\ seq \in [Slots -> Nat] /\ p \in Threads
      /\ \A a \in Threads : ticket[a] \in Nat /\ Slot(ticket[a]) \in Slots
      /\ Producers \subseteq Threads /\ pc \in [Threads -> PC]
      /\ MovesOnly(p)
  BY SlotRange, EnqMovesOnly DEF TypeInv, TypeOK, Threads
<1>1. \A q \in Producers \ {p} : Writer(q) => Writer(q)' /\ ticket'[q] = ticket[q]
  BY <1>0 DEF MovesOnly, Writer
<1>2. CASE EnqClaim(p)
  <2>1. head' = head /\ tail' = tail + 1 /\ seq' = seq /\ ticket[p] = tail
    BY <1>2, EnqEffect DEF EnqClaim, EnqPublish
  <2>2. Writer(p)' /\ ticket'[p] = tail /\ ~ Writer(p)
    BY <1>0, <1>2 DEF EnqClaim, Goto, Writer
  <2> SUFFICES ASSUME NEW t \in head .. tail
               PROVE  seq[Slot(t)] = t + 1 \/ \E q \in Producers : Writer(q)' /\ ticket'[q] = t
    BY <2>1, <1>0 DEF FilledInv
  <2>3. CASE t = tail
    BY <2>2, <2>3
  <2>4. CASE t # tail
    BY <1>0, <1>1, <2>2, <2>4 DEF FilledInv
  <2> QED
    BY <2>3, <2>4
<1>3. CASE EnqPublish(p)
  <2> DEFINE u == ticket[p]
  <2>1. /\ head' = head /\ tail' = tail /\ ticket' = ticket
        /\ seq[Slot(u)] = u
        /\ seq' = [seq EXCEPT ![Slot(u)] = u + 1]
    BY <1>3, EnqEffect DEF EnqClaim, EnqPublish
  <2>2. p \in InSlot
    BY <1>0, <1>3 DEF EnqPublish, InSlot
  <2> SUFFICES ASSUME NEW t \in head .. tail - 1
               PROVE  seq'[Slot(t)] = t + 1 \/ \E q \in Producers : Writer(q)' /\ ticket'[q] = t
    BY <2>1, <1>0 DEF FilledInv
  <2>3. t \in Nat /\ Slot(t) \in Slots
    BY <1>0, SlotRange
  <2>4. CASE t = u
    BY <1>0, <2>1, <2>4
  <2>5. CASE t # u /\ seq[Slot(t)] = t + 1
    <3>1. Slot(t) # Slot(u)
      BY <1>0, <2>1, <2>3, <2>5, NextSlot
    <3> QED
      BY <1>0, <2>1, <2>3, <2>5, <3>1
  <2>6. CASE t # u /\ \E q \in Producers : Writer(q) /\ ticket[q] = t
    BY <1>1, <2>6
  <2> QED
    BY <2>4, <2>5, <2>6 DEF FilledInv
<1>4. CASE ~ EnqClaim(p) /\ ~ EnqPublish(p)
  <2>1. UNCHANGED <<head, tail, seq>>
    BY <1>4, EnqEffect
  <2>2. Writer(p) => Writer(p)' /\ ticket'[p] = ticket[p]
    BY <1>0, <1>4 DEF Writer, EnqStep, EnqCall, EnqTail, EnqSeq, EnqCasFails, EnqCopy,
                      EnqCount, EnqNotify, EnqEvent, EnqWait, Goto
  <2> QED
    BY <1>1, <2>1, <2>2 DEF FilledInv
<1> QED
  BY <1>2, <1>3, <1>4

LEMMA DeqKeepsFilled ==
  ASSUME TypeInv, TypeInv', TicketInv, FilledInv, NEW c \in Consumers, DeqCall(c) \/ DeqStep(c)
  PROVE  FilledInv'
<1>0. /\ head \in Nat /\ tail \in Nat /\ seq \in [Slots -> Nat] /\ c \in Threads
      /\ \A a \in Threads : ticket[a] \in Nat /\ Slot(ticket[a]) \in Slots
      /\ Producers \subseteq Threads /\ pc \in [Threads -> PC] /\ c \notin Producers
      /\ MovesOnly(c)
  BY SlotRange, DeqMovesOnly, ThreadsAssumption DEF TypeInv, TypeOK, Threads
<1>1. \A q \in Producers : Writer(q) => Writer(q)' /\ ticket'[q] = ticket[q]
  BY <1>0 DEF MovesOnly, Writer
<1>2. CASE head' = head + 1 /\ seq' = seq
  BY <1>0, <1>1, <1>2, DeqEffect DEF FilledInv
<1>3. CASE DeqPublish(c)
  <2> DEFINE u == ticket[c]
  <2>1. /\ head' = head /\ tail' = tail
        /\ u < head /\ seq[Slot(u)] = u + 1
        /\ seq' = [seq EXCEPT ![Slot(u)] = u + Entries]
    BY <1>3, DeqEffect DEF DeqClaim, DeqPublish
  <2>2. c \in InSlot
    BY <1>0, <1>3 DEF DeqPublish, InSlot
  <2> SUFFICES ASSUME NEW t \in head .. tail - 1
               PROVE  seq'[Slot(t)] = t + 1 \/ \E q \in Producers : Writer(q)' /\ ticket'[q] = t
    BY <2>1, <1>0 DEF FilledInv
  <2>3. t \in Nat /\ Slot(t) \in Slots
    BY <1>0, SlotRange
  <2>4. CASE seq[Slot(t)] = t + 1
    <3>1. Slot(t) # Slot(u)
      BY <1>0, <2>1, <2>3, <2>4
    <3> QED
      BY <1>0, <2>1, <2>3, <2>4, <3>1
  <2>5. CASE \E q \in Producers : Writer(q) /\ ticket[q] = t
    BY <1>1, <2>5
  <2> QED
    BY <2>4, <2>5 DEF FilledInv
<1>4. CASE UNCHANGED <<head, seq>>
  BY <1>1, <1>4, DeqEffect DEF FilledInv
<1> QED
  BY <1>2, <1>3, <1>4, DeqEffect

(* A consumer asks for the futex word before its second try, and never     *)
(* looks beyond the head.                                                  *)
LookInv ==
  \A c \in Consumers : /\ seen[c] <= notEmpty
                       /\ pc[c] = "deqSeq" => ticket[c] <= head

LEMMA EnqKeepsLook ==
  ASSUME TypeInv, TypeInv', TicketInv, LookInv, NEW p \in Producers, EnqCall(p) \/ EnqStep(p)
  PROVE  LookInv'
<1>1. /\ \A c \in Consumers : c \in Threads \ {p} /\ seen[c] \in Nat
      /\ MovesOnly(p) /\ notEmpty \in Nat
  BY EnqMovesOnly, ThreadsAssumption DEF Threads, TypeInv, TypeOK
<1>2. head' = head
  BY EnqEffect
<1>3. notEmpty' \in {notEmpty, notEmpty + 1}
  BY DEF EnqStep, EnqCall, EnqTail, EnqSeq, EnqClaim, EnqCasFails, EnqCopy, EnqPublish,
         EnqCount, EnqNotify, EnqEvent, EnqWait, ring
<1>4. ASSUME NEW c \in Consumers
      PROVE  seen'[c] <= notEmpty' /\ (pc'[c] = "deqSeq" => ticket'[c] <= head')
  BY <1>1, <1>2, <1>3 DEF MovesOnly, LookInv
<1> QED
  BY <1>4 DEF LookInv

LEMMA DeqKeepsLook ==
  ASSUME TypeInv, TypeInv', TicketInv, LookInv, NEW c \in Consumers, DeqCall(c) \/ DeqStep(c)
  PROVE  LookInv'
<1>0. /\ c \in Threads /\ pc \in [Threads -> PC] /\ ticket \in [Threads -> Nat]
      /\ seen \in [Threads -> Nat] /\ notEmpty \in Nat /\ head \in Nat
      /\ second \in [Threads -> BOOLEAN]
  BY DEF TypeInv, TypeOK, Threads
<1>1. MovesOnly(c)
  BY DeqMovesOnly
<1>2. notEmpty' = notEmpty /\ head' \in {head, head + 1}
  BY DeqEffect
<1>3. seen'[c] \in {seen[c], 0, notEmpty}
  BY <1>0 DEF DeqStep, DeqCall, DeqHead, DeqSeq, DeqClaim, DeqCasFails, DeqCopy, DeqPublish,
              DeqCount, DeqNotify, DeqEvent, DeqWait, TryFails, Leave
<1>4. pc'[c] = "deqSeq" => ticket'[c] = head
  BY <1>0 DEF DeqStep, DeqCall, DeqHead, DeqSeq, DeqClaim, DeqCasFails, DeqCopy, DeqPublish,
              DeqCount, DeqNotify, DeqEvent, DeqWait, TryFails, Leave, Goto, Notify
<1>5. ASSUME NEW w \in Consumers
      PROVE  seen'[w] <= notEmpty' /\ (pc'[w] = "deqSeq" => ticket'[w] <= head')
  <2>1. w \in Threads /\ seen[w] \in Nat /\ seen[w] <= notEmpty
    BY <1>0 DEF Threads, LookInv
  <2>2. CASE w = c
    BY <1>0, <1>2, <1>3, <1>4, <2>1, <2>2
  <2>3. CASE w # c
    BY <1>0, <1>1, <1>2, <2>1, <2>3 DEF MovesOnly, LookInv
  <2> QED
    BY <2>2, <2>3
<1> QED
  BY <1>5 DEF LookInv

(* A consumer is awake unless it sleeps or is about to: it will try again. *)
Awake(c) == pc[c] # "asleep" /\ (pc[c] = "deqWait" => seen[c] # notEmpty)

(* While the head of the queue can be read somebody is bound to see it: a  *)
(* producer that has yet to bump the futex word, a consumer that is awake, *)
(* or a sleeper with a producer about to wake one.                         *)
WakeInv ==
  seq[Slot(head)] = head + 1 =>
    \/ \E p \in Producers : pc[p] = "enqCount"
    \/ \E c \in Consumers : Awake(c)
    \/ /\ \E p \in Producers : pc[p] = "enqNotify"
       /\ \E c \in Consumers : pc[c] = "asleep"

LEMMA EnqKeepsWake ==
  ASSUME Consumers # {}, TypeInv, TypeInv', TicketInv, LookInv, WakeInv,
         NEW p \in Producers, EnqCall(p) \/ EnqStep(p)
  PROVE  WakeInv'
<1>0. /\ p \in Threads /\ pc \in [Threads -> PC] /\ Producers \subseteq Threads
      /\ \A c \in Consumers : c \in Threads \ {p} /\ c \notin Producers /\ seen[c] \in Nat
      /\ notEmpty \in Nat /\ head' = head /\ MovesOnly(p)
  BY EnqMovesOnly, EnqEffect, ThreadsAssumption DEF Threads, TypeInv, TypeOK
<1>1. \A c \in Consumers : /\ seen'[c] = seen[c]
                           /\ pc'[c] = pc[c] \/ (pc[c] = "asleep" /\ pc'[c] = "deqHead")
  BY <1>0 DEF MovesOnly
<1>2. CASE EnqPublish(p)
  <2>1. pc'[p] = "enqCount"
    BY <1>0, <1>2 DEF EnqPublish, Goto
  <2> QED
    BY <2>1 DEF WakeInv
<1>3. CASE EnqCount(p)
  <2>1. notEmpty' = notEmpty + 1 /\ pc'[p] = "enqNotify"
    BY <1>0, <1>3 DEF EnqCount, Goto
  <2>2. \A c \in Consumers : pc'[c] = "asleep" \/ Awake(c)'
    BY <1>0, <1>1, <2>1 DEF Awake, LookInv
  <2> QED
    BY <2>1, <2>2 DEF WakeInv
<1>4. CASE EnqNotify(p)
  <2>1. UNCHANGED <<seq, notEmpty>> /\ Notify(p, Consumers) /\ pc[p] = "enqNotify"
    BY <1>4 DEF EnqNotify, ring
  <2>2. \A c \in Consumers : Awake(c) => Awake(c)'
    BY <1>1, <2>1 DEF Awake
  <2>3. CASE \E w \in Consumers : pc[w] = "asleep"
    <3>1. PICK w \in Consumers : pc[w] = "asleep" /\ pc'[w] = "deqHead"
      BY <1>0, <2>1, <2>3 DEF Notify
    <3>2. Awake(w)'
      BY <3>1 DEF Awake
    <3> QED
      BY <3>2 DEF WakeInv
  <2>4. CASE \A w \in Consumers : pc[w] # "asleep"
    <3>1. \A q \in Producers : pc[q] = "enqCount" => pc'[q] = "enqCount"
      BY <1>0, <2>1 DEF MovesOnly
    <3> QED
      BY <1>0, <2>1, <2>2, <2>4, <3>1 DEF WakeInv
  <2> QED
    BY <2>3, <2>4
<1>5. CASE ~ EnqPublish(p) /\ ~ EnqCount(p) /\ ~ EnqNotify(p)
  <2>1. seq' = seq
    BY <1>5, EnqEffect
  <2>2. notEmpty' = notEmpty /\ pc[p] \notin {"enqCount", "enqNotify"}
    BY <1>5 DEF EnqStep, EnqCall, EnqTail, EnqSeq, EnqClaim, EnqCasFails, EnqCopy,
                EnqEvent, EnqWait, ring
  <2>3. \A c \in Consumers : (Awake(c) => Awake(c)') /\ (pc[c] = "asleep" => pc'[c] = "asleep" \/ Awake(c)')
    BY <1>1, <2>2 DEF Awake
  <2>4. \A q \in Producers : /\ pc[q] = "enqCount" => pc'[q] = "enqCount"
                             /\ pc[q] = "enqNotify" => pc'[q] = "enqNotify"
    BY <1>0, <2>2 DEF MovesOnly
  <2> QED
    BY <1>0, <2>1, <2>3, <2>4 DEF WakeInv
<1> QED
  BY <1>2, <1>3, <1>4, <1>5

LEMMA DeqKeepsWake ==
  ASSUME TypeInv, TypeInv', TicketInv, PassedInv, LookInv, WakeInv,
         NEW c \in Consumers, DeqCall(c) \/ DeqStep(c)
  PROVE  WakeInv'
<1>0. /\ c \in Threads /\ pc \in [Threads -> PC] /\ head \in Nat /\ seq \in [Slots -> Nat]
      /\ ticket[c] \in Nat /\ Producers \subseteq Threads /\ Consumers \subseteq Threads
      /\ c \notin Producers /\ seen \in [Threads -> Nat]
      /\ notEmpty' = notEmpty /\ MovesOnly(c)
  BY DeqMovesOnly, DeqEffect, ThreadsAssumption DEF Threads, TypeInv, TypeOK
<1>1. CASE pc'[c] \notin {"deqWait", "asleep"}
  <2>1. Awake(c)'
    BY <1>1 DEF Awake
  <2> QED
    BY <2>1 DEF WakeInv
<1>2. CASE DeqSeq(c) /\ pc'[c] \in {"deqWait", "asleep"}
  <2>1. /\ UNCHANGED <<head, seq>> /\ pc[c] = "deqSeq"
        /\ seq[Slot(ticket[c])] - (ticket[c] + 1) < 0
    BY <1>0, <1>2 DEF DeqSeq, ring, Goto
  <2>2. ticket[c] = head
    <3>1. ticket[c] <= head
      BY <2>1 DEF LookInv
    <3>2. Slot(ticket[c]) \in Slots
      BY <1>0, SlotRange
    <3>3. ASSUME ticket[c] < head PROVE FALSE
      <4>1. seq[Slot(ticket[c])] >= ticket[c] + 1
        BY <1>0, <3>3 DEF PassedInv
      <4> QED
        BY <1>0, <2>1, <3>2, <4>1
    <3> QED
      BY <1>0, <3>1, <3>3
  <2>3. seq[Slot(head)] # head + 1
    BY <1>0, <2>1, <2>2
  <2> QED
    BY <2>1, <2>3 DEF WakeInv
<1>3. CASE DeqWait(c) /\ pc'[c] \in {"deqWait", "asleep"}
  <2>1. UNCHANGED <<head, seq>> /\ pc[c] = "deqWait" /\ notEmpty = seen[c] /\ pc'[c] = "asleep"
    BY <1>0, <1>3 DEF DeqWait, ring, Goto
  <2>2. \A w \in Consumers : Awake(w) => Awake(w)'
    BY <1>0, <2>1 DEF Awake, MovesOnly
  <2>3. \A q \in Producers : /\ pc[q] = "enqCount" => pc'[q] = "enqCount"
                             /\ pc[q] = "enqNotify" => pc'[q] = "enqNotify"
    BY <1>0 DEF MovesOnly
  <2> QED
    BY <2>1, <2>2, <2>3 DEF WakeInv
<1>4. pc'[c] \in {"deqWait", "asleep"} => DeqSeq(c) \/ DeqWait(c)
  BY <1>0 DEF DeqStep, DeqCall, DeqHead, DeqClaim, DeqCasFails, DeqCopy, DeqPublish,
              DeqCount, DeqNotify, DeqEvent, Goto, Notify
<1> QED
  BY <1>1, <1>2, <1>3, <1>4

WakeUps == PassedInv /\ FilledInv /\ LookInv /\ WakeInv

LEMMA WakeUpsInit == Init => WakeUps
<1> SUFFICES ASSUME Init PROVE WakeUps
  OBVIOUS
<1>1. \A c \in Consumers : c \in Threads
  BY DEF Threads
<1>2. PassedInv /\ FilledInv /\ LookInv
  BY <1>1 DEF Init, PassedInv, FilledInv, LookInv
<1>3. WakeInv
  BY <1>1, EntriesAssumption DEF Init, WakeInv, Awake, Slots, Slot
<1> QED
  BY <1>2, <1>3 DEF WakeUps

LEMMA WakeUpsStep ==
  ASSUME Consumers # {}, TypeInv, TypeInv', TicketInv, WakeUps, [Next]_vars
  PROVE  WakeUps'
<1>1. ASSUME NEW p \in Producers, EnqCall(p) \/ EnqStep(p) PROVE WakeUps'
  BY <1>1, EnqKeepsPassed, EnqKeepsFilled, EnqKeepsLook, EnqKeepsWake DEF WakeUps
<1>2. ASSUME NEW c \in Consumers, DeqCall(c) \/ DeqStep(c) PROVE WakeUps'
  BY <1>2, DeqKeepsPassed, DeqKeepsFilled, DeqKeepsLook, DeqKeepsWake DEF WakeUps
<1>3. CASE UNCHANGED vars
  BY <1>3 DEF vars, ring, locals, WakeUps, PassedInv, FilledInv, LookInv, WakeInv,
              Writer, Awake
<1> QED
  BY <1>1, <1>2, <1>3 DEF Next

LEMMA WakeUpsLeaveNothing ==
  ASSUME Consumers # {}, TypeInv, TicketInv, WakeUps PROVE NoItemLeftBehind
<1> SUFFICES ASSUME \A p \in Producers : pc[p] \in {"idle", "asleep"},
                    \A c \in Consumers : pc[c] = "asleep",
                    head # tail
             PROVE  FALSE
  BY DEF NoItemLeftBehind
<1>1. head \in head .. tail - 1
  BY DEF TicketInv, SlotWindow, TypeInv, TypeOK
<1>2. seq[Slot(head)] = head + 1
  BY <1>1 DEF WakeUps, FilledInv, Writer
<1> QED
  BY <1>2 DEF WakeUps, WakeInv, Awake

(* With at least one consumer, no wake-up of a consumer is ever lost: when *)
(* every producer is out of enqueue_blocking or try_enqueue and every      *)
(* consumer sleeps in dequeue_blocking, the ring is empty.  This is what   *)
(* the second try after reading the futex word is for.                     *)
THEOREM NothingLeftBehind ==
  ASSUME Consumers # {} PROVE Spec => []NoItemLeftBehind
<1>1. Init => TypeInv /\ TicketInv /\ WakeUps
  BY TypeInit, TicketInit, WakeUpsInit
<1>2. TypeInv /\ TicketInv /\ WakeUps /\ [Next]_vars => (TypeInv /\ TicketInv /\ WakeUps)'
  BY TypeStep, TicketStep, WakeUpsStep
<1>3. TypeInv /\ TicketInv /\ WakeUps => NoItemLeftBehind
  BY WakeUpsLeaveNothing
<1> QED
  BY <1>1, <1>2, <1>3, PTL DEF Spec

(* --- No wake-up of a producer is lost, with one consumer --------------------- *)

(* The tickets below Freed(c) may be written: with one consumer slots are  *)
(* released in ticket order, all but the one it may still be reading.      *)
Freed(c) == head + Entries - (IF Reader(c) THEN 1 ELSE 0)

SoleInv(c) ==
  /\ Reader(c) => head = ticket[c] + 1
  /\ tail <= Freed(c)
  /\ \A t \in 0 .. Freed(c) - 1 : seq[Slot(t)] >= t
  /\ \A p \in Producers : /\ seen[p] <= notFull
                          /\ pc[p] = "enqSeq" => ticket[p] <= tail

(* A producer that will look at the ring again before it sleeps.           *)
Hopeful(p) == \/ pc[p] \in {"enqTail", "enqSeq", "enqCas", "enqEvent"}
              \/ pc[p] = "enqWait" /\ seen[p] # notFull
Attempting == {p \in Producers : Hopeful(p)}

(* Where somebody sleeps, or is about to, every free slot has a producer   *)
(* that will look for it or a wake-up that is still to come.               *)
Sleeps(p) == pc[p] = "asleep"
Dozes(p)  == pc[p] = "enqWait" /\ seen[p] = notFull
RoomInv(c) ==
  /\ (\E p \in Producers : Sleeps(p)) =>
       Freed(c) - tail <= Cardinality(Attempting)
                            + (IF pc[c] \in {"deqCount", "deqNotify"} THEN 1 ELSE 0)
  /\ (\E p \in Producers : Dozes(p)) =>
       Freed(c) - tail <= Cardinality(Attempting) + (IF pc[c] = "deqCount" THEN 1 ELSE 0)

LEMMA EnqKeepsSole ==
  ASSUME NEW CONSTANT c, Consumers = {c}, TypeInv, TypeInv', TicketInv, SoleInv(c),
         NEW p \in Producers, EnqCall(p) \/ EnqStep(p)
  PROVE  SoleInv(c)' /\ Freed(c)' = Freed(c)
<1>0. /\ p \in Threads /\ c \in Threads /\ c \notin Producers /\ c # p
      /\ Producers \subseteq Threads
      /\ head \in Nat /\ tail \in Nat /\ seq \in [Slots -> Nat] /\ notFull \in Nat
      /\ pc \in [Threads -> PC] /\ ticket \in [Threads -> Nat] /\ seen \in [Threads -> Nat]
      /\ Entries \in Nat /\ Entries > 1
      /\ head' = head /\ MovesOnly(p) /\ notFull' = notFull
  <2>1. notFull' = notFull
    BY DEF EnqStep, EnqCall, EnqTail, EnqSeq, EnqClaim, EnqCasFails, EnqCopy, EnqPublish,
           EnqCount, EnqNotify, EnqEvent, EnqWait, ring
  <2>2. head' = head /\ MovesOnly(p)
    BY EnqMovesOnly, EnqEffect
  <2> QED
    BY <2>1, <2>2, ThreadsAssumption, EntriesAssumption DEF Threads, TypeInv, TypeOK
<1>1. (Reader(c)' <=> Reader(c)) /\ ticket'[c] = ticket[c]
  BY <1>0 DEF MovesOnly, Reader
<1>2. Freed(c)' = Freed(c) /\ Freed(c) \in Int
  BY <1>0, <1>1 DEF Freed
<1>3. tail' <= Freed(c)
  <2>1. CASE EnqClaim(p)
    <3>1. tail' = tail + 1 /\ seq[Slot(tail)] = tail /\ tail < head + Entries
      BY <2>1, EnqEffect DEF EnqClaim, EnqPublish
    <3>2. CASE Reader(c)
      <4>1. head = ticket[c] + 1 /\ seq[Slot(ticket[c])] = ticket[c] + 1
        BY <1>0, <3>2 DEF SoleInv, TicketInv, OwnTickets
      <4>2. tail # ticket[c] + Entries
        <5> SUFFICES ASSUME tail = ticket[c] + Entries PROVE FALSE
          OBVIOUS
        <5>1. Slot(tail) = Slot(ticket[c])
          BY <1>0, NextRound
        <5> QED
          BY <1>0, <3>1, <4>1, <5>1
      <4> QED
        BY <1>0, <3>1, <3>2, <4>1, <4>2 DEF Freed
    <3>3. CASE ~ Reader(c)
      BY <1>0, <3>1, <3>3 DEF Freed
    <3> QED
      BY <3>2, <3>3
  <2>2. CASE ~ EnqClaim(p)
    BY <2>2, EnqEffect DEF SoleInv
  <2> QED
    BY <2>1, <2>2
<1>4. \A t \in 0 .. Freed(c) - 1 : seq'[Slot(t)] >= t
  <2>1. \/ seq' = seq
        \/ /\ seq[Slot(ticket[p])] = ticket[p] /\ Slot(ticket[p]) \in Slots
           /\ seq' = [seq EXCEPT ![Slot(ticket[p])] = ticket[p] + 1]
    BY EnqEffect
  <2>2. \A t \in 0 .. Freed(c) - 1 : t \in Nat /\ Slot(t) \in Slots
    BY <1>2, SlotRange
  <2> QED
    BY <1>0, <2>1, <2>2 DEF SoleInv
<1>5. ASSUME NEW q \in Producers
      PROVE  seen'[q] <= notFull' /\ (pc'[q] = "enqSeq" => ticket'[q] <= tail')
  <2>1. CASE q # p
    <3>1. /\ q \in Threads \ {p} /\ seen[q] <= notFull /\ tail' >= tail
          /\ pc[q] = "enqSeq" => ticket[q] <= tail
      BY <1>0, <2>1, EnqEffect DEF SoleInv
    <3>2. seen'[q] = seen[q] /\ ticket'[q] = ticket[q] /\ (pc'[q] = "enqSeq" => pc[q] = "enqSeq")
      BY <3>1, <1>0 DEF MovesOnly
    <3>3. tail' \in Nat /\ ticket[q] \in Nat
      BY <1>0, <3>1 DEF TypeInv, TypeOK
    <3> QED
      BY <1>0, <3>1, <3>2, <3>3
  <2>2. CASE q = p
    <3>1. seen'[p] \in {seen[p], 0, notFull} /\ seen[p] <= notFull
      BY <1>0 DEF EnqStep, EnqCall, EnqTail, EnqSeq, EnqClaim, EnqCasFails, EnqCopy,
                  EnqPublish, EnqCount, EnqNotify, EnqEvent, EnqWait, TryFails, Leave, SoleInv
    <3>2. pc'[p] = "enqSeq" => ticket'[p] = tail /\ tail' = tail
      BY <1>0 DEF EnqStep, EnqCall, EnqTail, EnqSeq, EnqClaim, EnqCasFails, EnqCopy,
                  EnqPublish, EnqCount, EnqNotify, EnqEvent, EnqWait, TryFails, Leave,
                  Goto, Notify, ring
    <3> QED
      BY <1>0, <2>2, <3>1, <3>2
  <2> QED
    BY <2>1, <2>2
<1> QED
  BY <1>0, <1>1, <1>2, <1>3, <1>4, <1>5 DEF SoleInv

LEMMA DeqKeepsSole ==
  ASSUME NEW CONSTANT c, Consumers = {c}, TypeInv, TypeInv', TicketInv, SoleInv(c),
         DeqCall(c) \/ DeqStep(c)
  PROVE  /\ SoleInv(c)'
         /\ Freed(c)' = Freed(c) + (IF DeqPublish(c) THEN 1 ELSE 0)
<1>0. /\ c \in Consumers /\ c \in Threads /\ c \notin Producers
      /\ Producers \subseteq Threads
      /\ head \in Nat /\ tail \in Nat /\ seq \in [Slots -> Nat] /\ notFull \in Nat
      /\ pc \in [Threads -> PC] /\ ticket \in [Threads -> Nat] /\ seen \in [Threads -> Nat]
      /\ Entries \in Nat /\ Entries > 1
      /\ tail' = tail /\ MovesOnly(c) /\ notFull' \in {notFull, notFull + 1}
  <2>1. notFull' \in {notFull, notFull + 1}
    BY DEF DeqStep, DeqCall, DeqHead, DeqSeq, DeqClaim, DeqCasFails, DeqCopy, DeqPublish,
           DeqCount, DeqNotify, DeqEvent, DeqWait, ring
  <2>2. tail' = tail /\ MovesOnly(c)
    BY DeqMovesOnly, DeqEffect
  <2> QED
    BY <2>1, <2>2, ThreadsAssumption, EntriesAssumption DEF Threads, TypeInv, TypeOK
<1>1. \A q \in Producers : seen'[q] <= notFull' /\ (pc'[q] = "enqSeq" => ticket'[q] <= tail')
  <2> SUFFICES ASSUME NEW q \in Producers
               PROVE  seen'[q] <= notFull' /\ (pc'[q] = "enqSeq" => ticket'[q] <= tail')
    OBVIOUS
  <2>1. q \in Threads \ {c} /\ seen[q] <= notFull /\ (pc[q] = "enqSeq" => ticket[q] <= tail)
    BY <1>0 DEF SoleInv
  <2>2. seen'[q] = seen[q] /\ ticket'[q] = ticket[q] /\ (pc'[q] = "enqSeq" => pc[q] = "enqSeq")
    BY <2>1, <1>0 DEF MovesOnly
  <2> QED
    BY <1>0, <2>1, <2>2
<1>2. CASE DeqClaim(c)
  <2>1. /\ head' = head + 1 /\ seq' = seq /\ head = ticket[c] /\ ticket' = ticket
        /\ ~ Reader(c) /\ Reader(c)'
    BY <1>0, <1>2 DEF DeqClaim, Goto, Reader
  <2>2. Freed(c)' = Freed(c) /\ ~ DeqPublish(c) /\ Freed(c) \in Int
    BY <1>0, <1>2, <2>1 DEF Freed, DeqClaim, DeqPublish
  <2>3. \A t \in 0 .. Freed(c)' - 1 : seq'[Slot(t)] >= t
    BY <2>1, <2>2 DEF SoleInv
  <2>4. tail' <= Freed(c)' /\ head' = ticket'[c] + 1
    BY <1>0, <2>1, <2>2 DEF SoleInv
  <2> QED
    BY <1>1, <2>2, <2>3, <2>4 DEF SoleInv
<1>3. CASE DeqPublish(c)
  <2> DEFINE u == ticket[c]
  <2>1. /\ head' = head /\ ticket' = ticket /\ Reader(c) /\ ~ Reader(c)'
        /\ seq[Slot(u)] = u + 1 /\ Slot(u) \in Slots
        /\ seq' = [seq EXCEPT ![Slot(u)] = u + Entries]
        /\ head = u + 1 /\ u \in Nat
    BY <1>0, <1>3, DeqEffect DEF DeqPublish, DeqClaim, Goto, Reader, SoleInv
  <2>2. Freed(c) = u + Entries /\ Freed(c)' = u + Entries + 1
    BY <1>0, <2>1 DEF Freed
  <2>3. \A t \in 0 .. u + Entries : seq'[Slot(t)] >= t
    <3> SUFFICES ASSUME NEW t \in 0 .. u + Entries PROVE seq'[Slot(t)] >= t
      OBVIOUS
    <3>1. t \in Nat /\ Slot(t) \in Slots /\ Slot(u + Entries) = Slot(u)
      BY <1>0, <2>1, SlotRange, NextRound
    <3>2. CASE t = u + Entries
      BY <1>0, <2>1, <3>1, <3>2
    <3>3. CASE t # u + Entries
      <4>1. seq[Slot(t)] >= t
        BY <1>0, <2>1, <2>2, <3>3 DEF SoleInv
      <4>2. seq[Slot(t)] \in Nat
        BY <1>0, <3>1
      <4> QED
        BY <1>0, <2>1, <3>1, <4>1, <4>2
    <3> QED
      BY <3>2, <3>3
  <2>4. tail' <= Freed(c)'
    BY <1>0, <2>1, <2>2 DEF SoleInv
  <2>5. \A t \in 0 .. Freed(c)' - 1 : seq'[Slot(t)] >= t
    BY <1>0, <2>1, <2>2, <2>3
  <2> QED
    BY <1>1, <1>3, <2>1, <2>2, <2>4, <2>5 DEF SoleInv
<1>4. CASE ~ DeqClaim(c) /\ ~ DeqPublish(c)
  <2>1. UNCHANGED <<head, seq>>
    BY <1>0, <1>4, DeqEffect
  <2>2. (Reader(c)' <=> Reader(c)) /\ (Reader(c) => ticket'[c] = ticket[c])
    BY <1>0, <1>4 DEF Reader, DeqStep, DeqCall, DeqHead, DeqSeq, DeqCasFails, DeqCopy,
           DeqCount, DeqNotify, DeqEvent, DeqWait, TryFails, Leave, Goto, Notify
  <2>3. Freed(c)' = Freed(c) /\ Freed(c) \in Int
    BY <1>0, <2>1, <2>2 DEF Freed
  <2> QED
    BY <1>0, <1>1, <1>4, <2>1, <2>2, <2>3 DEF SoleInv
<1> QED
  BY <1>2, <1>3, <1>4

(* The number of producers that will look again.                           *)
LEMMA AttemptingFinite ==
  ASSUME IsFiniteSet(Producers)
  PROVE  IsFiniteSet(Attempting) /\ Cardinality(Attempting) \in Nat
<1>1. Attempting \in SUBSET Producers
  BY DEF Attempting
<1> QED
  BY <1>1, FS_Subset, FS_CardinalityType

LEMMA AttemptingFinitePrimed ==
  ASSUME IsFiniteSet(Producers)
  PROVE  IsFiniteSet(Attempting') /\ Cardinality(Attempting') \in Nat
<1>1. Attempting' \in SUBSET Producers
  BY DEF Attempting
<1> QED
  BY <1>1, FS_Subset, FS_CardinalityType

(* A step after which every hopeful producer is still hopeful, no free     *)
(* slot more than before, and which puts nobody to sleep that was not      *)
(* about to.                                                               *)
LEMMA MoreHope ==
  ASSUME NEW CONSTANT c, IsFiniteSet(Producers), RoomInv(c),
         Freed(c) \in Int, tail \in Int, Freed(c)' = Freed(c), tail' = tail,
         \A p \in Producers : Hopeful(p) => Hopeful(p)',
         \A p \in Producers : Sleeps(p)' => Sleeps(p) \/ Dozes(p),
         \A p \in Producers : Dozes(p)' => Dozes(p),
         pc[c] \in {"deqCount", "deqNotify"} => pc'[c] = pc[c]
  PROVE  RoomInv(c)'
<1>1. /\ Cardinality(Attempting) \in Nat /\ Cardinality(Attempting') \in Nat
      /\ IsFiniteSet(Attempting')
  BY AttemptingFinite, AttemptingFinitePrimed
<1>2. Attempting \in SUBSET Attempting'
  BY DEF Attempting
<1>3. Cardinality(Attempting) <= Cardinality(Attempting')
  BY <1>1, <1>2, FS_Subset
<1> DEFINE A == Cardinality(Attempting)
           B == Cardinality(Attempting')
<1>4. ASSUME \E p \in Producers : Sleeps(p)'
      PROVE  Freed(c) - tail <= B + (IF pc'[c] \in {"deqCount", "deqNotify"} THEN 1 ELSE 0)
  <2> HIDE DEF A, B
  <2>1. A \in Nat /\ B \in Nat /\ A <= B
    BY <1>1, <1>3 DEF A, B
  <2>2. \/ Freed(c) - tail <= A + (IF pc[c] \in {"deqCount", "deqNotify"} THEN 1 ELSE 0)
        \/ Freed(c) - tail <= A + (IF pc[c] = "deqCount" THEN 1 ELSE 0)
    BY <1>4 DEF RoomInv, A
  <2> QED
    BY <2>1, <2>2
<1>5. ASSUME \E p \in Producers : Dozes(p)'
      PROVE  Freed(c) - tail <= B + (IF pc'[c] = "deqCount" THEN 1 ELSE 0)
  <2> HIDE DEF A, B
  <2>1. A \in Nat /\ B \in Nat /\ A <= B
    BY <1>1, <1>3 DEF A, B
  <2>2. Freed(c) - tail <= A + (IF pc[c] = "deqCount" THEN 1 ELSE 0)
    BY <1>5 DEF RoomInv, A
  <2> QED
    BY <2>1, <2>2
<1> QED
  BY <1>4, <1>5 DEF RoomInv

(* A producer that finds its slot taken has found the ring full.           *)
LEMMA FullWhenTaken ==
  ASSUME NEW CONSTANT c, Consumers = {c}, TypeInv, SoleInv(c), NEW p \in Producers,
         pc[p] = "enqSeq", seq[Slot(ticket[p])] - ticket[p] < 0
  PROVE  Freed(c) = tail
<1>1. /\ ticket[p] \in Nat /\ Slot(ticket[p]) \in Slots /\ seq[Slot(ticket[p])] \in Nat
      /\ head \in Nat /\ tail \in Nat /\ Entries \in Nat
  BY SlotRange, EntriesAssumption DEF TypeInv, TypeOK, Threads
<1>2. Freed(c) \in Int
  BY <1>1 DEF Freed
<1>3. ticket[p] <= tail /\ tail <= Freed(c)
  BY DEF SoleInv
<1>4. ASSUME ticket[p] < Freed(c) PROVE FALSE
  <2>1. seq[Slot(ticket[p])] >= ticket[p]
    BY <1>1, <1>2, <1>4 DEF SoleInv
  <2> QED
    BY <1>1, <2>1
<1> QED
  BY <1>1, <1>2, <1>3, <1>4

LEMMA EnqKeepsRoom ==
  ASSUME NEW CONSTANT c, Consumers = {c}, IsFiniteSet(Producers),
         TypeInv, TypeInv', TicketInv, SoleInv(c), RoomInv(c),
         NEW p \in Producers, EnqCall(p) \/ EnqStep(p)
  PROVE  RoomInv(c)'
<1>0. /\ p \in Threads /\ c \in Threads /\ c \notin Producers /\ c # p
      /\ Producers \subseteq Threads
      /\ pc \in [Threads -> PC] /\ seen \in [Threads -> Nat]
      /\ head \in Nat /\ tail \in Nat /\ Entries \in Nat
  BY ThreadsAssumption, EntriesAssumption DEF Threads, TypeInv, TypeOK
<1>1. MovesOnly(p) /\ Freed(c)' = Freed(c) /\ Freed(c) \in Int
  <2>1. Freed(c) \in Int
    BY <1>0 DEF Freed
  <2> QED
    BY <2>1, EnqMovesOnly, EnqKeepsSole
<1>2. notFull' = notFull
  BY DEF EnqStep, EnqCall, EnqTail, EnqSeq, EnqClaim, EnqCasFails, EnqCopy, EnqPublish,
         EnqCount, EnqNotify, EnqEvent, EnqWait, ring
<1>3. pc'[c] = pc[c] \/ (pc[c] = "asleep" /\ pc'[c] = "deqHead")
  BY <1>0, <1>1 DEF MovesOnly
<1>4. \A q \in Producers \ {p} : /\ seen'[q] = seen[q]
                                 /\ pc'[q] = pc[q] \/ (pc[q] = "asleep" /\ pc'[q] = "enqTail")
  BY <1>0, <1>1 DEF MovesOnly
<1>5. \A q \in Producers \ {p} : /\ Hopeful(q) => Hopeful(q)'
                                 /\ Sleeps(q)' => Sleeps(q)
                                 /\ Dozes(q)' => Dozes(q)
  BY <1>2, <1>4 DEF Hopeful, Sleeps, Dozes
<1>6. CASE EnqClaim(p)
  <2>1. /\ tail' = tail + 1 /\ pc[p] = "enqCas" /\ pc' = [pc EXCEPT ![p] = "enqCopy"]
        /\ seen' = seen
    BY <1>6 DEF EnqClaim, Goto
  <2>2. /\ Attempting' = Attempting \ {p} /\ p \in Attempting
        /\ \A q \in Producers : (Sleeps(q)' => Sleeps(q)) /\ (Dozes(q)' => Dozes(q))
        /\ pc'[c] = pc[c]
    BY <1>0, <1>2, <2>1 DEF Attempting, Hopeful, Sleeps, Dozes
  <2>3. IsFiniteSet(Attempting) /\ Cardinality(Attempting) \in Nat
    BY AttemptingFinite
  <2>4. Cardinality(Attempting') = Cardinality(Attempting) - 1
    BY <2>2, <2>3, FS_RemoveElement
  <2> DEFINE A == Cardinality(Attempting)
             B == Cardinality(Attempting')
  <2> HIDE DEF A, B
  <2>5. A \in Nat /\ B = A - 1
    BY <2>3, <2>4 DEF A, B
  <2>6. ASSUME \E q \in Producers : Sleeps(q)'
        PROVE  Freed(c) - tail' <= B + (IF pc'[c] \in {"deqCount", "deqNotify"} THEN 1 ELSE 0)
    <3>1. Freed(c) - tail <= A + (IF pc[c] \in {"deqCount", "deqNotify"} THEN 1 ELSE 0)
      BY <2>2, <2>6 DEF RoomInv, A
    <3> QED
      BY <1>0, <1>1, <2>1, <2>2, <2>5, <3>1
  <2>7. ASSUME \E q \in Producers : Dozes(q)'
        PROVE  Freed(c) - tail' <= B + (IF pc'[c] = "deqCount" THEN 1 ELSE 0)
    <3>1. Freed(c) - tail <= A + (IF pc[c] = "deqCount" THEN 1 ELSE 0)
      BY <2>2, <2>7 DEF RoomInv, A
    <3> QED
      BY <1>0, <1>1, <2>1, <2>2, <2>5, <3>1
  <2> QED
    BY <1>1, <2>6, <2>7 DEF RoomInv, B
<1>7. CASE EnqSeq(p) /\ seq[Slot(ticket[p])] - ticket[p] < 0
  <2>1. pc[p] = "enqSeq" /\ tail' = tail
    BY <1>7 DEF EnqSeq, ring
  <2>2. Freed(c)' - tail' = 0
    BY <1>0, <1>1, <1>7, <2>1, FullWhenTaken
  <2>3. Cardinality(Attempting') \in Nat
    BY AttemptingFinitePrimed
  <2> QED
    BY <2>2, <2>3 DEF RoomInv
<1>8. CASE ~ EnqClaim(p) /\ ~ (EnqSeq(p) /\ seq[Slot(ticket[p])] - ticket[p] < 0)
  <2>1. tail' = tail
    BY <1>8, EnqEffect
  <2>2. Hopeful(p) => Hopeful(p)'
    <3>1. CASE EnqSeq(p)
      <4>1. pc' = [pc EXCEPT ![p] = "enqCas"] \/ pc' = [pc EXCEPT ![p] = "enqTail"]
        BY <1>8, <3>1 DEF EnqSeq, Goto
      <4> QED
        BY <1>0, <4>1 DEF Hopeful
    <3>2. CASE ~ EnqSeq(p)
      BY <1>0, <1>2, <1>8, <3>2
         DEF Hopeful, EnqStep, EnqCall, EnqTail, EnqCasFails, EnqCopy, EnqPublish,
             EnqCount, EnqNotify, EnqEvent, EnqWait, Goto
    <3> QED
      BY <3>1, <3>2
  <2>3. (Sleeps(p)' => Sleeps(p) \/ Dozes(p)) /\ (Dozes(p)' => Dozes(p))
    <3>1. CASE EnqSeq(p)
      <4>1. pc' = [pc EXCEPT ![p] = "enqCas"] \/ pc' = [pc EXCEPT ![p] = "enqTail"]
        BY <1>8, <3>1 DEF EnqSeq, Goto
      <4> QED
        BY <1>0, <4>1 DEF Sleeps, Dozes
    <3>2. CASE EnqNotify(p)
      <4>1. pc'[p] = "idle"
        BY <1>0, <3>2 DEF EnqNotify, Notify
      <4> QED
        BY <4>1 DEF Sleeps, Dozes
    <3>3. CASE ~ EnqSeq(p) /\ ~ EnqNotify(p)
      BY <1>0, <1>2, <1>8, <3>3
         DEF Sleeps, Dozes, EnqStep, EnqCall, EnqTail, EnqCasFails, EnqCopy, EnqPublish,
             EnqCount, EnqEvent, EnqWait, Goto
    <3> QED
      BY <3>1, <3>2, <3>3
  <2>4. \A q \in Producers : /\ Hopeful(q) => Hopeful(q)'
                             /\ Sleeps(q)' => Sleeps(q) \/ Dozes(q)
                             /\ Dozes(q)' => Dozes(q)
    BY <1>5, <2>2, <2>3
  <2>5. pc[c] \in {"deqCount", "deqNotify"} => pc'[c] = pc[c]
    BY <1>3
  <2> QED
    BY <1>0, <1>1, <2>1, <2>4, <2>5, MoreHope
<1> QED
  BY <1>6, <1>7, <1>8

LEMMA DeqKeepsRoom ==
  ASSUME NEW CONSTANT c, Consumers = {c}, IsFiniteSet(Producers),
         TypeInv, TypeInv', TicketInv, SoleInv(c), RoomInv(c), DeqCall(c) \/ DeqStep(c)
  PROVE  RoomInv(c)'
<1>0. /\ c \in Consumers /\ c \in Threads /\ c \notin Producers
      /\ Producers \subseteq Threads
      /\ pc \in [Threads -> PC] /\ seen \in [Threads -> Nat]
      /\ head \in Nat /\ tail \in Nat /\ Entries \in Nat /\ notFull \in Nat
  BY ThreadsAssumption, EntriesAssumption DEF Threads, TypeInv, TypeOK
<1>1. /\ Freed(c) \in Int
      /\ Freed(c)' = Freed(c) + (IF DeqPublish(c) THEN 1 ELSE 0)
  <2>1. Freed(c) \in Int
    BY <1>0 DEF Freed
  <2> QED
    BY <2>1, DeqKeepsSole
<1>2. tail' = tail /\ MovesOnly(c)
  BY <1>0, DeqEffect, DeqMovesOnly
<1>3. \A q \in Producers : /\ q \in Threads \ {c}
                           /\ seen'[q] = seen[q]
                           /\ pc'[q] = pc[q] \/ (pc[q] = "asleep" /\ pc'[q] = "enqTail")
  BY <1>0, <1>2 DEF MovesOnly
<1>a. /\ IsFiniteSet(Attempting) /\ Cardinality(Attempting) \in Nat
      /\ Cardinality(Attempting') \in Nat
  BY AttemptingFinite, AttemptingFinitePrimed
<1> DEFINE A == Cardinality(Attempting)
           B == Cardinality(Attempting')
<1>4. CASE DeqPublish(c)
  <2>1. /\ pc[c] = "deqPublish" /\ pc' = [pc EXCEPT ![c] = "deqCount"]
        /\ UNCHANGED <<seen, notFull>> /\ Freed(c)' = Freed(c) + 1
    BY <1>1, <1>4 DEF DeqPublish, Goto
  <2>2. pc'[c] = "deqCount" /\ \A q \in Producers : pc'[q] = pc[q]
    BY <1>0, <2>1
  <2>3. /\ \A q \in Producers : (Sleeps(q)' <=> Sleeps(q)) /\ (Dozes(q)' <=> Dozes(q))
        /\ Attempting' = Attempting
    BY <2>1, <2>2 DEF Attempting, Hopeful, Sleeps, Dozes
  <2> HIDE DEF A, B
  <2>4. A \in Nat /\ B = A
    BY <1>a, <2>3 DEF A, B
  <2>5. ASSUME \E q \in Producers : Sleeps(q)' \/ Dozes(q)'
        PROVE  Freed(c)' - tail' <= B + 1
    <3>1. Freed(c) - tail <= A
      BY <1>0, <1>1, <2>1, <2>3, <2>4, <2>5 DEF RoomInv, A
    <3> QED
      BY <1>0, <1>1, <1>2, <2>1, <2>4, <3>1
  <2> QED
    BY <2>2, <2>5 DEF RoomInv, B
<1>5. CASE DeqCount(c)
  <2>1. /\ pc[c] = "deqCount" /\ pc' = [pc EXCEPT ![c] = "deqNotify"]
        /\ seen' = seen /\ notFull' = notFull + 1 /\ Freed(c)' = Freed(c)
    BY <1>1, <1>5 DEF DeqCount, DeqPublish, Goto
  <2>2. pc'[c] = "deqNotify" /\ \A q \in Producers : pc'[q] = pc[q]
    BY <1>0, <2>1
  <2>3. \A q \in Producers : /\ seen[q] \in Nat /\ seen[q] <= notFull /\ ~ Dozes(q)'
                             /\ Sleeps(q)' => Sleeps(q)
                             /\ Hopeful(q) => Hopeful(q)'
    BY <1>0, <2>1, <2>2 DEF SoleInv, Dozes, Sleeps, Hopeful
  <2>4. Attempting \in SUBSET Attempting'
    BY <2>3 DEF Attempting
  <2>5. A <= B
    BY <2>4, AttemptingFinitePrimed, FS_Subset
  <2> HIDE DEF A, B
  <2>6. A \in Nat /\ B \in Nat
    BY <1>a DEF A, B
  <2>7. ASSUME \E q \in Producers : Sleeps(q)' PROVE Freed(c)' - tail' <= B + 1
    <3>1. Freed(c) - tail <= A + 1
      BY <2>1, <2>3, <2>7 DEF RoomInv, A
    <3> QED
      BY <1>0, <1>1, <1>2, <2>1, <2>5, <2>6, <3>1
  <2> QED
    BY <2>2, <2>3, <2>7 DEF RoomInv, B
<1>6. CASE DeqNotify(c)
  <2>1. /\ pc[c] = "deqNotify" /\ Notify(c, Producers) /\ notFull' = notFull
        /\ Freed(c)' = Freed(c)
    BY <1>1, <1>6 DEF DeqNotify, DeqPublish, ring
  <2>2. pc'[c] = "idle"
    BY <1>0, <2>1 DEF Notify
  <2> HIDE DEF A, B
  <2>3. CASE \E w \in Producers : pc[w] = "asleep"
    <3>1. PICK w \in Producers : pc[w] = "asleep" /\ pc' = [pc EXCEPT ![c] = "idle", ![w] = "enqTail"]
      BY <2>1, <2>3 DEF Notify
    <3>2. /\ Attempting' = Attempting \cup {w} /\ w \notin Attempting
          /\ \A q \in Producers : (Sleeps(q)' => Sleeps(q)) /\ (Dozes(q)' => Dozes(q))
      BY <1>0, <1>3, <2>1, <3>1 DEF Attempting, Hopeful, Sleeps, Dozes
    <3>3. Cardinality(Attempting') = Cardinality(Attempting) + 1
      BY <1>a, <3>2, FS_AddElement
    <3>4. A \in Nat /\ B = A + 1
      BY <1>a, <3>3 DEF A, B
    <3>5. Freed(c) - tail <= A + 1
      <4>1. Sleeps(w)
        BY <3>1 DEF Sleeps
      <4> QED
        BY <2>1, <4>1 DEF RoomInv, A
    <3>6. Freed(c)' - tail' <= B
      BY <1>0, <1>1, <1>2, <2>1, <3>4, <3>5
    <3> QED
      BY <2>2, <3>4, <3>6 DEF RoomInv, B
  <2>4. CASE \A w \in Producers : pc[w] # "asleep"
    <3>1. \A q \in Producers : pc'[q] = pc[q]
      BY <1>3, <2>4
    <3>2. /\ Attempting' = Attempting
          /\ \A q \in Producers : ~ Sleeps(q)' /\ (Dozes(q)' => Dozes(q))
      BY <1>3, <2>1, <2>4, <3>1 DEF Attempting, Hopeful, Sleeps, Dozes
    <3>3. A \in Nat /\ B = A
      BY <1>a, <3>2 DEF A, B
    <3>4. ASSUME \E q \in Producers : Dozes(q)' PROVE Freed(c)' - tail' <= B
      <4>1. Freed(c) - tail <= A + 0
        BY <2>1, <3>2, <3>4 DEF RoomInv, A
      <4> QED
        BY <1>0, <1>1, <1>2, <2>1, <3>3, <4>1
    <3> QED
      BY <2>2, <3>2, <3>3, <3>4 DEF RoomInv, B
  <2> QED
    BY <2>3, <2>4
<1>7. CASE ~ DeqPublish(c) /\ ~ DeqCount(c) /\ ~ DeqNotify(c)
  <2>1. Freed(c)' = Freed(c)
    BY <1>1, <1>7
  <2>2. notFull' = notFull /\ pc[c] \notin {"deqCount", "deqNotify"}
    BY <1>7 DEF DeqStep, DeqCall, DeqHead, DeqSeq, DeqClaim, DeqCasFails, DeqCopy,
                DeqEvent, DeqWait, ring
  <2>3. \A q \in Producers : /\ Hopeful(q) => Hopeful(q)'
                             /\ Sleeps(q)' => Sleeps(q) \/ Dozes(q)
                             /\ Dozes(q)' => Dozes(q)
    BY <1>3, <2>2 DEF Hopeful, Sleeps, Dozes
  <2> QED
    BY <1>0, <1>1, <1>2, <2>1, <2>2, <2>3, MoreHope
<1> QED
  BY <1>4, <1>5, <1>6, <1>7

(* enqueue_blocking on a ring with one consumer, as the completion queue   *)
(* with its dispatcher: when all is quiet a producer sleeps only if the    *)
(* ring is full, for any number of slots, producers and calls.             *)
THEOREM NoRoomMissed ==
  ASSUME NEW CONSTANT c, Consumers = {c}, IsFiniteSet(Producers)
  PROVE  Spec => []NoFreeSlotMissed
<1>1. Init => TypeInv /\ TicketInv /\ SoleInv(c) /\ RoomInv(c)
  <2> SUFFICES ASSUME Init PROVE SoleInv(c) /\ RoomInv(c)
    BY TypeInit, TicketInit
  <2>1. c \in Threads /\ Producers \subseteq Threads
    BY DEF Threads
  <2>2. RoomInv(c)
    BY <2>1 DEF Init, RoomInv, Sleeps, Dozes
  <2>3. Freed(c) = Entries /\ ~ Reader(c)
    BY <2>1, EntriesAssumption DEF Init, Freed, Reader
  <2>4. \A t \in 0 .. Entries - 1 : seq[Slot(t)] >= t
    <3> SUFFICES ASSUME NEW t \in 0 .. Entries - 1 PROVE seq[Slot(t)] >= t
      OBVIOUS
    <3>1. t \in Slots /\ t \in Nat
      BY DEF Slots
    <3>2. Slot(t) = t
      <4>1. PICK x \in 0 .. head + Entries - 1 :
              Slot(x) = t /\ (seq[t] = x \/ (seq[t] = x + 1 /\ x < tail))
        BY <3>1, TicketInit DEF TicketInv, SlotWindow
      <4> QED
        BY <3>1, <4>1, EntriesAssumption DEF Init
    <3> QED
      BY <3>1, <3>2 DEF Init
  <2> QED
    BY <2>1, <2>2, <2>3, <2>4, EntriesAssumption DEF Init, SoleInv
<1>2. TypeInv /\ TicketInv /\ SoleInv(c) /\ RoomInv(c) /\ [Next]_vars
        => (TypeInv /\ TicketInv /\ SoleInv(c) /\ RoomInv(c))'
  <2> SUFFICES ASSUME TypeInv, TicketInv, SoleInv(c), RoomInv(c), [Next]_vars,
                      TypeInv', TicketInv'
               PROVE  SoleInv(c)' /\ RoomInv(c)'
    BY TypeStep, TicketStep
  <2>1. ASSUME NEW p \in Producers, EnqCall(p) \/ EnqStep(p)
        PROVE  SoleInv(c)' /\ RoomInv(c)'
    BY <2>1, EnqKeepsSole, EnqKeepsRoom
  <2>2. CASE DeqCall(c) \/ DeqStep(c)
    BY <2>2, DeqKeepsSole, DeqKeepsRoom
  <2>3. CASE UNCHANGED vars
    <3>1. SoleInv(c)'
      BY <2>3 DEF vars, ring, locals, SoleInv, Freed, Reader
    <3>2. RoomInv(c)'
      BY <2>3 DEF vars, ring, locals, RoomInv, Freed, Reader, Sleeps, Dozes, Attempting, Hopeful
    <3> QED
      BY <3>1, <3>2
  <2> QED
    BY <2>1, <2>2, <2>3 DEF Next
<1>3. TypeInv /\ TicketInv /\ SoleInv(c) /\ RoomInv(c) => NoFreeSlotMissed
  <2> SUFFICES ASSUME TypeInv, TicketInv, SoleInv(c), RoomInv(c),
                      \A p \in Producers : pc[p] \in {"idle", "asleep"},
                      \E p \in Producers : pc[p] = "asleep",
                      pc[c] \in {"idle", "asleep"}
               PROVE  tail - head = Entries
    BY DEF NoFreeSlotMissed
  <2>1. Attempting = {}
    BY DEF Attempting, Hopeful
  <2>2. Cardinality(Attempting) = 0
    BY <2>1, FS_EmptySet
  <2>3. Freed(c) = head + Entries
    BY EntriesAssumption DEF Freed, Reader, TypeInv, TypeOK
  <2>4. Freed(c) - tail <= 0 /\ tail <= Freed(c)
    BY <2>2 DEF RoomInv, SoleInv, Sleeps
  <2> QED
    BY <2>3, <2>4, EntriesAssumption DEF TypeInv, TypeOK
<1> QED
  BY <1>1, <1>2, <1>3, PTL DEF Spec

-----------------------------------------------------------------------------
(* --- The width of a word -------------------------------------------------- *)

(* Division by a number, and the one way to divide.                        *)
LEMMA WordDivision ==
  ASSUME NEW w \in Nat \ {0}, NEW n \in Nat
  PROVE  n = w * (n \div w) + (n % w) /\ n \div w \in Nat /\ n % w \in 0 .. w - 1
OBVIOUS

(* Numbers less than a word apart are in the same round or in neighbouring *)
(* ones.                                                                   *)
LEMMA Rounds ==
  ASSUME NEW w \in Nat \ {0}, NEW q \in Nat, NEW r \in Nat,
         NEW a \in 0 .. w - 1, NEW b \in 0 .. w - 1,
         (w * q + a) - (w * r + b) < w, (w * r + b) - (w * q + a) < w
  PROVE  /\ q = r \/ q = r + 1 \/ r = q + 1
         /\ q = r => w * q = w * r
         /\ q = r + 1 => w * q = w * r + w
         /\ r = q + 1 => w * r = w * q + w
<1>1. ASSUME NEW x \in Nat, NEW y \in Nat, x >= y + 2 PROVE w * x >= w * y + 2 * w
  <2>1. w * x >= w * (y + 2)
    BY <1>1, Z3
  <2>2. w * (y + 2) = w * y + 2 * w
    BY Z3
  <2> QED
    BY <2>1, <2>2
<1>2. w * q \in Nat /\ w * r \in Nat
  BY Z3
<1>3. ~ (q >= r + 2)
  BY <1>1, <1>2
<1>4. ~ (r >= q + 2)
  BY <1>1, <1>2
<1>5. q = r \/ q = r + 1 \/ r = q + 1
  BY <1>3, <1>4
<1>6. w * (r + 1) = w * r + w /\ w * (q + 1) = w * q + w
  BY Z3
<1> QED
  BY <1>5, <1>6

(* One word too much is taken off.                                         *)
LEMMA TakeOff ==
  ASSUME NEW w \in Nat \ {0}, NEW n \in 0 .. 2 * w - 1
  PROVE  n % w = IF n < w THEN n ELSE n - w
<1> DEFINE q == n \div w
           m == n % w
<1>0. n \in Nat
  OBVIOUS
<1>1. n \in Nat /\ n = w * q + m /\ q \in Nat /\ m \in 0 .. w - 1
  BY <1>0, WordDivision
<1> HIDE DEF q, m
<1>2. CASE q = 0
  <2>1. w * q = 0
    BY <1>2
  <2> QED
    BY <1>1, <2>1 DEF m
<1>3. CASE q = 1
  <2>1. w * q = w
    BY <1>3
  <2> QED
    BY <1>1, <2>1 DEF m
<1>4. CASE q >= 2
  <2>1. w * q >= 2 * w
    BY <1>1, <1>4, Z3
  <2> QED
    BY <1>1, <2>1
<1> QED
  BY <1>1, <1>2, <1>3, <1>4

(* The difference of two words is that of the numbers, when it has room.   *)
LEMMA WordDiffExact ==
  ASSUME NEW a \in Nat, NEW b \in Nat, a - b < Width \div 2, b - a <= Width \div 2
  PROVE  WordDiff(a, b) = a - b
<1> DEFINE w == Width
           half == w \div 2
           q == a \div w
           r == b \div w
           x == a % w
           y == b % w
           n == w + x - y
<1>1. w \in Nat \ {0} /\ half \in Nat /\ 2 * half <= w /\ half < w
  BY WidthAssumption
<1>2. /\ a = w * q + x /\ q \in Nat /\ x \in 0 .. w - 1
      /\ b = w * r + y /\ r \in Nat /\ y \in 0 .. w - 1
  BY <1>1, WordDivision
<1>3. w * q \in Nat /\ w * r \in Nat
  BY <1>1, <1>2, Z3
<1>4. a - b < half /\ b - a <= half
  OBVIOUS
<1>5. WordDiff(a, b) = IF n % w < half THEN n % w ELSE (n % w) - w
  BY DEF WordDiff, Word
<1> HIDE DEF w, half, q, r, x, y
<1>6. /\ q = r \/ q = r + 1 \/ r = q + 1
      /\ q = r => w * q = w * r
      /\ q = r + 1 => w * q = w * r + w
      /\ r = q + 1 => w * r = w * q + w
  <2>1. (w * q + x) - (w * r + y) < w /\ (w * r + y) - (w * q + x) < w
    BY <1>1, <1>2, <1>4
  <2> QED
    BY <1>1, <1>2, <2>1, Rounds
<1>7. \/ a - b = x - y
      \/ a - b = w + x - y
      \/ a - b = x - y - w
  BY <1>1, <1>2, <1>3, <1>6
<1>8. n % w = IF n < w THEN n ELSE n - w
  <2>1. n \in 0 .. 2 * w - 1
    BY <1>1, <1>2
  <2> QED
    BY <1>1, <2>1, TakeOff
<1> HIDE DEF n
<1>9. n = w + x - y
  BY DEF n
<1> QED
  BY <1>1, <1>2, <1>4, <1>5, <1>7, <1>8, <1>9

(* Equal words less than a round apart are of equal numbers.               *)
LEMMA WordEqual ==
  ASSUME NEW a \in Nat, NEW b \in Nat, a - b < Width, b - a < Width
  PROVE  (Word(a) = Word(b)) = (a = b)
<1> DEFINE w == Width
           q == a \div w
           r == b \div w
           x == a % w
           y == b % w
<1>1. w \in Nat \ {0}
  BY WidthAssumption
<1>2. /\ a = w * q + x /\ q \in Nat /\ x \in 0 .. w - 1
      /\ b = w * r + y /\ r \in Nat /\ y \in 0 .. w - 1
  BY <1>1, WordDivision
<1>3. w * q \in Nat /\ w * r \in Nat
  BY <1>1, <1>2, Z3
<1>4. a - b < w /\ b - a < w
  OBVIOUS
<1>5. Word(a) = x /\ Word(b) = y
  BY DEF Word
<1>6. a = b => x = y
  OBVIOUS
<1> HIDE DEF w, q, r, x, y
<1>7. /\ q = r \/ q = r + 1 \/ r = q + 1
      /\ q = r => w * q = w * r
      /\ q = r + 1 => w * q = w * r + w
      /\ r = q + 1 => w * r = w * q + w
  <2>1. (w * q + x) - (w * r + y) < w /\ (w * r + y) - (w * q + x) < w
    BY <1>2, <1>4
  <2> QED
    BY <1>1, <1>2, <2>1, Rounds
<1>8. x = y => a = b
  BY <1>1, <1>2, <1>3, <1>4, <1>7
<1>9. (x = y) = (a = b)
  BY <1>6, <1>8
<1> QED
  BY <1>5, <1>9

(* A wrapped ticket has the slot of the ticket: the mask of GET_SLOT may be*)
(* applied to the word.                                                    *)
THEOREM WordsHaveTheSlot ==
  ASSUME NEW t \in Nat
  PROVE  Slot(Word(t)) = Slot(t)
<1> DEFINE w == Width
           e == Entries
           q == t \div w
           x == t % w
           k == w \div e
           r == x \div e
           m == x % e
<1>1. w \in Nat \ {0} /\ e \in Nat \ {0} /\ w % e = 0
  BY WidthAssumption, EntriesAssumption
<1>2. t = w * q + x /\ q \in Nat /\ x \in 0 .. w - 1
  BY <1>1, WordDivision
<1>3. w = e * k /\ k \in Nat
  BY <1>1, WordDivision
<1>4. x = e * r + m /\ r \in Nat /\ m \in 0 .. e - 1
  <2>1. x \in Nat
    BY <1>1, <1>2
  <2> QED
    BY <1>1, <2>1, WordDivision
<1>5. t = e * (t \div e) + (t % e) /\ t \div e \in Nat /\ t % e \in 0 .. e - 1
  BY <1>1, WordDivision
<1>6. Slot(Word(t)) = m /\ Slot(t) = t % e
  BY DEF Slot, Word
<1> DEFINE s == t \div e
           n == t % e
<1> HIDE DEF w, e, q, x, k, r, m, s, n
<1>7. w * q = e * (k * q)
  BY <1>1, <1>2, <1>3, Z3
<1>8. e * (k * q) + e * r = e * (k * q + r) /\ k * q + r \in Nat
  BY <1>1, <1>2, <1>3, <1>4, Z3
<1>9. t = e * (k * q + r) + m
  BY <1>1, <1>2, <1>4, <1>7, <1>8
<1>10. t = e * s + n /\ s \in Nat /\ n \in 0 .. e - 1
  BY <1>5 DEF s, n
<1>11. m = n
  BY <1>4, <1>8, <1>9, <1>10, Unique DEF e
<1> QED
  BY <1>6, <1>11 DEF n, e

(* Tickets that are still in use are less than a round behind the tail: a  *)
(* slot is not taken again before it has been read, nor read before it has *)
(* been written.                                                           *)
NarrowWindow ==
  \A i \in Slots : \E x \in Nat : /\ Slot(x) = i
                                  /\ tail <= x + Entries
                                  /\ (seq[i] = x /\ head <= x) \/ seq[i] = x + 1
(* A ticket that is looked at was read from the counter.                   *)
NotAhead == /\ \A p \in Producers : pc[p] \in {"enqSeq", "enqCas"} => ticket[p] <= tail
            /\ \A c \in Consumers : pc[c] \in {"deqSeq", "deqCas"} => ticket[c] <= head

(* The initial state has both.                                             *)
LEMMA InitWords == Init => NarrowWindow /\ NotAhead
<1> SUFFICES ASSUME Init PROVE NarrowWindow /\ NotAhead
  OBVIOUS
<1>1. NotAhead
  BY DEF Init, NotAhead, Threads
<1>2. SlotWindow /\ tail = 0 /\ head = 0
  BY TicketInit DEF Init, TicketInv
<1>3. ASSUME NEW i \in Slots
      PROVE  \E x \in Nat : Slot(x) = i /\ tail <= x + Entries /\ ((seq[i] = x /\ head <= x) \/ seq[i] = x + 1)
  BY <1>2, EntriesAssumption DEF SlotWindow
<1> QED
  BY <1>1, <1>3 DEF NarrowWindow

(* The next ticket to write is a round after the one its slot had.         *)
LEMMA EnqClaimNarrow ==
  ASSUME TypeInv, TicketInv, NarrowWindow, NEW p \in Producers, EnqClaim(p)
  PROVE  NarrowWindow'
<1>1. /\ tail' = tail + 1 /\ seq' = seq /\ tail \in Nat /\ Entries \in Nat /\ Entries > 1
      /\ pc[p] = "enqCas" /\ tail = ticket[p] /\ p \in Threads
      /\ head' = head /\ head \in Nat /\ head <= tail
  BY EntriesAssumption DEF EnqClaim, TypeInv, TypeOK, Threads, TicketInv, SlotWindow
<1>2. seq[Slot(tail)] = tail
  BY <1>1, ReadyToWrite DEF TicketInv, SeenReady
<1>3. ASSUME NEW i \in Slots
      PROVE  \E x \in Nat : Slot(x) = i /\ tail + 1 <= x + Entries /\ ((seq[i] = x /\ head <= x) \/ seq[i] = x + 1)
  <2>1. PICK x \in Nat : Slot(x) = i /\ tail <= x + Entries /\ ((seq[i] = x /\ head <= x) \/ seq[i] = x + 1)
    BY DEF NarrowWindow
  <2>2. CASE tail = x + Entries
    <3>1. Slot(tail) = i
      BY <2>1, <2>2, NextRound
    <3>2. seq[i] = x + Entries
      BY <1>2, <2>2, <3>1
    <3> QED
      BY <1>1, <2>1, <3>2
  <2>3. CASE tail # x + Entries
    BY <1>1, <2>1, <2>3
  <2> QED
    BY <2>2, <2>3
<1> QED
  BY <1>1, <1>3 DEF NarrowWindow

(* The next ticket to read has been written.                               *)
LEMMA DeqClaimNarrow ==
  ASSUME TypeInv, TicketInv, NarrowWindow, NEW c \in Consumers, DeqClaim(c)
  PROVE  NarrowWindow'
<1>1. /\ head' = head + 1 /\ tail' = tail /\ seq' = seq /\ head \in Nat
      /\ pc[c] = "deqCas" /\ head = ticket[c] /\ c \in Threads
  BY DEF DeqClaim, TypeInv, TypeOK, Threads
<1>2. seq[Slot(head)] = head + 1
  BY <1>1, ReadyToRead DEF TicketInv, SeenReady
<1>3. ASSUME NEW i \in Slots
      PROVE  \E x \in Nat : Slot(x) = i /\ tail <= x + Entries /\ ((seq[i] = x /\ head + 1 <= x) \/ seq[i] = x + 1)
  <2>1. PICK x \in Nat : Slot(x) = i /\ tail <= x + Entries /\ ((seq[i] = x /\ head <= x) \/ seq[i] = x + 1)
    BY DEF NarrowWindow
  <2>2. CASE x = head
    BY <1>2, <2>1, <2>2
  <2>3. CASE x # head
    BY <1>1, <2>1, <2>3
  <2> QED
    BY <2>2, <2>3
<1> QED
  BY <1>1, <1>3 DEF NarrowWindow

(* A slot that passes on to its next state keeps its ticket, or gets that  *)
(* of the next round.                                                      *)
LEMMA PublishNarrow ==
  ASSUME TypeInv, TicketInv, NarrowWindow, NEW t \in Nat, NEW n,
         seq' = [seq EXCEPT ![Slot(t)] = n], tail' = tail, head' = head,
         \/ seq[Slot(t)] = t /\ n = t + 1
         \/ seq[Slot(t)] = t + 1 /\ n = t + Entries
  PROVE  NarrowWindow'
<1>1. /\ tail \in Nat /\ Entries \in Nat /\ Entries > 1 /\ Slot(t) \in Slots
      /\ seq \in [Slots -> Nat] /\ head \in Nat
  BY EntriesAssumption, SlotRange DEF TypeInv, TypeOK
<1>a. head <= tail
  BY DEF TicketInv, SlotWindow
<1>2. ASSUME NEW i \in Slots
      PROVE  \E x \in Nat : Slot(x) = i /\ tail <= x + Entries /\ ((seq'[i] = x /\ head <= x) \/ seq'[i] = x + 1)
  <2>1. PICK x \in Nat : Slot(x) = i /\ tail <= x + Entries /\ ((seq[i] = x /\ head <= x) \/ seq[i] = x + 1)
    BY DEF NarrowWindow
  <2>2. CASE i # Slot(t)
    <3>1. seq'[i] = seq[i]
      BY <1>1, <2>2
    <3> QED
      BY <2>1, <3>1
  <2>3. CASE i = Slot(t)
    <3>1. seq'[i] = n
      BY <1>1, <2>3
    <3>2. x # t + 1 /\ x + 1 # t
      BY <2>1, <2>3, NextSlot
    <3>3. x = t
      BY <2>1, <2>3, <3>2
    <3>4. CASE n = t + 1
      BY <2>1, <3>1, <3>3, <3>4
    <3>5. CASE n = t + Entries
      <4>1. /\ Slot(t + Entries) = i /\ t + Entries \in Nat
            /\ tail <= (t + Entries) + Entries /\ head <= t + Entries
        BY <1>1, <1>a, <2>1, <2>3, <3>3, NextRound
      <4> QED
        BY <3>1, <3>5, <4>1
    <3> QED
      BY <3>4, <3>5
  <2> QED
    BY <2>2, <2>3
<1> QED
  BY <1>2 DEF NarrowWindow

(* The steps of a producer.                                                *)
LEMMA EnqWords ==
  ASSUME TypeInv, TypeInv', TicketInv, NarrowWindow, NotAhead, NEW p \in Producers, EnqCall(p) \/ EnqStep(p)
  PROVE  NarrowWindow' /\ NotAhead'
<1>0. /\ p \in Threads /\ p \notin Consumers /\ pc \in [Threads -> PC] /\ ticket \in [Threads -> Nat]
      /\ head \in Nat /\ tail \in Nat
  BY ThreadsAssumption DEF TypeInv, TypeOK, Threads
<1>a. ASSUME Quiet PROVE NarrowWindow'
  BY <1>a DEF Quiet, NarrowWindow
<1>1. NarrowWindow'
  <2>1. CASE EnqClaim(p)
    BY <2>1, EnqClaimNarrow
  <2>2. CASE EnqPublish(p)
    <3>1. ticket[p] \in Nat /\ seq' = [seq EXCEPT ![Slot(ticket[p])] = ticket[p] + 1]
          /\ tail' = tail /\ head' = head
      BY <1>0, <2>2 DEF EnqPublish
    <3>2. seq[Slot(ticket[p])] = ticket[p]
      BY <1>0, <2>2 DEF EnqPublish, TicketInv, OwnTickets, Writer
    <3> QED
      BY <3>1, <3>2, PublishNarrow
  <2> QED
    BY <1>a, <2>1, <2>2, EnqQuiet DEF EnqStep
<1>2. NotAhead'
  <2>1. head' = head /\ tail' >= tail
    BY <1>0 DEF EnqCall, EnqStep, EnqTail, EnqSeq, EnqClaim, EnqCasFails, EnqCopy, EnqPublish,
                EnqCount, EnqNotify, EnqEvent, EnqWait, ring
  <2>2. pc'[p] \in {"enqSeq", "enqCas"} => ticket'[p] <= tail
    <3>1. CASE EnqTail(p)
      BY <1>0, <3>1 DEF EnqTail
    <3>2. CASE EnqSeq(p)
      BY <1>0, <3>2 DEF EnqSeq, TryFails, Leave, Goto, NotAhead
    <3>3. CASE EnqNotify(p)
      BY <1>0, <3>3 DEF EnqNotify, Notify
    <3> QED
      BY <1>0, <3>1, <3>2, <3>3
         DEF EnqCall, EnqStep, EnqClaim, EnqCasFails, EnqCopy, EnqPublish, EnqCount,
             EnqEvent, EnqWait, Goto
  <2>3. \A a \in Threads \ {p} : /\ ticket'[a] = ticket[a]
                                 /\ pc'[a] \in {"enqSeq", "enqCas", "deqSeq", "deqCas"} => pc'[a] = pc[a]
    <3>1. CASE EnqSeq(p)
      BY <1>0, <3>1 DEF EnqSeq, TryFails, Leave, Goto
    <3>2. CASE EnqNotify(p)
      BY <1>0, <3>2 DEF EnqNotify, Notify
    <3> QED
      BY <1>0, <3>1, <3>2
         DEF EnqCall, EnqStep, EnqTail, EnqClaim, EnqCasFails, EnqCopy, EnqPublish, EnqCount,
             EnqEvent, EnqWait, Goto
  <2>4. ASSUME NEW a \in Producers, pc'[a] \in {"enqSeq", "enqCas"} PROVE ticket'[a] <= tail'
    <3>1. ticket'[a] \in Nat /\ tail' \in Nat
      BY <2>4 DEF TypeInv, TypeOK, Threads
    <3>2. ticket'[a] <= tail
      <4>1. CASE a = p
        BY <2>2, <2>4, <4>1
      <4>2. CASE a # p
        <5>1. pc'[a] = pc[a] /\ ticket'[a] = ticket[a]
          BY <2>3, <2>4, <4>2 DEF Threads
        <5> QED
          BY <2>4, <5>1 DEF NotAhead
      <4> QED
        BY <4>1, <4>2
    <3> QED
      BY <1>0, <2>1, <3>1, <3>2
  <2>5. ASSUME NEW c \in Consumers, pc'[c] \in {"deqSeq", "deqCas"} PROVE ticket'[c] <= head'
    <3>1. pc'[c] = pc[c] /\ ticket'[c] = ticket[c]
      BY <1>0, <2>3, <2>5 DEF Threads
    <3> QED
      BY <2>1, <2>5, <3>1 DEF NotAhead
  <2> QED
    BY <2>4, <2>5 DEF NotAhead
<1> QED
  BY <1>1, <1>2


(* The steps of a consumer.                                                *)
LEMMA DeqWords ==
  ASSUME TypeInv, TypeInv', TicketInv, NarrowWindow, NotAhead, NEW c \in Consumers, DeqCall(c) \/ DeqStep(c)
  PROVE  NarrowWindow' /\ NotAhead'
<1>0. /\ c \in Threads /\ c \notin Producers /\ pc \in [Threads -> PC] /\ ticket \in [Threads -> Nat]
      /\ head \in Nat /\ tail \in Nat
  BY ThreadsAssumption DEF TypeInv, TypeOK, Threads
<1>a. ASSUME Quiet PROVE NarrowWindow'
  BY <1>a DEF Quiet, NarrowWindow
<1>1. NarrowWindow'
  <2>1. CASE DeqClaim(c)
    BY <2>1, DeqClaimNarrow
  <2>2. CASE DeqPublish(c)
    <3>1. ticket[c] \in Nat /\ seq' = [seq EXCEPT ![Slot(ticket[c])] = ticket[c] + Entries]
          /\ tail' = tail /\ head' = head
      BY <1>0, <2>2 DEF DeqPublish
    <3>2. seq[Slot(ticket[c])] = ticket[c] + 1
      BY <1>0, <2>2 DEF DeqPublish, TicketInv, OwnTickets, Reader
    <3> QED
      BY <3>1, <3>2, PublishNarrow
  <2> QED
    BY <1>a, <2>1, <2>2, DeqQuiet DEF DeqStep
<1>2. NotAhead'
  <2>1. tail' = tail /\ head' >= head
    BY <1>0 DEF DeqCall, DeqStep, DeqHead, DeqSeq, DeqClaim, DeqCasFails, DeqCopy, DeqPublish,
                DeqCount, DeqNotify, DeqEvent, DeqWait, ring
  <2>2. pc'[c] \in {"deqSeq", "deqCas"} => ticket'[c] <= head
    <3>1. CASE DeqHead(c)
      BY <1>0, <3>1 DEF DeqHead
    <3>2. CASE DeqSeq(c)
      BY <1>0, <3>2 DEF DeqSeq, TryFails, Leave, Goto, NotAhead
    <3>3. CASE DeqNotify(c)
      BY <1>0, <3>3 DEF DeqNotify, Notify
    <3> QED
      BY <1>0, <3>1, <3>2, <3>3
         DEF DeqCall, DeqStep, DeqClaim, DeqCasFails, DeqCopy, DeqPublish, DeqCount,
             DeqEvent, DeqWait, Goto
  <2>3. \A a \in Threads \ {c} : /\ ticket'[a] = ticket[a]
                                 /\ pc'[a] \in {"enqSeq", "enqCas", "deqSeq", "deqCas"} => pc'[a] = pc[a]
    <3>1. CASE DeqSeq(c)
      BY <1>0, <3>1 DEF DeqSeq, TryFails, Leave, Goto
    <3>2. CASE DeqNotify(c)
      BY <1>0, <3>2 DEF DeqNotify, Notify
    <3> QED
      BY <1>0, <3>1, <3>2
         DEF DeqCall, DeqStep, DeqHead, DeqClaim, DeqCasFails, DeqCopy, DeqPublish, DeqCount,
             DeqEvent, DeqWait, Goto
  <2>4. ASSUME NEW a \in Consumers, pc'[a] \in {"deqSeq", "deqCas"} PROVE ticket'[a] <= head'
    <3>1. ticket'[a] \in Nat /\ head' \in Nat
      BY <2>4 DEF TypeInv, TypeOK, Threads
    <3>2. ticket'[a] <= head
      <4>1. CASE a = c
        BY <2>2, <2>4, <4>1
      <4>2. CASE a # c
        <5>1. pc'[a] = pc[a] /\ ticket'[a] = ticket[a]
          BY <2>3, <2>4, <4>2 DEF Threads
        <5> QED
          BY <2>4, <5>1 DEF NotAhead
      <4> QED
        BY <4>1, <4>2
    <3> QED
      BY <1>0, <2>1, <3>1, <3>2
  <2>5. ASSUME NEW p \in Producers, pc'[p] \in {"enqSeq", "enqCas"} PROVE ticket'[p] <= tail'
    <3>1. pc'[p] = pc[p] /\ ticket'[p] = ticket[p]
      BY <1>0, <2>3, <2>5 DEF Threads
    <3> QED
      BY <2>1, <2>5, <3>1 DEF NotAhead
  <2> QED
    BY <2>4, <2>5 DEF NotAhead
<1> QED
  BY <1>1, <1>2

(* A difference of tickets that are looked at has room in a word.          *)
LEMMA SeqNear ==
  ASSUME TypeInv, TicketInv, NarrowWindow, NEW i \in Slots
  PROVE  /\ seq[i] \in Nat /\ head \in Nat /\ tail \in Nat /\ Entries \in Nat /\ head <= tail
         /\ tail <= seq[i] + Entries /\ head < seq[i] + Entries
         /\ seq[i] <= head + Entries /\ seq[i] < tail + Entries
<1>1. /\ seq[i] \in Nat /\ head \in Nat /\ tail \in Nat /\ Entries \in Nat /\ Entries > 1 /\ head <= tail
  BY EntriesAssumption DEF TypeInv, TypeOK, TicketInv, SlotWindow
<1>2. tail <= seq[i] + Entries /\ head < seq[i] + Entries
  BY <1>1 DEF NarrowWindow
<1>3. seq[i] <= head + Entries /\ seq[i] < tail + Entries
  BY <1>1 DEF TicketInv, SlotWindow
<1> QED
  BY <1>1, <1>2, <1>3

(* What a fresh thread compares is at most half a word apart, and what it  *)
(* swaps is less than a word from what it has read.                        *)
LEMMA NearEnough ==
  ASSUME TypeInv, TicketInv, NarrowWindow, NotAhead
  PROVE  WordsSuffice
<1> DEFINE half == Width \div 2
<1>0. /\ half \in Nat /\ Width \in Nat /\ Entries \in Nat
      /\ head \in Nat /\ tail \in Nat /\ head <= tail
  BY WidthAssumption, EntriesAssumption DEF TypeInv, TypeOK, TicketInv, SlotWindow
<1>1. ASSUME NEW p \in Producers, pc[p] \in {"enqSeq", "enqCas"}
      PROVE  /\ ticket[p] \in Nat /\ ticket[p] <= tail /\ Slot(ticket[p]) \in Slots
             /\ Behind(p) = tail - ticket[p]
  BY <1>1, SlotRange DEF Behind, NotAhead, TypeInv, TypeOK, Threads
<1>2. ASSUME NEW c \in Consumers, pc[c] \in {"deqSeq", "deqCas"}
      PROVE  /\ ticket[c] \in Nat /\ ticket[c] <= head /\ Slot(ticket[c]) \in Slots
             /\ Behind(c) = head - ticket[c]
  BY <1>2, SlotRange, ThreadsAssumption DEF Behind, NotAhead, TypeInv, TypeOK, Threads
<1> HIDE DEF half
<1>3. ASSUME NEW p \in Producers, Fresh(p), pc[p] = "enqSeq"
      PROVE  WordDiff(seq[Slot(ticket[p])], ticket[p]) = seq[Slot(ticket[p])] - ticket[p]
  <2> DEFINE s == seq[Slot(ticket[p])]
             t == ticket[p]
  <2>1. t \in Nat /\ t <= tail /\ tail - t + Entries <= half /\ Slot(t) \in Slots
    BY <1>1, <1>3 DEF Fresh, half
  <2>2. s \in Nat /\ tail <= s + Entries /\ s < tail + Entries
    BY <2>1, SeqNear
  <2> HIDE DEF s, t
  <2>3. s - t < half /\ t - s <= half
    BY <1>0, <2>1, <2>2
  <2>4. WordDiff(s, t) = s - t
    BY <2>1, <2>2, <2>3, WordDiffExact DEF half
  <2> QED
    BY <2>4 DEF s, t
<1>4. ASSUME NEW c \in Consumers, Fresh(c), pc[c] = "deqSeq"
      PROVE  WordDiff(seq[Slot(ticket[c])], ticket[c] + 1) = seq[Slot(ticket[c])] - (ticket[c] + 1)
  <2> DEFINE s == seq[Slot(ticket[c])]
             t == ticket[c]
  <2>1. t \in Nat /\ t <= head /\ head - t + Entries <= half /\ Slot(t) \in Slots
    BY <1>2, <1>4 DEF Fresh, half
  <2>2. s \in Nat /\ head < s + Entries /\ s <= head + Entries
    BY <2>1, SeqNear
  <2> HIDE DEF s, t
  <2>3. t + 1 \in Nat /\ s - (t + 1) < half /\ (t + 1) - s <= half
    BY <1>0, <2>1, <2>2
  <2>4. WordDiff(s, t + 1) = s - (t + 1)
    BY <2>1, <2>2, <2>3, WordDiffExact DEF half
  <2> QED
    BY <2>4 DEF s, t
<1>5. ASSUME NEW p \in Producers, Behind(p) < Width, pc[p] = "enqCas"
      PROVE  (Word(tail) = Word(ticket[p])) = (tail = ticket[p])
  <2>1. ticket[p] \in Nat /\ tail - ticket[p] < Width /\ ticket[p] - tail < Width
    BY <1>0, <1>1, <1>5, WidthAssumption
  <2> QED
    BY <1>0, <2>1, WordEqual
<1>6. ASSUME NEW c \in Consumers, Behind(c) < Width, pc[c] = "deqCas"
      PROVE  (Word(head) = Word(ticket[c])) = (head = ticket[c])
  <2>1. ticket[c] \in Nat /\ head - ticket[c] < Width /\ ticket[c] - head < Width
    BY <1>0, <1>2, <1>6, WidthAssumption
  <2> QED
    BY <1>0, <2>1, WordEqual
<1> QED
  BY <1>3, <1>4, <1>5, <1>6 DEF WordsSuffice

(* The wrapped tickets of try_enqueue and try_dequeue serve as well as the *)
(* unbounded ones: in a comparison, for a thread that has not slept over   *)
(* half the values of a word; in a compare-and-swap, over all of them.     *)
THEOREM TicketsFitWords == Spec => []WordsSuffice
<1> DEFINE Inv == TypeInv /\ TicketInv /\ NarrowWindow /\ NotAhead
<1>1. Init => Inv
  BY TypeInit, TicketInit, InitWords
<1>2. Inv /\ [Next]_vars => Inv'
  <2> SUFFICES ASSUME Inv, [Next]_vars PROVE Inv'
    OBVIOUS
  <2>1. TypeInv'
    BY TypeStep
  <2>2. TicketInv'
    BY <2>1, TicketStep
  <2>3. NarrowWindow' /\ NotAhead'
    <3>1. ASSUME NEW p \in Producers, EnqCall(p) \/ EnqStep(p) PROVE NarrowWindow' /\ NotAhead'
      BY <2>1, <3>1, EnqWords
    <3>2. ASSUME NEW c \in Consumers, DeqCall(c) \/ DeqStep(c) PROVE NarrowWindow' /\ NotAhead'
      BY <2>1, <3>2, DeqWords
    <3>3. CASE UNCHANGED vars
      BY <3>3 DEF vars, ring, locals, NarrowWindow, NotAhead
    <3> QED
      BY <3>1, <3>2, <3>3 DEF Next
  <2> QED
    BY <2>1, <2>2, <2>3
<1>3. Inv => WordsSuffice
  BY NearEnough
<1> QED
  BY <1>1, <1>2, <1>3, PTL DEF Spec
===========================================================================
