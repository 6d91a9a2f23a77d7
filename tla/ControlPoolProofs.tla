------------------------- MODULE ControlPoolProofs -------------------------
(***************************************************************************)
(* Proof that the control pool never shares or loses a slot, that its free *)
(* lists are intact in memory, its counters exact and its traps dead, and  *)
(* that it implements ParkedWork, for any number of threads and slots.     *)
(*                                                                         *)
(* Every step is of one of five kinds: it keeps the slots of its thread    *)
(* (or lets go of none), takes one off a list, puts one on a list, parks a *)
(* suspension or claims one.                                               *)
(***************************************************************************)
EXTENDS ControlPool, FiniteSetTheorems, TLAPS

Local == [pc : PC, op : {"none", "park", "resume"}, kind : Kinds,
          snap : [index : Pointers, version : Nat], nxt : Pointers,
          slot : Pointers, cont : Pointers, susp : Pointers,
          state : States \cup {NoState}]

Types ==
  /\ head \in [Kinds -> [index : Pointers, version : Nat]]
  /\ next \in [Slots -> Pointers]
  /\ allocated \subseteq Slots
  /\ status \in [Susps -> {"FREE", "CLAIMED", "PARKED"}]
  /\ contPtr \in [Susps -> Conts \cup {Invalid}]
  /\ content \in [Conts -> States \cup {NoState}]
  /\ local \in [Workers -> Local]
  /\ handed \subseteq Susps
  /\ free \in [Kinds -> Seq(Slots)]

Popping == {"popNext", "popCas"}
Pushing == {"pushFree", "pushLoad", "pushCas"}

(* What a thread knows of the slots in its locals.                         *)
PopOK(m) ==
  /\ m.pc \in {"popLoad", "popNext", "popCas", "mark"} =>
       /\ m.op = "park"
       /\ m.kind = "susp" => m.cont \in Conts \cap allocated
  /\ m.pc \in Popping => m.snap.index \in SlotsOf(m.kind)
  /\ m.pc = "mark" => m.slot \in SlotsOf(m.kind)
  /\ m.pc = "publish" => /\ m.op = "park"
                         /\ m.cont \in Conts \cap allocated
                         /\ m.susp \in Susps \cap allocated
                         /\ status[m.susp] = "CLAIMED"
                         /\ contPtr[m.susp] = m.cont

PushOK(m) ==
  /\ m.pc \in Pushing =>
       /\ m.slot \in SlotsOf(m.kind)
       /\ m.kind = "susp" => m.op = "resume" /\ m.slot = m.susp
  /\ m.pc = "pushFree" => /\ m.slot \in allocated
                          /\ m.kind = "susp" => status[m.slot] = "CLAIMED"
  /\ m.pc \in {"pushLoad", "pushCas"} => m.slot \notin allocated

ResumeOK(m) ==
  /\ m.pc \in {"test", "claim"} => m.op = "resume" /\ m.susp \in Susps
  /\ m.pc = "copy" => /\ m.op = "resume"
                      /\ contPtr[m.susp] \in Conts \cap allocated
  /\ \/ m.pc = "copy"
     \/ m.op = "resume" /\ m.pc \in Pushing \cup {"uncount"} /\ m.kind = "cont"
     => m.susp \in Susps \cap allocated /\ status[m.susp] = "CLAIMED"

LocalOK(m) == PopOK(m) /\ PushOK(m) /\ ResumeOK(m) /\ m.pc # "trap"

(* What a thread has read of a list is current if the version is.          *)
SnapOK(m) ==
  /\ m.pc \in Popping =>
       /\ m.snap.version <= head[m.kind].version
       /\ m.snap.version = head[m.kind].version =>
            /\ m.snap = head[m.kind]
            /\ m.pc = "popCas" => m.nxt = next[m.snap.index]
  /\ m.pc = "pushCas" => next[m.slot] = m.snap.index

(* A parked suspension and its continuation are allocated.                 *)
ParkedOK == \A t \in Susps : Parked(t) => t \in allocated /\ contPtr[t] \in Conts \cap allocated

PoolInv == /\ Types
           /\ \A w \in Workers : LocalOK(local[w])
           /\ \A w \in Workers : SnapOK(local[w])
           /\ ParkedOK
           /\ ListInMemory
           /\ NoSharedSlot

-----------------------------------------------------------------------------
(* Slots and their kinds.                                                  *)
LEMMA SlotFacts ==
  /\ Slots = Conts \cup Susps
  /\ Conts \cap Susps = {}
  /\ Invalid \notin Slots
  /\ SlotsOf("cont") = Conts /\ SlotsOf("susp") = Susps
  /\ Kinds = {"cont", "susp"}
  /\ Pointers = Slots \cup {Invalid}
  BY DEF Slots, Conts, Susps, SlotsOf, Invalid, Kinds, Pointers

LEMMA PointerFacts ==
  /\ "cont" \in Kinds /\ "susp" \in Kinds
  /\ Invalid \in Pointers
  /\ \A s \in Conts \cup Susps : s \in Pointers
  BY SlotFacts

(* The first slot of a list, found through the head in memory.             *)
LEMMA HeadOfList ==
  ASSUME Types, ListInMemory, NEW kind \in Kinds, head[kind].index \in Slots
  PROVE  /\ Len(free[kind]) >= 1
         /\ 1 \in DOMAIN free[kind]
         /\ free[kind][1] = head[kind].index
         /\ OnList(head[kind].index)
         /\ head[kind].index \in SlotsOf(kind) \ allocated
<1>1. free[kind] \in Seq(Slots)
  BY DEF Types
<1>2. Len(free[kind]) >= 1 /\ free[kind][1] = head[kind].index
  BY <1>1, SlotFacts DEF ListInMemory, Chained, Link
<1>3. 1 \in DOMAIN free[kind]
  BY <1>1, <1>2
<1> QED
  BY <1>2, <1>3 DEF OnList, ListInMemory, Chained, Link

(* No step of another thread changes what a thread knows of its slots.     *)
Same(s) == /\ next'[s] = next[s]
           /\ (s \in allocated') = (s \in allocated)
           /\ s \in Susps => status'[s] = status[s] /\ contPtr'[s] = contPtr[s]

LEMMA OthersHold ==
  ASSUME Types, NEW v \in Workers, LocalOK(local[v]), local'[v] = local[v],
         \A s \in Slots : Holds(local[v], s) => Same(s)
  PROVE  \A s \in Slots : Holds(local[v], s)' = Holds(local[v], s)
  BY SlotFacts DEF Types, LocalOK, PopOK, PushOK, ResumeOK, Holds, Same, Local

LEMMA OthersOK ==
  ASSUME Types, NEW v \in Workers, LocalOK(local[v]), local'[v] = local[v],
         \A s \in Slots : Holds(local[v], s) => Same(s)
  PROVE  LocalOK(local[v])'
<1> DEFINE m == local[v]
<1>1. PopOK(m)'
  BY SlotFacts DEF Types, LocalOK, PopOK, Holds, Same, Local
<1>2. PushOK(m)'
  BY SlotFacts DEF Types, LocalOK, PushOK, Holds, Same, Local, Pushing
<1>3. ResumeOK(m)'
  BY SlotFacts DEF Types, LocalOK, ResumeOK, Holds, Same, Local, Pushing
<1> QED
  BY <1>1, <1>2, <1>3 DEF LocalOK

-----------------------------------------------------------------------------
(* The steps that neither gain a slot nor park one.  They write only slots *)
(* their thread holds.                                                     *)
KeepsSlots(w) ==
  /\ head' = head /\ free' = free
  /\ \A v \in Workers : v # w => local'[v] = local[v]
  /\ \A s \in Slots : ~ Holds(local[w], s) => Same(s)
  /\ \A t \in Susps : Same(t) \/ status'[t] # "PARKED"
  /\ \A s \in Slots : Holds(local[w], s)' => Holds(local[w], s)

LEMMA KeepsInv ==
  ASSUME PoolInv, Types', NEW w \in Workers, KeepsSlots(w),
         LocalOK(local[w])', SnapOK(local[w])'
  PROVE  PoolInv'
<1>1. ASSUME NEW v \in Workers, v # w, NEW s \in Slots, Holds(local[v], s)
      PROVE  Same(s)
  BY <1>1 DEF PoolInv, NoSharedSlot, KeepsSlots
<1>2. \A v \in Workers : LocalOK(local[v])'
  BY <1>1, OthersOK DEF PoolInv, KeepsSlots
<1>3. \A v \in Workers \ {w} : \A s \in Slots : Holds(local[v], s)' = Holds(local[v], s)
  BY <1>1, OthersHold DEF PoolInv, KeepsSlots
<1>4. \A s \in Slots : OnList(s) => Same(s)
  BY DEF PoolInv, NoSharedSlot, KeepsSlots
<1>5. \A s \in Slots : OnList(s)' = OnList(s)
  BY DEF OnList, KeepsSlots
<1>6. \A t \in Susps : Parked(t) => Same(t)
  BY SlotFacts DEF PoolInv, NoSharedSlot, KeepsSlots, Saved
<1>7. \A t \in Susps : Parked(t)' = Parked(t)
  BY <1>6, SlotFacts DEF Parked, Same, KeepsSlots
<1>8. \A s \in Slots : Saved(s)' = Saved(s)
  BY <1>6, <1>7, SlotFacts DEF Saved, Same, Parked
<1>9. ParkedOK'
  <2> SUFFICES ASSUME NEW t \in Susps, Parked(t)
               PROVE  t \in allocated' /\ contPtr'[t] \in Conts \cap allocated'
    BY <1>7 DEF ParkedOK
  <2>1. t \in allocated /\ contPtr[t] \in Conts \cap allocated
    BY DEF PoolInv, ParkedOK
  <2>2. Same(t)
    BY <1>6
  <2>3. Same(contPtr[t])
    BY <2>1, SlotFacts DEF PoolInv, NoSharedSlot, KeepsSlots, Saved
  <2> QED
    BY <2>1, <2>2, <2>3, SlotFacts DEF Same
<1>10. ListInMemory'
  <2> SUFFICES ASSUME NEW kind \in Kinds
               PROVE  \A n \in DOMAIN free[kind] :
                        /\ next'[free[kind][n]] = next[free[kind][n]]
                        /\ free[kind][n] \notin allocated => free[kind][n] \notin allocated'
    BY DEF PoolInv, ListInMemory, Chained, Link, KeepsSlots
  <2> SUFFICES ASSUME NEW n \in DOMAIN free[kind]
               PROVE  Same(free[kind][n])
    BY DEF Same
  <2>1. free[kind][n] \in Slots
    BY DEF PoolInv, Types
  <2> QED
    BY <2>1, <1>4 DEF OnList
<1>11. NoSharedSlot'
  <2> SUFFICES ASSUME NEW s \in Slots
    PROVE /\ \A u, v \in Workers : Holds(local[u], s)' /\ Holds(local[v], s)' => u = v
          /\ \A v \in Workers : Holds(local[v], s)' => ~ Saved(s)' /\ ~ OnList(s)'
          /\ ~ (Saved(s)' /\ OnList(s)')
          /\ \A t, u \in Susps : Parked(t)' /\ Parked(u)' /\ contPtr'[t] = s
                                   /\ contPtr'[u] = s => t = u
    BY DEF NoSharedSlot
  <2>1. \A v \in Workers : Holds(local[v], s)' => Holds(local[v], s)
    BY <1>3 DEF KeepsSlots
  <2>2. \A t \in Susps : Parked(t)' => Parked(t) /\ contPtr'[t] = contPtr[t]
    BY <1>6, <1>7 DEF Same
  <2> QED
    BY <2>1, <2>2, <1>5, <1>8 DEF PoolInv, NoSharedSlot
<1>12. ASSUME NEW v \in Workers, v # w
       PROVE  SnapOK(local[v])'
  <2> DEFINE m == local[v]
  <2>1. m' = m /\ m \in Local /\ SnapOK(m) /\ LocalOK(m)
    BY <1>12 DEF PoolInv, Types, KeepsSlots
  <2>2. m.pc = "popCas" /\ m.snap = head[m.kind] => next'[m.snap.index] = next[m.snap.index]
    <3> SUFFICES ASSUME m.pc = "popCas", m.snap = head[m.kind]
                 PROVE  Same(m.snap.index)
      BY DEF Same
    <3>1. m.kind \in Kinds /\ head[m.kind].index \in Slots
      BY <2>1, SlotFacts DEF LocalOK, PopOK, Popping, Local
    <3>2. OnList(head[m.kind].index)
      BY <3>1, HeadOfList DEF PoolInv
    <3> QED
      BY <3>1, <3>2, <1>4
  <2>3. m.pc = "pushCas" => next'[m.slot] = next[m.slot]
    BY <2>1, <1>1, <1>12, SlotFacts DEF LocalOK, PushOK, Pushing, Holds, Same, Local
  <2> QED
    BY <2>1, <2>2, <2>3 DEF SnapOK, KeepsSlots, Popping
<1>13. \A v \in Workers : SnapOK(local[v])'
  BY <1>12
<1> QED
  BY <1>2, <1>9, <1>10, <1>11, <1>13 DEF PoolInv

(* A step that replaces the locals of its thread.                          *)
LEMMA LocalStep ==
  ASSUME Types, NEW w \in Workers, NEW m \in Local, local' = [local EXCEPT ![w] = m]
  PROVE  /\ local' \in [Workers -> Local]
         /\ local'[w] = m
         /\ \A v \in Workers : v # w => local'[v] = local[v]
  BY DEF Types

(* Steps on the locals of one thread: nothing it reads is written.         *)
pool == <<head, next, allocated, status, contPtr, content, handed, free>>

LEMMA OnlyLocalInv ==
  ASSUME PoolInv, NEW w \in Workers, NEW m \in Local, local' = [local EXCEPT ![w] = m],
         UNCHANGED pool, LocalOK(m), SnapOK(m),
         \A s \in Slots : Holds(m, s) => Holds(local[w], s)
  PROVE  PoolInv'
<1>1. /\ local' \in [Workers -> Local]
      /\ local'[w] = m
      /\ \A v \in Workers : v # w => local'[v] = local[v]
  BY LocalStep DEF PoolInv
<1>2. Types'
  BY <1>1 DEF PoolInv, Types, pool
<1>3. KeepsSlots(w)
  BY <1>1 DEF KeepsSlots, pool, Same, Holds
<1>4. LocalOK(local[w])'
  BY <1>1 DEF LocalOK, PopOK, PushOK, ResumeOK, pool
<1>5. SnapOK(local[w])'
  BY <1>1 DEF SnapOK, pool
<1> QED
  BY <1>2, <1>3, <1>4, <1>5, KeepsInv

LEMMA IdleOK ==
  /\ Idle \in Local
  /\ LocalOK(Idle) /\ SnapOK(Idle)
  /\ \A s \in Slots : ~ Holds(Idle, s)
  BY SlotFacts DEF Idle, Local, PC, LocalOK, PopOK, PushOK, ResumeOK, SnapOK, Holds,
     Popping, Pushing

LEMMA ParkCallInv ==
  ASSUME PoolInv, NEW w \in Workers, ParkCall(w) PROVE PoolInv'
<1>1. PICK x \in States : local' = [local EXCEPT ![w] =
        [Idle EXCEPT !.pc = "popLoad", !.op = "park", !.state = x]]
  BY DEF ParkCall
<1> DEFINE m == [Idle EXCEPT !.pc = "popLoad", !.op = "park", !.state = x]
<1>2. m \in Local /\ m.pc = "popLoad" /\ m.op = "park" /\ m.kind = "cont"
  BY SlotFacts DEF Idle, Local, PC
<1> HIDE DEF m
<1>3. LocalOK(m) /\ SnapOK(m) /\ \A s \in Slots : ~ Holds(m, s)
  BY <1>2 DEF LocalOK, PopOK, PushOK, ResumeOK, SnapOK, Holds, Popping, Pushing
<1> QED
  BY <1>1, <1>2, <1>3, OnlyLocalInv DEF ParkCall, memory, pool, m

LEMMA ResumeCallInv ==
  ASSUME PoolInv, NEW w \in Workers, ResumeCall(w) PROVE PoolInv'
<1>1. PICK t \in handed : local' = [local EXCEPT ![w] =
        [Idle EXCEPT !.pc = "test", !.op = "resume", !.susp = t]]
  BY DEF ResumeCall
<1> DEFINE m == [Idle EXCEPT !.pc = "test", !.op = "resume", !.susp = t]
<1>a. t \in Susps
  BY DEF PoolInv, Types
<1>2. m \in Local /\ m.pc = "test" /\ m.op = "resume" /\ m.susp \in Susps
  BY <1>a, SlotFacts DEF Idle, Local, PC
<1> HIDE DEF m
<1>3. LocalOK(m) /\ SnapOK(m) /\ \A s \in Slots : ~ Holds(m, s)
  BY <1>2 DEF LocalOK, PopOK, PushOK, ResumeOK, SnapOK, Holds, Popping, Pushing
<1> QED
  BY <1>1, <1>2, <1>3, OnlyLocalInv DEF ResumeCall, memory, pool, m

LEMMA PopLoadInv ==
  ASSUME PoolInv, NEW w \in Workers, PopLoad(w) PROVE PoolInv'
<1> DEFINE me == local[w]
           h == head[me.kind]
<1>1. me \in Local /\ LocalOK(me) /\ me.pc = "popLoad" /\ me.kind \in Kinds
  BY DEF PoolInv, Types, PopLoad, At, Local
<1>2. h \in [index : Pointers, version : Nat]
  BY <1>1 DEF PoolInv, Types
<1>3. UNCHANGED pool
  BY DEF PopLoad, memory, pool
<1>4. CASE h.index # Invalid
  <2> DEFINE m == [me EXCEPT !.pc = "popNext", !.snap = h]
  <2>1. local' = [local EXCEPT ![w] = m]
    BY <1>4 DEF PopLoad
  <2>2. /\ m \in Local /\ m.pc = "popNext" /\ m.snap = h
        /\ m.op = me.op /\ m.kind = me.kind /\ m.cont = me.cont
    BY <1>1, <1>2 DEF Local, PC
  <2>3. h.index \in SlotsOf(me.kind)
    BY <1>1, <1>2, <1>4, HeadOfList, SlotFacts DEF PoolInv
  <2> HIDE DEF m
  <2>4. LocalOK(m)
    BY <1>1, <2>2, <2>3 DEF LocalOK, PopOK, PushOK, ResumeOK, Popping, Pushing
  <2>5. SnapOK(m)
    BY <1>2, <2>2 DEF SnapOK, Popping
  <2>6. \A s \in Slots : Holds(m, s) => Holds(me, s)
    BY <1>1, <2>2 DEF Holds
  <2> QED
    BY <1>3, <2>1, <2>2, <2>4, <2>5, <2>6, OnlyLocalInv
<1>5. CASE h.index = Invalid /\ me.kind = "susp"
  <2> DEFINE m == [me EXCEPT !.pc = "pushFree", !.kind = "cont", !.slot = me.cont]
  <2>1. local' = [local EXCEPT ![w] = m]
    BY <1>5 DEF PopLoad
  <2>a. me.op = "park" /\ me.cont \in Conts \cap allocated
    BY <1>1, <1>5 DEF LocalOK, PopOK
  <2>2. /\ m \in Local /\ m.pc = "pushFree" /\ m.kind = "cont" /\ m.slot = me.cont
        /\ m.op = "park" /\ m.slot \in Conts \cap allocated
    BY <1>1, <2>a, PointerFacts DEF Local, PC
  <2> HIDE DEF m
  <2>3. LocalOK(m) /\ SnapOK(m)
    BY <2>2, SlotFacts DEF LocalOK, PopOK, PushOK, ResumeOK, SnapOK, Popping, Pushing
  <2>4. \A s \in Slots : Holds(m, s) => Holds(me, s)
    BY <1>1, <1>5, <2>2 DEF Holds
  <2> QED
    BY <1>3, <2>1, <2>2, <2>3, <2>4, OnlyLocalInv
<1>6. CASE h.index = Invalid /\ me.kind # "susp"
  <2>1. local' = [local EXCEPT ![w] = Idle]
    BY <1>6 DEF PopLoad
  <2> QED
    BY <1>3, <2>1, IdleOK, OnlyLocalInv
<1> QED
  BY <1>4, <1>5, <1>6

LEMMA PopNextInv ==
  ASSUME PoolInv, NEW w \in Workers, PopNext(w) PROVE PoolInv'
<1> DEFINE me == local[w]
           m == [me EXCEPT !.pc = "popCas", !.nxt = next[me.snap.index]]
<1>1. /\ me \in Local /\ LocalOK(me) /\ SnapOK(me) /\ me.pc = "popNext"
      /\ me.snap.index \in Slots
  BY SlotFacts DEF PoolInv, Types, PopNext, At, Local, LocalOK, PopOK, Popping
<1>2. local' = [local EXCEPT ![w] = m]
  BY DEF PopNext, PoolInv, Types
<1>3. /\ m \in Local /\ m.pc = "popCas" /\ m.nxt = next[m.snap.index] /\ m.snap = me.snap
      /\ m.op = me.op /\ m.kind = me.kind /\ m.cont = me.cont
  BY <1>1 DEF Local, PC, PoolInv, Types
<1> HIDE DEF m
<1>4. LocalOK(m) /\ SnapOK(m)
  BY <1>1, <1>3 DEF LocalOK, PopOK, PushOK, ResumeOK, SnapOK, Popping, Pushing
<1>5. \A s \in Slots : Holds(m, s) => Holds(me, s)
  BY <1>1, <1>3 DEF Holds
<1> QED
  BY <1>2, <1>3, <1>4, <1>5, OnlyLocalInv DEF PopNext, memory, pool

LEMMA PopCasFailsInv ==
  ASSUME PoolInv, NEW w \in Workers, PopCasFails(w) PROVE PoolInv'
<1> DEFINE me == local[w]
           m == [me EXCEPT !.pc = "popLoad"]
<1>1. me \in Local /\ LocalOK(me) /\ me.pc = "popCas"
  BY DEF PoolInv, Types, PopCasFails, At
<1>2. local' = [local EXCEPT ![w] = m]
  BY DEF PopCasFails
<1>3. /\ m \in Local /\ m.pc = "popLoad"
      /\ m.op = me.op /\ m.kind = me.kind /\ m.cont = me.cont
  BY <1>1 DEF Local, PC
<1> HIDE DEF m
<1>4. LocalOK(m) /\ SnapOK(m)
  BY <1>1, <1>3 DEF LocalOK, PopOK, PushOK, ResumeOK, SnapOK, Popping, Pushing
<1>5. \A s \in Slots : Holds(m, s) => Holds(me, s)
  BY <1>1, <1>3 DEF Holds
<1> QED
  BY <1>2, <1>3, <1>4, <1>5, OnlyLocalInv DEF PopCasFails, memory, pool

LEMMA TestFlagInv ==
  ASSUME PoolInv, NEW w \in Workers, TestFlag(w) PROVE PoolInv'
<1> DEFINE me == local[w]
           m == [me EXCEPT !.pc = "claim"]
<1>1. me \in Local /\ LocalOK(me) /\ me.pc = "test"
  BY DEF PoolInv, Types, TestFlag, At
<1>2. UNCHANGED pool
  BY DEF TestFlag, memory, pool
<1>3. CASE me.susp \in allocated
  <2>1. local' = [local EXCEPT ![w] = m]
    BY <1>3 DEF TestFlag, PoolInv, Types
  <2>2. m \in Local /\ m.pc = "claim" /\ m.op = me.op /\ m.susp = me.susp
    BY <1>1 DEF Local, PC
  <2> HIDE DEF m
  <2>3. LocalOK(m) /\ SnapOK(m) /\ \A s \in Slots : ~ Holds(m, s)
    BY <1>1, <2>2 DEF LocalOK, PopOK, PushOK, ResumeOK, SnapOK, Holds, Popping, Pushing
  <2> QED
    BY <1>2, <2>1, <2>2, <2>3, OnlyLocalInv
<1>4. CASE me.susp \notin allocated
  <2>1. local' = [local EXCEPT ![w] = Idle]
    BY <1>4 DEF TestFlag, PoolInv, Types
  <2> QED
    BY <1>2, <2>1, IdleOK, OnlyLocalInv
<1> QED
  BY <1>3, <1>4

LEMMA CopyInv ==
  ASSUME PoolInv, NEW w \in Workers, Copy(w) PROVE PoolInv'
<1> DEFINE me == local[w]
           c == contPtr[me.susp]
           m == [me EXCEPT !.pc = "pushFree", !.kind = "cont", !.slot = c,
                           !.cont = c, !.state = content[c], !.nxt = Invalid]
<1>1. me \in Local /\ LocalOK(me) /\ me.pc = "copy"
  BY DEF PoolInv, Types, Copy, At
<1>2. /\ me.op = "resume" /\ c \in Conts \cap allocated
      /\ me.susp \in Susps \cap allocated /\ status[me.susp] = "CLAIMED"
  BY <1>1 DEF LocalOK, ResumeOK
<1>3. local' = [local EXCEPT ![w] = m]
  BY <1>2 DEF Copy
<1>4. c \in Pointers /\ content[c] \in States \cup {NoState}
  BY <1>2, SlotFacts DEF PoolInv, Types
<1>5. /\ m \in Local /\ m.pc = "pushFree" /\ m.kind = "cont" /\ m.slot = c
      /\ m.op = me.op /\ m.susp = me.susp
  BY <1>1, <1>4, PointerFacts DEF Local, PC
<1> HIDE DEF m
<1>6. LocalOK(m) /\ SnapOK(m)
  BY <1>2, <1>5, SlotFacts DEF LocalOK, PopOK, PushOK, ResumeOK, SnapOK, Popping, Pushing
<1>7. \A s \in Slots : Holds(m, s) => Holds(me, s)
  BY <1>1, <1>5 DEF Holds
<1> QED
  BY <1>3, <1>5, <1>6, <1>7, OnlyLocalInv DEF Copy, memory, pool

LEMMA PushCasFailsInv ==
  ASSUME PoolInv, NEW w \in Workers, PushCasFails(w) PROVE PoolInv'
<1> DEFINE me == local[w]
           m == [me EXCEPT !.pc = "pushLoad"]
<1>1. me \in Local /\ LocalOK(me) /\ me.pc = "pushCas"
  BY DEF PoolInv, Types, PushCasFails, At
<1>2. local' = [local EXCEPT ![w] = m]
  BY DEF PushCasFails
<1>3. /\ m \in Local /\ m.pc = "pushLoad" /\ m.slot = me.slot
      /\ m.op = me.op /\ m.kind = me.kind /\ m.susp = me.susp
  BY <1>1 DEF Local, PC
<1> HIDE DEF m
<1>4. LocalOK(m) /\ SnapOK(m)
  BY <1>1, <1>3 DEF LocalOK, PopOK, PushOK, ResumeOK, SnapOK, Popping, Pushing
<1>5. \A s \in Slots : Holds(m, s) => Holds(me, s)
  BY <1>1, <1>3 DEF Holds
<1> QED
  BY <1>2, <1>3, <1>4, <1>5, OnlyLocalInv DEF PushCasFails, memory, pool

LEMMA UncountInv ==
  ASSUME PoolInv, NEW w \in Workers, Uncount(w) PROVE PoolInv'
<1> DEFINE me == local[w]
           m == [me EXCEPT !.pc = "pushFree", !.kind = "susp", !.slot = me.susp,
                           !.cont = Invalid]
<1>1. me \in Local /\ LocalOK(me) /\ me.pc = "uncount"
  BY DEF PoolInv, Types, Uncount, At
<1>2. UNCHANGED pool
  BY DEF Uncount, pool
<1>3. CASE me.kind = "cont" /\ me.op = "resume"
  <2>1. local' = [local EXCEPT ![w] = m]
    BY <1>3 DEF Uncount
  <2>2. me.susp \in Susps \cap allocated /\ status[me.susp] = "CLAIMED"
    BY <1>1, <1>3 DEF LocalOK, ResumeOK
  <2>3. /\ m \in Local /\ m.pc = "pushFree" /\ m.kind = "susp" /\ m.slot = me.susp
        /\ m.op = "resume" /\ m.susp = me.susp
    BY <1>1, <1>3, PointerFacts DEF Local, PC
  <2> HIDE DEF m
  <2>4. LocalOK(m) /\ SnapOK(m)
    BY <2>2, <2>3, SlotFacts DEF LocalOK, PopOK, PushOK, ResumeOK, SnapOK, Popping, Pushing
  <2>5. \A s \in Slots : Holds(m, s) => Holds(me, s)
    BY <1>1, <1>3, <2>3 DEF Holds
  <2> QED
    BY <1>2, <2>1, <2>3, <2>4, <2>5, OnlyLocalInv
<1>4. CASE ~ (me.kind = "cont" /\ me.op = "resume")
  <2>1. local' = [local EXCEPT ![w] = Idle]
    BY <1>4 DEF Uncount
  <2> QED
    BY <1>2, <2>1, IdleOK, OnlyLocalInv
<1> QED
  BY <1>3, <1>4

-----------------------------------------------------------------------------
(* Steps that write a slot their thread holds.                             *)
LEMMA MarkContInv ==
  ASSUME PoolInv, NEW w \in Workers, MarkCont(w) PROVE PoolInv'
<1> DEFINE me == local[w]
           s == me.slot
           m == [me EXCEPT !.pc = "popLoad", !.kind = "susp", !.cont = s, !.slot = Invalid]
<1>1. /\ me \in Local /\ LocalOK(me) /\ me.pc = "mark" /\ me.kind = "cont"
      /\ me.op = "park" /\ s \in Conts /\ s \in Slots
  BY SlotFacts DEF PoolInv, Types, MarkCont, At, LocalOK, PopOK
<1>2. local' = [local EXCEPT ![w] = m]
  BY DEF MarkCont
<1>3. /\ m \in Local /\ m.pc = "popLoad" /\ m.kind = "susp" /\ m.cont = s /\ m.op = "park"
  BY <1>1, PointerFacts DEF Local, PC
<1> HIDE DEF m
<1>4. /\ local' \in [Workers -> Local]
      /\ local'[w] = m
      /\ \A v \in Workers : v # w => local'[v] = local[v]
  BY <1>2, <1>3, LocalStep DEF PoolInv
<1>5. me.state \in States \cup {NoState}
  BY <1>1 DEF Local
<1>6. Types'
  BY <1>1, <1>4, <1>5, SlotFacts DEF MarkCont, PoolInv, Types
<1>7. \A t \in Slots : t # s => Same(t)
  BY <1>1 DEF MarkCont, Same, PoolInv, Types
<1>8. KeepsSlots(w)
  <2>1. Holds(me, s)
    BY <1>1 DEF Holds
  <2>2. \A t \in Slots : Holds(local[w], t)' => t = s
    BY <1>3, <1>4 DEF Holds
  <2>3. \A t \in Slots : Holds(local[w], t)' => Holds(me, t)
    BY <2>1, <2>2
  <2> QED
    BY <1>1, <1>4, <1>7, <2>1, <2>3, SlotFacts DEF KeepsSlots, MarkCont
<1>9. LocalOK(local[w])'
  BY <1>1, <1>3, <1>4 DEF MarkCont, LocalOK, PopOK, PushOK, ResumeOK, Popping, Pushing
<1>10. SnapOK(local[w])'
  BY <1>3, <1>4 DEF SnapOK, Popping
<1> QED
  BY <1>6, <1>8, <1>9, <1>10, KeepsInv

LEMMA MarkSuspInv ==
  ASSUME PoolInv, NEW w \in Workers, MarkSusp(w) PROVE PoolInv'
<1> DEFINE me == local[w]
           s == me.slot
           m == [me EXCEPT !.pc = "publish", !.susp = s, !.slot = Invalid]
<1>1. /\ me \in Local /\ LocalOK(me) /\ me.pc = "mark" /\ me.kind = "susp"
      /\ me.op = "park" /\ s \in Susps /\ s \in Slots /\ me.cont \in Conts \cap allocated
  BY SlotFacts DEF PoolInv, Types, MarkSusp, At, LocalOK, PopOK
<1>2. local' = [local EXCEPT ![w] = m]
  BY DEF MarkSusp
<1>3. /\ m \in Local /\ m.pc = "publish" /\ m.kind = "susp" /\ m.cont = me.cont
      /\ m.op = "park" /\ m.susp = s
  BY <1>1, PointerFacts DEF Local, PC
<1> HIDE DEF m
<1>4. /\ local' \in [Workers -> Local]
      /\ local'[w] = m
      /\ \A v \in Workers : v # w => local'[v] = local[v]
  BY <1>2, <1>3, LocalStep DEF PoolInv
<1>5. Types'
  BY <1>1, <1>4, SlotFacts DEF MarkSusp, PoolInv, Types
<1>6. \A t \in Slots : t # s => Same(t)
  BY <1>1 DEF MarkSusp, Same, PoolInv, Types
<1>7. status'[s] = "CLAIMED" /\ contPtr'[s] = me.cont /\ allocated' = allocated \cup {s}
  BY <1>1 DEF MarkSusp, PoolInv, Types
<1>8. KeepsSlots(w)
  <2>1. Holds(me, s) /\ Holds(me, me.cont)
    BY <1>1 DEF Holds
  <2>2. \A t \in Slots : Holds(local[w], t)' => t \in {s, me.cont}
    BY <1>3, <1>4 DEF Holds
  <2>3. \A t \in Slots : Holds(local[w], t)' => Holds(me, t)
    BY <2>1, <2>2
  <2> QED
    BY <1>1, <1>4, <1>6, <1>7, <2>1, <2>3, SlotFacts DEF KeepsSlots, MarkSusp
<1>9. LocalOK(local[w])'
  BY <1>1, <1>3, <1>4, <1>7 DEF LocalOK, PopOK, PushOK, ResumeOK, Popping, Pushing
<1>10. SnapOK(local[w])'
  BY <1>3, <1>4 DEF SnapOK, Popping
<1> QED
  BY <1>5, <1>8, <1>9, <1>10, KeepsInv

LEMMA PushFreeInv ==
  ASSUME PoolInv, NEW w \in Workers, PushFree(w) PROVE PoolInv'
<1> DEFINE me == local[w]
           s == me.slot
           m == [me EXCEPT !.pc = "pushLoad"]
<1>1. /\ me \in Local /\ LocalOK(me) /\ me.pc = "pushFree" /\ me.kind \in Kinds
      /\ s \in SlotsOf(me.kind) /\ s \in Slots /\ s \in allocated
      /\ me.kind = "susp" => status[s] = "CLAIMED" /\ s = me.susp
      /\ me.kind = "cont" /\ me.op = "resume" =>
           me.susp \in Susps \cap allocated /\ status[me.susp] = "CLAIMED"
  BY SlotFacts DEF PoolInv, Types, PushFree, At, LocalOK, PushOK, ResumeOK, Pushing, Local
<1>2. local' = [local EXCEPT ![w].pc = "pushLoad"]
  BY <1>1 DEF PushFree
<1>3. /\ m \in Local /\ m.pc = "pushLoad" /\ m.kind = me.kind /\ m.slot = s
      /\ m.op = me.op /\ m.susp = me.susp
  BY <1>1 DEF Local, PC
<1>4. /\ local' \in [Workers -> Local]
      /\ local'[w] = m
      /\ \A v \in Workers : v # w => local'[v] = local[v]
  BY <1>2, <1>3, LocalStep DEF PoolInv
<1> HIDE DEF m
<1>5. /\ allocated' = allocated \ {s}
      /\ next' = [next EXCEPT ![s] = Invalid]
      /\ content' = IF me.kind = "cont" THEN [content EXCEPT ![s] = NoState] ELSE content
      /\ contPtr' = IF me.kind = "susp" THEN [contPtr EXCEPT ![s] = Invalid] ELSE contPtr
      /\ status' = IF me.kind = "susp" THEN [status EXCEPT ![s] = "FREE"] ELSE status
      /\ head' = head /\ free' = free /\ handed' = handed
  BY <1>1 DEF PushFree
<1>6. Types'
  BY <1>1, <1>4, <1>5, SlotFacts DEF PoolInv, Types
<1>7. \A t \in Slots : t # s => Same(t)
  BY <1>1, <1>5, SlotFacts DEF Same, PoolInv, Types
<1>8. KeepsSlots(w)
  <2>1. Holds(me, s)
    BY <1>1 DEF Holds
  <2>2. \A t \in Slots : Holds(local[w], t)' => Holds(me, t)
    BY <1>1, <1>3, <1>4 DEF Holds
  <2>3. s \in Susps => status'[s] = "FREE"
    BY <1>1, <1>5, SlotFacts DEF PoolInv, Types
  <2> QED
    BY <1>1, <1>4, <1>5, <1>7, <2>1, <2>2, <2>3, SlotFacts DEF KeepsSlots
<1>9. LocalOK(local[w])'
  <2>1. me.kind = "cont" /\ me.op = "resume" =>
          me.susp \in Susps \cap allocated' /\ status'[me.susp] = "CLAIMED"
    BY <1>1, <1>5, SlotFacts
  <2> QED
    BY <1>1, <1>3, <1>4, <1>5, <2>1, SlotFacts
    DEF LocalOK, PopOK, PushOK, ResumeOK, Popping, Pushing
<1>10. SnapOK(local[w])'
  BY <1>3, <1>4 DEF SnapOK, Popping
<1> QED
  BY <1>6, <1>8, <1>9, <1>10, KeepsInv

LEMMA PushLoadInv ==
  ASSUME PoolInv, NEW w \in Workers, PushLoad(w) PROVE PoolInv'
<1> DEFINE me == local[w]
           s == me.slot
           h == head[me.kind]
           m == [me EXCEPT !.pc = "pushCas", !.snap = h]
<1>1. /\ me \in Local /\ LocalOK(me) /\ me.pc = "pushLoad" /\ me.kind \in Kinds
      /\ s \in Slots /\ h \in [index : Pointers, version : Nat]
  BY SlotFacts DEF PoolInv, Types, PushLoad, At, LocalOK, PushOK, Pushing, Local
<1>2. local' = [local EXCEPT ![w] = m]
  BY DEF PushLoad
<1>3. /\ m \in Local /\ m.pc = "pushCas" /\ m.kind = me.kind /\ m.slot = s
      /\ m.op = me.op /\ m.susp = me.susp /\ m.snap.index = h.index
  BY <1>1 DEF Local, PC
<1>4. /\ local' \in [Workers -> Local]
      /\ local'[w] = m
      /\ \A v \in Workers : v # w => local'[v] = local[v]
  BY <1>2, <1>3, LocalStep DEF PoolInv
<1> HIDE DEF m
<1>5. next' = [next EXCEPT ![s] = h.index] /\ h.index \in Pointers
  BY <1>1 DEF PushLoad
<1>6. Types'
  BY <1>1, <1>4, <1>5 DEF PushLoad, PoolInv, Types
<1>7. \A t \in Slots : t # s => Same(t)
  BY <1>1 DEF PushLoad, Same, PoolInv, Types
<1>8. KeepsSlots(w)
  <2>1. Holds(me, s)
    BY <1>1 DEF Holds
  <2>2. \A t \in Slots : Holds(local[w], t)' => Holds(me, t)
    BY <1>1, <1>3, <1>4 DEF Holds
  <2>3. s \in Susps => status'[s] # "PARKED"
    BY <1>1, <2>1 DEF PushLoad, PoolInv, NoSharedSlot, Saved, Parked
  <2> QED
    BY <1>1, <1>4, <1>7, <2>1, <2>2, <2>3, SlotFacts DEF KeepsSlots, PushLoad
<1>9. LocalOK(local[w])'
  BY <1>1, <1>3, <1>4 DEF PushLoad, LocalOK, PopOK, PushOK, ResumeOK, Popping, Pushing
<1>10. SnapOK(local[w])'
  BY <1>1, <1>3, <1>4, <1>5 DEF SnapOK, Popping, PoolInv, Types
<1> QED
  BY <1>6, <1>8, <1>9, <1>10, KeepsInv

-----------------------------------------------------------------------------
(* Steps that take a slot off a list or put one on it.                     *)
LEMMA OtherVersions ==
  ASSUME PoolInv, NEW w \in Workers, NEW v \in Workers, v # w,
         local'[v] = local[v], NEW kind \in Kinds, next' = next,
         NEW new \in [index : Pointers, version : Nat],
         new.version = head[kind].version + 1, head' = [head EXCEPT ![kind] = new]
  PROVE  SnapOK(local[v])'
<1> DEFINE m == local[v]
<1>1. m \in Local /\ SnapOK(m) /\ m.kind \in Kinds /\ m.snap.version \in Nat
  BY DEF PoolInv, Types, Local
<1>2. \A k \in Kinds : head[k].version \in Nat
  BY DEF PoolInv, Types
<1>3. CASE m.kind = kind
  <2>1. head'[kind].version = head[kind].version + 1
    BY DEF PoolInv, Types
  <2> QED
    BY <1>1, <1>2, <1>3, <2>1 DEF SnapOK, Popping
<1>4. CASE m.kind # kind
  <2>1. head'[m.kind] = head[m.kind]
    BY <1>1, <1>4 DEF PoolInv, Types
  <2> QED
    BY <1>1, <2>1 DEF SnapOK, Popping
<1> QED
  BY <1>3, <1>4

LEMMA PopCasInv ==
  ASSUME PoolInv, NEW w \in Workers, PopCas(w) PROVE PoolInv'
<1> DEFINE me == local[w]
           k == me.kind
           s == me.snap.index
           list == free[k]
           new == [index |-> me.nxt, version |-> me.snap.version + 1]
           m == [me EXCEPT !.pc = "mark", !.slot = s]
<1>1. /\ me \in Local /\ LocalOK(me) /\ SnapOK(me) /\ me.pc = "popCas"
      /\ k \in Kinds /\ me.op = "park" /\ s \in SlotsOf(k)
      /\ k = "susp" => me.cont \in Conts \cap allocated
      /\ head[k] = me.snap /\ me.snap.version \in Nat
  BY DEF PoolInv, Types, PopCas, At, LocalOK, PopOK, Popping, Local
<1>2. s \in Slots /\ s \in Pointers
  BY <1>1, SlotFacts
<1>3. /\ list \in Seq(Slots) /\ Len(list) >= 1 /\ 1 \in DOMAIN list
      /\ list[1] = s /\ OnList(s) /\ s \notin allocated
  BY <1>1, <1>2, HeadOfList DEF PoolInv, Types
<1>4. me.nxt = next[s]
  BY <1>1 DEF SnapOK, Popping
<1>5. local' = [local EXCEPT ![w] = m]
  BY DEF PopCas
<1>6. /\ m \in Local /\ m.pc = "mark" /\ m.slot = s
      /\ m.op = "park" /\ m.kind = k /\ m.cont = me.cont
  BY <1>1, <1>2 DEF Local, PC
<1>7. /\ local' \in [Workers -> Local]
      /\ local'[w] = m
      /\ \A v \in Workers : v # w => local'[v] = local[v]
  BY <1>5, <1>6, LocalStep DEF PoolInv
<1> HIDE DEF m
<1>8. new \in [index : Pointers, version : Nat] /\ new.version = head[k].version + 1
  BY <1>1 DEF Local
<1>9. /\ head' = [head EXCEPT ![k] = new]
      /\ free' = [free EXCEPT ![k] = Tail(list)]
      /\ UNCHANGED <<next, allocated, status, contPtr, content, handed>>
  BY <1>1 DEF PopCas
<1>10. /\ Tail(list) \in Seq(Slots) /\ Len(Tail(list)) = Len(list) - 1
       /\ \A n \in DOMAIN Tail(list) : n + 1 \in DOMAIN list /\ Tail(list)[n] = list[n + 1]
       /\ \A n \in DOMAIN list : n = 1 \/ n - 1 \in DOMAIN Tail(list)
  BY <1>3
<1>11. Types'
  BY <1>7, <1>8, <1>9, <1>10 DEF PoolInv, Types
<1>12. \A v \in Workers : LocalOK(local[v])'
  <2>1. LocalOK(local[w])'
    BY <1>1, <1>6, <1>7, <1>9 DEF LocalOK, PopOK, PushOK, ResumeOK, Popping, Pushing
  <2>2. \A t \in Slots : Same(t)
    BY <1>9 DEF Same
  <2> QED
    BY <1>7, <2>1, <2>2, OthersOK DEF PoolInv
<1>13. \A v \in Workers : SnapOK(local[v])'
  <2>1. SnapOK(local[w])'
    BY <1>6, <1>7 DEF SnapOK, Popping
  <2> QED
    BY <1>1, <1>7, <1>8, <1>9, <2>1, OtherVersions
<1>14. ParkedOK'
  BY <1>9 DEF PoolInv, ParkedOK, Parked
<1>15. ListInMemory'
  <2> SUFFICES ASSUME NEW kind \in Kinds PROVE Chained(kind)'
    BY DEF ListInMemory
  <2>1. CASE kind # k
    <3>1. free'[kind] = free[kind] /\ head'[kind] = head[kind]
      BY <2>1, <1>9 DEF PoolInv, Types
    <3>2. Chained(kind)
      BY DEF PoolInv, ListInMemory
    <3>3. UNCHANGED <<next, allocated>>
      BY <1>9
    <3> QED
      BY <3>1, <3>2, <3>3, Zenon DEF Chained, Link
  <2>2. free'[k] = Tail(list) /\ head'[k].index = next[s]
    BY <1>1, <1>4, <1>9 DEF PoolInv, Types
  <2>3. /\ \A n \in DOMAIN list : /\ next[list[n]] = Link(list, n + 1)
                                  /\ list[n] \in SlotsOf(k) \ allocated
        /\ \A l, n \in DOMAIN list : list[l] = list[n] => l = n
    BY <1>1 DEF PoolInv, ListInMemory, Chained
  <2>4. \A n \in DOMAIN Tail(list) : n \in Nat /\ n >= 1 /\ n <= Len(list) - 1
    BY <1>3
  <2>5. next[s] = Link(Tail(list), 1)
    <3>1. next[s] = Link(list, 2)
      BY <1>3, <2>3
    <3> QED
      BY <1>3, <1>10, <3>1 DEF Link
  <2>6. \A n \in DOMAIN Tail(list) : next[Tail(list)[n]] = Link(Tail(list), n + 1)
    BY <1>3, <1>10, <2>3, <2>4, SMTT(30) DEF Link
  <2>7. \A n \in DOMAIN Tail(list) : Tail(list)[n] \in SlotsOf(k) \ allocated
    BY <1>10, <2>3
  <2>8. \A l, n \in DOMAIN Tail(list) : Tail(list)[l] = Tail(list)[n] => l = n
    <3> SUFFICES ASSUME NEW l \in DOMAIN Tail(list), NEW n \in DOMAIN Tail(list),
                        Tail(list)[l] = Tail(list)[n]
                 PROVE  l = n
      OBVIOUS
    <3>1. l + 1 \in DOMAIN list /\ n + 1 \in DOMAIN list /\ list[l + 1] = list[n + 1]
      BY <1>10
    <3>2. l + 1 = n + 1
      BY <2>3, <3>1
    <3> QED
      BY <2>4, <3>2
  <2>9. CASE kind = k
    <3> DEFINE rest == Tail(list)
    <3>1. /\ free'[kind] = rest /\ head'[kind].index = next[s]
          /\ next' = next /\ allocated' = allocated
      BY <1>9, <2>2, <2>9
    <3>2. /\ next[s] = Link(rest, 1)
          /\ \A n \in DOMAIN rest : /\ next[rest[n]] = Link(rest, n + 1)
                                    /\ rest[n] \in SlotsOf(kind) \ allocated
          /\ \A l, n \in DOMAIN rest : rest[l] = rest[n] => l = n
      BY <2>5, <2>6, <2>7, <2>8, <2>9
    <3> HIDE DEF rest
    <3> QED
      BY <3>1, <3>2 DEF Chained
  <2> QED
    BY <2>1, <2>9
<1>16. \A t \in Slots : OnList(t)' => OnList(t) /\ t # s
  <2> SUFFICES ASSUME NEW t \in Slots, NEW kind \in Kinds,
                      NEW n \in DOMAIN free'[kind], free'[kind][n] = t
               PROVE  OnList(t) /\ t # s
    BY DEF OnList
  <2>1. CASE kind = k
    <3>1. n \in DOMAIN Tail(list) /\ t = Tail(list)[n]
      BY <1>9, <2>1 DEF PoolInv, Types
    <3>2. n + 1 \in DOMAIN list /\ t = list[n + 1] /\ n + 1 # 1
      BY <1>3, <1>10, <3>1
    <3> QED
      BY <1>1, <1>3, <3>2 DEF OnList, PoolInv, ListInMemory, Chained, Link
  <2>2. CASE kind # k
    <3>1. n \in DOMAIN free[kind] /\ free[kind][n] = t
      BY <1>9, <2>2 DEF PoolInv, Types
    <3>2. t \in SlotsOf(kind)
      BY <3>1 DEF PoolInv, ListInMemory, Chained, Link
    <3> QED
      BY <1>1, <2>2, <3>1, <3>2, SlotFacts DEF OnList
  <2> QED
    BY <2>1, <2>2
<1>17. NoSharedSlot'
  <2>1. \A t \in Slots : Holds(local[w], t)' => Holds(me, t) \/ t = s
    BY <1>1, <1>6, <1>7 DEF Holds
  <2>2. \A v \in Workers \ {w} : \A t \in Slots : Holds(local[v], t)' = Holds(local[v], t)
    BY <1>7, <1>9 DEF Holds
  <2>3. \A t \in Slots : Saved(t)' = Saved(t)
    BY <1>9 DEF Saved, Parked
  <2>4. \A t \in Susps : Parked(t)' = Parked(t)
    BY <1>9 DEF Parked
  <2> QED
    BY <1>2, <1>3, <1>9, <1>16, <2>1, <2>2, <2>3, <2>4 DEF PoolInv, NoSharedSlot
<1> QED
  BY <1>11, <1>12, <1>13, <1>14, <1>15, <1>17 DEF PoolInv

LEMMA PushCasInv ==
  ASSUME PoolInv, NEW w \in Workers, PushCas(w) PROVE PoolInv'
<1> DEFINE me == local[w]
           k == me.kind
           s == me.slot
           list == free[k]
           longer == <<s>> \o list
           new == [index |-> s, version |-> me.snap.version + 1]
           m == [me EXCEPT !.pc = "uncount"]
<1>1. /\ me \in Local /\ LocalOK(me) /\ SnapOK(me) /\ me.pc = "pushCas"
      /\ k \in Kinds /\ s \in SlotsOf(k) /\ s \notin allocated
      /\ k = "cont" /\ me.op = "resume" =>
           me.susp \in Susps \cap allocated /\ status[me.susp] = "CLAIMED"
      /\ k = "susp" => s = me.susp
      /\ head[k] = me.snap /\ me.snap.version \in Nat
  BY DEF PoolInv, Types, PushCas, At, LocalOK, PushOK, ResumeOK, Pushing, Local
<1>2. s \in Slots /\ s \in Pointers
  BY <1>1, SlotFacts
<1>3. list \in Seq(Slots) /\ next[s] = head[k].index /\ Holds(me, s)
  BY <1>1 DEF PoolInv, Types, SnapOK, Holds
<1>4. local' = [local EXCEPT ![w] = m]
  BY DEF PushCas
<1>5. /\ m \in Local /\ m.pc = "uncount" /\ m.op = me.op /\ m.kind = k /\ m.susp = me.susp
  BY <1>1 DEF Local, PC
<1>6. /\ local' \in [Workers -> Local]
      /\ local'[w] = m
      /\ \A v \in Workers : v # w => local'[v] = local[v]
  BY <1>4, <1>5, LocalStep DEF PoolInv
<1> HIDE DEF m
<1>7. new \in [index : Pointers, version : Nat] /\ new.version = head[k].version + 1
  BY <1>1, <1>2
<1>8. /\ head' = [head EXCEPT ![k] = new]
      /\ free' = [free EXCEPT ![k] = longer]
      /\ UNCHANGED <<next, allocated, status, contPtr, content, handed>>
  BY <1>1 DEF PushCas
<1>9. /\ longer \in Seq(Slots) /\ Len(longer) = Len(list) + 1 /\ longer[1] = s
      /\ \A n \in DOMAIN longer : n = 1 \/ (n - 1 \in DOMAIN list /\ longer[n] = list[n - 1])
      /\ \A n \in DOMAIN list : n + 1 \in DOMAIN longer /\ longer[n + 1] = list[n]
  BY <1>2, <1>3
<1>10. Types'
  BY <1>6, <1>7, <1>8, <1>9 DEF PoolInv, Types
<1>11. \A v \in Workers : LocalOK(local[v])'
  <2>1. LocalOK(local[w])'
    BY <1>1, <1>5, <1>6, <1>8 DEF LocalOK, PopOK, PushOK, ResumeOK, Popping, Pushing
  <2>2. \A t \in Slots : Same(t)
    BY <1>8 DEF Same
  <2> QED
    BY <1>6, <2>1, <2>2, OthersOK DEF PoolInv
<1>12. \A v \in Workers : SnapOK(local[v])'
  <2>1. SnapOK(local[w])'
    BY <1>5, <1>6 DEF SnapOK, Popping
  <2> QED
    BY <1>1, <1>6, <1>7, <1>8, <2>1, OtherVersions
<1>13. ParkedOK'
  BY <1>8 DEF PoolInv, ParkedOK, Parked
<1>14. ~ OnList(s)
  BY <1>2, <1>3 DEF PoolInv, NoSharedSlot
<1>15. ListInMemory'
  <2> SUFFICES ASSUME NEW kind \in Kinds PROVE Chained(kind)'
    BY DEF ListInMemory
  <2>1. CASE kind # k
    <3>1. free'[kind] = free[kind] /\ head'[kind] = head[kind]
      BY <2>1, <1>8 DEF PoolInv, Types
    <3>2. Chained(kind)
      BY DEF PoolInv, ListInMemory
    <3>3. UNCHANGED <<next, allocated>>
      BY <1>8
    <3> QED
      BY <3>1, <3>2, <3>3, Zenon DEF Chained, Link
  <2>2. free'[k] = longer /\ head'[k].index = s
    BY <1>1, <1>8 DEF PoolInv, Types
  <2>3. /\ \A n \in DOMAIN list : /\ next[list[n]] = Link(list, n + 1)
                                  /\ list[n] \in SlotsOf(k) \ allocated
        /\ \A l, n \in DOMAIN list : list[l] = list[n] => l = n
    BY <1>1 DEF PoolInv, ListInMemory, Chained
  <2>4. next[s] = Link(list, 1)
    BY <1>1, <1>3 DEF PoolInv, ListInMemory, Chained
  <2>5. \A n \in DOMAIN longer : n \in Nat /\ n >= 1 /\ n <= Len(list) + 1
    BY <1>9
  <2>6. \A n \in Nat : n >= 1 => Link(longer, n + 1) = Link(list, n)
    BY <1>3, <1>9 DEF Link
  <2>7. \A n \in DOMAIN longer : next[longer[n]] = Link(longer, n + 1)
    <3> SUFFICES ASSUME NEW n \in DOMAIN longer
                 PROVE  next[longer[n]] = Link(longer, n + 1)
      OBVIOUS
    <3>1. CASE n = 1
      <4>1. Link(longer, n + 1) = Link(list, n)
        BY <2>5, <2>6
      <4> QED
        BY <1>9, <2>4, <3>1, <4>1
    <3>2. CASE n # 1
      <4>1. n - 1 \in DOMAIN list /\ longer[n] = list[n - 1]
        BY <1>9, <3>2
      <4>2. next[longer[n]] = Link(list, n)
        BY <2>3, <2>5, <4>1
      <4> QED
        BY <2>5, <2>6, <4>2
    <3> QED
      BY <3>1, <3>2
  <2>8. \A n \in DOMAIN list : list[n] # s
    BY <1>1, <1>14 DEF OnList
  <2>9. \A n \in DOMAIN longer :
          /\ longer[n] \in SlotsOf(k) \ allocated
          /\ \A l \in DOMAIN longer : longer[l] = longer[n] => l = n
    BY <1>1, <1>9, <2>3, <2>5, <2>8, SMTT(30)
  <2>10. Link(longer, 1) = s
    BY <1>3, <1>9 DEF Link
  <2>11. CASE kind = k
    BY <2>11, <1>8, <2>2, <2>7, <2>9, <2>10, SMTT(30) DEF Chained
  <2> QED
    BY <2>1, <2>11
<1>16. \A t \in Slots : OnList(t)' => OnList(t) \/ t = s
  <2> SUFFICES ASSUME NEW t \in Slots, NEW kind \in Kinds,
                      NEW n \in DOMAIN free'[kind], free'[kind][n] = t
               PROVE  OnList(t) \/ t = s
    BY DEF OnList
  <2>1. CASE kind = k
    BY <1>1, <1>8, <1>9, <2>1 DEF OnList, PoolInv, Types
  <2>2. CASE kind # k
    BY <1>8, <2>2 DEF OnList, PoolInv, Types
  <2> QED
    BY <2>1, <2>2
<1>17. NoSharedSlot'
  <2>1. \A t \in Slots : Holds(local[w], t)' => Holds(me, t) /\ t # s
    BY <1>1, <1>5, <1>6, SlotFacts DEF Holds
  <2>2. \A v \in Workers \ {w} : \A t \in Slots : Holds(local[v], t)' = Holds(local[v], t)
    BY <1>6, <1>8 DEF Holds
  <2>3. \A t \in Slots : Saved(t)' = Saved(t)
    BY <1>8 DEF Saved, Parked
  <2>4. \A t \in Susps : Parked(t)' = Parked(t)
    BY <1>8 DEF Parked
  <2> QED
    BY <1>2, <1>3, <1>8, <1>16, <2>1, <2>2, <2>3, <2>4 DEF PoolInv, NoSharedSlot
<1> QED
  BY <1>10, <1>11, <1>12, <1>13, <1>15, <1>17 DEF PoolInv

-----------------------------------------------------------------------------
(* Parking a suspension and claiming one.                                  *)
LEMMA PublishInv ==
  ASSUME PoolInv, NEW w \in Workers, Publish(w) PROVE PoolInv'
<1> DEFINE me == local[w]
           s == me.susp
           c == me.cont
<1>1. /\ me.pc = "publish" /\ s \in Susps \cap allocated /\ c \in Conts \cap allocated
      /\ contPtr[s] = c /\ status[s] = "CLAIMED" /\ Holds(me, s) /\ Holds(me, c)
      /\ s \in Slots /\ c \in Slots
  BY SlotFacts DEF PoolInv, Publish, At, LocalOK, PopOK, Holds
<1>2. /\ status' = [status EXCEPT ![s] = "PARKED"]
      /\ handed' = handed \cup {s}
      /\ local' = [local EXCEPT ![w] = Idle]
      /\ UNCHANGED <<head, next, allocated, contPtr, content, free>>
  BY DEF Publish
<1>3. /\ local' \in [Workers -> Local]
      /\ local'[w] = Idle
      /\ \A v \in Workers : v # w => local'[v] = local[v]
  BY <1>2, IdleOK, LocalStep DEF PoolInv
<1>4. Types'
  BY <1>1, <1>2, <1>3 DEF PoolInv, Types
<1>5. \A t \in Slots : t # s => Same(t)
  BY <1>2 DEF Same, PoolInv, Types
<1>6. ASSUME NEW v \in Workers, v # w
      PROVE  /\ \A t \in Slots : Holds(local[v], t)' = Holds(local[v], t)
             /\ LocalOK(local[v])' /\ SnapOK(local[v])'
  <2>1. \A t \in Slots : Holds(local[v], t) => Same(t)
    BY <1>1, <1>5, <1>6 DEF PoolInv, NoSharedSlot
  <2>2. SnapOK(local[v])'
    BY <1>2, <1>3, <1>6 DEF PoolInv, SnapOK
  <2> QED
    BY <1>3, <1>6, <2>1, <2>2, OthersOK, OthersHold DEF PoolInv
<1>7. LocalOK(local[w])' /\ SnapOK(local[w])' /\ \A t \in Slots : ~ Holds(local[w], t)'
  BY <1>3 DEF Idle, LocalOK, PopOK, PushOK, ResumeOK, SnapOK, Holds, Popping, Pushing
<1>8. \A t \in Susps : Parked(t)' => Parked(t) \/ t = s
  BY <1>2 DEF Parked, PoolInv, Types
<1>9. ParkedOK'
  BY <1>1, <1>2, <1>8 DEF PoolInv, ParkedOK
<1>10. ListInMemory'
  BY <1>2 DEF PoolInv, ListInMemory, Chained, Link
<1>11. NoSharedSlot'
  <2>1. \A t \in Slots : Saved(t)' => Saved(t) \/ t \in {s, c}
    BY <1>1, <1>2, <1>8 DEF Saved, Parked
  <2>2. \A t \in Slots : OnList(t)' = OnList(t)
    BY <1>2 DEF OnList
  <2>3. \A t \in Susps : Parked(t) => contPtr[t] # c
    BY <1>1 DEF PoolInv, NoSharedSlot, Saved
  <2>4. \A t \in Slots : \A v \in Workers : Holds(local[v], t)' => Holds(local[v], t) /\ v # w
    BY <1>6, <1>7
  <2>5. \A t, u \in Susps :
          Parked(t)' /\ Parked(u)' /\ contPtr[t] = contPtr[u] /\ contPtr[t] \in Slots => t = u
    BY <1>1, <1>8, <2>3 DEF PoolInv, NoSharedSlot
  <2> QED
    BY <1>1, <1>2, <2>1, <2>2, <2>4, <2>5 DEF PoolInv, NoSharedSlot
<1> QED
  BY <1>4, <1>6, <1>7, <1>9, <1>10, <1>11 DEF PoolInv

LEMMA ClaimInv ==
  ASSUME PoolInv, NEW w \in Workers, Claim(w) PROVE PoolInv'
<1> DEFINE me == local[w]
           s == me.susp
           c == contPtr[s]
           m == [me EXCEPT !.pc = "copy"]
<1>1. me \in Local /\ me.pc = "claim" /\ me.op = "resume" /\ s \in Susps /\ s \in Slots
  BY SlotFacts DEF PoolInv, Types, Claim, At, LocalOK, ResumeOK
<1>2. CASE status[s] # "PARKED"
  <2>1. local' = [local EXCEPT ![w] = Idle] /\ UNCHANGED pool
    BY <1>2 DEF Claim, pool
  <2> QED
    BY <2>1, IdleOK, OnlyLocalInv
<1>3. CASE status[s] = "PARKED"
  <2>1. Parked(s) /\ s \in allocated /\ c \in Conts \cap allocated /\ Saved(s) /\ Saved(c)
        /\ c \in Slots
    BY <1>1, <1>3, SlotFacts DEF PoolInv, ParkedOK, Parked, Saved
  <2>2. /\ status' = [status EXCEPT ![s] = "CLAIMED"]
        /\ local' = [local EXCEPT ![w] = m]
        /\ UNCHANGED <<head, next, allocated, contPtr, content, handed, free>>
    BY <1>3 DEF Claim
  <2>3. m \in Local /\ m.pc = "copy" /\ m.op = "resume" /\ m.susp = s
    BY <1>1 DEF Local, PC
  <2>4. /\ local' \in [Workers -> Local]
        /\ local'[w] = m
        /\ \A v \in Workers : v # w => local'[v] = local[v]
    BY <2>2, <2>3, LocalStep DEF PoolInv
  <2> HIDE DEF m
  <2>5. Types'
    BY <1>1, <2>2, <2>4 DEF PoolInv, Types
  <2>6. \A t \in Slots : t # s => Same(t)
    BY <2>2 DEF Same, PoolInv, Types
  <2>7. ASSUME NEW v \in Workers, v # w
        PROVE  /\ \A t \in Slots : Holds(local[v], t)' = Holds(local[v], t)
               /\ LocalOK(local[v])' /\ SnapOK(local[v])'
    <3>1. \A t \in Slots : Holds(local[v], t) => Same(t)
      BY <1>1, <2>1, <2>6 DEF PoolInv, NoSharedSlot
    <3>2. SnapOK(local[v])'
      BY <2>2, <2>4, <2>7 DEF PoolInv, SnapOK
    <3> QED
      BY <2>4, <2>7, <3>1, <3>2, OthersOK, OthersHold DEF PoolInv
  <2>8. LocalOK(local[w])' /\ SnapOK(local[w])'
    <3>1. status'[s] = "CLAIMED"
      BY <1>1, <2>2 DEF PoolInv, Types
    <3> QED
      BY <1>1, <2>1, <2>2, <2>3, <2>4, <3>1
      DEF LocalOK, PopOK, PushOK, ResumeOK, SnapOK, Popping, Pushing
  <2>9. \A t \in Slots : Holds(local[w], t)' => t \in {s, c}
    BY <2>2, <2>3, <2>4 DEF Holds
  <2>10. \A t \in Susps : Parked(t)' => Parked(t) /\ t # s
    BY <1>1, <2>2 DEF Parked, PoolInv, Types
  <2>11. ParkedOK'
    BY <2>2, <2>10 DEF PoolInv, ParkedOK
  <2>12. ListInMemory'
    BY <2>2 DEF PoolInv, ListInMemory, Chained, Link
  <2>13. NoSharedSlot'
    <3>1. \A t \in Slots : OnList(t)' = OnList(t)
      BY <2>2 DEF OnList
    <3>2. \A t \in Susps : Parked(t) /\ contPtr[t] = c => t = s
      BY <1>1, <2>1 DEF PoolInv, NoSharedSlot
    <3>3. \A t \in Susps : Parked(t) => contPtr[t] \in Conts
      BY DEF PoolInv, ParkedOK
    <3>4. \A t \in Slots : Saved(t)' => Saved(t) /\ t # s /\ t # c
      BY <1>1, <2>1, <2>2, <2>10, <3>2, <3>3, SlotFacts DEF Saved, Parked
    <3>5. \A t \in Slots : \A v \in Workers \ {w} : Holds(local[v], t)' => ~ Saved(t)
      BY <2>7 DEF PoolInv, NoSharedSlot
    <3>6. \A t \in Slots : Holds(local[w], t)' => Saved(t) /\ ~ Saved(t)'
      BY <2>1, <2>9, <3>4
    <3>7. \A t \in Slots : \A v \in Workers \ {w} : Holds(local[v], t)' => Holds(local[v], t)
      BY <2>7
    <3>8. \A t \in Slots : \A u, v \in Workers : Holds(local[u], t)' /\ Holds(local[v], t)' => u = v
      BY <3>5, <3>6, <3>7 DEF PoolInv, NoSharedSlot
    <3> QED
      BY <2>2, <2>10, <3>1, <3>4, <3>5, <3>6, <3>7, <3>8 DEF PoolInv, NoSharedSlot
  <2> QED
    BY <2>5, <2>7, <2>8, <2>11, <2>12, <2>13 DEF PoolInv
<1> QED
  BY <1>2, <1>3

-----------------------------------------------------------------------------
(* Initially every slot is on its list.                                    *)
LEMMA InitInv == Init => PoolInv
<1> SUFFICES ASSUME Init PROVE PoolInv
  OBVIOUS
<1>1. ContSlots \in Nat \ {0} /\ SuspSlots \in Nat \ {0}
  BY SlotsAssumption
<1>2. ASSUME NEW kind \in Kinds
      PROVE  /\ Length(kind) \in Nat \ {0}
             /\ SlotsOf(kind) = {kind} \X (1 .. Length(kind))
             /\ SlotsOf(kind) \subseteq Slots
  BY <1>1, SlotFacts DEF Length, SlotsOf
<1>3. ASSUME NEW kind \in Kinds
      PROVE  /\ free[kind] \in Seq(Slots)
             /\ Len(free[kind]) = Length(kind)
             /\ \A n \in 1 .. Length(kind) : free[kind][n] = <<kind, n>>
  <2>1. free[kind] = [n \in 1 .. Length(kind) |-> <<kind, n>>]
    BY DEF Init
  <2>2. \A n \in 1 .. Length(kind) : <<kind, n>> \in Slots
    BY <1>2
  <2> QED
    BY <1>2, <2>1, <2>2
<1>4. Types
  <2>1. head \in [Kinds -> [index : Pointers, version : Nat]]
    <3>1. \A kind \in Kinds : <<kind, 1>> \in Pointers
      BY <1>2, SlotFacts
    <3> QED
      BY <3>1 DEF Init
  <2>2. next \in [Slots -> Pointers]
    <3>1. ASSUME NEW s \in Slots, s[2] < Length(s[1])
          PROVE  <<s[1], s[2] + 1>> \in Pointers
      <4>1. PICK kind \in Kinds : s \in SlotsOf(kind)
        BY SlotFacts
      <4>2. s[1] = kind /\ s[2] \in 1 .. Length(kind) /\ Length(kind) \in Nat
        BY <1>2, <4>1
      <4>3. s[2] + 1 \in 1 .. Length(kind)
        BY <3>1, <4>2
      <4> QED
        BY <1>2, <4>2, <4>3, SlotFacts
    <3> QED
      BY <3>1, PointerFacts DEF Init
  <2>3. local \in [Workers -> Local]
    BY IdleOK DEF Init
  <2>4. free \in [Kinds -> Seq(Slots)]
    BY <1>3 DEF Init
  <2> QED
    BY <2>1, <2>2, <2>3, <2>4 DEF Init, Types
<1>5. \A w \in Workers : local[w] = Idle
  BY DEF Init
<1>6. \A t \in Susps : ~ Parked(t)
  BY DEF Init, Parked
<1>7. ListInMemory
  <2> SUFFICES ASSUME NEW kind \in Kinds PROVE Chained(kind)
    BY DEF ListInMemory
  <2>1. head[kind].index = <<kind, 1>>
    BY DEF Init
  <2>2. DOMAIN free[kind] = 1 .. Length(kind)
    BY <1>2, <1>3
  <2>3. \A n \in DOMAIN free[kind] :
          /\ next[free[kind][n]] = IF n < Length(kind) THEN <<kind, n + 1>> ELSE Invalid
          /\ free[kind][n] \in SlotsOf(kind) \ allocated
    BY <1>2, <1>3, <2>2 DEF Init
  <2>4. \A n \in DOMAIN free[kind] :
          Link(free[kind], n + 1) = IF n < Length(kind) THEN <<kind, n + 1>> ELSE Invalid
    BY <1>2, <1>3, <2>2, SMTT(30) DEF Link
  <2>5. \A m, n \in DOMAIN free[kind] : free[kind][m] = free[kind][n] => m = n
    BY <1>3, <2>2
  <2>6. Link(free[kind], 1) = <<kind, 1>>
    BY <1>2, <1>3 DEF Link
  <2>7. \A n \in DOMAIN free[kind] : next[free[kind][n]] = Link(free[kind], n + 1)
    BY <2>3, <2>4
  <2>8. \A n \in DOMAIN free[kind] : free[kind][n] \in SlotsOf(kind) \ allocated
    BY <2>3
  <2> QED
    BY <2>1, <2>5, <2>6, <2>7, <2>8 DEF Chained
<1>8. \A w \in Workers : LocalOK(local[w]) /\ SnapOK(local[w])
  BY <1>5, IdleOK
<1>9. \A w \in Workers : \A s \in Slots : ~ Holds(local[w], s)
  BY <1>5, IdleOK
<1>10. ParkedOK
  BY <1>6 DEF ParkedOK
<1>11. NoSharedSlot
  <2>1. \A s \in Slots : ~ Saved(s)
    BY <1>6 DEF Saved, Parked
  <2> QED
    BY <1>6, <1>9, <2>1 DEF NoSharedSlot
<1> QED
  BY <1>4, <1>7, <1>8, <1>10, <1>11 DEF PoolInv

(* Every step preserves the invariant.                                     *)
LEMMA StepInv == PoolInv /\ [Next]_vars => PoolInv'
<1> SUFFICES ASSUME PoolInv, [Next]_vars PROVE PoolInv'
  OBVIOUS
<1>1. ASSUME NEW w \in Workers, Step(w) PROVE PoolInv'
  BY <1>1, ParkCallInv, ResumeCallInv, PopLoadInv, PopNextInv, PopCasInv, PopCasFailsInv,
     MarkContInv, MarkSuspInv, PublishInv, TestFlagInv, ClaimInv, CopyInv, PushFreeInv,
     PushLoadInv, PushCasInv, PushCasFailsInv, UncountInv DEF Step
<1>2. CASE UNCHANGED vars
  BY <1>2 DEF vars, memory, PoolInv, Types, LocalOK, PopOK, PushOK, ResumeOK, SnapOK, ParkedOK,
     ListInMemory, Chained, Link, NoSharedSlot, Saved, OnList, Parked, Holds
<1> QED
  BY <1>1, <1>2 DEF Next

(* The invariant holds in every reachable state.                           *)
THEOREM PoolInvariant == Spec => []PoolInv
<1> QED
  BY InitInv, StepInv, PTL DEF Spec

(* Two threads never work on the same slot, nor on one that is parked or   *)
(* free, whatever pops, pushes and resumes meet.                           *)
THEOREM SlotsNotShared == Spec => []NoSharedSlot
<1>1. PoolInv => NoSharedSlot
  BY DEF PoolInv
<1> QED
  BY <1>1, PoolInvariant, PTL

(* The lists in memory are always intact: no compare-and-swap on a head    *)
(* succeeds with a stale next_free.                                        *)
THEOREM ListsIntact == Spec => []ListInMemory
<1>1. PoolInv => ListInMemory
  BY DEF PoolInv
<1> QED
  BY <1>1, PoolInvariant, PTL

(* The invariant checks of control_push_cont, control_push_susp and        *)
(* resume_worker_state never abort the process.                            *)
THEOREM TrapsNeverFire == Spec => []NoTrap
<1>1. PoolInv => NoTrap
  BY DEF PoolInv, LocalOK, NoTrap, At
<1> QED
  BY <1>1, PoolInvariant, PTL

-----------------------------------------------------------------------------
(* No slot is lost.  A step of one thread leaves what the others hold as   *)
(* it is, and gives back, saves or keeps what it held itself.              *)
LEMMA StillKept ==
  ASSUME PoolInv, NoLostSlot, NEW w \in Workers,
         \A v \in Workers : v # w => local'[v] = local[v],
         \A t \in Susps : contPtr'[t] = contPtr[t] \/ Holds(local[w], t),
         \A s \in Slots : OnList(s) => OnList(s)' \/ Holds(local[w], s)',
         \A s \in Slots : Saved(s) => Saved(s)' \/ Holds(local[w], s)',
         \A s \in Slots : Holds(local[w], s) =>
                            Holds(local[w], s)' \/ OnList(s)' \/ Saved(s)'
  PROVE  NoLostSlot'
<1>1. ASSUME NEW v \in Workers, v # w, NEW s \in Slots, Holds(local[v], s)
      PROVE  Holds(local[v], s)'
  <2>1. local[v].pc = "copy" => local[v].susp \in Susps /\ Holds(local[v], local[v].susp)
    BY DEF PoolInv, LocalOK, ResumeOK, Holds
  <2>2. local[v].pc = "copy" => contPtr'[local[v].susp] = contPtr[local[v].susp]
    BY <1>1, <2>1, SlotFacts DEF PoolInv, NoSharedSlot
  <2> QED
    BY <1>1, <2>2 DEF Holds
<1> QED
  BY <1>1 DEF NoLostSlot

(* The steps that touch neither a list nor a suspension.                   *)
LEMMA OnlyLocalKept ==
  ASSUME PoolInv, NoLostSlot, NEW w \in Workers, NEW m,
         local' = [local EXCEPT ![w] = m], UNCHANGED <<status, contPtr, free>>,
         \A s \in Slots : Holds(local[w], s) => Holds(m, s)
  PROVE  NoLostSlot'
<1>1. local'[w] = m /\ \A v \in Workers : v # w => local'[v] = local[v]
  BY DEF PoolInv, Types
<1>2. \A s \in Slots : OnList(s)' = OnList(s) /\ Saved(s)' = Saved(s)
  BY DEF OnList, Saved, Parked
<1>3. \A s \in Slots : Holds(local[w], s) => Holds(local[w], s)'
  BY <1>1 DEF Holds
<1> QED
  BY <1>1, <1>2, <1>3, StillKept

LEMMA CallKept ==
  ASSUME PoolInv, NoLostSlot, NEW w \in Workers, ParkCall(w) \/ ResumeCall(w)
  PROVE  NoLostSlot'
<1>1. \A s \in Slots : ~ Holds(local[w], s)
  BY DEF ParkCall, ResumeCall, At, Holds
<1>2. PICK m : local' = [local EXCEPT ![w] = m]
  BY DEF ParkCall, ResumeCall
<1> QED
  BY <1>1, <1>2, OnlyLocalKept DEF ParkCall, ResumeCall, memory

(* A park that finds no suspension gives its continuation back.            *)
LEMMA PopLoadKept ==
  ASSUME PoolInv, NoLostSlot, NEW w \in Workers, PopLoad(w)
  PROVE  NoLostSlot'
<1> DEFINE me == local[w]
           h == head[me.kind]
           m1 == [me EXCEPT !.pc = "popNext", !.snap = h]
           m2 == [me EXCEPT !.pc = "pushFree", !.kind = "cont", !.slot = me.cont]
<1>1. me \in Local /\ LocalOK(me) /\ me.pc = "popLoad" /\ me.kind \in Kinds
  BY DEF PoolInv, Types, PopLoad, At, Local
<1>2. UNCHANGED <<status, contPtr, free>>
  BY DEF PopLoad, memory
<1>3. CASE h.index # Invalid
  <2>1. local' = [local EXCEPT ![w] = m1]
    BY <1>3 DEF PopLoad
  <2>2. m1.pc = "popNext" /\ m1.kind = me.kind /\ m1.cont = me.cont
    BY <1>1 DEF Local
  <2> HIDE DEF m1
  <2>3. \A s \in Slots : Holds(me, s) => Holds(m1, s)
    BY <1>1, <2>2 DEF Holds
  <2> QED
    BY <1>2, <2>1, <2>3, OnlyLocalKept
<1>4. CASE h.index = Invalid /\ me.kind = "susp"
  <2>1. local' = [local EXCEPT ![w] = m2]
    BY <1>4 DEF PopLoad
  <2>2. m2.pc = "pushFree" /\ m2.slot = me.cont
    BY <1>1 DEF Local
  <2> HIDE DEF m2
  <2>3. \A s \in Slots : Holds(me, s) => Holds(m2, s)
    BY <1>1, <2>2 DEF Holds
  <2> QED
    BY <1>2, <2>1, <2>3, OnlyLocalKept
<1>5. CASE h.index = Invalid /\ me.kind # "susp"
  <2>1. local' = [local EXCEPT ![w] = Idle]
    BY <1>5 DEF PopLoad
  <2>2. \A s \in Slots : ~ Holds(me, s)
    BY <1>1, <1>5 DEF Holds
  <2> QED
    BY <1>2, <2>1, <2>2, OnlyLocalKept
<1> QED
  BY <1>3, <1>4, <1>5

(* The other steps of a pop and of a push that keep their slots.           *)
LEMMA LoopKept ==
  ASSUME PoolInv, NoLostSlot, NEW w \in Workers,
         PopNext(w) \/ PopCasFails(w) \/ PushLoad(w) \/ PushCasFails(w)
  PROVE  NoLostSlot'
<1> DEFINE me == local[w]
<1>1. me \in Local /\ LocalOK(me)
  BY DEF PoolInv, Types
<1>2. UNCHANGED <<status, contPtr, free>>
  BY DEF PopNext, PopCasFails, PushLoad, PushCasFails, memory
<1>3. PICK m \in Local :
        /\ local' = [local EXCEPT ![w] = m]
        /\ m.kind = me.kind /\ m.op = me.op /\ m.slot = me.slot
        /\ m.cont = me.cont /\ m.susp = me.susp
        /\ \/ me.pc \in {"popNext", "popCas"} /\ m.pc \in {"popLoad", "popCas"}
           \/ me.pc \in {"pushLoad", "pushCas"} /\ m.pc \in {"pushLoad", "pushCas"}
  <2>1. CASE PopNext(w)
    <3> DEFINE m == [me EXCEPT !.pc = "popCas", !.nxt = next[me.snap.index]]
    <3>1. me.pc = "popNext" /\ local' = [local EXCEPT ![w] = m]
      BY <2>1 DEF PopNext, At, PoolInv, Types
    <3>2. next[me.snap.index] \in Pointers
      BY <1>1, <3>1, SlotFacts DEF LocalOK, PopOK, Popping, Local, PoolInv, Types
    <3>3. m \in Local
      BY <1>1, <3>2 DEF Local, PC
    <3> QED
      BY <1>1, <3>1, <3>3 DEF Local
  <2>2. CASE PopCasFails(w)
    <3> DEFINE m == [me EXCEPT !.pc = "popLoad"]
    <3>1. me.pc = "popCas" /\ local' = [local EXCEPT ![w] = m] /\ m \in Local
      BY <1>1, <2>2 DEF PopCasFails, At, Local, PC
    <3> QED
      BY <1>1, <3>1 DEF Local
  <2>3. CASE PushLoad(w)
    <3> DEFINE m == [me EXCEPT !.pc = "pushCas", !.snap = head[me.kind]]
    <3>1. me.pc = "pushLoad" /\ local' = [local EXCEPT ![w] = m]
      BY <2>3 DEF PushLoad, At
    <3>2. head[me.kind] \in [index : Pointers, version : Nat]
      BY <1>1 DEF Local, PoolInv, Types
    <3>3. m \in Local
      BY <1>1, <3>2 DEF Local, PC
    <3> QED
      BY <1>1, <3>1, <3>3 DEF Local
  <2>4. CASE PushCasFails(w)
    <3> DEFINE m == [me EXCEPT !.pc = "pushLoad"]
    <3>1. me.pc = "pushCas" /\ local' = [local EXCEPT ![w] = m] /\ m \in Local
      BY <1>1, <2>4 DEF PushCasFails, At, Local, PC
    <3> QED
      BY <1>1, <3>1 DEF Local
  <2> QED
    BY <2>1, <2>2, <2>3, <2>4
<1>4. \A s \in Slots : Holds(me, s) => Holds(m, s)
  BY <1>3 DEF Holds
<1> QED
  BY <1>2, <1>3, <1>4, OnlyLocalKept

LEMMA MarkKept ==
  ASSUME PoolInv, NoLostSlot, NEW w \in Workers, MarkCont(w) \/ MarkSusp(w)
  PROVE  NoLostSlot'
<1> DEFINE me == local[w]
           s == me.slot
<1>1. me \in Local /\ LocalOK(me) /\ me.pc = "mark" /\ s \in SlotsOf(me.kind) /\ Holds(me, s)
  BY DEF PoolInv, Types, MarkCont, MarkSusp, At, LocalOK, PopOK, Holds
<1>2. CASE MarkCont(w)
  <2> DEFINE m == [me EXCEPT !.pc = "popLoad", !.kind = "susp", !.cont = s, !.slot = Invalid]
  <2>1. me.kind = "cont" /\ local' = [local EXCEPT ![w] = m]
        /\ UNCHANGED <<status, contPtr, free>>
    BY <1>2 DEF MarkCont
  <2>2. m.pc = "popLoad" /\ m.kind = "susp" /\ m.cont = s
    BY <1>1 DEF Local
  <2> HIDE DEF m
  <2>3. \A t \in Slots : Holds(me, t) => Holds(m, t)
    BY <1>1, <2>1, <2>2 DEF Holds
  <2> QED
    BY <2>1, <2>3, OnlyLocalKept
<1>3. CASE MarkSusp(w)
  <2> DEFINE m == [me EXCEPT !.pc = "publish", !.susp = s, !.slot = Invalid]
  <2>1. me.kind = "susp" /\ local' = [local EXCEPT ![w] = m] /\ free' = free
        /\ status' = [status EXCEPT ![s] = "CLAIMED"]
        /\ contPtr' = [contPtr EXCEPT ![s] = me.cont]
    BY <1>3 DEF MarkSusp
  <2>2. m.pc = "publish" /\ m.susp = s /\ m.cont = me.cont
    BY <1>1 DEF Local
  <2>3. local'[w] = m /\ \A v \in Workers : v # w => local'[v] = local[v]
    BY <2>1 DEF PoolInv, Types
  <2> HIDE DEF m
  <2>4. \A t \in Slots : Holds(me, t) => Holds(local[w], t)'
    BY <1>1, <2>1, <2>2, <2>3 DEF Holds
  <2>5. s \in Susps /\ s \in Slots /\ ~ Saved(s)
    BY <1>1, <2>1, SlotFacts DEF PoolInv, NoSharedSlot
  <2>6. \A t \in Susps : t # s => status'[t] = status[t] /\ contPtr'[t] = contPtr[t]
    BY <2>1 DEF PoolInv, Types
  <2>7. \A t \in Slots : Saved(t) => Saved(t)'
    BY <2>5, <2>6 DEF Saved, Parked
  <2>8. \A t \in Slots : OnList(t) => OnList(t)'
    BY <2>1 DEF OnList
  <2>9. \A t \in Susps : contPtr'[t] = contPtr[t] \/ Holds(me, t)
    BY <1>1, <2>6
  <2> QED
    BY <2>3, <2>4, <2>7, <2>8, <2>9, StillKept
<1> QED
  BY <1>2, <1>3

(* A suspension and its continuation pass from the thread to the pool and  *)
(* back.                                                                   *)
LEMMA PublishKept ==
  ASSUME PoolInv, NoLostSlot, NEW w \in Workers, Publish(w)
  PROVE  NoLostSlot'
<1> DEFINE me == local[w]
           s == me.susp
<1>1. me.pc = "publish" /\ s \in Susps /\ contPtr[s] = me.cont
  BY DEF PoolInv, Publish, At, LocalOK, PopOK
<1>2. /\ status' = [status EXCEPT ![s] = "PARKED"]
      /\ local' = [local EXCEPT ![w] = Idle] /\ UNCHANGED <<contPtr, free>>
  BY DEF Publish
<1>3. \A v \in Workers : v # w => local'[v] = local[v]
  BY <1>2 DEF PoolInv, Types
<1>4. \A t \in Susps : Parked(t)' = (Parked(t) \/ t = s)
  BY <1>2 DEF Parked, PoolInv, Types
<1>5. \A t \in Slots : Saved(t) => Saved(t)'
  <2>1. \A t : Parked(t) => Parked(t)'
    BY <1>4 DEF Parked
  <2> QED
    BY <1>2, <2>1 DEF Saved
<1>6. \A t \in {s, me.cont} : Saved(t)'
  BY <1>1, <1>2, <1>4 DEF Saved
<1>7. \A t \in Slots : Holds(me, t) => t \in {s, me.cont}
  BY <1>1 DEF Holds
<1>8. \A t \in Slots : OnList(t) => OnList(t)'
  BY <1>2 DEF OnList
<1>9. \A t \in Slots : Holds(me, t) => Saved(t)'
  BY <1>6, <1>7
<1>10. \A t \in Susps : contPtr'[t] = contPtr[t]
  BY <1>2
<1> QED
  BY <1>3, <1>5, <1>8, <1>9, <1>10, StillKept

LEMMA ClaimKept ==
  ASSUME PoolInv, NoLostSlot, NEW w \in Workers, Claim(w)
  PROVE  NoLostSlot'
<1> DEFINE me == local[w]
           s == me.susp
           m == [me EXCEPT !.pc = "copy"]
<1>1. /\ me \in Local /\ me.pc = "claim" /\ s \in Susps
      /\ \A t \in Slots : ~ Holds(me, t)
  BY DEF PoolInv, Types, Claim, At, LocalOK, ResumeOK, Holds
<1>2. CASE status[s] # "PARKED"
  BY <1>1, <1>2, OnlyLocalKept DEF Claim
<1>3. CASE status[s] = "PARKED"
  <2>1. /\ status' = [status EXCEPT ![s] = "CLAIMED"]
        /\ local' = [local EXCEPT ![w] = m] /\ UNCHANGED <<contPtr, free>>
    BY <1>3 DEF Claim
  <2>2. m.pc = "copy" /\ m.susp = s
    BY <1>1 DEF Local
  <2>3. local'[w] = m /\ \A v \in Workers : v # w => local'[v] = local[v]
    BY <2>1 DEF PoolInv, Types
  <2> HIDE DEF m
  <2>4. \A t \in {s, contPtr[s]} : Holds(local[w], t)'
    BY <2>1, <2>2, <2>3 DEF Holds
  <2>5. \A t \in Susps : t # s => Parked(t)' = Parked(t)
    BY <2>1 DEF Parked, PoolInv, Types
  <2>6. \A t \in Slots : Saved(t) => Saved(t)' \/ t \in {s, contPtr[s]}
    <3> SUFFICES ASSUME NEW t \in Slots, Saved(t), t # s, t # contPtr[s]
                 PROVE  Saved(t)'
      OBVIOUS
    <3>1. CASE Parked(t)
      BY <2>5, <3>1 DEF Saved, Parked
    <3>2. CASE ~ Parked(t)
      <4>1. PICK u \in Susps : Parked(u) /\ contPtr[u] = t
        BY <3>2 DEF Saved
      <4> QED
        BY <2>1, <2>5, <4>1 DEF Saved
    <3> QED
      BY <3>1, <3>2
  <2>7. \A t \in Slots : Saved(t) => Saved(t)' \/ Holds(local[w], t)'
    BY <2>4, <2>6
  <2>8. \A t \in Slots : OnList(t) => OnList(t)'
    BY <2>1 DEF OnList
  <2>9. \A t \in Susps : contPtr'[t] = contPtr[t]
    BY <2>1
  <2> QED
    BY <1>1, <2>3, <2>7, <2>8, <2>9, StillKept
<1> QED
  BY <1>2, <1>3

LEMMA ResumeKept ==
  ASSUME PoolInv, NoLostSlot, NEW w \in Workers, TestFlag(w) \/ Copy(w) \/ Uncount(w)
  PROVE  NoLostSlot'
<1> DEFINE me == local[w]
<1>1. me \in Local /\ LocalOK(me)
  BY DEF PoolInv, Types
<1>2. UNCHANGED <<status, contPtr, free>>
  BY DEF TestFlag, Copy, Uncount, memory
<1>3. CASE TestFlag(w)
  <2>1. \A s \in Slots : ~ Holds(me, s)
    BY <1>3 DEF TestFlag, At, Holds
  <2>2. PICK m : local' = [local EXCEPT ![w] = m]
    BY <1>3 DEF TestFlag
  <2> QED
    BY <1>2, <2>1, <2>2, OnlyLocalKept
<1>4. CASE Copy(w)
  <2> DEFINE c == contPtr[me.susp]
             m == [me EXCEPT !.pc = "pushFree", !.kind = "cont", !.slot = c,
                             !.cont = c, !.state = content[c], !.nxt = Invalid]
  <2>1. me.pc = "copy" /\ me.op = "resume" /\ c \in allocated
    BY <1>1, <1>4 DEF Copy, At, LocalOK, ResumeOK
  <2>2. local' = [local EXCEPT ![w] = m]
    BY <1>4, <2>1 DEF Copy
  <2>3. m.pc = "pushFree" /\ m.op = "resume" /\ m.slot = c /\ m.susp = me.susp
    BY <1>1, <2>1 DEF Local
  <2> HIDE DEF m
  <2>4. \A s \in Slots : Holds(me, s) => Holds(m, s)
    BY <2>1, <2>3 DEF Holds
  <2> QED
    BY <1>2, <2>2, <2>4, OnlyLocalKept
<1>5. CASE Uncount(w)
  <2> DEFINE m == [me EXCEPT !.pc = "pushFree", !.kind = "susp", !.slot = me.susp,
                             !.cont = Invalid]
  <2>1. me.pc = "uncount"
    BY <1>5 DEF Uncount, At
  <2>2. CASE me.kind = "cont" /\ me.op = "resume"
    <3>1. local' = [local EXCEPT ![w] = m]
      BY <1>5, <2>2 DEF Uncount
    <3>2. m.pc = "pushFree" /\ m.op = "resume" /\ m.slot = me.susp /\ m.susp = me.susp
      BY <1>1, <2>2 DEF Local
    <3> HIDE DEF m
    <3>3. \A s \in Slots : Holds(me, s) => Holds(m, s)
      BY <2>1, <3>2 DEF Holds
    <3> QED
      BY <1>2, <3>1, <3>3, OnlyLocalKept
  <2>3. CASE ~ (me.kind = "cont" /\ me.op = "resume")
    <3>1. \A s \in Slots : ~ Holds(me, s)
      BY <2>1, <2>3 DEF Holds
    <3>2. local' = [local EXCEPT ![w] = Idle]
      BY <1>5, <2>3 DEF Uncount
    <3> QED
      BY <1>2, <3>1, <3>2, OnlyLocalKept
  <2> QED
    BY <2>2, <2>3
<1> QED
  BY <1>3, <1>4, <1>5

LEMMA PushFreeKept ==
  ASSUME PoolInv, NoLostSlot, NEW w \in Workers, PushFree(w)
  PROVE  NoLostSlot'
<1> DEFINE me == local[w]
           s == me.slot
           m == [me EXCEPT !.pc = "pushLoad"]
<1>1. /\ me \in Local /\ me.pc = "pushFree" /\ s \in SlotsOf(me.kind) /\ s \in allocated
      /\ me.kind = "susp" => status[s] = "CLAIMED"
      /\ me.kind \in Kinds /\ Holds(me, s)
  BY DEF PoolInv, Types, PushFree, At, LocalOK, PushOK, Pushing, Local, Holds
<1>2. /\ local' = [local EXCEPT ![w] = m] /\ free' = free
      /\ contPtr' = IF me.kind = "susp" THEN [contPtr EXCEPT ![s] = Invalid] ELSE contPtr
      /\ status' = IF me.kind = "susp" THEN [status EXCEPT ![s] = "FREE"] ELSE status
  BY <1>1 DEF PushFree
<1>3. m.pc = "pushLoad" /\ m.op = me.op /\ m.slot = s /\ m.susp = me.susp
  BY <1>1 DEF Local
<1>4. local'[w] = m /\ \A v \in Workers : v # w => local'[v] = local[v]
  BY <1>2 DEF PoolInv, Types
<1> HIDE DEF m
<1>5. \A t \in Slots : Holds(me, t) => Holds(local[w], t)'
  BY <1>1, <1>3, <1>4 DEF Holds
<1>6. s \in Slots /\ ~ Saved(s)
  BY <1>1, SlotFacts DEF PoolInv, NoSharedSlot
<1>7. \A t \in Susps : t # s => status'[t] = status[t] /\ contPtr'[t] = contPtr[t]
  BY <1>2 DEF PoolInv, Types
<1>8. \A t \in Slots : Saved(t) => Saved(t)'
  BY <1>6, <1>7 DEF Saved, Parked
<1>9. \A t \in Slots : OnList(t) => OnList(t)'
  BY <1>2 DEF OnList
<1>10. \A t \in Susps : contPtr'[t] = contPtr[t] \/ Holds(me, t)
  BY <1>1, <1>7
<1> QED
  BY <1>4, <1>5, <1>8, <1>9, <1>10, StillKept

(* A slot taken off its list is held, and the slot pushed is on its list.  *)
LEMMA PopCasKept ==
  ASSUME PoolInv, NoLostSlot, NEW w \in Workers, PopCas(w)
  PROVE  NoLostSlot'
<1> DEFINE me == local[w]
           k == me.kind
           s == me.snap.index
           list == free[k]
           m == [me EXCEPT !.pc = "mark", !.slot = s]
<1>1. /\ me \in Local /\ me.pc = "popCas" /\ k \in Kinds /\ head[k] = me.snap
      /\ s \in SlotsOf(k) /\ s \in Slots
  BY SlotFacts DEF PoolInv, Types, PopCas, At, LocalOK, PopOK, Popping, Local
<1>2. list \in Seq(Slots) /\ Len(list) >= 1 /\ list[1] = s
  BY <1>1, HeadOfList DEF PoolInv, Types
<1>3. /\ local' = [local EXCEPT ![w] = m] /\ UNCHANGED <<status, contPtr>>
      /\ free' = [free EXCEPT ![k] = Tail(list)]
  BY DEF PopCas
<1>4. m.pc = "mark" /\ m.slot = s /\ m.kind = k /\ m.cont = me.cont
  BY <1>1 DEF Local
<1>5. local'[w] = m /\ \A v \in Workers : v # w => local'[v] = local[v]
  BY <1>3 DEF PoolInv, Types
<1> HIDE DEF m
<1>6. \A t \in Slots : Holds(me, t) \/ t = s => Holds(local[w], t)'
  BY <1>1, <1>4, <1>5 DEF Holds
<1>7. \A t \in Slots : OnList(t) => OnList(t)' \/ t = s
  <2> SUFFICES ASSUME NEW kind \in Kinds, NEW n \in DOMAIN free[kind], free[kind][n] # s
               PROVE  \E i \in DOMAIN free'[kind] : free'[kind][i] = free[kind][n]
    BY DEF OnList
  <2>1. CASE kind = k
    <3>1. n \in 1 .. Len(list) /\ n # 1 /\ Len(list) \in Nat
      BY <1>2, <2>1
    <3>2. /\ Tail(list) \in Seq(Slots) /\ Len(Tail(list)) = Len(list) - 1
          /\ \A i \in 1 .. Len(list) - 1 : Tail(list)[i] = list[i + 1]
      BY <1>2
    <3>3. n - 1 \in DOMAIN Tail(list) /\ Tail(list)[n - 1] = list[n]
      BY <3>1, <3>2
    <3> QED
      BY <1>1, <1>3, <2>1, <3>3 DEF PoolInv, Types
  <2>2. CASE kind # k
    BY <1>3, <2>2 DEF PoolInv, Types
  <2> QED
    BY <2>1, <2>2
<1>8. \A t \in Slots : Saved(t) => Saved(t)'
  BY <1>3 DEF Saved, Parked
<1>9. \A t \in Susps : contPtr'[t] = contPtr[t]
  BY <1>3
<1> QED
  BY <1>5, <1>6, <1>7, <1>8, <1>9, StillKept

LEMMA PushCasKept ==
  ASSUME PoolInv, NoLostSlot, NEW w \in Workers, PushCas(w)
  PROVE  NoLostSlot'
<1> DEFINE me == local[w]
           k == me.kind
           s == me.slot
           list == free[k]
           m == [me EXCEPT !.pc = "uncount"]
<1>1. me \in Local /\ me.pc = "pushCas" /\ k \in Kinds /\ s \in SlotsOf(k) /\ s \in Slots
      /\ (k = "susp" => s = me.susp)
  BY SlotFacts DEF PoolInv, Types, PushCas, At, LocalOK, PushOK, Pushing, Local
<1>2. list \in Seq(Slots)
  BY <1>1 DEF PoolInv, Types
<1>3. /\ local' = [local EXCEPT ![w] = m] /\ UNCHANGED <<status, contPtr>>
      /\ free' = [free EXCEPT ![k] = <<s>> \o list]
  BY DEF PushCas
<1>4. m.pc = "uncount" /\ m.op = me.op /\ m.kind = k /\ m.susp = me.susp
  BY <1>1 DEF Local
<1>5. local'[w] = m /\ \A v \in Workers : v # w => local'[v] = local[v]
  BY <1>3 DEF PoolInv, Types
<1> HIDE DEF m
<1>6. \A t \in Slots : OnList(t) \/ t = s => OnList(t)'
  <2>1. free'[k] = <<s>> \o list /\ \A kind \in Kinds : kind # k => free'[kind] = free[kind]
    BY <1>1, <1>3 DEF PoolInv, Types
  <2>2. /\ 1 \in DOMAIN (<<s>> \o list) /\ (<<s>> \o list)[1] = s
        /\ \A n \in DOMAIN list : /\ n + 1 \in DOMAIN (<<s>> \o list)
                                  /\ (<<s>> \o list)[n + 1] = list[n]
    BY <1>1, <1>2
  <2>3. ASSUME NEW t \in Slots, NEW kind \in Kinds, NEW n \in DOMAIN free[kind],
               free[kind][n] = t
        PROVE  \E i \in DOMAIN free'[kind] : free'[kind][i] = t
    <3>1. CASE kind # k
      BY <2>1, <2>3, <3>1
    <3>2. CASE kind = k
      <4>1. n + 1 \in DOMAIN free'[k] /\ free'[k][n + 1] = t
        BY <2>1, <2>2, <2>3, <3>2
      <4> QED
        BY <3>2, <4>1
    <3> QED
      BY <3>1, <3>2
  <2>4. \A t \in Slots : OnList(t) => OnList(t)'
    BY <2>3 DEF OnList
  <2>5. \E i \in DOMAIN free'[k] : free'[k][i] = s
    BY <2>1, <2>2
  <2>6. \A t \in Slots : t = s => OnList(t)'
    BY <1>1, <2>5 DEF OnList
  <2> QED
    BY <2>4, <2>6
<1>7. \A t \in Slots : Holds(me, t) => Holds(local[w], t)' \/ t = s
  BY <1>1, <1>4, <1>5 DEF Holds, Kinds
<1>8. \A t \in Slots : Saved(t) => Saved(t)'
  BY <1>3 DEF Saved, Parked
<1>9. \A t \in Susps : contPtr'[t] = contPtr[t]
  BY <1>3
<1> QED
  BY <1>5, <1>6, <1>7, <1>8, <1>9, StillKept

(* Every slot is free, parked or in the hands of a thread: no failed park, *)
(* late resume or lost race drops one.                                     *)
THEOREM SlotsNotLost == Spec => []NoLostSlot
<1>1. Init => NoLostSlot
  <2> SUFFICES ASSUME Init, NEW s \in Slots PROVE OnList(s)
    BY DEF NoLostSlot
  <2>1. PICK kind \in Kinds : s \in SlotsOf(kind)
    BY SlotFacts
  <2>2. s = <<kind, s[2]>> /\ s[2] \in 1 .. Length(kind)
    BY <2>1 DEF SlotsOf, Length
  <2>3. free[kind] = [n \in 1 .. Length(kind) |-> <<kind, n>>]
    BY DEF Init
  <2> QED
    BY <2>2, <2>3 DEF OnList
<1>2. PoolInv /\ NoLostSlot /\ [Next]_vars => NoLostSlot'
  <2> SUFFICES ASSUME PoolInv, NoLostSlot, [Next]_vars PROVE NoLostSlot'
    OBVIOUS
  <2>1. ASSUME NEW w \in Workers, Step(w) PROVE NoLostSlot'
    BY <2>1, CallKept, PopLoadKept, LoopKept, MarkKept, PublishKept, ClaimKept, ResumeKept,
       PushFreeKept, PopCasKept, PushCasKept DEF Step
  <2>2. CASE UNCHANGED vars
    BY <2>2 DEF vars, memory, NoLostSlot, OnList, Saved, Parked, Holds
  <2> QED
    BY <2>1, <2>2 DEF Next
<1> QED
  BY <1>1, <1>2, PoolInvariant, PTL DEF Spec

-----------------------------------------------------------------------------
(* Parking and resuming implement a set of parked worker states.  Where    *)
(* the state is: in the locals of the thread that parks it until MarkCont, *)
(* in the continuation until Copy, in the locals of the thread that takes  *)
(* it up after.                                                            *)
StateOK(m) ==
  /\ m.pc = "idle" => m.op # "resume"
  /\ m.pc \in {"popLoad", "popNext", "popCas", "mark"} =>
       IF m.kind = "cont" THEN m.state \in States ELSE content[m.cont] \in States
  /\ m.pc = "publish" => content[m.cont] \in States
  /\ m.pc \in {"test", "claim"} => m.state = NoState
  /\ m.pc = "copy" => content[contPtr[m.susp]] \in States
  /\ m.op = "resume" /\ m.pc \in Pushing \cup {"uncount"} => m.state \in States

StateInv == /\ \A w \in Workers : StateOK(local[w])
            /\ \A t \in Susps : Parked(t) => content[contPtr[t]] \in States

(* The state of the abstract specification.                                *)
HandOf(m) == IF m.op # "resume" THEN NoState
             ELSE IF m.pc = "copy" THEN content[contPtr[m.susp]]
             ELSE m.state
ParkedIn(t) == IF status[t] = "PARKED" THEN content[contPtr[t]] ELSE NoState
parkedMap == [s \in Susps |-> ParkedIn(s)]
handMap == [w \in Workers |-> HandOf(local[w])]

(* Nothing of a slot is written.                                           *)
Untouched(s) == Same(s) /\ (s \in Conts => content'[s] = content[s])

(* What another thread knows of its state stays, and so does the state.    *)
LEMMA OthersState ==
  ASSUME PoolInv, StateInv, NEW v \in Workers, local'[v] = local[v],
         \A s \in Slots : Holds(local[v], s) => Untouched(s)
  PROVE  StateOK(local[v])' /\ HandOf(local[v])' = HandOf(local[v])
<1> DEFINE m == local[v]
<1>1. m \in Local /\ LocalOK(m) /\ StateOK(m) /\ m' = m
  BY DEF PoolInv, Types, StateInv
<1>2. m.pc \in {"popLoad", "popNext", "popCas", "mark"} /\ m.kind # "cont" =>
        content'[m.cont] = content[m.cont]
  BY <1>1, SlotFacts DEF LocalOK, PopOK, Holds, Untouched, Local
<1>3. m.pc = "publish" => content'[m.cont] = content[m.cont]
  BY <1>1, SlotFacts DEF LocalOK, PopOK, Holds, Untouched
<1>4. m.pc = "copy" => content'[contPtr'[m.susp]] = content[contPtr[m.susp]]
  <2> SUFFICES ASSUME m.pc = "copy"
               PROVE  content'[contPtr'[m.susp]] = content[contPtr[m.susp]]
    OBVIOUS
  <2>1. m.susp \in Susps /\ contPtr[m.susp] \in Conts
    BY <1>1 DEF LocalOK, ResumeOK
  <2>2. Holds(m, m.susp) /\ Holds(m, contPtr[m.susp])
    BY DEF Holds
  <2>3. Untouched(m.susp) /\ Untouched(contPtr[m.susp])
    BY <2>1, <2>2, SlotFacts
  <2> QED
    BY <2>1, <2>3 DEF Untouched, Same
<1>5. StateOK(local[v])'
  BY <1>1, <1>2, <1>3, <1>4 DEF StateOK
<1>6. HandOf(local[v])' = HandOf(local[v])
  BY <1>1, <1>4 DEF HandOf
<1> QED
  BY <1>5, <1>6

(* A step that writes only slots its thread holds and neither parks nor    *)
(* claims: no parked state changes, nor the state of another thread.       *)
LEMMA QuietStep ==
  ASSUME PoolInv, StateInv, NEW w \in Workers,
         \A v \in Workers : v # w => local'[v] = local[v],
         \A s \in Slots : ~ Holds(local[w], s) => Untouched(s),
         \A t \in Susps : Same(t) \/ status'[t] # "PARKED",
         StateOK(local[w])'
  PROVE  /\ StateInv'
         /\ parkedMap' = parkedMap
         /\ \A v \in Workers : v # w => HandOf(local[v])' = HandOf(local[v])
<1>1. ASSUME NEW v \in Workers, v # w
      PROVE  StateOK(local[v])' /\ HandOf(local[v])' = HandOf(local[v])
  <2>1. \A s \in Slots : Holds(local[v], s) => Untouched(s)
    BY <1>1 DEF PoolInv, NoSharedSlot
  <2> QED
    BY <1>1, <2>1, OthersState
<1>2. ASSUME NEW t \in Susps, Parked(t)
      PROVE  status'[t] = status[t] /\ content'[contPtr'[t]] = content[contPtr[t]]
  <2>1. contPtr[t] \in Conts
    BY <1>2 DEF PoolInv, ParkedOK
  <2>2. Saved(t) /\ Saved(contPtr[t]) /\ t \in Slots /\ contPtr[t] \in Slots
    BY <1>2, <2>1, SlotFacts DEF Saved
  <2>3. Untouched(t) /\ Untouched(contPtr[t])
    BY <2>2 DEF PoolInv, NoSharedSlot
  <2> QED
    BY <1>2, <2>1, <2>3 DEF Untouched, Same
<1>3. ASSUME NEW t \in Susps PROVE Parked(t)' = Parked(t)
  BY <1>2, <1>3 DEF Parked, Same
<1>4. ASSUME NEW t \in Susps PROVE ParkedIn(t)' = ParkedIn(t)
  BY <1>2, <1>3 DEF ParkedIn, Parked
<1>5. \A t \in Susps : Parked(t)' => content'[contPtr'[t]] \in States
  BY <1>2, <1>3 DEF StateInv
<1>6. parkedMap' = parkedMap
  BY <1>4 DEF parkedMap
<1>7. StateInv'
  BY <1>1, <1>5 DEF StateInv
<1> QED
  BY <1>1, <1>6, <1>7

(* Such a step that leaves the state its thread has in hand stutters.      *)
LEMMA QuietStutter ==
  ASSUME PoolInv, StateInv, NEW w \in Workers,
         \A v \in Workers : v # w => local'[v] = local[v],
         \A s \in Slots : ~ Holds(local[w], s) => Untouched(s),
         \A t \in Susps : Same(t) \/ status'[t] # "PARKED",
         StateOK(local[w])', HandOf(local[w])' = HandOf(local[w])
  PROVE  StateInv' /\ parkedMap' = parkedMap /\ handMap' = handMap
<1>1. /\ StateInv' /\ parkedMap' = parkedMap
      /\ \A v \in Workers : v # w => HandOf(local[v])' = HandOf(local[v])
  BY QuietStep
<1>2. handMap' = handMap
  BY <1>1 DEF handMap
<1> QED
  BY <1>1, <1>2

(* The steps that write locals only.                                       *)
LEMMA LocalStutter ==
  ASSUME PoolInv, StateInv, NEW w \in Workers, NEW m, local' = [local EXCEPT ![w] = m],
         UNCHANGED <<allocated, next, status, contPtr, content>>,
         StateOK(m), HandOf(m) = HandOf(local[w])
  PROVE  StateInv' /\ parkedMap' = parkedMap /\ handMap' = handMap
<1>1. local'[w] = m /\ \A v \in Workers : v # w => local'[v] = local[v]
  BY DEF PoolInv, Types
<1>2. \A s : Untouched(s) /\ Same(s)
  BY DEF Untouched, Same
<1>3. StateOK(local[w])'
  BY <1>1 DEF StateOK
<1>4. HandOf(local[w])' = HandOf(local[w])
  BY <1>1 DEF HandOf
<1> QED
  BY <1>1, <1>2, <1>3, <1>4, QuietStutter

LEMMA IdleState == StateOK(Idle) /\ HandOf(Idle) = NoState
  BY DEF Idle, StateOK, HandOf, Pushing

LEMMA CallState ==
  ASSUME PoolInv, StateInv, NEW w \in Workers, ParkCall(w) \/ ResumeCall(w)
  PROVE  StateInv' /\ parkedMap' = parkedMap /\ handMap' = handMap
<1>1. HandOf(local[w]) = NoState
  BY DEF ParkCall, ResumeCall, At, StateInv, StateOK, HandOf
<1>2. UNCHANGED <<allocated, next, status, contPtr, content>>
  BY DEF ParkCall, ResumeCall, memory
<1>3. CASE ParkCall(w)
  <2>1. PICK x \in States : local' = [local EXCEPT ![w] =
          [Idle EXCEPT !.pc = "popLoad", !.op = "park", !.state = x]]
    BY <1>3 DEF ParkCall
  <2> DEFINE m == [Idle EXCEPT !.pc = "popLoad", !.op = "park", !.state = x]
  <2>2. m.pc = "popLoad" /\ m.op = "park" /\ m.kind = "cont" /\ m.state = x
    BY DEF Idle
  <2>3. StateOK(m) /\ HandOf(m) = NoState
    BY <2>2 DEF StateOK, HandOf, Pushing
  <2> QED
    BY <1>1, <1>2, <2>1, <2>3, LocalStutter
<1>4. CASE ResumeCall(w)
  <2>1. PICK s \in handed : local' = [local EXCEPT ![w] =
          [Idle EXCEPT !.pc = "test", !.op = "resume", !.susp = s]]
    BY <1>4 DEF ResumeCall
  <2> DEFINE m == [Idle EXCEPT !.pc = "test", !.op = "resume", !.susp = s]
  <2>2. m.pc = "test" /\ m.op = "resume" /\ m.state = NoState
    BY DEF Idle
  <2>3. StateOK(m) /\ HandOf(m) = NoState
    BY <2>2 DEF StateOK, HandOf, Pushing
  <2> QED
    BY <1>1, <1>2, <2>1, <2>3, LocalStutter
<1> QED
  BY <1>3, <1>4

LEMMA PopState ==
  ASSUME PoolInv, StateInv, NEW w \in Workers,
         PopLoad(w) \/ PopNext(w) \/ PopCas(w) \/ PopCasFails(w)
  PROVE  StateInv' /\ parkedMap' = parkedMap /\ handMap' = handMap
<1> DEFINE me == local[w]
<1>1. /\ me \in Local /\ StateOK(me) /\ me.op = "park"
      /\ me.pc \in {"popLoad", "popNext", "popCas"}
  BY DEF PoolInv, Types, StateInv, LocalOK, PopOK, PopLoad, PopNext, PopCas, PopCasFails, At
<1>2. UNCHANGED <<allocated, next, status, contPtr, content>>
  BY DEF PopLoad, PopNext, PopCas, PopCasFails, memory
<1>3. HandOf(me) = NoState
  BY <1>1 DEF HandOf
<1>4. CASE local' = [local EXCEPT ![w] = Idle]
  BY <1>2, <1>3, <1>4, IdleState, LocalStutter
<1>5. ASSUME NEW m, local' = [local EXCEPT ![w] = m], m.op = "park",
             \/ m.pc = "pushFree"
             \/ /\ m.pc \in {"popLoad", "popNext", "popCas", "mark"}
                /\ m.kind = me.kind /\ m.state = me.state /\ m.cont = me.cont
      PROVE  StateInv' /\ parkedMap' = parkedMap /\ handMap' = handMap
  <2>1. StateOK(m) /\ HandOf(m) = NoState
    BY <1>1, <1>5 DEF StateOK, HandOf, Pushing
  <2> QED
    BY <1>2, <1>3, <1>5, <2>1, LocalStutter
<1>6. CASE PopLoad(w)
  <2> DEFINE h == head[me.kind]
             m1 == [me EXCEPT !.pc = "popNext", !.snap = h]
             m2 == [me EXCEPT !.pc = "pushFree", !.kind = "cont", !.slot = me.cont]
  <2>1. \/ local' = [local EXCEPT ![w] = m1]
        \/ local' = [local EXCEPT ![w] = m2]
        \/ local' = [local EXCEPT ![w] = Idle]
    BY <1>6 DEF PopLoad
  <2>2. /\ m1.op = "park" /\ m1.pc = "popNext" /\ m1.kind = me.kind
        /\ m1.state = me.state /\ m1.cont = me.cont
        /\ m2.op = "park" /\ m2.pc = "pushFree"
    BY <1>1 DEF Local
  <2> HIDE DEF m1, m2
  <2> QED
    BY <1>4, <1>5, <2>1, <2>2
<1>7. CASE PopNext(w)
  <2> DEFINE m == [me EXCEPT !.pc = "popCas", !.nxt = next[me.snap.index]]
  <2>1. local' = [local EXCEPT ![w] = m]
    BY <1>7 DEF PopNext, PoolInv, Types
  <2>2. /\ m.op = "park" /\ m.pc = "popCas" /\ m.kind = me.kind
        /\ m.state = me.state /\ m.cont = me.cont
    BY <1>1 DEF Local
  <2> HIDE DEF m
  <2> QED
    BY <1>5, <2>1, <2>2
<1>8. CASE PopCas(w)
  <2> DEFINE m == [me EXCEPT !.pc = "mark", !.slot = me.snap.index]
  <2>1. local' = [local EXCEPT ![w] = m]
    BY <1>8 DEF PopCas
  <2>2. /\ m.op = "park" /\ m.pc = "mark" /\ m.kind = me.kind
        /\ m.state = me.state /\ m.cont = me.cont
    BY <1>1 DEF Local
  <2> HIDE DEF m
  <2> QED
    BY <1>5, <2>1, <2>2
<1>9. CASE PopCasFails(w)
  <2> DEFINE m == [me EXCEPT !.pc = "popLoad"]
  <2>1. local' = [local EXCEPT ![w] = m]
    BY <1>9 DEF PopCasFails
  <2>2. /\ m.op = "park" /\ m.pc = "popLoad" /\ m.kind = me.kind
        /\ m.state = me.state /\ m.cont = me.cont
    BY <1>1 DEF Local
  <2> HIDE DEF m
  <2> QED
    BY <1>5, <2>1, <2>2
<1> QED
  BY <1>6, <1>7, <1>8, <1>9

(* The state is saved in the continuation; then the suspension is filled.  *)
LEMMA MarkState ==
  ASSUME PoolInv, StateInv, NEW w \in Workers, MarkCont(w) \/ MarkSusp(w)
  PROVE  StateInv' /\ parkedMap' = parkedMap /\ handMap' = handMap
<1> DEFINE me == local[w]
           s == me.slot
<1>1. /\ me \in Local /\ StateOK(me) /\ me.op = "park" /\ me.pc = "mark"
      /\ s \in SlotsOf(me.kind) /\ s \in Slots /\ Holds(me, s) /\ HandOf(me) = NoState
      /\ me.kind = "susp" => me.cont \in Conts
  BY SlotFacts DEF PoolInv, Types, StateInv, LocalOK, PopOK, MarkCont, MarkSusp, At, Holds,
     HandOf, Local
<1>2. CASE MarkCont(w)
  <2> DEFINE m == [me EXCEPT !.pc = "popLoad", !.kind = "susp", !.cont = s, !.slot = Invalid]
  <2>1. /\ me.kind = "cont" /\ local' = [local EXCEPT ![w] = m]
        /\ allocated' = allocated \cup {s} /\ next' = [next EXCEPT ![s] = Invalid]
        /\ content' = [content EXCEPT ![s] = me.state]
        /\ status' = status /\ contPtr' = contPtr
    BY <1>2 DEF MarkCont
  <2>2. m.pc = "popLoad" /\ m.op = "park" /\ m.kind = "susp" /\ m.cont = s
    BY <1>1 DEF Local
  <2>3. local'[w] = m /\ \A v \in Workers : v # w => local'[v] = local[v]
    BY <2>1 DEF PoolInv, Types
  <2> HIDE DEF m
  <2>4. s \in Conts /\ me.state \in States
    BY <1>1, <2>1, SlotFacts DEF StateOK
  <2>5. content'[s] = me.state
    BY <2>1, <2>4 DEF PoolInv, Types
  <2>6. StateOK(local[w])' /\ HandOf(local[w])' = HandOf(me)
    BY <1>1, <2>2, <2>3, <2>4, <2>5 DEF StateOK, HandOf, Pushing
  <2>7. \A t \in Slots : t # s => Untouched(t)
    BY <2>1 DEF Untouched, Same, PoolInv, Types
  <2>8. \A t \in Susps : Same(t)
    BY <2>4, <2>7, SlotFacts DEF Untouched
  <2>9. \A t \in Slots : ~ Holds(me, t) => Untouched(t)
    BY <1>1, <2>7
  <2> QED
    BY <2>3, <2>6, <2>8, <2>9, QuietStutter
<1>3. CASE MarkSusp(w)
  <2> DEFINE m == [me EXCEPT !.pc = "publish", !.susp = s, !.slot = Invalid]
  <2>1. /\ me.kind = "susp" /\ local' = [local EXCEPT ![w] = m]
        /\ allocated' = allocated \cup {s} /\ next' = [next EXCEPT ![s] = Invalid]
        /\ status' = [status EXCEPT ![s] = "CLAIMED"]
        /\ contPtr' = [contPtr EXCEPT ![s] = me.cont]
        /\ content' = content
    BY <1>3 DEF MarkSusp
  <2>2. m.pc = "publish" /\ m.op = "park" /\ m.kind = "susp" /\ m.cont = me.cont
    BY <1>1, <2>1 DEF Local
  <2>3. local'[w] = m /\ \A v \in Workers : v # w => local'[v] = local[v]
    BY <2>1 DEF PoolInv, Types
  <2> HIDE DEF m
  <2>4. s \in Susps
    BY <1>1, <2>1, SlotFacts
  <2>5. StateOK(local[w])' /\ HandOf(local[w])' = HandOf(me)
    BY <1>1, <2>1, <2>2, <2>3 DEF StateOK, HandOf, Pushing
  <2>6. \A t \in Slots : t # s => Untouched(t)
    BY <2>1 DEF Untouched, Same, PoolInv, Types
  <2>7. status'[s] = "CLAIMED"
    BY <2>1, <2>4 DEF PoolInv, Types
  <2>8. \A t \in Susps : Same(t) \/ status'[t] # "PARKED"
    BY <2>6, <2>7, SlotFacts DEF Untouched
  <2>9. \A t \in Slots : ~ Holds(me, t) => Untouched(t)
    BY <1>1, <2>6
  <2> QED
    BY <2>3, <2>5, <2>8, <2>9, QuietStutter
<1> QED
  BY <1>2, <1>3

LEMMA TestState ==
  ASSUME PoolInv, StateInv, NEW w \in Workers, TestFlag(w)
  PROVE  StateInv' /\ parkedMap' = parkedMap /\ handMap' = handMap
<1> DEFINE me == local[w]
           m == [me EXCEPT !.pc = "claim"]
<1>1. me \in Local /\ me.pc = "test" /\ me.state = NoState
  BY DEF PoolInv, Types, StateInv, StateOK, TestFlag, At
<1>2. local' = [local EXCEPT ![w] = m] \/ local' = [local EXCEPT ![w] = Idle]
  BY DEF TestFlag, PoolInv, Types
<1>3. m.pc = "claim" /\ m.state = NoState
  BY <1>1 DEF Local
<1> HIDE DEF m
<1>4. StateOK(m) /\ HandOf(m) = NoState /\ HandOf(me) = NoState
  BY <1>1, <1>3 DEF StateOK, HandOf, Pushing
<1>5. UNCHANGED <<allocated, next, status, contPtr, content>>
  BY DEF TestFlag, memory
<1> QED
  BY <1>2, <1>4, <1>5, IdleState, LocalStutter

(* Copy takes the state over to the locals as it was saved.                *)
LEMMA CopyState ==
  ASSUME PoolInv, StateInv, NEW w \in Workers, Copy(w)
  PROVE  StateInv' /\ parkedMap' = parkedMap /\ handMap' = handMap
<1> DEFINE me == local[w]
           c == contPtr[me.susp]
           m == [me EXCEPT !.pc = "pushFree", !.kind = "cont", !.slot = c,
                           !.cont = c, !.state = content[c], !.nxt = Invalid]
<1>1. /\ me \in Local /\ me.pc = "copy" /\ me.op = "resume" /\ c \in allocated
      /\ content[c] \in States
  BY DEF PoolInv, Types, StateInv, StateOK, Copy, At, LocalOK, ResumeOK
<1>2. local' = [local EXCEPT ![w] = m]
  BY <1>1 DEF Copy
<1>3. m.pc = "pushFree" /\ m.op = "resume" /\ m.state = content[c]
  BY <1>1 DEF Local
<1> HIDE DEF m
<1>4. StateOK(m) /\ HandOf(m) = HandOf(me)
  BY <1>1, <1>3 DEF StateOK, HandOf, Pushing
<1>5. UNCHANGED <<allocated, next, status, contPtr, content>>
  BY DEF Copy, memory
<1> QED
  BY <1>2, <1>4, <1>5, LocalStutter

LEMMA PushState ==
  ASSUME PoolInv, StateInv, NEW w \in Workers,
         PushFree(w) \/ PushLoad(w) \/ PushCas(w) \/ PushCasFails(w)
  PROVE  StateInv' /\ parkedMap' = parkedMap /\ handMap' = handMap
<1> DEFINE me == local[w]
           s == me.slot
<1>1. /\ me \in Local /\ StateOK(me) /\ me.pc \in Pushing /\ s \in SlotsOf(me.kind)
      /\ s \in Slots /\ me.kind \in Kinds /\ Holds(me, s)
      /\ me.pc = "pushFree" => /\ s \in allocated
                               /\ me.kind = "susp" => status[s] = "CLAIMED"
  BY SlotFacts DEF PoolInv, Types, StateInv, LocalOK, PushOK, PushFree, PushLoad, PushCas,
     PushCasFails, At, Pushing, Holds, Local
<1>2. \A m : /\ m.op = me.op /\ m.state = me.state
             /\ m.pc \in Pushing \cup {"uncount"}
             => StateOK(m) /\ HandOf(m) = HandOf(me)
  BY <1>1 DEF StateOK, HandOf, Pushing
<1>3. ASSUME NEW m, local' = [local EXCEPT ![w] = m], m.op = me.op, m.state = me.state,
             m.pc \in Pushing \cup {"uncount"},
             \A t \in Slots : t # s => Untouched(t),
             s \in Susps => Same(s) \/ status'[s] # "PARKED"
      PROVE  StateInv' /\ parkedMap' = parkedMap /\ handMap' = handMap
  <2>1. local'[w] = m /\ \A v \in Workers : v # w => local'[v] = local[v]
    BY <1>3 DEF PoolInv, Types
  <2>2. StateOK(local[w])' /\ HandOf(local[w])' = HandOf(me)
    BY <1>1, <1>3, <2>1 DEF StateOK, HandOf, Pushing
  <2>3. \A t \in Slots : ~ Holds(me, t) => Untouched(t)
    BY <1>1, <1>3
  <2>4. \A t \in Susps : Same(t) \/ status'[t] # "PARKED"
    BY <1>3, SlotFacts DEF Untouched
  <2> QED
    BY <2>1, <2>2, <2>3, <2>4, QuietStutter
<1>4. CASE PushFree(w)
  <2> DEFINE m == [me EXCEPT !.pc = "pushLoad"]
  <2>1. /\ local' = [local EXCEPT ![w] = m]
        /\ allocated' = allocated \ {s} /\ next' = [next EXCEPT ![s] = Invalid]
        /\ content' = IF me.kind = "cont" THEN [content EXCEPT ![s] = NoState] ELSE content
        /\ contPtr' = IF me.kind = "susp" THEN [contPtr EXCEPT ![s] = Invalid] ELSE contPtr
        /\ status' = IF me.kind = "susp" THEN [status EXCEPT ![s] = "FREE"] ELSE status
    BY <1>1, <1>4 DEF PushFree, At
  <2>2. m.op = me.op /\ m.state = me.state /\ m.pc \in Pushing \cup {"uncount"}
    BY <1>1 DEF Local, Pushing
  <2> HIDE DEF m
  <2>3. \A t \in Slots : t # s => Untouched(t)
    BY <2>1 DEF Untouched, Same, PoolInv, Types
  <2>4. s \in Susps => status'[s] = "FREE"
    BY <1>1, <2>1, SlotFacts DEF PoolInv, Types
  <2> QED
    BY <1>3, <2>1, <2>2, <2>3, <2>4
<1>5. CASE PushLoad(w)
  <2> DEFINE m == [me EXCEPT !.pc = "pushCas", !.snap = head[me.kind]]
  <2>1. /\ local' = [local EXCEPT ![w] = m]
        /\ next' = [next EXCEPT ![s] = head[me.kind].index]
        /\ UNCHANGED <<allocated, status, contPtr, content>>
    BY <1>5 DEF PushLoad
  <2>2. m.op = me.op /\ m.state = me.state /\ m.pc \in Pushing \cup {"uncount"}
    BY <1>1 DEF Local, Pushing
  <2> HIDE DEF m
  <2>3. \A t \in Slots : t # s => Untouched(t)
    BY <2>1 DEF Untouched, Same, PoolInv, Types
  <2>4. s \in Susps => status'[s] # "PARKED"
    BY <1>1, <2>1 DEF PoolInv, NoSharedSlot, Saved, Parked
  <2> QED
    BY <1>3, <2>1, <2>2, <2>3, <2>4
<1>6. CASE PushCas(w) \/ PushCasFails(w)
  <2>1. PICK m : /\ local' = [local EXCEPT ![w] = m]
                 /\ m.op = me.op /\ m.state = me.state /\ m.pc \in {"uncount", "pushLoad"}
    <3>1. CASE PushCas(w)
      <4> DEFINE m == [me EXCEPT !.pc = "uncount"]
      <4>1. local' = [local EXCEPT ![w] = m]
        BY <3>1 DEF PushCas
      <4>2. m.op = me.op /\ m.state = me.state /\ m.pc = "uncount"
        BY <1>1 DEF Local
      <4> HIDE DEF m
      <4> QED
        BY <4>1, <4>2
    <3>2. CASE PushCasFails(w)
      <4> DEFINE m == [me EXCEPT !.pc = "pushLoad"]
      <4>1. local' = [local EXCEPT ![w] = m]
        BY <3>2 DEF PushCasFails
      <4>2. m.op = me.op /\ m.state = me.state /\ m.pc = "pushLoad"
        BY <1>1 DEF Local
      <4> HIDE DEF m
      <4> QED
        BY <4>1, <4>2
    <3> QED
      BY <1>6, <3>1, <3>2
  <2>2. UNCHANGED <<allocated, next, status, contPtr, content>>
    BY <1>6 DEF PushCas, PushCasFails, memory
  <2>3. StateOK(m) /\ HandOf(m) = HandOf(me)
    BY <1>2, <2>1 DEF Pushing
  <2> QED
    BY <2>1, <2>2, <2>3, LocalStutter
<1> QED
  BY <1>4, <1>5, <1>6

-----------------------------------------------------------------------------
(* The steps of the abstract specification.                                *)
LEMMA ViewOfWork ==
  /\ Work!Init <=> /\ parkedMap = [s \in Susps |-> NoState]
                   /\ handMap = [w \in Workers |-> NoState]
  /\ \A s, x : Work!Park(s, x) <=> /\ parkedMap[s] = NoState
                                   /\ parkedMap' = [parkedMap EXCEPT ![s] = x]
                                   /\ handMap' = handMap
  /\ \A w, s : Work!Resume(w, s) <=> /\ parkedMap[s] # NoState
                                     /\ handMap[w] = NoState
                                     /\ handMap' = [handMap EXCEPT ![w] = parkedMap[s]]
                                     /\ parkedMap' = [parkedMap EXCEPT ![s] = NoState]
  /\ \A w : Work!Drop(w) <=> /\ handMap[w] # NoState
                             /\ handMap' = [handMap EXCEPT ![w] = NoState]
                             /\ parkedMap' = parkedMap
  BY DEF parkedMap, handMap, ParkedIn, HandOf, At, Work!Init, Work!Park, Work!Resume,
     Work!Drop

(* Publish parks the state its continuation holds.                         *)
LEMMA PublishParks ==
  ASSUME PoolInv, StateInv, NEW w \in Workers, Publish(w)
  PROVE  StateInv' /\ \E s \in Susps, x \in States : Work!Park(s, x)
<1> DEFINE me == local[w]
           s == me.susp
           c == me.cont
<1>1. /\ me.pc = "publish" /\ me.op = "park" /\ s \in Susps /\ c \in Conts /\ contPtr[s] = c
      /\ status[s] = "CLAIMED" /\ content[c] \in States /\ Holds(me, s)
  BY DEF PoolInv, StateInv, StateOK, Publish, At, LocalOK, PopOK, Holds
<1>2. /\ status' = [status EXCEPT ![s] = "PARKED"]
      /\ local' = [local EXCEPT ![w] = Idle]
      /\ UNCHANGED <<next, allocated, contPtr, content>>
  BY DEF Publish
<1>3. local'[w] = Idle /\ \A v \in Workers : v # w => local'[v] = local[v]
  BY <1>2 DEF PoolInv, Types
<1>4. \A t \in Slots : t # s => Untouched(t)
  BY <1>2 DEF Untouched, Same, PoolInv, Types
<1>5. ASSUME NEW v \in Workers, v # w
      PROVE  StateOK(local[v])' /\ HandOf(local[v])' = HandOf(local[v])
  <2>1. s \in Slots
    BY <1>1, SlotFacts
  <2>2. \A t \in Slots : Holds(local[v], t) => Untouched(t)
    BY <1>1, <1>4, <1>5, <2>1 DEF PoolInv, NoSharedSlot
  <2> QED
    BY <1>3, <1>5, <2>2, OthersState
<1>6. StateOK(local[w])' /\ HandOf(local[w])' = NoState /\ HandOf(me) = NoState
  BY <1>1, <1>3 DEF Idle, StateOK, HandOf, Pushing
<1>7. \A t \in Susps : status'[t] = IF t = s THEN "PARKED" ELSE status[t]
  BY <1>2 DEF PoolInv, Types
<1>8. StateInv'
  <2>1. \A t \in Susps : Parked(t)' => content'[contPtr'[t]] \in States
    BY <1>1, <1>2, <1>7 DEF StateInv, Parked
  <2> QED
    BY <1>5, <1>6, <2>1 DEF StateInv
<1>9. handMap' = handMap
  BY <1>5, <1>6 DEF handMap
<1>10. parkedMap[s] = NoState
  BY <1>1 DEF parkedMap, ParkedIn
<1>11. parkedMap' = [parkedMap EXCEPT ![s] = content[c]]
  <2>1. \A t \in Susps : ParkedIn(t)' = IF t = s THEN content[c] ELSE ParkedIn(t)
    BY <1>1, <1>2, <1>7 DEF ParkedIn
  <2> QED
    BY <1>1, <2>1 DEF parkedMap
<1>12. ASSUME NEW t \in Susps, NEW x \in States, t = s, x = content[c]
       PROVE  Work!Park(t, x)
  <2>1. /\ parkedMap[t] = NoState /\ parkedMap' = [parkedMap EXCEPT ![t] = x]
        /\ handMap' = handMap
    BY <1>9, <1>10, <1>11, <1>12
  <2> QED
    BY <2>1, ViewOfWork
<1> QED
  BY <1>1, <1>8, <1>12

(* Claim takes the state of its suspension up, or nothing.                 *)
LEMMA ClaimResumes ==
  ASSUME PoolInv, StateInv, NEW w \in Workers, Claim(w)
  PROVE  /\ StateInv'
         /\ \/ parkedMap' = parkedMap /\ handMap' = handMap
            \/ \E s \in Susps : Work!Resume(w, s)
<1> DEFINE me == local[w]
           s == me.susp
           m == [me EXCEPT !.pc = "copy"]
<1>1. /\ me \in Local /\ me.pc = "claim" /\ me.op = "resume" /\ s \in Susps
      /\ me.state = NoState /\ HandOf(me) = NoState
  BY DEF PoolInv, Types, StateInv, StateOK, Claim, At, LocalOK, ResumeOK, HandOf
<1>2. CASE status[s] # "PARKED"
  <2>1. local' = [local EXCEPT ![w] = Idle]
        /\ UNCHANGED <<allocated, next, status, contPtr, content>>
    BY <1>2 DEF Claim
  <2> QED
    BY <1>1, <2>1, IdleState, LocalStutter
<1>3. CASE status[s] = "PARKED"
  <2>1. /\ status' = [status EXCEPT ![s] = "CLAIMED"]
        /\ local' = [local EXCEPT ![w] = m]
        /\ UNCHANGED <<next, allocated, contPtr, content>>
    BY <1>3 DEF Claim
  <2>2. Parked(s) /\ content[contPtr[s]] \in States
    BY <1>1, <1>3 DEF Parked, StateInv
  <2>3. m.pc = "copy" /\ m.op = "resume" /\ m.susp = s
    BY <1>1 DEF Local
  <2>4. local'[w] = m /\ \A v \in Workers : v # w => local'[v] = local[v]
    BY <2>1 DEF PoolInv, Types
  <2> HIDE DEF m
  <2>5. \A t \in Slots : t # s => Untouched(t)
    BY <2>1 DEF Untouched, Same, PoolInv, Types
  <2>6. ASSUME NEW v \in Workers, v # w
        PROVE  StateOK(local[v])' /\ HandOf(local[v])' = HandOf(local[v])
    <3>1. s \in Slots /\ Saved(s)
      BY <1>1, <2>2, SlotFacts DEF Saved
    <3>2. \A t \in Slots : Holds(local[v], t) => Untouched(t)
      BY <2>5, <3>1 DEF PoolInv, NoSharedSlot
    <3> QED
      BY <2>4, <2>6, <3>2, OthersState
  <2>7. StateOK(local[w])' /\ HandOf(local[w])' = content[contPtr[s]]
    BY <2>1, <2>2, <2>3, <2>4 DEF StateOK, HandOf, Pushing
  <2>8. \A t \in Susps : status'[t] = IF t = s THEN "CLAIMED" ELSE status[t]
    BY <2>1 DEF PoolInv, Types
  <2>9. StateInv'
    <3>1. \A t \in Susps : Parked(t)' => content'[contPtr'[t]] \in States
      BY <2>1, <2>8 DEF StateInv, Parked
    <3> QED
      BY <2>6, <2>7, <3>1 DEF StateInv
  <2>10. parkedMap[s] = content[contPtr[s]] /\ parkedMap[s] # NoState
    BY <1>1, <1>3, <2>2, StatesAssumption DEF parkedMap, ParkedIn
  <2>11. handMap[w] = NoState
    BY <1>1 DEF handMap
  <2>12. handMap' = [handMap EXCEPT ![w] = parkedMap[s]]
    BY <2>6, <2>7, <2>10 DEF handMap
  <2>13. parkedMap' = [parkedMap EXCEPT ![s] = NoState]
    <3>1. \A t \in Susps : ParkedIn(t)' = IF t = s THEN NoState ELSE ParkedIn(t)
      BY <2>1, <2>8 DEF ParkedIn
    <3> QED
      BY <1>1, <3>1 DEF parkedMap
  <2> QED
    BY <1>1, <2>9, <2>10, <2>11, <2>12, <2>13, ViewOfWork
<1> QED
  BY <1>2, <1>3

(* Its last step drops what a resume had in hand.                          *)
LEMMA UncountDrops ==
  ASSUME PoolInv, StateInv, NEW w \in Workers, Uncount(w)
  PROVE  /\ StateInv'
         /\ \/ parkedMap' = parkedMap /\ handMap' = handMap
            \/ Work!Drop(w)
<1> DEFINE me == local[w]
           m == [me EXCEPT !.pc = "pushFree", !.kind = "susp", !.slot = me.susp,
                           !.cont = Invalid]
<1>1. me \in Local /\ me.pc = "uncount" /\ StateOK(me)
  BY DEF PoolInv, Types, StateInv, Uncount, At
<1>2. UNCHANGED <<allocated, next, status, contPtr, content>>
  BY DEF Uncount
<1>3. CASE me.kind = "cont" /\ me.op = "resume"
  <2>1. local' = [local EXCEPT ![w] = m]
    BY <1>3 DEF Uncount
  <2>2. m.pc = "pushFree" /\ m.op = "resume" /\ m.state = me.state
    BY <1>1, <1>3 DEF Local
  <2> HIDE DEF m
  <2>3. StateOK(m) /\ HandOf(m) = HandOf(me)
    BY <1>1, <1>3, <2>2 DEF StateOK, HandOf, Pushing
  <2> QED
    BY <1>2, <2>1, <2>3, LocalStutter
<1>4. CASE me.op # "resume"
  <2>1. local' = [local EXCEPT ![w] = Idle] /\ HandOf(me) = NoState
    BY <1>4 DEF Uncount, HandOf
  <2> QED
    BY <1>2, <2>1, IdleState, LocalStutter
<1>5. CASE me.kind # "cont" /\ me.op = "resume"
  <2>1. local' = [local EXCEPT ![w] = Idle]
    BY <1>5 DEF Uncount
  <2>2. local'[w] = Idle /\ \A v \in Workers : v # w => local'[v] = local[v]
    BY <2>1 DEF PoolInv, Types
  <2>3. \A s : Untouched(s) /\ Same(s)
    BY <1>2 DEF Untouched, Same
  <2>4. StateOK(local[w])' /\ HandOf(local[w])' = NoState
    BY <2>2 DEF Idle, StateOK, HandOf, Pushing
  <2>5. /\ StateInv' /\ parkedMap' = parkedMap
        /\ \A v \in Workers : v # w => HandOf(local[v])' = HandOf(local[v])
    BY <2>2, <2>3, <2>4, QuietStep
  <2>6. HandOf(me) # NoState
    BY <1>1, <1>5, StatesAssumption DEF HandOf, StateOK
  <2>7. handMap[w] # NoState /\ handMap' = [handMap EXCEPT ![w] = NoState]
    BY <2>4, <2>5, <2>6 DEF handMap
  <2> QED
    BY <2>5, <2>7, ViewOfWork
<1> QED
  BY <1>3, <1>4, <1>5

(* What is resumed is what was parked: every state is taken up by one      *)
(* worker, as it was saved, however parks and resumes interleave.          *)
THEOREM PoolIsParkedWork == Spec => ImplementsParkedWork
<1>1. Init => StateInv /\ Work!Init
  <2> SUFFICES ASSUME Init PROVE StateInv /\ Work!Init
    OBVIOUS
  <2>1. \A w \in Workers : local[w] = Idle
    BY DEF Init
  <2>2. \A t \in Susps : status[t] = "FREE"
    BY DEF Init
  <2> QED
    BY <2>1, <2>2, IdleState, ViewOfWork DEF StateInv, Parked, parkedMap, handMap, ParkedIn
<1>2. PoolInv /\ StateInv /\ [Next]_vars =>
        /\ StateInv'
        /\ Work!Next \/ (parkedMap' = parkedMap /\ handMap' = handMap)
  <2> SUFFICES ASSUME PoolInv, StateInv, [Next]_vars
               PROVE  /\ StateInv'
                      /\ Work!Next \/ (parkedMap' = parkedMap /\ handMap' = handMap)
    OBVIOUS
  <2>1. ASSUME NEW w \in Workers, Step(w)
        PROVE  /\ StateInv'
               /\ Work!Next \/ (parkedMap' = parkedMap /\ handMap' = handMap)
    <3>1. CASE Publish(w)
      BY <3>1, PublishParks DEF Work!Next
    <3>2. CASE Claim(w)
      BY <3>2, ClaimResumes DEF Work!Next
    <3>3. CASE Uncount(w)
      BY <3>3, UncountDrops DEF Work!Next
    <3> QED
      BY <2>1, <3>1, <3>2, <3>3, CallState, PopState, MarkState, TestState, CopyState,
         PushState DEF Step
  <2>2. CASE UNCHANGED vars
    BY <2>2 DEF vars, memory, StateInv, StateOK, Parked, parkedMap, handMap,
      ParkedIn, HandOf
  <2> QED
    BY <2>1, <2>2 DEF Next
<1>3. PoolInv /\ StateInv /\ [Next]_vars =>
        [Work!Next]_<<[s \in Susps |-> IF status[s] = "PARKED" THEN content[contPtr[s]]
                                                             ELSE NoState],
                      [w \in Workers |->
                         IF local[w].op # "resume" THEN NoState
                         ELSE IF At(w, "copy") THEN content[contPtr[local[w].susp]]
                         ELSE local[w].state]>>
  BY <1>2 DEF parkedMap, handMap, ParkedIn, HandOf, At
<1> QED
  BY <1>1, <1>2, <1>3, PoolInvariant, PTL DEF Spec, ImplementsParkedWork, Work!Spec

-----------------------------------------------------------------------------
(* The counters.  cont_in_use and susp_in_use lag behind the flags: a slot *)
(* is counted until its thread is through with the push.                   *)
Counting == {"pushLoad", "pushCas", "uncount"}
Alloc(kind) == allocated \cap SlotsOf(kind)
Uncounting(kind) == {w \in Workers : local[w].pc \in Counting /\ local[w].kind = kind}

Counted(kind) ==
  /\ IsFiniteSet(Alloc(kind)) /\ IsFiniteSet(Uncounting(kind))
  /\ inUse[kind] = Cardinality(Alloc(kind)) + Cardinality(Uncounting(kind))

MarkOK == \A w \in Workers : local[w].pc = "mark" => local[w].slot \notin allocated

CountInv == /\ inUse \in [Kinds -> Nat]
            /\ calls \in 0 .. MaxCalls
            /\ \A kind \in Kinds : Counted(kind)
            /\ MarkOK

LEMMA UncountingMoves ==
  ASSUME Types, NEW w \in Workers, NEW m, local' = [local EXCEPT ![w] = m], NEW kind
  PROVE  Uncounting(kind)' = IF m.pc \in Counting /\ m.kind = kind
                               THEN Uncounting(kind) \cup {w}
                               ELSE Uncounting(kind) \ {w}
<1>1. local'[w] = m /\ \A v \in Workers : v # w => local'[v] = local[v]
  BY DEF Types
<1> QED
  BY <1>1 DEF Uncounting

LEMMA MarkMoves ==
  ASSUME PoolInv, MarkOK, NEW w \in Workers, NEW m, local' = [local EXCEPT ![w] = m],
         m.pc = "mark" => m.slot \notin allocated',
         \A s \in Slots : s \in allocated' => s \in allocated \/ Holds(local[w], s)
  PROVE  MarkOK'
<1>1. local'[w] = m /\ \A v \in Workers : v # w => local'[v] = local[v]
  BY DEF PoolInv, Types
<1>2. ASSUME NEW v \in Workers, v # w, local[v].pc = "mark"
      PROVE  local[v].slot \notin allocated'
  <2>1. local[v].slot \in Slots /\ Holds(local[v], local[v].slot)
    BY <1>2, SlotFacts DEF PoolInv, Types, LocalOK, PopOK, Local, Holds
  <2> QED
    BY <1>2, <2>1 DEF PoolInv, NoSharedSlot, MarkOK
<1> QED
  BY <1>1, <1>2 DEF MarkOK

(* A step that allocates nothing, frees nothing and counts nothing.        *)
LEMMA CountsStay ==
  ASSUME PoolInv, CountInv, NEW w \in Workers, NEW m, local' = [local EXCEPT ![w] = m],
         UNCHANGED <<inUse, allocated>>, calls' \in 0 .. MaxCalls,
         \/ local[w].pc \notin Counting /\ m.pc \notin Counting
         \/ local[w].pc \in Counting /\ m.pc \in Counting /\ m.kind = local[w].kind,
         m.pc = "mark" => m.slot \notin allocated
  PROVE  CountInv'
<1>1. MarkOK'
  BY MarkMoves DEF CountInv
<1>2. ASSUME NEW kind \in Kinds PROVE Counted(kind)'
  <2>1. Uncounting(kind)' = IF m.pc \in Counting /\ m.kind = kind
                              THEN Uncounting(kind) \cup {w} ELSE Uncounting(kind) \ {w}
    BY UncountingMoves DEF PoolInv
  <2>2. Uncounting(kind)' = Uncounting(kind)
    BY <2>1 DEF Uncounting
  <2>3. Alloc(kind)' = Alloc(kind)
    BY DEF Alloc
  <2> QED
    BY <2>2, <2>3 DEF CountInv, Counted
<1> QED
  BY <1>1, <1>2 DEF CountInv

(* A slot is marked and counted.                                           *)
LEMMA CountsUp ==
  ASSUME PoolInv, CountInv, NEW w \in Workers, NEW m, local' = [local EXCEPT ![w] = m],
         NEW k \in Kinds, NEW s \in SlotsOf(k), s \notin allocated, Holds(local[w], s),
         allocated' = allocated \cup {s}, inUse' = [inUse EXCEPT ![k] = @ + 1],
         calls' = calls, local[w].pc = "mark", m.pc \notin Counting, m.pc # "mark"
  PROVE  CountInv'
<1>1. MarkOK'
  BY MarkMoves DEF CountInv
<1>2. ASSUME NEW kind \in Kinds PROVE Counted(kind)' /\ inUse'[kind] \in Nat
  <2> DEFINE A == Cardinality(Alloc(kind))
             U == Cardinality(Uncounting(kind))
  <2>1. Uncounting(kind)' = Uncounting(kind) \ {w}
    BY UncountingMoves DEF PoolInv
  <2>2. Uncounting(kind)' = Uncounting(kind)
    BY <2>1 DEF Uncounting, Counting
  <2>3. Counted(kind) /\ A \in Nat /\ U \in Nat
    BY FS_CardinalityType DEF CountInv, Counted
  <2>4. CASE kind = k
    <3>1. Alloc(kind)' = Alloc(kind) \cup {s} /\ s \notin Alloc(kind)
      BY <2>4 DEF Alloc
    <3>2. IsFiniteSet(Alloc(kind)') /\ Cardinality(Alloc(kind)') = A + 1
      BY <2>3, <3>1, FS_AddElement DEF Counted
    <3>3. inUse'[kind] = inUse[kind] + 1
      BY <2>4 DEF CountInv
    <3>4. inUse[kind] = A + U
      BY <2>3 DEF Counted
    <3> HIDE DEF A, U
    <3>5. inUse'[kind] = (A + 1) + U /\ inUse'[kind] \in Nat
      BY <2>3, <3>3, <3>4
    <3> QED
      BY <2>2, <2>3, <3>2, <3>5 DEF Counted, A, U
  <2>5. CASE kind # k
    <3>1. Alloc(kind)' = Alloc(kind)
      BY <2>5, SlotFacts DEF Alloc
    <3>2. inUse'[kind] = inUse[kind] /\ inUse[kind] \in Nat
      BY <2>5 DEF CountInv
    <3> QED
      BY <2>2, <2>3, <3>1, <3>2 DEF Counted
  <2> QED
    BY <2>4, <2>5
<1>3. inUse' \in [Kinds -> Nat]
  BY <1>2 DEF CountInv
<1> QED
  BY <1>1, <1>2, <1>3 DEF CountInv

LEMMA CallCount ==
  ASSUME PoolInv, CountInv, NEW w \in Workers, ParkCall(w) \/ ResumeCall(w)
  PROVE  CountInv'
<1>1. /\ UNCHANGED <<inUse, allocated>> /\ local[w].pc \notin Counting
      /\ calls < MaxCalls /\ calls' = calls + 1
  BY DEF ParkCall, ResumeCall, At, Counting, memory
<1>2. calls' \in 0 .. MaxCalls
  BY <1>1, StatesAssumption DEF CountInv
<1>3. CASE ParkCall(w)
  <2>1. PICK x \in States : local' = [local EXCEPT ![w] =
          [Idle EXCEPT !.pc = "popLoad", !.op = "park", !.state = x]]
    BY <1>3 DEF ParkCall
  <2>2. [Idle EXCEPT !.pc = "popLoad", !.op = "park", !.state = x].pc = "popLoad"
    BY DEF Idle
  <2> QED
    BY <1>1, <1>2, <2>1, <2>2, CountsStay DEF Counting
<1>4. CASE ResumeCall(w)
  <2>1. PICK s \in handed : local' = [local EXCEPT ![w] =
          [Idle EXCEPT !.pc = "test", !.op = "resume", !.susp = s]]
    BY <1>4 DEF ResumeCall
  <2>2. [Idle EXCEPT !.pc = "test", !.op = "resume", !.susp = s].pc = "test"
    BY DEF Idle
  <2> QED
    BY <1>1, <1>2, <2>1, <2>2, CountsStay DEF Counting
<1> QED
  BY <1>3, <1>4

(* Pops up to the mark, publications and claims.                           *)
LEMMA PlainCount ==
  ASSUME PoolInv, CountInv, NEW w \in Workers,
         \/ PopLoad(w) \/ PopNext(w) \/ PopCas(w) \/ PopCasFails(w)
         \/ Publish(w) \/ TestFlag(w) \/ Claim(w) \/ Copy(w)
  PROVE  CountInv'
<1> DEFINE me == local[w]
<1>1. /\ UNCHANGED <<inUse, allocated>> /\ me.pc \notin Counting
      /\ calls' \in 0 .. MaxCalls
  BY DEF PopLoad, PopNext, PopCas, PopCasFails, Publish, TestFlag, Claim, Copy, At, Counting,
     memory, CountInv
<1>2. me \in Local /\ LocalOK(me)
  BY DEF PoolInv, Types
<1>3. CASE PopCas(w)
  <2> DEFINE m == [me EXCEPT !.pc = "mark", !.slot = me.snap.index]
  <2>1. /\ me.pc = "popCas" /\ head[me.kind] = me.snap /\ me.kind \in Kinds
        /\ local' = [local EXCEPT ![w] = m]
    BY <1>2, <1>3 DEF PopCas, At, Local
  <2>2. me.snap.index \in Slots
    BY <1>2, <2>1, SlotFacts DEF LocalOK, PopOK, Popping
  <2>3. me.snap.index \notin allocated
    BY <2>1, <2>2, HeadOfList DEF PoolInv
  <2>4. m.pc = "mark" /\ m.slot = me.snap.index
    BY <1>2 DEF Local
  <2> HIDE DEF m
  <2> QED
    BY <1>1, <2>1, <2>3, <2>4, CountsStay DEF Counting
<1>4. CASE ~ PopCas(w)
  <2>1. CASE PopLoad(w)
    <3> DEFINE m1 == [me EXCEPT !.pc = "popNext", !.snap = head[me.kind]]
               m2 == [me EXCEPT !.pc = "pushFree", !.kind = "cont", !.slot = me.cont]
               m3 == Idle
    <3>1. \/ local' = [local EXCEPT ![w] = m1]
          \/ local' = [local EXCEPT ![w] = m2]
          \/ local' = [local EXCEPT ![w] = m3]
      BY <2>1 DEF PopLoad
    <3>2. m1.pc = "popNext" /\ m2.pc = "pushFree" /\ m3.pc = "idle"
      BY <1>2 DEF Local, Idle
    <3> HIDE DEF m1, m2, m3
    <3> QED
      BY <1>1, <3>1, <3>2, CountsStay DEF Counting
  <2>2. CASE PopNext(w)
    <3> DEFINE m1 == [me EXCEPT !.pc = "popCas", !.nxt = next[me.snap.index]]
    <3>1. local' = [local EXCEPT ![w] = m1]
      BY <2>2 DEF PopNext, PoolInv, Types
    <3>2. m1.pc = "popCas"
      BY <1>2 DEF Local, Idle
    <3> HIDE DEF m1
    <3> QED
      BY <1>1, <3>1, <3>2, CountsStay DEF Counting
  <2>3. CASE PopCasFails(w)
    <3> DEFINE m1 == [me EXCEPT !.pc = "popLoad"]
    <3>1. local' = [local EXCEPT ![w] = m1]
      BY <2>3 DEF PopCasFails, PoolInv, Types
    <3>2. m1.pc = "popLoad"
      BY <1>2 DEF Local, Idle
    <3> HIDE DEF m1
    <3> QED
      BY <1>1, <3>1, <3>2, CountsStay DEF Counting
  <2>4. CASE Publish(w)
    <3> DEFINE m1 == Idle
    <3>1. local' = [local EXCEPT ![w] = m1]
      BY <2>4 DEF Publish
    <3>2. m1.pc = "idle"
      BY <1>2 DEF Local, Idle
    <3> HIDE DEF m1
    <3> QED
      BY <1>1, <3>1, <3>2, CountsStay DEF Counting
  <2>5. CASE TestFlag(w)
    <3> DEFINE m1 == [me EXCEPT !.pc = "claim"]
               m2 == Idle
    <3>1. \/ local' = [local EXCEPT ![w] = m1]
          \/ local' = [local EXCEPT ![w] = m2]
      BY <2>5 DEF TestFlag, PoolInv, Types
    <3>2. m1.pc = "claim" /\ m2.pc = "idle"
      BY <1>2 DEF Local, Idle
    <3> HIDE DEF m1, m2
    <3> QED
      BY <1>1, <3>1, <3>2, CountsStay DEF Counting
  <2>6. CASE Claim(w)
    <3> DEFINE m1 == [me EXCEPT !.pc = "copy"]
               m2 == Idle
    <3>1. \/ local' = [local EXCEPT ![w] = m1]
          \/ local' = [local EXCEPT ![w] = m2]
      BY <2>6 DEF Claim, PoolInv, Types
    <3>2. m1.pc = "copy" /\ m2.pc = "idle"
      BY <1>2 DEF Local, Idle
    <3> HIDE DEF m1, m2
    <3> QED
      BY <1>1, <3>1, <3>2, CountsStay DEF Counting
  <2>7. CASE Copy(w)
    <3> DEFINE m1 == [me EXCEPT !.pc = "pushFree", !.kind = "cont",
                             !.slot = contPtr[me.susp], !.cont = contPtr[me.susp],
                             !.state = content[contPtr[me.susp]], !.nxt = Invalid]
               m2 == [Idle EXCEPT !.pc = "trap"]
    <3>1. \/ local' = [local EXCEPT ![w] = m1]
          \/ local' = [local EXCEPT ![w] = m2]
      BY <2>7 DEF Copy
    <3>2. m1.pc = "pushFree" /\ m2.pc = "trap"
      BY <1>2 DEF Local, Idle
    <3> HIDE DEF m1, m2
    <3> QED
      BY <1>1, <3>1, <3>2, CountsStay DEF Counting
  <2> QED
    BY <1>4, <2>1, <2>2, <2>3, <2>4, <2>5, <2>6, <2>7
<1> QED
  BY <1>3, <1>4

LEMMA MarkCount ==
  ASSUME PoolInv, CountInv, NEW w \in Workers, MarkCont(w) \/ MarkSusp(w)
  PROVE  CountInv'
<1> DEFINE me == local[w]
           k == me.kind
           s == me.slot
<1>1. /\ me \in Local /\ me.pc = "mark" /\ k \in Kinds /\ s \in SlotsOf(k)
      /\ s \notin allocated /\ Holds(me, s) /\ calls' = calls
      /\ allocated' = allocated \cup {s}
  BY DEF MarkCont, MarkSusp, At, PoolInv, Types, Local, LocalOK, PopOK, CountInv, MarkOK, Holds
<1>2. inUse' = [inUse EXCEPT ![k] = @ + 1]
  BY DEF MarkCont, MarkSusp
<1> DEFINE m1 == [me EXCEPT !.pc = "popLoad", !.kind = "susp", !.cont = s, !.slot = Invalid]
           m2 == [me EXCEPT !.pc = "publish", !.susp = s, !.slot = Invalid]
<1>3. local' = [local EXCEPT ![w] = m1] \/ local' = [local EXCEPT ![w] = m2]
  BY DEF MarkCont, MarkSusp
<1>4. m1.pc = "popLoad" /\ m2.pc = "publish"
  BY <1>1 DEF Local
<1> HIDE DEF m1, m2
<1> QED
  BY <1>1, <1>2, <1>3, <1>4, CountsUp DEF Counting

LEMMA PushCount ==
  ASSUME PoolInv, CountInv, NEW w \in Workers, PushLoad(w) \/ PushCas(w) \/ PushCasFails(w)
  PROVE  CountInv'
<1> DEFINE me == local[w]
<1>1. /\ UNCHANGED <<inUse, allocated>> /\ me.pc \in Counting
      /\ calls' \in 0 .. MaxCalls
  BY DEF PushLoad, PushCas, PushCasFails, At, Counting, memory, CountInv
<1>2. me \in Local
  BY DEF PoolInv, Types
<1> DEFINE m1 == [me EXCEPT !.pc = "pushCas", !.snap = head[me.kind]]
           m2 == [me EXCEPT !.pc = "uncount"]
           m3 == [me EXCEPT !.pc = "pushLoad"]
<1>3. \/ local' = [local EXCEPT ![w] = m1]
      \/ local' = [local EXCEPT ![w] = m2]
      \/ local' = [local EXCEPT ![w] = m3]
  BY DEF PushLoad, PushCas, PushCasFails, PoolInv, Types
<1>4. /\ m1.pc = "pushCas" /\ m1.kind = me.kind
      /\ m2.pc = "uncount" /\ m2.kind = me.kind
      /\ m3.pc = "pushLoad" /\ m3.kind = me.kind
  BY <1>2 DEF Local
<1> HIDE DEF m1, m2, m3
<1> QED
  BY <1>1, <1>3, <1>4, CountsStay DEF Counting

(* The flag goes first, and the thread takes the slot's place.             *)
LEMMA PushFreeCount ==
  ASSUME PoolInv, CountInv, NEW w \in Workers, PushFree(w)
  PROVE  CountInv'
<1> DEFINE me == local[w]
           k == me.kind
           s == me.slot
           m == [me EXCEPT !.pc = "pushLoad"]
<1>1. /\ me \in Local /\ me.pc = "pushFree" /\ s \in SlotsOf(k) /\ s \in allocated
      /\ k \in Kinds /\ (k = "susp" => status[s] = "CLAIMED")
  BY DEF PoolInv, Types, PushFree, At, LocalOK, PushOK, Pushing, Local
<1>2. /\ local' = [local EXCEPT ![w] = m] /\ allocated' = allocated \ {s}
      /\ inUse' = inUse /\ calls' = calls
  BY <1>1 DEF PushFree
<1>3. m.pc = "pushLoad" /\ m.kind = k
  BY <1>1 DEF Local
<1> HIDE DEF m
<1>4. MarkOK'
  BY <1>2, <1>3, MarkMoves DEF CountInv
<1>5. ASSUME NEW kind \in Kinds PROVE Counted(kind)'
  <2> DEFINE A == Cardinality(Alloc(kind))
             U == Cardinality(Uncounting(kind))
  <2>1. Counted(kind) /\ A \in Nat /\ U \in Nat /\ inUse'[kind] = A + U
    BY <1>2, FS_CardinalityType DEF CountInv, Counted
  <2>2. CASE kind = k
    <3>1. Alloc(kind)' = Alloc(kind) \ {s} /\ s \in Alloc(kind)
      BY <1>1, <1>2, <2>2 DEF Alloc
    <3>2. Uncounting(kind)' = Uncounting(kind) \cup {w}
      BY <1>2, <1>3, <2>2, UncountingMoves DEF PoolInv, Counting
    <3>3. w \notin Uncounting(kind)
      BY <1>1 DEF Uncounting, Counting
    <3>a. IsFiniteSet(Alloc(kind))
      BY <2>1 DEF Counted
    <3>b. /\ IsFiniteSet(Alloc(kind) \ {s})
          /\ Cardinality(Alloc(kind) \ {s}) = Cardinality(Alloc(kind)) - 1
      BY <3>a, <3>1, FS_RemoveElement
    <3>4. IsFiniteSet(Alloc(kind)') /\ Cardinality(Alloc(kind)') = A - 1
      BY <3>1, <3>b
    <3>5. IsFiniteSet(Uncounting(kind)') /\ Cardinality(Uncounting(kind)') = U + 1
      BY <2>1, <3>2, <3>3, FS_AddElement DEF Counted
    <3> HIDE DEF A, U
    <3>6. inUse'[kind] = (A - 1) + (U + 1)
      BY <2>1
    <3> QED
      BY <3>4, <3>5, <3>6 DEF Counted
  <2>3. CASE kind # k
    <3>1. Alloc(kind)' = Alloc(kind)
      BY <1>1, <1>2, <2>3, SlotFacts DEF Alloc
    <3>2. Uncounting(kind)' = Uncounting(kind) \ {w}
      BY <1>2, <1>3, <2>3, UncountingMoves DEF PoolInv
    <3>3. Uncounting(kind)' = Uncounting(kind)
      BY <1>1, <3>2 DEF Uncounting, Counting
    <3> QED
      BY <2>1, <3>1, <3>3 DEF Counted
  <2> QED
    BY <2>2, <2>3
<1> QED
  BY <1>2, <1>4, <1>5 DEF CountInv

(* The counter follows; it counted this thread at least.                   *)
LEMMA UncountCount ==
  ASSUME PoolInv, CountInv, NEW w \in Workers, Uncount(w)
  PROVE  CountInv'
<1> DEFINE me == local[w]
           k == me.kind
<1>1. me \in Local /\ me.pc = "uncount" /\ k \in Kinds
  BY DEF PoolInv, Types, Uncount, At, Local
<1>2. allocated' = allocated /\ calls' = calls /\ inUse' = [inUse EXCEPT ![k] = @ - 1]
  BY DEF Uncount
<1> DEFINE m1 == [me EXCEPT !.pc = "pushFree", !.kind = "susp", !.slot = me.susp,
                            !.cont = Invalid]
<1>a. local' = [local EXCEPT ![w] = m1] \/ local' = [local EXCEPT ![w] = Idle]
  BY DEF Uncount
<1>b. m1.pc = "pushFree" /\ Idle.pc = "idle"
  BY <1>1 DEF Idle, Local
<1> HIDE DEF m1
<1>3. PICK m : local' = [local EXCEPT ![w] = m] /\ m.pc \in {"pushFree", "idle"}
  BY <1>a, <1>b
<1>4. MarkOK'
  BY <1>2, <1>3, MarkMoves DEF CountInv
<1>5. ASSUME NEW kind \in Kinds PROVE Counted(kind)' /\ inUse'[kind] \in Nat
  <2> DEFINE A == Cardinality(Alloc(kind))
             U == Cardinality(Uncounting(kind))
  <2>1. Counted(kind) /\ A \in Nat /\ U \in Nat /\ inUse[kind] = A + U
    BY FS_CardinalityType DEF CountInv, Counted
  <2>2. Alloc(kind)' = Alloc(kind)
    BY <1>2 DEF Alloc
  <2>3. Uncounting(kind)' = Uncounting(kind) \ {w}
    BY <1>3, UncountingMoves DEF PoolInv, Counting
  <2>4. CASE kind = k
    <3>1. w \in Uncounting(kind)
      BY <1>1, <2>4 DEF Uncounting, Counting
    <3>2. IsFiniteSet(Uncounting(kind)') /\ Cardinality(Uncounting(kind)') = U - 1
      BY <2>1, <2>3, <3>1, FS_RemoveElement DEF Counted
    <3>3. U - 1 \in Nat
      BY <2>1, <2>3, <3>2, FS_CardinalityType
    <3>4. inUse'[kind] = inUse[kind] - 1
      BY <1>1, <1>2, <2>4 DEF CountInv
    <3> HIDE DEF A, U
    <3>5. inUse'[kind] = A + (U - 1) /\ inUse'[kind] \in Nat
      BY <2>1, <3>3, <3>4
    <3> QED
      BY <2>1, <2>2, <3>2, <3>5 DEF Counted, A
  <2>5. CASE kind # k
    <3>1. Uncounting(kind)' = Uncounting(kind)
      BY <2>3, <2>5 DEF Uncounting
    <3>2. inUse'[kind] = inUse[kind] /\ inUse[kind] \in Nat
      BY <1>2, <2>5 DEF CountInv
    <3> QED
      BY <2>1, <2>2, <3>1, <3>2 DEF Counted
  <2> QED
    BY <2>4, <2>5
<1>6. inUse' \in [Kinds -> Nat]
  BY <1>2, <1>5 DEF CountInv
<1> QED
  BY <1>2, <1>4, <1>5, <1>6 DEF CountInv

(* The counters are exact at rest and never below zero in between: each    *)
(* counts the allocated slots and those whose push is under way.           *)
THEOREM CountersExact == Spec => []CountInv
<1>1. Init => CountInv
  <2> SUFFICES ASSUME Init PROVE CountInv
    OBVIOUS
  <2>1. \A w \in Workers : local[w].pc = "idle"
    BY DEF Init, Idle
  <2>2. \A kind \in Kinds : Alloc(kind) = {} /\ Uncounting(kind) = {} /\ inUse[kind] = 0
    BY <2>1 DEF Init, Alloc, Uncounting, Counting
  <2>3. \A kind \in Kinds : Counted(kind)
    BY <2>2, FS_EmptySet DEF Counted
  <2> QED
    BY <2>1, <2>3, StatesAssumption DEF CountInv, Init, MarkOK
<1>2. PoolInv /\ CountInv /\ [Next]_vars => CountInv'
  <2> SUFFICES ASSUME PoolInv, CountInv, [Next]_vars PROVE CountInv'
    OBVIOUS
  <2>1. ASSUME NEW w \in Workers, Step(w) PROVE CountInv'
    BY <2>1, CallCount, PlainCount, MarkCount, PushCount, PushFreeCount, UncountCount DEF Step
  <2>2. CASE UNCHANGED vars
    BY <2>2 DEF vars, memory, CountInv, Counted, Alloc, Uncounting, MarkOK
  <2> QED
    BY <2>1, <2>2 DEF Next
<1> QED
  BY <1>1, <1>2, PoolInvariant, PTL DEF Spec

(* Every shared word and every local keeps its type, and cont_in_use and   *)
(* susp_in_use never wrap below zero.                                      *)
THEOREM PoolTypes == Spec => []TypeOK
<1>1. PoolInv /\ CountInv => TypeOK
  BY DEF PoolInv, Types, Local, CountInv, TypeOK
<1> QED
  BY <1>1, PoolInvariant, CountersExact, PTL
=============================================================================
