---------------------------- MODULE ControlPool ----------------------------
(***************************************************************************)
(* The control pool of the arena (consumers/thanatos/platform/arena.c):    *)
(* fixed arrays of continuations and suspensions on two lock-free free     *)
(* lists, whose heads carry a version against ABA, and the parking and     *)
(* resuming of worker states with them.                                    *)
(*                                                                         *)
(* One action is one access to a shared word, or a group of plain accesses *)
(* to a slot its thread owns.  Versions are unbounded here and 32 bits     *)
(* wide in the code.                                                       *)
(***************************************************************************)
EXTENDS Naturals, Sequences, FiniteSets

CONSTANTS Workers,   \* threads that park and resume
          ContSlots, \* number of continuations, CONTROL_CONT_SLOTS
          SuspSlots, \* number of suspensions, CONTROL_SUSP_SLOTS
          States,    \* worker states to save
          NoState,   \* a slot without one
          MaxCalls   \* bound: calls of park and resume

ASSUME SlotsAssumption == ContSlots \in Nat \ {0} /\ SuspSlots \in Nat \ {0}
ASSUME StatesAssumption == NoState \notin States /\ MaxCalls \in Nat

Kinds == {"cont", "susp"}
SlotsOf(kind) == {kind} \X (1 .. IF kind = "cont" THEN ContSlots ELSE SuspSlots)
Conts == SlotsOf("cont")
Susps == SlotsOf("susp")
Slots == Conts \cup Susps
Invalid == <<"none", 0>>   \* CONTROL_INVALID_INDEX

VARIABLES head,      \* head[kind]: [index, version], one 64-bit word
          next,      \* next_free of each slot
          allocated, \* the slots with the ALLOCATED flag
          status,    \* status of each suspension
          contPtr,   \* the continuation of each suspension
          content,   \* the worker state in each continuation
          inUse,     \* cont_in_use, susp_in_use
          local,     \* each thread: pc and locals
          handed,    \* suspensions whose pointer has been given out
          calls,     \* bounds the model
          free       \* history: the slots on each free list, in order

memory == <<head, next, allocated, status, contPtr, content, inUse>>
vars == <<memory, local, handed, calls, free>>

Idle == [pc |-> "idle", op |-> "none", kind |-> "cont",
         snap |-> [index |-> Invalid, version |-> 0], nxt |-> Invalid,
         slot |-> Invalid, cont |-> Invalid, susp |-> Invalid, state |-> NoState]

Length(kind) == IF kind = "cont" THEN ContSlots ELSE SuspSlots

(* control_init_at: every slot on its list, in order.                      *)
Init ==
  /\ head = [kind \in Kinds |-> [index |-> <<kind, 1>>, version |-> 0]]
  /\ next = [s \in Slots |-> IF s[2] < Length(s[1]) THEN <<s[1], s[2] + 1>> ELSE Invalid]
  /\ allocated = {}
  /\ status = [s \in Susps |-> "FREE"]
  /\ contPtr = [s \in Susps |-> Invalid]
  /\ content = [c \in Conts |-> NoState]
  /\ inUse = [kind \in Kinds |-> 0]
  /\ local = [w \in Workers |-> Idle]
  /\ handed = {}
  /\ calls = 0
  /\ free = [kind \in Kinds |-> [n \in 1 .. Length(kind) |-> <<kind, n>>]]

At(w, pc) == local[w].pc = pc

-----------------------------------------------------------------------------
(* Callers.  A pointer that was handed out once may come back any time.    *)

ParkCall(w) ==
  /\ At(w, "idle")
  /\ calls < MaxCalls
  /\ calls' = calls + 1
  /\ \E x \in States : local' = [local EXCEPT ![w] =
       [Idle EXCEPT !.pc = "popLoad", !.op = "park", !.state = x]]
  /\ UNCHANGED <<memory, handed, free>>

ResumeCall(w) ==
  /\ At(w, "idle")
  /\ calls < MaxCalls
  /\ calls' = calls + 1
  /\ \E s \in handed : local' = [local EXCEPT ![w] =
       [Idle EXCEPT !.pc = "test", !.op = "resume", !.susp = s]]
  /\ UNCHANGED <<memory, handed, free>>

-----------------------------------------------------------------------------
(* control_pop_cont and control_pop_susp, for the thread's current kind.   *)

(* Fault: a park that finds no suspension keeps its continuation.          *)
PopLoadKeeps(w) ==
  /\ At(w, "popLoad")
  /\ LET me == local[w]
         h  == head[me.kind]
     IN  local' = [local EXCEPT ![w] =
           IF h.index # Invalid THEN [me EXCEPT !.pc = "popNext", !.snap = h] ELSE Idle]
  /\ UNCHANGED <<memory, handed, calls, free>>

(* With no continuation left the park fails; with no suspension left it    *)
(* first gives the continuation back.                                      *)
PopLoad(w) ==
  /\ At(w, "popLoad")
  /\ LET me == local[w]
         h  == head[me.kind]
     IN  local' = [local EXCEPT ![w] =
           IF h.index # Invalid THEN [me EXCEPT !.pc = "popNext", !.snap = h]
           ELSE IF me.kind = "susp" THEN [me EXCEPT !.pc = "pushFree", !.kind = "cont",
                                                    !.slot = me.cont]
           ELSE Idle]
  /\ UNCHANGED <<memory, handed, calls, free>>

PopNext(w) ==
  /\ At(w, "popNext")
  /\ local' = [local EXCEPT ![w].pc = "popCas", ![w].nxt = next[local[w].snap.index]]
  /\ UNCHANGED <<memory, handed, calls, free>>

(* Fault: the head carries no version.                                     *)
PopCasUnversioned(w) ==
  /\ At(w, "popCas")
  /\ LET me == local[w]
     IN  /\ head[me.kind].index = me.snap.index
         /\ head' = [head EXCEPT ![me.kind].index = me.nxt]
         /\ free' = [free EXCEPT ![me.kind] = Tail(@)]
         /\ local' = [local EXCEPT ![w].pc = "mark", ![w].slot = me.snap.index]
  /\ UNCHANGED <<next, allocated, status, contPtr, content, inUse, handed, calls>>

PopCas(w) ==
  /\ At(w, "popCas")
  /\ LET me == local[w]
     IN  /\ head[me.kind] = me.snap
         /\ head' = [head EXCEPT ![me.kind] = [index |-> me.nxt,
                                               version |-> me.snap.version + 1]]
         /\ free' = [free EXCEPT ![me.kind] = Tail(@)]
         /\ local' = [local EXCEPT ![w].pc = "mark", ![w].slot = me.snap.index]
  /\ UNCHANGED <<next, allocated, status, contPtr, content, inUse, handed, calls>>

PopCasFails(w) ==
  /\ At(w, "popCas")
  /\ local' = [local EXCEPT ![w].pc = "popLoad"]
  /\ UNCHANGED <<memory, handed, calls, free>>

(* The slot is marked and filled: a continuation with the worker state,    *)
(* a suspension with its continuation.                                     *)
MarkCont(w) ==
  /\ At(w, "mark") /\ local[w].kind = "cont"
  /\ LET s == local[w].slot
     IN  /\ allocated' = allocated \cup {s}
         /\ next' = [next EXCEPT ![s] = Invalid]
         /\ content' = [content EXCEPT ![s] = local[w].state]
         /\ local' = [local EXCEPT ![w].pc = "popLoad", ![w].kind = "susp",
                                   ![w].cont = s, ![w].slot = Invalid]
  /\ inUse' = [inUse EXCEPT !["cont"] = @ + 1]
  /\ UNCHANGED <<head, status, contPtr, handed, calls, free>>

(* Fault: the suspension is not counted.                                   *)
MarkSuspUncounted(w) ==
  /\ At(w, "mark") /\ local[w].kind = "susp"
  /\ LET s == local[w].slot
     IN  /\ allocated' = allocated \cup {s}
         /\ next' = [next EXCEPT ![s] = Invalid]
         /\ status' = [status EXCEPT ![s] = "CLAIMED"]
         /\ contPtr' = [contPtr EXCEPT ![s] = local[w].cont]
         /\ local' = [local EXCEPT ![w].pc = "publish", ![w].susp = s, ![w].slot = Invalid]
  /\ UNCHANGED <<head, content, inUse, handed, calls, free>>

MarkSusp(w) ==
  /\ At(w, "mark") /\ local[w].kind = "susp"
  /\ LET s == local[w].slot
     IN  /\ allocated' = allocated \cup {s}
         /\ next' = [next EXCEPT ![s] = Invalid]
         /\ status' = [status EXCEPT ![s] = "CLAIMED"]
         /\ contPtr' = [contPtr EXCEPT ![s] = local[w].cont]
         /\ local' = [local EXCEPT ![w].pc = "publish", ![w].susp = s, ![w].slot = Invalid]
  /\ inUse' = [inUse EXCEPT !["susp"] = @ + 1]
  /\ UNCHANGED <<head, content, handed, calls, free>>

Publish(w) ==
  /\ At(w, "publish")
  /\ status' = [status EXCEPT ![local[w].susp] = "PARKED"]
  /\ handed' = handed \cup {local[w].susp}
  /\ local' = [local EXCEPT ![w] = Idle]
  /\ UNCHANGED <<head, next, allocated, contPtr, content, inUse, calls, free>>

-----------------------------------------------------------------------------
(* resume_worker_state.                                                    *)

(* Fault: the status is tested and set in two steps.                       *)
ClaimTest(w) ==
  /\ At(w, "claim")
  /\ LET me == local[w]
     IN  \/ /\ me.nxt = Invalid
            /\ local' = [local EXCEPT ![w] =
                 IF status[me.susp] = "PARKED" THEN [me EXCEPT !.nxt = me.susp] ELSE Idle]
            /\ UNCHANGED status
         \/ /\ me.nxt # Invalid
            /\ status' = [status EXCEPT ![me.susp] = "CLAIMED"]
            /\ local' = [local EXCEPT ![w].pc = "copy"]
  /\ UNCHANGED <<head, next, allocated, contPtr, content, inUse, handed, calls, free>>

(* control_try_claim_suspension: the flag is tested first, then the status *)
(* changed with a compare-and-swap.  No code stores SUSP_STATUS_READY.     *)
TestFlag(w) ==
  /\ At(w, "test")
  /\ local' = [local EXCEPT ![w] = IF @.susp \in allocated THEN [@ EXCEPT !.pc = "claim"]
                                                           ELSE Idle]
  /\ UNCHANGED <<memory, handed, calls, free>>

Claim(w) ==
  /\ At(w, "claim")
  /\ LET s == local[w].susp
     IN  IF status[s] = "PARKED"
           THEN /\ status' = [status EXCEPT ![s] = "CLAIMED"]
                /\ local' = [local EXCEPT ![w].pc = "copy"]
           ELSE /\ local' = [local EXCEPT ![w] = Idle]
                /\ UNCHANGED status
  /\ UNCHANGED <<head, next, allocated, contPtr, content, inUse, handed, calls, free>>

Copy(w) ==
  /\ At(w, "copy")
  /\ LET c == contPtr[local[w].susp]
     IN  local' = [local EXCEPT ![w] =
           IF c \in allocated
             THEN [local[w] EXCEPT !.pc = "pushFree", !.kind = "cont", !.slot = c,
                                   !.cont = c, !.state = content[c], !.nxt = Invalid]
             ELSE [Idle EXCEPT !.pc = "trap"]]
  /\ UNCHANGED <<memory, handed, calls, free>>

-----------------------------------------------------------------------------
(* control_push_cont and control_push_susp.                                *)

(* The slot is poisoned and its flag cleared; a slot that is not allocated *)
(* or a suspension that is not claimed is a broken invariant.              *)
PushFree(w) ==
  /\ At(w, "pushFree")
  /\ LET me == local[w]
         s  == me.slot
     IN  IF s \in allocated /\ (me.kind = "susp" => status[s] = "CLAIMED")
           THEN /\ allocated' = allocated \ {s}
                /\ next' = [next EXCEPT ![s] = Invalid]
                /\ content' = IF me.kind = "cont" THEN [content EXCEPT ![s] = NoState]
                                                  ELSE content
                /\ contPtr' = IF me.kind = "susp" THEN [contPtr EXCEPT ![s] = Invalid]
                                                  ELSE contPtr
                /\ status' = IF me.kind = "susp" THEN [status EXCEPT ![s] = "FREE"]
                                                 ELSE status
                /\ local' = [local EXCEPT ![w].pc = "pushLoad"]
           ELSE /\ local' = [local EXCEPT ![w] = [Idle EXCEPT !.pc = "trap"]]
                /\ UNCHANGED <<allocated, next, content, contPtr, status>>
  /\ UNCHANGED <<head, inUse, handed, calls, free>>

PushLoad(w) ==
  /\ At(w, "pushLoad")
  /\ LET h == head[local[w].kind]
     IN  /\ next' = [next EXCEPT ![local[w].slot] = h.index]
         /\ local' = [local EXCEPT ![w].pc = "pushCas", ![w].snap = h]
  /\ UNCHANGED <<head, allocated, status, contPtr, content, inUse, handed, calls, free>>

(* Fault: a plain store instead of the compare-and-swap.                   *)
PushStore(w) ==
  /\ At(w, "pushCas")
  /\ LET me == local[w]
     IN  /\ head' = [head EXCEPT ![me.kind] = [index |-> me.slot,
                                               version |-> me.snap.version + 1]]
         /\ free' = [free EXCEPT ![me.kind] = <<me.slot>> \o @]
         /\ local' = [local EXCEPT ![w].pc = "uncount"]
  /\ UNCHANGED <<next, allocated, status, contPtr, content, inUse, handed, calls>>

PushCas(w) ==
  /\ At(w, "pushCas")
  /\ LET me == local[w]
     IN  /\ head[me.kind] = me.snap
         /\ head' = [head EXCEPT ![me.kind] = [index |-> me.slot,
                                               version |-> me.snap.version + 1]]
         /\ free' = [free EXCEPT ![me.kind] = <<me.slot>> \o @]
         /\ local' = [local EXCEPT ![w].pc = "uncount"]
  /\ UNCHANGED <<next, allocated, status, contPtr, content, inUse, handed, calls>>

PushCasFails(w) ==
  /\ At(w, "pushCas")
  /\ local' = [local EXCEPT ![w].pc = "pushLoad"]
  /\ UNCHANGED <<memory, handed, calls, free>>

(* What follows a push: after the continuation of a resume its suspension, *)
(* after the one of a park that found no suspension nothing.               *)
Uncount(w) ==
  /\ At(w, "uncount")
  /\ LET me == local[w]
     IN  /\ inUse' = [inUse EXCEPT ![me.kind] = @ - 1]
         /\ local' = [local EXCEPT ![w] =
              IF me.kind = "cont" /\ me.op = "resume"
                THEN [me EXCEPT !.pc = "pushFree", !.kind = "susp", !.slot = me.susp,
                                !.cont = Invalid]
                ELSE Idle]
  /\ UNCHANGED <<head, next, allocated, status, contPtr, content, handed, calls, free>>

-----------------------------------------------------------------------------
Step(w) ==
  \/ ParkCall(w) \/ ResumeCall(w)
  \/ PopLoad(w) \/ PopNext(w) \/ PopCas(w) \/ PopCasFails(w)
  \/ MarkCont(w) \/ MarkSusp(w) \/ Publish(w)
  \/ TestFlag(w) \/ Claim(w) \/ Copy(w)
  \/ PushFree(w) \/ PushLoad(w) \/ PushCas(w) \/ PushCasFails(w) \/ Uncount(w)

Next == \E w \in Workers : Step(w)

Spec == Init /\ [][Next]_vars

-----------------------------------------------------------------------------
PC == {"idle", "popLoad", "popNext", "popCas", "mark", "publish", "test", "claim", "copy",
       "pushFree", "pushLoad", "pushCas", "uncount", "trap"}
Pointers == Slots \cup {Invalid}

(* Types of the shared words and of the threads' locals; the counters of   *)
(* slots in use never go below zero.                                       *)
TypeOK ==
  /\ head \in [Kinds -> [index : Pointers, version : Nat]]
  /\ next \in [Slots -> Pointers]
  /\ allocated \subseteq Slots
  /\ status \in [Susps -> {"FREE", "CLAIMED", "PARKED"}]
  /\ contPtr \in [Susps -> Conts \cup {Invalid}]
  /\ content \in [Conts -> States \cup {NoState}]
  /\ inUse \in [Kinds -> Nat]
  /\ local \in [Workers -> [pc : PC, op : {"none", "park", "resume"}, kind : Kinds,
                            snap : [index : Pointers, version : Nat], nxt : Pointers,
                            slot : Pointers, cont : Pointers, susp : Pointers,
                            state : States \cup {NoState}]]
  /\ handed \subseteq Susps
  /\ calls \in 0 .. MaxCalls
  /\ free \in [Kinds -> Seq(Slots)]

(* A thread holds a slot from the pop to the moment it is parked, and from *)
(* the claim of its suspension to the push.                                *)
Holds(me, s) ==
  \/ me.pc \in {"mark", "pushFree", "pushLoad", "pushCas"} /\ s = me.slot
  \/ me.pc \in {"popLoad", "popNext", "popCas", "mark"} /\ me.kind = "susp" /\ s = me.cont
  \/ me.pc = "publish" /\ s \in {me.cont, me.susp}
  \/ me.pc = "copy" /\ s \in {me.susp, contPtr[me.susp]}
  \/ me.op = "resume" /\ me.pc \in {"pushFree", "pushLoad", "pushCas"} /\ s = me.susp
  \/ me.op = "resume" /\ me.pc = "uncount" /\ me.kind = "cont" /\ s = me.susp

Parked(s) == s \in Susps /\ status[s] = "PARKED"
Saved(s) == Parked(s) \/ \E t \in Susps : Parked(t) /\ contPtr[t] = s
OnList(s) == \E kind \in Kinds : \E n \in DOMAIN free[kind] : free[kind][n] = s

(* A slot belongs to one thread, one parked suspension or the free lists:  *)
(* no two threads ever work on the same slot, however pops, pushes and     *)
(* late resumes of the same pointer interleave.                            *)
NoSharedSlot ==
  \A s \in Slots :
    /\ \A v, w \in Workers : Holds(local[v], s) /\ Holds(local[w], s) => v = w
    /\ \A w \in Workers : Holds(local[w], s) => ~ Saved(s) /\ ~ OnList(s)
    /\ ~ (Saved(s) /\ OnList(s))
    /\ \A t, u \in Susps :
         Parked(t) /\ Parked(u) /\ contPtr[t] = s /\ contPtr[u] = s => t = u

(* No slot is lost either: failed parks and resumes give everything back.  *)
NoLostSlot ==
  \A s \in Slots : OnList(s) \/ Saved(s) \/ \E w \in Workers : Holds(local[w], s)

(* The words in memory are the free lists: heads and next_free pointers    *)
(* chain exactly the free slots, each once.                                *)
Link(list, n) == IF n <= Len(list) THEN list[n] ELSE Invalid
Chained(kind) ==
  LET list == free[kind]
  IN  /\ head[kind].index = Link(list, 1)
      /\ \A n \in DOMAIN list : /\ next[list[n]] = Link(list, n + 1)
                                /\ list[n] \in SlotsOf(kind) \ allocated
      /\ \A m, n \in DOMAIN list : list[m] = list[n] => m = n
ListInMemory == \A kind \in Kinds : Chained(kind)

(* The checks in push and resume that end in trap_invariant never fire.    *)
NoTrap == \A w \in Workers : ~ At(w, "trap")

(* Parking and resuming implement a set of parked worker states.           *)
Work == INSTANCE ParkedWork WITH
          parked <- [s \in Susps |-> IF status[s] = "PARKED" THEN content[contPtr[s]]
                                                             ELSE NoState],
          hand <- [w \in Workers |->
                     IF local[w].op # "resume" THEN NoState
                     ELSE IF At(w, "copy") THEN content[contPtr[local[w].susp]]
                     ELSE local[w].state]
ImplementsParkedWork == Work!Spec
=============================================================================
