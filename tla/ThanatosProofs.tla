-------------------------- MODULE ThanatosProofs --------------------------
(***************************************************************************)
(* The safety of the Thanatos runtime, for any number of clients, workers, *)
(* slots and suspensions, any capacity of its queues and any scripts.      *)
(*                                                                         *)
(* The argument follows tokens.  A token is the continuation of a request: *)
(* the right to go on with its term or with its parked suspension.  It     *)
(* lies with a client that submits, in an SQE, with a worker, in a CQE,    *)
(* with the dispatcher, in the slot of the request, in io_wait_map, or     *)
(* with the thread that takes it out of there.  TokenInv says that each    *)
(* request which owns a slot has exactly one, that no two go on with the   *)
(* same suspension, and that this suspension is parked; every action moves *)
(* one token, makes one when a request gets its slot, or ends one when the *)
(* slot is given back.  TokenMoves, TokenStarts and TokenEnds say that     *)
(* this is enough.  The rest of the invariant Inv is what the actions need *)
(* to move the right token: what clients and workers hold, that an event   *)
(* names the suspension it leaves, and that a slot does.                   *)
(*                                                                         *)
(* What the invariant says of leaks and of output depends on how calls may *)
(* end.  Fails and Completes say which ends the constants allow, so one    *)
(* invariant serves the theorems with and without those hypotheses.        *)
(***************************************************************************)
EXTENDS Thanatos, FiniteSetTheorems, SequenceTheorems, TLAPS

(* The values the variables of the model take.  Node is what a slot, an SQE *)
(* or a CQE may carry: a suspension, a program, or the finished result.     *)
Node    == Susps \cup Programs \cup {<<>>}
ReqIds  == 0 .. MaxRequests
Alphabet == {op \in Ops : \E p \in Programs : \E k \in DOMAIN p : p[k] = op}
Scripts == Seq(Alphabet)   \* what clients reduce, and what is left of it
Budget  == 0 .. Unlimited

(* Some script reads past the end of its file; only then a call can fail.  *)
Fails   == "eof" \in Alphabet
Reasons == {"NONE", "GAS", "STEP_LIMIT", "STDIN", "STDOUT"}
             \cup (IF Fails THEN {"IO_EOF"} ELSE {})
Results == {"DONE", "YIELD", "IO_WAIT"} \cup (IF Fails THEN {"ERROR"} ELSE {})

(* A pending slot, a client, a submission (SQE), a completion (CQE), a      *)
(* worker, a saved suspension, the stdin thread and the writer that         *)
(* publishes stdout.                                                        *)
Slot     == [req : ReqIds, node : Node, event : Results, done : BOOLEAN]
Pcs      == {"idle", "acquire", "slotWait", "submit", "await", "registered",
             "demand", "release", "drain"}
              \cup (IF Fails THEN {"releaseError"} ELSE {})
Client   == [pc : Pcs,
             req : ReqIds, slot : 0 .. Slots, node : Node,
             steps : Budget, budget : Budget]
Sqe      == [req : Requests, node : Node, steps : Budget]
Cqe      == [req : ReqIds, node : Node, event : Results]
Worker   == [pc : {"take", "loop", "run", "wait", "post", "postDone", "postError"},
             req : ReqIds, rest : Scripts, left : Budget, gas : 0 .. Gas,
             node : Node \cup {NoSusp}]
Saved    == [status : {"FREE", "PARKED"}, reason : Reasons, rest : Scripts, left : Budget]
Reader   == [pc : {"wait", "push", "take", "remove", "submit"},
             susp : Susps \cup {NoSusp}, req : ReqIds]
Publish  == [by : Clients \cup {Pump, NoOne}, pc : {"pop", "take", "remove", "submit"},
             susp : Susps \cup {NoSusp}, req : ReqIds]

(* The types of the variables, one conjunct for each part of the runtime.   *)
SlotTypes   == /\ nextReq \in 1 .. MaxRequests + 1
               /\ pending \in [1 .. Slots -> Slot]
               /\ held \subseteq 1 .. Slots
               /\ \A i \in 1 .. Slots : pending[i].done => pending[i].req # 0
ClientTypes == client \in [Clients -> Client]
QueueTypes  == /\ sq \in Seq(Sqe) /\ Len(sq) <= SqCapacity
               /\ cq \in Seq(Cqe) /\ Len(cq) <= CqCapacity
               /\ \A k \in DOMAIN cq : cq[k].req # 0
WorkerTypes == worker \in [Workers -> Worker] /\ susp \in [Susps -> Saved]
DispTypes   == /\ disp \in [pc : {"take", "deliver", "wakePump"}, cqe : Cqe]
               /\ disp.pc = "deliver" => disp.cqe.req # 0
               /\ dropped \in Nat
IoTypes     == /\ stdin \in 0 .. StdinCapacity
               /\ stdout \in Seq(ReqIds) /\ Len(stdout) <= StdoutCapacity
               /\ stdinWait \in Seq(Susps) /\ stdoutWait \in Seq(Susps)
               /\ ioWait \in [Susps -> ReqIds]
               /\ demand \in Nat
WakerTypes  == /\ reader \in Reader
               /\ reader.pc \in {"remove", "submit"} => reader.susp \in Susps
               /\ reader.pc = "submit" => reader.req # 0
               /\ pub \in Publish
               /\ pub.pc \in {"remove", "submit"} => pub.susp \in Susps
               /\ pub.pc = "submit" => pub.req # 0
               /\ pub.by = NoOne => pub = NoPub
               /\ pumpWake \in BOOLEAN /\ pumpPc \in {"try", "doze", "off"}

Types == /\ SlotTypes /\ ClientTypes /\ QueueTypes /\ WorkerTypes
         /\ DispTypes /\ IoTypes /\ WakerTypes

(* What a worker holds: a request unless it takes one, a suspension once   *)
(* it has parked.                                                          *)
WorkerInv ==
  \A w \in Workers :
    LET me == worker[w]
    IN  /\ me.pc = "take" <=> me.req = 0
        /\ me.pc \in {"take", "loop", "run", "postDone"} => me.node = NoSusp
        /\ me.pc \in {"wait", "post"} => me.node \in Susps
        /\ me.pc # "postError"

(* What a client holds.                                                    *)
Owning == {"submit", "await", "registered", "demand", "release", "releaseError"}
ClientOK(c) ==
  LET me == client[c]
  IN  /\ me.pc \in Owning <=> me.slot # 0
      /\ me.slot # 0 => pending[me.slot].req = me.req
      /\ me.pc # "idle" => me.req \in 1 .. nextReq - 1
      /\ me.pc = "idle" => me.req = 0
      /\ me.pc \in {"acquire", "slotWait"} => me.node \notin Susps
      /\ me.pc \in {"registered", "release", "releaseError"} => pending[me.slot].done
      /\ me.pc = "registered" => me.slot \in held /\ pending[me.slot].node \in Susps
      /\ me.pc # "idle" => me.budget \in Budgets
      /\ me.pc = "release" =>
           pending[me.slot].event = "DONE" \/ me.budget # Unlimited
OwnRequest ==
  \A c, d \in Clients : client[c].req = client[d].req /\ client[c].req # 0 => c = d
HeldInv ==
  \A i \in held : \E c \in Clients : client[c].pc = "registered" /\ client[c].slot = i
ClientInv == (\A c \in Clients : ClientOK(c)) /\ OwnRequest /\ HeldInv

(* An event that leaves the reduction parked names its suspension.         *)
EventOK(e) == /\ e.event \in {"IO_WAIT", "YIELD"} => e.node \in Susps
              /\ e.event = "DONE" => e.node \notin Susps
EventInv == /\ \A k \in DOMAIN cq : EventOK(cq[k])
            /\ EventOK(disp.cqe)
            /\ \A i \in 1 .. Slots : EventOK(pending[i])

(* The initial state has the types.                                        *)
LEMMA InitTypes == Init => Types
<1> SUFFICES ASSUME Init PROVE Types
  OBVIOUS
<1> USE SizesAssumption, InputsAssumption, NamesAssumption DEF Init, ReqIds, Node, Requests
<1>1. SlotTypes
  BY DEF SlotTypes, Slot, FreeSlot, Results
<1>2. ClientTypes
  BY DEF ClientTypes, Client, IdleClient, Budget, Pcs
<1>3. QueueTypes
  BY DEF QueueTypes
<1>4. WorkerTypes
  BY DEF WorkerTypes, Worker, IdleWorker, Scripts, Budget, Saved, FreeSusp, Reasons
<1>5. DispTypes
  BY DEF DispTypes, Cqe, Results
<1>6. IoTypes
  BY DEF IoTypes
<1>7. WakerTypes
  <2>1. pumpPc \in {"try", "doze", "off"}
    BY DEF Init
  <2>2. reader \in Reader /\ pub \in Publish
    BY DEF Reader, Publish, NoPub
  <2> QED
    BY <2>1, <2>2 DEF WakerTypes, NoPub
<1> QED
  BY <1>1, <1>2, <1>3, <1>4, <1>5, <1>6, <1>7 DEF Types

(* Only client c changes.                                                  *)
ClientIs(c, pc, req, slot, node, budget) ==
  /\ client' \in [Clients -> Client]
  /\ \A d \in Clients \ {c} : client'[d] = client[d]
  /\ client'[c].pc = pc /\ client'[c].req = req
  /\ client'[c].slot = slot /\ client'[c].node = node
  /\ client'[c].budget = budget
ClientGoes(c, pc, slot, node) ==
  ClientIs(c, pc, client[c].req, slot, node, client[c].budget)

(* Only slot i changes.                                                    *)
SlotIs(i, req, node, event, done) ==
  /\ pending' \in [1 .. Slots -> Slot]
  /\ \A j \in 1 .. Slots : j # i => pending'[j] = pending[j]
  /\ pending'[i].req = req /\ pending'[i].node = node
  /\ pending'[i].event = event /\ pending'[i].done = done

(* Only worker w changes.                                                  *)
WorkerIs(w, pc, req, node) ==
  /\ worker' \in [Workers -> Worker]
  /\ \A v \in Workers \ {w} : worker'[v] = worker[v]
  /\ worker'[w].pc = pc /\ worker'[w].req = req /\ worker'[w].node = node

(* What the types say of one client.                                        *)
LEMMA ClientAt == ASSUME Types, NEW c \in Clients
                  PROVE  /\ client \in [Clients -> Client] /\ client[c] \in Client
                         /\ client[c].req \in ReqIds /\ client[c].slot \in 0 .. Slots
                         /\ client[c].node \in Node
  BY DEF Types, ClientTypes, Client

(* A client that is assigned a record changes alone.                        *)
LEMMA ClientSet ==
  ASSUME Types, NEW c \in Clients, NEW m \in Client, client' = [client EXCEPT ![c] = m]
  PROVE  ClientIs(c, m.pc, m.req, m.slot, m.node, m.budget)
  BY DEF Types, ClientTypes, ClientIs

(* A client that moves to another place of its loop keeps the rest.         *)
LEMMA ClientPc ==
  ASSUME Types, NEW c \in Clients, NEW pc \in Pcs, client' = [client EXCEPT ![c].pc = pc]
  PROVE  ClientGoes(c, pc, client[c].slot, client[c].node)
<1> DEFINE m == [client[c] EXCEPT !.pc = pc]
<1>1. client' = [client EXCEPT ![c] = m]
  OBVIOUS
<1>2. m \in Client /\ m.pc = pc /\ m.req = client[c].req /\ m.slot = client[c].slot
      /\ m.node = client[c].node /\ m.budget = client[c].budget
  BY ClientAt DEF Client
<1> HIDE DEF m
<1> QED
  BY <1>1, <1>2, ClientSet DEF ClientGoes

(* A client that takes a slot.                                              *)
LEMMA ClientPcSlot ==
  ASSUME Types, NEW c \in Clients, NEW pc \in Pcs, NEW i \in 0 .. Slots,
         client' = [client EXCEPT ![c].pc = pc, ![c].slot = i]
  PROVE  ClientGoes(c, pc, i, client[c].node)
<1> DEFINE m == [client[c] EXCEPT !.pc = pc, !.slot = i]
<1>1. client' = [client EXCEPT ![c] = m]
  BY ClientAt
<1>2. m \in Client /\ m.pc = pc /\ m.req = client[c].req /\ m.slot = i
      /\ m.node = client[c].node /\ m.budget = client[c].budget
  BY ClientAt DEF Client
<1> HIDE DEF m
<1> QED
  BY <1>1, <1>2, ClientSet DEF ClientGoes

(* A client whose step limit is used up.                                    *)
LEMMA ClientPcSteps ==
  ASSUME Types, NEW c \in Clients, NEW pc \in Pcs,
         client' = [client EXCEPT ![c].pc = pc, ![c].steps = 0]
  PROVE  ClientGoes(c, pc, client[c].slot, client[c].node)
<1> DEFINE m == [client[c] EXCEPT !.pc = pc, !.steps = 0]
<1>1. client' = [client EXCEPT ![c] = m]
  BY ClientAt
<1>2. 0 \in Budget
  BY SizesAssumption DEF Budget
<1>3. m \in Client /\ m.pc = pc /\ m.req = client[c].req /\ m.slot = client[c].slot
      /\ m.node = client[c].node /\ m.budget = client[c].budget
  BY ClientAt, <1>2 DEF Client
<1> HIDE DEF m
<1> QED
  BY <1>1, <1>3, ClientSet DEF ClientGoes

(* A client that goes on with another node.                                 *)
LEMMA ClientPcNode ==
  ASSUME Types, NEW c \in Clients, NEW pc \in Pcs, NEW node \in Node,
         client' = [client EXCEPT ![c].pc = pc, ![c].node = node]
  PROVE  ClientGoes(c, pc, client[c].slot, node)
<1> DEFINE m == [client[c] EXCEPT !.pc = pc, !.node = node]
<1>1. client' = [client EXCEPT ![c] = m]
  BY ClientAt
<1>2. m \in Client /\ m.pc = pc /\ m.req = client[c].req /\ m.slot = client[c].slot
      /\ m.node = node /\ m.budget = client[c].budget
  BY ClientAt DEF Client
<1> HIDE DEF m
<1> QED
  BY <1>1, <1>2, ClientSet DEF ClientGoes

(* The client between two calls.                                            *)
LEMMA IdleClientType ==
  IdleClient \in Client /\ IdleClient.pc = "idle" /\ IdleClient.req = 0 /\ IdleClient.slot = 0
<1>1. "idle" \in Pcs /\ 0 \in ReqIds /\ 0 \in 0 .. Slots /\ <<>> \in Node /\ 0 \in Budget
  BY SizesAssumption DEF Pcs, ReqIds, Node, Budget
<1> QED
  BY <1>1 DEF IdleClient, Client

(* thanatos_reduce begins: the client gets the next request number, a       *)
(* program and a step limit.                                                *)
LEMMA CallEffect ==
  ASSUME Types, NEW c \in Clients, Call(c)
  PROVE  \E p \in Programs, b \in Budgets : ClientIs(c, "acquire", nextReq, 0, p, b)
<1>1. PICK p \in Programs, b \in Budgets :
        client' = [client EXCEPT ![c] = [pc |-> "acquire", req |-> nextReq, slot |-> 0,
                                         node |-> p, steps |-> b, budget |-> b]]
  BY Zenon DEF Call
<1> DEFINE m == [pc |-> "acquire", req |-> nextReq, slot |-> 0, node |-> p,
                 steps |-> b, budget |-> b]
<1>2. client' = [client EXCEPT ![c] = m]
  BY <1>1
<1>3. nextReq \in ReqIds /\ 0 \in 0 .. Slots
  BY SizesAssumption DEF Call, Types, SlotTypes, ReqIds
<1>4. p \in Node /\ b \in Budget /\ "acquire" \in Pcs
  BY InputsAssumption DEF Node, Budget, Pcs
<1>5. m \in Client
  BY <1>3, <1>4 DEF Client
<1>6. m.pc = "acquire" /\ m.req = nextReq /\ m.slot = 0 /\ m.node = p /\ m.budget = b
  OBVIOUS
<1> HIDE DEF m
<1> QED
  BY <1>2, <1>5, <1>6, ClientSet

(* A slot that is assigned a record changes alone.                          *)
LEMMA SlotSet ==
  ASSUME Types, NEW i \in 1 .. Slots, NEW m \in Slot, pending' = [pending EXCEPT ![i] = m]
  PROVE  SlotIs(i, m.req, m.node, m.event, m.done)
  BY DEF Types, SlotTypes, SlotIs

(* A slot that is given to a request.                                       *)
LEMMA SlotTake ==
  ASSUME Types, NEW i \in 1 .. Slots, NEW r \in ReqIds,
         pending' = [pending EXCEPT ![i].req = r, ![i].done = FALSE]
  PROVE  SlotIs(i, r, pending[i].node, pending[i].event, FALSE)
<1> DEFINE m == [pending[i] EXCEPT !.req = r, !.done = FALSE]
<1>1. pending' = [pending EXCEPT ![i] = m]
  BY DEF Types, SlotTypes
<1>2. pending[i] \in Slot
  BY DEF Types, SlotTypes
<1>3. m \in Slot /\ m.req = r /\ m.node = pending[i].node /\ m.event = pending[i].event
      /\ m.done = FALSE
  BY <1>2 DEF Slot
<1> HIDE DEF m
<1> QED
  BY <1>1, <1>3, SlotSet

(* A slot whose event has been consumed.                                    *)
LEMMA SlotClear ==
  ASSUME Types, NEW i \in 1 .. Slots, pending' = [pending EXCEPT ![i].done = FALSE]
  PROVE  SlotIs(i, pending[i].req, pending[i].node, pending[i].event, FALSE)
<1> DEFINE m == [pending[i] EXCEPT !.done = FALSE]
<1>1. pending' = [pending EXCEPT ![i] = m]
  OBVIOUS
<1>2. pending[i] \in Slot
  BY DEF Types, SlotTypes
<1>3. m \in Slot /\ m.req = pending[i].req /\ m.node = pending[i].node
      /\ m.event = pending[i].event /\ m.done = FALSE
  BY <1>2 DEF Slot
<1> HIDE DEF m
<1> QED
  BY <1>1, <1>3, SlotSet

(* acquire_pending_slot: the first slot without a request is taken, and no  *)
(* slot up to it is locked; or all are taken and the client waits.          *)
LEMMA AcquireEffect ==
  ASSUME Types, NEW c \in Clients, AcquireSlot(c)
  PROVE  \/ \E i \in 1 .. Slots :
              /\ pending[i].req = 0 /\ held \cap 1 .. i = {}
              /\ SlotIs(i, client[c].req, pending[i].node, pending[i].event, FALSE)
              /\ ClientGoes(c, "submit", i, client[c].node)
         \/ /\ ClientGoes(c, "slotWait", client[c].slot, client[c].node)
            /\ pending' = pending
<1>0. "submit" \in Pcs /\ "slotWait" \in Pcs /\ client[c].req \in ReqIds
  BY ClientAt DEF Pcs
<1>1. ASSUME NEW i \in 1 .. Slots,
             pending' = [pending EXCEPT ![i].req = client[c].req, ![i].done = FALSE],
             client' = [client EXCEPT ![c].pc = "submit", ![c].slot = i]
      PROVE  /\ SlotIs(i, client[c].req, pending[i].node, pending[i].event, FALSE)
             /\ ClientGoes(c, "submit", i, client[c].node)
  <2>1. i \in 0 .. Slots
    BY SizesAssumption
  <2> QED
    BY <1>0, <1>1, <2>1, SlotTake, ClientPcSlot
<1>2. ASSUME client' = [client EXCEPT ![c].pc = "slotWait"]
      PROVE  ClientGoes(c, "slotWait", client[c].slot, client[c].node)
  BY <1>0, <1>2, ClientPc
<1> QED
  BY <1>1, <1>2, Zenon DEF AcquireSlot

(* A client woken by its slot: it returns, registers its suspension in      *)
(* io_wait_map under the lock of its slot, or resubmits.                    *)
LEMMA CompletionEffect ==
  ASSUME Types, EventInv, ClientInv, NEW c \in Clients, Completion(c)
  PROVE  LET i    == client[c].slot
             node == pending[i].node
             Goes(pc, n) == ClientGoes(c, pc, i, n)
         IN  /\ client[c].pc = "await"
             /\ i \in 1 .. Slots
             /\ pending[i].done
             /\ \/ /\ \/ /\ pending[i].event = "DONE" \/ client[c].budget # Unlimited
                         /\ Goes("release", client[c].node)
                      \/ Goes("releaseError", client[c].node)
                   /\ UNCHANGED <<pending, held, ioWait>>
                \/ /\ pending[i].event = "IO_WAIT"
                   /\ node \in Susps
                   /\ ioWait' \in [Susps -> ReqIds]
                   /\ ioWait'[node] = client[c].req
                   /\ \A s \in Susps : s # node => ioWait'[s] = ioWait[s]
                   /\ held' = held \cup {i}
                   /\ Goes("registered", client[c].node)
                   /\ UNCHANGED pending
                \/ /\ pending[i].event = "YIELD"
                   /\ node \in Susps
                   /\ SlotIs(i, pending[i].req, node, pending[i].event, FALSE)
                   /\ Goes("submit", node)
                   /\ UNCHANGED <<held, ioWait>>
<1> DEFINE i    == client[c].slot
           node == pending[i].node
           Goes(pc, n) == ClientGoes(c, pc, i, n)
<1>1. client[c].pc = "await" /\ pending[i].done
  BY DEF Completion
<1>2. i \in 1 .. Slots
  BY <1>1, ClientAt, SizesAssumption DEF ClientInv, ClientOK, Owning
<1>3. node \in Node /\ EventOK(pending[i])
  BY <1>2 DEF Types, SlotTypes, Slot, EventInv
<1>4. {"release", "registered", "submit"} \subseteq Pcs
  BY DEF Pcs
<1>a. pending[i].event = "ERROR" => "releaseError" \in Pcs
  BY <1>2 DEF Types, SlotTypes, Slot, Results, Pcs
<1>5. ASSUME client' = [client EXCEPT ![c].pc = "release"]
      PROVE  Goes("release", client[c].node)
  BY <1>4, <1>5, ClientPc
<1>6. ASSUME client' = [client EXCEPT ![c].pc = "releaseError"], pending[i].event = "ERROR"
      PROVE  Goes("releaseError", client[c].node)
  BY <1>a, <1>6, ClientPc
<1>7. ASSUME pending[i].event = "IO_WAIT",
             ioWait' = [ioWait EXCEPT ![node] = client[c].req],
             client' = [client EXCEPT ![c].pc = "registered"]
      PROVE  /\ node \in Susps
             /\ ioWait' \in [Susps -> ReqIds]
             /\ ioWait'[node] = client[c].req
             /\ \A s \in Susps : s # node => ioWait'[s] = ioWait[s]
             /\ Goes("registered", client[c].node)
  <2>1. Goes("registered", client[c].node)
    BY <1>4, <1>7, ClientPc
  <2>2. node \in Susps
    BY <1>3, <1>7 DEF EventOK
  <2> QED
    BY <1>7, <2>1, <2>2, ClientAt DEF Types, IoTypes
<1>8. ASSUME pending[i].event = "YIELD",
             pending' = [pending EXCEPT ![i].done = FALSE],
             client' = [client EXCEPT ![c].pc = "submit", ![c].node = node]
      PROVE  /\ node \in Susps
             /\ SlotIs(i, pending[i].req, node, pending[i].event, FALSE)
             /\ Goes("submit", node)
  <2>1. Goes("submit", node)
    BY <1>3, <1>4, <1>8, ClientPcNode
  <2>2. node \in Susps
    BY <1>3, <1>8 DEF EventOK
  <2> QED
    BY <1>2, <1>8, <2>1, <2>2, SlotClear
<1> HIDE DEF Goes
<1>9. \/ /\ \/ /\ pending[i].event = "DONE" \/ client[c].budget # Unlimited
               /\ Goes("release", client[c].node)
            \/ Goes("releaseError", client[c].node)
         /\ UNCHANGED <<pending, held, ioWait>>
      \/ /\ pending[i].event = "IO_WAIT"
         /\ ioWait' = [ioWait EXCEPT ![node] = client[c].req]
         /\ held' = held \cup {i}
         /\ client' = [client EXCEPT ![c].pc = "registered"]
         /\ UNCHANGED pending
      \/ /\ pending[i].event = "YIELD"
         /\ pending' = [pending EXCEPT ![i].done = FALSE]
         /\ client' = [client EXCEPT ![c].pc = "submit", ![c].node = node]
         /\ UNCHANGED <<held, ioWait>>
  BY <1>5, <1>6, Zenon DEF Completion, BudgetExhausted
<1> QED
  BY <1>1, <1>2, <1>7, <1>8, <1>9, Zenon DEF Goes

(* After registering, the client clears the event and unlocks its slot.     *)
LEMMA RegisterEffect ==
  ASSUME Types, ClientInv, NEW c \in Clients, AfterRegister(c)
  PROVE  LET i == client[c].slot
         IN  /\ i \in held
             /\ SlotIs(i, pending[i].req, pending[i].node, pending[i].event, FALSE)
             /\ held' = held \ {i}
             /\ \E pc \in {"demand", "await"} :
                  ClientGoes(c, pc, i, client[c].node)
<1> DEFINE i == client[c].slot
<1>1. i \in held /\ i \in 1 .. Slots
  BY DEF AfterRegister, ClientInv, ClientOK, Types, SlotTypes
<1>2. SlotIs(i, pending[i].req, pending[i].node, pending[i].event, FALSE)
  BY <1>1, SlotClear DEF AfterRegister
<1>3. {"demand", "await"} \subseteq Pcs
  BY DEF Pcs
<1>4. PICK pc \in {"demand", "await"} : client' = [client EXCEPT ![c].pc = pc]
  BY DEF AfterRegister
<1>5. ClientGoes(c, pc, i, client[c].node)
  BY <1>3, <1>4, ClientPc
<1> QED
  BY <1>1, <1>2, <1>5 DEF AfterRegister

(* A client that asked the stdin thread for input waits again.              *)
LEMMA DemandEffect ==
  ASSUME Types, NEW c \in Clients, RaiseDemand(c)
  PROVE  ClientGoes(c, "await", client[c].slot, client[c].node)
<1>1. "await" \in Pcs
  BY DEF Pcs
<1> QED
  BY <1>1, ClientPc DEF RaiseDemand

(* A client that has submitted waits.                                       *)
LEMMA SubmitEffect ==
  ASSUME Types, NEW c \in Clients, ClientSubmit(c)
  PROVE  ClientGoes(c, "await", client[c].slot, client[c].node)
<1>1. "await" \in Pcs
  BY DEF Pcs
<1> QED
  BY <1>1, ClientPcSteps DEF ClientSubmit

(* The slot is free again; one waiting client may look for it.             *)
LEMMA ReleaseEffect ==
  ASSUME Types, ClientInv, NEW c \in Clients, ReleaseSlot(c)
  PROVE  LET i == client[c].slot
         IN  /\ i \in (1 .. Slots) \ held
             /\ SlotIs(i, 0, <<>>, "DONE", FALSE)
             /\ client' \in [Clients -> Client]
             /\ client'[c].slot = 0
             /\ client'[c].budget = client[c].budget \/ client'[c].pc = "idle"
             /\ \/ client[c].pc = "release" /\ client'[c].pc = "drain"
                   /\ client'[c].req = client[c].req
                \/ client[c].pc = "releaseError" /\ client'[c] = IdleClient
             /\ \A d \in Clients \ {c} :
                  \/ client'[d] = client[d]
                  \/ /\ client[d].pc = "slotWait" /\ client'[d].pc = "acquire"
                     /\ client'[d].req = client[d].req /\ client'[d].slot = client[d].slot
                     /\ client'[d].node = client[d].node
                     /\ client'[d].budget = client[d].budget
<1> DEFINE i == client[c].slot
           leave == IF client[c].pc = "release"
                      THEN [client[c] EXCEPT !.pc = "drain", !.slot = 0]
                      ELSE IdleClient
<1>1. client[c].pc \in {"release", "releaseError"} /\ i \notin held
  BY DEF ReleaseSlot
<1>2. i \in 1 .. Slots
  BY <1>1, ClientAt, SizesAssumption DEF ClientInv, ClientOK, Owning
<1>3. SlotIs(i, 0, <<>>, "DONE", FALSE)
  <2>1. FreeSlot \in Slot
    BY SizesAssumption DEF FreeSlot, Slot, ReqIds, Node, Results
  <2>2. pending' = [pending EXCEPT ![i] = FreeSlot]
    BY DEF ReleaseSlot
  <2> QED
    BY <1>2, <2>1, <2>2, SlotSet DEF FreeSlot
<1>4. /\ leave \in Client /\ leave.slot = 0
      /\ leave.budget = client[c].budget \/ leave.pc = "idle"
      /\ \/ client[c].pc = "release" /\ leave.pc = "drain" /\ leave.req = client[c].req
         \/ client[c].pc = "releaseError" /\ leave = IdleClient
  <2>1. "drain" \in Pcs /\ 0 \in 0 .. Slots
    BY SizesAssumption DEF Pcs
  <2> QED
    BY <1>1, <2>1, ClientAt, IdleClientType DEF Client
<1>5. \/ client' = [client EXCEPT ![c] = leave]
      \/ \E d \in Clients : /\ client[d].pc = "slotWait"
                            /\ client' = [client EXCEPT ![c] = leave, ![d].pc = "acquire"]
  BY Zenon DEF ReleaseSlot
<1> HIDE DEF leave
<1>6. CASE client' = [client EXCEPT ![c] = leave]
  BY <1>1, <1>2, <1>3, <1>4, <1>6, ClientAt
<1>7. ASSUME NEW d \in Clients, client[d].pc = "slotWait",
             client' = [client EXCEPT ![c] = leave, ![d].pc = "acquire"]
      PROVE  /\ client' \in [Clients -> Client]
             /\ client'[c] = leave
             /\ client'[d] = [client[d] EXCEPT !.pc = "acquire"]
             /\ \A e \in Clients \ {c, d} : client'[e] = client[e]
  <2>1. d # c
    BY <1>1, <1>7
  <2>2. [client[d] EXCEPT !.pc = "acquire"] \in Client
    <3>1. "acquire" \in Pcs
      BY DEF Pcs
    <3> QED
      BY <3>1, ClientAt DEF Client
  <2> QED
    BY <1>4, <1>7, <2>1, <2>2, ClientAt
<1>8. ASSUME NEW d \in Clients
      PROVE  LET m == [client[d] EXCEPT !.pc = "acquire"]
             IN  m.pc = "acquire" /\ m.req = client[d].req /\ m.slot = client[d].slot
                 /\ m.node = client[d].node /\ m.budget = client[d].budget
  BY ClientAt DEF Client
<1>9. CASE \E d \in Clients : /\ client[d].pc = "slotWait"
                              /\ client' = [client EXCEPT ![c] = leave, ![d].pc = "acquire"]
  <2>1. PICK d \in Clients : /\ client[d].pc = "slotWait"
                             /\ client' = [client EXCEPT ![c] = leave, ![d].pc = "acquire"]
    BY <1>9, Zenon
  <2>2. /\ client' \in [Clients -> Client]
        /\ client'[c] = leave
        /\ client'[d] = [client[d] EXCEPT !.pc = "acquire"]
        /\ \A e \in Clients \ {c, d} : client'[e] = client[e]
    BY <1>7, <2>1, Zenon
  <2>3. \A e \in Clients \ {c} :
          \/ client'[e] = client[e]
          \/ /\ client[e].pc = "slotWait" /\ client'[e].pc = "acquire"
             /\ client'[e].req = client[e].req /\ client'[e].slot = client[e].slot
             /\ client'[e].node = client[e].node
             /\ client'[e].budget = client[e].budget
    BY <1>8, <2>1, <2>2
  <2> QED
    BY <1>1, <1>2, <1>3, <1>4, <2>2, <2>3
<1> QED
  BY <1>5, <1>6, <1>9, Zenon

-----------------------------------------------------------------------------
(* Workers.                                                                *)

(* Programs, and the empty rest of one, are scripts.                        *)
LEMMA ProgramScripts == Programs \subseteq Scripts /\ <<>> \in Scripts
<1>1. ASSUME NEW p \in Programs PROVE p \in Scripts
  <2>1. p \in Seq(Ops)
    BY InputsAssumption
  <2>2. \A k \in 1 .. Len(p) : p[k] \in Alphabet
    BY <2>1 DEF Alphabet
  <2> QED
    BY <2>1, <2>2 DEF Scripts
<1> QED
  BY <1>1 DEF Scripts

(* What the types say of one worker.                                        *)
LEMMA WorkerAt ==
  ASSUME Types, NEW w \in Workers
  PROVE  /\ worker \in [Workers -> Worker] /\ worker[w] \in Worker
         /\ worker[w].req \in ReqIds /\ worker[w].node \in Node \cup {NoSusp}
         /\ worker[w].rest \in Scripts /\ worker[w].left \in Budget
         /\ worker[w].gas \in 0 .. Gas
  BY DEF Types, WorkerTypes, Worker

(* A worker that is assigned a record changes alone.                        *)
LEMMA WorkerSet ==
  ASSUME Types, NEW w \in Workers, NEW m \in Worker, worker' = [worker EXCEPT ![w] = m]
  PROVE  WorkerIs(w, m.pc, m.req, m.node)
  BY DEF Types, WorkerTypes, WorkerIs

(* Only the state saved in suspension s changes.                           *)
SavedIs(s, status, reason) ==
  /\ susp' \in [Susps -> Saved]
  /\ \A t \in Susps : t # s => susp'[t] = susp[t]
  /\ susp'[s].status = status /\ susp'[s].reason = reason

(* The worker between two jobs.                                             *)
LEMMA IdleWorkerType ==
  /\ IdleWorker \in Worker
  /\ IdleWorker.pc = "take" /\ IdleWorker.req = 0 /\ IdleWorker.node = NoSusp
<1>1. 0 \in ReqIds /\ 0 \in Budget /\ <<>> \in Scripts /\ 0 \in 0 .. Gas
  BY SizesAssumption, ProgramScripts DEF ReqIds, Budget
<1> QED
  BY <1>1 DEF IdleWorker, Worker

(* A worker that starts on a script, fresh or restored.                    *)
LEMMA WorkerLoads ==
  ASSUME Types, NEW w \in Workers, NEW r \in ReqIds, NEW rest \in Scripts,
         NEW left \in Budget,
         worker' = [worker EXCEPT ![w] = [IdleWorker EXCEPT !.pc = "loop", !.req = r,
                                            !.rest = rest, !.left = left]]
  PROVE  WorkerIs(w, "loop", r, NoSusp)
<1> DEFINE m == [IdleWorker EXCEPT !.pc = "loop", !.req = r, !.rest = rest, !.left = left]
<1>1. worker' = [worker EXCEPT ![w] = m]
  OBVIOUS
<1>2. m \in Worker /\ m.pc = "loop" /\ m.req = r /\ m.node = NoSusp
  BY IdleWorkerType DEF Worker
<1> HIDE DEF m
<1> QED
  BY <1>1, <1>2, WorkerSet

(* A worker parks its reduction: a free suspension takes it, and the worker *)
(* holds its name.                                                          *)
LEMMA ParkEffect ==
  ASSUME Types, NEW w \in Workers, NEW reason \in Reasons, NEW next \in {"post", "wait"},
         Park(w, reason, next)
  PROVE  \E s \in Susps : /\ susp[s].status = "FREE"
                          /\ SavedIs(s, "PARKED", reason)
                          /\ WorkerIs(w, next, worker[w].req, s)
<1>1. PICK s \in Susps :
        /\ susp[s].status = "FREE"
        /\ susp' = [susp EXCEPT ![s] = [status |-> "PARKED", reason |-> reason,
                                        rest |-> worker[w].rest, left |-> worker[w].left]]
        /\ worker' = [worker EXCEPT ![w] = [IdleWorker EXCEPT
                        !.pc = next, !.req = worker[w].req, !.node = s]]
  BY Zenon DEF Park
<1> DEFINE m == [IdleWorker EXCEPT !.pc = next, !.req = worker[w].req, !.node = s]
           t == [status |-> "PARKED", reason |-> reason,
                 rest |-> worker[w].rest, left |-> worker[w].left]
<1>2. worker' = [worker EXCEPT ![w] = m] /\ susp' = [susp EXCEPT ![s] = t]
  BY <1>1, Zenon
<1>3. m \in Worker /\ m.pc = next /\ m.req = worker[w].req /\ m.node = s
  <2>1. s \in Node \cup {NoSusp}
    BY DEF Node
  <2> QED
    BY <2>1, WorkerAt, IdleWorkerType DEF Worker
<1>4. t \in Saved /\ t.status = "PARKED" /\ t.reason = reason
  BY WorkerAt DEF Saved
<1> HIDE DEF m, t
<1>5. WorkerIs(w, next, worker[w].req, s)
  BY <1>2, <1>3, WorkerSet
<1>6. SavedIs(s, "PARKED", reason)
  BY <1>2, <1>4 DEF SavedIs, Types, WorkerTypes
<1> QED
  BY <1>1, <1>5, <1>6

(* A worker that reduces one step goes on or comes to the end of a batch.   *)
LEMMA AdvanceEffect ==
  ASSUME Types, NEW w \in Workers, NEW cost \in {0, 1}, Advance(w, cost),
         worker[w].rest # <<>>, worker[w].gas > 0, worker[w].left >= cost,
         worker[w].pc = "run"
  PROVE  \E pc \in {"loop", "run"} : WorkerIs(w, pc, worker[w].req, worker[w].node)
<1> DEFINE me == worker[w]
           last == Len(me.rest) = 1
           pc == IF last THEN "loop" ELSE me.pc
           rest == Tail(me.rest)
           left == me.left - cost
           gas == IF last THEN 0 ELSE me.gas - 1
           m == [me EXCEPT !.rest = rest, !.left = left, !.gas = gas, !.pc = pc]
<1>1. worker' = [worker EXCEPT ![w] = m]
  BY WorkerAt DEF Advance
<1>2. rest \in Scripts /\ pc \in {"loop", "run"}
  BY WorkerAt DEF Scripts
<1>3. left \in Budget /\ gas \in 0 .. Gas
  BY WorkerAt, SizesAssumption DEF Budget
<1>4. m \in Worker /\ m.pc = pc /\ m.req = me.req /\ m.node = me.node
  <2> HIDE DEF rest, left, gas, pc
  <2> QED
    BY <1>2, <1>3, WorkerAt DEF Worker
<1> HIDE DEF m
<1>5. WorkerIs(w, pc, me.req, me.node)
  BY <1>1, <1>4, WorkerSet
<1> QED
  BY <1>2, <1>5

(* A worker that tries a blocked read or write again.                       *)
LEMMA RetryEffect ==
  ASSUME Types, NEW w \in Workers, RetryIo(w), worker[w].gas > 0
  PROVE  /\ WorkerIs(w, worker[w].pc, worker[w].req, worker[w].node)
         /\ susp' = susp
<1> DEFINE gas == worker[w].gas - 1
           m == [worker[w] EXCEPT !.gas = gas]
<1>1. worker' = [worker EXCEPT ![w] = m] /\ susp' = susp
  BY DEF RetryIo
<1>2. gas \in 0 .. Gas
  BY WorkerAt, SizesAssumption
<1>3. m \in Worker /\ m.pc = worker[w].pc /\ m.req = worker[w].req /\ m.node = worker[w].node
  <2> HIDE DEF gas
  <2> QED
    BY <1>2, WorkerAt DEF Worker
<1> HIDE DEF m
<1> QED
  BY <1>1, <1>3, WorkerSet

(* What a resumed suspension goes on with is a script.                      *)
LEMMA ResumableScripts ==
  ASSUME Types, NEW s \in Susps
  PROVE  Resumable(s) \subseteq Scripts
<1>1. susp[s].rest \in Seq(Alphabet)
  BY DEF Types, WorkerTypes, Saved, Scripts
<1>2. ASSUME NEW k \in Nat, k <= Len(susp[s].rest)
      PROVE  SubSeq(susp[s].rest, 1, k) \in Seq(Alphabet)
  BY <1>1, <1>2
<1> QED
  BY <1>1, <1>2 DEF Resumable, Scripts

(* A worker takes a job: a term is reduced from its beginning, a parked     *)
(* suspension is freed and resumed, and any other suspension is an error.   *)
LEMMA DequeueEffect ==
  ASSUME Types, NEW w \in Workers, Dequeue(w)
  PROVE  LET job == Head(sq)
         IN  /\ worker[w].pc = "take"
             /\ sq # <<>> /\ sq' = Tail(sq)
             /\ \/ /\ job.node \notin Susps
                   /\ WorkerIs(w, "loop", job.req, NoSusp)
                   /\ susp' = susp
                \/ /\ job.node \in Susps /\ susp[job.node].status = "PARKED"
                   /\ WorkerIs(w, "loop", job.req, NoSusp)
                   /\ SavedIs(job.node, "FREE", "NONE")
                \/ /\ job.node \in Susps /\ susp[job.node].status # "PARKED"
                   /\ WorkerIs(w, "postError", job.req, job.node)
                   /\ susp' = susp
<1> DEFINE job == Head(sq)
<1>1. sq # <<>> /\ sq' = Tail(sq) /\ worker[w].pc = "take"
  BY DEF Dequeue
<1>2. job \in Sqe
  BY <1>1 DEF Types, QueueTypes
<1>3. job.req \in ReqIds /\ job.steps \in Budget /\ job.node \in Node
  BY <1>2, SizesAssumption DEF Sqe, Requests, ReqIds
<1> HIDE DEF job
<1>4. ASSUME job.node \notin Susps,
             worker' = [worker EXCEPT ![w] = [IdleWorker EXCEPT
                          !.pc = "loop", !.req = job.req, !.rest = job.node, !.left = job.steps]]
      PROVE  WorkerIs(w, "loop", job.req, NoSusp)
  <2>1. job.node \in Scripts
    BY <1>3, <1>4, ProgramScripts DEF Node
  <2> QED
    BY <1>3, <1>4, <2>1, WorkerLoads
<1>5. ASSUME job.node \in Susps, NEW rest \in Resumable(job.node),
             worker' = [worker EXCEPT ![w] = [IdleWorker EXCEPT
                          !.pc = "loop", !.req = job.req, !.rest = rest,
                          !.left = susp[job.node].left]]
      PROVE  WorkerIs(w, "loop", job.req, NoSusp)
  <2>1. rest \in Scripts /\ susp[job.node].left \in Budget
    BY <1>5, ResumableScripts DEF Types, WorkerTypes, Saved
  <2> QED
    BY <1>3, <1>5, <2>1, WorkerLoads
<1>6. ASSUME job.node \in Susps, susp' = [susp EXCEPT ![job.node] = FreeSusp]
      PROVE  SavedIs(job.node, "FREE", "NONE")
  <2>1. FreeSusp \in Saved
    BY SizesAssumption, ProgramScripts DEF FreeSusp, Saved, Reasons, Budget
  <2> QED
    BY <1>6, <2>1 DEF SavedIs, FreeSusp, Types, WorkerTypes
<1>7. ASSUME worker' = [worker EXCEPT ![w] = [IdleWorker EXCEPT
                          !.pc = "postError", !.req = job.req, !.node = job.node]]
      PROVE  WorkerIs(w, "postError", job.req, job.node)
  <2> DEFINE m == [IdleWorker EXCEPT !.pc = "postError", !.req = job.req, !.node = job.node]
  <2>1. worker' = [worker EXCEPT ![w] = m]
    BY <1>7
  <2>2. m \in Worker /\ m.pc = "postError" /\ m.req = job.req /\ m.node = job.node
    BY <1>3, IdleWorkerType DEF Worker
  <2> HIDE DEF m
  <2> QED
    BY <2>1, <2>2, WorkerSet
<1> QED
  BY <1>1, <1>4, <1>5, <1>6, <1>7, Zenon DEF Dequeue, job

(* A worker that has posted its completion is free for the next job.        *)
LEMMA PostEffect ==
  ASSUME Types, NEW w \in Workers, Post(w)
  PROVE  WorkerIs(w, "take", 0, NoSusp)
  BY IdleWorkerType, WorkerSet DEF Post

(* A worker that has queued its suspension as a waiter posts IO_WAIT.       *)
LEMMA QueueWaiterEffect ==
  ASSUME Types, NEW w \in Workers, QueueWaiter(w)
  PROVE  WorkerIs(w, "post", worker[w].req, worker[w].node)
<1> DEFINE m == [worker[w] EXCEPT !.pc = "post"]
<1>1. worker' = [worker EXCEPT ![w] = m]
  BY DEF QueueWaiter
<1>2. m \in Worker /\ m.pc = "post" /\ m.req = worker[w].req /\ m.node = worker[w].node
  BY WorkerAt DEF Worker
<1> HIDE DEF m
<1> QED
  BY <1>1, <1>2, WorkerSet

(* A batch begins: the step limit is used up, the script is finished, or    *)
(* the worker runs.                                                         *)
LEMMA StartEffect ==
  ASSUME Types, NEW w \in Workers, StartBatch(w)
  PROVE  \/ Park(w, "STEP_LIMIT", "post")
         \/ /\ \E pc \in {"postDone", "run"} : WorkerIs(w, pc, worker[w].req, worker[w].node)
            /\ susp' = susp
<1>1. ASSUME NEW pc \in {"postDone", "run"},
             worker' = [worker EXCEPT ![w].pc = pc, ![w].gas = Gas]
      PROVE  WorkerIs(w, pc, worker[w].req, worker[w].node)
  <2> DEFINE m == [worker[w] EXCEPT !.pc = pc, !.gas = Gas]
  <2>1. worker' = [worker EXCEPT ![w] = m]
    BY <1>1, WorkerAt
  <2>2. Gas \in 0 .. Gas
    BY SizesAssumption
  <2>3. m \in Worker /\ m.pc = pc /\ m.req = worker[w].req /\ m.node = worker[w].node
    BY <2>2, WorkerAt DEF Worker
  <2> HIDE DEF m
  <2> QED
    BY <2>1, <2>3, WorkerSet
<1>2. ASSUME NEW pc, pc = IF worker[w].rest = <<>> THEN "postDone" ELSE "run"
      PROVE  pc \in {"postDone", "run"}
  BY <1>2
<1> QED
  BY <1>1, <1>2, Zenon DEF StartBatch

-----------------------------------------------------------------------------
(* Types are kept.                                                         *)

(* Zero is no request, and suspensions are no programs and no results.      *)
LEMMA Names ==
  /\ \A r \in Requests : r \in ReqIds /\ r # 0
  /\ \A r \in ReqIds : r # 0 => r \in Requests
  /\ 0 \in ReqIds /\ 0 \in Budget
  /\ <<>> \notin Susps /\ NoSusp \notin Susps
  /\ \A p \in Programs : p \notin Susps /\ p \in Node
  /\ \A s \in Susps : s \in Node
  /\ Pump \notin Clients /\ NoOne \notin Clients /\ NoOne # Pump
  BY SizesAssumption, NamesAssumption DEF Requests, ReqIds, Budget, Node

(* Taking the head of a queue.                                              *)
LEMMA TailOf ==
  ASSUME NEW S, NEW q \in Seq(S), q # <<>>
  PROVE  /\ Tail(q) \in Seq(S) /\ Len(Tail(q)) = Len(q) - 1
         /\ Len(q) >= 1 /\ Head(q) = q[1]
         /\ \A k \in 1 .. Len(q) - 1 : Tail(q)[k] = q[k + 1]
  BY HeadTailProperties

(* Appending to a queue.                                                    *)
LEMMA AppendOf ==
  ASSUME NEW S, NEW q \in Seq(S), NEW e \in S
  PROVE  /\ Append(q, e) \in Seq(S) /\ Len(Append(q, e)) = Len(q) + 1
         /\ \A k \in 1 .. Len(q) : Append(q, e)[k] = q[k]
         /\ Append(q, e)[Len(q) + 1] = e
  OBVIOUS

(* A submission keeps the types of the queues.                              *)
LEMMA SubmitTypes ==
  ASSUME QueueTypes, NEW r \in Requests, NEW node \in Node, NEW steps \in Budget,
         Submit(r, node, steps), cq' = cq
  PROVE  QueueTypes'
<1> DEFINE e == [req |-> r, node |-> node, steps |-> steps]
<1>1. e \in Sqe
  BY DEF Sqe
<1>2. sq' = Append(sq, e) /\ Len(sq) < SqCapacity
  BY DEF Submit
<1> HIDE DEF e
<1> QED
  BY <1>1, <1>2, SizesAssumption DEF QueueTypes

(* Clients keep the types.                                                  *)
LEMMA ClientTypesStep ==
  ASSUME Types, EventInv, ClientInv, NEW c \in Clients, Call(c) \/ ClientStep(c)
  PROVE  Types'
<1> USE DEF Types
<1>1. CASE Call(c)
  <2>1. ClientTypes'
    BY <1>1, CallEffect DEF ClientIs, ClientTypes
  <2>2. SlotTypes'
    <3>1. nextReq <= MaxRequests /\ nextReq' = nextReq + 1 /\ UNCHANGED <<pending, held>>
      BY <1>1, Zenon DEF Call
    <3> QED
      BY <3>1, SizesAssumption DEF SlotTypes
  <2>3. UNCHANGED <<sq, cq, worker, susp, stdin, stdout, ioVars, outVars, dispVars>>
    BY <1>1, Zenon DEF Call
  <2> QED
    BY <2>1, <2>2, <2>3 DEF QueueTypes, WorkerTypes, DispTypes, IoTypes, WakerTypes,
                            ioVars, outVars, dispVars
<1>2. CASE AcquireSlot(c)
  <2>0. UNCHANGED <<nextReq, held, sq, cq, worker, susp, stdin, stdout, ioVars, outVars, dispVars>>
    BY <1>2, Zenon DEF AcquireSlot
  <2>1. ClientTypes'
    BY <1>2, AcquireEffect DEF ClientIs, ClientGoes, ClientTypes
  <2>2. SlotTypes'
    BY <1>2, <2>0, AcquireEffect DEF SlotIs, SlotTypes
  <2> QED
    BY <2>0, <2>1, <2>2 DEF QueueTypes, WorkerTypes, DispTypes, IoTypes, WakerTypes,
                            ioVars, outVars, dispVars
<1>3. CASE ClientSubmit(c)
  <2>0. UNCHANGED <<nextReq, pending, held, cq, worker, susp, stdin, stdout, ioVars, outVars, dispVars>>
    BY <1>3, Zenon DEF ClientSubmit
  <2>1. ClientTypes'
    BY <1>3, SubmitEffect DEF ClientIs, ClientGoes, ClientTypes
  <2>2. QueueTypes'
    <3>1. client[c].req \in Requests
      BY <1>3, ClientAt, Names, SizesAssumption DEF ClientSubmit, ClientInv, ClientOK, SlotTypes
    <3>2. client[c].steps \in Budget
      BY DEF ClientTypes, Client
    <3> QED
      BY <1>3, <2>0, <3>1, <3>2, ClientAt, SubmitTypes DEF ClientSubmit
  <2> QED
    BY <2>0, <2>1, <2>2 DEF SlotTypes, WorkerTypes, DispTypes, IoTypes, WakerTypes,
                            ioVars, outVars, dispVars
<1>4. CASE Completion(c)
  <2>0. UNCHANGED <<nextReq, sq, cq, worker, susp, stdin, stdout, stdinWait,
                    stdoutWait, demand, reader, outVars, dispVars>>
    BY <1>4, Zenon DEF Completion
  <2>1. ClientTypes'
    BY <1>4, CompletionEffect DEF ClientIs, ClientGoes, ClientTypes
  <2>2. SlotTypes'
    <3>1. PICK i \in 1 .. Slots :
             /\ pending' = pending \/ SlotIs(i, pending[i].req, pending[i].node,
                                             pending[i].event, FALSE)
             /\ held' = held \/ held' = held \cup {i}
      BY <1>4, CompletionEffect
    <3> QED
      BY <2>0, <3>1 DEF SlotIs, SlotTypes
  <2>3. ioWait' \in [Susps -> ReqIds]
    BY <1>4, CompletionEffect DEF IoTypes
  <2> QED
    BY <2>0, <2>1, <2>2, <2>3 DEF QueueTypes, WorkerTypes, DispTypes, IoTypes, WakerTypes,
                                  outVars, dispVars
<1>5. CASE AfterRegister(c)
  <2>0. UNCHANGED <<nextReq, sq, cq, worker, susp, stdin, stdout, ioVars, outVars, dispVars>>
    BY <1>5, Zenon DEF AfterRegister
  <2>1. ClientTypes'
    BY <1>5, RegisterEffect DEF ClientIs, ClientGoes, ClientTypes
  <2>2. SlotTypes'
    BY <1>5, <2>0, RegisterEffect DEF SlotIs, SlotTypes
  <2> QED
    BY <2>0, <2>1, <2>2 DEF QueueTypes, WorkerTypes, DispTypes, IoTypes, WakerTypes,
                            ioVars, outVars, dispVars
<1>6. CASE RaiseDemand(c)
  <2>0. UNCHANGED <<nextReq, pending, held, sq, cq, worker, susp, stdin, stdout,
                    stdinWait, stdoutWait, ioWait, reader, outVars, dispVars>>
        /\ demand' = demand + 1
    BY <1>6, Zenon DEF RaiseDemand
  <2>1. ClientTypes'
    BY <1>6, DemandEffect DEF ClientIs, ClientGoes, ClientTypes
  <2> QED
    BY <2>0, <2>1 DEF SlotTypes, QueueTypes, WorkerTypes, DispTypes, IoTypes, WakerTypes,
                      outVars, dispVars
<1>7. CASE ReleaseSlot(c)
  <2>0. UNCHANGED <<nextReq, held, sq, cq, worker, susp, stdin, stdout, ioVars, outVars, dispVars>>
    BY <1>7, Zenon DEF ReleaseSlot
  <2>1. ClientTypes'
    BY <1>7, ReleaseEffect DEF ClientTypes
  <2>2. SlotTypes'
    <3>1. SlotIs(client[c].slot, 0, <<>>, "DONE", FALSE)
      BY <1>7, ReleaseEffect
    <3> QED
      BY <2>0, <3>1 DEF SlotIs, SlotTypes
  <2> QED
    BY <2>0, <2>1, <2>2 DEF QueueTypes, WorkerTypes, DispTypes, IoTypes, WakerTypes,
                            ioVars, outVars, dispVars
<1> QED
  BY <1>1, <1>2, <1>3, <1>4, <1>5, <1>6, <1>7 DEF ClientStep

(* The event a worker posts names its request, and the suspension it has   *)
(* parked when there is more to come.                                      *)
LEMMA PostsEvent ==
  ASSUME Types, WorkerInv, NEW w \in Workers, Post(w)
  PROVE  \E e \in Cqe : /\ e.req = worker[w].req /\ e.req # 0 /\ EventOK(e)
                        /\ \/ worker[w].pc = "post" /\ e.node = worker[w].node
                           \/ worker[w].pc = "postDone" /\ e.node = <<>>
                        /\ e.event = "DONE" => e.node = <<>>
                        /\ Len(cq) < CqCapacity /\ cq' = Append(cq, e)
<1> DEFINE me == worker[w]
           cqe(node, event) == [req |-> me.req, node |-> node, event |-> event]
<1>1. /\ me.pc \in {"post", "postDone"} /\ me.req # 0
      /\ me.pc = "post" => me.node \in Susps
  BY DEF Post, WorkerInv
<1>2. ASSUME NEW node \in Node, NEW event \in Results, cq' = Append(cq, cqe(node, event)),
             EventOK(cqe(node, event)), event = "DONE" => node = <<>>,
             \/ me.pc = "post" /\ node = me.node
             \/ me.pc = "postDone" /\ node = <<>>
      PROVE  \E e \in Cqe : /\ e.req = worker[w].req /\ e.req # 0 /\ EventOK(e)
                            /\ \/ worker[w].pc = "post" /\ e.node = worker[w].node
                               \/ worker[w].pc = "postDone" /\ e.node = <<>>
                            /\ e.event = "DONE" => e.node = <<>>
                            /\ Len(cq) < CqCapacity /\ cq' = Append(cq, e)
  <2>1. cqe(node, event) \in Cqe
    BY WorkerAt DEF Cqe
  <2>2. Len(cq) < CqCapacity
    BY DEF Post
  <2>3. cqe(node, event).req = me.req /\ cqe(node, event).node = node
        /\ cqe(node, event).event = event
    OBVIOUS
  <2> HIDE DEF cqe
  <2> QED
    BY <1>1, <1>2, <2>1, <2>2, <2>3
<1>3. CASE me.pc = "post"
  <2> DEFINE event == EventOf(susp[me.node].reason)
  <2>0. susp[me.node].reason \in Reasons
    BY <1>1, <1>3 DEF Types, WorkerTypes, Saved
  <2>1. event \in {"IO_WAIT", "YIELD", "ERROR"} /\ event \in Results
    BY <2>0 DEF EventOf, Results, Reasons
  <2>2. cq' = Append(cq, cqe(me.node, event))
    BY <1>3 DEF Post
  <2>3. me.node \in Node /\ me.node \in Susps
    BY <1>1, <1>3 DEF Node
  <2> HIDE DEF event
  <2>4. EventOK(cqe(me.node, event))
    BY <2>1, <2>3 DEF EventOK
  <2> QED
    BY <1>2, <1>3, <2>1, <2>2, <2>3, <2>4
<1>4. CASE me.pc = "postDone"
  <2>1. cq' = Append(cq, cqe(<<>>, "DONE"))
    BY <1>4 DEF Post
  <2>2. <<>> \in Node /\ "DONE" \in Results
    BY DEF Node, Results
  <2>3. EventOK(cqe(<<>>, "DONE"))
    BY Names DEF EventOK
  <2> QED
    BY <1>2, <1>4, <2>1, <2>2, <2>3
<1> QED
  BY <1>1, <1>3, <1>4

(* Only a script that fails reaches the end of its file.                   *)
LEMMA EndOfFileFails ==
  ASSUME Types, NEW w \in Workers, EndOfFile(w)
  PROVE  Fails
<1>1. worker[w].rest \in Seq(Alphabet) /\ worker[w].rest # <<>> /\ Head(worker[w].rest) = "eof"
  BY WorkerAt DEF EndOfFile, Runs, Worker, Scripts
<1> QED
  BY <1>1, TailOf DEF Fails

(* Workers keep the types.                                                  *)
LEMMA WorkerTypesStep ==
  ASSUME Types, WorkerInv, NEW w \in Workers, WorkerStep(w)
  PROVE  Types'
<1> USE DEF Types
<1>0. ASSUME NEW reason \in Reasons, NEW next \in {"post", "wait"}, Park(w, reason, next)
      PROVE  WorkerTypes'
  BY <1>0, ParkEffect DEF WorkerTypes, WorkerIs, SavedIs
<1>a. ASSUME NEW cost \in {0, 1}, Advance(w, cost), \E op \in Ops : Runs(w, op),
             worker[w].left >= cost, susp' = susp
      PROVE  WorkerTypes'
  BY <1>a, AdvanceEffect DEF WorkerTypes, WorkerIs, Runs
<1>b. /\ {"GAS", "STEP_LIMIT", "STDIN", "STDOUT"} \subseteq Reasons
      /\ EndOfFile(w) => "IO_EOF" \in Reasons
  BY EndOfFileFails DEF Reasons
<1>c. ASSUME WorkerTypes',
             UNCHANGED <<clientVars, sq, cq, stdin, stdout, ioVars, outVars, dispVars>>
      PROVE  Types'
  BY <1>c DEF SlotTypes, ClientTypes, QueueTypes, DispTypes, IoTypes, WakerTypes,
              clientVars, ioVars, outVars, dispVars
<1>d. worker[w].left >= 0
  BY WorkerAt DEF Budget
<1>e. worker[w].left > 0 => worker[w].left >= 1
  BY WorkerAt, SizesAssumption DEF Budget
<1>f. ASSUME \E op \in Ops : Runs(w, op), RetryIo(w)
      PROVE  WorkerTypes'
  BY <1>f, RetryEffect DEF Runs, WorkerTypes, WorkerIs
<1>1. CASE Dequeue(w)
  <2>0. UNCHANGED <<clientVars, cq, stdin, stdout, ioVars, outVars, dispVars>>
    BY <1>1, Zenon DEF Dequeue
  <2>1. QueueTypes'
    <3>1. sq # <<>> /\ sq' = Tail(sq)
      BY <1>1, Zenon DEF Dequeue
    <3>2. sq' \in Seq(Sqe) /\ Len(sq') <= SqCapacity
      BY <3>1, TailOf, SizesAssumption DEF QueueTypes
    <3> QED
      BY <2>0, <3>2 DEF QueueTypes
  <2>2. WorkerTypes'
    BY <1>1, DequeueEffect DEF WorkerTypes, WorkerIs, SavedIs
  <2> QED
    BY <2>0, <2>1, <2>2 DEF SlotTypes, ClientTypes, DispTypes, IoTypes, WakerTypes,
                            clientVars, ioVars, outVars, dispVars
<1>2. CASE StartBatch(w)
  <2>0. UNCHANGED <<clientVars, sq, cq, stdin, stdout, ioVars, outVars, dispVars>>
    BY <1>2, Zenon DEF StartBatch
  <2>1. WorkerTypes'
    BY <1>0, <1>2, <1>b, StartEffect DEF WorkerTypes, WorkerIs
  <2> QED
    BY <1>c, <2>0, <2>1
<1>3. CASE OutOfGas(w)
  BY <1>0, <1>3, <1>b, <1>c, Zenon DEF OutOfGas
<1>4. CASE OutOfBudget(w)
  BY <1>0, <1>4, <1>b, <1>c, Zenon DEF OutOfBudget
<1>5. CASE Walk(w)
  <2>1. /\ Runs(w, "walk") /\ Advance(w, 0) /\ susp' = susp
        /\ UNCHANGED <<clientVars, sq, cq, stdin, stdout, ioVars, outVars, dispVars>>
    BY <1>5, Zenon DEF Walk
  <2> QED
    BY <1>a, <1>c, <1>d, <2>1 DEF Ops
<1>6. CASE Contract(w)
  <2>1. /\ Runs(w, "step") /\ Advance(w, 1) /\ susp' = susp /\ worker[w].left > 0
        /\ UNCHANGED <<clientVars, sq, cq, stdin, stdout, ioVars, outVars, dispVars>>
    BY <1>6, Zenon DEF Contract
  <2> QED
    BY <1>a, <1>c, <1>e, <2>1 DEF Ops
<1>7. CASE ReadOne(w)
  <2>0. UNCHANGED <<clientVars, sq, cq, stdout, ioVars, outVars, dispVars>>
    BY <1>7, Zenon DEF ReadOne
  <2>1. /\ Runs(w, "read") /\ worker[w].left > 0
        /\ \/ stdin > 0 /\ stdin' = stdin - 1 /\ Advance(w, 1) /\ susp' = susp
           \/ (Park(w, "STDIN", "wait") \/ RetryIo(w)) /\ stdin' = stdin
    BY <1>7, Zenon DEF ReadOne
  <2>2. stdin' \in 0 .. StdinCapacity
    BY <2>1, SizesAssumption DEF IoTypes
  <2>3. WorkerTypes'
    BY <1>0, <1>a, <1>b, <1>e, <2>1, <1>f DEF Ops
  <2> QED
    BY <2>0, <2>2, <2>3 DEF SlotTypes, ClientTypes, QueueTypes, DispTypes, IoTypes, WakerTypes,
                            clientVars, ioVars, outVars, dispVars
<1>8. CASE WriteOne(w)
  <2>0. UNCHANGED <<clientVars, sq, cq, stdin, ioVars, outVars, dispVars>>
    BY <1>8, Zenon DEF WriteOne
  <2>1. /\ Runs(w, "write") /\ worker[w].left > 0
        /\ \/ /\ Len(stdout) < StdoutCapacity
              /\ stdout' = Append(stdout, worker[w].req)
              /\ Advance(w, 1) /\ susp' = susp
           \/ (Park(w, "STDOUT", "wait") \/ RetryIo(w)) /\ stdout' = stdout
    BY <1>8, Zenon DEF WriteOne
  <2>2. stdout' \in Seq(ReqIds) /\ Len(stdout') <= StdoutCapacity
    <3>1. worker[w].req \in ReqIds
      BY WorkerAt
    <3>2. /\ stdout \in Seq(ReqIds) /\ Len(stdout) <= StdoutCapacity
          /\ Len(stdout) \in Nat /\ StdoutCapacity \in Nat
      BY SizesAssumption DEF Types, IoTypes
    <3>3. CASE Len(stdout) < StdoutCapacity /\ stdout' = Append(stdout, worker[w].req)
      BY <3>1, <3>2, <3>3, AppendOf
    <3>4. CASE stdout' = stdout
      BY <3>2, <3>4
    <3> QED
      BY <2>1, <3>3, <3>4
  <2>3. WorkerTypes'
    BY <1>0, <1>a, <1>b, <1>e, <2>1, <1>f DEF Ops
  <2> QED
    BY <2>0, <2>2, <2>3 DEF SlotTypes, ClientTypes, QueueTypes, DispTypes, IoTypes, WakerTypes,
                            clientVars, ioVars, outVars, dispVars
<1>9. CASE EndOfFile(w)
  BY <1>0, <1>9, <1>b, <1>c, Zenon DEF EndOfFile
<1>10. CASE QueueWaiter(w)
  <2>0. UNCHANGED <<clientVars, sq, cq, susp, stdin, stdout, ioWait, demand,
                    reader, outVars, dispVars>>
    BY <1>10, Zenon DEF QueueWaiter
  <2>1. worker[w].node \in Susps
    BY <1>10 DEF QueueWaiter, WorkerInv
  <2>2. stdinWait' \in Seq(Susps) /\ stdoutWait' \in Seq(Susps)
    <3>1. /\ stdinWait' \in {stdinWait, Append(stdinWait, worker[w].node)}
          /\ stdoutWait' \in {stdoutWait, Append(stdoutWait, worker[w].node)}
      BY <1>10 DEF QueueWaiter
    <3>2. /\ Append(stdinWait, worker[w].node) \in Seq(Susps)
          /\ Append(stdoutWait, worker[w].node) \in Seq(Susps)
      BY <2>1, AppendOf DEF IoTypes
    <3> QED
      BY <3>1, <3>2 DEF IoTypes
  <2>3. WorkerTypes'
    BY <1>10, <2>0, QueueWaiterEffect DEF WorkerTypes, WorkerIs
  <2> QED
    BY <2>0, <2>2, <2>3 DEF SlotTypes, ClientTypes, QueueTypes, DispTypes, IoTypes, WakerTypes,
                            clientVars, outVars, dispVars
<1>11. CASE Post(w)
  <2>0. UNCHANGED <<clientVars, sq, susp, stdin, stdout, ioVars, outVars, dispVars>>
    BY <1>11, Zenon DEF Post
  <2>1. PICK e \in Cqe : e.req # 0 /\ Len(cq) < CqCapacity /\ cq' = Append(cq, e)
    BY <1>11, PostsEvent
  <2>2. QueueTypes'
    BY <2>0, <2>1, SizesAssumption DEF QueueTypes
  <2>3. WorkerTypes'
    BY <1>11, <2>0, PostEffect DEF WorkerTypes, WorkerIs
  <2> QED
    BY <2>0, <2>2, <2>3 DEF SlotTypes, ClientTypes, DispTypes, IoTypes, WakerTypes,
                            clientVars, ioVars, outVars, dispVars
<1> QED
  BY <1>1, <1>2, <1>3, <1>4, <1>5, <1>6, <1>7, <1>8, <1>9, <1>10, <1>11 DEF WorkerStep

-----------------------------------------------------------------------------
(* The dispatcher.                                                         *)

(* The dispatcher delivers its completion to the first slot that awaits its *)
(* request, and no slot up to it is locked; or it finds none, holding no    *)
(* lock, and drops it.                                                      *)
LEMMA DeliverEffect ==
  ASSUME Types, Deliver
  PROVE  LET e == disp.cqe
         IN  /\ disp.pc = "deliver" /\ disp' = [disp EXCEPT !.pc = "wakePump"]
             /\ e \in Cqe
             /\ \/ \E i \in 1 .. Slots :
                     /\ pending[i].req = e.req /\ ~ pending[i].done
                     /\ held \cap 1 .. i = {}
                     /\ SlotIs(i, e.req, e.node, e.event, TRUE)
                     /\ dropped' = dropped
                \/ /\ \A i \in 1 .. Slots : ~ Awaits(i, e.req)
                   /\ held = {}
                   /\ dropped' = dropped + 1 /\ pending' = pending
<1> DEFINE e == disp.cqe
           m == [req |-> e.req, node |-> e.node, event |-> e.event, done |-> TRUE]
<1>1. e \in Cqe
  BY DEF Types, DispTypes
<1>2. m \in Slot /\ m.req = e.req /\ m.node = e.node /\ m.event = e.event /\ m.done = TRUE
  BY <1>1 DEF Cqe, Slot
<1>3. ASSUME NEW i \in 1 .. Slots, pending' = [pending EXCEPT ![i] = m]
      PROVE  SlotIs(i, e.req, e.node, e.event, TRUE)
  <2> HIDE DEF m
  <2> QED
    BY <1>2, <1>3, SlotSet
<1> QED
  BY <1>1, <1>3, Zenon DEF Deliver, Awaits

(* The dispatcher keeps the types.                                          *)
LEMMA DispatcherTypesStep ==
  ASSUME Types, Dispatcher
  PROVE  Types'
<1> USE DEF Types
<1>1. CASE DispatcherTake
  <2>0. /\ UNCHANGED <<clientVars, sq, worker, susp, stdin, stdout, ioVars, outVars, dropped>>
        /\ cq # <<>> /\ cq' = Tail(cq)
        /\ disp' = [pc |-> "deliver", cqe |-> Head(cq)]
    BY <1>1, Zenon DEF DispatcherTake
  <2>1. /\ cq' \in Seq(Cqe) /\ Len(cq') = Len(cq) - 1 /\ Head(cq) = cq[1] /\ Len(cq) >= 1
        /\ \A k \in 1 .. Len(cq) - 1 : cq'[k] = cq[k + 1]
    BY <2>0, TailOf DEF QueueTypes
  <2>2. Head(cq) \in Cqe /\ Head(cq).req # 0
    BY <2>1 DEF QueueTypes
  <2>3. QueueTypes'
    BY <2>0, <2>1, SizesAssumption DEF QueueTypes
  <2>4. DispTypes'
    BY <2>0, <2>2 DEF DispTypes
  <2> QED
    BY <2>0, <2>3, <2>4 DEF SlotTypes, ClientTypes, WorkerTypes, IoTypes, WakerTypes,
                            clientVars, ioVars, outVars
<1>2. CASE Deliver
  <2>0. UNCHANGED <<nextReq, held, client, sq, cq, worker, susp, stdin, stdout, ioVars, outVars>>
    BY <1>2, Zenon DEF Deliver
  <2>1. /\ disp.pc = "deliver" /\ disp' = [disp EXCEPT !.pc = "wakePump"]
        /\ dropped' \in {dropped, dropped + 1}
        /\ pending' \in [1 .. Slots -> Slot]
    BY <1>2, DeliverEffect DEF SlotIs, SlotTypes
  <2>2. \A i \in 1 .. Slots : pending'[i].done => pending'[i].req # 0
    BY <1>2, DeliverEffect DEF SlotIs, SlotTypes, DispTypes
  <2>3. DispTypes'
    BY <2>1 DEF DispTypes
  <2> QED
    BY <2>0, <2>1, <2>2, <2>3 DEF SlotTypes, ClientTypes, QueueTypes, WorkerTypes, IoTypes,
                                  WakerTypes, ioVars, outVars
<1>3. CASE WakePump
  <2>0. /\ UNCHANGED <<clientVars, sq, cq, worker, susp, stdin, stdout, ioVars,
                       pumpPc, pub, dropped>>
        /\ pumpWake' = TRUE
        /\ disp' = [pc |-> "take", cqe |-> [req |-> 0, node |-> <<>>, event |-> "DONE"]]
    BY <1>3, Zenon DEF WakePump
  <2>1. [req |-> 0, node |-> <<>>, event |-> "DONE"] \in Cqe
    BY Names DEF Cqe, Node, Results
  <2>2. DispTypes'
    BY <2>0, <2>1 DEF DispTypes
  <2> QED
    BY <2>0, <2>2 DEF SlotTypes, ClientTypes, QueueTypes, WorkerTypes, IoTypes, WakerTypes,
                      clientVars, ioVars
<1> QED
  BY <1>1, <1>2, <1>3 DEF Dispatcher

-----------------------------------------------------------------------------
(* Publication of stdout, and the stdin thread.                            *)

(* What the types say of the writer that publishes stdout.                  *)
LEMMA PubAt == ASSUME Types
               PROVE  pub \in Publish /\ pub.susp \in Susps \cup {NoSusp} /\ pub.req \in ReqIds
  BY DEF Types, WakerTypes, Publish

(* The states of that writer between two waiters, and when nobody           *)
(* publishes.                                                               *)
LEMMA PublishedType ==
  ASSUME NEW x \in Clients \cup {Pump}
  PROVE  /\ Published(x) \in Publish /\ Published(x).pc = "pop"
         /\ Published(x).by = NoOne => Published(x) = NoPub
         /\ NoPub \in Publish /\ NoPub.pc = "pop"
<1>1. NoPub \in Publish /\ NoPub.pc = "pop"
  BY Names DEF NoPub, Publish
<1>2. [NoPub EXCEPT !.by = x] \in Publish /\ [NoPub EXCEPT !.by = x].by = x
      /\ [NoPub EXCEPT !.by = x].pc = "pop"
  BY Names DEF NoPub, Publish
<1> QED
  BY <1>1, <1>2, Names DEF Published

(* A published byte leaves the stdout ring; at the end of the ring the pump *)
(* dozes and a draining client returns.                                     *)
LEMMA PopEffect ==
  ASSUME Types, NEW x \in Clients \cup {Pump}, PopStdout(x)
  PROVE  /\ pub.pc = "pop"
         /\ \/ /\ stdout # <<>> /\ stdout' = Tail(stdout) /\ client' = client
               /\ pumpPc' = pumpPc /\ pub' \in Publish /\ pub'.pc = "take" /\ pub'.by = x
               /\ pub'.req = Head(stdout)
            \/ /\ stdout = <<>> /\ stdout' = stdout /\ pub' = NoPub
               /\ \/ x = Pump /\ client' = client /\ pumpPc' = "doze"
                  \/ /\ x \in Clients /\ client[x].pc = "drain"
                     /\ ClientIs(x, "idle", 0, 0, IdleClient.node, IdleClient.budget)
                     /\ client'[x] = IdleClient
                     /\ pumpPc' = pumpPc
<1>1. pub.pc = "pop"
  BY DEF PopStdout, Types, WakerTypes, NoPub
<1>2. CASE stdout # <<>>
  <2> DEFINE m == [NoPub EXCEPT !.by = x, !.pc = "take", !.req = Head(stdout)]
  <2>0. Head(stdout) \in ReqIds
    BY <1>2, TailOf DEF Types, IoTypes
  <2>1. m \in Publish /\ m.pc = "take" /\ m.by = x /\ m.req = Head(stdout)
    BY <2>0, PublishedType DEF NoPub, Publish
  <2>2. stdout' = Tail(stdout) /\ pub' = m /\ pumpPc' = pumpPc /\ client' = client
    BY <1>2, Zenon DEF PopStdout
  <2> HIDE DEF m
  <2> QED
    BY <1>1, <1>2, <2>1, <2>2
<1>3. CASE stdout = <<>> /\ x = Pump
  BY <1>1, <1>3 DEF PopStdout
<1>4. CASE stdout = <<>> /\ x # Pump
  <2>1. x \in Clients /\ client[x].pc = "drain"
    BY <1>4, Zenon DEF PopStdout, Publishes
  <2>2. /\ stdout' = stdout /\ pub' = NoPub /\ pumpPc' = pumpPc
        /\ client' = [client EXCEPT ![x] = IdleClient]
    BY <1>4, Zenon DEF PopStdout
  <2>3. ClientIs(x, "idle", 0, 0, IdleClient.node, IdleClient.budget)
    BY <2>1, <2>2, ClientSet, IdleClientType, Zenon
  <2>4. client'[x] = IdleClient
    BY <2>1, <2>2, ClientAt
  <2> QED
    BY <1>1, <1>4, <2>1, <2>2, <2>3, <2>4
<1> QED
  BY <1>2, <1>3, <1>4

(* After a byte, the first waiter for room in stdout is taken, if there is  *)
(* one.                                                                     *)
LEMMA TakeWaiterEffect ==
  ASSUME Types, NEW x \in Clients \cup {Pump}, TakeStdoutWaiter(x)
  PROVE  /\ pub.pc = "take" /\ pub.by = x
         /\ \/ pub' = Published(x) /\ stdoutWait' = stdoutWait
            \/ /\ stdoutWait # <<>> /\ stdoutWait' = Tail(stdoutWait)
               /\ pub' \in Publish /\ pub'.pc = "remove" /\ pub'.by = x
               /\ pub'.susp \in Susps
<1>1. pub.pc = "take" /\ pub.by = x
  BY DEF TakeStdoutWaiter
<1>2. CASE stdoutWait # <<>>
  <2> DEFINE m == [pub EXCEPT !.pc = "remove", !.susp = Head(stdoutWait), !.req = 0]
  <2>0. 0 \in ReqIds
    BY SizesAssumption DEF ReqIds
  <2>1. Head(stdoutWait) \in Susps
    BY <1>2, TailOf DEF Types, IoTypes
  <2>2. m \in Publish /\ m.pc = "remove" /\ m.by = x /\ m.susp \in Susps
    BY <1>1, <2>0, <2>1, PubAt DEF Publish
  <2>3. pub' = m /\ stdoutWait' = Tail(stdoutWait)
    BY <1>2 DEF TakeStdoutWaiter
  <2> HIDE DEF m
  <2> QED
    BY <1>1, <1>2, <2>2, <2>3
<1> QED
  BY <1>1, <1>2 DEF TakeStdoutWaiter

(* The waiter's entry is taken out of io_wait_map; without an entry there   *)
(* is nobody to resume.                                                     *)
LEMMA RemoveWaiterEffect ==
  ASSUME Types, NEW x \in Clients \cup {Pump}, RemoveStdoutWaiter(x)
  PROVE  /\ pub.pc = "remove" /\ pub.by = x /\ pub.susp \in Susps
         /\ ioWait' \in [Susps -> ReqIds]
         /\ ioWait'[pub.susp] = 0
         /\ \A s \in Susps : s # pub.susp => ioWait'[s] = ioWait[s]
         /\ \/ ioWait[pub.susp] = 0 /\ pub' = Published(x)
            \/ /\ ioWait[pub.susp] # 0
               /\ pub' \in Publish /\ pub'.pc = "submit" /\ pub'.by = x
               /\ pub'.susp = pub.susp /\ pub'.req = ioWait[pub.susp]
<1>1. pub.pc = "remove" /\ pub.by = x /\ pub.susp \in Susps
  BY DEF RemoveStdoutWaiter, Types, WakerTypes
<1>2. /\ ioWait' = [ioWait EXCEPT ![pub.susp] = 0]
      /\ ioWait \in [Susps -> ReqIds]
  BY DEF RemoveStdoutWaiter, Types, IoTypes
<1>3. CASE ioWait[pub.susp] # 0
  <2> DEFINE m == [pub EXCEPT !.pc = "submit", !.req = ioWait[pub.susp]]
  <2>1. ioWait[pub.susp] \in ReqIds
    BY <1>1, <1>2
  <2>2. /\ m \in Publish /\ m.pc = "submit" /\ m.by = x /\ m.susp = pub.susp
        /\ m.req = ioWait[pub.susp]
    BY <1>1, <2>1, PubAt DEF Publish
  <2>3. pub' = m
    BY <1>3 DEF RemoveStdoutWaiter
  <2> HIDE DEF m
  <2> QED
    BY <1>1, <1>2, <1>3, <2>2, <2>3, Names
<1>4. CASE ioWait[pub.susp] = 0
  <2>1. pub' = Published(x)
    BY <1>4 DEF RemoveStdoutWaiter
  <2> QED
    BY <1>1, <1>2, <1>4, <2>1, Names
<1> QED
  BY <1>3, <1>4

(* Publication keeps the types.                                             *)
LEMMA PublishTypesStep ==
  ASSUME Types, NEW x \in Clients \cup {Pump}, PublishStep(x)
  PROVE  Types'
<1> USE DEF Types
<1>0. x # NoOne
  BY Names
<1>1. CASE PopStdout(x)
  <2>0. UNCHANGED <<nextReq, pending, held, sq, cq, worker, susp, stdin, ioVars,
                    pumpWake, dispVars>>
    BY <1>1, Zenon DEF PopStdout
  <2>1. ClientTypes'
    BY <1>1, PopEffect DEF ClientTypes, ClientIs
  <2>2. stdout' \in Seq(ReqIds) /\ Len(stdout') <= StdoutCapacity
    <3>1. stdout \in Seq(ReqIds) /\ Len(stdout) <= StdoutCapacity
      BY DEF IoTypes
    <3>2. stdout' = stdout \/ (stdout # <<>> /\ stdout' = Tail(stdout))
      BY <1>1, PopEffect
    <3> QED
      BY <3>1, <3>2, TailOf, SizesAssumption
  <2>3. WakerTypes'
    BY <1>0, <1>1, <2>0, PopEffect, PublishedType DEF WakerTypes, ioVars
  <2> QED
    BY <2>0, <2>1, <2>2, <2>3 DEF SlotTypes, QueueTypes, WorkerTypes, DispTypes, IoTypes,
                                  ioVars, dispVars
<1>2. CASE TakeStdoutWaiter(x)
  <2>0. UNCHANGED <<clientVars, sq, cq, worker, susp, stdin, stdout, stdinWait,
                    ioWait, demand, reader, pumpWake, pumpPc, dispVars>>
    BY <1>2, Zenon DEF TakeStdoutWaiter
  <2>1. stdoutWait' \in Seq(Susps)
    BY <1>2, TakeWaiterEffect, TailOf DEF IoTypes
  <2>2. WakerTypes'
    BY <1>0, <1>2, <2>0, TakeWaiterEffect, PublishedType DEF WakerTypes
  <2> QED
    BY <2>0, <2>1, <2>2 DEF SlotTypes, ClientTypes, QueueTypes, WorkerTypes, DispTypes,
                            IoTypes, clientVars, dispVars
<1>3. CASE RemoveStdoutWaiter(x)
  <2>0. UNCHANGED <<clientVars, sq, cq, worker, susp, stdin, stdout, stdinWait,
                    stdoutWait, demand, reader, pumpWake, pumpPc, dispVars>>
    BY <1>3, Zenon DEF RemoveStdoutWaiter
  <2>1. ioWait' \in [Susps -> ReqIds]
    BY <1>3, RemoveWaiterEffect
  <2>2. WakerTypes'
    BY <1>0, <1>3, <2>0, RemoveWaiterEffect, PublishedType DEF WakerTypes
  <2> QED
    BY <2>0, <2>1, <2>2 DEF SlotTypes, ClientTypes, QueueTypes, WorkerTypes, DispTypes,
                            IoTypes, clientVars, dispVars
<1>4. CASE ResumeWriter(x)
  <2>0. /\ UNCHANGED <<clientVars, cq, worker, susp, stdin, stdout, ioVars,
                       pumpWake, pumpPc, dispVars>>
        /\ pub.pc = "submit" /\ Submit(pub.req, pub.susp, 0) /\ pub' = Published(x)
    BY <1>4, Zenon DEF ResumeWriter
  <2>1. QueueTypes'
    <3>1. pub.req \in Requests /\ pub.susp \in Node
      BY <2>0, PubAt, Names DEF WakerTypes
    <3> QED
      BY <2>0, <3>1, Names, SubmitTypes
  <2>2. WakerTypes'
    BY <1>0, <2>0, PublishedType DEF WakerTypes, ioVars
  <2> QED
    BY <2>0, <2>1, <2>2 DEF SlotTypes, ClientTypes, WorkerTypes, DispTypes, IoTypes,
                            clientVars, ioVars, dispVars
<1> QED
  BY <1>1, <1>2, <1>3, <1>4 DEF PublishStep

(* The pump that dozes keeps the types.                                     *)
LEMMA PumpTypesStep ==
  ASSUME Types, PumpDoze
  PROVE  Types'
  BY DEF PumpDoze, Types, SlotTypes, ClientTypes, QueueTypes, WorkerTypes, DispTypes, IoTypes,
         WakerTypes, clientVars, ioVars, dispVars

ReaderIs(pc, s, r) == /\ reader' \in Reader
                      /\ reader'.pc = pc /\ reader'.susp = s /\ reader'.req = r

(* What the types say of the stdin thread.                                  *)
LEMMA ReaderAt == ASSUME Types
                  PROVE  /\ reader \in Reader /\ reader.susp \in Susps \cup {NoSusp}
                         /\ reader.req \in ReqIds
  BY DEF Types, WakerTypes, Reader

(* The stdin thread takes its waiter's entry out of io_wait_map.            *)
LEMMA RemoveReaderEffect ==
  ASSUME Types, ReaderRemove
  PROVE  /\ reader.pc = "remove" /\ reader.susp \in Susps
         /\ ioWait' \in [Susps -> ReqIds]
         /\ ioWait'[reader.susp] = 0
         /\ \A s \in Susps : s # reader.susp => ioWait'[s] = ioWait[s]
         /\ \/ ioWait[reader.susp] = 0 /\ ReaderIs("wait", NoSusp, 0)
            \/ /\ ioWait[reader.susp] # 0
               /\ ReaderIs("submit", reader.susp, ioWait[reader.susp])
<1>1. reader.pc = "remove" /\ reader.susp \in Susps
  BY DEF ReaderRemove, Types, WakerTypes
<1>2. /\ ioWait' = [ioWait EXCEPT ![reader.susp] = 0]
      /\ ioWait \in [Susps -> ReqIds]
  BY DEF ReaderRemove, Types, IoTypes
<1>3. ioWait[reader.susp] # 0 => ReaderIs("submit", reader.susp, ioWait[reader.susp])
  <2> SUFFICES ASSUME ioWait[reader.susp] # 0
               PROVE  ReaderIs("submit", reader.susp, ioWait[reader.susp])
    OBVIOUS
  <2> DEFINE m == [reader EXCEPT !.pc = "submit", !.req = ioWait[reader.susp]]
  <2>1. ioWait[reader.susp] \in ReqIds
    BY <1>1, <1>2
  <2>2. m \in Reader /\ m.pc = "submit" /\ m.susp = reader.susp /\ m.req = ioWait[reader.susp]
    BY <2>1, ReaderAt DEF Reader
  <2>3. reader' = m
    BY DEF ReaderRemove
  <2> HIDE DEF m
  <2> QED
    BY <2>2, <2>3 DEF ReaderIs
<1>4. ioWait[reader.susp] = 0 => ReaderIs("wait", NoSusp, 0)
  BY Names DEF ReaderRemove, ReaderIs, Reader
<1> QED
  BY <1>1, <1>2, <1>3, <1>4, Names

(* The stdin thread keeps the types.                                        *)
LEMMA StdinTypesStep ==
  ASSUME Types, StdinThread
  PROVE  Types'
<1> USE DEF Types
<1>0. ASSUME NEW pc \in {"push", "take", "wait"}, reader' = [reader EXCEPT !.pc = pc]
      PROVE  ReaderIs(pc, reader.susp, reader.req)
  BY <1>0, ReaderAt DEF ReaderIs, Reader
<1>1. CASE ReaderWait
  <2>0. /\ UNCHANGED <<clientVars, sq, cq, worker, susp, stdin, stdout, stdinWait,
                       stdoutWait, ioWait, outVars, dispVars>>
        /\ demand > 0 /\ demand' = demand - 1 /\ reader' = [reader EXCEPT !.pc = "push"]
    BY <1>1, Zenon DEF ReaderWait
  <2>1. demand' \in Nat
    BY <2>0 DEF IoTypes
  <2> QED
    BY <1>0, <2>0, <2>1 DEF SlotTypes, ClientTypes, QueueTypes, WorkerTypes, DispTypes, IoTypes,
         WakerTypes, clientVars, outVars, dispVars, ReaderIs
<1>2. CASE ReaderPush
  <2>0. /\ UNCHANGED <<clientVars, sq, cq, worker, susp, stdout, stdinWait,
                       stdoutWait, ioWait, demand, outVars, dispVars>>
        /\ stdin < StdinCapacity /\ stdin' = stdin + 1 /\ reader' = [reader EXCEPT !.pc = "take"]
    BY <1>2, Zenon DEF ReaderPush
  <2>1. stdin' \in 0 .. StdinCapacity
    BY <2>0, SizesAssumption DEF IoTypes
  <2> QED
    BY <1>0, <2>0, <2>1 DEF SlotTypes, ClientTypes, QueueTypes, WorkerTypes, DispTypes, IoTypes,
         WakerTypes, clientVars, outVars, dispVars, ReaderIs
<1>3. CASE ReaderTake
  <2>0. UNCHANGED <<clientVars, sq, cq, worker, susp, stdin, stdout, stdoutWait,
                    ioWait, demand, outVars, dispVars>>
    BY <1>3, Zenon DEF ReaderTake
  <2>1. \/ reader' = [reader EXCEPT !.pc = "wait"] /\ stdinWait' = stdinWait
        \/ /\ stdinWait # <<>> /\ stdinWait' = Tail(stdinWait)
           /\ reader' = [reader EXCEPT !.pc = "remove", !.susp = Head(stdinWait)]
    BY <1>3, Zenon DEF ReaderTake
  <2>2. stdinWait # <<>> => Head(stdinWait) \in Susps
    BY TailOf DEF IoTypes
  <2>3. ASSUME NEW s \in Susps, reader' = [reader EXCEPT !.pc = "remove", !.susp = s]
        PROVE  ReaderIs("remove", s, reader.req)
    BY <2>3, ReaderAt DEF ReaderIs, Reader
  <2>4. WakerTypes'
    BY <1>0, <2>0, <2>1, <2>2, <2>3 DEF WakerTypes, ReaderIs, outVars
  <2>5. stdinWait' \in Seq(Susps)
    <3>1. stdinWait \in Seq(Susps)
      BY DEF IoTypes
    <3>2. stdinWait' = stdinWait \/ (stdinWait # <<>> /\ stdinWait' = Tail(stdinWait))
      BY <2>1
    <3> QED
      BY <3>1, <3>2, TailOf
  <2> QED
    BY <2>0, <2>4, <2>5 DEF SlotTypes, ClientTypes, QueueTypes, WorkerTypes, DispTypes, IoTypes,
                            clientVars, dispVars
<1>4. CASE ReaderRemove
  <2>0. UNCHANGED <<clientVars, sq, cq, worker, susp, stdin, stdout, stdinWait,
                    stdoutWait, demand, outVars, dispVars>>
    BY <1>4, Zenon DEF ReaderRemove
  <2>1. ioWait' \in [Susps -> ReqIds]
    BY <1>4, RemoveReaderEffect
  <2>2. WakerTypes'
    BY <1>4, <2>0, RemoveReaderEffect DEF WakerTypes, ReaderIs, outVars
  <2> QED
    BY <2>0, <2>1, <2>2 DEF SlotTypes, ClientTypes, QueueTypes, WorkerTypes, DispTypes, IoTypes,
                            clientVars, dispVars
<1>5. CASE ResumeReader
  <2>0. /\ UNCHANGED <<clientVars, cq, worker, susp, stdin, stdout, stdinWait,
                       stdoutWait, ioWait, demand, outVars, dispVars>>
        /\ reader.pc = "submit" /\ Submit(reader.req, reader.susp, 0)
        /\ reader' = [pc |-> "wait", susp |-> NoSusp, req |-> 0]
    BY <1>5, Zenon DEF ResumeReader
  <2>1. QueueTypes'
    <3>1. reader.req \in Requests /\ reader.susp \in Node
      BY <2>0, ReaderAt, Names DEF WakerTypes
    <3> QED
      BY <2>0, <3>1, Names, SubmitTypes
  <2>2. WakerTypes'
    BY <2>0, Names DEF WakerTypes, Reader, outVars
  <2> QED
    BY <2>0, <2>1, <2>2 DEF SlotTypes, ClientTypes, WorkerTypes, DispTypes, IoTypes,
                            clientVars, dispVars
<1> QED
  BY <1>1, <1>2, <1>3, <1>4, <1>5 DEF StdinThread

-----------------------------------------------------------------------------
(* What clients hold.                                                      *)

(* A client that does not move, and whose slot nobody touches.             *)
LEMMA OtherClientOK ==
  ASSUME Types, ClientInv, NEW d \in Clients, client'[d] = client[d],
         nextReq' \in Nat, nextReq' >= nextReq,
         client[d].slot \in held => client[d].slot \in held',
         client[d].slot # 0 => pending'[client[d].slot] = pending[client[d].slot]
  PROVE  ClientOK(d)'
<1>1. ClientOK(d) /\ nextReq \in Nat
  BY SizesAssumption DEF ClientInv, Types, SlotTypes
<1>2. client[d].pc \in {"registered", "release", "releaseError"} => client[d].slot # 0
  BY <1>1 DEF ClientOK, Owning
<1>3. client[d].pc # "idle" => client[d].req \in 1 .. nextReq' - 1
  BY <1>1 DEF ClientOK
<1> QED
  BY <1>1, <1>2, <1>3 DEF ClientOK

(* Requests are not exchanged between clients.                             *)
LEMMA OwnRequestKept ==
  ASSUME OwnRequest, \A c \in Clients : client'[c].req = client[c].req \/ client'[c].req = 0
  PROVE  OwnRequest'
  BY DEF OwnRequest

(* The slot of one client is not the slot of another.                      *)
LEMMA OwnSlot ==
  ASSUME Types, ClientInv, NEW c \in Clients, NEW d \in Clients, c # d, client[c].slot # 0
  PROVE  client[c].slot # client[d].slot
<1>1. client[c].req # 0
  BY DEF ClientInv, ClientOK, Owning
<1> QED
  BY <1>1 DEF ClientInv, ClientOK, OwnRequest

(* The slot of a client is locked only while the client registers.          *)
LEMMA HeldSlot ==
  ASSUME Types, ClientInv, NEW c \in Clients, client[c].slot # 0, client[c].slot \in held
  PROVE  client[c].pc = "registered"
<1>1. PICK d \in Clients : client[d].pc = "registered" /\ client[d].slot = client[c].slot
  BY DEF ClientInv, HeldInv
<1> QED
  BY <1>1, OwnSlot

(* A client in the middle of its call has a slot, and the slot its request. *)
LEMMA SlotOfClient ==
  ASSUME Types, ClientInv, NEW c \in Clients, client[c].pc \in Owning
  PROVE  /\ client[c].slot \in 1 .. Slots
         /\ pending[client[c].slot].req = client[c].req
         /\ client[c].req \in 1 .. nextReq - 1
<1>1. client[c].slot # 0 /\ client[c].pc # "idle"
  BY DEF ClientInv, ClientOK, Owning
<1> QED
  BY <1>1, ClientAt, SizesAssumption DEF ClientInv, ClientOK

(* Clients keep what clients hold.                                          *)
LEMMA ClientInvClients ==
  ASSUME Types, ClientInv, EventInv, NEW c \in Clients, Call(c) \/ ClientStep(c)
  PROVE  ClientInv'
<1>0. nextReq \in Nat /\ nextReq >= 1 /\ ClientOK(c)
  BY SizesAssumption DEF Types, SlotTypes, ClientInv
<1>1. CASE Call(c)
  <2>1. nextReq' = nextReq + 1 /\ UNCHANGED <<pending, held>> /\ client[c].pc = "idle"
    BY <1>1, Zenon DEF Call
  <2>2. PICK p \in Programs, b \in Budgets : ClientIs(c, "acquire", nextReq, 0, p, b)
    BY <1>1, CallEffect
  <2>3. \A d \in Clients \ {c} : ClientOK(d)'
    BY <1>0, <2>1, <2>2, OtherClientOK DEF ClientIs
  <2>4. ClientOK(c)'
    BY <1>0, <2>1, <2>2, Names DEF ClientIs, ClientOK, Owning
  <2>5. \A d \in Clients : client[d].req \in 0 .. nextReq - 1
    BY <1>0, SizesAssumption DEF ClientInv, ClientOK, Types, SlotTypes
  <2>6. OwnRequest'
    BY <1>0, <2>2, <2>5 DEF ClientInv, OwnRequest, ClientIs
  <2>7. HeldInv'
    BY <2>1, <2>2 DEF ClientInv, HeldInv, ClientIs
  <2> QED
    BY <2>3, <2>4, <2>6, <2>7 DEF ClientInv
<1>2. CASE AcquireSlot(c)
  <2>1. nextReq' = nextReq /\ held' = held /\ client[c].pc = "acquire"
    BY <1>2, Zenon DEF AcquireSlot
  <2>2. CASE \E i \in 1 .. Slots :
              /\ pending[i].req = 0 /\ held \cap 1 .. i = {}
              /\ SlotIs(i, client[c].req, pending[i].node, pending[i].event, FALSE)
              /\ ClientGoes(c, "submit", i, client[c].node)
    <3>1. PICK i \in 1 .. Slots :
              /\ pending[i].req = 0
              /\ SlotIs(i, client[c].req, pending[i].node, pending[i].event, FALSE)
              /\ ClientGoes(c, "submit", i, client[c].node)
      BY <2>2
    <3>2. \A d \in Clients \ {c} : client[d].slot # i
      BY <3>1 DEF ClientInv, ClientOK, Owning
    <3>3. \A d \in Clients \ {c} : client[d].slot # 0 => pending'[client[d].slot] = pending[client[d].slot]
      BY <3>1, <3>2, ClientAt, SizesAssumption DEF SlotIs
    <3>4. \A d \in Clients \ {c} : ClientOK(d)'
      BY <1>0, <2>1, <3>1, <3>3, OtherClientOK DEF ClientIs, ClientGoes
    <3>5. ClientOK(c)'
      BY <1>0, <2>1, <3>1 DEF ClientIs, ClientGoes, SlotIs, ClientOK, Owning
    <3>6. OwnRequest'
      BY <3>1, OwnRequestKept DEF ClientInv, ClientIs, ClientGoes
    <3>7. HeldInv'
      BY <2>1, <3>1 DEF ClientInv, HeldInv, ClientIs, ClientGoes
    <3> QED
      BY <3>4, <3>5, <3>6, <3>7 DEF ClientInv
  <2>3. CASE /\ ClientGoes(c, "slotWait", client[c].slot, client[c].node)
             /\ pending' = pending
    <3>1. \A d \in Clients \ {c} : ClientOK(d)'
      BY <1>0, <2>1, <2>3, OtherClientOK DEF ClientIs, ClientGoes
    <3>2. ClientOK(c)'
      BY <1>0, <2>1, <2>3 DEF ClientIs, ClientGoes, ClientOK, Owning
    <3>3. OwnRequest'
      BY <2>3, OwnRequestKept DEF ClientInv, ClientIs, ClientGoes
    <3>4. HeldInv'
      BY <2>1, <2>3 DEF ClientInv, HeldInv, ClientIs, ClientGoes
    <3> QED
      BY <3>1, <3>2, <3>3, <3>4 DEF ClientInv
  <2> QED
    BY <1>2, <2>2, <2>3, AcquireEffect
<1>3. CASE ClientSubmit(c) \/ RaiseDemand(c)
  <2>1. /\ UNCHANGED <<nextReq, pending, held>>
        /\ client[c].pc \in {"submit", "demand"}
    BY <1>3, Zenon DEF ClientSubmit, RaiseDemand
  <2>2. ClientGoes(c, "await", client[c].slot, client[c].node)
    BY <1>3, SubmitEffect, DemandEffect
  <2>3. \A d \in Clients \ {c} : ClientOK(d)'
    BY <1>0, <2>1, <2>2, OtherClientOK DEF ClientIs, ClientGoes
  <2>4. ClientOK(c)'
    BY <1>0, <2>1, <2>2 DEF ClientIs, ClientGoes, ClientOK, Owning
  <2>5. OwnRequest'
    BY <2>2, OwnRequestKept DEF ClientInv, ClientIs, ClientGoes
  <2>6. HeldInv'
    BY <2>1, <2>2 DEF ClientInv, HeldInv, ClientIs, ClientGoes
  <2> QED
    BY <2>3, <2>4, <2>5, <2>6 DEF ClientInv
<1>4. CASE Completion(c)
  <2> DEFINE i == client[c].slot
             node == pending[i].node
  <2>1. nextReq' = nextReq
    BY <1>4, Zenon DEF Completion
  <2>2. client[c].pc = "await" /\ i \in 1 .. Slots /\ pending[i].done
    BY <1>4, CompletionEffect
  <2>3. \A d \in Clients \ {c} : client[d].slot # i
    BY <2>2, OwnSlot
  <2>4. PICK pc \in {"release", "releaseError", "registered", "submit"}, n \in Node :
           /\ ClientGoes(c, pc, i, n)
           /\ pc # "submit" => pending' = pending
           /\ pc = "release" => pending[i].event = "DONE" \/ client[c].budget # Unlimited
           /\ pc # "registered" => held' = held
           /\ pc = "registered" => held' = held \cup {i} /\ node \in Susps
           /\ pc = "submit" => SlotIs(i, pending[i].req, node, pending[i].event, FALSE)
    <3>1. client[c].node \in Node /\ \A s \in Susps : s \in Node
      BY ClientAt, Names
    <3> QED
      BY <1>4, <3>1, CompletionEffect
  <2>5. \A d \in Clients \ {c} : client[d].slot # 0 => pending'[client[d].slot] = pending[client[d].slot]
    BY <2>3, <2>4, ClientAt, SizesAssumption DEF SlotIs
  <2>6. \A d \in Clients \ {c} : ClientOK(d)'
    BY <1>0, <2>1, <2>4, <2>5, OtherClientOK DEF ClientIs, ClientGoes
  <2>7. ClientOK(c)'
    BY <1>0, <2>1, <2>2, <2>4 DEF ClientIs, ClientGoes, SlotIs, ClientOK, Owning
  <2>8. OwnRequest'
    BY <2>4, OwnRequestKept DEF ClientInv, ClientIs, ClientGoes
  <2>9. HeldInv'
    BY <2>2, <2>4 DEF ClientInv, HeldInv, ClientIs, ClientGoes
  <2> QED
    BY <2>6, <2>7, <2>8, <2>9 DEF ClientInv
<1>5. CASE AfterRegister(c)
  <2> DEFINE i == client[c].slot
  <2>1. nextReq' = nextReq /\ client[c].pc = "registered"
    BY <1>5, Zenon DEF AfterRegister
  <2>2. PICK pc \in {"demand", "await"} :
           /\ ClientGoes(c, pc, i, client[c].node)
           /\ i \in held /\ held' = held \ {i}
           /\ SlotIs(i, pending[i].req, pending[i].node, pending[i].event, FALSE)
    BY <1>5, RegisterEffect
  <2>3. i # 0 /\ \A d \in Clients \ {c} : client[d].slot # i
    BY <2>1, OwnSlot DEF ClientInv, ClientOK, Owning
  <2>4. \A d \in Clients \ {c} : client[d].slot # 0 => pending'[client[d].slot] = pending[client[d].slot]
    BY <2>2, <2>3, ClientAt, SizesAssumption DEF SlotIs
  <2>5. \A d \in Clients \ {c} : ClientOK(d)'
    BY <1>0, <2>1, <2>2, <2>3, <2>4, OtherClientOK DEF ClientIs, ClientGoes
  <2>6. ClientOK(c)'
    BY <1>0, <2>1, <2>2, <2>3 DEF ClientIs, ClientGoes, SlotIs, ClientOK, Owning
  <2>7. OwnRequest'
    BY <2>2, OwnRequestKept DEF ClientInv, ClientIs, ClientGoes
  <2>8. HeldInv'
    BY <2>2 DEF ClientInv, HeldInv, ClientIs, ClientGoes
  <2> QED
    BY <2>5, <2>6, <2>7, <2>8 DEF ClientInv
<1>6. CASE ReleaseSlot(c)
  <2> DEFINE i == client[c].slot
  <2>1. nextReq' = nextReq /\ held' = held /\ client[c].pc \in {"release", "releaseError"}
    BY <1>6, Zenon DEF ReleaseSlot
  <2>2. /\ i \in (1 .. Slots) \ held
        /\ SlotIs(i, 0, <<>>, "DONE", FALSE)
        /\ client' \in [Clients -> Client]
        /\ client'[c].slot = 0
        /\ client'[c].budget = client[c].budget \/ client'[c].pc = "idle"
        /\ \/ client[c].pc = "release" /\ client'[c].pc = "drain"
              /\ client'[c].req = client[c].req
           \/ client'[c] = IdleClient
        /\ \A d \in Clients \ {c} :
             \/ client'[d] = client[d]
             \/ /\ client[d].pc = "slotWait" /\ client'[d].pc = "acquire"
                /\ client'[d].req = client[d].req /\ client'[d].slot = client[d].slot
                /\ client'[d].node = client[d].node
                /\ client'[d].budget = client[d].budget
    BY <1>6, ReleaseEffect
  <2>3. i # 0 /\ \A d \in Clients \ {c} : client[d].slot # i
    BY <2>1, OwnSlot DEF ClientInv, ClientOK, Owning
  <2>4. \A d \in Clients \ {c} : client[d].slot # 0 => pending'[client[d].slot] = pending[client[d].slot]
    BY <2>2, <2>3, ClientAt, SizesAssumption DEF SlotIs
  <2>5. \A d \in Clients \ {c} : ClientOK(d)'
    <3> SUFFICES ASSUME NEW d \in Clients \ {c} PROVE ClientOK(d)'
      OBVIOUS
    <3>1. CASE client'[d] = client[d]
      BY <1>0, <2>1, <2>4, <3>1, OtherClientOK
    <3>2. CASE /\ client[d].pc = "slotWait" /\ client'[d].pc = "acquire"
               /\ client'[d].req = client[d].req /\ client'[d].slot = client[d].slot
               /\ client'[d].node = client[d].node
               /\ client'[d].budget = client[d].budget
      BY <2>1, <3>2 DEF ClientInv, ClientOK, Owning
    <3> QED
      BY <2>2, <3>1, <3>2
  <2>6. ClientOK(c)'
    BY <1>0, <2>1, <2>2, <2>3, IdleClientType DEF ClientOK, Owning
  <2>7. OwnRequest'
    BY <2>2, IdleClientType, OwnRequestKept DEF ClientInv
  <2>8. HeldInv'
    <3> SUFFICES ASSUME NEW j \in held
                 PROVE  \E d \in Clients : client'[d].pc = "registered" /\ client'[d].slot = j
      BY <2>1 DEF HeldInv
    <3>1. PICK d \in Clients : client[d].pc = "registered" /\ client[d].slot = j
      BY DEF ClientInv, HeldInv
    <3>2. client'[d] = client[d]
      BY <2>1, <2>2, <3>1
    <3> QED
      BY <3>1, <3>2
  <2> QED
    BY <2>5, <2>6, <2>7, <2>8 DEF ClientInv
<1> QED
  BY <1>1, <1>2, <1>3, <1>4, <1>5, <1>6 DEF ClientStep

(* So does the dispatcher when it delivers.                                 *)
LEMMA ClientInvDeliver ==
  ASSUME Types, ClientInv, Deliver
  PROVE  ClientInv'
<1>1. UNCHANGED <<nextReq, held, client>> /\ nextReq \in Nat
  <2>1. UNCHANGED <<nextReq, held, client>>
    BY Zenon DEF Deliver
  <2> QED
    BY <2>1, SizesAssumption DEF Types, SlotTypes
<1>2. CASE pending' = pending
  BY <1>1, <1>2 DEF ClientInv, ClientOK, OwnRequest, HeldInv
<1>3. ASSUME NEW i \in 1 .. Slots, NEW node, NEW event, ~ pending[i].done,
             SlotIs(i, pending[i].req, node, event, TRUE)
      PROVE  ClientInv'
  <2>1. \A d \in Clients : client[d].slot # 0 =>
          /\ pending'[client[d].slot].req = pending[client[d].slot].req
          /\ pending[client[d].slot].done => pending'[client[d].slot] = pending[client[d].slot]
    BY <1>3, ClientAt, SizesAssumption DEF SlotIs
  <2>2. \A d \in Clients : ClientOK(d)'
    BY <1>1, <2>1 DEF ClientInv, ClientOK, Owning
  <2> QED
    BY <1>1, <2>2 DEF ClientInv, OwnRequest, HeldInv
<1> QED
  BY <1>2, <1>3, DeliverEffect

(* So does publication, which ends the call of a draining client.           *)
LEMMA ClientInvPop ==
  ASSUME Types, ClientInv, NEW x \in Clients \cup {Pump}, PopStdout(x)
  PROVE  ClientInv'
<1>1. UNCHANGED <<nextReq, pending, held>> /\ nextReq \in Nat
  <2>1. UNCHANGED <<nextReq, pending, held>>
    BY Zenon DEF PopStdout
  <2> QED
    BY <2>1, SizesAssumption DEF Types, SlotTypes
<1>2. CASE client' = client
  BY <1>1, <1>2 DEF ClientInv, ClientOK, OwnRequest, HeldInv
<1>3. CASE /\ x \in Clients /\ client[x].pc = "drain"
           /\ ClientIs(x, "idle", 0, 0, IdleClient.node, IdleClient.budget)
  <2>1. \A d \in Clients \ {x} : ClientOK(d)'
    BY <1>1, <1>3, OtherClientOK DEF ClientIs
  <2>2. ClientOK(x)'
    BY <1>3 DEF ClientOK, ClientIs, Owning
  <2>3. OwnRequest'
    BY <1>3, OwnRequestKept DEF ClientInv, ClientIs
  <2>4. HeldInv'
    BY <1>1, <1>3 DEF ClientInv, HeldInv, ClientIs
  <2> QED
    BY <1>3, <2>1, <2>2, <2>3, <2>4 DEF ClientInv
<1> QED
  BY <1>2, <1>3, PopEffect

-----------------------------------------------------------------------------
(* The tokens: where the continuation of each request is.  A token names   *)
(* the kind of its place, the request, the term or suspension it goes on   *)
(* with, and which of the places of the kind it is.                        *)
Token(kind, req, node, place) == <<kind, req, node, place>>

ClientToken(c) == IF client[c].pc = "submit"
                    THEN {Token("client", client[c].req, client[c].node, c)} ELSE {}
WorkerToken(w) == IF worker[w].req # 0
                    THEN {Token("worker", worker[w].req, worker[w].node, w)} ELSE {}
SlotToken(i)   == IF i \notin held /\ pending[i].done
                    THEN {Token("slot", pending[i].req, pending[i].node, i)} ELSE {}
WaitToken(s)   == IF ioWait[s] # 0 THEN {Token("wait", ioWait[s], s, 0)} ELSE {}

QueueTokens(kind, q) == {Token(kind, q[k].req, q[k].node, 0) : k \in DOMAIN q}

ClientTokens == UNION {ClientToken(c) : c \in Clients}
SqTokens     == QueueTokens("sq", sq)
WorkerTokens == UNION {WorkerToken(w) : w \in Workers}
CqTokens     == QueueTokens("cq", cq)
DispTokens   == IF disp.pc = "deliver"
                  THEN {Token("disp", disp.cqe.req, disp.cqe.node, 0)} ELSE {}
SlotTokens   == UNION {SlotToken(i) : i \in 1 .. Slots}
WaitTokens   == UNION {WaitToken(s) : s \in Susps}
PubTokens    == IF pub.pc = "submit" THEN {Token("pub", pub.req, pub.susp, 0)} ELSE {}
ReaderTokens == IF reader.pc = "submit"
                  THEN {Token("reader", reader.req, reader.susp, 0)} ELSE {}

AllTokens == ClientTokens \cup SqTokens \cup WorkerTokens \cup CqTokens \cup DispTokens
               \cup SlotTokens \cup WaitTokens \cup PubTokens \cup ReaderTokens

ParkedSet == {s \in Susps : susp[s].status = "PARKED"}

(* Every call ends with the normal form of its term.                       *)
Completes == ~ Fails /\ Budgets \subseteq {Unlimited}

(* Tokens are of requests that own a slot, which have one each; no two go  *)
(* on with the same suspension, and the one they go on with is parked.  If *)
(* calls end with their normal form, no other suspension is parked.        *)
Sound(T, A, P) ==
  /\ \A t \in T : t[2] \in A /\ (t[3] \in Susps => t[3] \in P)
  /\ \A t, u \in T : t[2] = u[2] => t = u
  /\ \A t, u \in T : t[3] = u[3] /\ t[3] \in Susps => t = u
  /\ \A r \in A : \E t \in T : t[2] = r
  /\ Completes => \A s \in P : \E t \in T : t[3] = s

Once(q) == \A j, k \in DOMAIN q : q[j].req = q[k].req => j = k

TokenInv == Sound(AllTokens, Active, ParkedSet) /\ Once(sq) /\ Once(cq)

(* The four parts of a token.                                               *)
LEMMA TokenParts ==
  \A k, r, n, p : /\ Token(k, r, n, p)[1] = k /\ Token(k, r, n, p)[2] = r
                  /\ Token(k, r, n, p)[3] = n /\ Token(k, r, n, p)[4] = p
  BY DEF Token

(* The first part is the kind of place.                                     *)
LEMMA TokenKinds ==
  /\ \A t \in ClientTokens : t[1] = "client"
  /\ \A t \in SqTokens : t[1] = "sq"
  /\ \A t \in WorkerTokens : t[1] = "worker"
  /\ \A t \in CqTokens : t[1] = "cq"
  /\ \A t \in DispTokens : t[1] = "disp"
  /\ \A t \in SlotTokens : t[1] = "slot"
  /\ \A t \in WaitTokens : t[1] = "wait"
  /\ \A t \in PubTokens : t[1] = "pub"
  /\ \A t \in ReaderTokens : t[1] = "reader"
<1>1. \A t \in ClientTokens : t[1] = "client"
  BY TokenParts DEF ClientTokens, ClientToken
<1>2. \A t \in SqTokens : t[1] = "sq"
  BY TokenParts DEF SqTokens, QueueTokens
<1>3. \A t \in WorkerTokens : t[1] = "worker"
  BY TokenParts DEF WorkerTokens, WorkerToken
<1>4. \A t \in CqTokens : t[1] = "cq"
  BY TokenParts DEF CqTokens, QueueTokens
<1>5. \A t \in SlotTokens : t[1] = "slot"
  BY TokenParts DEF SlotTokens, SlotToken
<1>6. \A t \in WaitTokens : t[1] = "wait"
  BY TokenParts DEF WaitTokens, WaitToken
<1> QED
  BY <1>1, <1>2, <1>3, <1>4, <1>5, <1>6, TokenParts DEF DispTokens, PubTokens, ReaderTokens

(* What an action leaves alone keeps its tokens.                           *)
LEMMA TokenFrame ==
  /\ client' = client => ClientTokens' = ClientTokens /\ Active' = Active
  /\ sq' = sq => SqTokens' = SqTokens /\ Once(sq)' = Once(sq)
  /\ worker' = worker => WorkerTokens' = WorkerTokens
  /\ cq' = cq => CqTokens' = CqTokens /\ Once(cq)' = Once(cq)
  /\ disp' = disp => DispTokens' = DispTokens
  /\ pending' = pending /\ held' = held => SlotTokens' = SlotTokens
  /\ ioWait' = ioWait => WaitTokens' = WaitTokens
  /\ pub' = pub => PubTokens' = PubTokens
  /\ reader' = reader => ReaderTokens' = ReaderTokens
  /\ susp' = susp => ParkedSet' = ParkedSet
<1>1. client' = client => ClientTokens' = ClientTokens /\ Active' = Active
  BY DEF ClientTokens, ClientToken, Active
<1>2. sq' = sq => SqTokens' = SqTokens /\ Once(sq)' = Once(sq)
  BY DEF SqTokens, QueueTokens, Once
<1>3. worker' = worker => WorkerTokens' = WorkerTokens
  BY DEF WorkerTokens, WorkerToken
<1>4. cq' = cq => CqTokens' = CqTokens /\ Once(cq)' = Once(cq)
  BY DEF CqTokens, QueueTokens, Once
<1>5. pending' = pending /\ held' = held => SlotTokens' = SlotTokens
  BY DEF SlotTokens, SlotToken
<1>6. ioWait' = ioWait => WaitTokens' = WaitTokens
  BY DEF WaitTokens, WaitToken
<1> QED
  BY <1>1, <1>2, <1>3, <1>4, <1>5, <1>6 DEF DispTokens, PubTokens, ReaderTokens, ParkedSet

(* One element of a component changes.                                     *)

(* One client changes.                                                      *)
LEMMA ClientMoved ==
  ASSUME NEW c \in Clients, \A d \in Clients \ {c} : client'[d] = client[d]
  PROVE  ClientTokens' = (ClientTokens \ ClientToken(c)) \cup ClientToken(c)'
  BY TokenParts DEF ClientTokens, ClientToken

(* One worker changes.                                                      *)
LEMMA WorkerMoved ==
  ASSUME NEW w \in Workers, \A v \in Workers \ {w} : worker'[v] = worker[v]
  PROVE  WorkerTokens' = (WorkerTokens \ WorkerToken(w)) \cup WorkerToken(w)'
  BY TokenParts DEF WorkerTokens, WorkerToken

(* One slot changes.                                                        *)
LEMMA SlotMoved ==
  ASSUME NEW i \in 1 .. Slots,
         \A j \in 1 .. Slots : j # i => pending'[j] = pending[j] /\ (j \in held' <=> j \in held)
  PROVE  SlotTokens' = (SlotTokens \ SlotToken(i)) \cup SlotToken(i)'
  BY TokenParts DEF SlotTokens, SlotToken

(* One entry of io_wait_map changes.                                        *)
LEMMA WaitMoved ==
  ASSUME NEW s \in Susps, \A t \in Susps : t # s => ioWait'[t] = ioWait[t]
  PROVE  WaitTokens' = (WaitTokens \ WaitToken(s)) \cup WaitToken(s)'
  BY TokenParts DEF WaitTokens, WaitToken

(* Queues.                                                                 *)

(* An appended element adds its token.                                      *)
LEMMA AppendTokens ==
  ASSUME NEW S, NEW q \in Seq(S), NEW e \in S, NEW kind
  PROVE  QueueTokens(kind, Append(q, e)) =
           QueueTokens(kind, q) \cup {Token(kind, e.req, e.node, 0)}
<1>1. /\ DOMAIN q = 1 .. Len(q)
      /\ DOMAIN Append(q, e) = 1 .. Len(q) + 1 /\ Len(q) \in Nat
      /\ \A k \in 1 .. Len(q) : Append(q, e)[k] = q[k]
      /\ Append(q, e)[Len(q) + 1] = e
  BY AppendOf
<1>2. DOMAIN Append(q, e) = DOMAIN q \cup {Len(q) + 1}
  BY <1>1
<1> QED
  BY <1>1, <1>2 DEF QueueTokens

(* A queue keeps its requests apart when a new one is appended.             *)
LEMMA AppendOnce ==
  ASSUME NEW S, NEW q \in Seq(S), NEW e \in S, Once(q), \A k \in DOMAIN q : q[k].req # e.req
  PROVE  Once(Append(q, e))
<1>1. /\ DOMAIN q = 1 .. Len(q)
      /\ DOMAIN Append(q, e) = 1 .. Len(q) + 1 /\ Len(q) \in Nat
      /\ \A k \in 1 .. Len(q) : Append(q, e)[k] = q[k]
      /\ Append(q, e)[Len(q) + 1] = e
  BY AppendOf
<1>2. DOMAIN Append(q, e) = DOMAIN q \cup {Len(q) + 1}
  BY <1>1
<1> QED
  BY <1>1, <1>2 DEF Once

(* The head takes its token with it.                                        *)
LEMMA TailTokens ==
  ASSUME NEW S, NEW q \in Seq(S), q # <<>>, Once(q), NEW kind
  PROVE  /\ QueueTokens(kind, Tail(q)) =
              QueueTokens(kind, q) \ {Token(kind, Head(q).req, Head(q).node, 0)}
         /\ Token(kind, Head(q).req, Head(q).node, 0) \in QueueTokens(kind, q)
         /\ Once(Tail(q))
<1>1. /\ DOMAIN q = 1 .. Len(q) /\ Len(q) \in Nat /\ Len(q) >= 1 /\ Head(q) = q[1]
      /\ DOMAIN Tail(q) = 1 .. Len(q) - 1
      /\ \A k \in 1 .. Len(q) - 1 : Tail(q)[k] = q[k + 1]
  BY TailOf
<1>2. \A k \in DOMAIN Tail(q) : k + 1 \in DOMAIN q /\ k + 1 # 1 /\ Tail(q)[k] = q[k + 1]
  BY <1>1
<1>3. \A k \in DOMAIN q : k = 1 \/ (k - 1 \in DOMAIN Tail(q) /\ Tail(q)[k - 1] = q[k])
  BY <1>1
<1>4. 1 \in DOMAIN q
  BY <1>1
<1> DEFINE out == Token(kind, Head(q).req, Head(q).node, 0)
           tok(k) == Token(kind, q[k].req, q[k].node, 0)
<1>5. out \in QueueTokens(kind, q)
  BY <1>1, <1>4 DEF QueueTokens
<1>6. \A k \in DOMAIN q : k # 1 => tok(k) # out
  BY <1>1, <1>4, TokenParts DEF Once
<1>7. ASSUME NEW t \in QueueTokens(kind, Tail(q)) PROVE t \in QueueTokens(kind, q) \ {out}
  <2>1. PICK k \in DOMAIN Tail(q) : t = Token(kind, Tail(q)[k].req, Tail(q)[k].node, 0)
    BY DEF QueueTokens
  <2>2. t = tok(k + 1) /\ k + 1 \in DOMAIN q /\ k + 1 # 1
    BY <1>2, <2>1
  <2> HIDE DEF out
  <2> QED
    BY <1>6, <2>2 DEF QueueTokens
<1>8. ASSUME NEW t \in QueueTokens(kind, q) \ {out} PROVE t \in QueueTokens(kind, Tail(q))
  <2>1. PICK k \in DOMAIN q : t = tok(k)
    BY DEF QueueTokens
  <2>2. k # 1
    BY <1>1, <2>1
  <2> QED
    BY <1>3, <2>1, <2>2 DEF QueueTokens
<1>9. Once(Tail(q))
  <2> SUFFICES ASSUME NEW j \in DOMAIN Tail(q), NEW k \in DOMAIN Tail(q),
                      Tail(q)[j].req = Tail(q)[k].req
               PROVE  j = k
    BY DEF Once
  <2>1. j + 1 = k + 1
    BY <1>2 DEF Once
  <2> QED
    BY <1>1, <2>1
<1> QED
  BY <1>5, <1>7, <1>8, <1>9

-----------------------------------------------------------------------------
(* What becomes of sound tokens.                                           *)

(* The invariant of the next state, from its three sets.                    *)
LEMMA SoundPrime ==
  ASSUME NEW T, NEW A, NEW P, AllTokens' = T, Active' = A, ParkedSet' = P, Sound(T, A, P),
         Once(sq)', Once(cq)'
  PROVE  TokenInv'
<1>1. Sound(AllTokens, Active, ParkedSet)'
  BY DEF Sound
<1> QED
  BY <1>1 DEF TokenInv

(* The tokens stay where they are.                                          *)
LEMMA TokensStay ==
  ASSUME TokenInv, AllTokens' = AllTokens, Active' = Active, ParkedSet' = ParkedSet,
         Once(sq)', Once(cq)'
  PROVE  TokenInv'
  BY SoundPrime DEF TokenInv

(* A token goes to another place.  Its suspension stays, is freed, or is   *)
(* one that was not parked before.                                         *)
LEMMA TokenMoves ==
  ASSUME TokenInv, NEW old \in AllTokens, NEW new,
         AllTokens' = (AllTokens \ {old}) \cup {new},
         new[2] = old[2],
         Active' = Active,
         \A s \in ParkedSet : s # old[3] => s \in ParkedSet',
         \A s \in ParkedSet' : s \in ParkedSet \/ s = new[3],
         old[3] \in ParkedSet' => new[3] = old[3],
         new[3] \in Susps => new[3] \in ParkedSet' /\ (new[3] = old[3] \/ new[3] \notin ParkedSet),
         Once(sq)', Once(cq)'
  PROVE  TokenInv'
<1> DEFINE T == (AllTokens \ {old}) \cup {new}
<1>0. Sound(AllTokens, Active, ParkedSet)
  BY DEF TokenInv
<1>1. \A t \in T : t[2] \in Active /\ (t[3] \in Susps => t[3] \in ParkedSet')
  BY <1>0 DEF Sound
<1>2. \A t, u \in T : t[2] = u[2] => t = u
  BY <1>0 DEF Sound
<1>3. \A t, u \in T : t[3] = u[3] /\ t[3] \in Susps => t = u
  BY <1>0 DEF Sound
<1>4. \A r \in Active : \E t \in T : t[2] = r
  BY <1>0 DEF Sound
<1>a. ASSUME Completes, NEW s \in ParkedSet'
      PROVE  \E t \in T : t[3] = s
  <2>1. CASE s = new[3]
    BY <2>1
  <2>2. CASE s # new[3]
    <3>1. s \in ParkedSet /\ s # old[3]
      BY <1>a, <2>2
    <3>2. PICK t \in AllTokens : t[3] = s
      BY <1>0, <1>a, <3>1 DEF Sound
    <3> QED
      BY <3>1, <3>2
  <2> QED
    BY <2>1, <2>2
<1> HIDE DEF T
<1>5. Sound(T, Active, ParkedSet')
  BY <1>1, <1>2, <1>3, <1>4, <1>a DEF Sound
<1> QED
  BY <1>5, SoundPrime DEF T

(* A request gets its slot, and its first token.                           *)
LEMMA TokenStarts ==
  ASSUME TokenInv, NEW new, AllTokens' = AllTokens \cup {new},
         new[2] \notin Active, Active' = Active \cup {new[2]},
         new[3] \notin Susps, ParkedSet' = ParkedSet,
         Once(sq)', Once(cq)'
  PROVE  TokenInv'
<1> DEFINE T == AllTokens \cup {new}
           A == Active \cup {new[2]}
<1>0. Sound(AllTokens, Active, ParkedSet)
  BY DEF TokenInv
<1>1. Sound(T, A, ParkedSet)
  BY <1>0 DEF Sound
<1> HIDE DEF T, A
<1> QED
  BY <1>1, SoundPrime DEF T, A

(* A request gives its slot back, and its token with it.                   *)
LEMMA TokenEnds ==
  ASSUME TokenInv, NEW old \in AllTokens, AllTokens' = AllTokens \ {old},
         Active' = Active \ {old[2]}, ParkedSet' = ParkedSet,
         Completes => old[3] \notin Susps,
         Once(sq)', Once(cq)'
  PROVE  TokenInv'
<1> DEFINE T == AllTokens \ {old}
           A == Active \ {old[2]}
<1>0. Sound(AllTokens, Active, ParkedSet)
  BY DEF TokenInv
<1>1. Sound(T, A, ParkedSet)
  BY <1>0 DEF Sound, ParkedSet
<1> HIDE DEF T, A
<1> QED
  BY <1>1, SoundPrime DEF T, A

(* Two tokens of one request are the same.                                 *)
LEMMA SameToken ==
  ASSUME TokenInv, NEW t \in AllTokens, NEW u \in AllTokens,
         t[2] = u[2] \/ (t[3] = u[3] /\ t[3] \in Susps)
  PROVE  t = u
  BY DEF TokenInv, Sound

(* A token belongs to a request that owns a slot, and its suspension is     *)
(* parked.                                                                  *)
LEMMA TokenOfActive ==
  ASSUME TokenInv, NEW t \in AllTokens
  PROVE  t[2] \in Active /\ (t[3] \in Susps => susp[t[3]].status = "PARKED")
  BY DEF TokenInv, Sound, ParkedSet

(* A client that keeps its slot keeps its request active.                   *)
LEMMA ActiveKept ==
  ASSUME NEW c \in Clients, \A d \in Clients \ {c} : client'[d] = client[d],
         client'[c].slot = 0 <=> client[c].slot = 0,
         client[c].slot # 0 => client'[c].req = client[c].req
  PROVE  Active' = Active
  BY DEF Active

(* An active request has a client and a slot that carry it.                 *)
LEMMA ActiveRequest ==
  ASSUME Types, ClientInv, NEW r \in Active
  PROVE  \E c \in Clients : client[c].req = r /\ client[c].slot \in 1 .. Slots
                            /\ client[c].pc \in Owning
                            /\ pending[client[c].slot].req = r
<1>1. PICK c \in Clients : client[c].req = r /\ client[c].slot # 0
  BY DEF Active
<1>2. client[c].pc \in Owning
  BY <1>1 DEF ClientInv, ClientOK
<1> QED
  BY <1>1, <1>2, SlotOfClient

(* A token goes to the submission queue.                                   *)
LEMMA ToSubmission ==
  ASSUME Types, TokenInv, NEW r \in Requests, NEW node \in Node, NEW steps \in Budget,
         Submit(r, node, steps), NEW old \in AllTokens, old[1] # "sq", old[2] = r
  PROVE  SqTokens' = SqTokens \cup {Token("sq", r, node, 0)} /\ Once(sq)'
<1> DEFINE e == [req |-> r, node |-> node, steps |-> steps]
<1>1. sq' = Append(sq, e) /\ e \in Sqe /\ e.req = r /\ e.node = node
  BY DEF Submit, Sqe
<1>2. sq \in Seq(Sqe) /\ Once(sq)
  BY DEF Types, QueueTypes, TokenInv
<1>3. ASSUME NEW k \in DOMAIN sq, sq[k].req = r PROVE FALSE
  <2>1. Token("sq", r, sq[k].node, 0) \in AllTokens
    BY <1>3 DEF AllTokens, SqTokens, QueueTokens
  <2> QED
    BY <2>1, SameToken, TokenParts
<1> HIDE DEF e
<1>4. QueueTokens("sq", Append(sq, e)) = QueueTokens("sq", sq) \cup {Token("sq", r, node, 0)}
  BY <1>1, <1>2, AppendTokens
<1>5. Once(Append(sq, e))
  BY <1>1, <1>2, <1>3, AppendOnce
<1>6. SqTokens' = QueueTokens("sq", sq')
  BY DEF SqTokens, QueueTokens
<1>7. Once(sq') => Once(sq)'
  BY DEF Once
<1> QED
  BY <1>1, <1>4, <1>5, <1>6, <1>7 DEF SqTokens

-----------------------------------------------------------------------------
(* Tokens and clients.                                                     *)
TokenVars == <<sq, worker, cq, disp, pub, reader, susp>>

(* A client that holds no token, and does not get one.                      *)
LEMMA ClientKeeps ==
  ASSUME Types, TokenInv, NEW c \in Clients,
         \A d \in Clients \ {c} : client'[d] = client[d],
         client'[c].slot = 0 <=> client[c].slot = 0,
         client[c].slot # 0 => client'[c].req = client[c].req,
         client[c].pc # "submit", client'[c].pc # "submit",
         UNCHANGED TokenVars, WaitTokens' = WaitTokens, SlotTokens' = SlotTokens
  PROVE  TokenInv'
<1>1. Active' = Active
  BY ActiveKept
<1>2. ClientTokens' = ClientTokens
  <2>1. ClientToken(c) = {} /\ ClientToken(c)' = {}
    BY DEF ClientToken
  <2> QED
    BY <2>1, ClientMoved
<1> QED
  BY <1>1, <1>2, TokenFrame, TokensStay DEF AllTokens, TokenVars, TokenInv

(* A call begins without a token.                                           *)
LEMMA CallTokens ==
  ASSUME Types, TokenInv, ClientInv, NEW c \in Clients, Call(c)
  PROVE  TokenInv'
<1>1. /\ UNCHANGED <<pending, held, sq, cq, worker, susp, stdin, stdout, ioVars, outVars, dispVars>>
      /\ client[c].pc = "idle"
  BY Zenon DEF Call
<1>2. UNCHANGED TokenVars /\ WaitTokens' = WaitTokens /\ SlotTokens' = SlotTokens
  BY <1>1, TokenFrame DEF TokenVars, ioVars, outVars, dispVars
<1>3. client[c].slot = 0
  BY <1>1 DEF ClientInv, ClientOK, Owning
<1> QED
  BY <1>1, <1>2, <1>3, CallEffect, ClientKeeps DEF ClientIs

(* With its slot the request gets its token.                                *)
LEMMA AcquireTokens ==
  ASSUME Types, TokenInv, ClientInv, NEW c \in Clients, AcquireSlot(c)
  PROVE  TokenInv'
<1>1. /\ UNCHANGED <<nextReq, held, sq, cq, worker, susp, stdin, stdout, ioVars, outVars, dispVars>>
      /\ client[c].pc = "acquire"
  BY Zenon DEF AcquireSlot
<1>2. UNCHANGED TokenVars /\ WaitTokens' = WaitTokens
  BY <1>1, TokenFrame DEF TokenVars, ioVars, outVars, dispVars
<1>3. client[c].slot = 0 /\ client[c].req # 0 /\ client[c].node \notin Susps
  BY <1>1 DEF ClientInv, ClientOK, Owning
<1>4. ASSUME NEW i \in 1 .. Slots, pending[i].req = 0,
             SlotIs(i, client[c].req, pending[i].node, pending[i].event, FALSE),
             ClientGoes(c, "submit", i, client[c].node)
      PROVE  TokenInv'
  <2> DEFINE new == Token("client", client[c].req, client[c].node, c)
  <2>1. ClientTokens' = ClientTokens \cup {new}
    <3>1. ClientToken(c) = {} /\ ClientToken(c)' = {new}
      BY <1>1, <1>4 DEF ClientToken, ClientIs, ClientGoes
    <3> QED
      BY <1>4, <3>1, ClientMoved DEF ClientIs, ClientGoes
  <2>2. SlotTokens' = SlotTokens
    <3>1. SlotToken(i) = {} /\ SlotToken(i)' = {}
      BY <1>4 DEF SlotToken, SlotIs, Types, SlotTypes
    <3> QED
      BY <1>1, <1>4, <3>1, SlotMoved DEF SlotIs
  <2>3. new[2] = client[c].req /\ new[3] = client[c].node
    BY TokenParts
  <2>4. new[2] \notin Active
    BY <1>3, <2>3 DEF Active, ClientInv, OwnRequest
  <2>5. Active' = Active \cup {new[2]}
    BY <1>3, <1>4, <2>3, SizesAssumption DEF Active, ClientIs, ClientGoes
  <2> HIDE DEF new
  <2>6. AllTokens' = AllTokens \cup {new}
    BY <1>2, <2>1, <2>2, TokenFrame DEF AllTokens, TokenVars
  <2> QED
    BY <1>2, <1>3, <2>3, <2>4, <2>5, <2>6, TokenFrame, TokenStarts DEF TokenVars, TokenInv
<1>5. ASSUME ClientGoes(c, "slotWait", client[c].slot, client[c].node), pending' = pending
      PROVE  TokenInv'
  <2>1. SlotTokens' = SlotTokens
    BY <1>1, <1>5, TokenFrame
  <2> QED
    BY <1>1, <1>2, <1>5, <2>1, ClientKeeps DEF ClientIs, ClientGoes
<1> QED
  BY <1>4, <1>5, AcquireEffect

(* The token goes from the client to the submission queue.                  *)
LEMMA SubmitTokens ==
  ASSUME Types, TokenInv, ClientInv, NEW c \in Clients, ClientSubmit(c)
  PROVE  TokenInv'
<1>1. /\ UNCHANGED <<nextReq, pending, held, cq, worker, susp, stdin, stdout, ioVars, outVars, dispVars>>
      /\ client[c].pc = "submit"
      /\ Submit(client[c].req, client[c].node, client[c].steps)
  BY Zenon DEF ClientSubmit
<1>2. ClientGoes(c, "await", client[c].slot, client[c].node)
  BY SubmitEffect
<1> DEFINE r == client[c].req
           node == client[c].node
           old == Token("client", r, node, c)
           new == Token("sq", r, node, 0)
<1>3. old \in ClientTokens /\ ClientTokens' = ClientTokens \ {old}
  <2>1. ClientToken(c) = {old} /\ ClientToken(c)' = {}
    BY <1>1, <1>2 DEF ClientToken, ClientIs, ClientGoes
  <2> QED
    BY <1>2, <2>1, ClientMoved DEF ClientIs, ClientGoes, ClientTokens
<1>4. old \in AllTokens /\ old[1] = "client" /\ old[2] = r /\ old[3] = node
      /\ new[2] = r /\ new[3] = node
  BY <1>3, TokenParts DEF AllTokens
<1>5. SqTokens' = SqTokens \cup {new} /\ Once(sq)'
  <2>1. r \in Requests /\ client[c].steps \in Budget
    <3>1. client[c].req \in 1 .. nextReq - 1
      BY <1>1, SlotOfClient DEF Owning
    <3> QED
      BY <3>1, SizesAssumption DEF Types, SlotTypes, ClientTypes, Client, Requests
  <2> HIDE DEF old, new
  <2> QED
    BY <1>1, <1>4, <2>1, ClientAt, ToSubmission DEF new
<1>6. Active' = Active
  BY <1>2, ActiveKept DEF ClientIs, ClientGoes
<1>7. node \in Susps => node \in ParkedSet
  BY <1>4, TokenOfActive DEF ParkedSet
<1> HIDE DEF old, new
<1>8. AllTokens' = (AllTokens \ {old}) \cup {new}
  BY <1>1, <1>3, <1>4, <1>5, TokenFrame, TokenKinds
     DEF AllTokens, ioVars, outVars, dispVars
<1> QED
  BY <1>1, <1>4, <1>5, <1>6, <1>7, <1>8, TokenFrame, TokenMoves DEF TokenInv

(* The token stays in the slot, or goes to io_wait_map or back to the       *)
(* client.                                                                  *)
LEMMA CompletionTokens ==
  ASSUME Types, TokenInv, ClientInv, EventInv, NEW c \in Clients, Completion(c)
  PROVE  TokenInv'
<1>0. PICK i, r, node : i = client[c].slot /\ r = client[c].req /\ node = pending[i].node
  OBVIOUS
<1> DEFINE old == Token("slot", r, node, i)
<1>1. UNCHANGED <<nextReq, sq, cq, worker, susp, stdin, stdout, stdinWait,
                  stdoutWait, demand, reader, outVars, dispVars>>
  BY Zenon DEF Completion
<1>2. UNCHANGED TokenVars
  BY <1>1 DEF TokenVars, outVars, dispVars
<1>3. client[c].pc = "await" /\ i \in 1 .. Slots /\ pending[i].done
  BY <1>0, CompletionEffect
<1>4. pending[i].req = r /\ i \notin held /\ i # 0
  BY <1>0, <1>3, SlotOfClient, HeldSlot, SizesAssumption DEF Owning
<1>5. SlotToken(i) = {old} /\ old \in SlotTokens /\ old \in AllTokens
  BY <1>0, <1>3, <1>4 DEF SlotToken, SlotTokens, AllTokens
<1>6. old[1] = "slot" /\ old[2] = r /\ old[3] = node
  BY TokenParts
<1>7. ASSUME ClientGoes(c, "release", i, client[c].node) \/ ClientGoes(c, "releaseError", i, client[c].node),
             UNCHANGED <<pending, held, ioWait>>
      PROVE  TokenInv'
  <2>1. WaitTokens' = WaitTokens /\ SlotTokens' = SlotTokens
    BY <1>7, TokenFrame
  <2> QED
    BY <1>0, <1>2, <1>3, <1>7, <2>1, ClientKeeps DEF ClientIs, ClientGoes
<1>8. ASSUME node \in Susps, ioWait'[node] = r,
             \A s \in Susps : s # node => ioWait'[s] = ioWait[s],
             held' = held \cup {i}, pending' = pending,
             ClientGoes(c, "registered", i, client[c].node)
      PROVE  TokenInv'
  <2> DEFINE new == Token("wait", r, node, 0)
  <2>1. SlotTokens' = SlotTokens \ {old}
    <3>1. SlotToken(i)' = {}
      BY <1>8 DEF SlotToken
    <3> QED
      BY <1>3, <1>5, <1>8, <3>1, SlotMoved
  <2>2. WaitTokens' = WaitTokens \cup {new}
    <3>1. ioWait[node] = 0
      <4> SUFFICES ASSUME ioWait[node] # 0 PROVE FALSE
        OBVIOUS
      <4> DEFINE t == Token("wait", ioWait[node], node, 0)
      <4>1. t \in AllTokens
        BY <1>8 DEF WaitToken, WaitTokens, AllTokens
      <4>2. t[1] = "wait" /\ t[3] = node
        BY TokenParts
      <4> HIDE DEF t, old
      <4> QED
        BY <1>5, <1>6, <1>8, <4>1, <4>2, SameToken
    <3>2. WaitToken(node) = {} /\ WaitToken(node)' = {new}
      <4>1. r # 0
        BY <1>0, <1>3, SlotOfClient DEF Owning
      <4> QED
        BY <1>8, <3>1, <4>1 DEF WaitToken
    <3> QED
      BY <1>8, <3>2, WaitMoved
  <2>3. ClientTokens' = ClientTokens
    <3>1. ClientToken(c) = {} /\ ClientToken(c)' = {}
      BY <1>0, <1>3, <1>8 DEF ClientToken, ClientIs, ClientGoes
    <3> QED
      BY <1>8, <3>1, ClientMoved DEF ClientIs, ClientGoes
  <2>4. Active' = Active
    BY <1>0, <1>8, ActiveKept DEF ClientIs, ClientGoes
  <2>5. new[2] = r /\ new[3] = node
    BY TokenParts
  <2>6. node \in ParkedSet
    BY <1>5, <1>6, <1>8, TokenOfActive DEF ParkedSet
  <2> HIDE DEF old, new
  <2>7. AllTokens' = (AllTokens \ {old}) \cup {new}
    BY <1>2, <1>6, <2>1, <2>2, <2>3, TokenFrame, TokenKinds DEF AllTokens, TokenVars
  <2> QED
    BY <1>2, <1>5, <1>6, <2>4, <2>5, <2>6, <2>7, TokenFrame, TokenMoves DEF TokenVars, TokenInv
<1>9. ASSUME node \in Susps, UNCHANGED <<held, ioWait>>,
             SlotIs(i, pending[i].req, node, pending[i].event, FALSE),
             ClientGoes(c, "submit", i, node)
      PROVE  TokenInv'
  <2> DEFINE new == Token("client", r, node, c)
  <2>1. SlotTokens' = SlotTokens \ {old}
    <3>1. SlotToken(i)' = {}
      BY <1>9 DEF SlotToken, SlotIs
    <3> QED
      BY <1>3, <1>5, <1>9, <3>1, SlotMoved DEF SlotIs
  <2>2. ClientTokens' = ClientTokens \cup {new}
    <3>1. ClientToken(c) = {} /\ ClientToken(c)' = {new}
      BY <1>0, <1>3, <1>9 DEF ClientToken, ClientIs, ClientGoes
    <3> QED
      BY <1>9, <3>1, ClientMoved DEF ClientIs, ClientGoes
  <2>3. WaitTokens' = WaitTokens
    BY <1>9, TokenFrame
  <2>4. Active' = Active
    BY <1>0, <1>9, ActiveKept DEF ClientIs, ClientGoes
  <2>5. new[2] = r /\ new[3] = node
    BY TokenParts
  <2>6. node \in ParkedSet
    BY <1>5, <1>6, <1>9, TokenOfActive DEF ParkedSet
  <2> HIDE DEF old, new
  <2>7. AllTokens' = (AllTokens \ {old}) \cup {new}
    BY <1>2, <1>6, <2>1, <2>2, <2>3, TokenFrame, TokenKinds DEF AllTokens, TokenVars
  <2> QED
    BY <1>2, <1>5, <1>6, <2>4, <2>5, <2>6, <2>7, TokenFrame, TokenMoves DEF TokenVars, TokenInv
<1> QED
  BY <1>0, <1>7, <1>8, <1>9, CompletionEffect

(* The event is cleared while the token is in io_wait_map or beyond.        *)
LEMMA RegisterTokens ==
  ASSUME Types, TokenInv, ClientInv, NEW c \in Clients, AfterRegister(c)
  PROVE  TokenInv'
<1>0. PICK i : i = client[c].slot
  OBVIOUS
<1>1. /\ UNCHANGED <<nextReq, sq, cq, worker, susp, stdin, stdout, ioVars, outVars, dispVars>>
      /\ client[c].pc = "registered"
  BY Zenon DEF AfterRegister
<1>2. UNCHANGED TokenVars /\ WaitTokens' = WaitTokens
  BY <1>1, TokenFrame DEF TokenVars, ioVars, outVars, dispVars
<1>3. PICK pc \in {"demand", "await"} :
        /\ ClientGoes(c, pc, i, client[c].node)
        /\ i \in held /\ held' = held \ {i}
        /\ SlotIs(i, pending[i].req, pending[i].node, pending[i].event, FALSE)
  BY <1>0, RegisterEffect
<1>4. SlotTokens' = SlotTokens
  <2>1. i \in 1 .. Slots
    BY <1>0, <1>1, SlotOfClient DEF Owning
  <2>2. SlotToken(i) = {} /\ SlotToken(i)' = {}
    BY <1>3 DEF SlotToken, SlotIs
  <2> QED
    BY <1>3, <2>1, <2>2, SlotMoved DEF SlotIs
<1> QED
  BY <1>0, <1>1, <1>2, <1>3, <1>4, ClientKeeps DEF ClientIs, ClientGoes

(* A demand for input moves no token.                                       *)
LEMMA DemandTokens ==
  ASSUME Types, TokenInv, NEW c \in Clients, RaiseDemand(c)
  PROVE  TokenInv'
<1>1. /\ UNCHANGED <<nextReq, pending, held, sq, cq, worker, susp, stdin, stdout,
                     stdinWait, stdoutWait, ioWait, reader, outVars, dispVars>>
      /\ client[c].pc = "demand"
  BY Zenon DEF RaiseDemand
<1>2. UNCHANGED TokenVars /\ WaitTokens' = WaitTokens /\ SlotTokens' = SlotTokens
  BY <1>1, TokenFrame DEF TokenVars, outVars, dispVars
<1> QED
  BY <1>1, <1>2, DemandEffect, ClientKeeps DEF ClientIs, ClientGoes

(* The slot is given back, and the token ends.                              *)
LEMMA ReleaseTokens ==
  ASSUME Types, TokenInv, ClientInv, EventInv, NEW c \in Clients, ReleaseSlot(c)
  PROVE  TokenInv'
<1>0. PICK i, r, node : i = client[c].slot /\ r = client[c].req /\ node = pending[i].node
  OBVIOUS
<1> DEFINE old == Token("slot", r, node, i)
<1>1. /\ UNCHANGED <<nextReq, held, sq, cq, worker, susp, stdin, stdout, ioVars, outVars, dispVars>>
      /\ client[c].pc \in {"release", "releaseError"}
  BY Zenon DEF ReleaseSlot
<1>2. UNCHANGED TokenVars /\ WaitTokens' = WaitTokens
  BY <1>1, TokenFrame DEF TokenVars, ioVars, outVars, dispVars
<1>3. /\ i \in (1 .. Slots) \ held
      /\ SlotIs(i, 0, <<>>, "DONE", FALSE)
      /\ client'[c].slot = 0
      /\ client'[c].pc \in {"drain", "idle"}
      /\ \A d \in Clients \ {c} :
           \/ client'[d] = client[d]
           \/ /\ client[d].pc = "slotWait" /\ client'[d].pc = "acquire"
              /\ client'[d].req = client[d].req /\ client'[d].slot = client[d].slot
  BY <1>0, ReleaseEffect, IdleClientType
<1>4. pending[i].done /\ pending[i].req = r /\ i # 0 /\ r # 0
  <2>1. pending[i].done
    BY <1>0, <1>1 DEF ClientInv, ClientOK
  <2> QED
    BY <1>0, <1>1, <2>1, SlotOfClient DEF Owning
<1>5. old \in SlotTokens /\ old \in AllTokens /\ SlotTokens' = SlotTokens \ {old}
  <2>1. SlotToken(i) = {old} /\ SlotToken(i)' = {}
    BY <1>0, <1>3, <1>4 DEF SlotToken, SlotIs
  <2>2. old \in SlotTokens
    BY <1>3, <2>1 DEF SlotTokens
  <2> QED
    BY <1>1, <1>3, <2>1, <2>2, SlotMoved DEF SlotIs, AllTokens
<1>6. ClientTokens' = ClientTokens
  <2>1. ASSUME NEW d \in Clients PROVE ClientToken(d)' = ClientToken(d)
    BY <1>1, <1>3 DEF ClientToken
  <2> QED
    BY <2>1 DEF ClientTokens
<1>7. Active' = Active \ {r}
  <2>1. \A d \in Clients \ {c} : client'[d].slot = client[d].slot /\ client'[d].req = client[d].req
    BY <1>3
  <2>2. \A d \in Clients \ {c} : client[d].req # r
    BY <1>0, <1>4 DEF ClientInv, OwnRequest
  <2> QED
    BY <1>0, <1>3, <1>4, <2>1, <2>2 DEF Active
<1>8. old[1] = "slot" /\ old[2] = r /\ old[3] = node
  BY TokenParts
<1>a. Completes => node \notin Susps
  <2> SUFFICES ASSUME Completes PROVE node \notin Susps
    OBVIOUS
  <2>1. client[c].pc = "release"
    BY <1>1, ClientAt DEF Client, Pcs, Completes
  <2>2. client[c].budget = Unlimited
    BY <2>1 DEF ClientInv, ClientOK, Completes
  <2>3. pending[i].event = "DONE"
    BY <1>0, <2>1, <2>2 DEF ClientInv, ClientOK
  <2>4. EventOK(pending[i])
    BY <1>3 DEF EventInv
  <2> QED
    BY <1>0, <2>3, <2>4 DEF EventOK
<1> HIDE DEF old
<1>9. AllTokens' = AllTokens \ {old}
  BY <1>2, <1>5, <1>6, <1>8, TokenFrame, TokenKinds DEF AllTokens, TokenVars
<1> QED
  BY <1>2, <1>5, <1>7, <1>8, <1>9, <1>a, TokenFrame, TokenEnds DEF TokenVars, TokenInv

-----------------------------------------------------------------------------
(* Tokens and workers.                                                     *)

(* Workers keep what workers hold: a suspension to resume is always parked. *)
LEMMA WorkerInvStep ==
  ASSUME Types, WorkerInv, TokenInv, NEW w \in Workers, WorkerStep(w)
  PROVE  WorkerInv'
<1>0. ASSUME NEW pc, NEW node,
             WorkerIs(w, pc, worker[w].req, node),
             \/ pc \in {"loop", "run", "postDone"} /\ node = NoSusp
             \/ pc \in {"wait", "post"} /\ node \in Susps,
             worker[w].pc # "take"
      PROVE  WorkerInv'
  BY <1>0 DEF WorkerInv, WorkerIs
<1>1. ASSUME NEW reason \in Reasons, NEW next \in {"post", "wait"}, Park(w, reason, next),
             worker[w].pc # "take"
      PROVE  WorkerInv'
  BY <1>0, <1>1, ParkEffect
<1>2. ASSUME NEW cost \in {0, 1}, Advance(w, cost), \E op \in Ops : Runs(w, op),
             worker[w].left >= cost
      PROVE  WorkerInv'
  <2>1. worker[w].node = NoSusp
    BY <1>2 DEF Runs, WorkerInv
  <2> QED
    BY <1>0, <1>2, <2>1, AdvanceEffect DEF Runs
<1>3. ASSUME \E op \in Ops : Runs(w, op), RetryIo(w)
      PROVE  WorkerInv'
  <2>1. worker[w].node = NoSusp
    BY <1>3 DEF Runs, WorkerInv
  <2> QED
    BY <1>0, <1>3, <2>1, RetryEffect DEF Runs
<1>4. /\ {"GAS", "STEP_LIMIT", "STDIN", "STDOUT"} \subseteq Reasons
      /\ EndOfFile(w) => "IO_EOF" \in Reasons
  BY EndOfFileFails DEF Reasons
<1>5. worker[w].left >= 0 /\ (worker[w].left > 0 => worker[w].left >= 1)
  BY WorkerAt, SizesAssumption DEF Budget
<1>6. CASE Dequeue(w)
  <2> DEFINE job == Head(sq)
  <2>1. sq # <<>>
    BY <1>6, Zenon DEF Dequeue
  <2>2. job.req # 0 /\ (job.node \in Susps => susp[job.node].status = "PARKED")
    <3>1. sq \in Seq(Sqe) /\ Once(sq) /\ job \in Sqe
      BY <2>1 DEF Types, QueueTypes, TokenInv
    <3>2. Token("sq", job.req, job.node, 0) \in AllTokens
      BY <2>1, <3>1, TailTokens DEF AllTokens, SqTokens
    <3> HIDE DEF job
    <3> QED
      BY <3>1, <3>2, TokenOfActive, TokenParts, Names DEF Sqe
  <2> HIDE DEF job
  <2>3. WorkerIs(w, "loop", job.req, NoSusp)
    BY <1>6, <2>2, DequeueEffect DEF job
  <2> QED
    BY <2>2, <2>3 DEF WorkerInv, WorkerIs
<1>7. CASE StartBatch(w)
  <2>1. worker[w].pc = "loop" /\ worker[w].node = NoSusp
    BY <1>7 DEF StartBatch, WorkerInv
  <2> QED
    BY <1>0, <1>1, <1>4, <1>7, <2>1, StartEffect
<1>8. CASE OutOfGas(w) \/ OutOfBudget(w) \/ EndOfFile(w)
  <2>1. \E reason \in Reasons : Park(w, reason, "post")
    BY <1>4, <1>8, Zenon DEF OutOfGas, OutOfBudget, EndOfFile
  <2>2. worker[w].pc = "run"
    BY <1>8, Zenon DEF OutOfGas, OutOfBudget, EndOfFile, Runs
  <2> QED
    BY <1>1, <2>1, <2>2
<1>9. CASE Walk(w) \/ Contract(w)
  <2>1. \/ Runs(w, "walk") /\ Advance(w, 0)
        \/ Runs(w, "step") /\ Advance(w, 1) /\ worker[w].left > 0
    BY <1>9, Zenon DEF Walk, Contract
  <2> QED
    BY <1>2, <1>5, <2>1 DEF Ops
<1>10. CASE ReadOne(w) \/ WriteOne(w)
  <2>1. /\ Runs(w, "read") \/ Runs(w, "write")
        /\ worker[w].left > 0
        /\ \/ Advance(w, 1)
           \/ Park(w, "STDIN", "wait") \/ Park(w, "STDOUT", "wait") \/ RetryIo(w)
    BY <1>10, Zenon DEF ReadOne, WriteOne
  <2>2. worker[w].pc = "run" /\ \E op \in Ops : Runs(w, op)
    BY <2>1 DEF Runs, Ops
  <2> QED
    BY <1>1, <1>2, <1>3, <1>4, <1>5, <2>1, <2>2
<1>11. CASE QueueWaiter(w)
  <2>1. worker[w].pc = "wait" /\ worker[w].node \in Susps
    BY <1>11 DEF QueueWaiter, WorkerInv
  <2> QED
    BY <1>0, <1>11, <2>1, QueueWaiterEffect
<1>12. CASE Post(w)
  BY <1>12, PostEffect DEF WorkerInv, WorkerIs
<1> QED
  BY <1>6, <1>7, <1>8, <1>9, <1>10, <1>11, <1>12 DEF WorkerStep

(* What a worker holds a token with; its other places stay.                *)
Elsewhere == <<client, pending, held, ioWait, disp, pub, reader>>

(* The tokens at those places stay.                                         *)
LEMMA ElsewhereFrame ==
  ASSUME UNCHANGED Elsewhere
  PROVE  /\ ClientTokens' = ClientTokens /\ Active' = Active /\ DispTokens' = DispTokens
         /\ SlotTokens' = SlotTokens /\ WaitTokens' = WaitTokens
         /\ PubTokens' = PubTokens /\ ReaderTokens' = ReaderTokens
  BY TokenFrame DEF Elsewhere

(* A worker that keeps its request keeps its token.                         *)
LEMMA WorkerStays ==
  ASSUME TokenInv, NEW w \in Workers, NEW pc,
         WorkerIs(w, pc, worker[w].req, worker[w].node), susp' = susp,
         UNCHANGED Elsewhere, UNCHANGED <<sq, cq>>
  PROVE  TokenInv'
<1>1. WorkerTokens' = WorkerTokens
  <2>1. WorkerToken(w)' = WorkerToken(w) /\ WorkerToken(w) \subseteq WorkerTokens
    BY DEF WorkerToken, WorkerIs, WorkerTokens
  <2> QED
    BY <2>1, WorkerMoved DEF WorkerIs
<1> QED
  BY <1>1, ElsewhereFrame, TokenFrame, TokensStay DEF AllTokens, TokenInv

(* A worker that parks goes on with a suspension that was free.             *)
LEMMA WorkerParks ==
  ASSUME Types, WorkerInv, TokenInv, NEW w \in Workers, NEW reason \in Reasons,
         NEW next \in {"post", "wait"}, Park(w, reason, next),
         worker[w].pc \in {"loop", "run"},
         UNCHANGED Elsewhere, UNCHANGED <<sq, cq>>
  PROVE  TokenInv'
<1>1. PICK s \in Susps : /\ susp[s].status = "FREE"
                         /\ SavedIs(s, "PARKED", reason)
                         /\ WorkerIs(w, next, worker[w].req, s)
  BY ParkEffect
<1>2. worker[w].req # 0 /\ worker[w].node = NoSusp
  BY DEF WorkerInv
<1>3. PICK r : r = worker[w].req
  OBVIOUS
<1> DEFINE old == Token("worker", r, NoSusp, w)
           new == Token("worker", r, s, w)
<1>4. WorkerTokens' = (WorkerTokens \ {old}) \cup {new} /\ old \in WorkerTokens
  <2>1. WorkerToken(w) = {old} /\ WorkerToken(w)' = {new}
    BY <1>1, <1>2, <1>3 DEF WorkerToken, WorkerIs
  <2> QED
    BY <1>1, <2>1, WorkerMoved DEF WorkerIs, WorkerTokens
<1>5. /\ old[1] = "worker" /\ old[2] = r /\ old[3] = NoSusp
      /\ new[2] = r /\ new[3] = s
  BY TokenParts
<1>6. s \notin ParkedSet /\ ParkedSet' = ParkedSet \cup {s} /\ NoSusp \notin ParkedSet'
  BY <1>1, Names DEF ParkedSet, SavedIs
<1> HIDE DEF old, new
<1>7. old \in AllTokens /\ AllTokens' = (AllTokens \ {old}) \cup {new}
  BY <1>4, <1>5, ElsewhereFrame, TokenFrame, TokenKinds DEF AllTokens
<1> QED
  BY <1>5, <1>6, <1>7, ElsewhereFrame, TokenFrame, TokenMoves DEF TokenInv

(* The token goes from the submission queue to the worker, and its          *)
(* suspension is free.                                                      *)
LEMMA DequeueTokens ==
  ASSUME Types, WorkerInv, TokenInv, NEW w \in Workers, Dequeue(w)
  PROVE  TokenInv'
<1>1. UNCHANGED <<clientVars, cq, stdin, stdout, ioVars, outVars, dispVars>> /\ sq # <<>>
  BY Zenon DEF Dequeue
<1>2. UNCHANGED Elsewhere /\ UNCHANGED cq
  BY <1>1 DEF Elsewhere, clientVars, ioVars, outVars, dispVars
<1>3. PICK r, node : r = Head(sq).req /\ node = Head(sq).node
  OBVIOUS
<1> DEFINE old == Token("sq", r, node, 0)
           new == Token("worker", r, NoSusp, w)
<1>4. old \in SqTokens /\ SqTokens' = SqTokens \ {old} /\ Once(sq)' /\ r # 0
  <2>1. sq \in Seq(Sqe) /\ Once(sq) /\ Head(sq) \in Sqe
    BY <1>1 DEF Types, QueueTypes, TokenInv
  <2>2. sq' = Tail(sq)
    BY DequeueEffect
  <2>3. QueueTokens("sq", sq)' = QueueTokens("sq", sq') /\ (Once(sq') => Once(sq)')
    BY DEF QueueTokens, Once
  <2>4. r # 0
    BY <1>3, <2>1, Names DEF Sqe
  <2> QED
    BY <1>1, <1>3, <2>1, <2>2, <2>3, <2>4, TailTokens DEF SqTokens
<1>5. /\ old[1] = "sq" /\ old[2] = r /\ old[3] = node
      /\ new[2] = r /\ new[3] = NoSusp
  BY TokenParts
<1>6. old \in AllTokens
  BY <1>4 DEF AllTokens
<1>7. node \in Susps => susp[node].status = "PARKED"
  BY <1>5, <1>6, TokenOfActive
<1>8. /\ worker[w].pc = "take"
      /\ WorkerIs(w, "loop", r, NoSusp)
      /\ \/ node \notin Susps /\ susp' = susp
         \/ node \in Susps /\ SavedIs(node, "FREE", "NONE")
  BY <1>3, <1>7, DequeueEffect
<1>9. WorkerTokens' = WorkerTokens \cup {new}
  <2>1. worker[w].req = 0
    BY <1>8 DEF WorkerInv
  <2>2. WorkerToken(w) = {} /\ WorkerToken(w)' = {new}
    BY <1>4, <1>8, <2>1 DEF WorkerToken, WorkerIs
  <2> QED
    BY <1>8, <2>2, WorkerMoved DEF WorkerIs
<1>10. ParkedSet' = ParkedSet \ {node}
  BY <1>8 DEF ParkedSet, SavedIs
<1> HIDE DEF old, new
<1>11. AllTokens' = (AllTokens \ {old}) \cup {new}
  BY <1>2, <1>4, <1>5, <1>9, ElsewhereFrame, TokenFrame, TokenKinds DEF AllTokens
<1> QED
  BY <1>2, <1>4, <1>5, <1>6, <1>10, <1>11, Names, ElsewhereFrame, TokenFrame, TokenMoves
     DEF TokenInv

(* The token goes from the worker to the completion queue.                  *)
LEMMA PostTokens ==
  ASSUME Types, WorkerInv, TokenInv, NEW w \in Workers, Post(w)
  PROVE  TokenInv'
<1>1. UNCHANGED <<clientVars, sq, susp, stdin, stdout, ioVars, outVars, dispVars>>
  BY Zenon DEF Post
<1>2. UNCHANGED Elsewhere /\ UNCHANGED <<sq, susp>>
  BY <1>1 DEF Elsewhere, clientVars, ioVars, outVars, dispVars
<1>3. PICK e \in Cqe : /\ e.req = worker[w].req /\ e.req # 0
                       /\ \/ worker[w].pc = "post" /\ e.node = worker[w].node
                          \/ worker[w].pc = "postDone" /\ e.node = <<>>
                       /\ cq' = Append(cq, e)
  BY PostsEvent
<1>4. PICK r, n : r = e.req /\ n = worker[w].node
  OBVIOUS
<1> DEFINE old == Token("worker", r, n, w)
           new == Token("cq", r, e.node, 0)
<1>5. old \in WorkerTokens /\ WorkerTokens' = WorkerTokens \ {old}
  <2>1. WorkerToken(w) = {old} /\ WorkerToken(w)' = {}
    BY <1>3, <1>4, PostEffect DEF WorkerToken, WorkerIs
  <2> QED
    BY <2>1, WorkerMoved, PostEffect DEF WorkerIs, WorkerTokens
<1>6. /\ old[1] = "worker" /\ old[2] = r /\ old[3] = n
      /\ new[2] = r /\ new[3] = e.node
  BY TokenParts
<1>7. old \in AllTokens
  BY <1>5 DEF AllTokens
<1>8. CqTokens' = CqTokens \cup {new} /\ Once(cq)'
  <2>1. cq \in Seq(Cqe) /\ Once(cq)
    BY DEF Types, QueueTypes, TokenInv
  <2>2. ASSUME NEW k \in DOMAIN cq, cq[k].req = r PROVE FALSE
    <3>1. Token("cq", r, cq[k].node, 0) \in AllTokens
      BY <2>2 DEF AllTokens, CqTokens, QueueTokens
    <3> HIDE DEF old
    <3> QED
      BY <1>6, <1>7, <3>1, SameToken, TokenParts
  <2>3. QueueTokens("cq", cq)' = QueueTokens("cq", cq') /\ (Once(cq') => Once(cq)')
    BY DEF QueueTokens, Once
  <2>4. Once(Append(cq, e))
    BY <1>4, <2>1, <2>2, AppendOnce
  <2> QED
    BY <1>3, <1>4, <2>1, <2>3, <2>4, AppendTokens DEF CqTokens
<1>9. e.node \in Susps => e.node = n /\ n \in ParkedSet
  BY <1>3, <1>4, <1>6, <1>7, Names, TokenOfActive DEF ParkedSet
<1>a. n \in ParkedSet => e.node = n
  BY <1>3, <1>4, Names DEF ParkedSet, WorkerInv
<1> HIDE DEF old, new
<1>10. AllTokens' = (AllTokens \ {old}) \cup {new}
  BY <1>2, <1>5, <1>6, <1>8, ElsewhereFrame, TokenFrame, TokenKinds DEF AllTokens
<1> QED
  BY <1>2, <1>6, <1>7, <1>8, <1>9, <1>10, <1>a, ElsewhereFrame, TokenFrame, TokenMoves
     DEF TokenInv

(* Workers keep the tokens.                                                 *)
LEMMA WorkerTokensStep ==
  ASSUME Types, WorkerInv, TokenInv, NEW w \in Workers, WorkerStep(w)
  PROVE  TokenInv'
<1>0. UNCHANGED clientVars /\ UNCHANGED dispVars /\ UNCHANGED outVars
        /\ ioWait' = ioWait /\ reader' = reader => UNCHANGED Elsewhere
  BY DEF Elsewhere, clientVars, dispVars, outVars
<1>a. UNCHANGED ioVars => ioWait' = ioWait /\ reader' = reader
  BY DEF ioVars
<1>1. /\ {"GAS", "STEP_LIMIT", "STDIN", "STDOUT"} \subseteq Reasons
      /\ EndOfFile(w) => "IO_EOF" \in Reasons
  BY EndOfFileFails DEF Reasons
<1>2. worker[w].left >= 0 /\ (worker[w].left > 0 => worker[w].left >= 1)
  BY WorkerAt, SizesAssumption DEF Budget
<1>3. CASE StartBatch(w)
  <2>1. UNCHANGED Elsewhere /\ UNCHANGED <<sq, cq>> /\ worker[w].pc = "loop"
    BY <1>0, <1>a, <1>3, Zenon DEF StartBatch
  <2> QED
    BY <1>1, <1>3, <2>1, StartEffect, WorkerParks, WorkerStays
<1>4. CASE OutOfGas(w) \/ OutOfBudget(w) \/ EndOfFile(w)
  <2>1. \E reason \in Reasons : Park(w, reason, "post")
    BY <1>1, <1>4, Zenon DEF OutOfGas, OutOfBudget, EndOfFile
  <2>2. worker[w].pc = "run" /\ UNCHANGED Elsewhere /\ UNCHANGED <<sq, cq>>
    BY <1>0, <1>a, <1>4, Zenon DEF OutOfGas, OutOfBudget, EndOfFile, Runs
  <2> QED
    BY <2>1, <2>2, WorkerParks
<1>5. CASE Walk(w) \/ Contract(w)
  <2>1. /\ \/ Runs(w, "walk") /\ Advance(w, 0)
           \/ Runs(w, "step") /\ Advance(w, 1) /\ worker[w].left > 0
        /\ UNCHANGED Elsewhere /\ UNCHANGED <<sq, cq>> /\ susp' = susp
    BY <1>0, <1>a, <1>5, Zenon DEF Walk, Contract
  <2>2. \E pc \in {"loop", "run"} : WorkerIs(w, pc, worker[w].req, worker[w].node)
    BY <1>2, <2>1, AdvanceEffect DEF Runs
  <2> QED
    BY <2>1, <2>2, WorkerStays
<1>6. CASE ReadOne(w) \/ WriteOne(w)
  <2>1. /\ Runs(w, "read") \/ Runs(w, "write")
        /\ worker[w].left > 0
        /\ \/ Advance(w, 1) /\ susp' = susp
           \/ Park(w, "STDIN", "wait") \/ Park(w, "STDOUT", "wait") \/ RetryIo(w)
        /\ UNCHANGED Elsewhere /\ UNCHANGED <<sq, cq>>
    BY <1>0, <1>a, <1>6, Zenon DEF ReadOne, WriteOne
  <2>2. CASE Advance(w, 1) /\ susp' = susp
    <3>1. \E pc \in {"loop", "run"} : WorkerIs(w, pc, worker[w].req, worker[w].node)
      BY <1>2, <2>1, <2>2, AdvanceEffect DEF Runs
    <3> QED
      BY <2>1, <2>2, <3>1, WorkerStays
  <2>3. CASE RetryIo(w)
    <3>1. WorkerIs(w, worker[w].pc, worker[w].req, worker[w].node) /\ susp' = susp
      BY <2>1, <2>3, RetryEffect DEF Runs
    <3> QED
      BY <2>1, <3>1, WorkerStays
  <2>4. CASE Park(w, "STDIN", "wait") \/ Park(w, "STDOUT", "wait")
    <3>1. worker[w].pc = "run"
      BY <2>1 DEF Runs
    <3> QED
      BY <1>1, <2>1, <2>4, <3>1, WorkerParks
  <2> QED
    BY <2>1, <2>2, <2>3, <2>4
<1>7. CASE QueueWaiter(w)
  <2>1. UNCHANGED Elsewhere /\ UNCHANGED <<sq, cq>> /\ susp' = susp
    BY <1>0, <1>7, Zenon DEF QueueWaiter
  <2> QED
    BY <1>7, <2>1, QueueWaiterEffect, WorkerStays
<1> QED
  BY <1>3, <1>4, <1>5, <1>6, <1>7, DequeueTokens, PostTokens DEF WorkerStep

-----------------------------------------------------------------------------
(* Tokens and the dispatcher: a completion goes from the queue through the *)
(* dispatcher to the slot of its request.                                  *)
LEMMA TakeTokens ==
  ASSUME Types, TokenInv, DispatcherTake
  PROVE  TokenInv'
<1>1. /\ UNCHANGED <<clientVars, sq, worker, susp, stdin, stdout, ioVars, outVars, dropped>>
      /\ disp.pc = "take" /\ cq # <<>> /\ cq' = Tail(cq)
      /\ disp' = [pc |-> "deliver", cqe |-> Head(cq)]
  BY Zenon DEF DispatcherTake
<1>2. PICK r, node : r = Head(cq).req /\ node = Head(cq).node
  OBVIOUS
<1> DEFINE old == Token("cq", r, node, 0)
           new == Token("disp", r, node, 0)
<1>3. old \in CqTokens /\ CqTokens' = CqTokens \ {old} /\ Once(cq)'
  <2>1. cq \in Seq(Cqe) /\ Once(cq)
    BY DEF Types, QueueTypes, TokenInv
  <2>2. QueueTokens("cq", cq)' = QueueTokens("cq", cq') /\ (Once(cq') => Once(cq)')
    BY DEF QueueTokens, Once
  <2> QED
    BY <1>1, <1>2, <2>1, <2>2, TailTokens DEF CqTokens
<1>4. DispTokens = {} /\ DispTokens' = {new}
  BY <1>1, <1>2 DEF DispTokens
<1>5. /\ old[1] = "cq" /\ old[2] = r /\ old[3] = node /\ new[2] = r /\ new[3] = node
      /\ old \in AllTokens
  BY <1>3, TokenParts DEF AllTokens
<1>6. node \in Susps => node \in ParkedSet
  BY <1>5, TokenOfActive DEF ParkedSet
<1> HIDE DEF old, new
<1>7. UNCHANGED <<client, sq, worker, susp, pending, held, ioWait, pub, reader>>
  BY <1>1 DEF clientVars, ioVars, outVars
<1>8. AllTokens' = (AllTokens \ {old}) \cup {new}
  BY <1>3, <1>4, <1>5, <1>7, TokenFrame, TokenKinds DEF AllTokens
<1> QED
  BY <1>3, <1>5, <1>6, <1>7, <1>8, TokenFrame, TokenMoves DEF TokenInv

(* The slot of the request that is being delivered waits for the event:    *)
(* were it done, or held, the request would have a second token.           *)
LEMMA NeverDropped ==
  ASSUME Types, TokenInv, ClientInv, disp.pc = "deliver", held = {}
  PROVE  \E i \in 1 .. Slots : Awaits(i, disp.cqe.req)
<1>1. PICK r, node : r = disp.cqe.req /\ node = disp.cqe.node
  OBVIOUS
<1> DEFINE t == Token("disp", r, node, 0)
<1>2. t \in AllTokens /\ t[1] = "disp" /\ t[2] = r
  BY <1>1, TokenParts DEF AllTokens, DispTokens
<1>3. r \in Active
  BY <1>2, TokenOfActive
<1>4. PICK i \in 1 .. Slots : pending[i].req = r
  BY <1>3, ActiveRequest
<1>5. ASSUME pending[i].done PROVE FALSE
  <2> DEFINE u == Token("slot", r, pending[i].node, i)
  <2>1. u \in AllTokens
    BY <1>4, <1>5 DEF AllTokens, SlotTokens, SlotToken
  <2>2. u[1] = "slot" /\ u[2] = r
    BY TokenParts
  <2> HIDE DEF t, u
  <2> QED
    BY <1>2, <2>1, <2>2, SameToken
<1> QED
  BY <1>1, <1>4, <1>5 DEF Awaits

(* So the completion is delivered, and none is dropped.                     *)
LEMMA DeliverTokens ==
  ASSUME Types, TokenInv, ClientInv, Deliver
  PROVE  TokenInv' /\ dropped' = dropped
<1>1. UNCHANGED <<nextReq, held, client, sq, cq, worker, susp, stdin, stdout, ioVars, outVars>>
  BY Zenon DEF Deliver
<1>2. PICK r, node, event : r = disp.cqe.req /\ node = disp.cqe.node /\ event = disp.cqe.event
  OBVIOUS
<1>3. disp.pc = "deliver" /\ disp'.pc = "wakePump"
  BY DeliverEffect DEF Types, DispTypes
<1>4. PICK i \in 1 .. Slots : /\ pending[i].req = r /\ ~ pending[i].done
                              /\ held \cap 1 .. i = {}
                              /\ SlotIs(i, r, node, event, TRUE)
                              /\ dropped' = dropped
  BY <1>2, <1>3, DeliverEffect, NeverDropped
<1> DEFINE old == Token("disp", r, node, 0)
           new == Token("slot", r, node, i)
<1>5. DispTokens = {old} /\ DispTokens' = {}
  BY <1>2, <1>3 DEF DispTokens
<1>6. SlotTokens' = SlotTokens \cup {new}
  <2>1. i \notin held /\ held' = held
    BY <1>1, <1>4
  <2>2. SlotToken(i) = {} /\ SlotToken(i)' = {new}
    BY <1>4, <2>1 DEF SlotToken, SlotIs
  <2> QED
    BY <1>4, <2>1, <2>2, SlotMoved DEF SlotIs
<1>7. /\ old[1] = "disp" /\ old[2] = r /\ old[3] = node /\ new[2] = r /\ new[3] = node
      /\ old \in AllTokens
  BY <1>5, TokenParts DEF AllTokens
<1>8. node \in Susps => node \in ParkedSet
  BY <1>7, TokenOfActive DEF ParkedSet
<1> HIDE DEF old, new
<1>9. UNCHANGED <<client, sq, cq, worker, susp, ioWait, pub, reader>>
  BY <1>1 DEF ioVars, outVars
<1>10. AllTokens' = (AllTokens \ {old}) \cup {new}
  BY <1>5, <1>6, <1>7, <1>9, TokenFrame, TokenKinds DEF AllTokens
<1> QED
  BY <1>4, <1>7, <1>8, <1>9, <1>10, TokenFrame, TokenMoves DEF TokenInv

(* The dispatcher keeps the tokens and drops no completion.                 *)
LEMMA DispatcherTokensStep ==
  ASSUME Types, TokenInv, ClientInv, Dispatcher
  PROVE  TokenInv' /\ dropped' = dropped
<1>1. CASE WakePump
  <2>1. /\ UNCHANGED <<clientVars, sq, cq, worker, susp, stdin, stdout, ioVars,
                       pumpPc, pub, dropped>>
        /\ disp.pc = "wakePump" /\ disp'.pc = "take"
    BY <1>1 DEF WakePump
  <2>2. UNCHANGED <<client, sq, cq, worker, susp, pending, held, ioWait, pub, reader>>
    BY <2>1 DEF clientVars, ioVars
  <2>3. DispTokens = {} /\ DispTokens' = {}
    BY <2>1 DEF DispTokens
  <2> QED
    BY <2>1, <2>2, <2>3, TokenFrame, TokensStay DEF AllTokens, TokenInv
<1>2. DispatcherTake => dropped' = dropped
  BY DEF DispatcherTake
<1> QED
  BY <1>1, <1>2, TakeTokens, DeliverTokens DEF Dispatcher

-----------------------------------------------------------------------------
(* Tokens and publication.                                                 *)

(* Nothing that carries a request changes.                                 *)
LEMMA TokensFrame ==
  ASSUME TokenInv, UNCHANGED <<client, pending, held, TokenVars, ioWait>>
  PROVE  TokenInv'
  BY TokenFrame, TokensStay DEF TokenVars, AllTokens, TokenInv

(* A writer that holds no request goes on to hold none.                     *)
LEMMA PubStays ==
  ASSUME TokenInv, pub.pc # "submit", pub'.pc # "submit",
         UNCHANGED <<client, pending, held, sq, cq, worker, susp, disp, ioWait, reader>>
  PROVE  TokenInv'
<1>1. PubTokens = {} /\ PubTokens' = {}
  BY DEF PubTokens
<1> QED
  BY <1>1, TokenFrame, TokensStay DEF AllTokens, TokenInv

(* Nor does the stdin thread.                                               *)
LEMMA ReaderStays ==
  ASSUME TokenInv, reader.pc # "submit", reader'.pc # "submit",
         UNCHANGED <<client, pending, held, sq, cq, worker, susp, disp, ioWait, pub>>
  PROVE  TokenInv'
<1>1. ReaderTokens = {} /\ ReaderTokens' = {}
  BY DEF ReaderTokens
<1> QED
  BY <1>1, TokenFrame, TokensStay DEF AllTokens, TokenInv

(* A waker takes the entry of a suspension out of io_wait_map.             *)
LEMMA WaitEnds ==
  ASSUME NEW s \in Susps, ioWait'[s] = 0, \A t \in Susps : t # s => ioWait'[t] = ioWait[t]
  PROVE  WaitTokens' = IF ioWait[s] = 0 THEN WaitTokens
                                        ELSE WaitTokens \ {Token("wait", ioWait[s], s, 0)}
<1>1. WaitToken(s)' = {}
  BY DEF WaitToken
<1>2. WaitToken(s) = IF ioWait[s] = 0 THEN {} ELSE {Token("wait", ioWait[s], s, 0)}
  BY DEF WaitToken
<1> QED
  BY <1>1, <1>2, WaitMoved

(* A published byte moves no token.                                         *)
LEMMA PopTokens ==
  ASSUME Types, TokenInv, ClientInv, NEW x \in Clients \cup {Pump}, PopStdout(x)
  PROVE  TokenInv'
<1>1. UNCHANGED <<nextReq, pending, held, sq, cq, worker, susp, stdin, ioVars,
                  pumpWake, dispVars>>
  BY Zenon DEF PopStdout
<1>2. UNCHANGED <<pending, held, sq, cq, worker, susp, disp, ioWait, reader>>
  BY <1>1 DEF ioVars, dispVars
<1>3. pub.pc # "submit" /\ pub'.pc # "submit"
  BY PopEffect, PublishedType
<1>4. CASE client' = client
  BY <1>2, <1>3, <1>4, PubStays
<1>5. CASE /\ x \in Clients /\ client[x].pc = "drain"
           /\ ClientIs(x, "idle", 0, 0, IdleClient.node, IdleClient.budget)
  <2>1. client[x].slot = 0
    BY <1>5 DEF ClientInv, ClientOK, Owning
  <2>2. Active' = Active
    BY <1>5, <2>1, ActiveKept DEF ClientIs
  <2>3. ClientToken(x) = {} /\ ClientToken(x)' = {}
    BY <1>5 DEF ClientToken, ClientIs
  <2>4. ClientTokens' = ClientTokens
    BY <1>5, <2>3, ClientMoved DEF ClientIs
  <2>5. PubTokens = {} /\ PubTokens' = {}
    BY <1>3 DEF PubTokens
  <2> QED
    BY <1>2, <2>2, <2>4, <2>5, TokenFrame, TokensStay DEF AllTokens, TokenInv
<1> QED
  BY <1>4, <1>5, PopEffect

(* The token goes from io_wait_map to the writer that resumes it.           *)
LEMMA RemoveWaiterTokens ==
  ASSUME Types, TokenInv, NEW x \in Clients \cup {Pump}, RemoveStdoutWaiter(x)
  PROVE  TokenInv'
<1>1. UNCHANGED <<clientVars, sq, cq, worker, susp, stdin, stdout, stdinWait,
                  stdoutWait, demand, reader, pumpWake, pumpPc, dispVars>>
  BY Zenon DEF RemoveStdoutWaiter
<1>2. UNCHANGED <<client, pending, held, sq, cq, worker, susp, disp, reader>>
  BY <1>1 DEF clientVars, dispVars
<1>3. PICK s, r : s = pub.susp /\ r = ioWait[s]
  OBVIOUS
<1>4. /\ pub.pc = "remove" /\ s \in Susps /\ ioWait'[s] = 0
      /\ \A t \in Susps : t # s => ioWait'[t] = ioWait[t]
      /\ \/ r = 0 /\ pub'.pc = "pop"
         \/ r # 0 /\ pub'.pc = "submit" /\ pub'.susp = s /\ pub'.req = r
  BY <1>3, RemoveWaiterEffect, PublishedType
<1>5. CASE r = 0
  <2>1. WaitTokens' = WaitTokens
    BY <1>3, <1>4, <1>5, WaitEnds
  <2>2. PubTokens = {} /\ PubTokens' = {}
    BY <1>4, <1>5 DEF PubTokens
  <2> QED
    BY <1>2, <2>1, <2>2, TokenFrame, TokensStay DEF AllTokens, TokenInv
<1>6. CASE r # 0
  <2> DEFINE old == Token("wait", r, s, 0)
             new == Token("pub", r, s, 0)
  <2>1. WaitTokens' = WaitTokens \ {old} /\ old \in WaitTokens
    <3>1. WaitToken(s) = {old}
      BY <1>3, <1>6 DEF WaitToken
    <3> QED
      BY <1>3, <1>4, <1>6, <3>1, WaitEnds DEF WaitTokens
  <2>2. PubTokens = {} /\ PubTokens' = {new}
    BY <1>4, <1>6 DEF PubTokens
  <2>3. /\ old[1] = "wait" /\ old[2] = r /\ old[3] = s /\ new[2] = r /\ new[3] = s
        /\ old \in AllTokens
    BY <2>1, TokenParts DEF AllTokens
  <2>4. s \in ParkedSet
    BY <1>4, <2>3, TokenOfActive DEF ParkedSet
  <2> HIDE DEF old, new
  <2>5. AllTokens' = (AllTokens \ {old}) \cup {new}
    BY <1>2, <2>1, <2>2, <2>3, TokenFrame, TokenKinds DEF AllTokens
  <2> QED
    BY <1>2, <2>3, <2>4, <2>5, TokenFrame, TokenMoves DEF TokenInv
<1> QED
  BY <1>5, <1>6

(* The token goes from that writer to the submission queue.                 *)
LEMMA ResumeWriterTokens ==
  ASSUME Types, TokenInv, NEW x \in Clients \cup {Pump}, ResumeWriter(x)
  PROVE  TokenInv'
<1>1. /\ UNCHANGED <<clientVars, cq, worker, susp, stdin, stdout, ioVars,
                     pumpWake, pumpPc, dispVars>>
      /\ pub.pc = "submit" /\ Submit(pub.req, pub.susp, 0) /\ pub' = Published(x)
  BY Zenon DEF ResumeWriter
<1>2. UNCHANGED <<client, pending, held, cq, worker, susp, disp, reader, ioWait>>
  BY <1>1 DEF clientVars, dispVars, ioVars
<1>3. PICK r, s : r = pub.req /\ s = pub.susp
  OBVIOUS
<1> DEFINE old == Token("pub", r, s, 0)
           new == Token("sq", r, s, 0)
<1>4. PubTokens = {old} /\ PubTokens' = {}
  BY <1>1, <1>3, PublishedType DEF PubTokens
<1>5. /\ old[1] = "pub" /\ old[2] = r /\ old[3] = s /\ new[2] = r /\ new[3] = s
      /\ old \in AllTokens
  BY <1>4, TokenParts DEF AllTokens
<1>6. r \in Requests /\ s \in Node /\ s \in Susps
  BY <1>1, <1>3, PubAt, Names DEF Types, WakerTypes
<1>7. s \in ParkedSet
  BY <1>5, <1>6, TokenOfActive DEF ParkedSet
<1> HIDE DEF old, new
<1>8. SqTokens' = SqTokens \cup {new} /\ Once(sq)'
  BY <1>1, <1>3, <1>5, <1>6, Names, ToSubmission DEF new
<1>9. AllTokens' = (AllTokens \ {old}) \cup {new}
  BY <1>2, <1>4, <1>5, <1>8, TokenFrame, TokenKinds DEF AllTokens
<1> QED
  BY <1>2, <1>5, <1>7, <1>8, <1>9, TokenFrame, TokenMoves DEF TokenInv

(* Publication keeps the tokens.                                            *)
LEMMA PublishTokensStep ==
  ASSUME Types, TokenInv, ClientInv, NEW x \in Clients \cup {Pump}, PublishStep(x)
  PROVE  TokenInv'
<1>1. CASE TakeStdoutWaiter(x)
  <2>1. UNCHANGED <<clientVars, sq, cq, worker, susp, stdin, stdout, stdinWait,
                    ioWait, demand, reader, pumpWake, pumpPc, dispVars>>
    BY <1>1, Zenon DEF TakeStdoutWaiter
  <2>2. UNCHANGED <<client, pending, held, sq, cq, worker, susp, disp, ioWait, reader>>
    BY <2>1 DEF clientVars, dispVars
  <2> QED
    BY <1>1, <2>2, TakeWaiterEffect, PublishedType, PubStays
<1> QED
  BY <1>1, PopTokens, RemoveWaiterTokens, ResumeWriterTokens DEF PublishStep

(* The pump that dozes moves no token.                                      *)
LEMMA PumpTokens ==
  ASSUME TokenInv, PumpDoze
  PROVE  TokenInv'
  BY TokensFrame DEF PumpDoze, clientVars, ioVars, dispVars, TokenVars

-----------------------------------------------------------------------------
(* Tokens and the stdin thread.                                            *)

(* The token goes from io_wait_map to the stdin thread.                     *)
LEMMA RemoveReaderTokens ==
  ASSUME Types, TokenInv, ReaderRemove
  PROVE  TokenInv'
<1>1. UNCHANGED <<clientVars, sq, cq, worker, susp, stdin, stdout, stdinWait,
                  stdoutWait, demand, outVars, dispVars>>
  BY Zenon DEF ReaderRemove
<1>2. UNCHANGED <<client, pending, held, sq, cq, worker, susp, disp, pub>>
  BY <1>1 DEF clientVars, dispVars, outVars
<1>3. PICK s, r : s = reader.susp /\ r = ioWait[s]
  OBVIOUS
<1>4. /\ reader.pc = "remove" /\ s \in Susps /\ ioWait'[s] = 0
      /\ \A t \in Susps : t # s => ioWait'[t] = ioWait[t]
      /\ \/ r = 0 /\ reader'.pc = "wait"
         \/ r # 0 /\ reader'.pc = "submit" /\ reader'.susp = s /\ reader'.req = r
  BY <1>3, RemoveReaderEffect DEF ReaderIs
<1>5. CASE r = 0
  <2>1. WaitTokens' = WaitTokens
    BY <1>3, <1>4, <1>5, WaitEnds
  <2>2. ReaderTokens = {} /\ ReaderTokens' = {}
    BY <1>4, <1>5 DEF ReaderTokens
  <2> QED
    BY <1>2, <2>1, <2>2, TokenFrame, TokensStay DEF AllTokens, TokenInv
<1>6. CASE r # 0
  <2> DEFINE old == Token("wait", r, s, 0)
             new == Token("reader", r, s, 0)
  <2>1. WaitTokens' = WaitTokens \ {old} /\ old \in WaitTokens
    <3>1. WaitToken(s) = {old}
      BY <1>3, <1>6 DEF WaitToken
    <3> QED
      BY <1>3, <1>4, <1>6, <3>1, WaitEnds DEF WaitTokens
  <2>2. ReaderTokens = {} /\ ReaderTokens' = {new}
    BY <1>4, <1>6 DEF ReaderTokens
  <2>3. /\ old[1] = "wait" /\ old[2] = r /\ old[3] = s /\ new[2] = r /\ new[3] = s
        /\ old \in AllTokens
    BY <2>1, TokenParts DEF AllTokens
  <2>4. s \in ParkedSet
    BY <1>4, <2>3, TokenOfActive DEF ParkedSet
  <2> HIDE DEF old, new
  <2>5. AllTokens' = (AllTokens \ {old}) \cup {new}
    BY <1>2, <2>1, <2>2, <2>3, TokenFrame, TokenKinds DEF AllTokens
  <2> QED
    BY <1>2, <2>3, <2>4, <2>5, TokenFrame, TokenMoves DEF TokenInv
<1> QED
  BY <1>5, <1>6

(* The token goes from the stdin thread to the submission queue.            *)
LEMMA ResumeReaderTokens ==
  ASSUME Types, TokenInv, ResumeReader
  PROVE  TokenInv'
<1>1. /\ UNCHANGED <<clientVars, cq, worker, susp, stdin, stdout, stdinWait,
                     stdoutWait, ioWait, demand, outVars, dispVars>>
      /\ reader.pc = "submit" /\ Submit(reader.req, reader.susp, 0)
      /\ reader' = [pc |-> "wait", susp |-> NoSusp, req |-> 0]
  BY Zenon DEF ResumeReader
<1>2. UNCHANGED <<client, pending, held, cq, worker, susp, disp, pub, ioWait>>
  BY <1>1 DEF clientVars, dispVars, outVars
<1>3. PICK r, s : r = reader.req /\ s = reader.susp
  OBVIOUS
<1> DEFINE old == Token("reader", r, s, 0)
           new == Token("sq", r, s, 0)
<1>4. ReaderTokens = {old} /\ ReaderTokens' = {}
  BY <1>1, <1>3 DEF ReaderTokens
<1>5. /\ old[1] = "reader" /\ old[2] = r /\ old[3] = s /\ new[2] = r /\ new[3] = s
      /\ old \in AllTokens
  BY <1>4, TokenParts DEF AllTokens
<1>6. r \in Requests /\ s \in Node /\ s \in Susps
  BY <1>1, <1>3, ReaderAt, Names DEF Types, WakerTypes
<1>7. s \in ParkedSet
  BY <1>5, <1>6, TokenOfActive DEF ParkedSet
<1> HIDE DEF old, new
<1>8. SqTokens' = SqTokens \cup {new} /\ Once(sq)'
  BY <1>1, <1>3, <1>5, <1>6, Names, ToSubmission DEF new
<1>9. AllTokens' = (AllTokens \ {old}) \cup {new}
  BY <1>2, <1>4, <1>5, <1>8, TokenFrame, TokenKinds DEF AllTokens
<1> QED
  BY <1>2, <1>5, <1>7, <1>8, <1>9, TokenFrame, TokenMoves DEF TokenInv

(* The stdin thread keeps the tokens.                                       *)
LEMMA StdinTokensStep ==
  ASSUME Types, TokenInv, StdinThread
  PROVE  TokenInv'
<1>1. CASE ReaderWait \/ ReaderPush \/ ReaderTake
  <2>1. UNCHANGED <<clientVars, sq, cq, worker, susp, ioWait, outVars, dispVars>>
    BY <1>1, Zenon DEF ReaderWait, ReaderPush, ReaderTake
  <2>2. UNCHANGED <<client, pending, held, sq, cq, worker, susp, disp, ioWait, pub>>
    BY <2>1 DEF clientVars, dispVars, outVars
  <2>3. reader.pc # "submit" /\ reader'.pc # "submit"
    BY <1>1, ReaderAt DEF ReaderWait, ReaderPush, ReaderTake, Reader
  <2> QED
    BY <2>2, <2>3, ReaderStays
<1> QED
  BY <1>1, RemoveReaderTokens, ResumeReaderTokens DEF StdinThread

-----------------------------------------------------------------------------
(* Events.                                                                 *)

(* Events stay as they are, or new ones name their suspension.              *)
LEMMA EventsKept ==
  ASSUME EventInv, cq' = cq, disp' = disp,
         \A i \in 1 .. Slots :
            \/ pending'[i].node = pending[i].node /\ pending'[i].event = pending[i].event
            \/ EventOK(pending'[i])
  PROVE  EventInv'
  BY DEF EventInv, EventOK

(* Clients keep the events.                                                 *)
LEMMA EventInvClients ==
  ASSUME Types, EventInv, ClientInv, NEW c \in Clients, Call(c) \/ ClientStep(c)
  PROVE  EventInv'
<1>1. cq' = cq /\ disp' = disp
  BY Zenon DEF ClientStep, Call, AcquireSlot, ClientSubmit, Completion, AfterRegister, RaiseDemand,
               ReleaseSlot, dispVars
<1>2. CASE Call(c) \/ ClientSubmit(c) \/ RaiseDemand(c)
  <2>1. pending' = pending
    BY <1>2, Zenon DEF Call, ClientSubmit, RaiseDemand
  <2> QED
    BY <1>1, <2>1, EventsKept
<1>3. CASE AcquireSlot(c)
  <2>1. \A i \in 1 .. Slots :
          pending'[i].node = pending[i].node /\ pending'[i].event = pending[i].event
    BY <1>3, AcquireEffect DEF SlotIs
  <2> QED
    BY <1>1, <2>1, EventsKept
<1>4. CASE Completion(c)
  <2>1. PICK i \in 1 .. Slots :
           pending' = pending \/ SlotIs(i, pending[i].req, pending[i].node,
                                        pending[i].event, FALSE)
    BY <1>4, CompletionEffect
  <2>2. \A j \in 1 .. Slots :
          pending'[j].node = pending[j].node /\ pending'[j].event = pending[j].event
    BY <2>1 DEF SlotIs
  <2> QED
    BY <1>1, <2>2, EventsKept
<1>5. CASE AfterRegister(c)
  <2>1. \A j \in 1 .. Slots :
          pending'[j].node = pending[j].node /\ pending'[j].event = pending[j].event
    BY <1>5, RegisterEffect DEF SlotIs
  <2> QED
    BY <1>1, <2>1, EventsKept
<1>6. CASE ReleaseSlot(c)
  <2>1. \A j \in 1 .. Slots :
          \/ pending'[j] = pending[j]
          \/ pending'[j].node = <<>> /\ pending'[j].event = "DONE"
    BY <1>6, ReleaseEffect DEF SlotIs
  <2>2. \A j \in 1 .. Slots :
          \/ pending'[j].node = pending[j].node /\ pending'[j].event = pending[j].event
          \/ EventOK(pending'[j])
    BY <2>1, Names DEF EventOK
  <2> QED
    BY <1>1, <2>2, EventsKept
<1> QED
  BY <1>2, <1>3, <1>4, <1>5, <1>6 DEF ClientStep

(* Workers post events that name their suspension.                          *)
LEMMA EventInvWorkers ==
  ASSUME Types, EventInv, WorkerInv, NEW w \in Workers, WorkerStep(w)
  PROVE  EventInv'
<1>1. pending' = pending /\ disp' = disp
  BY Zenon DEF WorkerStep, Dequeue, StartBatch, OutOfGas, OutOfBudget, Walk, Contract,
     ReadOne, WriteOne, EndOfFile, QueueWaiter, Post, clientVars, dispVars
<1>2. CASE cq' = cq
  BY <1>1, <1>2, EventsKept
<1>3. CASE Post(w)
  <2>1. PICK e \in Cqe : EventOK(e) /\ cq' = Append(cq, e)
    BY <1>3, PostsEvent
  <2>2. cq \in Seq(Cqe)
    BY DEF Types, QueueTypes
  <2>3. \A k \in DOMAIN cq' : \/ k \in DOMAIN cq /\ cq'[k] = cq[k]
                              \/ cq'[k] = e
    BY <2>1, <2>2, AppendOf
  <2> QED
    BY <1>1, <2>1, <2>3 DEF EventInv, EventOK
<1> QED
  BY <1>2, <1>3, Zenon DEF WorkerStep, Dequeue, StartBatch, OutOfGas, OutOfBudget, Walk, Contract,
     ReadOne, WriteOne, EndOfFile, QueueWaiter

(* The dispatcher hands on events as they are.                              *)
LEMMA EventInvDispatcher ==
  ASSUME Types, EventInv, Dispatcher
  PROVE  EventInv'
<1>1. CASE DispatcherTake
  <2>1. /\ pending' = pending /\ cq # <<>> /\ cq' = Tail(cq) /\ cq \in Seq(Cqe)
        /\ disp'.cqe = Head(cq)
    BY <1>1 DEF DispatcherTake, Types, QueueTypes, clientVars
  <2>2. /\ \A k \in DOMAIN cq' : k + 1 \in DOMAIN cq /\ cq'[k] = cq[k + 1]
        /\ 1 \in DOMAIN cq /\ Head(cq) = cq[1]
    BY <2>1, TailOf
  <2>3. \A k \in DOMAIN cq' : EventOK(cq'[k])
    BY <2>2 DEF EventInv
  <2>4. EventOK(disp'.cqe)
    BY <2>1, <2>2 DEF EventInv
  <2> QED
    BY <2>1, <2>3, <2>4 DEF EventInv, EventOK
<1>2. CASE Deliver
  <2>1. cq' = cq /\ disp' = [disp EXCEPT !.pc = "wakePump"]
    BY <1>2, Zenon DEF Deliver
  <2>2. disp'.cqe = disp.cqe
    BY <2>1 DEF Types, DispTypes
  <2>3. \A j \in 1 .. Slots :
          \/ pending'[j] = pending[j]
          \/ pending'[j].node = disp.cqe.node /\ pending'[j].event = disp.cqe.event
    BY <1>2, DeliverEffect DEF SlotIs
  <2> QED
    BY <2>1, <2>2, <2>3 DEF EventInv, EventOK
<1>3. CASE WakePump
  BY <1>3, Names DEF WakePump, EventInv, EventOK, clientVars
<1> QED
  BY <1>1, <1>2, <1>3 DEF Dispatcher

(* The pump, clients that drain and the stdin thread deliver no events.    *)
LEMMA EventInvWakers ==
  ASSUME EventInv,
         StdinThread \/ PumpDoze \/ \E x \in Clients \cup {Pump} : PublishStep(x)
  PROVE  EventInv'
<1>1. pending' = pending /\ cq' = cq /\ disp' = disp
  BY Zenon DEF StdinThread, ReaderWait, ReaderPush, ReaderTake, ReaderRemove, ResumeReader,
     PumpDoze, PublishStep, PopStdout, TakeStdoutWaiter, RemoveStdoutWaiter, ResumeWriter,
     clientVars, dispVars
<1> QED
  BY <1>1, EventsKept

-----------------------------------------------------------------------------
(* What is left alone.                                                     *)

(* What clients hold is left alone.                                         *)
LEMMA ClientInvFrame ==
  ASSUME ClientInv, UNCHANGED clientVars
  PROVE  ClientInv'
  BY DEF clientVars, ClientInv, ClientOK, OwnRequest, HeldInv

(* What workers hold is left alone.                                         *)
LEMMA WorkerInvFrame ==
  ASSUME WorkerInv, worker' = worker
  PROVE  WorkerInv'
  BY DEF WorkerInv

(* Which variables an actor leaves alone.                                  *)

(* What a client leaves alone.                                              *)
LEMMA ClientLeaves ==
  ASSUME NEW c \in Clients, Call(c) \/ ClientStep(c)
  PROVE  UNCHANGED <<worker, pub, reader, stdout, dropped>>
  BY Zenon DEF ClientStep, Call, AcquireSlot, ClientSubmit, Completion, AfterRegister,
     RaiseDemand, ReleaseSlot, outVars, dispVars, ioVars

(* What a worker leaves alone.                                              *)
LEMMA WorkerLeaves ==
  ASSUME NEW w \in Workers, WorkerStep(w)
  PROVE  UNCHANGED <<nextReq, pending, held, client, pub, reader, ioWait, dropped>>
  BY Zenon DEF WorkerStep, Dequeue, StartBatch, OutOfGas, OutOfBudget, Walk, Contract,
     ReadOne, WriteOne, EndOfFile, QueueWaiter, Post, clientVars, ioVars, outVars, dispVars

(* What the dispatcher leaves alone.                                        *)
LEMMA DispatcherLeaves ==
  ASSUME Dispatcher
  PROVE  UNCHANGED <<nextReq, held, client, worker, stdout, ioWait, pub, reader>>
  BY Zenon DEF Dispatcher, DispatcherTake, Deliver, WakePump, clientVars, ioVars, outVars

(* What publication leaves alone.                                           *)
LEMMA PublishLeaves ==
  ASSUME NEW x \in Clients \cup {Pump}, PublishStep(x)
  PROVE  UNCHANGED <<nextReq, pending, held, worker, reader, dropped>>
  BY Zenon DEF PublishStep, PopStdout, TakeStdoutWaiter, RemoveStdoutWaiter, ResumeWriter,
     clientVars, ioVars, dispVars

(* What the pump that dozes leaves alone.                                   *)
LEMMA PumpLeaves ==
  ASSUME PumpDoze
  PROVE  UNCHANGED <<nextReq, pending, held, client, worker, stdout, ioWait, pub, reader, dropped>>
  BY Zenon DEF PumpDoze, clientVars, ioVars, dispVars

(* What the stdin thread leaves alone.                                      *)
LEMMA StdinLeaves ==
  ASSUME StdinThread
  PROVE  UNCHANGED <<nextReq, pending, held, client, worker, stdout, pub, dropped>>
  BY Zenon DEF StdinThread, ReaderWait, ReaderPush, ReaderTake, ReaderRemove, ResumeReader,
     clientVars, outVars, dispVars

-----------------------------------------------------------------------------
(* The slot of a request names the suspension it waits with.               *)
Holds(r, s) == \E i \in 1 .. Slots : pending[i].req = r /\ pending[i].node = s
HoldsNext(r, s) == \E i \in 1 .. Slots : pending'[i].req = r /\ pending'[i].node = s
Named ==
  /\ \A c \in Clients : client[c].pc = "submit" /\ client[c].node \in Susps =>
                          Holds(client[c].req, client[c].node)
  /\ \A s \in Susps : ioWait[s] # 0 => Holds(ioWait[s], s)
  /\ pub.pc = "submit" => Holds(pub.req, pub.susp)
  /\ reader.pc = "submit" => Holds(reader.req, reader.susp)

(* The names of the next state.                                             *)
LEMMA NamedNext ==
  ASSUME /\ \A c \in Clients : client'[c].pc = "submit" /\ client'[c].node \in Susps =>
                                 HoldsNext(client'[c].req, client'[c].node)
         /\ \A s \in Susps : ioWait'[s] # 0 => HoldsNext(ioWait'[s], s)
         /\ pub'.pc = "submit" => HoldsNext(pub'.req, pub'.susp)
         /\ reader'.pc = "submit" => HoldsNext(reader'.req, reader'.susp)
  PROVE  Named'
  BY DEF Named, Holds, HoldsNext

(* The slots of all requests but r are left as they are, and r has its     *)
(* token at a place that needs no name.                                    *)
LEMMA NamedElsewhere ==
  ASSUME Types, TokenInv, ClientInv, Named, NEW r,
         NEW t \in AllTokens, t[2] = r, t[1] \notin {"client", "wait", "pub", "reader"},
         \A i \in 1 .. Slots : pending[i].req # r => pending'[i] = pending[i],
         \A c \in Clients : client'[c].pc = "submit" => client'[c] = client[c],
         UNCHANGED <<ioWait, pub, reader>>
  PROVE  Named'
<1>1. ASSUME NEW q, NEW s, q # r, Holds(q, s) PROVE HoldsNext(q, s)
  BY <1>1 DEF Holds, HoldsNext
<1>2. ASSUME NEW c \in Clients, client[c].pc = "submit" PROVE client[c].req # r
  <2> DEFINE u == Token("client", client[c].req, client[c].node, c)
  <2>1. u \in AllTokens
    BY <1>2 DEF AllTokens, ClientTokens, ClientToken
  <2>2. u[1] = "client" /\ u[2] = client[c].req
    BY TokenParts
  <2> HIDE DEF u
  <2> QED
    BY <2>1, <2>2, SameToken
<1>3. ASSUME NEW s \in Susps, ioWait[s] # 0 PROVE ioWait[s] # r
  <2> DEFINE u == Token("wait", ioWait[s], s, 0)
  <2>1. u \in AllTokens
    BY <1>3 DEF AllTokens, WaitTokens, WaitToken
  <2>2. u[1] = "wait" /\ u[2] = ioWait[s]
    BY TokenParts
  <2> HIDE DEF u
  <2> QED
    BY <2>1, <2>2, SameToken
<1>4. pub.pc = "submit" => pub.req # r
  <2> DEFINE u == Token("pub", pub.req, pub.susp, 0)
  <2>1. pub.pc = "submit" => u \in AllTokens
    BY DEF AllTokens, PubTokens
  <2>2. u[1] = "pub" /\ u[2] = pub.req
    BY TokenParts
  <2> HIDE DEF u
  <2> QED
    BY <2>1, <2>2, SameToken
<1>5. reader.pc = "submit" => reader.req # r
  <2> DEFINE u == Token("reader", reader.req, reader.susp, 0)
  <2>1. reader.pc = "submit" => u \in AllTokens
    BY DEF AllTokens, ReaderTokens
  <2>2. u[1] = "reader" /\ u[2] = reader.req
    BY TokenParts
  <2> HIDE DEF u
  <2> QED
    BY <2>1, <2>2, SameToken
<1>6. \A c \in Clients : client'[c].pc = "submit" /\ client'[c].node \in Susps =>
                           HoldsNext(client'[c].req, client'[c].node)
  BY <1>1, <1>2 DEF Named
<1>7. \A s \in Susps : ioWait'[s] # 0 => HoldsNext(ioWait'[s], s)
  BY <1>1, <1>3 DEF Named
<1>8. pub'.pc = "submit" => HoldsNext(pub'.req, pub'.susp)
  BY <1>1, <1>4 DEF Named
<1>9. reader'.pc = "submit" => HoldsNext(reader'.req, reader'.susp)
  BY <1>1, <1>5 DEF Named
<1> QED
  BY <1>6, <1>7, <1>8, <1>9, NamedNext

(* Slots that belong to a request keep their request and suspension.       *)
LEMMA NamedSlotsStay ==
  ASSUME Types, ClientInv, Named,
         \A i \in 1 .. Slots : pending[i].req # 0 =>
            pending'[i].req = pending[i].req /\ pending'[i].node = pending[i].node,
         \A c \in Clients : client'[c].pc = "submit" /\ client'[c].node \in Susps =>
            \/ client'[c] = client[c]
            \/ HoldsNext(client'[c].req, client'[c].node),
         \A s \in Susps : ioWait'[s] # 0 =>
            ioWait'[s] = ioWait[s] \/ HoldsNext(ioWait'[s], s),
         UNCHANGED <<pub, reader>>
  PROVE  Named'
<1>1. ASSUME NEW q, NEW s, q # 0, Holds(q, s) PROVE HoldsNext(q, s)
  BY <1>1 DEF Holds, HoldsNext
<1>2. \A c \in Clients : client'[c].pc = "submit" /\ client'[c].node \in Susps =>
                           HoldsNext(client'[c].req, client'[c].node)
  <2>1. \A c \in Clients : client[c].pc = "submit" => client[c].req # 0
    BY DEF ClientInv, ClientOK
  <2> QED
    BY <1>1, <2>1 DEF Named
<1>3. \A s \in Susps : ioWait'[s] # 0 => HoldsNext(ioWait'[s], s)
  BY <1>1 DEF Named
<1>4. pub'.pc = "submit" => HoldsNext(pub'.req, pub'.susp)
  BY <1>1 DEF Named, Types, WakerTypes
<1>5. reader'.pc = "submit" => HoldsNext(reader'.req, reader'.susp)
  BY <1>1 DEF Named, Types, WakerTypes
<1> QED
  BY <1>2, <1>3, <1>4, <1>5, NamedNext

(* Clients keep the names of suspensions in the slots.                      *)
LEMMA NamedClients ==
  ASSUME Types, TokenInv, ClientInv, EventInv, Named, NEW c \in Clients, Call(c) \/ ClientStep(c)
  PROVE  Named'
<1>0. UNCHANGED <<pub, reader>>
  BY ClientLeaves
<1>1. CASE Call(c) \/ ClientSubmit(c) \/ RaiseDemand(c)
  <2>1. pending' = pending /\ ioWait' = ioWait
    BY <1>1, Zenon DEF Call, ClientSubmit, RaiseDemand, ioVars
  <2>2. /\ \A d \in Clients \ {c} : client'[d] = client[d]
        /\ client'[c].pc # "submit"
    BY <1>1, CallEffect, SubmitEffect, DemandEffect DEF ClientIs, ClientGoes
  <2> QED
    BY <1>0, <2>1, <2>2, NamedSlotsStay
<1>2. CASE AcquireSlot(c)
  <2>1. ioWait' = ioWait /\ client[c].node \notin Susps
    BY <1>2, Zenon DEF AcquireSlot, ioVars, ClientInv, ClientOK
  <2>2. /\ \A i \in 1 .. Slots : pending[i].req # 0 =>
             pending'[i].req = pending[i].req /\ pending'[i].node = pending[i].node
        /\ \A d \in Clients \ {c} : client'[d] = client[d]
        /\ client'[c].node = client[c].node
    BY <1>2, AcquireEffect DEF SlotIs, ClientIs, ClientGoes
  <2> QED
    BY <1>0, <2>1, <2>2, NamedSlotsStay
<1>3. CASE Completion(c)
  <2>1. PICK i, r, s : /\ i \in 1 .. Slots /\ i = client[c].slot
                        /\ r = client[c].req /\ s = pending[i].node
    BY <1>3, CompletionEffect
  <2>2. pending[i].req = r
    BY <1>3, <2>1, CompletionEffect, SlotOfClient DEF Owning
  <2>3. \/ /\ ioWait' = ioWait /\ pending' = pending
           /\ \E pc \in {"release", "releaseError"} : ClientGoes(c, pc, i, client[c].node)
        \/ /\ s \in Susps /\ pending' = pending
           /\ ioWait'[s] = r /\ \A t \in Susps : t # s => ioWait'[t] = ioWait[t]
           /\ ClientGoes(c, "registered", i, client[c].node)
        \/ /\ ioWait' = ioWait /\ SlotIs(i, r, s, pending[i].event, FALSE)
           /\ ClientGoes(c, "submit", i, s)
    BY <1>3, <2>1, <2>2, CompletionEffect
  <2>4. /\ \A d \in Clients \ {c} : client'[d] = client[d]
        /\ client'[c].pc = "submit" => client'[c].req = r /\ client'[c].node = s
    BY <2>1, <2>3 DEF ClientGoes, ClientIs
  <2>5. \A j \in 1 .. Slots : pending'[j].req = pending[j].req /\ pending'[j].node = pending[j].node
    BY <2>1, <2>2, <2>3 DEF SlotIs
  <2>6. HoldsNext(r, s)
    BY <2>1, <2>2, <2>5 DEF HoldsNext
  <2>7. \A t \in Susps : ioWait'[t] # 0 => ioWait'[t] = ioWait[t] \/ HoldsNext(ioWait'[t], t)
    BY <2>3, <2>6
  <2>8. \A d \in Clients : client'[d].pc = "submit" /\ client'[d].node \in Susps =>
             client'[d] = client[d] \/ HoldsNext(client'[d].req, client'[d].node)
    BY <2>6, <2>4
  <2> QED
    BY <1>0, <2>5, <2>7, <2>8, NamedSlotsStay
<1>4. CASE AfterRegister(c)
  <2>1. ioWait' = ioWait
    BY <1>4, Zenon DEF AfterRegister, ioVars
  <2>2. /\ \A i \in 1 .. Slots :
             pending'[i].req = pending[i].req /\ pending'[i].node = pending[i].node
        /\ \A d \in Clients \ {c} : client'[d] = client[d]
        /\ client'[c].pc # "submit"
    BY <1>4, RegisterEffect DEF SlotIs, ClientIs, ClientGoes
  <2> QED
    BY <1>0, <2>1, <2>2, NamedSlotsStay
<1>5. CASE ReleaseSlot(c)
  <2>1. PICK i, r : i = client[c].slot /\ r = client[c].req
    OBVIOUS
  <2>2. /\ ioWait' = ioWait /\ client[c].pc \in {"release", "releaseError"}
    BY <1>5, Zenon DEF ReleaseSlot, ioVars
  <2>3. /\ i \in 1 .. Slots /\ i \notin held
        /\ \A j \in 1 .. Slots : j # i => pending'[j] = pending[j]
        /\ \A d \in Clients : client'[d].pc = "submit" => client'[d] = client[d]
    BY <1>5, <2>1, ReleaseEffect, IdleClientType DEF SlotIs
  <2>4. pending[i].done /\ pending[i].req = r
    <3>1. pending[i].done
      BY <2>1, <2>2 DEF ClientInv, ClientOK
    <3> QED
      BY <2>1, <2>2, <3>1, SlotOfClient DEF Owning
  <2> DEFINE t == Token("slot", r, pending[i].node, i)
  <2>5. t \in AllTokens
    BY <2>3, <2>4 DEF AllTokens, SlotTokens, SlotToken
  <2>6. t[1] = "slot" /\ t[2] = r
    BY TokenParts
  <2>7. \A j \in 1 .. Slots : pending[j].req # r => pending'[j] = pending[j]
    BY <2>3, <2>4
  <2> HIDE DEF t
  <2> QED
    BY <1>0, <2>2, <2>3, <2>5, <2>6, <2>7, NamedElsewhere
<1> QED
  BY <1>1, <1>2, <1>3, <1>4, <1>5 DEF ClientStep

(* The dispatcher names the suspension in the slot of its request.          *)
LEMMA NamedDispatcher ==
  ASSUME Types, TokenInv, ClientInv, Named, Dispatcher
  PROVE  Named'
<1>1. UNCHANGED <<client, ioWait, pub, reader>>
  BY DispatcherLeaves
<1>2. CASE pending' = pending
  BY <1>1, <1>2, NamedSlotsStay
<1>3. CASE Deliver
  <2>1. PICK r, node : r = disp.cqe.req /\ node = disp.cqe.node
    OBVIOUS
  <2>2. /\ disp.pc = "deliver"
        /\ \A i \in 1 .. Slots : pending[i].req # r => pending'[i] = pending[i]
    BY <1>3, <2>1, DeliverEffect DEF SlotIs
  <2> DEFINE t == Token("disp", r, node, 0)
  <2>3. t \in AllTokens
    BY <2>1, <2>2 DEF AllTokens, DispTokens
  <2>4. t[1] = "disp" /\ t[2] = r
    BY TokenParts
  <2> HIDE DEF t
  <2> QED
    BY <1>1, <2>2, <2>3, <2>4, NamedElsewhere
<1> QED
  BY <1>2, <1>3 DEF Dispatcher, DispatcherTake, WakePump, clientVars

(* Publication hands a name on from io_wait_map.                            *)
LEMMA NamedPublish ==
  ASSUME Types, Named, NEW x \in Clients \cup {Pump}, PublishStep(x)
  PROVE  Named'
<1>0. UNCHANGED <<pending, reader>>
  BY PublishLeaves
<1>1. \A q, s : Holds(q, s) => HoldsNext(q, s)
  BY <1>0 DEF Holds, HoldsNext
<1>2. \A c \in Clients : client'[c].pc = "submit" => client'[c] = client[c]
  <2>1. CASE PopStdout(x)
    BY <2>1, PopEffect DEF ClientIs
  <2>2. CASE ~ PopStdout(x)
    BY <2>2, Zenon DEF PublishStep, TakeStdoutWaiter, RemoveStdoutWaiter, ResumeWriter, clientVars
  <2> QED
    BY <2>1, <2>2
<1>3. /\ \A s \in Susps : ioWait'[s] # 0 => ioWait'[s] = ioWait[s]
      /\ pub'.pc = "submit" => \/ pub'.susp \in Susps /\ ioWait[pub'.susp] # 0
                                  /\ pub'.req = ioWait[pub'.susp]
  <2>1. CASE PopStdout(x) \/ TakeStdoutWaiter(x) \/ ResumeWriter(x)
    <3>1. ioWait' = ioWait
      BY <2>1, Zenon DEF PopStdout, TakeStdoutWaiter, ResumeWriter, ioVars
    <3>2. pub'.pc # "submit"
      <4>1. ResumeWriter(x) => pub' = Published(x)
        BY Zenon DEF ResumeWriter
      <4>2. PopStdout(x) => pub'.pc \in {"pop", "take"}
        BY PopEffect, PublishedType
      <4>3. TakeStdoutWaiter(x) => pub' = Published(x) \/ pub'.pc = "remove"
        BY TakeWaiterEffect
      <4> QED
        BY <2>1, <4>1, <4>2, <4>3, PublishedType
    <3> QED
      BY <3>1, <3>2
  <2>2. CASE RemoveStdoutWaiter(x)
    BY <2>2, RemoveWaiterEffect, PublishedType
  <2> QED
    BY <2>1, <2>2 DEF PublishStep
<1>4. \A c \in Clients : client'[c].pc = "submit" /\ client'[c].node \in Susps =>
                           HoldsNext(client'[c].req, client'[c].node)
  BY <1>1, <1>2 DEF Named
<1>5. \A s \in Susps : ioWait'[s] # 0 => HoldsNext(ioWait'[s], s)
  BY <1>1, <1>3 DEF Named
<1>6. pub'.pc = "submit" => HoldsNext(pub'.req, pub'.susp)
  BY <1>1, <1>3 DEF Named
<1>7. reader'.pc = "submit" => HoldsNext(reader'.req, reader'.susp)
  BY <1>0, <1>1 DEF Named
<1> QED
  BY <1>4, <1>5, <1>6, <1>7, NamedNext

(* So does the stdin thread.                                                *)
LEMMA NamedStdin ==
  ASSUME Types, Named, StdinThread
  PROVE  Named'
<1>0. UNCHANGED <<pending, client, pub>>
  BY StdinLeaves
<1>1. \A q, s : Holds(q, s) => HoldsNext(q, s)
  BY <1>0 DEF Holds, HoldsNext
<1>2. /\ \A s \in Susps : ioWait'[s] # 0 => ioWait'[s] = ioWait[s]
      /\ reader'.pc = "submit" => /\ reader'.susp \in Susps /\ ioWait[reader'.susp] # 0
                                  /\ reader'.req = ioWait[reader'.susp]
  <2>1. CASE ReaderWait \/ ReaderPush \/ ReaderTake \/ ResumeReader
    <3>1. ioWait' = ioWait
      BY <2>1, Zenon DEF ReaderWait, ReaderPush, ReaderTake, ResumeReader, ioVars
    <3>2. reader'.pc # "submit"
      <4>1. ReaderWait \/ ReaderPush \/ ReaderTake => reader'.pc # "submit"
        BY ReaderAt DEF ReaderWait, ReaderPush, ReaderTake, Reader
      <4>2. ResumeReader => reader'.pc # "submit"
        BY DEF ResumeReader
      <4> QED
        BY <2>1, <4>1, <4>2
    <3> QED
      BY <3>1, <3>2
  <2>2. CASE ReaderRemove
    BY <2>2, RemoveReaderEffect DEF ReaderIs
  <2> QED
    BY <2>1, <2>2 DEF StdinThread
<1>3. \A s \in Susps : ioWait'[s] # 0 => HoldsNext(ioWait'[s], s)
  BY <1>1, <1>2 DEF Named
<1>4. reader'.pc = "submit" => HoldsNext(reader'.req, reader'.susp)
  BY <1>1, <1>2 DEF Named
<1>5. /\ \A c \in Clients : client'[c].pc = "submit" /\ client'[c].node \in Susps =>
                              HoldsNext(client'[c].req, client'[c].node)
      /\ pub'.pc = "submit" => HoldsNext(pub'.req, pub'.susp)
  BY <1>0, <1>1 DEF Named
<1> QED
  BY <1>3, <1>4, <1>5, NamedNext

(* Nothing that names a suspension changes.                                 *)
LEMMA NamedFrame ==
  ASSUME Named, UNCHANGED <<pending, client, ioWait, pub, reader>>
  PROVE  Named'
  BY DEF Named, Holds

-----------------------------------------------------------------------------
(* The bytes of the stdout ring, and the byte that is about to be          *)
(* published, are those of calls that have not returned, unless a call may *)
(* fail, which returns at once.                                            *)
InCall(r) == r # 0 /\ \E c \in Clients : client[c].req = r
OutInv == ~ Fails => /\ \A k \in DOMAIN stdout : InCall(stdout[k])
                     /\ pub.pc = "take" => InCall(pub.req)

(* Bytes are old, or of a call that is running.                             *)
LEMMA OutNext ==
  ASSUME OutInv,
         ~ Fails => \A c \in Clients : client[c].req # 0 => client'[c].req = client[c].req,
         ~ Fails => \A k \in DOMAIN stdout' :
                      \/ \E j \in DOMAIN stdout : stdout'[k] = stdout[j]
                      \/ InCall(stdout'[k]),
         pub'.pc = "take" => pub' = pub \/ \E j \in DOMAIN stdout : pub'.req = stdout[j]
  PROVE  OutInv'
<1> SUFFICES ASSUME ~ Fails PROVE OutInv'
  BY DEF OutInv
<1>1. \A r : InCall(r) => r # 0 /\ \E c \in Clients : client'[c].req = r
  BY DEF InCall
<1>2. \A k \in DOMAIN stdout' : InCall(stdout'[k])
  BY DEF OutInv
<1>3. pub'.pc = "take" => InCall(pub'.req)
  BY DEF OutInv
<1> QED
  BY <1>1, <1>2, <1>3 DEF OutInv, InCall

(* A call returns only when no byte of its own is left, or it failed.       *)
LEMMA OutClients ==
  ASSUME Types, ClientInv, EventInv, OutInv, NEW c \in Clients, Call(c) \/ ClientStep(c)
  PROVE  OutInv'
<1>1. stdout' = stdout /\ pub' = pub
  BY ClientLeaves
<1>2. ~ Fails => \A d \in Clients : client[d].req # 0 => client'[d].req = client[d].req
  <2>1. CASE Call(c)
    <3>1. client[c].req = 0
      BY <2>1, Zenon DEF Call, ClientInv, ClientOK
    <3> QED
      BY <2>1, <3>1, CallEffect DEF ClientIs
  <2>2. CASE AcquireSlot(c)
    BY <2>2, AcquireEffect DEF ClientIs, ClientGoes
  <2>3. CASE ClientSubmit(c) \/ RaiseDemand(c)
    BY <2>3, SubmitEffect, DemandEffect DEF ClientIs, ClientGoes
  <2>4. CASE Completion(c)
    <3>1. \E pc, node : ClientGoes(c, pc, client[c].slot, node)
      BY <2>4, CompletionEffect
    <3> QED
      BY <3>1 DEF ClientIs, ClientGoes
  <2>5. CASE AfterRegister(c)
    BY <2>5, RegisterEffect DEF ClientIs, ClientGoes
  <2>6. CASE ReleaseSlot(c)
    <3>1. ~ Fails => client[c].pc # "releaseError"
      BY ClientAt DEF Client, Pcs
    <3>2. \/ client'[c].req = client[c].req
          \/ client[c].pc = "releaseError"
      BY <2>6, ReleaseEffect
    <3>3. \A d \in Clients \ {c} : client'[d].req = client[d].req
      BY <2>6, ReleaseEffect
    <3> QED
      BY <3>1, <3>2, <3>3
  <2> QED
    BY <2>1, <2>2, <2>3, <2>4, <2>5, <2>6 DEF ClientStep
<1> QED
  BY <1>1, <1>2, OutNext

(* A worker writes bytes of a call that is running.                         *)
LEMMA OutWorkers ==
  ASSUME Types, WorkerInv, TokenInv, OutInv, NEW w \in Workers, WorkerStep(w)
  PROVE  OutInv'
<1>1. client' = client /\ pub' = pub
  BY WorkerLeaves
<1>2. CASE stdout' = stdout
  BY <1>1, <1>2, OutNext
<1>3. CASE WriteOne(w) /\ stdout' # stdout
  <2>1. stdout' = Append(stdout, worker[w].req) /\ worker[w].pc = "run"
    BY <1>3, Zenon DEF WriteOne, Runs
  <2>2. worker[w].req # 0 /\ worker[w].req \in ReqIds /\ stdout \in Seq(ReqIds)
    BY <2>1, WorkerAt DEF WorkerInv, Types, IoTypes
  <2>3. \A k \in DOMAIN stdout' : \/ k \in DOMAIN stdout /\ stdout'[k] = stdout[k]
                                  \/ stdout'[k] = worker[w].req
    BY <2>1, <2>2, AppendOf
  <2> DEFINE t == Token("worker", worker[w].req, worker[w].node, w)
  <2>4. t \in AllTokens
    BY <2>2 DEF AllTokens, WorkerTokens, WorkerToken
  <2>5. t[2] = worker[w].req
    BY TokenParts
  <2> HIDE DEF t
  <2>6. InCall(worker[w].req)
    BY <2>2, <2>4, <2>5, TokenOfActive DEF Active, InCall
  <2> QED
    BY <1>1, <2>3, <2>6, OutNext
<1> QED
  BY <1>2, <1>3, Zenon DEF WorkerStep, Dequeue, StartBatch, OutOfGas, OutOfBudget, Walk, Contract,
     ReadOne, WriteOne, EndOfFile, QueueWaiter, Post

(* A byte leaves the ring for the publisher's hands; a draining client      *)
(* returns when none is left in either.                                     *)
LEMMA OutPublish ==
  ASSUME Types, OutInv, NEW x \in Clients \cup {Pump}, PublishStep(x)
  PROVE  OutInv'
<1>1. CASE PopStdout(x)
  <2>1. CASE stdout = <<>> /\ stdout' = stdout /\ pub' = NoPub
    <3>1. pub'.pc # "take" /\ DOMAIN stdout' = {}
      BY <2>1, PublishedType
    <3> QED
      BY <3>1 DEF OutInv
  <2>2. CASE /\ stdout # <<>> /\ stdout' = Tail(stdout) /\ client' = client
             /\ pub'.req = Head(stdout)
    <3>1. stdout \in Seq(ReqIds)
      BY DEF Types, IoTypes
    <3>2. \A k \in DOMAIN stdout' : k + 1 \in DOMAIN stdout /\ stdout'[k] = stdout[k + 1]
      BY <2>2, <3>1, TailOf
    <3>3. 1 \in DOMAIN stdout /\ pub'.req = stdout[1]
      BY <2>2, <3>1, TailOf
    <3> QED
      BY <2>2, <3>2, <3>3, OutNext
  <2> QED
    BY <1>1, <2>1, <2>2, PopEffect
<1>2. CASE ~ PopStdout(x)
  <2>1. stdout' = stdout /\ client' = client
    BY <1>2, Zenon DEF PublishStep, TakeStdoutWaiter, RemoveStdoutWaiter, ResumeWriter, clientVars
  <2>2. pub'.pc # "take"
    <3>1. CASE TakeStdoutWaiter(x)
      BY <3>1, TakeWaiterEffect, PublishedType
    <3>2. CASE RemoveStdoutWaiter(x)
      BY <3>2, RemoveWaiterEffect, PublishedType
    <3>3. CASE ResumeWriter(x)
      BY <3>3, PublishedType DEF ResumeWriter
    <3> QED
      BY <1>2, <3>1, <3>2, <3>3 DEF PublishStep
  <2> QED
    BY <2>1, <2>2, OutNext
<1> QED
  BY <1>1, <1>2

(* Neither bytes nor calls change.                                          *)
LEMMA OutFrame ==
  ASSUME OutInv, stdout' = stdout, client' = client, pub' = pub
  PROVE  OutInv'
  BY DEF OutInv, InCall

-----------------------------------------------------------------------------
(* The inductive invariant.                                                *)
Inv == /\ Types /\ ClientInv /\ WorkerInv /\ EventInv /\ TokenInv
       /\ Named /\ OutInv /\ dropped = 0

(* The initial states satisfy the invariant.                                *)
LEMMA InitInv == Init => Inv
<1> SUFFICES ASSUME Init PROVE Inv
  OBVIOUS
<1>1. Types
  BY InitTypes
<1>2. ClientInv
  BY IdleClientType DEF Init, ClientInv, ClientOK, Owning, OwnRequest, HeldInv
<1>3. WorkerInv
  BY DEF Init, WorkerInv, IdleWorker
<1>4. EventInv
  BY Names DEF Init, EventInv, EventOK, FreeSlot
<1>5. AllTokens = {} /\ Active = {} /\ ParkedSet = {}
  <2>1. ClientTokens = {} /\ Active = {}
    BY IdleClientType DEF Init, ClientTokens, ClientToken, Active
  <2>2. SqTokens = {} /\ CqTokens = {}
    BY DEF Init, SqTokens, CqTokens, QueueTokens
  <2>3. WorkerTokens = {}
    BY DEF Init, WorkerTokens, WorkerToken, IdleWorker
  <2>4. SlotTokens = {}
    BY DEF Init, SlotTokens, SlotToken, FreeSlot
  <2>5. WaitTokens = {}
    BY DEF Init, WaitTokens, WaitToken
  <2>6. DispTokens = {} /\ PubTokens = {} /\ ReaderTokens = {}
    BY DEF Init, DispTokens, PubTokens, ReaderTokens, NoPub
  <2>7. ParkedSet = {}
    BY DEF Init, ParkedSet, FreeSusp
  <2> QED
    BY <2>1, <2>2, <2>3, <2>4, <2>5, <2>6, <2>7 DEF AllTokens
<1>6. TokenInv
  BY <1>5 DEF Init, TokenInv, Sound, Once
<1>7. Named
  BY IdleClientType DEF Init, Named, NoPub
<1> QED
  BY <1>1, <1>2, <1>3, <1>4, <1>6, <1>7 DEF Init, Inv, OutInv, NoPub

(* Every step keeps it.                                                     *)
LEMMA NextInv == Inv /\ [Next]_vars => Inv'
<1> SUFFICES ASSUME Inv, [Next]_vars PROVE Inv'
  OBVIOUS
<1> USE DEF Inv
<1>1. ASSUME NEW c \in Clients, Call(c) \/ ClientStep(c) PROVE Inv'
  <2>1. UNCHANGED <<worker, dropped>>
    BY <1>1, ClientLeaves
  <2>2. TokenInv'
    BY <1>1, CallTokens, AcquireTokens, SubmitTokens, CompletionTokens, RegisterTokens,
       DemandTokens, ReleaseTokens DEF ClientStep
  <2>3. Types' /\ ClientInv' /\ EventInv'
    BY <1>1, ClientTypesStep, ClientInvClients, EventInvClients
  <2>4. Named' /\ OutInv'
    BY <1>1, NamedClients, OutClients
  <2> QED
    BY <2>1, <2>2, <2>3, <2>4, WorkerInvFrame
<1>2. ASSUME NEW w \in Workers, WorkerStep(w) PROVE Inv'
  <2>1. UNCHANGED clientVars /\ UNCHANGED <<pending, client, ioWait, pub, reader, dropped>>
    BY <1>2, WorkerLeaves DEF clientVars
  <2>2. Types' /\ EventInv' /\ WorkerInv' /\ TokenInv' /\ OutInv'
    BY <1>2, WorkerTypesStep, EventInvWorkers, WorkerInvStep, WorkerTokensStep, OutWorkers
  <2> QED
    BY <2>1, <2>2, ClientInvFrame, NamedFrame
<1>3. ASSUME Dispatcher PROVE Inv'
  <2>1. UNCHANGED <<nextReq, held, client, worker, stdout, pub>>
    BY <1>3, DispatcherLeaves
  <2>2. ClientInv'
    <3>1. CASE Deliver
      BY <3>1, ClientInvDeliver
    <3>2. CASE ~ Deliver
      BY <1>3, <3>2, ClientInvFrame DEF Dispatcher, DispatcherTake, WakePump
    <3> QED
      BY <3>1, <3>2
  <2>3. Types' /\ EventInv' /\ TokenInv' /\ Named' /\ dropped' = dropped
    BY <1>3, DispatcherTypesStep, EventInvDispatcher, DispatcherTokensStep, NamedDispatcher
  <2> QED
    BY <2>1, <2>2, <2>3, WorkerInvFrame, OutFrame
<1>4. ASSUME NEW x \in Clients \cup {Pump}, PublishStep(x) PROVE Inv'
  <2>1. UNCHANGED <<nextReq, pending, held, worker, dropped>>
    BY <1>4, PublishLeaves
  <2>2. ClientInv'
    <3>1. CASE PopStdout(x)
      BY <3>1, ClientInvPop
    <3>2. CASE ~ PopStdout(x)
      BY <1>4, <3>2, ClientInvFrame DEF PublishStep, TakeStdoutWaiter, RemoveStdoutWaiter,
                                        ResumeWriter
    <3> QED
      BY <3>1, <3>2
  <2>3. Types' /\ EventInv' /\ TokenInv' /\ Named' /\ OutInv'
    BY <1>4, PublishTypesStep, EventInvWakers, PublishTokensStep, NamedPublish, OutPublish
  <2> QED
    BY <2>1, <2>2, <2>3, WorkerInvFrame
<1>5. ASSUME PumpDoze PROVE Inv'
  <2>1. UNCHANGED <<pending, client, worker, stdout, ioWait, pub, reader, dropped>>
    BY <1>5, PumpLeaves
  <2>2. UNCHANGED clientVars
    BY <1>5, PumpLeaves DEF clientVars
  <2>3. Types' /\ EventInv' /\ TokenInv'
    BY <1>5, PumpTypesStep, EventInvWakers, PumpTokens
  <2> QED
    BY <2>1, <2>2, <2>3, ClientInvFrame, WorkerInvFrame, NamedFrame, OutFrame
<1>6. ASSUME StdinThread PROVE Inv'
  <2>1. UNCHANGED <<client, worker, stdout, pub, dropped>> /\ UNCHANGED clientVars
    BY <1>6, StdinLeaves DEF clientVars
  <2>2. Types' /\ EventInv' /\ TokenInv' /\ Named'
    BY <1>6, StdinTypesStep, EventInvWakers, StdinTokensStep, NamedStdin
  <2> QED
    BY <2>1, <2>2, ClientInvFrame, WorkerInvFrame, OutFrame
<1>7. CASE UNCHANGED vars
  <2>1. UNCHANGED clientVars /\ UNCHANGED <<sq, cq, worker, susp, stdin, stdout>>
        /\ UNCHANGED ioVars /\ UNCHANGED outVars /\ UNCHANGED dispVars
    BY <1>7 DEF vars
  <2>2. UNCHANGED <<nextReq, pending, held, client, ioWait, pub, reader, disp, dropped>>
    BY <2>1 DEF clientVars, ioVars, outVars, dispVars
  <2>3. Types'
    BY <2>1 DEF Types, SlotTypes, ClientTypes, QueueTypes, WorkerTypes, DispTypes, IoTypes,
                WakerTypes, clientVars, ioVars, outVars, dispVars
  <2>4. TokenInv'
    BY <2>1, <2>2, TokensFrame DEF TokenVars
  <2>5. EventInv'
    BY <2>1, <2>2, EventsKept
  <2> QED
    BY <2>1, <2>2, <2>3, <2>4, <2>5, ClientInvFrame, WorkerInvFrame, NamedFrame, OutFrame
<1> QED
  BY <1>1, <1>2, <1>3, <1>4, <1>5, <1>6, <1>7, Zenon DEF Next

(* The invariant holds in every state the runtime reaches: its values have  *)
(* their types (Types), clients and workers hold what their place in the    *)
(* code says (ClientInv, WorkerInv), events name the suspension they leave  *)
(* (EventInv), every request that owns a slot has exactly one token and the *)
(* suspension it goes on with is parked (TokenInv), the slot names the      *)
(* suspension (Named), unpublished bytes are of running calls (OutInv), and *)
(* no completion was dropped.                                               *)
THEOREM Invariance == Spec => []Inv
  BY InitInv, NextInv, PTL DEF Spec

-----------------------------------------------------------------------------
(* The types and the local bookkeeping of the runtime: what thanatos.c and *)
(* arena.c assume of a slot, a queue, a worker.                            *)

(* The invariant implies the type invariant that TLC checks.                *)
LEMMA InvTypeOK == Inv => TypeOK
<1> SUFFICES ASSUME Inv PROVE TypeOK
  OBVIOUS
<1> USE DEF Inv
<1>1. /\ nextReq \in 1 .. MaxRequests + 1
      /\ held \subseteq 1 .. Slots
      /\ \A i \in 1 .. Slots : /\ pending[i].req \in 0 .. MaxRequests
                               /\ pending[i].event \in Events
                               /\ pending[i].done \in BOOLEAN
                               /\ pending[i].done => pending[i].req # 0
  BY DEF Types, SlotTypes, Slot, ReqIds, Results, Events
<1>2. \A c \in Clients : client[c].slot # 0 => pending[client[c].slot].req = client[c].req
  BY DEF ClientInv, ClientOK
<1>3. ASSUME NEW w \in Workers
      PROVE  /\ worker[w].left \in 0 .. Unlimited
             /\ worker[w].gas \in 0 .. Gas
             /\ worker[w].pc \in {"wait", "post"} => susp[worker[w].node].status = "PARKED"
  <2>1. worker[w].left \in 0 .. Unlimited /\ worker[w].gas \in 0 .. Gas
    BY WorkerAt DEF Worker, Budget
  <2>2. ASSUME worker[w].pc \in {"wait", "post"}
        PROVE  susp[worker[w].node].status = "PARKED"
    <3> DEFINE t == Token("worker", worker[w].req, worker[w].node, w)
    <3>1. worker[w].req # 0 /\ worker[w].node \in Susps
      BY <2>2 DEF WorkerInv
    <3>2. t \in AllTokens
      BY <3>1 DEF AllTokens, WorkerTokens, WorkerToken
    <3>3. t[3] = worker[w].node
      BY TokenParts
    <3> HIDE DEF t
    <3> QED
      BY <3>1, <3>2, <3>3, TokenOfActive
  <2> QED
    BY <2>1, <2>2
<1>4. /\ Len(sq) <= SqCapacity /\ Len(cq) <= CqCapacity
      /\ stdin \in 0 .. StdinCapacity /\ Len(stdout) <= StdoutCapacity
      /\ ioWait \in [Susps -> 0 .. MaxRequests]
      /\ demand \in Nat /\ dropped \in Nat
      /\ pub.by \in Clients \cup {Pump, NoOne}
  BY DEF Types, QueueTypes, IoTypes, DispTypes, WakerTypes, Publish, ReqIds
<1> QED
  BY <1>1, <1>2, <1>3, <1>4 DEF TypeOK

(* What thanatos.c and arena.c assume of a slot, a queue and a worker: the  *)
(* variables keep their types, and the slots and completions in use carry   *)
(* the number of a request.                                                 *)
THEOREM TypesCorrect == Spec => []TypeOK
  BY Invariance, InvTypeOK, PTL

-----------------------------------------------------------------------------
(* Counting the places of a request.                                       *)
At(kind, r) == \E t \in AllTokens : t[1] = kind /\ t[2] = r

(* A set with at most one element.                                         *)
LEMMA CountOne ==
  ASSUME NEW S, NEW P, \A x, y \in S : x = y, P <=> S # {}
  PROVE  Count(S) = IF P THEN 1 ELSE 0
<1>1. CASE S = {}
  BY <1>1, FS_EmptySet DEF Count
<1>2. CASE S # {}
  <2>1. PICK x \in S : S = {x}
    BY <1>2
  <2> QED
    BY <1>2, <2>1, FS_Singleton DEF Count
<1> QED
  BY <1>1, <1>2

(* The elements of a queue that carry request r.                           *)
LEMMA CountQueue ==
  ASSUME TokenInv, NEW q, Once(q), NEW kind, NEW r,
         \A t : (t \in AllTokens /\ t[1] = kind) <=> t \in QueueTokens(kind, q)
  PROVE  Count({k \in DOMAIN q : q[k].req = r}) = IF At(kind, r) THEN 1 ELSE 0
<1> DEFINE S == {k \in DOMAIN q : q[k].req = r}
<1>1. \A x, y \in S : x = y
  BY DEF Once
<1>2. ASSUME NEW k \in S PROVE At(kind, r)
  <2> DEFINE t == Token(kind, q[k].req, q[k].node, 0)
  <2>1. t \in QueueTokens(kind, q) /\ t[1] = kind /\ t[2] = r
    BY TokenParts DEF QueueTokens
  <2> HIDE DEF t
  <2> QED
    BY <2>1 DEF At
<1>3. ASSUME At(kind, r) PROVE S # {}
  <2>1. PICK t \in QueueTokens(kind, q) : t[2] = r
    BY <1>3 DEF At
  <2>2. PICK k \in DOMAIN q : t = Token(kind, q[k].req, q[k].node, 0)
    BY DEF QueueTokens
  <2>3. q[k].req = r
    BY <2>1, <2>2, TokenParts
  <2> QED
    BY <2>3
<1> HIDE DEF S
<1>4. At(kind, r) <=> S # {}
  BY <1>2, <1>3
<1> QED
  BY <1>1, <1>4, CountOne DEF S

(* The kind of a token tells which set it is from.                         *)
LEMMA KindsOfTokens ==
  ASSUME NEW t
  PROVE  /\ (t \in AllTokens /\ t[1] = "client") <=> t \in ClientTokens
         /\ (t \in AllTokens /\ t[1] = "sq") <=> t \in SqTokens
         /\ (t \in AllTokens /\ t[1] = "worker") <=> t \in WorkerTokens
         /\ (t \in AllTokens /\ t[1] = "cq") <=> t \in CqTokens
         /\ (t \in AllTokens /\ t[1] = "disp") <=> t \in DispTokens
         /\ (t \in AllTokens /\ t[1] = "slot") <=> t \in SlotTokens
         /\ (t \in AllTokens /\ t[1] = "wait") <=> t \in WaitTokens
         /\ (t \in AllTokens /\ t[1] = "pub") <=> t \in PubTokens
         /\ (t \in AllTokens /\ t[1] = "reader") <=> t \in ReaderTokens
<1>1. t \in AllTokens => t[1] \in {"client", "sq", "worker", "cq", "disp", "slot", "wait",
                                   "pub", "reader"}
  BY TokenKinds DEF AllTokens
<1> QED
  BY TokenKinds DEF AllTokens

(* Each summand of Tokens counts the tokens of one kind.                   *)
LEMMA CountsOfTokens ==
  ASSUME Types, TokenInv, NEW r \in Requests
  PROVE  /\ Count({c \in Clients : client[c].req = r /\ client[c].pc = "submit"})
              = (IF At("client", r) THEN 1 ELSE 0)
         /\ Count({k \in DOMAIN sq : sq[k].req = r}) = (IF At("sq", r) THEN 1 ELSE 0)
         /\ Count({w \in Workers : worker[w].req = r}) = (IF At("worker", r) THEN 1 ELSE 0)
         /\ Count({k \in DOMAIN cq : cq[k].req = r}) = (IF At("cq", r) THEN 1 ELSE 0)
         /\ (disp.pc = "deliver" /\ disp.cqe.req = r) <=> At("disp", r)
         /\ Count({i \in (1 .. Slots) \ held : pending[i].req = r /\ pending[i].done})
              = (IF At("slot", r) THEN 1 ELSE 0)
         /\ Count({s \in Susps : ioWait[s] = r}) = (IF At("wait", r) THEN 1 ELSE 0)
         /\ (pub.pc = "submit" /\ pub.req = r) <=> At("pub", r)
         /\ (reader.pc = "submit" /\ reader.req = r) <=> At("reader", r)
<1>0. r # 0
  BY Names
<1>1. Count({c \in Clients : client[c].req = r /\ client[c].pc = "submit"})
        = (IF At("client", r) THEN 1 ELSE 0)
  <2> DEFINE S == {c \in Clients : client[c].req = r /\ client[c].pc = "submit"}
             tok(c) == Token("client", client[c].req, client[c].node, c)
  <2>1. \A c : tok(c)[2] = client[c].req /\ tok(c)[4] = c
    BY TokenParts
  <2>2. \A c \in S : tok(c) \in ClientTokens /\ tok(c) \in AllTokens
    BY DEF ClientTokens, ClientToken, AllTokens
  <2>3. \A t \in ClientTokens : \E c \in Clients : t = tok(c) /\ client[c].pc = "submit"
    BY DEF ClientTokens, ClientToken
  <2> HIDE DEF tok
  <2>4. \A x, y \in S : x = y
    BY <2>1, <2>2, SameToken
  <2>5. At("client", r) <=> S # {}
    BY <2>1, <2>2, <2>3, KindsOfTokens DEF At
  <2> HIDE DEF S
  <2> QED
    BY <2>4, <2>5, CountOne DEF S
<1>2. Count({k \in DOMAIN sq : sq[k].req = r}) = (IF At("sq", r) THEN 1 ELSE 0)
  BY KindsOfTokens, CountQueue DEF SqTokens, TokenInv
<1>3. Count({w \in Workers : worker[w].req = r}) = (IF At("worker", r) THEN 1 ELSE 0)
  <2> DEFINE S == {w \in Workers : worker[w].req = r}
             tok(w) == Token("worker", worker[w].req, worker[w].node, w)
  <2>1. \A w : tok(w)[2] = worker[w].req /\ tok(w)[4] = w
    BY TokenParts
  <2>2. \A w \in S : tok(w) \in WorkerTokens /\ tok(w) \in AllTokens
    BY <1>0 DEF WorkerTokens, WorkerToken, AllTokens
  <2>3. \A t \in WorkerTokens : \E w \in Workers : t = tok(w)
    BY DEF WorkerTokens, WorkerToken
  <2> HIDE DEF tok
  <2>4. \A x, y \in S : x = y
    BY <2>1, <2>2, SameToken
  <2>5. At("worker", r) <=> S # {}
    BY <2>1, <2>2, <2>3, KindsOfTokens DEF At
  <2> HIDE DEF S
  <2> QED
    BY <2>4, <2>5, CountOne DEF S
<1>4. Count({k \in DOMAIN cq : cq[k].req = r}) = (IF At("cq", r) THEN 1 ELSE 0)
  BY KindsOfTokens, CountQueue DEF CqTokens, TokenInv
<1>5. (disp.pc = "deliver" /\ disp.cqe.req = r) <=> At("disp", r)
  BY KindsOfTokens, TokenParts DEF At, DispTokens
<1>6. Count({i \in (1 .. Slots) \ held : pending[i].req = r /\ pending[i].done})
        = (IF At("slot", r) THEN 1 ELSE 0)
  <2> DEFINE S == {i \in (1 .. Slots) \ held : pending[i].req = r /\ pending[i].done}
             tok(i) == Token("slot", pending[i].req, pending[i].node, i)
  <2>1. \A i : tok(i)[2] = pending[i].req /\ tok(i)[4] = i
    BY TokenParts
  <2>2. \A i \in S : tok(i) \in SlotTokens /\ tok(i) \in AllTokens
    BY DEF SlotTokens, SlotToken, AllTokens
  <2>3. \A t \in SlotTokens : \E i \in (1 .. Slots) \ held : t = tok(i) /\ pending[i].done
    BY DEF SlotTokens, SlotToken
  <2> HIDE DEF tok
  <2>4. \A x, y \in S : x = y
    BY <2>1, <2>2, SameToken
  <2>5. At("slot", r) <=> S # {}
    BY <2>1, <2>2, <2>3, KindsOfTokens DEF At
  <2> HIDE DEF S
  <2> QED
    BY <2>4, <2>5, CountOne DEF S
<1>7. Count({s \in Susps : ioWait[s] = r}) = (IF At("wait", r) THEN 1 ELSE 0)
  <2> DEFINE S == {s \in Susps : ioWait[s] = r}
             tok(s) == Token("wait", ioWait[s], s, 0)
  <2>1. \A s : tok(s)[2] = ioWait[s] /\ tok(s)[3] = s
    BY TokenParts
  <2>2. \A s \in S : tok(s) \in WaitTokens /\ tok(s) \in AllTokens
    BY <1>0 DEF WaitTokens, WaitToken, AllTokens
  <2>3. \A t \in WaitTokens : \E s \in Susps : t = tok(s)
    BY DEF WaitTokens, WaitToken
  <2> HIDE DEF tok
  <2>4. \A x, y \in S : x = y
    BY <2>1, <2>2, SameToken
  <2>5. At("wait", r) <=> S # {}
    BY <2>1, <2>2, <2>3, KindsOfTokens DEF At
  <2> HIDE DEF S
  <2> QED
    BY <2>4, <2>5, CountOne DEF S
<1>8. (pub.pc = "submit" /\ pub.req = r) <=> At("pub", r)
  BY KindsOfTokens, TokenParts DEF At, PubTokens
<1>9. (reader.pc = "submit" /\ reader.req = r) <=> At("reader", r)
  BY KindsOfTokens, TokenParts DEF At, ReaderTokens
<1> QED
  BY <1>1, <1>2, <1>3, <1>4, <1>5, <1>6, <1>7, <1>8, <1>9

(* So the places of a request number one while it owns a slot, and none     *)
(* otherwise.                                                               *)
LEMMA InvOneToken == Inv => OneTokenPerRequest
<1> SUFFICES ASSUME Inv, NEW r \in Requests
             PROVE  Tokens(r) = (IF r \in Active THEN 1 ELSE 0)
  BY DEF OneTokenPerRequest
<1> DEFINE kinds == {"client", "sq", "worker", "cq", "disp", "slot", "wait", "pub", "reader"}
           one(kind) == IF At(kind, r) THEN 1 ELSE 0
<1>1. Types /\ TokenInv
  BY DEF Inv
<1>2. Tokens(r) = one("client") + one("sq") + one("worker") + one("cq") + one("disp")
                    + one("slot") + one("wait") + one("pub") + one("reader")
  <2>1. /\ Count({c \in Clients : client[c].req = r /\ client[c].pc = "submit"}) = one("client")
        /\ Count({k \in DOMAIN sq : sq[k].req = r}) = one("sq")
        /\ Count({w \in Workers : worker[w].req = r}) = one("worker")
        /\ Count({k \in DOMAIN cq : cq[k].req = r}) = one("cq")
        /\ Count({i \in (1 .. Slots) \ held : pending[i].req = r /\ pending[i].done}) = one("slot")
        /\ Count({s \in Susps : ioWait[s] = r}) = one("wait")
    BY <1>1, CountsOfTokens, Zenon
  <2>2. /\ (IF disp.pc = "deliver" /\ disp.cqe.req = r THEN 1 ELSE 0) = one("disp")
        /\ (IF pub.pc = "submit" /\ pub.req = r THEN 1 ELSE 0) = one("pub")
        /\ (IF reader.pc = "submit" /\ reader.req = r THEN 1 ELSE 0) = one("reader")
    BY <1>1, CountsOfTokens
  <2> HIDE DEF one
  <2> QED
    BY <2>1, <2>2, Zenon DEF Tokens
<1>3. \A j, k \in kinds : At(j, r) /\ At(k, r) => j = k
  BY <1>1, SameToken DEF At
<1>4. r \in Active => \E k \in kinds : At(k, r)
  <2> SUFFICES ASSUME r \in Active PROVE \E k \in kinds : At(k, r)
    OBVIOUS
  <2>1. PICK t \in AllTokens : t[2] = r
    BY <1>1 DEF TokenInv, Sound
  <2>2. t[1] \in kinds
    BY TokenKinds DEF AllTokens
  <2> QED
    BY <2>1, <2>2 DEF At
<1>5. \A k \in kinds : At(k, r) => r \in Active
  BY <1>1, TokenOfActive DEF At
<1> HIDE DEF one
<1>6. \A k \in kinds : one(k) = IF At(k, r) THEN 1 ELSE 0
  BY DEF one
<1>7. CASE r \notin Active
  <2>1. \A k \in kinds : one(k) = 0
    BY <1>5, <1>6, <1>7
  <2> QED
    BY <1>2, <1>7, <2>1
<1>8. CASE r \in Active
  <2>1. PICK k \in kinds : At(k, r)
    BY <1>4, <1>8
  <2>2. one(k) = 1 /\ \A j \in kinds \ {k} : one(j) = 0
    BY <1>3, <1>6, <2>1
  <2> QED
    BY <1>2, <1>8, <2>2
<1> QED
  BY <1>7, <1>8

(* The continuation of a request is at exactly one place from the moment    *)
(* thanatos_reduce has its slot until it gives it back: submitted, with a   *)
(* worker, completed, delivered, waiting in io_wait_map or about to be      *)
(* resumed.  It is never lost and never resumed twice, whichever of the     *)
(* client, the dispatcher, the pump and the stdin thread moves it next.     *)
THEOREM OneToken == Spec => []OneTokenPerRequest
  BY Invariance, InvOneToken, PTL

-----------------------------------------------------------------------------
(* The dispatcher finds a slot for every completion it takes: none arrives  *)
(* before its client has cleared the last event, and none after the call    *)
(* has returned.                                                            *)
THEOREM NothingDropped == Spec => []NoDroppedEvents
<1>1. Inv => NoDroppedEvents
  BY DEF Inv, NoDroppedEvents
<1> QED
  BY <1>1, Invariance, PTL

(* A worker that is handed a suspension finds it parked: no request is      *)
(* resumed twice, and no suspension is reused while a request waits with    *)
(* it.                                                                      *)
THEOREM ResumesParked == Spec => []NoFailedResume
<1>1. Inv => NoFailedResume
  BY DEF Inv, WorkerInv, NoFailedResume
<1> QED
  BY <1>1, Invariance, PTL

(* io_wait_map has no entry of a suspension when a client registers it.    *)

(* The entry would be a second token with the same suspension.              *)
LEMMA InvRegistersOnce == Inv => RegistersOnce
<1> SUFFICES ASSUME Inv, NEW c \in Clients, client[c].pc = "await",
                    NEW i, i = client[c].slot,
                    pending[i].done, pending[i].event = "IO_WAIT"
             PROVE  ioWait[pending[i].node] = 0
  BY DEF RegistersOnce
<1> USE DEF Inv
<1>1. i \in 1 .. Slots /\ i \notin held
  BY SlotOfClient, HeldSlot, SizesAssumption DEF Owning
<1>2. PICK s : s = pending[i].node
  OBVIOUS
<1>3. s \in Susps
  BY <1>1, <1>2 DEF EventInv, EventOK
<1> DEFINE t == Token("slot", pending[i].req, s, i)
           u == Token("wait", ioWait[s], s, 0)
<1>4. t \in AllTokens
  BY <1>1, <1>2 DEF AllTokens, SlotTokens, SlotToken
<1>5. ioWait[s] # 0 => u \in AllTokens
  BY <1>3 DEF AllTokens, WaitTokens, WaitToken
<1>6. t[1] = "slot" /\ u[1] = "wait" /\ t[3] = s /\ u[3] = s
  BY TokenParts
<1> HIDE DEF t, u
<1> QED
  BY <1>2, <1>3, <1>4, <1>5, <1>6, SameToken

(* io_wait_map has no entry of a suspension when a client registers it, so  *)
(* registration overwrites no other request.                                *)
THEOREM OneRegistration == Spec => []RegistersOnce
  BY Invariance, InvRegistersOnce, PTL

-----------------------------------------------------------------------------
(* Programs that read no file: no call fails.                              *)
NoFiles == Programs \subseteq Seq(Ops \ {"eof"})

(* Their scripts have no end of file.                                       *)
LEMMA NoFilesNoFailure == NoFiles => ~ Fails
<1> SUFFICES ASSUME NoFiles, Fails PROVE FALSE
  OBVIOUS
<1>1. PICK p \in Programs : \E k \in DOMAIN p : p[k] = "eof"
  BY DEF Fails, Alphabet
<1>2. p \in Seq(Ops \ {"eof"})
  BY DEF NoFiles
<1> QED
  BY <1>1, <1>2

(* What the stdout ring holds, and the byte that is being published, was   *)
(* written for calls that have not returned.  A call that fails returns    *)
(* without draining, so the scripts here read no file.                     *)
THEOREM OutputFirst == ASSUME NoFiles PROVE Spec => []OutputBeforeReturn
<1>1. Inv => OutputBeforeReturn
  BY NoFilesNoFailure DEF Inv, OutInv, InCall, OutputBeforeReturn
<1> QED
  BY <1>1, Invariance, PTL

(* A parked suspension is within reach of the request it continues.  A     *)
(* call that fails or returns a suspension leaves one behind, so the       *)
(* scripts here read no file and no call has a step limit.                 *)
THEOREM NothingLeaked ==
  ASSUME NoFiles, Budgets \subseteq {Unlimited}
  PROVE  Spec => []NoLeakedSuspension
<1>1. Inv => NoLeakedSuspension
  <2> SUFFICES ASSUME Inv, NEW s \in Susps, susp[s].status = "PARKED"
               PROVE  s \in ReachableSusps
    BY DEF NoLeakedSuspension
  <2> USE DEF Inv
  <2>1. Completes
    BY NoFilesNoFailure DEF Completes
  <2>2. PICK t \in AllTokens : t[3] = s
    BY <2>1 DEF TokenInv, Sound, ParkedSet
  <2>3. ASSUME NEW r, r # 0, Holds(r, s) PROVE s \in ReachableSusps
    BY <2>3 DEF Holds, ReachableSusps
  <2>4. CASE t \in ClientTokens
    <3>1. PICK c \in Clients : client[c].pc = "submit"
                               /\ t = Token("client", client[c].req, client[c].node, c)
      BY <2>4 DEF ClientTokens, ClientToken
    <3>2. client[c].node = s /\ client[c].req # 0
      BY <2>2, <3>1, TokenParts DEF ClientInv, ClientOK
    <3> QED
      BY <2>3, <3>1, <3>2 DEF Named
  <2>5. CASE t \in SqTokens \cup CqTokens
    <3>1. \/ \E k \in DOMAIN sq : sq[k].node = s
          \/ \E k \in DOMAIN cq : cq[k].node = s
      BY <2>2, <2>5, TokenParts DEF SqTokens, CqTokens, QueueTokens
    <3> QED
      BY <3>1 DEF ReachableSusps
  <2>6. CASE t \in WorkerTokens
    <3>1. \E w \in Workers : worker[w].node = s
      BY <2>2, <2>6, TokenParts DEF WorkerTokens, WorkerToken
    <3> QED
      BY <3>1 DEF ReachableSusps
  <2>7. CASE t \in DispTokens
    <3>1. disp.pc = "deliver" /\ disp.cqe.node = s
      BY <2>2, <2>7, TokenParts DEF DispTokens
    <3> QED
      BY <3>1 DEF ReachableSusps
  <2>8. CASE t \in SlotTokens
    <3>1. PICK i \in 1 .. Slots : /\ pending[i].done
                                  /\ t = Token("slot", pending[i].req, pending[i].node, i)
      BY <2>8 DEF SlotTokens, SlotToken
    <3>2. pending[i].node = s /\ pending[i].req # 0
      BY <2>2, <3>1, TokenParts DEF Types, SlotTypes
    <3> QED
      BY <3>2 DEF ReachableSusps
  <2>9. CASE t \in WaitTokens
    <3>1. PICK u \in Susps : ioWait[u] # 0 /\ t = Token("wait", ioWait[u], u, 0)
      BY <2>9 DEF WaitTokens, WaitToken
    <3>2. u = s
      BY <2>2, <3>1, TokenParts
    <3> QED
      BY <2>3, <3>1, <3>2 DEF Named
  <2>10. CASE t \in PubTokens
    <3>1. pub.pc = "submit" /\ pub.susp = s
      BY <2>2, <2>10, TokenParts DEF PubTokens
    <3> QED
      BY <2>3, <3>1 DEF Named, Types, WakerTypes
  <2>11. CASE t \in ReaderTokens
    <3>1. reader.pc = "submit" /\ reader.susp = s
      BY <2>2, <2>11, TokenParts DEF ReaderTokens
    <3> QED
      BY <2>3, <3>1 DEF Named, Types, WakerTypes
  <2> QED
    BY <2>4, <2>5, <2>6, <2>7, <2>8, <2>9, <2>10, <2>11 DEF AllTokens
<1> QED
  BY <1>1, Invariance, PTL
=============================================================================
