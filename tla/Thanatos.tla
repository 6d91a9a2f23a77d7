----------------------------- MODULE Thanatos -----------------------------
(***************************************************************************)
(* The runtime of the native reducer (consumers/thanatos/runtime/thanatos.c)*)
(* and the worker loop it drives (workerLoop in platform/arena.c): clients *)
(* call thanatos_reduce, workers reduce and park, the dispatcher hands     *)
(* completions back, the pump and the stdin thread serve program I/O.      *)
(*                                                                         *)
(* The rings are FIFO queues here: module Ring shows what they promise.    *)
(* A term is abstracted to the script of what its reduction still does:    *)
(*   "walk"  a machine iteration that consumes gas only,                   *)
(*   "step"  a contraction, which also consumes the step budget,           *)
(*   "read"  READ_ONE on the stdin ring,  "write" WRITE_ONE on the stdout  *)
(*   ring,  "eof" READ_ONE past the end of the file of a REDUCE_FILE.      *)
(* The empty script is a normal form.                                      *)
(***************************************************************************)
EXTENDS Naturals, Sequences, FiniteSets

CONSTANTS Clients,    \* threads that call thanatos_reduce
          Workers,    \* threads that run workerLoop
          Slots,      \* number of pending request slots, MAX_PENDING_REQS
          Susps,      \* the suspensions of the control pool, with their continuations
          SqCapacity, CqCapacity, StdinCapacity, StdoutCapacity,
          Gas,        \* machine iterations of one batch, ARENA_STEP_GAS
          Programs,   \* the scripts clients reduce
          Budgets,    \* the max_steps they pass
          Unlimited,  \* the max_steps that stands for no limit, 0xffffffff
          WithPump,   \* thanatos_start_threads(enable_stdout_pump)
          WithStdin,  \* a runtime stdin source is open
          MaxRequests \* bound: calls of thanatos_reduce

Ops == {"walk", "step", "read", "write", "eof"}

ASSUME SizesAssumption ==
  /\ Slots \in Nat \ {0}
  /\ SqCapacity \in Nat \ {0}
  /\ CqCapacity \in Nat \ {0}
  /\ StdinCapacity \in Nat \ {0}
  /\ StdoutCapacity \in Nat \ {0}
  /\ Gas \in Nat \ {0}
  /\ Unlimited \in Nat
  /\ MaxRequests \in Nat
ASSUME InputsAssumption ==
  /\ Programs \subseteq Seq(Ops)
  /\ Budgets \subseteq 0 .. Unlimited
  /\ WithPump \in BOOLEAN
  /\ WithStdin \in BOOLEAN

CONSTANTS Pump, NoOne, NoSusp   \* the pump thread; nobody; no suspension
ASSUME NamesAssumption ==
  /\ Pump \notin Clients
  /\ NoOne \notin Clients \cup {Pump}
  /\ NoSusp \notin Susps
  /\ Susps \cap (Programs \cup {<<>>}) = {}   \* is_control_ptr tells them apart

VARIABLES nextReq,   \* next_req_id
          pending,   \* pending_reqs: [req, node, event, done] of each slot
          held,      \* the slots whose mutex a client holds across steps
          client,    \* local state of each thanatos_reduce call
          sq, cq,    \* submission and completion queue
          worker,    \* local state of each worker
          susp,      \* the control pool
          stdin,     \* bytes in the stdin ring
          stdout,    \* the stdout ring; a byte is the request that wrote it
          stdinWait, stdoutWait,   \* rings of parked suspensions
          ioWait,    \* io_wait_map: suspension -> request id, 0 if absent
          demand,    \* stdin_demand_count
          reader,    \* the stdin thread
          pumpWake,  \* pump_wakeup_pending
          pumpPc,    \* the pump thread, outside publication
          pub,       \* the holder of stdout_publish_mutex and what it does
          disp,      \* the dispatcher
          dropped    \* dispatcher_dropped

clientVars == <<nextReq, pending, held, client>>
ioVars     == <<stdinWait, stdoutWait, ioWait, demand, reader>>
outVars    == <<pumpWake, pumpPc, pub>>
dispVars   == <<disp, dropped>>
vars == <<clientVars, sq, cq, worker, susp, stdin, stdout, ioVars, outVars, dispVars>>

Requests == 1 .. MaxRequests
FreeSlot == [req |-> 0, node |-> <<>>, event |-> "DONE", done |-> FALSE]
FreeSusp == [status |-> "FREE", reason |-> "NONE", rest |-> <<>>, left |-> 0]
IdleClient == [pc |-> "idle", req |-> 0, slot |-> 0, node |-> <<>>,
               steps |-> 0, budget |-> 0]
IdleWorker == [pc |-> "take", req |-> 0, rest |-> <<>>, left |-> 0,
               gas |-> 0, node |-> NoSusp]
NoPub == [by |-> NoOne, pc |-> "pop", susp |-> NoSusp, req |-> 0]

Init ==
  /\ nextReq = 1
  /\ pending = [i \in 1 .. Slots |-> FreeSlot]
  /\ held = {}
  /\ client = [c \in Clients |-> IdleClient]
  /\ sq = <<>>
  /\ cq = <<>>
  /\ worker = [w \in Workers |-> IdleWorker]
  /\ susp = [s \in Susps |-> FreeSusp]
  /\ stdin = 0
  /\ stdout = <<>>
  /\ stdinWait = <<>>
  /\ stdoutWait = <<>>
  /\ ioWait = [s \in Susps |-> 0]
  /\ demand = 0
  /\ reader = [pc |-> "wait", susp |-> NoSusp, req |-> 0]
  /\ pumpWake = FALSE
  /\ pumpPc = IF WithPump THEN "try" ELSE "off"
  /\ pub = NoPub
  /\ disp = [pc |-> "take", cqe |-> [req |-> 0, node |-> <<>>, event |-> "DONE"]]
  /\ dropped = 0

-----------------------------------------------------------------------------
(* Fault: a submission that succeeded is repeated.                         *)
SubmitTwice(req, node, steps) ==
  /\ Len(sq) + 1 < SqCapacity
  /\ LET sqe == [req |-> req, node |-> node, steps |-> steps] IN sq' = sq \o <<sqe, sqe>>

(* hostSubmit, retried until it succeeds.                                  *)
Submit(req, node, steps) ==
  /\ Len(sq) < SqCapacity
  /\ sq' = Append(sq, [req |-> req, node |-> node, steps |-> steps])

-----------------------------------------------------------------------------
(* Clients: thanatos_reduce.                                               *)

Call(c) ==
  /\ client[c].pc = "idle"
  /\ nextReq <= MaxRequests
  /\ \E p \in Programs, b \in Budgets :
       client' = [client EXCEPT ![c] = [pc |-> "acquire", req |-> nextReq, slot |-> 0,
                                        node |-> p, steps |-> b, budget |-> b]]
  /\ nextReq' = nextReq + 1
  /\ UNCHANGED <<pending, held, sq, cq, worker, susp, stdin, stdout,
                 ioVars, outVars, dispVars>>

(* The first free slot is taken; without one the client waits on           *)
(* pending_req_cvar.  The scan locks each slot it looks at.                *)
AcquireSlot(c) ==
  /\ client[c].pc = "acquire"
  /\ \/ \E i \in 1 .. Slots :
          /\ pending[i].req = 0
          /\ \A j \in 1 .. i - 1 : pending[j].req # 0
          /\ held \cap 1 .. i = {}
          /\ pending' = [pending EXCEPT ![i].req = client[c].req,
                                        ![i].done = FALSE]
          /\ client' = [client EXCEPT ![c].pc = "submit", ![c].slot = i]
     \/ /\ \A i \in 1 .. Slots : pending[i].req # 0
        /\ held = {}
        /\ client' = [client EXCEPT ![c].pc = "slotWait"]
        /\ UNCHANGED pending
  /\ UNCHANGED <<nextReq, held, sq, cq, worker, susp, stdin, stdout,
                 ioVars, outVars, dispVars>>

ClientSubmit(c) ==
  /\ client[c].pc = "submit"
  /\ Submit(client[c].req, client[c].node, client[c].steps)
  /\ client' = [client EXCEPT ![c].pc = "await", ![c].steps = 0]
  /\ UNCHANGED <<nextReq, pending, held, cq, worker, susp, stdin, stdout,
                 ioVars, outVars, dispVars>>

(* A limited reduction that has used its whole budget is returned parked.  *)
BudgetExhausted(c, node, event) ==
  /\ event = "YIELD"
  /\ client[c].budget # Unlimited
  /\ node \in Susps
  /\ susp[node].reason = "STEP_LIMIT"
  /\ susp[node].left = 0

(* The client has the event of its slot.  For IO_WAIT it keeps the slot's  *)
(* mutex while it enters the suspension in io_wait_map (the first free     *)
(* entry; a suspension is never in it twice) and until AfterRegister.      *)
Completion(c) ==
  /\ client[c].pc = "await"
  /\ LET i     == client[c].slot
         node  == pending[i].node
         event == pending[i].event
     IN  /\ pending[i].done
         /\ \/ /\ event = "DONE" \/ BudgetExhausted(c, node, event)
               /\ client' = [client EXCEPT ![c].pc = "release"]
               /\ UNCHANGED <<pending, held, ioWait>>
            \/ /\ event = "IO_WAIT"
               /\ ioWait' = [ioWait EXCEPT ![node] = client[c].req]
               /\ held' = held \cup {i}
               /\ client' = [client EXCEPT ![c].pc = "registered"]
               /\ UNCHANGED pending
            \/ /\ event = "YIELD" /\ ~ BudgetExhausted(c, node, event)
               /\ pending' = [pending EXCEPT ![i].done = FALSE]
               /\ client' = [client EXCEPT ![c].pc = "submit", ![c].node = node]
               /\ UNCHANGED <<held, ioWait>>
            \/ /\ event = "ERROR"
               /\ client' = [client EXCEPT ![c].pc = "releaseError"]
               /\ UNCHANGED <<pending, held, ioWait>>
  /\ UNCHANGED <<nextReq, sq, cq, worker, susp, stdin, stdout, stdinWait,
                 stdoutWait, demand, reader, outVars, dispVars>>

(* Reads the reason of the suspension, which a waker may already have      *)
(* resumed, then clears done and unlocks the slot.                         *)
AfterRegister(c) ==
  /\ client[c].pc = "registered"
  /\ LET i == client[c].slot
         isStdin == susp[pending[i].node].reason = "STDIN"
     IN  /\ pending' = [pending EXCEPT ![i].done = FALSE]
         /\ held' = held \ {i}
         /\ client' = [client EXCEPT ![c].pc =
                         IF isStdin /\ WithStdin THEN "demand" ELSE "await"]
  /\ UNCHANGED <<nextReq, sq, cq, worker, susp, stdin, stdout,
                 ioVars, outVars, dispVars>>

(* Fault: the demand is a flag and not a count.                            *)
RaiseDemandFlag(c) ==
  /\ client[c].pc = "demand"
  /\ demand' = 1
  /\ client' = [client EXCEPT ![c].pc = "await"]
  /\ UNCHANGED <<nextReq, pending, held, sq, cq, worker, susp, stdin, stdout,
                 stdinWait, stdoutWait, ioWait, reader, outVars, dispVars>>

RaiseDemand(c) ==
  /\ client[c].pc = "demand"
  /\ demand' = demand + 1
  /\ client' = [client EXCEPT ![c].pc = "await"]
  /\ UNCHANGED <<nextReq, pending, held, sq, cq, worker, susp, stdin, stdout,
                 stdinWait, stdoutWait, ioWait, reader, outVars, dispVars>>

(* release_pending_req_slot frees the slot and signals one waiting client. *)
(* After a completion the client goes on to drain stdout.                  *)
ReleaseSlot(c) ==
  /\ client[c].pc \in {"release", "releaseError"}
  /\ client[c].slot \notin held
  /\ pending' = [pending EXCEPT ![client[c].slot] = FreeSlot]
  /\ LET waiting == {d \in Clients : client[d].pc = "slotWait"}
         leave   == IF client[c].pc = "release"
                      THEN [client[c] EXCEPT !.pc = "drain", !.slot = 0]
                      ELSE IdleClient
     IN  \/ /\ waiting = {}
            /\ client' = [client EXCEPT ![c] = leave]
         \/ \E d \in waiting :
              client' = [client EXCEPT ![c] = leave, ![d].pc = "acquire"]
  /\ UNCHANGED <<nextReq, held, sq, cq, worker, susp, stdin, stdout,
                 ioVars, outVars, dispVars>>

-----------------------------------------------------------------------------
(* Workers: workerLoop, step_iterative, park and resume.                   *)

(* What is left of a saved script when it is resumed.  Reading a file, the *)
(* whole of it.  Otherwise step_once_with_links clears the frames: only    *)
(* the subterm the worker was parked in is reduced on, and the script may  *)
(* end early.  A read or write that was waited for is done in any case,    *)
(* and a used-up budget parks again before the frames are touched.         *)
Resumable(s) ==
  LET rest  == susp[s].rest
      whole == susp[s].reason = "STEP_LIMIT" \/ \E k \in DOMAIN rest : rest[k] = "eof"
      least == IF susp[s].reason = "GAS" THEN 0 ELSE 1
  IN  IF whole THEN {rest} ELSE {SubSeq(rest, 1, k) : k \in least .. Len(rest)}

Dequeue(w) ==
  /\ worker[w].pc = "take"
  /\ sq # <<>>
  /\ sq' = Tail(sq)
  /\ LET job    == Head(sq)
         parked == job.node \in Susps /\ susp[job.node].status = "PARKED"
     IN  \/ /\ job.node \notin Susps
            /\ worker' = [worker EXCEPT ![w] = [IdleWorker EXCEPT
                            !.pc = "loop", !.req = job.req, !.rest = job.node,
                            !.left = job.steps]]
            /\ UNCHANGED susp
         \/ /\ parked    \* resume_worker_state; job.steps is ignored
            /\ \E rest \in Resumable(job.node) :
                 worker' = [worker EXCEPT ![w] = [IdleWorker EXCEPT
                              !.pc = "loop", !.req = job.req, !.rest = rest,
                              !.left = susp[job.node].left]]
            /\ susp' = [susp EXCEPT ![job.node] = FreeSusp]
         \/ /\ job.node \in Susps /\ ~ parked
            /\ worker' = [worker EXCEPT ![w] = [IdleWorker EXCEPT
                            !.pc = "postError", !.req = job.req, !.node = job.node]]
            /\ UNCHANGED susp
  /\ UNCHANGED <<clientVars, cq, stdin, stdout, ioVars, outVars, dispVars>>

(* park_worker_state: with the pool empty the caller retries.              *)
Park(w, reason, next) ==
  \E s \in Susps :
    /\ susp[s].status = "FREE"
    /\ susp' = [susp EXCEPT ![s] = [status |-> "PARKED", reason |-> reason,
                                    rest |-> worker[w].rest,
                                    left |-> worker[w].left]]
    /\ worker' = [worker EXCEPT ![w] = [IdleWorker EXCEPT
                    !.pc = next, !.req = worker[w].req, !.node = s]]

(* The head of the inner loop: an empty budget parks even a normal form;   *)
(* otherwise a batch starts, and a term it leaves unchanged is done.       *)
StartBatch(w) ==
  /\ worker[w].pc = "loop"
  /\ \/ /\ worker[w].left = 0
        /\ Park(w, "STEP_LIMIT", "post")
     \/ /\ worker[w].left > 0
        /\ worker' = [worker EXCEPT ![w].pc = IF worker[w].rest = <<>>
                                                THEN "postDone" ELSE "run",
                                    ![w].gas = Gas]
        /\ UNCHANGED susp
  /\ UNCHANGED <<clientVars, sq, cq, stdin, stdout, ioVars, outVars, dispVars>>

(* One iteration of step_iterative on operation op: out of gas parks       *)
(* first, then out of budget.                                              *)
OutOfGas(w) ==
  /\ worker[w].pc = "run"
  /\ worker[w].rest # <<>>
  /\ worker[w].gas = 0
  /\ Park(w, "GAS", "post")
  /\ UNCHANGED <<clientVars, sq, cq, stdin, stdout, ioVars, outVars, dispVars>>

Runs(w, op) == /\ worker[w].pc = "run"
               /\ worker[w].rest # <<>>
               /\ worker[w].gas > 0
               /\ Head(worker[w].rest) = op

OutOfBudget(w) ==
  /\ \E op \in Ops \ {"walk"} : Runs(w, op)
  /\ worker[w].left = 0
  /\ Park(w, "STEP_LIMIT", "post")
  /\ UNCHANGED <<clientVars, sq, cq, stdin, stdout, ioVars, outVars, dispVars>>

(* The operation is over: the batch ends with the script.                  *)
Advance(w, cost) ==
  worker' = [worker EXCEPT ![w].rest = Tail(@),
                           ![w].left = @ - cost,
                           ![w].gas = IF Len(worker[w].rest) = 1 THEN 0 ELSE @ - 1,
                           ![w].pc = IF Len(worker[w].rest) = 1 THEN "loop" ELSE @]

Walk(w) ==
  /\ Runs(w, "walk")
  /\ Advance(w, 0)
  /\ UNCHANGED <<clientVars, sq, cq, susp, stdin, stdout, ioVars, outVars, dispVars>>

Contract(w) ==
  /\ Runs(w, "step")
  /\ worker[w].left > 0
  /\ Advance(w, 1)
  /\ UNCHANGED <<clientVars, sq, cq, susp, stdin, stdout, ioVars, outVars, dispVars>>

(* With the pool empty a READ_ONE or WRITE_ONE that should wait tries again *)
(* until its gas is used up.                                               *)
RetryIo(w) == /\ \A s \in Susps : susp[s].status # "FREE"
              /\ worker' = [worker EXCEPT ![w].gas = @ - 1]
              /\ UNCHANGED susp

ReadOne(w) ==
  /\ Runs(w, "read")
  /\ worker[w].left > 0
  /\ \/ /\ stdin > 0
        /\ stdin' = stdin - 1
        /\ Advance(w, 1)
        /\ UNCHANGED susp
     \/ /\ stdin = 0
        /\ Park(w, "STDIN", "wait") \/ RetryIo(w)
        /\ UNCHANGED stdin
  /\ UNCHANGED <<clientVars, sq, cq, stdout, ioVars, outVars, dispVars>>

WriteOne(w) ==
  /\ Runs(w, "write")
  /\ worker[w].left > 0
  /\ \/ /\ Len(stdout) < StdoutCapacity
        /\ stdout' = Append(stdout, worker[w].req)
        /\ Advance(w, 1)
        /\ UNCHANGED susp
     \/ /\ Len(stdout) = StdoutCapacity
        /\ Park(w, "STDOUT", "wait") \/ RetryIo(w)
        /\ UNCHANGED stdout
  /\ UNCHANGED <<clientVars, sq, cq, stdin, ioVars, outVars, dispVars>>

EndOfFile(w) ==
  /\ Runs(w, "eof")
  /\ worker[w].left > 0
  /\ Park(w, "IO_EOF", "post")
  /\ UNCHANGED <<clientVars, sq, cq, stdin, stdout, ioVars, outVars, dispVars>>

(* maybe_park_io_wait queues the suspension for a waker before the client  *)
(* can hear of it.  The waiter rings hold more entries than the pool has.  *)
QueueWaiter(w) ==
  /\ worker[w].pc = "wait"
  /\ LET s == worker[w].node
     IN  IF susp[s].reason = "STDIN"
           THEN /\ stdinWait' = Append(stdinWait, s)
                /\ UNCHANGED stdoutWait
           ELSE /\ stdoutWait' = Append(stdoutWait, s)
                /\ UNCHANGED stdinWait
  /\ worker' = [worker EXCEPT ![w].pc = "post"]
  /\ UNCHANGED <<clientVars, sq, cq, susp, stdin, stdout, ioWait, demand,
                 reader, outVars, dispVars>>

(* Fault: a wait for input taken for a failure.                            *)
EventOfFailedRead(reason) == CASE reason = "STDOUT" -> "IO_WAIT"
                               [] reason \in {"STDIN", "IO_EOF"} -> "ERROR"
                               [] OTHER -> "YIELD"

(* The completion event of a parked reduction, from its reason.            *)
EventOf(reason) == CASE reason \in {"STDIN", "STDOUT"} -> "IO_WAIT"
                     [] reason = "IO_EOF" -> "ERROR"
                     [] OTHER -> "YIELD"

Post(w) ==
  /\ Len(cq) < CqCapacity
  /\ LET me == worker[w]
         cqe(node, event) == [req |-> me.req, node |-> node, event |-> event]
     IN  \/ /\ me.pc = "post"
            /\ cq' = Append(cq, cqe(me.node, EventOf(susp[me.node].reason)))
         \/ /\ me.pc = "postDone"
            /\ cq' = Append(cq, cqe(<<>>, "DONE"))
         \/ /\ me.pc = "postError"
            /\ cq' = Append(cq, cqe(me.node, "ERROR"))
  /\ worker' = [worker EXCEPT ![w] = IdleWorker]
  /\ UNCHANGED <<clientVars, sq, susp, stdin, stdout, ioVars, outVars, dispVars>>

-----------------------------------------------------------------------------
(* The dispatcher: dispatcher_thread_main.                                 *)

DispatcherTake ==
  /\ disp.pc = "take"
  /\ cq # <<>>
  /\ cq' = Tail(cq)
  /\ disp' = [pc |-> "deliver", cqe |-> Head(cq)]
  /\ UNCHANGED <<clientVars, sq, worker, susp, stdin, stdout, ioVars, outVars, dropped>>

(* Fault: any slot that is not done is taken for the request's.            *)
AwaitsAnything(i, req) == ~ pending[i].done
Awaits(i, req) == pending[i].req = req /\ ~ pending[i].done

(* Fault: the scan ignores that a client holds the mutex of its slot.      *)
DeliverUnlocked ==
  /\ disp.pc = "deliver"
  /\ LET cqe == disp.cqe
         slots == {i \in 1 .. Slots : Awaits(i, cqe.req)}
     IN  /\ pending' = [i \in 1 .. Slots |-> IF i \in slots
              THEN [req |-> cqe.req, node |-> cqe.node, event |-> cqe.event, done |-> TRUE]
              ELSE pending[i]]
         /\ dropped' = IF slots = {} THEN dropped + 1 ELSE dropped
  /\ disp' = [disp EXCEPT !.pc = "wakePump"]
  /\ UNCHANGED <<nextReq, held, client, sq, cq, worker, susp, stdin, stdout,
                 ioVars, outVars>>

(* The scan locks the slots one after the other.                           *)
Deliver ==
  /\ disp.pc = "deliver"
  /\ LET cqe == disp.cqe
     IN  \/ \E i \in 1 .. Slots :
              /\ Awaits(i, cqe.req)
              /\ held \cap 1 .. i = {}
              /\ pending' = [pending EXCEPT ![i] =
                   [req |-> cqe.req, node |-> cqe.node, event |-> cqe.event, done |-> TRUE]]
              /\ UNCHANGED dropped
         \/ /\ \A i \in 1 .. Slots : ~ Awaits(i, cqe.req)
            /\ held = {}
            /\ dropped' = dropped + 1
            /\ UNCHANGED pending
  /\ disp' = [disp EXCEPT !.pc = "wakePump"]
  /\ UNCHANGED <<nextReq, held, client, sq, cq, worker, susp, stdin, stdout,
                 ioVars, outVars>>

WakePump ==
  /\ disp.pc = "wakePump"
  /\ pumpWake' = TRUE
  /\ disp' = [pc |-> "take", cqe |-> [req |-> 0, node |-> <<>>, event |-> "DONE"]]
  /\ UNCHANGED <<clientVars, sq, cq, worker, susp, stdin, stdout, ioVars,
                 pumpPc, pub, dropped>>

-----------------------------------------------------------------------------
(* Publication of stdout, by the pump or by a client that drains: all of   *)
(* it under stdout_publish_mutex.                                          *)

Publishes(x) == IF x = Pump THEN pumpPc = "try" ELSE client[x].pc = "drain"

(* Fault: a client that finds the ring empty returns without the lock.     *)
PopStdoutUnlocked(x) ==
  /\ Publishes(x)
  /\ \/ /\ stdout # <<>>
        /\ pub.by = NoOne \/ (pub.by = x /\ pub.pc = "pop")
        /\ stdout' = Tail(stdout)
        /\ pub' = [NoPub EXCEPT !.by = x, !.pc = "take", !.req = Head(stdout)]
        /\ UNCHANGED <<pumpPc, client>>
     \/ /\ stdout = <<>>
        /\ IF x = Pump
             THEN pub.by = NoOne /\ pumpPc' = "doze" /\ UNCHANGED <<client, pub>>
             ELSE /\ client' = [client EXCEPT ![x] = IdleClient]
                  /\ pub' = IF pub.by = x THEN NoPub ELSE pub
                  /\ UNCHANGED pumpPc
        /\ UNCHANGED stdout
  /\ UNCHANGED <<nextReq, pending, held, sq, cq, worker, susp, stdin, ioVars,
                 pumpWake, dispVars>>

(* A byte is taken out of the ring, to be published in the next step.  The *)
(* lock is released: the pump after each byte, a client when the ring is   *)
(* empty, which ends its call.                                             *)
PopStdout(x) ==
  /\ Publishes(x)
  /\ \/ pub.by = NoOne
     \/ pub.by = x /\ pub.pc = "pop"
  /\ \/ /\ stdout # <<>>
        /\ stdout' = Tail(stdout)
        /\ pub' = [NoPub EXCEPT !.by = x, !.pc = "take", !.req = Head(stdout)]
        /\ UNCHANGED <<pumpPc, client>>
     \/ /\ stdout = <<>>
        /\ pub' = NoPub
        /\ IF x = Pump
             THEN pumpPc' = "doze" /\ UNCHANGED client
             ELSE client' = [client EXCEPT ![x] = IdleClient] /\ UNCHANGED pumpPc
        /\ UNCHANGED stdout
  /\ UNCHANGED <<nextReq, pending, held, sq, cq, worker, susp, stdin, ioVars,
                 pumpWake, dispVars>>

Published(x) == IF x = Pump THEN NoPub ELSE [NoPub EXCEPT !.by = x]

(* The byte goes to the handler.  wake_one_stdout_waiter: one waiter,      *)
(* looked up in io_wait_map; a waiter that is not registered is forgotten. *)
TakeStdoutWaiter(x) ==
  /\ pub.by = x /\ pub.pc = "take"
  /\ \/ /\ stdoutWait = <<>>
        /\ pub' = Published(x)
        /\ UNCHANGED stdoutWait
     \/ /\ stdoutWait # <<>>
        /\ stdoutWait' = Tail(stdoutWait)
        /\ pub' = [pub EXCEPT !.pc = "remove", !.susp = Head(stdoutWait), !.req = 0]
  /\ UNCHANGED <<clientVars, sq, cq, worker, susp, stdin, stdout, stdinWait,
                 ioWait, demand, reader, pumpWake, pumpPc, dispVars>>

(* Fault: the entry stays in io_wait_map.                                  *)
RemoveStdoutWaiterKeep(x) ==
  /\ pub.by = x /\ pub.pc = "remove"
  /\ pub' = IF ioWait[pub.susp] = 0
              THEN Published(x)
              ELSE [pub EXCEPT !.pc = "submit", !.req = ioWait[pub.susp]]
  /\ UNCHANGED <<clientVars, sq, cq, worker, susp, stdin, stdout, ioVars,
                 pumpWake, pumpPc, dispVars>>

RemoveStdoutWaiter(x) ==
  /\ pub.by = x /\ pub.pc = "remove"
  /\ pub' = IF ioWait[pub.susp] = 0
              THEN Published(x)
              ELSE [pub EXCEPT !.pc = "submit", !.req = ioWait[pub.susp]]
  /\ ioWait' = [ioWait EXCEPT ![pub.susp] = 0]
  /\ UNCHANGED <<clientVars, sq, cq, worker, susp, stdin, stdout, stdinWait,
                 stdoutWait, demand, reader, pumpWake, pumpPc, dispVars>>

ResumeWriter(x) ==
  /\ pub.by = x /\ pub.pc = "submit"
  /\ Submit(pub.req, pub.susp, 0)
  /\ pub' = Published(x)
  /\ UNCHANGED <<clientVars, cq, worker, susp, stdin, stdout, ioVars,
                 pumpWake, pumpPc, dispVars>>

PumpDoze ==
  /\ pumpPc = "doze"
  /\ pumpWake
  /\ pumpWake' = FALSE
  /\ pumpPc' = "try"
  /\ UNCHANGED <<clientVars, sq, cq, worker, susp, stdin, stdout, ioVars,
                 pub, dispVars>>

-----------------------------------------------------------------------------
(* The stdin thread: stdin_thread_main.  The input never ends: a regular   *)
(* file at its end is polled until more is appended.                       *)

ReaderWait ==
  /\ WithStdin
  /\ reader.pc = "wait"
  /\ demand > 0
  /\ demand' = demand - 1
  /\ reader' = [reader EXCEPT !.pc = "push"]
  /\ UNCHANGED <<clientVars, sq, cq, worker, susp, stdin, stdout, stdinWait,
                 stdoutWait, ioWait, outVars, dispVars>>

ReaderPush ==
  /\ reader.pc = "push"
  /\ stdin < StdinCapacity
  /\ stdin' = stdin + 1
  /\ reader' = [reader EXCEPT !.pc = "take"]
  /\ UNCHANGED <<clientVars, sq, cq, worker, susp, stdout, stdinWait,
                 stdoutWait, ioWait, demand, outVars, dispVars>>

ReaderTake ==
  /\ reader.pc = "take"
  /\ \/ /\ stdinWait = <<>>
        /\ reader' = [reader EXCEPT !.pc = "wait"]
        /\ UNCHANGED stdinWait
     \/ /\ stdinWait # <<>>
        /\ stdinWait' = Tail(stdinWait)
        /\ reader' = [reader EXCEPT !.pc = "remove", !.susp = Head(stdinWait)]
  /\ UNCHANGED <<clientVars, sq, cq, worker, susp, stdin, stdout, stdoutWait,
                 ioWait, demand, outVars, dispVars>>

ReaderRemove ==
  /\ reader.pc = "remove"
  /\ reader' = IF ioWait[reader.susp] = 0
                 THEN [pc |-> "wait", susp |-> NoSusp, req |-> 0]
                 ELSE [reader EXCEPT !.pc = "submit", !.req = ioWait[reader.susp]]
  /\ ioWait' = [ioWait EXCEPT ![reader.susp] = 0]
  /\ UNCHANGED <<clientVars, sq, cq, worker, susp, stdin, stdout, stdinWait,
                 stdoutWait, demand, outVars, dispVars>>

ResumeReader ==
  /\ reader.pc = "submit"
  /\ Submit(reader.req, reader.susp, 0)
  /\ reader' = [pc |-> "wait", susp |-> NoSusp, req |-> 0]
  /\ UNCHANGED <<clientVars, cq, worker, susp, stdin, stdout, stdinWait,
                 stdoutWait, ioWait, demand, outVars, dispVars>>

-----------------------------------------------------------------------------
ClientStep(c) ==
  \/ AcquireSlot(c) \/ ClientSubmit(c) \/ Completion(c) \/ AfterRegister(c)
  \/ RaiseDemand(c) \/ ReleaseSlot(c)

WorkerStep(w) ==
  \/ Dequeue(w) \/ StartBatch(w) \/ OutOfGas(w) \/ OutOfBudget(w) \/ Walk(w)
  \/ Contract(w) \/ ReadOne(w) \/ WriteOne(w) \/ EndOfFile(w)
  \/ QueueWaiter(w) \/ Post(w)

Dispatcher == DispatcherTake \/ Deliver \/ WakePump

PublishStep(x) == PopStdout(x) \/ TakeStdoutWaiter(x) \/ RemoveStdoutWaiter(x)
                    \/ ResumeWriter(x)

StdinThread == ReaderWait \/ ReaderPush \/ ReaderTake \/ ReaderRemove \/ ResumeReader

Next == \/ \E c \in Clients : Call(c) \/ ClientStep(c)
        \/ \E w \in Workers : WorkerStep(w)
        \/ Dispatcher
        \/ \E x \in Clients \cup {Pump} : PublishStep(x)
        \/ PumpDoze
        \/ StdinThread

Spec == Init /\ [][Next]_vars

(* Every thread of the runtime runs while it can; mutexes are fair enough  *)
(* that a thread which can take one again and again does take it.          *)
Fairness == /\ \A c \in Clients : WF_vars(ClientStep(c))
            /\ \A w \in Workers : WF_vars(WorkerStep(w))
            /\ WF_vars(Dispatcher)
            /\ \A x \in Clients \cup {Pump} : SF_vars(PublishStep(x))
            /\ WF_vars(PumpDoze)
            /\ WF_vars(StdinThread)

FairSpec == Spec /\ Fairness

-----------------------------------------------------------------------------
Events == {"DONE", "YIELD", "IO_WAIT", "ERROR"}

(* Types and local bookkeeping: queues within their capacities, a done     *)
(* slot has an owner, a client's slot is its own, and a worker about to    *)
(* post a suspension holds one that is parked.                             *)
TypeOK ==
  /\ nextReq \in 1 .. MaxRequests + 1
  /\ \A i \in 1 .. Slots : /\ pending[i].req \in 0 .. MaxRequests
                           /\ pending[i].event \in Events
                           /\ pending[i].done \in BOOLEAN
                           /\ pending[i].done => pending[i].req # 0
  /\ held \subseteq 1 .. Slots
  /\ \A c \in Clients : client[c].slot # 0 => pending[client[c].slot].req = client[c].req
  /\ Len(sq) <= SqCapacity
  /\ Len(cq) <= CqCapacity
  /\ \A w \in Workers : /\ worker[w].left \in 0 .. Unlimited
                        /\ worker[w].gas \in 0 .. Gas
                        /\ worker[w].pc \in {"wait", "post"} =>
                             susp[worker[w].node].status = "PARKED"
  /\ stdin \in 0 .. StdinCapacity
  /\ Len(stdout) <= StdoutCapacity
  /\ ioWait \in [Susps -> 0 .. MaxRequests]
  /\ demand \in Nat
  /\ pub.by \in Clients \cup {Pump, NoOne}
  /\ dropped \in Nat

(* ---- where the one continuation of a request can be ---- *)
Count(S) == Cardinality(S)
Active == {client[c].req : c \in {d \in Clients : client[d].slot # 0}}

Tokens(r) ==
  Count({c \in Clients : client[c].req = r /\ client[c].pc = "submit"})
  + Count({k \in DOMAIN sq : sq[k].req = r})
  + Count({w \in Workers : worker[w].req = r})
  + Count({k \in DOMAIN cq : cq[k].req = r})
  + (IF disp.pc = "deliver" /\ disp.cqe.req = r THEN 1 ELSE 0)
  + Count({i \in (1 .. Slots) \ held : pending[i].req = r /\ pending[i].done})
  + Count({s \in Susps : ioWait[s] = r})
  + (IF pub.pc = "submit" /\ pub.req = r THEN 1 ELSE 0)
  + (IF reader.pc = "submit" /\ reader.req = r THEN 1 ELSE 0)

(* A request is in exactly one place from the moment it has a slot until   *)
(* its client gives the slot back: it is never run twice at once, and no   *)
(* hand-over between client, worker, dispatcher and waker loses it.        *)
OneTokenPerRequest == \A r \in Requests : Tokens(r) = (IF r \in Active THEN 1 ELSE 0)

(* The dispatcher finds a slot for every completion: a client never        *)
(* resubmits, nor lets a waker resubmit, before its slot is ready for the  *)
(* next event.                                                             *)
NoDroppedEvents == dropped = 0

(* A suspension is resumed while it is still parked, by one worker.        *)
NoFailedResume == \A w \in Workers : worker[w].pc # "postError"

(* io_wait_register finds no older entry of the same suspension, so that   *)
(* a waker's look-up names the request that waits now.                     *)
RegistersOnce ==
  \A c \in Clients :
    client[c].pc = "await" =>
      LET p == pending[client[c].slot]
      IN  p.done /\ p.event = "IO_WAIT" => ioWait[p.node] = 0

(* A parked suspension is the state of one active request: none is left    *)
(* allocated in the pool when the request is over.                         *)
ReachableSusps ==
  {sq[k].node : k \in DOMAIN sq} \cup {cq[k].node : k \in DOMAIN cq}
  \cup {worker[w].node : w \in Workers}
  \cup {pending[i].node : i \in {j \in 1 .. Slots : pending[j].req # 0}}
  \cup (IF disp.pc = "deliver" THEN {disp.cqe.node} ELSE {})
NoLeakedSuspension ==
  \A s \in Susps : susp[s].status = "PARKED" => s \in ReachableSusps

(* The bytes a request wrote are published before thanatos_reduce returns  *)
(* its result, though pump and clients publish concurrently: a byte in the *)
(* ring, or in the hands of another thread that has popped it and not yet  *)
(* published it, belongs to a call that has not returned.                  *)
OutputBeforeReturn ==
  LET InCall(r) == \E c \in Clients : client[c].req = r
  IN  /\ \A k \in DOMAIN stdout : InCall(stdout[k])
      /\ pub.pc = "take" => InCall(pub.req)

(* ---- when calls return ---- *)
(* A waker has overtaken the client of the waiter it takes: it finds the   *)
(* waiter before the client has entered it in io_wait_map, or it takes the *)
(* entry before the client has read what the wait is for.                  *)
Overtaken ==
  \/ reader.pc = "remove" /\ ioWait[reader.susp] = 0
  \/ pub.pc = "remove" /\ ioWait[pub.susp] = 0
  \/ \E c \in Clients : /\ client[c].pc = "registered"
                        /\ ioWait[pending[client[c].slot].node] # client[c].req

(* A worker that can only park, and tries again until the pool has room.   *)
Spins(w) == \/ worker[w].pc = "loop" /\ worker[w].left = 0
            \/ /\ worker[w].pc = "run" /\ worker[w].rest # <<>>
               /\ \/ worker[w].gas = 0 \/ Head(worker[w].rest) = "eof"
                  \/ worker[w].left = 0 /\ Head(worker[w].rest) # "walk"

(* The pool is used up for good: every suspension was left behind by a     *)
(* call that is over, or no worker is left to resume one.                  *)
PoolExhausted ==
  /\ \A s \in Susps : susp[s].status = "PARKED"
  /\ \/ \A s \in Susps : s \notin ReachableSusps
     \/ \A w \in Workers : Spins(w)

(* Every call of thanatos_reduce returns, while others compete with it for *)
(* slots, queues, workers, suspensions and input, as long as no waker      *)
(* overtakes a client (the run thanatos_lost_waiter shows what happens     *)
(* then) and the pool is not used up for good.  There are MaxRequests      *)
(* calls, so that again and again none is in progress.                     *)
CallsReturn ==
  [](~ Overtaken) => []<>(PoolExhausted \/ \A c \in Clients : client[c].pc = "idle")

(* thanatos.h: "Reduce to normal form (unbounded steps)."  A call without  *)
(* a step limit comes back with the normal form of a term that has one     *)
(* (every script has), however many steps that takes.                      *)
UnlimitedCallsReturn ==
  \A c \in Clients : (client[c].pc # "idle" /\ client[c].budget = Unlimited)
                       ~> (client[c].pc = "idle")

(* No request waits for reason for ever; the calls are finitely many, so   *)
(* that again and again none waits.                                        *)
Resumed(reason) ==
  []<>(\A s \in Susps : ioWait[s] # 0 => susp[s].reason # reason)

(* thanatos.h of a wait for input: "READ_ONE blocks until a byte is        *)
(* available: if none is ready yet, native waits until one arrives";       *)
(* thanatos.c of a wait for room: "Stdout wait: pump will dequeue from     *)
(* stdout_wait and resubmit."  Of the two, one at least is true.           *)
WaitersAreResumed == Resumed("STDIN") \/ Resumed("STDOUT")
=============================================================================
