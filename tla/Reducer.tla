------------------------------ MODULE Reducer ------------------------------
(***************************************************************************)
(* One worker of the native reducer: how workerLoop, step_once_with_links  *)
(* and step_iterative (consumers/thanatos/platform/arena.c) reduce the     *)
(* requests of one session, parking at the end of gas or budget and where  *)
(* program I/O must wait, and how the answer reaches thanatos_reduce.      *)
(*                                                                         *)
(* A request has a step limit below 2^32 - 1 (the bulk contractions of     *)
(* unlimited requests are left out) and is reduced either with the rings   *)
(* and the link cache, or, for REDUCE_FILE, on mapped files without it.    *)
(***************************************************************************)
EXTENDS SKI, Sequences, FiniteSets

CONSTANTS Loaded,      \* the nodes the arena has for the terms of the requests
          Sessions,    \* sequences of requests: [term, budget, file, given, late]
          Gas,         \* machine iterations of one batch, ARENA_STEP_GAS
          OutCapacity, \* capacity of the stdout ring and of the output file
          WithPump     \* the stdout pump runs

ASSUME SizesAssumption == Gas \in Nat \ {0} /\ OutCapacity \in Nat /\ WithPump \in BOOLEAN

AllRequests == UNION {{x[n] : n \in 1 .. Len(x)} : x \in Sessions}
ASSUME SessionsAssumption ==
  /\ \A x \in Sessions : x \in Seq(AllRequests)
  /\ \A r \in AllRequests : r.budget \in Nat /\ r.given \in Seq(Bytes) /\ r.late \in Seq(Bytes)
  /\ {r.term : r \in AllRequests} \subseteq Loaded

(* A loaded application applies loaded nodes.                              *)
Applications == Loaded \ Leaves
ASSUME LoadedAssumption ==
  /\ \A n \in Applications : n = allocCons(n.left, n.right)
  /\ {n.left : n \in Applications} \cup {n.right : n \in Applications} \subseteq Loaded

VARIABLES session,   \* the requests still to come
          req,       \* the request in progress, with the input it can read
          pc,        \* where the request is
          ws,        \* WorkerState: current_val, frames, remaining_steps, mode
          gas,
          batch,     \* locals of workerLoop and step_once_with_links
          links,     \* the link table: a partial function from nodes to nodes
          susp,      \* the parked suspension
          stdin,     \* the stdin ring; in REDUCE_FILE the unread rest of the file
          late,      \* what the runtime stdin source still delivers
          stdout,    \* the stdout ring
          published, \* history: the bytes that have left the program
          outcome,   \* what the last call returned
          spent,     \* history: contractions, reads and writes of the request
          whole,     \* history: no saved frame of the request was dropped
          resumed    \* history: the request was parked and resumed

ioVars   == <<stdin, late, stdout, published>>
histVars == <<spent, whole, resumed>>
vars == <<session, req, pc, ws, gas, batch, links, susp, ioVars, outcome, histVars>>

NoRequest == [term |-> allocTerminal("I"), budget |-> 0, file |-> FALSE,
              given |-> <<>>, late |-> <<>>, input |-> <<>>]
IdleState == [current_val |-> allocTerminal("I"), frames |-> <<>>,
              remaining_steps |-> 0, mode |-> "DESCEND"]
NoBatch == [before |-> allocTerminal("I"), path |-> {}, end |-> allocTerminal("I"),
            cacheable |-> FALSE]
NoSusp == [reason |-> "NONE", ws |-> IdleState]

Init ==
  /\ session \in Sessions
  /\ req = NoRequest
  /\ pc = "idle"
  /\ ws = IdleState
  /\ gas = 0
  /\ batch = NoBatch
  /\ links = [n \in {} |-> n]
  /\ susp = NoSusp
  /\ stdin = <<>>
  /\ late = <<>>
  /\ stdout = <<>>
  /\ published = <<>>
  /\ outcome = [kind |-> "NONE", value |-> allocTerminal("I")]
  /\ spent = 0
  /\ whole = TRUE
  /\ resumed = FALSE

-----------------------------------------------------------------------------
(* The link table: links[n] = m says n reduces to m, links[n] = n that n   *)
(* is a normal form.                                                       *)

(* Where the links lead from start; a cycle ends at the hop limit.         *)
LinkPath(start) ==
  LET hop[k \in Nat] == IF k = 0 THEN start
                        ELSE LET n == hop[k - 1]
                             IN  IF n \in DOMAIN links THEN links[n] ELSE n
  IN  [k \in 0 .. Cardinality(DOMAIN links) |-> hop[k]]

chase_link_path(start) ==
  LET path == LinkPath(start)
      last == path[Cardinality(DOMAIN links)]
  IN  [end       |-> last,
       path      |-> {path[k] : k \in DOMAIN path},
       fixpoint  |-> last \in DOMAIN links /\ links[last] = last,
       truncated |-> last \in DOMAIN links /\ links[last] # last]

(* publish_link_ptr for each of the nodes: a normal form stays one.        *)
publish_link_ptr(nodes, target) ==
  LET kept(n) == n \in DOMAIN links /\ links[n] = n
  IN  links' = [n \in DOMAIN links \cup nodes |->
                  IF n \in nodes /\ ~ kept(n) THEN target ELSE links[n]]

node_has_effectful_top_step(t) ==
  Applied1(t, "READ_ONE") \/ Applied2(t, "WRITE_ONE")

-----------------------------------------------------------------------------
(* The request and its answer.                                             *)

(* REDUCE_IO pushes the given bytes before it reduces; REDUCE_FILE maps    *)
(* them, and leaves the ring alone, which is empty in such a session.      *)
Request ==
  /\ pc = "idle"
  /\ session # <<>>
  /\ LET r     == Head(session)
         bytes == stdin \o r.given
     IN  /\ req' = [term |-> r.term, budget |-> r.budget, file |-> r.file,
                    given |-> r.given, late |-> r.late, input |-> bytes \o r.late]
         /\ ws' = [IdleState EXCEPT !.current_val = r.term, !.remaining_steps = r.budget]
         /\ stdin' = bytes
         /\ late' = r.late
  /\ session' = Tail(session)
  /\ pc' = "loop"
  /\ published' = <<>>
  /\ outcome' = [kind |-> "NONE", value |-> allocTerminal("I")]
  /\ spent' = 0
  /\ whole' = TRUE
  /\ resumed' = FALSE
  /\ UNCHANGED <<gas, batch, links, susp, stdout>>

(* thanatos_reduce returns; unless it failed it drains the stdout ring.    *)
Answer(kind, value) ==
  /\ outcome' = [kind |-> kind, value |-> value]
  /\ pc' = "idle"
  /\ ws' = IdleState
  /\ batch' = NoBatch
  /\ gas' = 0
  /\ IF kind = "ERROR"
       THEN UNCHANGED <<stdout, published>>
       ELSE published' = published \o stdout /\ stdout' = <<>>

Park(reason) ==
  /\ susp' = [reason |-> reason, ws |-> ws]
  /\ ws' = IdleState
  /\ batch' = NoBatch
  /\ gas' = 0
  /\ pc' = "parked"

(* A used-up step limit returns the suspension; input at its end and a     *)
(* full output file fail the call.                                         *)
AnswerParked ==
  /\ pc = "parked"
  /\ \/ susp.reason = "STEP_LIMIT" /\ Answer("PARTIAL", susp.ws.current_val)
     \/ susp.reason \in {"IO_EOF", "IO_ERROR"} /\ Answer("ERROR", NoSusp.ws.current_val)
  /\ susp' = NoSusp
  /\ UNCHANGED <<session, req, links, stdin, late, histVars>>

(* Fault: the steps of the job, not those saved, are what is left.         *)
ResumeWithBudget ==
  /\ pc = "parked"
  /\ \/ susp.reason = "GAS"
     \/ susp.reason = "STDIN" /\ stdin # <<>>
     \/ susp.reason = "STDOUT" /\ Len(stdout) < OutCapacity
  /\ ws' = [susp.ws EXCEPT !.remaining_steps = req.budget]
  /\ susp' = NoSusp
  /\ pc' = "loop"
  /\ resumed' = TRUE
  /\ UNCHANGED <<session, req, gas, batch, links, ioVars, outcome, spent, whole>>

(* The suspension is submitted again: by the client after a gas yield, by  *)
(* the stdin thread or the publisher of stdout after a wait.               *)
Resume ==
  /\ pc = "parked"
  /\ \/ susp.reason = "GAS"
     \/ susp.reason = "STDIN" /\ stdin # <<>>
     \/ susp.reason = "STDOUT" /\ Len(stdout) < OutCapacity
  /\ ws' = susp.ws
  /\ susp' = NoSusp
  /\ pc' = "loop"
  /\ resumed' = TRUE
  /\ UNCHANGED <<session, req, gas, batch, links, ioVars, outcome, spent, whole>>

(* The stdin thread reads one byte for a blocked READ_ONE.                 *)
Arrive ==
  /\ pc = "parked" /\ susp.reason = "STDIN"
  /\ stdin = <<>>
  /\ late # <<>>
  /\ stdin' = <<Head(late)>>
  /\ late' = Tail(late)
  /\ UNCHANGED <<session, req, pc, ws, gas, batch, links, susp, stdout,
                 published, outcome, histVars>>

Publish ==
  /\ WithPump
  /\ stdout # <<>>
  /\ published' = Append(published, Head(stdout))
  /\ stdout' = Tail(stdout)
  /\ UNCHANGED <<session, req, pc, ws, gas, batch, links, susp, stdin, late,
                 outcome, histVars>>

-----------------------------------------------------------------------------
(* The inner loop of workerLoop and step_once_with_links.                  *)

BudgetEmpty ==
  /\ pc = "loop"
  /\ ws.remaining_steps = 0
  /\ Park("STEP_LIMIT")
  /\ UNCHANGED <<session, req, links, ioVars, outcome, histVars>>

StartsBatch == pc = "loop" /\ ws.remaining_steps > 0

(* Mapped files, or a cycle of links: the batch continues the frames.      *)
StartPlain ==
  /\ StartsBatch
  /\ req.file \/ chase_link_path(ws.current_val).truncated
  /\ batch' = [NoBatch EXCEPT !.before = ws.current_val]
  /\ gas' = Gas
  /\ pc' = "run"
  /\ UNCHANGED <<session, req, ws, links, susp, ioVars, outcome, histVars>>

(* The links lead to a node that may reduce: a batch starts there, without *)
(* the frames a resumed suspension has brought.                            *)
StartLinked ==
  /\ StartsBatch
  /\ ~ req.file
  /\ LET chase == chase_link_path(ws.current_val)
     IN  /\ ~ chase.truncated
         /\ ~ chase.fixpoint
         /\ batch' = [before |-> ws.current_val, path |-> chase.path, end |-> chase.end,
                      cacheable |-> ~ node_has_effectful_top_step(chase.end)]
         /\ ws' = [ws EXCEPT !.current_val = chase.end, !.frames = <<>>,
                             !.mode = "DESCEND"]
  /\ gas' = Gas
  /\ pc' = "run"
  /\ whole' = (whole /\ ws.frames = <<>>)
  /\ UNCHANGED <<session, req, links, susp, ioVars, outcome, spent, resumed>>

(* Fault: the next batch starts in the mode the last one ended in.         *)
ContinueInMode(before, value) ==
  IF value = before
    THEN Answer("DONE", value)
    ELSE /\ ws' = [ws EXCEPT !.current_val = value, !.frames = <<>>]
         /\ pc' = "loop"
         /\ batch' = NoBatch
         /\ gas' = 0
         /\ UNCHANGED <<outcome, stdout, published>>

(* workerLoop has the value of a batch: what a batch leaves as it was is   *)
(* the answer, anything else is reduced further.                           *)
Continue(before, value) ==
  IF value = before
    THEN Answer("DONE", value)
    ELSE /\ ws' = [ws EXCEPT !.current_val = value, !.frames = <<>>, !.mode = "DESCEND"]
         /\ pc' = "loop"
         /\ batch' = NoBatch
         /\ gas' = 0
         /\ UNCHANGED <<outcome, stdout, published>>

(* The links lead to a known normal form.                                  *)
StartCached ==
  /\ StartsBatch
  /\ ~ req.file
  /\ LET chase == chase_link_path(ws.current_val)
     IN  /\ chase.fixpoint
         /\ publish_link_ptr(chase.path \ {chase.end}, chase.end)
         /\ Continue(ws.current_val, chase.end)
  /\ whole' = (whole /\ ws.frames = <<>>)
  /\ UNCHANGED <<session, req, susp, stdin, late, spent, resumed>>

(* Fault: the result of every batch is marked a normal form.               *)
EndBatchMarking ==
  /\ pc = "run" /\ gas > 0
  /\ ws.mode = "RETURN" /\ ws.frames = <<>>
  /\ IF batch.cacheable
       THEN links' = [n \in DOMAIN links \cup batch.path \cup {ws.current_val} |->
                        IF n \in batch.path \cup {ws.current_val}
                          THEN ws.current_val ELSE links[n]]
       ELSE UNCHANGED links
  /\ Continue(batch.before, ws.current_val)
  /\ UNCHANGED <<session, req, susp, stdin, late, histVars>>

EndBatch ==
  /\ pc = "run" /\ gas > 0
  /\ ws.mode = "RETURN" /\ ws.frames = <<>>
  /\ IF batch.cacheable THEN publish_link_ptr(batch.path, ws.current_val)
                        ELSE UNCHANGED links
  /\ Continue(batch.before, ws.current_val)
  /\ UNCHANGED <<session, req, susp, stdin, late, histVars>>

-----------------------------------------------------------------------------
(* Iterations of step_iterative.                                           *)

OutOfGas ==
  /\ pc = "run"
  /\ gas = 0
  /\ Park("GAS")
  /\ UNCHANGED <<session, req, links, ioVars, outcome, histVars>>

Iterates(mode) == pc = "run" /\ gas > 0 /\ ws.mode = mode

Stay == /\ gas' = gas - 1
        /\ UNCHANGED <<session, req, pc, batch, links, susp, outcome, whole, resumed>>

Front(frames) == SubSeq(frames, 1, Len(frames) - 1)
Top == ws.frames[Len(ws.frames)]

(* Fault: a changed left subterm goes up without its application.           *)
ReturnLeftBare ==
  /\ Iterates("RETURN")
  /\ ws.frames # <<>> /\ Top.submode = "LEFT"
  /\ \/ /\ ws.current_val # Top.node.left
        /\ ws' = [ws EXCEPT !.frames = Front(ws.frames)]
     \/ /\ ws.current_val = Top.node.left
        /\ ws' = [ws EXCEPT !.frames[Len(ws.frames)].submode = "RIGHT",
                            !.current_val = Top.node.right,
                            !.mode = "DESCEND"]
  /\ Stay
  /\ UNCHANGED <<ioVars, spent>>

(* Back from the left subterm: changed, the application is rebuilt and the *)
(* batch goes up; unchanged, the right subterm is next.                    *)
ReturnLeft ==
  /\ Iterates("RETURN")
  /\ ws.frames # <<>> /\ Top.submode = "LEFT"
  /\ \/ /\ ws.current_val # Top.node.left
        /\ ws' = [ws EXCEPT !.frames = Front(ws.frames),
                            !.current_val = allocCons(ws.current_val, Top.node.right)]
     \/ /\ ws.current_val = Top.node.left
        /\ ws' = [ws EXCEPT !.frames[Len(ws.frames)].submode = "RIGHT",
                            !.current_val = Top.node.right,
                            !.mode = "DESCEND"]
  /\ Stay
  /\ UNCHANGED <<ioVars, spent>>

ReturnRight ==
  /\ Iterates("RETURN")
  /\ ws.frames # <<>> /\ Top.submode = "RIGHT"
  /\ ws' = [ws EXCEPT !.frames = Front(ws.frames),
                      !.current_val = allocCons(Top.node.left, ws.current_val)]
  /\ Stay
  /\ UNCHANGED <<ioVars, spent>>

(* A symbol or a byte.                                                     *)
Stuck ==
  /\ Iterates("DESCEND")
  /\ ~ IsApp(ws.current_val)
  /\ ws' = [ws EXCEPT !.mode = "RETURN"]
  /\ Stay
  /\ UNCHANGED <<ioVars, spent>>

(* Fault: a worker's reduction goes up, as a synchronous one does.         *)
OutOfBudgetReturns ==
  /\ Iterates("DESCEND")
  /\ Steps(ws.current_val)
  /\ ws.remaining_steps = 0
  /\ ws' = [ws EXCEPT !.mode = "RETURN"]
  /\ Stay
  /\ UNCHANGED <<ioVars, spent>>

(* A node that would reduce, without budget, is parked.                    *)
OutOfBudget ==
  /\ Iterates("DESCEND")
  /\ Steps(ws.current_val)
  /\ ws.remaining_steps = 0
  /\ Park("STEP_LIMIT")
  /\ UNCHANGED <<session, req, links, ioVars, outcome, histVars>>

MayStep == Iterates("DESCEND") /\ ws.remaining_steps > 0

ReducesTo(t) == /\ ws' = [ws EXCEPT !.current_val = t, !.remaining_steps = @ - 1]
                /\ spent' = spent + 1
                /\ Stay

Contract ==
  /\ MayStep
  /\ IsRedex(ws.current_val)
  /\ ReducesTo(Contractum(ws.current_val))
  /\ UNCHANGED ioVars

(* READ_ONE takes a byte, or parks.                                        *)
Read ==
  /\ MayStep
  /\ IsRead(ws.current_val)
  /\ stdin # <<>>
  /\ stdin' = Tail(stdin)
  /\ ReducesTo(AfterRead(ws.current_val, Head(stdin)))
  /\ UNCHANGED <<late, stdout, published>>

(* Fault: the last byte of a file is taken for its end.                    *)
ReadWaitsEarly ==
  /\ MayStep
  /\ IsRead(ws.current_val)
  /\ Len(stdin) <= (IF req.file THEN 1 ELSE 0)
  /\ Park(IF req.file THEN "IO_EOF" ELSE "STDIN")
  /\ UNCHANGED <<session, req, links, ioVars, outcome, histVars>>

ReadWaits ==
  /\ MayStep
  /\ IsRead(ws.current_val)
  /\ stdin = <<>>
  /\ Park(IF req.file THEN "IO_EOF" ELSE "STDIN")
  /\ UNCHANGED <<session, req, links, ioVars, outcome, histVars>>

(* Fault: the byte is enqueued without looking for room.                   *)
WriteRingUnchecked ==
  /\ MayStep
  /\ IsWrite(ws.current_val)
  /\ ~ req.file
  /\ stdout' = Append(stdout, ws.current_val.left.right.byte)
  /\ ReducesTo(AfterWrite(ws.current_val))
  /\ UNCHANGED <<stdin, late, published>>

(* WRITE_ONE of a byte to the ring, or to the mapped output file.          *)
WriteRing ==
  /\ MayStep
  /\ IsWrite(ws.current_val)
  /\ ~ req.file
  /\ Len(stdout) < OutCapacity
  /\ stdout' = Append(stdout, ws.current_val.left.right.byte)
  /\ ReducesTo(AfterWrite(ws.current_val))
  /\ UNCHANGED <<stdin, late, published>>

WriteFile ==
  /\ MayStep
  /\ IsWrite(ws.current_val)
  /\ req.file
  /\ Len(published) < OutCapacity
  /\ published' = Append(published, ws.current_val.left.right.byte)
  /\ ReducesTo(AfterWrite(ws.current_val))
  /\ UNCHANGED <<stdin, late, stdout>>

WriteWaits ==
  /\ MayStep
  /\ IsWrite(ws.current_val)
  /\ \/ ~ req.file /\ Len(stdout) = OutCapacity /\ Park("STDOUT")
     \/ req.file /\ Len(published) = OutCapacity /\ Park("IO_ERROR")
  /\ UNCHANGED <<session, req, links, ioVars, outcome, histVars>>

(* Not a redex itself: its left subterm is next.                           *)
Descend ==
  /\ Iterates("DESCEND")
  /\ IsApp(ws.current_val)
  /\ ~ Steps(ws.current_val)
  /\ ws' = [ws EXCEPT !.frames = Append(@, [node |-> ws.current_val, submode |-> "LEFT"]),
                      !.current_val = ws.current_val.left]
  /\ Stay
  /\ UNCHANGED <<ioVars, spent>>

-----------------------------------------------------------------------------
Next == \/ Request \/ AnswerParked \/ Resume \/ Arrive \/ Publish
        \/ BudgetEmpty \/ StartPlain \/ StartLinked \/ StartCached \/ EndBatch
        \/ OutOfGas \/ ReturnLeft \/ ReturnRight \/ Stuck \/ OutOfBudget
        \/ Contract \/ Read \/ ReadWaits \/ WriteRing \/ WriteFile \/ WriteWaits
        \/ Descend

Spec == Init /\ [][Next]_vars

-----------------------------------------------------------------------------
Modes == {"DESCEND", "RETURN"}
Reasons == {"NONE", "GAS", "STEP_LIMIT", "STDIN", "STDOUT", "IO_EOF", "IO_ERROR"}

(* Types; only a parked request has a suspension, and a worker that runs   *)
(* leaves the stdout ring within its capacity.                             *)
TypeOK ==
  /\ pc \in {"idle", "loop", "run", "parked"}
  /\ \A s \in {ws, susp.ws} :
       /\ s.remaining_steps \in 0 .. req.budget
       /\ s.mode \in Modes
       /\ \A k \in DOMAIN s.frames : /\ IsApp(s.frames[k].node)
                                    /\ s.frames[k].submode \in {"LEFT", "RIGHT"}
  /\ gas \in 0 .. Gas
  /\ susp.reason \in Reasons
  /\ (susp.reason # "NONE") = (pc = "parked")
  /\ Len(stdout) <= OutCapacity
  /\ spent \in Nat
  /\ whole \in BOOLEAN
  /\ resumed \in BOOLEAN

(* The step budget of a request is one account, whoever runs it: every     *)
(* contraction, read and write is charged once, across batches, gas yields *)
(* and waits for I/O, with the rest saved in the suspension.               *)
StepsAccounted ==
  /\ pc \in {"loop", "run"} => spent + ws.remaining_steps = req.budget
  /\ pc = "parked" => spent + susp.ws.remaining_steps = req.budget
  /\ outcome.kind = "PARTIAL" => spent = req.budget
=============================================================================
