--------------------------- MODULE ReducerProofs ---------------------------
(***************************************************************************)
(* Proofs about every behaviour of module Reducer, for all sessions, terms *)
(* and inputs, any gas and capacities: the step budget of a request is     *)
(* accounted for, the state keeps its types, and what is answered, linked  *)
(* and gone past is what the rules of module Reduction allow.              *)
(*                                                                         *)
(* StepsAccounted is not inductive by itself: a worker state is restored   *)
(* from the suspension, a returned suspension has an empty budget because  *)
(* of the reason it was parked for, and the next budget comes from the     *)
(* session.  The types rest on it, for no worker exceeds its budget; they  *)
(* add what a frame is, and that only a parked request has a suspension.   *)
(* The reductions rest on the types: every frame waits for what the next   *)
(* one works on, every node a batch will link reduces to what the worker   *)
(* stands for, and every link is to a term a reducer may return.           *)
(***************************************************************************)
EXTENDS Reducer, Reduction, SequenceTheorems, TLAPS

(* A worker state, as a record with a budget.                              *)
IsState(s) ==
  /\ s = [current_val |-> s.current_val, frames |-> s.frames,
          remaining_steps |-> s.remaining_steps, mode |-> s.mode]
  /\ s.remaining_steps \in Nat

Running == pc \in {"loop", "run"}

RunningInv == Running => /\ spent + ws.remaining_steps = req.budget
                         /\ outcome.kind = "NONE"

ParkedInv == pc = "parked" =>
               /\ IsState(susp.ws)
               /\ spent + susp.ws.remaining_steps = req.budget
               /\ outcome.kind = "NONE"
               /\ susp.reason = "STEP_LIMIT" => susp.ws.remaining_steps = 0

PartialInv == outcome.kind = "PARTIAL" => spent = req.budget

StepInv == /\ IsState(ws)
           /\ spent \in Nat
           /\ req.budget \in Nat
           /\ pc \in {"idle", "loop", "run", "parked"}
           /\ session \in Seq(AllRequests)
           /\ RunningInv
           /\ ParkedInv
           /\ PartialInv

(* The invariant gives what is to be proved.                               *)
LEMMA StepInvSuffices == StepInv => StepsAccounted
  BY DEF StepInv, RunningInv, ParkedInv, PartialInv, StepsAccounted, Running

(* The state of an idle worker is one.                                     *)
LEMMA IdleStateIsState == IsState(IdleState)
  BY DEF IsState, IdleState

(* Every initial state has the invariant.                                  *)
LEMMA InitStepInv == Init => StepInv
<1> SUFFICES ASSUME Init PROVE StepInv
  OBVIOUS
<1>1. session \in Seq(AllRequests)
  BY SessionsAssumption DEF Init
<1>2. IsState(ws)
  BY IdleStateIsState DEF Init
<1> QED
  BY <1>1, <1>2 DEF Init, StepInv, RunningInv, ParkedInv, PartialInv, Running, NoRequest

(* Iterations that move in the term: neither budget nor account changes.   *)
Moves == ReturnLeft \/ ReturnRight \/ Stuck \/ Descend

LEMMA MoveKeepsBudget ==
  ASSUME StepInv, Moves
  PROVE  /\ IsState(ws') /\ ws'.remaining_steps = ws.remaining_steps
         /\ pc = "run"
         /\ UNCHANGED <<session, req, pc, outcome, spent>>
<1>1. CASE ReturnLeft
  <2>1. ASSUME NEW t, NEW f, ws' = [ws EXCEPT !.frames = f, !.current_val = t]
        PROVE  IsState(ws') /\ ws'.remaining_steps = ws.remaining_steps
    BY <2>1 DEF StepInv, IsState
  <2>2. ASSUME NEW t, NEW f, ws' = [ws EXCEPT !.frames = f, !.current_val = t, !.mode = "DESCEND"]
        PROVE  IsState(ws') /\ ws'.remaining_steps = ws.remaining_steps
    BY <2>2 DEF StepInv, IsState
  <2>3. IsState(ws') /\ ws'.remaining_steps = ws.remaining_steps
    <3>1. CASE ws' = [ws EXCEPT !.frames = Front(ws.frames),
                                !.current_val = allocCons(ws.current_val, Top.node.right)]
      BY <3>1, <2>1
    <3>2. CASE ws' = [ws EXCEPT !.frames[Len(ws.frames)].submode = "RIGHT",
                                !.current_val = Top.node.right,
                                !.mode = "DESCEND"]
      BY <3>2, <2>2 DEF StepInv, IsState
    <3> QED
      BY <1>1, <3>1, <3>2 DEF ReturnLeft
  <2> QED
    BY <1>1, <2>3 DEF ReturnLeft, Iterates, Stay
<1>2. CASE ReturnRight
  BY <1>2 DEF StepInv, IsState, ReturnRight, Iterates, Stay
<1>3. CASE Stuck
  BY <1>3 DEF StepInv, IsState, Stuck, Iterates, Stay, ioVars
<1>4. CASE Descend
  BY <1>4 DEF StepInv, IsState, Descend, Iterates, Stay, ioVars
<1> QED
  BY <1>1, <1>2, <1>3, <1>4 DEF Moves

(* Contractions, reads and writes: one step is charged and counted.        *)
Charges == Contract \/ Read \/ WriteRing \/ WriteFile

LEMMA ChargeMovesOne ==
  ASSUME StepInv, Charges
  PROVE  /\ IsState(ws') /\ ws'.remaining_steps = ws.remaining_steps - 1
         /\ spent' = spent + 1
         /\ pc = "run"
         /\ UNCHANGED <<session, req, pc, outcome>>
<1>1. ASSUME NEW t, ReducesTo(t), MayStep
      PROVE  /\ IsState(ws') /\ ws'.remaining_steps = ws.remaining_steps - 1
             /\ spent' = spent + 1
             /\ pc = "run"
             /\ UNCHANGED <<session, req, pc, outcome>>
  <2>1. ws.remaining_steps - 1 \in Nat
    BY <1>1 DEF StepInv, IsState, MayStep
  <2>2. ws' = [ws EXCEPT !.current_val = t, !.remaining_steps = ws.remaining_steps - 1]
    BY <1>1 DEF ReducesTo
  <2>3. ws' = [current_val |-> t, frames |-> ws.frames,
               remaining_steps |-> ws.remaining_steps - 1, mode |-> ws.mode]
    BY <2>2 DEF StepInv, IsState
  <2>4. IsState(ws') /\ ws'.remaining_steps = ws.remaining_steps - 1
    BY <2>1, <2>3 DEF IsState
  <2> QED
    BY <1>1, <2>4 DEF ReducesTo, Stay, MayStep, Iterates
<1> QED
  BY <1>1 DEF Charges, Contract, Read, WriteRing, WriteFile

(* Parking saves the state; a step limit is the reason of an empty budget. *)
Parks == BudgetEmpty \/ OutOfGas \/ OutOfBudget \/ ReadWaits \/ WriteWaits

LEMMA ParkSaves ==
  ASSUME StepInv, Parks
  PROVE  /\ Running /\ pc' = "parked" /\ IsState(ws')
         /\ susp'.ws = ws
         /\ susp'.reason = "STEP_LIMIT" => ws.remaining_steps = 0
         /\ UNCHANGED <<session, req, outcome, spent>>
<1> USE IdleStateIsState DEF Park, Running, histVars
<1>1. CASE BudgetEmpty
  BY <1>1 DEF BudgetEmpty
<1>2. CASE OutOfGas
  BY <1>2 DEF OutOfGas
<1>3. CASE OutOfBudget
  BY <1>3 DEF OutOfBudget, Iterates
<1>4. CASE ReadWaits
  BY <1>4 DEF ReadWaits, MayStep, Iterates
<1>5. CASE WriteWaits
  BY <1>5 DEF WriteWaits, MayStep, Iterates
<1> QED
  BY <1>1, <1>2, <1>3, <1>4, <1>5 DEF Parks

(* What follows a batch: the answer, or the next batch on the same budget. *)
LEMMA ContinueKeepsBudget ==
  ASSUME StepInv, Running, NEW before, NEW value, Continue(before, value),
         UNCHANGED <<session, req, spent>>
  PROVE  StepInv'
<1>1. CASE value = before
  <2>1. pc' = "idle" /\ IsState(ws') /\ outcome'.kind = "DONE"
    BY <1>1, IdleStateIsState DEF Continue, Answer
  <2> QED
    BY <2>1 DEF StepInv, RunningInv, ParkedInv, PartialInv, Running
<1>2. CASE value # before
  <2>1. /\ pc' = "loop" /\ IsState(ws')
        /\ ws'.remaining_steps = ws.remaining_steps
        /\ UNCHANGED outcome
    BY <1>2 DEF Continue, StepInv, IsState
  <2> QED
    BY <2>1 DEF StepInv, RunningInv, ParkedInv, PartialInv, Running
<1> QED
  BY <1>1, <1>2

(* Every step keeps the invariant.                                         *)
LEMMA NextStepInv == StepInv /\ [Next]_vars => StepInv'
<1> SUFFICES ASSUME StepInv, [Next]_vars PROVE StepInv'
  OBVIOUS
<1> USE DEF RunningInv, ParkedInv, PartialInv, Running
<1>1. CASE Request
  <2>1. session # <<>> /\ session \in Seq(AllRequests)
    BY <1>1 DEF Request, StepInv
  <2>2. Head(session) \in AllRequests /\ Tail(session) \in Seq(AllRequests)
    BY <2>1
  <2>3. Head(session).budget \in Nat
    BY <2>2, SessionsAssumption
  <2>4. /\ req'.budget = Head(session).budget
        /\ ws' = [IdleState EXCEPT !.current_val = Head(session).term,
                                   !.remaining_steps = Head(session).budget]
    BY <1>1 DEF Request
  <2>5. IsState(ws') /\ ws'.remaining_steps = req'.budget
    BY <2>3, <2>4 DEF IsState, IdleState
  <2>6. pc' = "loop" /\ spent' = 0 /\ outcome'.kind = "NONE" /\ session' = Tail(session)
    BY <1>1 DEF Request
  <2> QED
    BY <2>2, <2>3, <2>4, <2>5, <2>6 DEF StepInv
<1>2. CASE AnswerParked
  <2>1. /\ pc = "parked" /\ pc' = "idle" /\ IsState(ws')
        /\ UNCHANGED <<session, req, spent>>
        /\ outcome'.kind = "PARTIAL" => susp.reason = "STEP_LIMIT"
    BY <1>2, IdleStateIsState DEF AnswerParked, Answer, histVars
  <2>2. outcome'.kind = "PARTIAL" => spent = req.budget
    BY <2>1 DEF StepInv, IsState
  <2> QED
    BY <2>1, <2>2 DEF StepInv
<1>3. CASE Resume
  <2>1. /\ pc = "parked" /\ pc' = "loop" /\ ws' = susp.ws
        /\ UNCHANGED <<session, req, outcome, spent>>
    BY <1>3 DEF Resume
  <2> QED
    BY <2>1 DEF StepInv
<1>4. CASE Arrive \/ Publish
  BY <1>4 DEF Arrive, Publish, StepInv, histVars, IsState
<1>5. CASE StartPlain \/ StartLinked
  <2>1. /\ pc = "loop" /\ pc' = "run"
        /\ IsState(ws') /\ ws'.remaining_steps = ws.remaining_steps
        /\ UNCHANGED <<session, req, outcome, spent>>
    <3>1. CASE StartPlain
      BY <3>1 DEF StartPlain, StartsBatch, StepInv, histVars
    <3>2. CASE StartLinked
      <4>1. PICK t : ws' = [ws EXCEPT !.current_val = t, !.frames = <<>>, !.mode = "DESCEND"]
        BY <3>2 DEF StartLinked
      <4>2. IsState(ws)
        BY DEF StepInv
      <4>3. IsState(ws') /\ ws'.remaining_steps = ws.remaining_steps
        BY <4>1, <4>2 DEF IsState
      <4> QED
        BY <3>2, <4>3 DEF StartLinked, StartsBatch
    <3> QED
      BY <1>5, <3>1, <3>2
  <2> QED
    BY <2>1 DEF StepInv
<1>6. CASE StartCached \/ EndBatch
  <2>1. Running /\ UNCHANGED <<session, req, spent>>
    BY <1>6 DEF StartCached, EndBatch, StartsBatch, histVars
  <2>2. \E b, v : Continue(b, v)
    BY <1>6 DEF StartCached, EndBatch
  <2> QED
    BY <2>1, <2>2, ContinueKeepsBudget
<1>7. CASE Parks
  <2>1. /\ Running /\ pc' = "parked" /\ IsState(ws')
        /\ susp'.ws = ws
        /\ susp'.reason = "STEP_LIMIT" => ws.remaining_steps = 0
        /\ UNCHANGED <<session, req, outcome, spent>>
    BY <1>7, ParkSaves
  <2> QED
    BY <2>1 DEF StepInv
<1>8. CASE Moves
  <2>1. /\ IsState(ws') /\ ws'.remaining_steps = ws.remaining_steps
        /\ pc = "run"
        /\ UNCHANGED <<session, req, pc, outcome, spent>>
    BY <1>8, MoveKeepsBudget
  <2> QED
    BY <2>1 DEF StepInv
<1>9. CASE Charges
  <2>1. /\ IsState(ws') /\ ws'.remaining_steps = ws.remaining_steps - 1
        /\ spent' = spent + 1
        /\ pc = "run"
        /\ UNCHANGED <<session, req, pc, outcome>>
    BY <1>9, ChargeMovesOne
  <2>2. spent' + ws'.remaining_steps = req'.budget
    BY <2>1 DEF StepInv, IsState
  <2> QED
    BY <2>1, <2>2 DEF StepInv
<1>10. CASE UNCHANGED vars
  BY <1>10 DEF StepInv, vars, histVars, IsState
<1> QED
  BY <1>1, <1>2, <1>3, <1>4, <1>5, <1>6, <1>7, <1>8, <1>9, <1>10
     DEF Next, Parks, Moves, Charges

(* The step budget of a request is one account in every behaviour: spent   *)
(* and remaining steps add up to the budget, running or parked, and a call *)
(* that returns a suspension has spent all of it.                          *)
THEOREM BudgetAccounted == Spec => []StepsAccounted
<1>1. Spec => []StepInv
  BY InitStepInv, NextStepInv, PTL DEF Spec
<1> QED
  BY <1>1, StepInvSuffices, PTL

-----------------------------------------------------------------------------
(* Types.  The terms of a reduction are no set of the model, so a sequence *)
(* is one over some set.                                                   *)
IsSeq(s) == \E S : s \in Seq(S)

(* A frame is an application, and which of its subterms is reduced.        *)
IsFrame(f) == /\ f = [node |-> f.node, submode |-> f.submode]
              /\ IsApp(f.node)
              /\ f.submode \in {"LEFT", "RIGHT"}
IsFrames(frames) == IsSeq(frames) /\ \A k \in 1 .. Len(frames) : IsFrame(frames[k])

(* A worker state with the budget of a request.                            *)
IsWorkerState(s, budget) == /\ IsState(s)
                            /\ s.remaining_steps <= budget
                            /\ s.mode \in Modes
                            /\ IsFrames(s.frames)

SuspInv == /\ IsWorkerState(susp.ws, req.budget)
           /\ susp.reason \in Reasons
           /\ (susp.reason # "NONE") = (pc = "parked")
           /\ pc # "parked" => susp = NoSusp
OutInv  == IsSeq(stdout) /\ Len(stdout) <= OutCapacity
FlagInv == gas \in 0 .. Gas /\ whole \in BOOLEAN /\ resumed \in BOOLEAN

TypeInv == IsWorkerState(ws, req.budget) /\ SuspInv /\ OutInv /\ FlagInv

(* The invariants give the types TLC checks.                               *)
LEMMA TypeInvSuffices == StepInv /\ TypeInv => TypeOK
<1> SUFFICES ASSUME StepInv, TypeInv PROVE TypeOK
  OBVIOUS
<1>1. ASSUME NEW s, IsWorkerState(s, req.budget)
      PROVE  /\ s.remaining_steps \in 0 .. req.budget
             /\ s.mode \in Modes
             /\ \A k \in DOMAIN s.frames : /\ IsApp(s.frames[k].node)
                                          /\ s.frames[k].submode \in {"LEFT", "RIGHT"}
  <2>1. DOMAIN s.frames = 1 .. Len(s.frames)
    BY <1>1 DEF IsWorkerState, IsFrames, IsSeq
  <2>2. s.remaining_steps \in 0 .. req.budget
    BY <1>1 DEF IsWorkerState, IsState, StepInv
  <2>3. \A k \in 1 .. Len(s.frames) : /\ IsApp(s.frames[k].node)
                                      /\ s.frames[k].submode \in {"LEFT", "RIGHT"}
    BY <1>1 DEF IsWorkerState, IsFrames, IsFrame
  <2> QED
    BY <1>1, <2>1, <2>2, <2>3 DEF IsWorkerState
<1>2. \A s \in {ws, susp.ws} : IsWorkerState(s, req.budget)
  BY DEF TypeInv, SuspInv
<1> QED
  BY <1>1, <1>2, Zenon DEF TypeInv, SuspInv, OutInv, FlagInv, StepInv, TypeOK

(* Sequences grow and shrink at their ends.                                *)
LEMMA SeqAppend ==
  ASSUME NEW s, IsSeq(s), NEW e
  PROVE  /\ IsSeq(Append(s, e)) /\ Len(s) \in Nat
         /\ Len(Append(s, e)) = Len(s) + 1
         /\ \A k \in 1 .. Len(s) : Append(s, e)[k] = s[k]
         /\ Append(s, e)[Len(s) + 1] = e
<1>1. PICK S : s \in Seq(S)
  BY DEF IsSeq
<1>2. s \in Seq(S \cup {e})
  BY <1>1
<1>3. /\ Append(s, e) \in Seq(S \cup {e}) /\ Len(s) \in Nat
      /\ Len(Append(s, e)) = Len(s) + 1
      /\ \A k \in 1 .. Len(s) : Append(s, e)[k] = s[k]
      /\ Append(s, e)[Len(s) + 1] = e
  BY <1>2
<1> QED
  BY <1>3, Zenon DEF IsSeq

(* Without the head.                                                       *)
LEMMA SeqTail ==
  ASSUME NEW s, IsSeq(s), s # <<>>
  PROVE  IsSeq(Tail(s)) /\ Len(Tail(s)) = Len(s) - 1 /\ Len(s) \in Nat
<1>1. PICK S : s \in Seq(S)
  BY DEF IsSeq
<1>2. Tail(s) \in Seq(S) /\ Len(Tail(s)) = Len(s) - 1 /\ Len(s) \in Nat
  BY <1>1
<1> QED
  BY <1>2 DEF IsSeq

(* Without the last element.                                               *)
LEMMA SeqFront ==
  ASSUME NEW s, IsSeq(s), s # <<>>
  PROVE  /\ IsSeq(Front(s)) /\ Len(Front(s)) = Len(s) - 1 /\ Len(s) \in Nat \ {0}
         /\ \A k \in 1 .. Len(s) - 1 : Front(s)[k] = s[k]
<1>1. PICK S : s \in Seq(S)
  BY DEF IsSeq
<1>2. Len(s) \in Nat \ {0}
  BY <1>1
<1> DEFINE n == Len(s) - 1
           p == SubSeq(s, 1, n)
<1>3. n \in Nat /\ \A k \in 1 .. n : s[k] \in S
  BY <1>1, <1>2
<1>4. p \in Seq(S) /\ Len(p) = n /\ \A k \in 1 .. n : p[k] = s[k]
  <2> HIDE DEF n
  <2>1. /\ p \in Seq(S)
        /\ Len(p) = IF 1 <= n THEN n - 1 + 1 ELSE 0
        /\ \A k \in 1 .. n - 1 + 1 : p[k] = s[1 + k - 1]
    BY <1>3, SubSeqProperties
  <2> QED
    BY <1>3, <2>1
<1> QED
  BY <1>2, <1>4 DEF Front, IsSeq

(* A frame is pushed.                                                      *)
LEMMA PushFrame ==
  ASSUME NEW frames, IsFrames(frames), NEW f, IsFrame(f)
  PROVE  IsFrames(Append(frames, f))
<1>1. /\ IsSeq(Append(frames, f)) /\ Len(frames) \in Nat
      /\ Len(Append(frames, f)) = Len(frames) + 1
      /\ \A k \in 1 .. Len(frames) : Append(frames, f)[k] = frames[k]
      /\ Append(frames, f)[Len(frames) + 1] = f
  BY SeqAppend DEF IsFrames
<1>2. ASSUME NEW k \in 1 .. Len(frames) + 1 PROVE IsFrame(Append(frames, f)[k])
  <2>1. CASE k = Len(frames) + 1
    BY <1>1, <2>1
  <2>2. CASE k \in 1 .. Len(frames)
    BY <1>1, <2>2 DEF IsFrames
  <2> QED
    BY <1>1, <2>1, <2>2
<1> QED
  BY <1>1, <1>2 DEF IsFrames

(* The frame on top is popped.                                             *)
LEMMA PopFrame ==
  ASSUME NEW frames, IsFrames(frames), frames # <<>>
  PROVE  IsFrames(Front(frames))
<1>1. /\ IsSeq(Front(frames)) /\ Len(Front(frames)) = Len(frames) - 1 /\ Len(frames) \in Nat \ {0}
      /\ \A k \in 1 .. Len(frames) - 1 : Front(frames)[k] = frames[k]
  BY SeqFront DEF IsFrames
<1>2. ASSUME NEW k \in 1 .. Len(frames) - 1 PROVE IsFrame(Front(frames)[k])
  BY <1>1 DEF IsFrames
<1> QED
  BY <1>1, <1>2 DEF IsFrames

(* The frame on top turns to the right subterm of its node.                *)
LEMMA TurnFrame ==
  ASSUME NEW frames, IsFrames(frames), frames # <<>>
  PROVE  IsFrames([frames EXCEPT ![Len(frames)].submode = "RIGHT"])
<1> DEFINE n == Len(frames)
           turned == [frames[n] EXCEPT !.submode = "RIGHT"]
           after  == [frames EXCEPT ![n].submode = "RIGHT"]
<1>1. PICK S : frames \in Seq(S)
  BY DEF IsFrames, IsSeq
<1>2. n \in Nat \ {0} /\ DOMAIN frames = 1 .. n
  BY <1>1
<1>3. IsFrame(frames[n])
  BY <1>2 DEF IsFrames
<1>4. IsFrame(turned)
  <2>1. turned = [node |-> frames[n].node, submode |-> "RIGHT"]
    BY <1>3 DEF IsFrame
  <2> QED
    BY <1>3, <2>1 DEF IsFrame
<1>5. after = [frames EXCEPT ![n] = turned]
  OBVIOUS
<1> HIDE DEF turned, after
<1>6. frames \in Seq(S \cup {turned})
  BY <1>1
<1>7. after \in Seq(S \cup {turned}) /\ Len(after) = n
  BY <1>2, <1>5, <1>6, ExceptSeq
<1>8. \A k \in 1 .. n : IsFrame(after[k])
  BY <1>2, <1>4, <1>5 DEF IsFrames
<1> QED
  BY <1>7, <1>8 DEF IsFrames, IsSeq, after

(* No frames.                                                              *)
LEMMA NoFrames == IsFrames(<<>>)
<1>1. <<>> \in Seq({})
  OBVIOUS
<1> QED
  BY <1>1 DEF IsFrames, IsSeq

(* The idle worker, with any budget.                                       *)
LEMMA IdleStateTyped ==
  ASSUME NEW budget \in Nat
  PROVE  IsWorkerState(IdleState, budget) /\ NoSusp.ws = IdleState /\ NoSusp.reason = "NONE"
<1>1. IsWorkerState(IdleState, budget)
  BY IdleStateIsState, NoFrames DEF IsWorkerState, IdleState, Modes
<1> QED
  BY <1>1 DEF NoSusp

(* Every initial state has the types.                                      *)
LEMMA InitTypeInv == Init => TypeInv
<1> SUFFICES ASSUME Init PROVE TypeInv
  OBVIOUS
<1>1. req.budget = 0 /\ 0 \in Nat /\ susp = NoSusp /\ ws = IdleState
  BY DEF Init, NoRequest
<1>2. IsWorkerState(ws, req.budget) /\ SuspInv
  <2>1. IsWorkerState(IdleState, 0) /\ NoSusp.ws = IdleState /\ NoSusp.reason = "NONE"
    BY IdleStateTyped
  <2> QED
    BY <1>1, <2>1 DEF Init, SuspInv, Reasons
<1>3. OutInv
  <2>1. <<>> \in Seq({}) /\ Len(<<>>) = 0
    OBVIOUS
  <2> QED
    BY <2>1, SizesAssumption DEF Init, OutInv, IsSeq
<1>4. FlagInv
  <2>1. gas = 0 /\ whole = TRUE /\ resumed = FALSE
    BY DEF Init
  <2>2. gas \in 0 .. Gas
    BY <2>1, SizesAssumption
  <2> QED
    BY <2>1, <2>2 DEF FlagInv
<1> QED
  BY <1>1, <1>2, <1>3, <1>4 DEF TypeInv

(* Iterations that move in the term keep the shape of the worker state.    *)
LEMMA MoveTyped ==
  ASSUME StepInv, TypeInv, Moves
  PROVE  /\ IsWorkerState(ws', req.budget) /\ gas' = gas - 1 /\ gas > 0
         /\ UNCHANGED <<req, pc, susp, stdout, whole, resumed>>
<1>0. /\ ws.mode \in Modes /\ IsFrames(ws.frames)
      /\ ws = [current_val |-> ws.current_val, frames |-> ws.frames,
               remaining_steps |-> ws.remaining_steps, mode |-> ws.mode]
      /\ ws.remaining_steps <= req.budget
  BY DEF TypeInv, IsWorkerState, IsState
<1>1. IsState(ws') /\ ws'.remaining_steps = ws.remaining_steps
  BY MoveKeepsBudget
<1>2. ws'.mode \in Modes /\ IsFrames(ws'.frames)
  <2>1. CASE ReturnLeft
    <3>1. CASE ws' = [ws EXCEPT !.frames = Front(ws.frames),
                                !.current_val = allocCons(ws.current_val, Top.node.right)]
      <4>1. ws'.mode = ws.mode /\ ws'.frames = Front(ws.frames)
        BY <1>0, <3>1
      <4>2. ws.frames # <<>>
        BY <2>1 DEF ReturnLeft
      <4> QED
        BY <1>0, <4>1, <4>2, PopFrame
    <3>2. CASE ws' = [ws EXCEPT !.frames[Len(ws.frames)].submode = "RIGHT",
                                !.current_val = Top.node.right,
                                !.mode = "DESCEND"]
      <4>1. /\ ws'.mode = "DESCEND"
            /\ ws'.frames = [ws.frames EXCEPT ![Len(ws.frames)].submode = "RIGHT"]
        BY <1>0, <3>2
      <4>2. ws.frames # <<>>
        BY <2>1 DEF ReturnLeft
      <4> QED
        BY <1>0, <4>1, <4>2, TurnFrame DEF Modes
    <3> QED
      BY <2>1, <3>1, <3>2 DEF ReturnLeft
  <2>2. CASE ReturnRight
    <3>1. ws.frames # <<>> /\ ws'.mode = ws.mode /\ ws'.frames = Front(ws.frames)
      BY <1>0, <2>2 DEF ReturnRight
    <3> QED
      BY <1>0, <3>1, PopFrame
  <2>3. CASE Stuck
    <3>1. ws'.mode = "RETURN" /\ ws'.frames = ws.frames
      BY <1>0, <2>3 DEF Stuck
    <3> QED
      BY <1>0, <3>1 DEF Modes
  <2>4. CASE Descend
    <3> DEFINE f == [node |-> ws.current_val, submode |-> "LEFT"]
    <3>1. ws'.mode = ws.mode /\ ws'.frames = Append(ws.frames, f)
      BY <1>0, <2>4 DEF Descend
    <3>2. IsFrame(f)
      BY <2>4 DEF Descend, IsFrame
    <3> QED
      BY <1>0, <3>1, <3>2, PushFrame
  <2> QED
    BY <2>1, <2>2, <2>3, <2>4 DEF Moves
<1>3. /\ gas' = gas - 1 /\ gas > 0
      /\ UNCHANGED <<req, pc, susp, stdout, whole, resumed>>
  BY Zenon DEF Moves, ReturnLeft, ReturnRight, Stuck, Descend, Stay, Iterates, ioVars
<1> QED
  BY <1>0, <1>1, <1>2, <1>3 DEF IsWorkerState

(* So do contractions, reads and writes, and a write looks for room.       *)
LEMMA ChargeTyped ==
  ASSUME StepInv, TypeInv, Charges
  PROVE  /\ IsWorkerState(ws', req.budget) /\ gas' = gas - 1 /\ gas > 0
         /\ OutInv'
         /\ UNCHANGED <<req, pc, susp, whole, resumed>>
<1>0. /\ ws.mode \in Modes /\ IsFrames(ws.frames)
      /\ ws = [current_val |-> ws.current_val, frames |-> ws.frames,
               remaining_steps |-> ws.remaining_steps, mode |-> ws.mode]
      /\ ws.remaining_steps <= req.budget
      /\ ws.remaining_steps \in Nat /\ req.budget \in Nat
  BY DEF TypeInv, IsWorkerState, IsState, StepInv
<1>1. PICK t : ReducesTo(t)
  BY DEF Charges, Contract, Read, WriteRing, WriteFile
<1>2. ws'.mode = ws.mode /\ ws'.frames = ws.frames
  BY <1>0, <1>1 DEF ReducesTo
<1>3. IsState(ws') /\ ws'.remaining_steps = ws.remaining_steps - 1
  BY ChargeMovesOne
<1>4. IsWorkerState(ws', req.budget)
  BY <1>0, <1>2, <1>3 DEF IsWorkerState
<1>5. gas > 0
  BY Zenon DEF Charges, Contract, Read, WriteRing, WriteFile, MayStep, Iterates
<1>6. gas' = gas - 1 /\ UNCHANGED <<req, pc, susp, whole, resumed>>
  BY <1>1 DEF ReducesTo, Stay
<1>7. OutInv'
  <2>1. CASE stdout' = stdout
    BY <2>1 DEF TypeInv, OutInv, IsSeq
  <2>2. CASE WriteRing
    <3>1. PICK b : stdout' = Append(stdout, b) /\ Len(stdout) < OutCapacity
      BY <2>2 DEF WriteRing
    <3>2. IsSeq(stdout') /\ Len(stdout') = Len(stdout) + 1 /\ Len(stdout) \in Nat
      BY <3>1, SeqAppend DEF TypeInv, OutInv
    <3>3. Len(stdout') <= OutCapacity
      BY <3>1, <3>2, SizesAssumption
    <3> QED
      BY <3>2, <3>3 DEF OutInv, IsSeq
  <2> QED
    BY <2>1, <2>2 DEF Charges, Contract, Read, WriteFile, ioVars
<1> QED
  BY <1>4, <1>5, <1>6, <1>7

(* A parked request has its worker state in the suspension.                *)
LEMMA ParkTyped ==
  ASSUME StepInv, TypeInv, Parks
  PROVE  /\ pc' = "parked" /\ ws' = IdleState /\ gas' = 0
         /\ susp' = [reason |-> susp'.reason, ws |-> ws] /\ susp'.reason \in Reasons \ {"NONE"}
         /\ UNCHANGED <<req, stdout, whole, resumed>>
<1> USE DEF Park, Reasons, histVars, ioVars
<1>1. CASE BudgetEmpty
  BY <1>1 DEF BudgetEmpty
<1>2. CASE OutOfGas
  BY <1>2 DEF OutOfGas
<1>3. CASE OutOfBudget
  BY <1>3 DEF OutOfBudget
<1>4. CASE ReadWaits
  BY <1>4 DEF ReadWaits
<1>5. CASE WriteWaits
  BY <1>5 DEF WriteWaits
<1> QED
  BY <1>1, <1>2, <1>3, <1>4, <1>5 DEF Parks

(* A batch ends: the answer, or the next batch with a fresh machine.       *)
LEMMA ContinueTyped ==
  ASSUME StepInv, TypeInv, NEW before, NEW value, Continue(before, value)
  PROVE  IsWorkerState(ws', req.budget) /\ gas' = 0 /\ OutInv' /\ pc' \in {"idle", "loop"}
<1>0. /\ ws.mode \in Modes /\ IsFrames(ws.frames)
      /\ ws = [current_val |-> ws.current_val, frames |-> ws.frames,
               remaining_steps |-> ws.remaining_steps, mode |-> ws.mode]
      /\ ws.remaining_steps <= req.budget /\ ws.remaining_steps \in Nat /\ req.budget \in Nat
  BY DEF TypeInv, IsWorkerState, IsState, StepInv
<1>1. CASE value = before
  <2>1. ws' = IdleState /\ gas' = 0 /\ pc' = "idle" /\ stdout' = <<>>
    BY <1>1 DEF Continue, Answer
  <2>2. OutInv'
    <3>1. <<>> \in Seq({}) /\ Len(<<>>) = 0
      OBVIOUS
    <3> QED
      BY <2>1, <3>1, SizesAssumption DEF OutInv, IsSeq
  <2> QED
    BY <1>0, <2>1, <2>2, IdleStateTyped
<1>2. CASE value # before
  <2>1. /\ ws' = [ws EXCEPT !.current_val = value, !.frames = <<>>, !.mode = "DESCEND"]
        /\ gas' = 0 /\ pc' = "loop" /\ stdout' = stdout
    BY <1>2 DEF Continue
  <2>2. ws' = [current_val |-> value, frames |-> <<>>,
               remaining_steps |-> ws.remaining_steps, mode |-> "DESCEND"]
    BY <1>0, <2>1
  <2>3. IsWorkerState(ws', req.budget)
    BY <1>0, <2>2, NoFrames DEF IsWorkerState, IsState, Modes
  <2>4. OutInv'
    BY <2>1 DEF TypeInv, OutInv, IsSeq
  <2> QED
    BY <2>1, <2>3, <2>4
<1> QED
  BY <1>1, <1>2

(* Every step keeps the types.                                             *)
LEMMA NextTypeInv == StepInv /\ StepInv' /\ TypeInv /\ [Next]_vars => TypeInv'
<1> SUFFICES ASSUME StepInv, StepInv', TypeInv, [Next]_vars PROVE TypeInv'
  OBVIOUS
<1>0. /\ IsWorkerState(ws, req.budget) /\ SuspInv /\ OutInv /\ FlagInv
      /\ req.budget \in Nat /\ req'.budget \in Nat
      /\ Gas \in Nat /\ 0 \in 0 .. Gas
  BY SizesAssumption DEF TypeInv, StepInv
<1>a. stdout' = stdout => OutInv'
  BY <1>0 DEF OutInv, IsSeq
<1>b. ASSUME gas' \in 0 .. Gas, UNCHANGED <<whole, resumed>> PROVE FlagInv'
  BY <1>0, <1>b, Zenon DEF FlagInv
<1>c. ASSUME UNCHANGED <<req, susp>>, pc # "parked", pc' # "parked" PROVE SuspInv'
  BY <1>0, <1>c DEF SuspInv, IsWorkerState, IsState
<1>d. ASSUME susp' = NoSusp, pc' # "parked" PROVE SuspInv'
  BY <1>0, <1>d, IdleStateTyped DEF SuspInv, Reasons
<1>1. CASE Request
  <2>1. /\ pc = "idle" /\ pc' = "loop"
        /\ UNCHANGED <<gas, susp, stdout>> /\ whole' = TRUE /\ resumed' = FALSE
    BY <1>1 DEF Request
  <2>2. PICK r : /\ req'.budget = r.budget
                 /\ ws' = [IdleState EXCEPT !.current_val = r.term,
                                            !.remaining_steps = r.budget]
    BY <1>1 DEF Request
  <2>3. ws' = [current_val |-> r.term, frames |-> <<>>,
               remaining_steps |-> r.budget, mode |-> "DESCEND"]
    BY <2>2 DEF IdleState
  <2>4. IsWorkerState(ws', req'.budget)
    <3>1. IsState(ws')
      BY DEF StepInv
    <3>2. /\ ws'.mode = "DESCEND" /\ ws'.frames = <<>>
          /\ ws'.remaining_steps = r.budget
      BY <2>3
    <3>3. ws'.remaining_steps = req'.budget
      BY <2>2, <3>2
    <3> QED
      BY <1>0, <3>1, <3>2, <3>3, NoFrames DEF IsWorkerState, Modes
  <2>5. SuspInv'
    BY <1>0, <1>d, <2>1 DEF SuspInv
  <2>6. FlagInv'
    BY <1>0, <2>1 DEF FlagInv
  <2> QED
    BY <1>a, <2>1, <2>4, <2>5, <2>6 DEF TypeInv
<1>2. CASE AnswerParked
  <2>1. /\ pc' = "idle" /\ ws' = IdleState /\ gas' = 0 /\ susp' = NoSusp
        /\ UNCHANGED <<req, whole, resumed>>
        /\ stdout' = stdout \/ stdout' = <<>>
    BY <1>2 DEF AnswerParked, Answer, histVars
  <2>2. OutInv'
    <3>1. CASE stdout' = <<>>
      <4>1. <<>> \in Seq({}) /\ Len(<<>>) = 0
        OBVIOUS
      <4> QED
        BY <3>1, <4>1, SizesAssumption DEF OutInv, IsSeq
    <3> QED
      BY <1>a, <2>1, <3>1
  <2> QED
    BY <1>0, <1>b, <1>d, <2>1, <2>2, IdleStateTyped DEF TypeInv
<1>3. CASE Resume
  <2>1. /\ ws' = susp.ws /\ susp' = NoSusp /\ pc' = "loop"
        /\ resumed' = TRUE /\ UNCHANGED <<req, gas, stdout, whole>>
    BY <1>3 DEF Resume, ioVars
  <2>2. FlagInv'
    BY <1>0, <2>1 DEF FlagInv
  <2> QED
    BY <1>0, <1>a, <1>d, <2>1, <2>2 DEF TypeInv, SuspInv
<1>4. CASE Arrive
  <2>1. UNCHANGED <<req, pc, ws, gas, susp, stdout, whole, resumed>>
    BY <1>4 DEF Arrive, histVars
  <2> QED
    BY <1>0, <1>a, <2>1 DEF TypeInv, SuspInv, FlagInv, IsWorkerState, IsState
<1>5. CASE Publish
  <2>1. /\ UNCHANGED <<req, pc, ws, gas, susp, whole, resumed>>
        /\ stdout # <<>> /\ stdout' = Tail(stdout)
    BY <1>5 DEF Publish, histVars
  <2>2. IsSeq(stdout') /\ Len(stdout') = Len(stdout) - 1 /\ Len(stdout) \in Nat
    BY <1>0, <2>1, SeqTail DEF OutInv
  <2>3. OutInv'
    BY <1>0, <2>2, SizesAssumption DEF OutInv, IsSeq
  <2> QED
    BY <1>0, <2>1, <2>3 DEF TypeInv, SuspInv, FlagInv, IsWorkerState, IsState
<1>6. CASE StartPlain
  <2>1. /\ pc = "loop" /\ pc' = "run" /\ gas' = Gas
        /\ UNCHANGED <<req, ws, susp, stdout, whole, resumed>>
    BY <1>6 DEF StartPlain, StartsBatch, ioVars, histVars
  <2>2. gas' \in 0 .. Gas
    BY <1>0, <2>1
  <2>3. IsWorkerState(ws', req'.budget)
    BY <1>0, <2>1
  <2> QED
    BY <1>0, <1>a, <1>b, <1>c, <2>1, <2>2, <2>3 DEF TypeInv
<1>7. CASE StartLinked
  <2>1. /\ pc = "loop" /\ pc' = "run" /\ gas' = Gas
        /\ whole' = (whole /\ ws.frames = <<>>)
        /\ UNCHANGED <<req, susp, stdout, resumed>>
    BY <1>7 DEF StartLinked, StartsBatch, ioVars
  <2>2. PICK t : ws' = [ws EXCEPT !.current_val = t, !.frames = <<>>, !.mode = "DESCEND"]
    BY <1>7 DEF StartLinked
  <2>3. ws' = [current_val |-> t, frames |-> <<>>,
               remaining_steps |-> ws.remaining_steps, mode |-> "DESCEND"]
    BY <1>0, <2>2 DEF IsWorkerState, IsState
  <2>4. IsWorkerState(ws', req'.budget)
    BY <1>0, <2>1, <2>3, NoFrames DEF IsWorkerState, IsState, Modes
  <2>5. gas' \in 0 .. Gas
    BY <1>0, <2>1
  <2>6. whole' \in BOOLEAN
    BY <2>1, Zenon
  <2>7. FlagInv'
    BY <1>0, <2>1, <2>5, <2>6, Zenon DEF FlagInv
  <2> QED
    BY <1>a, <1>c, <2>1, <2>4, <2>7 DEF TypeInv
<1>8. CASE StartCached \/ EndBatch
  <2>1. /\ pc # "parked" /\ UNCHANGED <<req, susp, resumed>>
        /\ whole' = whole \/ whole' = (whole /\ ws.frames = <<>>)
    BY <1>8, Zenon DEF StartCached, EndBatch, StartsBatch, histVars
  <2>2. \E b, v : Continue(b, v)
    BY <1>8 DEF StartCached, EndBatch
  <2>3. IsWorkerState(ws', req.budget) /\ gas' = 0 /\ OutInv' /\ pc' \in {"idle", "loop"}
    BY <2>2, ContinueTyped
  <2>4. whole' \in BOOLEAN
    BY <1>0, <2>1, Zenon DEF FlagInv
  <2>5. FlagInv'
    BY <1>0, <2>1, <2>3, <2>4, Zenon DEF FlagInv
  <2> QED
    BY <1>c, <2>1, <2>3, <2>5 DEF TypeInv
<1>9. CASE Parks
  <2>1. /\ pc' = "parked" /\ ws' = IdleState /\ gas' = 0
        /\ susp' = [reason |-> susp'.reason, ws |-> ws] /\ susp'.reason \in Reasons \ {"NONE"}
        /\ UNCHANGED <<req, stdout, whole, resumed>>
    BY <1>9, ParkTyped
  <2>2. susp'.ws = ws
    BY <2>1
  <2>3. SuspInv'
    BY <1>0, <2>1, <2>2 DEF SuspInv
  <2> QED
    BY <1>0, <1>a, <1>b, <2>1, <2>3, IdleStateTyped DEF TypeInv
<1>10. CASE Moves
  <2>1. /\ IsWorkerState(ws', req.budget) /\ gas' = gas - 1 /\ gas > 0
        /\ UNCHANGED <<req, pc, susp, stdout, whole, resumed>>
    BY <1>10, MoveTyped
  <2>2. gas' \in 0 .. Gas
    BY <1>0, <2>1 DEF FlagInv
  <2>3. SuspInv'
    BY <1>0, <2>1 DEF SuspInv, IsWorkerState, IsState
  <2> QED
    BY <1>a, <1>b, <2>1, <2>2, <2>3 DEF TypeInv
<1>11. CASE Charges
  <2>1. /\ IsWorkerState(ws', req.budget) /\ gas' = gas - 1 /\ gas > 0
        /\ OutInv'
        /\ UNCHANGED <<req, pc, susp, whole, resumed>>
    BY <1>11, ChargeTyped
  <2>2. gas' \in 0 .. Gas
    BY <1>0, <2>1 DEF FlagInv
  <2>3. SuspInv'
    BY <1>0, <2>1 DEF SuspInv, IsWorkerState, IsState
  <2> QED
    BY <1>b, <2>1, <2>2, <2>3 DEF TypeInv
<1>12. CASE UNCHANGED vars
  <2>1. UNCHANGED <<req, pc, ws, gas, susp, stdout, whole, resumed>>
    BY <1>12 DEF vars, ioVars, histVars
  <2> QED
    BY <1>0, <1>a, <2>1 DEF TypeInv, SuspInv, FlagInv, IsWorkerState, IsState
<1> QED
  BY <1>1, <1>2, <1>3, <1>4, <1>5, <1>6, <1>7, <1>8, <1>9, <1>10, <1>11, <1>12
     DEF Next, Parks, Moves, Charges

(* workerLoop and step_iterative keep their state in order: a worker never *)
(* goes below its budget, its frames are applications with one subterm in  *)
(* progress, a request has a suspension exactly while it is parked, and    *)
(* the stdout ring never holds more than its capacity.                     *)
THEOREM ReducerTypes == Spec => []TypeOK
<1>1. Spec => [](StepInv /\ TypeInv)
  <2>1. Init => StepInv /\ TypeInv
    BY InitStepInv, InitTypeInv
  <2>2. StepInv /\ TypeInv /\ [Next]_vars => (StepInv /\ TypeInv)'
    BY NextStepInv, NextTypeInv
  <2> QED
    BY <2>1, <2>2, PTL DEF Spec
<1> QED
  BY <1>1, TypeInvSuffices, PTL

-----------------------------------------------------------------------------
(* The reduction a worker is in the middle of.                             *)

(* The subterm a frame waits for, and the node at a depth: that of a frame,*)
(* or the value.                                                           *)
Child(f) == IF f.submode = "LEFT" THEN f.node.left ELSE f.node.right
At(frames, v, n) == IF n <= Len(frames) THEN frames[n].node ELSE v

(* A frame's node cannot contract at its top, its left subterm is settled  *)
(* before the right one is visited, and what the frame waits for reduces to*)
(* what is being worked on.  A value that goes up is a returned one.       *)
Waits(f) == /\ IsTerm(f.node)
            /\ ~ Steps(f.node)
            /\ f.submode = "RIGHT" => Settled(f.node.left)
Works(frames, v, mode) ==
  /\ IsTerm(v)
  /\ \A n \in 1 .. Len(frames) : /\ Waits(frames[n])
                                 /\ ReducesOrIs(Child(frames[n]), At(frames, v, n + 1))
  /\ mode = "RETURN" /\ frames # <<>> => Returns(Child(frames[Len(frames)]), v)

(* The worker state is one of a reduction of t.                            *)
Computes(t, frames, v, mode) ==
  /\ ReducesOrIs(t, At(frames, v, 1))
  /\ mode = "RETURN" /\ frames = <<>> => Returns(t, v)

(* Sequences of frames, as the provers need them.                          *)
LEMMA FrameFacts ==
  ASSUME NEW frames, IsFrames(frames)
  PROVE  /\ Len(frames) \in Nat /\ (frames # <<>> => Len(frames) \in Nat \ {0})
         /\ frames = <<>> => Len(frames) = 0
         /\ \A n \in 1 .. Len(frames) : IsFrame(frames[n])
<1>1. PICK S : frames \in Seq(S)
  BY DEF IsFrames, IsSeq
<1>2. Len(frames) \in Nat /\ (frames # <<>> => Len(frames) # 0) /\ (frames = <<>> => Len(frames) = 0)
  BY <1>1
<1> QED
  BY <1>2 DEF IsFrames

(* Descend.                                                                *)
LEMMA WorksPush ==
  ASSUME NEW frames, IsFrames(frames), NEW v, NEW mode, Works(frames, v, mode), IsApp(v), ~ Steps(v),
         mode = "DESCEND"
  PROVE  LET f == [node |-> v, submode |-> "LEFT"]
         IN  /\ Works(Append(frames, f), v.left, mode)
             /\ At(Append(frames, f), v.left, 1) = At(frames, v, 1)
<1> DEFINE f == [node |-> v, submode |-> "LEFT"]
           more == Append(frames, f)
           n == Len(frames)
<1>1. n \in Nat
  BY FrameFacts
<1>2. /\ Len(more) = n + 1
      /\ \A k \in 1 .. n : more[k] = frames[k]
      /\ more[n + 1] = f
  BY SeqAppend DEF IsFrames
<1>3. f.node = v /\ f.submode = "LEFT" /\ Child(f) = v.left
  BY DEF Child
<1> HIDE DEF f, more
<1>4. \A k \in 1 .. n + 1 : At(more, v.left, k) = At(frames, v, k)
  BY <1>1, <1>2, <1>3 DEF At
<1>5. At(more, v.left, n + 2) = v.left
  BY <1>1, <1>2 DEF At
<1>6. IsTerm(v) /\ IsTerm(v.left)
  BY AppParts DEF Works
<1>7. ASSUME NEW k \in 1 .. n
      PROVE  Waits(more[k]) /\ ReducesOrIs(Child(more[k]), At(more, v.left, k + 1))
  <2>1. k + 1 \in 1 .. n + 1
    BY <1>1
  <2> QED
    BY <1>2, <1>4, <2>1 DEF Works
<1>8. Waits(more[n + 1]) /\ ReducesOrIs(Child(more[n + 1]), At(more, v.left, n + 2))
  BY <1>2, <1>3, <1>5, <1>6 DEF Waits, ReducesOrIs
<1>9. \A k \in 1 .. n + 1 : k \in 1 .. n \/ (k = n + 1 /\ k + 1 = n + 2)
  BY <1>1
<1>10. Works(more, v.left, mode)
  BY <1>2, <1>6, <1>7, <1>8, <1>9 DEF Works
<1>11. At(more, v.left, 1) = At(frames, v, 1)
  BY <1>1, <1>4
<1> QED
  BY <1>10, <1>11 DEF more, f

(* The node of the top frame is returned as u.                             *)
LEMMA WorksPop ==
  ASSUME NEW frames, IsFrames(frames), frames # <<>>, NEW v, NEW mode, Works(frames, v, mode),
         NEW u, IsTerm(u), Returns(frames[Len(frames)].node, u),
         NEW t, ReducesOrIs(t, At(frames, v, 1))
  PROVE  Works(Front(frames), u, "RETURN") /\ Computes(t, Front(frames), u, "RETURN")
<1> DEFINE less == Front(frames)
           n == Len(frames)
           top == frames[n].node
<1>1. n \in Nat \ {0}
  BY FrameFacts
<1>2. IsFrames(less) /\ Len(less) = n - 1 /\ \A k \in 1 .. n - 1 : less[k] = frames[k]
  BY SeqFront, PopFrame DEF IsFrames
<1> HIDE DEF less
<1>3. Returns(top, u) /\ ReducesOrIs(top, u)
  BY ReturnsReduces
<1>4. \A k \in 1 .. n - 1 : At(less, u, k) = At(frames, v, k)
  BY <1>1, <1>2 DEF At
<1>5. At(less, u, n) = u /\ At(frames, v, n) = top
  BY <1>1, <1>2 DEF At
<1> HIDE DEF top
<1>6. ASSUME NEW k \in 1 .. n - 1
      PROVE  /\ Waits(less[k]) /\ ReducesOrIs(Child(less[k]), At(frames, v, k + 1))
             /\ ReducesOrIs(Child(less[k]), At(less, u, k + 1))
  <2>1. k \in 1 .. n /\ (k + 1 \in 1 .. n - 1 \/ k + 1 = n)
    BY <1>1
  <2>2. Waits(less[k]) /\ ReducesOrIs(Child(less[k]), At(frames, v, k + 1))
    <3>1. Waits(frames[k]) /\ ReducesOrIs(Child(frames[k]), At(frames, v, k + 1))
      BY <2>1 DEF Works
    <3> QED
      BY <1>2, <3>1
  <2>3. CASE k + 1 \in 1 .. n - 1
    BY <1>4, <2>2, <2>3
  <2>4. CASE k + 1 = n
    BY <1>3, <1>5, <2>2, <2>4, ReducesOrIsFurther
  <2> QED
    BY <2>1, <2>2, <2>3, <2>4
<1>7. less # <<>> => Returns(Child(less[n - 1]), u)
  <2> SUFFICES ASSUME less # <<>> PROVE Returns(Child(less[n - 1]), u)
    OBVIOUS
  <2>1. n - 1 \in 1 .. n - 1 /\ (n - 1) + 1 = n
    BY <1>1, <1>2, FrameFacts
  <2>2. ReducesOrIs(Child(less[n - 1]), top)
    BY <1>5, <1>6, <2>1
  <2> QED
    BY <1>3, <2>2, ReturnsAfter
<1>8. Works(less, u, "RETURN")
  BY <1>2, <1>6, <1>7 DEF Works
<1>9. CASE n = 1
  <2>1. ReducesOrIs(t, top) /\ At(less, u, 1) = u
    BY <1>5, <1>9
  <2>2. Returns(t, u) /\ ReducesOrIs(t, u)
    BY <1>3, <2>1, ReturnsAfter, ReducesOrIsFurther
  <2> QED
    BY <1>8, <2>1, <2>2 DEF Computes, less
<1>10. CASE n # 1
  <2>1. \A m \in Nat \ {0} : m # 1 => 1 \in 1 .. m - 1
    OBVIOUS
  <2>2. less # <<>>
    BY <1>1, <1>2, <1>10, FrameFacts
  <2>3. 1 \in 1 .. n - 1
    BY <1>1, <1>10, <2>1, Zenon
  <2> QED
    BY <1>4, <1>8, <2>2, <2>3 DEF Computes, less
<1> QED
  BY <1>9, <1>10

(* The left subterm of the top frame came back as it was.                  *)
LEMMA WorksTurn ==
  ASSUME NEW frames, IsFrames(frames), frames # <<>>, NEW v, Works(frames, v, "RETURN"),
         frames[Len(frames)].submode = "LEFT", v = frames[Len(frames)].node.left
  PROVE  LET turned == [frames EXCEPT ![Len(frames)].submode = "RIGHT"]
             w == frames[Len(frames)].node.right
         IN  Works(turned, w, "DESCEND") /\ At(turned, w, 1) = At(frames, v, 1)
<1> DEFINE n == Len(frames)
           f == [frames[n] EXCEPT !.submode = "RIGHT"]
           turned == [frames EXCEPT ![n] = f]
           node == frames[n].node
           w == node.right
<1>1. n \in Nat \ {0} /\ n \in 1 .. n /\ IsFrame(frames[n])
  BY FrameFacts
<1>2. f = [node |-> node, submode |-> "RIGHT"]
  BY <1>1 DEF IsFrame
<1>3. f.node = node /\ f.submode = "RIGHT" /\ Child(f) = w
  BY <1>2 DEF Child
<1>4. PICK S : frames \in Seq(S)
  BY DEF IsFrames, IsSeq
<1>5. DOMAIN frames = 1 .. n /\ frames \in Seq(S \cup {f})
  BY <1>4
<1> HIDE DEF f
<1>6. Len(turned) = n /\ turned[n] = f /\ \A k \in 1 .. n - 1 : turned[k] = frames[k]
  BY <1>1, <1>5, ExceptSeq
<1> HIDE DEF turned
<1>7. Waits(frames[n]) /\ IsTerm(node) /\ IsApp(node)
  BY <1>1 DEF Works, Waits, IsFrame
<1>8. IsTerm(w) /\ Settled(v)
  <2>1. Returns(node.left, v)
    <3>1. Returns(Child(frames[n]), v)
      BY DEF Works
    <3> QED
      BY <3>1 DEF Child
  <2> QED
    BY <1>7, <2>1, AppParts, ReturnsReduces
<1>9. Waits(f)
  BY <1>3, <1>7, <1>8 DEF Waits
<1>10. \A k \in 1 .. n : At(turned, w, k) = At(frames, v, k)
  <2>1. \A k \in 1 .. n : k \in 1 .. n - 1 \/ k = n
    BY <1>1
  <2> QED
    BY <1>1, <1>3, <1>6, <2>1 DEF At
<1>11. At(turned, w, n + 1) = w
  BY <1>1, <1>6 DEF At
<1>12. ASSUME NEW k \in 1 .. n - 1
       PROVE  Waits(turned[k]) /\ ReducesOrIs(Child(turned[k]), At(turned, w, k + 1))
  <2>1. k \in 1 .. n /\ k + 1 \in 1 .. n
    BY <1>1
  <2> QED
    BY <1>6, <1>10, <2>1 DEF Works
<1>13. Waits(turned[n]) /\ ReducesOrIs(Child(turned[n]), At(turned, w, n + 1))
  BY <1>3, <1>6, <1>9, <1>11 DEF ReducesOrIs
<1>14. \A k \in 1 .. n : k \in 1 .. n - 1 \/ k = n
  BY <1>1
<1>15. Works(turned, w, "DESCEND")
  BY <1>6, <1>8, <1>12, <1>13, <1>14 DEF Works
<1>16. At(turned, w, 1) = At(frames, v, 1)
  BY <1>1, <1>10
<1>17. [frames EXCEPT ![n].submode = "RIGHT"] = turned
  BY DEF turned, f
<1> QED
  BY <1>15, <1>16, <1>17

(* The value reduces where it is.                                          *)
LEMMA WorksValue ==
  ASSUME NEW frames, IsFrames(frames), NEW v, NEW mode, Works(frames, v, mode),
         NEW u, ReducesOrIs(v, u), IsTerm(u),
         NEW t, ReducesOrIs(t, At(frames, v, 1))
  PROVE  Works(frames, u, "DESCEND") /\ Computes(t, frames, u, "DESCEND")
<1> DEFINE n == Len(frames)
<1>1. n \in Nat
  BY FrameFacts
<1>2. \A k \in 1 .. n : At(frames, u, k) = At(frames, v, k)
  BY DEF At
<1>3. At(frames, u, n + 1) = u /\ At(frames, v, n + 1) = v
  BY <1>1 DEF At
<1>4. ASSUME NEW k \in 1 .. n PROVE Waits(frames[k]) /\ ReducesOrIs(Child(frames[k]), At(frames, u, k + 1))
  <2>1. k + 1 \in 1 .. n \/ k = n
    BY <1>1
  <2>2. Waits(frames[k]) /\ ReducesOrIs(Child(frames[k]), At(frames, v, k + 1))
    BY DEF Works
  <2> QED
    BY <1>2, <1>3, <2>1, <2>2, ReducesOrIsFurther
<1>5. Works(frames, u, "DESCEND")
  BY <1>4 DEF Works
<1>6. ReducesOrIs(t, At(frames, u, 1))
  <2>1. CASE n = 0
    BY <1>3, <2>1, ReducesOrIsFurther
  <2>2. CASE n # 0
    BY <1>1, <1>2, <2>2
  <2> QED
    BY <2>1, <2>2
<1> QED
  BY <1>5, <1>6 DEF Computes

(* A leaf is returned as it is.                                            *)
LEMMA WorksLeaf ==
  ASSUME NEW frames, IsFrames(frames), NEW v, NEW mode, Works(frames, v, mode), ~ IsApp(v),
         NEW t, ReducesOrIs(t, At(frames, v, 1))
  PROVE  Works(frames, v, "RETURN") /\ Computes(t, frames, v, "RETURN")
<1> DEFINE n == Len(frames)
<1>1. n \in Nat /\ (frames # <<>> => n \in 1 .. n) /\ (frames = <<>> => n = 0)
  BY FrameFacts
<1>2. At(frames, v, n + 1) = v
  BY <1>1 DEF At
<1>3. Returns(v, v)
  BY LeafIsNormal DEF Returns
<1>4. frames # <<>> => Returns(Child(frames[n]), v)
  <2>1. frames # <<>> => ReducesOrIs(Child(frames[n]), v)
    BY <1>1, <1>2 DEF Works
  <2> QED
    BY <1>3, <2>1, ReturnsAfter
<1>5. frames = <<>> => Returns(t, v)
  <2>1. frames = <<>> => ReducesOrIs(t, v)
    BY <1>1, <1>2
  <2> QED
    BY <1>3, <2>1, ReturnsAfter
<1> QED
  BY <1>4, <1>5 DEF Works, Computes

-----------------------------------------------------------------------------
(* Following the links.                                                    *)

(* What a node is linked to is what a reducer may return for it.           *)
LinkInv == IsFiniteSet(DOMAIN links) /\ \A n \in DOMAIN links : Returns(n, links[n])

Hop(n) == IF n \in DOMAIN links THEN links[n] ELSE n
Hops(h, start, m) == \A n \in 0 .. m : h[n] = IF n = 0 THEN start ELSE Hop(h[n - 1])

(* There are paths of any length, and only one from a node.                *)
LEMMA HopsExist ==
  ASSUME NEW start
  PROVE  \A m \in Nat : \E h : Hops(h, start, m)
<1> DEFINE S == {m \in Nat : \E h : Hops(h, start, m)}
<1>1. 0 \in S
  <2> DEFINE h == [n \in 0 .. 0 |-> start]
  <2>1. \A n \in 0 .. 0 : n = 0 /\ h[n] = start
    OBVIOUS
  <2>2. Hops(h, start, 0)
    BY <2>1 DEF Hops
  <2> QED
    BY <2>2
<1>2. ASSUME NEW m \in Nat, m \in S PROVE m + 1 \in S
  <2>1. PICK g : Hops(g, start, m)
    BY <1>2
  <2> DEFINE h == [n \in 0 .. m + 1 |-> IF n = m + 1 THEN Hop(g[m]) ELSE g[n]]
  <2>2. h[m + 1] = Hop(g[m]) /\ \A n \in 0 .. m : h[n] = g[n]
    OBVIOUS
  <2> HIDE DEF h
  <2>3. ASSUME NEW n \in 0 .. m + 1 PROVE h[n] = IF n = 0 THEN start ELSE Hop(h[n - 1])
    <3>1. CASE n = m + 1
      <4>1. n # 0 /\ n - 1 = m /\ m \in 0 .. m
        BY <3>1
      <4>2. h[n] = Hop(g[m]) /\ h[n - 1] = g[m]
        BY <2>2, <3>1, <4>1
      <4> QED
        BY <4>1, <4>2
    <3>2. CASE n \in 0 .. m
      <4>1. g[n] = IF n = 0 THEN start ELSE Hop(g[n - 1])
        BY <2>1, <3>2 DEF Hops
      <4>2. n = 0 \/ n - 1 \in 0 .. m
        BY <3>2
      <4> QED
        BY <2>2, <3>2, <4>1, <4>2
    <3> QED
      BY <3>1, <3>2
  <2>4. Hops(h, start, m + 1)
    BY <2>3 DEF Hops
  <2> QED
    BY <2>4
<1> HIDE DEF S
<1>3. \A m \in Nat : m \in S
  BY <1>1, <1>2, SetInduction
<1> QED
  BY <1>3 DEF S

(* Paths from one node agree.                                              *)
LEMMA HopsUnique ==
  ASSUME NEW start, NEW m \in Nat, NEW g, Hops(g, start, m), NEW o \in Nat, NEW h, Hops(h, start, o)
  PROVE  \A n \in Nat : n <= m /\ n <= o => g[n] = h[n]
<1> DEFINE S == {n \in Nat : n <= m /\ n <= o => g[n] = h[n]}
<1>1. 0 \in S
  <2>1. 0 \in 0 .. m /\ 0 \in 0 .. o
    OBVIOUS
  <2>2. g[0] = start /\ h[0] = start
    BY <2>1 DEF Hops
  <2> QED
    BY <2>2
<1>2. ASSUME NEW n \in Nat, n \in S PROVE n + 1 \in S
  <2> SUFFICES ASSUME n + 1 <= m, n + 1 <= o PROVE g[n + 1] = h[n + 1]
    OBVIOUS
  <2>1. n + 1 \in 0 .. m /\ n + 1 \in 0 .. o /\ n + 1 # 0 /\ (n + 1) - 1 = n
    OBVIOUS
  <2>2. g[n + 1] = Hop(g[(n + 1) - 1]) /\ h[n + 1] = Hop(h[(n + 1) - 1])
    BY <2>1 DEF Hops
  <2>3. g[n] = h[n]
    BY <1>2
  <2> QED
    BY <2>1, <2>2, <2>3
<1> HIDE DEF S
<1>3. \A n \in Nat : n \in S
  BY <1>1, <1>2, SetInduction
<1> QED
  BY <1>3 DEF S

(* So the recursive function of LinkPath is what its equation says.        *)
LEMMA PathHops ==
  ASSUME NEW start, Cardinality(DOMAIN links) \in Nat
  PROVE  Hops(LinkPath(start), start, Cardinality(DOMAIN links))
<1> DEFINE N == Cardinality(DOMAIN links)
           eq(h) == h = [k \in Nat |-> IF k = 0 THEN start
                                       ELSE LET n == h[k - 1]
                                            IN  IF n \in DOMAIN links THEN links[n] ELSE n]
           some(m) == CHOOSE g : Hops(g, start, m)
           f == [m \in Nat |-> some(m)[m]]
<1>1. \A m \in Nat : Hops(some(m), start, m)
  BY HopsExist
<1>2. ASSUME NEW m \in Nat PROVE f[m] = IF m = 0 THEN start ELSE Hop(f[m - 1])
  <2>1. f[m] = some(m)[m] /\ m \in 0 .. m
    OBVIOUS
  <2>2. some(m)[m] = IF m = 0 THEN start ELSE Hop(some(m)[m - 1])
    BY <1>1, <2>1 DEF Hops
  <2>3. CASE m # 0
    <3>1. m - 1 \in Nat /\ m - 1 <= m
      BY <2>3
    <3>2. some(m)[m - 1] = some(m - 1)[m - 1]
      <4> HIDE DEF some
      <4> QED
        BY <1>1, <3>1, HopsUnique
    <3> QED
      BY <2>1, <2>2, <2>3, <3>1, <3>2
  <2> QED
    BY <2>1, <2>2, <2>3
<1>3. eq(f)
  <2> HIDE DEF some
  <2>1. f = [m \in Nat |-> f[m]]
    OBVIOUS
  <2> HIDE DEF f
  <2>2. \A m \in Nat : f[m] = IF m = 0 THEN start
                              ELSE LET n == f[m - 1]
                                   IN  IF n \in DOMAIN links THEN links[n] ELSE n
    BY <1>2 DEF Hop
  <2> QED
    BY <2>1, <2>2
<1> DEFINE hop == CHOOSE h : eq(h)
<1>4. eq(hop)
  <2> HIDE DEF eq, f
  <2> QED
    BY <1>3
<1>5. LinkPath(start) = [k \in 0 .. N |-> hop[k]]
  BY DEF LinkPath
<1>6. \A n \in Nat : hop[n] = IF n = 0 THEN start ELSE Hop(hop[n - 1])
  <2> HIDE DEF hop
  <2> QED
    BY <1>4 DEF Hop
<1> HIDE DEF hop, N
<1>7. ASSUME NEW n \in 0 .. N
      PROVE  LinkPath(start)[n] = IF n = 0 THEN start ELSE Hop(LinkPath(start)[n - 1])
  <2>1. n \in Nat /\ (n # 0 => n - 1 \in 0 .. N)
    BY DEF N
  <2> QED
    BY <1>5, <1>6, <2>1
<1>8. Hops(LinkPath(start), start, N)
  BY <1>7 DEF Hops
<1> QED
  BY <1>8 DEF N

(* Every node of the path reduces to its end.                              *)
LEMMA ChaseFacts ==
  ASSUME LinkInv, NEW start
  PROVE  LET chase == chase_link_path(start)
         IN  /\ start \in chase.path
             /\ IsFiniteSet(chase.path)
             /\ \A n \in chase.path : ReducesOrIs(n, chase.end)
             /\ chase.fixpoint => chase.end \in DOMAIN links /\ links[chase.end] = chase.end
<1> DEFINE N == Cardinality(DOMAIN links)
           p == LinkPath(start)
           chase == chase_link_path(start)
<1>1. N \in Nat
  BY FS_CardinalityType DEF LinkInv
<1>2. Hops(p, start, N)
  BY <1>1, PathHops
<1>3. DOMAIN p = 0 .. N
  BY DEF LinkPath
<1>4. /\ chase.end = p[N]
      /\ chase.path = {p[k] : k \in 0 .. N}
      /\ chase.fixpoint = (p[N] \in DOMAIN links /\ links[p[N]] = p[N])
  BY <1>3 DEF chase_link_path
<1> HIDE DEF N, p, chase
<1>5. \A n : ReducesOrIs(n, Hop(n))
  BY ReturnsReduces DEF LinkInv, Hop, ReducesOrIs
<1> DEFINE S == {m \in Nat : m <= N => \A n \in 0 .. m : ReducesOrIs(p[n], p[m])}
<1>6. 0 \in S
  <2>1. \A n \in 0 .. 0 : n = 0
    OBVIOUS
  <2> QED
    BY <2>1 DEF ReducesOrIs
<1>7. ASSUME NEW m \in Nat, m \in S PROVE m + 1 \in S
  <2> SUFFICES ASSUME m + 1 <= N, NEW n \in 0 .. m + 1 PROVE ReducesOrIs(p[n], p[m + 1])
    OBVIOUS
  <2>1. CASE n = m + 1
    BY <2>1 DEF ReducesOrIs
  <2>2. CASE n \in 0 .. m
    <3>1. ReducesOrIs(p[n], p[m])
      BY <1>1, <1>7, <2>2
    <3>2. m + 1 \in 0 .. N /\ m + 1 # 0 /\ (m + 1) - 1 = m
      BY <1>1
    <3>3. p[m + 1] = Hop(p[m])
      BY <1>2, <3>2 DEF Hops
    <3> QED
      BY <1>5, <3>1, <3>3, ReducesOrIsFurther
  <2> QED
    BY <2>1, <2>2
<1> HIDE DEF S
<1>8. N \in S
  BY <1>1, <1>6, <1>7, SetInduction
<1>9. \A n \in 0 .. N : ReducesOrIs(p[n], p[N])
  BY <1>1, <1>8 DEF S
<1>10. p[0] = start /\ 0 \in 0 .. N
  BY <1>1, <1>2 DEF Hops
<1>11. IsFiniteSet(chase.path)
  <2>1. IsFiniteSet(0 .. N)
    BY <1>1, FS_Interval
  <2> DEFINE g == [k \in 0 .. N |-> p[k]]
  <2>2. g \in Surjection(0 .. N, chase.path)
    BY <1>4 DEF Surjection
  <2> QED
    BY <2>1, <2>2, FS_Surjection
<1> QED
  BY <1>4, <1>9, <1>10, <1>11, Zenon DEF chase

-----------------------------------------------------------------------------
(* The invariant.                                                          *)

StateWorks(s) == Works(s.frames, s.current_val, s.mode)
StateComputes(t, s) == Computes(t, s.frames, s.current_val, s.mode)
Root(s) == At(s.frames, s.current_val, 1)

(* A request that has kept its frames is still being reduced.              *)
RequestInv == whole => /\ pc \in {"loop", "run"} => ReducesOrIs(req.term, Root(ws))
                       /\ pc = "parked" => ReducesOrIs(req.term, Root(susp.ws))

(* Between batches there are frames only after a resume.                   *)
LoopInv == pc = "loop" /\ ~ resumed => ws.frames = <<>> /\ ws.mode = "DESCEND"

(* What a batch works on: the nodes it will link; on mapped files, and for *)
(* a cycle of links, the term it started from, unless it continues frames. *)
Starts == batch.path \cup (IF resumed THEN {} ELSE {batch.before})
BatchInv == pc = "run" => /\ \A t \in Starts : StateComputes(t, ws)
                          /\ IsFiniteSet(batch.path)
                          /\ batch.path # {} => batch.before \in batch.path

(* The answer of a request that has kept its frames is a reduct of it.     *)
AnswersAreReducts == outcome.kind = "DONE" /\ whole => ReducesOrIs(req.term, outcome.value)

(* What the program reads and writes.                                      *)
ByteInv == /\ stdin \in Seq(Bytes) /\ late \in Seq(Bytes)
           /\ stdout \in Seq(Bytes) /\ published \in Seq(Bytes)

ReductionInv == /\ StateWorks(ws) /\ StateWorks(susp.ws)
                /\ RequestInv /\ LoopInv /\ BatchInv /\ LinkInv /\ AnswersAreReducts

(* Without frames.                                                         *)
LEMMA WorksBare ==
  ASSUME NEW v, IsTerm(v), NEW mode
  PROVE  Works(<<>>, v, mode) /\ At(<<>>, v, 1) = v
<1>1. Len(<<>>) = 0 /\ \A n \in 1 .. 0 : FALSE
  OBVIOUS
<1>2. At(<<>>, v, 1) = v
  BY <1>1 DEF At
<1> QED
  BY <1>1, <1>2 DEF Works

(* An idle worker is in the middle of nothing.                             *)
LEMMA IdleWorks == StateWorks(IdleState) /\ NoSusp.ws = IdleState
<1>1. IsTerm(allocTerminal("I"))
  BY LeafIsTerm DEF Leaves, Symbols
<1>2. /\ IdleState.frames = <<>> /\ IdleState.current_val = allocTerminal("I")
      /\ IdleState.mode = "DESCEND"
  BY DEF IdleState
<1> QED
  BY <1>1, <1>2, WorksBare DEF StateWorks, NoSusp

(* The terms of the requests are terms.                                    *)
LEMMA LoadedAreTerms ==
  ASSUME NEW t \in Loaded
  PROVE  IsTerm(t)
<1>1. ASSUME NEW x \in Loaded PROVE IsNode(x, Loaded)
  <2>1. CASE x \in Leaves
    BY <2>1 DEF IsNode
  <2>2. CASE x \notin Leaves
    <3>1. x \in Applications
      BY <2>2 DEF Applications
    <3>2. x.left \in Loaded /\ x.right \in Loaded /\ x = allocCons(x.left, x.right)
      BY <3>1, LoadedAssumption
    <3> QED
      BY <3>2 DEF IsNode
  <2> QED
    BY <2>1, <2>2
<1> QED
  BY <1>1 DEF IsTerm

(* Every initial state has the invariant.                                  *)
LEMMA InitReductionInv == Init => ReductionInv /\ ByteInv
<1> SUFFICES ASSUME Init PROVE ReductionInv /\ ByteInv
  OBVIOUS
<1>1. StateWorks(ws) /\ StateWorks(susp.ws)
  BY IdleWorks DEF Init
<1>2. LinkInv
  <2>1. DOMAIN links = {}
    BY DEF Init
  <2> QED
    BY <2>1, FS_EmptySet DEF LinkInv
<1>3. RequestInv /\ LoopInv /\ BatchInv /\ AnswersAreReducts
  BY DEF Init, RequestInv, LoopInv, BatchInv, AnswersAreReducts
<1>4. ByteInv
  BY DEF Init, ByteInv
<1> QED
  BY <1>1, <1>2, <1>3, <1>4 DEF ReductionInv

(* What is known of the worker before a step.                              *)
LEMMA WorkerFacts ==
  ASSUME StepInv, TypeInv
  PROVE  /\ IsFrames(ws.frames) /\ ws.mode \in Modes
         /\ ws = [current_val |-> ws.current_val, frames |-> ws.frames,
                  remaining_steps |-> ws.remaining_steps, mode |-> ws.mode]
BY DEF StepInv, TypeInv, IsWorkerState, IsState

(* An iteration that moves carries on every reduction it is part of.       *)
LEMMA MoveWorks ==
  ASSUME StepInv, TypeInv, StateWorks(ws), Moves, NEW t, ReducesOrIs(t, Root(ws))
  PROVE  StateWorks(ws') /\ StateComputes(t, ws')
<1> DEFINE F == ws.frames
           v == ws.current_val
           n == Len(F)
           top == F[n]
<1>0. /\ IsFrames(F) /\ ws.mode \in Modes
      /\ ws = [current_val |-> v, frames |-> F,
               remaining_steps |-> ws.remaining_steps, mode |-> ws.mode]
  BY WorkerFacts
<1>1. Works(F, v, ws.mode) /\ IsTerm(v) /\ ReducesOrIs(t, At(F, v, 1))
  BY DEF StateWorks, Works, Root
<1>2. ASSUME F # <<>>
      PROVE  /\ n \in Nat \ {0} /\ n \in 1 .. n /\ IsFrame(top)
             /\ Waits(top) /\ IsApp(top.node) /\ top.node = allocCons(top.node.left, top.node.right)
             /\ IsTerm(top.node.left) /\ IsTerm(top.node.right)
             /\ ws.mode = "RETURN" => Returns(Child(top), v)
  <2>1. n \in Nat \ {0} /\ n \in 1 .. n /\ IsFrame(top)
    BY <1>0, <1>2, FrameFacts
  <2>2. Waits(top) /\ (ws.mode = "RETURN" => Returns(Child(top), v))
    BY <1>1, <1>2, <2>1 DEF Works
  <2>3. IsApp(top.node) /\ IsTerm(top.node)
    BY <2>1, <2>2 DEF IsFrame, Waits
  <2> QED
    BY <2>1, <2>2, <2>3, AppParts
<1>3. CASE ReturnLeft
  <2>1. F # <<>> /\ top.submode = "LEFT" /\ ws.mode = "RETURN"
    BY <1>3 DEF ReturnLeft, Top, Iterates
  <2>2. Returns(top.node.left, v)
    <3>1. Returns(Child(top), v)
      BY <1>2, <2>1
    <3> QED
      BY <2>1, <3>1 DEF Child
  <2>3. CASE v # top.node.left
    <3> DEFINE u == allocCons(v, top.node.right)
    <3>1. ws' = [ws EXCEPT !.frames = Front(F), !.current_val = u]
      BY <1>3, <2>3 DEF ReturnLeft, Top
    <3>2. ws'.frames = Front(F) /\ ws'.current_val = u /\ ws'.mode = "RETURN"
      BY <1>0, <2>1, <3>1
    <3>3. Returns(top.node, u) /\ IsTerm(u)
      <4>1. Reduces(top.node.left, v)
        BY <2>2, <2>3 DEF Returns
      <4>2. Reduces(top.node, u)
        BY <1>2, <2>1, <4>1, ReducesLeft
      <4> QED
        BY <1>1, <1>2, <2>1, <4>2, ConsIsTerm DEF Returns
    <3> QED
      BY <1>0, <1>1, <2>1, <3>2, <3>3, WorksPop DEF StateWorks, StateComputes
  <2>4. CASE v = top.node.left
    <3>1. ws' = [ws EXCEPT !.frames[n].submode = "RIGHT", !.current_val = top.node.right,
                           !.mode = "DESCEND"]
      BY <1>3, <2>4 DEF ReturnLeft, Top
    <3>2. /\ ws'.frames = [F EXCEPT ![n].submode = "RIGHT"]
          /\ ws'.current_val = top.node.right /\ ws'.mode = "DESCEND"
      BY <1>0, <3>1
    <3>3. Works(ws'.frames, ws'.current_val, "DESCEND") /\ Root(ws') = Root(ws)
      BY <1>0, <1>1, <2>1, <2>4, <3>2, WorksTurn DEF Root
    <3> QED
      BY <3>2, <3>3 DEF StateWorks, StateComputes, Computes, Root
  <2> QED
    BY <2>3, <2>4
<1>4. CASE ReturnRight
  <2>1. F # <<>> /\ top.submode = "RIGHT" /\ ws.mode = "RETURN"
    BY <1>4 DEF ReturnRight, Top, Iterates
  <2> DEFINE u == allocCons(top.node.left, v)
  <2>2. ws' = [ws EXCEPT !.frames = Front(F), !.current_val = u]
    BY <1>4 DEF ReturnRight, Top
  <2>3. ws'.frames = Front(F) /\ ws'.current_val = u /\ ws'.mode = "RETURN"
    BY <1>0, <2>1, <2>2
  <2>4. Returns(top.node.right, v)
    <3>1. Returns(Child(top), v)
      BY <1>2, <2>1
    <3> QED
      BY <2>1, <3>1 DEF Child
  <2>5. Returns(top.node, u)
    BY <1>2, <2>1, <2>4, ReturnsApplication DEF Waits
  <2>6. IsTerm(u)
    BY <1>1, <1>2, <2>1, ConsIsTerm
  <2> QED
    BY <1>0, <1>1, <2>1, <2>3, <2>5, <2>6, WorksPop DEF StateWorks, StateComputes
<1>5. CASE Stuck
  <2>1. ~ IsApp(v) /\ ws' = [ws EXCEPT !.mode = "RETURN"]
    BY <1>5 DEF Stuck
  <2>2. ws'.frames = F /\ ws'.current_val = v /\ ws'.mode = "RETURN"
    BY <1>0, <2>1
  <2> QED
    BY <1>0, <1>1, <2>1, <2>2, WorksLeaf DEF StateWorks, StateComputes
<1>6. CASE Descend
  <2> DEFINE f == [node |-> v, submode |-> "LEFT"]
  <2>1. IsApp(v) /\ ~ Steps(v) /\ ws.mode = "DESCEND"
        /\ ws' = [ws EXCEPT !.frames = Append(@, f), !.current_val = v.left]
    BY <1>6 DEF Descend, Iterates
  <2>2. ws'.frames = Append(F, f) /\ ws'.current_val = v.left /\ ws'.mode = "DESCEND"
    BY <1>0, <2>1
  <2>3. Works(ws'.frames, ws'.current_val, ws'.mode) /\ Root(ws') = Root(ws)
    BY <1>0, <1>1, <2>1, <2>2, WorksPush DEF Root
  <2> QED
    BY <2>2, <2>3 DEF StateWorks, StateComputes, Computes, Root
<1> QED
  BY <1>3, <1>4, <1>5, <1>6 DEF Moves

(* So does a contraction, a read or a write.                               *)
LEMMA ChargeContracts ==
  ASSUME StepInv, TypeInv, ByteInv, Charges
  PROVE  \E u : Contracts(ws.current_val, u) /\ ReducesTo(u) /\ ws.mode = "DESCEND"
<1>1. CASE Contract
  BY <1>1 DEF Contract, MayStep, Iterates, Contracts
<1>2. CASE Read
  <2>1. stdin # <<>> /\ IsRead(ws.current_val) /\ ReducesTo(AfterRead(ws.current_val, Head(stdin)))
        /\ ws.mode = "DESCEND"
    BY <1>2 DEF Read, MayStep, Iterates
  <2>2. Head(stdin) \in Bytes
    BY <2>1 DEF ByteInv
  <2> QED
    BY <2>1, <2>2 DEF Contracts
<1>3. CASE WriteRing
  BY <1>3 DEF WriteRing, MayStep, Iterates, Contracts
<1>4. CASE WriteFile
  BY <1>4 DEF WriteFile, MayStep, Iterates, Contracts
<1> QED
  BY <1>1, <1>2, <1>3, <1>4 DEF Charges

(* So does one that contracts, reads or writes at the top of its value.    *)
LEMMA ChargeWorks ==
  ASSUME StepInv, TypeInv, ByteInv, StateWorks(ws), Charges, NEW t, ReducesOrIs(t, Root(ws))
  PROVE  StateWorks(ws') /\ StateComputes(t, ws')
<1>0. /\ IsFrames(ws.frames)
      /\ ws = [current_val |-> ws.current_val, frames |-> ws.frames,
               remaining_steps |-> ws.remaining_steps, mode |-> ws.mode]
  BY WorkerFacts
<1>1. PICK u : Contracts(ws.current_val, u) /\ ReducesTo(u) /\ ws.mode = "DESCEND"
  BY ChargeContracts
<1>2. ws' = [ws EXCEPT !.current_val = u, !.remaining_steps = @ - 1]
  BY <1>1 DEF ReducesTo
<1>3. ws'.frames = ws.frames /\ ws'.current_val = u /\ ws'.mode = "DESCEND"
  BY <1>0, <1>1, <1>2
<1>4. IsTerm(u) /\ ReducesOrIs(ws.current_val, u)
  BY <1>1, ContractsToTerm, ContractionReduces DEF StateWorks, Works, ReducesOrIs
<1> QED
  BY <1>0, <1>3, <1>4, WorksValue DEF StateWorks, StateComputes, Root

(* Bytes stay bytes on their way in and out.                               *)
LEMMA WritesByte ==
  ASSUME StateWorks(ws), IsWrite(ws.current_val)
  PROVE  ws.current_val.left.right.byte \in Bytes
<1> DEFINE v == ws.current_val
<1>1. IsTerm(v) /\ IsApp(v) /\ IsApp(v.left) /\ IsByte(v.left.right)
  BY DEF StateWorks, Works, IsWrite, Applied2, Applied1
<1>2. IsTerm(v.left)
  BY <1>1, AppParts
<1>3. IsTerm(v.left.right)
  BY <1>1, <1>2, AppParts
<1> QED
  BY <1>1, <1>3, ByteFacts

(* A request of the session is one with a term and bytes.                  *)
LEMMA RequestFacts ==
  ASSUME StepInv, Request
  PROVE  LET r == Head(session)
         IN  /\ r \in AllRequests /\ IsTerm(r.term)
             /\ r.given \in Seq(Bytes) /\ r.late \in Seq(Bytes)
<1>1. Head(session) \in AllRequests
  BY DEF StepInv, Request
<1>2. Head(session).term \in Loaded
  BY <1>1, SessionsAssumption
<1> QED
  BY <1>1, <1>2, SessionsAssumption, LoadedAreTerms

(* Every step keeps the bytes.                                             *)
LEMMA NextByteInv ==
  ASSUME StepInv, ByteInv, StateWorks(ws), [Next]_vars
  PROVE  ByteInv'
<1>a. ASSUME UNCHANGED <<stdin, late, stdout, published>> PROVE ByteInv'
  BY <1>a DEF ByteInv
<1>b. ASSUME NEW kind, NEW value, Answer(kind, value), UNCHANGED <<stdin, late>> PROVE ByteInv'
  <2>1. CASE kind = "ERROR"
    <3>1. stdout' = stdout /\ published' = published
      BY <1>b, <2>1 DEF Answer
    <3> QED
      BY <1>a, <1>b, <3>1
  <2>2. CASE kind # "ERROR"
    <3>1. published' = published \o stdout /\ stdout' = <<>>
      BY <1>b, <2>2 DEF Answer
    <3> QED
      BY <1>b, <3>1 DEF ByteInv
  <2> QED
    BY <2>1, <2>2
<1>c. ASSUME NEW before, NEW value, Continue(before, value), UNCHANGED <<stdin, late>>
      PROVE  ByteInv'
  <2>1. CASE value = before
    BY <1>b, <1>c, <2>1 DEF Continue
  <2>2. CASE value # before
    BY <1>c, <2>2 DEF Continue, ByteInv
  <2> QED
    BY <2>1, <2>2
<1>1. CASE Request
  <2>1. Head(session).given \in Seq(Bytes) /\ Head(session).late \in Seq(Bytes)
    BY <1>1, RequestFacts
  <2>2. /\ stdin' = stdin \o Head(session).given /\ late' = Head(session).late
        /\ published' = <<>> /\ stdout' = stdout
    BY <1>1 DEF Request
  <2> QED
    BY <2>1, <2>2 DEF ByteInv
<1>2. CASE AnswerParked
  BY <1>2, <1>b DEF AnswerParked
<1>3. CASE Resume
  BY <1>3, <1>a DEF Resume, ioVars
<1>4. CASE Arrive
  BY <1>4 DEF Arrive, ByteInv
<1>5. CASE Publish
  BY <1>5 DEF Publish, ByteInv
<1>6. CASE StartPlain \/ StartLinked
  BY <1>6, <1>a DEF StartPlain, StartLinked, ioVars
<1>7. CASE StartCached \/ EndBatch
  <2>1. UNCHANGED <<stdin, late>> /\ \E b, v : Continue(b, v)
    BY <1>7 DEF StartCached, EndBatch
  <2> QED
    BY <2>1, <1>c
<1>8. CASE Parks
  BY <1>8, <1>a DEF Parks, BudgetEmpty, OutOfGas, OutOfBudget, ReadWaits, WriteWaits, ioVars
<1>9. CASE Moves
  <2>1. UNCHANGED ioVars
    BY <1>9, Zenon DEF Moves, ReturnLeft, ReturnRight, Stuck, Descend
  <2> QED
    BY <1>a, <2>1 DEF ioVars
<1>10. CASE Contract
  BY <1>10, <1>a DEF Contract, ioVars
<1>11. CASE Read
  BY <1>11 DEF Read, ByteInv
<1>12. CASE WriteRing
  <2>1. ws.current_val.left.right.byte \in Bytes
    BY <1>12, WritesByte DEF WriteRing
  <2> QED
    BY <1>12, <2>1 DEF WriteRing, ByteInv
<1>13. CASE WriteFile
  <2>1. ws.current_val.left.right.byte \in Bytes
    BY <1>13, WritesByte DEF WriteFile
  <2> QED
    BY <1>13, <2>1 DEF WriteFile, ByteInv
<1>14. CASE UNCHANGED vars
  BY <1>14, <1>a DEF vars, ioVars
<1> QED
  BY <1>1, <1>2, <1>3, <1>4, <1>5, <1>6, <1>7, <1>8, <1>9, <1>10, <1>11, <1>12, <1>13, <1>14
     DEF Next, Parks, Moves

(* workerLoop goes on from the value of a batch, or is done with it.       *)
LEMMA ContinueReduces ==
  ASSUME StepInv, TypeInv, ReductionInv,
         NEW before, NEW value, Continue(before, value), IsTerm(value),
         pc \in {"loop", "run"}, UNCHANGED <<req, susp, resumed>>, LinkInv',
         whole' => whole /\ ReducesOrIs(req.term, value)
  PROVE  ReductionInv'
<1>1. CASE value = before
  <2>1. /\ outcome' = [kind |-> "DONE", value |-> value] /\ pc' = "idle" /\ ws' = IdleState
    BY <1>1 DEF Continue, Answer
  <2>2. StateWorks(ws') /\ StateWorks(susp'.ws)
    BY <2>1, IdleWorks DEF ReductionInv
  <2>3. RequestInv' /\ LoopInv' /\ BatchInv'
    BY <2>1 DEF RequestInv, LoopInv, BatchInv
  <2>4. AnswersAreReducts'
    BY <2>1 DEF AnswersAreReducts
  <2> QED
    BY <2>2, <2>3, <2>4, Zenon DEF ReductionInv, StateWorks
<1>2. CASE value # before
  <2>1. /\ ws' = [ws EXCEPT !.current_val = value, !.frames = <<>>, !.mode = "DESCEND"]
        /\ pc' = "loop" /\ outcome' = outcome
    BY <1>2 DEF Continue
  <2>2. ws'.current_val = value /\ ws'.frames = <<>> /\ ws'.mode = "DESCEND"
    BY <2>1, WorkerFacts
  <2>3. StateWorks(ws') /\ Root(ws') = value
    BY <2>2, WorksBare DEF StateWorks, Root
  <2>4. StateWorks(susp'.ws)
    BY DEF ReductionInv
  <2>5. RequestInv'
    BY <2>1, <2>3 DEF RequestInv, Root
  <2>6. LoopInv' /\ BatchInv'
    BY <2>1, <2>2 DEF LoopInv, BatchInv
  <2>7. outcome.kind = "NONE"
    BY DEF StepInv, RunningInv, Running
  <2>8. AnswersAreReducts'
    BY <2>1, <2>7 DEF AnswersAreReducts
  <2> QED
    BY <2>3, <2>4, <2>5, <2>6, <2>8, Zenon DEF ReductionInv, StateWorks
<1> QED
  BY <1>1, <1>2

(* Links to what was returned are sound.                                   *)
LEMMA PublishKeepsLinks ==
  ASSUME LinkInv, NEW nodes, NEW target, IsFiniteSet(nodes), publish_link_ptr(nodes, target),
         \A n \in nodes : Returns(n, target)
  PROVE  LinkInv'
<1>1. /\ DOMAIN links' = DOMAIN links \cup nodes
      /\ \A n \in DOMAIN links \cup nodes :
           \/ links'[n] = target /\ n \in nodes
           \/ links'[n] = links[n] /\ n \in DOMAIN links
  BY DEF publish_link_ptr
<1>2. IsFiniteSet(DOMAIN links')
  BY <1>1, FS_Union DEF LinkInv
<1>3. \A n \in DOMAIN links' : Returns(n, links'[n])
  BY <1>1 DEF LinkInv
<1> QED
  BY <1>2, <1>3 DEF LinkInv

(* A parked request is saved as it is.                                     *)
LEMMA ParkReduces ==
  ASSUME StepInv, TypeInv, ReductionInv, Parks
  PROVE  ReductionInv'
<1>1. /\ pc' = "parked" /\ ws' = IdleState /\ susp' = [reason |-> susp'.reason, ws |-> ws]
      /\ UNCHANGED <<req, whole, resumed>>
  BY ParkTyped
<1>2. UNCHANGED <<links, outcome>> /\ pc \in {"loop", "run"}
  BY DEF Parks, BudgetEmpty, OutOfGas, OutOfBudget, ReadWaits, WriteWaits, MayStep, Iterates
<1>3. susp'.ws = ws
  BY <1>1
<1>4. StateWorks(ws') /\ StateWorks(susp'.ws)
  BY <1>1, <1>3, IdleWorks DEF ReductionInv
<1>5. RequestInv'
  BY <1>1, <1>2, <1>3 DEF RequestInv, ReductionInv
<1>6. LoopInv' /\ BatchInv'
  BY <1>1 DEF LoopInv, BatchInv
<1>7. LinkInv' /\ AnswersAreReducts'
  BY <1>1, <1>2 DEF LinkInv, AnswersAreReducts, ReductionInv
<1> QED
  BY <1>4, <1>5, <1>6, <1>7, Zenon DEF ReductionInv, StateWorks

(* An iteration carries on the request and what the batch works on.        *)
LEMMA IterationReduces ==
  ASSUME StepInv, TypeInv, ReductionInv,
         UNCHANGED <<req, pc, batch, links, susp, outcome, whole, resumed>>,
         pc = "run", \A t : ReducesOrIs(t, Root(ws)) => StateWorks(ws') /\ StateComputes(t, ws')
  PROVE  ReductionInv'
<1>1. \A t : ReducesOrIs(t, Root(ws)) => ReducesOrIs(t, Root(ws'))
  BY DEF StateComputes, Computes, Root
<1>2. StateWorks(ws')
  BY DEF ReducesOrIs
<1>3. RequestInv'
  BY <1>1 DEF RequestInv, ReductionInv
<1>4. LoopInv'
  BY DEF LoopInv
<1>5. BatchInv'
  <2>1. \A t \in Starts : StateComputes(t, ws')
    BY DEF ReductionInv, BatchInv, StateComputes, Computes, Root
  <2>2. Starts' = Starts
    BY DEF Starts
  <2> QED
    BY <2>1, <2>2 DEF BatchInv, ReductionInv, StateComputes
<1>6. LinkInv' /\ AnswersAreReducts' /\ StateWorks(susp'.ws)
  BY DEF LinkInv, AnswersAreReducts, ReductionInv
<1> QED
  BY <1>2, <1>3, <1>4, <1>5, <1>6, Zenon DEF ReductionInv, StateWorks

(* Where the links lead, and what that gives for the nodes on the way.     *)
LEMMA StartFacts ==
  ASSUME ReductionInv
  PROVE  LET chase == chase_link_path(ws.current_val)
         IN  /\ IsTerm(chase.end) /\ ReducesOrIs(ws.current_val, chase.end)
             /\ ws.current_val \in chase.path
             /\ IsFiniteSet(chase.path)
             /\ \A n \in chase.path : ReducesOrIs(n, chase.end)
             /\ chase.fixpoint => Settled(chase.end)
<1> DEFINE v == ws.current_val
           chase == chase_link_path(v)
<1>1. IsTerm(v) /\ LinkInv
  BY DEF ReductionInv, StateWorks, Works
<1>2. /\ v \in chase.path
      /\ IsFiniteSet(chase.path)
      /\ \A n \in chase.path : ReducesOrIs(n, chase.end)
      /\ chase.fixpoint => chase.end \in DOMAIN links /\ links[chase.end] = chase.end
  BY <1>1, ChaseFacts
<1> HIDE DEF chase
<1>3. IsTerm(chase.end) /\ ReducesOrIs(v, chase.end)
  BY <1>1, <1>2, ReductIsTerm DEF ReducesOrIs
<1>4. chase.fixpoint => Settled(chase.end)
  BY <1>1, <1>2, ReturnsReduces DEF LinkInv
<1> QED
  BY <1>2, <1>3, <1>4, Zenon DEF chase

(* Without frames, a request is where its value is.                        *)
LEMMA BareRoot ==
  ASSUME NEW s, s.frames = <<>>
  PROVE  Root(s) = s.current_val
BY DEF Root, At

(* The actions that start and end batches keep the invariant.              *)
LEMMA CachedReduces ==
  ASSUME StepInv, TypeInv, ReductionInv, StartCached
  PROVE  ReductionInv'
<1> DEFINE v == ws.current_val
           chase == chase_link_path(v)
<1>1. /\ pc = "loop" /\ chase.fixpoint
      /\ publish_link_ptr(chase.path \ {chase.end}, chase.end)
      /\ Continue(v, chase.end)
      /\ whole' = (whole /\ ws.frames = <<>>)
      /\ UNCHANGED <<req, susp, resumed>>
  BY DEF StartCached, StartsBatch
<1>2. /\ IsTerm(chase.end) /\ ReducesOrIs(v, chase.end)
      /\ IsFiniteSet(chase.path)
      /\ \A n \in chase.path : ReducesOrIs(n, chase.end)
  BY StartFacts
<1> HIDE DEF chase
<1>3. LinkInv'
  <2> DEFINE nodes == chase.path \ {chase.end}
  <2>1. IsFiniteSet(nodes)
    BY <1>2, FS_Subset
  <2>2. \A n \in nodes : Returns(n, chase.end)
    BY <1>2 DEF ReducesOrIs, Returns
  <2>3. LinkInv /\ publish_link_ptr(nodes, chase.end)
    BY <1>1 DEF ReductionInv
  <2> HIDE DEF nodes
  <2> QED
    BY <2>1, <2>2, <2>3, PublishKeepsLinks
<1>4. whole' => whole /\ ReducesOrIs(req.term, chase.end)
  <2> SUFFICES ASSUME whole' PROVE whole /\ ReducesOrIs(req.term, chase.end)
    OBVIOUS
  <2>1. whole /\ ws.frames = <<>>
    BY <1>1
  <2>2. ReducesOrIs(req.term, v)
    <3>1. ReducesOrIs(req.term, Root(ws))
      BY <1>1, <2>1 DEF ReductionInv, RequestInv
    <3> QED
      BY <2>1, <3>1, BareRoot
  <2> QED
    BY <1>2, <2>1, <2>2, ReducesOrIsFurther
<1>5. pc \in {"loop", "run"}
  BY <1>1
<1> HIDE DEF v
<1> QED
  BY <1>1, <1>2, <1>3, <1>4, <1>5, ContinueReduces

(* The value of a batch, for what the batch worked on.                     *)
LEMMA BatchValue ==
  ASSUME ReductionInv, pc = "run", ws.mode = "RETURN", ws.frames = <<>>
  PROVE  \A t \in Starts : Returns(t, ws.current_val)
BY DEF ReductionInv, BatchInv, StateComputes, Computes

LEMMA EndReduces ==
  ASSUME StepInv, TypeInv, ReductionInv, EndBatch
  PROVE  ReductionInv'
<1>1. /\ pc = "run" /\ ws.mode = "RETURN" /\ ws.frames = <<>>
      /\ links' = links \/ publish_link_ptr(batch.path, ws.current_val)
      /\ Continue(batch.before, ws.current_val)
      /\ UNCHANGED <<req, susp, resumed, whole>>
  BY DEF EndBatch, histVars
<1>2. IsTerm(ws.current_val)
  BY DEF ReductionInv, StateWorks, Works
<1>3. LinkInv'
  <2>1. \A t \in batch.path : Returns(t, ws.current_val)
    BY <1>1, BatchValue DEF Starts
  <2>2. IsFiniteSet(batch.path)
    BY <1>1 DEF ReductionInv, BatchInv
  <2>3. CASE publish_link_ptr(batch.path, ws.current_val)
    BY <2>1, <2>2, <2>3, PublishKeepsLinks DEF ReductionInv
  <2>4. CASE links' = links
    BY <2>4 DEF ReductionInv, LinkInv
  <2> QED
    BY <1>1, <2>3, <2>4
<1>4. whole' => whole /\ ReducesOrIs(req.term, ws.current_val)
  <2>1. whole => ReducesOrIs(req.term, Root(ws))
    BY <1>1 DEF ReductionInv, RequestInv
  <2> QED
    BY <1>1, <2>1, BareRoot
<1>5. pc \in {"loop", "run"}
  BY <1>1
<1> QED
  BY <1>1, <1>2, <1>3, <1>4, <1>5, ContinueReduces

LEMMA StartReduces ==
  ASSUME StepInv, TypeInv, ReductionInv, StartLinked
  PROVE  ReductionInv'
<1> DEFINE v == ws.current_val
           chase == chase_link_path(v)
<1>1. /\ pc = "loop" /\ pc' = "run"
      /\ batch' = [before |-> v, path |-> chase.path, end |-> chase.end,
                   cacheable |-> ~ node_has_effectful_top_step(chase.end)]
      /\ ws' = [ws EXCEPT !.current_val = chase.end, !.frames = <<>>, !.mode = "DESCEND"]
      /\ whole' = (whole /\ ws.frames = <<>>)
      /\ UNCHANGED <<req, susp, links, outcome, resumed>>
  BY DEF StartLinked, StartsBatch
<1>2. /\ IsTerm(chase.end) /\ ReducesOrIs(v, chase.end)
      /\ v \in chase.path
      /\ IsFiniteSet(chase.path)
      /\ \A n \in chase.path : ReducesOrIs(n, chase.end)
  BY StartFacts
<1> HIDE DEF chase
<1>3. ws'.current_val = chase.end /\ ws'.frames = <<>> /\ ws'.mode = "DESCEND"
  BY <1>1, WorkerFacts
<1>4. StateWorks(ws') /\ Root(ws') = chase.end
  BY <1>2, <1>3, WorksBare DEF StateWorks, Root
<1>5. StateWorks(susp'.ws) /\ LinkInv'
  BY <1>1 DEF ReductionInv, LinkInv
<1>6. RequestInv'
  <2>1. ASSUME whole' PROVE ReducesOrIs(req.term, chase.end)
    <3>1. whole /\ ws.frames = <<>>
      BY <1>1, <2>1
    <3>2. ReducesOrIs(req.term, Root(ws))
      BY <1>1, <3>1 DEF ReductionInv, RequestInv
    <3>3. ReducesOrIs(req.term, v)
      BY <3>1, <3>2, BareRoot
    <3> QED
      BY <1>2, <3>3, ReducesOrIsFurther
  <2> QED
    BY <1>1, <1>4, <2>1 DEF RequestInv, Root
<1>7. LoopInv'
  BY <1>1 DEF LoopInv
<1>8. BatchInv'
  <2>1. batch'.before = v /\ batch'.path = chase.path
    BY <1>1
  <2>2. Starts' \subseteq chase.path
    BY <1>2, <2>1 DEF Starts
  <2>3. \A t \in Starts' : StateComputes(t, ws')
    <3>1. ASSUME NEW t \in chase.path PROVE StateComputes(t, ws')
      BY <1>2, <1>3, <1>4, <3>1 DEF StateComputes, Computes, Root
    <3> QED
      BY <2>2, <3>1
  <2> QED
    BY <1>2, <2>1, <2>3 DEF BatchInv, StateComputes
<1>9. AnswersAreReducts'
  BY <1>1 DEF StepInv, RunningInv, Running, AnswersAreReducts
<1> QED
  BY <1>4, <1>5, <1>6, <1>7, <1>8, <1>9, Zenon DEF ReductionInv, StateWorks

LEMMA PlainReduces ==
  ASSUME StepInv, TypeInv, ReductionInv, StartPlain
  PROVE  ReductionInv'
<1>1. /\ pc = "loop" /\ pc' = "run"
      /\ batch' = [NoBatch EXCEPT !.before = ws.current_val]
      /\ UNCHANGED <<req, ws, susp, links, outcome, whole, resumed>>
  BY DEF StartPlain, StartsBatch, histVars
<1>2. StateWorks(ws') /\ StateWorks(susp'.ws) /\ LinkInv' /\ AnswersAreReducts'
  BY <1>1 DEF ReductionInv, LinkInv, AnswersAreReducts
<1>3. RequestInv' /\ LoopInv'
  BY <1>1 DEF ReductionInv, RequestInv, LoopInv
<1>4. BatchInv'
  <2>1. batch'.before = ws.current_val /\ batch'.path = {}
    BY <1>1 DEF NoBatch
  <2>2. \A t \in Starts' : ~ resumed /\ t = ws.current_val
    BY <1>1, <2>1 DEF Starts
  <2>3. ~ resumed => StateComputes(ws.current_val, ws')
    <3>1. ~ resumed => ws.frames = <<>> /\ ws.mode = "DESCEND"
      BY <1>1 DEF ReductionInv, LoopInv
    <3>2. ~ resumed => Root(ws) = ws.current_val
      BY <3>1, BareRoot
    <3> QED
      BY <1>1, <3>1, <3>2 DEF StateComputes, Computes, Root, ReducesOrIs
  <2> QED
    BY <2>1, <2>2, <2>3, FS_EmptySet DEF BatchInv, StateComputes
<1> QED
  BY <1>2, <1>3, <1>4, Zenon DEF ReductionInv, StateWorks

(* So does a new request.                                                  *)
LEMMA RequestReduces ==
  ASSUME StepInv, TypeInv, ReductionInv, Request
  PROVE  ReductionInv'
<1> DEFINE r == Head(session)
<1>1. IsTerm(r.term)
  BY RequestFacts
<1>2. /\ pc' = "loop" /\ req'.term = r.term
      /\ ws' = [IdleState EXCEPT !.current_val = r.term, !.remaining_steps = r.budget]
      /\ outcome'.kind = "NONE" /\ UNCHANGED <<susp, links>>
  BY DEF Request
<1> HIDE DEF r
<1>3. ws'.current_val = r.term /\ ws'.frames = <<>> /\ ws'.mode = "DESCEND"
  BY <1>2 DEF IdleState
<1>4. StateWorks(ws') /\ Root(ws') = r.term
  BY <1>1, <1>3, WorksBare DEF StateWorks, Root
<1>5. StateWorks(susp'.ws) /\ LinkInv'
  BY <1>2 DEF ReductionInv, LinkInv
<1>6. RequestInv' /\ LoopInv' /\ BatchInv' /\ AnswersAreReducts'
  BY <1>2, <1>3, <1>4 DEF RequestInv, LoopInv, BatchInv, AnswersAreReducts, ReducesOrIs, Root
<1> QED
  BY <1>4, <1>5, <1>6, Zenon DEF ReductionInv, StateWorks

(* Every step keeps the invariant.                                         *)
LEMMA NextReductionInv ==
  ASSUME StepInv, TypeInv, ByteInv, ReductionInv, [Next]_vars
  PROVE  ReductionInv'
<1>1. CASE AnswerParked
  <2>1. /\ outcome'.kind \in {"PARTIAL", "ERROR"} /\ pc' = "idle" /\ ws' = IdleState
        /\ susp' = NoSusp /\ links' = links
    BY <1>1 DEF AnswerParked, Answer
  <2>2. StateWorks(ws') /\ StateWorks(susp'.ws)
    BY <2>1, IdleWorks
  <2>3. RequestInv' /\ LoopInv' /\ BatchInv' /\ LinkInv' /\ AnswersAreReducts'
    BY <2>1 DEF RequestInv, LoopInv, BatchInv, LinkInv, AnswersAreReducts, ReductionInv
  <2> QED
    BY <2>2, <2>3, Zenon DEF ReductionInv, StateWorks
<1>2. CASE Resume
  <2>1. /\ pc = "parked" /\ pc' = "loop" /\ ws' = susp.ws /\ susp' = NoSusp /\ resumed' = TRUE
        /\ UNCHANGED <<req, links, outcome, whole>>
    BY <1>2 DEF Resume
  <2>2. StateWorks(ws') /\ StateWorks(susp'.ws)
    BY <2>1, IdleWorks DEF ReductionInv
  <2>3. RequestInv' /\ LoopInv' /\ BatchInv' /\ LinkInv' /\ AnswersAreReducts'
    BY <2>1 DEF RequestInv, LoopInv, BatchInv, LinkInv, AnswersAreReducts, ReductionInv
  <2> QED
    BY <2>2, <2>3, Zenon DEF ReductionInv, StateWorks
<1>3. CASE Moves
  <2>1. UNCHANGED <<req, pc, batch, links, susp, outcome, whole, resumed>> /\ pc = "run"
    BY <1>3, Zenon DEF Moves, ReturnLeft, ReturnRight, Stuck, Descend, Stay, Iterates
  <2>2. \A t : ReducesOrIs(t, Root(ws)) => StateWorks(ws') /\ StateComputes(t, ws')
    BY <1>3, MoveWorks DEF ReductionInv
  <2> QED
    BY <2>1, <2>2, IterationReduces
<1>4. CASE Charges
  <2>1. UNCHANGED <<req, pc, batch, links, susp, outcome, whole, resumed>> /\ pc = "run"
    BY <1>4, Zenon DEF Charges, Contract, Read, WriteRing, WriteFile, MayStep, ReducesTo,
                       Stay, Iterates
  <2>2. \A t : ReducesOrIs(t, Root(ws)) => StateWorks(ws') /\ StateComputes(t, ws')
    BY <1>4, ChargeWorks DEF ReductionInv
  <2> QED
    BY <2>1, <2>2, IterationReduces
<1>5. CASE Arrive \/ Publish \/ UNCHANGED vars
  <2>1. UNCHANGED <<req, pc, ws, batch, links, susp, outcome, whole, resumed>>
    BY <1>5 DEF Arrive, Publish, vars, histVars
  <2>2. StateWorks(ws') /\ StateWorks(susp'.ws) /\ LinkInv'
    BY <2>1 DEF ReductionInv, LinkInv
  <2>3. RequestInv' /\ LoopInv' /\ AnswersAreReducts'
    BY <2>1 DEF RequestInv, LoopInv, AnswersAreReducts, ReductionInv
  <2>4. BatchInv'
    BY <2>1 DEF BatchInv, Starts, ReductionInv
  <2> QED
    BY <2>2, <2>3, <2>4, Zenon DEF ReductionInv, StateWorks
<1> QED
  BY <1>1, <1>2, <1>3, <1>4, <1>5, RequestReduces, PlainReduces, StartReduces, CachedReduces,
     EndReduces, ParkReduces DEF Next, Moves, Charges, Parks

-----------------------------------------------------------------------------
(* All of it, in every behaviour.                                          *)
WorkInv == StepInv /\ TypeInv /\ ByteInv /\ ReductionInv

(* The invariant holds in every behaviour.                                 *)
LEMMA SpecWorkInv == Spec => []WorkInv
<1>1. Init => WorkInv
  BY InitStepInv, InitTypeInv, InitReductionInv DEF WorkInv
<1>2. WorkInv /\ [Next]_vars => WorkInv'
  <2>1. SUFFICES ASSUME WorkInv, [Next]_vars PROVE WorkInv'
    OBVIOUS
  <2>2. StepInv /\ TypeInv /\ ByteInv /\ ReductionInv
    BY <2>1 DEF WorkInv
  <2>3. StepInv'
    BY <2>1, <2>2, NextStepInv
  <2>4. TypeInv'
    BY <2>1, <2>2, <2>3, NextTypeInv
  <2>5. ByteInv'
    <3>1. StateWorks(ws)
      BY <2>2 DEF ReductionInv
    <3> QED
      BY <2>1, <2>2, <3>1, NextByteInv
  <2>6. ReductionInv'
    BY <2>1, <2>2, NextReductionInv
  <2> QED
    BY <2>3, <2>4, <2>5, <2>6 DEF WorkInv
<1> QED
  BY <1>1, <1>2, PTL DEF Spec

(* step_iterative, publish_link_ptr and workerLoop keep the computation: a *)
(* request that has kept its frames answers DONE with a term that its own  *)
(* term reduces to by the rules of SKI, whatever batches, links of earlier *)
(* requests, gas yields, waits and resumes came in between.                *)
THEOREM AnswersReduce == Spec => []AnswersAreReducts
<1>1. WorkInv => AnswersAreReducts
  BY DEF WorkInv, ReductionInv
<1> QED
  BY <1>1, SpecWorkInv, PTL

(* The link table outlives requests, batches and parks: a node is linked   *)
(* to a term that it reduces to, or to itself, and then it has nowhere to  *)
(* go or a way back; publish_link_ptr marks no other node.                 *)
LinksAreReturned == \A n \in DOMAIN links : /\ ReducesOrIs(n, links[n])
                                            /\ links[n] = n => Settled(n)

(* In every behaviour the links are reductions and the marks are settled.  *)
THEOREM LinksReturn == Spec => []LinksAreReturned
<1>1. WorkInv => LinksAreReturned
  BY ReturnsReduces DEF WorkInv, ReductionInv, LinkInv, LinksAreReturned
<1> QED
  BY <1>1, SpecWorkInv, PTL

(* step_iterative turns to a right subterm only when the left one has come *)
(* back unchanged from where nothing is left to do, or from a cycle; this  *)
(* is so in a worker and in a suspension.                                  *)
LeftsAreSettled ==
  \A s \in {ws, susp.ws} : \A k \in 1 .. Len(s.frames) :
    s.frames[k].submode = "RIGHT" => Settled(s.frames[k].node.left)

(* In every behaviour what a worker has gone past is settled.              *)
THEOREM LeftsSettled == Spec => []LeftsAreSettled
<1>1. WorkInv => LeftsAreSettled
  BY DEF WorkInv, ReductionInv, StateWorks, Works, Waits, LeftsAreSettled
<1> QED
  BY <1>1, SpecWorkInv, PTL

(* The bytes a program reads are bytes, and so are those it writes: the    *)
(* wrapping arithmetic of the byte operators never leaves 0 .. 255.        *)
THEOREM BytesStayBytes == Spec => []ByteInv
<1>1. WorkInv => ByteInv
  BY DEF WorkInv
<1> QED
  BY <1>1, SpecWorkInv, PTL

(* workerLoop answers DONE when a batch has changed nothing, or when the   *)
(* links lead to a mark: what it answers then is a normal form or reduces  *)
(* to itself.  The exception is a batch that continues the frames of a     *)
(* resumed request, where the value compared is that of a subterm.         *)
DoneIsSettled ==
  outcome'.kind = "DONE" /\ outcome.kind # "DONE" =>
    \/ Settled(outcome'.value)
    \/ resumed /\ pc = "run" /\ batch.path = {}

(* Every step that answers DONE.                                           *)
LEMMA NextDoneSettled ==
  ASSUME StepInv, TypeInv, ReductionInv, [Next]_vars
  PROVE  DoneIsSettled
<1>0. SUFFICES ASSUME outcome'.kind = "DONE", outcome.kind # "DONE"
               PROVE  Settled(outcome'.value) \/ (resumed /\ pc = "run" /\ batch.path = {})
  BY DEF DoneIsSettled
<1>a. ASSUME NEW b, NEW v, Continue(b, v) PROVE v = b /\ outcome'.value = v
  <2>1. CASE v = b
    BY <1>a, <2>1 DEF Continue, Answer
  <2>2. CASE v # b
    BY <1>0, <1>a, <2>2 DEF Continue
  <2> QED
    BY <2>1, <2>2
<1>1. CASE StartCached
  <2> DEFINE chase == chase_link_path(ws.current_val)
  <2>1. chase.fixpoint /\ Continue(ws.current_val, chase.end)
    BY <1>1 DEF StartCached
  <2>2. chase.fixpoint => Settled(chase.end)
    BY StartFacts
  <2> HIDE DEF chase
  <2>3. outcome'.value = chase.end
    BY <1>a, <2>1
  <2> QED
    BY <2>1, <2>2, <2>3
<1>2. CASE EndBatch
  <2>1. /\ pc = "run" /\ ws.mode = "RETURN" /\ ws.frames = <<>>
        /\ Continue(batch.before, ws.current_val)
    BY <1>2 DEF EndBatch
  <2>2. ws.current_val = batch.before /\ outcome'.value = ws.current_val
    BY <1>a, <2>1
  <2>3. CASE batch.before \in Starts
    <3>1. Returns(batch.before, ws.current_val)
      BY <2>1, <2>3, BatchValue
    <3> QED
      BY <2>2, <3>1, ReturnsReduces
  <2>4. CASE batch.before \notin Starts
    <3>1. resumed /\ batch.before \notin batch.path
      BY <2>4 DEF Starts
    <3>2. batch.path = {}
      BY <2>1, <3>1 DEF ReductionInv, BatchInv
    <3> QED
      BY <2>1, <3>1, <3>2
  <2> QED
    BY <2>3, <2>4
<1>3. CASE AnswerParked
  BY <1>0, <1>3 DEF AnswerParked, Answer
<1>4. CASE Request
  BY <1>0, <1>4 DEF Request
<1>5. CASE Parks
  BY <1>0, <1>5 DEF Parks, BudgetEmpty, OutOfGas, OutOfBudget, ReadWaits, WriteWaits
<1>6. CASE Moves
  BY <1>0, <1>6, MoveKeepsBudget
<1>7. CASE Charges
  BY <1>0, <1>7, ChargeMovesOne
<1>8. CASE StartPlain \/ StartLinked
  BY <1>0, <1>8 DEF StartPlain, StartLinked
<1>9. CASE Resume \/ Arrive \/ Publish \/ UNCHANGED vars
  BY <1>0, <1>9 DEF Resume, Arrive, Publish, vars
<1> QED
  BY <1>1, <1>2, <1>3, <1>4, <1>5, <1>6, <1>7, <1>8, <1>9
     DEF Next, Parks, Moves, Charges

(* In every behaviour a request that is done is done with a settled term,  *)
(* but for that exception.                                                 *)
THEOREM DoneSettled == Spec => [][DoneIsSettled]_vars
<1>1. WorkInv /\ [Next]_vars => [DoneIsSettled]_vars
  BY NextDoneSettled DEF WorkInv
<1> QED
  BY <1>1, SpecWorkInv, PTL DEF Spec
=============================================================================
