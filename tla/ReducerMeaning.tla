--------------------------- MODULE ReducerMeaning ---------------------------
(***************************************************************************)
(* What the worker of module Reducer promises, stated against a reference: *)
(* leftmost-outermost reduction, one step at a time, with the input it     *)
(* reads and the output it writes.  The worker's own strategy differs: it  *)
(* reduces the left subterm of a node as far as its batch gets before it   *)
(* looks at the node again, works with saved frames, links and parks.      *)
(***************************************************************************)
EXTENDS Reducer

CONSTANT Fuel   \* bound: the reference gives up after so many steps

(* One leftmost-outermost step of t with input in: kind "step", "normal"   *)
(* without a redex, or "starved" at a read without input.                  *)
RECURSIVE Outermost(_, _)
Outermost(t, in) ==
  CASE IsRedex(t) -> [kind |-> "step", term |-> Contractum(t), in |-> in, out |-> <<>>]
    [] IsRead(t) /\ in # <<>> ->
         [kind |-> "step", term |-> AfterRead(t, Head(in)), in |-> Tail(in), out |-> <<>>]
    [] IsRead(t) /\ in = <<>> ->
         [kind |-> "starved", term |-> t, in |-> in, out |-> <<>>]
    [] IsWrite(t) ->
         [kind |-> "step", term |-> AfterWrite(t), in |-> in, out |-> <<t.left.right.byte>>]
    [] ~ IsApp(t) -> [kind |-> "normal", term |-> t, in |-> in, out |-> <<>>]
    [] OTHER ->
         LET l == Outermost(t.left, in)
             r == Outermost(t.right, in)
         IN  IF l.kind # "normal" THEN [l EXCEPT !.term = allocCons(l.term, t.right)]
             ELSE IF r.kind # "normal" THEN [r EXCEPT !.term = allocCons(t.left, r.term)]
             ELSE [r EXCEPT !.term = t]

(* All steps: the normal form with the input left over and the output, or  *)
(* where the reference is starved, or "fuel" when it gives up.             *)
RECURSIVE Evaluate(_, _, _, _)
Evaluate(t, in, out, fuel) ==
  IF fuel = 0 THEN [kind |-> "fuel", term |-> t, in |-> in, out |-> out]
  ELSE LET step == Outermost(t, in)
       IN  IF step.kind = "step"
             THEN Evaluate(step.term, step.in, out \o step.out, fuel - 1)
             ELSE [step EXCEPT !.out = out]

Meaning(t, in) == Evaluate(t, in, <<>>, Fuel)
IsNormal(t) == Outermost(t, <<>>).kind = "normal"

(* The terms one contraction away, wherever in t it is, when a read gets   *)
(* the byte b.                                                             *)
RECURSIVE Reducts(_, _)
Reducts(t, b) ==
  (CASE IsRedex(t) -> {Contractum(t)} [] IsRead(t) -> {AfterRead(t, b)}
     [] IsWrite(t) -> {AfterWrite(t)} [] OTHER -> {})
  \cup IF IsApp(t) THEN {allocCons(l, t.right) : l \in Reducts(t.left, b)}
                        \cup {allocCons(t.left, r) : r \in Reducts(t.right, b)}
                   ELSE {}

(* t comes back to itself.                                                 *)
Period == 5   \* bound: the longest cycle that is looked for
Cyclic(t) ==
  LET after[n \in 1 .. Period] ==
        UNION {Reducts(u, 0) : u \in IF n = 1 THEN {t} ELSE after[n - 1]}
  IN  \E n \in 1 .. Period : t \in after[n]

(* Further contractions lead nowhere, or back.                             *)
IsSettled(t) == IsNormal(t) \/ Cyclic(t)

RECURSIVE IsPure(_)
IsPure(t) == IF IsApp(t) THEN IsPure(t.left) /\ IsPure(t.right)
             ELSE t # allocTerminal("READ_ONE") /\ t # allocTerminal("WRITE_ONE")

(* The term a worker state stands for: its value in the hole of its frames.*)
RECURSIVE Plug(_, _)
Plug(frames, t) ==
  IF frames = <<>> THEN t
  ELSE LET f == frames[Len(frames)]
       IN  Plug(Front(frames), IF f.submode = "LEFT" THEN allocCons(t, f.node.right)
                                                     ELSE allocCons(f.node.left, t))

-----------------------------------------------------------------------------
Unread == stdin \o late
Wanted == Meaning(req.term, req.input)

(* While no frame has been dropped, the worker - running or parked - holds *)
(* a state of the computation it was asked for: what its frames, value,    *)
(* unread input and written output stand for is what the request stands    *)
(* for, through every batch, link, yield, wait and resume.                 *)
SameMeaning ==
  whole /\ pc # "idle" /\ Wanted.kind # "fuel" =>
    LET state == IF pc = "parked" THEN susp.ws ELSE ws
    IN  Evaluate(Plug(state.frames, state.current_val), Unread,
                 published \o stdout, Fuel) = Wanted

(* A right frame is pushed only when the left subterm has come back        *)
(* unchanged, and that subterm then is a normal form or reduces to itself: *)
(* the fixpoint test of workerLoop (a batch that changes nothing ends the  *)
(* reduction) can promise no more.                                         *)
VisitedIsSettled ==
  \A k \in DOMAIN ws.frames :
    ws.frames[k].submode = "RIGHT" => IsSettled(ws.frames[k].node.left)

(* DONE carries the normal form, with the input consumed and the output    *)
(* written that the program asks for, unless the reduction was interrupted *)
(* in a way that loses its place: frames dropped, or a batch on mapped     *)
(* files resumed half-way.                                                 *)
DoneIsNormalForm ==
  outcome.kind = "DONE" /\ whole /\ ~ (resumed /\ req.file) /\ Wanted.kind # "fuel" =>
    /\ Wanted.kind = "normal"
    /\ outcome.value = Wanted.term
    /\ published = Wanted.out
    /\ Unread = Wanted.in

(* A call on mapped files fails only where its program runs out of input   *)
(* or of room for its output.                                              *)
ErrorIsDeserved ==
  outcome.kind = "ERROR" /\ Wanted.kind # "fuel" =>
    /\ req.file
    /\ \/ Wanted.kind = "starved" /\ stdin = <<>>
       \/ Len(published) = OutCapacity /\ Len(Wanted.out) > OutCapacity

(* The link table outlives requests, yields and batches: what a pure term  *)
(* is linked to has its normal form, and a term linked to itself has no    *)
(* other term to reduce to but those on its way back.                      *)
LinksSound ==
  \A n \in DOMAIN links :
    IsPure(n) =>
      /\ Meaning(n, <<>>).kind = "normal" => Meaning(n, <<>>) = Meaning(links[n], <<>>)
      /\ links[n] = n => IsSettled(n)

-----------------------------------------------------------------------------
(* thanatos.h: "Reduce to normal form (unbounded steps)."  A call that     *)
(* returns a result returns the normal form of its program.                *)
ReducesToNormalForm ==
  outcome.kind = "DONE" /\ Wanted.kind = "normal" => outcome.value = Wanted.term

(* thanatos.h: "READ_ONE blocks until a byte is available".  A call is not *)
(* done when its program still has to read and there is nothing to read.   *)
ReadsBlock == outcome.kind = "DONE" => Wanted.kind # "starved"
=============================================================================
