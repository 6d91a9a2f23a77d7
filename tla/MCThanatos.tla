---------------------------- MODULE MCThanatos ----------------------------
(* Constants for the model-checking runs of module Thanatos.               *)
EXTENDS Thanatos, TLC

CONSTANTS c1, c2, c3, w1, w2, s1, s2

(* One contraction more than the narrow Unlimited of its run.              *)
LongPrograms    == {<<"step", "step", "step">>}
MixedPrograms   == {<<"write", "write">>, <<"walk", "walk", "read">>, <<"step">>}
WaitingPrograms == {<<"read", "write", "write">>}
LivePrograms    == {<<"read">>, <<"step", "step", "read">>, <<"read", "step">>, <<"read", "eof">>}

RuntimeSymmetry == Permutations({c1, c2}) \cup Permutations({w1, w2})
                     \cup Permutations({s1, s2})

(* Symmetry is not sound for liveness.  Instead, the calls and the parked  *)
(* suspensions are named in order: the first idle client calls, the first  *)
(* free suspension is taken.  Neither choice is under a fairness condition,*)
(* so that every behaviour of Spec is one of these after a renaming, as    *)
(* long as nobody looks at a free suspension by its old name, which only   *)
(* happens where the client is Overtaken.                                  *)
FirstTaken(order, members, free(_), taken(_)) ==
  \A j \in DOMAIN order :
    order[j] \in members /\ free(order[j]) /\ taken(order[j]) =>
      \A i \in 1 .. j - 1 : order[i] \in members => ~ free(order[i])
InOrder ==
  /\ FirstTaken(<<c1, c2, c3>>, Clients, LAMBDA c : client[c].pc = "idle",
                                         LAMBDA c : client'[c].pc # "idle")
  /\ FirstTaken(<<s1, s2>>, Susps, LAMBDA s : susp[s].status = "FREE",
                                   LAMBDA s : susp'[s].status # "FREE")

(* What the calls are: the first yields and reads, the second reads and    *)
(* uses up its steps, the third reads and may meet the end of its file.    *)
(* Nothing happens between a call and its search for a slot, where they    *)
(* compete in any order.                                                   *)
Job(program, budget) == [node |-> program, budget |-> budget]
Jobs == <<{Job(<<"step", "step", "read">>, Unlimited)},
          {Job(<<"read", "step">>, 1)},
          {Job(<<"read">>, Unlimited), Job(<<"read", "eof">>, Unlimited)}>>
CallsForJobs == \A c \in Clients : client[c].pc = "idle" /\ client'[c].pc # "idle" =>
                  Job(client'[c].node, client'[c].budget) \in Jobs[nextReq]
===========================================================================
