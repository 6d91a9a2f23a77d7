----------------------------- MODULE ParkedWork -----------------------------
(***************************************************************************)
(* What park_worker_state and resume_worker_state promise each other: a    *)
(* set of parked worker states under the names of their suspensions.  A    *)
(* parked state is taken up by one worker, as it was saved.                *)
(***************************************************************************)
CONSTANTS Susps,    \* names of suspensions
          States,   \* worker states
          NoState,  \* not a worker state
          Workers

VARIABLES parked,   \* the saved state of each parked suspension, NoState if free
          hand      \* the state each worker has taken up

Init == /\ parked = [s \in Susps |-> NoState]
        /\ hand = [w \in Workers |-> NoState]

Park(s, state) ==
  /\ parked[s] = NoState
  /\ parked' = [parked EXCEPT ![s] = state]
  /\ UNCHANGED hand

Resume(w, s) ==
  /\ parked[s] # NoState
  /\ hand[w] = NoState
  /\ hand' = [hand EXCEPT ![w] = parked[s]]
  /\ parked' = [parked EXCEPT ![s] = NoState]

(* The worker is through with the state it took up.                        *)
Drop(w) == /\ hand[w] # NoState
           /\ hand' = [hand EXCEPT ![w] = NoState]
           /\ UNCHANGED parked

Next == \/ \E s \in Susps, state \in States : Park(s, state)
        \/ \E w \in Workers, s \in Susps : Resume(w, s)
        \/ \E w \in Workers : Drop(w)

Spec == Init /\ [][Next]_<<parked, hand>>
=============================================================================
