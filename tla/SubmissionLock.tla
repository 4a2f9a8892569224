--------------------------- MODULE SubmissionLock ---------------------------
(***************************************************************************)
(* What the global revenue submission lock promises, without rows, nonces  *)
(* or processes: of all requests of all lanes at most one is anywhere      *)
(* between its claim and its settlement, each is claimed at most once and  *)
(* reaches the network at most once, and the next claim waits until the    *)
(* last broadcast can no longer change the wallet.                         *)
(***************************************************************************)
CONSTANT Identity

VARIABLE stage

InProgress == {i \in Identity : stage[i] \in {"held", "flying", "landed"}}

TypeOK == stage \in [Identity -> {"waiting", "held", "flying", "landed", "settled"}]

Init == stage = [i \in Identity |-> "waiting"]

Move(i, from, to) ==
    /\ stage[i] \in from
    /\ stage' = [stage EXCEPT ![i] = to]

Acquire(i) == InProgress = {} /\ Move(i, {"waiting"}, "held")

Launch(i) == Move(i, {"held"}, "flying")

\* Settled on chain, superseded, or past its deadline (even before launch).
Land(i) == Move(i, {"held", "flying"}, "landed")

Release(i) == Move(i, {"held", "landed"}, "settled")

Next == \E i \in Identity : Acquire(i) \/ Launch(i) \/ Land(i) \/ Release(i)

Spec == Init /\ [][Next]_stage

=============================================================================
