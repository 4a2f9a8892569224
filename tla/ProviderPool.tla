---------------------------- MODULE ProviderPool ----------------------------
(***************************************************************************)
(* The provider pool of rpc-gateway/src/providers.rs as a value: one       *)
(* record per provider.  Deadlines are kept as flags: cool stands for      *)
(* cooldown_until in the future, open for a circuit whose until is in the  *)
(* future; the passing of time lowers them (CooldownElapses,               *)
(* CircuitElapses).                                                        *)
(***************************************************************************)
EXTENDS Integers, FiniteSets

CONSTANTS
    Provider,   \* provider identities
    Weight      \* Weight[p]: the configured priority, positive and distinct per provider

CircuitThreshold == 3

PoolType == [Provider -> [fails : 0..CircuitThreshold, cool : BOOLEAN, open : BOOLEAN]]

InitPool == [p \in Provider |-> [fails |-> 0, cool |-> FALSE, open |-> FALSE]]

\* refresh_eligibility, called by reserve and available.
Eligible(pool, p) == ~pool[p].open /\ ~pool[p].cool

\* reserve_best: the heaviest eligible provider outside excluded, or none.
ReserveBest(pool, excluded) ==
    {p \in Provider \ excluded :
        /\ Eligible(pool, p)
        /\ \A q \in Provider \ excluded : Eligible(pool, q) => Weight[q] <= Weight[p]}

\* A success clears the cooldown whoever set it, and leaves an open circuit open.
RecordSuccess(pool, p) == [pool EXCEPT ![p].fails = 0, ![p].cool = FALSE]

\* The third consecutive failure, and every later one, opens the circuit.
RecordFailure(pool, p) ==
    LET n == IF pool[p].fails < CircuitThreshold THEN pool[p].fails + 1 ELSE CircuitThreshold
    IN  [pool EXCEPT ![p] = [fails |-> n, cool |-> TRUE, open |-> @.open \/ n = CircuitThreshold]]

\* HTTP 429: the Retry-After becomes the cooldown; no failure is counted.
RecordCooldown(pool, p) == [pool EXCEPT ![p].cool = TRUE]

\* apply_provider_failure: how is "transport", "integrity" or "limited".
ApplyFailure(pool, p, how) ==
    IF how = "limited" THEN RecordCooldown(pool, p) ELSE RecordFailure(pool, p)

=============================================================================
