----------------------------- MODULE MCControl ------------------------------
(* The control plane on its instances: the economic state machine, the       *)
(* provider authority and the row locks of everyone's transactions.  `at` is  *)
(* the instance a behaviour belongs to; the others rest in an initial state.   *)
EXTENDS Naturals

CONSTANTS r1, r2, None

VARIABLES
    at,
    econ, global, route, lanes, ledger, auth, fresh, cands, emitted, outbox, consumed, col, run,
    paused, running, job, results, losing, day, jobs,
    now, row, armed, prov, ownerPaused, mem, up, batch, late, sup, closer,
    tr, owner, stage, closed, cause,
    ops, faults

economyVars ==
    <<econ, global, route, lanes, ledger, auth, fresh, cands, emitted, outbox, consumed, col, run,
      paused, running, job, results, losing, day, jobs>>
providerVars == <<now, row, armed, prov, ownerPaused, mem, up, batch, late, sup, closer>>
rowsVars == <<tr, owner, stage, closed, cause>>
vars == <<at, economyVars, providerVars, rowsVars, ops, faults>>

-----------------------------------------------------------------------------
(* EconomicControl: three levels, a promotion after one outcome. *)

AllCommands == {"deploy", "disarm", "fail", "resize", "arm", "recover"}

\* Two routes, two execution requests and one command.
Economy == INSTANCE EconomicControl WITH
    Route <- {r1, r2}, DefaultRoute <- r1, Top <- 3, MinOutcomes <- 1, RouteLimit <- 2, DailyLimit <- 2,
    Streak <- 2, Commands <- AllCommands, MaxCands <- 1, MaxJobs <- 2, MaxOps <- 1, MaxFaults <- 0

\* The same with a fault or a host that is killed.
Faulty == INSTANCE EconomicControl WITH
    Route <- {r1, r2}, DefaultRoute <- r1, Top <- 3, MinOutcomes <- 1, RouteLimit <- 2, DailyLimit <- 2,
    Streak <- 2, Commands <- AllCommands, MaxCands <- 1, MaxJobs <- 1, MaxOps <- 1, MaxFaults <- 1

\* One route, two commands, and a daily limit that one loss reaches.
Ledger == INSTANCE EconomicControl WITH
    Route <- {r1}, DefaultRoute <- r1, Top <- 3, MinOutcomes <- 1, RouteLimit <- 2, DailyLimit <- 1,
    Streak <- 2, Commands <- AllCommands, MaxCands <- 1, MaxJobs <- 1, MaxOps <- 2, MaxFaults <- 0

\* Two activation candidates, and a resize that voids the first.
Activation == INSTANCE EconomicControl WITH
    Route <- {r1}, DefaultRoute <- r1, Top <- 3, MinOutcomes <- 1, RouteLimit <- 2, DailyLimit <- 2,
    Streak <- 2, Commands <- {"resize"}, MaxCands <- 2, MaxJobs <- 0, MaxOps <- 1, MaxFaults <- 0

\* A resize, the disarm of a failed acceptance and the recovery from it.
Acceptance == INSTANCE EconomicControl WITH
    Route <- {r1}, DefaultRoute <- r1, Top <- 3, MinOutcomes <- 1, RouteLimit <- 2, DailyLimit <- 2,
    Streak <- 2, Commands <- {"resize", "disarm", "recover"}, MaxCands <- 1, MaxJobs <- 0, MaxOps <- 3,
    MaxFaults <- 0

-----------------------------------------------------------------------------
(* ProviderAuthority. *)

\* Every fault once, gaps between samples, an unhealthy hunter.
Evidence == INSTANCE ProviderAuthority WITH
    econ <- row, paused <- ownerPaused,
    Classes <- {"provider_timeout"}, Fractions <- {0}, Gaps <- BOOLEAN, Health <- BOOLEAN,
    Faults <- {"provider", "diverged", "fatal", "crash", "active"},
    MaxBatch <- 2, MaxTime <- 5, MaxFaults <- 1, MaxOps <- 1

\* Provider failures that last, and a command or a closure of the executor.
Rearm == INSTANCE ProviderAuthority WITH
    econ <- row, paused <- ownerPaused,
    Classes <- {"provider_timeout"}, Fractions <- {0}, Gaps <- {FALSE}, Health <- {TRUE}, Faults <- {"provider"},
    MaxBatch <- 1, MaxTime <- 6, MaxFaults <- 2, MaxOps <- 1

\* A failed acceptance after an arm, and the command that recovers from it.
Reviewed == INSTANCE ProviderAuthority WITH
    econ <- row, paused <- ownerPaused,
    Classes <- {"provider_timeout"}, Fractions <- {0}, Gaps <- {FALSE}, Health <- {TRUE}, Faults <- {"provider"},
    MaxBatch <- 1, MaxTime <- 6, MaxFaults <- 0, MaxOps <- 2

-----------------------------------------------------------------------------
(* ControlRows: the executor beside every two of the supervisor, the operator *)
(* and the hunter.                                                            *)

NoOperator == INSTANCE ControlRows WITH Running <- {"executor", "supervisor", "hunter"}
NoHunter == INSTANCE ControlRows WITH Running <- {"executor", "supervisor", "operator"}
NoSupervisor == INSTANCE ControlRows WITH Running <- {"executor", "operator", "hunter"}

-----------------------------------------------------------------------------

Economies == {"economy", "faulty", "ledger", "activation", "acceptance"}
OneRoute == {"ledger", "activation", "acceptance"}
Providers == {"evidence", "rearm", "reviewed"}
Rows == {"no operator", "no hunter", "no supervisor"}

Init ==
    /\ at \in Economies \cup Providers \cup Rows
    /\ \/ at \in OneRoute /\ Ledger!Init
       \/ at \notin OneRoute /\ Economy!Init
    /\ Evidence!Init /\ (at \notin Providers => ownerPaused) /\ (at = "rearm" => ~ownerPaused)
    /\ NoHunter!Init

EconomyNext ==
    /\ \/ at = "economy" /\ Economy!Next
       \/ at = "faulty" /\ Faulty!Next
       \/ at = "ledger" /\ Ledger!Next
       \/ at = "activation" /\ Activation!Next
       \/ at = "acceptance" /\ Acceptance!Next
    /\ UNCHANGED <<at, providerVars, rowsVars>>

ProviderNext ==
    /\ \/ at = "evidence" /\ Evidence!Next
       \/ at = "rearm" /\ Rearm!Next
       \/ at = "reviewed" /\ Reviewed!Next
    /\ UNCHANGED <<at, economyVars, rowsVars>>

RowsNext ==
    /\ \/ at = "no operator" /\ NoOperator!Next
       \/ at = "no hunter" /\ NoHunter!Next
       \/ at = "no supervisor" /\ NoSupervisor!Next
    /\ UNCHANGED <<at, economyVars, providerVars, ops, faults>>

Next == EconomyNext \/ ProviderNext \/ RowsNext

Spec == Init /\ [][Next]_vars

-----------------------------------------------------------------------------
(* What is checked: the properties of the component modules, those of one kind *)
(* together.                                                                   *)

\* In a live phase the four rows the executor reads agree, and the last row of
\* economic_transitions has the phase and the epoch of the economic row.
LiveIsAligned ==
    /\ at \in Economies => Economy!LiveIsAligned
    /\ Economy!LedgerFollows

\* A level above MIN is live only on the outcomes of every level below it.
SizedByEvidence == at \in {"economy", "faulty"} => Economy!SizedByEvidence

\* An open provider gate rests on three ordered samples later than its floor
\* and than the failure it is bound to, none of an earlier hunter process.
ReadyIsEvidenced == Evidence!ReadyIsEvidenced /\ Evidence!NoEarlierProcess

\* Authority is given only over what was there when it was decided: an
\* activation is the second transition after its candidate was made, and the
\* supervisor rearms the lanes only over a provider closure.
AuthorityIsBound ==
    [][/\ at \in Economies => Economy!ActivatesNext
       /\ at \in Providers => Rearm!RearmsOverProvider]_vars

\* Nothing a transaction has read has changed when it commits; a deadlock over
\* the control rows has one of the executor's own transactions in it; and an
\* executor that has exited has closed its authority.
CommitsOnCurrentRows ==
    NoHunter!CommitsOnCurrentRows /\ NoHunter!ToolsNeverDeadlock /\ NoHunter!FailsClosed
=============================================================================
