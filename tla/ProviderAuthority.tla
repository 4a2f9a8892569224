-------------------------- MODULE ProviderAuthority --------------------------
(***************************************************************************)
(* Who may arm the two provider-gated revenue lanes, and on what evidence. *)
(* The hunter samples its provider and writes the samples to the row       *)
(* revenue_provider_authority (postgres_sink.go, screen.go); the control   *)
(* tool's supervisor polls the hunter's readiness payload every ten        *)
(* seconds and closes the gate, closes the lanes or rearms them            *)
(* (converge_revenue_provider_authority); the operator arms, disarms and   *)
(* recovers by command (autonomous_live_control_main.rs).                  *)
(*                                                                         *)
(* Times are microseconds, what PostgreSQL keeps.  An observation of the   *)
(* hunter also has a fraction below the microsecond, which its memory and  *)
(* its payload keep and the row does not.                                  *)
(***************************************************************************)
EXTENDS Naturals, Sequences, SequencesExt, FiniteSets

CONSTANTS
    Classes,     \* the failure classes of the gateway that can occur
    Fractions,   \* sub-microsecond parts a clock reading can have
    Gaps,        \* may an Exact come more than two minutes after the last one
    Health,      \* the values hunting_health can take
    Faults,      \* which of provider, diverged, fatal, crash, active can occur
    MaxBatch,    \* bound: Exact results of one screen, 1 or 2
    MaxTime,     \* bound: Exact results
    MaxFaults,   \* bound: failures, crashes and divergences
    MaxOps       \* bound: operator commands and executor closures

ProviderReasons == {"provider_disagreement", "provider_unavailable", "provider_timeout",
                    "provider_rate_limited"}
Diverged == "revenue_lane_authority_diverged"

VARIABLES
    now,      \* the time of the last Exact result
    econ,     \* economic_control at MAX_REVIEWED: phase, epoch, last reason, updated_at
    armed,    \* revenue_lane_controls of aave_liquidation and atlas_solver
    prov,     \* revenue_provider_authority
    paused,   \* the executor contract, as the owner preflight reads it
    mem,      \* the hunter's state: in memory and in its state file
    up,       \* the hunter process runs
    batch,    \* Exact results of the current screen: to persist, persisted
    late,     \* provider failures observed and not yet written
    sup,      \* the supervisor: where it is and the payload it read
    closer,   \* who closed the lanes last
    faults, ops

hunterVars == <<mem, up, batch, late>>
vars == <<now, econ, armed, prov, paused, hunterVars, sup, closer, faults, ops>>

Times == 0..MaxTime
Phases == {"DISARMED_EVIDENCE", "DISARMED_FAILURE"}
Sample == [at : Times, ns : {0, 1}]
NoPayload == [samples |-> <<>>, class |-> "", open |-> FALSE, streak |-> 0,
              since |-> "no", healthy |-> FALSE]

\* TypeOK: every row, the hunter's memory and the supervisor's copy of it
\* keep their shape.
TypeOK ==
    /\ now \in Times
    /\ econ.phase \in Phases /\ econ.epoch \in Nat /\ econ.at \in Times
    /\ armed \in BOOLEAN /\ paused \in BOOLEAN /\ up \in BOOLEAN
    /\ prov.ready \in BOOLEAN /\ prov.floor \in Times /\ Len(prov.samples) <= 3
    /\ prov.status \in {"collecting", "ready", "recovered", "blocked"}
    /\ prov.failed \in Times /\ prov.epoch \in Nat
    /\ Len(mem.samples) <= 3 /\ mem.since \in {"no", "short", "long"}
    /\ \A i \in DOMAIN mem.samples : mem.samples[i] \in Sample
    /\ late \subseteq Times
    /\ sup.pc \in {"idle", "closed", "active", "gate", "clear", "preserve",
                   "owner", "recover", "close"}

\* Both lanes armed over an open gate, the contract unpaused or not yet: what
\* three Exact results and arming leave.
FirstThree == [i \in 1..3 |-> [at |-> i, ns |-> 0]]

Init ==
    /\ now = 3
    /\ econ = [phase |-> "DISARMED_EVIDENCE", epoch |-> 1, why |-> "set_max_reviewed", at |-> 0]
    /\ armed = TRUE
    /\ prov = [ready |-> TRUE, floor |-> 0, status |-> "ready", samples |-> FirstThree,
               epoch |-> 0, failed |-> 0, reason |-> ""]
    /\ paused \in BOOLEAN
    /\ mem = [samples |-> FirstThree, class |-> "", open |-> FALSE, streak |-> 0,
              since |-> "no", born |-> 0]
    /\ up = TRUE
    /\ batch = [todo |-> <<>>, done |-> <<>>]
    /\ late = {}
    /\ sup = [pc |-> "idle", p |-> NoPayload, reason |-> ""]
    /\ closer = "none"
    /\ faults = 0 /\ ops = 0

Idle == batch = [todo |-> <<>>, done |-> <<>>]
Fault(kind) == kind \in Faults /\ faults < MaxFaults /\ faults' = faults + 1

-----------------------------------------------------------------------------
(* The hunter's provider sampling                                           *)

LastThree(s) == IF Len(s) > 3 THEN SubSeq(s, Len(s) - 2, Len(s)) ELSE s

\* The row keeps microseconds.
Stored(o) == [at |-> o.at, ns |-> 0]

\* Mutant: a late transaction is taken into the window.
advancePrimaryProviderSamples_Late(samples, status, o) ==
    LastThree(Append(samples, Stored(o)))

\* A late transaction leaves the window alone; a gap starts it again unless
\* the window is complete.
advancePrimaryProviderSamples(samples, status, o) ==
    IF samples # <<>> /\ o.at <= Last(samples).at
    THEN samples
    ELSE LET kept == IF o.gap /\ status \notin {"ready", "recovered"} THEN <<>> ELSE samples
         IN  LastThree(Append(kept, Stored(o)))

\* recordPrimaryProviderSuccess, in RecordAaveSignal's transaction.
recordPrimaryProviderSuccess(p, o) ==
    LET samples == advancePrimaryProviderSamples(p.samples, p.status, o)
        status == IF Len(samples) < 3 THEN "collecting"
                  ELSE IF p.status = "recovered" THEN "recovered" ELSE "ready"
    IN  IF o.at <= p.floor \/ o.at <= p.failed \/ samples = p.samples THEN p
        ELSE [p EXCEPT !.samples = samples, !.status = status, !.ready = Len(samples) = 3]

\* RecordProviderFailure and fail_close_provider_execution_gate: the floor is
\* the time given, whatever the row holds.
RecordProviderFailure(t) ==
    prov' = [prov EXCEPT !.ready = FALSE, !.floor = t, !.status = "collecting",
                         !.samples = <<>>]

\* A screen evaluates one or two borrowers; its results are persisted in the
\* order the borrowers were taken, not the order they completed in.
screen ==
    /\ up /\ Idle /\ ~mem.open
    /\ \E n \in 1..MaxBatch, gap \in Gaps : \E f \in [1..n -> Fractions] :
         /\ now + n <= MaxTime
         /\ now' = now + n
         /\ LET o(i) == [at |-> now + i, ns |-> f[i], gap |-> gap /\ i = 1]
            IN  batch' \in {[todo |-> t, done |-> <<>>] :
                            t \in IF n = 1 THEN {<<o(1)>>} ELSE {<<o(1), o(2)>>, <<o(2), o(1)>>}}
    /\ UNCHANGED <<econ, armed, prov, paused, mem, up, late, sup, closer, faults, ops>>

\* persistScreenSignalLocked, RecordAaveSignal: one durable transaction each.
RecordAaveSignal ==
    /\ up /\ batch.todo # <<>>
    /\ prov' = recordPrimaryProviderSuccess(prov, Head(batch.todo))
    /\ batch' = [todo |-> Tail(batch.todo), done |-> Append(batch.done, Head(batch.todo))]
    /\ UNCHANGED <<now, econ, armed, paused, mem, up, late, sup, closer, faults, ops>>

\* recordProviderRecoveryLocked.  A reading not after the last one is moved a
\* nanosecond past it; while collecting, a gap starts the window again.
recordProviderRecoveryLocked(m, o) ==
    LET collecting == m.class # "" \/ m.since # "no"
        moved == m.samples # <<>> /\ o.at <= Last(m.samples).at
        sample == IF moved THEN [at |-> Last(m.samples).at, ns |-> 1]
                  ELSE [at |-> o.at, ns |-> o.ns]
        kept == IF collecting /\ ~moved /\ o.gap THEN <<>> ELSE m.samples
        samples == LastThree(Append(kept, sample))
    IN  IF collecting /\ Len(samples) < 3
        THEN [m EXCEPT !.samples = samples, !.open = FALSE]
        ELSE [m EXCEPT !.samples = samples, !.open = FALSE, !.class = "", !.since = "no",
                       !.streak = 0]

ByTime(s) == SortSeq(s, LAMBDA a, b : a.at < b.at)

\* The end of screen: memory takes the batch in time order.
screened ==
    /\ up /\ batch.todo = <<>> /\ batch.done # <<>>
    /\ mem' = FoldLeft(recordProviderRecoveryLocked, mem, ByTime(batch.done))
    /\ batch' = [todo |-> <<>>, done |-> <<>>]
    /\ UNCHANGED <<now, econ, armed, prov, paused, up, late, sup, closer, faults, ops>>

\* The end of a screen one of whose signals met diverged lane authority.
screened_diverged ==
    /\ up /\ batch.todo = <<>> /\ batch.done # <<>>
    /\ Fault("diverged")
    /\ mem' = [mem EXCEPT !.samples = <<>>, !.class = Diverged]
    /\ batch' = [todo |-> <<>>, done |-> <<>>]
    /\ UNCHANGED <<now, econ, armed, prov, paused, up, late, sup, closer, ops>>

\* openProviderCircuitLocked, from either of the hunter's two loops.
openProviderCircuitLocked(m, class) ==
    [m EXCEPT !.streak = IF m.open /\ m.class = class THEN @
                         ELSE IF m.class = class THEN IF @ < 2 THEN @ + 1 ELSE 2 ELSE 1,
              !.open = TRUE, !.samples = <<>>, !.class = class,
              !.since = IF @ = "no" THEN "short" ELSE @]

\* RecordRetryableGatewayError: memory now, the row with a later statement.
RecordRetryableGatewayError(class) ==
    /\ up
    /\ Fault("provider")
    /\ mem' = openProviderCircuitLocked(mem, class)
    /\ late' = late \cup {now}
    /\ UNCHANGED <<now, econ, armed, prov, paused, up, batch, sup, closer, ops>>

\* The row's UPDATE; two of them commit in either order, and one already sent
\* survives the process.
CommitFailure(t) ==
    /\ t \in late
    /\ late' = late \ {t}
    /\ RecordProviderFailure(t)
    /\ UNCHANGED <<now, econ, armed, paused, mem, up, batch, sup, closer, faults, ops>>

\* recordError, FailClosedExactAuthority: an error that ends the process.
recordError ==
    /\ up
    /\ Fault("fatal")
    /\ mem' = [mem EXCEPT !.open = FALSE, !.samples = <<>>, !.class = "integrity"]
    /\ late' = late \cup {now}
    /\ up' = FALSE
    /\ batch' = [todo |-> <<>>, done |-> <<>>]
    /\ UNCHANGED <<now, econ, armed, prov, paused, sup, closer, ops>>

Crash ==
    /\ up
    /\ Fault("crash")
    /\ up' = FALSE
    /\ batch' = [todo |-> <<>>, done |-> <<>>]
    /\ UNCHANGED <<now, econ, armed, prov, paused, mem, late, sup, closer, ops>>

\* Every process start.  Class, streak and circuit come from the state file.
ResetProviderRecoveryEvidence ==
    /\ ~up
    /\ up' = TRUE
    /\ mem' = [mem EXCEPT !.samples = <<>>, !.born = now,
                          !.class = IF @ = "" THEN "observer_restart" ELSE @]
    /\ RecordProviderFailure(now)
    /\ UNCHANGED <<now, econ, armed, paused, batch, late, sup, closer, faults, ops>>

\* Five minutes of degradation; then the circuit's cooldown can be over.
DegradedLong ==
    /\ mem.since = "short"
    /\ mem' = [mem EXCEPT !.since = "long"]
    /\ UNCHANGED <<now, econ, armed, prov, paused, up, batch, late, sup, closer, faults, ops>>

CircuitExpires ==
    /\ mem.open /\ (mem.since = "long" \/ mem.class \notin ProviderReasons)
    /\ mem' = [mem EXCEPT !.open = FALSE]
    /\ UNCHANGED <<now, econ, armed, prov, paused, up, batch, late, sup, closer, faults, ops>>

-----------------------------------------------------------------------------
(* fail_close_execution_authority                                           *)

\* Only a provider failure out of DISARMED_EVIDENCE is bound to its
\* transition; any other closure clears the binding.
Bound(reason) ==
    IF reason \in ProviderReasons /\ econ.phase = "DISARMED_EVIDENCE"
    THEN [epoch |-> econ.epoch + 1, failed |-> now, reason |-> reason]
    ELSE [epoch |-> 0, failed |-> 0, reason |-> ""]

\* One transaction: the lanes and the gate close, the phase fails, the epoch
\* moves.
fail_close_execution_authority(reason, who) ==
    /\ econ' = [phase |-> "DISARMED_FAILURE", epoch |-> econ.epoch + 1, why |-> reason, at |-> now]
    /\ armed' = FALSE
    /\ prov' = [ready |-> FALSE, floor |-> now, samples |-> <<>>,
                status |-> IF Bound(reason).epoch = 0 THEN "blocked" ELSE "collecting",
                epoch |-> Bound(reason).epoch, failed |-> Bound(reason).failed,
                reason |-> Bound(reason).reason]
    /\ closer' = IF reason \in ProviderReasons THEN "provider" ELSE who

-----------------------------------------------------------------------------
(* The supervisor's pass                                                    *)

supUnchanged == <<now, paused, hunterVars, ops>>
Goto(pc) == sup' = [sup EXCEPT !.pc = pc]
Settle(pc) == sup' = [pc |-> pc, p |-> NoPayload, reason |-> ""]
Done == Settle("idle")

\* evaluateLaneHealth over the payload.
ExactReady(p) == p.healthy /\ Len(p.samples) = 3 /\ p.class = "" /\ ~p.open

\* converge_revenue_provider_authority reads the lanes first.
converge ==
    /\ sup.pc = "idle"
    /\ Goto(IF armed THEN "active" ELSE "closed")
    /\ UNCHANGED <<supUnchanged, faults, econ, armed, prov, closer>>

Payload(healthy) == [samples |-> mem.samples, class |-> mem.class, open |-> mem.open,
                     streak |-> mem.streak, since |-> mem.since, healthy |-> healthy]

provider_execution_gate_failure(p) == ~(ExactReady(p) /\ p.streak = 0)

\* hunter_readiness_or_fail_closed over armed lanes: the payload, as the
\* hunter's memory is now.
active_readiness ==
    /\ sup.pc = "active"
    /\ up
    /\ \E healthy \in Health : sup' = [sup EXCEPT !.pc = "gate", !.p = Payload(healthy)]
    /\ UNCHANGED <<supUnchanged, faults, econ, armed, prov, closer>>

\* Over closed lanes: closed_lane_provider_action decides on the payload and
\* the economic row.  A hunter that is not ready always names a reason, so its
\* samples are cleared with the gate.
closed_lane_provider_action ==
    /\ sup.pc = "closed"
    /\ up
    /\ \E healthy \in Health :
         CASE provider_execution_gate_failure(Payload(healthy)) -> Settle("clear")
           [] ~provider_execution_gate_failure(Payload(healthy))
              /\ econ.phase = "DISARMED_EVIDENCE" -> Settle("preserve")
           [] OTHER -> sup' = [sup EXCEPT !.pc = "owner", !.p = Payload(healthy)]
    /\ UNCHANGED <<supUnchanged, faults, econ, armed, prov, closer>>

\* No payload: the gate closes and the pass ends.
hunter_unavailable ==
    /\ sup.pc \in {"active", "closed"}
    /\ ~up
    /\ RecordProviderFailure(now)
    /\ Done
    /\ UNCHANGED <<supUnchanged, faults, econ, armed, closer>>

\* Two failures of one class, five minutes, the circuit open again.
persistent_hunter_provider_failure(p) ==
    p.class \in ProviderReasons /\ p.streak >= 2 /\ p.since = "long" /\ p.open

\* The active lanes: the gate closes unless Exact is ready, and a lasting
\* failure goes on to the transaction that closes the lanes.
active_lane_provider_action ==
    /\ sup.pc = "gate"
    /\ IF ExactReady(sup.p) THEN prov' = prov ELSE RecordProviderFailure(now)
    /\ IF sup.p.class = Diverged \/ persistent_hunter_provider_failure(sup.p)
       THEN sup' = [pc |-> "close", p |-> NoPayload, reason |-> sup.p.class]
       ELSE Done
    /\ UNCHANGED <<supUnchanged, faults, econ, armed, closer>>

\* The transaction does not look again at the lanes or at the hunter.
converge_fail_close ==
    /\ sup.pc = "close"
    /\ fail_close_execution_authority(sup.reason, "supervisor")
    /\ Done
    /\ UNCHANGED <<supUnchanged, faults>>

\* The closed lanes: the gate of a hunter that is not ready.
closed_gate ==
    /\ sup.pc = "clear"
    /\ RecordProviderFailure(now)
    /\ Done
    /\ UNCHANGED <<supUnchanged, faults, econ, armed, closer>>

\* preserve_intentionally_closed_provider_readiness, one UPDATE that finds its
\* row or fails the pass.
preserve_intentionally_closed ==
    /\ sup.pc = "preserve"
    /\ prov' = IF econ.phase = "DISARMED_EVIDENCE" /\ prov.ready /\ Len(prov.samples) = 3 /\ ~armed
               THEN [prov EXCEPT !.status = IF @ = "recovered" THEN @ ELSE "ready"] ELSE prov
    /\ Done
    /\ UNCHANGED <<supUnchanged, faults, econ, armed, closer>>

\* attempt_provider_authority_recovery: the owner preflight must find the
\* contract unpaused.
recovery_owner ==
    /\ sup.pc = "owner"
    /\ IF paused THEN prov' = [prov EXCEPT !.status = "blocked"] /\ Done
                 ELSE prov' = prov /\ Goto("recover")
    /\ UNCHANGED <<supUnchanged, faults, econ, armed, closer>>

\* Mutant: the binding's epoch is not compared with the control row's.
validate_provider_recovery_transition_binding_AnyEpoch(samples) ==
    /\ prov.reason \in ProviderReasons
    /\ prov.samples = samples
    /\ \A i \in DOMAIN samples : samples[i].at > prov.failed

validate_provider_recovery_transition_binding(samples) ==
    /\ prov.reason \in ProviderReasons
    /\ prov.epoch = econ.epoch
    /\ prov.samples = samples
    /\ \A i \in DOMAIN samples : samples[i].at > prov.failed

provider_recovery_samples_at(p) == ExactReady(p) /\ p.streak = 0 /\ Len(p.samples) = 3

\* validate_provider_recovery_runtime_facts, as to the lanes, and the second
\* owner preflight.
validate_provider_recovery_runtime_facts == ~armed /\ ~paused

\* attempt_provider_authority_recovery_inner: one transaction under the row
\* locks.
recovery_transaction ==
    /\ sup.pc = "recover"
    /\ econ.phase = "DISARMED_FAILURE"
    /\ provider_recovery_samples_at(sup.p)
    /\ validate_provider_recovery_transition_binding(sup.p.samples)
    /\ validate_provider_recovery_runtime_facts
    /\ armed' = TRUE
    /\ econ' = [phase |-> "DISARMED_EVIDENCE", epoch |-> econ.epoch + 1,
                why |-> "provider_authority_auto_recovered", at |-> now]
    /\ prov' = [prov EXCEPT !.ready = TRUE, !.status = "recovered"]
    /\ Done
    /\ UNCHANGED <<supUnchanged, faults, closer>>

\* Any refusal rolls back; the row then says so: the binding, the lanes, the
\* contract, or (a fault) an active attempt, a held lock, a spent loss
\* budget.  A phase that has moved on is no refusal.
recovery_refused ==
    /\ sup.pc = "recover"
    /\ \/ /\ ~(/\ econ.phase = "DISARMED_FAILURE"
               /\ validate_provider_recovery_transition_binding(sup.p.samples)
               /\ validate_provider_recovery_runtime_facts)
          /\ faults' = faults
       \/ Fault("active")
    /\ prov' = IF econ.phase = "DISARMED_FAILURE" THEN [prov EXCEPT !.status = "blocked"] ELSE prov
    /\ Done
    /\ UNCHANGED <<supUnchanged, econ, armed, closer>>

Supervise ==
    \/ converge \/ active_readiness \/ hunter_unavailable \/ closed_lane_provider_action
    \/ active_lane_provider_action \/ converge_fail_close \/ closed_gate
    \/ preserve_intentionally_closed \/ recovery_owner \/ recovery_transaction \/ recovery_refused

-----------------------------------------------------------------------------
(* The operator's commands and the executor                                 *)

Op == ops < MaxOps /\ ops' = ops + 1
opUnchanged == <<now, hunterVars, sup, faults>>

\* arm_revenue_lanes_in_pool does not ask for a phase.
arm_revenue_lanes ==
    /\ Op
    /\ ~armed
    /\ prov.ready
    /\ armed' = TRUE
    /\ UNCHANGED <<opUnchanged, econ, prov, paused, closer>>

\* disarm leaves the provider row.
disarm(reason) ==
    /\ Op
    /\ armed' = FALSE
    /\ econ' = [phase |-> "DISARMED_FAILURE", epoch |-> econ.epoch + 1, why |-> reason, at |-> now]
    /\ closer' = "operator"
    /\ UNCHANGED <<opUnchanged, prov, paused>>

\* require_max_reviewed_runtime_readiness asks the hunter itself.
validate_hunter_readiness == up /\ ExactReady(Payload(TRUE))

post_arm_recovery_samples(p) == p.streak = 0 /\ provider_recovery_samples_at(p)

\* Only after that failure, and only with samples taken since.
validate_post_arm_recovery_facts ==
    /\ econ.phase = "DISARMED_FAILURE" /\ econ.why = "post_arm_acceptance_failed"
    /\ ~armed
    /\ \A i \in 1..3 : mem.samples[i].at > econ.at

\* The owner's evidence must say paused; the lanes stay closed.
recover_post_arm_acceptance_failure ==
    /\ Op
    /\ paused
    /\ validate_hunter_readiness
    /\ post_arm_recovery_samples(Payload(TRUE))
    /\ validate_post_arm_recovery_facts
    /\ econ' = [phase |-> "DISARMED_EVIDENCE", epoch |-> econ.epoch + 1,
                why |-> "post_arm_acceptance_recovered", at |-> now]
    /\ UNCHANGED <<opUnchanged, armed, prov, paused, closer>>

\* The owner's pause switch on the contract.
set_paused ==
    /\ Op
    /\ paused' = ~paused
    /\ UNCHANGED <<opUnchanged, econ, armed, prov, closer>>

\* The executor fails closed on a loss limit or an integrity error.
executor_fail_close ==
    /\ Op
    /\ fail_close_execution_authority("daily_loss_budget", "executor")
    /\ UNCHANGED <<opUnchanged, paused>>

Hunter ==
    \/ screen \/ RecordAaveSignal \/ screened \/ screened_diverged
    \/ \E c \in Classes : RecordRetryableGatewayError(c)
    \/ \E t \in late : CommitFailure(t)
    \/ recordError \/ Crash \/ ResetProviderRecoveryEvidence \/ DegradedLong \/ CircuitExpires

Operator ==
    \/ arm_revenue_lanes \/ recover_post_arm_acceptance_failure \/ set_paused
    \/ \E r \in {"post_arm_acceptance_failed", "operator_disarm"} : disarm(r)

Next == Hunter \/ Supervise \/ Operator \/ executor_fail_close

Spec == Init /\ [][Next]_vars

\* The supervisor's loop never ends, a restarted hunter and a sent statement
\* come through.
FairSpec ==
    /\ Spec
    /\ WF_vars(Supervise)
    /\ WF_vars(RecordAaveSignal \/ screened)
    /\ WF_vars(ResetProviderRecoveryEvidence)
    /\ \A t \in Times : WF_vars(CommitFailure(t))
    /\ WF_vars(DegradedLong)

-----------------------------------------------------------------------------
(* Properties                                                               *)

\* ReadyIsEvidenced: an open gate rests on three samples in time order, all
\* of them later than the evidence floor and than the failure the row is
\* bound to, in whatever order failure reports and signals commit and even
\* where a late report has moved the floor back.
ReadyIsEvidenced ==
    prov.ready => /\ Len(prov.samples) = 3
                  /\ \A i \in 1..3 : /\ prov.samples[i].at > prov.floor
                                     /\ prov.samples[i].at > prov.failed
                                     /\ i > 1 => prov.samples[i].at > prov.samples[i - 1].at

\* NoEarlierProcess: while a hunter runs, the row holds no sample taken before
\* that process started ("Exact samples from a previous process can never
\* satisfy a new recovery window").
NoEarlierProcess == up => \A i \in DOMAIN prov.samples : prov.samples[i].at > mem.born

\* AutoRearmIsBound: the supervisor rearms the lanes only when the closure in
\* force is a provider failure, never over the operator's disarm or the
\* executor's own closure, whatever happened since it read its payload.
RearmsOverProvider == (~armed /\ armed' /\ econ'.phase # econ.phase) => closer = "provider"
AutoRearmIsBound == [][RearmsOverProvider]_vars

LastingFailure ==
    /\ armed /\ up /\ mem.open
    /\ mem.class \in ProviderReasons /\ mem.streak = 2 /\ mem.since = "long"

\* LastingFailureCloses: lanes armed over a provider failure that lasts are
\* closed by the supervisor, unless the failure passes or the hunter dies
\* ("A sustained failure still closes both revenue lanes").
LastingFailureCloses == LastingFailure ~> ~LastingFailure

EvidenceComplete ==
    /\ econ.phase = "DISARMED_FAILURE" /\ prov.epoch = econ.epoch
    /\ ~armed /\ ~paused
    /\ up /\ Idle /\ mem.class = "" /\ ~mem.open /\ Len(mem.samples) = 3
    /\ Len(prov.samples) = 3
    /\ \A i \in 1..3 : prov.samples[i].at = mem.samples[i].at

\* EvidenceRecovers: once the row and the hunter hold the same three samples
\* after a bound provider failure, the contract unpaused and nothing active,
\* the supervisor rearms the lanes, unless something else intervenes.
EvidenceRecovers == EvidenceComplete ~> ~EvidenceComplete

=============================================================================
