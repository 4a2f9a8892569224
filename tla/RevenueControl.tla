--------------------------- MODULE RevenueControl ---------------------------
(***************************************************************************)
(* Everyone else who writes the shared rows: the control tool and its      *)
(* supervisor (autonomous_live_control_main.rs), the hunter and its        *)
(* provider sampling (postgres_sink.go), the engine's candidate writer and *)
(* the clock.  Only what the executor can see of them is kept: who is      *)
(* armed, the phase, the evidence floor.                                   *)
(***************************************************************************)
EXTENDS RevenueStore

othersUnchanged == <<attemptVars, atlasVars, lock, lossVars>>

Quiet == lock = NoOwner /\ Active = {} /\ ActiveAtlas = {}

\* Mutant: activation does not wait for active attempts.
Activate_Unchecked ==
    /\ phase = "closed"
    /\ phase' = "live"
    /\ dexArmed' = TRUE
    /\ UNCHANGED <<lanesArmed, providerReady, stale, cand, othersUnchanged>>

\* activate: CANARY_READY to LIVE_CANARY_MIN.  It does not look at the lock.
Activate ==
    /\ phase = "closed"
    /\ Active = {}
    /\ phase' = "live"
    /\ dexArmed' = TRUE
    /\ UNCHANGED <<lanesArmed, providerReady, stale, cand, othersUnchanged>>

\* create_readiness: DISARMED_EVIDENCE to CANARY_READY, under closed controls.
CreateReadiness ==
    /\ phase = "evidence"
    /\ ~dexArmed
    /\ Active = {}
    /\ phase' = "closed"
    /\ UNCHANGED <<dexArmed, lanesArmed, providerReady, stale, cand, othersUnchanged>>

BudgetLeft == daily_loss_wei(directLoss) < MaximumDailyLoss

\* set_revenue_size_max_reviewed: DISARMED_EVIDENCE moves to the size both
\* provider-gated lanes need.
SetMaxReviewed ==
    /\ phase = "closed"
    /\ ~dexArmed /\ ~lanesArmed
    /\ Quiet
    /\ BudgetLeft
    /\ phase' = "evidence"
    /\ UNCHANGED <<dexArmed, lanesArmed, providerReady, stale, cand, othersUnchanged>>

\* recover_post_arm_acceptance_failure: DISARMED_FAILURE back to DISARMED_EVIDENCE.
PostArmRecovery ==
    /\ phase = "closed"
    /\ ~dexArmed /\ ~lanesArmed
    /\ Quiet
    /\ phase' = "evidence"
    /\ UNCHANGED <<dexArmed, lanesArmed, providerReady, stale, cand, othersUnchanged>>

arm_revenue_lanes ==
    /\ Quiet
    /\ providerReady
    /\ BudgetLeft
    /\ lanesArmed' = TRUE
    /\ UNCHANGED <<dexArmed, providerReady, phase, stale, cand, othersUnchanged>>

\* attempt_provider_authority_recovery: back to the state before the failure.
ProviderRecovery ==
    /\ phase = "closed"
    /\ ~dexArmed /\ ~lanesArmed
    /\ Quiet
    /\ BudgetLeft
    /\ phase' = "evidence"
    /\ lanesArmed' = TRUE
    /\ providerReady' = TRUE
    /\ UNCHANGED <<dexArmed, stale, cand, othersUnchanged>>

\* The operator's disarm leaves the provider gate and its evidence floor.
OperatorDisarm ==
    /\ dexArmed' = FALSE
    /\ lanesArmed' = FALSE
    /\ phase' = "closed"
    /\ cand' = DisarmCandidates(cand)
    /\ UNCHANGED <<providerReady, stale, othersUnchanged>>

\* route_failure: phase DISARMED_FAILURE, the global controls stay armed.
route_failure ==
    /\ phase = "live"
    /\ phase' = "closed"
    /\ UNCHANGED <<dexArmed, lanesArmed, providerReady, stale, cand, othersUnchanged>>

\* converge_revenue_provider_authority, evaluate_economic_control.
SupervisorFailClose ==
    /\ fail_close_execution_authority
    /\ UNCHANGED othersUnchanged

fail_close_provider_execution_gate ==
    /\ providerReady' = FALSE
    /\ stale' = stale \cup Unclaimed
    /\ UNCHANGED <<dexArmed, lanesArmed, phase, cand, othersUnchanged>>

\* The floor becomes the time the failure was observed, not the time it is
\* written: requests published in between stay claimable, and a late report
\* moves the floor back.
RecordProviderFailure ==
    /\ providerReady' = FALSE
    /\ stale' \in SUBSET (stale \cup Unclaimed)
    /\ UNCHANGED <<dexArmed, lanesArmed, phase, cand, othersUnchanged>>

\* recordPrimaryProviderSuccess with its third sample.
RecordProviderSuccess ==
    /\ ~providerReady
    /\ providerReady' = TRUE
    /\ UNCHANGED <<dexArmed, lanesArmed, phase, stale, cand, othersUnchanged>>

-----------------------------------------------------------------------------

\* The engine writes a DEX candidate.
InsertCandidate(r) ==
    /\ r \in Dex
    /\ cand[r] = "none"
    /\ cand' = [cand EXCEPT ![r] = "materialized"]
    /\ UNCHANGED <<controlVars, othersUnchanged>>

\* normalizeCandidateAuthority keeps a candidate only under this authority.  The
\* statement is taken as it is meant; see ControlRows for what it does as written.
HunterAuthority == lanesArmed /\ providerReady /\ phase \in {"evidence", "live"}

insertExecutionCandidate(r) ==
    /\ r \in Direct \ Dex
    /\ HunterAuthority
    /\ status[r] = "absent"
    /\ status' = [status EXCEPT ![r] = "approved"]
    /\ UNCHANGED <<nonce, nextNonce, cand, atlasVars, lock, controlVars, lossVars>>

\* A second write of the same auction only moves updated_at, whatever became
\* of the row.
insertAtlasCandidate(a) ==
    /\ HunterAuthority
    /\ astatus' = IF astatus[a] = "absent" THEN [astatus EXCEPT ![a] = "ready"] ELSE astatus
    /\ touched' = IF touched[a] = "no" THEN [touched EXCEPT ![a] = "hunter"] ELSE touched
    /\ astatus' # astatus \/ touched' # touched
    /\ UNCHANGED <<attemptVars, cand, hashed, lock, controlVars, lossVars>>

\* Midnight UTC: yesterday's rows leave the daily sums.
NewDay ==
    /\ directLoss' = 0
    /\ touched' = [a \in Auction |-> "no"]
    /\ UNCHANGED <<attemptVars, cand, astatus, hashed, lock, controlVars, recentLoss>>

ControlNext ==
    \/ Activate \/ CreateReadiness \/ SetMaxReviewed \/ PostArmRecovery \/ arm_revenue_lanes
    \/ ProviderRecovery \/ OperatorDisarm \/ route_failure \/ SupervisorFailClose
    \/ fail_close_provider_execution_gate \/ RecordProviderFailure \/ RecordProviderSuccess
    \/ \E r \in Direct : InsertCandidate(r) \/ insertExecutionCandidate(r)
    \/ \E a \in Auction : insertAtlasCandidate(a)
    \/ NewDay

=============================================================================
