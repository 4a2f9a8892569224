---------------------------- MODULE RevenueStore ----------------------------
(***************************************************************************)
(* The rows of the live_canary schema that the live executor, the Atlas    *)
(* lane, the materializer and the control tool share, and the transactions *)
(* the executor runs on them (live-executor/src/store.rs).  One operator   *)
(* below is one database transaction: the precondition it is tried under   *)
(* is the operator named Can..., the new rows are the primed variables.    *)
(*                                                                         *)
(* An execution request and its attempt row always carry the same status,  *)
(* written by the same transactions, so `status' stands for both.          *)
(***************************************************************************)
EXTENDS Naturals, FiniteSets

CONSTANTS
    Direct,            \* identities of execution_requests (DEX and Aave)
    Auction,           \* identities of atlas_solver_requests
    RouteType,         \* the route type of each direct request
    NoOwner,           \* active_identity IS NULL in the submission lock
    SolverExposure,    \* solver gas limit times oracle gas price
    MaximumDailyLoss,  \* limits.maximum_daily_loss_wei
    GlobalLossLimit    \* autonomous_global_control.daily_loss_limit

ASSUME StoreAssumption ==
    /\ RouteType \in [Direct -> {"PHOENIX_DEX_V1", "AAVE_LIQUIDATION_V1"}]
    /\ Direct \cap Auction = {}
    /\ NoOwner \notin Direct \cup Auction
    /\ IsFiniteSet(Auction)
    /\ SolverExposure \in Nat
    /\ MaximumDailyLoss \in Nat
    /\ GlobalLossLimit \in Nat

VARIABLES
    status,         \* execution_attempts.status ("absent", "approved" before the attempt)
    nonce,          \* execution_attempts.nonce (0 before it is allocated)
    nextNonce,      \* nonce_state.next_nonce (0 while the row is missing)
    cand,           \* autonomous_candidates.status ("none": no candidate row)
    astatus,        \* atlas_solver_requests.status
    hashed,         \* auctions with a submission or inclusion hash
    touched,        \* who last moved updated_at into the current UTC day
    lock,           \* global_revenue_submission_lock.active_identity
    dexArmed,       \* control and autonomous_global_control armed, not killed
    lanesArmed,     \* both revenue_lane_controls armed, not killed
    providerReady,  \* revenue_provider_authority.exact_execution_ready
    phase,          \* economic_control: "live", "evidence" (at MAX_REVIEWED), else "closed"
    stale,          \* unclaimed requests older than request_evidence_not_before
    directLoss,     \* losses of today's execution_outcomes
    recentLoss      \* the DEX route's most recent outcome is a loss

attemptVars == <<status, nonce, nextNonce>>
atlasVars   == <<astatus, hashed, touched>>
controlVars == <<dexArmed, lanesArmed, providerReady, phase, stale>>
lossVars    == <<directLoss, recentLoss>>
storeVars   == <<attemptVars, cand, atlasVars, lock, controlVars, lossVars>>

ActiveStatuses == {"claimed", "nonce_allocated", "submission_unknown", "pending", "timed_out"}

AttemptStatus == ActiveStatuses \cup
    {"absent", "approved", "confirmed", "reverted", "failed", "replaced"}

AtlasStatus == {"absent", "ready", "claimed", "signed", "submitted",
                "submission_unknown", "lost", "expired", "reconciled"}

\* "rejected" stands for every reason the materializer rejects a candidate with.
CandidateStatus == {"none", "materialized", "approval_pending", "request_materialized",
                    "claimed", "signed", "submitted", "submission_unknown", "confirmed",
                    "reverted", "submission_failed_known", "disarmed", "expired", "rejected"}

StoreTypeOK ==
    /\ status \in [Direct -> AttemptStatus]
    /\ nonce \in [Direct -> Nat]
    /\ nextNonce \in Nat
    /\ cand \in [Direct -> CandidateStatus]
    /\ astatus \in [Auction -> AtlasStatus]
    /\ hashed \subseteq Auction
    /\ touched \in [Auction -> {"no", "executor", "hunter"}]
    /\ lock \in Direct \cup Auction \cup {NoOwner}
    /\ dexArmed \in BOOLEAN /\ lanesArmed \in BOOLEAN /\ providerReady \in BOOLEAN
    /\ phase \in {"closed", "evidence", "live"}
    /\ stale \subseteq Direct \cup Auction
    /\ directLoss \in Nat
    /\ recentLoss \in BOOLEAN

StoreInit ==
    /\ status = [r \in Direct |-> "absent"]
    /\ nonce = [r \in Direct |-> 0]
    /\ nextNonce = 0
    /\ cand = [r \in Direct |-> "none"]
    /\ astatus = [a \in Auction |-> "absent"]
    /\ hashed = {}
    /\ touched = [a \in Auction |-> "no"]
    /\ lock = NoOwner
    /\ dexArmed = FALSE /\ lanesArmed = FALSE /\ providerReady = FALSE
    /\ phase = "closed"
    /\ stale = {}
    /\ directLoss = 0
    /\ recentLoss = FALSE

-----------------------------------------------------------------------------
(* Reads.                                                                  *)

Dex == {r \in Direct : RouteType[r] = "PHOENIX_DEX_V1"}

Active == {r \in Direct : status[r] \in ActiveStatuses}

ActiveAtlas ==
    {a \in Auction : astatus[a] \in {"claimed", "signed", "submitted", "submission_unknown"}}

DexAuthority == dexArmed /\ phase = "live"

LaneAuthority == lanesArmed /\ providerReady /\ phase = "evidence"

\* control_state: one flag for all routes.
ControlArmed == DexAuthority \/ LaneAuthority

Authority(r) == IF r \in Dex THEN DexAuthority ELSE LaneAuthority

\* Auctions whose whole bounded exposure counts against the current UTC day.
Charged ==
    {a \in Auction :
        /\ touched[a] # "no"
        /\ \/ astatus[a] \in {"signed", "submitted", "submission_unknown"}
           \/ astatus[a] = "lost" /\ a \in hashed}

daily_loss_wei(direct) == direct + SolverExposure * Cardinality(Charged)

-----------------------------------------------------------------------------
(* Pieces of transactions.                                                 *)

\* UPDATE autonomous_candidates SET status = to WHERE request = r AND status IN from
MoveCandidate(c, r, from, to) == IF c[r] \in from THEN [c EXCEPT ![r] = to] ELSE c

DisarmCandidates(c) ==
    [r \in Direct |->
        IF c[r] \in {"materialized", "approval_pending", "request_materialized",
                     "claimed", "signed"}
        THEN "disarmed" ELSE c[r]]

\* Requests of the two provider-gated lanes that no claim has taken yet.
Unclaimed ==
    {r \in Direct \ Dex : status[r] = "approved"} \cup {a \in Auction : astatus[a] = "ready"}

Released(i) == IF lock = i THEN NoOwner ELSE lock

fail_close_execution_authority ==
    /\ dexArmed' = FALSE
    /\ lanesArmed' = FALSE
    /\ providerReady' = FALSE
    /\ phase' = "closed"
    /\ stale' = stale \cup Unclaimed
    /\ cand' = DisarmCandidates(cand)

-----------------------------------------------------------------------------
(* Transactions of the direct lanes.                                       *)

disarm ==
    /\ fail_close_execution_authority
    /\ UNCHANGED <<attemptVars, atlasVars, lock, lossVars>>

\* Mutant: only the attempts are looked at, not the lock an auction may hold.
CanClaim_AttemptsOnly(r) ==
    /\ status[r] = "approved"
    /\ Authority(r)
    /\ r \notin stale
    /\ Active = {}

\* The deadline and size filters of the query are left to the caller, which
\* may always find no row.
CanClaim(r) ==
    /\ status[r] = "approved"
    /\ Authority(r)
    /\ r \notin stale
    /\ lock = NoOwner
    /\ Active = {}

claim_approved(r) ==
    /\ status' = [status EXCEPT ![r] = "claimed"]
    /\ cand' = MoveCandidate(cand, r, {"request_materialized"}, "claimed")
    /\ lock' = r
    /\ UNCHANGED <<nonce, nextNonce, atlasVars, controlVars, lossVars>>

CanAllocate(r) == status[r] = "claimed"

\* Mutant: the network's count is believed.
allocate_nonce_FromNetwork(r, network) ==
    /\ nonce' = [nonce EXCEPT ![r] = network]
    /\ nextNonce' = network + 1
    /\ status' = [status EXCEPT ![r] = "nonce_allocated"]
    /\ UNCHANGED <<cand, atlasVars, lock, controlVars, lossVars>>

allocate_nonce(r, network) ==
    LET n == IF nextNonce >= network THEN nextNonce ELSE network
    IN  /\ nonce' = [nonce EXCEPT ![r] = n]
        /\ nextNonce' = n + 1
        /\ status' = [status EXCEPT ![r] = "nonce_allocated"]
        /\ UNCHANGED <<cand, atlasVars, lock, controlVars, lossVars>>

HasUnsubmittedNonce(r) == status[r] = "nonce_allocated"

mark_signed(r) ==
    /\ cand' = MoveCandidate(cand, r, {"claimed"}, "signed")
    /\ UNCHANGED <<attemptVars, atlasVars, lock, controlVars, lossVars>>

mark_submission_unknown(r) ==
    /\ status' = [status EXCEPT ![r] = "submission_unknown"]
    /\ cand' = MoveCandidate(cand, r, {"claimed", "signed", "submitted"}, "submission_unknown")
    /\ UNCHANGED <<nonce, nextNonce, atlasVars, lock, controlVars, lossVars>>

CanRollBack(r) == HasUnsubmittedNonce(r) /\ nextNonce = nonce[r] + 1

\* Mutant: the nonce is not given back.
fail_unsubmitted_KeepsNonce(r) ==
    /\ status' = [status EXCEPT ![r] = "failed"]
    /\ cand' = MoveCandidate(cand, r, {"claimed", "signed"}, "submission_failed_known")
    /\ lock' = Released(r)
    /\ UNCHANGED <<nonce, nextNonce, atlasVars, controlVars, lossVars>>

\* Mutant: the lock is not given back.
fail_unsubmitted_KeepsLock(r) ==
    /\ nextNonce' = nonce[r]
    /\ status' = [status EXCEPT ![r] = "failed"]
    /\ cand' = MoveCandidate(cand, r, {"claimed", "signed"}, "submission_failed_known")
    /\ UNCHANGED <<nonce, atlasVars, lock, controlVars, lossVars>>

fail_unsubmitted(r) ==
    /\ nextNonce' = nonce[r]
    /\ status' = [status EXCEPT ![r] = "failed"]
    /\ cand' = MoveCandidate(cand, r, {"claimed", "signed"}, "submission_failed_known")
    /\ lock' = Released(r)
    /\ UNCHANGED <<nonce, atlasVars, controlVars, lossVars>>

mark_pending(r) ==
    /\ status' = [status EXCEPT ![r] = "pending"]
    /\ cand' = MoveCandidate(cand, r, {"signed"}, "submitted")
    /\ UNCHANGED <<nonce, nextNonce, atlasVars, lock, controlVars, lossVars>>

\* Mutant: a closed attempt may be closed again, as something else.
CanTerminate_Again(r, to) ==
    /\ status[r] \notin {"absent", "approved", "submission_unknown"}
    /\ to # "failed" => status[r] \in {"pending", "timed_out"}

\* The hash is written with "pending", so an attempt before it has none.
CanTerminate(r, to) ==
    /\ status[r] \in {"claimed", "nonce_allocated", "pending", "timed_out"}
    /\ to # "failed" => status[r] \in {"pending", "timed_out"}

\* Mutant: a replaced or timed out attempt counts as never submitted.
TerminalCandidate_Failed(to) ==
    IF to \in {"confirmed", "reverted"} THEN to ELSE "submission_failed_known"

TerminalCandidate(to) ==
    CASE to \in {"confirmed", "reverted"}  -> to
      [] to = "failed"                     -> "submission_failed_known"
      [] OTHER                             -> "disarmed"

\* Route and global loss feedback inside mark_terminal, from the DEX losses
\* after the outcome is inserted; limitHit: a route loss limit is reached.
apply_autonomous_risk_feedback(r, lossAfter, lastIsLoss, limitHit, c) ==
    LET frozen == r \in Dex /\ (limitHit \/ lastIsLoss)
        global == r \in Dex /\ daily_loss_wei(lossAfter) >= GlobalLossLimit
    IN  /\ phase' = IF frozen \/ global THEN "closed" ELSE phase
        /\ dexArmed' = (dexArmed /\ ~global)
        /\ cand' = IF global THEN DisarmCandidates(c) ELSE c
        /\ UNCHANGED <<lanesArmed, providerReady, stale>>

\* Mutant: every terminal status gives the lock back.
mark_terminal_AlwaysReleases(r, to, loss, limitHit) ==
    LET outcome  == to \in {"confirmed", "reverted"}
        recent   == IF outcome /\ r \in Dex THEN loss > 0 ELSE recentLoss
    IN  /\ status' = [status EXCEPT ![r] = to]
        /\ directLoss' = directLoss + (IF outcome THEN loss ELSE 0)
        /\ recentLoss' = recent
        /\ apply_autonomous_risk_feedback(r, directLoss + (IF outcome THEN loss ELSE 0),
               recent, limitHit,
               MoveCandidate(cand, r, {"claimed", "signed", "submitted"}, TerminalCandidate(to)))
        /\ lock' = Released(r)
        /\ UNCHANGED <<nonce, nextNonce, atlasVars>>

mark_terminal(r, to, loss, limitHit) ==
    LET outcome  == to \in {"confirmed", "reverted"}
        recent   == IF outcome /\ r \in Dex THEN loss > 0 ELSE recentLoss
    IN  /\ status' = [status EXCEPT ![r] = to]
        /\ directLoss' = directLoss + (IF outcome THEN loss ELSE 0)
        /\ recentLoss' = recent
        /\ apply_autonomous_risk_feedback(r, directLoss + (IF outcome THEN loss ELSE 0),
               recent, limitHit,
               MoveCandidate(cand, r, {"claimed", "signed", "submitted"}, TerminalCandidate(to)))
        /\ lock' = IF to \in {"confirmed", "reverted", "failed"} THEN Released(r) ELSE lock
        /\ UNCHANGED <<nonce, nextNonce, atlasVars>>

=============================================================================
