------------------------------ MODULE AtlasLane ------------------------------
(***************************************************************************)
(* AtlasRevenueExecutor::step of revenue.rs, which every loop turn of the  *)
(* live executor runs after the direct lanes.  The statements here do not  *)
(* check how many rows they changed, and main.rs only logs an error: the   *)
(* next loop turn starts again.                                            *)
(***************************************************************************)
EXTENDS LiveExecutor

LoopTop == "materialize"

AtlasMove(a, from, to) ==
    astatus' = IF astatus[a] \in from THEN [astatus EXCEPT ![a] = to] ELSE astatus

\* Every update of the row moves updated_at into the current day.
Touch(a, from) ==
    touched' = IF astatus[a] \in from THEN [touched EXCEPT ![a] = "executor"] ELSE touched

AtlasUpdate(a, from, to) ==
    /\ AtlasMove(a, from, to)
    /\ Touch(a, from)

\* Mutant: an unknown submission is not reconciled.
AtlasActive_SubmittedOnly(p) ==
    \/ /\ \A a \in Auction : astatus[a] # "submitted"
       /\ Branch(p, "atlas", "atlas_claim")
    \/ \E a \in Auction :
        /\ pc[p] = "atlas"
        /\ astatus[a] = "submitted"
        /\ pc' = [pc EXCEPT ![p] = "atlas_reconcile"]
        /\ cur' = [cur EXCEPT ![p] = a]
        /\ UNCHANGED <<seen, net, faults, storeVars, chainVars>>

AtlasActive(p) ==
    \/ /\ \A a \in Auction : astatus[a] \notin {"submitted", "submission_unknown"}
       /\ Branch(p, "atlas", "atlas_claim")
    \/ \E a \in Auction :
        /\ pc[p] = "atlas"
        /\ astatus[a] \in {"submitted", "submission_unknown"}
        /\ pc' = [pc EXCEPT ![p] = "atlas_reconcile"]
        /\ cur' = [cur EXCEPT ![p] = a]
        /\ UNCHANGED <<seen, net, faults, storeVars, chainVars>>

\* Any RPC error, or an inclusion whose evidence does not verify, ends in
\* kill_unknown.
AtlasUnverified(p) == Branch(p, "atlas_reconcile", "atlas_kill")

AtlasReconcile(p) ==
    \/ Finish(p, "atlas_reconcile", LoopTop) /\ op[cur[p]] \in {"none", "live"}
    \/ Branch(p, "atlas_reconcile", "atlas_won") /\ op[cur[p]] = "won"
    \/ Branch(p, "atlas_reconcile", "atlas_failed") /\ op[cur[p]] = "failed"
    \/ Branch(p, "atlas_reconcile", "atlas_expired") /\ op[cur[p]] = "expired"

PersistExpired(p) ==
    /\ CommitLast(p, "atlas_expired", LoopTop, TRUE)
    /\ AtlasUpdate(cur[p], {"submitted", "submission_unknown"}, "expired")
    /\ lock' = Released(cur[p])
    /\ UNCHANGED <<attemptVars, cand, hashed, controlVars, lossVars>>

PersistFailedInclusion(p) ==
    /\ CommitLast(p, "atlas_failed", LoopTop, TRUE)
    /\ fail_close_execution_authority
    /\ AtlasUpdate(cur[p], {"submitted", "submission_unknown"}, "lost")
    /\ hashed' = IF astatus[cur[p]] \in {"submitted", "submission_unknown"}
                 THEN hashed \cup {cur[p]} ELSE hashed
    /\ lock' = Released(cur[p])
    /\ UNCHANGED <<attemptVars, lossVars>>

PersistReconciled(p) ==
    /\ CommitLast(p, "atlas_won", LoopTop, TRUE)
    /\ AtlasUpdate(cur[p], {"submitted", "submission_unknown"}, "reconciled")
    /\ hashed' = IF astatus[cur[p]] \in {"submitted", "submission_unknown"}
                 THEN hashed \cup {cur[p]} ELSE hashed
    /\ lock' = Released(cur[p])
    /\ UNCHANGED <<attemptVars, cand, controlVars, lossVars>>

CanClaimAuction(a) ==
    /\ astatus[a] = "ready"
    /\ a \notin stale
    /\ LaneAuthority
    /\ lock = NoOwner
    /\ Active = {}

\* Mutant: the bid's own exposure is left out.
ExposureFits_Realized == daily_loss_wei(directLoss) <= MaximumDailyLoss

\* The exposure already charged today is read in the claim and carried into
\* validate_aave_atlas_safety, which refuses what does not fit.
ExposureFits == daily_loss_wei(directLoss) + SolverExposure <= MaximumDailyLoss

AtlasClaim(p) ==
    \/ Finish(p, "atlas_claim", LoopTop)
    \/ \E a \in Auction :
        /\ pc[p] = "atlas_claim"
        /\ CanClaimAuction(a)
        /\ AtlasUpdate(a, {"ready"}, "claimed")
        /\ lock' = a
        /\ pc' = [pc EXCEPT ![p] = IF ExposureFits THEN "atlas_validate" ELSE "atlas_reject"]
        /\ cur' = [cur EXCEPT ![p] = a]
        /\ UNCHANGED <<seen, net, faults, chainVars, attemptVars, cand, hashed,
                       controlVars, lossVars>>

\* The other checks of the operation and the first preflight.
AtlasValidate(p) ==
    \/ Branch(p, "atlas_validate", "atlas_sign")
    \/ Branch(p, "atlas_validate", "atlas_reject")

AtlasSign(p) ==
    \/ Branch(p, "atlas_sign", "atlas_kill")
    \/ /\ Commit(p, "atlas_sign", "atlas_recheck", TRUE)
       /\ AtlasUpdate(cur[p], {"claimed"}, "signed")
       /\ UNCHANGED <<attemptVars, cand, hashed, lock, controlVars, lossVars>>

\* lane_enabled, then the second preflight.
AtlasRecheck(p) ==
    \/ LaneAuthority /\ Branch(p, "atlas_recheck", "atlas_submit")
    \/ Branch(p, "atlas_recheck", "atlas_reject")

\* SubmissionRejected is taken for a bid that is not live: an auction gateway
\* that took the bid is taken to answer in the form validate_submit_response
\* accepts, with the id and version of the request and a null result.
AtlasSubmit(p) ==
    \/ Branch(p, "atlas_submit", "atlas_reject")  \* SubmissionRejected
    \/ Branch(p, "atlas_submit", "atlas_kill")    \* never arrived
    \/ /\ pc[p] = "atlas_submit"
       /\ op' = IF op[cur[p]] = "none" THEN [op EXCEPT ![cur[p]] = "live"] ELSE op
       /\ Goto(p, "atlas_submitted") \/ Goto(p, "atlas_kill")
       /\ UNCHANGED <<faults, storeVars, txVars>>

AtlasSubmitted(p) ==
    /\ CommitLast(p, "atlas_submitted", LoopTop, TRUE)
    /\ AtlasUpdate(cur[p], {"signed"}, "submitted")
    /\ hashed' = IF astatus[cur[p]] = "signed" THEN hashed \cup {cur[p]} ELSE hashed
    /\ UNCHANGED <<attemptVars, cand, lock, controlVars, lossVars>>

reject_and_unlock(p) ==
    /\ CommitLast(p, "atlas_reject", LoopTop, TRUE)
    /\ AtlasUpdate(cur[p], {"claimed", "signed", "submitted", "submission_unknown"}, "lost")
    /\ lock' = Released(cur[p])
    /\ UNCHANGED <<attemptVars, cand, hashed, controlVars, lossVars>>

kill_unknown(p) ==
    /\ CommitLast(p, "atlas_kill", LoopTop, TRUE)
    /\ fail_close_execution_authority
    /\ AtlasUpdate(cur[p], {"claimed", "signed"}, "submission_unknown")
    /\ UNCHANGED <<attemptVars, hashed, lock, lossVars>>

AtlasFault(p) ==
    /\ faults < MaxFaults
    /\ faults' = faults + 1
    /\ pc[p] \in AtlasPc
    /\ Leave(p, LoopTop)
    /\ UNCHANGED <<storeVars, chainVars>>

AtlasStep(p) ==
    \/ AtlasActive(p) \/ AtlasUnverified(p) \/ AtlasReconcile(p) \/ PersistExpired(p)
    \/ PersistFailedInclusion(p) \/ PersistReconciled(p) \/ AtlasClaim(p) \/ AtlasValidate(p) \/ AtlasSign(p)
    \/ AtlasRecheck(p) \/ AtlasSubmit(p) \/ AtlasSubmitted(p)
    \/ reject_and_unlock(p) \/ kill_unknown(p)

=============================================================================
