---------------------------- MODULE Materializer ----------------------------
(***************************************************************************)
(* AutonomousMaterializer::step of autonomous.rs, the first step of every  *)
(* loop turn: it turns DEX candidates of the engine into approved          *)
(* execution requests.  Its policy and dependency errors are only logged;  *)
(* any other error disarms and exits.                                      *)
(***************************************************************************)
EXTENDS LiveExecutor

Undecided == {"materialized", "approval_pending"}

candOnly == <<attemptVars, atlasVars, lock, controlVars, lossVars>>

Expirable == {r \in Direct : cand[r] \in Undecided}

\* expire_candidates, then claim_candidate among what has not expired.
ClaimCandidate(p) ==
    /\ pc[p] = "materialize"
    /\ \E gone \in SUBSET Expirable :
        LET live == Expirable \ gone
            kept == [r \in Direct |-> IF r \in gone THEN "expired" ELSE cand[r]]
        IN  \/ /\ live = {}
               /\ cand' = kept
               /\ Leave(p, "execute")
            \/ \E r \in live :
               /\ cand' = [kept EXCEPT ![r] = "approval_pending"]
               /\ pc' = [pc EXCEPT ![p] = "finalize"]
               /\ cur' = [cur EXCEPT ![p] = r]
               /\ UNCHANGED <<seen, net>>
    /\ UNCHANGED <<faults, chainVars, candOnly>>

\* The quote fails (dependency or integrity), load_controls answers Policy, or
\* the candidate fails a check and goes to reject.
QuoteCandidate(p) ==
    \/ Finish(p, "finalize", "execute")
    \/ Finish(p, "finalize", "fatal")
    \/ Branch(p, "finalize", "reject")

\* The row is no longer approval_pending, or the fork result is missing or bad.
ForkDisposition(p) ==
    /\ CommitLast(p, "finalize", "execute", TRUE)
    /\ \E to \in {"materialized", "rejected"} :
          cand' = MoveCandidate(cand, cur[p], {"approval_pending"}, to)
    /\ UNCHANGED candOnly

\* A route loss limit is reached: the route is disarmed here, the candidate
\* rejected by the next transaction.
DisarmRoute(p) ==
    /\ Commit(p, "finalize", "reject", DexAuthority)
    /\ cand[cur[p]] = "approval_pending"
    /\ phase' = "closed"
    /\ UNCHANGED <<attemptVars, cand, atlasVars, lock, lossVars,
                   dexArmed, lanesArmed, providerReady, stale>>

ControlsAllow == daily_loss_wei(directLoss) < GlobalLossLimit /\ Active = {}

InsertApprovedRequest(p) ==
    /\ CommitLast(p, "finalize", "execute", DexAuthority /\ ControlsAllow)
    /\ cand[cur[p]] = "approval_pending"
    /\ status' = [status EXCEPT ![cur[p]] = "approved"]
    /\ cand' = [cand EXCEPT ![cur[p]] = "request_materialized"]
    /\ UNCHANGED <<nonce, nextNonce, atlasVars, lock, controlVars, lossVars>>

RejectCandidate(p) ==
    /\ CommitLast(p, "reject", "execute", TRUE)
    /\ cand' = MoveCandidate(cand, cur[p], Undecided, "rejected")
    /\ UNCHANGED candOnly

MaterializerFault(p) ==
    /\ faults < MaxFaults
    /\ faults' = faults + 1
    /\ pc[p] \in MaterializerPc
    /\ Leave(p, "execute") \/ Leave(p, "fatal")
    /\ UNCHANGED <<storeVars, chainVars>>

MaterializerStep(p) ==
    \/ ClaimCandidate(p) \/ QuoteCandidate(p) \/ ForkDisposition(p) \/ DisarmRoute(p)
    \/ InsertApprovedRequest(p) \/ RejectCandidate(p)

=============================================================================
