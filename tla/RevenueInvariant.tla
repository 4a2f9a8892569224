-------------------------- MODULE RevenueInvariant --------------------------
(***************************************************************************)
(* The inductive invariant behind the theorems of RevenueProofs: what each *)
(* process may rely on at each of its calls, whatever the other processes, *)
(* the control plane and the chain do in between.                          *)
(***************************************************************************)
EXTENDS RevenueExecution

\* Between the claim of a request and the end of the step that claimed it.
ClaimantPc == {"contract", "fail", "fail_disarm", "nonce", "allocate", "allocated", "sign",
    "recheck", "budget", "send", "sent", "unknown", "unsubmitted", "unsubmitted_disarm",
    "unsubmitted_exit", "persist_failed"}

\* ... before the transaction can have left the process.
UnsentPc == ClaimantPc \ {"sent", "unknown", "persist_failed"}

\* ... with a nonce in hand.
NoncePc == ClaimantPc \ {"contract", "fail", "fail_disarm", "nonce", "allocate"}

DirectPc == (ExecutorPc \ {"execute", "gate", "claim", "confirmed", "disarm", "disarm_exit"})
            \cup {"finalize", "reject"}

AuctionPc == AtlasPc \ {"atlas", "atlas_claim"}

\* Working on a bid that is already out.
SettlePc == {"atlas_reconcile", "atlas_won", "atlas_failed", "atlas_expired"}

\* The call a process is at tells what its request can be.
WorkInv ==
    \A p \in Proc :
        /\ pc[p] \in DirectPc => cur[p] \in Direct
        /\ pc[p] \in AuctionPc => cur[p] \in Auction
        /\ pc[p] \in ClaimantPc => status[cur[p]] \notin {"absent", "approved"}
        /\ pc[p] \in UnsentPc => tx[cur[p]] = "none"
        /\ pc[p] \in SettlePc => astatus[cur[p]] \notin {"absent", "ready", "claimed", "signed"}

\* A request is claimed once, by one process.
ClaimantInv ==
    \A p, q \in Proc :
        p # q /\ pc[p] \in ClaimantPc /\ pc[q] \in ClaimantPc => cur[p] # cur[q]

\* The nonce of the request is on the network, or a process is about to use it.
NonceTaken(r) == tx[r] # "none" \/ \E p \in Proc : cur[p] = r /\ pc[p] \in NoncePc

NonceInv ==
    /\ \A r \in Direct : status[r] \in {"absent", "approved"} => tx[r] = "none"
    /\ \A r \in Direct : NonceTaken(r) => nonce[r] < nextNonce
    /\ \A r, s \in Direct : r # s /\ NonceTaken(r) /\ NonceTaken(s) => nonce[r] # nonce[s]

CandidateInv ==
    \A r \in Direct :
        /\ r \notin Dex => cand[r] = "none"
        /\ r \in Dex /\ cand[r] \in {"none", "materialized", "approval_pending"}
              => status[r] = "absent"

\* The phase never turns to another lane's while an attempt is in progress.
PhaseInv ==
    \A r \in Active : phase \in {"closed", IF r \in Dex THEN "live" ELSE "evidence"}

\* What the rows satisfy, whoever writes them.
RowInv == StoreTypeOK /\ LockMatchesWork /\ CandidateInv /\ PhaseInv

\* What the processes rely on.
ProcessInv == WorkInv /\ ClaimantInv /\ NonceInv

\* The inductive invariant.
IInv == RowInv /\ ChainTypeOK /\ ProcTypeOK /\ ProcessInv

-----------------------------------------------------------------------------
(* What a single process keeps on top of it.                               *)

OneProcess == \A p, q \in Proc : p = q

\* A nonce has been written for the request and not been given back.
Allocated == {"nonce_allocated", "submission_unknown", "pending", "timed_out", "replaced"}

\* The status of a request tells what became of its transaction.
FlightInv ==
    /\ BroadcastNeverForgotten
    /\ LockCoversInFlight
    /\ \A r \in Direct :
         /\ status[r] \in {"pending", "timed_out", "replaced"} => tx[r] # "none"
         /\ status[r] \in {"confirmed", "reverted"} => tx[r] \in Mined
    /\ \A a \in Auction : op[a] = "live" => astatus[a] \in {"signed", "submitted", "submission_unknown"}

\* The counter is ahead of the chain by at most the nonce of the request that
\* holds the lock.
GapInv ==
    /\ NoNonceGap
    /\ \A r \in Direct : tx[r] \in Mined => nonce[r] < chainNonce
    /\ lock \in Direct /\ status[lock] \in Allocated
          => nextNonce = nonce[lock] + 1 /\ nonce[lock] <= chainNonce
    /\ ~(lock \in Direct /\ status[lock] \in Allocated) => nextNonce <= chainNonce

TruthInv ==
    /\ CandidateTellsTheTruth
    /\ \A r \in Direct : cand[r] = "submission_failed_known" => status[r] = "failed"

\* Calls between which the row of the request stays as it is.
AtClaimed == {"contract", "fail", "fail_disarm", "nonce", "allocate", "was_claimed"}
AtAllocated == (NoncePc \ {"persist_failed"}) \cup {"was_allocated"}
AtPending == {"receipt", "known", "replaced", "mark_replaced", "timeout", "monitor", "complete"}
AtSigned == {"atlas_recheck", "atlas_submit", "atlas_submitted"}

\* A process finds the row as it left it: nobody else moves it.
Place(p) ==
    /\ pc[p] \in AtClaimed => status[cur[p]] = "claimed"
    /\ pc[p] \in AtAllocated => status[cur[p]] = "nonce_allocated"
    /\ pc[p] = "persist_failed" => status[cur[p]] \in {"nonce_allocated", "pending"}
    /\ pc[p] \in AtPending => status[cur[p]] \in {"pending", "timed_out"}
    /\ pc[p] \in {"sent", "persist_failed"} => tx[cur[p]] # "none"
    /\ pc[p] = "complete" => tx[cur[p]] \in Mined
    /\ pc[p] = "allocate" => net[p] <= chainNonce
    /\ pc[p] \in {"atlas_validate", "atlas_sign"} => astatus[cur[p]] = "claimed"
    /\ pc[p] \in AtSigned => astatus[cur[p]] = "signed"
    /\ pc[p] = "atlas_reject" => astatus[cur[p]] \in {"claimed", "signed"}
    /\ pc[p] \in {"atlas_validate", "atlas_sign", "atlas_recheck", "atlas_submit", "atlas_reject",
                  "atlas_won", "atlas_failed", "atlas_expired"} => op[cur[p]] # "live"

PlaceInv == \A p \in Proc : Place(p)

OneProcessInv == FlightInv /\ GapInv /\ TruthInv /\ PlaceInv

\* A transaction is out, or about to be sent, and its fee not yet booked.
FeeOpen ==
    \/ \E r \in Direct : tx[r] # "none" /\ status[r] \in ActiveStatuses
    \/ \E p \in Proc : pc[p] = "send"

\* A bid is out, or was found to fit, and is not charged to the current day.
BidOpen ==
    \/ \E a \in Auction :
         astatus[a] \in {"signed", "submitted", "submission_unknown"} /\ touched[a] # "executor"
    \/ \E p \in Proc :
         \/ pc[p] \in {"atlas_validate", "atlas_sign"}
         \/ pc[p] = "atlas_kill" /\ astatus[cur[p]] = "claimed"

\* What is open still fits the day, on top of what is committed: the day may
\* turn, and the executor touch the row again, between the check and the end.
BudgetInv ==
    /\ DailyLossBounded
    /\ FeeOpen => CommittedToday + WorstCaseFee <= MaximumDailyLoss
    /\ BidOpen => CommittedToday + SolverExposure <= MaximumDailyLoss
    /\ \A a \in hashed : astatus[a] \notin {"absent", "ready", "claimed", "signed"}

=============================================================================
