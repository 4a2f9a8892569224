---------------------------- MODULE LiveExecutor ----------------------------
(***************************************************************************)
(* One process of the live executor: LiveExecutor::step of engine.rs, cut  *)
(* at every await.  pc[p] names the next database or RPC call of process   *)
(* p, cur[p] the request it works on, seen[p] the status it read when the  *)
(* step began and net[p] the pending nonce it was told.  A call that fails *)
(* ends the step with an error, which main.rs answers with a best-effort   *)
(* disarm and exit(1): "fatal", then "down".                               *)
(***************************************************************************)
EXTENDS Chain

CONSTANTS
    Proc,          \* live-executor processes
    WorstCaseFee,  \* gas_limit times max_fee_per_gas
    MaxFaults      \* bound: database faults and crashes in a behaviour

ASSUME ExecutorAssumption == WorstCaseFee \in Nat \ {0} /\ MaxFaults \in Nat

VARIABLES pc, cur, seen, net, faults

procVars == <<pc, cur, seen, net, faults>>

MaterializerPc == {"materialize", "finalize", "reject"}

ExecutorPc == {"execute", "gate", "claim", "contract", "fail", "fail_disarm", "nonce",
    "allocate", "allocated", "sign", "recheck", "budget", "send", "sent", "unknown",
    "unsubmitted", "unsubmitted_disarm", "unsubmitted_exit", "persist_failed",
    "was_claimed", "was_allocated", "receipt", "known", "replaced", "mark_replaced",
    "timeout", "monitor", "complete", "confirmed", "disarm", "disarm_exit"}

AtlasPc == {"atlas", "atlas_reconcile", "atlas_won", "atlas_failed", "atlas_expired",
    "atlas_claim", "atlas_validate", "atlas_sign", "atlas_recheck", "atlas_submit",
    "atlas_submitted", "atlas_reject", "atlas_kill"}

ProcTypeOK ==
    /\ pc \in [Proc -> MaterializerPc \cup ExecutorPc \cup AtlasPc \cup {"fatal", "down"}]
    /\ cur \in [Proc -> Direct \cup Auction \cup {NoOwner}]
    /\ seen \in [Proc -> AttemptStatus]
    /\ net \in [Proc -> Nat]
    /\ faults \in Nat

ProcInit ==
    /\ pc = [p \in Proc |-> "down"]
    /\ cur = [p \in Proc |-> NoOwner]
    /\ seen = [p \in Proc |-> "absent"]
    /\ net = [p \in Proc |-> 0]
    /\ faults = 0

\* What a step keeps between loop turns is nothing: its locals die with it.
Leave(p, to) ==
    /\ pc' = [pc EXCEPT ![p] = to]
    /\ cur' = [cur EXCEPT ![p] = NoOwner]
    /\ seen' = [seen EXCEPT ![p] = "absent"]
    /\ net' = [net EXCEPT ![p] = 0]

Goto(p, to) == pc' = [pc EXCEPT ![p] = to] /\ UNCHANGED <<cur, seen, net>>

\* RPC answers and local decisions: no row changes.
Branch(p, from, to) ==
    /\ pc[p] = from
    /\ Goto(p, to)
    /\ UNCHANGED <<faults, storeVars, chainVars>>

Finish(p, from, to) ==
    /\ pc[p] = from
    /\ Leave(p, to)
    /\ UNCHANGED <<faults, storeVars, chainVars>>

\* A transaction whose precondition fails returns an error.
Refused(p, from, can) == Finish(p, from, "fatal") /\ ~can

Commit(p, from, to, can) ==
    /\ pc[p] = from
    /\ can
    /\ Goto(p, to)
    /\ UNCHANGED <<faults, chainVars>>

CommitLast(p, from, to, can) ==
    /\ pc[p] = from
    /\ can
    /\ Leave(p, to)
    /\ UNCHANGED <<faults, chainVars>>

-----------------------------------------------------------------------------
(* step: the active attempt, the gate and the claim.                       *)

\* Mutant: an allocated nonce is taken for unused.
Resume_AllocatedIsUnused == [s \in ActiveStatuses |->
    CASE s \in {"claimed", "nonce_allocated"}  -> "was_claimed"
      [] s = "submission_unknown"              -> "disarm"
      [] OTHER                                 -> "receipt"]

Resume == [s \in ActiveStatuses |->
    CASE s = "claimed"             -> "was_claimed"
      [] s = "nonce_allocated"     -> "was_allocated"
      [] s = "submission_unknown"  -> "disarm"
      [] OTHER                     -> "receipt"]

ActiveAttempt(p) ==
    /\ pc[p] = "execute"
    /\ UNCHANGED <<faults, storeVars, chainVars>>
    /\ \/ Active = {} /\ Goto(p, "gate")
       \/ \E r \in Active :
            /\ Active = {r}
            /\ pc' = [pc EXCEPT ![p] = Resume[status[r]]]
            /\ cur' = [cur EXCEPT ![p] = r]
            /\ seen' = [seen EXCEPT ![p] = status[r]]
            /\ UNCHANGED net
       \/ (\E r, s \in Active : r # s) /\ Leave(p, "fatal")

Gate(p) ==
    \/ ~ControlArmed /\ Finish(p, "gate", "atlas")
    \/ ControlArmed /\ daily_loss_wei(directLoss) >= MaximumDailyLoss /\ Branch(p, "gate", "disarm")
    \/ /\ ControlArmed
       /\ daily_loss_wei(directLoss) < MaximumDailyLoss
       /\ Branch(p, "gate", "claim") \/ Branch(p, "gate", "disarm")  \* chain_id matches or not

ClaimApproved(p) ==
    \/ Finish(p, "claim", "atlas")
    \/ \E r \in Direct :
        /\ pc[p] = "claim"
        /\ CanClaim(r)
        /\ claim_approved(r)
        /\ pc' = [pc EXCEPT ![p] = "contract"]
        /\ cur' = [cur EXCEPT ![p] = r]
        /\ UNCHANGED <<seen, net, faults, chainVars>>

\* execution_contract_ready and validate_and_encode.
CheckContract(p) ==
    \/ Branch(p, "contract", "nonce")
    \/ Branch(p, "contract", "fail_disarm")
    \/ Branch(p, "contract", "fail")

FailClaimed(p) ==
    \E limitHit \in BOOLEAN :
        LET can == CanTerminate(cur[p], "failed") IN
        \/ CommitLast(p, "fail", "atlas", can) /\ mark_terminal(cur[p], "failed", 0, limitHit)
        \/ Commit(p, "fail_disarm", "disarm", can) /\ mark_terminal(cur[p], "failed", 0, limitHit)
        \/ Refused(p, "fail", can) \/ Refused(p, "fail_disarm", can)

Disarm(p) ==
    \/ CommitLast(p, "disarm", "atlas", TRUE) /\ disarm
    \/ CommitLast(p, "disarm_exit", "fatal", TRUE) /\ disarm

-----------------------------------------------------------------------------
(* step: nonce, signature, the second look at the controls, submission.    *)

PendingNonce(p) ==
    \/ Branch(p, "nonce", "fail_disarm")
    \/ \E n \in PendingNonces :
        /\ pc[p] = "nonce"
        /\ pc' = [pc EXCEPT ![p] = "allocate"]
        /\ net' = [net EXCEPT ![p] = n]
        /\ UNCHANGED <<cur, seen, faults, storeVars, chainVars>>

AllocateNonce(p) ==
    LET can == CanAllocate(cur[p]) IN
    \/ Commit(p, "allocate", "allocated", can) /\ allocate_nonce(cur[p], net[p])
    \/ Refused(p, "allocate", can)

\* pinned_block_is_current, submission_deadlines_are_fresh and the signer.
Sign(p) ==
    \/ Branch(p, "allocated", "unsubmitted")
    \/ Branch(p, "allocated", "unsubmitted_exit")
    \/ Branch(p, "allocated", "sign")

MarkSigned(p) ==
    LET can == HasUnsubmittedNonce(cur[p]) IN
    \/ Commit(p, "sign", "recheck", can) /\ mark_signed(cur[p])
    \/ Refused(p, "sign", can)

RecheckControl(p) ==
    \/ ControlArmed /\ Branch(p, "recheck", "budget")
    \/ ~ControlArmed /\ Branch(p, "recheck", "unsubmitted")

\* The worst case fits the budget, then block and deadline once more.
WithinBudget == daily_loss_wei(directLoss) + WorstCaseFee <= MaximumDailyLoss

RecheckBudget(p) ==
    \/ ~WithinBudget /\ Branch(p, "budget", "unsubmitted_disarm")
    \/ WithinBudget /\ (Branch(p, "budget", "send") \/ Branch(p, "budget", "unsubmitted"))

FailUnsubmitted(p) ==
    LET can == CanRollBack(cur[p]) IN
    \/ CommitLast(p, "unsubmitted", "atlas", can) /\ fail_unsubmitted(cur[p])
    \/ Commit(p, "unsubmitted_disarm", "disarm", can) /\ fail_unsubmitted(cur[p])
    \/ Commit(p, "unsubmitted_exit", "disarm_exit", can) /\ fail_unsubmitted(cur[p])
    \/ \E from \in {"unsubmitted", "unsubmitted_disarm", "unsubmitted_exit"} :
          Refused(p, from, can)

\* An error or a foreign hash says nothing of whether the network has it; a
\* nonce that is already mined is never accepted.
SendRawTransaction(p) ==
    /\ pc[p] = "send"
    /\ UNCHANGED <<faults, storeVars, chainNonce, foreign, op>>
    /\ \/ /\ nonce[cur[p]] >= chainNonce
          /\ tx' = [tx EXCEPT ![cur[p]] = "mempool"]
          /\ Goto(p, "sent") \/ Goto(p, "unknown")
       \/ UNCHANGED tx /\ Goto(p, "unknown")

MarkPending(p) ==
    LET can == HasUnsubmittedNonce(cur[p]) IN
    \/ CommitLast(p, "sent", "atlas", can) /\ mark_pending(cur[p])
    \/ Branch(p, "sent", "persist_failed") /\ ~can

MarkSubmissionUnknown(p) ==
    LET can == HasUnsubmittedNonce(cur[p]) IN
    \/ Commit(p, "unknown", "disarm", can) /\ mark_submission_unknown(cur[p])
    \/ Refused(p, "unknown", can)

\* Best effort: the result of either call is dropped.
PersistFailed(p) ==
    \/ CommitLast(p, "persist_failed", "disarm_exit", HasUnsubmittedNonce(cur[p]))
        /\ mark_submission_unknown(cur[p])
    \/ Finish(p, "persist_failed", "disarm_exit")

-----------------------------------------------------------------------------
(* reconcile_active: an attempt a previous step or process left behind.    *)

RestartClaimed(p) ==
    \E limitHit \in BOOLEAN :
        LET can == CanTerminate(cur[p], "failed") IN
        \/ /\ Commit(p, "was_claimed", "disarm", can)
           /\ mark_terminal(cur[p], "failed", 0, limitHit)
        \/ Refused(p, "was_claimed", can)

RestartAllocated(p) ==
    LET can == HasUnsubmittedNonce(cur[p]) IN
    \/ Commit(p, "was_allocated", "disarm", can) /\ mark_submission_unknown(cur[p])
    \/ Refused(p, "was_allocated", can)

ReceiptError(p) == Branch(p, "receipt", "monitor")

ReceiptFound(p) == Branch(p, "receipt", "complete") /\ tx[cur[p]] \in Mined

ReceiptMissing(p) == Branch(p, "receipt", "known") /\ tx[cur[p]] \notin Mined

TransactionKnown(p) ==
    \/ Branch(p, "known", "monitor")
    \/ Branch(p, "known", "timeout") /\ tx[cur[p]] \in Mined \cup {"mempool"}
    \/ Branch(p, "known", "replaced") /\ tx[cur[p]] \notin Mined \cup {"mempool"}

ReplacementNonce(p) ==
    \/ Branch(p, "replaced", "monitor")
    \/ \E n \in PendingNonces :
        \/ Branch(p, "replaced", "mark_replaced") /\ n > nonce[cur[p]]
        \/ Branch(p, "replaced", "timeout") /\ n <= nonce[cur[p]]

MarkReplaced(p) ==
    \E limitHit \in BOOLEAN :
        LET can == CanTerminate(cur[p], "replaced") IN
        \/ /\ Commit(p, "mark_replaced", "disarm", can)
           /\ mark_terminal(cur[p], "replaced", 0, limitHit)
        \/ Refused(p, "mark_replaced", can)

\* Before the receipt timeout nothing happens; after it, only once.
ReceiptTimeout(p) ==
    LET can == CanTerminate(cur[p], "timed_out") IN
    \/ Finish(p, "timeout", "atlas")
    \/ \E limitHit \in BOOLEAN :
        /\ seen[p] # "timed_out"
        /\ \/ /\ Commit(p, "timeout", "disarm", can)
              /\ mark_terminal(cur[p], "timed_out", 0, limitHit)
           \/ Refused(p, "timeout", can)

\* record_monitor_error keeps the attempt active and writes only an error code.
RecordMonitorError(p) ==
    LET can == status[cur[p]] \in {"pending", "timed_out"} IN
    \/ Branch(p, "monitor", "disarm") /\ can
    \/ Refused(p, "monitor", can)

\* A fee is positive and within the limits of the request, and a settled
\* transaction may still cost more than it earned.
CompleteReceipt(p) ==
    \E limitHit \in BOOLEAN, loss \in 0 .. WorstCaseFee :
        \/ /\ CommitLast(p, "complete", "atlas", CanTerminate(cur[p], "reverted"))
           /\ tx[cur[p]] = "reverted" /\ loss > 0
           /\ mark_terminal(cur[p], "reverted", loss, limitHit)
        \/ /\ CommitLast(p, "complete", "confirmed", CanTerminate(cur[p], "confirmed"))
           /\ tx[cur[p]] = "ok"
           /\ mark_terminal(cur[p], "confirmed", loss, limitHit)
        \/ Branch(p, "complete", "monitor") /\ tx[cur[p]] = "bad"
        \/ /\ Refused(p, "complete", CanTerminate(cur[p], "confirmed"))
           /\ tx[cur[p]] # "bad"

ConfirmedLoss(p) ==
    \/ daily_loss_wei(directLoss) >= MaximumDailyLoss /\ Branch(p, "confirmed", "disarm")
    \/ daily_loss_wei(directLoss) < MaximumDailyLoss /\ Finish(p, "confirmed", "atlas")

-----------------------------------------------------------------------------
(* Failures of the process and of its database connection.                 *)

FatalExit(p) == CommitLast(p, "fatal", "down", TRUE) /\ disarm

\* A statement fails, or its commit is lost; a commit that took effect but
\* reported an error is the same fault at the next call.
DatabaseFault(p) ==
    /\ faults < MaxFaults
    /\ faults' = faults + 1
    /\ UNCHANGED chainVars
    /\ \/ /\ pc[p] \in ExecutorPc \ {"sent", "persist_failed"}
          /\ Leave(p, "fatal")
          /\ UNCHANGED storeVars
       \/ /\ pc[p] = "sent"
          /\ Goto(p, "persist_failed")
          /\ \/ UNCHANGED storeVars
             \/ HasUnsubmittedNonce(cur[p]) /\ mark_pending(cur[p])
       \/ /\ pc[p] = "fatal"
          /\ Leave(p, "down")
          /\ UNCHANGED storeVars

Crash(p) ==
    /\ faults < MaxFaults
    /\ faults' = faults + 1
    /\ pc[p] # "down"
    /\ Leave(p, "down")
    /\ UNCHANGED <<storeVars, chainVars>>

Restart(p) == Finish(p, "down", "materialize")

ExecutorStep(p) ==
    \/ ActiveAttempt(p) \/ Gate(p) \/ ClaimApproved(p) \/ CheckContract(p)
    \/ FailClaimed(p) \/ Disarm(p) \/ PendingNonce(p) \/ AllocateNonce(p)
    \/ Sign(p) \/ MarkSigned(p) \/ RecheckControl(p) \/ RecheckBudget(p)
    \/ FailUnsubmitted(p) \/ SendRawTransaction(p) \/ MarkPending(p)
    \/ MarkSubmissionUnknown(p) \/ PersistFailed(p)
    \/ RestartClaimed(p) \/ RestartAllocated(p)
    \/ ReceiptError(p) \/ ReceiptFound(p) \/ ReceiptMissing(p)
    \/ TransactionKnown(p) \/ ReplacementNonce(p) \/ MarkReplaced(p)
    \/ ReceiptTimeout(p) \/ RecordMonitorError(p) \/ CompleteReceipt(p)
    \/ ConfirmedLoss(p) \/ FatalExit(p)

=============================================================================
