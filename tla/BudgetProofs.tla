---------------------------- MODULE BudgetProofs ----------------------------
(***************************************************************************)
(* The daily loss limit, for one executor process.  What is committed      *)
(* today grows only by a fee the process checked before it sent, and by a  *)
(* bid it checked when it claimed; BudgetInv carries both checks over the  *)
(* steps in between, midnight included.  The theorem is in RevenueProofs.  *)
(***************************************************************************)
EXTENDS RevenueInvariant, FiniteSetTheorems, TLAPS

\* The bids the executor itself charged to the current day.
Counted == {a \in Charged : touched[a] = "executor"}

budgetVars == <<directLoss, astatus, hashed, touched>>

OpenBids == {"signed", "submitted", "submission_unknown"}

\* Calls at which room for a fee or a bid has been found and not used.
BudgetPc == {"send", "atlas_validate", "atlas_sign", "atlas_kill"}

\* The calls at which the process works on a direct request.
LEMMA OnDirect ==
    ASSUME IInv, NEW p \in Proc,
           pc[p] \in DirectPc \/ pc[p] \in {"fail", "fail_disarm", "allocate", "sign", "sent", "unknown",
               "unsubmitted", "unsubmitted_disarm", "unsubmitted_exit", "persist_failed", "send",
               "was_claimed", "was_allocated", "mark_replaced", "timeout", "complete", "finalize", "reject"}
    PROVE  cur[p] \in Direct
<1>1. pc[p] \in DirectPc
  BY Zenon DEF DirectPc, ExecutorPc
<1> QED
  BY <1>1, Zenon DEF IInv, ProcessInv, WorkInv

-----------------------------------------------------------------------------
(* Sums.                                                                   *)

LEMMA Multiples ==
    ASSUME NEW k \in Nat, NEW m \in Nat, NEW n \in Nat
    PROVE  /\ m <= n => k * m <= k * n
           /\ n <= m + 1 => k * n <= k * m + k
<1>1. ASSUME NEW x \in Nat, NEW y \in Nat, x <= y PROVE k * x <= k * y
  <2>1. PICK d \in Nat : y = x + d
    <3>1. y - x \in Nat /\ y = x + (y - x)
      BY <1>1, SMTT(30)
    <3> QED
      BY <3>1, Zenon
  <2>2. k * (x + d) = k * x + k * d /\ k * d \in Nat /\ k * x \in Nat
    BY SMTT(30)
  <2> QED
    BY <2>1, <2>2, SMTT(30)
<1>2. k * (m + 1) = k * m + k
  BY SMTT(30)
<1> QED
  BY <1>1, <1>2, SMTT(30)

LEMMA CountedFinite ==
    /\ IsFiniteSet(Counted) /\ Cardinality(Counted) \in Nat
    /\ IsFiniteSet(Charged) /\ Cardinality(Charged) \in Nat
    /\ Cardinality(Counted) <= Cardinality(Charged)
<1>1. IsFiniteSet(Charged)
  BY StoreAssumption, FS_Subset, Zenon DEF Charged
<1>2. Counted \subseteq Charged
  BY Zenon DEF Counted
<1> QED
  BY <1>1, <1>2, FS_Subset, FS_CardinalityType, Zenon

LEMMA CountedFiniteNext ==
    IsFiniteSet(Counted') /\ Cardinality(Counted') \in Nat
<1>1. Counted' \subseteq Auction
  BY Zenon DEF Counted, Charged
<1> QED
  BY <1>1, StoreAssumption, FS_Subset, FS_CardinalityType, Zenon

\* What the executor sums up before a send or a claim is at least what it
\* committed itself.
LEMMA CommittedSum ==
    ASSUME StoreTypeOK
    PROVE  /\ CommittedToday \in Nat
           /\ CommittedToday = directLoss + SolverExposure * Cardinality(Counted)
           /\ daily_loss_wei(directLoss) \in Nat
           /\ CommittedToday <= daily_loss_wei(directLoss)
<1>1. CommittedToday = directLoss + SolverExposure * Cardinality(Counted)
  BY Zenon DEF CommittedToday, Counted
<1>2. daily_loss_wei(directLoss) = directLoss + SolverExposure * Cardinality(Charged)
  BY Zenon DEF daily_loss_wei
<1>3. SolverExposure * Cardinality(Counted) <= SolverExposure * Cardinality(Charged)
  BY CountedFinite, Multiples, StoreAssumption, Zenon
<1>4. SolverExposure * Cardinality(Counted) \in Nat /\ SolverExposure * Cardinality(Charged) \in Nat
  BY CountedFinite, StoreAssumption, SMTT(30)
<1> QED
  BY <1>1, <1>2, <1>3, <1>4, SMTT(30) DEF StoreTypeOK

-----------------------------------------------------------------------------
(* Steps that commit nothing.                                              *)

LEMMA Unspent ==
    ASSUME BudgetInv, UNCHANGED budgetVars,
           FeeOpen' => FeeOpen \/ CommittedToday + WorstCaseFee <= MaximumDailyLoss,
           BidOpen' => BidOpen \/ CommittedToday + SolverExposure <= MaximumDailyLoss
    PROVE  BudgetInv'
<1>1. CommittedToday' = CommittedToday
  BY Zenon DEF CommittedToday, Charged, budgetVars
<1> QED
  BY <1>1, Zenon DEF BudgetInv, DailyLossBounded, budgetVars

LEMMA Elsewhere ==
    ASSUME OneProcess, ProcTypeOK, BudgetInv, NEW p \in Proc, NEW to, to \notin BudgetPc,
           pc' = [pc EXCEPT ![p] = to], UNCHANGED budgetVars,
           \A r \in Direct : tx'[r] # "none" /\ status'[r] \in ActiveStatuses
                                => tx[r] # "none" /\ status[r] \in ActiveStatuses
    PROVE  BudgetInv'
<1>1. \A q \in Proc : pc'[q] = to
  BY Zenon DEF OneProcess, ProcTypeOK
<1>2. FeeOpen' => FeeOpen
  BY <1>1, Zenon DEF FeeOpen, BudgetPc
<1>3. BidOpen' => BidOpen
  BY <1>1, Zenon DEF BidOpen, BudgetPc, budgetVars
<1> QED
  BY <1>2, <1>3, Unspent, Zenon

\* Decisions and answers.
LEMMA DecideBudget ==
    ASSUME OneProcess, IInv, BudgetInv, NEW p \in Proc,
           \/ Gate(p) \/ CheckContract(p) \/ Sign(p) \/ RecheckControl(p) \/ ReceiptError(p) \/ ReceiptFound(p)
           \/ ReceiptMissing(p) \/ TransactionKnown(p) \/ ReplacementNonce(p) \/ RecordMonitorError(p)
           \/ ConfirmedLoss(p) \/ PendingNonce(p) \/ MarkSigned(p) \/ Disarm(p) \/ FatalExit(p) \/ Restart(p)
    PROVE  BudgetInv'
<1>1. UNCHANGED <<budgetVars, status, tx>>
  BY ZenonT(30) DEF Gate, CheckContract, Sign, RecheckControl, ReceiptError, ReceiptFound, ReceiptMissing, TransactionKnown,
         ReplacementNonce, RecordMonitorError, ConfirmedLoss, PendingNonce, MarkSigned, Disarm, FatalExit, Restart,
         Refused, Branch, Finish, Commit, CommitLast, mark_signed, disarm, storeVars, attemptVars, atlasVars, lossVars,
         chainVars, txVars, budgetVars
<1>2. PICK to : to \notin BudgetPc /\ pc' = [pc EXCEPT ![p] = to]
  BY Zenon DEF Gate, CheckContract, Sign, RecheckControl, ReceiptError, ReceiptFound, ReceiptMissing, TransactionKnown,
         ReplacementNonce, RecordMonitorError, ConfirmedLoss, PendingNonce, MarkSigned, Disarm, FatalExit, Restart,
         Refused, Branch, Finish, Commit, CommitLast, Goto, Leave, BudgetPc
<1> QED
  BY <1>1, <1>2, Elsewhere, ZenonT(30) DEF IInv

\* The check before the send leaves room for the fee.
LEMMA RecheckedBudget ==
    ASSUME OneProcess, IInv, BudgetInv, NEW p \in Proc, RecheckBudget(p)
    PROVE  BudgetInv'
<1>1. UNCHANGED <<budgetVars, status, tx>>
  BY Zenon DEF RecheckBudget, Branch, storeVars, attemptVars, atlasVars, lossVars, chainVars, txVars, budgetVars
<1>2. CASE \E to \in {"unsubmitted", "unsubmitted_disarm"} : Branch(p, "budget", to)
  BY <1>1, <1>2, Elsewhere, Zenon DEF IInv, Branch, Goto, BudgetPc
<1>3. CASE WithinBudget /\ Branch(p, "budget", "send")
  <2>1. CommittedToday + WorstCaseFee <= MaximumDailyLoss
    BY <1>3, CommittedSum, StoreAssumption, ExecutorAssumption, SMTT(30) DEF WithinBudget, IInv, RowInv
  <2>2. \A q \in Proc : pc'[q] = "send"
    BY <1>3, Zenon DEF Branch, Goto, OneProcess, IInv, ProcTypeOK
  <2>3. BidOpen' => BidOpen
    BY <1>1, <2>2, Zenon DEF BidOpen, budgetVars
  <2> QED
    BY <1>1, <2>1, <2>3, Unspent, Zenon
<1> QED
  BY <1>2, <1>3, Zenon DEF RecheckBudget

LEMMA SendBudget ==
    ASSUME OneProcess, IInv, BudgetInv, NEW p \in Proc, SendRawTransaction(p)
    PROVE  BudgetInv'
<1>1. UNCHANGED budgetVars
  BY Zenon DEF SendRawTransaction, storeVars, atlasVars, lossVars, budgetVars
<1>2. FeeOpen
  BY Zenon DEF SendRawTransaction, FeeOpen
<1>3. \A q \in Proc : pc'[q] \in {"sent", "unknown"}
  BY Zenon DEF SendRawTransaction, Goto, OneProcess, IInv, ProcTypeOK
<1>4. BidOpen' => BidOpen
  BY <1>1, <1>3, Zenon DEF BidOpen, budgetVars
<1> QED
  BY <1>1, <1>2, <1>4, Unspent, Zenon

\* The claim of a request, which has no transaction yet, and the moves of an
\* attempt that is not settled.
LEMMA MoveBudget ==
    ASSUME OneProcess, IInv, BudgetInv, NEW p \in Proc,
           \/ ClaimApproved(p) \/ AllocateNonce(p) \/ FailUnsubmitted(p) \/ MarkPending(p)
           \/ MarkSubmissionUnknown(p) \/ PersistFailed(p) \/ RestartAllocated(p)
    PROVE  BudgetInv'
<1> USE DEF ClaimApproved, AllocateNonce, FailUnsubmitted, MarkPending, MarkSubmissionUnknown, PersistFailed,
            RestartAllocated
<1>1. UNCHANGED <<budgetVars, tx>>
  BY ZenonT(30) DEF Refused, Branch, Finish, Commit, CommitLast, claim_approved, allocate_nonce, fail_unsubmitted, mark_pending,
         mark_submission_unknown, storeVars, attemptVars, atlasVars, lossVars, chainVars, txVars, budgetVars
<1>2. PICK to : to \notin BudgetPc /\ pc' = [pc EXCEPT ![p] = to]
  BY ZenonT(30) DEF Refused, Branch, Finish, Commit, CommitLast, Goto, Leave, BudgetPc
<1>3. \/ status' = status
      \/ \E r \in Direct : /\ tx[r] = "none" \/ status[r] \in ActiveStatuses
                           /\ \E to2 : status' = [status EXCEPT ![r] = to2]
  <2>1. CASE ClaimApproved(p)
    <3>1. status' = status \/ \E r \in Direct : CanClaim(r) /\ claim_approved(r)
      BY <2>1, Zenon DEF Finish, storeVars, attemptVars
    <3>2. ASSUME NEW r \in Direct, CanClaim(r), claim_approved(r)
          PROVE  tx[r] = "none" /\ \E to2 : status' = [status EXCEPT ![r] = to2]
      <4>1. tx[r] = "none"
        BY <3>2, ZenonT(30) DEF CanClaim, IInv, ProcessInv, NonceInv
      <4>2. status' = [status EXCEPT ![r] = "claimed"]
        BY <3>2, Zenon DEF claim_approved
      <4> QED
        BY <4>1, <4>2, ZenonT(30)
    <3> QED
      BY <3>1, <3>2, Zenon
  <2>2. CASE ~ClaimApproved(p)
    <3>1. \/ status' = status
          \/ /\ status[cur[p]] \in {"claimed", "nonce_allocated"}
             /\ \E to2 : status' = [status EXCEPT ![cur[p]] = to2]
      BY <2>2, Zenon DEF Refused, Branch, Finish, Commit, CommitLast, CanAllocate, allocate_nonce, CanRollBack,
                  HasUnsubmittedNonce, fail_unsubmitted, mark_pending, mark_submission_unknown, storeVars, attemptVars
    <3>2. cur[p] \in Direct
      BY <2>2, OnDirect, ZenonT(30) DEF Refused, Branch, Finish, Commit, CommitLast
    <3> QED
      BY <3>1, <3>2, Zenon DEF ActiveStatuses
  <2> QED
    BY <2>1, <2>2, Zenon
<1>4. \A r \in Direct : tx'[r] # "none" /\ status'[r] \in ActiveStatuses
                           => tx[r] # "none" /\ status[r] \in ActiveStatuses
  BY <1>1, <1>3, Zenon DEF IInv, RowInv, StoreTypeOK
<1> QED
  BY <1>1, <1>2, <1>4, Elsewhere, ZenonT(30) DEF IInv

LEMMA ResumeBudget ==
    ASSUME OneProcess, IInv, BudgetInv, NEW p \in Proc, ActiveAttempt(p)
    PROVE  BudgetInv'
<1>1. UNCHANGED <<budgetVars, status, tx>>
  BY Zenon DEF ActiveAttempt, storeVars, attemptVars, atlasVars, lossVars, chainVars, txVars, budgetVars
<1>2. \A s \in ActiveStatuses : Resume[s] \notin BudgetPc
  BY Zenon DEF Resume, ActiveStatuses, BudgetPc
<1>3. PICK to : to \notin BudgetPc /\ pc' = [pc EXCEPT ![p] = to]
  BY <1>2, Zenon DEF ActiveAttempt, Goto, Leave, Active, BudgetPc
<1> QED
  BY <1>1, <1>3, Elsewhere, ZenonT(30) DEF IInv

\* An attempt is closed: what it cost is within the room that was kept for it.
LEMMA TerminalBudget ==
    ASSUME OneProcess, IInv, OneProcessInv, BudgetInv, NEW p \in Proc,
           FailClaimed(p) \/ RestartClaimed(p) \/ MarkReplaced(p) \/ ReceiptTimeout(p) \/ CompleteReceipt(p)
    PROVE  BudgetInv'
<1> DEFINE r == cur[p]
<1>1. PICK to : to \notin BudgetPc /\ pc' = [pc EXCEPT ![p] = to]
  BY Zenon DEF FailClaimed, RestartClaimed, MarkReplaced, ReceiptTimeout, CompleteReceipt, Refused, Branch, Finish, Commit,
         CommitLast, Goto, Leave, BudgetPc
<1>2. CASE UNCHANGED <<storeVars, chainVars>>
  BY <1>1, <1>2, Elsewhere, Zenon DEF IInv, storeVars, attemptVars, atlasVars, lossVars, chainVars, txVars, budgetVars
<1>3. ASSUME NEW end \in {"failed", "replaced", "timed_out"}, NEW limitHit, CanTerminate(r, end),
             mark_terminal(r, end, 0, limitHit), UNCHANGED chainVars, r \in Direct
      PROVE  BudgetInv'
  <2>1. UNCHANGED <<budgetVars, tx>> /\ status' = [status EXCEPT ![r] = end]
    <3>1. /\ directLoss' = directLoss + (IF end \in {"confirmed", "reverted"} THEN 0 ELSE 0)
          /\ status' = [status EXCEPT ![r] = end] /\ UNCHANGED <<atlasVars, tx>>
      BY <1>3, ZenonT(30) DEF mark_terminal, chainVars, txVars
    <3>2. directLoss' = directLoss
      BY <3>1, SMTT(30) DEF IInv, RowInv, StoreTypeOK
    <3> QED
      BY <3>1, <3>2, Zenon DEF atlasVars, budgetVars
  <2>2. status[r] \in ActiveStatuses
    BY <1>3, Zenon DEF CanTerminate, ActiveStatuses
  <2> QED
    BY <1>1, <1>3, <2>1, <2>2, Elsewhere, ZenonT(30) DEF IInv, RowInv, StoreTypeOK
<1>4. ASSUME NEW end \in {"confirmed", "reverted"}, NEW loss \in 0 .. WorstCaseFee, NEW limitHit, CanTerminate(r, end),
             mark_terminal(r, end, loss, limitHit), UNCHANGED chainVars, r \in Direct, pc[p] = "complete"
      PROVE  BudgetInv'
  <2>1. tx[r] # "none" /\ status[r] \in ActiveStatuses
    BY <1>4, Zenon DEF OneProcessInv, PlaceInv, Place, Mined, AtPending, ActiveStatuses
  <2>2. CommittedToday + WorstCaseFee <= MaximumDailyLoss
    BY <1>4, <2>1, Zenon DEF BudgetInv, FeeOpen
  <2>3. directLoss' = directLoss + loss /\ UNCHANGED <<astatus, hashed, touched, tx>> /\ status' = [status EXCEPT ![r] = end]
    BY <1>4, Zenon DEF mark_terminal, atlasVars, chainVars, txVars
  <2>4. CommittedToday' = CommittedToday + loss
    <3>1. Counted' = Counted
      BY <2>3, Zenon DEF Counted, Charged
    <3>2. CommittedToday' = directLoss' + SolverExposure * Cardinality(Counted')
      BY Zenon DEF CommittedToday, Counted
    <3>3. SolverExposure * Cardinality(Counted) \in Nat /\ directLoss \in Nat /\ loss \in Nat
      BY <1>4, CountedFinite, StoreAssumption, ExecutorAssumption, SMTT(30) DEF IInv, RowInv, StoreTypeOK
    <3> QED
      BY <2>3, <3>1, <3>2, <3>3, CommittedSum, SMTT(30) DEF IInv, RowInv
  <2>5. DailyLossBounded'
    BY <1>4, <2>2, <2>4, CommittedSum, StoreAssumption, ExecutorAssumption, SMTT(30) DEF DailyLossBounded, IInv, RowInv
  <2>6. lock = r
    BY <1>4, <2>1, Zenon DEF IInv, RowInv, LockMatchesWork, Active
  <2>7. \A q \in Proc : pc'[q] = to
    BY <1>1, Zenon DEF OneProcess, IInv, ProcTypeOK
  <2>8. ~FeeOpen'
    BY <1>1, <1>4, <2>3, <2>6, <2>7, Zenon DEF FeeOpen, BudgetPc, IInv, RowInv, LockMatchesWork, Active, StoreTypeOK, ActiveStatuses
  <2>9. ~BidOpen'
    BY <1>1, <1>4, <2>3, <2>6, <2>7, StoreAssumption, ZenonT(30) DEF BidOpen, BudgetPc, IInv, RowInv, LockMatchesWork, ActiveAtlas
  <2> QED
    BY <2>3, <2>5, <2>8, <2>9, Zenon DEF BudgetInv
<1>5. CASE CompleteReceipt(p)
  <2>1. pc[p] = "complete" => r \in Direct
    BY OnDirect, Zenon DEF DirectPc, ExecutorPc
  <2> QED
    BY <1>2, <1>4, <1>5, <2>1, ZenonT(30) DEF CompleteReceipt, Refused, Branch, Finish, CommitLast
<1>6. CASE ~CompleteReceipt(p)
  <2>1. pc[p] \in {"fail", "fail_disarm", "was_claimed", "mark_replaced", "timeout"}
    BY <1>6, ZenonT(30) DEF FailClaimed, RestartClaimed, MarkReplaced, ReceiptTimeout, Refused, Finish, Commit, CommitLast
  <2>2. r \in Direct
    BY <2>1, OnDirect, Zenon DEF DirectPc, ExecutorPc
  <2> QED
    BY <1>2, <1>3, <1>6, <2>2, ZenonT(30) DEF FailClaimed, RestartClaimed, MarkReplaced, ReceiptTimeout, Refused, Finish, Commit,
                                  CommitLast
<1> QED
  BY <1>5, <1>6, Zenon

LEMMA ExecutorBudget ==
    ASSUME OneProcess, IInv, OneProcessInv, BudgetInv, NEW p \in Proc, ExecutorStep(p)
    PROVE  BudgetInv'
BY DecideBudget, RecheckedBudget, SendBudget, MoveBudget, ResumeBudget, TerminalBudget, SMTT(30) DEF ExecutorStep

LEMMA MaterializerBudget ==
    ASSUME OneProcess, IInv, BudgetInv, NEW p \in Proc, MaterializerStep(p)
    PROVE  BudgetInv'
<1> USE DEF MaterializerStep, ClaimCandidate, QuoteCandidate, ForkDisposition, DisarmRoute, InsertApprovedRequest,
            RejectCandidate
<1>1. PICK to : to \notin BudgetPc /\ pc' = [pc EXCEPT ![p] = to]
  BY Zenon DEF Branch, Finish, Commit, CommitLast, Goto, Leave, BudgetPc
<1>2. UNCHANGED <<budgetVars, tx>>
  BY ZenonT(30) DEF Branch, Finish, Commit, CommitLast, candOnly, storeVars, attemptVars, atlasVars, lossVars, chainVars, txVars, budgetVars
<1>3. status' = status \/ status' = [status EXCEPT ![cur[p]] = "approved"]
  BY ZenonT(30) DEF Branch, Finish, Commit, CommitLast, candOnly, storeVars, attemptVars
<1>4. \A r \in Direct : status'[r] \in ActiveStatuses => status[r] \in ActiveStatuses
  BY <1>3, Zenon DEF IInv, RowInv, StoreTypeOK, ActiveStatuses
<1> QED
  BY <1>1, <1>2, <1>4, Elsewhere, ZenonT(30) DEF IInv

LEMMA FaultBudget ==
    ASSUME OneProcess, IInv, BudgetInv, NEW p \in Proc, Fault(p)
    PROVE  BudgetInv'
<1> USE DEF Fault, Crash, DatabaseFault, MaterializerFault, AtlasFault
<1>1. PICK to : to \notin BudgetPc /\ pc' = [pc EXCEPT ![p] = to]
  BY Zenon DEF Goto, Leave, LoopTop, BudgetPc
<1>2. UNCHANGED <<budgetVars, tx>>
  BY Zenon DEF mark_pending, storeVars, attemptVars, atlasVars, lossVars, chainVars, txVars, budgetVars
<1>3. status' = status \/ (status[cur[p]] = "nonce_allocated" /\ status' = [status EXCEPT ![cur[p]] = "pending"])
  BY ZenonT(30) DEF mark_pending, HasUnsubmittedNonce, storeVars, attemptVars
<1>4. \A r \in Direct : status'[r] \in ActiveStatuses => status[r] \in ActiveStatuses
  BY <1>3, ZenonT(30) DEF IInv, RowInv, StoreTypeOK, ActiveStatuses
<1> QED
  BY <1>1, <1>2, <1>4, Elsewhere, ZenonT(30) DEF IInv

-----------------------------------------------------------------------------
(* The chain, the control plane and midnight.                              *)

LEMMA OthersBudget ==
    ASSUME BudgetInv, UNCHANGED <<budgetVars, pc, cur>>,
           \A r \in Direct : tx'[r] # "none" /\ status'[r] \in ActiveStatuses
                                => tx[r] # "none" /\ status[r] \in ActiveStatuses
    PROVE  BudgetInv'
<1>1. FeeOpen' => FeeOpen
  BY Zenon DEF FeeOpen
<1>2. BidOpen' => BidOpen
  BY ZenonT(30) DEF BidOpen, budgetVars
<1> QED
  BY <1>1, <1>2, Unspent, Zenon

LEMMA ChainBudget ==
    ASSUME IInv, BudgetInv, ChainNext, UNCHANGED procVars
    PROVE  BudgetInv'
<1>1. UNCHANGED <<budgetVars, status, pc, cur>>
  BY ZenonT(30) DEF ChainNext, Mine, Drop, Rebroadcast, MineForeign, Include, PassDeadline, storeVars, attemptVars, atlasVars, lossVars,
         procVars, budgetVars
<1>2. \A r \in Direct : tx'[r] # "none" => tx[r] # "none"
  BY Zenon DEF ChainNext, Mine, Drop, Rebroadcast, MineForeign, Include, PassDeadline, Supersede, AtLarge, txVars, IInv, ChainTypeOK
<1> QED
  BY <1>1, <1>2, OthersBudget, Zenon

\* Midnight empties the sums, and what is open fits an empty day.
LEMMA NewDayBudget ==
    ASSUME IInv, BudgetInv, NewDay, UNCHANGED <<chainVars, procVars>>
    PROVE  BudgetInv'
<1> USE DEF NewDay, attemptVars, chainVars, txVars, procVars
<1>1. CommittedToday' = 0
  <2>1. Counted' = {}
    BY Zenon DEF Counted, Charged
  <2>2. Cardinality({}) = 0
    BY FS_EmptySet, Zenon
  <2>3. CommittedToday' = directLoss' + SolverExposure * Cardinality(Counted')
    BY Zenon DEF CommittedToday, Counted
  <2>4. SolverExposure * 0 = 0
    BY StoreAssumption, SMTT(30)
  <2> QED
    BY <2>1, <2>2, <2>3, <2>4, SMTT(30)
<1>2. CommittedToday \in Nat /\ CommittedToday = directLoss + SolverExposure * Cardinality(Counted)
  BY CommittedSum, Zenon DEF IInv, RowInv
<1>3. FeeOpen' => FeeOpen
  BY ZenonT(30) DEF FeeOpen
<1>4. FeeOpen => WorstCaseFee <= MaximumDailyLoss
  BY <1>2, StoreAssumption, ExecutorAssumption, SMTT(30) DEF BudgetInv
<1>5. BidOpen => SolverExposure <= MaximumDailyLoss
  BY <1>2, StoreAssumption, SMTT(30) DEF BudgetInv
<1>6. ASSUME NEW a \in Auction, astatus[a] \in OpenBids, touched[a] = "executor"
      PROVE  SolverExposure <= MaximumDailyLoss
  <2>1. a \in Counted
    BY <1>6, Zenon DEF Counted, Charged, OpenBids
  <2>2. Cardinality(Counted) \in Nat /\ Cardinality(Counted) # 0
    BY <2>1, CountedFinite, FS_EmptySet, Zenon
  <2>3. SolverExposure * 1 <= SolverExposure * Cardinality(Counted)
    BY <2>2, Multiples, StoreAssumption, SMTT(30)
  <2>4. SolverExposure * 1 = SolverExposure /\ SolverExposure * Cardinality(Counted) \in Nat
    BY <2>2, StoreAssumption, SMTT(30)
  <2> QED
    BY <1>2, <2>3, <2>4, StoreAssumption, SMTT(30) DEF BudgetInv, DailyLossBounded, IInv, RowInv, StoreTypeOK
<1>7. BidOpen' => SolverExposure <= MaximumDailyLoss
  BY <1>5, <1>6, Zenon DEF BidOpen, OpenBids
<1> QED
  BY <1>1, <1>3, <1>4, <1>7, StoreAssumption, ExecutorAssumption, SMTT(30) DEF BudgetInv, DailyLossBounded

LEMMA ControlBudget ==
    ASSUME IInv, BudgetInv, ControlNext, UNCHANGED <<chainVars, procVars>>
    PROVE  BudgetInv'
<1> USE DEF chainVars, txVars, procVars
<1>1. CASE \/ Activate \/ CreateReadiness \/ SetMaxReviewed \/ PostArmRecovery \/ arm_revenue_lanes
           \/ ProviderRecovery \/ OperatorDisarm \/ route_failure \/ SupervisorFailClose
           \/ fail_close_provider_execution_gate \/ RecordProviderFailure \/ RecordProviderSuccess
           \/ \E r \in Direct : InsertCandidate(r)
  <2>1. UNCHANGED othersUnchanged
    BY <1>1, Zenon DEF Activate, CreateReadiness, SetMaxReviewed, PostArmRecovery, arm_revenue_lanes, ProviderRecovery,
       OperatorDisarm, route_failure, SupervisorFailClose, fail_close_provider_execution_gate, RecordProviderFailure,
       RecordProviderSuccess, InsertCandidate
  <2> QED
    BY <2>1, OthersBudget, Zenon DEF othersUnchanged, attemptVars, atlasVars, lossVars, budgetVars
<1>2. ASSUME NEW r \in Direct, insertExecutionCandidate(r) PROVE BudgetInv'
  <2>1. UNCHANGED budgetVars /\ status' = [status EXCEPT ![r] = "approved"]
    BY <1>2, Zenon DEF insertExecutionCandidate, atlasVars, lossVars, budgetVars
  <2> QED
    BY <2>1, OthersBudget, Zenon DEF IInv, RowInv, StoreTypeOK, ActiveStatuses
<1>3. ASSUME NEW a \in Auction, insertAtlasCandidate(a) PROVE BudgetInv'
  <2>1. UNCHANGED <<directLoss, hashed, status, tx, pc, cur>>
    BY <1>3, Zenon DEF insertAtlasCandidate, attemptVars, lossVars
  <2>2. \A b \in Auction : \/ astatus'[b] = astatus[b]
                           \/ astatus[b] = "absent" /\ astatus'[b] = "ready"
    BY <1>3, Zenon DEF insertAtlasCandidate, IInv, RowInv, StoreTypeOK
  <2>3. \A b \in Auction : touched'[b] = "executor" <=> touched[b] = "executor"
    BY <1>3, Zenon DEF insertAtlasCandidate, IInv, RowInv, StoreTypeOK
  <2>4. Counted' = Counted
    <3>1. \A b \in Auction : touched[b] = "executor" => (b \in Charged' <=> b \in Charged)
      BY <2>1, <2>2, <2>3, Zenon DEF Charged
    <3> QED
      BY <2>3, <3>1, Zenon DEF Counted, Charged
  <2>5. CommittedToday' = CommittedToday
    BY <2>1, <2>4, Zenon DEF CommittedToday, Counted
  <2>6. FeeOpen' => FeeOpen
    BY <2>1, Zenon DEF FeeOpen
  <2>7. BidOpen' => BidOpen
    <3>1. \A q \in Proc : pc[q] = "atlas_kill" => cur[q] \in Auction
      BY Zenon DEF IInv, ProcessInv, WorkInv, AuctionPc, AtlasPc
    <3> QED
      BY <2>1, <2>2, <2>3, <3>1, SMTT(30) DEF BidOpen
  <2>8. \A b \in hashed' : astatus'[b] \notin {"absent", "ready", "claimed", "signed"}
    BY <2>1, <2>2, Zenon DEF BudgetInv, IInv, RowInv, StoreTypeOK
  <2> QED
    BY <2>5, <2>6, <2>7, <2>8, Zenon DEF BudgetInv, DailyLossBounded
<1> QED
  BY <1>1, <1>2, <1>3, NewDayBudget, Zenon DEF ControlNext

-----------------------------------------------------------------------------
(* The Atlas lane.                                                         *)

\* A bid that is out is charged, or room is kept for it.
LEMMA ChargedOrOpen ==
    ASSUME NEW a \in Auction, astatus[a] \in OpenBids
    PROVE  a \in Counted \/ BidOpen
BY DEF Counted, Charged, OpenBids, BidOpen

\* The executor writes the row of the bid that holds the lock.
LEMMA BidBudget ==
    ASSUME OneProcess, IInv, BudgetInv, NEW p \in Proc, NEW call, call \notin BudgetPc, pc' = [pc EXCEPT ![p] = call],
           NEW a \in ActiveAtlas, NEW to, astatus' = [astatus EXCEPT ![a] = to],
           touched' = [touched EXCEPT ![a] = "executor"], hashed' \in {hashed, hashed \cup {a}},
           to = "signed" => hashed' = hashed /\ astatus[a] = "claimed",
           to \in OpenBids \cup {"lost", "expired", "reconciled"},
           UNCHANGED <<directLoss, status, tx>>,
           a \in Counted' => a \in Counted \/ BidOpen
    PROVE  BudgetInv'
<1>1. lock = a /\ a \in Auction
  BY Zenon DEF IInv, RowInv, LockMatchesWork, ActiveAtlas
<1>2. \A b \in Auction \ {a} : astatus'[b] = astatus[b] /\ touched'[b] = touched[b] /\ (b \in hashed' <=> b \in hashed)
  BY <1>1, Zenon DEF IInv, RowInv, StoreTypeOK
<1>3. astatus'[a] = to /\ touched'[a] = "executor"
  BY <1>1, Zenon DEF IInv, RowInv, StoreTypeOK
<1>4. \A b \in Auction \ {a} : b \in Counted' <=> b \in Counted
  BY <1>2, Zenon DEF Counted, Charged
<1>5. CommittedToday' = directLoss + SolverExposure * Cardinality(Counted')
  BY ZenonT(30) DEF CommittedToday, Counted
<1>6. /\ CommittedToday = directLoss + SolverExposure * Cardinality(Counted)
      /\ directLoss \in Nat /\ SolverExposure * Cardinality(Counted) \in Nat /\ SolverExposure * Cardinality(Counted') \in Nat
  BY CommittedSum, CountedFinite, CountedFiniteNext, StoreAssumption, SMTT(30) DEF IInv, RowInv, StoreTypeOK
<1>7. DailyLossBounded'
  <2>1. CASE Counted' \subseteq Counted
    <3>1. Cardinality(Counted') <= Cardinality(Counted)
      BY <2>1, CountedFinite, FS_Subset, Zenon
    <3>2. SolverExposure * Cardinality(Counted') <= SolverExposure * Cardinality(Counted)
      BY <3>1, CountedFinite, CountedFiniteNext, Multiples, StoreAssumption, ZenonT(30)
    <3> QED
      BY <1>5, <1>6, <3>2, StoreAssumption, SMTT(30) DEF BudgetInv, DailyLossBounded
  <2>2. CASE ~(Counted' \subseteq Counted)
    <3>1. a \in Counted' /\ a \notin Counted /\ Counted' \subseteq Counted \cup {a}
      BY <1>4, <2>2, ZenonT(30) DEF Counted, Charged
    <3>2. /\ IsFiniteSet(Counted \cup {a}) /\ Cardinality(Counted \cup {a}) = Cardinality(Counted) + 1
      BY <3>1, CountedFinite, FS_AddElement, Zenon
    <3>3. Cardinality(Counted') <= Cardinality(Counted) + 1
      BY <3>1, <3>2, FS_Subset, ZenonT(30)
    <3>4. SolverExposure * Cardinality(Counted') <= SolverExposure * Cardinality(Counted) + SolverExposure
      BY <3>3, CountedFinite, CountedFiniteNext, Multiples, StoreAssumption, Zenon
    <3>5. CommittedToday + SolverExposure <= MaximumDailyLoss
      BY <3>1, Zenon DEF BudgetInv
    <3> QED
      BY <1>5, <1>6, <3>4, <3>5, StoreAssumption, SMTT(30) DEF DailyLossBounded
  <2> QED
    BY <2>1, <2>2, Zenon
<1>8. \A q \in Proc : pc'[q] = call
  BY Zenon DEF OneProcess, IInv, ProcTypeOK
<1>9. ~FeeOpen'
  BY <1>1, <1>8, StoreAssumption, Zenon DEF FeeOpen, BudgetPc, IInv, RowInv, LockMatchesWork, Active
<1>10. ~BidOpen'
  <2>1. \A b \in Auction \ {a} : astatus[b] \notin OpenBids
    BY <1>1, Zenon DEF OpenBids, IInv, RowInv, LockMatchesWork, ActiveAtlas
  <2> QED
    BY <1>2, <1>3, <1>8, <2>1, ZenonT(30) DEF BidOpen, BudgetPc, OpenBids
<1>11. \A b \in hashed' : astatus'[b] \notin {"absent", "ready", "claimed", "signed"}
  <2>1. a \in hashed' => to \notin {"absent", "ready", "claimed", "signed"}
    BY Zenon DEF BudgetInv, OpenBids
  <2>2. hashed' \subseteq Auction
    BY <1>1, Zenon DEF IInv, RowInv, StoreTypeOK
  <2> QED
    BY <1>2, <1>3, <2>1, <2>2, Zenon DEF BudgetInv
<1> QED
  BY <1>7, <1>9, <1>10, <1>11, Zenon DEF BudgetInv

LEMMA AtlasWriteBudget ==
    ASSUME OneProcess, IInv, OneProcessInv, BudgetInv, NEW p \in Proc,
           \/ AtlasSign(p) \/ AtlasSubmitted(p) \/ reject_and_unlock(p) \/ kill_unknown(p)
           \/ PersistExpired(p) \/ PersistFailedInclusion(p) \/ PersistReconciled(p)
    PROVE  BudgetInv'
<1> DEFINE a == cur[p]
<1>1. pc[p] \in {"atlas_sign", "atlas_submitted", "atlas_reject", "atlas_kill", "atlas_expired", "atlas_failed", "atlas_won"}
  BY Zenon DEF AtlasSign, AtlasSubmitted, reject_and_unlock, kill_unknown, PersistExpired, PersistFailedInclusion,
         PersistReconciled, Branch, Commit, CommitLast
<1>2. a \in Auction
  BY <1>1, Zenon DEF IInv, ProcessInv, WorkInv, AuctionPc, AtlasPc
<1>3. CASE Branch(p, "atlas_sign", "atlas_kill")
  <2>1. UNCHANGED <<budgetVars, status, tx>> /\ pc[p] = "atlas_sign"
    BY <1>3, Zenon DEF Branch, storeVars, attemptVars, atlasVars, lossVars, chainVars, txVars, budgetVars
  <2>2. BidOpen
    BY <2>1, Zenon DEF BidOpen
  <2>3. \A q \in Proc : pc'[q] = "atlas_kill"
    BY <1>3, Zenon DEF Branch, Goto, OneProcess, IInv, ProcTypeOK
  <2>4. FeeOpen' => FeeOpen
    BY <2>1, <2>3, Zenon DEF FeeOpen
  <2> QED
    BY <2>1, <2>2, <2>4, Unspent, Zenon
<1>4. CASE ~Branch(p, "atlas_sign", "atlas_kill")
  <2>1. PICK call : call \notin BudgetPc /\ pc' = [pc EXCEPT ![p] = call]
    BY <1>4, Zenon DEF AtlasSign, AtlasSubmitted, reject_and_unlock, kill_unknown, PersistExpired, PersistFailedInclusion,
                PersistReconciled, Commit, CommitLast, Goto, Leave, LoopTop, BudgetPc
  <2>2. UNCHANGED <<directLoss, status, tx>>
    BY <1>4, Zenon DEF AtlasSign, AtlasSubmitted, reject_and_unlock, kill_unknown, PersistExpired, PersistFailedInclusion,
                PersistReconciled, Commit, CommitLast, attemptVars, lossVars, chainVars, txVars
  <2>3. PICK from \in SUBSET {"claimed", "signed", "submitted", "submission_unknown"},
             to \in OpenBids \cup {"lost", "expired", "reconciled"} :
          /\ AtlasUpdate(a, from, to)
          /\ to = "signed" => from = {"claimed"}
          /\ hashed' = IF astatus[a] \in from /\ to \notin {"signed", "submission_unknown", "expired"}
                          /\ pc[p] # "atlas_reject"
                       THEN hashed \cup {a} ELSE hashed
          /\ "claimed" \in from => pc[p] \in {"atlas_sign", "atlas_reject", "atlas_kill"}
          /\ pc[p] = "atlas_reject" => to = "lost"
    <3>1. CASE AtlasSign(p)
      BY <1>4, <3>1, Zenon DEF AtlasSign, Commit, OpenBids
    <3>2. CASE AtlasSubmitted(p)
      BY <3>2, ZenonT(30) DEF AtlasSubmitted, CommitLast, OpenBids
    <3>3. CASE reject_and_unlock(p)
      BY <3>3, Zenon DEF reject_and_unlock, CommitLast, OpenBids
    <3>4. CASE kill_unknown(p)
      BY <3>4, Zenon DEF kill_unknown, CommitLast, OpenBids
    <3>5. CASE PersistExpired(p)
      BY <3>5, Zenon DEF PersistExpired, CommitLast, OpenBids
    <3>6. CASE PersistFailedInclusion(p)
      BY <3>6, Zenon DEF PersistFailedInclusion, CommitLast, OpenBids
    <3>7. CASE PersistReconciled(p)
      BY <3>7, Zenon DEF PersistReconciled, CommitLast, OpenBids
    <3> QED
      BY <3>1, <3>2, <3>3, <3>4, <3>5, <3>6, <3>7, ZenonT(30)
  <2>4. CASE astatus[a] \notin from
    BY <2>1, <2>2, <2>3, <2>4, Elsewhere, ZenonT(30) DEF AtlasUpdate, AtlasMove, Touch, budgetVars, IInv
  <2>5. CASE astatus[a] \in from
    <3>1. a \in ActiveAtlas
      BY <1>2, <2>5, ZenonT(30) DEF ActiveAtlas
    <3>2. astatus' = [astatus EXCEPT ![a] = to] /\ touched' = [touched EXCEPT ![a] = "executor"]
      BY <2>3, <2>5, Zenon DEF AtlasUpdate, AtlasMove, Touch
    <3>3. hashed' \in {hashed, hashed \cup {a}} /\ (to = "signed" => hashed' = hashed /\ astatus[a] = "claimed")
      BY <2>3, <2>5, Zenon
    <3>4. a \in Counted' => a \in Counted \/ BidOpen
      <4>1. CASE astatus[a] \in OpenBids
        BY <1>2, <4>1, ChargedOrOpen, Zenon
      <4>2. CASE astatus[a] = "claimed"
        <5>1. pc[p] = "atlas_reject" => a \notin Counted'
          <6>1. a \notin hashed
            BY <4>2, Zenon DEF BudgetInv
          <6>2. pc[p] = "atlas_reject" => a \notin hashed' /\ astatus'[a] = "lost"
            BY <1>2, <2>3, <3>2, <6>1, ZenonT(30) DEF IInv, RowInv, StoreTypeOK
          <6> QED
            BY <6>2, Zenon DEF Counted, Charged
        <5>2. pc[p] \in {"atlas_sign", "atlas_kill"} => BidOpen
          BY <4>2, ZenonT(30) DEF BidOpen
        <5> QED
          BY <2>3, <2>5, <4>2, <5>1, <5>2, Zenon
      <4> QED
        BY <2>3, <2>5, <4>1, <4>2, Zenon DEF OpenBids
    <3> QED
      BY <2>1, <2>2, <2>3, <3>1, <3>2, <3>3, <3>4, BidBudget, ZenonT(30)
  <2> QED
    BY <2>4, <2>5, Zenon
<1> QED
  BY <1>3, <1>4, Zenon

\* The claim charges nothing yet, and finds room or goes to reject.
LEMMA AtlasClaimBudget ==
    ASSUME OneProcess, IInv, BudgetInv, NEW p \in Proc, AtlasClaim(p)
    PROVE  BudgetInv'
<1>1. CASE Finish(p, "atlas_claim", LoopTop)
  BY <1>1, Elsewhere, ZenonT(30) DEF Finish, Leave, LoopTop, BudgetPc, IInv, storeVars, attemptVars, atlasVars, lossVars, chainVars,
                         txVars, budgetVars
<1>2. ASSUME NEW a \in Auction, CanClaimAuction(a), AtlasUpdate(a, {"ready"}, "claimed"),
             pc' = [pc EXCEPT ![p] = IF ExposureFits THEN "atlas_validate" ELSE "atlas_reject"],
             UNCHANGED <<chainVars, attemptVars, hashed, lossVars>>
      PROVE  BudgetInv'
  <2>1. /\ astatus[a] = "ready" /\ astatus' = [astatus EXCEPT ![a] = "claimed"]
        /\ touched' = [touched EXCEPT ![a] = "executor"] /\ UNCHANGED <<directLoss, hashed, status, tx>>
    BY <1>2, Zenon DEF CanClaimAuction, AtlasUpdate, AtlasMove, Touch, attemptVars, lossVars, chainVars, txVars
  <2>2. /\ \A b \in Auction \ {a} : astatus'[b] = astatus[b] /\ touched'[b] = touched[b]
        /\ astatus'[a] = "claimed"
    BY <2>1, Zenon DEF IInv, RowInv, StoreTypeOK
  <2>3. Counted' = Counted
    <3>1. a \notin Counted /\ a \notin Counted'
      BY <2>1, <2>2, Zenon DEF Counted, Charged
    <3>2. \A b \in Auction \ {a} : b \in Counted' <=> b \in Counted
      BY <2>1, <2>2, Zenon DEF Counted, Charged
    <3> QED
      BY <3>1, <3>2, Zenon DEF Counted, Charged
  <2>4. CommittedToday' = CommittedToday
    BY <2>1, <2>3, Zenon DEF CommittedToday, Counted
  <2>5. \A q \in Proc : pc'[q] = IF ExposureFits THEN "atlas_validate" ELSE "atlas_reject"
    BY <1>2, Zenon DEF OneProcess, IInv, ProcTypeOK
  <2>6. FeeOpen' => FeeOpen
    BY <2>1, <2>5, Zenon DEF FeeOpen
  <2>7. BidOpen' => BidOpen \/ ExposureFits
    BY <2>1, <2>2, <2>5, Zenon DEF BidOpen
  <2>8. ExposureFits => CommittedToday + SolverExposure <= MaximumDailyLoss
    BY CommittedSum, StoreAssumption, SMTT(30) DEF ExposureFits, IInv, RowInv
  <2>9. \A b \in hashed' : astatus'[b] \notin {"absent", "ready", "claimed", "signed"}
    BY <2>1, <2>2, Zenon DEF BudgetInv, IInv, RowInv, StoreTypeOK
  <2> QED
    BY <2>4, <2>6, <2>7, <2>8, <2>9, ZenonT(30) DEF BudgetInv, DailyLossBounded
<1> QED
  BY <1>1, <1>2, Zenon DEF AtlasClaim

LEMMA AtlasDecideBudget ==
    ASSUME OneProcess, IInv, OneProcessInv, BudgetInv, NEW p \in Proc,
           \/ AtlasActive(p) \/ AtlasUnverified(p) \/ AtlasReconcile(p) \/ AtlasValidate(p)
           \/ AtlasRecheck(p) \/ AtlasSubmit(p)
    PROVE  BudgetInv'
<1>1. UNCHANGED <<budgetVars, status, tx>>
  BY Zenon DEF AtlasActive, AtlasUnverified, AtlasReconcile, AtlasValidate, AtlasRecheck, AtlasSubmit, Branch, Finish, storeVars,
         attemptVars, atlasVars, lossVars, chainVars, txVars, budgetVars
<1>2. CASE \E call : call \notin BudgetPc /\ pc' = [pc EXCEPT ![p] = call]
  BY <1>1, <1>2, Elsewhere, Zenon DEF IInv
<1>3. CASE Branch(p, "atlas_validate", "atlas_sign")
  <2>1. BidOpen
    BY <1>3, Zenon DEF Branch, BidOpen
  <2>2. \A q \in Proc : pc'[q] = "atlas_sign"
    BY <1>3, Zenon DEF Branch, Goto, OneProcess, IInv, ProcTypeOK
  <2>3. FeeOpen' => FeeOpen
    BY <1>1, <2>2, Zenon DEF FeeOpen
  <2> QED
    BY <1>1, <2>1, <2>3, Unspent, Zenon
<1>4. ASSUME pc' = [pc EXCEPT ![p] = "atlas_kill"], pc[p] \in {"atlas_reconcile", "atlas_submit"}, UNCHANGED cur
      PROVE  BudgetInv'
  <2>1. astatus[cur[p]] # "claimed"
    BY <1>4, Zenon DEF IInv, ProcessInv, WorkInv, SettlePc, OneProcessInv, PlaceInv, Place, AtSigned
  <2>2. \A q \in Proc : pc'[q] = "atlas_kill" /\ q = p
    BY <1>4, Zenon DEF OneProcess, IInv, ProcTypeOK
  <2>3. FeeOpen' => FeeOpen
    BY <1>1, <2>2, ZenonT(30) DEF FeeOpen
  <2>4. BidOpen' => BidOpen
    BY <1>1, <1>4, <2>1, <2>2, Zenon DEF BidOpen, budgetVars
  <2> QED
    BY <1>1, <2>3, <2>4, Unspent, Zenon
<1>5. CASE AtlasActive(p) \/ AtlasReconcile(p) \/ AtlasRecheck(p)
  BY <1>2, <1>5, Zenon DEF AtlasActive, AtlasReconcile, AtlasRecheck, Branch, Finish, Goto, Leave, LoopTop, BudgetPc
<1>6. CASE AtlasUnverified(p) \/ AtlasValidate(p) \/ AtlasSubmit(p)
  BY <1>2, <1>3, <1>4, <1>6, ZenonT(30) DEF AtlasUnverified, AtlasValidate, AtlasSubmit, Branch, Goto, BudgetPc
<1> QED
  BY <1>5, <1>6, Zenon

-----------------------------------------------------------------------------
(* The theorem.                                                            *)

LEMMA BudgetInit ==
    ASSUME Init
    PROVE  BudgetInv
<1> USE DEF Init, StoreInit, ChainInit, ProcInit
<1>1. CommittedToday = 0
  <2>1. {a \in Charged : touched[a] = "executor"} = {}
    BY Zenon DEF Charged
  <2>2. SolverExposure * Cardinality({}) = 0
    BY FS_EmptySet, StoreAssumption, SMTT(30)
  <2> QED
    BY <2>1, <2>2, SMTT(30) DEF CommittedToday
<1>2. ~FeeOpen /\ ~BidOpen
  BY Zenon DEF FeeOpen, BidOpen
<1> QED
  BY <1>1, <1>2, StoreAssumption, SMTT(30) DEF BudgetInv, DailyLossBounded

LEMMA BudgetStep ==
    ASSUME OneProcess, IInv, OneProcessInv, BudgetInv, [Next]_vars
    PROVE  BudgetInv'
<1>1. ASSUME NEW p \in Proc, AtlasStep(p) PROVE BudgetInv'
  BY <1>1, AtlasDecideBudget, AtlasClaimBudget, AtlasWriteBudget, Zenon DEF AtlasStep
<1>2. ASSUME NEW p \in Proc, Process(p) PROVE BudgetInv'
  BY <1>1, <1>2, MaterializerBudget, ExecutorBudget, DecideBudget, ZenonT(30) DEF Process
<1>3. ASSUME NEW p \in Proc, Fault(p) PROVE BudgetInv'
  BY <1>3, FaultBudget, Zenon
<1>4. CASE UNCHANGED vars
  BY <1>4, OthersBudget, Zenon DEF vars, storeVars, attemptVars, atlasVars, lossVars, chainVars, txVars, procVars, budgetVars
<1> QED
  BY <1>2, <1>3, <1>4, ControlBudget, ChainBudget, Zenon DEF Next

=============================================================================
