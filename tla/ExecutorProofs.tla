--------------------------- MODULE ExecutorProofs ---------------------------
(***************************************************************************)
(* The steps of RevenueExecution, for any number of executor processes:    *)
(* every transaction of the store keeps the row invariants, every call of  *)
(* the executor, the materializer and the Atlas lane keeps what each       *)
(* process relies on, and no attempt goes back.  The theorems are in       *)
(* RevenueProofs.                                                          *)
(***************************************************************************)
EXTENDS RevenueInvariant, TLAPS

-----------------------------------------------------------------------------
(* What each transaction of the store does to the rows: it keeps the row   *)
(* invariants, and all but the two that move the nonce counter are calm.   *)

AnyPc == MaterializerPc \cup ExecutorPc \cup AtlasPc \cup {"fatal", "down"}

Early == {"absent", "approved"}
EarlyBid == {"absent", "ready", "claimed", "signed"}

\* A transaction that touches no nonce and takes no request or bid back.
Calm ==
    /\ nonce' = nonce
    /\ nextNonce' = nextNonce
    /\ \A r \in Direct : status'[r] \in Early => status[r] \in Early
    /\ \A a \in Auction : astatus'[a] \in EarlyBid => astatus[a] \in EarlyBid

\* Closing the authority keeps every row invariant.
LEMMA DisarmRows == RowInv /\ disarm => RowInv' /\ Calm
<1> SUFFICES ASSUME RowInv, disarm PROVE RowInv' /\ Calm
  BY Zenon
<1> USE DEF RowInv, disarm, fail_close_execution_authority, attemptVars, atlasVars, lossVars
<1>1. StoreTypeOK'
  BY Zenon DEF StoreTypeOK, Unclaimed, DisarmCandidates, CandidateStatus
<1>2. LockMatchesWork'
  BY Zenon DEF LockMatchesWork, Active, ActiveAtlas
<1>3. CandidateInv'
  BY Zenon DEF CandidateInv, DisarmCandidates, StoreTypeOK
<1>4. PhaseInv' /\ Calm
  BY Zenon DEF PhaseInv, Calm
<1> QED
  BY <1>1, <1>2, <1>3, <1>4, Zenon

\* A claim takes the lock for an approved request under its own authority.
LEMMA ClaimRows ==
    ASSUME RowInv, NEW r \in Direct, CanClaim(r), claim_approved(r)
    PROVE  RowInv' /\ Calm
<1> USE DEF RowInv, CanClaim, claim_approved, atlasVars, controlVars, lossVars
<1>1. StoreTypeOK'
  BY Zenon DEF StoreTypeOK, MoveCandidate, CandidateStatus, AttemptStatus, ActiveStatuses
<1>2. LockMatchesWork'
  BY StoreAssumption, Zenon DEF LockMatchesWork, Active, ActiveAtlas, StoreTypeOK, ActiveStatuses
<1>3. CandidateInv'
  BY Zenon DEF CandidateInv, MoveCandidate, StoreTypeOK
<1>4. PhaseInv'
  BY Zenon DEF PhaseInv, Active, StoreTypeOK, ActiveStatuses, Authority, DexAuthority, LaneAuthority
<1>5. Calm
  BY Zenon DEF Calm, StoreTypeOK, Early
<1> QED
  BY <1>1, <1>2, <1>3, <1>4, <1>5, Zenon

\* Recording the nonce, the signature, the hash or an unknown outcome keeps the
\* attempt active.
LEMMA AllocateRows ==
    ASSUME RowInv, NEW r \in Direct, NEW n \in Nat, CanAllocate(r), allocate_nonce(r, n)
    PROVE  RowInv'
<1> USE DEF RowInv, CanAllocate, allocate_nonce, atlasVars, controlVars, lossVars
<1>1. StoreTypeOK'
  BY SMTT(30) DEF StoreTypeOK, AttemptStatus, ActiveStatuses
<1>2. Active' = Active
  BY Zenon DEF Active, ActiveStatuses, StoreTypeOK
<1>3. LockMatchesWork'
  BY <1>2, Zenon DEF LockMatchesWork, Active, ActiveAtlas, StoreTypeOK, ActiveStatuses
<1>4. CandidateInv' /\ PhaseInv'
  BY <1>2, Zenon DEF CandidateInv, PhaseInv, StoreTypeOK
<1> QED
  BY <1>1, <1>3, <1>4, Zenon

\* mark_signed only moves the candidate.
LEMMA SignedRows ==
    ASSUME RowInv, NEW r \in Direct, HasUnsubmittedNonce(r), mark_signed(r)
    PROVE  RowInv' /\ Calm
<1> USE DEF RowInv, mark_signed, attemptVars, atlasVars, controlVars, lossVars
<1>1. StoreTypeOK'
  BY Zenon DEF StoreTypeOK, MoveCandidate, CandidateStatus
<1>2. LockMatchesWork' /\ PhaseInv' /\ Calm
  BY Zenon DEF LockMatchesWork, Active, ActiveAtlas, PhaseInv, Calm
<1>3. CandidateInv'
  BY Zenon DEF CandidateInv, MoveCandidate, StoreTypeOK
<1> QED
  BY <1>1, <1>2, <1>3, Zenon

\* mark_submission_unknown keeps the attempt active and the lock with it.
LEMMA UnknownRows ==
    ASSUME RowInv, NEW r \in Direct, HasUnsubmittedNonce(r), mark_submission_unknown(r)
    PROVE  RowInv' /\ Calm
<1> USE DEF RowInv, HasUnsubmittedNonce, mark_submission_unknown, atlasVars, controlVars, lossVars
<1>1. StoreTypeOK'
  BY Zenon DEF StoreTypeOK, MoveCandidate, CandidateStatus, AttemptStatus, ActiveStatuses
<1>2. Active' = Active
  BY Zenon DEF Active, ActiveStatuses, StoreTypeOK
<1>3. LockMatchesWork'
  BY <1>2, Zenon DEF LockMatchesWork, Active, ActiveAtlas, StoreTypeOK, ActiveStatuses
<1>4. CandidateInv' /\ PhaseInv' /\ Calm
  BY <1>2, Zenon DEF CandidateInv, PhaseInv, StoreTypeOK, MoveCandidate, Calm, Early
<1> QED
  BY <1>1, <1>3, <1>4, Zenon

\* mark_pending keeps the attempt active and the lock with it.
LEMMA PendingRows ==
    ASSUME RowInv, NEW r \in Direct, HasUnsubmittedNonce(r), mark_pending(r)
    PROVE  RowInv' /\ Calm
<1> USE DEF RowInv, HasUnsubmittedNonce, mark_pending, atlasVars, controlVars, lossVars
<1>1. StoreTypeOK'
  BY Zenon DEF StoreTypeOK, MoveCandidate, CandidateStatus, AttemptStatus, ActiveStatuses
<1>2. Active' = Active
  BY Zenon DEF Active, ActiveStatuses, StoreTypeOK
<1>3. LockMatchesWork'
  BY <1>2, Zenon DEF LockMatchesWork, Active, ActiveAtlas, StoreTypeOK, ActiveStatuses
<1>4. CandidateInv' /\ PhaseInv' /\ Calm
  BY <1>2, Zenon DEF CandidateInv, PhaseInv, StoreTypeOK, MoveCandidate, Calm, Early
<1> QED
  BY <1>1, <1>3, <1>4, Zenon

\* A rollback closes the attempt and gives the lock back.
LEMMA RollbackRows ==
    ASSUME RowInv, NEW r \in Direct, CanRollBack(r), fail_unsubmitted(r)
    PROVE  RowInv'
<1> USE DEF RowInv, CanRollBack, HasUnsubmittedNonce, fail_unsubmitted, atlasVars, controlVars, lossVars
<1>1. StoreTypeOK'
  BY Zenon DEF StoreTypeOK, MoveCandidate, CandidateStatus, AttemptStatus, Released
<1>2. Active' = Active \ {r} /\ r \in Active
  BY Zenon DEF Active, ActiveStatuses, StoreTypeOK
<1>3. LockMatchesWork'
  BY <1>2, StoreAssumption, Zenon DEF LockMatchesWork, ActiveAtlas, Released
<1>4. CandidateInv' /\ PhaseInv'
  BY <1>2, Zenon DEF CandidateInv, PhaseInv, StoreTypeOK, MoveCandidate
<1> QED
  BY <1>1, <1>3, <1>4, Zenon

\* A terminal status keeps the lock exactly while the attempt stays active or
\* was replaced.
LEMMA TerminalRows ==
    ASSUME RowInv, NEW r \in Direct, NEW loss \in Nat, NEW limitHit \in BOOLEAN,
           NEW to \in {"confirmed", "reverted", "failed", "replaced", "timed_out"},
           CanTerminate(r, to), mark_terminal(r, to, loss, limitHit)
    PROVE  RowInv' /\ Calm
<1> DEFINE c == MoveCandidate(cand, r, {"claimed", "signed", "submitted"}, TerminalCandidate(to))
<1>1. /\ status' = [status EXCEPT ![r] = to]
      /\ directLoss' \in Nat
      /\ lock' = IF to \in {"confirmed", "reverted", "failed"} THEN Released(r) ELSE lock
      /\ UNCHANGED <<nonce, nextNonce, astatus, hashed, touched, lanesArmed, providerReady, stale>>
      /\ phase' \in {"closed", phase}
      /\ cand' \in {c, DisarmCandidates(c)}
  BY SMTT(30) DEF mark_terminal, apply_autonomous_risk_feedback, atlasVars, RowInv, StoreTypeOK
<1>b. recentLoss' \in BOOLEAN /\ dexArmed' \in BOOLEAN
  <2>1. (loss > 0) \in BOOLEAN
    BY SMTT(30)
  <2>2. recentLoss \in BOOLEAN /\ dexArmed \in BOOLEAN
    BY Zenon DEF RowInv, StoreTypeOK
  <2> QED
    BY <2>1, <2>2, Zenon DEF mark_terminal, apply_autonomous_risk_feedback
<1>2. TerminalCandidate(to) \in {"confirmed", "reverted", "submission_failed_known", "disarmed"}
  BY Zenon DEF TerminalCandidate
<1>3. /\ c \in [Direct -> CandidateStatus]
      /\ \A s \in Direct : c[s] = cand[s] \/ (cand[s] # "none" /\ c[s] \notin {"none", "materialized", "approval_pending"})
  BY <1>2, Zenon DEF RowInv, StoreTypeOK, MoveCandidate, CandidateStatus
<1> HIDE DEF c
<1>d. cand' \in [Direct -> CandidateStatus]
  BY <1>1, <1>3, Zenon DEF DisarmCandidates, CandidateStatus
<1>e. status' \in [Direct -> AttemptStatus] /\ lock' \in Direct \cup Auction \cup {NoOwner}
  BY <1>1, Zenon DEF RowInv, StoreTypeOK, AttemptStatus, ActiveStatuses, Released
<1>4. StoreTypeOK'
  <2>1. /\ nonce' \in [Direct -> Nat] /\ nextNonce' \in Nat
        /\ astatus' \in [Auction -> AtlasStatus] /\ hashed' \subseteq Auction
        /\ touched' \in [Auction -> {"no", "executor", "hunter"}]
        /\ phase' \in {"closed", "evidence", "live"}
        /\ stale' \subseteq Direct \cup Auction
    BY <1>1, Zenon DEF RowInv, StoreTypeOK
  <2>2. lanesArmed' \in BOOLEAN /\ providerReady' \in BOOLEAN
    BY <1>1, Zenon DEF RowInv, StoreTypeOK
  <2> QED
    BY <1>1, <1>b, <1>d, <1>e, <2>1, <2>2, Zenon DEF StoreTypeOK
<1>5. r \in Active /\ status[r] \notin Early
  BY Zenon DEF CanTerminate, Active, ActiveStatuses, Early
<1>6. Active' \subseteq Active /\ (to # "timed_out" => r \notin Active')
  BY <1>1, <1>5, Zenon DEF Active, ActiveStatuses, RowInv, StoreTypeOK
<1>7. LockMatchesWork'
  BY <1>1, <1>5, <1>6, StoreAssumption, SMTT(30)
  DEF RowInv, StoreTypeOK, LockMatchesWork, Active, ActiveAtlas, ActiveStatuses, Released
<1>8. \A s \in Direct : status'[s] = "absent" <=> status[s] = "absent"
  BY <1>1, <1>5, Zenon DEF RowInv, StoreTypeOK, Early
<1>9. CandidateInv'
  <2>1. \A s \in Direct : \/ cand'[s] = cand[s]
                          \/ cand[s] # "none" /\ cand'[s] \notin {"none", "materialized", "approval_pending"}
    BY <1>1, <1>3, Zenon DEF DisarmCandidates
  <2> QED
    BY <2>1, <1>8, Zenon DEF RowInv, CandidateInv
<1>10. PhaseInv'
  BY <1>1, <1>6, Zenon DEF RowInv, PhaseInv
<1>11. Calm
  BY <1>1, Zenon DEF Calm, Early, RowInv, StoreTypeOK
<1> QED
  BY <1>4, <1>7, <1>9, <1>10, <1>11, Zenon DEF RowInv

\* A bid's update keeps the lock while the bid is active and gives it back when
\* it ends.
LEMMA BidRows ==
    ASSUME RowInv, NEW a \in Auction, NEW to \in AtlasStatus,
           NEW from \in SUBSET {"claimed", "signed", "submitted", "submission_unknown"},
           AtlasUpdate(a, from, to),
           hashed' \in {hashed, hashed \cup {a}},
           UNCHANGED <<attemptVars, lossVars>>,
           UNCHANGED <<controlVars, cand>> \/ fail_close_execution_authority,
           \/ to = "signed" /\ from = {"claimed"} /\ lock' = lock
           \/ to \in {"submitted", "submission_unknown"} /\ lock' = lock
           \/ /\ to \in {"lost", "expired", "reconciled"}
              /\ a \in ActiveAtlas => astatus[a] \in from
              /\ lock' = Released(a)
    PROVE  RowInv' /\ Calm
<1> USE DEF RowInv, attemptVars, lossVars, controlVars
<1>1. /\ astatus' = IF astatus[a] \in from THEN [astatus EXCEPT ![a] = to] ELSE astatus
      /\ touched' = IF astatus[a] \in from THEN [touched EXCEPT ![a] = "executor"] ELSE touched
  BY Zenon DEF AtlasUpdate, AtlasMove, Touch
<1>2. StoreTypeOK'
  <2>1. /\ astatus' \in [Auction -> AtlasStatus] /\ hashed' \subseteq Auction
        /\ touched' \in [Auction -> {"no", "executor", "hunter"}]
        /\ lock' \in Direct \cup Auction \cup {NoOwner}
    BY <1>1, Zenon DEF StoreTypeOK, Released
  <2>2. CASE UNCHANGED <<controlVars, cand>>
    BY <2>1, <2>2, Zenon DEF StoreTypeOK
  <2>3. CASE fail_close_execution_authority
    BY <2>1, <2>3, Zenon DEF StoreTypeOK, fail_close_execution_authority, Unclaimed, DisarmCandidates, CandidateStatus
  <2> QED
    BY <2>2, <2>3, Zenon
<1>3. LockMatchesWork'
  <2>1. Active' = Active /\ status' = status
    BY Zenon DEF Active
  <2>2. a \notin Direct
    BY StoreAssumption, Zenon
  <2>3. CASE lock' = lock /\ to \in {"signed", "submitted", "submission_unknown"}
    <3>1. ActiveAtlas' = ActiveAtlas
      BY <1>1, <2>3, ZenonT(30) DEF ActiveAtlas, StoreTypeOK
    <3> QED
      BY <2>1, <2>3, <3>1, Zenon DEF LockMatchesWork
  <2>4. CASE /\ to \in {"lost", "expired", "reconciled"}
             /\ a \in ActiveAtlas => astatus[a] \in from
             /\ lock' = Released(a)
    <3>1. ActiveAtlas' = ActiveAtlas \ {a}
      BY <1>1, <2>4, Zenon DEF ActiveAtlas, StoreTypeOK
    <3>2. a \notin Active /\ NoOwner \notin Direct \cup Auction
      BY <2>2, StoreAssumption, Zenon DEF Active
    <3> QED
      BY <2>1, <2>2, <2>4, <3>1, <3>2, Zenon DEF LockMatchesWork, Released
  <2> QED
    BY <2>3, <2>4, Zenon
<1>4. CandidateInv'
  BY Zenon DEF CandidateInv, fail_close_execution_authority, DisarmCandidates, StoreTypeOK
<1>5. PhaseInv'
  BY Zenon DEF PhaseInv, Active, fail_close_execution_authority
<1>6. Calm
  BY <1>1, Zenon DEF Calm, EarlyBid, StoreTypeOK
<1> QED
  BY <1>2, <1>3, <1>4, <1>5, <1>6, Zenon

\* The control plane, the hunter and the clock keep every row invariant.
LEMMA ControlRows == RowInv /\ ControlNext => RowInv' /\ Calm
<1> SUFFICES ASSUME RowInv, ControlNext PROVE RowInv' /\ Calm
  BY Zenon
<1> USE DEF RowInv, othersUnchanged, attemptVars, atlasVars, lossVars, controlVars
<1>1. CASE \/ Activate \/ CreateReadiness \/ SetMaxReviewed \/ PostArmRecovery \/ arm_revenue_lanes
           \/ ProviderRecovery \/ OperatorDisarm \/ route_failure \/ SupervisorFailClose
           \/ fail_close_provider_execution_gate \/ RecordProviderFailure \/ RecordProviderSuccess
  <2> USE DEF Activate, CreateReadiness, SetMaxReviewed, PostArmRecovery, arm_revenue_lanes,
              ProviderRecovery, OperatorDisarm, route_failure, SupervisorFailClose,
              fail_close_provider_execution_gate, RecordProviderFailure, RecordProviderSuccess,
              fail_close_execution_authority, Quiet
  <2>1. UNCHANGED <<status, nonce, nextNonce, astatus, hashed, touched, lock, directLoss, recentLoss>>
    BY <1>1, ZenonT(30)
  <2>2. cand' \in {cand, DisarmCandidates(cand)}
    BY <1>1, Zenon
  <2>3. phase' \in {"closed", phase} \/ (phase' \in {"live", "evidence"} /\ Active = {})
    BY <1>1, Zenon
  <2>4. /\ dexArmed' \in BOOLEAN /\ lanesArmed' \in BOOLEAN /\ providerReady' \in BOOLEAN
        /\ stale' \subseteq Direct \cup Auction
    BY <1>1, ZenonT(30) DEF StoreTypeOK, Unclaimed
  <2> HIDE DEF Activate, CreateReadiness, SetMaxReviewed, PostArmRecovery, arm_revenue_lanes,
              ProviderRecovery, OperatorDisarm, route_failure, SupervisorFailClose,
              fail_close_provider_execution_gate, RecordProviderFailure, RecordProviderSuccess
  <2>5. StoreTypeOK'
    BY <2>1, <2>2, <2>3, <2>4, Zenon DEF StoreTypeOK, DisarmCandidates, CandidateStatus
  <2>6. LockMatchesWork' /\ Calm
    BY <2>1, Zenon DEF LockMatchesWork, Active, ActiveAtlas, Calm
  <2>7. CandidateInv'
    BY <2>1, <2>2, Zenon DEF CandidateInv, DisarmCandidates
  <2>8. PhaseInv'
    BY <2>1, <2>3, Zenon DEF PhaseInv, Active
  <2> QED
    BY <2>5, <2>6, <2>7, <2>8, Zenon
<1>2. ASSUME NEW r \in Direct, InsertCandidate(r) PROVE RowInv' /\ Calm
  <2> USE <1>2 DEF InsertCandidate
  <2>1. StoreTypeOK'
    BY Zenon DEF StoreTypeOK, CandidateStatus
  <2>2. LockMatchesWork' /\ PhaseInv' /\ Calm
    BY Zenon DEF LockMatchesWork, PhaseInv, Active, ActiveAtlas, Calm
  <2>3. CandidateInv'
    BY Zenon DEF CandidateInv, StoreTypeOK
  <2> QED
    BY <2>1, <2>2, <2>3, Zenon
<1>3. ASSUME NEW r \in Direct, insertExecutionCandidate(r) PROVE RowInv' /\ Calm
  <2> USE <1>3 DEF insertExecutionCandidate
  <2>1. StoreTypeOK'
    BY Zenon DEF StoreTypeOK, AttemptStatus
  <2>2. Active' = Active /\ ActiveAtlas' = ActiveAtlas
    BY Zenon DEF Active, ActiveAtlas, ActiveStatuses, StoreTypeOK
  <2>3. LockMatchesWork'
    BY <2>2, Zenon DEF LockMatchesWork, ActiveStatuses, StoreTypeOK
  <2>4. PhaseInv' /\ Calm
    BY <2>2, Zenon DEF PhaseInv, Calm, Early, StoreTypeOK
  <2>5. CandidateInv'
    BY Zenon DEF CandidateInv, StoreTypeOK
  <2> QED
    BY <2>1, <2>3, <2>4, <2>5, Zenon
<1>4. ASSUME NEW a \in Auction, insertAtlasCandidate(a) PROVE RowInv' /\ Calm
  <2> USE <1>4 DEF insertAtlasCandidate
  <2>1. StoreTypeOK'
    BY Zenon DEF StoreTypeOK, AtlasStatus
  <2>2. Active' = Active /\ ActiveAtlas' = ActiveAtlas
    BY Zenon DEF Active, ActiveAtlas, StoreTypeOK
  <2>3. LockMatchesWork' /\ CandidateInv' /\ PhaseInv'
    BY <2>2, Zenon DEF LockMatchesWork, CandidateInv, PhaseInv
  <2>4. Calm
    BY Zenon DEF Calm, EarlyBid, StoreTypeOK
  <2> QED
    BY <2>1, <2>3, <2>4, Zenon
<1>5. CASE NewDay
  <2> USE <1>5 DEF NewDay
  <2>1. StoreTypeOK'
    BY Zenon DEF StoreTypeOK
  <2>2. LockMatchesWork' /\ PhaseInv' /\ CandidateInv' /\ Calm
    BY Zenon DEF LockMatchesWork, PhaseInv, CandidateInv, Active, ActiveAtlas, Calm
  <2> QED
    BY <2>1, <2>2, Zenon
<1> QED
  BY <1>1, <1>2, <1>3, <1>4, <1>5, Zenon DEF ControlNext


-----------------------------------------------------------------------------
(* Moves of a process.                                                     *)

\* A process moves on with request i, relying on no more than before.
LEMMA MoveInv ==
    ASSUME IInv, Calm, tx' = tx,
           NEW p \in Proc, NEW to \in AnyPc, NEW i \in Direct \cup Auction \cup {NoOwner},
           pc' = [pc EXCEPT ![p] = to], cur' = [cur EXCEPT ![p] = i],
           to \in DirectPc => i \in Direct,
           to \in AuctionPc => i \in Auction,
           to \in SettlePc => i \in Auction /\ astatus'[i] \notin EarlyBid,
           to \in ClaimantPc => pc[p] \in ClaimantPc /\ i = cur[p],
           to \in UnsentPc => pc[p] \in UnsentPc,
           to \in NoncePc => pc[p] \in NoncePc
    PROVE  ProcessInv'
<1>1. /\ pc'[p] = to /\ cur'[p] = i
      /\ \A q \in Proc : q # p => pc'[q] = pc[q] /\ cur'[q] = cur[q]
  BY Zenon DEF IInv, ProcTypeOK
<1>2. UnsentPc \subseteq ClaimantPc /\ NoncePc \subseteq ClaimantPc /\ SettlePc \subseteq AuctionPc
      /\ ClaimantPc \subseteq DirectPc
  BY SMTT(30) DEF UnsentPc, NoncePc, ClaimantPc, SettlePc, AuctionPc, AtlasPc, DirectPc, ExecutorPc
<1>3. WorkInv'
  <2> SUFFICES ASSUME NEW q \in Proc
               PROVE  /\ pc'[q] \in DirectPc => cur'[q] \in Direct
                      /\ pc'[q] \in AuctionPc => cur'[q] \in Auction
                      /\ pc'[q] \in ClaimantPc => status'[cur'[q]] \notin Early
                      /\ pc'[q] \in UnsentPc => tx'[cur'[q]] = "none"
                      /\ pc'[q] \in SettlePc => astatus'[cur'[q]] \notin EarlyBid
    BY Zenon DEF WorkInv, Early, EarlyBid
  <2>1. /\ pc[q] \in DirectPc => cur[q] \in Direct
        /\ pc[q] \in AuctionPc => cur[q] \in Auction
        /\ pc[q] \in ClaimantPc => status[cur[q]] \notin Early
        /\ pc[q] \in UnsentPc => tx[cur[q]] = "none"
        /\ pc[q] \in SettlePc => astatus[cur[q]] \notin EarlyBid
    BY Zenon DEF IInv, ProcessInv, WorkInv, Early, EarlyBid
  <2>2. CASE q # p
    BY <2>1, <2>2, <1>1, <1>2, Zenon DEF Calm
  <2>3. CASE q = p
    BY <2>1, <2>3, <1>1, <1>2, SMTT(30) DEF Calm
  <2> QED
    BY <2>2, <2>3, Zenon
<1>4. ClaimantInv'
  BY <1>1, SMTT(30) DEF IInv, ProcessInv, ClaimantInv
<1>5. \A r \in Direct : NonceTaken(r)' => NonceTaken(r)
  BY <1>1, <1>2, SMTT(30) DEF NonceTaken
<1>6. NonceInv'
  BY <1>5, Zenon DEF IInv, ProcessInv, NonceInv, Calm, Early
<1> QED
  BY <1>3, <1>4, <1>6, Zenon DEF ProcessInv

\* Every pair of calls a step connects: the second relies on no more than the first.
Follows(from, to) ==
    /\ to \in AnyPc
    /\ to \in DirectPc => from \in DirectPc
    /\ to \in AuctionPc => from \in AuctionPc
    /\ to \in SettlePc => from \in SettlePc
    /\ to \in ClaimantPc => from \in ClaimantPc
    /\ to \in UnsentPc => from \in UnsentPc
    /\ to \in NoncePc => from \in NoncePc

Idle(to) == to \in AnyPc \ (DirectPc \cup AuctionPc)

\* A step that commits a calm transaction and goes on with the same request.
LEMMA GotoInv ==
    ASSUME IInv, RowInv', Calm, NEW p \in Proc, NEW to,
           Follows(pc[p], to), Goto(p, to), UNCHANGED chainVars, faults' \in Nat
    PROVE  IInv'
<1> USE DEF IInv, Goto, chainVars, txVars
<1>1. pc[p] \in SettlePc => cur[p] \in Auction /\ astatus[cur[p]] \notin EarlyBid
  BY Zenon DEF ProcessInv, WorkInv, EarlyBid, SettlePc, AuctionPc, AtlasPc
<1>2. cur[p] \in Direct \cup Auction \cup {NoOwner} /\ cur' = [cur EXCEPT ![p] = cur[p]]
  BY Zenon DEF ProcTypeOK
<1>3. ProcessInv'
  <2>1. /\ pc[p] \in DirectPc => cur[p] \in Direct
        /\ pc[p] \in AuctionPc => cur[p] \in Auction
    BY Zenon DEF ProcessInv, WorkInv
  <2>2. to \in SettlePc => cur[p] \in Auction /\ astatus'[cur[p]] \notin EarlyBid
    BY <1>1, Zenon DEF Follows, Calm
  <2>3. tx' = tx /\ pc' = [pc EXCEPT ![p] = to] /\ to \in AnyPc
    BY Zenon DEF Follows
  <2>4. /\ to \in DirectPc => cur[p] \in Direct
        /\ to \in AuctionPc => cur[p] \in Auction
        /\ to \in ClaimantPc => pc[p] \in ClaimantPc /\ cur[p] = cur[p]
        /\ to \in UnsentPc => pc[p] \in UnsentPc
        /\ to \in NoncePc => pc[p] \in NoncePc
    BY <2>1, Zenon DEF Follows
  <2> HIDE DEF IInv, Goto
  <2> QED
    BY <1>2, <2>2, <2>3, <2>4, MoveInv, ZenonT(30)
<1>4. ChainTypeOK' /\ ProcTypeOK'
  BY Zenon DEF ChainTypeOK, ProcTypeOK, Follows, AnyPc
<1> QED
  BY <1>3, <1>4, Zenon

\* A step that commits a calm transaction and drops its request.
LEMMA LeaveInv ==
    ASSUME IInv, RowInv', Calm, NEW p \in Proc, NEW to,
           Idle(to), Leave(p, to), UNCHANGED chainVars, faults' \in Nat
    PROVE  IInv'
<1>1. /\ to \in AnyPc /\ to \notin DirectPc /\ to \notin AuctionPc
      /\ to \notin ClaimantPc /\ to \notin UnsentPc /\ to \notin NoncePc /\ to \notin SettlePc
  BY Zenon DEF Idle, UnsentPc, NoncePc, ClaimantPc, SettlePc, AuctionPc, AtlasPc, DirectPc, ExecutorPc
<1>2. /\ tx' = tx /\ pc' = [pc EXCEPT ![p] = to] /\ cur' = [cur EXCEPT ![p] = NoOwner]
  BY Zenon DEF Leave, chainVars, txVars
<1>3. ProcessInv'
  BY <1>1, <1>2, MoveInv, ZenonT(30)
<1>4. ChainTypeOK' /\ ProcTypeOK'
  BY <1>1, Zenon DEF IInv, ChainTypeOK, ProcTypeOK, Leave, chainVars, txVars, AnyPc, AttemptStatus
<1> QED
  BY <1>3, <1>4, Zenon DEF IInv

\* Unchanged rows.
LEMMA SameRows == RowInv /\ UNCHANGED storeVars => RowInv' /\ Calm
<1> SUFFICES ASSUME RowInv, UNCHANGED storeVars PROVE RowInv' /\ Calm
  BY Zenon
<1>1. /\ UNCHANGED <<status, nonce, nextNonce, cand, astatus, hashed, touched, lock>>
      /\ UNCHANGED <<dexArmed, lanesArmed, providerReady, phase, stale, directLoss, recentLoss>>
  BY Zenon DEF storeVars, attemptVars, atlasVars, controlVars, lossVars
<1>2. StoreTypeOK' /\ LockMatchesWork'
  BY <1>1, SMTT(30) DEF RowInv, StoreTypeOK, LockMatchesWork, Active, ActiveAtlas
<1>3. CandidateInv' /\ PhaseInv' /\ Calm
  BY <1>1, Zenon DEF RowInv, CandidateInv, PhaseInv, Active, Calm
<1> QED
  BY <1>2, <1>3, Zenon DEF RowInv

\* An RPC answer or a local decision of a step keeps the invariant.
LEMMA BranchInv ==
    ASSUME IInv, NEW p \in Proc, NEW from, NEW to, Follows(from, to), Branch(p, from, to)
    PROVE  IInv'
<1>1. RowInv' /\ Calm
  BY SameRows, Zenon DEF IInv, Branch
<1>2. Follows(pc[p], to) /\ Goto(p, to) /\ UNCHANGED chainVars
  BY Zenon DEF Branch
<1>3. faults' \in Nat
  BY Zenon DEF Branch, IInv, ProcTypeOK
<1> QED
  BY <1>1, <1>2, <1>3, GotoInv, Zenon

\* The end of a step without a transaction keeps the invariant.
LEMMA FinishInv ==
    ASSUME IInv, NEW p \in Proc, NEW from, NEW to, Idle(to), Finish(p, from, to)
    PROVE  IInv'
<1>1. RowInv' /\ Calm
  BY SameRows, Zenon DEF IInv, Finish
<1>2. Leave(p, to) /\ UNCHANGED chainVars
  BY Zenon DEF Finish
<1>3. faults' \in Nat
  BY Zenon DEF Finish, IInv, ProcTypeOK
<1> QED
  BY <1>1, <1>2, <1>3, LeaveInv, Zenon

\* A step of someone else.
LEMMA OtherInv ==
    ASSUME IInv, RowInv', Calm, ChainTypeOK', UNCHANGED procVars,
           \A r \in Direct : tx'[r] = "none" <=> tx[r] = "none"
    PROVE  IInv'
<1>1. UNCHANGED <<pc, cur, seen, net, faults>>
  BY Zenon DEF procVars
<1>2. ProcTypeOK'
  BY <1>1, Zenon DEF IInv, ProcTypeOK
<1>3. ClaimantPc \subseteq DirectPc /\ UnsentPc \subseteq DirectPc /\ SettlePc \subseteq AuctionPc
  BY SMTT(30) DEF UnsentPc, ClaimantPc, DirectPc, ExecutorPc, SettlePc, AuctionPc, AtlasPc
<1>4. WorkInv' /\ ClaimantInv'
  BY <1>1, <1>3, ZenonT(30) DEF IInv, ProcessInv, WorkInv, ClaimantInv, Calm, Early, EarlyBid
<1>5. \A r \in Direct : NonceTaken(r)' <=> NonceTaken(r)
  BY <1>1, Zenon DEF NonceTaken
<1>6. NonceInv'
  BY <1>1, <1>5, Zenon DEF IInv, ProcessInv, NonceInv, Calm, Early
<1> QED
  BY <1>2, <1>4, <1>6, Zenon DEF IInv, ProcessInv

\* The chain takes no broadcast back.
LEMMA ChainInv == IInv /\ ChainNext /\ UNCHANGED procVars => IInv'
<1> SUFFICES ASSUME IInv, ChainNext, UNCHANGED procVars PROVE IInv'
  BY Zenon
<1> USE DEF chainVars, txVars
<1>1. /\ ChainTypeOK'
      /\ UNCHANGED storeVars
      /\ \A r \in Direct : tx'[r] = "none" <=> tx[r] = "none"
  <2> USE DEF IInv, ChainTypeOK, Mined, AtLarge
  <2>1. ASSUME NEW r \in Direct, NEW outcome \in Mined, Mine(r, outcome)
        PROVE  /\ ChainTypeOK'
               /\ UNCHANGED storeVars
               /\ \A s \in Direct : tx'[s] = "none" <=> tx[s] = "none"
    BY <2>1, SMTT(30) DEF Mine, Supersede
  <2>2. ASSUME NEW r \in Direct, Drop(r) \/ Rebroadcast(r)
        PROVE  /\ ChainTypeOK'
               /\ UNCHANGED storeVars
               /\ \A s \in Direct : tx'[s] = "none" <=> tx[s] = "none"
    BY <2>2, Zenon DEF Drop, Rebroadcast
  <2>3. CASE MineForeign
    BY <2>3, SMTT(30) DEF MineForeign, Supersede
  <2>4. CASE \E a \in Auction, outcome \in {"won", "failed", "bad"} : Include(a, outcome)
    BY <2>4, Zenon DEF Include
  <2>5. CASE \E a \in Auction : PassDeadline(a)
    BY <2>5, Zenon DEF PassDeadline
  <2> QED
    BY <2>1, <2>2, <2>3, <2>4, <2>5, Zenon DEF ChainNext
<1>2. RowInv' /\ Calm
  BY <1>1, SameRows, Zenon DEF IInv
<1> QED
  BY <1>1, <1>2, OtherInv, Zenon

\* The control tool, the supervisor, the hunter and the clock keep the invariant.
LEMMA ControlInv == IInv /\ ControlNext /\ UNCHANGED <<chainVars, procVars>> => IInv'
<1> SUFFICES ASSUME IInv, ControlNext, UNCHANGED chainVars, UNCHANGED procVars PROVE IInv'
  BY Zenon
<1>1. RowInv' /\ Calm
  BY ControlRows, Zenon DEF IInv
<1>2. ChainTypeOK' /\ \A r \in Direct : tx'[r] = "none" <=> tx[r] = "none"
  BY Zenon DEF IInv, ChainTypeOK, chainVars, txVars
<1> QED
  BY <1>1, <1>2, OtherInv, Zenon

-----------------------------------------------------------------------------
(* Steps of the executor.                                                  *)

\* The control flow of step and reconcile_active.
LEMMA ExecutorFlow ==
    /\ Follows("contract", "nonce") /\ Follows("contract", "fail") /\ Follows("contract", "fail_disarm")
    /\ Follows("nonce", "fail_disarm") /\ Follows("nonce", "allocate")
    /\ Follows("allocated", "sign") /\ Follows("sign", "recheck") /\ Follows("recheck", "budget")
    /\ Follows("budget", "send") /\ Follows("sent", "persist_failed")
    /\ Follows("allocated", "unsubmitted") /\ Follows("recheck", "unsubmitted")
    /\ Follows("budget", "unsubmitted")
    /\ Follows("allocated", "unsubmitted_exit") /\ Follows("budget", "unsubmitted_disarm")
    /\ Follows("receipt", "known") /\ Follows("receipt", "complete") /\ Follows("receipt", "monitor")
    /\ Follows("known", "replaced") /\ Follows("known", "timeout") /\ Follows("known", "monitor")
    /\ Follows("replaced", "timeout") /\ Follows("replaced", "mark_replaced")
    /\ Follows("replaced", "monitor") /\ Follows("complete", "monitor")
<1> USE DEF Follows, AnyPc, MaterializerPc, ExecutorPc, AtlasPc, DirectPc, AuctionPc, ClaimantPc,
            UnsentPc, NoncePc, SettlePc
<1>1. Follows("contract", "nonce") /\ Follows("contract", "fail") /\ Follows("contract", "fail_disarm")
  BY Zenon
<1>2. Follows("nonce", "fail_disarm") /\ Follows("nonce", "allocate")
  BY Zenon
<1>3. Follows("allocated", "sign") /\ Follows("sign", "recheck") /\ Follows("recheck", "budget")
  BY ZenonT(30)
<1>4. Follows("budget", "send") /\ Follows("sent", "persist_failed")
  BY Zenon
<1>5. /\ Follows("allocated", "unsubmitted") /\ Follows("recheck", "unsubmitted")
      /\ Follows("budget", "unsubmitted")
  BY ZenonT(30)
<1>6. Follows("allocated", "unsubmitted_exit") /\ Follows("budget", "unsubmitted_disarm")
  BY Zenon
<1>7. Follows("receipt", "known") /\ Follows("receipt", "complete") /\ Follows("receipt", "monitor")
  BY Zenon
<1>8. Follows("known", "replaced") /\ Follows("known", "timeout") /\ Follows("known", "monitor")
  BY ZenonT(30)
<1>9. /\ Follows("replaced", "timeout") /\ Follows("replaced", "mark_replaced")
      /\ Follows("replaced", "monitor") /\ Follows("complete", "monitor")
  BY ZenonT(30)
<1> HIDE DEF Follows
<1> QED
  BY <1>1, <1>2, <1>3, <1>4, <1>5, <1>6, <1>7, <1>8, <1>9, Zenon

\* A call that relies on nothing may follow any call.
LEMMA AnyFlow ==
    ASSUME NEW from, NEW to \in {"gate", "claim", "disarm", "disarm_exit"}
    PROVE  Follows(from, to)
  BY Zenon DEF Follows, AnyPc, MaterializerPc, ExecutorPc, AtlasPc, DirectPc, AuctionPc, ClaimantPc,
         UnsentPc, NoncePc, SettlePc

\* The calls at which a process holds no request.
LEMMA IdleCalls ==
    \A to \in {"materialize", "execute", "gate", "claim", "atlas", "atlas_claim", "confirmed",
               "disarm", "disarm_exit", "fatal", "down"} : Idle(to)
  BY SMTT(30) DEF Idle, AnyPc, MaterializerPc, ExecutorPc, AtlasPc, DirectPc, AuctionPc

\* A transaction whose precondition fails ends the process and writes nothing.
LEMMA RefusedInv ==
    ASSUME IInv, NEW p \in Proc, NEW from, NEW can, Refused(p, from, can) PROVE IInv'
  BY FinishInv, IdleCalls, Zenon DEF Refused

\* Answers of the RPC endpoint and local decisions.
LEMMA DecisionInv ==
    ASSUME IInv, NEW p \in Proc,
           \/ Gate(p) \/ CheckContract(p) \/ Sign(p) \/ RecheckControl(p) \/ RecheckBudget(p)
           \/ ReceiptError(p) \/ ReceiptFound(p) \/ ReceiptMissing(p) \/ TransactionKnown(p)
           \/ ReplacementNonce(p) \/ RecordMonitorError(p) \/ ConfirmedLoss(p) \/ Restart(p)
    PROVE  IInv'
<1>1. CASE Gate(p)
  BY <1>1, BranchInv, FinishInv, AnyFlow, IdleCalls, Zenon DEF Gate
<1>2. CASE CheckContract(p) \/ Sign(p) \/ RecheckControl(p) \/ RecheckBudget(p)
  BY <1>2, BranchInv, ExecutorFlow, Zenon DEF CheckContract, Sign, RecheckControl, RecheckBudget
<1>3. CASE ReceiptError(p) \/ ReceiptFound(p) \/ ReceiptMissing(p) \/ TransactionKnown(p)
  BY <1>3, BranchInv, ExecutorFlow, Zenon DEF ReceiptError, ReceiptFound, ReceiptMissing, TransactionKnown
<1>4. CASE ReplacementNonce(p)
  BY <1>4, BranchInv, ExecutorFlow, Zenon DEF ReplacementNonce
<1>5. CASE RecordMonitorError(p)
  BY <1>5, BranchInv, RefusedInv, AnyFlow, ZenonT(30) DEF RecordMonitorError
<1>6. CASE ConfirmedLoss(p) \/ Restart(p)
  BY <1>6, BranchInv, FinishInv, AnyFlow, IdleCalls, Zenon DEF ConfirmedLoss, Restart
<1> QED
  BY <1>1, <1>2, <1>3, <1>4, <1>5, <1>6, Zenon

\* The calls at which a process works on a direct request.
LEMMA AtDirect ==
    ASSUME IInv, NEW p \in Proc,
           pc[p] \in DirectPc \/ pc[p] \in {"fail", "fail_disarm", "allocate", "sign", "sent", "unknown",
               "unsubmitted", "unsubmitted_disarm", "unsubmitted_exit", "persist_failed", "send",
               "was_claimed", "was_allocated", "mark_replaced", "timeout", "complete", "finalize", "reject"}
    PROVE  cur[p] \in Direct
<1>1. pc[p] \in DirectPc
  BY Zenon DEF DirectPc, ExecutorPc
<1> QED
  BY <1>1, ZenonT(30) DEF IInv, ProcessInv, WorkInv

\* A step that commits a calm transaction, in the forms the actions use.
LEMMA CommitInv ==
    ASSUME IInv, RowInv', Calm, NEW p \in Proc, NEW from, NEW to, NEW can,
           Commit(p, from, to, can), Follows(from, to)
    PROVE  IInv'
<1>1. Follows(pc[p], to) /\ Goto(p, to) /\ UNCHANGED chainVars
  BY Zenon DEF Commit
<1>2. faults' \in Nat
  BY Zenon DEF Commit, IInv, ProcTypeOK
<1> QED
  BY <1>1, <1>2, GotoInv, Zenon

\* A step that commits a calm transaction and ends.
LEMMA CommitLastInv ==
    ASSUME IInv, RowInv', Calm, NEW p \in Proc, NEW from, NEW to, NEW can,
           CommitLast(p, from, to, can), Idle(to)
    PROVE  IInv'
<1>1. Leave(p, to) /\ UNCHANGED chainVars
  BY Zenon DEF CommitLast
<1>2. faults' \in Nat
  BY Zenon DEF CommitLast, IInv, ProcTypeOK
<1> QED
  BY <1>1, <1>2, LeaveInv, Zenon

\* Every use of disarm: after a risk signal, before exit and in main.rs.
LEMMA DisarmInv ==
    ASSUME IInv, NEW p \in Proc, Disarm(p) \/ FatalExit(p) PROVE IInv'
<1>1. RowInv' /\ Calm
  BY DisarmRows, Zenon DEF Disarm, FatalExit, IInv
<1> QED
  BY <1>1, CommitLastInv, IdleCalls, Zenon DEF Disarm, FatalExit

\* Every use of mark_terminal.
LEMMA TerminalInv ==
    ASSUME IInv, NEW p \in Proc,
           \/ FailClaimed(p) \/ RestartClaimed(p) \/ MarkReplaced(p) \/ ReceiptTimeout(p)
           \/ CompleteReceipt(p)
    PROVE  IInv'
<1>1. ASSUME NEW to \in {"confirmed", "reverted", "failed", "replaced", "timed_out"},
             NEW loss \in Nat, NEW limitHit \in BOOLEAN, cur[p] \in Direct,
             CanTerminate(cur[p], to), mark_terminal(cur[p], to, loss, limitHit)
      PROVE  RowInv' /\ Calm
  BY <1>1, TerminalRows, Zenon DEF IInv
<1>2. CASE FailClaimed(p)
  <2> PICK limitHit \in BOOLEAN :
        LET can == CanTerminate(cur[p], "failed") IN
        \/ CommitLast(p, "fail", "atlas", can) /\ mark_terminal(cur[p], "failed", 0, limitHit)
        \/ Commit(p, "fail_disarm", "disarm", can) /\ mark_terminal(cur[p], "failed", 0, limitHit)
        \/ Refused(p, "fail", can) \/ Refused(p, "fail_disarm", can)
    BY <1>2, Zenon DEF FailClaimed
  <2> DEFINE can == CanTerminate(cur[p], "failed")
  <2>1. CASE CommitLast(p, "fail", "atlas", can) /\ mark_terminal(cur[p], "failed", 0, limitHit)
    <3>1. RowInv' /\ Calm
      BY <1>1, <2>1, AtDirect, ZenonT(30) DEF CommitLast
    <3> QED
      BY <2>1, <3>1, CommitLastInv, IdleCalls, Zenon
  <2>2. CASE Commit(p, "fail_disarm", "disarm", can) /\ mark_terminal(cur[p], "failed", 0, limitHit)
    <3>1. RowInv' /\ Calm
      BY <1>1, <2>2, AtDirect, ZenonT(30) DEF Commit
    <3> QED
      BY <2>2, <3>1, CommitInv, AnyFlow, Zenon
  <2> QED
    BY <2>1, <2>2, RefusedInv, Zenon
<1>3. CASE RestartClaimed(p)
  <2> PICK limitHit \in BOOLEAN :
        LET can == CanTerminate(cur[p], "failed") IN
        \/ /\ Commit(p, "was_claimed", "disarm", can)
           /\ mark_terminal(cur[p], "failed", 0, limitHit)
        \/ Refused(p, "was_claimed", can)
    BY <1>3, Zenon DEF RestartClaimed
  <2> DEFINE can == CanTerminate(cur[p], "failed")
  <2>1. CASE Commit(p, "was_claimed", "disarm", can) /\ mark_terminal(cur[p], "failed", 0, limitHit)
    <3>1. RowInv' /\ Calm
      BY <1>1, <2>1, AtDirect, ZenonT(30) DEF Commit
    <3> QED
      BY <2>1, <3>1, CommitInv, AnyFlow, Zenon
  <2> QED
    BY <2>1, RefusedInv, Zenon
<1>4. CASE MarkReplaced(p)
  <2> PICK limitHit \in BOOLEAN :
        LET can == CanTerminate(cur[p], "replaced") IN
        \/ /\ Commit(p, "mark_replaced", "disarm", can)
           /\ mark_terminal(cur[p], "replaced", 0, limitHit)
        \/ Refused(p, "mark_replaced", can)
    BY <1>4, Zenon DEF MarkReplaced
  <2> DEFINE can == CanTerminate(cur[p], "replaced")
  <2>1. CASE Commit(p, "mark_replaced", "disarm", can) /\ mark_terminal(cur[p], "replaced", 0, limitHit)
    <3>1. RowInv' /\ Calm
      BY <1>1, <2>1, AtDirect, Zenon DEF Commit
    <3> QED
      BY <2>1, <3>1, CommitInv, AnyFlow, Zenon
  <2> QED
    BY <2>1, RefusedInv, Zenon
<1>5. CASE ReceiptTimeout(p)
  <2> DEFINE can == CanTerminate(cur[p], "timed_out")
  <2>1. CASE Finish(p, "timeout", "atlas")
    BY <2>1, FinishInv, IdleCalls, Zenon
  <2>2. ASSUME NEW limitHit \in BOOLEAN, Commit(p, "timeout", "disarm", can),
               mark_terminal(cur[p], "timed_out", 0, limitHit)
        PROVE  IInv'
    <3>1. RowInv' /\ Calm
      BY <1>1, <2>2, AtDirect, Zenon DEF Commit
    <3> QED
      BY <2>2, <3>1, CommitInv, AnyFlow, Zenon
  <2> QED
    BY <1>5, <2>1, <2>2, RefusedInv, Zenon DEF ReceiptTimeout
<1>6. CASE CompleteReceipt(p)
  <2>1. ASSUME NEW limitHit \in BOOLEAN, NEW loss \in 0 .. WorstCaseFee,
               NEW to \in {"confirmed", "reverted"}, NEW next \in {"atlas", "confirmed"},
               CommitLast(p, "complete", next, CanTerminate(cur[p], to)),
               mark_terminal(cur[p], to, loss, limitHit)
        PROVE  IInv'
    <3>0. loss \in Nat
      BY ExecutorAssumption, SMTT(30)
    <3>1. RowInv' /\ Calm
      BY <1>1, <2>1, <3>0, AtDirect, ZenonT(30) DEF CommitLast
    <3> QED
      BY <2>1, <3>1, CommitLastInv, IdleCalls, Zenon
  <2>2. CASE Branch(p, "complete", "monitor")
    BY <2>2, BranchInv, ExecutorFlow, Zenon
  <2> QED
    BY <1>6, <2>1, <2>2, RefusedInv, ZenonT(30) DEF CompleteReceipt
<1> QED
  BY <1>2, <1>3, <1>4, <1>5, <1>6, Zenon

\* Recording the signature, the hash or an unknown outcome.
LEMMA RecordInv ==
    ASSUME IInv, NEW p \in Proc,
           \/ MarkSigned(p) \/ MarkPending(p) \/ MarkSubmissionUnknown(p) \/ PersistFailed(p)
           \/ RestartAllocated(p)
    PROVE  IInv'
<1> DEFINE can == HasUnsubmittedNonce(cur[p])
<1>1. CASE MarkSigned(p)
  <2>1. CASE Commit(p, "sign", "recheck", can) /\ mark_signed(cur[p])
    <3>1. RowInv' /\ Calm
      BY <2>1, AtDirect, SignedRows, Zenon DEF Commit, IInv
    <3> QED
      BY <2>1, <3>1, CommitInv, ExecutorFlow, Zenon
  <2> QED
    BY <1>1, <2>1, RefusedInv, Zenon DEF MarkSigned
<1>2. CASE MarkPending(p)
  <2>1. CASE CommitLast(p, "sent", "atlas", can) /\ mark_pending(cur[p])
    <3>1. RowInv' /\ Calm
      BY <2>1, AtDirect, PendingRows, Zenon DEF CommitLast, IInv
    <3> QED
      BY <2>1, <3>1, CommitLastInv, IdleCalls, Zenon
  <2> QED
    BY <1>2, <2>1, BranchInv, ExecutorFlow, Zenon DEF MarkPending
<1>3. ASSUME NEW from \in {"unknown", "was_allocated"},
             Commit(p, from, "disarm", can), mark_submission_unknown(cur[p])
      PROVE  IInv'
  <2>1. RowInv' /\ Calm
    BY <1>3, AtDirect, UnknownRows, Zenon DEF Commit, IInv
  <2> QED
    BY <1>3, <2>1, CommitInv, AnyFlow, Zenon
<1>4. CASE PersistFailed(p)
  <2>1. CASE CommitLast(p, "persist_failed", "disarm_exit", can) /\ mark_submission_unknown(cur[p])
    <3>1. RowInv' /\ Calm
      BY <2>1, AtDirect, UnknownRows, Zenon DEF CommitLast, IInv
    <3> QED
      BY <2>1, <3>1, CommitLastInv, IdleCalls, Zenon
  <2> QED
    BY <1>4, <2>1, FinishInv, IdleCalls, Zenon DEF PersistFailed
<1> QED
  BY <1>1, <1>2, <1>3, <1>4, RefusedInv, Zenon DEF MarkSubmissionUnknown, RestartAllocated

\* A process takes up a request as something other than its claimant.
LEMMA TakeUpInv ==
    ASSUME IInv, RowInv', Calm, NEW p \in Proc, NEW to \in AnyPc \ ClaimantPc,
           NEW i \in Direct \cup Auction,
           pc' = [pc EXCEPT ![p] = to], cur' = [cur EXCEPT ![p] = i],
           to \in DirectPc => i \in Direct,
           to \in AuctionPc => i \in Auction,
           to \in SettlePc => astatus'[i] \notin EarlyBid,
           seen' \in [Proc -> AttemptStatus], UNCHANGED <<net, faults, chainVars>>
    PROVE  IInv'
<1>1. to \notin UnsentPc /\ to \notin NoncePc /\ (to \in SettlePc => to \in AuctionPc)
  BY Zenon DEF UnsentPc, NoncePc, SettlePc, AuctionPc, AtlasPc
<1>2. tx' = tx
  BY Zenon DEF chainVars, txVars
<1>3. ProcessInv'
  BY <1>1, <1>2, MoveInv, Zenon
<1>4. ChainTypeOK' /\ ProcTypeOK'
  BY ZenonT(30) DEF IInv, ChainTypeOK, ProcTypeOK, chainVars, txVars, AnyPc
<1> QED
  BY <1>3, <1>4, Zenon DEF IInv

\* active_attempt: reconcile_active takes up what an earlier step left behind.
LEMMA ActiveAttemptInv == ASSUME IInv, NEW p \in Proc, ActiveAttempt(p) PROVE IInv'
<1>1. RowInv' /\ Calm /\ UNCHANGED chainVars /\ faults' \in Nat
  BY SameRows, Zenon DEF ActiveAttempt, IInv, ProcTypeOK
<1>2. CASE Goto(p, "gate")
  BY <1>1, <1>2, GotoInv, AnyFlow, Zenon
<1>3. CASE Leave(p, "fatal")
  BY <1>1, <1>3, LeaveInv, IdleCalls, Zenon
<1>4. ASSUME NEW r \in Active, pc' = [pc EXCEPT ![p] = Resume[status[r]]],
             cur' = [cur EXCEPT ![p] = r], seen' = [seen EXCEPT ![p] = status[r]],
             UNCHANGED <<net, faults, chainVars>>
      PROVE  IInv'
  <2>1. r \in Direct /\ status[r] \in ActiveStatuses
    BY Zenon DEF Active
  <2>2. Resume[status[r]] \in {"was_claimed", "was_allocated", "disarm", "receipt"}
    BY <2>1, Zenon DEF Resume, ActiveStatuses
  <2>3. Resume[status[r]] \in AnyPc \ ClaimantPc /\ Resume[status[r]] \notin AuctionPc
    BY <2>2, Zenon DEF AnyPc, ClaimantPc, AuctionPc, AtlasPc, ExecutorPc
  <2>4. seen' \in [Proc -> AttemptStatus]
    BY <1>4, <2>1, Zenon DEF IInv, ProcTypeOK, AttemptStatus
  <2>5. Resume[status[r]] \notin SettlePc
    BY <2>2, Zenon DEF SettlePc
  <2> QED
    BY <1>1, <1>4, <2>1, <2>3, <2>4, <2>5, TakeUpInv, Zenon
<1> QED
  BY <1>2, <1>3, <1>4, Zenon DEF ActiveAttempt

\* The answer to eth_getTransactionCount is kept for allocate_nonce.
LEMMA PendingNonceInv == ASSUME IInv, NEW p \in Proc, PendingNonce(p) PROVE IInv'
<1>1. CASE Branch(p, "nonce", "fail_disarm")
  BY <1>1, BranchInv, ExecutorFlow, Zenon
<1>2. ASSUME NEW n \in PendingNonces, pc[p] = "nonce", pc' = [pc EXCEPT ![p] = "allocate"],
             net' = [net EXCEPT ![p] = n], UNCHANGED <<cur, seen, faults, storeVars, chainVars>>
      PROVE  IInv'
  <2>1. n \in Nat
    BY SMTT(30) DEF PendingNonces, IInv, ChainTypeOK
  <2>2. RowInv' /\ Calm /\ tx' = tx
    BY <1>2, SameRows, Zenon DEF IInv, chainVars, txVars
  <2>3. cur[p] \in Direct /\ pc[p] \in ClaimantPc /\ pc[p] \in UnsentPc
    BY <1>2, ZenonT(30) DEF IInv, ProcessInv, WorkInv, DirectPc, ExecutorPc, ClaimantPc, UnsentPc
  <2>4. /\ "allocate" \in AnyPc /\ "allocate" \notin AuctionPc /\ "allocate" \notin SettlePc
        /\ "allocate" \notin NoncePc
    BY Zenon DEF AnyPc, ExecutorPc, AuctionPc, AtlasPc, SettlePc, NoncePc
  <2>5. cur' = [cur EXCEPT ![p] = cur[p]]
    BY <1>2, Zenon DEF IInv, ProcTypeOK
  <2>6. ProcessInv'
    BY <1>2, <2>2, <2>3, <2>4, <2>5, MoveInv, ZenonT(30)
  <2>7. ChainTypeOK' /\ ProcTypeOK'
    BY <1>2, <2>1, <2>4, Zenon DEF IInv, ChainTypeOK, ProcTypeOK, chainVars, txVars, AnyPc
  <2> QED
    BY <2>2, <2>6, <2>7, Zenon DEF IInv
<1> QED
  BY <1>1, <1>2, Zenon DEF PendingNonce

\* A claim takes an approved request, which no process can be working on.
LEMMA ClaimInv == ASSUME IInv, NEW p \in Proc, ClaimApproved(p) PROVE IInv'
<1>1. CASE Finish(p, "claim", "atlas")
  BY <1>1, FinishInv, IdleCalls, Zenon
<1>2. ASSUME NEW r \in Direct, CanClaim(r), claim_approved(r), pc[p] = "claim",
             pc' = [pc EXCEPT ![p] = "contract"], cur' = [cur EXCEPT ![p] = r],
             UNCHANGED <<seen, net, faults, chainVars>>
      PROVE  IInv'
  <2>1. RowInv' /\ Calm
    BY <1>2, ClaimRows, Zenon DEF IInv
  <2>2. /\ pc'[p] = "contract" /\ cur'[p] = r
        /\ \A q \in Proc : q # p => pc'[q] = pc[q] /\ cur'[q] = cur[q]
    BY <1>2, Zenon DEF IInv, ProcTypeOK
  <2>3. ClaimantPc \subseteq DirectPc /\ UnsentPc \subseteq ClaimantPc /\ SettlePc \subseteq AuctionPc
    BY ZenonT(30) DEF UnsentPc, ClaimantPc, DirectPc, ExecutorPc, SettlePc, AuctionPc, AtlasPc
  <2>4. /\ "contract" \in DirectPc /\ "contract" \notin AuctionPc /\ "contract" \notin SettlePc
        /\ "contract" \notin NoncePc /\ "contract" \in AnyPc
    BY Zenon DEF DirectPc, ExecutorPc, AuctionPc, AtlasPc, SettlePc, NoncePc, AnyPc
  <2>5. /\ status[r] = "approved" /\ tx[r] = "none" /\ tx' = tx
        /\ status'[r] = "claimed" /\ astatus' = astatus
    BY <1>2, Zenon DEF IInv, RowInv, StoreTypeOK, ProcessInv, NonceInv, CanClaim, claim_approved,
                chainVars, txVars, atlasVars
  <2>6. WorkInv'
    <3>4. "claimed" \notin Early
      BY Zenon DEF Early
    <3>5. \A s \in Direct : status'[s] \in Early => status[s] \in Early
      BY <2>1, Zenon DEF Calm
    <3> SUFFICES ASSUME NEW q \in Proc
                 PROVE  /\ pc'[q] \in DirectPc => cur'[q] \in Direct
                        /\ pc'[q] \in AuctionPc => cur'[q] \in Auction
                        /\ pc'[q] \in ClaimantPc => status'[cur'[q]] \notin Early
                        /\ pc'[q] \in UnsentPc => tx'[cur'[q]] = "none"
                        /\ pc'[q] \in SettlePc => astatus'[cur'[q]] \notin EarlyBid
      BY Zenon DEF WorkInv, Early, EarlyBid
    <3>1. /\ pc[q] \in DirectPc => cur[q] \in Direct
          /\ pc[q] \in AuctionPc => cur[q] \in Auction
          /\ pc[q] \in ClaimantPc => status[cur[q]] \notin Early
          /\ pc[q] \in UnsentPc => tx[cur[q]] = "none"
          /\ pc[q] \in SettlePc => astatus[cur[q]] \notin EarlyBid
      BY Zenon DEF IInv, ProcessInv, WorkInv, Early, EarlyBid
    <3>2. CASE q # p
      BY <3>1, <3>2, <2>2, <2>3, <2>5, <3>5, Zenon
    <3>3. CASE q = p
      BY <3>1, <3>3, <2>2, <2>3, <2>4, <2>5, <3>4, ZenonT(30)
    <3> QED
      BY <3>2, <3>3, Zenon
  <2>7. ClaimantInv'
    <3>1. \A q \in Proc : pc[q] \in ClaimantPc => cur[q] # r
      BY <2>5, Zenon DEF IInv, ProcessInv, WorkInv
    <3>2. SUFFICES ASSUME NEW q1 \in Proc, NEW q2 \in Proc, q1 # q2,
                          pc'[q1] \in ClaimantPc, pc'[q2] \in ClaimantPc
                   PROVE  cur'[q1] # cur'[q2]
      BY Zenon DEF ClaimantInv
    <3>3. CASE q1 = p
      BY <2>2, <3>1, <3>2, <3>3, ZenonT(30)
    <3>4. CASE q2 = p
      BY <2>2, <3>1, <3>2, <3>4, ZenonT(30)
    <3>5. CASE q1 # p /\ q2 # p
      BY <2>2, <3>2, <3>5, Zenon DEF IInv, ProcessInv, ClaimantInv
    <3> QED
      BY <3>3, <3>4, <3>5, Zenon
  <2>8. \A s \in Direct : NonceTaken(s)' => NonceTaken(s)
    BY <2>2, <2>4, <2>5, Zenon DEF NonceTaken
  <2>9. NonceInv'
    BY <2>1, <2>5, <2>8, ZenonT(30) DEF IInv, ProcessInv, NonceInv, Calm, Early
  <2>10. ChainTypeOK' /\ ProcTypeOK'
    BY <1>2, <2>4, Zenon DEF IInv, ChainTypeOK, ProcTypeOK, chainVars, txVars, AnyPc
  <2> QED
    BY <2>1, <2>6, <2>7, <2>9, <2>10, Zenon DEF IInv, ProcessInv
<1> QED
  BY <1>1, <1>2, Zenon DEF ClaimApproved

\* The allocated nonce is above every nonce that is taken.
LEMMA AllocateInv == ASSUME IInv, NEW p \in Proc, AllocateNonce(p) PROVE IInv'
<1> DEFINE r == cur[p]
<1>1. CASE Refused(p, "allocate", CanAllocate(r))
  BY <1>1, RefusedInv, Zenon
<1>2. CASE Commit(p, "allocate", "allocated", CanAllocate(r)) /\ allocate_nonce(r, net[p])
  <2>1. /\ pc[p] = "allocate" /\ r \in Direct /\ net[p] \in Nat /\ status[r] = "claimed"
    BY <1>2, AtDirect, Zenon DEF Commit, IInv, ProcTypeOK, CanAllocate
  <2>2. RowInv'
    BY <1>2, <2>1, AllocateRows, Zenon DEF IInv, Commit
  <2> DEFINE n == IF nextNonce >= net[p] THEN nextNonce ELSE net[p]
  <2>3. /\ n \in Nat /\ n >= nextNonce
        /\ nonce' = [nonce EXCEPT ![r] = n] /\ nextNonce' = n + 1
        /\ status' = [status EXCEPT ![r] = "nonce_allocated"] /\ astatus' = astatus
    <3>1. nextNonce \in Nat
      BY Zenon DEF IInv, RowInv, StoreTypeOK
    <3>2. n \in Nat /\ n >= nextNonce
      BY <2>1, <3>1, SMTT(30)
    <3>3. /\ nonce' = [nonce EXCEPT ![r] = n] /\ nextNonce' = n + 1
          /\ status' = [status EXCEPT ![r] = "nonce_allocated"]
      BY <1>2, ZenonT(30) DEF allocate_nonce
    <3>4. astatus' = astatus
      BY <1>2, ZenonT(30) DEF allocate_nonce, atlasVars
    <3> QED
      BY <3>2, <3>3, <3>4, ZenonT(30)
  <2>4. /\ pc' = [pc EXCEPT ![p] = "allocated"] /\ UNCHANGED <<cur, seen, net, faults>>
        /\ UNCHANGED <<tx, chainNonce, foreign, op>>
    BY <1>2, Zenon DEF Commit, Goto, chainVars, txVars
  <2>5. pc'[p] = "allocated" /\ \A q \in Proc : q # p => pc'[q] = pc[q]
    BY <2>4, Zenon DEF IInv, ProcTypeOK
  <2>6. /\ "allocated" \in DirectPc /\ "allocated" \notin AuctionPc /\ "allocated" \notin SettlePc
        /\ "allocated" \in ClaimantPc /\ "allocated" \in UnsentPc /\ "allocated" \in AnyPc
        /\ "allocate" \in ClaimantPc /\ "allocate" \in UnsentPc
        /\ NoncePc \subseteq ClaimantPc /\ UnsentPc \subseteq DirectPc /\ ClaimantPc \subseteq DirectPc
    BY SMTT(30) DEF DirectPc, ExecutorPc, AuctionPc, AtlasPc, SettlePc, ClaimantPc, UnsentPc, NoncePc, AnyPc
  <2>7. tx[r] = "none" /\ \A q \in Proc : q # p /\ pc[q] \in ClaimantPc => cur[q] # r
    BY <2>1, <2>6, Zenon DEF IInv, ProcessInv, WorkInv, ClaimantInv
  <2> HIDE DEF n, r
  <2>8. WorkInv'
    <3>4. /\ status'[r] = "nonce_allocated" /\ "nonce_allocated" \notin Early
          /\ \A s \in Direct : s # r => status'[s] = status[s]
      BY <2>1, <2>3, ZenonT(30) DEF IInv, RowInv, StoreTypeOK, Early
    <3>5. cur' = cur /\ tx' = tx /\ astatus' = astatus
      BY <2>3, <2>4, Zenon
    <3> SUFFICES ASSUME NEW q \in Proc
                 PROVE  /\ pc'[q] \in DirectPc => cur'[q] \in Direct
                        /\ pc'[q] \in AuctionPc => cur'[q] \in Auction
                        /\ pc'[q] \in ClaimantPc => status'[cur'[q]] \notin Early
                        /\ pc'[q] \in UnsentPc => tx'[cur'[q]] = "none"
                        /\ pc'[q] \in SettlePc => astatus'[cur'[q]] \notin EarlyBid
      BY Zenon DEF WorkInv, Early, EarlyBid
    <3>1. /\ pc[q] \in DirectPc => cur[q] \in Direct
          /\ pc[q] \in AuctionPc => cur[q] \in Auction
          /\ pc[q] \in ClaimantPc => status[cur[q]] \notin Early
          /\ pc[q] \in UnsentPc => tx[cur[q]] = "none"
          /\ pc[q] \in SettlePc => astatus[cur[q]] \notin EarlyBid
      BY Zenon DEF IInv, ProcessInv, WorkInv, Early, EarlyBid
    <3>2. CASE q # p
      BY <3>1, <3>2, <2>5, <2>6, <2>7, <3>4, <3>5, Zenon
    <3>3. CASE q = p
      BY <3>1, <3>3, <2>1, <2>5, <2>6, <2>7, <3>4, <3>5, Zenon DEF r
    <3> QED
      BY <3>2, <3>3, Zenon
  <2>9. ClaimantInv'
    BY <2>1, <2>4, <2>5, <2>6, ZenonT(30) DEF IInv, ProcessInv, ClaimantInv
  <2>10. \A s \in Direct : s # r /\ NonceTaken(s)' => NonceTaken(s)
    BY <2>4, <2>5, Zenon DEF NonceTaken, r
  <2>11. \A s \in Direct : s # r => nonce'[s] = nonce[s] /\ nonce[s] \in Nat
    BY <2>3, Zenon DEF IInv, RowInv, StoreTypeOK
  <2>12. nonce'[r] = n /\ nextNonce \in Nat
    BY <2>1, <2>3, Zenon DEF IInv, RowInv, StoreTypeOK
  <2>13. NonceInv'
    <3>1. \A s \in Direct : status'[s] \in Early => tx'[s] = "none"
      BY <2>1, <2>3, <2>4, Zenon DEF IInv, RowInv, StoreTypeOK, ProcessInv, NonceInv, Early
    <3>2. \A s \in Direct : s # r /\ NonceTaken(s)' => nonce'[s] < nextNonce
      BY <2>10, <2>11, ZenonT(30) DEF IInv, ProcessInv, NonceInv
    <3>3. \A s \in Direct : NonceTaken(s)' => nonce'[s] < nextNonce'
      BY <2>3, <2>11, <2>12, <3>2, SMTT(30)
    <3>4. \A s, t \in Direct : s # t /\ NonceTaken(s)' /\ NonceTaken(t)' => nonce'[s] # nonce'[t]
      BY <2>3, <2>10, <2>11, <2>12, <3>2, SMTT(30) DEF IInv, ProcessInv, NonceInv
    <3> QED
      BY <3>1, <3>3, <3>4, Zenon DEF NonceInv, Early
  <2>14. ChainTypeOK' /\ ProcTypeOK'
    BY <2>4, <2>6, Zenon DEF IInv, ChainTypeOK, ProcTypeOK, AnyPc
  <2> QED
    BY <2>2, <2>8, <2>9, <2>13, <2>14, Zenon DEF IInv, ProcessInv
<1> QED
  BY <1>1, <1>2, Zenon DEF AllocateNonce

\* A rolled back nonce is the highest taken one, and no one else has it.
LEMMA RollbackInv == ASSUME IInv, NEW p \in Proc, FailUnsubmitted(p) PROVE IInv'
<1> DEFINE r == cur[p]
<1>1. ASSUME NEW from \in {"unsubmitted", "unsubmitted_disarm", "unsubmitted_exit"},
             Refused(p, from, CanRollBack(r))
      PROVE  IInv'
  BY <1>1, RefusedInv, Zenon
<1>2. ASSUME NEW from \in {"unsubmitted", "unsubmitted_disarm", "unsubmitted_exit"},
             NEW to \in {"atlas", "disarm", "disarm_exit"},
             \/ CommitLast(p, from, to, CanRollBack(r))
             \/ Commit(p, from, to, CanRollBack(r)),
             fail_unsubmitted(r)
      PROVE  IInv'
  <2>1. pc[p] = from /\ r \in Direct /\ CanRollBack(r)
    BY <1>2, AtDirect, Zenon DEF Commit, CommitLast
  <2>2. RowInv'
    BY <1>2, <2>1, RollbackRows, Zenon DEF IInv
  <2>3. /\ nextNonce = nonce[r] + 1 /\ nextNonce' = nonce[r] /\ nonce' = nonce
        /\ status[r] = "nonce_allocated"
        /\ status' = [status EXCEPT ![r] = "failed"] /\ astatus' = astatus
    BY <1>2, <2>1, ZenonT(30) DEF CanRollBack, HasUnsubmittedNonce, fail_unsubmitted, atlasVars
  <2>4. /\ pc' = [pc EXCEPT ![p] = to] /\ cur' \in {cur, [cur EXCEPT ![p] = NoOwner]}
        /\ seen' \in {seen, [seen EXCEPT ![p] = "absent"]} /\ net' \in {net, [net EXCEPT ![p] = 0]}
        /\ faults' = faults /\ UNCHANGED <<tx, chainNonce, foreign, op>>
    BY <1>2, Zenon DEF Commit, CommitLast, Goto, Leave, chainVars, txVars
  <2>5. pc'[p] = to /\ \A q \in Proc : q # p => pc'[q] = pc[q] /\ cur'[q] = cur[q]
    BY <2>4, Zenon DEF IInv, ProcTypeOK
  <2>6. /\ to \in AnyPc /\ to \notin DirectPc /\ to \notin AuctionPc /\ to \notin ClaimantPc
        /\ from \in ClaimantPc /\ from \in UnsentPc /\ from \in NoncePc
        /\ NoncePc \subseteq ClaimantPc /\ UnsentPc \subseteq ClaimantPc /\ SettlePc \subseteq AuctionPc
        /\ ClaimantPc \subseteq DirectPc
    BY SMTT(30) DEF DirectPc, ExecutorPc, AuctionPc, AtlasPc, SettlePc, ClaimantPc, UnsentPc, NoncePc, AnyPc
  <2>7. tx[r] = "none" /\ \A q \in Proc : q # p /\ pc[q] \in ClaimantPc => cur[q] # r
    BY <2>1, <2>6, ZenonT(30) DEF IInv, ProcessInv, WorkInv, ClaimantInv
  <2>8. NonceTaken(r)
    BY <2>1, <2>6, Zenon DEF NonceTaken
  <2> HIDE DEF r
  <2>9. WorkInv'
    <3>4. \A s \in Direct : s # r => status'[s] = status[s]
      BY <2>3, Zenon DEF IInv, RowInv, StoreTypeOK
    <3>5. tx' = tx /\ astatus' = astatus
      BY <2>3, <2>4, Zenon
    <3> SUFFICES ASSUME NEW q \in Proc
                 PROVE  /\ pc'[q] \in DirectPc => cur'[q] \in Direct
                        /\ pc'[q] \in AuctionPc => cur'[q] \in Auction
                        /\ pc'[q] \in ClaimantPc => status'[cur'[q]] \notin Early
                        /\ pc'[q] \in UnsentPc => tx'[cur'[q]] = "none"
                        /\ pc'[q] \in SettlePc => astatus'[cur'[q]] \notin EarlyBid
      BY Zenon DEF WorkInv, Early, EarlyBid
    <3>1. /\ pc[q] \in DirectPc => cur[q] \in Direct
          /\ pc[q] \in AuctionPc => cur[q] \in Auction
          /\ pc[q] \in ClaimantPc => status[cur[q]] \notin Early
          /\ pc[q] \in UnsentPc => tx[cur[q]] = "none"
          /\ pc[q] \in SettlePc => astatus[cur[q]] \notin EarlyBid
      BY Zenon DEF IInv, ProcessInv, WorkInv, Early, EarlyBid
    <3>2. CASE q # p
      BY <3>1, <3>2, <2>5, <2>6, <2>7, <3>4, <3>5, ZenonT(30)
    <3>3. CASE q = p
      BY <3>3, <2>5, <2>6, Zenon
    <3> QED
      BY <3>2, <3>3, Zenon
  <2>10. ClaimantInv'
    BY <2>5, <2>6, ZenonT(30) DEF IInv, ProcessInv, ClaimantInv
  <2>11. \A s \in Direct : NonceTaken(s)' => NonceTaken(s) /\ s # r
    BY <2>4, <2>5, <2>6, <2>7, ZenonT(30) DEF NonceTaken, r
  <2>12. NonceInv'
    <3>1. \A s \in Direct : status'[s] \in Early => tx'[s] = "none"
      BY <2>1, <2>3, <2>4, Zenon DEF IInv, RowInv, StoreTypeOK, ProcessInv, NonceInv, Early
    <3>2. \A s \in Direct : NonceTaken(s)' => nonce[s] < nonce[r] + 1 /\ nonce[s] # nonce[r]
      BY <2>1, <2>3, <2>8, <2>11, ZenonT(30) DEF IInv, ProcessInv, NonceInv
    <3>3. \A s \in Direct : nonce[s] \in Nat
      BY Zenon DEF IInv, RowInv, StoreTypeOK
    <3>4. \A s \in Direct : NonceTaken(s)' => nonce'[s] < nextNonce'
      BY <2>1, <2>3, <3>2, <3>3, SMTT(30)
    <3>5. \A s, t \in Direct : s # t /\ NonceTaken(s)' /\ NonceTaken(t)' => nonce'[s] # nonce'[t]
      BY <2>3, <2>11, ZenonT(30) DEF IInv, ProcessInv, NonceInv
    <3> QED
      BY <3>1, <3>4, <3>5, Zenon DEF NonceInv, Early
  <2>13. ChainTypeOK' /\ ProcTypeOK'
    BY <2>4, <2>6, SMTT(30) DEF IInv, ChainTypeOK, ProcTypeOK, AnyPc, AttemptStatus
  <2> QED
    BY <2>2, <2>9, <2>10, <2>12, <2>13, Zenon DEF IInv, ProcessInv
<1> QED
  BY <1>1, <1>2, Zenon DEF FailUnsubmitted

\* A broadcast uses a nonce its process already holds.
LEMMA SendInv == ASSUME IInv, NEW p \in Proc, SendRawTransaction(p) PROVE IInv'
<1> DEFINE r == cur[p]
<1>1. /\ pc[p] = "send" /\ r \in Direct
      /\ UNCHANGED <<faults, storeVars, chainNonce, foreign, op>>
  BY AtDirect, Zenon DEF SendRawTransaction
<1>2. RowInv' /\ Calm
  BY <1>1, SameRows, Zenon DEF IInv
<1>3. PICK to \in {"sent", "unknown"} : Goto(p, to)
  BY Zenon DEF SendRawTransaction
<1>4. tx' = tx \/ tx' = [tx EXCEPT ![r] = "mempool"]
  BY Zenon DEF SendRawTransaction
<1>5. /\ pc' = [pc EXCEPT ![p] = to] /\ UNCHANGED <<cur, seen, net, faults, op, chainNonce, foreign>>
      /\ UNCHANGED <<status, astatus, nonce, nextNonce>>
  BY <1>1, <1>3, Zenon DEF Goto, storeVars, attemptVars, atlasVars
<1>6. pc'[p] = to /\ \A q \in Proc : q # p => pc'[q] = pc[q]
  BY <1>5, Zenon DEF IInv, ProcTypeOK
<1>7. /\ to \in AnyPc /\ to \notin AuctionPc /\ to \notin SettlePc /\ to \notin UnsentPc
      /\ "send" \in ClaimantPc /\ "send" \in NoncePc
      /\ NoncePc \subseteq ClaimantPc /\ UnsentPc \subseteq ClaimantPc /\ SettlePc \subseteq AuctionPc
      /\ ClaimantPc \subseteq DirectPc
  BY ZenonT(30) DEF DirectPc, ExecutorPc, AuctionPc, AtlasPc, SettlePc, ClaimantPc, UnsentPc, NoncePc, AnyPc
<1>8. /\ status[r] \notin Early
      /\ \A q \in Proc : q # p /\ pc[q] \in ClaimantPc => cur[q] # r
  BY <1>1, <1>7, Zenon DEF IInv, ProcessInv, WorkInv, ClaimantInv, Early
<1>9. NonceTaken(r)
  BY <1>1, <1>7, Zenon DEF NonceTaken
<1> HIDE DEF r
<1>10. \A s \in Direct : s # r => tx'[s] = tx[s]
  BY <1>4, Zenon DEF IInv, ChainTypeOK
<1>11. WorkInv'
  <2> SUFFICES ASSUME NEW q \in Proc
               PROVE  /\ pc'[q] \in DirectPc => cur'[q] \in Direct
                      /\ pc'[q] \in AuctionPc => cur'[q] \in Auction
                      /\ pc'[q] \in ClaimantPc => status'[cur'[q]] \notin Early
                      /\ pc'[q] \in UnsentPc => tx'[cur'[q]] = "none"
                      /\ pc'[q] \in SettlePc => astatus'[cur'[q]] \notin EarlyBid
    BY Zenon DEF WorkInv, Early, EarlyBid
  <2>1. /\ pc[q] \in DirectPc => cur[q] \in Direct
        /\ pc[q] \in AuctionPc => cur[q] \in Auction
        /\ pc[q] \in ClaimantPc => status[cur[q]] \notin Early
        /\ pc[q] \in UnsentPc => tx[cur[q]] = "none"
        /\ pc[q] \in SettlePc => astatus[cur[q]] \notin EarlyBid
    BY Zenon DEF IInv, ProcessInv, WorkInv, Early, EarlyBid
  <2>2. CASE q # p
    BY <2>1, <2>2, <1>5, <1>6, <1>7, <1>8, <1>10, Zenon
  <2>3. CASE q = p
    BY <2>1, <2>3, <1>1, <1>5, <1>6, <1>7, <1>8, ZenonT(30) DEF r
  <2> QED
    BY <2>2, <2>3, Zenon
<1>12. ClaimantInv'
  BY <1>1, <1>5, <1>6, <1>7, ZenonT(30) DEF IInv, ProcessInv, ClaimantInv
<1>13. \A s \in Direct : NonceTaken(s)' => NonceTaken(s)
  BY <1>1, <1>5, <1>6, <1>7, <1>9, <1>10, ZenonT(30) DEF NonceTaken
<1>14. NonceInv'
  BY <1>5, <1>8, <1>10, <1>13, Zenon DEF IInv, ProcessInv, NonceInv, Early
<1>15. ChainTypeOK' /\ ProcTypeOK'
  BY <1>1, <1>4, <1>5, <1>7, Zenon DEF IInv, ChainTypeOK, ProcTypeOK, AnyPc, AtLarge
<1> QED
  BY <1>2, <1>11, <1>12, <1>14, <1>15, Zenon DEF IInv, ProcessInv

\* A process that dies, or whose database fails, drops its request.
LEMMA FaultInv == ASSUME IInv, NEW p \in Proc, Fault(p) PROVE IInv'
<1>1. ASSUME NEW to \in {"down", "fatal", "execute", "materialize"},
             Leave(p, to), UNCHANGED <<storeVars, chainVars>>, faults' = faults + 1
      PROVE  IInv'
  <2>1. RowInv' /\ Calm /\ faults' \in Nat
    BY <1>1, SameRows, SMTT(30) DEF IInv, ProcTypeOK
  <2> QED
    BY <1>1, <2>1, LeaveInv, IdleCalls, Zenon
<1>2. ASSUME pc[p] = "sent", Goto(p, "persist_failed"), UNCHANGED chainVars, faults' = faults + 1,
             \/ UNCHANGED storeVars
             \/ HasUnsubmittedNonce(cur[p]) /\ mark_pending(cur[p])
      PROVE  IInv'
  <2>1. RowInv' /\ Calm /\ faults' \in Nat
    BY <1>2, SameRows, PendingRows, AtDirect, SMTT(30) DEF IInv, ProcTypeOK
  <2> QED
    BY <1>2, <2>1, GotoInv, ExecutorFlow, ZenonT(30)
<1> QED
  BY <1>1, <1>2, ZenonT(30) DEF Fault, Crash, DatabaseFault, MaterializerFault, AtlasFault, LoopTop


-----------------------------------------------------------------------------
(* Steps of the Atlas lane.                                                *)

\* The control flow of AtlasRevenueExecutor::step.
LEMMA AtlasFlow ==
    /\ \A to \in {"atlas_won", "atlas_failed", "atlas_expired", "atlas_kill"} :
          Follows("atlas_reconcile", to)
    /\ \A from \in {"atlas_validate", "atlas_sign", "atlas_recheck", "atlas_submit"},
          to \in {"atlas_sign", "atlas_recheck", "atlas_submit", "atlas_submitted",
                  "atlas_reject", "atlas_kill"} : Follows(from, to)
    /\ \A from \in AtlasPc : Follows(from, "atlas_claim")
<1> USE DEF Follows, AnyPc, MaterializerPc, ExecutorPc, AtlasPc, DirectPc, AuctionPc, ClaimantPc,
            UnsentPc, NoncePc, SettlePc
<1>1. \A to \in {"atlas_won", "atlas_failed", "atlas_expired", "atlas_kill"} :
          Follows("atlas_reconcile", to)
  BY SMTT(30)
<1>2. \A from \in {"atlas_validate", "atlas_sign", "atlas_recheck", "atlas_submit"},
         to \in {"atlas_sign", "atlas_recheck", "atlas_submit", "atlas_submitted",
                 "atlas_reject", "atlas_kill"} : Follows(from, to)
  BY SMTT(30)
<1>3. \A from \in AtlasPc : Follows(from, "atlas_claim")
  BY Zenon
<1> QED
  BY <1>1, <1>2, <1>3, ZenonT(30)

\* A process past the claim of the lane works on an auction; one that settles
\* works on a bid that is out.
LEMMA AtAuction ==
    ASSUME IInv, NEW p \in Proc, pc[p] \in AtlasPc \ {"atlas", "atlas_claim"}
    PROVE  /\ cur[p] \in Auction
           /\ pc[p] \in SettlePc => astatus[cur[p]] \notin EarlyBid
  BY Zenon DEF IInv, ProcessInv, WorkInv, AuctionPc, EarlyBid

\* Claiming an auction takes the free lock for it.
LEMMA AuctionClaimRows ==
    ASSUME RowInv, NEW a \in Auction, CanClaimAuction(a), AtlasUpdate(a, {"ready"}, "claimed"),
           lock' = a, UNCHANGED <<attemptVars, cand, hashed, controlVars, lossVars>>
    PROVE  RowInv' /\ Calm
<1> USE DEF RowInv, attemptVars, lossVars, controlVars
<1>1. /\ astatus[a] = "ready" /\ lock = NoOwner /\ Active = {}
      /\ astatus' = [astatus EXCEPT ![a] = "claimed"]
      /\ touched' = [touched EXCEPT ![a] = "executor"]
  BY Zenon DEF CanClaimAuction, AtlasUpdate, AtlasMove, Touch
<1>2. StoreTypeOK'
  BY <1>1, Zenon DEF StoreTypeOK, AtlasStatus
<1>3. LockMatchesWork'
  <2>1. a \notin Direct /\ NoOwner \notin Auction
    BY StoreAssumption, Zenon
  <2>2. Active' = {} /\ ActiveAtlas = {}
    BY <1>1, <2>1, ZenonT(30) DEF Active, ActiveAtlas, LockMatchesWork
  <2>3. ActiveAtlas' = {a}
    BY <1>1, <2>2, Zenon DEF ActiveAtlas, StoreTypeOK
  <2> QED
    BY <2>1, <2>2, <2>3, Zenon DEF LockMatchesWork
<1>4. CandidateInv' /\ PhaseInv'
  BY ZenonT(30) DEF CandidateInv, PhaseInv, Active
<1>5. Calm
  BY <1>1, Zenon DEF Calm, EarlyBid, StoreTypeOK
<1> QED
  BY <1>2, <1>3, <1>4, <1>5, Zenon

\* The lane takes up an auction: a bid that is out, or one to claim.
LEMMA AtlasTakeUpInv == ASSUME IInv, NEW p \in Proc, AtlasActive(p) \/ AtlasClaim(p) PROVE IInv'
<1>1. CASE Branch(p, "atlas", "atlas_claim") \/ Finish(p, "atlas_claim", LoopTop)
  BY <1>1, BranchInv, FinishInv, AtlasFlow, IdleCalls, Zenon DEF LoopTop, AtlasPc
<1>2. /\ {"atlas_reconcile", "atlas_validate", "atlas_reject"} \subseteq (AnyPc \ ClaimantPc) \ DirectPc
      /\ "atlas_validate" \notin SettlePc /\ "atlas_reject" \notin SettlePc
  BY SMTT(30) DEF AnyPc, AtlasPc, ClaimantPc, DirectPc, ExecutorPc, SettlePc
<1>3. ASSUME NEW a \in Auction, astatus[a] \in {"submitted", "submission_unknown"},
             pc' = [pc EXCEPT ![p] = "atlas_reconcile"], cur' = [cur EXCEPT ![p] = a],
             UNCHANGED <<seen, net, faults, storeVars, chainVars>>
      PROVE  IInv'
  <2>1. RowInv' /\ Calm /\ seen' \in [Proc -> AttemptStatus] /\ UNCHANGED <<net, faults, chainVars>>
    BY <1>3, SameRows, Zenon DEF IInv, ProcTypeOK
  <2>2. astatus'[a] \notin EarlyBid
    BY <1>3, Zenon DEF EarlyBid, storeVars, atlasVars
  <2> QED
    BY <1>2, <1>3, <2>1, <2>2, TakeUpInv, ZenonT(30)
<1>4. ASSUME NEW a \in Auction, CanClaimAuction(a), AtlasUpdate(a, {"ready"}, "claimed"), lock' = a,
             NEW to \in {"atlas_validate", "atlas_reject"},
             pc' = [pc EXCEPT ![p] = to], cur' = [cur EXCEPT ![p] = a],
             UNCHANGED <<seen, net, faults, chainVars, attemptVars, cand, hashed, controlVars, lossVars>>
      PROVE  IInv'
  <2>1. RowInv' /\ Calm /\ seen' \in [Proc -> AttemptStatus] /\ UNCHANGED <<net, faults, chainVars>>
    BY <1>4, AuctionClaimRows, Zenon DEF IInv, ProcTypeOK
  <2> QED
    BY <1>2, <1>4, <2>1, TakeUpInv, ZenonT(30)
<1> QED
  BY <1>1, <1>3, <1>4, ZenonT(30) DEF AtlasActive, AtlasClaim

\* Answers of the gateway and of the chain.
LEMMA AtlasDecisionInv ==
    ASSUME IInv, NEW p \in Proc,
           AtlasUnverified(p) \/ AtlasReconcile(p) \/ AtlasValidate(p) \/ AtlasRecheck(p)
    PROVE  IInv'
  BY BranchInv, FinishInv, AtlasFlow, IdleCalls, Zenon
     DEF AtlasUnverified, AtlasReconcile, AtlasValidate, AtlasRecheck, LoopTop

\* A bid that leaves for the gateway changes no row and no nonce.
LEMMA AtlasSubmitInv == ASSUME IInv, NEW p \in Proc, AtlasSubmit(p) PROVE IInv'
<1>1. CASE Branch(p, "atlas_submit", "atlas_reject") \/ Branch(p, "atlas_submit", "atlas_kill")
  BY <1>1, BranchInv, AtlasFlow, Zenon
<1>2. ASSUME pc[p] = "atlas_submit", NEW to \in {"atlas_submitted", "atlas_kill"}, Goto(p, to),
             op' = IF op[cur[p]] = "none" THEN [op EXCEPT ![cur[p]] = "live"] ELSE op,
             UNCHANGED <<faults, storeVars, txVars>>
      PROVE  IInv'
  <2>1. RowInv' /\ Calm /\ tx' = tx
    BY <1>2, SameRows, Zenon DEF IInv, txVars
  <2>2. cur[p] \in Auction
    BY <1>2, AtAuction, Zenon DEF AtlasPc
  <2>3. pc' = [pc EXCEPT ![p] = to] /\ cur' = [cur EXCEPT ![p] = cur[p]]
    BY <1>2, Zenon DEF Goto, IInv, ProcTypeOK
  <2>4. /\ to \in AnyPc /\ to \notin DirectPc /\ to \notin SettlePc /\ to \notin ClaimantPc
        /\ to \notin UnsentPc /\ to \notin NoncePc
    BY Zenon DEF AnyPc, AtlasPc, DirectPc, ExecutorPc, SettlePc, ClaimantPc, UnsentPc, NoncePc
  <2>5. ProcessInv'
    BY <2>1, <2>2, <2>3, <2>4, MoveInv, ZenonT(30)
  <2>6. ChainTypeOK' /\ ProcTypeOK'
    BY <1>2, <2>2, <2>4, Zenon DEF Goto, IInv, ChainTypeOK, ProcTypeOK, txVars, AnyPc
  <2> QED
    BY <2>1, <2>5, <2>6, Zenon DEF IInv
<1> QED
  BY <1>1, <1>2, Zenon DEF AtlasSubmit

\* Every transaction of the lane on the row of its bid.
LEMMA AtlasRecordInv ==
    ASSUME IInv, NEW p \in Proc,
           \/ PersistExpired(p) \/ PersistFailedInclusion(p) \/ PersistReconciled(p)
           \/ AtlasSign(p) \/ AtlasSubmitted(p) \/ reject_and_unlock(p) \/ kill_unknown(p)
    PROVE  IInv'
<1> DEFINE a == cur[p]
           Out == {"submitted", "submission_unknown"}
<1>1. pc[p] \in SettlePc => a \in Auction /\ (a \in ActiveAtlas => astatus[a] \in Out)
  BY AtAuction, Zenon DEF SettlePc, AtlasPc, ActiveAtlas, EarlyBid
<1>2. pc[p] \in {"atlas_sign", "atlas_submitted", "atlas_reject", "atlas_kill"} => a \in Auction
  BY AtAuction, Zenon DEF AtlasPc
<1>3. RowInv /\ {"expired", "lost", "reconciled", "signed", "submitted", "submission_unknown"} \subseteq AtlasStatus
  BY Zenon DEF IInv, AtlasStatus
<1> HIDE DEF a, Out
<1>4. CASE PersistExpired(p)
  <2>1. RowInv' /\ Calm
    BY <1>1, <1>3, <1>4, BidRows, Zenon DEF PersistExpired, CommitLast, SettlePc, a, Out, controlVars
  <2> QED
    BY <1>4, <2>1, CommitLastInv, IdleCalls, Zenon DEF PersistExpired, LoopTop
<1>5. CASE PersistFailedInclusion(p)
  <2>1. RowInv' /\ Calm
    BY <1>1, <1>3, <1>5, BidRows, Zenon DEF PersistFailedInclusion, CommitLast, SettlePc, a, Out
  <2> QED
    BY <1>5, <2>1, CommitLastInv, IdleCalls, Zenon DEF PersistFailedInclusion, LoopTop
<1>6. CASE PersistReconciled(p)
  <2>1. RowInv' /\ Calm
    BY <1>1, <1>3, <1>6, BidRows, Zenon DEF PersistReconciled, CommitLast, SettlePc, a, Out
  <2> QED
    BY <1>6, <2>1, CommitLastInv, IdleCalls, Zenon DEF PersistReconciled, LoopTop
<1>7. CASE AtlasSign(p)
  <2>1. CASE Branch(p, "atlas_sign", "atlas_kill")
    BY <2>1, BranchInv, AtlasFlow, Zenon
  <2>2. CASE /\ Commit(p, "atlas_sign", "atlas_recheck", TRUE)
             /\ AtlasUpdate(cur[p], {"claimed"}, "signed")
             /\ UNCHANGED <<attemptVars, cand, hashed, lock, controlVars, lossVars>>
    <3>1. RowInv' /\ Calm
      BY <1>2, <1>3, <2>2, BidRows, Zenon DEF Commit, a
    <3> QED
      BY <2>2, <3>1, CommitInv, AtlasFlow, Zenon
  <2> QED
    BY <1>7, <2>1, <2>2, ZenonT(30) DEF AtlasSign
<1>8. CASE AtlasSubmitted(p)
  <2>1. RowInv' /\ Calm
    BY <1>2, <1>3, <1>8, BidRows, Zenon DEF AtlasSubmitted, CommitLast, a
  <2> QED
    BY <1>8, <2>1, CommitLastInv, IdleCalls, Zenon DEF AtlasSubmitted, LoopTop
<1>9. CASE reject_and_unlock(p)
  <2>1. a \in ActiveAtlas => astatus[a] \in {"claimed", "signed", "submitted", "submission_unknown"}
    BY Zenon DEF ActiveAtlas
  <2>2. RowInv' /\ Calm
    BY <1>2, <1>3, <1>9, <2>1, BidRows, Zenon DEF reject_and_unlock, CommitLast, a
  <2> QED
    BY <1>9, <2>2, CommitLastInv, IdleCalls, Zenon DEF reject_and_unlock, LoopTop
<1>10. CASE kill_unknown(p)
  <2>1. RowInv' /\ Calm
    BY <1>2, <1>3, <1>10, BidRows, Zenon DEF kill_unknown, CommitLast, a
  <2> QED
    BY <1>10, <2>1, CommitLastInv, IdleCalls, Zenon DEF kill_unknown, LoopTop
<1> QED
  BY <1>4, <1>5, <1>6, <1>7, <1>8, <1>9, <1>10, Zenon

-----------------------------------------------------------------------------
(* Steps of the materializer.                                              *)

\* Deciding about candidates touches no request.
LEMMA CandidateRows ==
    ASSUME RowInv, UNCHANGED candOnly, cand' \in [Direct -> CandidateStatus],
           \A r \in Direct : cand'[r] # cand[r] => cand[r] \in Undecided /\ cand'[r] # "none"
    PROVE  RowInv' /\ Calm
<1>1. /\ UNCHANGED <<status, nonce, nextNonce, astatus, hashed, touched, lock>>
      /\ UNCHANGED <<dexArmed, lanesArmed, providerReady, phase, stale, directLoss, recentLoss>>
  BY Zenon DEF candOnly, attemptVars, atlasVars, controlVars, lossVars
<1>2. StoreTypeOK'
  BY <1>1, Zenon DEF RowInv, StoreTypeOK
<1>3. LockMatchesWork' /\ PhaseInv' /\ Calm
  BY <1>1, Zenon DEF RowInv, LockMatchesWork, PhaseInv, Active, ActiveAtlas, Calm
<1>4. CandidateInv'
  BY <1>1, ZenonT(30) DEF RowInv, CandidateInv, Undecided, Dex
<1> QED
  BY <1>2, <1>3, <1>4, Zenon DEF RowInv

\* The materializer's claim: some candidates expire, one becomes approval_pending.
LEMMA ClaimCandidateInv == ASSUME IInv, NEW p \in Proc, ClaimCandidate(p) PROVE IInv'
<1>1. PICK gone \in SUBSET Expirable :
        LET live == Expirable \ gone
            kept == [r \in Direct |-> IF r \in gone THEN "expired" ELSE cand[r]]
        IN  \/ /\ live = {}
               /\ cand' = kept
               /\ Leave(p, "execute")
            \/ \E r \in live :
               /\ cand' = [kept EXCEPT ![r] = "approval_pending"]
               /\ pc' = [pc EXCEPT ![p] = "finalize"]
               /\ cur' = [cur EXCEPT ![p] = r]
               /\ UNCHANGED <<seen, net>>
  BY Zenon DEF ClaimCandidate
<1>2. UNCHANGED <<faults, chainVars, candOnly>>
  BY Zenon DEF ClaimCandidate
<1> DEFINE kept == [r \in Direct |-> IF r \in gone THEN "expired" ELSE cand[r]]
<1>3. /\ kept \in [Direct -> CandidateStatus]
      /\ \A r \in Direct : kept[r] # cand[r] => cand[r] \in Undecided /\ kept[r] # "none"
  BY Zenon DEF IInv, RowInv, StoreTypeOK, CandidateStatus, Expirable
<1>4. CASE cand' = kept /\ Leave(p, "execute")
  <2>1. RowInv' /\ Calm /\ faults' \in Nat
    BY <1>2, <1>3, <1>4, CandidateRows, Zenon DEF IInv, ProcTypeOK
  <2> QED
    BY <1>2, <1>4, <2>1, LeaveInv, IdleCalls, Zenon
<1>5. ASSUME NEW r \in Expirable, cand' = [kept EXCEPT ![r] = "approval_pending"],
             pc' = [pc EXCEPT ![p] = "finalize"], cur' = [cur EXCEPT ![p] = r], UNCHANGED <<seen, net>>
      PROVE  IInv'
  <2>1. r \in Direct /\ cand[r] \in Undecided
    BY Zenon DEF Expirable
  <2>2. /\ cand' \in [Direct -> CandidateStatus]
        /\ \A s \in Direct : cand'[s] # cand[s] => cand[s] \in Undecided /\ cand'[s] # "none"
    BY <1>3, <1>5, <2>1, Zenon DEF CandidateStatus
  <2>3. RowInv' /\ Calm /\ seen' \in [Proc -> AttemptStatus] /\ UNCHANGED <<net, faults, chainVars>>
    BY <1>2, <1>5, <2>2, CandidateRows, Zenon DEF IInv, ProcTypeOK
  <2>4. "finalize" \in AnyPc \ ClaimantPc /\ "finalize" \notin AuctionPc /\ "finalize" \notin SettlePc
    BY Zenon DEF AnyPc, MaterializerPc, ClaimantPc, AuctionPc, AtlasPc, SettlePc
  <2> QED
    BY <1>5, <2>1, <2>3, <2>4, TakeUpInv, Zenon
<1> QED
  BY <1>1, <1>4, <1>5, Zenon

\* Every other transaction of the materializer.
LEMMA MaterializerInv == ASSUME IInv, NEW p \in Proc, MaterializerStep(p) PROVE IInv'
<1> DEFINE r == cur[p]
<1>1. Follows("finalize", "reject")
  BY Zenon DEF Follows, AnyPc, MaterializerPc, DirectPc, AuctionPc, AtlasPc, ClaimantPc, UnsentPc, NoncePc, SettlePc
<1>2. pc[p] \in {"finalize", "reject"} => r \in Direct
  BY AtDirect, Zenon
<1>3. cand \in [Direct -> CandidateStatus] /\ {"materialized", "rejected"} \subseteq CandidateStatus
  BY Zenon DEF IInv, RowInv, StoreTypeOK, CandidateStatus
<1>4. CASE ForkDisposition(p) \/ RejectCandidate(p)
  <2>1. r \in Direct /\ UNCHANGED candOnly
    BY <1>2, <1>4, Zenon DEF ForkDisposition, RejectCandidate, CommitLast
  <2>2. PICK from \in SUBSET Undecided, to \in {"materialized", "rejected"} :
           cand' = MoveCandidate(cand, r, from, to)
    BY <1>4, ZenonT(30) DEF ForkDisposition, RejectCandidate, Undecided
  <2>3. RowInv' /\ Calm
    BY <1>3, <2>1, <2>2, CandidateRows, Zenon DEF MoveCandidate, IInv
  <2> QED
    BY <1>4, <2>3, CommitLastInv, IdleCalls, ZenonT(30) DEF ForkDisposition, RejectCandidate
<1>5. CASE QuoteCandidate(p)
  BY <1>1, <1>5, BranchInv, FinishInv, IdleCalls, Zenon DEF QuoteCandidate
<1>6. CASE DisarmRoute(p)
  <2>1. RowInv' /\ Calm
    <3> USE <1>6 DEF DisarmRoute, IInv, RowInv, attemptVars, atlasVars, lossVars
    <3>1. StoreTypeOK'
      BY Zenon DEF StoreTypeOK
    <3>2. LockMatchesWork' /\ PhaseInv' /\ Calm
      BY Zenon DEF LockMatchesWork, PhaseInv, Active, ActiveAtlas, Calm
    <3>3. CandidateInv'
      BY ZenonT(30) DEF CandidateInv
    <3> QED
      BY <3>1, <3>2, <3>3, Zenon
  <2> QED
    BY <1>1, <1>6, <2>1, CommitInv, Zenon DEF DisarmRoute
<1>7. CASE InsertApprovedRequest(p)
  <2>1. RowInv' /\ Calm
    <3>1. r \in Direct /\ cand[r] = "approval_pending"
      BY <1>2, <1>7, ZenonT(30) DEF InsertApprovedRequest, CommitLast
    <3>2. r \in Dex /\ status[r] = "absent"
      BY <3>1, ZenonT(30) DEF IInv, RowInv, CandidateInv
    <3>3. /\ status' = [status EXCEPT ![r] = "approved"]
          /\ cand' = [cand EXCEPT ![r] = "request_materialized"]
          /\ UNCHANGED <<nonce, nextNonce, astatus, hashed, touched, lock>>
          /\ UNCHANGED <<dexArmed, lanesArmed, providerReady, phase, stale, directLoss, recentLoss>>
      BY <1>7, Zenon DEF InsertApprovedRequest, atlasVars, controlVars, lossVars
    <3>4. StoreTypeOK'
      BY <3>3, ZenonT(30) DEF IInv, RowInv, StoreTypeOK, CandidateStatus, AttemptStatus
    <3>5. Active' = Active /\ ActiveAtlas' = ActiveAtlas
      BY <3>1, <3>2, <3>3, Zenon DEF Active, ActiveAtlas, ActiveStatuses, IInv, RowInv, StoreTypeOK
    <3>6. LockMatchesWork' /\ PhaseInv'
      BY <3>1, <3>2, <3>3, <3>5, ZenonT(30) DEF LockMatchesWork, PhaseInv, ActiveStatuses, IInv, RowInv, StoreTypeOK
    <3>7. CandidateInv' /\ Calm
      BY <3>1, <3>2, <3>3, ZenonT(30) DEF CandidateInv, Calm, Early, IInv, RowInv, StoreTypeOK
    <3> QED
      BY <3>4, <3>6, <3>7, Zenon DEF RowInv
  <2> QED
    BY <1>7, <2>1, CommitLastInv, IdleCalls, Zenon DEF InsertApprovedRequest
<1> QED
  BY <1>4, <1>5, <1>6, <1>7, ClaimCandidateInv, Zenon DEF MaterializerStep


-----------------------------------------------------------------------------
(* The invariant.                                                          *)

\* A fresh installation, with every process down, satisfies the invariant.
LEMMA InitInv == Init => IInv
<1> SUFFICES ASSUME Init PROVE IInv
  BY Zenon
<1> USE DEF Init, StoreInit, ChainInit, ProcInit
<1>1. StoreTypeOK
  BY ZenonT(30) DEF StoreTypeOK, AttemptStatus, CandidateStatus, AtlasStatus
<1>2. Active = {} /\ ActiveAtlas = {}
  BY ZenonT(30) DEF Active, ActiveAtlas, ActiveStatuses
<1>3. LockMatchesWork /\ CandidateInv /\ PhaseInv
  BY <1>2, StoreAssumption, ZenonT(30) DEF LockMatchesWork, CandidateInv, PhaseInv
<1>4. ChainTypeOK /\ ProcTypeOK
  BY Zenon DEF ChainTypeOK, ProcTypeOK, AttemptStatus
<1>5. "down" \notin DirectPc /\ "down" \notin AuctionPc /\ "down" \notin ClaimantPc
      /\ "down" \notin UnsentPc /\ "down" \notin NoncePc /\ "down" \notin SettlePc
  BY Zenon DEF DirectPc, ExecutorPc, AuctionPc, AtlasPc, ClaimantPc, UnsentPc, NoncePc, SettlePc
<1>6. WorkInv /\ ClaimantInv
  BY <1>5, Zenon DEF WorkInv, ClaimantInv
<1>7. \A r \in Direct : ~NonceTaken(r)
  BY <1>5, Zenon DEF NonceTaken
<1>8. NonceInv
  BY <1>7, Zenon DEF NonceInv
<1> QED
  BY <1>1, <1>3, <1>4, <1>6, <1>8, Zenon DEF IInv, RowInv, ProcessInv

\* Every step of any process, of the control plane and of the chain keeps it.
LEMMA NextInv == IInv /\ [Next]_vars => IInv'
<1> SUFFICES ASSUME IInv, [Next]_vars PROVE IInv'
  BY Zenon
<1>1. ASSUME NEW p \in Proc, ExecutorStep(p) PROVE IInv'
  <2>1. CASE \/ Gate(p) \/ CheckContract(p) \/ Sign(p) \/ RecheckControl(p) \/ RecheckBudget(p)
             \/ ReceiptError(p) \/ ReceiptFound(p) \/ ReceiptMissing(p) \/ TransactionKnown(p)
             \/ ReplacementNonce(p) \/ RecordMonitorError(p) \/ ConfirmedLoss(p)
    BY <2>1, DecisionInv, Zenon
  <2>2. CASE Disarm(p) \/ FatalExit(p)
    BY <2>2, DisarmInv, Zenon
  <2>3. CASE \/ FailClaimed(p) \/ RestartClaimed(p) \/ MarkReplaced(p) \/ ReceiptTimeout(p)
             \/ CompleteReceipt(p)
    BY <2>3, TerminalInv, Zenon
  <2>4. CASE \/ MarkSigned(p) \/ MarkPending(p) \/ MarkSubmissionUnknown(p) \/ PersistFailed(p)
             \/ RestartAllocated(p)
    BY <2>4, RecordInv, Zenon
  <2>5. CASE ActiveAttempt(p) \/ PendingNonce(p)
    BY <2>5, ActiveAttemptInv, PendingNonceInv, Zenon
  <2>6. CASE ClaimApproved(p) \/ AllocateNonce(p)
    BY <2>6, ClaimInv, AllocateInv, Zenon
  <2>7. CASE FailUnsubmitted(p) \/ SendRawTransaction(p)
    BY <2>7, RollbackInv, SendInv, Zenon
  <2> QED
    BY <1>1, <2>1, <2>2, <2>3, <2>4, <2>5, <2>6, <2>7, Zenon DEF ExecutorStep
<1>2. ASSUME NEW p \in Proc, AtlasStep(p) PROVE IInv'
  BY <1>2, AtlasTakeUpInv, AtlasDecisionInv, AtlasSubmitInv, AtlasRecordInv, Zenon DEF AtlasStep
<1>3. ASSUME NEW p \in Proc, Process(p) PROVE IInv'
  BY <1>1, <1>2, <1>3, MaterializerInv, DecisionInv, Zenon DEF Process
<1>4. CASE UNCHANGED vars
  <2>1. UNCHANGED <<storeVars, chainVars, procVars>>
    BY <1>4, Zenon DEF vars
  <2>2. RowInv' /\ Calm
    BY <2>1, SameRows, Zenon DEF IInv
  <2>3. ChainTypeOK' /\ \A r \in Direct : tx'[r] = "none" <=> tx[r] = "none"
    BY <2>1, Zenon DEF IInv, ChainTypeOK, chainVars, txVars
  <2> QED
    BY <2>1, <2>2, <2>3, OtherInv, Zenon
<1> QED
  BY <1>3, <1>4, FaultInv, ControlInv, ChainInv, Zenon DEF Next

-----------------------------------------------------------------------------
(* Steps never go back.                                                    *)

Closed == {"confirmed", "reverted", "failed", "replaced"}

attemptAndTx == <<status, nonce, tx>>

\* A step that moves one open attempt on, or none, and sends nothing, advances.
LEMMA MoveAdvances ==
    ASSUME IInv, nonce' = nonce, tx' = tx,
           \/ status' = status
           \/ \E r \in Direct : /\ status[r] \notin Closed
                                /\ \E to \in AttemptStatus : status' = [status EXCEPT ![r] = to]
    PROVE  AttemptAdvances
  BY Zenon DEF AttemptAdvances, Closed, IInv, RowInv, StoreTypeOK

\* Decisions, candidates and bids leave every attempt and transaction alone.
LEMMA SteadySteps ==
    ASSUME NEW p \in Proc,
           \/ ActiveAttempt(p) \/ Gate(p) \/ CheckContract(p) \/ PendingNonce(p) \/ Sign(p)
           \/ RecheckControl(p) \/ RecheckBudget(p) \/ Disarm(p) \/ FatalExit(p)
           \/ ReceiptError(p) \/ ReceiptFound(p) \/ ReceiptMissing(p) \/ TransactionKnown(p)
           \/ ReplacementNonce(p) \/ RecordMonitorError(p) \/ ConfirmedLoss(p) \/ Restart(p)
           \/ AtlasStep(p) \/ (MaterializerStep(p) /\ ~InsertApprovedRequest(p))
    PROVE  UNCHANGED attemptAndTx
<1> USE DEF attemptAndTx, storeVars, attemptVars, chainVars, txVars
<1>1. ASSUME NEW from, NEW to, Branch(p, from, to) \/ Finish(p, from, to)
      PROVE  UNCHANGED attemptAndTx
  BY <1>1, Zenon DEF Branch, Finish
<1>2. ASSUME NEW from, NEW can, Refused(p, from, can) PROVE UNCHANGED attemptAndTx
  BY <1>1, <1>2, Zenon DEF Refused
<1> HIDE DEF attemptAndTx
<1>3. CASE \/ Gate(p) \/ CheckContract(p) \/ Sign(p) \/ RecheckControl(p) \/ RecheckBudget(p)
  BY <1>1, <1>3, Zenon DEF Gate, CheckContract, Sign, RecheckControl, RecheckBudget
<1>4. CASE \/ ReceiptError(p) \/ ReceiptFound(p) \/ ReceiptMissing(p) \/ TransactionKnown(p)
           \/ ReplacementNonce(p) \/ ConfirmedLoss(p) \/ Restart(p)
  BY <1>1, <1>4, Zenon DEF ReceiptError, ReceiptFound, ReceiptMissing, TransactionKnown, ReplacementNonce,
     ConfirmedLoss, Restart
<1>5. CASE ActiveAttempt(p)
  BY <1>5, Zenon DEF ActiveAttempt, attemptAndTx
<1>6. CASE PendingNonce(p) \/ RecordMonitorError(p)
  BY <1>1, <1>2, <1>6, Zenon DEF PendingNonce, RecordMonitorError, attemptAndTx
<1>7. CASE Disarm(p) \/ FatalExit(p)
  BY <1>7, Zenon DEF Disarm, FatalExit, disarm, CommitLast, attemptAndTx
<1>8. CASE MaterializerStep(p) /\ ~InsertApprovedRequest(p)
  BY <1>1, <1>8, ZenonT(30) DEF MaterializerStep, ClaimCandidate, QuoteCandidate, ForkDisposition, DisarmRoute,
     RejectCandidate, CommitLast, Commit, candOnly, attemptAndTx
<1>9. CASE AtlasStep(p)
  <2>1. CASE AtlasActive(p) \/ AtlasClaim(p) \/ AtlasSubmit(p) \/ AtlasSign(p)
    BY <1>1, <2>1, Zenon DEF AtlasActive, AtlasClaim, AtlasSubmit, AtlasSign, Commit, attemptAndTx
  <2>2. CASE AtlasUnverified(p) \/ AtlasReconcile(p) \/ AtlasValidate(p) \/ AtlasRecheck(p)
    BY <1>1, <2>2, Zenon DEF AtlasUnverified, AtlasReconcile, AtlasValidate, AtlasRecheck
  <2>3. CASE \/ PersistExpired(p) \/ PersistFailedInclusion(p) \/ PersistReconciled(p)
             \/ AtlasSubmitted(p) \/ reject_and_unlock(p) \/ kill_unknown(p)
    BY <2>3, Zenon DEF PersistExpired, PersistFailedInclusion, PersistReconciled, AtlasSubmitted,
       reject_and_unlock, kill_unknown, CommitLast, attemptAndTx
  <2> QED
    BY <1>9, <2>1, <2>2, <2>3, Zenon DEF AtlasStep
<1> QED
  BY <1>3, <1>4, <1>5, <1>6, <1>7, <1>8, <1>9, Zenon

\* The transactions of store.rs and the broadcast advance.
LEMMA ExecutorAdvances == ASSUME IInv, NEW p \in Proc, Process(p) PROVE AttemptAdvances
<1> DEFINE r == cur[p]
<1>1. ASSUME UNCHANGED attemptAndTx PROVE AttemptAdvances
  BY <1>1, MoveAdvances, Zenon DEF attemptAndTx
<1>2. ASSUME NEW from, NEW can, Refused(p, from, can) PROVE AttemptAdvances
  BY <1>2, MoveAdvances, Zenon DEF Refused, Finish, storeVars, attemptVars, chainVars, txVars
<1>3. ASSUME r \in Direct, NEW to \in AttemptStatus, status[r] \notin Closed,
             status' = [status EXCEPT ![r] = to], nonce' = nonce, tx' = tx
      PROVE  AttemptAdvances
  BY <1>3, MoveAdvances, ZenonT(30)
<1> HIDE DEF r
<1>4. CASE FailClaimed(p) \/ RestartClaimed(p) \/ MarkReplaced(p) \/ ReceiptTimeout(p) \/ CompleteReceipt(p)
  <2>1. ASSUME NEW to \in {"confirmed", "reverted", "failed", "replaced", "timed_out"}, NEW loss, NEW limitHit,
               r \in Direct, CanTerminate(r, to), mark_terminal(r, to, loss, limitHit), UNCHANGED chainVars
        PROVE  AttemptAdvances
    BY <1>3, <2>1, ZenonT(30) DEF CanTerminate, mark_terminal, Closed, AttemptStatus, ActiveStatuses, chainVars, txVars
  <2>2. pc[p] \in {"fail", "fail_disarm", "was_claimed", "mark_replaced", "timeout", "complete"} => r \in Direct
    BY AtDirect, Zenon DEF r
  <2>3. CASE FailClaimed(p) \/ RestartClaimed(p)
    BY <1>2, <2>1, <2>2, <2>3, Zenon DEF FailClaimed, RestartClaimed, Commit, CommitLast, r
  <2>4. CASE MarkReplaced(p)
    BY <1>2, <2>1, <2>2, <2>4, Zenon DEF MarkReplaced, Commit, r
  <2>5. CASE ReceiptTimeout(p)
    <3>1. CASE Finish(p, "timeout", "atlas")
      BY <1>1, <3>1, Zenon DEF Finish, storeVars, attemptVars, chainVars, txVars, attemptAndTx
    <3> QED
      BY <1>2, <2>1, <2>2, <2>5, <3>1, ZenonT(30) DEF ReceiptTimeout, Commit, r
  <2>6. CASE CompleteReceipt(p)
    <3>1. CASE Branch(p, "complete", "monitor")
      BY <1>1, <3>1, Zenon DEF Branch, storeVars, attemptVars, chainVars, txVars, attemptAndTx
    <3> QED
      BY <1>2, <2>1, <2>2, <2>6, <3>1, ZenonT(30) DEF CompleteReceipt, CommitLast, r
  <2> QED
    BY <1>4, <2>3, <2>4, <2>5, <2>6, Zenon
<1>5. CASE MarkSigned(p) \/ MarkPending(p) \/ MarkSubmissionUnknown(p) \/ PersistFailed(p) \/ RestartAllocated(p)
  <2>1. ASSUME r \in Direct, HasUnsubmittedNonce(r), UNCHANGED chainVars,
               mark_signed(r) \/ mark_pending(r) \/ mark_submission_unknown(r)
        PROVE  AttemptAdvances
    <3>1. CASE mark_signed(r)
      BY <1>1, <2>1, <3>1, Zenon DEF mark_signed, attemptVars, chainVars, txVars, attemptAndTx
    <3>2. CASE mark_pending(r) \/ mark_submission_unknown(r)
      BY <1>3, <2>1, <3>2, Zenon DEF HasUnsubmittedNonce, mark_pending, mark_submission_unknown, Closed,
         AttemptStatus, ActiveStatuses, chainVars, txVars
    <3> QED
      BY <2>1, <3>1, <3>2, Zenon
  <2>2. pc[p] \in {"sign", "sent", "unknown", "persist_failed", "was_allocated"} => r \in Direct
    BY AtDirect, ZenonT(30) DEF r
  <2>3. ASSUME NEW from, NEW to, Branch(p, from, to) \/ Finish(p, from, to) PROVE AttemptAdvances
    BY <1>1, <2>3, Zenon DEF Branch, Finish, storeVars, attemptVars, chainVars, txVars, attemptAndTx
  <2> QED
    BY <1>2, <1>5, <2>1, <2>2, <2>3, ZenonT(30) DEF MarkSigned, MarkPending, MarkSubmissionUnknown, PersistFailed,
       RestartAllocated, Commit, CommitLast, r
<1>6. CASE ClaimApproved(p)
  <2>1. CASE Finish(p, "claim", "atlas")
    BY <1>1, <2>1, Zenon DEF Finish, storeVars, attemptVars, chainVars, txVars, attemptAndTx
  <2>2. ASSUME NEW s \in Direct, CanClaim(s), claim_approved(s), UNCHANGED chainVars PROVE AttemptAdvances
    BY <2>2, MoveAdvances, Zenon DEF CanClaim, claim_approved, Closed, AttemptStatus, ActiveStatuses, chainVars, txVars
  <2> QED
    BY <1>6, <2>1, <2>2, Zenon DEF ClaimApproved
<1>7. CASE AllocateNonce(p)
  <2>1. CASE Commit(p, "allocate", "allocated", CanAllocate(r)) /\ allocate_nonce(r, net[p])
    <3>1. r \in Direct /\ tx[r] = "none" /\ status[r] = "claimed" /\ tx' = tx
      BY <2>1, AtDirect, ZenonT(30) DEF Commit, CanAllocate, chainVars, txVars, IInv, ProcessInv, WorkInv, UnsentPc,
         ClaimantPc, r
    <3>2. \A s \in Direct : s # r => status'[s] = status[s] /\ nonce'[s] = nonce[s]
      BY <2>1, <3>1, ZenonT(30) DEF allocate_nonce, IInv, RowInv, StoreTypeOK
    <3> QED
      BY <3>1, <3>2, Zenon DEF AttemptAdvances, Mined
  <2> QED
    BY <1>2, <1>7, <2>1, ZenonT(30) DEF AllocateNonce, r
<1>8. CASE FailUnsubmitted(p)
  <2>1. pc[p] \in {"unsubmitted", "unsubmitted_disarm", "unsubmitted_exit"} => r \in Direct
    BY AtDirect, Zenon DEF r
  <2>2. ASSUME r \in Direct, CanRollBack(r), fail_unsubmitted(r), UNCHANGED chainVars PROVE AttemptAdvances
    BY <1>3, <2>2, Zenon DEF CanRollBack, HasUnsubmittedNonce, fail_unsubmitted, Closed, AttemptStatus, chainVars, txVars
  <2> QED
    BY <1>2, <1>8, <2>1, <2>2, ZenonT(30) DEF FailUnsubmitted, Commit, CommitLast, r
<1>9. CASE SendRawTransaction(p)
  <2>1. r \in Direct /\ tx[r] = "none" /\ status' = status /\ nonce' = nonce
    BY <1>9, AtDirect, ZenonT(30) DEF SendRawTransaction, storeVars, attemptVars, IInv, ProcessInv, WorkInv, UnsentPc,
       ClaimantPc, r
  <2>2. \A s \in Direct : s # r => tx'[s] = tx[s]
    BY <1>9, Zenon DEF SendRawTransaction, IInv, ChainTypeOK, r
  <2> QED
    BY <2>1, <2>2, ZenonT(30) DEF AttemptAdvances, Mined
<1>10. CASE InsertApprovedRequest(p)
  <2>1. r \in Direct /\ cand[r] = "approval_pending"
    BY <1>10, AtDirect, ZenonT(30) DEF InsertApprovedRequest, CommitLast, r
  <2>2. status[r] = "absent"
    BY <2>1, ZenonT(30) DEF IInv, RowInv, CandidateInv
  <2> QED
    BY <1>3, <1>10, <2>1, <2>2, ZenonT(30) DEF InsertApprovedRequest, CommitLast, Closed, AttemptStatus, chainVars, txVars, r
<1> QED
  BY <1>1, <1>4, <1>5, <1>6, <1>7, <1>8, <1>9, <1>10, SteadySteps, ZenonT(30) DEF Process, ExecutorStep, MaterializerStep

\* A fault writes nothing, or what the interrupted call would have written.
LEMMA FaultAdvances == ASSUME IInv, NEW p \in Proc, Fault(p) PROVE AttemptAdvances
<1>1. ASSUME UNCHANGED <<storeVars, chainVars>> PROVE AttemptAdvances
  BY <1>1, MoveAdvances, Zenon DEF storeVars, attemptVars, chainVars, txVars
<1>2. ASSUME pc[p] = "sent", HasUnsubmittedNonce(cur[p]), mark_pending(cur[p]), UNCHANGED chainVars
      PROVE  AttemptAdvances
  BY <1>2, AtDirect, MoveAdvances, ZenonT(30) DEF HasUnsubmittedNonce, mark_pending, Closed, AttemptStatus,
     ActiveStatuses, chainVars, txVars
<1> QED
  BY <1>1, <1>2, ZenonT(30) DEF Fault, Crash, DatabaseFault, MaterializerFault, AtlasFault

\* The control plane writes no attempt that has begun.
LEMMA ControlAdvances == IInv /\ ControlNext /\ UNCHANGED chainVars => AttemptAdvances
<1> SUFFICES ASSUME IInv, ControlNext, UNCHANGED chainVars PROVE AttemptAdvances
  BY Zenon
<1>1. nonce' = nonce /\ tx' = tx
  BY ControlRows, Zenon DEF IInv, Calm, chainVars, txVars
<1>2. ASSUME NEW r \in Direct, insertExecutionCandidate(r) PROVE AttemptAdvances
  BY <1>1, <1>2, MoveAdvances, ZenonT(30) DEF insertExecutionCandidate, Closed, AttemptStatus
<1>3. CASE ~\E r \in Direct : insertExecutionCandidate(r)
  <2>1. status' = status
    BY <1>3, Zenon DEF ControlNext, othersUnchanged, attemptVars, Activate, CreateReadiness, SetMaxReviewed,
       PostArmRecovery, arm_revenue_lanes, ProviderRecovery, OperatorDisarm, route_failure,
       SupervisorFailClose, fail_close_provider_execution_gate, RecordProviderFailure,
       RecordProviderSuccess, InsertCandidate, insertAtlasCandidate, NewDay
  <2> QED
    BY <1>1, <2>1, MoveAdvances, Zenon
<1> QED
  BY <1>2, <1>3, Zenon

\* A transaction that was mined, or whose nonce another one took, stays so.
LEMMA ChainAdvances == IInv /\ ChainNext => AttemptAdvances
<1> SUFFICES ASSUME IInv, ChainNext PROVE AttemptAdvances
  BY Zenon
<1>1. UNCHANGED <<status, nonce>>
  BY ZenonT(30) DEF ChainNext, Mine, Drop, Rebroadcast, MineForeign, Include, PassDeadline, storeVars, attemptVars
<1>2. \A r \in Direct : /\ tx[r] # "none" => tx'[r] # "none"
                        /\ tx[r] \in Mined \cup {"dead"} => tx'[r] = tx[r]
  <2> USE DEF IInv, ChainTypeOK, Mined, AtLarge, Supersede
  <2>1. ASSUME NEW s \in Direct, NEW outcome \in Mined, Mine(s, outcome)
        PROVE  \A r \in Direct : /\ tx[r] # "none" => tx'[r] # "none"
                                 /\ tx[r] \in Mined \cup {"dead"} => tx'[r] = tx[r]
    BY <2>1, Zenon DEF Mine
  <2>2. ASSUME NEW s \in Direct, Drop(s) \/ Rebroadcast(s)
        PROVE  \A r \in Direct : /\ tx[r] # "none" => tx'[r] # "none"
                                 /\ tx[r] \in Mined \cup {"dead"} => tx'[r] = tx[r]
    BY <2>2, Zenon DEF Drop, Rebroadcast
  <2>3. CASE MineForeign
    BY <2>3, Zenon DEF MineForeign
  <2>4. ASSUME NEW a \in Auction, PassDeadline(a) \/ \E o \in {"won", "failed", "bad"} : Include(a, o)
        PROVE  tx' = tx
    BY <2>4, Zenon DEF PassDeadline, Include, txVars
  <2> QED
    BY <2>1, <2>2, <2>3, <2>4, ZenonT(30) DEF ChainNext
<1> QED
  BY <1>1, <1>2, Zenon DEF AttemptAdvances
=============================================================================
