---------------------------- MODULE FlightProofs ----------------------------
(***************************************************************************)
(* One process of the live executor, for any number of requests, auctions, *)
(* faults and foreign transactions: a broadcast transaction is never       *)
(* forgotten, the lock covers what is in flight, no nonce gap lies below   *)
(* it, and the candidate rows tell the truth; and every step of it is a    *)
(* step of the abstract lock.  The theorems are in RevenueProofs.          *)
(***************************************************************************)
EXTENDS RevenueInvariant, TLAPS

\* Calls at which the process relies on nothing about a request.
FreePc == {"materialize", "finalize", "reject", "execute", "gate", "claim", "confirmed", "disarm",
           "disarm_exit", "atlas", "atlas_reconcile", "atlas_claim", "atlas_kill", "fatal", "down"}

RowsInv == FlightInv /\ GapInv /\ TruthInv

\* Whatever the process relies on at one call it relied on at the other.
Relies(from, to) ==
    /\ to \in AtClaimed => from \in AtClaimed
    /\ to \in AtAllocated => from \in AtAllocated
    /\ to = "persist_failed" => from \in {"sent", "persist_failed"}
    /\ to \in AtPending => from \in AtPending
    /\ to \in {"sent", "persist_failed"} => from \in {"sent", "persist_failed"}
    /\ to = "complete" => from = "complete"
    /\ to = "allocate" => from = "allocate"
    /\ to \in {"atlas_validate", "atlas_sign"} => from \in {"atlas_validate", "atlas_sign"}
    /\ to \in AtSigned => from \in AtSigned
    /\ to = "atlas_reject" => from \in {"atlas_validate", "atlas_sign", "atlas_reject"} \cup AtSigned
    /\ to \in {"atlas_validate", "atlas_sign", "atlas_recheck", "atlas_submit", "atlas_reject",
               "atlas_won", "atlas_failed", "atlas_expired"}
          => from \in {"atlas_validate", "atlas_sign", "atlas_recheck", "atlas_submit", "atlas_reject",
                       "atlas_won", "atlas_failed", "atlas_expired"}

-----------------------------------------------------------------------------
(* Moves of the process.                                                   *)

\* At a free call nothing is relied on.
LEMMA FreeMove ==
    ASSUME OneProcess, ProcTypeOK, NEW p \in Proc, NEW to \in FreePc, pc' = [pc EXCEPT ![p] = to]
    PROVE  PlaceInv'
<1>1. \A q \in Proc : pc'[q] = to
  BY Zenon DEF OneProcess, ProcTypeOK
<1> QED
  BY <1>1, ZenonT(30) DEF PlaceInv, Place, FreePc, AtClaimed, AtAllocated, NoncePc, ClaimantPc, AtPending, AtSigned

\* A decision that changes no row, or a row the process does not rely on.
LEMMA PlainMove ==
    ASSUME OneProcess, ProcTypeOK, PlaceInv, NEW p \in Proc, NEW from, NEW to, Relies(from, to),
           pc[p] = from, pc' = [pc EXCEPT ![p] = to],
           UNCHANGED <<cur, net, status, tx, chainNonce, astatus, op>>
    PROVE  PlaceInv'
<1>1. \A q \in Proc : q = p /\ pc'[q] = to
  BY Zenon DEF OneProcess, ProcTypeOK
<1>2. Place(p)
  BY Zenon DEF PlaceInv
<1>3. "sent" \in AtAllocated
  BY Zenon DEF AtAllocated, NoncePc, ClaimantPc
<1>4. Place(p)'
  BY <1>1, <1>2, <1>3, ZenonT(30) DEF Place, Relies
<1> QED
  BY <1>1, <1>4, Zenon DEF PlaceInv

\* Rows and chain as they were.
LEMMA RowsStay ==
    ASSUME RowsInv, UNCHANGED <<status, nonce, nextNonce, cand, astatus, lock, tx, chainNonce, op>>
    PROVE  RowsInv'
BY DEF RowsInv, FlightInv, BroadcastNeverForgotten, LockCoversInFlight, GapInv, NoNonceGap, TruthInv,
       CandidateTellsTheTruth

\* The one process gets to a call and finds what it relies on there.
LEMMA OnlyMove ==
    ASSUME OneProcess, ProcTypeOK, NEW p \in Proc, Place(p)'
    PROVE  PlaceInv'
BY DEF PlaceInv, OneProcess

\* Which of the calls that rely on a row each of these is.
LEMMA Places ==
    /\ \A x \in {"was_claimed", "contract", "allocate"} : x \in AtClaimed /\ x \notin AtAllocated /\ x \notin AtPending /\ x \notin AtSigned
    /\ \A x \in {"was_allocated", "allocated", "recheck"} :
         x \notin AtClaimed /\ x \in AtAllocated /\ x \notin AtPending /\ x \notin AtSigned
    /\ "receipt" \notin AtClaimed /\ "receipt" \notin AtAllocated /\ "receipt" \notin AtSigned
    /\ "atlas_recheck" \notin AtClaimed /\ "atlas_recheck" \notin AtAllocated /\ "atlas_recheck" \notin AtPending
BY Zenon DEF AtClaimed, AtAllocated, AtPending, AtSigned, NoncePc, ClaimantPc

\* A step that reads or decides: on to a call that relies on no more, or away
\* from the request.
LEMMA BranchOne ==
    ASSUME OneProcess, IInv, RowsInv, PlaceInv, NEW p \in Proc, NEW from, NEW to,
           \/ Branch(p, from, to) /\ Relies(from, to)
           \/ Finish(p, from, to) /\ to \in FreePc
           \/ Branch(p, from, to) /\ to \in FreePc
    PROVE  RowsInv' /\ PlaceInv'
<1> USE DEF Branch, Finish, Goto, Leave, storeVars, attemptVars, atlasVars, chainVars, txVars
<1>1. RowsInv'
  BY RowsStay, Zenon
<1>2. PlaceInv'
  <2>1. CASE to \in FreePc
    BY <2>1, FreeMove, Zenon DEF IInv
  <2>2. CASE Branch(p, from, to) /\ Relies(from, to)
    BY <2>2, PlainMove, Zenon DEF IInv
  <2> QED
    BY <2>1, <2>2, Zenon
<1> QED
  BY <1>1, <1>2, Zenon

-----------------------------------------------------------------------------
(* Transactions on the rows.                                               *)

\* A candidate that takes one of these statuses says nothing of the chain.
Silent == {"none", "request_materialized", "claimed", "signed", "submission_unknown", "disarmed"}

\* Candidates fall silent, or stay undecided.
LEMMA CandidatesMove ==
    ASSUME TruthInv, UNCHANGED <<status, tx>>, cand \in [Direct -> CandidateStatus],
           \A r \in Direct : \/ cand'[r] = cand[r] \/ cand'[r] \in Silent
                             \/ status[r] = "absent" /\ cand'[r] \in {"materialized", "approval_pending", "expired", "rejected"}
    PROVE  TruthInv'
BY DEF TruthInv, CandidateTellsTheTruth, Silent

\* The call tells what kind of request it is about.
LEMMA AtCall ==
    ASSUME WorkInv, NEW p \in Proc
    PROVE  /\ pc[p] \in AtClaimed \cup AtAllocated \cup AtPending \cup {"persist_failed"} => cur[p] \in Direct
           /\ pc[p] \in AtSigned \cup {"atlas_validate", "atlas_sign", "atlas_reject"} => cur[p] \in Auction
<1>1. /\ AtClaimed \cup AtAllocated \cup AtPending \cup {"persist_failed"} \subseteq DirectPc
      /\ AtSigned \cup {"atlas_validate", "atlas_sign", "atlas_reject"} \subseteq AuctionPc
  BY SMTT(30) DEF AtClaimed, AtAllocated, AtPending, AtSigned, DirectPc, AuctionPc, AtlasPc, ExecutorPc, NoncePc, ClaimantPc
<1> QED
  BY <1>1, Zenon DEF WorkInv

\* What an attempt in progress means for the counter and the lock.
LEMMA AtWork ==
    ASSUME RowInv, GapInv, NEW r \in Direct, status[r] \in ActiveStatuses
    PROVE  /\ lock = r
           /\ status[r] \in Allocated => nextNonce = nonce[r] + 1 /\ nonce[r] <= chainNonce
           /\ status[r] \notin Allocated => nextNonce <= chainNonce
BY DEF RowInv, LockMatchesWork, Active, GapInv

LEMMA ClaimOne ==
    ASSUME RowInv, ChainTypeOK, NonceInv, RowsInv, NEW r \in Direct, CanClaim(r), claim_approved(r), UNCHANGED chainVars
    PROVE  RowsInv'
<1> USE DEF RowsInv, CanClaim, claim_approved, chainVars, txVars, controlVars, atlasVars, lossVars
<1>1. status \in [Direct -> AttemptStatus] /\ cand \in [Direct -> CandidateStatus] /\ NoOwner \notin Direct \cup Auction
  BY StoreAssumption, Zenon DEF RowInv, StoreTypeOK
<1>2. tx[r] = "none"
  BY Zenon DEF NonceInv
<1>3. FlightInv'
  BY <1>1, <1>2, Zenon DEF FlightInv, BroadcastNeverForgotten, LockCoversInFlight, AtLarge
<1>4. GapInv'
  BY <1>1, Zenon DEF GapInv, NoNonceGap, Allocated
<1>5. TruthInv'
  BY <1>1, <1>2, Zenon DEF TruthInv, CandidateTellsTheTruth, MoveCandidate
<1> QED
  BY <1>3, <1>4, <1>5, Zenon

LEMMA AllocateOne ==
    ASSUME RowInv, ChainTypeOK, RowsInv, NEW r \in Direct, NEW n \in Nat, n <= chainNonce,
           CanAllocate(r), tx[r] = "none", allocate_nonce(r, n), UNCHANGED chainVars
    PROVE  RowsInv'
<1> USE DEF RowsInv, CanAllocate, allocate_nonce, chainVars, txVars, controlVars, atlasVars, lossVars
<1>1. /\ status \in [Direct -> AttemptStatus] /\ nonce \in [Direct -> Nat] /\ nextNonce \in Nat
      /\ cand \in [Direct -> CandidateStatus]
  BY Zenon DEF RowInv, StoreTypeOK
<1>2. lock = r /\ nextNonce <= chainNonce /\ chainNonce \in Nat
  BY AtWork, Zenon DEF ActiveStatuses, Allocated, ChainTypeOK
<1>3. FlightInv'
  BY <1>1, Zenon DEF FlightInv, BroadcastNeverForgotten, LockCoversInFlight
<1>4. GapInv'
  BY <1>1, <1>2, Zenon DEF GapInv, NoNonceGap, Allocated, AtLarge, Mined
<1>5. TruthInv'
  BY <1>1, Zenon DEF TruthInv, CandidateTellsTheTruth
<1> QED
  BY <1>3, <1>4, <1>5, Zenon

LEMMA SignOne ==
    ASSUME RowInv, RowsInv, NEW r \in Direct, mark_signed(r), UNCHANGED chainVars
    PROVE  RowsInv'
<1> USE DEF RowsInv, mark_signed, chainVars, txVars, attemptVars, controlVars, atlasVars, lossVars
<1>1. cand \in [Direct -> CandidateStatus]
  BY Zenon DEF RowInv, StoreTypeOK
<1>2. TruthInv'
  BY <1>1, CandidatesMove, Zenon DEF MoveCandidate, Silent
<1> QED
  BY <1>2, Zenon DEF FlightInv, BroadcastNeverForgotten, LockCoversInFlight, GapInv, NoNonceGap

LEMMA UnknownOne ==
    ASSUME RowInv, RowsInv, NEW r \in Direct, HasUnsubmittedNonce(r), mark_submission_unknown(r), UNCHANGED chainVars
    PROVE  RowsInv'
<1> USE DEF RowsInv, HasUnsubmittedNonce, mark_submission_unknown, chainVars, txVars, controlVars, atlasVars, lossVars
<1>1. status \in [Direct -> AttemptStatus] /\ cand \in [Direct -> CandidateStatus]
  BY Zenon DEF RowInv, StoreTypeOK
<1>2. FlightInv'
  BY <1>1, Zenon DEF FlightInv, BroadcastNeverForgotten, LockCoversInFlight
<1>3. GapInv'
  BY <1>1, Zenon DEF GapInv, NoNonceGap, Allocated
<1>4. TruthInv'
  BY <1>1, ZenonT(30) DEF TruthInv, CandidateTellsTheTruth, MoveCandidate
<1> QED
  BY <1>2, <1>3, <1>4, Zenon

LEMMA RollBackOne ==
    ASSUME RowInv, ChainTypeOK, RowsInv, NEW r \in Direct, CanRollBack(r), tx[r] = "none", fail_unsubmitted(r), UNCHANGED chainVars
    PROVE  RowsInv'
<1> USE DEF RowsInv, CanRollBack, HasUnsubmittedNonce, fail_unsubmitted, chainVars, txVars, controlVars, atlasVars, lossVars
<1>1. /\ status \in [Direct -> AttemptStatus] /\ nonce \in [Direct -> Nat] /\ nextNonce \in Nat
      /\ cand \in [Direct -> CandidateStatus] /\ NoOwner \notin Direct \cup Auction /\ r \notin Auction
  BY StoreAssumption, Zenon DEF RowInv, StoreTypeOK
<1>2. lock = r /\ nonce[r] <= chainNonce
  BY AtWork, Zenon DEF ActiveStatuses, Allocated
<1>3. FlightInv'
  BY <1>1, <1>2, Zenon DEF FlightInv, BroadcastNeverForgotten, LockCoversInFlight, Released, AtLarge
<1>4. GapInv'
  BY <1>1, <1>2, Zenon DEF GapInv, NoNonceGap, Released
<1>5. TruthInv'
  BY <1>1, Zenon DEF TruthInv, CandidateTellsTheTruth, MoveCandidate
<1> QED
  BY <1>3, <1>4, <1>5, Zenon

LEMMA PendingOne ==
    ASSUME RowInv, RowsInv, NEW r \in Direct, HasUnsubmittedNonce(r), tx[r] # "none", mark_pending(r), UNCHANGED chainVars
    PROVE  RowsInv'
<1> USE DEF RowsInv, HasUnsubmittedNonce, mark_pending, chainVars, txVars, controlVars, atlasVars, lossVars
<1>1. status \in [Direct -> AttemptStatus] /\ cand \in [Direct -> CandidateStatus]
  BY Zenon DEF RowInv, StoreTypeOK
<1>2. FlightInv'
  BY <1>1, Zenon DEF FlightInv, BroadcastNeverForgotten, LockCoversInFlight
<1>3. GapInv'
  BY <1>1, Zenon DEF GapInv, NoNonceGap, Allocated
<1>4. TruthInv'
  BY <1>1, Zenon DEF TruthInv, CandidateTellsTheTruth, MoveCandidate
<1> QED
  BY <1>2, <1>3, <1>4, Zenon

\* mark_terminal, as it is reached by one process: failed before anything was
\* sent, settled with a mined transaction, or still under observation.
LEMMA TerminalOne ==
    ASSUME RowInv, ChainTypeOK, RowsInv, UNCHANGED chainVars,
           NEW r \in Direct, NEW to, NEW loss, NEW limitHit, mark_terminal(r, to, loss, limitHit),
           \/ to = "failed" /\ status[r] = "claimed"
           \/ to \in {"confirmed", "reverted"} /\ status[r] \in {"pending", "timed_out"} /\ tx[r] \in Mined
           \/ to \in {"timed_out", "replaced"} /\ status[r] \in {"pending", "timed_out"}
    PROVE  RowsInv'
<1> USE DEF RowsInv, mark_terminal, chainVars, txVars, atlasVars
<1>1. /\ status \in [Direct -> AttemptStatus] /\ nonce \in [Direct -> Nat] /\ nextNonce \in Nat
      /\ cand \in [Direct -> CandidateStatus] /\ NoOwner \notin Direct \cup Auction /\ r \notin Auction
      /\ chainNonce \in Nat
  BY StoreAssumption, Zenon DEF RowInv, StoreTypeOK, ChainTypeOK
<1>2. /\ lock = r
      /\ status[r] \in Allocated => nextNonce = nonce[r] + 1 /\ nonce[r] <= chainNonce
      /\ status[r] \notin Allocated => nextNonce <= chainNonce
  BY AtWork, Zenon DEF ActiveStatuses
<1>3. status[r] = "claimed" => tx[r] = "none"
  BY Zenon DEF FlightInv, BroadcastNeverForgotten
<1>4. FlightInv'
  BY <1>1, <1>2, <1>3, Zenon DEF FlightInv, BroadcastNeverForgotten, LockCoversInFlight, Released, AtLarge, Mined
<1>5. GapInv'
  <2>1. (\A s \in Direct : tx[s] \in Mined => nonce[s] < chainNonce) /\ NoNonceGap
    BY Zenon DEF GapInv
  <2>2. CASE to \in {"confirmed", "reverted", "failed"}
    <3>1. lock' = NoOwner /\ nextNonce <= chainNonce
      BY <1>1, <1>2, <2>1, <2>2, SMTT(30) DEF Released, Allocated
    <3> QED
      BY <1>1, <2>1, <3>1, Zenon DEF GapInv, NoNonceGap
  <2>3. CASE to \in {"timed_out", "replaced"}
    <3>1. lock' = r /\ status'[r] = to /\ to \in Allocated /\ status[r] \in Allocated
      BY <1>1, <1>2, <2>3, Zenon DEF Allocated
    <3> QED
      BY <1>1, <1>2, <2>1, <3>1, Zenon DEF GapInv, NoNonceGap
  <2> QED
    BY <2>2, <2>3, Zenon
<1>6. TruthInv'
  <2> DEFINE c == MoveCandidate(cand, r, {"claimed", "signed", "submitted"}, TerminalCandidate(to))
  <2>1. c \in [Direct -> CandidateStatus] /\ \A s \in Direct \ {r} : c[s] = cand[s]
    BY <1>1, Zenon DEF MoveCandidate, TerminalCandidate, CandidateStatus
  <2>2. /\ c[r] \notin {"claimed", "signed", "submitted"}
        /\ c[r] = cand[r] \/ c[r] = TerminalCandidate(to)
    BY <1>1, Zenon DEF MoveCandidate, TerminalCandidate
  <2> HIDE DEF c
  <2>3. cand' \in {c, DisarmCandidates(c)}
    BY Zenon DEF apply_autonomous_risk_feedback, c
  <2>4. \A s \in Direct : cand'[s] = c[s] \/ cand'[s] = "disarmed"
    BY <2>3, Zenon DEF DisarmCandidates
  <2>5. \A s \in Direct \ {r} : status'[s] = status[s]
    BY <1>1, Zenon
  <2>6. status'[r] = to
    BY <1>1, Zenon
  <2>7. /\ status[r] \in {"claimed", "pending", "timed_out"}
        /\ to = "failed" => tx[r] = "none"
        /\ TerminalCandidate(to) \in {"confirmed", "reverted"} => TerminalCandidate(to) = to /\ tx[r] \in Mined
        /\ TerminalCandidate(to) = "submission_failed_known" => to = "failed"
        /\ TerminalCandidate(to) \in {"confirmed", "reverted", "submission_failed_known", "disarmed"}
    BY <1>3, Zenon DEF TerminalCandidate
  <2>8. ASSUME NEW s \in Direct, s # r
        PROVE  /\ cand'[s] = "submission_failed_known" => tx[s] = "none" /\ status'[s] = "failed"
               /\ cand'[s] \in {"confirmed", "reverted"} => status'[s] = cand'[s] /\ tx[s] \in Mined
               /\ cand'[s] \in {"materialized", "approval_pending", "expired", "rejected"} => status'[s] = "absent"
               /\ cand'[s] = "submitted" => status'[s] = "pending"
    BY <2>1, <2>4, <2>5, <2>8, SMTT(30) DEF TruthInv, CandidateTellsTheTruth
  <2>9. /\ cand'[r] = "submission_failed_known" => tx[r] = "none" /\ status'[r] = "failed"
        /\ cand'[r] \in {"confirmed", "reverted"} => status'[r] = cand'[r] /\ tx[r] \in Mined
        /\ cand'[r] \in {"materialized", "approval_pending", "expired", "rejected"} => status'[r] = "absent"
        /\ cand'[r] = "submitted" => status'[r] = "pending"
    BY <2>2, <2>4, <2>6, <2>7, SMTT(30) DEF TruthInv, CandidateTellsTheTruth
  <2> QED
    BY <2>8, <2>9, ZenonT(30) DEF TruthInv, CandidateTellsTheTruth
<1> QED
  BY <1>4, <1>5, <1>6, Zenon

\* The signed transaction reaches the network.
LEMMA SendOne ==
    ASSUME RowInv, ChainTypeOK, RowsInv, NEW r \in Direct, status[r] = "nonce_allocated", tx[r] = "none",
           nonce[r] >= chainNonce, tx' = [tx EXCEPT ![r] = "mempool"],
           UNCHANGED <<storeVars, chainNonce, foreign, op>>
    PROVE  RowsInv'
<1> USE DEF RowsInv, storeVars, attemptVars, atlasVars
<1>1. tx \in [Direct -> Mined \cup AtLarge \cup {"none", "dead"}] /\ chainNonce \in Nat /\ nonce \in [Direct -> Nat]
  BY Zenon DEF ChainTypeOK, RowInv, StoreTypeOK
<1>2. lock = r /\ nonce[r] <= chainNonce
  BY AtWork, Zenon DEF ActiveStatuses, Allocated
<1>3. FlightInv'
  BY <1>1, <1>2, Zenon DEF FlightInv, BroadcastNeverForgotten, LockCoversInFlight, AtLarge, Mined
<1>4. GapInv'
  BY <1>1, <1>2, SMTT(30) DEF GapInv, NoNonceGap, AtLarge, Mined
<1>5. TruthInv'
  BY <1>1, Zenon DEF TruthInv, CandidateTellsTheTruth, Mined
<1> QED
  BY <1>3, <1>4, <1>5, Zenon

-----------------------------------------------------------------------------
(* The chain and the control plane.                                        *)

\* The chain moves transactions forward and the rows stay.
LEMMA MinedOne ==
    ASSUME IInv, RowsInv, PlaceInv, UNCHANGED <<storeVars, op, pc, cur, net>>,
           chainNonce' = chainNonce + 1, tx' \in [Direct -> Mined \cup AtLarge \cup {"none", "dead"}],
           \A r \in Direct : \/ tx'[r] = tx[r] /\ tx[r] \notin AtLarge
                             \/ tx[r] \in AtLarge /\ tx'[r] \in {"dead"} \cup Mined
    PROVE  RowsInv' /\ PlaceInv'
<1> USE DEF RowsInv, storeVars, attemptVars, atlasVars
<1>1. chainNonce \in Nat /\ nonce \in [Direct -> Nat] /\ nextNonce \in Nat
  BY Zenon DEF IInv, ChainTypeOK, RowInv, StoreTypeOK
<1>2. FlightInv'
  BY Zenon DEF FlightInv, BroadcastNeverForgotten, LockCoversInFlight, AtLarge, Mined
<1>3. GapInv'
  BY <1>1, SMTT(30) DEF GapInv, NoNonceGap, AtLarge, Mined
<1>4. TruthInv'
  BY Zenon DEF TruthInv, CandidateTellsTheTruth, AtLarge, Mined
<1>5. PlaceInv'
  <2> SUFFICES ASSUME NEW p \in Proc PROVE Place(p)'
    BY Zenon DEF PlaceInv
  <2>1. Place(p) /\ (pc[p] \in {"sent", "persist_failed", "complete"} => cur[p] \in Direct) /\ net[p] \in Nat
    BY Zenon DEF PlaceInv, IInv, ProcessInv, WorkInv, DirectPc, ExecutorPc, ProcTypeOK
  <2>2. pc[p] \in {"sent", "persist_failed"} => tx'[cur[p]] # "none"
    BY <2>1, Zenon DEF Place, Mined, AtLarge
  <2>3. pc[p] = "complete" => tx'[cur[p]] \in Mined
    BY <2>1, Zenon DEF Place, Mined, AtLarge
  <2>4. pc[p] = "allocate" => net[p] <= chainNonce'
    <3>1. pc[p] = "allocate" => net[p] <= chainNonce
      BY <2>1, Zenon DEF Place
    <3> QED
      BY <1>1, <2>1, <3>1, SMTT(30)
  <2> QED
    BY <2>1, <2>2, <2>3, <2>4, Zenon DEF Place
<1> QED
  BY <1>2, <1>3, <1>4, <1>5, Zenon

\* A transaction that leaves the node's pool, or comes back to it.
LEMMA PooledOne ==
    ASSUME RowsInv, PlaceInv, UNCHANGED <<storeVars, chainNonce, op, pc, cur, net>>, ChainTypeOK,
           NEW r \in Direct, tx[r] \in AtLarge, NEW to \in AtLarge, tx' = [tx EXCEPT ![r] = to]
    PROVE  RowsInv' /\ PlaceInv'
<1> USE DEF RowsInv, storeVars, attemptVars, atlasVars
<1>1. \A s \in Direct : tx'[s] = tx[s] \/ (tx[s] \in AtLarge /\ tx'[s] \in AtLarge)
  BY Zenon DEF ChainTypeOK
<1>2. \A s \in DOMAIN tx : tx'[s] = tx[s] \/ (tx[s] \in AtLarge /\ tx'[s] \in AtLarge)
  BY Zenon DEF ChainTypeOK
<1>3. FlightInv'
  BY <1>1, ZenonT(30) DEF FlightInv, BroadcastNeverForgotten, LockCoversInFlight, AtLarge, Mined
<1>4. GapInv'
  BY <1>1, Zenon DEF GapInv, NoNonceGap, AtLarge, Mined
<1>5. TruthInv'
  BY <1>1, Zenon DEF TruthInv, CandidateTellsTheTruth, AtLarge, Mined
<1>6. PlaceInv'
  BY <1>2, SMTT(30) DEF PlaceInv, Place, AtLarge, Mined
<1> QED
  BY <1>3, <1>4, <1>5, <1>6, Zenon

\* A solver operation that is decided, or can no longer be included.
LEMMA DecidedOne ==
    ASSUME RowsInv, PlaceInv, UNCHANGED <<storeVars, txVars, pc, cur, net>>, ChainTypeOK,
           NEW a \in Auction, NEW to \in {"won", "failed", "bad", "expired"}, op' = [op EXCEPT ![a] = to]
    PROVE  RowsInv' /\ PlaceInv'
<1> USE DEF RowsInv, storeVars, attemptVars, atlasVars, txVars
<1>1. \A b : op'[b] = op[b] \/ op'[b] # "live"
  BY SMTT(30) DEF ChainTypeOK
<1>2. FlightInv'
  BY <1>1, Zenon DEF FlightInv, BroadcastNeverForgotten, LockCoversInFlight
<1>3. GapInv' /\ TruthInv'
  BY Zenon DEF GapInv, NoNonceGap, TruthInv, CandidateTellsTheTruth
<1>4. PlaceInv'
  BY <1>1, ZenonT(30) DEF PlaceInv, Place
<1> QED
  BY <1>2, <1>3, <1>4, Zenon

LEMMA ChainOne ==
    ASSUME IInv, IInv', RowsInv, PlaceInv, ChainNext, UNCHANGED procVars
    PROVE  RowsInv' /\ PlaceInv'
<1> USE DEF procVars
<1>1. ChainTypeOK /\ ChainTypeOK'
  BY Zenon DEF IInv
<1>2. ASSUME NEW r \in Direct, NEW outcome \in Mined, Mine(r, outcome) PROVE RowsInv' /\ PlaceInv'
  <2>1. \A s \in Direct : \/ tx'[s] = tx[s] /\ tx[s] \notin AtLarge
                          \/ tx[s] \in AtLarge /\ tx'[s] \in {"dead"} \cup Mined
    BY <1>1, <1>2, Zenon DEF Mine, Supersede, ChainTypeOK, RowsInv, GapInv, NoNonceGap, AtLarge, Mined
  <2> QED
    BY <1>1, <1>2, <2>1, MinedOne, ZenonT(30) DEF Mine, ChainTypeOK
<1>3. ASSUME MineForeign PROVE RowsInv' /\ PlaceInv'
  <2>1. \A s \in Direct : \/ tx'[s] = tx[s] /\ tx[s] \notin AtLarge
                          \/ tx[s] \in AtLarge /\ tx'[s] \in {"dead"} \cup Mined
    BY <1>1, <1>3, Zenon DEF MineForeign, Supersede, ChainTypeOK, RowsInv, GapInv, NoNonceGap, AtLarge, Mined
  <2> QED
    BY <1>1, <1>3, <2>1, MinedOne, Zenon DEF MineForeign, ChainTypeOK
<1>4. ASSUME NEW r \in Direct, Drop(r) \/ Rebroadcast(r) PROVE RowsInv' /\ PlaceInv'
  BY <1>1, <1>4, PooledOne, Zenon DEF Drop, Rebroadcast, AtLarge
<1>5. ASSUME NEW a \in Auction, PassDeadline(a) \/ \E outcome \in {"won", "failed", "bad"} : Include(a, outcome)
      PROVE  RowsInv' /\ PlaceInv'
  BY <1>1, <1>5, DecidedOne, Zenon DEF PassDeadline, Include
<1> QED
  BY <1>2, <1>3, <1>4, <1>5, Zenon DEF ChainNext

\* The control plane, the hunter and the clock: no attempt in progress moves.
LEMMA ControlOne ==
    ASSUME IInv, IInv', RowsInv, PlaceInv, ControlNext, UNCHANGED <<chainVars, procVars>>
    PROVE  RowsInv' /\ PlaceInv'
<1> USE DEF procVars, chainVars, txVars
<1>1. UNCHANGED <<nonce, nextNonce, lock>>
  BY ZenonT(30) DEF ControlNext, Activate, CreateReadiness, SetMaxReviewed, PostArmRecovery, arm_revenue_lanes, ProviderRecovery,
         OperatorDisarm, route_failure, SupervisorFailClose, fail_close_provider_execution_gate, RecordProviderFailure,
         RecordProviderSuccess, InsertCandidate, insertExecutionCandidate, insertAtlasCandidate, NewDay,
         othersUnchanged, attemptVars, atlasVars
<1>2. /\ status' = status \/ \E r \in Direct \ Dex : status[r] = "absent" /\ status' = [status EXCEPT ![r] = "approved"]
      /\ astatus' = astatus \/ \E a \in Auction : astatus[a] = "absent" /\ astatus' = [astatus EXCEPT ![a] = "ready"]
  BY ZenonT(30) DEF ControlNext, Activate, CreateReadiness, SetMaxReviewed, PostArmRecovery, arm_revenue_lanes, ProviderRecovery,
         OperatorDisarm, route_failure, SupervisorFailClose, fail_close_provider_execution_gate, RecordProviderFailure,
         RecordProviderSuccess, InsertCandidate, insertExecutionCandidate, insertAtlasCandidate, NewDay,
         othersUnchanged, attemptVars, atlasVars
<1>3. \/ cand' = cand
      \/ status' = status /\ cand' = DisarmCandidates(cand)
      \/ status' = status /\ \E r \in Dex : cand[r] = "none" /\ cand' = [cand EXCEPT ![r] = "materialized"]
  BY Zenon DEF ControlNext, Activate, CreateReadiness, SetMaxReviewed, PostArmRecovery, arm_revenue_lanes, ProviderRecovery,
         OperatorDisarm, route_failure, SupervisorFailClose, fail_close_provider_execution_gate, RecordProviderFailure,
         RecordProviderSuccess, InsertCandidate, insertExecutionCandidate, insertAtlasCandidate, NewDay,
         othersUnchanged, attemptVars, atlasVars, fail_close_execution_authority
<1>4. /\ status \in [Direct -> AttemptStatus] /\ cand \in [Direct -> CandidateStatus]
      /\ astatus \in [Auction -> AtlasStatus] /\ Dex \subseteq Direct
  BY Zenon DEF IInv, RowInv, StoreTypeOK, Dex
<1>5. /\ \A r \in Direct : status'[r] = status[r] \/ (r \in Direct \ Dex /\ status[r] = "absent" /\ status'[r] = "approved")
      /\ \A a \in Auction : astatus'[a] = astatus[a] \/ (a \in Auction /\ astatus[a] = "absent" /\ astatus'[a] = "ready")
  BY <1>2, <1>4, Zenon
<1>6. \A r \in Direct : /\ status[r] = "absent" => tx[r] = "none"
                        /\ r \notin Dex => cand[r] = "none"
                        /\ r \in Dex /\ cand[r] = "none" => status[r] = "absent"
  BY Zenon DEF IInv, ProcessInv, NonceInv, RowInv, CandidateInv
<1>7. lock \in Direct => status[lock] # "absent" /\ status'[lock] = status[lock]
  BY <1>5, Zenon DEF IInv, RowInv, LockMatchesWork, ActiveStatuses
<1>8. FlightInv'
  BY <1>1, <1>5, <1>6, Zenon DEF RowsInv, FlightInv, BroadcastNeverForgotten, LockCoversInFlight
<1>9. GapInv'
  BY <1>1, <1>7, Zenon DEF RowsInv, GapInv, NoNonceGap
<1>10. TruthInv'
  <2>1. CASE status' = status
    <3>1. \A r \in Direct : \/ cand'[r] = cand[r] \/ cand'[r] \in Silent
                            \/ status[r] = "absent" /\ cand'[r] \in {"materialized", "approval_pending", "expired", "rejected"}
      BY <1>3, <1>4, <1>6, Zenon DEF DisarmCandidates, Silent
    <3> QED
      BY <1>4, <2>1, <3>1, CandidatesMove, Zenon DEF RowsInv
  <2>2. CASE cand' = cand
    BY <1>5, <1>6, <2>2, ZenonT(30) DEF RowsInv, TruthInv, CandidateTellsTheTruth
  <2> QED
    BY <1>3, <2>1, <2>2, Zenon
<1>11. ASSUME NEW p \in Proc PROVE Place(p)'
  <2>1. Place(p) /\ WorkInv
    BY Zenon DEF PlaceInv, IInv, ProcessInv
  <2>2. /\ pc[p] \in AtClaimed \cup AtAllocated \cup AtPending \cup {"persist_failed"} => cur[p] \in Direct
        /\ pc[p] \in AtSigned \cup {"atlas_validate", "atlas_sign", "atlas_reject"} => cur[p] \in Auction
    BY <2>1, AtCall, Zenon
  <2> QED
    BY <1>5, <2>1, <2>2, ZenonT(30) DEF Place
<1> QED
  BY <1>8, <1>9, <1>10, <1>11, Zenon DEF RowsInv, PlaceInv

-----------------------------------------------------------------------------
(* The direct lanes.                                                       *)

\* The decisions of step and reconcile_active.
LEMMA DecideOne ==
    ASSUME OneProcess, IInv, RowsInv, PlaceInv, NEW p \in Proc,
           \/ Gate(p) \/ CheckContract(p) \/ Sign(p) \/ RecheckControl(p) \/ RecheckBudget(p)
           \/ ReceiptError(p) \/ ReceiptMissing(p) \/ TransactionKnown(p) \/ ReplacementNonce(p)
           \/ RecordMonitorError(p) \/ ConfirmedLoss(p) \/ Restart(p)
    PROVE  RowsInv' /\ PlaceInv'
<1>1. /\ {"atlas", "disarm", "claim", "fatal", "materialize"} \subseteq FreePc
      /\ \A to \in {"nonce", "fail", "fail_disarm"} : Relies("contract", to)
      /\ \A to \in {"unsubmitted", "unsubmitted_exit", "sign"} : Relies("allocated", to)
      /\ \A to \in {"budget", "unsubmitted"} : Relies("recheck", to)
      /\ \A to \in {"send", "unsubmitted", "unsubmitted_disarm"} : Relies("budget", to)
      /\ \A to \in {"known", "monitor"} : Relies("receipt", to)
      /\ \A to \in {"monitor", "timeout", "replaced"} : Relies("known", to)
      /\ \A to \in {"monitor", "mark_replaced", "timeout"} : Relies("replaced", to)
  BY ZenonT(30) DEF FreePc, Relies, AtClaimed, AtAllocated, AtPending, AtSigned, NoncePc, ClaimantPc
<1>2. \E from, to : \/ Branch(p, from, to) /\ Relies(from, to)
                    \/ Finish(p, from, to) /\ to \in FreePc
                    \/ Branch(p, from, to) /\ to \in FreePc
  BY <1>1, ZenonT(30) DEF Gate, CheckContract, Sign, RecheckControl, RecheckBudget, ReceiptError, ReceiptMissing, TransactionKnown,
              ReplacementNonce, RecordMonitorError, Refused, ConfirmedLoss, Restart
<1> QED
  BY <1>2, BranchOne, Zenon

\* The step finds an attempt, and a mined receipt.
LEMMA ResumeOne ==
    ASSUME OneProcess, IInv, RowsInv, PlaceInv, NEW p \in Proc, ActiveAttempt(p) \/ ReceiptFound(p)
    PROVE  RowsInv' /\ PlaceInv'
<1>1. ProcTypeOK /\ StoreTypeOK
  BY Zenon DEF IInv, RowInv
<1>2. RowsInv'
  BY RowsStay, ZenonT(30) DEF ActiveAttempt, ReceiptFound, Branch, storeVars, attemptVars, atlasVars, chainVars, txVars
<1>3. ASSUME ActiveAttempt(p) PROVE PlaceInv'
  <2>1. ASSUME NEW to \in FreePc, pc' = [pc EXCEPT ![p] = to] PROVE PlaceInv'
    BY <1>1, <2>1, FreeMove, Zenon
  <2>2. {"gate", "fatal"} \subseteq FreePc
    BY Zenon DEF FreePc
  <2>3. ASSUME NEW r \in Active, pc' = [pc EXCEPT ![p] = Resume[status[r]]], cur' = [cur EXCEPT ![p] = r]
        PROVE  PlaceInv'
    <3>1. /\ pc'[p] = Resume[status[r]] /\ cur'[p] = r /\ status'[r] = status[r] /\ r \in Direct
          /\ status[r] \in ActiveStatuses
      BY <1>1, <1>3, <2>3, Zenon DEF ProcTypeOK, ActiveAttempt, storeVars, attemptVars, Active
    <3>2. CASE status[r] = "submission_unknown"
      BY <2>1, <2>3, <3>1, <3>2, Zenon DEF Resume, FreePc
    <3>3. CASE status[r] # "submission_unknown"
      <4>1. \/ pc'[p] = "was_claimed" /\ status[r] = "claimed"
            \/ pc'[p] = "was_allocated" /\ status[r] = "nonce_allocated"
            \/ pc'[p] = "receipt" /\ status[r] \in {"pending", "timed_out"}
        BY <3>1, <3>3, Zenon DEF Resume, ActiveStatuses
      <4>2. Place(p)'
        BY <3>1, <4>1, Places, Zenon DEF Place
      <4> QED
        BY <1>1, <4>2, OnlyMove, Zenon
    <3> QED
      BY <3>2, <3>3, Zenon
  <2> QED
    BY <1>3, <2>1, <2>2, <2>3, Zenon DEF ActiveAttempt, Goto, Leave
<1>4. ASSUME ReceiptFound(p) PROVE PlaceInv'
  <2>1. pc'[p] = "complete" /\ cur'[p] = cur[p] /\ status' = status /\ tx' = tx /\ tx[cur[p]] \in Mined /\ pc[p] = "receipt"
    BY <1>1, <1>4, Zenon DEF ReceiptFound, Branch, Goto, ProcTypeOK, storeVars, attemptVars, chainVars, txVars
  <2>2. status[cur[p]] \in {"pending", "timed_out"}
    BY <2>1, ZenonT(30) DEF PlaceInv, Place, AtPending
  <2>3. Place(p)'
    BY <2>1, <2>2, Zenon DEF Place, AtClaimed, AtAllocated, AtPending, AtSigned, NoncePc, ClaimantPc
  <2> QED
    BY <1>1, <2>3, OnlyMove, Zenon
<1> QED
  BY <1>2, <1>3, <1>4, Zenon

LEMMA ClaimStepOne ==
    ASSUME OneProcess, IInv, RowsInv, PlaceInv, NEW p \in Proc, ClaimApproved(p)
    PROVE  RowsInv' /\ PlaceInv'
<1>1. CASE Finish(p, "claim", "atlas")
  BY <1>1, BranchOne, Zenon DEF FreePc
<1>2. ASSUME NEW r \in Direct, CanClaim(r), claim_approved(r), pc' = [pc EXCEPT ![p] = "contract"],
             cur' = [cur EXCEPT ![p] = r], UNCHANGED chainVars
      PROVE  RowsInv' /\ PlaceInv'
  <2>1. RowsInv'
    BY <1>2, ClaimOne, Zenon DEF IInv, ProcessInv
  <2>2. pc'[p] = "contract" /\ cur'[p] = r /\ status'[r] = "claimed"
    BY <1>2, Zenon DEF IInv, RowInv, StoreTypeOK, ProcTypeOK, claim_approved
  <2>3. Place(p)'
    BY <2>2, Places, Zenon DEF Place
  <2> QED
    BY <2>1, <2>3, OnlyMove, Zenon DEF IInv
<1> QED
  BY <1>1, <1>2, Zenon DEF ClaimApproved

\* With the claim nothing of the wallet is in the pool, so the node's answer is
\* the count of mined transactions.
LEMMA PendingNonceOne ==
    ASSUME OneProcess, IInv, RowsInv, PlaceInv, NEW p \in Proc, PendingNonce(p)
    PROVE  RowsInv' /\ PlaceInv'
<1>1. CASE Branch(p, "nonce", "fail_disarm")
  <2>1. Relies("nonce", "fail_disarm")
    BY Zenon DEF Relies, AtClaimed, AtAllocated, AtPending, AtSigned, NoncePc, ClaimantPc
  <2> QED
    BY <1>1, <2>1, BranchOne, Zenon
<1>2. ASSUME NEW n \in PendingNonces, pc[p] = "nonce", pc' = [pc EXCEPT ![p] = "allocate"], net' = [net EXCEPT ![p] = n],
             UNCHANGED <<cur, storeVars, chainVars>>
      PROVE  RowsInv' /\ PlaceInv'
  <2>1. /\ cur[p] \in Direct /\ status[cur[p]] = "claimed" /\ tx[cur[p]] = "none"
    BY <1>2, AtCall, ZenonT(30) DEF IInv, ProcessInv, WorkInv, UnsentPc, ClaimantPc, PlaceInv, Place, AtClaimed
  <2>2. lock = cur[p]
    BY <2>1, AtWork, Zenon DEF IInv, RowsInv, ActiveStatuses
  <2>3. \A s \in Direct : tx[s] # "mempool"
    BY <2>1, <2>2, Zenon DEF RowsInv, FlightInv, LockCoversInFlight, AtLarge
  <2>4. n = chainNonce
    <3>1. n \in Nat /\ chainNonce \in Nat /\ n >= chainNonce /\ \A m \in chainNonce .. (n - 1) : PooledFrom(m)
      BY <1>2, SMTT(30) DEF PendingNonces, IInv, ChainTypeOK
    <3>2. ~PooledFrom(chainNonce)
      BY <2>3, Zenon DEF PooledFrom
    <3> QED
      BY <3>1, <3>2, SMTT(30)
  <2>5. pc'[p] = "allocate" /\ net'[p] = chainNonce' /\ cur'[p] = cur[p] /\ status' = status
    BY <1>2, <2>4, Zenon DEF IInv, ProcTypeOK, storeVars, attemptVars, chainVars, txVars
  <2>6. chainNonce' \in Nat
    BY <1>2, Zenon DEF IInv, ChainTypeOK, chainVars, txVars
  <2>7. Place(p)'
    BY <2>1, <2>5, <2>6, Places, SMTT(30) DEF Place
  <2>8. RowsInv'
    BY <1>2, RowsStay, Zenon DEF storeVars, attemptVars, atlasVars, chainVars, txVars
  <2> QED
    BY <2>7, <2>8, OnlyMove, Zenon DEF IInv
<1> QED
  BY <1>1, <1>2, Zenon DEF PendingNonce

LEMMA AllocateStepOne ==
    ASSUME OneProcess, IInv, RowsInv, PlaceInv, NEW p \in Proc, AllocateNonce(p) \/ MarkSigned(p)
    PROVE  RowsInv' /\ PlaceInv'
<1>1. ProcTypeOK /\ StoreTypeOK /\ RowInv /\ ChainTypeOK /\ WorkInv /\ net[p] \in Nat
  BY Zenon DEF IInv, RowInv, ProcessInv, ProcTypeOK
<1>2. CASE Refused(p, "allocate", CanAllocate(cur[p])) \/ Refused(p, "sign", HasUnsubmittedNonce(cur[p]))
  BY <1>2, BranchOne, Zenon DEF Refused, FreePc
<1>3. CASE Commit(p, "allocate", "allocated", CanAllocate(cur[p])) /\ allocate_nonce(cur[p], net[p])
  <2>1. cur[p] \in Direct /\ tx[cur[p]] = "none" /\ net[p] <= chainNonce
    BY <1>1, <1>3, AtCall, ZenonT(30) DEF Commit, WorkInv, UnsentPc, ClaimantPc, PlaceInv, Place, AtClaimed
  <2>2. RowsInv'
    BY <1>1, <1>3, <2>1, AllocateOne, ZenonT(30) DEF Commit
  <2>3. pc'[p] = "allocated" /\ cur'[p] = cur[p] /\ status'[cur[p]] = "nonce_allocated"
    BY <1>1, <1>3, <2>1, Zenon DEF Commit, Goto, ProcTypeOK, StoreTypeOK, allocate_nonce
  <2>4. Place(p)'
    BY <2>3, Places, Zenon DEF Place
  <2> QED
    BY <1>1, <2>2, <2>4, OnlyMove, Zenon
<1>4. CASE Commit(p, "sign", "recheck", HasUnsubmittedNonce(cur[p])) /\ mark_signed(cur[p])
  <2>1. cur[p] \in Direct
    BY <1>1, <1>4, AtCall, ZenonT(30) DEF Commit, AtAllocated, NoncePc, ClaimantPc
  <2>2. RowsInv'
    BY <1>1, <1>4, <2>1, SignOne, Zenon DEF Commit
  <2>3. pc'[p] = "recheck" /\ cur'[p] = cur[p] /\ status'[cur[p]] = "nonce_allocated"
    BY <1>1, <1>4, <2>1, Zenon DEF Commit, Goto, ProcTypeOK, HasUnsubmittedNonce, mark_signed, attemptVars
  <2>4. Place(p)'
    BY <2>3, Places, Zenon DEF Place
  <2> QED
    BY <1>1, <2>2, <2>4, OnlyMove, Zenon
<1> QED
  BY <1>2, <1>3, <1>4, Zenon DEF AllocateNonce, MarkSigned

\* The request ends, or its outcome is left to be observed.
LEMMA TerminalStepOne ==
    ASSUME OneProcess, IInv, RowsInv, PlaceInv, NEW p \in Proc,
           FailClaimed(p) \/ RestartClaimed(p) \/ MarkReplaced(p) \/ ReceiptTimeout(p) \/ CompleteReceipt(p)
    PROVE  RowsInv' /\ PlaceInv'
<1>1. ProcTypeOK /\ RowInv /\ ChainTypeOK /\ WorkInv
  BY Zenon DEF IInv, ProcessInv
<1>2. ASSUME NEW from \in {"fail", "fail_disarm", "was_claimed", "mark_replaced", "timeout", "complete"}, NEW can,
             Refused(p, from, can)
      PROVE  RowsInv' /\ PlaceInv'
  BY <1>2, BranchOne, Zenon DEF Refused, FreePc
<1>3. CASE Finish(p, "timeout", "atlas")
  BY <1>3, BranchOne, Zenon DEF FreePc
<1>4. CASE Branch(p, "complete", "monitor")
  <2>1. Relies("complete", "monitor")
    BY Zenon DEF Relies, AtClaimed, AtAllocated, AtPending, AtSigned, NoncePc, ClaimantPc
  <2> QED
    BY <1>4, <2>1, BranchOne, Zenon
<1>5. ASSUME NEW from, NEW to \in FreePc, NEW can, NEW st, NEW loss, NEW limitHit,
             Commit(p, from, to, can) \/ CommitLast(p, from, to, can), mark_terminal(cur[p], st, loss, limitHit),
             \/ from \in {"fail", "fail_disarm", "was_claimed"} /\ st = "failed"
             \/ from = "mark_replaced" /\ st = "replaced"
             \/ from = "timeout" /\ st = "timed_out"
             \/ from = "complete" /\ st \in {"confirmed", "reverted"}
      PROVE  RowsInv' /\ PlaceInv'
  <2>1. pc[p] = from /\ pc' = [pc EXCEPT ![p] = to] /\ UNCHANGED chainVars
    BY <1>5, Zenon DEF Commit, CommitLast, Goto, Leave
  <2>2. /\ cur[p] \in Direct
        /\ st = "failed" => status[cur[p]] = "claimed"
        /\ st # "failed" => status[cur[p]] \in {"pending", "timed_out"}
        /\ st \in {"confirmed", "reverted"} => tx[cur[p]] \in Mined
    BY <1>1, <1>5, <2>1, AtCall, ZenonT(30) DEF PlaceInv, Place, AtClaimed, AtPending
  <2>3. RowsInv'
    BY <1>1, <1>5, <2>1, <2>2, TerminalOne, ZenonT(30)
  <2> QED
    BY <1>1, <2>1, <2>3, FreeMove, ZenonT(30)
<1>6. {"atlas", "disarm", "confirmed"} \subseteq FreePc
  BY Zenon DEF FreePc
<1> QED
  BY <1>2, <1>3, <1>4, <1>5, <1>6, ZenonT(30) DEF FailClaimed, RestartClaimed, MarkReplaced, ReceiptTimeout, CompleteReceipt

\* The nonce is given back, or the outcome of the submission recorded.
LEMMA SubmittedStepOne ==
    ASSUME OneProcess, IInv, RowsInv, PlaceInv, NEW p \in Proc,
           FailUnsubmitted(p) \/ MarkPending(p) \/ MarkSubmissionUnknown(p) \/ PersistFailed(p) \/ RestartAllocated(p)
    PROVE  RowsInv' /\ PlaceInv'
<1>1. ProcTypeOK /\ RowInv /\ ChainTypeOK /\ WorkInv
  BY Zenon DEF IInv, ProcessInv
<1>2. {"atlas", "disarm", "disarm_exit", "fatal"} \subseteq FreePc
  BY Zenon DEF FreePc
<1>3. ASSUME NEW from, NEW can, Refused(p, from, can) PROVE RowsInv' /\ PlaceInv'
  BY <1>2, <1>3, BranchOne, Zenon DEF Refused
<1>4. CASE Finish(p, "persist_failed", "disarm_exit")
  BY <1>2, <1>4, BranchOne, Zenon
<1>5. CASE Branch(p, "sent", "persist_failed")
  <2>1. Relies("sent", "persist_failed")
    BY Zenon DEF Relies, AtClaimed, AtAllocated, AtPending, AtSigned, NoncePc, ClaimantPc
  <2> QED
    BY <1>5, <2>1, BranchOne, Zenon
<1>6. ASSUME NEW from \in AtAllocated \cup {"persist_failed"}, NEW to \in FreePc, NEW can,
             Commit(p, from, to, can) \/ CommitLast(p, from, to, can),
             \/ mark_submission_unknown(cur[p]) /\ HasUnsubmittedNonce(cur[p])
             \/ mark_pending(cur[p]) /\ HasUnsubmittedNonce(cur[p]) /\ from = "sent"
             \/ /\ fail_unsubmitted(cur[p]) /\ CanRollBack(cur[p])
                /\ from \in {"unsubmitted", "unsubmitted_disarm", "unsubmitted_exit"}
      PROVE  RowsInv' /\ PlaceInv'
  <2>1. pc[p] = from /\ pc' = [pc EXCEPT ![p] = to] /\ UNCHANGED chainVars
    BY <1>6, Zenon DEF Commit, CommitLast, Goto, Leave
  <2>2. /\ cur[p] \in Direct
        /\ from = "sent" => tx[cur[p]] # "none"
        /\ from \in {"unsubmitted", "unsubmitted_disarm", "unsubmitted_exit"} => tx[cur[p]] = "none"
    BY <1>1, <1>6, <2>1, AtCall, ZenonT(30) DEF PlaceInv, Place, WorkInv, UnsentPc, ClaimantPc
  <2>3. RowsInv'
    BY <1>1, <1>6, <2>1, <2>2, UnknownOne, PendingOne, RollBackOne, ZenonT(30)
  <2> QED
    BY <1>1, <2>1, <2>3, FreeMove, ZenonT(30)
<1>7. {"unsubmitted", "unsubmitted_disarm", "unsubmitted_exit", "sent", "unknown", "was_allocated"} \subseteq AtAllocated
  BY Zenon DEF AtAllocated, NoncePc, ClaimantPc
<1>8. ASSUME FailUnsubmitted(p) PROVE RowsInv' /\ PlaceInv'
  BY <1>2, <1>3, <1>6, <1>7, <1>8, ZenonT(30) DEF FailUnsubmitted, Commit, CommitLast
<1>9. ASSUME MarkPending(p) \/ MarkSubmissionUnknown(p) \/ PersistFailed(p) \/ RestartAllocated(p) PROVE RowsInv' /\ PlaceInv'
  BY <1>2, <1>3, <1>4, <1>5, <1>6, <1>7, <1>9, ZenonT(30)
     DEF MarkPending, MarkSubmissionUnknown, PersistFailed, RestartAllocated, Commit, CommitLast
<1> QED
  BY <1>8, <1>9, Zenon

LEMMA SendStepOne ==
    ASSUME OneProcess, IInv, RowsInv, PlaceInv, NEW p \in Proc, SendRawTransaction(p)
    PROVE  RowsInv' /\ PlaceInv'
<1>1. ProcTypeOK /\ RowInv /\ ChainTypeOK /\ WorkInv
  BY Zenon DEF IInv, ProcessInv
<1>2. pc[p] = "send" /\ cur[p] \in Direct /\ status[cur[p]] = "nonce_allocated" /\ tx[cur[p]] = "none"
  BY <1>1, AtCall, ZenonT(30) DEF SendRawTransaction, PlaceInv, Place, AtAllocated, NoncePc, WorkInv, UnsentPc, ClaimantPc
<1>3. CASE nonce[cur[p]] >= chainNonce /\ tx' = [tx EXCEPT ![cur[p]] = "mempool"] /\ (Goto(p, "sent") \/ Goto(p, "unknown"))
  <2>1. RowsInv'
    BY <1>1, <1>2, <1>3, SendOne, Zenon DEF SendRawTransaction
  <2>2. pc'[p] \in {"sent", "unknown"} /\ cur'[p] = cur[p] /\ status' = status /\ tx'[cur[p]] = "mempool"
    BY <1>1, <1>2, <1>3, ZenonT(30) DEF SendRawTransaction, Goto, ProcTypeOK, ChainTypeOK, storeVars, attemptVars
  <2>3. Place(p)'
    BY <1>2, <2>2, Zenon DEF Place, AtClaimed, AtAllocated, AtPending, AtSigned, NoncePc, ClaimantPc
  <2> QED
    BY <1>1, <2>1, <2>3, OnlyMove, Zenon
<1>4. CASE UNCHANGED tx /\ Goto(p, "unknown")
  <2>1. Branch(p, "send", "unknown")
    BY <1>2, <1>4, ZenonT(30) DEF SendRawTransaction, Branch, chainVars, txVars
  <2>2. Relies("send", "unknown")
    BY Zenon DEF Relies, AtClaimed, AtAllocated, AtPending, AtSigned, NoncePc, ClaimantPc
  <2> QED
    BY <2>1, <2>2, BranchOne, Zenon
<1> QED
  BY <1>3, <1>4, Zenon DEF SendRawTransaction

LEMMA DisarmOne ==
    ASSUME IInv, RowsInv, cand' = DisarmCandidates(cand), UNCHANGED <<attemptVars, astatus, lock, chainVars>>
    PROVE  RowsInv'
<1> USE DEF attemptVars, chainVars, txVars, RowsInv
<1>1. cand \in [Direct -> CandidateStatus]
  BY Zenon DEF IInv, RowInv, StoreTypeOK
<1>2. TruthInv'
  BY <1>1, CandidatesMove, Zenon DEF DisarmCandidates, Silent
<1> QED
  BY <1>2, ZenonT(30) DEF FlightInv, BroadcastNeverForgotten, LockCoversInFlight, GapInv, NoNonceGap

LEMMA DisarmStepOne ==
    ASSUME OneProcess, IInv, RowsInv, PlaceInv, NEW p \in Proc, Disarm(p) \/ FatalExit(p)
    PROVE  RowsInv' /\ PlaceInv'
<1>1. RowsInv'
  BY DisarmOne, Zenon DEF Disarm, FatalExit, CommitLast, disarm, fail_close_execution_authority, atlasVars
<1>2. PlaceInv'
  BY FreeMove, Zenon DEF Disarm, FatalExit, CommitLast, Leave, FreePc, IInv
<1> QED
  BY <1>1, <1>2, Zenon

\* A crash or a lost connection at any call.
LEMMA FaultOne ==
    ASSUME OneProcess, IInv, RowsInv, PlaceInv, NEW p \in Proc, Fault(p)
    PROVE  RowsInv' /\ PlaceInv'
<1>1. ProcTypeOK /\ RowInv /\ ChainTypeOK /\ WorkInv
  BY Zenon DEF IInv, ProcessInv
<1>2. ASSUME NEW to \in FreePc, Leave(p, to), UNCHANGED <<storeVars, chainVars>> PROVE RowsInv' /\ PlaceInv'
  BY <1>1, <1>2, FreeMove, RowsStay, Zenon DEF Leave, storeVars, attemptVars, atlasVars, chainVars, txVars
<1>3. CASE pc[p] = "sent" /\ Goto(p, "persist_failed") /\ UNCHANGED <<storeVars, chainVars>>
  <2>1. Relies("sent", "persist_failed")
    BY Zenon DEF Relies, AtClaimed, AtAllocated, AtPending, AtSigned, NoncePc, ClaimantPc
  <2> QED
    BY <1>1, <1>3, <2>1, PlainMove, RowsStay, ZenonT(30) DEF Goto, storeVars, attemptVars, atlasVars, chainVars, txVars
<1>4. CASE pc[p] = "sent" /\ Goto(p, "persist_failed") /\ HasUnsubmittedNonce(cur[p]) /\ mark_pending(cur[p]) /\ UNCHANGED chainVars
  <2>1. cur[p] \in Direct /\ tx[cur[p]] # "none"
    BY <1>1, <1>4, AtCall, ZenonT(30) DEF PlaceInv, Place, AtAllocated, NoncePc, ClaimantPc
  <2>2. RowsInv'
    BY <1>1, <1>4, <2>1, PendingOne, Zenon
  <2>3. pc'[p] = "persist_failed" /\ cur'[p] = cur[p] /\ status'[cur[p]] = "pending" /\ tx' = tx
    BY <1>1, <1>4, <2>1, Zenon DEF Goto, ProcTypeOK, RowInv, StoreTypeOK, mark_pending, chainVars, txVars
  <2>4. Place(p)'
    BY <2>1, <2>3, Zenon DEF Place, AtClaimed, AtAllocated, AtPending, AtSigned, NoncePc, ClaimantPc
  <2> QED
    BY <1>1, <2>2, <2>4, OnlyMove, Zenon
<1>5. {"fatal", "down", "execute", "materialize"} \subseteq FreePc
  BY Zenon DEF FreePc
<1> QED
  BY <1>2, <1>3, <1>4, <1>5, ZenonT(30) DEF Fault, Crash, DatabaseFault, MaterializerFault, AtlasFault, LoopTop

LEMMA ExecutorOne ==
    ASSUME OneProcess, IInv, RowsInv, PlaceInv, NEW p \in Proc, ExecutorStep(p)
    PROVE  RowsInv' /\ PlaceInv'
BY DecideOne, ResumeOne, ClaimStepOne, PendingNonceOne, AllocateStepOne, TerminalStepOne, SubmittedStepOne, SendStepOne,
   DisarmStepOne, ZenonT(30) DEF ExecutorStep

-----------------------------------------------------------------------------
(* The materializer.                                                       *)

LEMMA MaterializerOne ==
    ASSUME OneProcess, IInv, RowsInv, PlaceInv, NEW p \in Proc, MaterializerStep(p)
    PROVE  RowsInv' /\ PlaceInv'
<1>1. ProcTypeOK /\ RowInv /\ ChainTypeOK /\ WorkInv /\ CandidateInv /\ cand \in [Direct -> CandidateStatus]
      /\ status \in [Direct -> AttemptStatus]
  BY Zenon DEF IInv, RowInv, ProcessInv, StoreTypeOK
<1>2. {"execute", "finalize", "reject", "fatal"} \subseteq FreePc
  BY Zenon DEF FreePc
<1>3. PlaceInv'
  <2>1. \E to \in FreePc : pc' = [pc EXCEPT ![p] = to]
    BY <1>2, Zenon DEF MaterializerStep, ClaimCandidate, QuoteCandidate, ForkDisposition, DisarmRoute, InsertApprovedRequest,
                RejectCandidate, Branch, Finish, Commit, CommitLast, Goto, Leave
  <2> QED
    BY <1>1, <2>1, FreeMove, Zenon
<1>4. CASE QuoteCandidate(p)
  BY <1>2, <1>4, BranchOne, Zenon DEF QuoteCandidate
<1>5. ASSUME UNCHANGED <<attemptVars, atlasVars, lock, chainVars>>,
             \A r \in Direct : \/ cand'[r] = cand[r]
                               \/ status[r] = "absent" /\ cand'[r] \in {"materialized", "approval_pending", "expired", "rejected"}
      PROVE  RowsInv'
  <2>1. TruthInv'
    BY <1>1, <1>5, CandidatesMove, Zenon DEF RowsInv, attemptVars, chainVars, txVars
  <2> QED
    BY <1>5, <2>1, ZenonT(30) DEF RowsInv, FlightInv, BroadcastNeverForgotten, LockCoversInFlight, GapInv, NoNonceGap,
                      attemptVars, atlasVars, chainVars, txVars
<1>6. \A r \in Direct : cand[r] \in {"materialized", "approval_pending"} => status[r] = "absent"
  BY <1>1, Zenon DEF CandidateInv
<1>7. CASE ClaimCandidate(p)
  <2>1. \A r \in Direct : \/ cand'[r] = cand[r]
                          \/ status[r] = "absent" /\ cand'[r] \in {"materialized", "approval_pending", "expired", "rejected"}
    BY <1>1, <1>6, <1>7, ZenonT(30) DEF ClaimCandidate, Expirable, Undecided
  <2> QED
    BY <1>3, <1>5, <1>7, <2>1, ZenonT(30) DEF ClaimCandidate, candOnly
<1>8. CASE ForkDisposition(p) \/ RejectCandidate(p)
  <2>1. \A r \in Direct : \/ cand'[r] = cand[r]
                          \/ status[r] = "absent" /\ cand'[r] \in {"materialized", "approval_pending", "expired", "rejected"}
    BY <1>1, <1>6, <1>8, ZenonT(30) DEF ForkDisposition, RejectCandidate, MoveCandidate, Undecided
  <2> QED
    BY <1>3, <1>5, <1>8, <2>1, Zenon DEF ForkDisposition, RejectCandidate, candOnly, CommitLast
<1>9. CASE DisarmRoute(p)
  BY <1>3, <1>5, <1>9, Zenon DEF DisarmRoute, Commit
<1>10. CASE InsertApprovedRequest(p)
  <2>1. pc[p] = "finalize" /\ cand[cur[p]] = "approval_pending" /\ UNCHANGED <<nonce, nextNonce, astatus, lock, tx, chainNonce, op>>
    BY <1>10, ZenonT(30) DEF InsertApprovedRequest, CommitLast, atlasVars, chainVars, txVars
  <2>2. cur[p] \in Direct /\ status[cur[p]] = "absent" /\ tx[cur[p]] = "none"
    <3>1. "finalize" \in DirectPc /\ NonceInv
      BY Zenon DEF DirectPc, IInv, ProcessInv
    <3>2. cur[p] \in Direct
      BY <1>1, <2>1, <3>1, ZenonT(30) DEF WorkInv
    <3>3. status[cur[p]] = "absent"
      BY <1>6, <2>1, <3>2, Zenon
    <3> QED
      BY <3>1, <3>2, <3>3, Zenon DEF NonceInv
  <2>3. lock # cur[p]
    BY <1>1, <2>2, ZenonT(30) DEF RowInv, LockMatchesWork, ActiveStatuses
  <2>4. /\ status' = [status EXCEPT ![cur[p]] = "approved"]
        /\ cand' = [cand EXCEPT ![cur[p]] = "request_materialized"]
    BY <1>10, Zenon DEF InsertApprovedRequest
  <2>5. FlightInv'
    BY <1>1, <2>1, <2>2, <2>4, ZenonT(30) DEF RowsInv, FlightInv, BroadcastNeverForgotten, LockCoversInFlight
  <2>6. GapInv'
    <3>1. GapInv /\ lock' = lock /\ nonce' = nonce /\ nextNonce' = nextNonce /\ tx' = tx /\ chainNonce' = chainNonce
      BY <2>1, Zenon DEF RowsInv
    <3>2. lock \in Direct => status'[lock] = status[lock]
      BY <1>1, <2>3, <2>4, Zenon
    <3>3. lock' \in Direct /\ status'[lock'] \in Allocated <=> lock \in Direct /\ status[lock] \in Allocated
      BY <3>1, <3>2, ZenonT(30)
    <3> QED
      BY <3>1, <3>3, Zenon DEF GapInv, NoNonceGap
  <2>7. TruthInv'
    BY <1>1, <2>1, <2>2, <2>4, ZenonT(30) DEF RowsInv, TruthInv, CandidateTellsTheTruth
  <2> QED
    BY <1>3, <2>5, <2>6, <2>7, Zenon DEF RowsInv
<1> QED
  BY <1>4, <1>7, <1>8, <1>9, <1>10, Zenon DEF MaterializerStep

-----------------------------------------------------------------------------
(* The Atlas lane.                                                         *)

\* The row of one auction moves; the lock is given back only when no bid is out.
LEMMA AuctionOne ==
    ASSUME IInv, RowsInv, UNCHANGED <<attemptVars, chainVars>>,
           NEW a \in Auction, NEW to,
           astatus' = astatus \/ astatus' = [astatus EXCEPT ![a] = to],
           op[a] = "live" => to \in {"signed", "submitted", "submission_unknown"} /\ lock' = lock,
           lock' = lock \/ lock' = Released(a) \/ (lock = NoOwner /\ lock' = a),
           cand' = cand \/ cand' = DisarmCandidates(cand)
    PROVE  RowsInv'
<1> USE DEF attemptVars, chainVars, txVars, RowsInv
<1>1. cand \in [Direct -> CandidateStatus] /\ astatus \in [Auction -> AtlasStatus] /\ a \notin Direct
      /\ NoOwner \notin Direct \cup Auction
  BY StoreAssumption, Zenon DEF IInv, RowInv, StoreTypeOK
<1>2. TruthInv'
  BY <1>1, CandidatesMove, ZenonT(30) DEF DisarmCandidates, Silent
<1>3. \A b \in Auction : astatus'[b] = astatus[b] \/ (b = a /\ astatus'[b] = to)
  BY <1>1, ZenonT(30)
<1>4. \A o \in Direct : (lock' = o) <=> (lock = o)
  BY <1>1, Zenon DEF Released
<1>5. \A b \in Auction : b # a /\ lock = b => lock' = b
  BY <1>1, Zenon DEF Released
<1>6. FlightInv'
  BY <1>3, <1>4, <1>5, ZenonT(30) DEF FlightInv, BroadcastNeverForgotten, LockCoversInFlight
<1>7. GapInv'
  BY <1>4, ZenonT(30) DEF GapInv, NoNonceGap
<1> QED
  BY <1>2, <1>6, <1>7, ZenonT(30)

\* The bid leaves: the row is signed, so the lock is the auction's.
LEMMA SubmitOne ==
    ASSUME OneProcess, IInv, RowsInv, PlaceInv, NEW p \in Proc, AtlasSubmit(p)
    PROVE  RowsInv' /\ PlaceInv'
<1>1. ProcTypeOK /\ RowInv /\ ChainTypeOK /\ WorkInv
  BY Zenon DEF IInv, ProcessInv
<1>2. CASE Branch(p, "atlas_submit", "atlas_reject") \/ Branch(p, "atlas_submit", "atlas_kill")
  <2>1. Relies("atlas_submit", "atlas_reject") /\ "atlas_kill" \in FreePc
    BY Zenon DEF FreePc, Relies, AtClaimed, AtAllocated, AtPending, AtSigned, NoncePc, ClaimantPc
  <2> QED
    BY <1>2, <2>1, BranchOne, Zenon
<1>3. ASSUME pc[p] = "atlas_submit", op' = IF op[cur[p]] = "none" THEN [op EXCEPT ![cur[p]] = "live"] ELSE op,
             Goto(p, "atlas_submitted") \/ Goto(p, "atlas_kill"), UNCHANGED <<storeVars, txVars>>
      PROVE  RowsInv' /\ PlaceInv'
  <2>1. cur[p] \in Auction /\ astatus[cur[p]] = "signed"
    BY <1>1, <1>3, AtCall, ZenonT(30) DEF PlaceInv, Place, AtSigned
  <2>2. lock = cur[p]
    BY <1>1, <2>1, Zenon DEF RowInv, LockMatchesWork, ActiveAtlas
  <2>3. \A a \in Auction : op'[a] = op[a] \/ a = cur[p]
    BY <1>1, <1>3, Zenon DEF ChainTypeOK
  <2>4. RowsInv'
    <3>1. UNCHANGED <<status, nonce, nextNonce, cand, astatus, lock, tx, chainNonce>>
      BY <1>3, ZenonT(30) DEF storeVars, attemptVars, atlasVars, txVars
    <3>2. FlightInv'
      BY <3>1, <2>1, <2>2, <2>3, ZenonT(30) DEF RowsInv, FlightInv, BroadcastNeverForgotten, LockCoversInFlight, AtLarge
    <3>3. GapInv' /\ TruthInv'
      BY <3>1, ZenonT(30) DEF RowsInv, GapInv, NoNonceGap, TruthInv, CandidateTellsTheTruth, AtLarge
    <3> QED
      BY <3>2, <3>3, Zenon DEF RowsInv
  <2>5. pc'[p] \in {"atlas_submitted", "atlas_kill"} /\ cur'[p] = cur[p] /\ astatus' = astatus
    BY <1>1, <1>3, Zenon DEF Goto, ProcTypeOK, storeVars, atlasVars
  <2>6. Place(p)'
    BY <2>1, <2>5, Zenon DEF Place, AtClaimed, AtAllocated, AtPending, AtSigned, NoncePc, ClaimantPc
  <2> QED
    BY <1>1, <2>4, <2>6, OnlyMove, Zenon
<1> QED
  BY <1>2, <1>3, ZenonT(30) DEF AtlasSubmit

\* What the step of the Atlas lane reads and decides.
LEMMA AtlasDecideOne ==
    ASSUME OneProcess, IInv, RowsInv, PlaceInv, NEW p \in Proc,
           AtlasActive(p) \/ AtlasUnverified(p) \/ AtlasReconcile(p) \/ AtlasValidate(p) \/ AtlasRecheck(p)
    PROVE  RowsInv' /\ PlaceInv'
<1>1. ProcTypeOK
  BY Zenon DEF IInv
<1>2. /\ {"atlas_claim", "atlas_kill", "atlas_reconcile", "materialize"} \subseteq FreePc
      /\ \A to \in {"atlas_sign", "atlas_reject"} : Relies("atlas_validate", to)
      /\ \A to \in {"atlas_submit", "atlas_reject"} : Relies("atlas_recheck", to)
  BY ZenonT(30) DEF FreePc, Relies, AtClaimed, AtAllocated, AtPending, AtSigned, NoncePc, ClaimantPc
<1>3. CASE AtlasUnverified(p) \/ AtlasValidate(p) \/ AtlasRecheck(p)
  BY <1>2, <1>3, BranchOne, Zenon DEF AtlasUnverified, AtlasValidate, AtlasRecheck
<1>4. CASE AtlasActive(p)
  <2>1. RowsInv'
    BY <1>4, RowsStay, Zenon DEF AtlasActive, Branch, storeVars, attemptVars, atlasVars, chainVars, txVars
  <2>2. PlaceInv'
    BY <1>1, <1>2, <1>4, FreeMove, Zenon DEF AtlasActive, Branch, Goto
  <2> QED
    BY <2>1, <2>2, Zenon
<1>5. CASE AtlasReconcile(p)
  <2>1. CASE Finish(p, "atlas_reconcile", LoopTop)
    BY <1>2, <2>1, BranchOne, Zenon DEF LoopTop
  <2>2. ASSUME NEW to \in {"atlas_won", "atlas_failed", "atlas_expired"}, Branch(p, "atlas_reconcile", to), op[cur[p]] # "live"
        PROVE  RowsInv' /\ PlaceInv'
    <3>1. RowsInv'
      BY <2>2, RowsStay, ZenonT(30) DEF Branch, storeVars, attemptVars, atlasVars, chainVars, txVars
    <3>2. pc'[p] = to /\ op'[cur'[p]] # "live"
      BY <1>1, <2>2, Zenon DEF Branch, Goto, ProcTypeOK, chainVars
    <3>3. Place(p)'
      BY <3>2, ZenonT(30) DEF Place, AtClaimed, AtAllocated, AtPending, AtSigned, NoncePc, ClaimantPc
    <3> QED
      BY <1>1, <3>1, <3>3, OnlyMove, Zenon
  <2> QED
    BY <1>5, <2>1, <2>2, ZenonT(30) DEF AtlasReconcile
<1> QED
  BY <1>3, <1>4, <1>5, Zenon

\* The row is claimed, signed, and given up or settled.
LEMMA AtlasWriteOne ==
    ASSUME OneProcess, IInv, RowsInv, PlaceInv, NEW p \in Proc,
           \/ AtlasSign(p) \/ AtlasSubmitted(p) \/ reject_and_unlock(p) \/ kill_unknown(p)
           \/ PersistExpired(p) \/ PersistFailedInclusion(p) \/ PersistReconciled(p)
    PROVE  RowsInv' /\ PlaceInv'
<1>1. ProcTypeOK /\ RowInv /\ ChainTypeOK /\ WorkInv
  BY Zenon DEF IInv, ProcessInv
<1>2. {"atlas_kill", "materialize"} \subseteq FreePc
  BY Zenon DEF FreePc
<1>3. Place(p)
  BY Zenon DEF PlaceInv
<1>4. pc[p] \in {"atlas_sign", "atlas_submitted", "atlas_reject", "atlas_kill", "atlas_expired", "atlas_failed", "atlas_won"}
  BY Zenon DEF AtlasSign, AtlasSubmitted, reject_and_unlock, kill_unknown, PersistExpired, PersistFailedInclusion,
         PersistReconciled, Branch, Commit, CommitLast
<1>5. cur[p] \in Auction
  BY <1>1, <1>4, Zenon DEF WorkInv, AuctionPc, AtlasPc
<1>6. CASE Branch(p, "atlas_sign", "atlas_kill")
  BY <1>2, <1>6, BranchOne, Zenon
<1>7. CASE Commit(p, "atlas_sign", "atlas_recheck", TRUE) /\ AtlasSign(p)
  <2>1. /\ pc[p] = "atlas_sign" /\ AtlasUpdate(cur[p], {"claimed"}, "signed")
        /\ UNCHANGED <<attemptVars, cand, hashed, lock, controlVars, lossVars, chainVars>>
    <3>1. pc'[p] = "atlas_recheck"
      BY <1>1, <1>7, Zenon DEF Commit, Goto, ProcTypeOK
    <3>2. ~Branch(p, "atlas_sign", "atlas_kill")
      BY <1>1, <3>1, Zenon DEF Branch, Goto, ProcTypeOK
    <3> QED
      BY <1>7, <3>2, ZenonT(30) DEF AtlasSign, Commit
  <2>2. RowsInv'
    BY <1>5, <2>1, AuctionOne, ZenonT(30) DEF AtlasUpdate, AtlasMove
  <2>3. pc'[p] = "atlas_recheck" /\ cur'[p] = cur[p] /\ op' = op
    BY <1>1, <1>7, Zenon DEF Commit, Goto, ProcTypeOK, chainVars
  <2>4. astatus[cur[p]] = "claimed" /\ op[cur[p]] # "live"
    BY <1>3, <2>1, ZenonT(30) DEF Place
  <2>5. astatus'[cur[p]] = "signed"
    BY <1>1, <1>5, <2>1, <2>4, ZenonT(30) DEF AtlasUpdate, AtlasMove, RowInv, StoreTypeOK
  <2>6. Place(p)'
    BY <2>3, <2>4, <2>5, Places, Zenon DEF Place
  <2> QED
    BY <1>1, <2>2, <2>6, OnlyMove, Zenon
<1>8. CASE AtlasSubmitted(p)
  BY <1>1, <1>2, <1>5, <1>8, AuctionOne, FreeMove, Zenon DEF AtlasSubmitted, CommitLast, Leave, AtlasUpdate, AtlasMove, LoopTop
<1>9. CASE kill_unknown(p)
  BY <1>1, <1>2, <1>5, <1>9, AuctionOne, FreeMove, ZenonT(30)
     DEF kill_unknown, fail_close_execution_authority, CommitLast, Leave, AtlasUpdate, AtlasMove, LoopTop
<1>10. CASE reject_and_unlock(p) \/ PersistExpired(p) \/ PersistFailedInclusion(p) \/ PersistReconciled(p)
  <2>1. op[cur[p]] # "live"
    BY <1>3, <1>10, ZenonT(30) DEF Place, reject_and_unlock, PersistExpired, PersistFailedInclusion, PersistReconciled, CommitLast
  <2>2. RowsInv'
    BY <1>5, <1>10, <2>1, AuctionOne, ZenonT(30)
       DEF reject_and_unlock, PersistExpired, PersistFailedInclusion, PersistReconciled, CommitLast, AtlasUpdate, AtlasMove,
           fail_close_execution_authority
  <2>3. PlaceInv'
    BY <1>1, <1>2, <1>10, FreeMove, ZenonT(30)
       DEF reject_and_unlock, PersistExpired, PersistFailedInclusion, PersistReconciled, CommitLast, Leave, LoopTop
  <2> QED
    BY <2>2, <2>3, Zenon
<1> QED
  BY <1>6, <1>7, <1>8, <1>9, <1>10, ZenonT(30) DEF AtlasSign

\* The claim takes a free lock, so no bid of the auction is out.
LEMMA AtlasClaimOne ==
    ASSUME OneProcess, IInv, RowsInv, PlaceInv, NEW p \in Proc, AtlasClaim(p)
    PROVE  RowsInv' /\ PlaceInv'
<1>1. ProcTypeOK /\ RowInv /\ NoOwner \notin Auction
  BY StoreAssumption, Zenon DEF IInv
<1>2. CASE Finish(p, "atlas_claim", LoopTop)
  BY <1>2, BranchOne, Zenon DEF LoopTop, FreePc
<1>3. ASSUME NEW a \in Auction, CanClaimAuction(a), AtlasUpdate(a, {"ready"}, "claimed"), lock' = a,
             NEW to \in {"atlas_validate", "atlas_reject"}, pc' = [pc EXCEPT ![p] = to], cur' = [cur EXCEPT ![p] = a],
             UNCHANGED <<chainVars, attemptVars, cand>>
      PROVE  RowsInv' /\ PlaceInv'
  <2>1. op[a] # "live" /\ lock = NoOwner /\ astatus[a] = "ready"
    BY <1>1, <1>3, ZenonT(30) DEF CanClaimAuction, RowsInv, FlightInv, LockCoversInFlight
  <2>2. RowsInv'
    BY <1>3, <2>1, AuctionOne, ZenonT(30) DEF AtlasUpdate, AtlasMove
  <2>3. pc'[p] = to /\ cur'[p] = a /\ op'[a] # "live" /\ astatus'[a] = "claimed"
    BY <1>1, <1>3, <2>1, Zenon DEF ProcTypeOK, RowInv, StoreTypeOK, AtlasUpdate, AtlasMove, chainVars
  <2>4. Place(p)'
    BY <2>3, Zenon DEF Place, AtClaimed, AtAllocated, AtPending, AtSigned, NoncePc, ClaimantPc
  <2> QED
    BY <1>1, <2>2, <2>4, OnlyMove, Zenon
<1> QED
  BY <1>2, <1>3, Zenon DEF AtlasClaim

-----------------------------------------------------------------------------
(* The theorems.                                                           *)

LEMMA FlightInit ==
    ASSUME Init
    PROVE  OneProcessInv
<1> USE DEF Init, StoreInit, ChainInit, ProcInit
<1>1. FlightInv
  BY Zenon DEF FlightInv, BroadcastNeverForgotten, LockCoversInFlight, AtLarge
<1>2. GapInv
  BY StoreAssumption, SMTT(30) DEF GapInv, NoNonceGap, AtLarge, Mined
<1>3. TruthInv
  BY Zenon DEF TruthInv, CandidateTellsTheTruth
<1>4. PlaceInv
  BY Zenon DEF PlaceInv, Place, AtClaimed, AtAllocated, AtPending, AtSigned, NoncePc, ClaimantPc
<1> QED
  BY <1>1, <1>2, <1>3, <1>4, Zenon DEF OneProcessInv

LEMMA FlightStep ==
    ASSUME OneProcess, IInv, IInv', OneProcessInv, [Next]_vars
    PROVE  OneProcessInv'
<1>1. RowsInv /\ PlaceInv
  BY Zenon DEF OneProcessInv, RowsInv
<1> SUFFICES RowsInv' /\ PlaceInv'
  BY Zenon DEF OneProcessInv, RowsInv
<1>2. ASSUME NEW p \in Proc, Process(p) \/ Fault(p) PROVE RowsInv' /\ PlaceInv'
  <2>1. CASE MaterializerStep(p)
    BY <1>1, <2>1, MaterializerOne, Zenon
  <2>2. CASE ExecutorStep(p)
    BY <1>1, <2>2, ExecutorOne, Zenon
  <2>3. CASE AtlasStep(p)
    BY <1>1, <2>3, AtlasDecideOne, AtlasWriteOne, AtlasClaimOne, SubmitOne, Zenon DEF AtlasStep
  <2>4. CASE Restart(p)
    BY <1>1, <2>4, DecideOne, Zenon
  <2>5. CASE Fault(p)
    BY <1>1, <2>5, FaultOne, Zenon
  <2> QED
    BY <1>2, <2>1, <2>2, <2>3, <2>4, <2>5, Zenon DEF Process
<1>3. CASE ControlNext /\ UNCHANGED <<chainVars, procVars>>
  BY <1>1, <1>3, ControlOne, Zenon
<1>4. CASE ChainNext /\ UNCHANGED procVars
  BY <1>1, <1>4, ChainOne, Zenon
<1>5. CASE UNCHANGED vars
  <2>1. RowsInv'
    BY <1>1, <1>5, RowsStay, Zenon DEF vars, storeVars, attemptVars, atlasVars, chainVars, txVars
  <2>2. PlaceInv'
    BY <1>1, <1>5, ZenonT(30) DEF PlaceInv, Place, vars, storeVars, attemptVars, atlasVars, chainVars, txVars, procVars
  <2> QED
    BY <2>1, <2>2, Zenon
<1> QED
  BY <1>2, <1>3, <1>4, <1>5, Zenon DEF Next

-----------------------------------------------------------------------------
(* One process implements SubmissionLock, step by step: whatever a         *)
(* transaction of store.rs, a call of the Atlas lane, the control plane or *)
(* the chain does, at most one request moves, along one of the moves of    *)
(* the abstract lock.                                                      *)

Identities == Direct \cup Auction

\* The calls at which the process works on a direct request, and on an auction.
LEMMA WorksOn ==
    ASSUME WorkInv, NEW p \in Proc
    PROVE  /\ pc[p] \in AtClaimed \cup AtAllocated \cup AtPending \cup {"persist_failed"} => cur[p] \in Direct
           /\ pc[p] \in AtSigned \cup {"atlas_validate", "atlas_sign", "atlas_reject"} => cur[p] \in Auction
<1>1. /\ AtClaimed \cup AtAllocated \cup AtPending \cup {"persist_failed"} \subseteq DirectPc
      /\ AtSigned \cup {"atlas_validate", "atlas_sign", "atlas_reject"} \subseteq AuctionPc
  BY SMTT(30) DEF AtClaimed, AtAllocated, AtPending, AtSigned, DirectPc, AuctionPc, AtlasPc, ExecutorPc, NoncePc, ClaimantPc
<1> QED
  BY <1>1, Zenon DEF WorkInv

-----------------------------------------------------------------------------
(* The refinement mapping.                                                 *)

\* The stage of a direct request, before and after a step.
LEMMA DirectStages ==
    ASSUME NEW r \in Direct
    PROVE  /\ Stage[r] = IF status[r] \in {"absent", "approved"} THEN "waiting"
                         ELSE IF tx[r] \in AtLarge THEN "flying"
                         ELSE IF lock # r THEN "settled"
                         ELSE IF tx[r] = "none" THEN "held" ELSE "landed"
           /\ Stage'[r] = IF status'[r] \in {"absent", "approved"} THEN "waiting"
                          ELSE IF tx'[r] \in AtLarge THEN "flying"
                          ELSE IF lock' # r THEN "settled"
                          ELSE IF tx'[r] = "none" THEN "held" ELSE "landed"
<1>1. Stage[r] = DirectStage(r) /\ Stage'[r] = DirectStage(r)'
  BY Zenon DEF Stage
<1> QED
  BY <1>1, Zenon DEF DirectStage

\* The stage of an auction, before and after a step.
LEMMA AtlasStages ==
    ASSUME NEW a \in Auction
    PROVE  /\ Stage[a] = IF astatus[a] \in {"absent", "ready"} THEN "waiting"
                         ELSE IF op[a] = "live" THEN "flying"
                         ELSE IF lock # a THEN "settled"
                         ELSE IF op[a] = "none" \/ astatus[a] = "claimed" THEN "held" ELSE "landed"
           /\ Stage'[a] = IF astatus'[a] \in {"absent", "ready"} THEN "waiting"
                          ELSE IF op'[a] = "live" THEN "flying"
                          ELSE IF lock' # a THEN "settled"
                          ELSE IF op'[a] = "none" \/ astatus'[a] = "claimed" THEN "held" ELSE "landed"
<1>1. a \notin Direct
  BY StoreAssumption, Zenon
<1>2. Stage[a] = AtlasStage(a) /\ Stage'[a] = AtlasStage(a)'
  BY <1>1, Zenon DEF Stage
<1> QED
  BY <1>2, Zenon DEF AtlasStage

\* A move of the abstract lock other than a claim, or none.
Onward(from, to) ==
    \/ from = to
    \/ from = "held" /\ to \in {"flying", "landed", "settled"}
    \/ from = "flying" /\ to = "landed"
    \/ from = "landed" /\ to = "settled"

LEMMA OneMoves ==
    ASSUME NEW i \in Identities, \A j \in Identities \ {i} : Stage'[j] = Stage[j], Onward(Stage[i], Stage'[i])
    PROVE  [Lock!Next]_Stage
<1>1. Stage' = [Stage EXCEPT ![i] = Stage'[i]]
  BY Zenon DEF Stage, Identities
<1>2. CASE Stage'[i] = Stage[i]
  <2>1. Stage' = Stage
    BY <1>2, Zenon DEF Stage, Identities
  <2> QED
    BY <2>1, Zenon
<1>3. CASE Stage'[i] # Stage[i]
  <2>1. Lock!Launch(i) \/ Lock!Land(i) \/ Lock!Release(i)
    BY <1>1, <1>3, Zenon DEF Onward, Lock!Launch, Lock!Land, Lock!Release, Lock!Move
  <2> QED
    BY <2>1, Zenon DEF Lock!Next, Identities
<1> QED
  BY <1>2, <1>3, Zenon

LEMMA OneAcquires ==
    ASSUME NEW i \in Identities, \A j \in Identities \ {i} : Stage'[j] = Stage[j], Stage[i] = "waiting", Stage'[i] = "held",
           \A j \in Identities : Stage[j] \notin {"held", "flying", "landed"}
    PROVE  [Lock!Next]_Stage
<1>1. Stage' = [Stage EXCEPT ![i] = "held"]
  BY Zenon DEF Stage, Identities
<1>2. Lock!Acquire(i)
  BY <1>1, Zenon DEF Lock!Acquire, Lock!Move, Lock!InProgress, Identities
<1> QED
  BY <1>2, Zenon DEF Lock!Next, Identities

\* Nobody moves.
LEMMA NoneMoves ==
    ASSUME \A i \in Identities : Stage'[i] = Stage[i]
    PROVE  [Lock!Next]_Stage
<1>1. Stage' = Stage
  BY Zenon DEF Stage, Identities
<1> QED
  BY <1>1, Zenon

NotYet(s) == s \in {"absent", "approved", "ready"}

\* Nobody moves when no request leaves its early states, nothing starts or
\* ceases to be at large, and the lock stays.
LEMMA RowsSteady ==
    ASSUME \A r \in Direct : /\ status'[r] = status[r] \/ (NotYet(status[r]) <=> NotYet(status'[r]))
                             /\ tx'[r] = tx[r] \/ (tx[r] \in AtLarge /\ tx'[r] \in AtLarge),
           \A a \in Auction : astatus'[a] = astatus[a] \/ (astatus[a] = "absent" /\ astatus'[a] = "ready"),
           status \in [Direct -> AttemptStatus], status' \in [Direct -> AttemptStatus], UNCHANGED <<op, lock>>
    PROVE  [Lock!Next]_Stage
<1>1. "ready" \notin AttemptStatus
  BY Zenon DEF AttemptStatus, ActiveStatuses
<1>2. \A r \in Direct : Stage'[r] = Stage[r]
  BY <1>1, DirectStages, SMTT(30) DEF NotYet, AtLarge
<1>3. \A a \in Auction : Stage'[a] = Stage[a]
  BY AtlasStages, Zenon
<1> QED
  BY <1>2, <1>3, NoneMoves, Zenon DEF Identities

\* One direct request moves, with or without the lock.
LEMMA DirectMoves ==
    ASSUME NEW r \in Direct, \A s \in Direct \ {r} : status'[s] = status[s] /\ tx'[s] = tx[s],
           UNCHANGED <<astatus, op>>, lock' = lock \/ (lock \in {r, NoOwner} /\ lock' \in {r, NoOwner})
    PROVE  \A j \in Identities \ {r} : Stage'[j] = Stage[j]
<1>1. NoOwner \notin Identities /\ r \notin Auction
  BY StoreAssumption, Zenon DEF Identities
<1>2. \A j \in Identities \ {r} : (lock' = j) <=> (lock = j)
  BY <1>1, Zenon
<1>3. \A s \in Direct \ {r} : Stage'[s] = Stage[s]
  BY <1>2, DirectStages, SMTT(30) DEF Identities
<1>4. \A a \in Auction : Stage'[a] = Stage[a]
  BY <1>1, <1>2, AtlasStages, SMTT(30) DEF Identities
<1> QED
  BY <1>3, <1>4, Zenon DEF Identities

\* One auction moves, with or without the lock.
LEMMA AuctionMoves ==
    ASSUME NEW a \in Auction, \A b \in Auction \ {a} : astatus'[b] = astatus[b] /\ op'[b] = op[b],
           UNCHANGED <<status, tx>>, lock' = lock \/ (lock \in {a, NoOwner} /\ lock' \in {a, NoOwner})
    PROVE  \A j \in Identities \ {a} : Stage'[j] = Stage[j]
<1>1. NoOwner \notin Identities /\ a \notin Direct
  BY StoreAssumption, Zenon DEF Identities
<1>2. \A j \in Identities \ {a} : (lock' = j) <=> (lock = j)
  BY <1>1, Zenon
<1>3. \A b \in Auction \ {a} : Stage'[b] = Stage[b]
  BY <1>2, AtlasStages, SMTT(30) DEF Identities
<1>4. \A r \in Direct : Stage'[r] = Stage[r]
  BY <1>1, <1>2, DirectStages, SMTT(30) DEF Identities
<1> QED
  BY <1>3, <1>4, Zenon DEF Identities

\* Whatever is in progress holds the lock.
LEMMA BusyIsLocked ==
    ASSUME FlightInv, NEW j \in Identities, Stage[j] \in {"held", "flying", "landed"}
    PROVE  lock = j
<1>1. CASE j \in Direct
  BY <1>1, DirectStages, Zenon DEF FlightInv, LockCoversInFlight
<1>2. CASE j \in Auction
  BY <1>2, AtlasStages, Zenon DEF FlightInv, LockCoversInFlight
<1> QED
  BY <1>1, <1>2, Zenon DEF Identities

-----------------------------------------------------------------------------
(* The chain and the control plane.                                        *)

\* At most one transaction is at large, and mining it, or another one with its
\* nonce, lands it.
LEMMA MinedLands ==
    ASSUME IInv, OneProcessInv, UNCHANGED <<storeVars, op>>,
           \A r \in Direct : \/ tx'[r] = tx[r] /\ tx[r] \notin AtLarge
                             \/ tx[r] \in AtLarge /\ tx'[r] \in {"dead"} \cup Mined
    PROVE  [Lock!Next]_Stage
<1> USE DEF storeVars, attemptVars, atlasVars
<1>1. \A r \in Direct : tx[r] \in AtLarge => lock = r
  BY Zenon DEF OneProcessInv, FlightInv, LockCoversInFlight
<1>2. CASE lock \in Direct
  <2>1. \A j \in Identities \ {lock} : Stage'[j] = Stage[j]
    BY <1>1, <1>2, DirectMoves, Zenon
  <2>2. Onward(Stage[lock], Stage'[lock])
    BY <1>2, DirectStages, Zenon DEF Onward, AtLarge, Mined
  <2> QED
    BY <1>2, <2>1, <2>2, OneMoves, Zenon DEF Identities
<1>3. CASE lock \notin Direct
  BY <1>1, <1>3, RowsSteady, Zenon DEF IInv, RowInv, StoreTypeOK
<1> QED
  BY <1>2, <1>3, Zenon

LEMMA ChainRefines ==
    ASSUME IInv, OneProcessInv, ChainNext
    PROVE  [Lock!Next]_Stage
<1> USE DEF storeVars, attemptVars, atlasVars, txVars
<1>1. /\ tx \in [Direct -> Mined \cup AtLarge \cup {"none", "dead"}]
      /\ op \in [Auction -> {"none", "live", "won", "failed", "bad", "expired"}]
      /\ status \in [Direct -> AttemptStatus]
      /\ \A r \in Direct : tx[r] \in AtLarge => nonce[r] = chainNonce
  BY Zenon DEF IInv, ChainTypeOK, RowInv, StoreTypeOK, OneProcessInv, GapInv, NoNonceGap
<1>2. ASSUME NEW r \in Direct, NEW outcome \in Mined, Mine(r, outcome) PROVE [Lock!Next]_Stage
  <2>1. \A s \in Direct : \/ tx'[s] = tx[s] /\ tx[s] \notin AtLarge
                          \/ tx[s] \in AtLarge /\ tx'[s] \in {"dead"} \cup Mined
    BY <1>1, <1>2, Zenon DEF Mine, Supersede, AtLarge, Mined
  <2> QED
    BY <1>2, <2>1, MinedLands, Zenon DEF Mine
<1>3. ASSUME MineForeign PROVE [Lock!Next]_Stage
  <2>1. \A s \in Direct : \/ tx'[s] = tx[s] /\ tx[s] \notin AtLarge
                          \/ tx[s] \in AtLarge /\ tx'[s] \in {"dead"} \cup Mined
    BY <1>1, <1>3, Zenon DEF MineForeign, Supersede, AtLarge, Mined
  <2> QED
    BY <1>3, <2>1, MinedLands, Zenon DEF MineForeign
<1>4. ASSUME NEW r \in Direct, Drop(r) \/ Rebroadcast(r) PROVE [Lock!Next]_Stage
  <2>1. \A s \in Direct : tx'[s] = tx[s] \/ (tx[s] \in AtLarge /\ tx'[s] \in AtLarge)
    BY <1>1, <1>4, Zenon DEF Drop, Rebroadcast, AtLarge
  <2>2. UNCHANGED <<status, astatus, op, lock>>
    BY <1>4, Zenon DEF Drop, Rebroadcast
  <2> QED
    BY <1>1, <2>1, <2>2, RowsSteady, Zenon
<1>5. ASSUME NEW a \in Auction, NEW to \in {"won", "failed", "bad", "expired"}, op[a] \in {"none", "live"},
             op' = [op EXCEPT ![a] = to], UNCHANGED <<txVars, storeVars>>
      PROVE  [Lock!Next]_Stage
  <2>1. op'[a] = to /\ \A b \in Auction \ {a} : op'[b] = op[b]
    BY <1>1, <1>5, Zenon
  <2>2. op[a] = "live" => lock = a /\ astatus[a] \in {"signed", "submitted", "submission_unknown"}
    BY Zenon DEF OneProcessInv, FlightInv, LockCoversInFlight
  <2>3. Onward(Stage[a], Stage'[a])
    BY <1>5, <2>1, <2>2, AtlasStages, Zenon DEF Onward
  <2>4. \A j \in Identities \ {a} : Stage'[j] = Stage[j]
    BY <1>5, <2>1, AuctionMoves, Zenon
  <2> QED
    BY <2>3, <2>4, OneMoves, Zenon DEF Identities
<1>6. ASSUME NEW a \in Auction, PassDeadline(a) \/ \E outcome \in {"won", "failed", "bad"} : Include(a, outcome)
      PROVE  [Lock!Next]_Stage
  BY <1>5, <1>6, Zenon DEF PassDeadline, Include
<1> QED
  BY <1>2, <1>3, <1>4, <1>6, Zenon DEF ChainNext

LEMMA ControlRefines ==
    ASSUME IInv, IInv', ControlNext, UNCHANGED chainVars
    PROVE  [Lock!Next]_Stage
<1> USE DEF chainVars, txVars
<1>1. UNCHANGED lock
  BY Zenon DEF ControlNext, Activate, CreateReadiness, SetMaxReviewed, PostArmRecovery, arm_revenue_lanes, ProviderRecovery,
         OperatorDisarm, route_failure, SupervisorFailClose, fail_close_provider_execution_gate, RecordProviderFailure,
         RecordProviderSuccess, InsertCandidate, insertExecutionCandidate, insertAtlasCandidate, NewDay, othersUnchanged
<1>2. /\ status' = status \/ \E r \in Direct : status[r] = "absent" /\ status' = [status EXCEPT ![r] = "approved"]
      /\ astatus' = astatus \/ \E a \in Auction : astatus[a] = "absent" /\ astatus' = [astatus EXCEPT ![a] = "ready"]
  BY Zenon DEF ControlNext, Activate, CreateReadiness, SetMaxReviewed, PostArmRecovery, arm_revenue_lanes, ProviderRecovery,
         OperatorDisarm, route_failure, SupervisorFailClose, fail_close_provider_execution_gate, RecordProviderFailure,
         RecordProviderSuccess, InsertCandidate, insertExecutionCandidate, insertAtlasCandidate, NewDay,
         othersUnchanged, attemptVars, atlasVars
<1>3. status \in [Direct -> AttemptStatus] /\ status' \in [Direct -> AttemptStatus] /\ astatus \in [Auction -> AtlasStatus]
  BY Zenon DEF IInv, RowInv, StoreTypeOK
<1>4. \A r \in Direct : status'[r] = status[r] \/ (NotYet(status[r]) <=> NotYet(status'[r]))
  BY <1>2, <1>3, Zenon DEF NotYet
<1>5. \A a \in Auction : astatus'[a] = astatus[a] \/ (astatus[a] = "absent" /\ astatus'[a] = "ready")
  BY <1>2, <1>3, Zenon
<1> QED
  BY <1>1, <1>3, <1>4, <1>5, RowsSteady, Zenon

-----------------------------------------------------------------------------
(* The process: steps that move no request.                                *)

\* The status of a request in progress changes, nothing else of it.
LEMMA StatusSteady ==
    ASSUME IInv, IInv', NEW r \in Direct, NEW to, ~NotYet(to), ~NotYet(status[r]),
           status' = [status EXCEPT ![r] = to], UNCHANGED <<astatus, lock, chainVars>>
    PROVE  [Lock!Next]_Stage
<1>1. status \in [Direct -> AttemptStatus] /\ status' \in [Direct -> AttemptStatus]
  BY Zenon DEF IInv, RowInv, StoreTypeOK
<1>2. \A s \in Direct : status'[s] = status[s] \/ (NotYet(status[s]) <=> NotYet(status'[s]))
  BY <1>1, Zenon DEF NotYet
<1> QED
  BY <1>1, <1>2, RowsSteady, Zenon DEF chainVars, txVars

LEMMA Steady ==
    ASSUME IInv, UNCHANGED <<status, astatus, lock, chainVars>>
    PROVE  [Lock!Next]_Stage
BY RowsSteady DEF IInv, RowInv, StoreTypeOK, chainVars, txVars

LEMMA FaultRefines ==
    ASSUME IInv, IInv', NEW p \in Proc, Fault(p)
    PROVE  [Lock!Next]_Stage
<1>1. CASE UNCHANGED <<storeVars, chainVars>>
  BY <1>1, Steady, Zenon DEF storeVars, attemptVars, atlasVars
<1>2. CASE pc[p] = "sent" /\ HasUnsubmittedNonce(cur[p]) /\ mark_pending(cur[p]) /\ UNCHANGED chainVars
  <2>1. cur[p] \in Direct
    BY <1>2, Zenon DEF IInv, ProcessInv, WorkInv, DirectPc, ExecutorPc
  <2> QED
    BY <1>2, <2>1, StatusSteady, ZenonT(30) DEF HasUnsubmittedNonce, mark_pending, NotYet, atlasVars
<1> QED
  BY <1>1, <1>2, Zenon DEF Fault, Crash, DatabaseFault, MaterializerFault, AtlasFault

LEMMA MaterializerRefines ==
    ASSUME IInv, IInv', NEW p \in Proc, MaterializerStep(p)
    PROVE  [Lock!Next]_Stage
<1>1. CASE QuoteCandidate(p) \/ ClaimCandidate(p) \/ ForkDisposition(p) \/ RejectCandidate(p) \/ DisarmRoute(p)
  <2>1. UNCHANGED <<status, astatus, lock, chainVars>>
    BY <1>1, Zenon DEF QuoteCandidate, ClaimCandidate, ForkDisposition, RejectCandidate, DisarmRoute, Branch, Finish, Commit,
                CommitLast, candOnly, storeVars, attemptVars, atlasVars
  <2> QED
    BY <2>1, Steady, Zenon
<1>2. CASE InsertApprovedRequest(p)
  <2>1. /\ pc[p] = "finalize" /\ cand[cur[p]] = "approval_pending" /\ status' = [status EXCEPT ![cur[p]] = "approved"]
        /\ UNCHANGED <<astatus, lock, chainVars>>
    BY <1>2, Zenon DEF InsertApprovedRequest, CommitLast, atlasVars
  <2>2. cur[p] \in Direct /\ status[cur[p]] = "absent"
    BY <2>1, Zenon DEF IInv, RowInv, CandidateInv, ProcessInv, WorkInv, DirectPc
  <2>3. status \in [Direct -> AttemptStatus] /\ status' \in [Direct -> AttemptStatus]
    BY Zenon DEF IInv, RowInv, StoreTypeOK
  <2>4. \A s \in Direct : status'[s] = status[s] \/ (NotYet(status[s]) <=> NotYet(status'[s]))
    BY <2>1, <2>2, <2>3, Zenon DEF NotYet
  <2> QED
    BY <2>1, <2>3, <2>4, RowsSteady, Zenon DEF chainVars, txVars
<1> QED
  BY <1>1, <1>2, Zenon DEF MaterializerStep

-----------------------------------------------------------------------------
(* The direct lanes.                                                       *)

\* Reads, decisions, disarms and the second signature: no request moves.
LEMMA DecideRefines ==
    ASSUME IInv, NEW p \in Proc,
           \/ Gate(p) \/ CheckContract(p) \/ Sign(p) \/ RecheckControl(p) \/ RecheckBudget(p) \/ ReceiptError(p)
           \/ ReceiptMissing(p) \/ TransactionKnown(p) \/ ReplacementNonce(p) \/ RecordMonitorError(p) \/ ConfirmedLoss(p)
           \/ Restart(p) \/ ActiveAttempt(p) \/ ReceiptFound(p) \/ PendingNonce(p) \/ MarkSigned(p) \/ Disarm(p)
           \/ FatalExit(p)
    PROVE  [Lock!Next]_Stage
<1>1. UNCHANGED <<status, astatus, lock, chainVars>>
  <2>1. CASE MarkSigned(p) \/ Disarm(p) \/ FatalExit(p)
    BY <2>1, Zenon DEF MarkSigned, Disarm, FatalExit, Refused, Finish, Commit, CommitLast, mark_signed, disarm, storeVars,
                attemptVars, atlasVars
  <2>2. CASE ActiveAttempt(p) \/ PendingNonce(p)
    BY <2>2, Zenon DEF ActiveAttempt, PendingNonce, Branch, storeVars, attemptVars, atlasVars
  <2>3. CASE ~(MarkSigned(p) \/ Disarm(p) \/ FatalExit(p) \/ ActiveAttempt(p) \/ PendingNonce(p))
    BY <2>3, Zenon DEF Gate, CheckContract, Sign, RecheckControl, RecheckBudget, ReceiptError, ReceiptMissing, TransactionKnown,
                ReplacementNonce, RecordMonitorError, Refused, ConfirmedLoss, Restart, ReceiptFound, Branch, Finish,
                storeVars, attemptVars, atlasVars
  <2> QED
    BY <2>1, <2>2, <2>3, Zenon
<1> QED
  BY <1>1, Steady, Zenon

LEMMA ClaimRefines ==
    ASSUME IInv, IInv', OneProcessInv, NEW p \in Proc, ClaimApproved(p)
    PROVE  [Lock!Next]_Stage
<1>1. CASE Finish(p, "claim", "atlas")
  BY <1>1, Steady, Zenon DEF Finish, storeVars, attemptVars, atlasVars
<1>2. ASSUME NEW r \in Direct, CanClaim(r), claim_approved(r), UNCHANGED chainVars PROVE [Lock!Next]_Stage
  <2>1. /\ lock = NoOwner /\ lock' = r /\ status[r] = "approved" /\ tx[r] = "none"
        /\ status' = [status EXCEPT ![r] = "claimed"] /\ UNCHANGED <<astatus, op, tx>>
    BY <1>2, Zenon DEF CanClaim, claim_approved, atlasVars, chainVars, txVars, IInv, ProcessInv, NonceInv
  <2>2. status'[r] = "claimed" /\ \A s \in Direct \ {r} : status'[s] = status[s]
    BY <2>1, Zenon DEF IInv, RowInv, StoreTypeOK
  <2>3. Stage[r] = "waiting" /\ Stage'[r] = "held"
    BY <2>1, <2>2, DirectStages, Zenon DEF AtLarge
  <2>4. \A j \in Identities \ {r} : Stage'[j] = Stage[j]
    BY <2>1, <2>2, DirectMoves, Zenon
  <2>5. \A j \in Identities : Stage[j] \notin {"held", "flying", "landed"}
    BY <2>1, BusyIsLocked, StoreAssumption, Zenon DEF OneProcessInv, Identities
  <2> QED
    BY <2>3, <2>4, <2>5, OneAcquires, Zenon DEF Identities
<1> QED
  BY <1>1, <1>2, Zenon DEF ClaimApproved

\* The attempt is closed, before anything was sent or with a mined transaction.
LEMMA ClosedIsSettled ==
    ASSUME IInv, NEW r \in Direct, NEW to \in {"failed", "confirmed", "reverted"}, status[r] \in ActiveStatuses,
           tx[r] \notin AtLarge, status' = [status EXCEPT ![r] = to], lock' = Released(r), UNCHANGED <<astatus, chainVars>>
    PROVE  [Lock!Next]_Stage
<1>1. status \in [Direct -> AttemptStatus] /\ lock = r /\ r # NoOwner
  BY StoreAssumption, Zenon DEF IInv, RowInv, StoreTypeOK, LockMatchesWork, Active
<1>2. lock' = NoOwner /\ status'[r] = to /\ (\A s \in Direct \ {r} : status'[s] = status[s]) /\ UNCHANGED <<tx, op>>
  BY <1>1, Zenon DEF Released, chainVars, txVars
<1>3. Stage[r] \in {"held", "landed"}
  BY <1>1, DirectStages, Zenon DEF ActiveStatuses
<1>4. Stage'[r] = "settled"
  BY <1>1, <1>2, DirectStages, Zenon
<1>5. \A j \in Identities \ {r} : Stage'[j] = Stage[j]
  BY <1>1, <1>2, DirectMoves, Zenon
<1> QED
  BY <1>3, <1>4, <1>5, OneMoves, Zenon DEF Identities, Onward

LEMMA TerminalRefines ==
    ASSUME IInv, IInv', OneProcessInv, NEW p \in Proc,
           FailClaimed(p) \/ RestartClaimed(p) \/ MarkReplaced(p) \/ ReceiptTimeout(p) \/ CompleteReceipt(p)
    PROVE  [Lock!Next]_Stage
<1>1. ASSUME UNCHANGED <<storeVars, chainVars>> PROVE [Lock!Next]_Stage
  BY <1>1, Steady, Zenon DEF storeVars, attemptVars, atlasVars
<1>2. ASSUME NEW st, NEW loss, NEW limitHit, mark_terminal(cur[p], st, loss, limitHit), UNCHANGED chainVars,
             \/ pc[p] \in {"fail", "fail_disarm", "was_claimed"} /\ st = "failed"
             \/ pc[p] \in {"mark_replaced", "timeout"} /\ st \in {"replaced", "timed_out"}
             \/ pc[p] = "complete" /\ st \in {"confirmed", "reverted"}
      PROVE  [Lock!Next]_Stage
  <2>1. /\ cur[p] \in Direct
        /\ st = "failed" => status[cur[p]] = "claimed"
        /\ st # "failed" => status[cur[p]] \in {"pending", "timed_out"}
        /\ st \in {"confirmed", "reverted"} => tx[cur[p]] \in Mined
    BY <1>2, WorksOn, ZenonT(30) DEF IInv, ProcessInv, OneProcessInv, PlaceInv, Place, AtClaimed, AtPending
  <2>2. status[cur[p]] = "claimed" => tx[cur[p]] = "none"
    BY <2>1, Zenon DEF OneProcessInv, FlightInv, BroadcastNeverForgotten
  <2>3. status' = [status EXCEPT ![cur[p]] = st] /\ UNCHANGED astatus
    BY <1>2, Zenon DEF mark_terminal, atlasVars
  <2>4. CASE st \in {"failed", "confirmed", "reverted"}
    <3>1. lock' = Released(cur[p])
      BY <1>2, <2>4, Zenon DEF mark_terminal
    <3>2. tx[cur[p]] \notin AtLarge /\ status[cur[p]] \in ActiveStatuses
      BY <2>1, <2>2, <2>4, Zenon DEF Mined, AtLarge, ActiveStatuses
    <3> QED
      BY <1>2, <2>1, <2>3, <2>4, <3>1, <3>2, ClosedIsSettled, ZenonT(30)
  <2>5. CASE st \in {"replaced", "timed_out"}
    <3>1. UNCHANGED lock
      BY <1>2, <2>5, Zenon DEF mark_terminal
    <3> QED
      BY <1>2, <2>1, <2>3, <2>5, <3>1, StatusSteady, ZenonT(30) DEF NotYet
  <2> QED
    BY <1>2, <2>4, <2>5, Zenon
<1>3. CASE FailClaimed(p)
  BY <1>1, <1>2, <1>3, Zenon DEF FailClaimed, Refused, Finish, Commit, CommitLast
<1>4. CASE RestartClaimed(p)
  BY <1>1, <1>2, <1>4, Zenon DEF RestartClaimed, Refused, Finish, Commit
<1>5. CASE MarkReplaced(p)
  BY <1>1, <1>2, <1>5, ZenonT(30) DEF MarkReplaced, Refused, Finish, Commit
<1>6. CASE ReceiptTimeout(p)
  BY <1>1, <1>2, <1>6, ZenonT(30) DEF ReceiptTimeout, Refused, Finish, Commit
<1>7. CASE CompleteReceipt(p)
  BY <1>1, <1>2, <1>7, Zenon DEF CompleteReceipt, Refused, Finish, Branch, CommitLast
<1> QED
  BY <1>3, <1>4, <1>5, <1>6, <1>7, Zenon

\* The nonce is allocated, given back, or the outcome of the submission recorded.
LEMMA SubmittedRefines ==
    ASSUME IInv, IInv', OneProcessInv, NEW p \in Proc,
           \/ AllocateNonce(p) \/ FailUnsubmitted(p) \/ MarkPending(p) \/ MarkSubmissionUnknown(p) \/ PersistFailed(p)
           \/ RestartAllocated(p)
    PROVE  [Lock!Next]_Stage
<1>1. ASSUME UNCHANGED <<storeVars, chainVars>> PROVE [Lock!Next]_Stage
  BY <1>1, Steady, Zenon DEF storeVars, attemptVars, atlasVars
<1>2. ASSUME pc[p] \in {"allocate", "sent", "unknown", "persist_failed", "was_allocated"}, UNCHANGED chainVars,
             \/ CanAllocate(cur[p]) /\ allocate_nonce(cur[p], net[p])
             \/ HasUnsubmittedNonce(cur[p]) /\ (mark_pending(cur[p]) \/ mark_submission_unknown(cur[p]))
      PROVE  [Lock!Next]_Stage
  <2>1. cur[p] \in Direct
    BY <1>2, ZenonT(30) DEF IInv, ProcessInv, WorkInv, DirectPc, ExecutorPc
  <2>2. UNCHANGED <<astatus, lock>> /\ status[cur[p]] \in {"claimed", "nonce_allocated"}
    BY <1>2, ZenonT(30) DEF CanAllocate, HasUnsubmittedNonce, allocate_nonce, mark_pending, mark_submission_unknown, atlasVars
  <2>3. \E to \in {"nonce_allocated", "pending", "submission_unknown"} : status' = [status EXCEPT ![cur[p]] = to]
    BY <1>2, Zenon DEF allocate_nonce, mark_pending, mark_submission_unknown
  <2> QED
    BY <1>2, <2>1, <2>2, <2>3, StatusSteady, Zenon DEF NotYet
<1>3. ASSUME pc[p] \in {"unsubmitted", "unsubmitted_disarm", "unsubmitted_exit"}, UNCHANGED chainVars,
             CanRollBack(cur[p]), fail_unsubmitted(cur[p])
      PROVE  [Lock!Next]_Stage
  <2>1. cur[p] \in Direct /\ tx[cur[p]] = "none"
    BY <1>3, Zenon DEF IInv, ProcessInv, WorkInv, DirectPc, ExecutorPc, UnsentPc, ClaimantPc
  <2>2. /\ status[cur[p]] \in ActiveStatuses /\ status' = [status EXCEPT ![cur[p]] = "failed"] /\ lock' = Released(cur[p])
        /\ UNCHANGED astatus
    BY <1>3, Zenon DEF CanRollBack, HasUnsubmittedNonce, fail_unsubmitted, ActiveStatuses, atlasVars
  <2> QED
    BY <1>3, <2>1, <2>2, ClosedIsSettled, Zenon DEF AtLarge
<1>4. CASE FailUnsubmitted(p)
  BY <1>1, <1>3, <1>4, ZenonT(30) DEF FailUnsubmitted, Refused, Finish, Commit, CommitLast
<1>5. CASE AllocateNonce(p) \/ MarkPending(p)
  BY <1>1, <1>2, <1>5, ZenonT(30) DEF AllocateNonce, MarkPending, Refused, Finish, Branch, Commit, CommitLast
<1>6. CASE MarkSubmissionUnknown(p) \/ PersistFailed(p) \/ RestartAllocated(p)
  BY <1>1, <1>2, <1>6, Zenon DEF MarkSubmissionUnknown, PersistFailed, RestartAllocated, Refused, Finish, Commit, CommitLast
<1> QED
  BY <1>4, <1>5, <1>6, Zenon

LEMMA SendRefines ==
    ASSUME IInv, OneProcessInv, NEW p \in Proc, SendRawTransaction(p)
    PROVE  [Lock!Next]_Stage
<1> USE DEF storeVars, attemptVars, atlasVars
<1>1. CASE UNCHANGED tx
  BY <1>1, Steady, ZenonT(30) DEF SendRawTransaction, chainVars, txVars
<1>2. CASE tx' = [tx EXCEPT ![cur[p]] = "mempool"]
  <2>1. pc[p] = "send" /\ UNCHANGED <<status, astatus, lock, op>>
    BY ZenonT(30) DEF SendRawTransaction
  <2>2. cur[p] \in Direct /\ tx[cur[p]] = "none" /\ status[cur[p]] = "nonce_allocated"
    BY <2>1, WorksOn, ZenonT(30) DEF IInv, ProcessInv, WorkInv, UnsentPc, ClaimantPc, OneProcessInv, PlaceInv, Place, AtAllocated, NoncePc
  <2>3. lock = cur[p]
    BY <2>2, Zenon DEF IInv, RowInv, LockMatchesWork, Active, ActiveStatuses
  <2>4. tx'[cur[p]] = "mempool" /\ \A s \in Direct \ {cur[p]} : tx'[s] = tx[s]
    BY <1>2, <2>2, Zenon DEF IInv, ChainTypeOK
  <2>5. Stage[cur[p]] = "held" /\ Stage'[cur[p]] = "flying"
    BY <2>1, <2>2, <2>3, <2>4, DirectStages, Zenon DEF AtLarge
  <2>6. \A j \in Identities \ {cur[p]} : Stage'[j] = Stage[j]
    BY <2>1, <2>2, <2>4, DirectMoves, Zenon
  <2> QED
    BY <2>2, <2>5, <2>6, OneMoves, ZenonT(30) DEF Identities, Onward
<1> QED
  BY <1>1, <1>2, ZenonT(30) DEF SendRawTransaction

LEMMA ExecutorRefines ==
    ASSUME IInv, IInv', OneProcessInv, NEW p \in Proc, ExecutorStep(p)
    PROVE  [Lock!Next]_Stage
BY DecideRefines, ClaimRefines, TerminalRefines, SubmittedRefines, SendRefines, SMTT(30) DEF ExecutorStep

-----------------------------------------------------------------------------
(* The Atlas lane.                                                         *)

\* The row of the auction moves and the lock stays, or is given back when no
\* bid is out.
LEMMA AuctionRowMoves ==
    ASSUME IInv, OneProcessInv, NEW a \in Auction, NEW to, UNCHANGED <<status, chainVars>>,
           \/ astatus' = astatus /\ UNCHANGED lock
           \/ /\ astatus' = [astatus EXCEPT ![a] = to] /\ UNCHANGED lock
              /\ astatus[a] \in {"claimed", "signed"} /\ to \in {"signed", "submitted", "submission_unknown"}
           \/ /\ astatus' = [astatus EXCEPT ![a] = to] /\ lock' = Released(a)
              /\ a \in ActiveAtlas /\ to \in {"lost", "expired", "reconciled"} /\ op[a] # "live"
    PROVE  [Lock!Next]_Stage
<1>1. CASE astatus' = astatus /\ UNCHANGED lock
  BY <1>1, Steady, Zenon
<1>2. CASE ~(astatus' = astatus /\ UNCHANGED lock)
  <2>1. astatus[a] \in {"claimed", "signed", "submitted", "submission_unknown"}
    BY <1>2, Zenon DEF ActiveAtlas
  <2>2. lock = a /\ a # NoOwner
    BY <2>1, StoreAssumption, Zenon DEF IInv, RowInv, LockMatchesWork, ActiveAtlas
  <2>3. astatus'[a] = to /\ (\A b \in Auction \ {a} : astatus'[b] = astatus[b]) /\ UNCHANGED <<op, tx>>
    BY <1>2, Zenon DEF IInv, RowInv, StoreTypeOK, chainVars, txVars
  <2>4. astatus[a] = "claimed" => op[a] # "live"
    BY Zenon DEF OneProcessInv, FlightInv
  <2>5. Onward(Stage[a], Stage'[a])
    <3>1. CASE UNCHANGED lock /\ to \in {"signed", "submitted", "submission_unknown"}
      BY <2>1, <2>2, <2>3, <2>4, <3>1, AtlasStages, ZenonT(30) DEF Onward
    <3>2. CASE lock' = Released(a) /\ to \in {"lost", "expired", "reconciled"} /\ op[a] # "live"
      <4>1. lock' = NoOwner
        BY <2>2, <3>2, Zenon DEF Released
      <4> QED
        BY <2>1, <2>2, <2>3, <3>2, <4>1, AtlasStages, ZenonT(30) DEF Onward
    <3> QED
      BY <1>2, <3>1, <3>2, Zenon
  <2>6. lock' \in {a, NoOwner}
    BY <2>2, Zenon DEF Released
  <2>7. \A j \in Identities \ {a} : Stage'[j] = Stage[j]
    BY <2>2, <2>3, <2>6, AuctionMoves, Zenon
  <2> QED
    BY <2>5, <2>7, OneMoves, Zenon DEF Identities
<1> QED
  BY <1>1, <1>2, Zenon

LEMMA AtlasWriteRefines ==
    ASSUME IInv, OneProcessInv, NEW p \in Proc,
           \/ AtlasSign(p) \/ AtlasSubmitted(p) \/ reject_and_unlock(p) \/ kill_unknown(p)
           \/ PersistExpired(p) \/ PersistFailedInclusion(p) \/ PersistReconciled(p)
    PROVE  [Lock!Next]_Stage
<1>1. pc[p] \in {"atlas_sign", "atlas_submitted", "atlas_reject", "atlas_kill", "atlas_expired", "atlas_failed", "atlas_won"}
  BY ZenonT(30) DEF AtlasSign, AtlasSubmitted, reject_and_unlock, kill_unknown, PersistExpired, PersistFailedInclusion,
         PersistReconciled, Branch, Commit, CommitLast
<1>2. cur[p] \in Auction /\ Place(p)
  BY <1>1, Zenon DEF IInv, ProcessInv, WorkInv, AuctionPc, AtlasPc, OneProcessInv, PlaceInv
<1>3. CASE Branch(p, "atlas_sign", "atlas_kill")
  BY <1>3, Steady, Zenon DEF Branch, storeVars, attemptVars, atlasVars
<1>4. CASE (AtlasSign(p) /\ ~Branch(p, "atlas_sign", "atlas_kill")) \/ AtlasSubmitted(p) \/ kill_unknown(p)
  <2>1. UNCHANGED <<status, lock, chainVars>>
    BY <1>4, Zenon DEF AtlasSign, AtlasSubmitted, kill_unknown, Commit, CommitLast, attemptVars
  <2>2. \/ astatus' = astatus
        \/ /\ astatus[cur[p]] \in {"claimed", "signed"}
           /\ \E to \in {"signed", "submitted", "submission_unknown"} : astatus' = [astatus EXCEPT ![cur[p]] = to]
    BY <1>4, Zenon DEF AtlasSign, AtlasSubmitted, kill_unknown, AtlasUpdate, AtlasMove
  <2> QED
    BY <1>2, <2>1, <2>2, AuctionRowMoves, Zenon
<1>5. CASE reject_and_unlock(p) \/ PersistExpired(p) \/ PersistFailedInclusion(p) \/ PersistReconciled(p)
  <2>1. UNCHANGED <<status, chainVars>> /\ lock' = Released(cur[p]) /\ op[cur[p]] # "live"
    BY <1>2, <1>5, Zenon DEF reject_and_unlock, PersistExpired, PersistFailedInclusion, PersistReconciled, CommitLast, attemptVars,
                      Place
  <2>2. CASE cur[p] \in ActiveAtlas
    <3>1. astatus[cur[p]] \in {"submitted", "submission_unknown"} \/ pc[p] = "atlas_reject"
      BY <1>5, <2>2, Zenon DEF reject_and_unlock, PersistExpired, PersistFailedInclusion, PersistReconciled, CommitLast, IInv,
                        ProcessInv, WorkInv, SettlePc, ActiveAtlas
    <3>2. \E to \in {"lost", "expired", "reconciled"} : astatus' = [astatus EXCEPT ![cur[p]] = to]
      BY <1>5, <2>2, <3>1, Zenon DEF reject_and_unlock, PersistExpired, PersistFailedInclusion, PersistReconciled, CommitLast,
                              AtlasUpdate, AtlasMove, ActiveAtlas
    <3> QED
      BY <1>2, <2>1, <2>2, <3>2, AuctionRowMoves, Zenon
  <2>3. CASE cur[p] \notin ActiveAtlas
    <3>1. astatus' = astatus
      BY <1>2, <1>5, <2>3, Zenon DEF reject_and_unlock, PersistExpired, PersistFailedInclusion, PersistReconciled, AtlasUpdate,
                              AtlasMove, ActiveAtlas
    <3>2. UNCHANGED lock
      BY <1>2, <2>1, <2>3, Zenon DEF Released, IInv, RowInv, LockMatchesWork
    <3> QED
      BY <2>1, <3>1, <3>2, Steady, Zenon
  <2> QED
    BY <2>2, <2>3, Zenon
<1> QED
  BY <1>3, <1>4, <1>5, Zenon

LEMMA AtlasClaimRefines ==
    ASSUME IInv, OneProcessInv, NEW p \in Proc, AtlasClaim(p)
    PROVE  [Lock!Next]_Stage
<1>1. CASE Finish(p, "atlas_claim", LoopTop)
  BY <1>1, Steady, Zenon DEF Finish, storeVars, attemptVars, atlasVars
<1>2. ASSUME NEW a \in Auction, CanClaimAuction(a), AtlasUpdate(a, {"ready"}, "claimed"), lock' = a,
             UNCHANGED <<chainVars, attemptVars>>
      PROVE  [Lock!Next]_Stage
  <2>1. /\ lock = NoOwner /\ astatus[a] = "ready" /\ astatus' = [astatus EXCEPT ![a] = "claimed"]
        /\ UNCHANGED <<status, tx, op>>
    BY <1>2, Zenon DEF CanClaimAuction, AtlasUpdate, AtlasMove, attemptVars, chainVars, txVars
  <2>2. astatus'[a] = "claimed" /\ \A b \in Auction \ {a} : astatus'[b] = astatus[b]
    BY <2>1, Zenon DEF IInv, RowInv, StoreTypeOK
  <2>3. op[a] # "live"
    BY <2>1, Zenon DEF OneProcessInv, FlightInv
  <2>4. Stage[a] = "waiting" /\ Stage'[a] = "held"
    BY <1>2, <2>1, <2>2, <2>3, AtlasStages, Zenon
  <2>5. \A j \in Identities \ {a} : Stage'[j] = Stage[j]
    BY <1>2, <2>1, <2>2, AuctionMoves, ZenonT(30)
  <2>6. \A j \in Identities : Stage[j] \notin {"held", "flying", "landed"}
    BY <2>1, BusyIsLocked, StoreAssumption, Zenon DEF OneProcessInv, Identities
  <2> QED
    BY <2>4, <2>5, <2>6, OneAcquires, Zenon DEF Identities
<1> QED
  BY <1>1, <1>2, Zenon DEF AtlasClaim

LEMMA AtlasSubmitRefines ==
    ASSUME IInv, OneProcessInv, NEW p \in Proc, AtlasSubmit(p)
    PROVE  [Lock!Next]_Stage
<1> USE DEF storeVars, attemptVars, atlasVars
<1>1. CASE UNCHANGED <<storeVars, chainVars>>
  BY <1>1, Steady, Zenon
<1>2. ASSUME pc[p] = "atlas_submit", op[cur[p]] = "none", op' = [op EXCEPT ![cur[p]] = "live"], UNCHANGED <<storeVars, txVars>>
      PROVE  [Lock!Next]_Stage
  <2>1. cur[p] \in Auction /\ astatus[cur[p]] = "signed"
    BY <1>2, WorksOn, ZenonT(30) DEF IInv, ProcessInv, OneProcessInv, PlaceInv, Place, AtSigned
  <2>2. lock = cur[p]
    BY <2>1, Zenon DEF IInv, RowInv, LockMatchesWork, ActiveAtlas
  <2>3. op'[cur[p]] = "live" /\ \A b \in Auction \ {cur[p]} : op'[b] = op[b]
    BY <1>2, <2>1, ZenonT(30) DEF IInv, ChainTypeOK
  <2>4. Stage[cur[p]] = "held" /\ Stage'[cur[p]] = "flying"
    BY <1>2, <2>1, <2>2, <2>3, AtlasStages, Zenon
  <2>5. \A j \in Identities \ {cur[p]} : Stage'[j] = Stage[j]
    BY <1>2, <2>1, <2>3, AuctionMoves, Zenon DEF txVars
  <2> QED
    BY <2>1, <2>4, <2>5, OneMoves, ZenonT(30) DEF Identities, Onward
<1> QED
  BY <1>1, <1>2, Zenon DEF AtlasSubmit, Branch, chainVars

LEMMA AtlasRefines ==
    ASSUME IInv, OneProcessInv, NEW p \in Proc, AtlasStep(p)
    PROVE  [Lock!Next]_Stage
<1>1. CASE AtlasActive(p) \/ AtlasUnverified(p) \/ AtlasReconcile(p) \/ AtlasValidate(p) \/ AtlasRecheck(p)
  <2>1. UNCHANGED <<storeVars, chainVars>>
    BY <1>1, Zenon DEF AtlasActive, AtlasUnverified, AtlasReconcile, AtlasValidate, AtlasRecheck, Branch, Finish
  <2> QED
    BY <2>1, Steady, Zenon DEF storeVars, attemptVars, atlasVars
<1> QED
  BY <1>1, AtlasWriteRefines, AtlasClaimRefines, AtlasSubmitRefines, Zenon DEF AtlasStep

-----------------------------------------------------------------------------
(* The theorem.                                                            *)

LEMMA LockInit ==
    ASSUME Init
    PROVE  Lock!Init
<1> USE DEF Init, StoreInit, ChainInit
<1>1. \A r \in Direct : Stage[r] = "waiting"
  BY DirectStages, Zenon
<1>2. \A a \in Auction : Stage[a] = "waiting"
  BY AtlasStages, Zenon
<1> QED
  BY <1>1, <1>2, Zenon DEF Lock!Init, Stage

LEMMA LockStep ==
    ASSUME IInv, IInv', OneProcessInv, [Next]_vars
    PROVE  [Lock!Next]_Stage
<1>1. ASSUME NEW p \in Proc, Process(p) PROVE [Lock!Next]_Stage
  BY <1>1, MaterializerRefines, ExecutorRefines, AtlasRefines, DecideRefines, Zenon DEF Process
<1>2. ASSUME NEW p \in Proc, Fault(p) PROVE [Lock!Next]_Stage
  BY <1>2, FaultRefines, Zenon
<1>3. CASE ControlNext /\ UNCHANGED <<chainVars, procVars>>
  BY <1>3, ControlRefines, Zenon
<1>4. CASE ChainNext /\ UNCHANGED procVars
  BY <1>4, ChainRefines, Zenon
<1>5. CASE UNCHANGED vars
  BY <1>5, Steady, Zenon DEF vars, storeVars, attemptVars, atlasVars
<1> QED
  BY <1>1, <1>2, <1>3, <1>4, <1>5, Zenon DEF Next

=============================================================================
