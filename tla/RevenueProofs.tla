--------------------------- MODULE RevenueProofs ----------------------------
(***************************************************************************)
(* The theorems about RevenueExecution for any sets of requests and        *)
(* auctions: what holds with any number of executor processes, and what a  *)
(* single process guarantees on top of it.                                 *)
(***************************************************************************)
EXTENDS ExecutorProofs, FlightProofs, BudgetProofs

\* Every reachable state satisfies the invariant.
THEOREM Invariance == Spec => []IInv
  BY InitInv, NextInv, PTL DEF Spec

\* Every row, transaction and process stays within its type.
THEOREM TypeCorrect == Spec => []TypeOK
<1>1. IInv => TypeOK
  BY Zenon DEF IInv, RowInv, TypeOK
<1> QED
  BY <1>1, Invariance, PTL

\* No two transactions of the wallet that left the executor carry one nonce,
\* with any number of requests and of overlapping executor processes.
THEOREM NonceSafety == Spec => []NonceUsedOnce
<1>1. IInv => NonceUsedOnce
  BY SMTT(30) DEF IInv, ProcessInv, NonceInv, NonceTaken, NonceUsedOnce
<1> QED
  BY <1>1, Invariance, PTL

\* One request of all lanes is in progress and the lock row names it.
THEOREM LockSafety == Spec => []LockMatchesWork
<1>1. IInv => LockMatchesWork
  BY SMTT(30) DEF IInv, RowInv
<1> QED
  BY <1>1, Invariance, PTL

\* An armed control row seen by an attempt is the authority of its own lane.
THEOREM AuthoritySafety == Spec => []OwnAuthority
<1>1. IInv => OwnAuthority
  BY Zenon DEF IInv, RowInv, PhaseInv, OwnAuthority, ControlArmed, Authority, DexAuthority, LaneAuthority
<1> QED
  BY <1>1, Invariance, PTL

\* No step re-opens a closed attempt, changes the nonce of a transaction that
\* left the executor, or forgets or repeats a broadcast: mark_terminal,
\* mark_pending, mark_submission_unknown and fail_unsubmitted each look at the
\* status they move from.
THEOREM Advance == Spec => AttemptsOnlyAdvance
<1>1. IInv /\ [Next]_vars => [AttemptAdvances]_vars
  BY ExecutorAdvances, FaultAdvances, ControlAdvances, ChainAdvances, SMTT(30) DEF Next
<1> QED
  BY <1>1, Invariance, PTL DEF Spec, AttemptsOnlyAdvance

-----------------------------------------------------------------------------
(* What one process guarantees on top of it.                               *)

\* With one process, what it read of the rows stays true until it writes, and
\* the rows, the counter and the candidates agree with the chain.
THEOREM FlightInvariance == ASSUME OneProcess PROVE Spec => []OneProcessInv
<1>1. Init => OneProcessInv
  BY FlightInit, Zenon
<1>2. IInv /\ IInv' /\ OneProcessInv /\ [Next]_vars => OneProcessInv'
  BY FlightStep, Zenon
<1> QED
  BY <1>1, <1>2, Invariance, PTL DEF Spec

\* No transaction that reached the network is closed as failed before
\* submission: mark_terminal, fail_unsubmitted and the restart paths of
\* reconcile_active, through every crash, lost commit and disarm.
THEOREM NeverForgotten == ASSUME OneProcess PROVE Spec => []BroadcastNeverForgotten
<1>1. OneProcessInv => BroadcastNeverForgotten
  BY SMTT(30) DEF OneProcessInv, FlightInv
<1> QED
  BY <1>1, FlightInvariance, PTL

\* The submission lock is held for whatever may still be mined or included.
THEOREM InFlightIsLocked == ASSUME OneProcess PROVE Spec => []LockCoversInFlight
<1>1. OneProcessInv => LockCoversInFlight
  BY SMTT(30) DEF OneProcessInv, FlightInv
<1> QED
  BY <1>1, FlightInvariance, PTL

\* allocate_nonce and fail_unsubmitted leave no gap below a transaction in
\* flight, whatever else spends nonces of the wallet.
THEOREM NoGap == ASSUME OneProcess PROVE Spec => []NoNonceGap
<1>1. OneProcessInv => NoNonceGap
  BY SMTT(30) DEF OneProcessInv, GapInv
<1> QED
  BY <1>1, FlightInvariance, PTL

\* The candidate row never claims an outcome the chain does not have.
THEOREM CandidateTruth == ASSUME OneProcess PROVE Spec => []CandidateTellsTheTruth
<1>1. OneProcessInv => CandidateTellsTheTruth
  BY Zenon DEF OneProcessInv, TruthInv
<1> QED
  BY <1>1, FlightInvariance, PTL

\* With one process the rows, the wallet and the solver operations implement
\* the abstract lock, for any sets of requests and auctions: of all lanes at
\* most one request is between its claim and its settlement, each is claimed and
\* launched at most once, and every step of store.rs, the Atlas lane, the control
\* plane and the chain is one move of SubmissionLock or none.
THEOREM Refinement == ASSUME OneProcess PROVE Spec => ImplementsLock
<1>1. Init => Lock!Init
  BY LockInit, Zenon
<1>2. IInv /\ IInv' /\ OneProcessInv /\ [Next]_vars => [Lock!Next]_Stage
  BY LockStep, ZenonT(30)
<1> QED
  BY <1>1, <1>2, Invariance, FlightInvariance, PTL DEF Spec, ImplementsLock, Lock!Spec

\* One process never commits more than maximum_daily_loss_wei in a UTC day, for
\* any limits, fees and exposures and any sets of requests and auctions: the
\* checks of engine.rs before the send and of revenue.rs at the claim are made
\* once, and midnight, late receipts, disarms and crashes come between them and
\* the booking.
THEOREM DailyLoss == ASSUME OneProcess PROVE Spec => []DailyLossBounded
<1>1. Init => BudgetInv
  BY BudgetInit, Zenon
<1>2. IInv /\ OneProcessInv /\ BudgetInv /\ [Next]_vars => BudgetInv'
  BY BudgetStep, Zenon
<1>3. BudgetInv => DailyLossBounded
  BY Zenon DEF BudgetInv
<1> QED
  BY <1>1, <1>2, <1>3, Invariance, FlightInvariance, PTL DEF Spec
=============================================================================
