-------------------------- MODULE RevenueExecution --------------------------
(***************************************************************************)
(* The live executor's processes, the control plane and the chain over the *)
(* shared rows: the loop of main.rs, interleaved with everyone else.       *)
(***************************************************************************)
EXTENDS AtlasLane, Materializer, RevenueControl

vars == <<storeVars, chainVars, procVars>>

TypeOK == StoreTypeOK /\ ChainTypeOK /\ ProcTypeOK

Init == StoreInit /\ ChainInit /\ ProcInit

Process(p) == MaterializerStep(p) \/ ExecutorStep(p) \/ AtlasStep(p) \/ Restart(p)

Fault(p) == Crash(p) \/ DatabaseFault(p) \/ MaterializerFault(p) \/ AtlasFault(p)

Next ==
    \/ \E p \in Proc : Process(p) \/ Fault(p)
    \/ ControlNext /\ UNCHANGED <<chainVars, procVars>>
    \/ ChainNext /\ UNCHANGED procVars

Spec == Init /\ [][Next]_vars

-----------------------------------------------------------------------------
(* Safety.                                                                 *)

\* No two signed transactions of the wallet that reached the network carry the
\* same nonce: allocate_nonce takes the larger of its row and the network, and
\* only a nonce that never left the process is rolled back.  This holds for
\* any number of processes.
NonceUsedOnce ==
    \A r, s \in Direct :
        r # s /\ tx[r] # "none" /\ tx[s] # "none" => nonce[r] # nonce[s]

\* At most one request of all lanes is between its claim and its end, and the
\* lock row names it: claim, rollback, reconciliation and mark_terminal move
\* the lock and the status together.  Any number of processes.
LockMatchesWork ==
    /\ \A r \in Active : lock = r
    /\ \A a \in ActiveAtlas : lock = a
    /\ lock \in Direct => status[lock] \in ActiveStatuses \cup {"replaced"}
    /\ lock \in Auction => lock \in ActiveAtlas

\* An attempt in progress never sees the authority of the other lanes: the
\* second look at the controls asks for either authority, yet whenever it is
\* satisfied the authority is the one of the attempt's own lane.
OwnAuthority == \A r \in Active : ControlArmed => Authority(r)

\* While a transaction may still be mined, or a solver operation may still be
\* included, the lock is held for it: nothing else can be claimed.  One process.
LockCoversInFlight ==
    /\ \A r \in Direct : tx[r] \in AtLarge => lock = r
    /\ \A a \in Auction : op[a] = "live" => lock = a

\* A request whose transaction reached the network is never closed as failed
\* before submission, whatever crashes, restarts or faults follow.  One process.
BroadcastNeverForgotten ==
    \A r \in Direct : tx[r] # "none" => status[r] \notin {"absent", "approved", "claimed", "failed"}

\* A transaction that can still be mined is the next one of the wallet: crashes
\* between allocation and broadcast, and rollbacks, leave no gap below it.
NoNonceGap == \A r \in Direct : tx[r] \in AtLarge => nonce[r] = chainNonce

\* The exposure the executor itself committed today.  A second insert of an
\* auction by the hunter also moves updated_at, but commits nothing.
CommittedToday ==
    directLoss + SolverExposure * Cardinality({a \in Charged : touched[a] = "executor"})

\* Realized losses and bounded exposure of a UTC day stay within the daily
\* limit: the worst case of an attempt is checked before it is broadcast, and
\* nothing else spends while it is open.  One process.
DailyLossBounded == CommittedToday <= MaximumDailyLoss

\* What the candidate row says about the chain is true, although disarm writes
\* to it behind the executor's back.  One process.
CandidateTellsTheTruth ==
    \A r \in Direct :
        /\ cand[r] = "submission_failed_known" => tx[r] = "none"
        /\ cand[r] \in {"confirmed", "reverted"} => status[r] = cand[r] /\ tx[r] \in Mined
        /\ cand[r] \in {"materialized", "approval_pending", "expired", "rejected"}
              => status[r] = "absent"
        /\ cand[r] = "submitted" => status[r] = "pending"

\* A step never rewrites the nonce of a broadcast transaction, never re-opens a
\* closed attempt and never sends a request twice.
AttemptAdvances ==
    \A r \in Direct :
        /\ tx[r] # "none" => nonce'[r] = nonce[r] /\ tx'[r] # "none"
        /\ status[r] \in {"confirmed", "reverted", "failed", "replaced"} => status'[r] = status[r]
        /\ tx[r] \in Mined \cup {"dead"} => tx'[r] = tx[r]

\* AttemptAdvances at every step of every process, the control plane and the
\* chain: no transaction of store.rs writes behind another one's decision.
AttemptsOnlyAdvance == [][AttemptAdvances]_vars

-----------------------------------------------------------------------------
(* Liveness.                                                               *)

\* The loop runs on and the container restarts (restart: unless-stopped); the
\* receipt query of a mined transaction, and the inclusion query of a solver
\* operation, do not fail for ever.
Fairness ==
    \A p \in Proc :
        /\ WF_vars(Process(p))
        /\ SF_vars(ReceiptFound(p))
        /\ SF_vars(AtlasReconcile(p))

FairSpec == Spec /\ Fairness

\* A process has looked an attempt up, found neither receipt nor transaction, and
\* is about to ask for the nonce or to close the attempt as replaced.
TakenForReplaced(r) ==
    \E p \in Proc : cur[p] = r /\ pc[p] \in {"replaced", "mark_replaced"}

\* A broadcast the store knows as pending or timed out, once mined as expected,
\* is settled for what it became and gives the lock back, unless a process had
\* already found the transaction gone: closed as replaced, the attempt keeps the
\* lock (store.rs:992).
MinedIsSettled ==
    \A r \in Direct :
        /\ status[r] \in {"pending", "timed_out"} /\ tx[r] \in {"ok", "reverted"}
        /\ ~TakenForReplaced(r)
        ~> /\ status[r] = (IF tx[r] = "ok" THEN "confirmed" ELSE "reverted")
           /\ lock # r

\* A bid the store knows as submitted or unknown, once won, failed or expired
\* on chain, is settled and gives the lock back.
AuctionIsSettled ==
    \A a \in Auction :
        astatus[a] \in {"submitted", "submission_unknown"} /\ op[a] \in {"won", "failed", "expired"}
            ~> astatus[a] \in {"reconciled", "lost", "expired"} /\ lock # a

-----------------------------------------------------------------------------
(* What the engineering notes say of the code, and the code does not do.   *)

\* docs/engineering-notes/global-revenue-submission-lock.md:66-72 lists Replaced
\* and TimedOut among the "terminal states that release the lock".
ClosingReleasesLock ==
    \A r \in Direct : status[r] \in {"replaced", "timed_out"} => lock # r

\* docs/engineering-notes/submission-unknown-failure-modes.md:48-50: after a send
\* whose hash was not persisted, the restarted process "sees an attempt with
\* AttemptStatus::Claimed".
UnpersistedSendIsSeenClaimed ==
    \A p \in Proc :
        pc[p] \in {"was_claimed", "was_allocated"} /\ tx[cur[p]] # "none" => seen[p] = "claimed"

\* docs/engineering-notes/global-revenue-submission-lock.md:13: "The lock is
\* enforced by the database, not by application code. Application bugs cannot
\* create two simultaneous submissions."  Two overlapping processes do: the one
\* that read "claimed" closes the attempt the other has meanwhile broadcast.
OneSubmissionAtATime ==
    \A r, s \in Direct : tx[r] \in AtLarge /\ tx[s] \in AtLarge => r = s

-----------------------------------------------------------------------------
(* Refinement.                                                             *)

DirectStage(r) ==
    IF status[r] \in {"absent", "approved"} THEN "waiting"
    ELSE IF tx[r] \in AtLarge THEN "flying"
    ELSE IF lock # r THEN "settled"
    ELSE IF tx[r] = "none" THEN "held" ELSE "landed"

AtlasStage(a) ==
    IF astatus[a] \in {"absent", "ready"} THEN "waiting"
    ELSE IF op[a] = "live" THEN "flying"
    ELSE IF lock # a THEN "settled"
    ELSE IF op[a] = "none" \/ astatus[a] = "claimed" THEN "held" ELSE "landed"

Stage == [i \in Direct \cup Auction |-> IF i \in Direct THEN DirectStage(i) ELSE AtlasStage(i)]

Lock == INSTANCE SubmissionLock WITH Identity <- Direct \cup Auction, stage <- Stage

\* One process of the executor implements the abstract lock, step by step.
ImplementsLock == Lock!Spec

=============================================================================
