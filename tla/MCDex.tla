------------------------------- MODULE MCDex -------------------------------
(* Two approved DEX requests, from the moment the route is live.  One process *)
(* alone, with crashes, faults and a foreign transaction; or two processes, an *)
(* old container that has not stopped while the new one starts.               *)
EXTENDS RevenueExecution, TLC

CONSTANTS d1, d2, p1, p2, Both

VARIABLE runs       \* the process that runs, or both

Routes == [r \in Direct |-> "PHOENIX_DEX_V1"]

Symmetry == Permutations({d1, d2}) \cup Permutations({p1, p2})

\* What Activate and the materializer lead to.
InitLive ==
    /\ ChainInit /\ ProcInit
    /\ status = [r \in Direct |-> "approved"]
    /\ cand = [r \in Direct |-> "request_materialized"]
    /\ dexArmed = TRUE
    /\ phase = "live"
    /\ nonce = [r \in Direct |-> 0]
    /\ nextNonce = 0
    /\ astatus = <<>> /\ hashed = {} /\ touched = <<>>
    /\ lock = NoOwner
    /\ lanesArmed = FALSE /\ providerReady = FALSE
    /\ stale = {}
    /\ directLoss = 0
    /\ recentLoss = FALSE

\* The one process with a fault and a foreign transaction, or two without.
NextDex ==
    /\ \/ /\ runs # Both /\ Next
          /\ \A p \in Proc : p # runs => pc'[p] = "down"
       \/ /\ runs = Both
          /\ \/ \E p \in Proc : Process(p)
             \/ Activate /\ UNCHANGED <<chainVars, procVars>>
             \/ ChainNext /\ UNCHANGED procVars
          /\ faults' = 0 /\ foreign' = 0
    /\ UNCHANGED runs

DexInit == InitLive /\ runs \in Proc \cup {Both}

BothInit == InitLive /\ runs = Both

DexSpec == DexInit /\ [][NextDex]_<<vars, runs>>

BothSpec == BothInit /\ [][NextDex]_<<vars, runs>>

\* What holds of one process and not of two: a request that reached the
\* network is not closed as failed, its transaction is the next one of the
\* wallet, and the day's losses stay within the limit.
OneKeepsTrack ==
    runs # Both => BroadcastNeverForgotten /\ NoNonceGap /\ DailyLossBounded

=============================================================================
