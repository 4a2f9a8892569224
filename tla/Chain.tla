------------------------------- MODULE Chain -------------------------------
(***************************************************************************)
(* What the executor's RPC endpoint and the Atlas gateway stand in front   *)
(* of: the transactions of the executor's wallet, the solver operations it *)
(* bid with, and the nonce of the wallet.  External to the repository;     *)
(* modelled from the calls of engine.rs and revenue.rs.                    *)
(*                                                                         *)
(* A transaction the node lost from its pool ("dropped") is known to other *)
(* nodes: it may come back or be mined as long as its nonce is free.       *)
(***************************************************************************)
EXTENDS RevenueStore

CONSTANTS MaxForeign  \* bound: transactions of the wallet sent by nobody here

VARIABLES
    tx,          \* what became of each request's signed transaction
    chainNonce,  \* transactions of the wallet mined so far
    foreign,     \* how many of those were not the executor's
    op           \* what became of each auction's solver operation

txVars == <<tx, chainNonce, foreign>>
chainVars == <<txVars, op>>

Mined == {"ok", "reverted", "bad"}
AtLarge == {"mempool", "dropped"}

ChainTypeOK ==
    /\ tx \in [Direct -> Mined \cup AtLarge \cup {"none", "dead"}]
    /\ chainNonce \in Nat
    /\ foreign \in Nat
    /\ op \in [Auction -> {"none", "live", "won", "failed", "bad", "expired"}]

ChainInit ==
    /\ tx = [r \in Direct |-> "none"]
    /\ chainNonce = 0
    /\ foreign = 0
    /\ op = [a \in Auction |-> "none"]

\* eth_getTransactionCount(pending): the node may not see every pooled
\* transaction, so any count between the mined and the pooled ones.
PooledFrom(n) == \E r \in Direct : tx[r] = "mempool" /\ nonce[r] = n
PendingNonces ==
    {n \in chainNonce .. (chainNonce + Cardinality(Direct)) :
        \A m \in chainNonce .. (n - 1) : PooledFrom(m)}

\* Every other transaction with the nonce just mined can never be mined.
Supersede(t, n) ==
    [r \in Direct |-> IF t[r] \in AtLarge /\ nonce[r] = n THEN "dead" ELSE t[r]]

Mine(r, outcome) ==
    /\ tx[r] \in AtLarge
    /\ nonce[r] = chainNonce
    /\ tx' = Supersede([tx EXCEPT ![r] = outcome], chainNonce)
    /\ chainNonce' = chainNonce + 1
    /\ UNCHANGED <<foreign, op, storeVars>>

Drop(r) ==
    /\ tx[r] = "mempool"
    /\ tx' = [tx EXCEPT ![r] = "dropped"]
    /\ UNCHANGED <<chainNonce, foreign, op, storeVars>>

Rebroadcast(r) ==
    /\ tx[r] = "dropped"
    /\ tx' = [tx EXCEPT ![r] = "mempool"]
    /\ UNCHANGED <<chainNonce, foreign, op, storeVars>>

MineForeign ==
    /\ foreign < MaxForeign
    /\ foreign' = foreign + 1
    /\ tx' = Supersede(tx, chainNonce)
    /\ chainNonce' = chainNonce + 1
    /\ UNCHANGED <<op, storeVars>>

\* The solver operation is included before its deadline, or the chain passes
\* deadline + 64 without it.
Include(a, outcome) ==
    /\ op[a] = "live"
    /\ op' = [op EXCEPT ![a] = outcome]
    /\ UNCHANGED <<txVars, storeVars>>

PassDeadline(a) ==
    /\ astatus[a] # "absent"
    /\ op[a] \in {"none", "live"}
    /\ op' = [op EXCEPT ![a] = "expired"]
    /\ UNCHANGED <<txVars, storeVars>>

ChainNext ==
    \/ \E r \in Direct, outcome \in Mined : Mine(r, outcome)
    \/ \E r \in Direct : Drop(r) \/ Rebroadcast(r)
    \/ MineForeign
    \/ \E a \in Auction, outcome \in {"won", "failed", "bad"} : Include(a, outcome)
    \/ \E a \in Auction : PassDeadline(a)

=============================================================================
