------------------------------- MODULE MCLive -------------------------------
(* One DEX request or one auction, and one process: liveness. *)
EXTENDS RevenueExecution

VARIABLE lane

Routes == [r \in Direct |-> "PHOENIX_DEX_V1"]

\* Nothing comes of the other lane.
Idle ==
    /\ lane = "direct" => UNCHANGED astatus
    /\ lane = "auction" => UNCHANGED <<cand, status>> /\ foreign' = 0

Step(A) == A /\ Idle /\ UNCHANGED lane

LiveInit == Init /\ lane \in {"direct", "auction"}

LiveSpec ==
    /\ LiveInit
    /\ [][Step(Next)]_<<vars, lane>>
    /\ \A p \in Proc :
        /\ WF_<<vars, lane>>(Step(Process(p)))
        /\ SF_<<vars, lane>>(Step(ReceiptFound(p)))
        /\ SF_<<vars, lane>>(Step(AtlasReconcile(p)))

\* reconcile_active, of either lane, settles what reached the chain.  A
\* request whose transaction is mined while its attempt is pending or timed out
\* becomes confirmed or reverted, as the transaction did, and gives the lock back;
\* the one exception is an attempt whose transaction a process had already found
\* gone, which may be closed as replaced and then keeps the lock.  A bid that was
\* included, lost or expired leaves its open states and gives the lock back.
SettledInTheEnd == MinedIsSettled /\ AuctionIsSettled
=============================================================================
