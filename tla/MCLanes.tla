------------------------------ MODULE MCLanes ------------------------------
(* Requests of two lanes that compete, and one process: a DEX and an Aave    *)
(* request, or an Aave request and an auction.                               *)
EXTENDS RevenueExecution

CONSTANTS dex, aave

VARIABLE lanes

Routes == [r \in Direct |-> IF r = dex THEN "PHOENIX_DEX_V1" ELSE "AAVE_LIQUIDATION_V1"]

\* Nothing comes of the third lane.
Idle ==
    /\ lanes = "direct" => UNCHANGED astatus
    /\ lanes = "auction" => cand'[dex] = cand[dex] /\ status'[dex] = status[dex]

LanesInit == Init /\ lanes \in {"direct", "auction"}

LanesSpec ==
    /\ LanesInit
    /\ [][Next /\ Idle /\ UNCHANGED lanes]_<<vars, lanes>>

=============================================================================
