--------------------------- MODULE OwnerBootstrap ---------------------------
(***************************************************************************)
(* The owner commands of the control tool, src/live-executor/src/          *)
(* owner_bootstrap.rs: owner-configure, owner-unpause, owner-pause and the *)
(* read-only preflights, run one process at a time against the executor    *)
(* contract.  Every contract read is an eth_call at "latest", so a         *)
(* snapshot is read field by field while transactions are being mined.     *)
(* The wallet, its mempool and the contract are external.                  *)
(***************************************************************************)
EXTENDS Naturals, Sequences, FiniteSets

CONSTANTS
    Routers,   \* the reviewed routers, in the order they are read
    MaxRuns,   \* commands started
    MaxFaults, \* failed calls, lost replies, reverts and evictions
    MaxOther,  \* transactions another process sends from the wallet
    MaxCrashes

VARIABLES
    conf,  \* the contract: which parts are configured
    paused,
    pool,  \* pending transactions of the wallet
    done,  \* mined ones
    run,   \* the running command
    told,  \* the marker the last command ended with
    runs, faults, others, crashes

bounds == <<runs, faults, others, crashes>>
chain == <<conf, paused, pool, done>>
vars == <<conf, paused, pool, done, run, told, bounds>>

Mutation == {"configure", "unpause", "pause"}
Preflight == {"configured-preflight", "runtime-preflight", "live-preflight"}
Router == {Routers[i] : i \in DOMAIN Routers}
Part == {"searcher", "asset", "factory", "pool", "maximum"} \cup Router
Call == Part \cup {"unpause", "pause"}

\* desired_configuration_actions.
desired_configuration_actions == <<"searcher", "asset">> \o Routers \o <<"factory", "pool", "maximum">>

\* executor_configuration_snapshot reads these in order, once per router.
Fields(router) == <<"factory", "pool", "asset", "paused", "maximum", "searcher", router>>

Idle == [cmd |-> "none", pc |-> "idle", todo |-> <<>>, snaps |-> <<>>, seen |-> {}, field |-> 1, tx |-> {}]

Fault == faults < MaxFaults /\ faults' = faults + 1 /\ UNCHANGED <<runs, others, crashes>>

Init ==
    /\ conf = {}
    /\ paused = TRUE
    /\ pool = {}
    /\ done = {}
    /\ run = Idle
    /\ told = "none"
    /\ runs = 0
    /\ faults = 0
    /\ others = 0
    /\ crashes = 0

----------------------------------------------------------------------------
(* The wallet's transactions and the contract.                              *)

MinedNonce == Cardinality(done)
pending_nonce == CHOOSE n \in MinedNonce .. MinedNonce + Cardinality(pool) :
                   /\ \A t \in pool : t.n # n
                   /\ \A k \in MinedNonce .. n - 1 : \E t \in pool : t.n = k

Mine(ok) ==
    \E t \in pool :
      /\ t.n = MinedNonce
      /\ pool' = pool \ {t}
      /\ done' = done \cup {[n |-> t.n, call |-> t.call, ok |-> ok]}
      /\ conf' = IF ok THEN conf \cup ({t.call} \cap Part) ELSE conf
      /\ paused' = IF ok /\ t.call \in {"pause", "unpause"} THEN t.call = "pause" ELSE paused

Chain ==
    \/ Mine(TRUE) /\ UNCHANGED <<run, told, bounds>>
    \/ Mine(FALSE) /\ Fault /\ UNCHANGED <<run, told>>

Evicted ==
    /\ Fault
    /\ \E t \in pool : pool' = pool \ {t}
    /\ UNCHANGED <<conf, paused, done, run, told>>

\* The live executor signs with the same wallet.
OtherSends ==
    /\ others < MaxOther
    /\ others' = others + 1
    /\ pool' = pool \cup {[n |-> pending_nonce, call |-> "execute"]}
    /\ UNCHANGED <<conf, paused, done, run, told, runs, faults, crashes>>

----------------------------------------------------------------------------
(* A command.                                                               *)

\* execute_from_environment, and the preflight commands.
Start(cmd) ==
    /\ run.pc = "idle"
    /\ runs < MaxRuns
    /\ runs' = runs + 1
    /\ run' = [Idle EXCEPT !.cmd = cmd, !.pc = "initial"]
    /\ told' = "none"
    /\ UNCHANGED <<chain, faults, others, crashes>>

End(marker) == run' = Idle /\ told' = marker

Crash ==
    /\ run.pc # "idle"
    /\ crashes < MaxCrashes
    /\ crashes' = crashes + 1
    /\ End("none")
    /\ UNCHANGED <<chain, runs, faults, others>>

Reading == run.pc \in {"initial", "before", "after", "final"}
Reads == Reading /\ Len(run.snaps) < Len(Routers)
Snapshot(field) == IF field = "paused" THEN paused ELSE field \in conf

\* executor_configuration_snapshot: one more field of the current router.
snapshot ==
    LET fields == Fields(Routers[Len(run.snaps) + 1])
        field == fields[run.field]
        seen == IF Snapshot(field) THEN run.seen \cup {field} ELSE run.seen
    IN
    /\ Reads
    /\ \/ /\ run' = IF run.field < Len(fields)
                    THEN [run EXCEPT !.seen = seen, !.field = @ + 1]
                    ELSE [run EXCEPT !.snaps = Append(@, seen), !.seen = {}, !.field = 1]
          /\ UNCHANGED <<told, bounds>>
       \/ Fault /\ End("none")
    /\ UNCHANGED chain

\* read_validated_snapshots: all but the router approval must agree.
Agree(snaps) == \A i \in DOMAIN snaps : snaps[i] \ Router = snaps[1] \ Router

IsPaused(snaps) == "paused" \in snaps[1]
Approved(snaps) == UNION {snaps[i] : i \in DOMAIN snaps}

\* Mutant: the maximum input is not compared.
configuration_complete_NoMaximum(snaps) == Part \ {"maximum"} \subseteq Approved(snaps)

configuration_complete(snaps) == Part \subseteq Approved(snaps)

action_needed(call, snaps) ==
    CASE call = "unpause" -> IsPaused(snaps)
      [] call = "pause" -> ~IsPaused(snaps)
      [] OTHER -> call \notin Approved(snaps)

Read(pc) == run.pc = pc /\ Len(run.snaps) = Len(Routers)
Next_(pc, todo) == run' = [run EXCEPT !.pc = pc, !.todo = todo, !.snaps = <<>>] /\ UNCHANGED told

\* The checks of execute_mutation on its first snapshots.
Admitted(cmd, snaps) ==
    /\ cmd = "configure" => IsPaused(snaps) \/ configuration_complete(snaps)
    /\ cmd = "unpause" => configuration_complete(snaps)

\* The preflight commands.
Passes(cmd, snaps) ==
    /\ configuration_complete(snaps)
    /\ cmd = "configured-preflight" => IsPaused(snaps)
    /\ cmd = "live-preflight" => ~IsPaused(snaps)

Actions(cmd) == IF cmd = "configure" THEN desired_configuration_actions ELSE <<cmd>>

Begin ==
    /\ Read("initial")
    /\ CASE ~Agree(run.snaps) -> End("none")
         [] run.cmd \in Preflight -> End(IF Passes(run.cmd, run.snaps) THEN run.cmd ELSE "none")
         [] OTHER -> IF Admitted(run.cmd, run.snaps) THEN Next_("before", Actions(run.cmd)) ELSE End("none")
    /\ UNCHANGED <<chain, bounds>>

\* The head of the loop: one snapshot per candidate action.
Consider ==
    LET call == Head(run.todo)
        rest == Tail(run.todo)
    IN
    /\ Read("before")
    /\ CASE \/ ~Agree(run.snaps)
            \/ run.cmd = "configure" /\ ~IsPaused(run.snaps) -> End("none")
         [] ~action_needed(call, run.snaps) -> Next_(IF rest = <<>> THEN "final" ELSE "before", rest)
         [] run.cmd = "unpause" /\ ~configuration_complete(run.snaps) -> End("none")
         [] OTHER -> Next_("quote", run.todo)
    /\ UNCHANGED <<chain, bounds>>

\* submit_owner_action: the quote and its ceilings, then the pending nonce.
quote ==
    /\ run.pc = "quote"
    /\ \/ /\ run' = [run EXCEPT !.pc = "send", !.tx = {[n |-> pending_nonce, call |-> Head(run.todo)]}]
          /\ UNCHANGED <<told, bounds>>
       \/ Fault /\ End("none")
    /\ UNCHANGED chain

\* The node refuses a nonce that is taken or spent.
submit ==
    /\ run.pc = "send"
    /\ LET free == \A t \in run.tx : t.n >= MinedNonce /\ \A u \in pool : u.n # t.n IN
       \/ /\ free
          /\ pool' = pool \cup run.tx
          /\ run' = [run EXCEPT !.pc = "wait"]
          /\ UNCHANGED <<told, bounds>>
       \/ ~free /\ End("none") /\ UNCHANGED <<pool, bounds>>
       \/ Fault /\ End("none") /\ pool' \in {pool, IF free THEN pool \cup run.tx ELSE pool}
    /\ UNCHANGED <<conf, paused, done>>

Receipt == {r \in done : [n |-> r.n, call |-> r.call] \in run.tx}

\* Mutant: the receipt is polled for without a deadline.
wait_for_receipt_Forever ==
    /\ run.pc = "wait"
    /\ Receipt # {}
    /\ IF \A r \in Receipt : r.ok THEN Next_("after", run.todo) ELSE End("none")
    /\ UNCHANGED <<chain, bounds>>

\* A receipt, or the deadline; a transaction that timed out stays pending.
wait_for_receipt ==
    /\ run.pc = "wait"
    /\ IF Receipt = {} THEN End("none")
       ELSE IF \A r \in Receipt : r.ok THEN Next_("after", run.todo) ELSE End("none")
    /\ UNCHANGED <<chain, bounds>>

Confirm ==
    LET rest == Tail(run.todo) IN
    /\ Read("after")
    /\ IF \/ ~Agree(run.snaps)
          \/ action_needed(Head(run.todo), run.snaps)
          \/ run.cmd = "configure" /\ ~IsPaused(run.snaps)
       THEN End("none")
       ELSE Next_(IF rest = <<>> THEN "final" ELSE "before", rest)
    /\ UNCHANGED <<chain, bounds>>

Finished(cmd, snaps) ==
    CASE cmd = "configure" -> configuration_complete(snaps) /\ IsPaused(snaps)
      [] cmd = "unpause" -> ~IsPaused(snaps)
      [] cmd = "pause" -> IsPaused(snaps)

Conclude ==
    /\ Read("final")
    /\ End(IF Agree(run.snaps) /\ Finished(run.cmd, run.snaps) THEN run.cmd ELSE "none")
    /\ UNCHANGED <<chain, bounds>>

Step == snapshot \/ Begin \/ Consider \/ quote \/ submit \/ wait_for_receipt \/ Confirm \/ Conclude

Next ==
    \/ Chain
    \/ Evicted
    \/ OtherSends
    \/ \E cmd \in Mutation \cup Preflight : Start(cmd)
    \/ Crash
    \/ Step

Spec == Init /\ [][Next]_vars
FairSpec == Spec /\ WF_vars(Step)

----------------------------------------------------------------------------
(* Properties.                                                              *)

TypeOK ==
    /\ conf \subseteq Part
    /\ paused \in BOOLEAN
    /\ pool \subseteq [n : Nat, call : Call \cup {"execute"}]
    /\ done \subseteq [n : Nat, call : Call \cup {"execute"}, ok : BOOLEAN]
    /\ run.cmd \in {"none"} \cup Mutation \cup Preflight
    /\ \A i \in DOMAIN run.todo : run.todo[i] \in Call
    /\ told \in {"none"} \cup Mutation \cup Preflight

\* The executor never accepts work with part of the reviewed configuration
\* missing, whichever commands were run, failed or were repeated before.
UnpausedIsComplete == paused \/ conf = Part

\* A command waits for its own transaction before it signs another, so one
\* that was interrupted leaves at most one of its own pending.
OneOfItsOwn ==
    run.pc \in {"quote", "send"} => \A t \in run.tx : t \notin pool

\* EXECUTOR_OWNER_CONFIGURE_OK is only printed for a complete configuration,
\* and the preflights only pass on one, although a snapshot is not read in
\* one block.
ConfiguredIsComplete == told \in {"configure", "unpause"} \cup Preflight => conf = Part

\* Every command ends, whatever becomes of its transaction.
CommandEnds == run.pc # "idle" ~> run.pc = "idle"

\* An executor that owner-pause reports paused stays paused until the next
\* command: the compensation of a failed activation has restored the pause.
PauseHolds == [][told = "pause" /\ told' = "pause" => paused']_vars
=============================================================================
