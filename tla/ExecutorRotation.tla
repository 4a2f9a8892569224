-------------------------- MODULE ExecutorRotation --------------------------
(***************************************************************************)
(* The rotation of the executor contract: src/live-executor/src/           *)
(* executor_rotation.rs (deploy, mirror the configuration, verify, cut     *)
(* over, reconcile, roll back once), its command line                      *)
(* phoenix_executor_rotation_main.rs, the drain of the old identity's work *)
(* in store.rs, and the host script rotate-phoenix-executor-live.sh that   *)
(* stops and starts the consumers.  The progress is a provenance file, the *)
(* journal; a crash loses everything else.  Identity 0 is the old          *)
(* executor, the others are deployed contracts.                            *)
(***************************************************************************)
EXTENDS Naturals, Sequences, FiniteSets

CONSTANTS
    Consumer,  \* the services that carry the executor's identity
    Settings,  \* the configuration calls before the unpause
    MaxHashes, \* the transaction hashes a journal may hold
    MaxContracts,
    Releases,  \* rotation plans, one per release
    MaxRows,   \* requests the consumers produce
    MaxRuns,   \* commands started
    MaxFaults, \* failed calls, timeouts and host steps
    MaxCrashes

VARIABLES
    pool,      \* pending owner transactions, in nonce order
    contract,  \* the deployed contracts
    journal,   \* the provenance file of each release
    release,
    env,       \* the identity in the environment file
    svc,       \* the running consumers, with the identity they started with
    rows,      \* execution and Atlas requests
    op,        \* the running command
    told,      \* how the last command ended
    runs, faults, crashes

bounds == <<runs, faults, crashes>>
host == <<env, svc>>
files == <<journal, release>>
chain == <<pool, contract>>
vars == <<pool, contract, journal, release, env, svc, rows, op, told, bounds>>

Old == 0
Contract == 1 .. MaxContracts
Identity == {Old} \cup Contract
Wallet == MaxContracts + 1 \* the signer, which is no executor
Calls == Append(Settings, "unpause")
Setting == {Settings[i] : i \in DOMAIN Settings}
Open == {"ready", "active"}
Legacy == 1 \* LEGACY_ROTATION_SOURCE_SHA, the release whose contract may be adopted

Idle == [mode |-> "none", pc |-> "idle", at |-> 0, why |-> "none"]
NoContract == [set |-> {}, paused |-> TRUE, live |-> FALSE]

\* provenance_with_block; c is 0 while there is no file.
NoJournal == [c |-> Old, hashes |-> 0, verified |-> FALSE, spl |-> FALSE, drained |-> FALSE, started |-> FALSE,
              cut |-> FALSE, reconciled |-> FALSE, used |-> FALSE, restored |-> FALSE]
J == journal[release]
New == contract[J.c]

Init ==
    /\ pool = <<>>
    /\ contract = [c \in Contract |-> NoContract]
    /\ journal = [r \in 1 .. Releases |-> NoJournal]
    /\ release = 1
    /\ env = Old
    /\ svc = Consumer \X {Old}
    /\ rows = {}
    /\ op = Idle
    /\ told = "none"
    /\ runs = 0
    /\ faults = 0
    /\ crashes = 0

Fault == faults < MaxFaults /\ faults' = faults + 1 /\ UNCHANGED <<runs, crashes>>
Goto(pc) == op' = [op EXCEPT !.pc = pc] /\ UNCHANGED told
End(how) == op' = Idle /\ told' = how
Write(j) == journal' = [journal EXCEPT ![release] = j] /\ UNCHANGED release

----------------------------------------------------------------------------
(* The chain, the consumers and the release train.                          *)

Mine ==
    /\ pool # <<>>
    /\ pool' = Tail(pool)
    /\ LET t == Head(pool)
           k == contract[t.c]
       IN  contract' = [contract EXCEPT ![t.c] =
                          CASE t.call = "create" -> [k EXCEPT !.live = TRUE]
                            [] t.call = "unpause" -> [k EXCEPT !.paused = FALSE]
                            [] OTHER -> [k EXCEPT !.set = k.set \cup {t.call}]]
    /\ UNCHANGED <<files, host, rows, op, told, bounds>>

\* The observer's requests name its executor; a solver operation is from the
\* signer and names the executor as its solver.
Produce(lane) ==
    /\ Cardinality(rows) < MaxRows
    /\ \E c \in Identity :
         /\ <<"atlas-observer", c>> \in svc
         /\ rows' = rows \cup {[id |-> Cardinality(rows), lane |-> lane, exec |-> c, status |-> "ready",
                                from |-> IF lane = "atlas" THEN Wallet ELSE c]}
    /\ UNCHANGED <<chain, files, host, op, told, bounds>>

Move(row, status) == rows' = (rows \ {row}) \cup {[row EXCEPT !.status = status]}
LockFree == \A r \in rows : r.status # "active"

\* The executor fails a request that names another executor.
Claim(row) ==
    /\ row.status = "ready"
    /\ LockFree
    /\ \E c \in Identity : <<"live-executor", c>> \in svc /\ Move(row, IF row.exec = c THEN "active" ELSE "done")
    /\ UNCHANGED <<chain, files, host, op, told, bounds>>

Finish(row) ==
    /\ row.status = "active"
    /\ \E c \in Identity : <<"live-executor", c>> \in svc
    /\ Move(row, "done")
    /\ UNCHANGED <<chain, files, host, op, told, bounds>>

NextRelease ==
    /\ op = Idle
    /\ release < Releases
    /\ release' = release + 1
    /\ told' = "none"
    /\ UNCHANGED <<chain, journal, host, rows, op, bounds>>

Crash ==
    /\ op # Idle
    /\ crashes < MaxCrashes
    /\ crashes' = crashes + 1
    /\ End("none")
    /\ UNCHANGED <<chain, files, host, rows, runs, faults>>

----------------------------------------------------------------------------
(* The checks of the host script and of main before a command.              *)

Running(c) == svc = Consumer \X {c}
Support == \E c \in Identity : <<"atlas-observer", c>> \in svc

\* verify_authority_snapshot: nothing is active in either lane.
Authority == LockFree

Gate(mode) ==
    CASE mode = "prepare" -> TRUE
      [] mode = "execute" -> J.verified /\ J.spl /\ ~J.used
      [] mode = "rollback" -> J.started /\ ~J.used /\ ~J.restored

\* validate_provenance.
Loads(j) == j.hashes <= MaxHashes

Start(mode) ==
    /\ op = Idle
    /\ runs < MaxRuns
    /\ Authority /\ Support
    /\ mode # "rollback" => env = Old /\ Running(Old)
    /\ Loads(J) /\ Gate(mode)
    /\ runs' = runs + 1
    /\ op' = [Idle EXCEPT !.mode = mode, !.pc = IF mode = "rollback" THEN "r-claim" ELSE "deploy", !.why = mode]
    /\ told' = "none"
    /\ UNCHANGED <<chain, files, host, rows, faults, crashes>>

Exact(c, paused) == contract[c].set = Setting /\ contract[c].paused = paused

\* recover_existing: the configured contract of the legacy release is adopted
\* when that release did nothing to it after the configuration.
recover_existing ==
    LET legacy == journal[Legacy] IN
    /\ op = Idle
    /\ runs < MaxRuns
    /\ release # Legacy
    /\ J = NoJournal
    /\ Authority /\ Support /\ Running(Old)
    /\ legacy = [NoJournal EXCEPT !.c = legacy.c, !.hashes = Len(Calls), !.verified = TRUE]
    /\ Exact(legacy.c, FALSE)
    /\ runs' = runs + 1
    /\ Write(legacy)
    /\ told' = "ok"
    /\ UNCHANGED <<chain, host, rows, op, faults, crashes>>

----------------------------------------------------------------------------
(* Deploying and configuring.                                               *)

Fresh == {c \in Contract : ~contract[c].live /\ \A i \in DOMAIN pool : pool[i].c # c}
Pending(c, call) == \E i \in DOMAIN pool : pool[i] = [c |-> c, call |-> call]

\* deploy_phoenix_executor: an address in the journal is only checked.
deploy_phoenix_executor ==
    /\ op.pc = "deploy"
    /\ \/ J.c # Old /\ Goto("mirror") /\ UNCHANGED <<pool, bounds>>
       \/ /\ J.c = Old
          /\ \E c \in Fresh :
               /\ \A d \in Fresh : c <= d
               /\ pool' = Append(pool, [c |-> c, call |-> "create"])
               /\ op' = [op EXCEPT !.pc = "created", !.at = c]
          /\ UNCHANGED <<told, bounds>>
       \/ Fault /\ End("failed") /\ UNCHANGED pool
    /\ UNCHANGED <<contract, files, host, rows>>

\* wait_receipt, the checks of the new contract, and its journal.
Deployed ==
    /\ op.pc = "created"
    /\ \/ /\ contract[op.at].live
          /\ contract[op.at].paused
          /\ Write([NoJournal EXCEPT !.c = op.at])
          /\ Goto("mirror")
          /\ UNCHANGED bounds
       \/ Fault /\ End("failed") /\ UNCHANGED files
    /\ UNCHANGED <<chain, host, rows>>

mirror_phoenix_config ==
    /\ op.pc = "mirror"
    /\ \/ J.verified /\ Exact(J.c, FALSE) /\ Goto("verify") /\ UNCHANGED bounds
       \/ J.verified /\ Fault /\ End("failed")
       \/ ~J.verified /\ op' = [op EXCEPT !.pc = "call", !.at = 1] /\ UNCHANGED <<told, bounds>>
    /\ UNCHANGED <<chain, files, host, rows>>

owner_call ==
    /\ op.pc = "call"
    /\ \/ pool' = Append(pool, [c |-> J.c, call |-> Calls[op.at]]) /\ Goto("receipt") /\ UNCHANGED bounds
       \/ /\ Fault
          /\ End("failed")
          /\ pool' \in {pool, Append(pool, [c |-> J.c, call |-> Calls[op.at]])}
    /\ UNCHANGED <<contract, files, host, rows>>

Receipt ==
    /\ op.pc = "receipt"
    /\ \/ /\ ~Pending(J.c, Calls[op.at])
          /\ Write([J EXCEPT !.hashes = @ + 1])
          /\ Goto("check")
          /\ UNCHANGED bounds
       \/ Fault /\ End("failed") /\ UNCHANGED files
    /\ UNCHANGED <<chain, host, rows>>

\* What mirror_phoenix_config reads back after its at-th call.
Checked(at) ==
    CASE at < Len(Settings) -> Settings[at] \in New.set
      [] at = Len(Settings) -> Exact(J.c, TRUE)
      [] at = Len(Calls) -> Exact(J.c, FALSE)

Check ==
    /\ op.pc = "check"
    /\ IF ~Checked(op.at) THEN End("failed") /\ UNCHANGED files
       ELSE IF op.at = Len(Calls) THEN Write([J EXCEPT !.verified = TRUE]) /\ Goto("verify")
       ELSE op' = [op EXCEPT !.pc = "call", !.at = @ + 1] /\ UNCHANGED <<files, told>>
    /\ UNCHANGED <<chain, host, rows, bounds>>

verify_phoenix_pair ==
    /\ op.pc = "verify"
    /\ \/ Exact(J.c, FALSE) /\ Goto("spl") /\ UNCHANGED bounds
       \/ Fault /\ End("failed")
    /\ UNCHANGED <<chain, files, host, rows>>

\* prove_spl_absent: the spl-gate of the host script.
prove_spl_absent ==
    /\ op.pc = "spl"
    /\ \/ /\ Write([J EXCEPT !.spl = TRUE])
          /\ IF op.mode = "prepare" THEN End("ok") ELSE Goto("drain")
          /\ UNCHANGED bounds
       \/ Fault /\ End("failed") /\ UNCHANGED files
    /\ UNCHANGED <<chain, host, rows>>

----------------------------------------------------------------------------
(* Draining.                                                                *)

\* The queries of drain_executor_identity: a direct request by its executor,
\* an Atlas request by the sender of its operation.
BoundTo(row, c) == IF row.lane = "atlas" THEN row.from = c ELSE row.exec = c

Drainable == LockFree /\ \A r \in rows : BoundTo(r, Old) => r.status # "active"

drain_executor_identity ==
    rows' = {IF BoundTo(r, Old) /\ r.status = "ready" THEN [r EXCEPT !.status = "done"] ELSE r : r \in rows}

\* A failure before the cutover ends the command, one during it rolls back.
Fails == IF op.pc \in {"drain", "drained"} THEN End("failed") ELSE Goto("r-claim")

\* drain-store commits, then writes the journal.
Drain ==
    /\ op.pc \in {"drain", "c-drain"}
    /\ \/ /\ Drainable
          /\ drain_executor_identity
          /\ Goto(IF op.pc = "drain" THEN "drained" ELSE "c-drained")
          /\ UNCHANGED bounds
       \/ ~Drainable /\ Fails /\ UNCHANGED <<rows, bounds>>
       \/ Fault /\ Fails /\ UNCHANGED rows
    /\ UNCHANGED <<chain, files, host>>

Drained ==
    /\ op.pc \in {"drained", "c-drained"}
    /\ \/ /\ Write([J EXCEPT !.drained = TRUE])
          /\ Goto(IF op.pc = "drained" THEN "c-authority" ELSE "c-env")
          /\ UNCHANGED bounds
       \/ /\ Fault
          /\ Write([J EXCEPT !.drained = TRUE]) \/ UNCHANGED files
          /\ Fails
    /\ UNCHANGED <<chain, host, rows>>

----------------------------------------------------------------------------
(* The host script: cutover, reconcile, rollback.                           *)

Rollback(why) == op' = [op EXCEPT !.pc = "r-claim", !.why = why] /\ UNCHANGED told

\* record-consumers and mark-cutover-started.
MayCutOver == ~J.started /\ ~J.used /\ J.verified /\ J.spl /\ J.drained

StartCutover ==
    /\ op.pc = "c-authority"
    /\ \/ /\ Authority /\ MayCutOver /\ \A s \in Consumer : \E c \in Identity : <<s, c>> \in svc
          /\ Write([J EXCEPT !.started = TRUE])
          /\ Goto("c-stop")
          /\ UNCHANGED bounds
       \/ /\ ~(Authority /\ MayCutOver)
          /\ Rollback("cutover")
          /\ UNCHANGED <<files, bounds>>
       \/ Fault /\ Rollback("cutover") /\ UNCHANGED files
    /\ UNCHANGED <<chain, host, rows>>

\* Mutant: the drain before the stop is the only one.
StopConsumers_NoDrain ==
    /\ op.pc = "c-stop"
    /\ svc' = {}
    /\ Goto("c-env")
    /\ UNCHANGED <<chain, files, env, rows, bounds>>

StopConsumers ==
    /\ op.pc \in {"c-stop", "r-stop"}
    /\ \/ /\ svc' = {}
          /\ Goto(IF op.pc = "c-stop" THEN "c-drain" ELSE "r-env")
          /\ UNCHANGED bounds
       \/ /\ Fault
          /\ svc' \in SUBSET svc
          /\ IF op.pc = "c-stop" THEN Rollback("cutover") ELSE End("failed")
    /\ UNCHANGED <<chain, files, env, rows>>

\* materialize-new and materialize-old; write_atomic can fail after the rename.
Target == IF op.pc = "c-env" THEN J.c ELSE Old

Materialize ==
    /\ op.pc \in {"c-env", "r-env"}
    /\ \/ /\ env' = Target
          /\ Goto(IF op.pc = "c-env" THEN "c-up" ELSE "r-up")
          /\ UNCHANGED bounds
       \/ /\ Fault
          /\ env' \in {env, Target}
          /\ IF op.pc = "c-env" THEN Rollback("cutover") ELSE End("failed")
    /\ UNCHANGED <<chain, files, svc, rows>>

Recreated(S) == {p \in svc : p[1] \notin S} \cup (S \X {env})

StartConsumers ==
    /\ op.pc \in {"c-up", "r-up"}
    /\ \/ /\ svc' = Recreated(Consumer)
          /\ Goto(IF op.pc = "c-up" THEN "c-verify" ELSE "r-verify")
          /\ UNCHANGED bounds
       \/ /\ Fault
          /\ \E S \in SUBSET Consumer : svc' = Recreated(S)
          /\ IF op.pc = "c-up" THEN Rollback("cutover") ELSE End("failed")
    /\ UNCHANGED <<chain, files, env, rows>>

\* verify_consumer_identity, the support services and an authority snapshot
\* equal to the first, which had nothing active; then mark-cutover.
EndCutover ==
    /\ op.pc = "c-verify"
    /\ \/ Running(env) /\ Authority /\ Write([J EXCEPT !.cut = TRUE]) /\ Goto("reconcile") /\ UNCHANGED bounds
       \/ ~Authority /\ Rollback("cutover") /\ UNCHANGED <<files, bounds>>
       \/ Fault /\ Rollback("cutover") /\ UNCHANGED files
    /\ UNCHANGED <<chain, host, rows>>

\* reconcile_phoenix_identity: a failed gate is rolled back, a script that
\* could not be run is not.
reconcile_phoenix_identity ==
    /\ op.pc = "reconcile"
    /\ \/ Authority /\ Write([J EXCEPT !.reconciled = TRUE]) /\ End("ok") /\ UNCHANGED bounds
       \/ ~Authority /\ Rollback("reconcile") /\ UNCHANGED <<files, bounds>>
       \/ Fault /\ Rollback("reconcile") /\ UNCHANGED files
       \/ Fault /\ End("failed") /\ UNCHANGED files
    /\ UNCHANGED <<chain, host, rows>>

How == IF op.why = "reconcile" THEN "unreconciled" ELSE "failed"

\* claim-rollback comes first: it is spent even if the authority check that
\* follows fails.
ClaimRollback ==
    /\ op.pc = "r-claim"
    /\ IF J.started /\ ~J.used /\ ~J.restored
       THEN Write([J EXCEPT !.used = TRUE]) /\ Goto("r-authority")
       ELSE End(How) /\ UNCHANGED files
    /\ UNCHANGED <<chain, host, rows, bounds>>

RollbackAuthority ==
    /\ op.pc = "r-authority"
    /\ \/ Authority /\ Goto("r-stop") /\ UNCHANGED bounds
       \/ ~Authority /\ End(How) /\ UNCHANGED bounds
       \/ Fault /\ End("failed")
    /\ UNCHANGED <<chain, files, host, rows>>

EndRollback ==
    /\ op.pc = "r-verify"
    /\ \/ Running(Old) /\ Authority /\ Write([J EXCEPT !.restored = TRUE]) /\ End(How) /\ UNCHANGED bounds
       \/ ~Authority /\ End(How) /\ UNCHANGED <<files, bounds>>
       \/ Fault /\ End("failed") /\ UNCHANGED files
    /\ UNCHANGED <<chain, host, rows>>

Step ==
    \/ deploy_phoenix_executor \/ Deployed \/ mirror_phoenix_config \/ owner_call \/ Receipt \/ Check
    \/ verify_phoenix_pair \/ prove_spl_absent \/ Drain \/ Drained
    \/ StartCutover \/ StopConsumers \/ Materialize \/ StartConsumers \/ EndCutover
    \/ reconcile_phoenix_identity \/ ClaimRollback \/ RollbackAuthority \/ EndRollback

Next ==
    \/ Mine
    \/ \E lane \in {"direct", "atlas"} : Produce(lane)
    \/ \E row \in rows : Claim(row) \/ Finish(row)
    \/ NextRelease
    \/ Crash
    \/ \E mode \in {"prepare", "execute", "rollback"} : Start(mode)
    \/ recover_existing
    \/ Step

Spec == Init /\ [][Next]_vars

----------------------------------------------------------------------------
(* Properties.                                                              *)

TypeOK ==
    /\ \A i \in DOMAIN pool : pool[i] \in [c : Contract, call : Setting \cup {"create", "unpause"}]
    /\ \A c \in Contract : contract[c].set \subseteq Setting /\ (contract[c].set # {} => contract[c].live)
    /\ \A r \in 1 .. Releases : journal[r].c \in Identity
    /\ env \in Identity
    /\ svc \subseteq Consumer \X Identity
    /\ \A r \in rows : r.exec \in Identity /\ r.status \in Open \cup {"done"}
    /\ op.at <= MaxContracts + Len(Calls)

\* A consumer is only given a contract whose whole configuration was read
\* back from the chain unpaused, and whose journal records the gates: a
\* crash, a repeated command or an adopted contract opens no way around.
NewIsPrepared ==
    \A c \in Contract : env = c \/ (\E s \in Consumer : <<s, c>> \in svc)
      => /\ contract[c].set = Setting /\ ~contract[c].paused
         /\ \E r \in 1 .. Releases : journal[r].c = c /\ journal[r].verified /\ journal[r].drained /\ journal[r].started

\* Once a consumer runs with a new executor, no direct request for the old
\* one is left to claim or in flight: what the still running consumers wrote
\* after the first drain is caught by the drain after the stop.
NoOldWork ==
    (\E p \in svc : p[2] # Old) => \A r \in rows : r.lane = "direct" /\ r.exec = Old => r.status \notin Open

\* No two consumers run with different executors, whichever step of a
\* cutover or of a rollback fails or is cut off by a crash.
OneIdentity == \A p, q \in svc : p[2] = q[2]

\* A release that rolled back from a contract never rotates to it again, by a
\* repeated command, and no later release adopts it from the legacy release
\* when that one rolled back.
NoReturn == \A r \in {Legacy, release} : journal[r].used /\ env = Old => env' = Old \/ env' # journal[r].c
RolledBackStays == [][NoReturn]_vars

\* A contract is adopted before any cutover to it ("already-deployed, fully
\* configured, pre-cutover"): only the legacy journal is asked, which does not
\* change when a release that adopted the contract cuts over or rolls back.
PreCutover ==
    recover_existing => \A r \in 1 .. Releases : journal[r].c = journal[Legacy].c => ~journal[r].started
AdoptedIsPreCutover == [][PreCutover]_vars

\* A failed reconciliation is followed by one rollback of the identity.
UnreconciledIsRolledBack == told = "unreconciled" => env = Old

\* The drain fences the ready Atlas requests of the old executor too.
NoOldAtlasWork ==
    (\E p \in svc : p[2] # Old) => \A r \in rows : r.lane = "atlas" /\ r.exec = Old => r.status \notin Open

\* Every journal the tool writes is one its next command can load.
JournalLoads == \A r \in 1 .. Releases : Loads(journal[r])
=============================================================================
