--------------------------- MODULE EconomicControl --------------------------
(***************************************************************************)
(* The economic control state machine of the DEX canary: the commands and  *)
(* the supervisor of autonomous_live_control_main.rs, the gates of         *)
(* economic_control.rs and activation_request.rs, the host runner and the  *)
(* activation script that consume the supervisor's requests, and the risk  *)
(* feedback of the executor's store.  Every writer locks the economic row  *)
(* first and raises its epoch; what is read outside a transaction may be   *)
(* old when it is used.  Levels are 1 (MIN) .. Top (MAX_REVIEWED).         *)
(***************************************************************************)
EXTENDS Naturals, FiniteSetsExt

CONSTANTS
    Route,
    DefaultRoute, \* one of them
    Top,          \* the last level of the ladder
    MinOutcomes,  \* outcomes a promotion needs (20 in the code)
    RouteLimit,   \* per_route_daily_loss, in losses
    DailyLimit,   \* daily_loss_limit, in losses
    Streak,       \* maximum_consecutive_losses
    Commands,     \* the commands of the operator and the executor's fail-close, at most MaxOps
    MaxCands, MaxJobs, MaxOps, MaxFaults

VARIABLES
    econ,     \* live_canary.economic_control
    global,   \* control and autonomous_global_control
    route,    \* autonomous_route_controls
    lanes,    \* revenue_lane_controls, both lanes
    ledger,   \* the last row of economic_transitions
    auth,     \* the authorization file and row
    fresh,    \* activation candidates still young enough
    cands,    \* candidates made so far
    emitted,  \* the supervisor's last emitted candidate, in memory
    outbox,   \* activation requests
    consumed, \* markers of the runner
    col,      \* collect_activation_request in the supervisor and in the runner
    run,      \* the runner and its script
    paused,   \* the executor contract
    running,  \* the executor service
    job,      \* the one execution request in work
    results,  \* reconciled outcomes by route and level
    losing,   \* consecutive losses by route
    day,      \* today's losses by route
    jobs, ops, faults

rows == <<econ, global, route, lanes, ledger>>
host == <<outbox, consumed, run, paused, running, auth>>
supervisor == <<emitted, col, fresh, cands>>
work == <<job, results, losing, day, jobs>>
bounds == <<ops, faults>>
vars == <<rows, host, supervisor, work, bounds>>

Level == 1 .. Top
MIN == 1

\* EconomicPhase; the live phases are numbered by their level.
Deploy == "DISARMED_DEPLOY"
Evidence == "DISARMED_EVIDENCE"
Ready == "CANARY_READY"
Live == "LIVE"
Cooldown == "COOLDOWN"
Failure == "DISARMED_FAILURE"

Previous(l) == IF l = MIN THEN MIN ELSE l - 1

NoResults == [win |-> 0, loss |-> 0, revert |-> 0]
NoCand == [id |-> 0, route |-> DefaultRoute, epoch |-> 0]
NoBinding == [cand |-> NoCand, econ |-> 0, global |-> 0, route |-> 0]
Reader == {"supervisor", "runner"}
NoRun == [pc |-> "idle", b |-> NoBinding, unpausing |-> FALSE]
Idle == [pc |-> "idle", b |-> NoBinding]

Init ==
    /\ econ = [phase |-> Deploy, level |-> MIN, route |-> DefaultRoute, epoch |-> 1,
               bound |-> NoBinding, auth |-> 0, reason |-> "other"]
    /\ global = [armed |-> FALSE, max |-> MIN, epoch |-> 1]
    /\ route = [r \in Route |-> [enabled |-> FALSE, level |-> MIN, epoch |-> 1]]
    /\ lanes = [armed |-> FALSE, max |-> MIN]
    /\ ledger = [phase |-> Deploy, level |-> MIN, epoch |-> 1]
    /\ auth = [id |-> 0, route |-> DefaultRoute, row |-> "none", expired |-> FALSE]
    /\ fresh = {} /\ cands = 0 /\ emitted = 0
    /\ outbox = {} /\ consumed = {}
    /\ col = [p \in Reader |-> Idle]
    /\ run = NoRun
    /\ paused = TRUE /\ running = FALSE
    /\ job = [stage |-> "none", route |-> DefaultRoute, size |-> MIN]
    /\ results = [r \in Route |-> [l \in Level |-> NoResults]]
    /\ losing = [r \in Route |-> 0] /\ day = [r \in Route |-> 0]
    /\ jobs = 0 /\ ops = 0 /\ faults = 0

-----------------------------------------------------------------------------
(* Facts and updates the transactions share. *)

IsLive == econ.phase = Live
Quiet == job.stage # "claimed"
GlobalLoss == MapThenSumSet(LAMBDA r : day[r], Route)
Closed(r) == ~global.armed /\ ~route[r].enabled

\* The economic row and its ledger row, written in the same transaction.
Transition(e, level) ==
    /\ econ' = [e EXCEPT !.epoch = econ.epoch + 1]
    /\ ledger' = [phase |-> e.phase, level |-> level, epoch |-> econ.epoch + 1]

Shut(r) == [route[r] EXCEPT !.enabled = FALSE, !.epoch = @ + 1]
AllShut == [r \in Route |-> Shut(r)]

Operator(command) == command \in Commands /\ ops < MaxOps /\ ops' = ops + 1

-----------------------------------------------------------------------------
(* Operator commands, one transaction each. *)

disarmed_deploy ==
    /\ Operator("deploy")
    /\ Quiet
    /\ global' = [global EXCEPT !.armed = FALSE, !.epoch = @ + 1]
    /\ route' = [r \in Route |-> [Shut(r) EXCEPT !.level = MIN]]
    /\ lanes' = [lanes EXCEPT !.armed = FALSE]
    /\ Transition([econ EXCEPT !.phase = Deploy, !.level = MIN, !.route = DefaultRoute,
                               !.bound = NoBinding, !.auth = 0, !.reason = "other"], MIN)
    /\ UNCHANGED <<host, supervisor, work, faults>>

\* validate_evidence_start
evidence_start ==
    /\ econ.phase = Deploy
    /\ \A r \in Route : Closed(r)
    /\ ~lanes.armed
    /\ Quiet
    /\ Transition([econ EXCEPT !.phase = Evidence, !.reason = "other"], MIN)
    /\ UNCHANGED <<global, route, lanes, host, supervisor, work, bounds>>

\* The transaction of disarm; the global epoch stays.
Disarmed(reason) ==
    /\ global' = [global EXCEPT !.armed = FALSE]
    /\ route' = AllShut
    /\ lanes' = [lanes EXCEPT !.armed = FALSE]
    /\ Transition([econ EXCEPT !.phase = Failure, !.reason = reason], econ.level)

disarm ==
    /\ Operator("disarm")
    /\ \E reason \in {"post_arm", "other"} : Disarmed(reason)
    /\ UNCHANGED <<host, supervisor, work, faults>>

\* fail_close_execution_authority, by the executor or the provider supervisor.
fail_close_execution_authority ==
    /\ Operator("fail")
    /\ Disarmed("other")
    /\ UNCHANGED <<host, supervisor, work, faults>>

set_revenue_size_max_reviewed ==
    /\ Operator("resize")
    /\ paused
    /\ econ.phase = Evidence
    /\ econ.level # Top
    /\ ~lanes.armed /\ \A r \in Route : Closed(r)
    /\ Quiet
    /\ GlobalLoss < DailyLimit
    /\ Transition([econ EXCEPT !.level = Top], Top)
    /\ UNCHANGED <<global, route, lanes, host, supervisor, work, faults>>

\* No phase is required, and the economic epoch stays.
arm_revenue_lanes ==
    /\ Operator("arm")
    /\ Quiet
    /\ GlobalLoss < DailyLimit
    /\ lanes' = [armed |-> TRUE, max |-> econ.level]
    /\ UNCHANGED <<econ, global, route, ledger, host, supervisor, work, faults>>

recover_post_arm_acceptance_failure ==
    /\ Operator("recover")
    /\ econ.phase = Failure /\ econ.reason = "post_arm" /\ econ.level = Top
    /\ ~lanes.armed /\ \A r \in Route : Closed(r)
    /\ Quiet
    /\ outbox = {}
    /\ Transition([econ EXCEPT !.phase = Evidence, !.bound = NoBinding, !.auth = 0,
                               !.reason = "other"], Top)
    /\ UNCHANGED <<global, route, lanes, host, supervisor, work, faults>>

-----------------------------------------------------------------------------
(* The supervisor's activation request and the runner's revalidation.      *)

\* The engine materializes a MIN candidate and the fork sandbox passes it.
NewCandidate(r) ==
    /\ cands < MaxCands
    /\ cands' = cands + 1
    /\ fresh' = fresh \cup {[id |-> cands + 1, route |-> r, epoch |-> econ.epoch]}
    /\ UNCHANGED <<rows, host, emitted, col, work, bounds>>

\* Three seconds pass.
Stale(c) ==
    /\ fresh' = fresh \ {c}
    /\ UNCHANGED <<rows, host, emitted, col, cands, work, bounds>>

\* Newest first; created at or after the last transition.
eligible_activation_candidate(expected) ==
    {c \in fresh : c.epoch = econ.epoch /\ (expected # 0 => c.id = expected)}

\* The current route is asked first.
Candidate(expected) ==
    LET found == eligible_activation_candidate(expected)
        here == {c \in found : c.route = econ.route}
    IN  IF here # {} THEN here ELSE found

\* collect_activation_request, first reads: the economic row and a candidate.
CollectState(p, expected) ==
    /\ col[p].pc = "idle"
    /\ econ.phase = Evidence
    /\ \E c \in Candidate(expected) :
          col' = [col EXCEPT ![p] = [pc |-> "controls", b |-> [NoBinding EXCEPT !.cand = c, !.econ = econ.epoch]]]

\* The control rows, read later; EvidenceGate and the loss budget.
CollectControls(p) ==
    /\ col[p].pc = "controls"
    /\ LET r == col[p].b.cand.route
       IN  col' = [col EXCEPT ![p] =
                     IF Closed(r) /\ Quiet /\ GlobalLoss < DailyLimit
                     THEN [pc |-> "owner", b |-> [@.b EXCEPT !.global = global.epoch, !.route = route[r].epoch]]
                     ELSE Idle]

\* configured_preflight_from_environment must say ready-paused.
Collected(p) == col[p].pc = "owner" /\ paused

Assess ==
    /\ \/ CollectState("supervisor", 0)
       \/ CollectControls("supervisor")
    /\ UNCHANGED <<rows, host, fresh, cands, emitted, work, bounds>>

\* The evidence gate, the wallet or the owner check says no.
AssessNone ==
    /\ col["supervisor"].pc # "idle"
    /\ col' = [col EXCEPT !["supervisor"] = Idle]
    /\ UNCHANGED <<rows, host, fresh, cands, emitted, work, bounds>>

\* write_atomic_request, once per fork result and supervisor life.
Emit ==
    /\ Collected("supervisor")
    /\ LET b == col["supervisor"].b
       IN  /\ emitted # b.cand.id
           /\ outbox' = outbox \cup {b}
           /\ emitted' = b.cand.id
    /\ col' = [col EXCEPT !["supervisor"] = Idle]
    /\ UNCHANGED <<rows, consumed, run, paused, running, auth, fresh, cands, work, bounds>>

SupervisorRestart ==
    /\ faults < MaxFaults /\ faults' = faults + 1
    /\ emitted' = 0
    /\ col' = [col EXCEPT !["supervisor"] = Idle]
    /\ UNCHANGED <<rows, host, fresh, cands, work, ops>>

-----------------------------------------------------------------------------
(* economic_activation_runner.py and activate-economic-canary.sh: every    *)
(* command of the script is a step that may fail, and any failure runs the *)
(* compensation.                                                           *)

Scripted == {"create", "install", "activate", "unpause", "unpausing", "up", "status"}
Goto(pc) == run' = [run EXCEPT !.pc = pc]
ScriptOnly == <<supervisor, work, ops>>

\* The result is written and the request leaves the outbox.
_archive_request == run' = NoRun /\ outbox' = outbox \ {run.b}

\* run_once with the oldest request: refused when it expired, when the release
\* changed, or when its candidate was consumed before.
TakeRequest ==
    /\ run.pc = "idle"
    /\ \E b \in outbox :
          /\ b.cand.id \notin consumed
          /\ consumed' = consumed \cup {b.cand.id}
          /\ run' = [pc |-> "revalidate", b |-> b, unpausing |-> FALSE]
    /\ UNCHANGED <<rows, supervisor, outbox, paused, running, auth, work, bounds>>

RejectRequest ==
    /\ run.pc = "idle"
    /\ \E b \in outbox : outbox' = outbox \ {b}
    /\ UNCHANGED <<rows, supervisor, consumed, run, paused, running, auth, work, bounds>>

\* materialize_activation_contracts collects again, for the same candidate.
Revalidate ==
    /\ run.pc = "revalidate"
    /\ \/ CollectState("runner", run.b.cand.id)
       \/ CollectControls("runner")
    /\ UNCHANGED <<rows, host, fresh, cands, emitted, work, bounds>>

RevalidateNone ==
    /\ run.pc = "revalidate"
    /\ col' = [col EXCEPT !["runner"] = Idle]
    /\ _archive_request
    /\ UNCHANGED <<rows, consumed, paused, running, auth, fresh, cands, emitted, work, bounds>>

\* Both contracts expire together.
materialize_activation_contracts ==
    /\ run.pc = "revalidate"
    /\ Collected("runner")
    /\ col["runner"].b = run.b
    /\ run' = [run EXCEPT !.pc = "create", !.b = col["runner"].b]
    /\ auth' = [id |-> run.b.cand.id, route |-> run.b.cand.route, row |-> "none", expired |-> FALSE]
    /\ col' = [col EXCEPT !["runner"] = Idle]
    /\ UNCHANGED <<rows, outbox, consumed, paused, running, fresh, cands, emitted, work, bounds>>

\* Ten minutes pass: the readiness record and the authorization expire.  It
\* matters only while a script or a live phase uses them.
Expire ==
    /\ ~auth.expired
    /\ run.pc \in Scripted \/ IsLive
    /\ auth' = [auth EXCEPT !.expired = TRUE]
    /\ UNCHANGED <<rows, outbox, consumed, run, paused, running, supervisor, work, bounds>>

\* The observation window begins at the transition the epoch names.
validate_readiness_against_evidence(b) ==
    econ.phase = Evidence /\ b.econ = econ.epoch

MayCreate ==
    LET r == run.b.cand.route
    IN  /\ ~running
        /\ ~auth.expired
        /\ validate_readiness_against_evidence(run.b)
        /\ Closed(r)
        /\ run.b.global = global.epoch /\ run.b.route = route[r].epoch
        /\ Quiet

\* The executor must be stopped; the level of the economic row stays, the
\* ledger row says MIN.
create_readiness ==
    LET b == run.b
        r == b.cand.route
    IN  /\ run.pc = "create"
        /\ MayCreate
        /\ Transition([econ EXCEPT !.phase = Ready, !.route = r, !.bound = b, !.reason = "other"], MIN)
        /\ Goto("install")
        /\ UNCHANGED <<global, route, lanes, outbox, consumed, paused, running, auth, ScriptOnly, faults>>

MayInstall == econ.phase = Ready /\ econ.route = auth.route /\ ~auth.expired

\* The check reads the economic row outside the insertion.
install_authorization ==
    /\ run.pc = "install"
    /\ MayInstall
    /\ auth' = [auth EXCEPT !.row = "unused"]
    /\ Goto("activate")
    /\ UNCHANGED <<rows, outbox, consumed, paused, running, ScriptOnly, faults>>

BoundNow(b) ==
    /\ b.econ = econ.epoch - 1
    /\ b.global = global.epoch
    /\ b.route = route[b.cand.route].epoch

MayActivate ==
    /\ econ.phase = Ready /\ econ.bound.cand = run.b.cand
    /\ auth.row = "unused" /\ ~auth.expired /\ auth.route = econ.route
    /\ BoundNow(run.b)
    /\ Quiet

\* It looks at neither the lanes nor the submission lock.
activate ==
    LET r == econ.route
    IN  /\ run.pc = "activate"
        /\ MayActivate
        /\ global' = [armed |-> TRUE, max |-> MIN, epoch |-> global.epoch + 1]
        /\ route' = [route EXCEPT ![r] = [enabled |-> TRUE, level |-> MIN, epoch |-> @.epoch + 1]]
        /\ auth' = [auth EXCEPT !.row = "consumed"]
        /\ Transition([econ EXCEPT !.phase = Live, !.level = MIN, !.auth = auth.id, !.reason = "other"], MIN)
        /\ Goto("unpause")
        /\ UNCHANGED <<lanes, outbox, consumed, paused, running, ScriptOnly, faults>>

\* owner_unpause_attempted is set before the command and cleared after it.
OwnerUnpause ==
    \/ /\ run.pc = "unpause"
       /\ run' = [run EXCEPT !.pc = "unpausing", !.unpausing = TRUE]
       /\ UNCHANGED <<rows, outbox, consumed, paused, running, auth, ScriptOnly, faults>>
    \/ /\ run.pc = "unpausing"
       /\ paused' = FALSE
       /\ run' = [run EXCEPT !.pc = "up", !.unpausing = FALSE]
       /\ UNCHANGED <<rows, outbox, consumed, running, auth, ScriptOnly, faults>>

ComposeUp ==
    /\ run.pc = "up"
    /\ running' = TRUE
    /\ Goto("status")
    /\ UNCHANGED <<rows, outbox, consumed, paused, auth, ScriptOnly, faults>>

Finished ==
    /\ run.pc = "status"
    /\ _archive_request
    /\ UNCHANGED <<rows, consumed, paused, running, auth, ScriptOnly, faults>>

\* The preconditions a command finds; one that does not hold fails the script.
Admits ==
    CASE run.pc = "create" -> MayCreate
      [] run.pc = "install" -> MayInstall
      [] run.pc = "activate" -> MayActivate
      [] OTHER -> TRUE

\* A command fails, with or without having done its work on the chain.
ScriptFails ==
    /\ run.pc \in Scripted
    /\ \/ ~Admits /\ UNCHANGED <<paused, running, faults>>
       \/ /\ faults < MaxFaults /\ faults' = faults + 1
          /\ \/ run.pc = "unpausing" /\ paused' \in BOOLEAN /\ UNCHANGED running
             \/ run.pc = "up" /\ running' \in BOOLEAN /\ UNCHANGED paused
             \/ UNCHANGED <<paused, running>>
    /\ Goto("stop")
    /\ UNCHANGED <<rows, outbox, consumed, auth, ScriptOnly>>

\* compensate: stop, pause when an unpause was under way, disarm.
CompensateStop ==
    /\ run.pc = "stop"
    /\ running' = FALSE
    /\ Goto(IF run.unpausing THEN "pause" ELSE "disarm")
    /\ UNCHANGED <<rows, outbox, consumed, paused, auth, ScriptOnly, faults>>

CompensatePause ==
    /\ run.pc = "pause"
    /\ paused' = TRUE
    /\ Goto("disarm")
    /\ UNCHANGED <<rows, outbox, consumed, running, auth, ScriptOnly, faults>>

CompensateDisarm ==
    /\ run.pc = "disarm"
    /\ Disarmed("other")
    /\ Goto("compensated")
    /\ UNCHANGED <<outbox, consumed, paused, running, auth, ScriptOnly, faults>>

Rejected ==
    /\ run.pc = "compensated"
    /\ _archive_request
    /\ UNCHANGED <<rows, consumed, paused, running, auth, ScriptOnly, faults>>

\* The script is killed after 600 seconds, or the host fails: no
\* compensation, and the marker has the request refused when it is met again.
Killed ==
    /\ run.pc # "idle"
    /\ faults < MaxFaults /\ faults' = faults + 1
    /\ run' = NoRun
    /\ col' = [col EXCEPT !["runner"] = Idle]
    /\ UNCHANGED <<rows, outbox, consumed, paused, running, auth, fresh, cands, emitted, work, ops>>

-----------------------------------------------------------------------------
(* The executor: a candidate becomes a request, is claimed, and ends.      *)

\* load_controls and validate_controls of the materializer.
ControlsAllow(r) ==
    /\ global.armed /\ route[r].enabled
    /\ IsLive /\ econ.route = r
    /\ global.max = econ.level /\ route[r].level = econ.level
    /\ GlobalLoss < DailyLimit
    /\ Quiet

finalize_candidate(r) ==
    /\ running
    /\ jobs < MaxJobs /\ jobs' = jobs + 1
    /\ job.stage = "none"
    /\ ControlsAllow(r)
    /\ day[r] < RouteLimit /\ losing[r] < Streak
    /\ job' = [stage |-> "approved", route |-> r, size |-> econ.level]
    /\ UNCHANGED <<rows, host, supervisor, results, losing, day, bounds>>

\* Its deadline passes.
Lapse ==
    /\ job.stage = "approved"
    /\ job' = [job EXCEPT !.stage = "none"]
    /\ UNCHANGED <<rows, host, supervisor, results, losing, day, jobs, bounds>>

\* claim: the route row is not read again.
Claim ==
    /\ running
    /\ job.stage = "approved"
    /\ global.armed /\ IsLive /\ job.size = econ.level
    /\ job' = [job EXCEPT !.stage = "claimed"]
    /\ UNCHANGED <<rows, host, supervisor, results, losing, day, jobs, bounds>>

Record(kind) ==
    /\ results' = [results EXCEPT ![job.route][job.size][kind] = @ + 1]
    /\ losing' = [losing EXCEPT ![job.route] = IF kind # "win" THEN @ + 1 ELSE 0]
    /\ day' = [day EXCEPT ![job.route] = IF kind # "win" THEN @ + 1 ELSE @]
    /\ job' = [job EXCEPT !.stage = "none"]

\* apply_autonomous_risk_feedback after a loss of route r: the route is closed
\* without a new epoch at a limit, else it cools down one level lower; the
\* daily limit then closes everything but the lanes.  The ledger row of the
\* daily limit names the level read before.
Punished(r, total) ==
    LET limit == day'[r] >= RouteLimit \/ losing'[r] >= Streak
        lower == Previous(econ.level)
        shut == IF limit THEN [route EXCEPT ![r].enabled = FALSE]
                ELSE [route EXCEPT ![r] = [Shut(r) EXCEPT !.level = lower]]
        next == IF limit THEN [econ EXCEPT !.phase = Failure, !.reason = "other"]
                ELSE [econ EXCEPT !.phase = Cooldown, !.level = lower, !.reason = "other"]
        closed == total >= DailyLimit
    IN  /\ route' = IF closed THEN [q \in Route |-> [shut[q] EXCEPT !.enabled = FALSE, !.epoch = @ + 1]] ELSE shut
        /\ global' = IF closed THEN [global EXCEPT !.armed = FALSE] ELSE global
        /\ IF closed THEN Transition([next EXCEPT !.phase = Failure], econ.level)
           ELSE Transition(next, next.level)

\* The receipt is reconciled, in whatever phase the control is by then.
FinishWin ==
    /\ job.stage = "claimed"
    /\ Record("win")
    /\ UNCHANGED <<rows, host, supervisor, jobs, bounds>>

FinishLoss ==
    /\ job.stage = "claimed"
    /\ \E kind \in {"loss", "revert"} : Record(kind)
    /\ Punished(job.route, GlobalLoss + 1)
    /\ UNCHANGED <<lanes, host, supervisor, jobs, bounds>>

NewDay ==
    /\ \E r \in Route : day[r] # 0
    /\ day' = [r \in Route |-> 0]
    /\ UNCHANGED <<rows, host, supervisor, job, results, losing, jobs, bounds>>

-----------------------------------------------------------------------------
(* evaluate_economic_control, one transaction of the supervisor.           *)

AuthorizationValid == econ.auth = auth.id /\ auth.row = "consumed" /\ ~auth.expired

\* The global controls stay armed.
route_failure ==
    /\ route' = [route EXCEPT ![econ.route] = Shut(econ.route)]
    /\ Transition([econ EXCEPT !.phase = Failure, !.reason = "other"], econ.level)
    /\ UNCHANGED <<global, lanes>>

AuthorizationExpired == ~AuthorizationValid

\* Requests and settled candidates of the route at another size; losses that
\* reverted do not count.
control_violations ==
    \/ job.stage # "none" /\ job.route = econ.route /\ job.size # econ.level
    \/ \E l \in Level \ {econ.level} : results[econ.route][l].win + results[econ.route][l].loss > 0

\* Outcomes at this level of the route, their profit and their success rate;
\* every outcome is worth one.
Count(r) == r.win + r.loss + r.revert
Rewarding(r) == r.win > r.loss + r.revert /\ r.revert * 20 <= Count(r)

\* Mutant: no minimum number of outcomes, and a net result of zero is enough.
PromotionEvidence_Any(r, l) == results[r][l].win >= results[r][l].loss + results[r][l].revert

PromotionEvidence(r, l) == Count(results[r][l]) >= MinOutcomes /\ Rewarding(results[r][l])

Promotes ==
    /\ PromotionEvidence(econ.route, econ.level)
    /\ ~control_violations
    /\ GlobalLoss < DailyLimit
    /\ losing[econ.route] < Streak
    /\ econ.level < Top

LanesTrack == lanes.armed => lanes.max = econ.level

\* Mutant: the route keeps its old maximum.
apply_promotion_RouteStays ==
    LET next == econ.level + 1
    IN  /\ LanesTrack
        /\ global' = IF global.armed THEN [global EXCEPT !.max = next, !.epoch = @ + 1] ELSE global
        /\ lanes' = IF lanes.armed THEN [lanes EXCEPT !.max = next] ELSE lanes
        /\ Transition([econ EXCEPT !.level = next], next)
        /\ UNCHANGED route

\* Divergent lanes abort the transaction.
apply_promotion ==
    LET next == econ.level + 1
    IN  /\ LanesTrack
        /\ global' = IF global.armed THEN [global EXCEPT !.max = next, !.epoch = @ + 1] ELSE global
        /\ route' = [route EXCEPT ![econ.route] =
                        IF @.enabled THEN [@ EXCEPT !.level = next, !.epoch = @ + 1] ELSE @]
        /\ lanes' = IF lanes.armed THEN [lanes EXCEPT !.max = next] ELSE lanes
        /\ Transition([econ EXCEPT !.level = next], next)

Evaluate ==
    /\ IsLive
    /\ \/ AuthorizationExpired /\ route_failure
       \/ ~AuthorizationExpired /\ Promotes /\ apply_promotion
    /\ UNCHANGED <<host, supervisor, work, bounds>>

\* The fork rate, the prediction error or the gas reserve fails the route; two
\* disagreements close everything.
EvaluateBadEvidence ==
    /\ IsLive
    /\ ~AuthorizationExpired
    /\ route_failure \/ Disarmed("other")
    /\ UNCHANGED <<host, supervisor, work, bounds>>

-----------------------------------------------------------------------------

OperatorStep ==
    \/ disarmed_deploy \/ evidence_start \/ disarm \/ fail_close_execution_authority
    \/ set_revenue_size_max_reviewed \/ arm_revenue_lanes \/ recover_post_arm_acceptance_failure

SupervisorStep == Assess \/ AssessNone \/ Emit \/ Evaluate \/ EvaluateBadEvidence

RunnerStep ==
    \/ Revalidate \/ RevalidateNone \/ materialize_activation_contracts
    \/ create_readiness \/ install_authorization \/ activate \/ OwnerUnpause \/ ComposeUp \/ Finished
    \/ ScriptFails \/ CompensateStop \/ CompensatePause \/ CompensateDisarm \/ Rejected

ExecutorStep ==
    \/ \E r \in Route : finalize_candidate(r)
    \/ Lapse \/ Claim \/ FinishWin \/ FinishLoss

Environment ==
    \/ \E r \in Route : NewCandidate(r)
    \/ \E c \in fresh : Stale(c)
    \/ Expire \/ NewDay \/ SupervisorRestart \/ Killed

Next == OperatorStep \/ SupervisorStep \/ RunnerStep \/ TakeRequest \/ RejectRequest \/ ExecutorStep \/ Environment

Spec == Init /\ [][Next]_vars

\* The supervisor loops, the runner's timer fires, commands end or are killed,
\* and contracts expire; nothing makes the operator act.
FairSpec ==
    /\ Spec
    /\ WF_vars(Evaluate)
    /\ WF_vars(RunnerStep)
    /\ WF_vars(Expire)

\* A long authorization: it need not expire.
PatientSpec == Spec /\ WF_vars(Evaluate)

-----------------------------------------------------------------------------

TypeOK ==
    /\ econ.phase \in {Deploy, Evidence, Ready, Live, Cooldown, Failure}
    /\ econ.level \in Level /\ econ.route \in Route /\ econ.epoch \in Nat
    /\ global.max \in Level /\ lanes.max \in Level
    /\ \A r \in Route : route[r].level \in Level
    /\ auth.row \in {"none", "unused", "consumed"}
    /\ \A p \in Reader : col[p].pc \in {"idle", "controls", "owner"}
    /\ run.pc \in Scripted \cup {"idle", "revalidate", "stop", "pause", "disarm", "compensated"}
    /\ job.stage \in {"none", "approved", "claimed"}

\* In a live phase the global row is armed, the route is enabled, both maxima
\* are the economic level, and the authorization has been used up: the four
\* rows the executor reads agree, whoever wrote last.
LiveIsAligned ==
    IsLive => /\ global.armed /\ route[econ.route].enabled
              /\ global.max = econ.level /\ route[econ.route].level = econ.level
              /\ auth.id = econ.auth /\ auth.row = "consumed"

\* A level above MIN is live only on the evidence of every level below it, for
\* this route, although levels are also set by hand and lowered by losses.
SizedByEvidence ==
    IsLive => \A l \in Level : l < econ.level => Count(results[econ.route][l]) >= MinOutcomes

\* Activation is the second transition after its candidate was made, the
\* readiness record being the first: whatever closed, deployed or resized the
\* system in between voids the requests and contracts made before.
ActivatesNext == ~IsLive /\ IsLive' => econ'.epoch = econ.bound.cand.epoch + 2
ActivationIsNext == [][ActivatesNext]_vars

\* The ledger's last row has the phase and the epoch of the economic row.
LedgerFollows == ledger.phase = econ.phase /\ ledger.epoch = econ.epoch

\* A live phase ends once its authorization has expired.
ExpiredIsDisarmed == (IsLive /\ auth.expired) ~> ~IsLive

\* Every run of the activation runner ends, killed or compensated if need be.
RunEnds == run.pc # "idle" ~> run.pc = "idle"

\* (Refuted.)  The ledger's last row has the size of the economic row.
LedgerHasSize == ledger.level = econ.level

\* (Refuted.)  A compensated activation leaves the contract paused.
CompensatedIsPaused == run.pc = "compensated" => paused

\* (Refuted.)  Armed lanes have the size of the economic level.
LaneSizeTracks == LanesTrack

\* (Refuted.)  A cooldown ends.
CooldownEnds == econ.phase = Cooldown ~> econ.phase # Cooldown

\* (Refuted.)  Sufficient outcomes at a level that can be raised raise it.
GoodEvidencePromotes ==
    \A l \in Level \ {Top} :
        /\ IsLive /\ econ.level = l
        /\ PromotionEvidence(econ.route, l)
        /\ ~lanes.armed /\ job.stage = "none"
        ~> ~IsLive \/ econ.level # l \/ job.stage # "none" \/ lanes.armed

=============================================================================
