----------------------------- MODULE ControlRows -----------------------------
(***************************************************************************)
(* The row locks under the transactions that the other modules take in one *)
(* step: who locks which control row in which order.  PostgreSQL grants a  *)
(* row to one transaction, lets the others wait and aborts a member of     *)
(* every cycle of waits; what the program does then is modelled here.      *)
(***************************************************************************)
EXTENDS Integers, Sequences, FiniteSets

CONSTANTS None, Running     \* the processes that run

Actor == {"executor", "supervisor", "operator", "hunter"}

Row == {"advisory", "submission", "economic", "legacy", "global", "aave", "atlas",
        "provider", "route", "candidate", "attempt", "attempts"}

\* A statement: FOR UPDATE, UPDATE, a read without a lock, an INSERT nobody
\* waits for, a check the transaction may end at, an error.
Lock(r) == [op |-> "lock", row |-> r]
Write(r) == [op |-> "write", row |-> r]
Read(r) == [op |-> "read", row |-> r]
Insert(r) == [op |-> "insert", row |-> r]
Check == [op |-> "check", row |-> None]
Error == [op |-> "error", row |-> None]

VARIABLES
    tr,         \* the open transaction of every actor
    owner,      \* who holds a row
    stage,      \* where the executor's and the hunter's loops are
    closed,     \* the executor's last disarm was committed
    cause       \* why the hunter terminated

vars == <<tr, owner, stage, closed, cause>>

Idle == [todo |-> << >>, open |-> FALSE, kind |-> None, seen |-> {}, wrote |-> {}, dirty |-> {}]

Begun(kind, statements) == [Idle EXCEPT !.todo = statements, !.open = TRUE, !.kind = kind]

Init ==
    /\ tr = [a \in Actor |-> Idle]
    /\ owner = [r \in Row |-> None]
    /\ stage = [executor |-> "materialize", hunter |-> "run"]
    /\ closed = FALSE /\ cause = None

-----------------------------------------------------------------------------
(* The transactions: sets of statement sequences.                          *)

\* UPDATE .. WHERE lane IN (..) takes the rows as it finds them.
Lanes == {<<Write("aave"), Write("atlas")>>, <<Write("atlas"), Write("aave")>>}

fail_close_execution_authority ==
    {<<Lock("economic"), Write("legacy"), Write("global")>> \o l
     \o <<Write("provider"), Write("route"), Write("economic"), Write("candidate")>> : l \in Lanes}

\* The operator's disarm leaves the provider row.
disarm ==
    {<<Lock("economic"), Write("legacy"), Write("global"), Write("route")>> \o l
     \o <<Write("candidate"), Write("economic")>> : l \in Lanes}

\* Mutant: only the first control row is locked.
claim_approved_First ==
    {<<Lock("advisory"), Lock("legacy"), Read("global"), Read("economic"), Read("aave"), Read("provider"), Check,
       Lock("submission"), Check, Read("attempts"), Check, Insert("attempts"), Write("submission")>>}

claim_approved ==
    {<<Lock("advisory"), Lock("legacy"), Lock("global"), Lock("economic"), Lock("aave"), Lock("provider"), Check,
       Lock("submission"), Check, Read("attempts"), Check, Insert("attempts"), Write("submission")>>}

AtlasClaim ==
    {<<Lock("advisory"), Lock("atlas"), Lock("provider"), Lock("economic"), Check,
       Lock("submission"), Read("attempts"), Check, Insert("attempts"), Write("submission")>>}

\* Then the feedback of a DEX outcome, and the release of the lock.
mark_terminal ==
    {<<Lock("attempt"), Write("candidate")>> \o feedback \o <<Write("submission")>> :
        feedback \in {<< >>, <<Lock("economic")>>, <<Lock("economic"), Write("route"), Write("economic")>>,
                      <<Lock("economic"), Write("legacy"), Write("route"), Write("economic"), Write("global"), Write("candidate")>>}}

\* The second transaction of a materializer step.
materialize_candidate ==
    {<<Lock("candidate"), Check, Lock("global"), Lock("route"), Lock("economic"), Check>> \o end :
        end \in {<<Write("route"), Write("economic")>>, <<Write("candidate")>>}}

\* evaluate_economic_control: a failure of the route, of authority, or a promotion.
evaluate_economic_control ==
    {<<Lock("economic"), Check, Read("attempts"), Write("economic"), Check>> \o end :
        end \in fail_close_execution_authority
                \cup {<<Write("route"), Write("economic")>>,
                      <<Lock("global"), Lock("route"), Lock("aave"), Lock("atlas"), Write("economic")>>}}

\* converge_revenue_provider_authority reads the economic row first.
converge == {<<Lock("economic")>> \o s \o <<Write("provider")>> : s \in fail_close_execution_authority}

\* preserve_intentionally_closed_provider_readiness locks the same row: it looks
\* at the others without a lock, and writes only a status nobody acts on.
fail_close_provider_execution_gate == {<<Write("provider")>>}

attempt_provider_authority_recovery ==
    {<<Lock("economic"), Check, Lock("provider"), Check, Lock("aave"), Lock("atlas"), Lock("legacy"), Lock("global"),
       Lock("submission"), Read("attempts"), Check>> \o l \o <<Write("economic"), Write("provider")>> : l \in Lanes}

arm_revenue_lanes ==
    {<<Lock("economic"), Lock("submission"), Check, Read("attempts"), Check, Lock("provider"), Check>> \o l : l \in Lanes}

\* evidence_start and create_readiness.
create_readiness ==
    {<<Lock("economic"), Lock("legacy"), Lock("global"), Lock("route"), Check, Read("attempts"), Check, Write("economic")>>}

activate ==
    {<<Lock("economic"), Check, Read("attempts"), Check, Lock("global"), Lock("route"), Check,
       Write("legacy"), Write("global"), Write("route"), Write("economic")>>}

set_revenue_size_max_reviewed ==
    {<<Lock("economic"), Lock("aave"), Lock("atlas"), Lock("submission"), Read("attempts"), Check, Write("economic")>>}

\* Also post_recovery_live_mode_facts.
apply_post_arm_acceptance_recovery ==
    {<<Lock("economic"), Lock("aave"), Lock("atlas"), Lock("legacy"), Lock("global"), Lock("submission")>> \o end :
        end \in {<<Read("attempts"), Check, Write("economic")>>, <<Lock("provider"), Read("attempts")>>}}

disarmed_deploy ==
    {<<Lock("economic"), Write("global"), Write("legacy"), Write("route")>> \o l
     \o <<Write("candidate"), Write("economic"), Read("attempts"), Check, Lock("submission"), Check>> : l \in Lanes}

\* The relations of normalizeCandidateAuthority's statement, and the names its
\* columns and its locking clause use: a name without a relation is an error.
FromClause == {"economic_control", "provider"}
NamesUsed == {"economic", "provider"}

normalizeCandidateAuthority ==
    IF NamesUsed \subseteq FromClause
    THEN <<Lock("economic"), Lock("provider"), Lock("aave"), Lock("atlas")>>
    ELSE <<Error>>

Observation == {<<Lock("provider"), Write("provider")>>}
Candidate == {<<Lock("provider"), Write("provider")>> \o normalizeCandidateAuthority}

Transactions(a) ==
    CASE a = "supervisor" -> converge \cup evaluate_economic_control \cup fail_close_provider_execution_gate
                           \cup attempt_provider_authority_recovery
      [] a = "operator" -> arm_revenue_lanes \cup disarm \cup create_readiness \cup activate \cup set_revenue_size_max_reviewed
                           \cup apply_post_arm_acceptance_recovery \cup disarmed_deploy
      [] OTHER -> {}

-----------------------------------------------------------------------------
(* External: PostgreSQL.                                                   *)

Next1(a) == Head(tr[a].todo)

Blocked(a) ==
    /\ tr[a].open /\ tr[a].todo # << >>
    /\ Next1(a).op \in {"lock", "write"}
    /\ owner[Next1(a).row] \notin {None, a}

WaitsFor(a) == IF Blocked(a) THEN owner[Next1(a).row] ELSE None

\* The actor a waits for in n steps.
Follows(a, n) ==
    LET w[k \in 0..n] == IF k = 0 THEN a ELSE IF w[k - 1] = None THEN None ELSE WaitsFor(w[k - 1])
    IN  w[n]

Cycle(a) == {Follows(a, n) : n \in 0..(Cardinality(Actor) - 1)}
Deadlocked(a) == Blocked(a) /\ \E n \in 2..Cardinality(Actor) : Follows(a, n) = a

Execute(a) ==
    /\ tr[a].open /\ tr[a].todo # << >>
    /\ Next1(a).op # "error"
    /\ ~Blocked(a)
    /\ LET s == Next1(a)
       IN  /\ tr' = [tr EXCEPT ![a] =
                        [@ EXCEPT !.todo = Tail(@),
                                  !.seen = IF s.op = "check" THEN @ ELSE @ \cup {s.row},
                                  !.wrote = IF s.op \in {"write", "insert"} THEN @ \cup {s.row} ELSE @]]
           /\ owner' = IF s.op \in {"lock", "write"} THEN [owner EXCEPT ![s.row] = a] ELSE owner
    /\ UNCHANGED <<stage, closed, cause>>

\* The locks of a transaction that ends.
Freed(a) == [r \in Row |-> IF owner[r] = a THEN None ELSE owner[r]]

\* What a has written is not what the others have seen.
Published(a) ==
    [b \in Actor |-> IF b = a THEN Idle
                     ELSE [tr[b] EXCEPT !.dirty = @ \cup (tr[a].wrote \cap tr[b].seen)]]

Dropped(a) == [tr EXCEPT ![a] = Idle]

-----------------------------------------------------------------------------
(* The processes.                                                          *)

After(s) == CASE s = "materialize" -> "settle" [] s = "settle" -> "atlas" [] OTHER -> "materialize"

\* One turn of main: a materializer step, an executor step, an Atlas step;
\* each may find nothing to do.
ExecutorBegins ==
    /\ ~tr["executor"].open
    /\ LET s == stage.executor
       IN  /\ s \in {"materialize", "settle", "atlas", "closing"}
           /\ \/ \E t \in CASE s = "materialize" -> materialize_candidate
                            [] s = "settle" -> claim_approved \cup mark_terminal \cup fail_close_execution_authority
                            [] s = "atlas" -> AtlasClaim \cup fail_close_execution_authority
                            [] OTHER -> fail_close_execution_authority :
                    tr' = [tr EXCEPT !["executor"] = Begun(s, t)] /\ UNCHANGED stage
              \/ s # "closing" /\ stage' = [stage EXCEPT !.executor = After(s)] /\ UNCHANGED tr
    /\ UNCHANGED <<owner, closed, cause>>

ExecutorCommits ==
    /\ tr["executor"].open /\ tr["executor"].todo = << >>
    /\ tr' = Published("executor") /\ owner' = Freed("executor")
    /\ stage' = [stage EXCEPT !.executor = IF @ = "closing" THEN "exited" ELSE After(@)]
    /\ closed' = (stage.executor = "closing")
    /\ UNCHANGED cause

\* database_error is an integrity error for a deadlock: main disarms and
\* exits, as after a failed executor step.  The Atlas step only logs it, and
\* what became of the last disarm is not looked at.
AfterAbort(s) == CASE s = "atlas" -> "materialize" [] s = "closing" -> "exited" [] OTHER -> "closing"

ExecutorAborted ==
    /\ Deadlocked("executor")
    /\ tr' = Dropped("executor") /\ owner' = Freed("executor")
    /\ stage' = [stage EXCEPT !.executor = AfterAbort(@)]
    /\ UNCHANGED <<closed, cause>>

ExecutorRestarts ==
    /\ stage.executor = "exited"
    /\ stage' = [stage EXCEPT !.executor = "materialize"]
    /\ closed' = FALSE
    /\ UNCHANGED <<tr, owner, cause>>

\* The supervisor's loop and the operator's commands: an error is printed.
ToolBegins(a) ==
    /\ a \in Running /\ ~tr[a].open
    /\ \E t \in Transactions(a) : tr' = [tr EXCEPT ![a] = Begun("tool", t)]
    /\ UNCHANGED <<owner, stage, closed, cause>>

ToolCommits(a) ==
    /\ tr[a].open /\ tr[a].todo = << >>
    /\ tr' = Published(a) /\ owner' = Freed(a)
    /\ UNCHANGED <<stage, closed, cause>>

ToolAborted(a) ==
    /\ Deadlocked(a)
    /\ tr' = Dropped(a) /\ owner' = Freed(a)
    /\ UNCHANGED <<stage, closed, cause>>

\* Mutant: the locks stay.
Returns_Open(a) ==
    /\ tr[a].open /\ tr[a].todo # << >> /\ Next1(a).op = "check"
    /\ tr' \in {Dropped(a), Published(a)}
    /\ stage' = IF a = "executor" THEN [stage EXCEPT !.executor = After(@)] ELSE stage
    /\ UNCHANGED <<owner, closed, cause>>

\* A check that fails: what was written so far is rolled back or committed.
Returns(a) ==
    /\ tr[a].open /\ tr[a].todo # << >> /\ Next1(a).op = "check"
    /\ tr' \in {Dropped(a), Published(a)} /\ owner' = Freed(a)
    /\ stage' = IF a = "executor" THEN [stage EXCEPT !.executor = After(@)] ELSE stage
    /\ UNCHANGED <<closed, cause>>

\* RecordAaveSignal; after an error recordError closes the provider gate.
RecordAaveSignal ==
    /\ "hunter" \in Running /\ ~tr["hunter"].open
    /\ \/ /\ stage.hunter = "run"
          /\ \E k \in {"observation", "candidate"} :
               \E t \in IF k = "candidate" THEN Candidate ELSE Observation :
                 tr' = [tr EXCEPT !["hunter"] = Begun(k, t)]
       \/ /\ stage.hunter = "failing"
          /\ tr' = [tr EXCEPT !["hunter"] = Begun("failure", <<Write("provider")>>)]
    /\ UNCHANGED <<owner, stage, closed, cause>>

HunterCommits ==
    /\ tr["hunter"].open /\ tr["hunter"].todo = << >>
    /\ tr' = Published("hunter") /\ owner' = Freed("hunter")
    /\ stage' = [stage EXCEPT !.hunter = IF @ = "failing" THEN "exited" ELSE @]
    /\ UNCHANGED <<closed, cause>>

HunterFails ==
    /\ tr["hunter"].open /\ tr["hunter"].todo # << >>
    /\ Next1("hunter").op = "error" \/ Deadlocked("hunter")
    /\ tr' = Dropped("hunter") /\ owner' = Freed("hunter")
    /\ stage' = [stage EXCEPT !.hunter = "failing"]
    /\ cause' = IF Next1("hunter").op = "error" THEN "statement" ELSE "deadlock"
    /\ UNCHANGED closed

HunterRestarts ==
    /\ stage.hunter = "exited"
    /\ stage' = [stage EXCEPT !.hunter = "run"]
    /\ cause' = None
    /\ UNCHANGED <<tr, owner, closed>>

Tool == {"supervisor", "operator"}

Next ==
    \/ \E a \in Actor : Execute(a) \/ Returns(a)
    \/ \E a \in Tool : ToolBegins(a) \/ ToolCommits(a) \/ ToolAborted(a)
    \/ ExecutorBegins \/ ExecutorCommits \/ ExecutorAborted \/ ExecutorRestarts
    \/ RecordAaveSignal \/ HunterCommits \/ HunterFails \/ HunterRestarts

Spec == Init /\ [][Next]_vars

\* A process goes on with its statements, PostgreSQL queues the waiters of a
\* row and looks for cycles.
Fairness ==
    /\ \A a \in Actor : SF_vars(Execute(a))
    /\ \A a \in Tool : WF_vars(ToolCommits(a)) /\ WF_vars(ToolAborted(a))
    /\ WF_vars(ExecutorCommits) /\ WF_vars(ExecutorAborted)
    /\ WF_vars(HunterCommits) /\ WF_vars(HunterFails)

FairSpec == Spec /\ Fairness

-----------------------------------------------------------------------------

\* The transactions that take the economic row first, all of the control tool
\* and every fail close, never wait for each other in a circle: one of the
\* executor's own transactions is in every deadlock.
ToolsNeverDeadlock ==
    \A a \in Actor :
        Deadlocked(a) => /\ "executor" \in Cycle(a)
                         /\ stage.executor \in {"materialize", "settle", "atlas"}

\* The locks make a step of a transaction: when it commits, nothing it has
\* read was changed since, the unlocked count of active attempts included.
CommitsOnCurrentRows ==
    \A a \in Actor : tr[a].open /\ tr[a].todo = << >> => tr[a].dirty = {}

\* A deadlock may cost the executor its transaction and its process, but never
\* its disarm: when it has exited its authority was closed.
FailsClosed == stage.executor = "exited" => closed

\* Every transaction ends, whoever it waits for.
TransactionsEnd == \A a \in Actor : tr[a].open ~> ~tr[a].open

\* postgres_sink.go: "Process termination is reserved for corruption,
\* identity, and integrity failures."  No such failure happens in this module.
TerminatesOnlyOnIntegrity ==
    stage.hunter = "exited" => cause \in {"corruption", "identity", "integrity"}

=============================================================================
