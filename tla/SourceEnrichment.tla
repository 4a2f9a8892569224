-------------------------- MODULE SourceEnrichment --------------------------
(***************************************************************************)
(* Exact source evidence: the engine's enrichment loop                     *)
(* (source_enrichment.rs) and what the gateway makes of the receipt and    *)
(* the two traces of a transaction (runtime.rs source_swap_logs,           *)
(* source_trace_evidence, apply_account_diff).  Inclusion, providers and   *)
(* budgets of that read are in ShadowGateway; here they are its outcomes.  *)
(* Time is in units of five seconds, and the loop's own work takes none.   *)
(***************************************************************************)
EXTENDS Integers, Sequences, FiniteSets, Functions

CONSTANTS
    Identity,           \* numbers: the order of the feed
    Engine,
    Slot, None,
    Transactions,       \* [status, swaps, path, before, after, touched]
    Interval,           \* ENRICHMENT_INTERVAL
    MaximumAge,         \* fifteen minutes
    MaximumAttempts,    \* MAX_ENRICHMENT_ATTEMPTS
    MaxTime, MaxFaults  \* bounds of the model

Retryable == "retryable_failure"
Terminal == "terminal_failure"
Completed == "completed"

VARIABLES
    tx,                 \* the mined transaction of every identity
    recorded,           \* recorded_at, or -1
    enrichment,         \* rows of source_block_enrichments
    evidence,           \* rows of transaction_boundary_state_evidence
    attempts,           \* rows of source_enrichment_attempts
    eng,
    now, faults,
    answered            \* history: identities a response was persisted or refused for

rowVars == <<enrichment, evidence, attempts>>
vars == <<tx, recorded, rowVars, eng, now, faults, answered>>

Sleeping(t) == [pc |-> "sleep", wake |-> t]

Init ==
    /\ tx \in [Identity -> Transactions]
    /\ recorded = [i \in Identity |-> -1]
    /\ enrichment = [i \in Identity |-> None] /\ evidence = [i \in Identity |-> None]
    /\ attempts = [i \in Identity |-> {}]
    /\ eng = [g \in Engine |-> Sleeping(Interval)]
    /\ now = 0 /\ faults = 0 /\ answered = {}

-----------------------------------------------------------------------------
(* The gateway.  A storage is a function from slots to values; a slot that *)
(* is absent is zero.                                                      *)

Get(storage, s) == IF s \in DOMAIN storage THEN storage[s] ELSE 0

\* external: what prestateTracer answers, alone and in diff mode.
Prestate(t) == Restrict(t.before, t.touched)
Changed(t) == {s \in t.touched : t.before[s] # t.after[s]}
DiffPre(t) == Restrict(t.before, {s \in Changed(t) : t.before[s] # 0})
DiffPost(t) == Restrict(t.after, {s \in Changed(t) : t.after[s] # 0})

\* Mutant: a slot that is missing after the transaction keeps its value.
apply_account_diff_Keeps(before, pre, post) ==
    [s \in DOMAIN before \cup DOMAIN post |-> IF s \in DOMAIN post THEN post[s] ELSE before[s]]

\* Slots only the diff's pre names are cleared, the others of it overwritten.
apply_account_diff(before, pre, post) ==
    LET cleared == DOMAIN pre \ DOMAIN post
    IN  [s \in (DOMAIN before \ cleared) \cup DOMAIN post |->
            IF s \in DOMAIN post THEN post[s] ELSE before[s]]

\* source_swap_logs: the pools of the Swap logs, or nothing for a revert; a
\* transaction that swaps anything else is refused.
source_swap_logs(t) ==
    IF t.swaps = << >> THEN (IF t.status = "reverted" THEN [pools |-> << >>, ok |-> TRUE]
                             ELSE [pools |-> << >>, ok |-> FALSE])
    ELSE [pools |-> t.swaps, ok |-> t.status = "success" /\ t.swaps = t.path]

Incomplete(t) == [pools |-> source_swap_logs(t).pools, complete |-> FALSE, state |-> << >>]

\* source_trace_evidence: traced is FALSE for traces that could not be read and
\* for evidence over the size limit.  A diff that does not apply fails the
\* request, like any other fault of the gateway.
source_trace_evidence(t, traced) ==
    IF ~traced \/ source_swap_logs(t).pools = << >> \/ Changed(t) = {} THEN Incomplete(t)
    ELSE [pools |-> source_swap_logs(t).pools, complete |-> TRUE,
          state |-> apply_account_diff(Prestate(t), DiffPre(t), DiffPost(t))]

-----------------------------------------------------------------------------
(* run_source_enrichment.                                                  *)

Fault == faults < MaxFaults /\ faults' = faults + 1

\* The engine persists an identity it decoded; elsewhere in EngineRuntime.
Record(i) ==
    /\ recorded[i] = -1
    /\ recorded' = [recorded EXCEPT ![i] = now]
    /\ UNCHANGED <<tx, rowVars, eng, now, faults, answered>>

LastAttempt(i) == CHOOSE a \in attempts[i] : \A b \in attempts[i] : b.at <= a.at

Fresh(i) == recorded[i] >= 0 /\ recorded[i] >= now - MaximumAge

Pending ==
    {i \in Identity :
        /\ enrichment[i] = None
        /\ Fresh(i)
        /\ Cardinality(attempts[i]) < MaximumAttempts
        /\ attempts[i] = {} \/ LastAttempt(i).at < now}

Older(i, j) == recorded[i] < recorded[j] \/ (recorded[i] = recorded[j] /\ i < j)

next_pending(g) ==
    /\ eng[g].pc = "sleep" /\ now >= eng[g].wake
    /\ \/ /\ Pending = {}
          /\ eng' = [eng EXCEPT ![g] = Sleeping(now + Interval)]
          /\ UNCHANGED faults
       \/ /\ \E i \in Pending :
               /\ \A j \in Pending \ {i} : Older(i, j)
               /\ eng' = [eng EXCEPT ![g] = [pc |-> "fetch", id |-> i, n |-> Cardinality(attempts[i]) + 1]]
          /\ UNCHANGED faults
       \/ Fault /\ eng' = [eng EXCEPT ![g] = Sleeping(now + Interval)]
    /\ UNCHANGED <<tx, recorded, rowVars, now, answered>>

Failed(g, result) == [pc |-> "fail", id |-> eng[g].id, n |-> eng[g].n, result |-> result]

Answered(g, response) == [pc |-> "persist", id |-> eng[g].id, n |-> eng[g].n, response |-> response]

\* Only 429 and 503 are retryable.
fetch_source_evidence(g) ==
    /\ eng[g].pc = "fetch"
    /\ LET t == tx[eng[g].id]
           ok == source_swap_logs(t).ok
       IN  \/ /\ eng' = [eng EXCEPT ![g] = IF ok THEN Answered(g, source_trace_evidence(t, TRUE))
                                           ELSE Failed(g, Terminal)]
              /\ UNCHANGED faults
           \/ /\ ok
              /\ Fault
              /\ \E outcome \in {Answered(g, source_trace_evidence(t, FALSE)),
                                 Failed(g, Retryable), Failed(g, Terminal)} :
                    eng' = [eng EXCEPT ![g] = outcome]
    /\ UNCHANGED <<tx, recorded, rowVars, now, answered>>

\* INSERT .. ON CONFLICT DO NOTHING: the row that is there stays.
insert_attempt(i, n, result) ==
    IF \E a \in attempts[i] : a.n = n THEN attempts[i]
    ELSE attempts[i] \cup {[n |-> n, result |-> result, at |-> now]}

\* What insert_attempt reads back is not what it wanted to write.
AttemptConflicts(i, n, result) == \E a \in attempts[i] : a.n = n /\ a.result # result

Kept(row, value) == IF row = None THEN value ELSE row

Commit(g) ==
    LET i == eng[g].id  r == eng[g].response
    IN  /\ enrichment' = [enrichment EXCEPT ![i] = Kept(@, r.pools)]
        /\ evidence' = [evidence EXCEPT ![i] = Kept(@, r)]
        /\ attempts' = [attempts EXCEPT ![i] = insert_attempt(i, eng[g].n, Completed)]

\* The transaction, under the advisory lock of the identity.  A stored row
\* with another hash, or another result of this attempt, rolls it back; a
\* failed commit may have taken place.
persist_response(g) ==
    LET i == eng[g].id  r == eng[g].response
        refused == \/ enrichment[i] \notin {None, r.pools} \/ evidence[i] \notin {None, r}
                   \/ AttemptConflicts(i, eng[g].n, Completed)
    IN  /\ eng[g].pc = "persist"
        /\ \/ refused /\ UNCHANGED <<rowVars, faults>> /\ answered' = answered \cup {i}
           \/ ~refused /\ Commit(g) /\ UNCHANGED faults /\ answered' = answered \cup {i}
           \/ Fault /\ (UNCHANGED rowVars \/ (~refused /\ Commit(g))) /\ UNCHANGED answered
        /\ eng' = [eng EXCEPT ![g] = Sleeping(now + Interval)]
        /\ UNCHANGED <<tx, recorded, now>>

persist_failure(g) ==
    LET i == eng[g].id
    IN  /\ eng[g].pc = "fail"
        /\ \/ /\ attempts' = [attempts EXCEPT ![i] = insert_attempt(i, eng[g].n, eng[g].result)]
              /\ UNCHANGED faults
           \/ Fault /\ UNCHANGED attempts
        /\ eng' = [eng EXCEPT ![g] = Sleeping(now + Interval)]
        /\ UNCHANGED <<tx, recorded, enrichment, evidence, now, answered>>

Restart(g) ==
    /\ eng[g].pc # "sleep"
    /\ Fault
    /\ eng' = [eng EXCEPT ![g] = Sleeping(now + Interval)]
    /\ UNCHANGED <<tx, recorded, rowVars, now, answered>>

Tick ==
    /\ now < MaxTime
    /\ \A g \in Engine : eng[g].pc = "sleep" /\ eng[g].wake > now
    /\ now' = now + 1
    /\ UNCHANGED <<tx, recorded, rowVars, eng, faults, answered>>

EngineStep(g) ==
    \/ next_pending(g) \/ fetch_source_evidence(g) \/ persist_response(g) \/ persist_failure(g) \/ Restart(g)

Next ==
    \/ \E i \in Identity : Record(i)
    \/ \E g \in Engine : EngineStep(g)
    \/ Tick

Spec == Init /\ [][Next]_vars

-----------------------------------------------------------------------------

\* Whatever fails between two engines, the rows of an identity are written
\* together: an enrichment, the evidence of the same response and a completed
\* attempt, or none of them.
EvidenceIsWhole ==
    \A i \in Identity :
        /\ enrichment[i] # None <=> evidence[i] # None
        /\ enrichment[i] # None <=> \E a \in attempts[i] : a.result = Completed
        /\ evidence[i] # None => evidence[i].pools = enrichment[i]

\* The attempts of an identity are numbered without a gap or a repetition and
\* are at most three, also with two engines at it.
AttemptsAreNumbered ==
    \A i \in Identity :
        /\ {a.n : a \in attempts[i]} = 1..Cardinality(attempts[i])
        /\ Cardinality(attempts[i]) <= MaximumAttempts

\* Evidence that calls itself complete has, for every slot the transaction
\* touched, the value after it: apply_account_diff is right for slots that are
\* written, set from zero, cleared, or only read.
BoundaryStateIsExact ==
    \A i \in Identity :
        evidence[i] # None /\ evidence[i].complete
        => \A s \in tx[i].touched : Get(evidence[i].state, s) = tx[i].after[s]

OlderThan(i) == Cardinality({j \in Identity : recorded[j] >= 0 /\ Older(j, i)})

\* Failing identities do not starve the ones behind them: with one engine and
\* a working database, an identity is tried within three turns for each older
\* one and one more.
TriedInTime ==
    \A i \in Identity :
        /\ recorded[i] >= 0
        /\ now > recorded[i] + Interval * (MaximumAttempts * OlderThan(i) + 1)
        => attempts[i] # {} \/ ~Fresh(i)

\* docs/RPC_BUDGET.md: "a complete or explicitly incomplete gateway response
\* ends enrichment for that immutable identity": an answered identity is
\* enriched, or will at least be asked for again.
ResponseEndsEnrichment ==
    \A i \in answered : enrichment[i] # None \/ Cardinality(attempts[i]) < MaximumAttempts

=============================================================================
