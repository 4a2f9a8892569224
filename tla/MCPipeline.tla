----------------------------- MODULE MCPipeline -----------------------------
(* The recorder, the dispatcher, the engine and its enrichment loop, each on   *)
(* instances of its own: `at` is the instance a behaviour belongs to, and the  *)
(* components it does not run rest in their initial states.                    *)
EXTENDS ShadowDispatcher, TLC

CONSTANTS e1, e2, g1, g2, a, b, None

VARIABLES
    at,
    feed, rec, ingress, flush, ready, raw, drafts, daily, stops,
    input, cls, attempts, decisions, cands, head, eng, termed, unfit, pings,
    tx, recorded, enrichment, evidence, tries, loop, now, answered

recorderVars == <<feed, rec, ingress, flush, ready, raw, drafts, daily, stops>>
dispatcherVars == <<outbox, stream, disp, windows>>
engineVars == <<input, cls, attempts, decisions, cands, head, eng, termed, unfit, pings>>
enrichmentVars == <<tx, recorded, enrichment, evidence, tries, loop, now, answered>>
pipelineVars == <<at, recorderVars, dispatcherVars, engineVars, enrichmentVars, faults, crashes, expiries>>

-----------------------------------------------------------------------------
(* Recorder. *)

\* A relevant and a malformed input, a crash, an ack that comes too late.
Recorder == INSTANCE Recorder WITH
    outbox <- drafts, Event <- {e1, e2}, Kind <- [e \in {e1, e2} |-> IF e = e1 THEN "relevant" ELSE "malformed"],
    Batch <- 2, MaxDeliver <- 2, AckThreshold <- 1, MaxKeys <- 1, SampleLimit <- 1, MaxCopies <- 2,
    MaxFaults <- 1, MaxCrashes <- 1, MaxExpiries <- 1, MaxStops <- 0, NewRow <- "pending"

\* Inputs that are only counted, and a stop.
Ingress == INSTANCE Recorder WITH
    outbox <- drafts, Event <- {e1, e2}, Kind <- [e \in {e1, e2} |-> IF e = e1 THEN "filtered" ELSE "interesting"],
    Batch <- 2, MaxDeliver <- 2, AckThreshold <- 1, MaxKeys <- 1, SampleLimit <- 1, MaxCopies <- 2,
    MaxFaults <- 1, MaxCrashes <- 0, MaxExpiries <- 0, MaxStops <- 1, NewRow <- "pending"

(* ShadowDispatcher, which this module extends: two replicas over two rows. *)

-----------------------------------------------------------------------------
(* EngineRuntime. *)

\* One engine, a routed and a malformed event.
Shadow == INSTANCE EngineRuntime WITH
    stream <- input, Engine <- {g1}, Event <- {e1, e2}, Kind <- [e \in {e1, e2} |-> IF e = e1 THEN "route" ELSE "malformed"],
    Route <- {a}, Autonomous <- FALSE, Batch <- 2, MaxDeliver <- 2, MaxBlock <- 1, MaxCopies <- 2,
    MaxFaults <- 1, MaxUnfit <- 0, MaxPings <- 0, MaxCrashes <- 1, MaxExpiries <- 1

\* Events without a route, and dependencies that come and go.
Quiet == INSTANCE EngineRuntime WITH
    stream <- input, Engine <- {g1}, Event <- {e1, e2}, Kind <- [e \in {e1, e2} |-> IF e = e1 THEN "none" ELSE "unsupported"],
    Route <- {a}, Autonomous <- FALSE, Batch <- 1, MaxDeliver <- 2, MaxBlock <- 1, MaxCopies <- 2,
    MaxFaults <- 1, MaxUnfit <- 1, MaxPings <- 1, MaxCrashes <- 0, MaxExpiries <- 1

\* An engine that starts while the one before it still runs, over two routes.
Overlap == INSTANCE EngineRuntime WITH
    stream <- input, Engine <- {g1, g2}, Event <- {e1}, Kind <- [e \in {e1} |-> "route"],
    Route <- {a, b}, Autonomous <- FALSE, Batch <- 1, MaxDeliver <- 2, MaxBlock <- 1, MaxCopies <- 1,
    MaxFaults <- 1, MaxUnfit <- 0, MaxPings <- 0, MaxCrashes <- 0, MaxExpiries <- 1

\* The autonomous path, with a head that moves.
Live == INSTANCE EngineRuntime WITH
    stream <- input, Engine <- {g1}, Event <- {e1}, Kind <- [e \in {e1} |-> "route"],
    Route <- {a}, Autonomous <- TRUE, Batch <- 1, MaxDeliver <- 2, MaxBlock <- 2, MaxCopies <- 2,
    MaxFaults <- 1, MaxUnfit <- 0, MaxPings <- 0, MaxCrashes <- 1, MaxExpiries <- 1

-----------------------------------------------------------------------------
(* SourceEnrichment. *)

MCTx(s, w, p, from, to, t) ==
    [status |-> s, swaps |-> w, path |-> p, before |-> from, after |-> to, touched |-> t]
Slots == {"a", "b"}
Zero == [s \in Slots |-> 0]
One == [s \in Slots |-> 1]
Plain == MCTx("success", <<"p">>, <<"p">>, One, Zero, Slots)

\* Two engines that overlap, and faults.
Enrichment == INSTANCE SourceEnrichment WITH
    attempts <- tries, eng <- loop, Identity <- {1, 2}, Engine <- {1, 2}, Slot <- Slots,
    Transactions <- {Plain}, Interval <- 3, MaximumAge <- 9, MaximumAttempts <- 3, MaxTime <- 9, MaxFaults <- 2

\* One engine, no fault, every kind of answer.
Tried == INSTANCE SourceEnrichment WITH
    attempts <- tries, eng <- loop, Identity <- {1, 2}, Engine <- {1}, Slot <- Slots,
    Transactions <- {Plain, MCTx("reverted", << >>, <<"p">>, One, One, Slots),
                     MCTx("success", <<"p", "q">>, <<"p">>, One, Zero, Slots),
                     MCTx("success", << >>, <<"p">>, One, Zero, Slots)},
    Interval <- 3, MaximumAge <- 30, MaximumAttempts <- 3, MaxTime <- 16, MaxFaults <- 0

\* Every transition of two slots.
Boundary == INSTANCE SourceEnrichment WITH
    attempts <- tries, eng <- loop, Identity <- {1}, Engine <- {1}, Slot <- Slots,
    Transactions <- {MCTx("success", <<"p">>, <<"p">>, from, to, t) :
                        from \in [Slots -> 0..2], to \in [Slots -> 0..2], t \in SUBSET Slots \ {{}}},
    Interval <- 3, MaximumAge <- 9, MaximumAttempts <- 3, MaxTime <- 6, MaxFaults <- 1

-----------------------------------------------------------------------------

Engines == {"shadow", "quiet", "overlap", "live"}
Enrichments == {"enrichment", "tried", "boundary"}

PipelineInit ==
    /\ at \in {"recorder", "ingress", "dispatcher"} \cup Engines \cup Enrichments
    /\ Recorder!Init
    /\ Init
    /\ \/ at = "overlap" /\ Overlap!Init
       \/ at = "live" /\ Live!Init
       \/ at \notin {"overlap", "live"} /\ Shadow!Init
    /\ \/ at = "tried" /\ Tried!Init
       \/ at = "boundary" /\ Boundary!Init
       \/ at \notin {"tried", "boundary"} /\ Enrichment!Init

RecorderNext ==
    /\ \/ at = "recorder" /\ Recorder!Next
       \/ at = "ingress" /\ Ingress!Next
    /\ UNCHANGED <<at, dispatcherVars, engineVars, enrichmentVars>>

DispatcherNext ==
    /\ at = "dispatcher" /\ Next
    /\ UNCHANGED <<at, recorderVars, engineVars, enrichmentVars>>

EngineNext ==
    /\ \/ at = "shadow" /\ Shadow!Next
       \/ at = "quiet" /\ Quiet!Next
       \/ at = "overlap" /\ Overlap!Next
       \/ at = "live" /\ Live!Next
    /\ UNCHANGED <<at, recorderVars, dispatcherVars, enrichmentVars>>

EnrichmentNext ==
    /\ \/ at = "enrichment" /\ Enrichment!Next
       \/ at = "tried" /\ Tried!Next
       \/ at = "boundary" /\ Boundary!Next
    /\ UNCHANGED <<at, recorderVars, dispatcherVars, engineVars, crashes, expiries>>

PipelineNext == RecorderNext \/ DispatcherNext \/ EngineNext \/ EnrichmentNext

PipelineSpec == PipelineInit /\ [][PipelineNext]_pipelineVars

-----------------------------------------------------------------------------
(* What is checked: the properties of the component modules, those of one kind *)
(* together; PublishedIsDelivered, CopiesBounded, ReadyIsHonest and            *)
(* LeaseHonoured are those of ShadowDispatcher.  An action property of a       *)
(* component that does not run holds because nothing moves.                    *)

\* What process_delivery_batch acknowledges is kept: a relevant message as a
\* committed row with its outbox row, any other in the daily counts that the
\* money-path flush writes; and /readyz says ready only while the consumer runs
\* and no batch waits for a failed transaction.
AckedIsKept ==
    /\ at = "recorder" => Recorder!AckedIsRecorded /\ Recorder!ReadyIsHonest
    /\ at = "ingress" => Ingress!CountsKept

\* A message that has left PHOENIX_ENGINE_INPUT was classified or quarantined, a
\* delivery of an event whose final classification is committed is acknowledged
\* without an evaluation, and a decision that says its request was generated has
\* its candidate row.
RemovedIsClassified ==
    /\ at = "shadow" => Shadow!RemovedIsClassified /\ Shadow!CommittedIsNotReevaluated
    /\ at = "quiet" => Quiet!RemovedIsClassified
    /\ at = "live" => Live!RemovedIsClassified /\ Live!GeneratedHasCandidate

\* Two engines that overlap write at most one decision per event and route, and
\* never change a final classification.
DecidedOnce == [][at = "overlap" => Overlap!FinalStays /\ Overlap!NoSecondDecision]_pipelineVars

\* The enrichment, its evidence and the completed attempt are one transaction,
\* and complete evidence holds the exact storage after the source transaction; the
\* attempts of an identity are numbered without gaps, at most three, and the first
\* is made within the time its place in the queue allows.
EvidenceIsExact ==
    /\ at = "enrichment" => Enrichment!EvidenceIsWhole /\ Enrichment!AttemptsAreNumbered
    /\ at = "tried" => Tried!TriedInTime
    /\ at = "boundary" => Boundary!BoundaryStateIsExact
=============================================================================
