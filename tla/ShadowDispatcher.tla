--------------------------- MODULE ShadowDispatcher ---------------------------
(***************************************************************************)
(* The shadow dispatcher (recorder/src/dispatcher.rs, engine_outbox.rs,    *)
(* engine_stream.rs, bin/shadow-dispatcher.rs): it leases unpublished      *)
(* outbox rows, publishes each to PHOENIX_ENGINE_INPUT under the row's own *)
(* id and marks the row, or gives it back for a later attempt.  Several    *)
(* replicas may run; each may crash, lose PostgreSQL or NATS at any await, *)
(* and a lease may expire while its holder is still at work.               *)
(***************************************************************************)
EXTENDS JetStream

CONSTANTS
    Dispatcher,  \* replicas, by claim owner
    Row,         \* outbox rows, by outbox_id
    NoOwner,     \* no replica
    ClaimBatch,  \* DispatchConfig::batch_size
    MaxFaults,   \* bound on failed calls
    MaxCrashes,  \* bound on crashes and termination signals
    MaxExpiries, \* bound on leases that expire while their holder works
    MaxWindows   \* bound on duplicate windows that pass

VARIABLES
    outbox,  \* engine_outbox: id -> row
    stream,  \* PHOENIX_ENGINE_INPUT
    disp,    \* replica -> its place in run() and dispatch_once
    faults, crashes, expiries, windows

bounds == <<faults, crashes, expiries, windows>>
vars == <<outbox, stream, disp, faults, crashes, expiries, windows>>

NewOutboxRow == [pub |-> FALSE, owner |-> NoOwner, live |-> FALSE, due |-> TRUE]
Flag == {"alive", "integrity", "postgres", "schema", "jetstream", "stream", "active"}
NewReadiness == [f \in Flag |-> f \in {"alive", "integrity"}]
NoneIn(pc, ready) == [pc |-> pc, rows |-> {}, cur |-> {}, ready |-> ready]

Fault == /\ faults < MaxFaults
         /\ faults' = faults + 1
         /\ UNCHANGED <<crashes, expiries, windows>>

Charged(ok) == IF ok THEN UNCHANGED bounds ELSE Fault

\* DispatcherReadiness setters: losing a dependency clears what rests on it.
SetFlag(r, flag, value) ==
    [f \in Flag |->
       IF f = flag THEN value
       ELSE IF ~value /\ f = "active" /\ flag \in {"alive", "integrity", "postgres", "jetstream"} THEN FALSE
       ELSE IF ~value /\ <<flag, f>> \in {<<"postgres", "schema">>, <<"jetstream", "stream">>} THEN FALSE
       ELSE r[f]]

Ready(d) == \A f \in Flag : disp[d].ready[f]
Working == {"claim", "publish", "mark", "release"}

\* Rows replica d still means to publish, mark or release.
Held(d) == disp[d].rows \cup disp[d].cur

Init ==
    /\ outbox = [r \in Row |-> NewOutboxRow]
    /\ stream = EmptyStream
    /\ disp = [d \in Dispatcher |-> NoneIn("connect", NewReadiness)]
    /\ faults = 0 /\ crashes = 0 /\ expiries = 0 /\ windows = 0

----------------------------------------------------------------------------
(* run(): connecting, and the ways out of the dispatch loop.                *)

\* Leaving the loop because a dependency failed: it is marked lost and the
\* replica connects again; a terminal error ends the process.
Reconnect(d, flag) == disp' = [disp EXCEPT ![d] = NoneIn("connect", SetFlag(@.ready, flag, FALSE))]

Terminal(d) ==
    disp' = [disp EXCEPT ![d] = NoneIn("down", SetFlag(SetFlag(@.ready, "integrity", FALSE), "alive", FALSE))]

\* PostgreSQL, its schema, NATS and the stream, in that order; the first that
\* fails is retried from the start, an incompatible one is terminal.
Connect(d) ==
    /\ disp[d].pc = "connect"
    /\ \/ /\ LET up == [f \in Flag |-> f # "active" \/ disp[d].ready[f]]
             IN  disp' = [disp EXCEPT ![d].pc = "claim", ![d].ready = [up EXCEPT !["integrity"] = @ /\ disp[d].ready["integrity"]]]
          /\ UNCHANGED bounds
       \/ Fault /\ \E flag \in {"postgres", "jetstream"} : Reconnect(d, flag)
       \/ Fault /\ Terminal(d)
    /\ UNCHANGED <<outbox, stream>>

\* client.flush every NATS_PROBE_INTERVAL.
NatsProbeFails(d) ==
    /\ disp[d].pc = "claim"
    /\ Fault
    /\ Reconnect(d, "jetstream")
    /\ UNCHANGED <<outbox, stream>>

\* A termination signal is seen between batches; a crash happens anywhere.
Stops(d) ==
    /\ disp[d].pc # "down"
    /\ crashes < MaxCrashes
    /\ crashes' = crashes + 1
    /\ disp' = [disp EXCEPT ![d] = NoneIn("down", SetFlag(@.ready, "alive", FALSE))]
    /\ UNCHANGED <<outbox, stream, faults, expiries, windows>>

Restart(d) ==
    /\ disp[d].pc = "down"
    /\ disp' = [disp EXCEPT ![d] = NoneIn("connect", NewReadiness)]
    /\ UNCHANGED <<outbox, stream, bounds>>

----------------------------------------------------------------------------
(* dispatch_once.                                                           *)

\* Mutant: a row that still names an owner is never claimed again.
Claimable_Unowned == {r \in DOMAIN outbox : ~outbox[r].pub /\ outbox[r].due /\ outbox[r].owner = NoOwner}

Claimable == {r \in DOMAIN outbox : ~outbox[r].pub /\ outbox[r].due /\ ~outbox[r].live}

Leased(d, R) ==
    [r \in DOMAIN outbox |-> IF r \in R THEN [outbox[r] EXCEPT !.owner = d, !.live = TRUE] ELSE outbox[r]]

\* CLAIM_BATCH_SQL and decode_row.  The update of a claim whose reply is
\* lost stands: its rows wait for their leases to expire.
claim_batch(d) ==
    /\ disp[d].pc = "claim"
    /\ \E R \in SUBSET Claimable :
         /\ Cardinality(R) <= ClaimBatch
         /\ Cardinality(R) = ClaimBatch \/ R = Claimable
         /\ \/ /\ outbox' = Leased(d, R)
               /\ disp' = [disp EXCEPT ![d].rows = R,
                                       ![d].pc = IF R = {} THEN "claim" ELSE "publish",
                                       ![d].ready = IF R = {} THEN [@ EXCEPT !["postgres"] = TRUE, !["active"] = TRUE]
                                                    ELSE [@ EXCEPT !["postgres"] = TRUE]]
               /\ UNCHANGED bounds
            \/ /\ Fault
               /\ outbox' \in {outbox, Leased(d, R)}
               /\ Reconnect(d, "postgres")
            \/ /\ Fault
               /\ outbox' = Leased(d, R)
               /\ Terminal(d)
    /\ UNCHANGED stream

\* Mutant: every attempt is published under an id of its own.
publish_FreshId(d, r) ==
    /\ disp[d].pc = "publish"
    /\ r \in disp[d].rows
    /\ \/ /\ stream' = PublishTo(ForgetId(stream, r), r)
          /\ disp' = [disp EXCEPT ![d].pc = "mark", ![d].rows = @ \ {r}, ![d].cur = {r}]
          /\ UNCHANGED bounds
       \/ /\ Fault
          /\ stream' \in {stream, PublishTo(ForgetId(stream, r), r)}
          /\ disp' = [disp EXCEPT ![d].pc = "release", ![d].rows = @ \ {r}, ![d].cur = {r}]
    /\ UNCHANGED outbox

\* Mutant: the row is marked although the publication failed.
publish_MarksAnyway(d, r) ==
    /\ disp[d].pc = "publish"
    /\ r \in disp[d].rows
    /\ stream' \in {stream, PublishTo(stream, r)}
    /\ Charged(r \in stream'.ever)
    /\ disp' = [disp EXCEPT ![d].pc = "mark", ![d].rows = @ \ {r}, ![d].cur = {r}]
    /\ UNCHANGED outbox

\* JetStreamEnginePublisher::publish.  A publication that times out may have
\* been stored; a receipt of another stream is terminal.
publish(d, r) ==
    /\ disp[d].pc = "publish"
    /\ r \in disp[d].rows
    /\ \/ /\ stream' = PublishTo(stream, r)
          /\ disp' = [disp EXCEPT ![d].pc = "mark", ![d].rows = @ \ {r}, ![d].cur = {r}]
          /\ UNCHANGED bounds
       \/ /\ Fault
          /\ stream' \in {stream, PublishTo(stream, r)}
          /\ disp' = [disp EXCEPT ![d].pc = "release", ![d].rows = @ \ {r}, ![d].cur = {r}]
       \/ /\ Fault
          /\ UNCHANGED stream
          /\ Terminal(d)
    /\ UNCHANGED outbox

\* Mutant: the owner is not compared.
Owns_AnyOwner(d, r) == ~outbox[r].pub

\* The statements that end a claim are guarded by the owner and by
\* published_at; require_single_claim turns no row into ClaimLost.
Owns(d, r) == outbox[r].owner = d /\ ~outbox[r].pub

Freed(r, pub) == [outbox EXCEPT ![r] = [pub |-> pub, owner |-> NoOwner, live |-> FALSE, due |-> pub]]

\* The batch goes on with the next row, or ends and the loop claims again.
Continue(d) ==
    disp' = [disp EXCEPT ![d].cur = {}, ![d].pc = IF @ = "mark" /\ disp[d].rows # {} THEN "publish" ELSE "claim",
                         ![d].ready = IF disp[d].rows # {} THEN @ ELSE [@ EXCEPT !["postgres"] = TRUE, !["active"] = TRUE]]

mark_published(d) ==
    /\ disp[d].pc = "mark"
    /\ \E r \in disp[d].cur :
         \/ Owns(d, r) /\ outbox' = Freed(r, TRUE) /\ Continue(d) /\ UNCHANGED bounds
         \/ ~Owns(d, r) /\ Reconnect(d, "postgres") /\ UNCHANGED <<outbox, bounds>>
         \/ Fault /\ outbox' \in {outbox, IF Owns(d, r) THEN Freed(r, TRUE) ELSE outbox} /\ Reconnect(d, "postgres")
    /\ UNCHANGED stream

\* Mutant: the loop goes on with the publisher still active.
release_for_retry_StaysReady(d) ==
    /\ disp[d].pc = "release"
    /\ \E r \in disp[d].cur :
         /\ Owns(d, r)
         /\ outbox' = Freed(r, FALSE)
         /\ disp' = [disp EXCEPT ![d] = NoneIn("connect", @.ready)]
    /\ UNCHANGED <<stream, bounds>>

\* The rest of the batch stays leased; the publisher is inactive and NATS
\* is connected again.
release_for_retry(d) ==
    /\ disp[d].pc = "release"
    /\ \E r \in disp[d].cur :
         \/ Owns(d, r) /\ outbox' = Freed(r, FALSE) /\ Reconnect(d, "jetstream") /\ UNCHANGED bounds
         \/ ~Owns(d, r) /\ Reconnect(d, "postgres") /\ UNCHANGED <<outbox, bounds>>
         \/ Fault /\ outbox' \in {outbox, IF Owns(d, r) THEN Freed(r, FALSE) ELSE outbox} /\ Reconnect(d, "postgres")
    /\ UNCHANGED stream

----------------------------------------------------------------------------
(* Time.                                                                    *)

LeaseExpires(r) ==
    /\ outbox[r].live
    /\ IF \E d \in Dispatcher : r \in Held(d)
       THEN expiries < MaxExpiries /\ expiries' = expiries + 1
       ELSE UNCHANGED expiries
    /\ outbox' = [outbox EXCEPT ![r].live = FALSE]
    /\ UNCHANGED <<stream, disp, faults, crashes, windows>>

\* retry_delay has passed.
BecomesDue(r) ==
    /\ ~outbox[r].due
    /\ outbox' = [outbox EXCEPT ![r].due = TRUE]
    /\ UNCHANGED <<stream, disp, bounds>>

WindowPasses(r) ==
    /\ r \in stream.recent
    /\ windows < MaxWindows
    /\ windows' = windows + 1
    /\ stream' = ForgetId(stream, r)
    /\ UNCHANGED <<outbox, disp, faults, crashes, expiries>>

Steps(d) ==
    \/ Connect(d) \/ claim_batch(d) \/ mark_published(d) \/ release_for_retry(d) \/ Restart(d)
    \/ \E r \in Row : publish(d, r)

Next ==
    \/ \E d \in Dispatcher : Steps(d) \/ NatsProbeFails(d) \/ Stops(d)
    \/ \E r \in Row : LeaseExpires(r) \/ BecomesDue(r) \/ WindowPasses(r)

Spec == Init /\ [][Next]_vars

\* Each replica keeps running (the container restarts it) and time passes.
FairSpec ==
    /\ Spec
    /\ \A d \in Dispatcher : WF_vars(Steps(d))
    /\ \A r \in Row : WF_vars(LeaseExpires(r)) /\ WF_vars(BecomesDue(r))

----------------------------------------------------------------------------
(* Properties.                                                              *)

TypeOK ==
    /\ outbox \in [Row -> [pub : BOOLEAN, owner : Dispatcher \cup {NoOwner}, live : BOOLEAN, due : BOOLEAN]]
    /\ stream \in [msg : {stream.msg}, recent : SUBSET Row, ever : SUBSET Row, last : Nat]
    /\ disp \in [Dispatcher -> [pc : Working \cup {"down", "connect"}, rows : SUBSET Row, cur : SUBSET Row,
                                ready : [Flag -> BOOLEAN]]]
    /\ windows \in Nat

\* A row is marked published only when the stream has stored it, whatever
\* crashed, timed out or lost its lease on the way.
PublishedIsDelivered == \A r \in Row : outbox[r].pub => r \in stream.ever

\* The row's own id suppresses every further copy inside the duplicate
\* window: the stream has at most one copy per row and per window passed.
CopiesBounded == stream.last <= Cardinality(stream.ever) + windows

\* While a replica's lease on a row lives and the replica works on it, no
\* other replica marks, releases or claims the row.
LeaseHonoured ==
    [][\A r \in Row : \A d \in Dispatcher :
         outbox[r].owner = d /\ outbox[r].live /\ r \in Held(d) /\ disp'[d] = disp[d]
           => outbox'[r] = [outbox[r] EXCEPT !.live = outbox'[r].live]]_vars

\* A replica reports ready only between and during batches of a loop whose
\* connections it verified and whose last batch ended without an error.
ReadyIsHonest == \A d \in Dispatcher : Ready(d) => disp[d].pc \in Working

\* Every row is published in the end, whatever failed before.
EventuallyPublished == \A r \in Row : <>outbox[r].pub

\* The decision record's claim that replicas do not concurrently own a row:
\* no row is in the hands of two replicas.
ReplicasNeverShareRow == \A d, e \in Dispatcher : d # e => Held(d) \cap Held(e) = {}
==============================================================================
