--------------------------- MODULE RecorderProofs ---------------------------
(*************************************************************************)
(* The recorder for any set of feed events of any kinds, any batch size  *)
(* and any number of faults, crashes, stops and late acknowledgements:   *)
(* what has left the feed is in the database with its outbox row, and    *)
(* readiness masks neither a failed transaction nor a lost consumer.     *)
(*************************************************************************)
EXTENDS Recorder, TLAPS

Message == [id : Event, n : Nat, held : BOOLEAN]

\* The consumer as a record of its fields.
Consumer(r) ==
    /\ r = [pc |-> r.pc, todo |-> r.todo, rel |-> r.rel, fil |-> r.fil, acks |-> r.acks,
            failed |-> r.failed, stop |-> r.stop]
    /\ r.pc \in {"start", "nats", "fetch", "classify", "filtered", "persist", "ack", "ending", "down"}
    /\ r.todo \subseteq Delivery /\ r.rel \subseteq Delivery /\ r.fil \subseteq Delivery
    /\ r.failed \in BOOLEAN /\ r.stop \in BOOLEAN

\* A stream as JetStream keeps it: sequence numbers up to the last one given.
Shape(s) ==
    /\ s = [msg |-> s.msg, recent |-> s.recent, ever |-> s.ever, last |-> s.last]
    /\ s.last \in Nat
    /\ s.msg \in [DOMAIN s.msg -> Message]
    /\ StreamOK(s, Event)

\* A sequence number names the same event for ever, and of the events that
\* are stored none but those of X leaves the queue.
Evolves(s, t, X) ==
    /\ Shape(t)
    /\ s.last <= t.last
    /\ \A q \in DOMAIN t.msg : q <= s.last => q \in DOMAIN s.msg /\ t.msg[q].id = s.msg[q].id
    /\ \A e \in t.ever : Queued(t, e) \/ e \in X \/ (e \in s.ever /\ ~Queued(s, e))

\* A delivery still carries the event of its sequence number.
Traced(s, d) == d.q <= s.last /\ (d.q \in DOMAIN s.msg => s.msg[d.q].id = d.ev)

\* What the consumer holds is traced and sorted, and it acknowledges only
\* what is committed.
KeptInv ==
    /\ Shape(feed)
    /\ Consumer(rec)
    /\ raw \subseteq Relevant
    /\ DOMAIN outbox \subseteq Relevant
    /\ \A d \in rec.todo \cup rec.rel \cup rec.fil : Traced(feed, d)
    /\ \A d \in rec.rel : d.ev \in Relevant
    /\ \A d \in rec.fil : d.ev \notin Relevant
    /\ rec.pc = "ack" => \A d \in rec.rel : d.ev \in raw /\ d.ev \in DOMAIN outbox
    /\ AckedIsRecorded

\* Why the recorder is not ready: each reason has a flag that only its own
\* repair sets again.
HonestInv ==
    /\ ready \in [Flag -> BOOLEAN]
    /\ rec.failed => ~ready["persistence"]
    /\ rec.pc \in {"start", "nats", "ending"} => ~ready["consumer"]
    /\ rec.pc = "down" => ~ready["alive"]

RecorderInv == KeptInv /\ HonestInv

-----------------------------------------------------------------------------
(* The stream.                                                             *)

\* A step that only changes how messages are held.
LEMMA MarkEvolves ==
    ASSUME NEW s, NEW t, Shape(s), NEW m, t = [s EXCEPT !.msg = m], m \in [DOMAIN s.msg -> Message],
           \A q \in DOMAIN s.msg : m[q].id = s.msg[q].id
    PROVE  Evolves(s, t, {})
<1>1. t = [msg |-> m, recent |-> s.recent, ever |-> s.ever, last |-> s.last] /\ DOMAIN m = DOMAIN s.msg
  BY Zenon DEF Shape
<1>2. Shape(t)
  BY <1>1, Zenon DEF Shape, StreamOK
<1>3. \A e : Queued(s, e) => Queued(t, e)
  BY <1>1, Zenon DEF Queued
<1> QED
  BY <1>1, <1>2, <1>3, SMTT(30) DEF Evolves, Shape

LEMMA StayEvolves ==
    ASSUME NEW s, Shape(s)
    PROVE  Evolves(s, s, {})
BY DEF Evolves, Shape

LEMMA DeliverEvolves ==
    ASSUME NEW s, Shape(s), NEW Q
    PROVE  Evolves(s, DeliverFrom(s, Q), {})
<1> DEFINE m == [q \in DOMAIN s.msg |->
                    IF q \in Q THEN [id |-> s.msg[q].id, n |-> s.msg[q].n + 1, held |-> TRUE] ELSE s.msg[q]]
<1>1. DeliverFrom(s, Q) = [s EXCEPT !.msg = m]
  BY Zenon DEF DeliverFrom, Shape
<1>2. ASSUME NEW q \in DOMAIN s.msg
      PROVE  m[q] \in Message /\ m[q].id = s.msg[q].id
  BY <1>2, SMTT(30) DEF Shape, Message
<1> HIDE DEF m
<1>3. m \in [DOMAIN s.msg -> Message]
  BY <1>2, Zenon DEF m
<1> QED
  BY <1>1, <1>2, <1>3, MarkEvolves, Zenon

LEMMA ReturnEvolves ==
    ASSUME NEW s, Shape(s), NEW q
    PROVE  Evolves(s, ReturnTo(s, q), {})
<1>1. CASE q \notin DOMAIN s.msg
  BY <1>1, StayEvolves, Zenon DEF ReturnTo
<1>2. CASE q \in DOMAIN s.msg
  <2> DEFINE m == [s.msg EXCEPT ![q].held = FALSE]
  <2>1. ReturnTo(s, q) = [s EXCEPT !.msg = m]
    BY <1>2, Zenon DEF ReturnTo, Shape
  <2>2. m \in [DOMAIN s.msg -> Message] /\ \A k \in DOMAIN s.msg : m[k].id = s.msg[k].id
    BY <1>2, Zenon DEF Shape, Message
  <2> HIDE DEF m
  <2> QED
    BY <2>1, <2>2, MarkEvolves, Zenon
<1> QED
  BY <1>1, <1>2, Zenon

\* Of a message the queue forgets, the event is all that can be lost.
LEMMA RemoveEvolves ==
    ASSUME NEW s, Shape(s), NEW q, NEW e, q \in DOMAIN s.msg => s.msg[q].id = e
    PROVE  Evolves(s, RemoveFrom(s, q), {e})
<1> DEFINE m == [k \in DOMAIN s.msg \ {q} |-> s.msg[k]]
           t == RemoveFrom(s, q)
<1>1. t = [msg |-> m, recent |-> s.recent, ever |-> s.ever, last |-> s.last]
  BY SMTT(30) DEF RemoveFrom, Shape
<1>2. DOMAIN m \subseteq DOMAIN s.msg /\ \A k \in DOMAIN s.msg : k \in DOMAIN m \/ k = q
  BY Zenon
<1>3. m \in [DOMAIN m -> Message] /\ \A k \in DOMAIN m : m[k] = s.msg[k]
  BY Zenon DEF Shape
<1> HIDE DEF m, t
<1>4. Shape(t)
  BY <1>1, <1>2, <1>3, Zenon DEF Shape, StreamOK
<1>5. \A x : Queued(s, x) => Queued(t, x) \/ x = e
  BY <1>1, <1>2, <1>3, Zenon DEF Queued
<1> QED
  BY <1>1, <1>2, <1>3, <1>4, <1>5, SMTT(30) DEF Evolves, Shape, t


\* A publication stores the event under the next number, or finds it inside
\* the duplicate window.
LEMMA PublishEvolves ==
    ASSUME NEW s, Shape(s), NEW e \in Event
    PROVE  Evolves(s, PublishTo(s, e), {})
<1> DEFINE t == PublishTo(s, e)
           m == [q \in DOMAIN s.msg \cup {s.last + 1} |->
                   IF q \in DOMAIN s.msg THEN s.msg[q] ELSE [id |-> e, n |-> 0, held |-> FALSE]]
<1>1. CASE e \in s.recent
  BY <1>1, StayEvolves, Zenon DEF PublishTo
<1>2. CASE e \notin s.recent
  <2>1. t = [msg |-> m, recent |-> s.recent \cup {e}, ever |-> s.ever \cup {e}, last |-> s.last + 1]
    BY <1>2, Zenon DEF PublishTo
  <2>2. /\ DOMAIN m = DOMAIN s.msg \cup {s.last + 1} /\ s.last + 1 \notin DOMAIN s.msg
        /\ \A q \in DOMAIN s.msg : m[q] = s.msg[q]
        /\ m[s.last + 1] = [id |-> e, n |-> 0, held |-> FALSE]
    BY SMTT(30) DEF Shape, StreamOK
  <2>3. m \in [DOMAIN m -> Message]
    BY Zenon DEF Shape, Message
  <2> HIDE DEF m, t
  <2>4. Shape(t)
    BY <2>1, <2>2, <2>3, SMTT(30) DEF Shape, StreamOK
  <2>5. \A x : (Queued(s, x) => Queued(t, x)) /\ Queued(t, e)
    BY <2>1, <2>2, SMTT(30) DEF Queued
  <2>6. s.last <= t.last /\ \A q \in DOMAIN t.msg : q <= s.last => q \in DOMAIN s.msg /\ t.msg[q].id = s.msg[q].id
    BY <2>1, <2>2, SMTT(30) DEF Shape
  <2>7. \A x \in t.ever : x \in s.ever \/ x = e
    BY <2>1, Zenon
  <2> QED
    BY <2>4, <2>5, <2>6, <2>7, Zenon DEF Evolves, t
<1> QED
  BY <1>1, <1>2, Zenon

LEMMA ForgetEvolves ==
    ASSUME NEW s, Shape(s), NEW e \in Event
    PROVE  Evolves(s, PublishTo(ForgetId(s, e), e), {})
<1> DEFINE f == ForgetId(s, e)
<1>1. f = [msg |-> s.msg, recent |-> s.recent \ {e}, ever |-> s.ever, last |-> s.last]
  BY SMTT(30) DEF ForgetId, Shape
<1>2. Shape(f)
  BY <1>1, SMTT(30) DEF Shape, StreamOK
<1>3. Evolves(f, PublishTo(f, e), {})
  BY <1>2, PublishEvolves, Zenon
<1>4. f.last = s.last /\ f.msg = s.msg /\ f.ever = s.ever
  BY <1>1, SMTT(30)
<1> HIDE DEF f
<1>5. \A x : Queued(f, x) = Queued(s, x)
  BY <1>4, Zenon DEF Queued
<1>6. Evolves(s, PublishTo(f, e), {})
  BY <1>3, <1>4, <1>5, Zenon DEF Evolves
<1> QED
  BY <1>6, Zenon DEF f

\* Whether its reply is lost or not, an acknowledgement happened or did not.
LEMMA AckEvolves ==
    ASSUME NEW s, Shape(s), NEW q, NEW t, NEW X, Evolves(s, t, X), NEW o \in AckOutcome(s, q, t)
    PROVE  Evolves(s, o.stream, X)
<1>1. o.stream = s \/ o.stream = t
  BY SMTT(30) DEF AckOutcome
<1>2. Evolves(s, s, X)
  BY StayEvolves, Zenon DEF Evolves
<1> QED
  BY <1>1, <1>2, Zenon

LEMMA TracedStays ==
    ASSUME NEW s, Shape(s), NEW t, NEW X, Evolves(s, t, X), NEW d \in Delivery, Traced(s, d)
    PROVE  Traced(t, d)
BY DEF Traced, Evolves, Shape, Delivery

-----------------------------------------------------------------------------
(* What is kept.                                                           *)

\* A step keeps what was acknowledged if the consumer holds nothing new, the
\* rows only grow, and no relevant event leaves the queue before its row.
LEMMA Keep ==
    ASSUME KeptInv, NEW X, Evolves(feed, feed', X), Consumer(rec'),
           raw' \subseteq Relevant, DOMAIN outbox' \subseteq Relevant,
           raw \subseteq raw', DOMAIN outbox \subseteq DOMAIN outbox',
           \A e \in X : e \in Relevant => e \in raw' /\ e \in DOMAIN outbox',
           rec'.todo \subseteq rec.todo,
           \A d \in rec'.rel : d \in rec.rel \/ (d \in rec.todo /\ d.ev \in Relevant),
           \A d \in rec'.fil : d \in rec.fil \/ (d \in rec.todo /\ d.ev \notin Relevant),
           rec'.pc = "ack" => \A d \in rec'.rel : d.ev \in raw' /\ d.ev \in DOMAIN outbox'
    PROVE  KeptInv'
<1>1. Shape(feed)'
  BY Zenon DEF Evolves, Shape, StreamOK
<1>2. \A d \in (rec.todo \cup rec.rel \cup rec.fil) : Traced(feed', d)
  BY TracedStays, Zenon DEF KeptInv, Consumer
<1>3. \A d \in (rec.todo \cup rec.rel \cup rec.fil)' : Traced(feed, d)'
  BY <1>2, Zenon DEF Traced
<1>4. AckedIsRecorded'
  BY Zenon DEF KeptInv, AckedIsRecorded, Evolves, Queued, Relevant
<1> QED
  BY <1>1, <1>3, <1>4, Zenon DEF KeptInv, Relevant

\* The consumer moves and gives up or passes on what it holds.
LEMMA KeepRows ==
    ASSUME KeptInv, NEW X, Evolves(feed, feed', X), Consumer(rec'), UNCHANGED rows,
           \A e \in X : e \in Relevant => e \in raw /\ e \in DOMAIN outbox,
           rec'.todo \subseteq rec.todo, rec'.rel \subseteq rec.rel, rec'.fil \subseteq rec.fil,
           rec'.pc = "ack" => rec.pc = "ack"
    PROVE  KeptInv'
BY Keep DEF rows, KeptInv


\* Steps that leave the feed and the rows alone.
LEMMA KeepHeld ==
    ASSUME KeptInv, UNCHANGED <<feed, rows>>, Consumer(rec'),
           \/ rec'.todo = rec.todo /\ rec'.rel = rec.rel /\ rec'.fil = rec.fil
           \/ rec'.todo = {} /\ rec'.rel = {} /\ rec'.fil = {},
           rec'.pc = "ack" => rec.pc = "ack"
    PROVE  KeptInv'
<1>1. Evolves(feed, feed', {})
  BY StayEvolves, Zenon DEF KeptInv
<1> QED
  BY <1>1, KeepRows, SMTT(30)

\* The consumer's own steps between the stream and the rows.
LEMMA MovesKeep ==
    ASSUME KeptInv,
           \/ connect_postgres_until_ready \/ ensure_durable_pipeline \/ SeesStop \/ ProcessEnds \/ Restart
           \/ Classified \/ FilteredAcked \/ BatchEnds \/ Signal \/ Crash
    PROVE  KeptInv'
<1>1. Consumer(rec)
  BY Zenon DEF KeptInv
<1>2. ASSUME NEW to \in {"start", "nats", "ending", "down"}, NEW b \in BOOLEAN,
             rec' = [Stopped EXCEPT !.pc = to, !.stop = b], UNCHANGED <<feed, rows>>
      PROVE  KeptInv'
  <2>1. /\ Consumer(rec') /\ rec'.pc # "ack"
        /\ rec'.todo = {} /\ rec'.rel = {} /\ rec'.fil = {}
    BY <1>2, Zenon DEF Consumer, Stopped
  <2> QED
    BY <1>2, <2>1, KeepHeld, Zenon
<1>3. CASE connect_postgres_until_ready
  <2>1. /\ Consumer(rec') /\ (rec'.pc = "ack" => rec.pc = "ack")
        /\ rec'.todo = rec.todo /\ rec'.rel = rec.rel /\ rec'.fil = rec.fil
    BY <1>1, <1>3, Zenon DEF connect_postgres_until_ready, Consumer
  <2> QED
    BY <1>3, <2>1, KeepHeld, Zenon DEF connect_postgres_until_ready
<1>4. CASE ensure_durable_pipeline
  <2>1. /\ Consumer(rec') /\ (rec'.pc = "ack" => rec.pc = "ack")
        /\ rec'.todo = rec.todo /\ rec'.rel = rec.rel /\ rec'.fil = rec.fil
    <3>1. rec' = rec \/ rec' = [rec EXCEPT !.pc = "fetch", !.acks = 0]
      BY <1>4, Zenon DEF ensure_durable_pipeline
    <3> QED
      BY <1>1, <3>1, ZenonT(30) DEF Consumer
  <2> QED
    BY <1>4, <2>1, KeepHeld, Zenon DEF ensure_durable_pipeline
<1>5. CASE SeesStop
  BY <1>1, <1>2, <1>5, Zenon DEF SeesStop, Leave, Consumer
<1>6. CASE ProcessEnds \/ Crash
  <2>1. rec' = Stopped
    BY <1>6, Zenon DEF ProcessEnds, Crash
  <2>2. /\ Consumer(rec') /\ rec'.pc # "ack"
        /\ rec'.todo = {} /\ rec'.rel = {} /\ rec'.fil = {}
    BY <2>1, Zenon DEF Consumer, Stopped
  <2> QED
    BY <1>6, <2>2, KeepHeld, Zenon DEF ProcessEnds, Crash
<1>7. CASE Restart
  <2>1. rec' = [Stopped EXCEPT !.pc = "start"]
    BY <1>7, Zenon DEF Restart
  <2>2. /\ Consumer(rec') /\ rec'.pc # "ack"
        /\ rec'.todo = {} /\ rec'.rel = {} /\ rec'.fil = {}
    BY <2>1, ZenonT(30) DEF Consumer, Stopped
  <2> QED
    BY <1>7, <2>2, KeepHeld, Zenon DEF Restart
<1>8. CASE Classified
  <2>1. /\ Consumer(rec') /\ (rec'.pc = "ack" => rec.pc = "ack")
        /\ rec'.todo = rec.todo /\ rec'.rel = rec.rel /\ rec'.fil = rec.fil
    BY <1>1, <1>8, Zenon DEF Classified, Consumer
  <2> QED
    BY <1>8, <2>1, KeepHeld, Zenon DEF Classified
<1>9. CASE FilteredAcked
  <2>1. /\ Consumer(rec') /\ (rec'.pc = "ack" => rec.pc = "ack")
        /\ rec'.todo = rec.todo /\ rec'.rel = rec.rel /\ rec'.fil = rec.fil
    BY <1>1, <1>9, Zenon DEF FilteredAcked, Consumer
  <2> QED
    BY <1>9, <2>1, KeepHeld, Zenon DEF FilteredAcked
<1>10. CASE BatchEnds
  <2>1. CASE rec.stop
    BY <1>1, <1>2, <1>10, <2>1, Zenon DEF BatchEnds, Leave, Consumer
  <2>2. CASE ~rec.stop
    <3>1. /\ Consumer(rec') /\ (rec'.pc = "ack" => rec.pc = "ack")
          /\ rec'.todo = rec.todo /\ rec'.rel = rec.rel /\ rec'.fil = rec.fil
      BY <1>1, <1>10, <2>2, Zenon DEF BatchEnds, Consumer
    <3> QED
      BY <1>10, <3>1, KeepHeld, Zenon DEF BatchEnds
  <2> QED
    BY <2>1, <2>2, Zenon
<1>11. CASE Signal
  <2>1. /\ Consumer(rec') /\ (rec'.pc = "ack" => rec.pc = "ack")
        /\ rec'.todo = rec.todo /\ rec'.rel = rec.rel /\ rec'.fil = rec.fil
    BY <1>1, <1>11, ZenonT(30) DEF Signal, Consumer
  <2> QED
    BY <1>11, <2>1, KeepHeld, Zenon DEF Signal
<1> QED
  BY <1>3, <1>4, <1>5, <1>6, <1>7, <1>8, <1>9, <1>10, <1>11, Zenon

\* The feed ingestor, the ack wait, and the tasks beside the consumer.
LEMMA OthersKeep ==
    ASSUME KeptInv,
           \/ \E e \in Event : Ingest(e)
           \/ \E q \in DOMAIN feed.msg : AckWaitPasses(q)
           \/ FlushTake \/ FlushWrite \/ monitor_database \/ nats_event
    PROVE  KeptInv'
<1>1. Shape(feed) /\ Consumer(rec)
  BY Zenon DEF KeptInv
<1>2. CASE \E e \in Event : Ingest(e)
  <2>1. Evolves(feed, feed', {})
    BY <1>1, <1>2, PublishEvolves, ForgetEvolves, Zenon DEF Ingest
  <2> QED
    BY <1>1, <1>2, <2>1, KeepRows, SMTT(30) DEF Ingest
<1>3. CASE \E q \in DOMAIN feed.msg : AckWaitPasses(q)
  <2>1. Evolves(feed, feed', {})
    BY <1>1, <1>3, ReturnEvolves, Zenon DEF AckWaitPasses
  <2> QED
    BY <1>1, <1>3, <2>1, KeepRows, SMTT(30) DEF AckWaitPasses
<1>4. CASE FlushTake \/ FlushWrite \/ monitor_database \/ nats_event
  BY <1>1, <1>4, KeepHeld, Zenon DEF FlushTake, FlushWrite, monitor_database, nats_event
<1> QED
  BY <1>2, <1>3, <1>4, Zenon


\* What is fetched is traced: a delivery is made from its message.
LEMMA FetchKeeps ==
    ASSUME KeptInv, fetch_batch
    PROVE  KeptInv'
<1>1. Shape(feed) /\ Consumer(rec)
  BY Zenon DEF KeptInv
<1>2. PICK Q \in SUBSET Deliverable(feed, MaxDeliver) :
        /\ feed' = DeliverFrom(feed, Q)
        /\ \/ rec' = [rec EXCEPT !.pc = "classify", !.todo = Deliveries(Q)]
           \/ Leave("nats")
  BY Zenon DEF fetch_batch
<1>3. Evolves(feed, feed', {}) /\ UNCHANGED rows
  BY <1>1, <1>2, DeliverEvolves, Zenon DEF fetch_batch
<1>4. CASE Leave("nats")
  <2>1. /\ Consumer(rec') /\ rec'.pc # "ack"
        /\ rec'.todo = {} /\ rec'.rel = {} /\ rec'.fil = {}
    BY <1>1, <1>4, ZenonT(30) DEF Consumer, Stopped, Leave
  <2> QED
    BY <1>3, <2>1, KeepRows, Zenon
<1>5. CASE rec' = [rec EXCEPT !.pc = "classify", !.todo = Deliveries(Q)]
  <2>1. Deliveries(Q) \subseteq Delivery /\ \A d \in Deliveries(Q) : Traced(feed, d)
    <3>1. ASSUME NEW q \in Q
          PROVE  LET d == [q |-> q, ev |-> feed.msg[q].id, n |-> feed.msg[q].n + 1]
                 IN  d \in Delivery /\ Traced(feed, d)
      <4>1. q \in DOMAIN feed.msg /\ q \in 1 .. feed.last /\ feed.msg[q] \in Message
        BY <1>1, <3>1, Zenon DEF Deliverable, Shape, StreamOK
      <4> QED
        BY <1>1, <4>1, SMTT(30) DEF Delivery, Traced, Message, Shape
    <3> QED
      BY <3>1, Zenon DEF Deliveries
  <2>2. /\ Consumer(rec') /\ rec'.pc = "classify" /\ rec'.todo = Deliveries(Q)
        /\ rec'.rel = rec.rel /\ rec'.fil = rec.fil
    BY <1>1, <1>5, <2>1, ZenonT(30) DEF Consumer
  <2>3. \A d \in Deliveries(Q) \cup rec.rel \cup rec.fil : Traced(feed', d)
    BY <1>1, <1>3, <2>1, TracedStays, Zenon DEF KeptInv, Consumer
  <2>4. AckedIsRecorded' /\ Shape(feed)'
    BY <1>3, Zenon DEF KeptInv, AckedIsRecorded, Evolves, Queued, Relevant, rows, Shape, StreamOK
  <2>5. \A d \in (rec.todo \cup rec.rel \cup rec.fil)' : Traced(feed, d)'
    BY <2>2, <2>3, Zenon DEF Traced
  <2> QED
    BY <1>3, <2>2, <2>4, <2>5, Zenon DEF KeptInv, Relevant, rows
<1> QED
  BY <1>2, <1>4, <1>5, Zenon

\* Classification passes a delivery on by its kind, and only a malformed one
\* may leave the queue.
LEMMA ClassifyKeeps ==
    ASSUME KeptInv, Classify
    PROVE  KeptInv'
<1>1. Shape(feed) /\ Consumer(rec)
  BY Zenon DEF KeptInv
<1>2. PICK d \in rec.todo : ClassifyValid(d) \/ ClassifyMalformed(d)
  BY Zenon DEF Classify
<1>3. d \in Delivery /\ Traced(feed, d) /\ rec.pc = "classify"
  BY <1>1, <1>2, Zenon DEF KeptInv, Consumer, Classify
<1>4. CASE ClassifyValid(d)
  <2>1. Evolves(feed, feed', {}) /\ UNCHANGED rows
    BY <1>1, <1>4, StayEvolves, Zenon DEF ClassifyValid
  <2>2. CASE rec' = [Stopped EXCEPT !.pc = "ending", !.stop = TRUE]
    <3>1. /\ Consumer(rec') /\ rec'.pc # "ack"
          /\ rec'.todo = {} /\ rec'.rel = {} /\ rec'.fil = {}
      BY <2>2, Zenon DEF Consumer, Stopped
    <3> QED
      BY <2>1, <3>1, KeepRows, Zenon
  <2>3. CASE rec' = [rec EXCEPT !.todo = @ \ {d},
                                !.rel = IF d.ev \in Relevant THEN @ \cup {d} ELSE @,
                                !.fil = IF d.ev \in Relevant THEN @ ELSE @ \cup {d}]
    <3>1. /\ Consumer(rec') /\ rec'.pc = "classify"
          /\ rec'.todo = rec.todo \ {d}
          /\ rec'.rel = IF d.ev \in Relevant THEN rec.rel \cup {d} ELSE rec.rel
          /\ rec'.fil = IF d.ev \in Relevant THEN rec.fil ELSE rec.fil \cup {d}
      BY <1>1, <1>3, <2>3, Zenon DEF Consumer
    <3> QED
      BY <1>2, <2>1, <3>1, Keep, SMTT(30) DEF KeptInv, rows
  <2> QED
    BY <1>4, <2>2, <2>3, Zenon DEF ClassifyValid
<1>5. CASE ClassifyMalformed(d)
  <2>1. d.ev \notin Relevant
    BY <1>5, Zenon DEF ClassifyMalformed, Relevant
  <2>2. /\ Evolves(feed, RemoveFrom(feed, d.q), {d.ev})
        /\ Evolves(feed, ReturnTo(feed, d.q), {d.ev})
    <3>1. Evolves(feed, RemoveFrom(feed, d.q), {d.ev})
      BY <1>1, <1>3, RemoveEvolves, ZenonT(30) DEF Traced
    <3>2. Evolves(feed, ReturnTo(feed, d.q), {})
      BY <1>1, ReturnEvolves, Zenon
    <3> QED
      BY <3>1, <3>2, ZenonT(30) DEF Evolves
  <2>3. /\ Evolves(feed, feed', {d.ev})
        /\ \E ok : rec' = [rec EXCEPT !.todo = @ \ {d}, !.acks = Observe(@, ok)]
    <3>1. PICK o \in AckOutcome(feed, d.q, RemoveFrom(feed, d.q)) \cup AckOutcome(feed, d.q, ReturnTo(feed, d.q)) :
            feed' = o.stream /\ rec' = [rec EXCEPT !.todo = @ \ {d}, !.acks = Observe(@, o.ok)]
      BY <1>5, Zenon DEF ClassifyMalformed
    <3>2. Evolves(feed, o.stream, {d.ev})
      <4>1. CASE o \in AckOutcome(feed, d.q, RemoveFrom(feed, d.q))
        BY <1>1, <2>2, <4>1, AckEvolves, ZenonT(30)
      <4>2. CASE o \in AckOutcome(feed, d.q, ReturnTo(feed, d.q))
        BY <1>1, <2>2, <4>2, AckEvolves, ZenonT(30)
      <4> QED
        BY <3>1, <4>1, <4>2, Zenon
    <3> QED
      BY <3>1, <3>2, ZenonT(30)
  <2>4. /\ Consumer(rec') /\ rec'.pc = "classify"
        /\ rec'.todo = rec.todo \ {d} /\ rec'.rel = rec.rel /\ rec'.fil = rec.fil
    BY <1>1, <1>3, <2>3, ZenonT(60) DEF Consumer, Observe
  <2> QED
    BY <1>5, <2>1, <2>3, <2>4, KeepRows, SMTT(30) DEF ClassifyMalformed
<1> QED
  BY <1>2, <1>4, <1>5, Zenon


\* An acknowledgement takes at most the event of its delivery off the queue.
LEMMA AckKeeps ==
    ASSUME KeptInv, acknowledge_filtered \/ AckRelevant
    PROVE  KeptInv'
<1>1. Shape(feed) /\ Consumer(rec)
  BY Zenon DEF KeptInv
<1>2. ASSUME NEW d \in Delivery, Traced(feed, d), NEW o \in AckOutcome(feed, d.q, RemoveFrom(feed, d.q)), feed' = o.stream
      PROVE  Evolves(feed, feed', {d.ev})
  <2>1. Evolves(feed, RemoveFrom(feed, d.q), {d.ev})
    BY <1>1, <1>2, RemoveEvolves, ZenonT(30) DEF Traced
  <2> QED
    BY <1>1, <1>2, <2>1, AckEvolves, Zenon
<1>3. CASE acknowledge_filtered
  <2>1. PICK d \in rec.fil : AckDelivery(d, "fil")
    BY <1>3, Zenon DEF acknowledge_filtered
  <2>2. PICK o \in AckOutcome(feed, d.q, RemoveFrom(feed, d.q)) :
          feed' = o.stream /\ rec' = [rec EXCEPT !["fil"] = @ \ {d}, !.acks = Observe(@, o.ok)]
    BY <2>1, ZenonT(30) DEF AckDelivery
  <2>3. d \in Delivery /\ Traced(feed, d) /\ d.ev \notin Relevant
    BY <1>1, <2>1, Zenon DEF KeptInv, Consumer
  <2>4. /\ Consumer(rec') /\ rec'.pc = rec.pc
        /\ rec'.todo = rec.todo /\ rec'.rel = rec.rel /\ rec'.fil = rec.fil \ {d}
    BY <1>1, <2>2, Zenon DEF Consumer
  <2>5. Evolves(feed, feed', {d.ev}) /\ UNCHANGED rows
    BY <1>2, <2>1, <2>2, <2>3, ZenonT(30) DEF AckDelivery
  <2> QED
    BY <2>3, <2>4, <2>5, KeepRows, SMTT(30)
<1>4. CASE AckRelevant
  <2>1. PICK d \in rec.rel : AckDelivery(d, "rel")
    BY <1>4, Zenon DEF AckRelevant
  <2>2. PICK o \in AckOutcome(feed, d.q, RemoveFrom(feed, d.q)) :
          feed' = o.stream /\ rec' = [rec EXCEPT !["rel"] = @ \ {d}, !.acks = Observe(@, o.ok)]
    BY <2>1, Zenon DEF AckDelivery
  <2>3. d \in Delivery /\ Traced(feed, d) /\ d.ev \in raw /\ d.ev \in DOMAIN outbox
    BY <1>1, <1>4, <2>1, Zenon DEF KeptInv, Consumer, AckRelevant
  <2>4. /\ Consumer(rec') /\ rec'.pc = rec.pc
        /\ rec'.todo = rec.todo /\ rec'.rel = rec.rel \ {d} /\ rec'.fil = rec.fil
    BY <1>1, <2>2, Zenon DEF Consumer
  <2>5. Evolves(feed, feed', {d.ev}) /\ UNCHANGED rows
    BY <1>2, <2>1, <2>2, <2>3, ZenonT(30) DEF AckDelivery
  <2> QED
    BY <2>3, <2>4, <2>5, KeepRows, SMTT(30)
<1> QED
  BY <1>3, <1>4, Zenon

\* The transaction writes both rows of every relevant event before the first
\* acknowledgement; one whose commit is not confirmed is repeated.
LEMMA PersistKeeps ==
    ASSUME KeptInv, persist_batch
    PROVE  KeptInv'
<1> DEFINE E == {d.ev : d \in rec.rel}
<1>1. Shape(feed) /\ Consumer(rec) /\ rec.pc = "persist" /\ feed' = feed
  BY Zenon DEF KeptInv, persist_batch
<1>2. Evolves(feed, feed', {})
  BY <1>1, StayEvolves, Zenon
<1>3. E \subseteq Relevant
  BY Zenon DEF KeptInv
<1>4. \/ Commit(E) /\ rec' = [rec EXCEPT !.pc = "ack", !.failed = FALSE]
      \/ (Commit(E) \/ UNCHANGED rows) /\ \E a : rec' = [rec EXCEPT !.failed = TRUE, !.acks = a]
  BY Zenon DEF persist_batch
<1>5. ASSUME Commit(E)
      PROVE  /\ raw' = raw \cup E
             /\ DOMAIN outbox' = DOMAIN outbox \cup E
  BY <1>5, Zenon DEF Commit
<1>6. /\ Consumer(rec') /\ rec'.pc \in {"ack", "persist"}
      /\ rec'.todo = rec.todo /\ rec'.rel = rec.rel /\ rec'.fil = rec.fil
      /\ rec'.pc = "ack" => Commit(E)
  BY <1>1, <1>4, ZenonT(30) DEF Consumer
<1>7. CASE Commit(E)
  <2>1. \A d \in rec.rel : d.ev \in raw' /\ d.ev \in DOMAIN outbox'
    BY <1>5, <1>7, Zenon
  <2> QED
    BY <1>2, <1>3, <1>5, <1>6, <1>7, <2>1, Keep, SMTT(30) DEF KeptInv
<1>8. CASE ~Commit(E)
  <2>1. UNCHANGED rows
    BY <1>4, <1>8, Zenon
  <2> QED
    BY <1>2, <1>6, <1>8, <2>1, KeepRows, SMTT(30)
<1> QED
  BY <1>7, <1>8, Zenon

-----------------------------------------------------------------------------
(* What readiness says.                                                    *)

\* A setter sets its flags, and turns no other on.
LEMMA Flags ==
    ASSUME NEW r \in [Flag -> BOOLEAN], NEW F \in SUBSET Flag, NEW v \in BOOLEAN
    PROVE  /\ SetFlags(r, F, v) \in [Flag -> BOOLEAN]
           /\ \A f \in F : SetFlags(r, F, v)[f] = v
           /\ \A f \in Flag \ F : SetFlags(r, F, v)[f] => r[f]
BY ZenonT(30) DEF SetFlags


\* Flags that have nothing to do with the consumer's state, or that only go
\* down, whoever sets them.
LEMMA HonestStays ==
    ASSUME HonestInv, ready' \in [Flag -> BOOLEAN],
           \A f \in {"persistence", "consumer", "alive"} : ready'[f] => ready[f],
           rec'.failed => rec.failed, rec'.pc \in {"start", "nats", "ending"} => rec.pc \in {"start", "nats", "ending"},
           rec'.pc = "down" => rec.pc = "down"
    PROVE  HonestInv'
BY DEF HonestInv

\* Leaving the consumer loop.
LEMMA LeaveHonest ==
    ASSUME HonestInv, NEW next \in {"nats", "ending"}, Leave(next)
    PROVE  HonestInv'
<1>1. NatsFlags \cup {"fetching"} \in SUBSET Flag /\ "consumer" \in NatsFlags
  BY Zenon DEF NatsFlags, Flag
<1>2. ready' \in [Flag -> BOOLEAN] /\ ~ready'["consumer"]
  BY <1>1, Flags, ZenonT(30) DEF Leave, HonestInv
<1>3. rec'.pc = next /\ ~rec'.failed
  BY Zenon DEF Leave, Stopped
<1> QED
  BY <1>2, <1>3, Zenon DEF HonestInv

\* The start, the end and the connections of the process.
LEMMA LifeHonest ==
    ASSUME Consumer(rec), HonestInv,
           connect_postgres_until_ready \/ ensure_durable_pipeline \/ SeesStop \/ ProcessEnds \/ Restart \/ Crash \/ Signal
    PROVE  HonestInv'
<1>1. ready \in [Flag -> BOOLEAN]
  BY Zenon DEF HonestInv
<1>2. CASE connect_postgres_until_ready
  <2>1. PICK F \in SUBSET {"postgres", "schema"}, v \in BOOLEAN : ready' = SetFlags(ready, F, v)
    BY <1>2, ZenonT(30) DEF connect_postgres_until_ready
  <2>2. F \in SUBSET Flag /\ "persistence" \in Flag \ F /\ "consumer" \in Flag \ F /\ "alive" \in Flag \ F
    BY <2>1, Zenon DEF Flag
  <2>3. ready' \in [Flag -> BOOLEAN] /\ \A f \in {"persistence", "consumer", "alive"} : ready'[f] => ready[f]
    BY <1>1, <2>1, <2>2, Flags, SMTT(30)
  <2>4. rec'.failed = rec.failed /\ rec.pc = "start" /\ rec'.pc \in {"start", "nats"}
    BY <1>2, Zenon DEF connect_postgres_until_ready, Consumer
  <2> QED
    BY <2>3, <2>4, HonestStays, Zenon
<1>3. CASE ensure_durable_pipeline
  <2>1. NatsFlags \in SUBSET Flag /\ NatsFlags \cup {"fetching"} \in SUBSET Flag /\ "consumer" \in NatsFlags
    BY Zenon DEF NatsFlags, Flag
  <2>2. "persistence" \in Flag \ (NatsFlags \cup {"fetching"}) /\ "alive" \in Flag \ (NatsFlags \cup {"fetching"})
    BY Zenon DEF NatsFlags, Flag
  <2>3. CASE ready' = SetFlags(ready, NatsFlags, TRUE) /\ rec' = [rec EXCEPT !.pc = "fetch", !.acks = 0]
    <3>1. rec'.pc = "fetch" /\ rec'.failed = rec.failed
      BY <2>3, Zenon DEF Consumer
    <3>2. ready' \in [Flag -> BOOLEAN] /\ (ready'["persistence"] => ready["persistence"])
      BY <1>1, <2>1, <2>2, <2>3, Flags, Zenon
    <3> QED
      BY <3>1, <3>2, Zenon DEF HonestInv
  <2>4. CASE ready' = SetFlags(ready, NatsFlags \cup {"fetching"}, FALSE) /\ rec' = rec
    <3>1. ready' \in [Flag -> BOOLEAN] /\ ~ready'["consumer"]
      BY <1>1, <2>1, <2>4, Flags, ZenonT(30)
    <3>2. (ready'["persistence"] => ready["persistence"]) /\ (ready'["alive"] => ready["alive"])
      BY <1>1, <2>1, <2>2, <2>4, Flags, ZenonT(30)
    <3> QED
      BY <2>4, <3>1, <3>2, Zenon DEF HonestInv
  <2> QED
    BY <1>3, <2>3, <2>4, ZenonT(30) DEF ensure_durable_pipeline
<1>4. CASE SeesStop
  BY <1>4, LeaveHonest, Zenon DEF SeesStop
<1>5. CASE ProcessEnds \/ Crash
  <2>1. rec' = Stopped /\ ready' = [ready EXCEPT !["alive"] = FALSE]
    BY <1>5, Zenon DEF ProcessEnds, Crash
  <2>2. rec'.pc = "down" /\ ~rec'.failed /\ ready' \in [Flag -> BOOLEAN] /\ ~ready'["alive"]
    BY <1>1, <2>1, ZenonT(30) DEF Stopped, Flag
  <2> QED
    BY <2>2, Zenon DEF HonestInv
<1>6. CASE Restart
  <2>1. rec' = [Stopped EXCEPT !.pc = "start"] /\ ready' = NewReadiness
    BY <1>6, Zenon DEF Restart
  <2>2. rec'.pc = "start" /\ ~rec'.failed
    BY <2>1, Zenon DEF Stopped
  <2>3. "consumer" \in Flag /\ "consumer" \notin {"alive", "persistence", "acks", "integrity"}
    BY Zenon DEF Flag
  <2>4. ready' \in [Flag -> BOOLEAN]
    BY <2>1, SMTT(30) DEF NewReadiness
  <2>5. ready'["consumer"] = ("consumer" \in {"alive", "persistence", "acks", "integrity"})
    BY <2>1, <2>3, Zenon DEF NewReadiness
  <2> QED
    BY <2>2, <2>3, <2>4, <2>5, Zenon DEF HonestInv
<1>7. CASE Signal
  <2>1. rec'.pc = rec.pc /\ rec'.failed = rec.failed /\ ready' = ready
    BY <1>7, Zenon DEF Signal, Consumer
  <2> QED
    BY <2>1, Zenon DEF HonestInv
<1> QED
  BY <1>2, <1>3, <1>4, <1>5, <1>6, <1>7, Zenon


\* The consumer loop.
LEMMA LoopHonest ==
    ASSUME Consumer(rec), HonestInv,
           fetch_batch \/ Classify \/ Classified \/ acknowledge_filtered \/ FilteredAcked
           \/ persist_batch \/ AckRelevant \/ BatchEnds
    PROVE  HonestInv'
<1>1. ready \in [Flag -> BOOLEAN] /\ rec.pc \notin {"start", "nats", "ending", "down"}
  BY Zenon DEF HonestInv, fetch_batch, Classify, Classified, acknowledge_filtered, FilteredAcked, persist_batch, AckRelevant,
         BatchEnds
\* Acknowledgements move the one flag of their own.
<1>2. ASSUME NEW n, NEW ok
      PROVE  /\ ObserveFlag(ready, n, ok) \in [Flag -> BOOLEAN]
             /\ ObserveFlag(ready, n, ok)["persistence"] => ready["persistence"]
  <2>1. {"acks"} \in SUBSET Flag /\ "persistence" \in Flag \ {"acks"}
    BY Zenon DEF Flag
  <2> QED
    BY <1>1, <2>1, Flags, ZenonT(30) DEF ObserveFlag
<1>3. ASSUME NEW d, NEW field \in {"fil", "rel"}, AckDelivery(d, field)
      PROVE  HonestInv'
  <2>1. PICK o : /\ rec' = [rec EXCEPT ![field] = @ \ {d}, !.acks = Observe(@, o.ok)]
                 /\ ready' = ObserveFlag(ready, rec.acks, o.ok)
    BY <1>3, ZenonT(30) DEF AckDelivery
  <2>2. rec'.pc = rec.pc /\ rec'.failed = rec.failed
    BY <1>3, <2>1, ZenonT(30) DEF Consumer
  <2> QED
    BY <1>1, <1>2, <2>1, <2>2, ZenonT(30) DEF HonestInv
<1>4. CASE fetch_batch
  <2>1. CASE Leave("nats")
    BY <2>1, LeaveHonest, Zenon
  <2>2. CASE /\ \E T : rec' = [rec EXCEPT !.pc = "classify", !.todo = T]
             /\ ready' = SetFlags(ready, {"fetching", "consumer"}, TRUE)
    <3>1. {"fetching", "consumer"} \in SUBSET Flag /\ "persistence" \in Flag \ {"fetching", "consumer"}
      BY Zenon DEF Flag
    <3>2. ready' \in [Flag -> BOOLEAN] /\ (ready'["persistence"] => ready["persistence"])
      BY <1>1, <2>2, <3>1, Flags, ZenonT(30)
    <3>3. rec'.pc = "classify" /\ rec'.failed = rec.failed
      BY <2>2, Zenon DEF Consumer
    <3> QED
      BY <3>2, <3>3, Zenon DEF HonestInv
  <2> QED
    BY <1>4, <2>1, <2>2, ZenonT(30) DEF fetch_batch
<1>5. CASE acknowledge_filtered \/ AckRelevant
  BY <1>3, <1>5, Zenon DEF acknowledge_filtered, AckRelevant
<1>6. CASE persist_batch
  <2>1. {"postgres", "persistence"} \in SUBSET Flag
    BY Zenon DEF Flag
  <2>2. CASE /\ rec' = [rec EXCEPT !.pc = "ack", !.failed = FALSE]
             /\ ready' = SetFlags(ready, {"postgres", "persistence"}, TRUE)
    <3>1. rec'.pc = "ack" /\ ~rec'.failed
      BY <2>2, Zenon DEF Consumer
    <3>2. ready' \in [Flag -> BOOLEAN]
      BY <1>1, <2>1, <2>2, Flags, ZenonT(30)
    <3> QED
      BY <3>1, <3>2, Zenon DEF HonestInv
  <2>3. ASSUME NEW k,
               rec' = [rec EXCEPT !.failed = TRUE, !.acks = ProgressAcks(k)],
               ready' = ProgressFlag(SetFlags(ready, {"postgres", "persistence"}, FALSE), k)
        PROVE  HonestInv'
    <3> DEFINE r == SetFlags(ready, {"postgres", "persistence"}, FALSE)
    <3>1. rec'.pc = rec.pc
      BY <2>3, Zenon DEF Consumer
    <3>2. r \in [Flag -> BOOLEAN] /\ r["persistence"] = FALSE
      BY <1>1, <2>1, Flags, ZenonT(30)
    <3>3. ready' \in {r, SetFlags(r, {"acks"}, TRUE), SetFlags(r, {"acks"}, FALSE)}
      BY <2>3, Zenon DEF ProgressFlag
    <3>4. {"acks"} \in SUBSET Flag /\ "persistence" \in Flag \ {"acks"}
      BY Zenon DEF Flag
    <3>5. ready' \in [Flag -> BOOLEAN] /\ ~ready'["persistence"]
      <4> HIDE DEF r
      <4>1. CASE ready' = r
        BY <3>2, <4>1, Zenon
      <4>2. ASSUME NEW v \in BOOLEAN, ready' = SetFlags(r, {"acks"}, v)
            PROVE  ready' \in [Flag -> BOOLEAN] /\ ~ready'["persistence"]
        BY <3>2, <3>4, <4>2, Flags, ZenonT(30)
      <4> QED
        BY <3>3, <4>1, <4>2, Zenon
    <3> QED
      BY <1>1, <3>1, <3>5, Zenon DEF HonestInv
  <2> QED
    BY <1>6, <2>2, <2>3, ZenonT(30) DEF persist_batch
<1>7. CASE Classified \/ FilteredAcked
  <2>1. rec'.pc \in {"filtered", "fetch", "persist"} /\ rec'.failed = rec.failed /\ ready' = ready
    BY <1>7, Zenon DEF Classified, FilteredAcked, Consumer
  <2> QED
    BY <2>1, ZenonT(30) DEF HonestInv
<1>8. CASE BatchEnds
  <2>1. CASE rec.stop
    BY <1>8, <2>1, LeaveHonest, Zenon DEF BatchEnds
  <2>2. CASE ~rec.stop
    <3>1. rec'.pc = "fetch" /\ rec'.failed = rec.failed /\ ready' = ready
      BY <1>8, <2>2, Zenon DEF BatchEnds, Consumer
    <3> QED
      BY <3>1, Zenon DEF HonestInv
  <2> QED
    BY <2>1, <2>2, Zenon
<1>9. CASE Classify
  <2>1. PICK d \in rec.todo : ClassifyValid(d) \/ ClassifyMalformed(d)
    BY <1>9, ZenonT(30) DEF Classify
  <2>2. {"integrity"} \in SUBSET Flag /\ "persistence" \in Flag \ {"integrity"}
        /\ NatsFlags \cup {"fetching"} \in SUBSET Flag /\ "consumer" \in NatsFlags
    BY Zenon DEF Flag, NatsFlags
  <2>3. ASSUME NEW r \in [Flag -> BOOLEAN]
        PROVE  /\ SetFlags(r, {"integrity"}, FALSE) \in [Flag -> BOOLEAN]
               /\ SetFlags(r, {"integrity"}, FALSE)["persistence"] => r["persistence"]
    BY <2>2, Flags, ZenonT(30)
  <2>4. CASE ClassifyValid(d)
    <3>1. CASE /\ rec' = [Stopped EXCEPT !.pc = "ending", !.stop = TRUE]
               /\ ready' = SetFlags(SetFlags(ready, {"integrity"}, FALSE), NatsFlags \cup {"fetching"}, FALSE)
      <4>1. rec'.pc = "ending" /\ ~rec'.failed
        BY <3>1, Zenon DEF Stopped
      <4>2. PICK r \in [Flag -> BOOLEAN] : ready' = SetFlags(r, NatsFlags \cup {"fetching"}, FALSE)
        BY <1>1, <2>3, <3>1, ZenonT(30)
      <4>3. ready' \in [Flag -> BOOLEAN]
        BY <2>2, <4>2, Flags, Zenon
      <4>4. ready'["consumer"] = FALSE
        BY <2>2, <4>2, Flags, ZenonT(30)
      <4> QED
        BY <4>1, <4>3, <4>4, ZenonT(30) DEF HonestInv
    <3>2. CASE /\ \E T, R, F : rec' = [rec EXCEPT !.todo = T, !.rel = R, !.fil = F]
               /\ ready' = ready
      <4>1. rec'.pc = rec.pc /\ rec'.failed = rec.failed
        BY <3>2, Zenon DEF Consumer
      <4> QED
        BY <3>2, <4>1, Zenon DEF HonestInv
    <3> QED
      BY <2>4, <3>1, <3>2, ZenonT(30) DEF ClassifyValid
  <2>5. CASE ClassifyMalformed(d)
    <3>1. PICK o : /\ rec' = [rec EXCEPT !.todo = @ \ {d}, !.acks = Observe(@, o.ok)]
                   /\ \/ ready' = ObserveFlag(ready, rec.acks, o.ok)
                      \/ ready' = SetFlags(ObserveFlag(ready, rec.acks, o.ok), {"integrity"}, FALSE)
      BY <2>5, ZenonT(30) DEF ClassifyMalformed
    <3>2. rec'.pc = rec.pc /\ rec'.failed = rec.failed
      BY <3>1, Zenon DEF Consumer
    <3>3. ready' \in [Flag -> BOOLEAN] /\ (ready'["persistence"] => ready["persistence"])
      <4> DEFINE r == ObserveFlag(ready, rec.acks, o.ok)
      <4>1. r \in [Flag -> BOOLEAN] /\ (r["persistence"] => ready["persistence"])
        BY <1>2, Zenon
      <4> HIDE DEF r
      <4>2. CASE ready' = r
        BY <4>1, <4>2, Zenon
      <4>3. CASE ready' = SetFlags(r, {"integrity"}, FALSE)
        BY <2>3, <4>1, <4>3, ZenonT(30)
      <4> QED
        BY <3>1, <4>2, <4>3, ZenonT(30) DEF r
    <3> QED
      BY <1>1, <3>2, <3>3, ZenonT(30) DEF HonestInv
  <2> QED
    BY <2>1, <2>4, <2>5, ZenonT(30)
<1> QED
  BY <1>4, <1>5, <1>6, <1>7, <1>8, <1>9, Zenon


\* The monitor and the NATS callbacks set flags of their own; the others none.
LEMMA OthersHonest ==
    ASSUME HonestInv,
           \/ \E e \in Event : Ingest(e)
           \/ \E q \in DOMAIN feed.msg : AckWaitPasses(q)
           \/ FlushTake \/ FlushWrite \/ monitor_database \/ nats_event
    PROVE  HonestInv'
<1>1. ready \in [Flag -> BOOLEAN] /\ rec' = rec
  BY ZenonT(30) DEF HonestInv, Ingest, AckWaitPasses, FlushTake, FlushWrite, monitor_database, nats_event
<1>2. CASE ready' = ready
  BY <1>1, <1>2, Zenon DEF HonestInv
<1>3. CASE \E F \in SUBSET {"postgres", "schema", "jetstream", "fetching"}, v \in BOOLEAN : ready' = SetFlags(ready, F, v)
  <2>1. PICK F \in SUBSET {"postgres", "schema", "jetstream", "fetching"}, v \in BOOLEAN : ready' = SetFlags(ready, F, v)
    BY <1>3, Zenon
  <2>2. F \in SUBSET Flag /\ "persistence" \in Flag \ F /\ "consumer" \in Flag \ F /\ "alive" \in Flag \ F
    BY <2>1, Zenon DEF Flag
  <2>3. ready' \in [Flag -> BOOLEAN] /\ \A f \in {"persistence", "consumer", "alive"} : ready'[f] => ready[f]
    BY <1>1, <2>1, <2>2, Flags, SMTT(30)
  <2> QED
    BY <1>1, <2>3, HonestStays, Zenon
<1>4. monitor_database \/ nats_event =>
        \E F \in SUBSET {"postgres", "schema", "jetstream", "fetching"}, v \in BOOLEAN : ready' = SetFlags(ready, F, v)
  BY Zenon DEF monitor_database, nats_event
<1> QED
  BY <1>2, <1>3, <1>4, Zenon DEF Ingest, AckWaitPasses, FlushTake, FlushWrite

-----------------------------------------------------------------------------

LEMMA RecorderInit ==
    ASSUME Init
    PROVE  RecorderInv
<1> USE DEF Init
<1>1. feed = [msg |-> <<>>, recent |-> {}, ever |-> {}, last |-> 0] /\ DOMAIN feed.msg = {}
  BY SMTT(30) DEF EmptyStream
<1>2. Shape(feed)
  BY <1>1, SMTT(30) DEF Shape, StreamOK
<1>3. rec = [pc |-> "start", todo |-> {}, rel |-> {}, fil |-> {}, acks |-> 0, failed |-> FALSE, stop |-> FALSE]
  BY ZenonT(30) DEF Stopped
<1>4. Consumer(rec)
  <2>1. /\ rec.pc = "start" /\ rec.todo = {} /\ rec.rel = {} /\ rec.fil = {} /\ rec.acks = 0
        /\ rec.failed = FALSE /\ rec.stop = FALSE
    BY <1>3, SMTT(30)
  <2>2. rec.failed \in BOOLEAN /\ rec.stop \in BOOLEAN
    BY <2>1, ZenonT(30)
  <2> HIDE DEF Init
  <2>3. rec = [pc |-> rec.pc, todo |-> rec.todo, rel |-> rec.rel, fil |-> rec.fil, acks |-> rec.acks,
               failed |-> rec.failed, stop |-> rec.stop]
    BY <1>3, <2>1, Zenon
  <2> QED
    BY <2>1, <2>2, <2>3, Zenon DEF Consumer
<1>5. KeptInv
  BY <1>1, <1>2, <1>3, <1>4, SMTT(30) DEF KeptInv, AckedIsRecorded
<1>6. ready \in [Flag -> BOOLEAN]
  BY SMTT(30) DEF NewReadiness
<1>7. "consumer" \in Flag /\ "consumer" \notin {"alive", "persistence", "acks", "integrity"}
  BY Zenon DEF Flag
<1>8. ready["consumer"] = ("consumer" \in {"alive", "persistence", "acks", "integrity"})
  BY <1>7, Zenon DEF NewReadiness
<1>9. HonestInv
  BY <1>3, <1>6, <1>7, <1>8, SMTT(30) DEF HonestInv
<1> QED
  BY <1>5, <1>9, Zenon DEF RecorderInv

LEMMA RecorderStep ==
    ASSUME RecorderInv, [Next]_vars
    PROVE  RecorderInv'
<1>1. KeptInv /\ HonestInv /\ Consumer(rec)
  BY ZenonT(30) DEF RecorderInv, KeptInv
<1>2. CASE UNCHANGED vars
  BY <1>1, <1>2, Zenon DEF vars, RecorderInv, KeptInv, HonestInv, AckedIsRecorded, Relevant, Shape, StreamOK, Traced, Consumer,
                    Queued
<1>3. CASE \/ \E e \in Event : Ingest(e)
           \/ \E q \in DOMAIN feed.msg : AckWaitPasses(q)
           \/ FlushTake \/ FlushWrite \/ monitor_database \/ nats_event
  BY <1>1, <1>3, OthersKeep, OthersHonest, Zenon DEF RecorderInv
<1>4. CASE connect_postgres_until_ready \/ ensure_durable_pipeline \/ SeesStop \/ ProcessEnds \/ Restart \/ Crash \/ Signal
  BY <1>1, <1>4, MovesKeep, LifeHonest, Zenon DEF RecorderInv
<1>5. CASE Classified \/ FilteredAcked \/ BatchEnds
  BY <1>1, <1>5, MovesKeep, LoopHonest, Zenon DEF RecorderInv
<1>6. CASE fetch_batch
  BY <1>1, <1>6, FetchKeeps, LoopHonest, Zenon DEF RecorderInv
<1>7. CASE Classify
  BY <1>1, <1>7, ClassifyKeeps, LoopHonest, Zenon DEF RecorderInv
<1>8. CASE acknowledge_filtered \/ AckRelevant
  BY <1>1, <1>8, AckKeeps, LoopHonest, Zenon DEF RecorderInv
<1>9. CASE persist_batch
  BY <1>1, <1>9, PersistKeeps, LoopHonest, Zenon DEF RecorderInv
<1> QED
  BY <1>2, <1>3, <1>4, <1>5, <1>6, <1>7, <1>8, <1>9, Zenon DEF Next, ConsumerStep

\* The inductive invariant of the recorder.
THEOREM RecorderInvariance == Spec => []RecorderInv
<1>1. Init => RecorderInv
  BY RecorderInit, Zenon
<1>2. RecorderInv /\ [Next]_vars => RecorderInv'
  BY RecorderStep, Zenon
<1> QED
  BY <1>1, <1>2, PTL DEF Spec

\* A relevant message that has left PHOENIX_FEED_TX is in the database with
\* its outbox row, whatever crashed, expired, was delivered twice or was
\* committed without a confirmation.
THEOREM NothingLost == Spec => []AckedIsRecorded
<1>1. RecorderInv => AckedIsRecorded
  BY ZenonT(30) DEF RecorderInv, KeptInv
<1> QED
  BY <1>1, RecorderInvariance, PTL

\* /readyz says ready only inside the consumer loop and never while a batch
\* waits for its failed transaction: no ping, callback or reconnection sets a
\* flag another loss has cleared.
THEOREM RecorderHonest == Spec => []ReadyIsHonest
<1>1. RecorderInv => ReadyIsHonest
  <2> SUFFICES ASSUME RecorderInv, Ready PROVE ~rec.failed /\ rec.pc \in {"fetch", "classify", "filtered", "persist", "ack"}
    BY Zenon DEF ReadyIsHonest
  <2>1. ready["persistence"] /\ ready["consumer"] /\ ready["alive"]
    BY ZenonT(30) DEF Ready, Flag
  <2> QED
    BY <2>1, ZenonT(30) DEF RecorderInv, HonestInv, KeptInv, Consumer
<1> QED
  BY <1>1, RecorderInvariance, PTL

\* The recorder's variables keep their types.
THEOREM RecorderTypes == Spec => []TypeOK
<1>1. RecorderInv => TypeOK
  BY Zenon DEF RecorderInv, KeptInv, HonestInv, Consumer, Shape, TypeOK
<1> QED
  BY <1>1, RecorderInvariance, PTL
=============================================================================
