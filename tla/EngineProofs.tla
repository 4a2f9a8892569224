---------------------------- MODULE EngineProofs ----------------------------
(*************************************************************************)
(* The engine's delivery loop for any number of engines that share the   *)
(* consumer, any events, routes and batch size, and any number of        *)
(* faults, crashes, copies and late acknowledgements: what leaves the    *)
(* stream is classified, a final classification stays, a generated       *)
(* candidate is in its table, and an event is decided once.              *)
(*************************************************************************)
EXTENDS EngineRuntime, TLAPS

Message == [id : Event, n : Nat, held : BOOLEAN]
Delivery == [q : Nat, ev : Event, n : Nat]
Busy == {"lookup", "evaluate", "materialize", "context", "persist", "ack"}

\* A stream as JetStream keeps it: sequence numbers up to the last one given.
Shape(s) ==
    /\ s = [msg |-> s.msg, recent |-> s.recent, ever |-> s.ever, last |-> s.last]
    /\ s.last \in Nat
    /\ s.msg \in [DOMAIN s.msg -> Message]
    /\ StreamOK(s, Event)

\* A sequence number names the same event for ever, and of the events that
\* are stored none but those of X leaves the queue.
Evolves(s, t, X) ==
    /\ Shape(t)
    /\ s.last <= t.last
    /\ \A q \in DOMAIN t.msg : q <= s.last => q \in DOMAIN s.msg /\ t.msg[q].id = s.msg[q].id
    /\ \A e \in t.ever : Queued(t, e) \/ e \in X \/ (e \in s.ever /\ ~Queued(s, e))

\* A delivery still carries the event of its sequence number.
Traced(s, d) == d.q <= s.last /\ (d.q \in DOMAIN s.msg => s.msg[d.q].id = d.ev)

\* A result that may be persisted for event e: decisions come with a rejected
\* candidate, or in autonomous mode with one whose row is in C.
Persistable(e, r, C) ==
    /\ r.cls \in Classification
    /\ r.evals # {} => r.cls = "candidate_rejected" \/ (Autonomous /\ r.cls = "candidate_generated")
    /\ r.cls = "candidate_generated" => \E c \in C : c.ev = e

\* What an engine relies on at its place in process_delivery, whatever the
\* others commit meanwhile: stream s, classifications k and candidates C.
Fit(r, s, k, C) ==
    /\ r = [pc |-> r.pc, batch |-> r.batch, cur |-> r.cur, res |-> r.res, ready |-> r.ready]
    /\ r.res = [cls |-> r.res.cls, act |-> r.res.act, evals |-> r.res.evals]
    /\ \A d \in r.batch : d \in Delivery /\ Traced(s, d)
    /\ r.pc \in Busy => r.cur \in Delivery /\ Traced(s, r.cur)
    /\ r.pc = "materialize" => Autonomous /\ r.res.cls = "candidate_rejected" /\ r.res.act = "Ack"
    /\ r.pc = "persist" => Persistable(r.cur.ev, r.res, C)
    /\ r.pc = "ack" => k[r.cur.ev] # "unclassified"

\* Without an autonomous hunter an event that has decisions is final.
DecidedIsFinal == ~Autonomous => \A e \in Event, rt \in Route : <<e, rt>> \in decisions => is_final(cls[e])

EngineInv ==
    /\ Shape(stream)
    /\ cls \in [Event -> Classification \cup {"unclassified"}]
    /\ eng = [g \in Engine |-> eng[g]]
    /\ \A g \in Engine : Fit(eng[g], stream, cls, cands)
    /\ RemovedIsClassified
    /\ GeneratedHasCandidate
    /\ DecidedIsFinal

-----------------------------------------------------------------------------
(* The stream.                                                             *)

\* A step that only changes how messages are held.
LEMMA MarkEvolves ==
    ASSUME NEW s, NEW t, Shape(s), NEW m, t = [s EXCEPT !.msg = m], m \in [DOMAIN s.msg -> Message],
           \A q \in DOMAIN s.msg : m[q].id = s.msg[q].id
    PROVE  Evolves(s, t, {})
<1>1. t = [msg |-> m, recent |-> s.recent, ever |-> s.ever, last |-> s.last] /\ DOMAIN m = DOMAIN s.msg
  BY Zenon DEF Shape
<1>2. Shape(t)
  BY <1>1, Zenon DEF Shape, StreamOK
<1>3. \A e : Queued(s, e) => Queued(t, e)
  BY <1>1, Zenon DEF Queued
<1> QED
  BY <1>1, <1>2, <1>3, SMTT(30) DEF Evolves, Shape

LEMMA StayEvolves ==
    ASSUME NEW s, Shape(s)
    PROVE  Evolves(s, s, {})
BY DEF Evolves, Shape

LEMMA DeliverEvolves ==
    ASSUME NEW s, Shape(s), NEW Q
    PROVE  Evolves(s, DeliverFrom(s, Q), {})
<1> DEFINE m == [q \in DOMAIN s.msg |->
                    IF q \in Q THEN [id |-> s.msg[q].id, n |-> s.msg[q].n + 1, held |-> TRUE] ELSE s.msg[q]]
<1>1. DeliverFrom(s, Q) = [s EXCEPT !.msg = m]
  BY Zenon DEF DeliverFrom, Shape
<1>2. ASSUME NEW q \in DOMAIN s.msg
      PROVE  m[q] \in Message /\ m[q].id = s.msg[q].id
  BY <1>2, SMTT(30) DEF Shape, Message
<1> HIDE DEF m
<1>3. m \in [DOMAIN s.msg -> Message]
  BY <1>2, Zenon DEF m
<1> QED
  BY <1>1, <1>2, <1>3, MarkEvolves, Zenon

LEMMA ReturnEvolves ==
    ASSUME NEW s, Shape(s), NEW q
    PROVE  Evolves(s, ReturnTo(s, q), {})
<1>1. CASE q \notin DOMAIN s.msg
  BY <1>1, StayEvolves, Zenon DEF ReturnTo
<1>2. CASE q \in DOMAIN s.msg
  <2> DEFINE m == [s.msg EXCEPT ![q].held = FALSE]
  <2>1. ReturnTo(s, q) = [s EXCEPT !.msg = m]
    BY <1>2, Zenon DEF ReturnTo, Shape
  <2>2. m \in [DOMAIN s.msg -> Message] /\ \A k \in DOMAIN s.msg : m[k].id = s.msg[k].id
    BY <1>2, Zenon DEF Shape, Message
  <2> HIDE DEF m
  <2> QED
    BY <2>1, <2>2, MarkEvolves, Zenon
<1> QED
  BY <1>1, <1>2, Zenon

\* Of a message the queue forgets, the event is all that can be lost.
LEMMA RemoveEvolves ==
    ASSUME NEW s, Shape(s), NEW q, NEW e, q \in DOMAIN s.msg => s.msg[q].id = e
    PROVE  Evolves(s, RemoveFrom(s, q), {e})
<1> DEFINE m == [k \in DOMAIN s.msg \ {q} |-> s.msg[k]]
           t == RemoveFrom(s, q)
<1>1. t = [msg |-> m, recent |-> s.recent, ever |-> s.ever, last |-> s.last]
  BY SMTT(30) DEF RemoveFrom, Shape
<1>2. DOMAIN m \subseteq DOMAIN s.msg /\ \A k \in DOMAIN s.msg : k \in DOMAIN m \/ k = q
  BY Zenon
<1>3. m \in [DOMAIN m -> Message] /\ \A k \in DOMAIN m : m[k] = s.msg[k]
  BY Zenon DEF Shape
<1> HIDE DEF m, t
<1>4. Shape(t)
  BY <1>1, <1>2, <1>3, Zenon DEF Shape, StreamOK
<1>5. \A x : Queued(s, x) => Queued(t, x) \/ x = e
  BY <1>1, <1>2, <1>3, Zenon DEF Queued
<1> QED
  BY <1>1, <1>2, <1>3, <1>4, <1>5, SMTT(30) DEF Evolves, Shape, t


\* A publication stores the event under the next number, or finds it inside
\* the duplicate window.
LEMMA PublishEvolves ==
    ASSUME NEW s, Shape(s), NEW e \in Event
    PROVE  Evolves(s, PublishTo(s, e), {})
<1> DEFINE t == PublishTo(s, e)
           m == [q \in DOMAIN s.msg \cup {s.last + 1} |->
                   IF q \in DOMAIN s.msg THEN s.msg[q] ELSE [id |-> e, n |-> 0, held |-> FALSE]]
<1>1. CASE e \in s.recent
  BY <1>1, StayEvolves, Zenon DEF PublishTo
<1>2. CASE e \notin s.recent
  <2>1. t = [msg |-> m, recent |-> s.recent \cup {e}, ever |-> s.ever \cup {e}, last |-> s.last + 1]
    BY <1>2, Zenon DEF PublishTo
  <2>2. /\ DOMAIN m = DOMAIN s.msg \cup {s.last + 1} /\ s.last + 1 \notin DOMAIN s.msg
        /\ \A q \in DOMAIN s.msg : m[q] = s.msg[q]
        /\ m[s.last + 1] = [id |-> e, n |-> 0, held |-> FALSE]
    BY SMTT(30) DEF Shape, StreamOK
  <2>3. m \in [DOMAIN m -> Message]
    BY Zenon DEF Shape, Message
  <2> HIDE DEF m, t
  <2>4. Shape(t)
    BY <2>1, <2>2, <2>3, SMTT(30) DEF Shape, StreamOK
  <2>5. \A x : (Queued(s, x) => Queued(t, x)) /\ Queued(t, e)
    BY <2>1, <2>2, SMTT(30) DEF Queued
  <2>6. s.last <= t.last /\ \A q \in DOMAIN t.msg : q <= s.last => q \in DOMAIN s.msg /\ t.msg[q].id = s.msg[q].id
    BY <2>1, <2>2, SMTT(30) DEF Shape
  <2>7. \A x \in t.ever : x \in s.ever \/ x = e
    BY <2>1, Zenon
  <2> QED
    BY <2>4, <2>5, <2>6, <2>7, Zenon DEF Evolves, t
<1> QED
  BY <1>1, <1>2, Zenon

LEMMA ForgetEvolves ==
    ASSUME NEW s, Shape(s), NEW e \in Event
    PROVE  Evolves(s, PublishTo(ForgetId(s, e), e), {})
<1> DEFINE f == ForgetId(s, e)
<1>1. f = [msg |-> s.msg, recent |-> s.recent \ {e}, ever |-> s.ever, last |-> s.last]
  BY SMTT(30) DEF ForgetId, Shape
<1>2. Shape(f)
  BY <1>1, SMTT(30) DEF Shape, StreamOK
<1>3. Evolves(f, PublishTo(f, e), {})
  BY <1>2, PublishEvolves, Zenon
<1>4. f.last = s.last /\ f.msg = s.msg /\ f.ever = s.ever
  BY <1>1, SMTT(30)
<1> HIDE DEF f
<1>5. \A x : Queued(f, x) = Queued(s, x)
  BY <1>4, Zenon DEF Queued
<1>6. Evolves(s, PublishTo(f, e), {})
  BY <1>3, <1>4, <1>5, Zenon DEF Evolves
<1> QED
  BY <1>6, Zenon DEF f

\* Whether its reply is lost or not, an acknowledgement happened or did not.
LEMMA AckEvolves ==
    ASSUME NEW s, Shape(s), NEW q, NEW t, NEW X, Evolves(s, t, X), NEW o \in AckOutcome(s, q, t)
    PROVE  Evolves(s, o.stream, X)
<1>1. o.stream = s \/ o.stream = t
  BY SMTT(30) DEF AckOutcome
<1>2. Evolves(s, s, X)
  BY StayEvolves, Zenon DEF Evolves
<1> QED
  BY <1>1, <1>2, Zenon

LEMMA TracedStays ==
    ASSUME NEW s, Shape(s), NEW t, NEW X, Evolves(s, t, X), NEW d \in Delivery, Traced(s, d)
    PROVE  Traced(t, d)
BY DEF Traced, Evolves, Shape, Delivery

-----------------------------------------------------------------------------
(* What one engine relies on while the others move.                        *)

\* The stream evolves, classifications are replaced, candidates are added.
LEMMA FitStays ==
    ASSUME NEW r, NEW s, NEW t, NEW k, NEW l, NEW C, NEW D, NEW X, Shape(s), Evolves(s, t, X), C \subseteq D,
           \A e \in Event : k[e] # "unclassified" => l[e] # "unclassified", Fit(r, s, k, C)
    PROVE  Fit(r, t, l, D)
<1>1. \A d \in Delivery : Traced(s, d) => Traced(t, d)
  BY TracedStays, Zenon
<1>2. Persistable(r.cur.ev, r.res, C) => Persistable(r.cur.ev, r.res, D)
  BY Zenon DEF Persistable
<1>3. r.pc = "ack" => l[r.cur.ev] # "unclassified"
  BY Zenon DEF Fit, Busy, Delivery
<1> QED
  BY <1>1, <1>2, <1>3, Zenon DEF Fit

\* Nothing but engine g moves, and it is given record r.
Moved(g, r) == eng' = [h \in Engine |-> IF h = g THEN r ELSE eng[h]]

LEMMA MovesTo ==
    ASSUME EngineInv, NEW g \in Engine, NEW r, eng' = [eng EXCEPT ![g] = r]
    PROVE  Moved(g, r)
BY DEF Moved, EngineInv

\* A step of engine g that ends where it may rely on what it relies on.
LEMMA EngineKeeps ==
    ASSUME EngineInv, NEW X, Evolves(stream, stream', X), cands \subseteq cands',
           cls' \in [Event -> Classification \cup {"unclassified"}],
           \A e \in Event : cls[e] # "unclassified" => cls'[e] # "unclassified",
           termed \subseteq termed', \A e \in X : cls'[e] # "unclassified" \/ e \in termed',
           GeneratedHasCandidate', DecidedIsFinal',
           NEW g \in Engine, NEW r, Moved(g, r), Fit(r, stream', cls', cands')
    PROVE  EngineInv'
<1>1. Shape(stream)'
  BY Zenon DEF Evolves, Shape, StreamOK
<1>2. eng' = [h \in Engine |-> eng'[h]]
  BY Zenon DEF Moved
<1>3. \A h \in Engine : Fit(eng[h], stream', cls', cands')
  BY FitStays, Zenon DEF EngineInv
<1>4. \A h \in Engine : Fit(eng'[h], stream', cls', cands')
  BY <1>3, Zenon DEF Moved
<1>5. \A h \in Engine : Fit(eng[h], stream, cls, cands)'
  BY <1>4, Zenon DEF Fit, Traced, Persistable
<1>6. RemovedIsClassified'
  <2>1. \A e \in stream'.ever : e \in Event
    BY Zenon DEF Evolves, Shape, StreamOK
  <2> QED
    BY <2>1, Zenon DEF EngineInv, RemovedIsClassified, Evolves, Queued
<1> QED
  BY <1>1, <1>2, <1>5, <1>6, Zenon DEF EngineInv

\* A step that commits no classification.
LEMMA EngineMoves ==
    ASSUME EngineInv, NEW X, Evolves(stream, stream', X), cands \subseteq cands', UNCHANGED rows,
           termed \subseteq termed', \A e \in X : cls[e] # "unclassified" \/ e \in termed',
           NEW g \in Engine, NEW r, Moved(g, r), Fit(r, stream', cls, cands')
    PROVE  EngineInv'
<1>1. GeneratedHasCandidate' /\ DecidedIsFinal'
  BY Zenon DEF EngineInv, GeneratedHasCandidate, DecidedIsFinal, rows, is_final
<1>2. cls' = cls /\ cls \in [Event -> Classification \cup {"unclassified"}]
  BY Zenon DEF rows, EngineInv
<1> QED
  BY <1>1, <1>2, EngineKeeps, Zenon

\* A step of the engine alone.
LEMMA EngineGoes ==
    ASSUME EngineInv, UNCHANGED <<stream, rows, cands, termed>>,
           NEW g \in Engine, NEW r, Moved(g, r), Fit(r, stream, cls, cands)
    PROVE  EngineInv'
<1>1. Evolves(stream, stream', {}) /\ cands' = cands /\ termed' = termed
  BY StayEvolves, Zenon DEF EngineInv
<1>2. Fit(r, stream', cls, cands')
  BY Zenon
<1> QED
  BY <1>1, <1>2, EngineMoves, SMTT(30)

-----------------------------------------------------------------------------
(* An engine's record, field by field.                                     *)

Fields(r, pc, batch, cur, res, ready) ==
    /\ r = [pc |-> pc, batch |-> batch, cur |-> cur, res |-> res, ready |-> ready]
    /\ r.pc = pc /\ r.batch = batch /\ r.cur = cur /\ r.res = res /\ r.ready = ready

LEMMA SetPc ==
    ASSUME NEW r, NEW pc, NEW batch, NEW cur, NEW res, NEW ready, Fields(r, pc, batch, cur, res, ready), NEW x
    PROVE  Fields([r EXCEPT !.pc = x], x, batch, cur, res, ready)
<1>1. [r EXCEPT !.pc = x] = [pc |-> x, batch |-> batch, cur |-> cur, res |-> res, ready |-> ready]
  BY SMTT(30) DEF Fields
<1> QED
  BY <1>1, Zenon DEF Fields

LEMMA SetBatch ==
    ASSUME NEW r, NEW pc, NEW batch, NEW cur, NEW res, NEW ready, Fields(r, pc, batch, cur, res, ready), NEW x
    PROVE  Fields([r EXCEPT !.batch = x], pc, x, cur, res, ready)
<1>1. [r EXCEPT !.batch = x] = [pc |-> pc, batch |-> x, cur |-> cur, res |-> res, ready |-> ready]
  BY SMTT(30) DEF Fields
<1> QED
  BY <1>1, Zenon DEF Fields

LEMMA SetCur ==
    ASSUME NEW r, NEW pc, NEW batch, NEW cur, NEW res, NEW ready, Fields(r, pc, batch, cur, res, ready), NEW x
    PROVE  Fields([r EXCEPT !.cur = x], pc, batch, x, res, ready)
<1>1. [r EXCEPT !.cur = x] = [pc |-> pc, batch |-> batch, cur |-> x, res |-> res, ready |-> ready]
  BY SMTT(30) DEF Fields
<1> QED
  BY <1>1, Zenon DEF Fields

LEMMA SetRes ==
    ASSUME NEW r, NEW pc, NEW batch, NEW cur, NEW res, NEW ready, Fields(r, pc, batch, cur, res, ready), NEW x
    PROVE  Fields([r EXCEPT !.res = x], pc, batch, cur, x, ready)
<1>1. [r EXCEPT !.res = x] = [pc |-> pc, batch |-> batch, cur |-> cur, res |-> x, ready |-> ready]
  BY SMTT(30) DEF Fields
<1> QED
  BY <1>1, Zenon DEF Fields

LEMMA SetReady ==
    ASSUME NEW r, NEW pc, NEW batch, NEW cur, NEW res, NEW ready, Fields(r, pc, batch, cur, res, ready), NEW x
    PROVE  Fields([r EXCEPT !.ready = x], pc, batch, cur, res, x)
<1>1. [r EXCEPT !.ready = x] = [pc |-> pc, batch |-> batch, cur |-> cur, res |-> res, ready |-> x]
  BY SMTT(30) DEF Fields
<1> QED
  BY <1>1, Zenon DEF Fields

LEMMA FitFields ==
    ASSUME NEW r, NEW s, NEW k, NEW C, Fit(r, s, k, C)
    PROVE  Fields(r, r.pc, r.batch, r.cur, r.res, r.ready)
BY DEF Fit, Fields

\* An engine outside process_delivery relies on nothing.
LEMMA RestFit ==
    ASSUME NEW to, to \notin Busy, NEW F, NEW s, NEW k, NEW C
    PROVE  Fit([Stopped EXCEPT !.pc = to, !.ready = F], s, k, C)
<1> DEFINE p == [Stopped EXCEPT !.pc = to]
           r == [p EXCEPT !.ready = F]
<1>1. Fields(Stopped, "down", {}, NoDelivery, NoResult, {})
  BY Zenon DEF Stopped, Fields
<1>2. Fields(p, to, {}, NoDelivery, NoResult, {})
  BY <1>1, SetPc, Zenon
<1> HIDE DEF p
<1>3. Fields(r, to, {}, NoDelivery, NoResult, F)
  BY <1>2, SetReady, Zenon
<1> HIDE DEF r
<1>4. NoResult = [cls |-> NoResult.cls, act |-> NoResult.act, evals |-> NoResult.evals]
  BY Zenon DEF NoResult, Result
<1>5. Fit(r, s, k, C)
  BY <1>3, <1>4, Zenon DEF Fit, Busy, Fields
<1>6. r = [Stopped EXCEPT !.pc = to, !.ready = F]
  BY Zenon DEF r, p
<1> QED
  BY <1>5, <1>6, Zenon

LEMMA StoppedFit ==
    ASSUME NEW s, NEW k, NEW C
    PROVE  Fit(Stopped, s, k, C)
<1>1. Fields(Stopped, "down", {}, NoDelivery, NoResult, {})
  BY Zenon DEF Stopped, Fields
<1>2. NoResult = [cls |-> NoResult.cls, act |-> NoResult.act, evals |-> NoResult.evals]
  BY Zenon DEF NoResult, Result
<1> QED
  BY <1>1, <1>2, Zenon DEF Fit, Busy, Fields

LEMMA LeaveMoves ==
    ASSUME EngineInv, NEW g \in Engine, NEW s, NEW k, NEW C,
           \/ Exit(g)
           \/ \E to \in {"nats", "recover"} : \E F : Leave(g, to, F)
    PROVE  \E r : Moved(g, r) /\ Fit(r, s, k, C)
<1>1. CASE Exit(g)
  <2>1. Moved(g, Stopped)
    BY <1>1, MovesTo, ZenonT(30) DEF Exit
  <2>2. Fit(Stopped, s, k, C)
    BY StoppedFit, Zenon
  <2> QED
    BY <2>1, <2>2, Zenon
<1>2. ASSUME NEW to \in {"nats", "recover"}, NEW F, Leave(g, to, F)
      PROVE  \E r : Moved(g, r) /\ Fit(r, s, k, C)
  <2> DEFINE r == [Stopped EXCEPT !.pc = to, !.ready = Lose(F, "nats")]
  <2>1. Moved(g, r)
    BY <1>2, MovesTo, Zenon DEF Leave
  <2>2. Fit(r, s, k, C)
    BY RestFit, Zenon DEF Busy
  <2> QED
    BY <2>1, <2>2, Zenon
<1> QED
  BY <1>1, <1>2, Zenon

\* A step that only changes readiness and the place outside process_delivery.
LEMMA PlaceFit ==
    ASSUME NEW r, NEW to, NEW F, NEW s, NEW k, NEW C, Fit(r, s, k, C), to \notin Busy \/ to = r.pc
    PROVE  Fit([r EXCEPT !.pc = to, !.ready = F], s, k, C)
<1> DEFINE p == [r EXCEPT !.pc = to]
           n == [p EXCEPT !.ready = F]
<1>1. Fields(p, to, r.batch, r.cur, r.res, r.ready)
  BY FitFields, SetPc, Zenon
<1> HIDE DEF p
<1>2. Fields(n, to, r.batch, r.cur, r.res, F)
  BY <1>1, SetReady, Zenon
<1> HIDE DEF n
<1>3. Fit(n, s, k, C)
  BY <1>2, Zenon DEF Fit, Busy, Fields
<1>4. n = [r EXCEPT !.pc = to, !.ready = F]
  BY Zenon DEF n, p
<1> QED
  BY <1>3, <1>4, Zenon

\* Connections and monitors.
LEMMA ConnectKeeps ==
    ASSUME EngineInv, NEW g \in Engine,
           connect_postgres(g) \/ connect_nats(g) \/ monitor_database(g) \/ monitor_rpc_gateway(g)
    PROVE  EngineInv'
<1>1. UNCHANGED <<stream, rows, cands, termed>>
  BY Zenon DEF connect_postgres, connect_nats, monitor_database, monitor_rpc_gateway
<1>2. Fit(eng[g], stream, cls, cands)
  BY Zenon DEF EngineInv
<1>3. \E to, F : eng' = [eng EXCEPT ![g].pc = to, ![g].ready = F] /\ (to \notin Busy \/ to = eng[g].pc)
  <2>1. \A F : [eng EXCEPT ![g].ready = F] = [eng EXCEPT ![g].pc = eng[g].pc, ![g].ready = F]
    BY <1>2, Zenon DEF EngineInv, Fit
  <2>2. "nats" \notin Busy /\ "fetch" \notin Busy
    BY Zenon DEF Busy
  <2> QED
    BY <2>1, <2>2, ZenonT(30) DEF connect_postgres, connect_nats, monitor_database, monitor_rpc_gateway
<1>4. PICK to, F : eng' = [eng EXCEPT ![g].pc = to, ![g].ready = F] /\ (to \notin Busy \/ to = eng[g].pc)
  BY <1>3, Zenon
<1>5. eng' = [eng EXCEPT ![g] = [eng[g] EXCEPT !.pc = to, !.ready = F]]
  BY <1>4, ZenonT(30) DEF EngineInv
<1> QED
  BY <1>1, <1>2, <1>4, <1>5, MovesTo, PlaceFit, EngineGoes, ZenonT(30)


-----------------------------------------------------------------------------
(* The engine's actions.                                                   *)

\* fetch_batch: what is delivered carries the event of its sequence number.
LEMMA FetchKeeps ==
    ASSUME EngineInv, NEW g \in Engine, fetch_batch(g)
    PROVE  EngineInv'
<1>1. UNCHANGED <<rows, cands, termed>> /\ eng[g].pc = "fetch"
  BY Zenon DEF fetch_batch
<1>2. ASSUME NEW Q \in SUBSET Deliverable(stream, MaxDeliver), stream' = DeliverFrom(stream, Q),
             eng' = [eng EXCEPT ![g].batch = {[q |-> q, ev |-> stream.msg[q].id, n |-> stream.msg[q].n + 1] : q \in Q},
                                ![g].ready = @ \cup {"fetching"}]
      PROVE  EngineInv'
  <2> DEFINE B == {[q |-> q, ev |-> stream.msg[q].id, n |-> stream.msg[q].n + 1] : q \in Q}
             R == eng[g].ready \cup {"fetching"}
             p == [eng[g] EXCEPT !.batch = B]
             r == [p EXCEPT !.ready = R]
  <2>1. Evolves(stream, stream', {}) /\ Shape(stream)
    BY <1>2, DeliverEvolves, Zenon DEF EngineInv
  <2>2. ASSUME NEW q \in Q
        PROVE  q \in Nat /\ q \in DOMAIN stream.msg /\ stream.msg[q].id \in Event /\ stream.msg[q].n \in Nat /\ q <= stream.last
    <3>1. q \in DOMAIN stream.msg
      BY <2>2, Zenon DEF Deliverable
    <3> QED
      BY <2>1, <3>1, SMTT(30) DEF Shape, StreamOK, Message
  <2>3. \A d \in B : d \in Delivery /\ Traced(stream, d)
    BY <2>2, SMTT(30) DEF Delivery, Traced
  <2>4. \A d \in B : d \in Delivery /\ Traced(stream', d)
    BY <2>1, <2>3, TracedStays, Zenon
  <2>5. eng' = [eng EXCEPT ![g] = r]
    BY <1>2, Zenon DEF EngineInv
  <2> HIDE DEF B, R
  <2>6. Fit(eng[g], stream, cls, cands)
    BY Zenon DEF EngineInv
  <2>7. Fields(p, "fetch", B, eng[g].cur, eng[g].res, eng[g].ready)
    BY <1>1, <2>6, FitFields, SetBatch, Zenon
  <2> HIDE DEF p
  <2>8. Fields(r, "fetch", B, eng[g].cur, eng[g].res, R)
    BY <2>7, SetReady, Zenon
  <2> HIDE DEF r
  <2>9. Fit(r, stream', cls, cands')
    BY <2>4, <2>6, <2>8, Zenon DEF Fit, Fields, Busy
  <2>10. Moved(g, r)
    BY <2>5, MovesTo, ZenonT(30)
  <2>11. cands \subseteq cands' /\ termed \subseteq termed' /\ UNCHANGED rows
    BY <1>1, Zenon
  <2> QED
    BY <2>1, <2>9, <2>10, <2>11, EngineMoves, SMTT(30)
<1>3. ASSUME UNCHANGED stream, Leave(g, "nats", eng[g].ready)
      PROVE  EngineInv'
  <2>1. \E r : Moved(g, r) /\ Fit(r, stream, cls, cands)
    BY <1>3, LeaveMoves, Zenon
  <2> QED
    BY <1>1, <1>3, <2>1, EngineGoes, Zenon
<1> QED
  BY <1>2, <1>3, Zenon DEF fetch_batch

\* consume_engine_messages takes the next delivery of its batch.
LEMMA TakeKeeps ==
    ASSUME EngineInv, NEW g \in Engine, TakeDelivery(g)
    PROVE  EngineInv'
<1>1. UNCHANGED <<stream, rows, cands, termed>>
  BY Zenon DEF TakeDelivery
<1>2. PICK d \in eng[g].batch : eng' = [eng EXCEPT ![g].batch = @ \ {d}, ![g].cur = d, ![g].pc = "lookup"]
  BY Zenon DEF TakeDelivery
<1> DEFINE B == eng[g].batch \ {d}
           p == [eng[g] EXCEPT !.batch = B]
           c == [p EXCEPT !.cur = d]
           r == [c EXCEPT !.pc = "lookup"]
<1>3. eng' = [eng EXCEPT ![g] = r]
  BY <1>2, Zenon DEF EngineInv
<1>4. Fit(eng[g], stream, cls, cands)
  BY Zenon DEF EngineInv
<1>5. Fields(p, eng[g].pc, B, eng[g].cur, eng[g].res, eng[g].ready)
  BY <1>4, FitFields, SetBatch, Zenon
<1> HIDE DEF p
<1>6. Fields(c, eng[g].pc, B, d, eng[g].res, eng[g].ready)
  BY <1>5, SetCur, Zenon
<1> HIDE DEF c
<1>7. Fields(r, "lookup", B, d, eng[g].res, eng[g].ready)
  BY <1>6, SetPc, Zenon
<1> HIDE DEF r
<1>8. Fit(r, stream, cls, cands)
  BY <1>4, <1>7, Zenon DEF Fit, Fields
<1> QED
  BY <1>1, <1>3, <1>8, MovesTo, EngineGoes, Zenon

\* Another place in process_delivery, with another result.
LEMMA NextFit ==
    ASSUME NEW r, NEW s, NEW k, NEW C, Fit(r, s, k, C), NEW x, NEW y, r.pc \in Busy,
           y = [cls |-> y.cls, act |-> y.act, evals |-> y.evals],
           x = "materialize" => Autonomous /\ y.cls = "candidate_rejected" /\ y.act = "Ack",
           x = "persist" => Persistable(r.cur.ev, y, C),
           x = "ack" => k[r.cur.ev] # "unclassified"
    PROVE  Fit([r EXCEPT !.pc = x, !.res = y], s, k, C)
<1> DEFINE p == [r EXCEPT !.pc = x]
           n == [p EXCEPT !.res = y]
<1>1. Fields(p, x, r.batch, r.cur, r.res, r.ready)
  BY FitFields, SetPc, Zenon
<1> HIDE DEF p
<1>2. Fields(n, x, r.batch, r.cur, y, r.ready)
  BY <1>1, SetRes, Zenon
<1> HIDE DEF n
<1>3. Fit(n, s, k, C)
  BY <1>2, Zenon DEF Fit, Fields
<1>4. n = [r EXCEPT !.pc = x, !.res = y]
  BY Zenon DEF n, p
<1> QED
  BY <1>3, <1>4, Zenon


\* handle_store_failure on a lost connection: the delivery is left alone.
LEMMA StoreFailedKeeps ==
    ASSUME EngineInv, NEW g \in Engine, StoreFailed(g), UNCHANGED <<rows, cands>>
    PROVE  EngineInv'
<1>1. UNCHANGED <<stream, rows, cands, termed>>
  BY Zenon DEF StoreFailed
<1>2. \E r : Moved(g, r) /\ Fit(r, stream, cls, cands)
  BY LeaveMoves, Zenon DEF StoreFailed
<1> QED
  BY <1>1, <1>2, EngineGoes, Zenon

\* handle_store_failure on an integrity error: the event is recorded as
\* terminated before its message may leave the stream.
LEMMA StoreIntegrityKeeps ==
    ASSUME EngineInv, NEW g \in Engine, StoreIntegrity(g), eng[g].pc \in Busy, UNCHANGED <<rows, cands>>
    PROVE  EngineInv'
<1> DEFINE d == eng[g].cur
<1>1. PICK r : Moved(g, r) /\ Fit(r, stream', cls, cands')
  BY LeaveMoves, Zenon DEF StoreIntegrity
<1>2. d \in Delivery /\ Traced(stream, d) /\ Shape(stream)
  BY ZenonT(30) DEF EngineInv, Fit
<1>3. Evolves(stream, RemoveFrom(stream, d.q), {d.ev}) /\ Evolves(stream, stream, {d.ev})
  BY <1>2, RemoveEvolves, StayEvolves, ZenonT(30) DEF Traced, Evolves
<1>4. Evolves(stream, stream', {d.ev}) /\ termed \subseteq termed' /\ d.ev \in termed'
  BY <1>3, Zenon DEF StoreIntegrity
<1>5. cands \subseteq cands' /\ UNCHANGED rows
  BY Zenon
<1> QED
  BY <1>1, <1>4, <1>5, EngineMoves, ZenonT(30)

LEMMA ContinueMoves ==
    ASSUME EngineInv, NEW g \in Engine, NEW next, Continue(g, next)
    PROVE  Moved(g, [eng[g] EXCEPT !.pc = next.pc, !.res = next.res])
<1>1. eng' = [eng EXCEPT ![g] = [eng[g] EXCEPT !.pc = next.pc, !.res = next.res]]
  BY Zenon DEF Continue, EngineInv
<1> QED
  BY <1>1, MovesTo, Zenon

LEMMA ContinueTo ==
    ASSUME EngineInv, NEW g \in Engine, NEW x, NEW y, Continue(g, [pc |-> x, res |-> y])
    PROVE  Moved(g, [eng[g] EXCEPT !.pc = x, !.res = y])
<1>1. eng' = [eng EXCEPT ![g] = [eng[g] EXCEPT !.pc = x, !.res = y]]
  BY ZenonT(30) DEF Continue, EngineInv
<1> QED
  BY <1>1, MovesTo, Zenon

\* A result that may be persisted is judged: it is persisted, exhausted
\* retries are examined or become an integrity failure.
LEMMA JudgedMoves ==
    ASSUME EngineInv, NEW g \in Engine, NEW y, NEW C, cands \subseteq C, eng[g].pc \in Busy,
           Continue(g, Judged(eng[g].cur, y)), Persistable(eng[g].cur.ev, y, C),
           y = [cls |-> y.cls, act |-> y.act, evals |-> y.evals]
    PROVE  \E r : Moved(g, r) /\ Fit(r, stream, cls, C)
<1> DEFINE next == Judged(eng[g].cur, y)
           r == [eng[g] EXCEPT !.pc = next.pc, !.res = next.res]
<1>1. Moved(g, r)
  BY ContinueMoves, Zenon
<1>2. Fit(eng[g], stream, cls, C)
  <2>1. Evolves(stream, stream, {}) /\ Shape(stream)
    BY StayEvolves, Zenon DEF EngineInv
  <2> QED
    BY <2>1, FitStays, ZenonT(30) DEF EngineInv
<1>3. \/ next.pc = "persist" /\ next.res = y
      \/ next.pc = "context" /\ next.res = y
      \/ next.pc = "persist" /\ next.res = terminal
  BY ZenonT(30) DEF Judged
<1>4. /\ terminal = [cls |-> terminal.cls, act |-> terminal.act, evals |-> terminal.evals]
      /\ Persistable(eng[g].cur.ev, terminal, C)
  BY Zenon DEF terminal, Result, Persistable, Classification
<1>5. /\ next.res = [cls |-> next.res.cls, act |-> next.res.act, evals |-> next.res.evals]
      /\ next.pc \in {"persist", "context"}
      /\ Persistable(eng[g].cur.ev, next.res, C)
  <2> HIDE DEF next
  <2> QED
    BY <1>3, <1>4, Zenon
<1> HIDE DEF next
<1>6. Fit(r, stream, cls, C)
  BY <1>2, <1>5, NextFit, ZenonT(30)
<1> QED
  BY <1>1, <1>6, Zenon

\* What ShadowProcessor and the hunter answer without a candidate.
LEMMA AnswersPersist ==
    ASSUME NEW e, NEW C, NEW R
    PROVE  /\ Persistable(e, rejected(R), C) /\ rejected(R).cls = "candidate_rejected" /\ rejected(R).act = "Ack"
           /\ rejected(R) = [cls |-> rejected(R).cls, act |-> rejected(R).act, evals |-> rejected(R).evals]
           /\ \A c \in Classification \ {"candidate_generated"}, a \in {"Ack", "Retry", "Quarantine", "ProcessFatal"} :
                LET y == Result(c, a, {}) IN
                Persistable(e, y, C) /\ y = [cls |-> y.cls, act |-> y.act, evals |-> y.evals]
BY DEF rejected, Result, Persistable, Classification

\* final_classification: only an event with a row skips the evaluation.
LEMMA LookupKeeps ==
    ASSUME EngineInv, NEW g \in Engine, final_classification(g)
    PROVE  EngineInv'
<1>1. UNCHANGED <<rows, cands>> /\ eng[g].pc = "lookup" /\ eng[g].pc \in Busy
  BY Zenon DEF final_classification, Busy
<1>2. Fit(eng[g], stream, cls, cands)
  BY Zenon DEF EngineInv
<1>3. CASE /\ is_final(cls[eng[g].cur.ev]) /\ UNCHANGED <<stream, termed>>
           /\ eng' = [eng EXCEPT ![g].pc = "ack", ![g].res = NoResult]
  <2> DEFINE r == [eng[g] EXCEPT !.pc = "ack", !.res = NoResult]
  <2>1. eng' = [eng EXCEPT ![g] = r]
    BY <1>3, ZenonT(30) DEF EngineInv
  <2>2. NoResult = [cls |-> NoResult.cls, act |-> NoResult.act, evals |-> NoResult.evals]
    BY Zenon DEF NoResult, Result
  <2>3. cls[eng[g].cur.ev] # "unclassified"
    BY <1>3, Zenon DEF is_final
  <2>4. Fit(r, stream, cls, cands)
    BY <1>1, <1>2, <2>2, <2>3, NextFit, ZenonT(30)
  <2> QED
    BY <1>1, <1>3, <2>1, <2>4, MovesTo, EngineGoes, Zenon
<1>4. CASE UNCHANGED <<stream, termed>> /\ eng' = [eng EXCEPT ![g].pc = "evaluate"]
  <2> DEFINE r == [eng[g] EXCEPT !.pc = "evaluate"]
  <2>1. eng' = [eng EXCEPT ![g] = r]
    BY <1>4, Zenon DEF EngineInv
  <2>2. Fields(r, "evaluate", eng[g].batch, eng[g].cur, eng[g].res, eng[g].ready)
    BY <1>2, FitFields, SetPc, Zenon
  <2> HIDE DEF r
  <2>3. Fit(r, stream, cls, cands)
    BY <1>1, <1>2, <2>2, ZenonT(30) DEF Fit, Fields
  <2> QED
    BY <1>1, <1>4, <2>1, <2>3, MovesTo, EngineGoes, ZenonT(30)
<1>5. CASE StoreFailed(g)
  BY <1>1, <1>5, StoreFailedKeeps, Zenon
<1> QED
  BY <1>3, <1>4, <1>5, Zenon DEF final_classification


\* An engine that continues with the stream, the rows and the terminations
\* as they are.
LEMMA ContinueKeeps ==
    ASSUME EngineInv, NEW g \in Engine, UNCHANGED <<stream, rows, termed>>, cands \subseteq cands',
           \E r : Moved(g, r) /\ Fit(r, stream, cls, cands')
    PROVE  EngineInv'
<1>1. PICK r : Moved(g, r) /\ Fit(r, stream, cls, cands')
  BY Zenon
<1>2. Evolves(stream, stream', {}) /\ termed \subseteq termed' /\ UNCHANGED rows
  BY StayEvolves, Zenon DEF EngineInv
<1>3. Fit(r, stream', cls, cands')
  BY <1>1, Zenon
<1> QED
  BY <1>1, <1>2, <1>3, EngineMoves, SMTT(30)

\* ShadowProcessor::process.
LEMMA ProcessKeeps ==
    ASSUME EngineInv, NEW g \in Engine, process(g)
    PROVE  EngineInv'
<1>1. UNCHANGED <<stream, rows, termed, cands>> /\ eng[g].pc \in Busy
  BY ZenonT(30) DEF process, Busy
<1>2. ASSUME NEW y, Continue(g, Judged(eng[g].cur, y)), Persistable(eng[g].cur.ev, y, cands),
             y = [cls |-> y.cls, act |-> y.act, evals |-> y.evals]
      PROVE  EngineInv'
  <2>1. \E r : Moved(g, r) /\ Fit(r, stream, cls, cands)
    BY <1>1, <1>2, JudgedMoves, ZenonT(30)
  <2> QED
    BY <1>1, <2>1, ContinueKeeps, Zenon
<1>3. CASE \E c \in Classification \ {"candidate_generated"}, a \in {"Ack", "Retry", "Quarantine", "ProcessFatal"} :
             Continue(g, Judged(eng[g].cur, Result(c, a, {})))
  BY <1>2, <1>3, AnswersPersist, Zenon
<1>4. CASE \E R : Continue(g, Judged(eng[g].cur, rejected(R)))
  BY <1>2, <1>4, AnswersPersist, ZenonT(30)
<1>5. CASE Autonomous /\ \E R : Continue(g, [pc |-> "materialize", res |-> rejected(R)])
  <2>1. PICK R : Continue(g, [pc |-> "materialize", res |-> rejected(R)])
    BY <1>5, Zenon
  <2>2. Moved(g, [eng[g] EXCEPT !.pc = "materialize", !.res = rejected(R)])
    BY <2>1, ContinueTo, ZenonT(30)
  <2>3. Fit([eng[g] EXCEPT !.pc = "materialize", !.res = rejected(R)], stream, cls, cands)
    BY <1>1, <1>5, NextFit, AnswersPersist, ZenonT(30) DEF EngineInv
  <2> QED
    BY <1>1, <2>2, <2>3, ContinueKeeps, Zenon
<1>6. \/ \E c \in Classification \ {"candidate_generated"}, a \in {"Ack", "Retry", "Quarantine", "ProcessFatal"} :
           Continue(g, Judged(eng[g].cur, Result(c, a, {})))
      \/ \E R : Continue(g, Judged(eng[g].cur, rejected(R)))
      \/ Autonomous /\ \E R : Continue(g, [pc |-> "materialize", res |-> rejected(R)])
  BY ZenonT(30) DEF process, Evaluated, transient, terminal, Classification
<1> QED
  BY <1>3, <1>4, <1>5, <1>6, ZenonT(30)

\* process_inner: a result that says generated comes after its insert.
LEMMA MaterializeKeeps ==
    ASSUME EngineInv, NEW g \in Engine, materialize(g)
    PROVE  EngineInv'
<1> DEFINE y == eng[g].res
           d == eng[g].cur
<1>1. UNCHANGED <<stream, rows, termed>> /\ eng[g].pc \in Busy /\ eng[g].pc = "materialize"
  BY Zenon DEF materialize, Busy
<1>2. /\ y = [cls |-> y.cls, act |-> y.act, evals |-> y.evals]
      /\ Autonomous /\ y.cls = "candidate_rejected" /\ y.act = "Ack"
  BY <1>1, ZenonT(30) DEF EngineInv, Fit
<1>3. ASSUME NEW z, Continue(g, Judged(d, z)), Persistable(d.ev, z, cands'), cands \subseteq cands',
             z = [cls |-> z.cls, act |-> z.act, evals |-> z.evals]
      PROVE  EngineInv'
  <2>1. \E r : Moved(g, r) /\ Fit(r, stream, cls, cands')
    BY <1>1, <1>3, JudgedMoves, ZenonT(30)
  <2> QED
    BY <1>1, <1>3, <2>1, ContinueKeeps, Zenon
<1>4. CASE Continue(g, Judged(d, y)) /\ UNCHANGED cands
  <2>1. Persistable(d.ev, y, cands')
    BY <1>2, ZenonT(30) DEF Persistable, Classification
  <2> QED
    BY <1>2, <1>3, <1>4, <2>1, ZenonT(30)
<1>5. CASE \E rt \in y.evals : LET c == [ev |-> d.ev, block |-> head, route |-> rt] IN
             cands' = cands \cup {c} /\ Continue(g, Judged(d, [y EXCEPT !.cls = "candidate_generated"]))
  <2> DEFINE z == [y EXCEPT !.cls = "candidate_generated"]
  <2>1. PICK rt \in y.evals : /\ cands' = cands \cup {[ev |-> d.ev, block |-> head, route |-> rt]}
                              /\ Continue(g, Judged(d, z))
    BY <1>5, Zenon
  <2>2. z = [cls |-> "candidate_generated", act |-> y.act, evals |-> y.evals]
    BY <1>2, SMTT(30)
  <2>3. [ev |-> d.ev, block |-> head, route |-> rt].ev = d.ev /\ [ev |-> d.ev, block |-> head, route |-> rt] \in cands'
    BY <2>1, Zenon
  <2>4. Persistable(d.ev, z, cands') /\ z = [cls |-> z.cls, act |-> z.act, evals |-> z.evals]
    BY <1>2, <2>2, <2>3, Zenon DEF Persistable, Classification
  <2> QED
    BY <1>3, <2>1, <2>4, Zenon
<1>6. CASE /\ cands \subseteq cands'
           /\ \E z \in {process_fatal, transient, terminal} : Continue(g, Judged(d, z))
  <2>1. \A z \in {process_fatal, transient, terminal} :
          Persistable(d.ev, z, cands') /\ z = [cls |-> z.cls, act |-> z.act, evals |-> z.evals]
    BY SMTT(30) DEF process_fatal, transient, terminal, Result, Persistable, Classification
  <2> QED
    BY <1>3, <1>6, <2>1, ZenonT(30)
<1> QED
  BY <1>4, <1>5, <1>6, ZenonT(30) DEF materialize

\* dependency_failure_context.
LEMMA ContextKeeps ==
    ASSUME EngineInv, NEW g \in Engine, dependency_failure_context(g)
    PROVE  EngineInv'
<1>1. UNCHANGED <<rows, cands>> /\ eng[g].pc \in Busy
  BY Zenon DEF dependency_failure_context, Busy
<1>2. CASE /\ Continue(g, [pc |-> "persist", res |-> Result("dependency_exhausted", "Ack", {})])
           /\ UNCHANGED <<stream, termed>>
  <2> DEFINE y == Result("dependency_exhausted", "Ack", {})
  <2>1. Moved(g, [eng[g] EXCEPT !.pc = "persist", !.res = y])
    BY <1>2, ContinueTo, ZenonT(30)
  <2>2. Persistable(eng[g].cur.ev, y, cands) /\ y = [cls |-> y.cls, act |-> y.act, evals |-> y.evals]
    BY ZenonT(30) DEF Result, Persistable, Classification
  <2> HIDE DEF y
  <2>3. Fit([eng[g] EXCEPT !.pc = "persist", !.res = y], stream, cls, cands)
    BY <1>1, <2>2, NextFit, ZenonT(30) DEF EngineInv
  <2> QED
    BY <1>1, <1>2, <2>1, <2>3, ContinueKeeps, Zenon
<1>3. CASE StoreIntegrity(g)
  BY <1>1, <1>3, StoreIntegrityKeeps, Zenon
<1>4. CASE StoreFailed(g)
  BY <1>1, <1>4, StoreFailedKeeps, Zenon
<1> QED
  BY <1>2, <1>3, <1>4, ZenonT(30) DEF dependency_failure_context


\* The transaction of persist_classification keeps what the rows promise: it
\* replaces no final classification, a generated candidate has its row, and
\* an event that gets decisions becomes final.
LEMMA WriteKeeps ==
    ASSUME EngineInv, NEW d, d.ev \in Event, NEW y, Persistable(d.ev, y, cands), ~is_final(cls[d.ev]), Write(d, y), UNCHANGED cands
    PROVE  /\ cls' \in [Event -> Classification \cup {"unclassified"}]
           /\ cls'[d.ev] = y.cls /\ y.cls # "unclassified"
           /\ \A e \in Event : cls[e] # "unclassified" => cls'[e] # "unclassified"
           /\ GeneratedHasCandidate' /\ DecidedIsFinal'
<1>1. /\ y.cls \in Classification /\ cls \in [Event -> Classification \cup {"unclassified"}]
      /\ cls' = [cls EXCEPT ![d.ev] = y.cls]
  BY ZenonT(30) DEF Persistable, EngineInv, Write
<1>2. y.cls # "unclassified"
  BY <1>1, Zenon DEF Classification
<1>3. cls'[d.ev] = y.cls /\ \A e \in Event : e # d.ev => cls'[e] = cls[e]
  BY <1>1, Zenon
<1>4. cls' \in [Event -> Classification \cup {"unclassified"}]
  BY <1>1, Zenon
<1>5. GeneratedHasCandidate'
  <2>1. SUFFICES ASSUME NEW e \in Event, cls'[e] = "candidate_generated"
                 PROVE  \E c \in cands' : c.ev = e
    BY Zenon DEF GeneratedHasCandidate
  <2>2. CASE e = d.ev
    BY <1>3, <2>1, <2>2, Zenon DEF Persistable
  <2>3. CASE e # d.ev
    BY <1>3, <2>1, <2>3, Zenon DEF EngineInv, GeneratedHasCandidate
  <2> QED
    BY <2>2, <2>3, Zenon
<1>6. DecidedIsFinal'
  <2>1. SUFFICES ASSUME ~Autonomous, NEW e \in Event, NEW rt \in Route, <<e, rt>> \in decisions'
                 PROVE  is_final(cls'[e])
    BY ZenonT(30) DEF DecidedIsFinal, is_final
  <2>2. <<e, rt>> \in decisions \/ (e = d.ev /\ y.evals # {})
    BY <2>1, ZenonT(30) DEF Write
  <2>3. CASE <<e, rt>> \in decisions
    <3>1. is_final(cls[e])
      BY <2>1, <2>3, Zenon DEF EngineInv, DecidedIsFinal
    <3> QED
      BY <1>3, <3>1, ZenonT(30)
  <2>4. CASE e = d.ev /\ y.evals # {}
    <3>1. y.cls = "candidate_rejected"
      BY <2>1, <2>4, ZenonT(30) DEF Persistable
    <3> QED
      BY <1>3, <2>4, <3>1, ZenonT(30) DEF is_final
  <2> QED
    BY <2>2, <2>3, <2>4, ZenonT(30)
<1> QED
  BY <1>2, <1>3, <1>4, <1>5, <1>6, ZenonT(30)

\* persist_classification.
LEMMA PersistKeeps ==
    ASSUME EngineInv, NEW g \in Engine, persist_classification(g)
    PROVE  EngineInv'
<1> DEFINE d == eng[g].cur
           y == eng[g].res
           R == eng[g].ready \cup {"persistence"}
           p == [eng[g] EXCEPT !.pc = "ack"]
           a == [p EXCEPT !.ready = R]
           f == [a EXCEPT !.res = NoResult]
<1>1. UNCHANGED cands /\ eng[g].pc = "persist" /\ eng[g].pc \in Busy
  BY ZenonT(30) DEF persist_classification, Busy
<1>2. Fit(eng[g], stream, cls, cands) /\ d \in Delivery /\ d.ev \in Event /\ Persistable(d.ev, y, cands)
  BY <1>1, ZenonT(30) DEF EngineInv, Fit, Delivery
<1>3. Fields(p, "ack", eng[g].batch, d, y, eng[g].ready)
  BY <1>2, FitFields, SetPc, Zenon
<1>4. Fields(a, "ack", eng[g].batch, d, y, R)
  <2> HIDE DEF p
  <2> QED
    BY <1>3, SetReady, ZenonT(30)
<1>5. Fields(f, "ack", eng[g].batch, d, NoResult, R)
  <2> HIDE DEF a
  <2> QED
    BY <1>4, SetRes, Zenon
<1>6. /\ [eng EXCEPT ![g].pc = "ack", ![g].ready = @ \cup {"persistence"}] = [eng EXCEPT ![g] = a]
      /\ [[eng EXCEPT ![g].pc = "ack", ![g].ready = @ \cup {"persistence"}] EXCEPT ![g].res = NoResult] = [eng EXCEPT ![g] = f]
  BY ZenonT(30) DEF EngineInv
<1> HIDE DEF p, a, f
<1>7. CASE /\ is_final(cls[d.ev]) /\ UNCHANGED <<rows, stream, termed>>
           /\ eng' = [eng EXCEPT ![g] = f]
  <2>1. NoResult = [cls |-> NoResult.cls, act |-> NoResult.act, evals |-> NoResult.evals]
    BY Zenon DEF NoResult, Result
  <2>2. cls[d.ev] # "unclassified"
    BY <1>7, ZenonT(30) DEF is_final
  <2>3. Fit(f, stream, cls, cands)
    BY <1>1, <1>2, <1>5, <2>1, <2>2, ZenonT(30) DEF Fit, Fields
  <2> QED
    BY <1>1, <1>7, <2>3, MovesTo, EngineGoes, Zenon
<1>8. ASSUME ~is_final(cls[d.ev]), Write(d, y), UNCHANGED <<stream, termed>>,
             NEW r, Moved(g, r), cls'[d.ev] # "unclassified" => Fit(r, stream, cls', cands)
      PROVE  EngineInv'
  <2>1. /\ cls' \in [Event -> Classification \cup {"unclassified"}] /\ cls'[d.ev] = y.cls /\ y.cls # "unclassified"
        /\ \A e \in Event : cls[e] # "unclassified" => cls'[e] # "unclassified"
        /\ GeneratedHasCandidate' /\ DecidedIsFinal'
    BY <1>1, <1>2, <1>8, WriteKeeps, ZenonT(30)
  <2>2. Evolves(stream, stream', {}) /\ cands \subseteq cands' /\ termed \subseteq termed'
    BY <1>1, <1>8, StayEvolves, ZenonT(30) DEF EngineInv
  <2>3. Fit(r, stream', cls', cands')
    BY <1>1, <1>8, <2>1, ZenonT(30)
  <2> QED
    BY <1>8, <2>1, <2>2, <2>3, EngineKeeps, SMTT(30)
<1>9. CASE ~is_final(cls[d.ev]) /\ Write(d, y) /\ eng' = [eng EXCEPT ![g] = a] /\ UNCHANGED <<stream, termed>>
  <2>1. Moved(g, a)
    BY <1>9, MovesTo, ZenonT(30)
  <2>2. cls'[d.ev] # "unclassified" => Fit(a, stream, cls', cands)
    BY <1>1, <1>2, <1>4, ZenonT(30) DEF Fit, Fields
  <2> QED
    BY <1>8, <1>9, <2>1, <2>2, ZenonT(30)
<1>10. CASE ~is_final(cls[d.ev]) /\ Write(d, y) /\ StoreFailed(g)
  <2>1. PICK r : Moved(g, r) /\ Fit(r, stream, cls', cands)
    BY <1>10, LeaveMoves, ZenonT(30) DEF StoreFailed
  <2> QED
    BY <1>8, <1>10, <2>1, ZenonT(30) DEF StoreFailed
<1>11. CASE StoreIntegrity(g) /\ UNCHANGED rows
  BY <1>1, <1>11, StoreIntegrityKeeps, ZenonT(30)
<1>12. CASE StoreFailed(g) /\ UNCHANGED rows
  BY <1>1, <1>12, StoreFailedKeeps, Zenon
<1> QED
  BY <1>6, <1>7, <1>9, <1>10, <1>11, <1>12, ZenonT(30) DEF persist_classification


\* acknowledge: only a classified event's message leaves the stream.
LEMMA AcknowledgeKeeps ==
    ASSUME EngineInv, NEW g \in Engine, acknowledge(g)
    PROVE  EngineInv'
<1> DEFINE d == eng[g].cur
           done == IF eng[g].res.act = "Retry" THEN ReturnTo(stream, d.q) ELSE RemoveFrom(stream, d.q)
           R == eng[g].ready \cup {"acks"}
           p == [eng[g] EXCEPT !.pc = "fetch"]
           c == [p EXCEPT !.cur = NoDelivery]
           n == [c EXCEPT !.res = NoResult]
           r == [n EXCEPT !.ready = R]
<1>1. UNCHANGED <<rows, cands, termed>> /\ eng[g].pc = "ack" /\ eng[g].pc \in Busy
  BY ZenonT(30) DEF acknowledge, Busy
<1>2. /\ Fit(eng[g], stream, cls, cands) /\ Shape(stream)
      /\ d \in Delivery /\ Traced(stream, d) /\ cls[d.ev] # "unclassified"
  BY <1>1, ZenonT(30) DEF EngineInv, Fit
<1>3. Evolves(stream, done, {d.ev})
  <2>1. Evolves(stream, ReturnTo(stream, d.q), {d.ev})
    BY <1>2, ReturnEvolves, ZenonT(30) DEF Evolves
  <2>2. Evolves(stream, RemoveFrom(stream, d.q), {d.ev})
    BY <1>2, RemoveEvolves, ZenonT(30) DEF Traced
  <2> QED
    BY <2>1, <2>2, ZenonT(30)
<1>4. PICK o \in AckOutcome(stream, d.q, done) :
        /\ stream' = o.stream
        /\ \/ Exit(g)
           \/ eng' = [eng EXCEPT ![g].pc = "fetch", ![g].cur = NoDelivery, ![g].res = NoResult, ![g].ready = @ \cup {"acks"}]
           \/ Leave(g, "nats", Lose(eng[g].ready, "acks"))
  BY ZenonT(30) DEF acknowledge
<1> HIDE DEF done
<1>5. Evolves(stream, stream', {d.ev})
  BY <1>2, <1>3, <1>4, AckEvolves, ZenonT(30)
<1>6. \E x : Moved(g, x) /\ Fit(x, stream', cls, cands')
  <2>1. CASE Exit(g) \/ Leave(g, "nats", Lose(eng[g].ready, "acks"))
    BY <2>1, LeaveMoves, ZenonT(30)
  <2>2. CASE eng' = [eng EXCEPT ![g].pc = "fetch", ![g].cur = NoDelivery, ![g].res = NoResult, ![g].ready = @ \cup {"acks"}]
    <3>1. eng' = [eng EXCEPT ![g] = r]
      BY <2>2, ZenonT(30) DEF EngineInv
    <3>2. Fields(p, "fetch", eng[g].batch, d, eng[g].res, eng[g].ready)
      BY <1>2, FitFields, SetPc, Zenon
    <3> HIDE DEF p
    <3>3. Fields(c, "fetch", eng[g].batch, NoDelivery, eng[g].res, eng[g].ready)
      BY <3>2, SetCur, Zenon
    <3> HIDE DEF c
    <3>4. Fields(n, "fetch", eng[g].batch, NoDelivery, NoResult, eng[g].ready)
      BY <3>3, SetRes, Zenon
    <3> HIDE DEF n
    <3>5. Fields(r, "fetch", eng[g].batch, NoDelivery, NoResult, R)
      BY <3>4, SetReady, ZenonT(30)
    <3> HIDE DEF r
    <3>6. NoResult = [cls |-> NoResult.cls, act |-> NoResult.act, evals |-> NoResult.evals]
      BY Zenon DEF NoResult, Result
    <3>7. \A b \in eng[g].batch : b \in Delivery /\ Traced(stream', b)
      BY <1>2, <1>5, TracedStays, ZenonT(30) DEF Fit
    <3>8. Fit(r, stream', cls, cands')
      BY <3>5, <3>6, <3>7, ZenonT(30) DEF Fit, Fields, Busy
    <3> QED
      BY <3>1, <3>8, MovesTo, ZenonT(30)
  <2> QED
    BY <1>4, <2>1, <2>2, ZenonT(30)
<1>7. PICK x : Moved(g, x) /\ Fit(x, stream', cls, cands')
  BY <1>6, Zenon
<1>8. cands \subseteq cands' /\ termed \subseteq termed' /\ UNCHANGED rows
  BY <1>1, ZenonT(30)
<1> QED
  BY <1>2, <1>5, <1>7, <1>8, EngineMoves, ZenonT(30)

-----------------------------------------------------------------------------
(* The world: publications, the ack wait, crashes and restarts.            *)

\* A step that leaves the engines where they are.
LEMMA WorldKeeps ==
    ASSUME EngineInv, Evolves(stream, stream', {}), UNCHANGED <<rows, cands, eng, termed>>
    PROVE  EngineInv'
<1>1. Shape(stream)'
  BY ZenonT(30) DEF Evolves, Shape, StreamOK
<1>2. \A h \in Engine : Fit(eng[h], stream', cls, cands)
  BY FitStays, Zenon DEF EngineInv
<1>3. \A h \in Engine : Fit(eng[h], stream, cls, cands)'
  BY <1>2, SMTT(30) DEF Fit, Traced, Persistable, rows
<1>4. RemovedIsClassified'
  BY Zenon DEF EngineInv, RemovedIsClassified, Evolves, Queued, rows
<1>5. GeneratedHasCandidate' /\ DecidedIsFinal'
  BY ZenonT(30) DEF EngineInv, GeneratedHasCandidate, DecidedIsFinal, rows, is_final
<1> QED
  BY <1>1, <1>3, <1>4, <1>5, Zenon DEF EngineInv, rows

LEMMA ArriveKeeps ==
    ASSUME EngineInv, NEW e \in Event, Arrive(e)
    PROVE  EngineInv'
<1>1. Evolves(stream, stream', {})
  BY ForgetEvolves, Zenon DEF EngineInv, Arrive
<1> QED
  BY <1>1, WorldKeeps, Zenon DEF Arrive

LEMMA AckWaitKeeps ==
    ASSUME EngineInv, NEW q, AckWaitPasses(q)
    PROVE  EngineInv'
<1>1. Evolves(stream, stream', {})
  BY ReturnEvolves, Zenon DEF EngineInv, AckWaitPasses
<1> QED
  BY <1>1, WorldKeeps, ZenonT(30) DEF AckWaitPasses

LEMMA MineKeeps ==
    ASSUME EngineInv, Mine \/ UNCHANGED vars
    PROVE  EngineInv'
<1>1. UNCHANGED <<rows, cands, eng, termed>> /\ stream' = stream
  BY Zenon DEF Mine, vars, rows
<1>2. Evolves(stream, stream', {})
  BY <1>1, StayEvolves, Zenon DEF EngineInv
<1> QED
  BY <1>1, <1>2, WorldKeeps, Zenon

LEMMA CrashKeeps ==
    ASSUME EngineInv, NEW g \in Engine, Crash(g) \/ Restart(g)
    PROVE  EngineInv'
<1>1. UNCHANGED <<stream, rows, cands, termed>>
  BY Zenon DEF Crash, Restart
<1>2. CASE Crash(g)
  BY <1>1, <1>2, MovesTo, StoppedFit, EngineGoes, ZenonT(30) DEF Crash
<1>3. CASE Restart(g)
  <2> DEFINE r == [Stopped EXCEPT !.pc = "start", !.ready = NewReadiness]
  <2>1. Moved(g, r)
    BY <1>3, MovesTo, ZenonT(30) DEF Restart
  <2>2. Fit(r, stream, cls, cands)
    BY RestFit, Zenon DEF Busy
  <2> QED
    BY <1>1, <2>1, <2>2, EngineGoes, Zenon
<1> QED
  BY <1>2, <1>3, Zenon

LEMMA EngineInit ==
    ASSUME Init
    PROVE  EngineInv
<1>1. Shape(stream)
  <2>1. DOMAIN <<>> = {}
    BY SMTT(30)
  <2> QED
    BY <2>1, SMTT(30) DEF Init, EmptyStream, Shape, StreamOK, Message
<1>2. \A g \in Engine : Fit([Stopped EXCEPT !.pc = "start", !.ready = NewReadiness], stream, cls, cands)
  BY RestFit, Zenon DEF Busy
<1>3. eng = [g \in Engine |-> eng[g]] /\ \A g \in Engine : Fit(eng[g], stream, cls, cands)
  BY <1>2, Zenon DEF Init
<1>4. cls \in [Event -> Classification \cup {"unclassified"}] /\ RemovedIsClassified /\ GeneratedHasCandidate /\ DecidedIsFinal
  BY Zenon DEF Init, EmptyStream, RemovedIsClassified, GeneratedHasCandidate, DecidedIsFinal
<1> QED
  BY <1>1, <1>3, <1>4, Zenon DEF EngineInv

LEMMA EngineStep ==
    ASSUME EngineInv, [Next]_vars
    PROVE  EngineInv'
<1>1. CASE \E e \in Event : Arrive(e)
  BY <1>1, ArriveKeeps, Zenon
<1>2. CASE Mine \/ UNCHANGED vars
  BY <1>2, MineKeeps, Zenon
<1>3. CASE \E q \in DOMAIN stream.msg : AckWaitPasses(q)
  BY <1>3, AckWaitKeeps, Zenon
<1>4. ASSUME NEW g \in Engine, Run(g) \/ Monitor(g) \/ Crash(g)
      PROVE  EngineInv'
  BY <1>4, ConnectKeeps, FetchKeeps, TakeKeeps, LookupKeeps, ProcessKeeps, MaterializeKeeps, ContextKeeps,
     PersistKeeps, AcknowledgeKeeps, CrashKeeps, ZenonT(30) DEF Run, Monitor, Consume
<1> QED
  BY <1>1, <1>2, <1>3, <1>4, Zenon DEF Next

\* Classifications and decisions are written by one transaction, and only
\* for an event that is not final.
LEMMA RowsChange ==
    ASSUME EngineInv, [Next]_vars
    PROVE  \/ UNCHANGED rows
           \/ \E d, y : d.ev \in Event /\ ~is_final(cls[d.ev]) /\ Write(d, y)
<1>1. CASE \E e \in Event : Arrive(e)
  BY <1>1, ZenonT(30) DEF Arrive
<1>2. CASE Mine \/ UNCHANGED vars
  BY <1>2, ZenonT(30) DEF Mine, vars, rows
<1>3. CASE \E q \in DOMAIN stream.msg : AckWaitPasses(q)
  BY <1>3, ZenonT(30) DEF AckWaitPasses
<1>4. ASSUME NEW g \in Engine, Run(g) \/ Monitor(g) \/ Crash(g)
      PROVE  \/ UNCHANGED rows
             \/ \E d, y : d.ev \in Event /\ ~is_final(cls[d.ev]) /\ Write(d, y)
  <2>1. CASE persist_classification(g)
    <3>1. eng[g].cur.ev \in Event
      BY <2>1, ZenonT(30) DEF persist_classification, EngineInv, Fit, Busy, Delivery
    <3> QED
      BY <2>1, <3>1, ZenonT(30) DEF persist_classification
  <2>2. CASE ~persist_classification(g)
    <3>1. \/ connect_postgres(g) \/ connect_nats(g) \/ fetch_batch(g) \/ TakeDelivery(g) \/ final_classification(g)
          \/ process(g) \/ materialize(g) \/ dependency_failure_context(g) \/ acknowledge(g) \/ Restart(g)
          \/ monitor_database(g) \/ monitor_rpc_gateway(g) \/ Crash(g)
      BY <1>4, <2>2, Zenon DEF Run, Monitor, Consume
    <3> QED
      BY <3>1, ZenonT(30) DEF connect_postgres, connect_nats, fetch_batch, TakeDelivery, final_classification, process, materialize,
                  dependency_failure_context, acknowledge, Restart, monitor_database, monitor_rpc_gateway, Crash
  <2> QED
    BY <2>1, <2>2, Zenon
<1> QED
  BY <1>1, <1>2, <1>3, <1>4, ZenonT(30) DEF Next

LEMMA FinalStep ==
    ASSUME EngineInv, [Next]_vars
    PROVE  FinalStays
<1>1. CASE UNCHANGED rows
  BY <1>1, Zenon DEF FinalStays, rows
<1>2. CASE \E d, y : d.ev \in Event /\ ~is_final(cls[d.ev]) /\ Write(d, y)
  <2>1. PICK d, y : d.ev \in Event /\ ~is_final(cls[d.ev]) /\ Write(d, y)
    BY <1>2, Zenon
  <2>2. cls' = [cls EXCEPT ![d.ev] = y.cls] /\ cls \in [Event -> Classification \cup {"unclassified"}]
    BY <2>1, Zenon DEF Write, EngineInv
  <2>3. \A e \in Event : e # d.ev => cls'[e] = cls[e]
    BY <2>2, Zenon
  <2> QED
    BY <2>1, <2>3, Zenon DEF FinalStays
<1> QED
  BY <1>1, <1>2, RowsChange, Zenon

LEMMA DecisionStep ==
    ASSUME EngineInv, ~Autonomous, [Next]_vars
    PROVE  NoSecondDecision
<1>1. CASE UNCHANGED rows
  BY <1>1, Zenon DEF NoSecondDecision, rows
<1>2. CASE \E d, y : d.ev \in Event /\ ~is_final(cls[d.ev]) /\ Write(d, y)
  <2>1. PICK d, y : d.ev \in Event /\ ~is_final(cls[d.ev]) /\ Write(d, y)
    BY <1>2, ZenonT(30)
  <2>2. \A rt \in Route : <<d.ev, rt>> \notin decisions
    BY <2>1, Zenon DEF EngineInv, DecidedIsFinal
  <2>3. \A e \in Event, rt \in Route : <<e, rt>> \in decisions' => <<e, rt>> \in decisions \/ e = d.ev
    BY <2>1, Zenon DEF Write
  <2> QED
    BY <2>2, <2>3, Zenon DEF NoSecondDecision
<1> QED
  BY <1>1, <1>2, RowsChange, Zenon

-----------------------------------------------------------------------------

\* The inductive invariant of the engine's delivery loop.
THEOREM EngineInvariance == Spec => []EngineInv
<1>1. Init => EngineInv
  BY EngineInit, Zenon
<1>2. EngineInv /\ [Next]_vars => EngineInv'
  BY EngineStep, Zenon
<1> QED
  BY <1>1, <1>2, PTL DEF Spec

\* A message leaves PHOENIX_ENGINE_INPUT only when its event has a
\* classification row or the store refused it, whatever fails in
\* process_delivery and however many engines share the consumer.
THEOREM ClassifiedBeforeAck == Spec => []RemovedIsClassified
<1>1. EngineInv => RemovedIsClassified
  BY Zenon DEF EngineInv
<1> QED
  BY <1>1, EngineInvariance, PTL

\* persist_classification never says candidate_generated of an event without
\* a row in autonomous_candidates.
THEOREM GeneratedIsStored == Spec => []GeneratedHasCandidate
<1>1. EngineInv => GeneratedHasCandidate
  BY Zenon DEF EngineInv
<1> QED
  BY <1>1, EngineInvariance, PTL

\* A final classification is never replaced: persist_classification reads it
\* in the transaction that writes.
THEOREM FinalForever == Spec => FinalIsForever
<1>1. EngineInv /\ [Next]_vars => [FinalStays]_vars
  BY FinalStep, Zenon
<1> QED
  BY <1>1, EngineInvariance, PTL DEF Spec, FinalIsForever

\* Without an autonomous hunter the decisions of an event are those of one
\* commit.  An autonomous engine commits candidate_generated, which is not
\* final, so its events may be decided again.
THEOREM SingleDecision ==
    ASSUME ~Autonomous
    PROVE  Spec => DecidedOnce
<1>1. EngineInv /\ [Next]_vars => [NoSecondDecision]_vars
  BY DecisionStep, Zenon
<1> QED
  BY <1>1, EngineInvariance, PTL DEF Spec, DecidedOnce
=============================================================================
