------------------------------ MODULE JetStream ------------------------------
(***************************************************************************)
(* What the recorder, the dispatcher and the engine rely on a JetStream    *)
(* work queue with one durable consumer for (recorder/src/jetstream.rs,    *)
(* engine_stream.rs): explicit acknowledgement, a bounded number of        *)
(* deliveries, redelivery after a nak or when the ack wait passes, and     *)
(* suppression of a message id seen within the duplicate window.  A stream *)
(* is [msg, recent, ever, last]: the queued messages by sequence number,   *)
(* the ids inside the duplicate window, the ids ever stored (history), the *)
(* last sequence number.                                                   *)
(***************************************************************************)
EXTENDS Integers, FiniteSets

EmptyStream == [msg |-> <<>>, recent |-> {}, ever |-> {}, last |-> 0]

\* Storing id; a duplicate inside the window is acknowledged and not stored.
PublishTo(s, id) ==
    IF id \in s.recent THEN s
    ELSE [msg |-> [q \in DOMAIN s.msg \cup {s.last + 1} |->
                     IF q \in DOMAIN s.msg THEN s.msg[q] ELSE [id |-> id, n |-> 0, held |-> FALSE]],
          recent |-> s.recent \cup {id},
          ever |-> s.ever \cup {id},
          last |-> s.last + 1]

\* The duplicate window has passed for id.
ForgetId(s, id) == [s EXCEPT !.recent = @ \ {id}]

Deliverable(s, max) == {q \in DOMAIN s.msg : ~s.msg[q].held /\ s.msg[q].n < max}

\* Messages the consumer will never be given again.
Abandoned(s, max) == {q \in DOMAIN s.msg : ~s.msg[q].held /\ s.msg[q].n >= max}

DeliverFrom(s, Q) ==
    [s EXCEPT !.msg = [q \in DOMAIN s.msg |->
        IF q \in Q THEN [id |-> s.msg[q].id, n |-> s.msg[q].n + 1, held |-> TRUE] ELSE s.msg[q]]]

\* A nak, or the ack wait passing.
ReturnTo(s, q) == IF q \in DOMAIN s.msg THEN [s EXCEPT !.msg[q].held = FALSE] ELSE s

\* An ack or a term: a work queue forgets the message, also after its ack wait.
RemoveFrom(s, q) == [s EXCEPT !.msg = [p \in DOMAIN @ \ {q} |-> @[p]]]

Queued(s, id) == \E q \in DOMAIN s.msg : s.msg[q].id = id

\* What is known of an acknowledgement's request and its reply.
AckOutcome(s, q, next) ==
    {[stream |-> next, ok |-> TRUE], [stream |-> next, ok |-> FALSE], [stream |-> s, ok |-> FALSE]}

StreamOK(s, Id) ==
    /\ s.recent \subseteq s.ever
    /\ s.ever \subseteq Id
    /\ DOMAIN s.msg \subseteq 1..s.last
    /\ \A q \in DOMAIN s.msg : s.msg[q].id \in s.ever
==============================================================================
