-------------------------- MODULE DispatcherProofs --------------------------
(*************************************************************************)
(* The shadow dispatcher for any number of replicas and rows, any batch  *)
(* size and any number of faults, crashes, expired leases and duplicate  *)
(* windows: a row marked published has been stored, copies are bounded,  *)
(* a live lease keeps other replicas off its row, and readiness is not   *)
(* reported outside the loop.                                            *)
(*************************************************************************)
EXTENDS ShadowDispatcher, FiniteSetTheorems, TLAPS

\* Each stored id outside the duplicate window was paid for by a window that
\* passed.
StreamInv ==
    /\ stream.recent \subseteq stream.ever
    /\ IsFiniteSet(stream.ever)
    /\ stream.last + Cardinality(stream.ever \ stream.recent) <= Cardinality(stream.ever) + windows

\* What a replica is about to mark has been stored.
MarkInv == \A d \in Dispatcher : disp[d].pc = "mark" => disp[d].cur \subseteq stream.ever

\* A leased row is due.
LeaseInv == \A r \in Row : outbox[r].live => outbox[r].due

\* Outside the loop some flag is down.
AwayInv == \A d \in Dispatcher : disp[d].pc \in {"connect", "down"} => ~Ready(d)

DispatcherInv == TypeOK /\ StreamInv /\ MarkInv /\ LeaseInv /\ AwayInv /\ PublishedIsDelivered

Pc == Working \cup {"down", "connect"}
Replica == [pc : Pc, rows : SUBSET Row, cur : SUBSET Row, ready : [Flag -> BOOLEAN]]
OutboxRow == [pub : BOOLEAN, owner : Dispatcher \cup {NoOwner}, live : BOOLEAN, due : BOOLEAN]

\* Only replica d moves, and if it leaves the loop some flag of it is down.
Moves(d) ==
    /\ disp' \in [Dispatcher -> Replica]
    /\ \A e \in Dispatcher \ {d} : disp'[e] = disp[e]
    /\ disp'[d].pc \in {"connect", "down"} => \E f \in Flag : ~disp'[d].ready[f]

\* Giving one replica a new record.
LEMMA MovesTo ==
    ASSUME TypeOK, NEW d \in Dispatcher, NEW rep \in Replica, disp' = [disp EXCEPT ![d] = rep],
           rep.pc \in {"connect", "down"} => \E f \in Flag : ~rep.ready[f]
    PROVE  Moves(d) /\ disp'[d] = rep
<1> DEFINE Rep == Replica
<1>1. disp \in [Dispatcher -> Rep]
  BY Zenon DEF TypeOK, Replica, Pc
<1> HIDE DEF Rep
<1>2. disp' \in [Dispatcher -> Rep] /\ disp'[d] = rep /\ \A e \in Dispatcher \ {d} : disp'[e] = disp[e]
  BY <1>1, Zenon DEF Rep
<1> QED
  BY <1>2, Zenon DEF Moves, Rep

\* Clearing a flag of the readiness record clears it, whatever else it clears.
LEMMA FlagCleared ==
    ASSUME NEW r \in [Flag -> BOOLEAN], NEW f \in Flag
    PROVE  SetFlag(r, f, FALSE) \in [Flag -> BOOLEAN] /\ ~SetFlag(r, f, FALSE)[f]
BY Zenon DEF SetFlag

\* Leaving the loop for a lost dependency, for good or by a crash takes a flag
\* down and gives up the batch.
LEMMA LeavesLoop ==
    ASSUME TypeOK, NEW d \in Dispatcher,
           \/ \E f \in {"postgres", "jetstream"} : Reconnect(d, f)
           \/ Terminal(d)
           \/ disp' = [disp EXCEPT ![d] = NoneIn("down", SetFlag(@.ready, "alive", FALSE))]
    PROVE  Moves(d) /\ disp'[d].pc \in {"connect", "down"}
<1>1. disp[d].ready \in [Flag -> BOOLEAN]
  BY Zenon DEF TypeOK
<1>2. PICK pc \in {"connect", "down"}, r \in [Flag -> BOOLEAN], f \in Flag :
         ~r[f] /\ disp' = [disp EXCEPT ![d] = NoneIn(pc, r)]
  <2>1. CASE \E f \in {"postgres", "jetstream"} : Reconnect(d, f)
    <3>1. PICK f \in {"postgres", "jetstream"} : Reconnect(d, f)
      BY <2>1, Zenon
    <3>2. f \in Flag
      BY Zenon DEF Flag
    <3> QED
      BY <1>1, <3>1, <3>2, FlagCleared, Zenon DEF Reconnect
  <2>2. CASE Terminal(d)
    <3>1. "integrity" \in Flag /\ "alive" \in Flag
      BY Zenon DEF Flag
    <3>2. SetFlag(disp[d].ready, "integrity", FALSE) \in [Flag -> BOOLEAN]
      BY <1>1, <3>1, FlagCleared, Zenon
    <3> QED
      BY <2>2, <3>1, <3>2, FlagCleared, Zenon DEF Terminal
  <2>3. CASE disp' = [disp EXCEPT ![d] = NoneIn("down", SetFlag(@.ready, "alive", FALSE))]
    <3>1. "alive" \in Flag
      BY Zenon DEF Flag
    <3> QED
      BY <1>1, <2>3, <3>1, FlagCleared, Zenon
  <2> QED
    BY <2>1, <2>2, <2>3, Zenon
<1> QED
  BY <1>2, Zenon DEF TypeOK, Moves, NoneIn, Replica, Pc, Working

\* A publication adds its id, and a copy of an id outside the window uses up
\* one window that passed.
LEMMA PublishStream ==
    ASSUME TypeOK, StreamInv, NEW r \in Row, stream' = PublishTo(stream, r), windows' = windows
    PROVE  /\ stream' \in [msg : {stream'.msg}, recent : SUBSET Row, ever : SUBSET Row, last : Nat]
           /\ StreamInv'
           /\ stream'.ever = stream.ever \cup {r}
<1>1. CASE r \in stream.recent
  BY <1>1, Zenon DEF PublishTo, StreamInv, TypeOK
<1>2. CASE r \notin stream.recent
  <2>1. /\ stream' \in [msg : {stream'.msg}, recent : SUBSET Row, ever : SUBSET Row, last : Nat]
        /\ stream'.recent = stream.recent \cup {r}
        /\ stream'.ever = stream.ever \cup {r}
        /\ stream'.last = stream.last + 1
    BY <1>2, SMTT(30) DEF PublishTo, TypeOK
  <2> DEFINE Paid == stream.ever \ stream.recent
  <2>2. IsFiniteSet(Paid) /\ Cardinality(Paid) \in Nat /\ Cardinality(stream.ever) \in Nat
    BY FS_Subset, FS_CardinalityType, Zenon DEF StreamInv
  <2>3. stream'.ever \ stream'.recent = Paid \ {r}
    BY <2>1, Zenon
  <2>4. r \in Paid <=> r \in stream.ever
    BY <1>2, Zenon
  <2> HIDE DEF Paid
  <2>5. /\ Cardinality(Paid \ {r}) = IF r \in Paid THEN Cardinality(Paid) - 1 ELSE Cardinality(Paid)
        /\ IsFiniteSet(stream'.ever)
        /\ Cardinality(stream'.ever) = IF r \in stream.ever THEN Cardinality(stream.ever) ELSE Cardinality(stream.ever) + 1
    <3>1. Cardinality(Paid \ {r}) = IF r \in Paid THEN Cardinality(Paid) - 1 ELSE Cardinality(Paid)
      BY <2>2, FS_RemoveElement, Zenon
    <3>2. IsFiniteSet(stream.ever)
      BY Zenon DEF StreamInv
    <3>3. /\ IsFiniteSet(stream.ever \cup {r})
          /\ Cardinality(stream.ever \cup {r}) = IF r \in stream.ever THEN Cardinality(stream.ever) ELSE Cardinality(stream.ever) + 1
      BY <3>2, FS_AddElement, Zenon
    <3> QED
      BY <2>1, <3>1, <3>3, Zenon
  <2>6. stream'.last + Cardinality(Paid \ {r}) <= Cardinality(stream'.ever) + windows
    <3>1. stream.last \in Nat /\ windows \in Nat /\ stream.last + Cardinality(Paid) <= Cardinality(stream.ever) + windows
      BY Zenon DEF TypeOK, StreamInv, Paid
    <3> QED
      BY <2>1, <2>2, <2>4, <2>5, <3>1, SMTT(30)
  <2> QED
    BY <2>1, <2>3, <2>5, <2>6, Zenon DEF StreamInv, Paid
<1> QED
  BY <1>1, <1>2, Zenon

\* The window of an id passes.
LEMMA ForgetStream ==
    ASSUME TypeOK, StreamInv, NEW r \in stream.recent, stream' = ForgetId(stream, r), windows' = windows + 1
    PROVE  /\ stream' \in [msg : {stream'.msg}, recent : SUBSET Row, ever : SUBSET Row, last : Nat]
           /\ StreamInv'
           /\ stream'.ever = stream.ever
<1>1. /\ stream' \in [msg : {stream'.msg}, recent : SUBSET Row, ever : SUBSET Row, last : Nat]
      /\ stream'.recent = stream.recent \ {r}
      /\ stream'.ever = stream.ever
      /\ stream'.last = stream.last
  BY Zenon DEF ForgetId, TypeOK
<1> DEFINE Paid == stream.ever \ stream.recent
<1>2. IsFiniteSet(Paid) /\ Cardinality(Paid) \in Nat /\ Cardinality(stream.ever) \in Nat
  BY FS_Subset, FS_CardinalityType, Zenon DEF StreamInv
<1>3. stream'.ever \ stream'.recent = Paid \cup {r} /\ r \notin Paid
  BY <1>1, Zenon DEF StreamInv
<1>4. stream.last \in Nat /\ windows \in Nat /\ stream.last + Cardinality(Paid) <= Cardinality(stream.ever) + windows
  BY Zenon DEF TypeOK, StreamInv
<1> HIDE DEF Paid
<1>5. Cardinality(Paid \cup {r}) = Cardinality(Paid) + 1
  BY <1>2, <1>3, FS_AddElement, Zenon
<1>6. stream.last + Cardinality(Paid \cup {r}) <= Cardinality(stream.ever) + (windows + 1)
  BY <1>2, <1>4, <1>5, SMTT(30)
<1> QED
  BY <1>1, <1>3, <1>6, Zenon DEF StreamInv

\* A step that keeps the stream, in which replica d moves without starting to
\* mark a row, and that publishes nothing.
Quiet(d) ==
    /\ Moves(d)
    /\ disp'[d].pc # "mark"
    /\ UNCHANGED <<stream, windows>>
    /\ outbox' \in [Row -> OutboxRow]
    /\ LeaseInv'
    /\ \A r \in Row : outbox'[r].pub => outbox[r].pub \/ r \in stream.ever

LEMMA QuietKeeps ==
    ASSUME DispatcherInv, NEW d \in Dispatcher, Quiet(d)
    PROVE  DispatcherInv'
<1> USE DEF DispatcherInv, Quiet, Moves
<1>1. TypeOK'
  BY Zenon DEF TypeOK, Replica, Pc, OutboxRow
<1>2. StreamInv'
  BY Zenon DEF StreamInv
<1>3. MarkInv'
  BY Zenon DEF MarkInv, TypeOK
<1>4. AwayInv'
  BY Zenon DEF AwayInv, TypeOK, Ready
<1>5. PublishedIsDelivered'
  BY Zenon DEF PublishedIsDelivered
<1> QED
  BY <1>1, <1>2, <1>3, <1>4, <1>5, Zenon

\* Leasing rows that are due and not leased.
LEMMA LeasedRows ==
    ASSUME TypeOK, LeaseInv, NEW d \in Dispatcher, NEW R \in SUBSET Claimable,
           outbox' \in {outbox, Leased(d, R)}
    PROVE  /\ outbox' \in [Row -> OutboxRow]
           /\ LeaseInv'
           /\ \A r \in Row : outbox'[r].pub = outbox[r].pub
<1> DEFINE T == OutboxRow
<1>1. outbox \in [Row -> T]
  BY Zenon DEF TypeOK, OutboxRow
<1>2. \A r \in Row : outbox[r] \in [pub : BOOLEAN, owner : Dispatcher \cup {NoOwner}, live : BOOLEAN, due : BOOLEAN]
  BY Zenon DEF TypeOK
<1>3. ASSUME NEW r \in Row
      PROVE  /\ [outbox[r] EXCEPT !.owner = d, !.live = TRUE] \in T
             /\ [outbox[r] EXCEPT !.owner = d, !.live = TRUE].pub = outbox[r].pub
             /\ [outbox[r] EXCEPT !.owner = d, !.live = TRUE].due = outbox[r].due
  BY <1>2, ZenonT(30) DEF OutboxRow
<1>4. R \subseteq Row /\ \A r \in R : outbox[r].due
  BY <1>1, Zenon DEF Claimable
<1> HIDE DEF T
<1>5. CASE outbox' = outbox
  BY <1>1, <1>5, Zenon DEF LeaseInv, T
<1>6. CASE outbox' = Leased(d, R)
  <2>1. outbox' = [r \in Row |-> IF r \in R THEN [outbox[r] EXCEPT !.owner = d, !.live = TRUE] ELSE outbox[r]]
    BY <1>1, <1>6, ZenonT(30) DEF Leased
  <2> QED
    BY <1>1, <1>3, <1>4, <2>1, Zenon DEF LeaseInv, T
<1> QED
  BY <1>5, <1>6, Zenon

\* Giving a row back, published or for a later attempt.
LEMMA FreedRows ==
    ASSUME TypeOK, LeaseInv, NEW r \in Row, NEW pub \in BOOLEAN, outbox' \in {outbox, Freed(r, pub)}
    PROVE  /\ outbox' \in [Row -> OutboxRow]
           /\ LeaseInv'
           /\ \A q \in Row : outbox'[q].pub => outbox[q].pub \/ (q = r /\ pub)
<1> DEFINE T == OutboxRow
           n == [pub |-> pub, owner |-> NoOwner, live |-> FALSE, due |-> pub]
<1>1. outbox \in [Row -> T]
  BY Zenon DEF TypeOK, OutboxRow
<1>2. n \in T /\ n.pub = pub /\ ~n.live
  BY Zenon DEF OutboxRow
<1>3. Freed(r, pub) = [outbox EXCEPT ![r] = n]
  BY Zenon DEF Freed
<1> HIDE DEF T, n
<1> QED
  BY <1>1, <1>2, <1>3, Zenon DEF LeaseInv, T

\* Connecting, failing to, a failed probe, a stop and a restart.
LEMMA ConnectionKeeps ==
    ASSUME DispatcherInv, NEW d \in Dispatcher,
           Connect(d) \/ NatsProbeFails(d) \/ Stops(d) \/ Restart(d)
    PROVE  DispatcherInv'
<1> USE DEF DispatcherInv
<1>1. UNCHANGED <<outbox, stream, windows>>
  BY Zenon DEF Connect, NatsProbeFails, Stops, Restart, Fault, bounds
<1>2. Moves(d) /\ disp'[d].pc # "mark"
  <2>1. CASE \/ \E f \in {"postgres", "jetstream"} : Reconnect(d, f)
             \/ Terminal(d)
             \/ disp' = [disp EXCEPT ![d] = NoneIn("down", SetFlag(@.ready, "alive", FALSE))]
    BY <2>1, LeavesLoop, Zenon
  <2>2. CASE disp' = [disp EXCEPT ![d] = NoneIn("connect", NewReadiness)]
    <3> DEFINE rep == NoneIn("connect", NewReadiness)
    <3>1. rep \in Replica /\ rep.pc = "connect"
      BY SMTT(30) DEF NoneIn, NewReadiness, Replica, Pc
    <3>2. "active" \in Flag /\ ~rep.ready["active"]
      BY Zenon DEF NoneIn, NewReadiness, Flag
    <3> HIDE DEF rep
    <3> QED
      BY <2>2, <3>1, <3>2, MovesTo, Zenon DEF rep
  <2>3. CASE LET up == [f \in Flag |-> f # "active" \/ disp[d].ready[f]]
             IN  disp' = [disp EXCEPT ![d].pc = "claim", ![d].ready = [up EXCEPT !["integrity"] = @ /\ disp[d].ready["integrity"]]]
    <3> DEFINE up == [f \in Flag |-> f # "active" \/ disp[d].ready[f]]
               r == [up EXCEPT !["integrity"] = @ /\ disp[d].ready["integrity"]]
    <3>1. r \in [Flag -> BOOLEAN]
      BY ZenonT(30)
    <3>2. disp' = [disp EXCEPT ![d].pc = "claim", ![d].ready = r]
      BY <2>3, Zenon
    <3> HIDE DEF r
    <3> DEFINE rep == [disp[d] EXCEPT !.pc = "claim", !.ready = r]
    <3>3. rep \in Replica /\ rep.pc = "claim"
      BY <3>1, ZenonT(30) DEF TypeOK, Replica, Pc, Working
    <3>4. disp' = [disp EXCEPT ![d] = rep]
      BY <3>2, Zenon
    <3> HIDE DEF rep
    <3> QED
      BY <3>3, <3>4, MovesTo, Zenon
  <2> QED
    BY <2>1, <2>2, <2>3, Zenon DEF Connect, NatsProbeFails, Stops, Restart
<1>3. outbox' \in [Row -> OutboxRow] /\ LeaseInv'
  BY <1>1, Zenon DEF TypeOK, OutboxRow, LeaseInv
<1> QED
  BY <1>1, <1>2, <1>3, QuietKeeps, Zenon DEF Quiet

\* A claim leases rows; the batch it holds is the rows it leased.
LEMMA ClaimKeeps ==
    ASSUME DispatcherInv, NEW d \in Dispatcher, claim_batch(d)
    PROVE  DispatcherInv'
<1> USE DEF DispatcherInv
<1>1. PICK R \in SUBSET Claimable :
         /\ outbox' \in {outbox, Leased(d, R)}
         /\ \/ disp' = [disp EXCEPT ![d].rows = R,
                                    ![d].pc = IF R = {} THEN "claim" ELSE "publish",
                                    ![d].ready = IF R = {} THEN [@ EXCEPT !["postgres"] = TRUE, !["active"] = TRUE]
                                                 ELSE [@ EXCEPT !["postgres"] = TRUE]]
            \/ Reconnect(d, "postgres")
            \/ Terminal(d)
  BY ZenonT(30) DEF claim_batch
<1>2. UNCHANGED <<stream, windows>>
  BY Zenon DEF claim_batch, Fault, bounds
<1>3. Moves(d) /\ disp'[d].pc # "mark"
  <2>1. CASE Reconnect(d, "postgres") \/ Terminal(d)
    BY <2>1, LeavesLoop, Zenon
  <2>2. CASE ~(Reconnect(d, "postgres") \/ Terminal(d))
    <3> DEFINE ready == IF R = {} THEN [disp[d].ready EXCEPT !["postgres"] = TRUE, !["active"] = TRUE]
                        ELSE [disp[d].ready EXCEPT !["postgres"] = TRUE]
               pc == IF R = {} THEN "claim" ELSE "publish"
               rep == [disp[d] EXCEPT !.rows = R, !.pc = pc, !.ready = ready]
    <3>1. disp[d].ready \in [Flag -> BOOLEAN] /\ R \in SUBSET Row
      BY Zenon DEF TypeOK, Claimable
    <3>2. ready \in [Flag -> BOOLEAN] /\ pc \in {"claim", "publish"}
      BY <3>1, Zenon
    <3>3. disp' = [disp EXCEPT ![d] = rep]
      BY <1>1, <2>2, ZenonT(30)
    <3> HIDE DEF ready, pc
    <3>4. rep \in Replica /\ rep.pc \in {"claim", "publish"}
      BY <3>1, <3>2, ZenonT(30) DEF TypeOK, Replica, Pc, Working
    <3> HIDE DEF rep
    <3> QED
      BY <3>3, <3>4, MovesTo, Zenon
  <2> QED
    BY <2>1, <2>2, Zenon
<1> QED
  BY <1>1, <1>2, <1>3, LeasedRows, QuietKeeps, Zenon DEF Quiet

\* A row goes to be marked only after the stream took it.
LEMMA PublishKeeps ==
    ASSUME DispatcherInv, NEW d \in Dispatcher, NEW r \in Row, publish(d, r)
    PROVE  DispatcherInv'
<1> USE DEF DispatcherInv
<1>1. UNCHANGED <<outbox, windows>>
  BY Zenon DEF publish, Fault, bounds
<1>2. /\ stream' \in [msg : {stream'.msg}, recent : SUBSET Row, ever : SUBSET Row, last : Nat]
      /\ StreamInv'
      /\ stream.ever \subseteq stream'.ever
  <2>1. CASE stream' = stream
    BY <1>1, <2>1, Zenon DEF TypeOK, StreamInv
  <2>2. CASE stream' = PublishTo(stream, r)
    BY <1>1, <2>2, PublishStream, Zenon
  <2> QED
    BY <2>1, <2>2, Zenon DEF publish
<1>3. /\ Moves(d)
      /\ disp'[d].pc = "mark" => disp'[d].cur \subseteq stream'.ever
  <2>1. ASSUME NEW pc \in {"mark", "release"},
               disp' = [disp EXCEPT ![d].pc = pc, ![d].rows = @ \ {r}, ![d].cur = {r}]
        PROVE  Moves(d) /\ disp'[d].cur = {r} /\ disp'[d].pc = pc
    <3> DEFINE rep == [disp[d] EXCEPT !.pc = pc, !.rows = @ \ {r}, !.cur = {r}]
    <3>1. rep \in Replica /\ rep.pc = pc /\ rep.cur = {r}
      BY ZenonT(30) DEF TypeOK, Replica, Pc, Working
    <3>2. disp' = [disp EXCEPT ![d] = rep]
      BY <2>1, Zenon
    <3> HIDE DEF rep
    <3> QED
      BY <3>1, <3>2, MovesTo, Zenon
  <2>2. CASE stream' = PublishTo(stream, r)
             /\ disp' = [disp EXCEPT ![d].pc = "mark", ![d].rows = @ \ {r}, ![d].cur = {r}]
    BY <1>1, <2>1, <2>2, PublishStream, ZenonT(30)
  <2>3. CASE disp' = [disp EXCEPT ![d].pc = "release", ![d].rows = @ \ {r}, ![d].cur = {r}]
    BY <2>1, <2>3, Zenon
  <2>4. CASE Terminal(d)
    BY <2>4, LeavesLoop, ZenonT(30)
  <2> QED
    BY <2>2, <2>3, <2>4, ZenonT(30) DEF publish
<1>4. TypeOK'
  BY <1>1, <1>2, <1>3, Zenon DEF TypeOK, Moves, Replica, Pc
<1>5. MarkInv'
  BY <1>2, <1>3, Zenon DEF MarkInv, Moves
<1>6. LeaseInv' /\ PublishedIsDelivered'
  BY <1>1, <1>2, Zenon DEF LeaseInv, PublishedIsDelivered
<1>7. AwayInv'
  BY <1>3, Zenon DEF AwayInv, Moves, Ready
<1> QED
  BY <1>2, <1>4, <1>5, <1>6, <1>7, Zenon

\* The end of a claim frees the row it holds, or leaves the loop.
LEMMA EndClaimKeeps ==
    ASSUME DispatcherInv, NEW d \in Dispatcher, mark_published(d) \/ release_for_retry(d)
    PROVE  DispatcherInv'
<1> USE DEF DispatcherInv
<1>1. UNCHANGED <<stream, windows>>
  BY Zenon DEF mark_published, release_for_retry, Fault, bounds
<1>2. PICK r \in Row, pub \in BOOLEAN :
         /\ outbox' \in {outbox, Freed(r, pub)}
         /\ pub => r \in stream.ever
  <2>1. CASE mark_published(d)
    <3>1. disp[d].cur \subseteq Row /\ disp[d].cur \subseteq stream.ever
      BY <2>1, Zenon DEF mark_published, MarkInv, TypeOK
    <3> QED
      BY <2>1, <3>1, Zenon DEF mark_published
  <2>2. CASE release_for_retry(d)
    <3>1. disp[d].cur \subseteq Row
      BY Zenon DEF TypeOK
    <3> QED
      BY <2>2, <3>1, Zenon DEF release_for_retry
  <2> QED
    BY <2>1, <2>2, Zenon
<1>3. Moves(d) /\ disp'[d].pc # "mark"
  <2>1. CASE \E f \in {"postgres", "jetstream"} : Reconnect(d, f)
    BY <2>1, LeavesLoop, Zenon
  <2>2. CASE Continue(d)
    <3> DEFINE pc == IF disp[d].pc = "mark" /\ disp[d].rows # {} THEN "publish" ELSE "claim"
               ready == IF disp[d].rows # {} THEN disp[d].ready
                        ELSE [disp[d].ready EXCEPT !["postgres"] = TRUE, !["active"] = TRUE]
               rep == [disp[d] EXCEPT !.cur = {}, !.pc = pc, !.ready = ready]
    <3>1. disp[d].ready \in [Flag -> BOOLEAN]
      BY Zenon DEF TypeOK
    <3>2. ready \in [Flag -> BOOLEAN] /\ pc \in {"claim", "publish"}
      BY <3>1, Zenon
    <3>3. disp' = [disp EXCEPT ![d] = rep]
      BY <2>2, Zenon DEF Continue
    <3> HIDE DEF ready, pc
    <3>4. rep \in Replica /\ rep.pc \in {"claim", "publish"}
      BY <3>1, <3>2, ZenonT(30) DEF TypeOK, Replica, Pc, Working
    <3> HIDE DEF rep
    <3> QED
      BY <3>3, <3>4, MovesTo, Zenon
  <2> QED
    BY <2>1, <2>2, Zenon DEF mark_published, release_for_retry
<1> QED
  BY <1>1, <1>2, <1>3, FreedRows, QuietKeeps, ZenonT(30) DEF Quiet

\* Time: a lease expires, a row becomes due, a duplicate window passes.
LEMMA TimeKeeps ==
    ASSUME DispatcherInv, NEW r \in Row, LeaseExpires(r) \/ BecomesDue(r) \/ WindowPasses(r)
    PROVE  DispatcherInv'
<1> USE DEF DispatcherInv
<1>1. disp' = disp
  BY Zenon DEF LeaseExpires, BecomesDue, WindowPasses
<1>2. /\ outbox' \in [Row -> OutboxRow]
      /\ LeaseInv'
      /\ \A q \in Row : outbox'[q].pub = outbox[q].pub
  <2> DEFINE off == [outbox[r] EXCEPT !.live = FALSE]
             due == [outbox[r] EXCEPT !.due = TRUE]
             T == OutboxRow
  <2>1. outbox \in [Row -> T]
    BY Zenon DEF TypeOK, OutboxRow
  <2>2. /\ off \in T /\ off.pub = outbox[r].pub /\ ~off.live
        /\ due \in T /\ due.pub = outbox[r].pub /\ due.due
    <3>1. outbox[r] \in [pub : BOOLEAN, owner : Dispatcher \cup {NoOwner}, live : BOOLEAN, due : BOOLEAN]
      BY Zenon DEF TypeOK
    <3>2. off \in T /\ off.pub = outbox[r].pub /\ ~off.live
      BY <3>1, Zenon DEF OutboxRow
    <3>3. due \in T /\ due.pub = outbox[r].pub /\ due.due
      BY <3>1, ZenonT(30) DEF OutboxRow
    <3> QED
      BY <3>2, <3>3, Zenon
  <2>3. outbox' \in {outbox, [outbox EXCEPT ![r] = off], [outbox EXCEPT ![r] = due]}
    BY Zenon DEF LeaseExpires, BecomesDue, WindowPasses
  <2> HIDE DEF off, due, T
  <2> QED
    BY <2>1, <2>2, <2>3, Zenon DEF LeaseInv, T
<1>3. /\ stream' \in [msg : {stream'.msg}, recent : SUBSET Row, ever : SUBSET Row, last : Nat]
      /\ StreamInv'
      /\ stream'.ever = stream.ever
      /\ windows' \in Nat
  <2>1. CASE WindowPasses(r)
    BY <2>1, ForgetStream, SMTT(30) DEF WindowPasses, TypeOK
  <2>2. CASE LeaseExpires(r) \/ BecomesDue(r)
    BY <2>2, ZenonT(30) DEF LeaseExpires, BecomesDue, bounds, TypeOK, StreamInv
  <2> QED
    BY <2>1, <2>2, Zenon
<1>4. TypeOK'
  BY <1>1, <1>2, <1>3, Zenon DEF TypeOK, OutboxRow
<1>5. MarkInv' /\ AwayInv' /\ PublishedIsDelivered'
  BY <1>1, <1>2, <1>3, Zenon DEF MarkInv, AwayInv, Ready, PublishedIsDelivered
<1> QED
  BY <1>2, <1>3, <1>4, <1>5, Zenon

\* The invariant of the dispatcher, for every number of replicas and rows and
\* every sequence of faults: what dispatch_once and the statements of
\* engine_outbox.rs keep true.
THEOREM DispatcherInvariance == Spec => []DispatcherInv
<1>1. Init => DispatcherInv
  <2> SUFFICES ASSUME Init PROVE DispatcherInv
    BY Zenon
  <2> USE DEF Init
  <2>1. TypeOK
    BY SMTT(30) DEF TypeOK, NewOutboxRow, EmptyStream, NoneIn, NewReadiness
  <2>2. StreamInv
    <3>1. stream.ever = {} /\ stream.recent = {} /\ stream.last = 0 /\ windows = 0
      BY Zenon DEF EmptyStream
    <3>2. stream.ever \ stream.recent = {}
      BY <3>1, Zenon
    <3> QED
      BY <3>1, <3>2, FS_EmptySet, SMTT(30) DEF StreamInv
  <2>3. MarkInv /\ LeaseInv /\ PublishedIsDelivered
    BY Zenon DEF MarkInv, LeaseInv, PublishedIsDelivered, NewOutboxRow, NoneIn
  <2>4. AwayInv
    <3>1. "active" \in Flag /\ ~NewReadiness["active"]
      BY Zenon DEF Flag, NewReadiness
    <3> QED
      BY <3>1, Zenon DEF AwayInv, Ready, NoneIn
  <2> QED
    BY <2>1, <2>2, <2>3, <2>4, Zenon DEF DispatcherInv
<1>2. DispatcherInv /\ [Next]_vars => DispatcherInv'
  <2> SUFFICES ASSUME DispatcherInv, [Next]_vars PROVE DispatcherInv'
    BY Zenon
  <2>1. CASE UNCHANGED vars
    <3>1. outbox' = outbox /\ stream' = stream /\ disp' = disp /\ windows' = windows
      BY <2>1, Zenon DEF vars
    <3> QED
      BY <3>1, Zenon DEF DispatcherInv, TypeOK, StreamInv, MarkInv, LeaseInv, AwayInv, Ready, PublishedIsDelivered
  <2>2. CASE \E d \in Dispatcher : Steps(d) \/ NatsProbeFails(d) \/ Stops(d)
    BY <2>2, ConnectionKeeps, ClaimKeeps, PublishKeeps, EndClaimKeeps, Zenon DEF Steps
  <2>3. CASE \E r \in Row : LeaseExpires(r) \/ BecomesDue(r) \/ WindowPasses(r)
    BY <2>3, TimeKeeps, Zenon
  <2> QED
    BY <2>1, <2>2, <2>3, Zenon DEF Next
<1> QED
  BY <1>1, <1>2, PTL DEF Spec

\* mark_published is only ever executed for a row the stream has stored, so a
\* row that says published has been delivered to the engine's stream.
THEOREM Delivered == Spec => []PublishedIsDelivered
<1>1. DispatcherInv => PublishedIsDelivered
  BY Zenon DEF DispatcherInv
<1> QED
  BY <1>1, DispatcherInvariance, PTL

\* Publishing under the row's own id leaves at most one copy per row and per
\* duplicate window that passed, however often publish is repeated.
THEOREM Copies == Spec => []CopiesBounded
<1>1. DispatcherInv => CopiesBounded
  <2> SUFFICES ASSUME DispatcherInv PROVE CopiesBounded
    BY Zenon
  <2>1. IsFiniteSet(stream.ever \ stream.recent)
    BY FS_Subset, Zenon DEF DispatcherInv, StreamInv
  <2>2. Cardinality(stream.ever \ stream.recent) \in Nat /\ Cardinality(stream.ever) \in Nat
    BY <2>1, FS_CardinalityType, Zenon DEF DispatcherInv, StreamInv
  <2> QED
    BY <2>2, SMTT(30) DEF DispatcherInv, StreamInv, TypeOK, CopiesBounded
<1> QED
  BY <1>1, DispatcherInvariance, PTL

\* DispatcherReadiness: no replica reports ready while it connects or is down.
THEOREM Honest == Spec => []ReadyIsHonest
<1>1. DispatcherInv => ReadyIsHonest
  BY Zenon DEF DispatcherInv, AwayInv, ReadyIsHonest, TypeOK
<1> QED
  BY <1>1, DispatcherInvariance, PTL

\* While a lease lives, the claim, mark and release statements of other
\* replicas do not touch its row.
THEOREM Leases == Spec => LeaseHonoured
<1> DEFINE Kept == \A r \in Row : \A d \in Dispatcher :
                     outbox[r].owner = d /\ outbox[r].live /\ r \in Held(d) /\ disp'[d] = disp[d]
                       => outbox'[r] = [outbox[r] EXCEPT !.live = outbox'[r].live]
<1>1. DispatcherInv /\ [Next]_vars => [Kept]_vars
  <2> SUFFICES ASSUME DispatcherInv, Next, NEW r \in Row, NEW d \in Dispatcher,
                      outbox[r].owner = d, outbox[r].live, disp'[d] = disp[d]
               PROVE  outbox'[r] = [outbox[r] EXCEPT !.live = outbox'[r].live]
    BY Zenon
  <2> USE DEF DispatcherInv
  <2>1. outbox \in [Row -> OutboxRow] /\ outbox[r] \in OutboxRow
    BY Zenon DEF TypeOK, OutboxRow
  <2>2. outbox[r] = [outbox[r] EXCEPT !.live = outbox[r].live]
    BY <2>1, Zenon DEF OutboxRow
  <2>3. CASE outbox'[r] = outbox[r]
    BY <2>2, <2>3, Zenon
  <2>4. CASE \E e \in Dispatcher : Connect(e) \/ NatsProbeFails(e) \/ Stops(e) \/ Restart(e)
    BY <2>3, <2>4, ZenonT(30) DEF Connect, NatsProbeFails, Stops, Restart
  <2>5. CASE \E e \in Dispatcher : claim_batch(e)
    <3>1. PICK e \in Dispatcher, R \in SUBSET Claimable : outbox' \in {outbox, Leased(e, R)}
      BY <2>5, ZenonT(30) DEF claim_batch
    <3>2. r \notin R /\ DOMAIN outbox = Row
      BY <2>1, Zenon DEF Claimable
    <3> QED
      BY <2>3, <3>1, <3>2, Zenon DEF Leased
  <2>6. CASE \E e \in Dispatcher : \E q \in Row : publish(e, q)
    BY <2>3, <2>6, Zenon DEF publish
  <2>7. CASE \E e \in Dispatcher : mark_published(e) \/ release_for_retry(e)
    <3>1. PICK e \in Dispatcher : mark_published(e) \/ release_for_retry(e)
      BY <2>7, Zenon
    <3>2. disp[e].pc \in {"mark", "release"} /\ disp'[e].pc \notin {"mark", "release"}
      <4>1. CASE \E f \in {"postgres", "jetstream"} : Reconnect(e, f)
        BY <3>1, <4>1, LeavesLoop, Zenon DEF mark_published, release_for_retry
      <4>2. CASE Continue(e)
        BY <3>1, <4>2, ZenonT(30) DEF mark_published, release_for_retry, Continue, TypeOK
      <4> QED
        BY <3>1, <4>1, <4>2, Zenon DEF mark_published, release_for_retry
    <3>3. e # d
      BY <3>2, Zenon
    <3>4. outbox' = outbox \/ \E q \in disp[e].cur, pub \in BOOLEAN : Owns(e, q) /\ outbox' = Freed(q, pub)
      BY <3>1, ZenonT(30) DEF mark_published, release_for_retry
    <3>5. outbox'[r] = outbox[r]
      BY <2>1, <3>3, <3>4, Zenon DEF Owns, Freed
    <3> QED
      BY <2>3, <3>5, Zenon
  <2>8. CASE \E q \in Row : LeaseExpires(q)
    <3>1. PICK q \in Row : outbox' = [outbox EXCEPT ![q].live = FALSE]
      BY <2>8, ZenonT(30) DEF LeaseExpires
    <3> QED
      BY <2>1, <2>3, <3>1, Zenon DEF OutboxRow
  <2>9. CASE \E q \in Row : BecomesDue(q)
    <3>1. PICK q \in Row : ~outbox[q].due /\ outbox' = [outbox EXCEPT ![q].due = TRUE]
      BY <2>9, Zenon DEF BecomesDue
    <3>2. q # r
      BY <3>1, Zenon DEF LeaseInv
    <3> QED
      BY <2>1, <2>3, <3>1, <3>2, Zenon
  <2>10. CASE \E q \in Row : WindowPasses(q)
    BY <2>3, <2>10, Zenon DEF WindowPasses
  <2> QED
    BY <2>4, <2>5, <2>6, <2>7, <2>8, <2>9, <2>10, Zenon DEF Next, Steps
<1> QED
  BY <1>1, DispatcherInvariance, PTL DEF Spec, LeaseHonoured
=============================================================================
