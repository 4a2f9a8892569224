--------------------------- MODULE RotationProofs ---------------------------
(***************************************************************************)
(* The rotation of the executor contract, for any number of consumers,     *)
(* settings, releases, contracts, requests, faults and crashes: a consumer *)
(* runs only with a prepared contract, all consumers run with the same     *)
(* one, no direct request of the old executor is left once one runs with a *)
(* new one, and a rolled back release does not rotate again.               *)
(***************************************************************************)
EXTENDS ExecutorRotation, SequenceTheorems, TLAPS

\* The plan has a finite list of settings; there is a release to rotate in.
PlanAssumption == Settings \in Seq(STRING) /\ MaxContracts \in Nat /\ Releases \in Nat \ {0}

Release == 1 .. Releases

-----------------------------------------------------------------------------
(* The inductive invariant.                                                *)

JournalFields == {"c", "hashes", "verified", "spl", "drained", "started", "cut", "reconciled", "used", "restored"}

IsJournal(j) == j = [f \in JournalFields |-> j[f]]
IsContract(k) == k = [f \in {"set", "paused", "live"} |-> k[f]]
IsRow(r) == r = [f \in {"id", "lane", "exec", "status", "from"} |-> r[f]]
IsOp(o) == o = [f \in {"mode", "pc", "at", "why"} |-> o[f]]

Transaction == [c : Identity, call : Setting \cup {"create", "unpause"}]

FilesShape ==
    /\ release \in Release
    /\ journal = [r \in Release |-> journal[r]]
    /\ \A r \in Release : IsJournal(journal[r]) /\ journal[r].c \in Identity

ChainShape ==
    /\ contract = [c \in Contract |-> contract[c]]
    /\ \A c \in Contract : IsContract(contract[c])
    /\ pool \in Seq(Transaction)

RowsShape == \A r \in rows : IsRow(r)

OpShape ==
    /\ IsOp(op)
    /\ op.pc = "created" => op.at \in Contract
    /\ op.pc \in {"call", "receipt", "check"} => op.at \in 1 .. Len(Calls)

ShapeInv == FilesShape /\ ChainShape /\ RowsShape /\ OpShape

\* The positions at which no consumer runs, and those of them after the
\* second drain.
StoppedPc == {"c-drain", "c-drained", "c-env", "c-up", "r-env", "r-up"}
DrainedPc == {"c-drained", "c-env", "c-up"}

NoOldDirect == \A r \in rows : r.lane = "direct" /\ r.exec = Old => r.status \notin Open

ConsumerInv ==
    /\ OneIdentity
    /\ NoOldWork
    /\ op.pc \in StoppedPc => svc = {}
    /\ op.pc \in DrainedPc => NoOldDirect
    /\ op.pc = "r-up" => env = Old

\* The positions between the start of a cutover and the new environment.
CutoverPc == {"c-stop", "c-drain", "c-drained", "c-env"}
MayCutOverTo(j) == j.verified /\ j.drained /\ j.started /\ ~j.used

JournalInv ==
    /\ \A r \in Release : journal[r].c \in Contract => contract[journal[r].c].live
    /\ \A r \in Release : journal[r].verified /\ journal[r].c \in Contract => Exact(journal[r].c, FALSE)
    /\ \A r \in Release : r > release => journal[r].c = Old
    /\ NewIsPrepared
    /\ release # Legacy /\ J.c # Old /\ J.c = journal[Legacy].c => ~journal[Legacy].used
    /\ op.pc \in CutoverPc => MayCutOverTo(J)
    /\ op.pc = "created" => J.c = Old /\ \A r \in Release : journal[r].c # op.at

RotationInv == ShapeInv /\ ConsumerInv /\ JournalInv

-----------------------------------------------------------------------------
(* Records.                                                                *)

\* What the invariants read of a journal.
Agree(k, j) ==
    /\ IsJournal(k) /\ k.c = j.c
    /\ k.verified = j.verified /\ k.drained = j.drained /\ k.started = j.started /\ k.used = j.used

\* Writing one field of a journal leaves the others.
LEMMA JournalUpdates ==
    ASSUME NEW j, IsJournal(j)
    PROVE  /\ Agree([j EXCEPT !.hashes = @ + 1], j)
           /\ Agree([j EXCEPT !.spl = TRUE], j)
           /\ Agree([j EXCEPT !.cut = TRUE], j)
           /\ Agree([j EXCEPT !.reconciled = TRUE], j)
           /\ Agree([j EXCEPT !.restored = TRUE], j)
<1>1. Agree([j EXCEPT !.hashes = @ + 1], j)
  BY Zenon DEF Agree, IsJournal, JournalFields
<1>2. Agree([j EXCEPT !.spl = TRUE], j)
  BY Zenon DEF Agree, IsJournal, JournalFields
<1>3. Agree([j EXCEPT !.cut = TRUE], j)
  BY Zenon DEF Agree, IsJournal, JournalFields
<1>4. Agree([j EXCEPT !.reconciled = TRUE], j)
  BY Zenon DEF Agree, IsJournal, JournalFields
<1>5. Agree([j EXCEPT !.restored = TRUE], j)
  BY Zenon DEF Agree, IsJournal, JournalFields
<1> QED
  BY <1>1, <1>2, <1>3, <1>4, <1>5, Zenon

\* Setting one of the four marks keeps the address and the other marks.
LEMMA JournalMarks ==
    ASSUME NEW j, IsJournal(j), NEW f \in {"verified", "drained", "started", "used"}
    PROVE  LET k == [j EXCEPT ![f] = TRUE] IN
           /\ IsJournal(k) /\ k.c = j.c /\ k[f] = TRUE
           /\ "verified" # f => k.verified = j.verified
           /\ "drained" # f => k.drained = j.drained
           /\ "started" # f => k.started = j.started
           /\ "used" # f => k.used = j.used
  BY ZenonT(30) DEF IsJournal, JournalFields

\* An empty journal, and the one written for a new contract.
LEMMA NewJournal ==
    ASSUME NEW c
    PROVE  /\ IsJournal(NoJournal) /\ NoJournal.c = Old
           /\ IsJournal([NoJournal EXCEPT !.c = c])
           /\ [NoJournal EXCEPT !.c = c].c = c
           /\ ~[NoJournal EXCEPT !.c = c].verified
           /\ ~[NoJournal EXCEPT !.c = c].used
<1>1. IsJournal(NoJournal) /\ NoJournal.c = Old /\ NoJournal.verified = FALSE /\ NoJournal.used = FALSE
  BY SMTT(30) DEF IsJournal, JournalFields, NoJournal
<1> QED
  BY <1>1, Zenon DEF IsJournal, JournalFields

\* The moves of the running command.
LEMMA IdleOp == Idle.pc = "idle" /\ IsOp(Idle)
  BY SMTT(30) DEF Idle, IsOp

LEMMA GotoOp ==
    ASSUME NEW o, IsOp(o), NEW x
    PROVE  [o EXCEPT !.pc = x].pc = x /\ [o EXCEPT !.pc = x].at = o.at /\ IsOp([o EXCEPT !.pc = x])
  BY Zenon DEF IsOp

LEMMA GotoAtOp ==
    ASSUME NEW o, IsOp(o), NEW x, NEW y
    PROVE  /\ [o EXCEPT !.pc = x, !.at = y].pc = x /\ [o EXCEPT !.pc = x, !.at = y].at = y
           /\ IsOp([o EXCEPT !.pc = x, !.at = y])
  BY Zenon DEF IsOp

LEMMA RollbackOp ==
    ASSUME NEW o, IsOp(o), NEW x, NEW y
    PROVE  [o EXCEPT !.pc = x, !.why = y].pc = x /\ IsOp([o EXCEPT !.pc = x, !.why = y])
  BY Zenon DEF IsOp

\* The calls of the configuration.
LEMMA CallTypes ==
    ASSUME PlanAssumption
    PROVE  /\ Len(Settings) \in Nat /\ Len(Calls) = Len(Settings) + 1
           /\ \A i \in 1 .. Len(Calls) : Calls[i] \in Setting \cup {"create", "unpause"}
<1>1. Settings \in Seq(STRING) /\ Len(Settings) \in Nat /\ DOMAIN Settings = 1 .. Len(Settings)
  BY LenProperties, SMTT(30) DEF PlanAssumption
<1>2. /\ Len(Calls) = Len(Settings) + 1
      /\ \A i \in 1 .. Len(Settings) : Calls[i] = Settings[i]
      /\ Calls[Len(Settings) + 1] = "unpause"
  BY <1>1, AppendProperties, SMTT(30) DEF Calls
<1>3. ASSUME NEW i \in 1 .. Len(Calls) PROVE Calls[i] \in Setting \cup {"create", "unpause"}
  <2>1. CASE i = Len(Settings) + 1
    BY <1>2, <2>1, Zenon
  <2>2. CASE i \in 1 .. Len(Settings)
    BY <1>1, <1>2, <2>2, Zenon DEF Setting
  <2> QED
    BY <1>1, <1>2, <1>3, <2>1, <2>2, SMTT(30)
<1> QED
  BY <1>1, <1>2, <1>3, Zenon

-----------------------------------------------------------------------------
(* Frames.                                                                 *)

\* What is left alone keeps its shape.
LEMMA ShapesKept ==
    ASSUME ShapeInv
    PROVE  /\ UNCHANGED files => FilesShape'
           /\ UNCHANGED chain => ChainShape'
           /\ UNCHANGED rows => RowsShape'
           /\ UNCHANGED op => OpShape'
<1>1. UNCHANGED files => FilesShape'
  BY Zenon DEF ShapeInv, FilesShape, files
<1>2. UNCHANGED chain => ChainShape'
  BY Zenon DEF ShapeInv, ChainShape, chain
<1>3. UNCHANGED rows => RowsShape'
  BY Zenon DEF ShapeInv, RowsShape
<1>4. UNCHANGED op => OpShape'
  BY Zenon DEF ShapeInv, OpShape
<1> QED
  BY <1>1, <1>2, <1>3, <1>4, Zenon

\* A step that leaves consumers, environment and rows alone needs only that
\* the command comes from where it relied on as much.
LEMMA ConsumersKept ==
    ASSUME ConsumerInv, UNCHANGED <<env, svc, rows>>,
           op'.pc \in StoppedPc => op.pc \in StoppedPc,
           op'.pc \in DrainedPc => op.pc \in DrainedPc,
           op'.pc = "r-up" => op.pc = "r-up"
    PROVE  ConsumerInv'
<1>1. OneIdentity'
  BY Zenon DEF ConsumerInv, OneIdentity
<1>2. NoOldWork'
  BY Zenon DEF ConsumerInv, NoOldWork
<1>3. NoOldDirect => NoOldDirect'
  BY Zenon DEF NoOldDirect
<1> QED
  BY <1>1, <1>2, <1>3, Zenon DEF ConsumerInv

\* The same for a step that leaves chain, files and environment alone, and at
\* most stops consumers.
LEMMA JournalKept ==
    ASSUME JournalInv, UNCHANGED <<contract, journal, release, env>>, svc' \subseteq svc,
           op'.pc \in CutoverPc => op.pc \in CutoverPc,
           op'.pc = "created" =>
              \/ op.pc = "created" /\ op'.at = op.at
              \/ J.c = Old /\ \A r \in Release : journal[r].c # op'.at
    PROVE  JournalInv'
<1>1. /\ \A r \in Release : journal'[r].c \in Contract => contract'[journal'[r].c].live
      /\ \A r \in Release : journal'[r].verified /\ journal'[r].c \in Contract => Exact(journal[r].c, FALSE)'
      /\ \A r \in Release : r > release' => journal'[r].c = Old
  BY Zenon DEF JournalInv, Exact
<1>2. NewIsPrepared'
  BY Zenon DEF JournalInv, NewIsPrepared
<1>3. J' = J
  BY Zenon DEF J
<1>4. release' # Legacy /\ J'.c # Old /\ J'.c = journal'[Legacy].c => ~journal'[Legacy].used
  BY <1>3, Zenon DEF JournalInv
<1>5. op'.pc \in CutoverPc => MayCutOverTo(J)'
  BY <1>3, Zenon DEF JournalInv, MayCutOverTo
<1>6. op'.pc = "created" => J'.c = Old /\ \A r \in Release : journal'[r].c # op'.at
  BY <1>3, Zenon DEF JournalInv
<1> QED
  BY <1>1, <1>2, <1>4, <1>5, <1>6, Zenon DEF JournalInv

\* A step of the command that writes nothing.
QuietPc == {"idle", "deploy", "mirror", "verify", "spl", "drain", "drained", "c-authority", "c-verify", "reconcile",
            "r-claim", "r-authority", "r-stop", "r-verify"}
LEMMA Moved ==
    ASSUME RotationInv, UNCHANGED <<chain, files, host, rows>>, IsOp(op'), op'.pc \in QuietPc
    PROVE  RotationInv'
<1>1. op'.pc \notin StoppedPc \cup DrainedPc \cup CutoverPc \cup {"created", "call", "receipt", "check", "r-up"}
  BY Zenon DEF QuietPc, StoppedPc, DrainedPc, CutoverPc
<1>2. ShapeInv'
  BY <1>1, ShapesKept, Zenon DEF RotationInv, ShapeInv, OpShape
<1>3. ConsumerInv'
  BY <1>1, ConsumersKept, Zenon DEF RotationInv, host
<1>4. JournalInv'
  BY <1>1, JournalKept, Zenon DEF RotationInv, host, chain, files
<1> QED
  BY <1>2, <1>3, <1>4, Zenon DEF RotationInv

\* A write to the journal that keeps its address and takes no mark back.
LEMMA Written ==
    ASSUME PlanAssumption, RotationInv, NEW k, Write(k), UNCHANGED <<contract, env, svc>>,
           IsJournal(k), k.c = J.c, J.drained => k.drained, J.started => k.started, J.verified => k.verified,
           k.verified => J.verified \/ Exact(J.c, FALSE),
           op'.pc \in CutoverPc => MayCutOverTo(k), op'.pc # "created"
    PROVE  FilesShape' /\ JournalInv'
<1>1. /\ release \in Release /\ release' = release
      /\ J \in {journal[r] : r \in Release} /\ J = journal[release]
      /\ J.c \in Identity
  BY Zenon DEF RotationInv, ShapeInv, FilesShape, Write, J
<1>2. /\ journal' = [r \in Release |-> journal'[r]]
      /\ journal'[release] = k
      /\ \A r \in Release : r # release => journal'[r] = journal[r]
  BY <1>1, Zenon DEF RotationInv, ShapeInv, FilesShape, Write
<1>3. J' = k
  BY <1>1, <1>2, Zenon DEF J
<1>4. FilesShape'
  BY <1>1, <1>2, Zenon DEF RotationInv, ShapeInv, FilesShape
<1>5. \A r \in Release : journal'[r].c = journal[r].c
  BY <1>1, <1>2, Zenon
<1>6. \A r \in Release : journal'[r].c \in Contract => contract'[journal'[r].c].live
  BY <1>5, Zenon DEF RotationInv, JournalInv
<1>7. \A r \in Release : journal'[r].verified /\ journal'[r].c \in Contract => Exact(journal[r].c, FALSE)'
  <2> SUFFICES ASSUME NEW r \in Release, journal'[r].verified, journal'[r].c \in Contract
               PROVE  Exact(journal'[r].c, FALSE)
    BY Zenon DEF Exact
  <2>1. CASE r = release
    BY <1>1, <1>2, <2>1, Zenon DEF RotationInv, JournalInv
  <2>2. CASE r # release
    BY <1>2, <2>2, Zenon DEF RotationInv, JournalInv
  <2> QED
    BY <2>1, <2>2, Zenon
<1>8. \A r \in Release : r > release' => journal'[r].c = Old
  BY <1>1, <1>5, Zenon DEF RotationInv, JournalInv
<1>9. NewIsPrepared'
  <2>1. \A r \in Release : /\ journal[r].verified => journal'[r].verified
                           /\ journal[r].drained => journal'[r].drained
                           /\ journal[r].started => journal'[r].started
    BY <1>1, <1>2, Zenon
  <2> QED
    BY <1>5, <2>1, ZenonT(30) DEF RotationInv, JournalInv, NewIsPrepared, Release
<1>10. release' # Legacy /\ J'.c # Old /\ J'.c = journal'[Legacy].c => ~journal'[Legacy].used
  <2>1. CASE Legacy \in Release /\ release # Legacy
    BY <1>1, <1>2, <1>3, <2>1, Zenon DEF RotationInv, JournalInv
  <2>2. Legacy \in Release
    BY SMTT(30) DEF PlanAssumption, Release, Legacy
  <2> QED
    BY <1>1, <2>1, <2>2, Zenon
<1> QED
  BY <1>3, <1>4, <1>6, <1>7, <1>8, <1>9, <1>10, Zenon DEF JournalInv, MayCutOverTo

-----------------------------------------------------------------------------
(* The chain, the consumers and the release train.                         *)

\* A mined transaction unsets nothing, pauses nothing and removes no contract.
LEMMA MineContracts ==
    ASSUME RotationInv, Mine
    PROVE  /\ ChainShape'
           /\ \A c \in Contract : contract[c].live => contract'[c].live
           /\ \A c \in Contract : Exact(c, FALSE) => Exact(c, FALSE)'
           /\ \A c \in Contract : contract[c].set = Setting => contract'[c].set = Setting
           /\ \A c \in Contract : contract'[c].paused \in {contract[c].paused, FALSE}
<1> DEFINE t == Head(pool)
           k == contract[t.c]
           n == CASE t.call = "create" -> [k EXCEPT !.live = TRUE]
                  [] t.call = "unpause" -> [k EXCEPT !.paused = FALSE]
                  [] OTHER -> [k EXCEPT !.set = k.set \cup {t.call}]
<1>1. /\ pool' = Tail(pool) /\ pool # <<>> /\ contract' = [contract EXCEPT ![t.c] = n]
  BY Zenon DEF Mine
<1>2. t \in Transaction /\ pool' \in Seq(Transaction)
  BY <1>1, HeadTailProperties, Zenon DEF RotationInv, ShapeInv, ChainShape
<1>3. t.call \in Setting \cup {"create", "unpause"}
  BY <1>2, SMTT(30) DEF Transaction
<1>4. IsContract(k) => IsContract(n) /\ (k.live => n.live)
  <2>1. CASE t.call = "create"
    <3>1. n = [k EXCEPT !.live = TRUE]
      BY <2>1, Zenon
    <3> QED
      BY <3>1, Zenon DEF IsContract
  <2>2. CASE t.call = "unpause"
    <3>1. n = [k EXCEPT !.paused = FALSE]
      BY <2>2, SMTT(30)
    <3> QED
      BY <3>1, Zenon DEF IsContract
  <2>3. CASE t.call \notin {"create", "unpause"}
    <3>1. n = [k EXCEPT !.set = k.set \cup {t.call}]
      BY <2>3, SMTT(30)
    <3> QED
      BY <3>1, Zenon DEF IsContract
  <2> QED
    BY <2>1, <2>2, <2>3, Zenon
<1>5. IsContract(k) => (k.set = Setting => n.set = Setting) /\ n.paused \in {k.paused, FALSE}
  <2> SUFFICES ASSUME IsContract(k)
               PROVE  (k.set = Setting => n.set = Setting) /\ n.paused \in {k.paused, FALSE}
    BY Zenon
  <2>1. CASE t.call = "create"
    <3>1. n = [k EXCEPT !.live = TRUE]
      BY <2>1, Zenon
    <3> QED
      BY <3>1, Zenon DEF IsContract
  <2>2. CASE t.call = "unpause"
    <3>1. n = [k EXCEPT !.paused = FALSE]
      BY <2>2, SMTT(30)
    <3> QED
      BY <3>1, Zenon DEF IsContract
  <2>3. CASE t.call \notin {"create", "unpause"}
    <3>1. n = [k EXCEPT !.set = k.set \cup {t.call}]
      BY <2>3, SMTT(30)
    <3>2. n.set = k.set \cup {t.call} /\ n.paused = k.paused
      BY <3>1, Zenon DEF IsContract
    <3>3. k.set = Setting => k.set \cup {t.call} = Setting
      BY <1>3, <2>3, Zenon
    <3> QED
      BY <3>2, <3>3, Zenon
  <2> QED
    BY <2>1, <2>2, <2>3, Zenon
<1> HIDE DEF n, k, t
<1>6. /\ contract' = [c \in Contract |-> contract'[c]]
      /\ \A c \in Contract : contract'[c] = IF c = t.c THEN n ELSE contract[c]
  BY <1>1, Zenon DEF RotationInv, ShapeInv, ChainShape
<1>7. \A c \in Contract : IsContract(contract[c]) /\ (c = t.c => k = contract[c])
  BY Zenon DEF RotationInv, ShapeInv, ChainShape, k
<1>8. ChainShape'
  BY <1>2, <1>4, <1>6, <1>7, Zenon DEF ChainShape
<1>9. \A c \in Contract : contract[c].live => contract'[c].live
  BY <1>4, <1>6, <1>7, Zenon
<1>10. /\ \A c \in Contract : contract[c].set = Setting => contract'[c].set = Setting
       /\ \A c \in Contract : contract'[c].paused \in {contract[c].paused, FALSE}
  BY <1>5, <1>6, <1>7, Zenon
<1>11. \A c \in Contract : Exact(c, FALSE) => Exact(c, FALSE)'
  BY <1>10, Zenon DEF Exact
<1> QED
  BY <1>8, <1>9, <1>10, <1>11, Zenon

LEMMA MineInv == ASSUME RotationInv, Mine PROVE RotationInv'
<1>1. UNCHANGED <<journal, release, env, svc, rows, op>>
  BY Zenon DEF Mine, files, host
<1>2. ShapeInv'
  BY <1>1, MineContracts, ShapesKept, Zenon DEF RotationInv, ShapeInv, files
<1>3. ConsumerInv'
  BY <1>1, ConsumersKept, Zenon DEF RotationInv
<1>4. /\ \A r \in Release : journal'[r].c \in Contract => contract'[journal'[r].c].live
      /\ \A r \in Release : journal'[r].verified /\ journal'[r].c \in Contract => Exact(journal[r].c, FALSE)'
  <2>1. \A r \in Release : journal[r].verified /\ journal[r].c \in Contract => Exact(journal[r].c, FALSE)
    BY Zenon DEF RotationInv, JournalInv
  <2>2. \A r \in Release : journal[r].verified /\ journal[r].c \in Contract => Exact(journal[r].c, FALSE)'
    BY <1>1, <2>1, MineContracts, Zenon DEF Exact
  <2> QED
    BY <1>1, <2>2, MineContracts, Zenon DEF RotationInv, JournalInv
<1>5. NewIsPrepared'
  <2>1. NewIsPrepared
    BY Zenon DEF RotationInv, JournalInv
  <2>2. \A c \in Contract : contract[c].set = Setting /\ ~contract[c].paused
          => contract'[c].set = Setting /\ ~contract'[c].paused
    BY MineContracts, Zenon
  <2> QED
    BY <1>1, <2>1, <2>2, Zenon DEF NewIsPrepared
<1>6. J' = J
  BY <1>1, Zenon DEF J
<1> QED
  BY <1>1, <1>2, <1>3, <1>4, <1>5, <1>6, Zenon DEF RotationInv, JournalInv, MayCutOverTo

\* A step of a consumer: it changes only rows, while that consumer runs.
LEMMA RowsWritten ==
    ASSUME RotationInv, UNCHANGED <<chain, files, host, op>>, RowsShape', svc # {}, NoOldWork'
    PROVE  RotationInv'
<1>1. UNCHANGED <<contract, journal, release, env, svc>>
  BY Zenon DEF chain, files, host
<1>2. op.pc \notin StoppedPc \cup DrainedPc
  <2>1. DrainedPc \subseteq StoppedPc
    BY Zenon DEF DrainedPc, StoppedPc
  <2> QED
    BY <2>1, Zenon DEF RotationInv, ConsumerInv
<1>3. ConsumerInv'
  BY <1>1, <1>2, Zenon DEF RotationInv, ConsumerInv, OneIdentity
<1>4. JournalInv'
  <2>1. /\ svc' \subseteq svc
        /\ op'.pc \in CutoverPc => op.pc \in CutoverPc
        /\ op'.pc = "created" => op.pc = "created" /\ op'.at = op.at
    BY <1>1, Zenon
  <2> QED
    BY <1>1, <2>1, JournalKept, Zenon DEF RotationInv
<1>5. ShapeInv'
  BY ShapesKept, Zenon DEF RotationInv, ShapeInv
<1> QED
  BY <1>3, <1>4, <1>5, Zenon DEF RotationInv

LEMMA ProduceInv == ASSUME RotationInv, NEW lane, Produce(lane) PROVE RotationInv'
<1>1. PICK c \in Identity :
        /\ <<"atlas-observer", c>> \in svc
        /\ rows' = rows \cup {[id |-> Cardinality(rows), lane |-> lane, exec |-> c, status |-> "ready",
                               from |-> IF lane = "atlas" THEN Wallet ELSE c]}
  BY Zenon DEF Produce
<1> DEFINE new == [id |-> Cardinality(rows), lane |-> lane, exec |-> c, status |-> "ready",
                   from |-> IF lane = "atlas" THEN Wallet ELSE c]
<1>2. IsRow(new) /\ new.exec = c
  BY SMTT(30) DEF IsRow
<1> HIDE DEF new
<1>3. rows' = rows \cup {new}
  BY <1>1, Zenon DEF new
<1>4. UNCHANGED <<chain, files, host, op>> /\ svc' = svc
  BY Zenon DEF Produce, host
<1>5. RowsShape'
  BY <1>2, <1>3, Zenon DEF RotationInv, ShapeInv, RowsShape
<1>6. NoOldWork'
  <2> SUFFICES ASSUME NEW p \in svc, p[2] # Old, NEW r \in rows', r.lane = "direct", r.exec = Old
               PROVE  r.status \notin Open
    BY <1>4, Zenon DEF NoOldWork
  <2>1. c # Old
    <3>1. <<"atlas-observer", c>>[2] = p[2]
      BY <1>1, Zenon DEF RotationInv, ConsumerInv, OneIdentity
    <3> QED
      BY <3>1, SMTT(30)
  <2>2. r \in rows
    BY <1>2, <1>3, <2>1, Zenon
  <2> QED
    BY <2>2, Zenon DEF RotationInv, ConsumerInv, NoOldWork
<1> QED
  BY <1>1, <1>4, <1>5, <1>6, RowsWritten, Zenon

\* Claiming or finishing a request opens none of the old executor's.
LEMMA MoveRows ==
    ASSUME RotationInv, NEW row \in rows, row.status \in Open, NEW s, Move(row, s), UNCHANGED svc
    PROVE  RowsShape' /\ NoOldWork'
<1>1. /\ IsRow([row EXCEPT !.status = s])
      /\ [row EXCEPT !.status = s].lane = row.lane
      /\ [row EXCEPT !.status = s].exec = row.exec
  BY Zenon DEF RotationInv, ShapeInv, RowsShape, IsRow
<1>2. \A r \in rows' : r \in rows \/ r = [row EXCEPT !.status = s]
  BY Zenon DEF Move
<1>3. RowsShape'
  BY <1>1, <1>2, Zenon DEF RotationInv, ShapeInv, RowsShape
<1>4. NoOldWork'
  <2> SUFFICES ASSUME NEW p \in svc, p[2] # Old, NEW r \in rows', r.lane = "direct", r.exec = Old
               PROVE  r.status \notin Open
    BY Zenon DEF NoOldWork
  <2>1. \A q \in rows : q.lane = "direct" /\ q.exec = Old => q.status \notin Open
    BY Zenon DEF RotationInv, ConsumerInv, NoOldWork
  <2> QED
    BY <1>1, <1>2, <2>1, Zenon
<1> QED
  BY <1>3, <1>4, Zenon

LEMMA RequestInv == ASSUME RotationInv, NEW row \in rows, Claim(row) \/ Finish(row) PROVE RotationInv'
<1>1. row.status \in Open /\ (\E s : Move(row, s)) /\ svc # {} /\ UNCHANGED <<chain, files, host, op>>
  BY Zenon DEF Claim, Finish, Open
<1>2. UNCHANGED svc
  BY <1>1, Zenon DEF host
<1> QED
  BY <1>1, <1>2, MoveRows, RowsWritten, Zenon

\* The next release has no journal yet.
LEMMA NextReleaseInv == ASSUME PlanAssumption, RotationInv, NextRelease PROVE RotationInv'
<1>1. /\ release' = release + 1 /\ release < Releases /\ UNCHANGED <<journal, contract, env, svc, rows, op, pool>>
      /\ op = Idle
  BY Zenon DEF NextRelease, chain, host
<1>2. release \in Release /\ release' \in Release /\ release' > release /\ \A r \in Release : r > release' => r > release
  BY <1>1, SMTT(30) DEF PlanAssumption, RotationInv, ShapeInv, FilesShape, Release
<1>3. FilesShape'
  BY <1>1, <1>2, Zenon DEF RotationInv, ShapeInv, FilesShape
<1>4. ShapeInv'
  BY <1>1, <1>3, ShapesKept, Zenon DEF RotationInv, ShapeInv, chain
<1>5. ConsumerInv'
  BY <1>1, ConsumersKept, Zenon DEF RotationInv
<1>6. J'.c = Old
  BY <1>1, <1>2, Zenon DEF RotationInv, JournalInv, J
<1>7. op'.pc = "idle"
  BY <1>1, SMTT(30) DEF Idle
<1>8. /\ \A r \in Release : journal'[r].c \in Contract => contract'[journal'[r].c].live
      /\ \A r \in Release : journal'[r].verified /\ journal'[r].c \in Contract => Exact(journal[r].c, FALSE)'
      /\ \A r \in Release : r > release' => journal'[r].c = Old
  BY <1>1, <1>2, Zenon DEF RotationInv, JournalInv, Exact
<1>9. NewIsPrepared'
  BY <1>1, Zenon DEF RotationInv, JournalInv, NewIsPrepared
<1> QED
  BY <1>4, <1>5, <1>6, <1>7, <1>8, <1>9, Zenon DEF RotationInv, JournalInv, CutoverPc

\* A crash forgets the command, a command starts at its first step.
LEMMA CommandInv ==
    ASSUME RotationInv, Crash \/ \E mode \in {"prepare", "execute", "rollback"} : Start(mode)
    PROVE  RotationInv'
<1>1. CASE Crash
  <2>1. UNCHANGED <<chain, files, host, rows>> /\ op' = Idle
    BY <1>1, Zenon DEF Crash, End
  <2> QED
    BY <2>1, IdleOp, Moved, Zenon DEF QuietPc
<1>2. ASSUME NEW mode, Start(mode) PROVE RotationInv'
  <2>1. UNCHANGED <<chain, files, host, rows>>
    BY <1>2, Zenon DEF Start
  <2>2. \E x \in {"r-claim", "deploy"} : op' = [Idle EXCEPT !.mode = mode, !.pc = x, !.why = mode]
    BY <1>2, Zenon DEF Start
  <2>3. IsOp(Idle)
    BY IdleOp, Zenon
  <2>4. IsOp(op') /\ op'.pc \in {"r-claim", "deploy"}
    BY <2>2, <2>3, Zenon DEF IsOp
  <2> QED
    BY <2>1, <2>4, Moved, Zenon DEF QuietPc
<1> QED
  BY <1>1, <1>2, Zenon

\* The legacy journal, adopted whole: it has a contract, verified and unused.
LEMMA AdoptInv == ASSUME PlanAssumption, RotationInv, recover_existing PROVE RotationInv'
<1> DEFINE legacy == journal[Legacy]
<1>1. /\ op = Idle /\ op' = op /\ J = NoJournal /\ release # Legacy /\ Write(legacy)
      /\ legacy = [NoJournal EXCEPT !.c = legacy.c, !.hashes = Len(Calls), !.verified = TRUE]
      /\ UNCHANGED <<chain, host, rows>> /\ legacy = journal[Legacy]
  BY Zenon DEF recover_existing
<1> HIDE DEF legacy
<1>2. J.c = Old /\ legacy.used = FALSE
  <2>1. NoJournal.used = FALSE /\ NoJournal.c = Old /\ IsJournal(NoJournal)
    BY SMTT(30) DEF NoJournal, IsJournal, JournalFields
  <2>2. ASSUME NEW c, NEW h PROVE [NoJournal EXCEPT !.c = c, !.hashes = h, !.verified = TRUE].used = NoJournal.used
    BY <2>1, Zenon DEF IsJournal, JournalFields
  <2>3. legacy.used = [NoJournal EXCEPT !.c = legacy.c, !.hashes = Len(Calls), !.verified = TRUE].used
    BY <1>1, Zenon
  <2>4. legacy.used = NoJournal.used
    BY <2>2, <2>3, Zenon
  <2> QED
    BY <1>1, <2>1, <2>4, Zenon
<1>3. Legacy \in Release /\ release \in Release /\ release' = release
  BY <1>1, SMTT(30) DEF PlanAssumption, Release, Legacy, RotationInv, ShapeInv, FilesShape, Write
<1>4. /\ journal' = [r \in Release |-> journal'[r]]
      /\ journal'[release] = legacy
      /\ \A r \in Release : r # release => journal'[r] = journal[r]
  BY <1>1, <1>3, Zenon DEF RotationInv, ShapeInv, FilesShape, Write
<1>5. \A r \in Release : \E q \in Release : journal'[r] = journal[q]
  BY <1>1, <1>3, <1>4, Zenon
<1>6. FilesShape'
  BY <1>3, <1>4, <1>5, Zenon DEF RotationInv, ShapeInv, FilesShape
<1>7. ShapeInv'
  BY <1>1, <1>6, ShapesKept, Zenon DEF RotationInv, ShapeInv
<1>8. ConsumerInv'
  BY <1>1, ConsumersKept, Zenon DEF RotationInv, host
<1>9. UNCHANGED <<contract, env, svc>> /\ op'.pc = "idle"
  BY <1>1, SMTT(30) DEF chain, host, Idle
<1>10. /\ \A r \in Release : journal'[r].c \in Contract => contract'[journal'[r].c].live
       /\ \A r \in Release : journal'[r].verified /\ journal'[r].c \in Contract => Exact(journal[r].c, FALSE)'
  <2> SUFFICES ASSUME NEW r \in Release
               PROVE  /\ journal'[r].c \in Contract => contract'[journal'[r].c].live
                      /\ journal'[r].verified /\ journal'[r].c \in Contract => Exact(journal[r].c, FALSE)'
    BY Zenon
  <2>1. PICK q \in Release : journal'[r] = journal[q]
    BY <1>5, Zenon
  <2>2. /\ journal[q].c \in Contract => contract[journal[q].c].live
        /\ journal[q].verified /\ journal[q].c \in Contract => Exact(journal[q].c, FALSE)
    BY Zenon DEF RotationInv, JournalInv
  <2> QED
    BY <1>9, <2>1, <2>2, Zenon DEF Exact
<1>11. \A r \in Release : r > release' => journal'[r].c = Old
  <2>1. \A r \in Release : r > release => r # release
    BY <1>3, SMTT(30) DEF Release
  <2> QED
    BY <1>3, <1>4, <2>1, Zenon DEF RotationInv, JournalInv
<1>12. NewIsPrepared'
  <2>1. \A c \in Contract : c # Old
    BY SMTT(30) DEF PlanAssumption, Contract, Old
  <2>2. \A r \in Release : journal[r].c \in Contract => journal'[r] = journal[r]
    BY <1>2, <1>4, <2>1, Zenon DEF J
  <2> SUFFICES ASSUME NEW c \in Contract, env' = c \/ \E s \in Consumer : <<s, c>> \in svc'
               PROVE  /\ contract'[c].set = Setting /\ ~contract'[c].paused
                      /\ \E r \in 1 .. Releases : /\ journal'[r].c = c /\ journal'[r].verified
                                                  /\ journal'[r].drained /\ journal'[r].started
    BY Zenon DEF NewIsPrepared
  <2>3. /\ contract[c].set = Setting /\ ~contract[c].paused
        /\ \E r \in Release : journal[r].c = c /\ journal[r].verified /\ journal[r].drained /\ journal[r].started
    BY <1>9, Zenon DEF RotationInv, JournalInv, NewIsPrepared, Release
  <2> QED
    BY <1>9, <2>2, <2>3, Zenon DEF Release
<1>13. journal'[Legacy].used = FALSE
  BY <1>1, <1>2, <1>3, <1>4, Zenon
<1> QED
  BY <1>7, <1>8, <1>9, <1>10, <1>11, <1>12, <1>13, Zenon DEF RotationInv, JournalInv, CutoverPc

-----------------------------------------------------------------------------
(* Deploying and configuring.                                              *)

\* A step of the command that writes its journal.
LEMMA WriteInv ==
    ASSUME PlanAssumption, RotationInv, NEW k, Write(k), UNCHANGED <<chain, host, rows>>, OpShape',
           IsJournal(k), k.c = J.c, J.drained => k.drained, J.started => k.started, J.verified => k.verified,
           k.verified => J.verified \/ Exact(J.c, FALSE),
           op'.pc \in CutoverPc => MayCutOverTo(k), op'.pc \notin {"created", "r-up"},
           op'.pc \in StoppedPc => op.pc \in StoppedPc, op'.pc \in DrainedPc => op.pc \in DrainedPc
    PROVE  RotationInv'
<1>1. UNCHANGED <<contract, env, svc>>
  BY Zenon DEF chain, host
<1>2. FilesShape' /\ JournalInv'
  BY <1>1, Written, Zenon
<1>3. ConsumerInv'
  BY <1>1, ConsumersKept, Zenon DEF RotationInv
<1>4. ShapeInv'
  BY <1>2, ShapesKept, Zenon DEF RotationInv, ShapeInv
<1> QED
  BY <1>2, <1>3, <1>4, Zenon DEF RotationInv

\* The same, for a write the invariants do not read, by a command that goes on
\* to a position that relies on nothing.
LEMMA NoteInv ==
    ASSUME PlanAssumption, RotationInv, NEW k, Write(k), Agree(k, J), UNCHANGED <<chain, host, rows>>,
           IsOp(op'), op'.pc \in QuietPc \/ (op'.pc = "check" /\ op'.at \in 1 .. Len(Calls))
    PROVE  RotationInv'
<1>1. op'.pc \notin StoppedPc \cup DrainedPc \cup CutoverPc \cup {"created", "call", "receipt", "r-up"}
  BY Zenon DEF QuietPc, StoppedPc, DrainedPc, CutoverPc
<1>2. "check" \notin QuietPc
  BY Zenon DEF QuietPc
<1>3. OpShape'
  BY <1>1, <1>2, Zenon DEF OpShape
<1> QED
  BY <1>1, <1>3, WriteInv, Zenon DEF Agree

\* The journal of the running command, and where its command stands.
LEMMA Current ==
    ASSUME RotationInv
    PROVE  IsJournal(J) /\ J.c \in Identity /\ IsOp(op) /\ OpShape /\ release \in Release /\ J = journal[release]
  BY Zenon DEF RotationInv, ShapeInv, FilesShape, OpShape, J

\* The moves of a command to a position that relies on nothing.
LEMMA QuietMove ==
    ASSUME RotationInv, UNCHANGED <<chain, files, host, rows>>,
           \/ \E how : End(how)
           \/ \E x \in QuietPc : Goto(x)
           \/ \E why : Rollback(why)
    PROVE  RotationInv'
<1>1. IsOp(op') /\ op'.pc \in QuietPc
  <2>1. ASSUME NEW how, End(how) PROVE IsOp(op') /\ op'.pc \in QuietPc
    BY <2>1, IdleOp, Zenon DEF End, QuietPc
  <2>2. ASSUME NEW x \in QuietPc, Goto(x) PROVE IsOp(op') /\ op'.pc \in QuietPc
    BY <2>2, Current, GotoOp, Zenon DEF Goto
  <2>3. ASSUME NEW why, Rollback(why) PROVE IsOp(op') /\ op'.pc \in QuietPc
    <3>1. "r-claim" \in QuietPc
      BY Zenon DEF QuietPc
    <3> QED
      BY <2>3, <3>1, Current, RollbackOp, Zenon DEF Rollback
  <2> QED
    BY <2>1, <2>2, <2>3, Zenon
<1> QED
  BY <1>1, Moved, Zenon

\* A step of the command that sends a transaction.
LEMMA SendInv ==
    ASSUME RotationInv, UNCHANGED <<contract, files, host, rows>>, pool' \in Seq(Transaction), OpShape',
           op'.pc \in {"idle", "created", "receipt"},
           op'.pc = "created" => J.c = Old /\ \A r \in Release : journal[r].c # op'.at
    PROVE  RotationInv'
<1>1. op'.pc \notin StoppedPc \cup DrainedPc \cup CutoverPc \cup {"r-up"}
  BY Zenon DEF StoppedPc, DrainedPc, CutoverPc
<1>2. UNCHANGED <<journal, release, env, svc>>
  BY Zenon DEF files, host
<1>3. ChainShape'
  BY Zenon DEF RotationInv, ShapeInv, ChainShape
<1>4. ShapeInv'
  BY <1>3, ShapesKept, Zenon DEF RotationInv, ShapeInv
<1>5. ConsumerInv'
  BY <1>1, <1>2, ConsumersKept, Zenon DEF RotationInv
<1>6. JournalInv'
  BY <1>1, <1>2, JournalKept, Zenon DEF RotationInv
<1> QED
  BY <1>4, <1>5, <1>6, Zenon DEF RotationInv

LEMMA DeployInv == ASSUME PlanAssumption, RotationInv, deploy_phoenix_executor PROVE RotationInv'
<1>1. UNCHANGED <<contract, files, host, rows>>
  BY Zenon DEF deploy_phoenix_executor
<1>2. CASE Goto("mirror") /\ UNCHANGED pool
  <2>1. "mirror" \in QuietPc
    BY Zenon DEF QuietPc
  <2> QED
    BY <1>1, <1>2, <2>1, QuietMove, Zenon DEF chain
<1>3. ASSUME NEW c \in Fresh, J.c = Old, pool' = Append(pool, [c |-> c, call |-> "create"]),
             op' = [op EXCEPT !.pc = "created", !.at = c]
      PROVE  RotationInv'
  <2>1. c \in Contract /\ ~contract[c].live
    BY <1>3, Zenon DEF Fresh
  <2>2. [c |-> c, call |-> "create"] \in Transaction
    BY <2>1, SMTT(30) DEF Transaction, Identity
  <2>3. pool' \in Seq(Transaction)
    BY <1>3, <2>2, AppendProperties, Zenon DEF RotationInv, ShapeInv, ChainShape
  <2>4. IsOp(op') /\ op'.pc = "created" /\ op'.at = c
    <3>1. IsOp(op)
      BY Current, Zenon
    <3> QED
      BY <1>3, <3>1, Zenon DEF IsOp
  <2>5. OpShape'
    BY <2>1, <2>4, Zenon DEF OpShape
  <2>6. \A r \in Release : journal[r].c # c
    BY <2>1, Zenon DEF RotationInv, JournalInv
  <2> QED
    BY <1>1, <1>3, <2>3, <2>4, <2>5, <2>6, SendInv, Zenon
<1>4. CASE End("failed") /\ UNCHANGED pool
  BY <1>1, <1>4, QuietMove, Zenon DEF chain
<1> QED
  BY <1>2, <1>3, <1>4, Zenon DEF deploy_phoenix_executor

\* A new journal takes the place of none, for a contract no other one names.
LEMMA DeployedInv == ASSUME PlanAssumption, RotationInv, Deployed PROVE RotationInv'
<1>1. CASE End("failed") /\ UNCHANGED files
  BY <1>1, QuietMove, Zenon DEF Deployed
<1>2. CASE contract[op.at].live /\ Write([NoJournal EXCEPT !.c = op.at]) /\ Goto("mirror")
  <2> DEFINE k == [NoJournal EXCEPT !.c = op.at]
  <2>1. IsJournal(k) /\ k.c = op.at /\ ~k.verified /\ ~k.used
    BY NewJournal, Zenon
  <2> HIDE DEF k
  <2>2. /\ op.at \in Contract /\ J.c = Old /\ \A r \in Release : journal[r].c # op.at
        /\ UNCHANGED <<contract, pool, env, svc, rows>>
    BY Zenon DEF Deployed, RotationInv, JournalInv, ShapeInv, OpShape, chain, host
  <2>3. release \in Release /\ release' = release /\ J = journal[release] /\ Legacy \in Release
    BY <1>2, SMTT(30) DEF PlanAssumption, Release, Legacy, RotationInv, ShapeInv, FilesShape, Write, J
  <2>4. /\ journal' = [r \in Release |-> journal'[r]]
        /\ journal'[release] = k
        /\ \A r \in Release : r # release => journal'[r] = journal[r]
    BY <1>2, <2>3, Zenon DEF RotationInv, ShapeInv, FilesShape, Write, k
  <2>5. FilesShape'
    BY <2>1, <2>2, <2>3, <2>4, Zenon DEF RotationInv, ShapeInv, FilesShape, Identity
  <2>6. IsOp(op') /\ op'.pc = "mirror"
    BY <1>2, Current, GotoOp, Zenon DEF Goto
  <2>7. op'.pc \notin StoppedPc \cup DrainedPc \cup CutoverPc \cup {"created", "call", "receipt", "check", "r-up"}
    BY <2>6, Zenon DEF StoppedPc, DrainedPc, CutoverPc
  <2>8. ShapeInv'
    BY <2>2, <2>5, <2>6, <2>7, ShapesKept, Zenon DEF RotationInv, ShapeInv, OpShape, chain
  <2>9. ConsumerInv'
    BY <2>2, <2>7, ConsumersKept, Zenon DEF RotationInv
  <2>10. /\ \A r \in Release : journal'[r].c \in Contract => contract'[journal'[r].c].live
         /\ \A r \in Release : journal'[r].verified /\ journal'[r].c \in Contract => Exact(journal[r].c, FALSE)'
    BY <1>2, <2>1, <2>2, <2>4, Zenon DEF RotationInv, JournalInv, Exact
  <2>11. \A r \in Release : r > release' => journal'[r].c = Old
    <3>1. \A r \in Release : r > release => r # release
      BY <2>3, SMTT(30) DEF Release
    <3> QED
      BY <2>3, <2>4, <3>1, Zenon DEF RotationInv, JournalInv
  <2>12. NewIsPrepared'
    <3>1. \A c \in Contract : c # Old
      BY SMTT(30) DEF PlanAssumption, Contract, Old
    <3>2. \A r \in Release : journal[r].c \in Contract => journal'[r] = journal[r]
      BY <2>2, <2>3, <2>4, <3>1, Zenon
    <3> SUFFICES ASSUME NEW c \in Contract, env' = c \/ \E s \in Consumer : <<s, c>> \in svc'
                 PROVE  /\ contract'[c].set = Setting /\ ~contract'[c].paused
                        /\ \E r \in 1 .. Releases : /\ journal'[r].c = c /\ journal'[r].verified
                                                    /\ journal'[r].drained /\ journal'[r].started
      BY Zenon DEF NewIsPrepared
    <3>3. /\ contract[c].set = Setting /\ ~contract[c].paused
          /\ \E r \in Release : journal[r].c = c /\ journal[r].verified /\ journal[r].drained /\ journal[r].started
      BY <2>2, Zenon DEF RotationInv, JournalInv, NewIsPrepared, Release
    <3> QED
      BY <2>2, <3>2, <3>3, Zenon DEF Release
  <2>13. release' # Legacy /\ J'.c # Old /\ J'.c = journal'[Legacy].c => ~journal'[Legacy].used
    <3>1. J' = k
      BY <2>3, <2>4, Zenon DEF J
    <3> QED
      BY <2>1, <2>2, <2>3, <2>4, <3>1, Zenon
  <2> QED
    BY <2>7, <2>8, <2>9, <2>10, <2>11, <2>12, <2>13, Zenon DEF RotationInv, JournalInv
<1> QED
  BY <1>1, <1>2, Zenon DEF Deployed

\* The command moves to one of its configuration calls.
LEMMA CallMove ==
    ASSUME RotationInv, UNCHANGED <<chain, files, host, rows>>, NEW i \in 1 .. Len(Calls),
           op' = [op EXCEPT !.pc = "call", !.at = i]
    PROVE  RotationInv'
<1>1. IsOp(op') /\ op'.pc = "call" /\ op'.at = i
  <2>1. IsOp(op)
    BY Current, Zenon
  <2> QED
    BY <2>1, Zenon DEF IsOp
<1>2. op'.pc \notin StoppedPc \cup DrainedPc \cup CutoverPc \cup {"created", "r-up"}
  BY <1>1, Zenon DEF StoppedPc, DrainedPc, CutoverPc
<1>3. OpShape'
  BY <1>1, <1>2, Zenon DEF OpShape
<1>4. UNCHANGED <<contract, journal, release, env, svc>>
  BY Zenon DEF chain, files, host
<1>5. ShapeInv'
  BY <1>3, ShapesKept, Zenon DEF RotationInv, ShapeInv
<1>6. ConsumerInv' /\ JournalInv'
  BY <1>2, <1>4, ConsumersKept, JournalKept, Zenon DEF RotationInv
<1> QED
  BY <1>5, <1>6, Zenon DEF RotationInv

LEMMA MirrorInv == ASSUME PlanAssumption, RotationInv, mirror_phoenix_config PROVE RotationInv'
<1>1. UNCHANGED <<chain, files, host, rows>>
  BY Zenon DEF mirror_phoenix_config
<1>2. "verify" \in QuietPc /\ 1 \in 1 .. Len(Calls)
  BY CallTypes, SMTT(30) DEF QuietPc
<1>3. CASE op' = [op EXCEPT !.pc = "call", !.at = 1]
  BY <1>1, <1>2, <1>3, CallMove, Zenon
<1>4. CASE Goto("verify") \/ End("failed")
  BY <1>1, <1>2, <1>4, QuietMove, Zenon
<1> QED
  BY <1>3, <1>4, Zenon DEF mirror_phoenix_config

LEMMA OwnerCallInv == ASSUME PlanAssumption, RotationInv, owner_call PROVE RotationInv'
<1> DEFINE t == [c |-> J.c, call |-> Calls[op.at]]
<1>1. op.at \in 1 .. Len(Calls) /\ IsOp(op) /\ J.c \in Identity
  BY Current, Zenon DEF owner_call, OpShape
<1>2. t \in Transaction
  BY <1>1, CallTypes, SMTT(30) DEF Transaction
<1> HIDE DEF t
<1>3. pool \in Seq(Transaction) /\ Append(pool, t) \in Seq(Transaction)
  BY <1>2, AppendProperties, Zenon DEF RotationInv, ShapeInv, ChainShape
<1>4. UNCHANGED <<contract, files, host, rows>> /\ pool' \in {pool, Append(pool, t)} /\ (Goto("receipt") \/ End("failed"))
  BY Zenon DEF owner_call, t
<1>5. CASE Goto("receipt")
  <2>1. IsOp(op') /\ op'.pc = "receipt" /\ op'.at = op.at
    BY <1>1, <1>5, GotoOp, Zenon DEF Goto
  <2>2. OpShape'
    BY <1>1, <2>1, Zenon DEF OpShape
  <2> QED
    BY <1>3, <1>4, <2>1, <2>2, SendInv, Zenon
<1>6. CASE End("failed")
  <2>1. IsOp(op') /\ op'.pc = "idle"
    BY <1>6, IdleOp, Zenon DEF End
  <2>2. OpShape'
    BY <2>1, Zenon DEF OpShape
  <2> QED
    BY <1>3, <1>4, <2>1, <2>2, SendInv, Zenon
<1> QED
  BY <1>4, <1>5, <1>6, Zenon

LEMMA ReceiptInv == ASSUME PlanAssumption, RotationInv, Receipt PROVE RotationInv'
<1>1. UNCHANGED <<chain, host, rows>> /\ op.at \in 1 .. Len(Calls) /\ IsOp(op) /\ IsJournal(J)
  BY Current, Zenon DEF Receipt, OpShape
<1>2. CASE Write([J EXCEPT !.hashes = @ + 1]) /\ Goto("check")
  <2>1. IsOp(op') /\ op'.pc = "check" /\ op'.at = op.at
    BY <1>1, <1>2, GotoOp, Zenon DEF Goto
  <2>2. Agree([J EXCEPT !.hashes = @ + 1], J)
    BY <1>1, JournalUpdates, Zenon
  <2> QED
    BY <1>1, <1>2, <2>1, <2>2, NoteInv, Zenon
<1>3. CASE End("failed") /\ UNCHANGED files
  BY <1>1, <1>3, QuietMove, Zenon
<1> QED
  BY <1>2, <1>3, Zenon DEF Receipt

\* The last check has read the whole configuration back, unpaused.
LEMMA CheckInv == ASSUME PlanAssumption, RotationInv, Check PROVE RotationInv'
<1>1. UNCHANGED <<chain, host, rows>> /\ op.at \in 1 .. Len(Calls) /\ IsOp(op) /\ IsJournal(J)
  BY Current, Zenon DEF Check, OpShape
<1>2. CASE End("failed") /\ UNCHANGED files
  BY <1>1, <1>2, QuietMove, Zenon
<1>3. CASE Checked(op.at) /\ op.at = Len(Calls) /\ Write([J EXCEPT !.verified = TRUE]) /\ Goto("verify")
  <2> DEFINE k == [J EXCEPT !.verified = TRUE]
  <2>1. /\ IsJournal(k) /\ k.c = J.c /\ k.verified /\ k.drained = J.drained /\ k.started = J.started
    BY <1>1, JournalMarks, Zenon
  <2> HIDE DEF k
  <2>2. Exact(J.c, FALSE)
    <3>1. ~(op.at < Len(Settings)) /\ op.at # Len(Settings) /\ op.at = Len(Calls)
      BY <1>3, CallTypes, SMTT(30)
    <3> QED
      BY <1>3, <3>1, Zenon DEF Checked
  <2>3. IsOp(op') /\ op'.pc = "verify"
    BY <1>1, <1>3, GotoOp, Zenon DEF Goto
  <2>4. op'.pc \notin StoppedPc \cup DrainedPc \cup CutoverPc \cup {"created", "call", "receipt", "check", "r-up"}
    BY <2>3, Zenon DEF StoppedPc, DrainedPc, CutoverPc
  <2>5. OpShape'
    BY <2>3, <2>4, Zenon DEF OpShape
  <2>6. Write(k)
    BY <1>3, Zenon DEF k
  <2> QED
    BY <1>1, <2>1, <2>2, <2>4, <2>5, <2>6, WriteInv, Zenon
<1>4. CASE op.at # Len(Calls) /\ op' = [op EXCEPT !.pc = "call", !.at = @ + 1] /\ UNCHANGED files
  <2>1. op.at + 1 \in 1 .. Len(Calls)
    BY <1>1, <1>4, CallTypes, SMTT(30)
  <2> QED
    BY <1>1, <1>4, <2>1, CallMove, Zenon
<1> QED
  BY <1>2, <1>3, <1>4, Zenon DEF Check

LEMMA VerifyInv == ASSUME PlanAssumption, RotationInv, verify_phoenix_pair \/ RollbackAuthority PROVE RotationInv'
<1>1. "spl" \in QuietPc /\ "r-stop" \in QuietPc
  BY Zenon DEF QuietPc
<1>2. CASE verify_phoenix_pair
  BY <1>1, <1>2, QuietMove, Zenon DEF verify_phoenix_pair
<1>3. CASE RollbackAuthority
  BY <1>1, <1>3, QuietMove, Zenon DEF RollbackAuthority
<1> QED
  BY <1>2, <1>3, Zenon

LEMMA SplInv == ASSUME PlanAssumption, RotationInv, prove_spl_absent PROVE RotationInv'
<1>1. UNCHANGED <<chain, host, rows>> /\ IsOp(op) /\ IsJournal(J) /\ Agree([J EXCEPT !.spl = TRUE], J)
  BY Current, JournalUpdates, Zenon DEF prove_spl_absent
<1>2. "drain" \in QuietPc /\ "idle" \in QuietPc
  BY Zenon DEF QuietPc
<1>3. CASE Write([J EXCEPT !.spl = TRUE]) /\ (End("ok") \/ Goto("drain"))
  <2>1. IsOp(op') /\ op'.pc \in QuietPc
    <3>1. CASE End("ok")
      BY <1>2, <3>1, IdleOp, Zenon DEF End
    <3>2. CASE Goto("drain")
      BY <1>1, <1>2, <3>2, GotoOp, Zenon DEF Goto
    <3> QED
      BY <1>3, <3>1, <3>2, Zenon
  <2> QED
    BY <1>1, <1>3, <2>1, NoteInv, Zenon
<1>4. CASE End("failed") /\ UNCHANGED files
  BY <1>1, <1>4, QuietMove, Zenon
<1> QED
  BY <1>3, <1>4, Zenon DEF prove_spl_absent

-----------------------------------------------------------------------------
(* Draining, cutover, reconciliation and rollback.                         *)

\* After the drain no direct request of the old executor is open: the ready
\* ones are closed and, as the drain requires, none is in flight.
LEMMA DrainRows ==
    ASSUME RotationInv, Drainable, drain_executor_identity
    PROVE  RowsShape' /\ NoOldDirect'
<1>1. ASSUME NEW r \in rows'
      PROVE  IsRow(r) /\ (r.lane = "direct" /\ r.exec = Old => r.status \notin Open)
  <2>1. PICK q \in rows : r = IF BoundTo(q, Old) /\ q.status = "ready" THEN [q EXCEPT !.status = "done"] ELSE q
    BY <1>1, Zenon DEF drain_executor_identity
  <2>2. IsRow(q) /\ q.status # "active"
    BY Zenon DEF RotationInv, ShapeInv, RowsShape, Drainable, LockFree
  <2>3. CASE BoundTo(q, Old) /\ q.status = "ready"
    <3>1. r = [q EXCEPT !.status = "done"]
      BY <2>1, <2>3, Zenon
    <3>2. IsRow(r) /\ r.status = "done"
      BY <2>2, <3>1, Zenon DEF IsRow
    <3> QED
      BY <3>2, Zenon DEF Open
  <2>4. CASE ~(BoundTo(q, Old) /\ q.status = "ready")
    <3>1. r = q
      BY <2>1, <2>4, Zenon
    <3>2. q.lane = "direct" /\ q.exec = Old => BoundTo(q, Old)
      BY Zenon DEF BoundTo
    <3> QED
      BY <2>2, <2>4, <3>1, <3>2, Zenon DEF Open
  <2> QED
    BY <2>3, <2>4, Zenon
<1> QED
  BY <1>1, Zenon DEF RowsShape, NoOldDirect

LEMMA DrainInv == ASSUME PlanAssumption, RotationInv, Drain PROVE RotationInv'
<1>1. UNCHANGED <<chain, files, host>> /\ UNCHANGED <<contract, journal, release, env, svc>> /\ IsOp(op)
  BY Current, Zenon DEF Drain, chain, files, host
<1>2. CASE Drainable /\ drain_executor_identity /\ Goto(IF op.pc = "drain" THEN "drained" ELSE "c-drained")
  <2>1. RowsShape' /\ NoOldDirect'
    BY <1>2, DrainRows, Zenon
  <2>2. IsOp(op') /\ op'.pc = IF op.pc = "drain" THEN "drained" ELSE "c-drained"
    BY <1>1, <1>2, GotoOp, Zenon DEF Goto
  <2>3. /\ op'.pc = "drained" \/ (op'.pc = "c-drained" /\ op.pc = "c-drain")
        /\ op'.pc \in StoppedPc => op.pc \in StoppedPc
        /\ op'.pc \in CutoverPc => op.pc \in CutoverPc
        /\ op'.pc \notin {"created", "call", "receipt", "check", "r-up"}
    BY <2>2, Zenon DEF Drain, StoppedPc, CutoverPc
  <2>4. ShapeInv'
    BY <1>1, <2>1, <2>2, <2>3, ShapesKept, Zenon DEF RotationInv, ShapeInv, OpShape
  <2>5. ConsumerInv'
    BY <1>1, <2>1, <2>3, Zenon DEF RotationInv, ConsumerInv, OneIdentity, NoOldWork, NoOldDirect
  <2>6. JournalInv'
    BY <1>1, <2>3, JournalKept, Zenon DEF RotationInv
  <2> QED
    BY <2>4, <2>5, <2>6, Zenon DEF RotationInv
<1>3. CASE Fails /\ UNCHANGED rows
  <2>1. "r-claim" \in QuietPc
    BY Zenon DEF QuietPc
  <2> QED
    BY <1>1, <1>3, <2>1, QuietMove, Zenon DEF Fails
<1> QED
  BY <1>2, <1>3, Zenon DEF Drain

LEMMA DrainedInv == ASSUME PlanAssumption, RotationInv, Drained PROVE RotationInv'
<1> DEFINE k == [J EXCEPT !.drained = TRUE]
<1>1. UNCHANGED <<chain, host, rows>> /\ IsOp(op) /\ IsJournal(J) /\ op.pc \in {"drained", "c-drained"}
  BY Current, Zenon DEF Drained
<1>2. /\ IsJournal(k) /\ k.c = J.c /\ k.drained
      /\ k.verified = J.verified /\ k.started = J.started /\ k.used = J.used
  BY <1>1, JournalMarks, Zenon
<1> HIDE DEF k
<1>3. IsOp(op') /\ (op'.pc \in {"c-authority", "r-claim", "idle"} \/ (op'.pc = "c-env" /\ op.pc = "c-drained"))
  <2>1. CASE Fails
    <3>1. CASE End("failed")
      BY <3>1, IdleOp, Zenon DEF End
    <3>2. CASE Goto("r-claim")
      BY <1>1, <3>2, GotoOp, Zenon DEF Goto
    <3> QED
      BY <2>1, <3>1, <3>2, Zenon DEF Fails
  <2>2. CASE Goto(IF op.pc = "drained" THEN "c-authority" ELSE "c-env")
    BY <1>1, <2>2, GotoOp, Zenon DEF Goto
  <2> QED
    BY <2>1, <2>2, Zenon DEF Drained
<1>4. /\ op'.pc \in {"c-authority", "r-claim", "idle"} \/ (op'.pc = "c-env" /\ op.pc = "c-drained")
      /\ op'.pc \notin {"created", "call", "receipt", "check", "r-up"}
      /\ op'.pc \in StoppedPc => op.pc \in StoppedPc
      /\ op'.pc \in DrainedPc => op.pc \in DrainedPc
      /\ op'.pc \in CutoverPc => op.pc \in CutoverPc
  BY <1>1, <1>3, Zenon DEF StoppedPc, DrainedPc, CutoverPc
<1>5. op'.pc \in CutoverPc => MayCutOverTo(k)
  BY <1>2, <1>4, Zenon DEF RotationInv, JournalInv, MayCutOverTo
<1>6. OpShape'
  BY <1>3, <1>4, Zenon DEF OpShape
<1>7. CASE Write(k)
  BY <1>1, <1>2, <1>4, <1>5, <1>6, <1>7, WriteInv, Zenon
<1>8. CASE Fails /\ UNCHANGED files
  <2>1. "r-claim" \in QuietPc
    BY Zenon DEF QuietPc
  <2> QED
    BY <1>1, <1>8, <2>1, QuietMove, Zenon DEF Fails
<1> QED
  BY <1>7, <1>8, Zenon DEF Drained, k

LEMMA StartCutoverInv == ASSUME PlanAssumption, RotationInv, StartCutover PROVE RotationInv'
<1>1. UNCHANGED <<chain, host, rows>> /\ IsOp(op) /\ IsJournal(J)
  BY Current, Zenon DEF StartCutover
<1>2. CASE MayCutOver /\ Write([J EXCEPT !.started = TRUE]) /\ Goto("c-stop")
  <2> DEFINE k == [J EXCEPT !.started = TRUE]
  <2>1. /\ IsJournal(k) /\ k.c = J.c /\ k.started
        /\ k.verified = J.verified /\ k.drained = J.drained /\ k.used = J.used
    BY <1>1, JournalMarks, Zenon
  <2> HIDE DEF k
  <2>2. IsOp(op') /\ op'.pc = "c-stop"
    BY <1>1, <1>2, GotoOp, Zenon DEF Goto
  <2>3. op'.pc \notin StoppedPc \cup DrainedPc \cup {"created", "call", "receipt", "check", "r-up"}
    BY <2>2, Zenon DEF StoppedPc, DrainedPc
  <2>4. OpShape' /\ MayCutOverTo(k) /\ Write(k)
    BY <1>2, <2>1, <2>2, <2>3, Zenon DEF OpShape, MayCutOverTo, MayCutOver, k
  <2> QED
    BY <1>1, <2>1, <2>3, <2>4, WriteInv, Zenon
<1>3. CASE Rollback("cutover") /\ UNCHANGED files
  BY <1>1, <1>3, QuietMove, Zenon
<1> QED
  BY <1>2, <1>3, Zenon DEF StartCutover

LEMMA StopInv == ASSUME PlanAssumption, RotationInv, StopConsumers PROVE RotationInv'
<1>1. UNCHANGED <<chain, files, env, rows>> /\ UNCHANGED <<contract, journal, release>> /\ IsOp(op)
  BY Current, Zenon DEF StopConsumers, chain, files
<1>2. op.pc \in {"c-stop", "r-stop"}
  BY Zenon DEF StopConsumers
<1>3. svc' \subseteq svc
  BY Zenon DEF StopConsumers
<1>4. OneIdentity' /\ NoOldWork'
  BY <1>1, <1>3, Zenon DEF RotationInv, ConsumerInv, OneIdentity, NoOldWork
<1>5. CASE svc' = {} /\ Goto(IF op.pc = "c-stop" THEN "c-drain" ELSE "r-env")
  <2>1. IsOp(op') /\ op'.pc = IF op.pc = "c-stop" THEN "c-drain" ELSE "r-env"
    BY <1>1, <1>5, GotoOp, Zenon DEF Goto
  <2>2. /\ op'.pc \notin DrainedPc \cup {"created", "call", "receipt", "check", "r-up"}
        /\ op'.pc \in CutoverPc => op.pc \in CutoverPc
    BY <2>1, Zenon DEF DrainedPc, CutoverPc
  <2>3. ShapeInv'
    BY <1>1, <2>1, <2>2, ShapesKept, Zenon DEF RotationInv, ShapeInv, OpShape
  <2>4. ConsumerInv'
    BY <1>4, <1>5, <2>2, Zenon DEF ConsumerInv
  <2>5. JournalInv'
    BY <1>1, <1>3, <2>2, JournalKept, Zenon DEF RotationInv
  <2> QED
    BY <2>3, <2>4, <2>5, Zenon DEF RotationInv
<1>6. CASE Rollback("cutover") \/ End("failed")
  <2>1. IsOp(op') /\ op'.pc \in {"r-claim", "idle"}
    <3>1. CASE Rollback("cutover")
      BY <1>1, <3>1, RollbackOp, Zenon DEF Rollback
    <3>2. CASE End("failed")
      BY <3>2, IdleOp, Zenon DEF End
    <3> QED
      BY <1>6, <3>1, <3>2, Zenon
  <2>2. op'.pc \notin StoppedPc \cup DrainedPc \cup CutoverPc \cup {"created", "call", "receipt", "check", "r-up"}
    BY <2>1, Zenon DEF StoppedPc, DrainedPc, CutoverPc
  <2>3. ShapeInv'
    BY <1>1, <2>1, <2>2, ShapesKept, Zenon DEF RotationInv, ShapeInv, OpShape
  <2>4. ConsumerInv'
    BY <1>4, <2>2, Zenon DEF ConsumerInv
  <2>5. JournalInv'
    BY <1>1, <1>3, <2>2, JournalKept, Zenon DEF RotationInv
  <2> QED
    BY <2>3, <2>4, <2>5, Zenon DEF RotationInv
<1> QED
  BY <1>5, <1>6, Zenon DEF StopConsumers

\* The contract the environment gets was verified, drained for and cut over
\* to by its release; no consumer runs.
LEMMA MaterializeInv == ASSUME PlanAssumption, RotationInv, Materialize PROVE RotationInv'
<1>1. /\ UNCHANGED <<chain, files, svc, rows>> /\ UNCHANGED <<contract, journal, release>> /\ IsOp(op)
      /\ op.pc \in {"c-env", "r-env"} /\ env' \in {env, IF op.pc = "c-env" THEN J.c ELSE Old}
  BY Current, Zenon DEF Materialize, Target, chain, files
<1>2. /\ IsOp(op') /\ op'.pc \in {"c-up", "r-up", "r-claim", "idle"}
      /\ op'.pc = "c-up" => op.pc = "c-env"
      /\ op'.pc = "r-up" => env' = Old
  <2>1. CASE env' = Target /\ Goto(IF op.pc = "c-env" THEN "c-up" ELSE "r-up")
    <3>1. IsOp(op') /\ op'.pc = IF op.pc = "c-env" THEN "c-up" ELSE "r-up"
      BY <1>1, <2>1, GotoOp, Zenon DEF Goto
    <3> QED
      BY <1>1, <2>1, <3>1, Zenon DEF Target
  <2>2. CASE Rollback("cutover")
    <3>1. IsOp(op') /\ op'.pc = "r-claim"
      BY <1>1, <2>2, RollbackOp, Zenon DEF Rollback
    <3> QED
      BY <3>1, Zenon
  <2>3. CASE End("failed")
    <3>1. IsOp(op') /\ op'.pc = "idle"
      BY <2>3, IdleOp, Zenon DEF End
    <3> QED
      BY <3>1, Zenon
  <2> QED
    BY <2>1, <2>2, <2>3, Zenon DEF Materialize
<1>3. svc = {}
  BY <1>1, Zenon DEF RotationInv, ConsumerInv, StoppedPc
<1>4. /\ op'.pc \notin CutoverPc \cup {"created", "call", "receipt", "check"}
      /\ op'.pc \in DrainedPc => op.pc \in DrainedPc
      /\ op'.pc = "r-up" => env' = Old
  BY <1>1, <1>2, Zenon DEF CutoverPc, DrainedPc
<1>5. ShapeInv'
  BY <1>1, <1>2, <1>4, ShapesKept, Zenon DEF RotationInv, ShapeInv, OpShape
<1>6. ConsumerInv'
  BY <1>1, <1>3, <1>4, Zenon DEF RotationInv, ConsumerInv, OneIdentity, NoOldWork, NoOldDirect
<1>7. NewIsPrepared'
  <2>5. CASE env' = env
    BY <1>1, <2>5, Zenon DEF RotationInv, JournalInv, NewIsPrepared
  <2> SUFFICES ASSUME NEW c \in Contract, env' = c, env' # env
               PROVE  /\ contract[c].set = Setting /\ ~contract[c].paused
                      /\ \E r \in Release : journal[r].c = c /\ journal[r].verified /\ journal[r].drained /\ journal[r].started
    BY <1>1, <1>3, <2>5, Zenon DEF NewIsPrepared, Release
  <2>1. c # Old
    BY SMTT(30) DEF PlanAssumption, Contract, Old
  <2>2. op.pc = "c-env" /\ J.c = c
    BY <1>1, <2>1, Zenon
  <2>3. MayCutOverTo(J) /\ release \in Release /\ J = journal[release]
    BY <2>2, Current, Zenon DEF RotationInv, JournalInv, CutoverPc
  <2>4. Exact(c, FALSE)
    BY <2>2, <2>3, Zenon DEF RotationInv, JournalInv, MayCutOverTo
  <2> QED
    BY <2>2, <2>3, <2>4, Zenon DEF Exact, MayCutOverTo
<1>8. J' = J
  BY <1>1, Zenon DEF J
<1>9. JournalInv'
  BY <1>1, <1>4, <1>7, <1>8, Zenon DEF RotationInv, JournalInv, Exact
<1> QED
  BY <1>5, <1>6, <1>9, Zenon DEF RotationInv

\* Consumers are started from none, all with the environment's contract.
LEMMA StartConsumersInv == ASSUME PlanAssumption, RotationInv, StartConsumers PROVE RotationInv'
<1>1. /\ UNCHANGED <<chain, files, env, rows>> /\ UNCHANGED <<contract, journal, release>> /\ IsOp(op)
      /\ op.pc \in {"c-up", "r-up"}
  BY Current, Zenon DEF StartConsumers, chain, files
<1>2. svc = {} /\ (op.pc = "c-up" => NoOldDirect) /\ (op.pc = "r-up" => env = Old)
  BY <1>1, Zenon DEF RotationInv, ConsumerInv, StoppedPc, DrainedPc
<1>3. \E S \in SUBSET Consumer : svc' = Recreated(S)
  BY Zenon DEF StartConsumers
<1>4. \A p \in svc' : p[2] = env /\ \E s \in Consumer : p = <<s, env>>
  BY <1>2, <1>3, SMTT(30) DEF Recreated
<1>5. OneIdentity'
  BY <1>4, Zenon DEF OneIdentity
<1>6. NoOldWork'
  BY <1>1, <1>2, <1>4, Zenon DEF NoOldWork, NoOldDirect
<1>7. IsOp(op') /\ op'.pc \in {"c-verify", "r-verify", "r-claim", "idle"}
  <2>1. ASSUME NEW x \in {"c-verify", "r-verify"}, Goto(x) PROVE IsOp(op') /\ op'.pc \in {"c-verify", "r-verify"}
    BY <1>1, <2>1, GotoOp, Zenon DEF Goto
  <2>2. ASSUME NEW why, Rollback(why) PROVE IsOp(op') /\ op'.pc = "r-claim"
    BY <1>1, <2>2, RollbackOp, Zenon DEF Rollback
  <2>3. CASE End("failed")
    BY <2>3, IdleOp, Zenon DEF End
  <2> QED
    BY <2>1, <2>2, <2>3, Zenon DEF StartConsumers
<1>8. op'.pc \notin StoppedPc \cup DrainedPc \cup CutoverPc \cup {"created", "call", "receipt", "check", "r-up"}
  BY <1>7, Zenon DEF StoppedPc, DrainedPc, CutoverPc
<1>9. ShapeInv'
  BY <1>1, <1>7, <1>8, ShapesKept, Zenon DEF RotationInv, ShapeInv, OpShape
<1>10. ConsumerInv'
  BY <1>5, <1>6, <1>8, Zenon DEF ConsumerInv
<1>11. NewIsPrepared'
  <2>1. \A c \in Contract : (env' = c \/ \E s \in Consumer : <<s, c>> \in svc') => env = c
    <3>1. ASSUME NEW c, NEW s, <<s, c>> \in svc' PROVE env = c
      <4>1. <<s, c>>[2] = env
        BY <1>4, <3>1, Zenon
      <4> QED
        BY <4>1, SMTT(30)
    <3> QED
      BY <1>1, <3>1, Zenon
  <2> QED
    BY <1>1, <2>1, Zenon DEF RotationInv, JournalInv, NewIsPrepared
<1>12. J' = J
  BY <1>1, Zenon DEF J
<1>13. JournalInv'
  BY <1>1, <1>8, <1>11, <1>12, Zenon DEF RotationInv, JournalInv, Exact
<1> QED
  BY <1>9, <1>10, <1>13, Zenon DEF RotationInv

LEMMA EndCutoverInv == ASSUME PlanAssumption, RotationInv, EndCutover \/ reconcile_phoenix_identity \/ EndRollback
                       PROVE  RotationInv'
<1>1. /\ UNCHANGED <<chain, host, rows>> /\ IsOp(op) /\ IsJournal(J)
      /\ Agree([J EXCEPT !.cut = TRUE], J) /\ Agree([J EXCEPT !.reconciled = TRUE], J)
      /\ Agree([J EXCEPT !.restored = TRUE], J)
  BY Current, JournalUpdates, Zenon DEF EndCutover, reconcile_phoenix_identity, EndRollback
<1>2. "reconcile" \in QuietPc /\ "idle" \in QuietPc
  BY Zenon DEF QuietPc
<1>3. ASSUME Goto("reconcile") \/ (\E how : End(how)) PROVE IsOp(op') /\ op'.pc \in QuietPc
  <2>1. CASE Goto("reconcile")
    BY <1>1, <1>2, <2>1, GotoOp, Zenon DEF Goto
  <2>2. ASSUME NEW how, End(how) PROVE IsOp(op') /\ op'.pc \in QuietPc
    BY <1>2, <2>2, IdleOp, Zenon DEF End
  <2> QED
    BY <1>3, <2>1, <2>2, Zenon
<1>4. ASSUME NEW k, Write(k), Agree(k, J), Goto("reconcile") \/ (\E how : End(how)) PROVE RotationInv'
  BY <1>1, <1>3, <1>4, NoteInv, Zenon
<1>5. CASE UNCHANGED files /\ ((\E why : Rollback(why)) \/ (\E how : End(how)))
  BY <1>1, <1>5, QuietMove, Zenon
<1>6. CASE EndCutover
  BY <1>1, <1>4, <1>5, <1>6, Zenon DEF EndCutover
<1>7. CASE reconcile_phoenix_identity
  BY <1>1, <1>4, <1>5, <1>7, Zenon DEF reconcile_phoenix_identity
<1>8. CASE EndRollback
  BY <1>1, <1>4, <1>5, <1>8, Zenon DEF EndRollback
<1> QED
  BY <1>6, <1>7, <1>8, Zenon

LEMMA ClaimRollbackInv == ASSUME PlanAssumption, RotationInv, ClaimRollback PROVE RotationInv'
<1>1. UNCHANGED <<chain, host, rows>> /\ IsOp(op) /\ IsJournal(J)
  BY Current, Zenon DEF ClaimRollback
<1>2. CASE Write([J EXCEPT !.used = TRUE]) /\ Goto("r-authority")
  <2> DEFINE k == [J EXCEPT !.used = TRUE]
  <2>1. IsJournal(k) /\ k.c = J.c /\ k.verified = J.verified /\ k.drained = J.drained /\ k.started = J.started
    BY <1>1, JournalMarks, Zenon
  <2> HIDE DEF k
  <2>2. IsOp(op') /\ op'.pc = "r-authority"
    BY <1>1, <1>2, GotoOp, Zenon DEF Goto
  <2>3. op'.pc \notin StoppedPc \cup DrainedPc \cup CutoverPc \cup {"created", "call", "receipt", "check", "r-up"}
    BY <2>2, Zenon DEF StoppedPc, DrainedPc, CutoverPc
  <2>4. OpShape' /\ Write(k)
    BY <1>2, <2>2, <2>3, Zenon DEF OpShape, k
  <2> QED
    BY <1>1, <2>1, <2>3, <2>4, WriteInv, Zenon
<1>3. CASE UNCHANGED files /\ \E how : End(how)
  BY <1>1, <1>3, QuietMove, Zenon
<1> QED
  BY <1>2, <1>3, Zenon DEF ClaimRollback

-----------------------------------------------------------------------------
(* The theorems.                                                           *)

LEMMA RotationInit == PlanAssumption /\ Init => RotationInv
<1> SUFFICES ASSUME PlanAssumption, Init PROVE RotationInv
  BY Zenon
<1>1. op.pc = "idle" /\ IsOp(op)
  BY IdleOp, Zenon DEF Init
<1>2. op.pc \notin StoppedPc \cup DrainedPc \cup CutoverPc \cup {"created", "call", "receipt", "check", "r-up"}
  BY <1>1, Zenon DEF StoppedPc, DrainedPc, CutoverPc
<1>3. IsJournal(NoJournal) /\ NoJournal.c = Old /\ NoJournal.verified = FALSE /\ NoJournal.used = FALSE
  BY SMTT(30) DEF IsJournal, JournalFields, NoJournal
<1>4. release \in Release /\ Old \notin Contract /\ Old \in Identity
  BY SMTT(30) DEF PlanAssumption, Init, Release, Old, Contract, Identity
<1>5. \A r \in Release : journal[r] = NoJournal
  BY Zenon DEF Init, Release
<1>6. FilesShape
  BY <1>3, <1>4, <1>5, Zenon DEF Init, FilesShape, Release
<1>7. ChainShape
  <2>1. IsContract(NoContract)
    BY SMTT(30) DEF NoContract, IsContract
  <2>2. pool \in Seq(Transaction)
    BY SMTT(30) DEF Init
  <2> QED
    BY <2>1, <2>2, Zenon DEF Init, ChainShape
<1>8. ShapeInv
  BY <1>1, <1>2, <1>6, <1>7, Zenon DEF Init, ShapeInv, RowsShape, OpShape
<1>9. \A p \in svc : p[2] = Old
  BY SMTT(30) DEF Init
<1>10. ConsumerInv
  BY <1>2, <1>9, Zenon DEF ConsumerInv, OneIdentity, NoOldWork
<1>11. NewIsPrepared
  <2>1. ASSUME NEW c, NEW s, <<s, c>> \in svc PROVE c = Old
    <3>1. <<s, c>>[2] = Old
      BY <1>9, <2>1, Zenon
    <3> QED
      BY <3>1, SMTT(30)
  <2> QED
    BY <1>4, <2>1, Zenon DEF Init, NewIsPrepared
<1>12. JournalInv
  BY <1>2, <1>3, <1>4, <1>5, <1>11, Zenon DEF JournalInv, J
<1> QED
  BY <1>8, <1>10, <1>12, Zenon DEF RotationInv

LEMMA RotationNext == PlanAssumption /\ RotationInv /\ [Next]_vars => RotationInv'
<1> SUFFICES ASSUME PlanAssumption, RotationInv, [Next]_vars PROVE RotationInv'
  BY Zenon
<1>1. CASE Mine \/ NextRelease \/ Crash \/ recover_existing
  BY <1>1, MineInv, NextReleaseInv, CommandInv, AdoptInv, Zenon
<1>2. ASSUME NEW lane, Produce(lane) PROVE RotationInv'
  BY <1>2, ProduceInv, Zenon
<1>3. ASSUME NEW row \in rows, Claim(row) \/ Finish(row) PROVE RotationInv'
  BY <1>3, RequestInv, Zenon
<1>4. CASE \E mode \in {"prepare", "execute", "rollback"} : Start(mode)
  BY <1>4, CommandInv, Zenon
<1>5. CASE Step
  <2>1. CASE \/ deploy_phoenix_executor \/ Deployed \/ mirror_phoenix_config \/ owner_call \/ Receipt \/ Check
             \/ verify_phoenix_pair \/ prove_spl_absent
    BY <2>1, DeployInv, DeployedInv, MirrorInv, OwnerCallInv, ReceiptInv, CheckInv, VerifyInv, SplInv, Zenon
  <2>2. CASE \/ Drain \/ Drained \/ StartCutover \/ StopConsumers \/ Materialize \/ StartConsumers \/ EndCutover
             \/ reconcile_phoenix_identity \/ ClaimRollback \/ RollbackAuthority \/ EndRollback
    BY <2>2, DrainInv, DrainedInv, StartCutoverInv, StopInv, MaterializeInv, StartConsumersInv, EndCutoverInv,
       ClaimRollbackInv, VerifyInv, Zenon
  <2> QED
    BY <1>5, <2>1, <2>2, Zenon DEF Step
<1>6. CASE UNCHANGED vars
  <2>1. UNCHANGED <<chain, files, host, rows, op>>
    BY <1>6, Zenon DEF vars, chain, files, host
  <2>2. UNCHANGED <<contract, journal, release, env, svc>>
    BY <1>6, Zenon DEF vars
  <2>3. ShapeInv'
    BY <2>1, ShapesKept, Zenon DEF RotationInv, ShapeInv
  <2>4. ConsumerInv'
    BY <2>1, <2>2, ConsumersKept, Zenon DEF RotationInv
  <2>5. JournalInv'
    BY <2>1, <2>2, JournalKept, Zenon DEF RotationInv
  <2> QED
    BY <2>3, <2>4, <2>5, Zenon DEF RotationInv
<1> QED
  BY <1>1, <1>2, <1>3, <1>4, <1>5, <1>6, Zenon DEF Next

\* What each command, crash and consumer relies on holds throughout.
THEOREM RotationInvariance == ASSUME PlanAssumption PROVE Spec => []RotationInv
  BY RotationInit, RotationNext, PTL DEF Spec

\* A consumer is only given a contract whose whole configuration was read back
\* from the chain unpaused, and whose journal records the gates, however many
\* commands, crashes, releases and adoptions there are.
THEOREM PreparedBeforeUse == ASSUME PlanAssumption PROVE Spec => []NewIsPrepared
<1>1. RotationInv => NewIsPrepared
  BY Zenon DEF RotationInv, JournalInv
<1> QED
  BY <1>1, RotationInvariance, PTL

\* No two consumers run with different executors, whichever step of a cutover
\* or a rollback fails or is cut off.
THEOREM SameIdentity == ASSUME PlanAssumption PROVE Spec => []OneIdentity
<1>1. RotationInv => OneIdentity
  BY Zenon DEF RotationInv, ConsumerInv
<1> QED
  BY <1>1, RotationInvariance, PTL

\* Once a consumer runs with a new executor, no direct request of the old one
\* is left to claim or in flight.
THEOREM OldWorkIsDrained == ASSUME PlanAssumption PROVE Spec => []NoOldWork
<1>1. RotationInv => NoOldWork
  BY Zenon DEF RotationInv, ConsumerInv
<1> QED
  BY <1>1, RotationInvariance, PTL

\* No release rotates again to a contract it rolled back from, by a repeated
\* command, nor to one that the legacy release rolled back from, by adopting it.
THEOREM NoSecondRotation == ASSUME PlanAssumption PROVE Spec => RolledBackStays
<1>1. RotationInv /\ [Next]_vars => [NoReturn]_vars
  <2> SUFFICES ASSUME RotationInv, [Next]_vars, NEW r \in {Legacy, release}, journal[r].used, env = Old,
                      env' # Old, env' = journal[r].c
               PROVE  FALSE
    BY Zenon DEF NoReturn
  <2>1. CASE Materialize
    <3>1. op.pc = "c-env" /\ env' = J.c
      BY <2>1, Zenon DEF Materialize, Target
    <3>2. ~J.used /\ J = journal[release]
      BY <3>1, Current, Zenon DEF RotationInv, JournalInv, CutoverPc, MayCutOverTo
    <3>3. r # release /\ r = Legacy
      BY <3>2, Zenon
    <3> QED
      BY <3>1, <3>3, Zenon DEF RotationInv, JournalInv
  <2>2. CASE ~Materialize
    <3>1. env' = env
      BY <2>2, ZenonT(60) DEF Next, Step, vars, host, Mine, Produce, Claim, Finish, NextRelease, Crash, Start,
         recover_existing, deploy_phoenix_executor, Deployed, mirror_phoenix_config, owner_call, Receipt, Check,
         verify_phoenix_pair, prove_spl_absent, Drain, Drained, StartCutover, StopConsumers, StartConsumers,
         EndCutover, reconcile_phoenix_identity, ClaimRollback, RollbackAuthority, EndRollback
    <3> QED
      BY <3>1, Zenon
  <2> QED
    BY <2>1, <2>2, Zenon
<1> QED
  BY <1>1, RotationInvariance, PTL DEF Spec, RolledBackStays
=============================================================================
