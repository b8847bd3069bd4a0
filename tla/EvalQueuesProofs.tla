---------------------------- MODULE EvalQueuesProofs ---------------------------
(***************************************************************************)
(* The safety properties of EvalQueues, proved for every set of exporters, *)
(* requests, corrections and merchants, every limit and any number of      *)
(* deaths.                                                                 *)
(*                                                                         *)
(* That a correction becomes one example rests on three facts that have to *)
(* be carried along: a script that is alone has seen every example there   *)
(* is, in its listing or because it created it (ListedOrCreated); its rows *)
(* are distinct, as each merchant is asked once and finds only its own     *)
(* (Loaded); and the place of a correction in the queue is its only one    *)
(* (QueueIsRecorded).  That a run has one review rests on the unique       *)
(* index: who has inserted and not yet committed, answered or not, is      *)
(* alone with its run (PostIsSound).                                       *)
(***************************************************************************)
EXTENDS EvalQueues, TLAPS

ExporterStates ==
  [pc : {"idle", "asking", "loaded", "syncing"}, asked : Nat, rows : Seq(Corrections),
   existing : SUBSET Corrections, next : Nat]

PostStates ==
  [pc : {"idle", "missing", "found", "inserted", "answered", "committed", "lost", "failed"},
   review : Posts \cup {NoPost}]

Types ==
  /\ rowSecurity \in BOOLEAN /\ dryRun \in [Exporters -> BOOLEAN] /\ overlapped \in BOOLEAN
  /\ queue \in Seq(Corrections)
  /\ status \in [Corrections -> {"none", "queued", "exported"}]
  /\ examples \in [Corrections -> Nat]
  /\ exporter \in [Exporters -> ExporterStates]
  /\ reviews \subseteq Posts
  /\ post \in [Posts -> PostStates]

\* The order of created_at: every recorded correction has one place in it.
QueueIsRecorded ==
  /\ \A c \in Corrections : (\E i \in DOMAIN queue : queue[i] = c) <=> status[c] # "none"
  /\ \A i, j \in DOMAIN queue : queue[i] = queue[j] => i = j

Distinct(rows) == \A i, j \in DOMAIN rows : rows[i] = rows[j] => i = j

\* What a script has loaded: recorded corrections within the limit, each once
\* if row-level security keeps the merchants apart; up to the row it is at
\* LangSmith has an example of each.
Loaded(me) ==
  /\ me.pc \in {"idle", "asking", "loaded"} => me.next = 1
  /\ me.pc = "idle" => me.rows = <<>>
  /\ me.pc = "asking" => me.asked < Len(Merchants)
  /\ Len(me.rows) <= Limit /\ me.next \in 1 .. Len(me.rows) + 1
  /\ \A i \in DOMAIN me.rows : status[me.rows[i]] # "none"
  /\ rowSecurity => Distinct(me.rows)
  /\ rowSecurity /\ me.pc = "asking" =>
       \A i \in DOMAIN me.rows : \E k \in 1 .. me.asked : MerchantOf[me.rows[i]] = Merchants[k]
  /\ me.pc = "syncing" =>
       /\ \A c \in me.existing : examples[c] >= 1
       /\ \A i \in DOMAIN me.rows : i < me.next => examples[me.rows[i]] >= 1

OneAtATime == ~overlapped => \A e, f \in Exporters : Busy(e) /\ Busy(f) => e = f

\* While a script is alone, what LangSmith has is what the listing showed and
\* what the script has created since.
AllListed(me) ==
  \A c \in Corrections : examples[c] > 0 =>
    c \in me.existing \/ \E i \in DOMAIN me.rows : i < me.next /\ me.rows[i] = c

ListedOrCreated ==
  rowSecurity /\ ~overlapped =>
    \A e \in Exporters : exporter[e].pc = "syncing" => AllListed(exporter[e])

\* What a request says of its review, and the unique run of each review.
PostIsSound(p) ==
  /\ post[p].pc = "found" => post[p].review \in SameRun(p)
  /\ Uncommitted(p) =>
       post[p].review = p /\ p \notin reviews /\ SameRun(p) = {} /\ HoldsRun(p) = {}
  /\ Given(p) => post[p].review = p \/ post[p].review \in SameRun(p)
  /\ post[p].pc = "committed" => post[p].review \in reviews

ReviewsAreSound ==
  /\ \A q \in reviews : post[q].pc = "committed" /\ post[q].review = q
  /\ \A q, r \in reviews : RunOf[q] = RunOf[r] /\ RunOf[q] # NoRun => q = r
  /\ \A p \in Posts : PostIsSound(p)

ExportInv ==
  /\ QueueIsRecorded
  /\ \A e \in Exporters : Loaded(exporter[e])
  /\ OneAtATime /\ ListedOrCreated
  /\ ExportedOnce /\ MarkedIsExported

IndInv == Types /\ ExportInv /\ ReviewsAreSound

-------------------------------------------------------------------------------
\* The state of a script that does not run.
LEMMA IdleExporterState ==
  /\ IdleExporter \in ExporterStates
  /\ IdleExporter.pc = "idle" /\ IdleExporter.rows = <<>> /\ IdleExporter.next = 1
  /\ IdleExporter.asked = 0
BY DEF IdleExporter, ExporterStates

\* ... has loaded nothing.
LEMMA IdleLoaded == Loaded(IdleExporter) /\ Loaded(IdleExporter)'
BY IdleExporterState, QueuesAssumption DEF Loaded, Distinct

\* Nothing is recorded, exported or posted yet.
LEMMA IndInvInit == Init => IndInv
<1> SUFFICES ASSUME Init PROVE IndInv
  OBVIOUS
<1>1. Types
  <2>1. exporter \in [Exporters -> ExporterStates]
    BY IdleExporterState DEF Init
  <2>2. post \in [Posts -> PostStates]
    BY DEF Init, PostStates
  <2>3. /\ status \in [Corrections -> {"none", "queued", "exported"}]
        /\ examples \in [Corrections -> Nat]
    BY DEF Init
  <2>4. queue \in Seq(Corrections)
    BY DEF Init
  <2>6. reviews \subseteq Posts /\ overlapped \in BOOLEAN
    BY DEF Init
  <2>5. rowSecurity \in BOOLEAN /\ dryRun \in [Exporters -> BOOLEAN]
    BY DEF Init
  <2>. QED BY <2>1, <2>2, <2>3, <2>4, <2>5, <2>6 DEF Types
<1>2. \A e \in Exporters : exporter[e] = IdleExporter
  BY DEF Init
<1>3. QueueIsRecorded /\ ExportedOnce /\ MarkedIsExported
  BY DEF Init, QueueIsRecorded, ExportedOnce, MarkedIsExported
<1>4. OneAtATime /\ ListedOrCreated
  BY <1>2, IdleExporterState DEF OneAtATime, ListedOrCreated, Busy
<1>5. ReviewsAreSound
  BY DEF Init, ReviewsAreSound, PostIsSound, Uncommitted, Given
<1>. QED
  BY <1>1, <1>2, <1>3, <1>4, <1>5, IdleLoaded DEF IndInv, ExportInv

\* What a step that touches no correction and no example keeps.
LEMMA LoadedKept ==
  ASSUME IndInv, UNCHANGED rowSecurity, NEW me \in ExporterStates, Loaded(me),
         \A c \in Corrections : status[c] # "none" => status'[c] # "none",
         \A c \in Corrections : examples[c] <= examples'[c],
         examples' \in [Corrections -> Nat]
  PROVE  Loaded(me)'
<1>1. /\ me.rows \in Seq(Corrections) /\ me.existing \subseteq Corrections
      /\ \A i \in DOMAIN me.rows : me.rows[i] \in Corrections
  BY DEF ExporterStates
<1>2. \A c \in Corrections : examples[c] >= 1 => examples'[c] >= 1
  BY DEF IndInv, Types
<1>. QED
  BY <1>1, <1>2 DEF Loaded, Distinct

\* A step that leaves the examples alone takes none away.
LEMMA ExamplesKept ==
  ASSUME IndInv, UNCHANGED examples
  PROVE  examples' \in [Corrections -> Nat] /\ \A c \in Corrections : examples[c] <= examples'[c]
BY DEF IndInv, Types

\* A step of a script or of an operator does not touch the reviews.
LEMMA ReviewsKept ==
  ASSUME IndInv, UNCHANGED reviewVars
  PROVE  ReviewsAreSound'
BY DEF IndInv, ReviewsAreSound, PostIsSound, SameRun, HoldsRun, Uncommitted, Given, reviewVars

\* What a step of one script has to show: the rest follows.
LEMMA ExporterStepInv ==
  ASSUME IndInv, NEW e \in Exporters, NEW new \in ExporterStates,
         exporter' = [exporter EXCEPT ![e] = new],
         UNCHANGED <<rowSecurity, dryRun, queue, reviewVars>>,
         status' \in [Corrections -> {"none", "queued", "exported"}],
         \A c \in Corrections : status'[c] # "none" <=> status[c] # "none",
         examples' \in [Corrections -> Nat],
         \A c \in Corrections : examples[c] <= examples'[c],
         \/ overlapped' = overlapped /\ (Busy(e) \/ new.pc = "idle")
         \/ overlapped' = (overlapped \/ \E f \in Exporters \ {e} : Busy(f)),
         Loaded(new)',
         rowSecurity /\ ~overlapped /\ new.pc = "syncing" => Busy(e) /\ AllListed(new)',
         UNCHANGED examples \/ Busy(e),
         ExportedOnce', MarkedIsExported'
  PROVE  IndInv'
<1>1. \A f \in Exporters : exporter'[f] = IF f = e THEN new ELSE exporter[f]
  BY DEF IndInv, Types
<1>2. Types'
  BY DEF IndInv, Types, reviewVars
<1>3. QueueIsRecorded'
  BY DEF IndInv, ExportInv, QueueIsRecorded
<1>4. ASSUME NEW f \in Exporters PROVE Loaded(exporter[f])'
  <2>1. CASE f = e
    BY <1>1, <2>1
  <2>2. CASE f # e
    <3>1. PICK me \in ExporterStates : me = exporter[f]
      BY DEF IndInv, Types
    <3>2. Loaded(me)
      BY <3>1 DEF IndInv, ExportInv
    <3>3. Loaded(me)'
      BY <3>2, LoadedKept
    <3>. QED BY <1>1, <2>2, <3>1, <3>3
  <2>. QED BY <2>1, <2>2
<1>5. overlapped => overlapped'
  OBVIOUS
<1>6. OneAtATime'
  <2> SUFFICES ASSUME ~overlapped', NEW f \in Exporters \ {e}, Busy(f)', Busy(e)'
               PROVE  FALSE
    BY <1>1, <1>5 DEF IndInv, ExportInv, OneAtATime, Busy
  <2>1. Busy(f) /\ new.pc # "idle"
    BY <1>1 DEF Busy
  <2>2. ~Busy(e)
    BY <1>5, <2>1 DEF IndInv, ExportInv, OneAtATime
  <2>. QED BY <2>1, <2>2
<1>7. ListedOrCreated'
  <2> SUFFICES ASSUME rowSecurity, ~overlapped', NEW f \in Exporters, exporter'[f].pc = "syncing"
               PROVE  AllListed(exporter[f])'
    BY DEF ListedOrCreated
  <2>1. CASE f = e
    BY <1>1, <1>5, <2>1
  <2>2. CASE f # e
    <3>1. exporter'[f] = exporter[f] /\ Busy(f)
      BY <1>1, <2>2 DEF Busy
    <3>2. ~Busy(e)
      BY <1>5, <2>2, <3>1 DEF IndInv, ExportInv, OneAtATime
    <3>3. UNCHANGED examples
      BY <3>2
    <3>4. AllListed(exporter[f])
      BY <1>5, <3>1 DEF IndInv, ExportInv, ListedOrCreated
    <3>. QED BY <3>1, <3>3, <3>4 DEF AllListed
  <2>. QED BY <2>1, <2>2
<1>8. ReviewsAreSound'
  BY ReviewsKept DEF reviewVars
<1>. QED
  BY <1>2, <1>3, <1>4, <1>6, <1>7, <1>8 DEF IndInv, ExportInv

-------------------------------------------------------------------------------
\* One lemma for each step of a script.

\* A correction takes the last place of the queue, and only once.
LEMMA RecordCorrectionInv ==
  ASSUME IndInv, NEW c \in Corrections, RecordCorrection(c)
  PROVE  IndInv'
<1> USE DEF RecordCorrection
<1>1. /\ queue' = Append(queue, c) /\ queue \in Seq(Corrections) /\ status[c] = "none"
      /\ status' = [status EXCEPT ![c] = "queued"]
      /\ UNCHANGED <<rowSecurity, dryRun, examples, exporter, overlapped, reviewVars>>
  BY DEF IndInv, Types
<1>2. \A x \in Corrections : status'[x] = IF x = c THEN "queued" ELSE status[x]
  BY DEF IndInv, Types
<1>3. Types'
  BY <1>1 DEF IndInv, Types, reviewVars
<1>4. QueueIsRecorded'
  <2>1. /\ DOMAIN queue' = 1 .. Len(queue) + 1 /\ DOMAIN queue = 1 .. Len(queue)
        /\ Len(queue) \in Nat
        /\ \A i \in 1 .. Len(queue) : queue'[i] = queue[i]
        /\ queue'[Len(queue) + 1] = c
    BY <1>1
  <2>2. \A i \in DOMAIN queue : queue[i] # c /\ queue[i] \in Corrections
    BY <1>1 DEF IndInv, ExportInv, QueueIsRecorded
  <2>3. \A i, j \in DOMAIN queue' : queue'[i] = queue'[j] => i = j
    BY <2>1, <2>2 DEF IndInv, ExportInv, QueueIsRecorded
  <2>4. ASSUME NEW x \in Corrections
        PROVE  (\E i \in DOMAIN queue' : queue'[i] = x) <=> status'[x] # "none"
    <3>1. CASE x = c
      BY <1>2, <2>1, <3>1
    <3>2. CASE x # c
      BY <1>2, <2>1, <3>2 DEF IndInv, ExportInv, QueueIsRecorded
    <3>. QED BY <3>1, <3>2
  <2>. QED BY <2>3, <2>4 DEF QueueIsRecorded
<1>5. ASSUME NEW e \in Exporters PROVE Loaded(exporter[e])'
  <2>1. PICK me \in ExporterStates : me = exporter[e]
    BY DEF IndInv, Types
  <2>2. Loaded(me)
    BY <2>1 DEF IndInv, ExportInv
  <2>3. Loaded(me)'
    BY <1>1, <1>2, <2>2, LoadedKept, ExamplesKept
  <2>. QED BY <1>1, <2>1, <2>3
<1>6. OneAtATime' /\ ListedOrCreated'
  BY <1>1 DEF IndInv, ExportInv, OneAtATime, Busy, ListedOrCreated, AllListed
<1>7. ExportedOnce' /\ MarkedIsExported'
  BY <1>1, <1>2 DEF IndInv, ExportInv, ExportedOnce, MarkedIsExported
<1>8. ReviewsAreSound'
  BY <1>1, ReviewsKept
<1>. QED
  BY <1>3, <1>4, <1>5, <1>6, <1>7, <1>8 DEF IndInv, ExportInv

\* The loop over the merchants goes on, or ends with rows or without.
LEMMA AskedState ==
  ASSUME NEW me \in ExporterStates, me.pc = "asking", me.next = 1, NEW new, new = Asked(me)
  PROVE  /\ new \in ExporterStates
         /\ \/ new = me /\ me.asked < Len(Merchants)
            \/ new = IdleExporter
            \/ new.pc = "loaded" /\ new.rows = me.rows /\ new.next = 1
<1>1. CASE new = [me EXCEPT !.pc = "loaded"]
  BY <1>1 DEF ExporterStates
<1>2. CASE new = me /\ me.asked < Len(Merchants)
  BY <1>2
<1>3. CASE new = IdleExporter
  BY <1>3, IdleExporterState
<1>. QED
  BY <1>1, <1>2, <1>3 DEF Asked

\* The script starts with no rows, and has merchants to ask or ends.
LEMMA StartExportInv ==
  ASSUME IndInv, NEW e \in Exporters, StartExport(e)
  PROVE  IndInv'
<1>1. PICK me : me = [IdleExporter EXCEPT !.pc = "asking"]
  OBVIOUS
<1>2. me \in ExporterStates /\ me.pc = "asking" /\ me.rows = <<>> /\ me.next = 1 /\ me.asked = 0
  BY <1>1, IdleExporterState DEF ExporterStates
<1>3. PICK new : new = Asked(me)
  OBVIOUS
<1>4. /\ ~Busy(e) /\ exporter' = [exporter EXCEPT ![e] = new]
      /\ overlapped' = (overlapped \/ \E f \in Exporters \ {e} : Busy(f))
      /\ UNCHANGED <<rowSecurity, dryRun, queue, status, examples, reviewVars>>
  BY <1>1, <1>3 DEF StartExport
<1>5. /\ new \in ExporterStates
      /\ \/ new = me /\ me.asked < Len(Merchants)
         \/ new = IdleExporter
         \/ new.pc = "loaded" /\ new.rows = me.rows /\ new.next = 1
  BY <1>2, <1>3, AskedState
<1>6. Loaded(new)' /\ new.pc # "syncing"
  BY <1>2, <1>5, IdleLoaded, IdleExporterState, QueuesAssumption DEF Loaded, Distinct
<1>7. ExportedOnce' /\ MarkedIsExported'
  BY <1>4 DEF IndInv, ExportInv, ExportedOnce, MarkedIsExported
<1>8. status' \in [Corrections -> {"none", "queued", "exported"}]
  BY <1>4 DEF IndInv, Types
<1>. QED
  BY <1>4, <1>5, <1>6, <1>7, <1>8, ExamplesKept, ExporterStepInv

\* No correction comes before itself.
LEMMA BatchIsDistinct ==
  ASSUME IndInv, NEW found \in SUBSET Corrections, NEW n \in Nat, NEW batch \in Seq(found),
         FirstOf(found, n, batch)
  PROVE  Distinct(batch)
<1> SUFFICES ASSUME NEW i \in DOMAIN batch, NEW j \in DOMAIN batch, i < j
             PROVE  batch[i] # batch[j]
  BY DEF Distinct
<1>1. PICK k \in DOMAIN queue, l \in DOMAIN queue :
        k < l /\ queue[k] = batch[i] /\ queue[l] = batch[j]
  BY DEF FirstOf, Before
<1>. QED
  BY <1>1 DEF IndInv, Types, ExportInv, QueueIsRecorded

\* The elements of two sequences, one after the other.
LEMMA Concatenated ==
  ASSUME NEW C, NEW s \in Seq(C), NEW t \in Seq(C)
  PROVE  /\ s \o t \in Seq(C) /\ Len(s \o t) = Len(s) + Len(t)
         /\ \A i \in DOMAIN (s \o t) :
              \/ i \in DOMAIN s /\ (s \o t)[i] = s[i]
              \/ i - Len(s) \in DOMAIN t /\ (s \o t)[i] = t[i - Len(s)]
OBVIOUS

\* The rows of a further merchant are other rows, and within the limit.
LEMMA AskMerchantInv ==
  ASSUME IndInv, NEW e \in Exporters, AskMerchant(e)
  PROVE  IndInv'
<1>0. PICK me, left, found :
        /\ me = exporter[e] /\ left = Limit - Len(me.rows)
        /\ found = QueuedFor(Merchants[me.asked + 1])
  OBVIOUS
<1>1. PICK batch \in SeqOf(found, left) :
        /\ FirstOf(found, left, batch)
        /\ exporter' = [exporter EXCEPT ![e] =
                          Asked([me EXCEPT !.asked = @ + 1, !.rows = @ \o batch])]
  BY <1>0 DEF AskMerchant
<1>2. /\ me \in ExporterStates /\ me.pc = "asking" /\ Loaded(me)
      /\ UNCHANGED <<rowSecurity, dryRun, queue, status, examples, overlapped, reviewVars>>
  BY <1>0 DEF AskMerchant, IndInv, ExportInv, Types
<1>3. /\ me.rows \in Seq(Corrections) /\ me.asked \in Nat /\ me.asked < Len(Merchants)
      /\ me.next = 1 /\ Len(me.rows) <= Limit /\ Limit \in Nat
  BY <1>2, QueuesAssumption DEF Loaded, ExporterStates
<1>4. /\ found \subseteq Corrections
      /\ \A c \in found : status[c] # "none"
      /\ rowSecurity => \A c \in found : MerchantOf[c] = Merchants[me.asked + 1]
  BY <1>0 DEF QueuedFor
<1>5. left \in Nat /\ batch \in Seq(found) /\ Len(batch) <= left
  <2>1. left \in Nat
    BY <1>0, <1>3
  <2>2. PICK m \in 0 .. left : batch \in [1 .. m -> found]
    BY <1>1 DEF SeqOf
  <2>3. batch \in Seq(found) /\ Len(batch) = m
    BY <2>1, <2>2
  <2>. QED BY <2>1, <2>3
<1>6. PICK rows : rows = me.rows \o batch
  OBVIOUS
<1>7. /\ rows \in Seq(Corrections) /\ Len(rows) = Len(me.rows) + Len(batch)
      /\ \A i \in DOMAIN rows :
           \/ i \in DOMAIN me.rows /\ rows[i] = me.rows[i]
           \/ i - Len(me.rows) \in DOMAIN batch /\ rows[i] = batch[i - Len(me.rows)]
  <2>1. PICK s, t : s = me.rows /\ t = batch /\ s \in Seq(Corrections) /\ t \in Seq(Corrections)
    BY <1>3, <1>4, <1>5
  <2>2. /\ s \o t \in Seq(Corrections) /\ Len(s \o t) = Len(s) + Len(t)
        /\ \A i \in DOMAIN (s \o t) :
             \/ i \in DOMAIN s /\ (s \o t)[i] = s[i]
             \/ i - Len(s) \in DOMAIN t /\ (s \o t)[i] = t[i - Len(s)]
    BY <2>1, Concatenated
  <2>3. rows = s \o t
    BY <1>6, <2>1
  <2>. QED BY <2>1, <2>2, <2>3
<1>8. \A i \in DOMAIN rows : status[rows[i]] # "none"
  BY <1>2, <1>4, <1>5, <1>7 DEF Loaded
<1>9. ASSUME rowSecurity
      PROVE  /\ \A i \in DOMAIN rows : \E k \in 1 .. me.asked + 1 : MerchantOf[rows[i]] = Merchants[k]
             /\ Distinct(rows)
  <2>1. /\ \A i \in DOMAIN me.rows : \E k \in 1 .. me.asked : MerchantOf[me.rows[i]] = Merchants[k]
        /\ Distinct(me.rows)
    BY <1>2, <1>9 DEF Loaded
  <2>2. \A i \in DOMAIN batch : MerchantOf[batch[i]] = Merchants[me.asked + 1]
    BY <1>4, <1>5, <1>9
  <2>3. Distinct(batch)
    BY <1>1, <1>4, <1>5, BatchIsDistinct
  <2>4. \A i \in DOMAIN me.rows, j \in DOMAIN batch : me.rows[i] # batch[j]
    <3>1. \A k \in 1 .. me.asked : Merchants[k] # Merchants[me.asked + 1]
      BY <1>3, QueuesAssumption
    <3>. QED BY <2>1, <2>2, <3>1
  <2>5. ASSUME NEW i \in DOMAIN rows
        PROVE  \E k \in 1 .. me.asked + 1 : MerchantOf[rows[i]] = Merchants[k]
    <3>1. CASE i \in DOMAIN me.rows /\ rows[i] = me.rows[i]
      <4>1. PICK k \in 1 .. me.asked : MerchantOf[me.rows[i]] = Merchants[k]
        BY <2>1, <3>1
      <4>2. k \in 1 .. me.asked + 1
        BY <1>3
      <4>. QED BY <3>1, <4>1, <4>2
    <3>2. CASE i - Len(me.rows) \in DOMAIN batch /\ rows[i] = batch[i - Len(me.rows)]
      <4>1. MerchantOf[rows[i]] = Merchants[me.asked + 1]
        BY <2>2, <3>2
      <4>2. me.asked + 1 \in 1 .. me.asked + 1
        BY <1>3
      <4>. QED BY <4>1, <4>2
    <3>. QED BY <1>7, <3>1, <3>2
  <2>6. Distinct(rows)
    <3> SUFFICES ASSUME NEW i \in DOMAIN rows, NEW j \in DOMAIN rows, rows[i] = rows[j]
                 PROVE  i = j
      BY DEF Distinct
    <3>1. i \in Int /\ j \in Int /\ Len(me.rows) \in Int
      BY <1>3, <1>7
    <3>2. CASE i \in DOMAIN me.rows /\ rows[i] = me.rows[i]
      <4>1. CASE j \in DOMAIN me.rows /\ rows[j] = me.rows[j]
        BY <2>1, <3>2, <4>1 DEF Distinct
      <4>2. CASE j - Len(me.rows) \in DOMAIN batch /\ rows[j] = batch[j - Len(me.rows)]
        BY <2>4, <3>2, <4>2
      <4>. QED BY <1>7, <4>1, <4>2
    <3>3. CASE /\ i - Len(me.rows) \in DOMAIN batch /\ rows[i] = batch[i - Len(me.rows)]
               /\ j - Len(me.rows) \in DOMAIN batch /\ rows[j] = batch[j - Len(me.rows)]
      <4>1. i - Len(me.rows) = j - Len(me.rows)
        BY <2>3, <3>3 DEF Distinct
      <4>. QED BY <3>1, <4>1
    <3>4. CASE i - Len(me.rows) \in DOMAIN batch /\ rows[i] = batch[i - Len(me.rows)]
               /\ j \in DOMAIN me.rows /\ rows[j] = me.rows[j]
      BY <2>4, <3>4
    <3>. QED BY <1>7, <3>2, <3>3, <3>4
  <2>. QED BY <2>5, <2>6
<1>10. PICK asked, next :
         asked = me.asked + 1 /\ next = [me EXCEPT !.asked = asked, !.rows = rows]
  OBVIOUS
<1>11. /\ next \in ExporterStates /\ next.pc = "asking" /\ next.next = 1
       /\ next.rows = rows /\ next.asked = me.asked + 1
  <2>1. asked \in Nat
    BY <1>3, <1>10
  <2>2. next \in ExporterStates
    BY <1>2, <1>7, <1>10, <2>1 DEF ExporterStates
  <2>3. /\ next.pc = me.pc /\ next.next = me.next
        /\ next.rows = rows /\ next.asked = asked
    BY <1>2, <1>10 DEF ExporterStates
  <2>. QED BY <1>2, <1>3, <1>10, <2>2, <2>3
<1>12. PICK new : new = Asked(next)
  OBVIOUS
<1>13. exporter' = [exporter EXCEPT ![e] = new]
  BY <1>1, <1>6, <1>10, <1>12
<1>14. /\ new \in ExporterStates
       /\ \/ new = next /\ next.asked < Len(Merchants)
          \/ new = IdleExporter
          \/ new.pc = "loaded" /\ new.rows = next.rows /\ new.next = 1
  BY <1>11, <1>12, AskedState
<1>15. Len(rows) <= Limit /\ 1 \in 1 .. Len(rows) + 1
  BY <1>0, <1>3, <1>5, <1>7
<1>16. Loaded(new)' /\ new.pc # "syncing"
  <2>1. UNCHANGED <<status, rowSecurity>>
    BY <1>2
  <2>2. CASE new = IdleExporter
    BY <2>2, IdleLoaded, IdleExporterState
  <2>3. CASE new = next /\ next.asked < Len(Merchants)
    BY <1>8, <1>9, <1>11, <1>15, <2>1, <2>3 DEF Loaded
  <2>4. CASE new.pc = "loaded" /\ new.rows = next.rows /\ new.next = 1
    BY <1>8, <1>9, <1>11, <1>15, <2>1, <2>4 DEF Loaded
  <2>. QED BY <1>14, <2>2, <2>3, <2>4
<1>17. ExportedOnce' /\ MarkedIsExported'
  BY <1>2 DEF IndInv, ExportInv, ExportedOnce, MarkedIsExported
<1>18. status' \in [Corrections -> {"none", "queued", "exported"}] /\ Busy(e)
  BY <1>0, <1>2 DEF IndInv, Types, Busy
<1>. QED
  BY <1>2, <1>13, <1>14, <1>16, <1>17, <1>18, ExamplesKept, ExporterStepInv

\* What the listing shows is all there is, if no other script runs.
LEMMA ReadExistingInv ==
  ASSUME IndInv, NEW e \in Exporters, ReadExisting(e)
  PROVE  IndInv'
<1>0. PICK me, existing : me = exporter[e] /\ existing = {c \in Corrections : examples[c] > 0}
  OBVIOUS
<1>1. /\ me \in ExporterStates /\ me.pc = "loaded" /\ Loaded(me)
      /\ UNCHANGED <<rowSecurity, dryRun, queue, status, examples, overlapped, reviewVars>>
  BY <1>0 DEF ReadExisting, IndInv, ExportInv, Types
<1>2. PICK new :
        /\ exporter' = [exporter EXCEPT ![e] = new]
        /\ new = IF dryRun[e] THEN IdleExporter
                 ELSE [me EXCEPT !.pc = "syncing", !.existing = existing]
  BY <1>0 DEF ReadExisting
<1>3. CASE new = IdleExporter
  BY <1>0, <1>1, <1>2, <1>3, IdleLoaded, IdleExporterState, ExamplesKept, ExporterStepInv
     DEF IndInv, ExportInv, ExportedOnce, MarkedIsExported, Types, Busy
<1>4. CASE new = [me EXCEPT !.pc = "syncing", !.existing = existing]
  <2>1. /\ new \in ExporterStates /\ new.pc = "syncing" /\ new.existing = existing
        /\ new.rows = me.rows /\ new.next = me.next /\ me.next = 1
    BY <1>0, <1>1, <1>4 DEF ExporterStates, Loaded
  <2>2. \A c \in existing : examples[c] >= 1
    BY <1>0 DEF IndInv, Types
  <2>3. me.rows \in Seq(Corrections)
    BY <1>1 DEF ExporterStates
  <2>4. Loaded(new)'
    BY <1>1, <2>1, <2>2, <2>3 DEF Loaded, Distinct
  <2>5. AllListed(new)'
    BY <1>0, <1>1, <2>1 DEF AllListed
  <2>6. ExportedOnce' /\ MarkedIsExported'
    BY <1>1 DEF IndInv, ExportInv, ExportedOnce, MarkedIsExported
  <2>7. status' \in [Corrections -> {"none", "queued", "exported"}] /\ Busy(e)
    BY <1>0, <1>1 DEF IndInv, Types, Busy
  <2>. QED BY <1>1, <1>2, <2>1, <2>4, <2>5, <2>6, <2>7, ExamplesKept, ExporterStepInv
<1>. QED
  BY <1>2, <1>3, <1>4

\* One more example of the row at hand, if the listing had none of it.
LEMMA CreatedByState ==
  ASSUME IndInv, NEW e \in Exporters, NEW me, me = exporter[e], NEW c, c = Pending(e),
         me.pc = "syncing", me.next <= Len(me.rows)
  PROVE  /\ c \in Corrections /\ status[c] # "none" /\ me.next \in DOMAIN me.rows /\ c = me.rows[me.next]
         /\ CreatedBy(e) \in [Corrections -> Nat]
         /\ \A x \in Corrections : examples[x] <= CreatedBy(e)[x]
         /\ CreatedBy(e)[c] >= 1
         /\ \A x \in Corrections \ {c} : CreatedBy(e)[x] = examples[x]
         /\ (\A x \in Corrections : examples[x] <= 1) /\ rowSecurity /\ ~overlapped =>
              \A x \in Corrections : CreatedBy(e)[x] <= 1
<1>1. /\ me \in ExporterStates /\ Loaded(me)
      /\ rowSecurity /\ ~overlapped => AllListed(me)
  BY DEF IndInv, Types, ExportInv, ListedOrCreated
<1>2. me.rows \in Seq(Corrections) /\ me.next \in 1 .. Len(me.rows) /\ me.existing \subseteq Corrections
  BY <1>1 DEF ExporterStates, Loaded
<1>3. c = me.rows[me.next] /\ c \in Corrections /\ status[c] # "none" /\ me.next \in DOMAIN me.rows
  BY <1>1, <1>2 DEF Pending, Loaded
<1>4. examples \in [Corrections -> Nat]
  BY DEF IndInv, Types
<1>5. CASE c \in me.existing
  <2>1. CreatedBy(e) = examples /\ examples[c] >= 1
    BY <1>1, <1>5 DEF CreatedBy, Loaded
  <2>. QED BY <1>3, <1>4, <2>1
<1>6. CASE c \notin me.existing
  <2>1. PICK n \in Nat : n = examples[c]
    BY <1>3, <1>4
  <2>2. CreatedBy(e) = [examples EXCEPT ![c] = n + 1]
    BY <1>6, <2>1 DEF CreatedBy
  <2>3. /\ CreatedBy(e) \in [Corrections -> Nat]
        /\ \A x \in Corrections : CreatedBy(e)[x] = IF x = c THEN n + 1 ELSE examples[x]
    BY <1>3, <1>4, <2>2
  <2>4. ASSUME rowSecurity, ~overlapped PROVE n = 0
    <3>1. Distinct(me.rows) /\ AllListed(me)
      BY <1>1, <2>4 DEF Loaded
    <3>2. \A i \in DOMAIN me.rows : i < me.next => me.rows[i] # c
      BY <1>2, <1>3, <3>1 DEF Distinct
    <3>. QED BY <1>3, <1>6, <2>1, <3>1, <3>2 DEF AllListed
  <2>. QED BY <1>3, <1>4, <2>1, <2>3, <2>4
<1>. QED
  BY <1>5, <1>6

\* The row at hand has its example after the turn, and no second one.
LEMMA CreateExampleInv ==
  ASSUME IndInv, NEW e \in Exporters, CreateExample(e)
  PROVE  IndInv'
<1>0. PICK me, c : me = exporter[e] /\ c = Pending(e)
  OBVIOUS
<1>1. /\ me \in ExporterStates /\ me.pc = "syncing" /\ Loaded(me) /\ me.next <= Len(me.rows)
      /\ rowSecurity /\ ~overlapped => AllListed(me)
      /\ examples' = CreatedBy(e)
      /\ UNCHANGED <<rowSecurity, dryRun, queue, status, overlapped, reviewVars>>
  BY <1>0 DEF CreateExample, IndInv, ExportInv, Types, ListedOrCreated
<1>2. /\ c \in Corrections /\ me.next \in DOMAIN me.rows /\ c = me.rows[me.next]
      /\ examples' \in [Corrections -> Nat]
      /\ \A x \in Corrections : examples[x] <= examples'[x]
      /\ examples'[c] >= 1
      /\ \A x \in Corrections \ {c} : examples'[x] = examples[x]
      /\ (\A x \in Corrections : examples[x] <= 1) /\ rowSecurity /\ ~overlapped =>
           \A x \in Corrections : examples'[x] <= 1
  BY <1>0, <1>1, CreatedByState
<1>3. /\ me.rows \in Seq(Corrections) /\ me.next \in 1 .. Len(me.rows)
      /\ me.existing \subseteq Corrections
  BY <1>1, <1>2 DEF ExporterStates
<1>4. PICK next, new : next = me.next + 1 /\ new = [me EXCEPT !.next = next]
  OBVIOUS
<1>5. next \in Nat /\ next \in 1 .. Len(me.rows) + 1
  BY <1>3, <1>4
<1>6. /\ new \in ExporterStates /\ new.pc = "syncing" /\ new.next = next
      /\ new.rows = me.rows /\ new.existing = me.existing
  BY <1>1, <1>4, <1>5 DEF ExporterStates
<1>7. exporter' = [exporter EXCEPT ![e] = new]
  BY <1>0, <1>4 DEF CreateExample, IndInv, Types
<1>8. Loaded(new)'
  <2>1. Loaded(me)'
    BY <1>1, <1>2, LoadedKept
  <2>2. \A i \in DOMAIN me.rows : i < next => i < me.next \/ i = me.next
    BY <1>3, <1>4
  <2>. QED BY <1>1, <1>2, <1>5, <1>6, <2>1, <2>2 DEF Loaded
<1>9. ASSUME rowSecurity, ~overlapped PROVE AllListed(new)'
  <2> SUFFICES ASSUME NEW x \in Corrections, examples'[x] > 0
               PROVE  x \in me.existing \/ \E i \in DOMAIN me.rows : i < next /\ me.rows[i] = x
    BY <1>6 DEF AllListed
  <2>1. CASE x = c
    BY <1>2, <1>3, <1>4, <2>1
  <2>2. CASE x # c
    BY <1>1, <1>2, <1>3, <1>4, <1>9, <2>2 DEF AllListed
  <2>. QED BY <2>1, <2>2
<1>10. ExportedOnce'
  BY <1>1, <1>2 DEF IndInv, ExportInv, ExportedOnce
<1>11. MarkedIsExported'
  BY <1>1, <1>2 DEF IndInv, Types, ExportInv, MarkedIsExported
<1>12. status' \in [Corrections -> {"none", "queued", "exported"}] /\ Busy(e)
  BY <1>0, <1>1 DEF IndInv, Types, Busy
<1>. QED
  BY <1>1, <1>2, <1>6, <1>7, <1>8, <1>9, <1>10, <1>11, <1>12, ExporterStepInv

\* When the loop has ended LangSmith has an example of every row.
LEMMA MarkExportedInv ==
  ASSUME IndInv, NEW e \in Exporters, MarkExported(e)
  PROVE  IndInv'
<1>0. PICK me : me = exporter[e]
  OBVIOUS
<1>1. /\ me \in ExporterStates /\ me.pc = "syncing" /\ Loaded(me) /\ me.next > Len(me.rows)
      /\ exporter' = [exporter EXCEPT ![e] = IdleExporter]
      /\ UNCHANGED <<rowSecurity, dryRun, queue, examples, overlapped, reviewVars>>
  BY <1>0 DEF MarkExported, IndInv, ExportInv, Types
<1>2. me.rows \in Seq(Corrections) /\ me.next \in Nat
  BY <1>1 DEF ExporterStates
<1>3. /\ status' \in [Corrections -> {"none", "queued", "exported"}]
      /\ \A c \in Corrections :
           status'[c] = IF c \in ToSet(me.rows) THEN "exported" ELSE status[c]
  BY <1>0 DEF MarkExported, IndInv, Types
<1>4. \A c \in ToSet(me.rows) : status[c] # "none" /\ examples[c] >= 1
  BY <1>1, <1>2 DEF Loaded, ToSet
<1>5. \A c \in Corrections : status'[c] # "none" <=> status[c] # "none"
  BY <1>3, <1>4
<1>6. ExportedOnce' /\ MarkedIsExported'
  BY <1>1, <1>3, <1>4 DEF IndInv, ExportInv, ExportedOnce, MarkedIsExported
<1>7. Busy(e)
  BY <1>0, <1>1 DEF Busy
<1>. QED
  BY <1>1, <1>3, <1>5, <1>6, <1>7, IdleLoaded, IdleExporterState, ExamplesKept, ExporterStepInv

\* A script that dies leaves its corrections queued, with or without examples.
LEMMA ExporterDiesInv ==
  ASSUME IndInv, NEW e \in Exporters, ExporterDies(e)
  PROVE  IndInv'
<1>0. PICK me, c : me = exporter[e] /\ c = Pending(e)
  OBVIOUS
<1>1. /\ Busy(e) /\ exporter' = [exporter EXCEPT ![e] = IdleExporter]
      /\ UNCHANGED <<rowSecurity, dryRun, queue, status, overlapped, reviewVars>>
  BY DEF ExporterDies
<1>2. /\ examples' \in [Corrections -> Nat]
      /\ \A x \in Corrections : examples[x] <= examples'[x]
      /\ (\A x \in Corrections : examples[x] <= 1) /\ rowSecurity /\ ~overlapped =>
           \A x \in Corrections : examples'[x] <= 1
  <2>1. CASE UNCHANGED examples
    BY <2>1, ExamplesKept
  <2>2. CASE me.pc = "syncing" /\ me.next <= Len(me.rows) /\ examples' = CreatedBy(e)
    BY <1>0, <2>2, CreatedByState
  <2>. QED BY <1>0, <2>1, <2>2 DEF ExporterDies
<1>3. ExportedOnce'
  BY <1>1, <1>2 DEF IndInv, ExportInv, ExportedOnce
<1>4. MarkedIsExported'
  BY <1>1, <1>2 DEF IndInv, Types, ExportInv, MarkedIsExported
<1>5. status' \in [Corrections -> {"none", "queued", "exported"}]
  BY <1>1 DEF IndInv, Types
<1>. QED
  BY <1>1, <1>2, <1>3, <1>4, <1>5, IdleLoaded, IdleExporterState, ExporterStepInv

-------------------------------------------------------------------------------
\* One lemma for each step of a request.  The scripts and the corrections are
\* not touched by it.
LEMMA ExportKept ==
  ASSUME IndInv, UNCHANGED exportVars, reviews' \subseteq Posts, post' \in [Posts -> PostStates]
  PROVE  Types' /\ ExportInv'
<1>1. Types'
  BY DEF IndInv, Types, exportVars
<1>2. QueueIsRecorded'
  BY DEF IndInv, ExportInv, QueueIsRecorded, exportVars
<1>3. ASSUME NEW e \in Exporters PROVE Loaded(exporter[e])'
  BY DEF IndInv, ExportInv, Loaded, Distinct, exportVars
<1>4. OneAtATime' /\ ListedOrCreated'
  BY DEF IndInv, ExportInv, OneAtATime, Busy, ListedOrCreated, AllListed, exportVars
<1>5. ExportedOnce' /\ MarkedIsExported'
  BY DEF IndInv, ExportInv, ExportedOnce, MarkedIsExported, exportVars
<1>. QED
  BY <1>1, <1>2, <1>3, <1>4, <1>5 DEF ExportInv

\* The local state of a request after its step.
LEMMA PostState ==
  ASSUME IndInv, NEW p \in Posts, NEW to, NEW review \in Posts \cup {NoPost},
         to \in {"missing", "found", "inserted", "answered", "committed", "lost", "failed"},
         post' = [post EXCEPT ![p] = [pc |-> to, review |-> review]]
  PROVE  /\ post' \in [Posts -> PostStates]
         /\ post'[p].pc = to /\ post'[p].review = review
         /\ \A q \in Posts \ {p} : post'[q] = post[q]
<1>1. post \in [Posts -> PostStates]
  BY DEF IndInv, Types
<1>2. PICK new : new = [pc |-> to, review |-> review]
  OBVIOUS
<1>3. new \in PostStates /\ new.pc = to /\ new.review = review
  BY <1>2 DEF PostStates
<1>. QED
  BY <1>1, <1>2, <1>3

\* A request moves on and commits no review of its own; an open insert it has
\* it had before.
PostMoves(p, to, review) ==
  /\ post[p].pc # "committed"
  /\ post' = [post EXCEPT ![p] = [pc |-> to, review |-> review]]
  /\ UNCHANGED <<exportVars, reviews>>
  /\ to \in {"missing", "found", "answered", "committed", "lost", "failed"}
  /\ review \in Posts \cup {NoPost}
  /\ to = "answered" /\ review = p => Uncommitted(p)
  /\ to = "found" => review \in SameRun(p)
  /\ to \in {"answered", "committed", "lost"} => review = p \/ review \in SameRun(p)
  /\ to = "committed" => review \in reviews

\* ... and keeps the invariant.
LEMMA PostMovesInv ==
  ASSUME IndInv, NEW p \in Posts, NEW to, NEW review, PostMoves(p, to, review)
  PROVE  IndInv'
<1> USE DEF PostMoves
<1>1. /\ post' \in [Posts -> PostStates]
      /\ post'[p].pc = to /\ post'[p].review = review
      /\ \A q \in Posts \ {p} : post'[q] = post[q]
  BY PostState
<1>2. Types' /\ ExportInv'
  BY <1>1, ExportKept DEF IndInv, Types
<1>3. p \notin reviews
  BY DEF IndInv, ReviewsAreSound
<1>4. ASSUME NEW q \in Posts PROVE PostIsSound(q)'
  <2>1. SameRun(q)' = SameRun(q)
    BY DEF SameRun
  <2>2. /\ Uncommitted(q)' => Uncommitted(q)
        /\ q # p => Uncommitted(q)' = Uncommitted(q) /\ Given(q)' = Given(q)
    BY <1>1 DEF Uncommitted, Given
  <2>3. HoldsRun(q)' \subseteq HoldsRun(q)
    <3> SUFFICES ASSUME NEW r \in HoldsRun(q)' PROVE r \in HoldsRun(q)
      OBVIOUS
    <3>1. r \in Posts \ {q} /\ Uncommitted(r)' /\ RunOf[r] = RunOf[q] /\ RunOf[q] # NoRun
      BY DEF HoldsRun
    <3>2. Uncommitted(r)
      BY <1>1, <3>1 DEF Uncommitted
    <3>. QED BY <3>1, <3>2 DEF HoldsRun
  <2>4. PostIsSound(q)
    BY DEF IndInv, ReviewsAreSound
  <2>5. CASE q = p
    <3>1. Uncommitted(p)' =>
            review = p /\ p \notin reviews /\ SameRun(p)' = {} /\ HoldsRun(p)' = {}
      <4> SUFFICES ASSUME Uncommitted(p)'
                   PROVE  review = p /\ SameRun(p)' = {} /\ HoldsRun(p)' = {}
        BY <1>3
      <4>1. review = p
        BY <1>1 DEF Uncommitted
      <4>2. SameRun(p) = {} /\ HoldsRun(p) = {}
        BY <2>2, <2>4, <2>5 DEF PostIsSound
      <4>. QED BY <2>1, <2>3, <2>5, <4>1, <4>2
    <3>2. Given(p)' => review = p \/ review \in SameRun(p)'
      BY <1>1, <2>1, <2>5 DEF Given
    <3>. QED BY <1>1, <2>1, <2>5, <3>1, <3>2 DEF PostIsSound
  <2>6. CASE q # p
    BY <1>1, <2>1, <2>2, <2>3, <2>4, <2>6 DEF PostIsSound
  <2>. QED BY <2>5, <2>6
<1>5. ReviewsAreSound'
  BY <1>1, <1>3, <1>4 DEF IndInv, Types, ReviewsAreSound
<1>. QED
  BY <1>2, <1>5 DEF IndInv

\* A review that is found is of the request's run.
LEMMA SelectReviewInv ==
  ASSUME IndInv, NEW p \in Posts, SelectReview(p)
  PROVE  IndInv'
<1>1. post[p].pc = "idle" /\ UNCHANGED <<exportVars, reviews>>
  BY DEF SelectReview, Step
<1>2. CASE \E q \in SameRun(p) : Step(p, "idle", "found", q)
  <2>1. PICK q \in SameRun(p) : Step(p, "idle", "found", q)
    BY <1>2
  <2>2. q \in Posts
    BY <2>1 DEF SameRun, IndInv, Types
  <2>3. PostMoves(p, "found", q)
    BY <1>1, <2>1, <2>2 DEF PostMoves, Step
  <2>. QED BY <2>3, PostMovesInv
<1>3. CASE Step(p, "idle", "missing", NoPost)
  <2>1. PostMoves(p, "missing", NoPost)
    BY <1>1, <1>3 DEF PostMoves, Step
  <2>. QED BY <2>1, PostMovesInv
<1>. QED
  BY <1>2, <1>3 DEF SelectReview

\* The unique constraint: no committed review and no open insert has the run.
LEMMA InsertReviewInv ==
  ASSUME IndInv, NEW p \in Posts, InsertReview(p)
  PROVE  IndInv'
<1>1. post[p].pc = "missing" /\ HoldsRun(p) = {} /\ UNCHANGED <<exportVars, reviews>>
  BY DEF InsertReview, Step
<1>2. CASE Step(p, "missing", "failed", NoPost)
  <2>1. PostMoves(p, "failed", NoPost)
    BY <1>1, <1>2 DEF PostMoves, Step
  <2>. QED BY <2>1, PostMovesInv
<1>3. CASE SameRun(p) = {} /\ Step(p, "missing", "inserted", p)
  <2>1. /\ post' \in [Posts -> PostStates]
        /\ post'[p].pc = "inserted" /\ post'[p].review = p
        /\ \A q \in Posts \ {p} : post'[q] = post[q]
    BY <1>3, PostState DEF Step
  <2>2. Types' /\ ExportInv'
    BY <1>1, <2>1, ExportKept DEF IndInv, Types
  <2>3. p \notin reviews
    BY <1>1 DEF IndInv, ReviewsAreSound
  <2>4. ASSUME NEW q \in Posts PROVE PostIsSound(q)'
    <3>1. SameRun(q)' = SameRun(q)
      BY <1>1 DEF SameRun
    <3>2. PostIsSound(q)
      BY DEF IndInv, ReviewsAreSound
    <3>3. \A r \in Posts \ {p} : Uncommitted(r)' = Uncommitted(r) /\ Given(r)' = Given(r)
      BY <2>1 DEF Uncommitted, Given
    <3>4. CASE q = p
      <4>1. HoldsRun(p)' = {}
        BY <1>1, <3>3 DEF HoldsRun
      <4>2. ~Given(p)'
        BY <2>1 DEF Given
      <4>. QED BY <1>1, <1>3, <2>1, <2>3, <3>1, <3>4, <4>1, <4>2 DEF PostIsSound
    <3>5. CASE q # p
      <4>1. ASSUME Uncommitted(q) PROVE HoldsRun(q)' = {}
        <5>1. HoldsRun(q) = {}
          BY <3>2, <4>1 DEF PostIsSound
        <5>2. RunOf[q] # RunOf[p] \/ RunOf[p] = NoRun
          BY <1>1, <3>5, <4>1 DEF HoldsRun
        <5>. QED BY <3>3, <5>1, <5>2 DEF HoldsRun
      <4>. QED BY <1>1, <2>1, <3>1, <3>2, <3>3, <3>5, <4>1 DEF PostIsSound
    <3>. QED BY <3>4, <3>5
  <2>5. ReviewsAreSound'
    BY <1>1, <2>1, <2>3, <2>4 DEF IndInv, Types, ReviewsAreSound
  <2>. QED BY <2>2, <2>5 DEF IndInv
<1>. QED
  BY <1>2, <1>3 DEF InsertReview

\* An answer names the review that was found, or the one that is still open.
LEMMA AnswerPostInv ==
  ASSUME IndInv, NEW p \in Posts, AnswerPost(p)
  PROVE  IndInv'
<1>0. PICK review : review = post[p].review
  OBVIOUS
<1>1. /\ post[p].pc \in {"found", "inserted"}
      /\ post' = [post EXCEPT ![p] = [pc |-> "answered", review |-> review]]
      /\ UNCHANGED <<exportVars, reviews>>
  BY <1>0 DEF AnswerPost, Step
<1>2. PostIsSound(p) /\ review \in Posts \cup {NoPost} /\ p \notin reviews
  BY <1>0, <1>1 DEF IndInv, ReviewsAreSound, Types, PostStates
<1>3. post[p].pc = "found" => review \in SameRun(p) /\ review # p
  BY <1>0, <1>2 DEF PostIsSound, SameRun
<1>4. post[p].pc = "inserted" => Uncommitted(p) /\ review = p
  BY <1>0, <1>2 DEF PostIsSound, Uncommitted
<1>5. PostMoves(p, "answered", review)
  BY <1>1, <1>2, <1>3, <1>4 DEF PostMoves
<1>. QED
  BY <1>5, PostMovesInv

\* With the commit a review of the request's own becomes visible, as the only
\* one of its run.
LEMMA CommitPostInv ==
  ASSUME IndInv, NEW p \in Posts, CommitPost(p)
  PROVE  IndInv'
<1>0. PICK review : review = post[p].review
  OBVIOUS
<1>1. /\ post[p].pc = "answered"
      /\ post' = [post EXCEPT ![p] = [pc |-> "committed", review |-> review]]
      /\ UNCHANGED exportVars
      /\ reviews' = reviews \cup {review}
  BY <1>0 DEF CommitPost, Step
<1>2. PostIsSound(p) /\ review \in Posts \cup {NoPost}
  BY <1>0 DEF IndInv, ReviewsAreSound, Types, PostStates
<1>3. review = p \/ review \in SameRun(p)
  BY <1>0, <1>1, <1>2 DEF PostIsSound, Given
<1>4. CASE review # p
  <2>1. review \in reviews /\ reviews' = reviews
    BY <1>1, <1>3, <1>4 DEF SameRun
  <2>2. PostMoves(p, "committed", review)
    BY <1>1, <1>2, <1>3, <1>4, <2>1 DEF PostMoves
  <2>. QED BY <2>2, PostMovesInv
<1>5. CASE review = p
  <2>1. /\ post' \in [Posts -> PostStates]
        /\ post'[p].pc = "committed" /\ post'[p].review = p
        /\ \A q \in Posts \ {p} : post'[q] = post[q]
    BY <1>1, <1>2, <1>5, PostState
  <2>2. Uncommitted(p) /\ p \notin reviews /\ SameRun(p) = {} /\ reviews' = reviews \cup {p}
    BY <1>0, <1>1, <1>2, <1>5 DEF PostIsSound, Uncommitted
  <2>3. Types' /\ ExportInv'
    <3>1. reviews' \subseteq Posts
      BY <2>2 DEF IndInv, Types
    <3>. QED BY <1>1, <2>1, <3>1, ExportKept DEF IndInv
  <2>4. ~Uncommitted(p)' /\ \A r \in Posts \ {p} : Uncommitted(r)' = Uncommitted(r) /\ Given(r)' = Given(r)
    BY <2>1 DEF Uncommitted, Given
  <2>5. ASSUME NEW q \in Posts PROVE PostIsSound(q)'
    <3>1. SameRun(q) \subseteq SameRun(q)' /\ HoldsRun(q)' \subseteq HoldsRun(q)
      BY <2>2, <2>4 DEF SameRun, HoldsRun
    <3>2. PostIsSound(q)
      BY DEF IndInv, ReviewsAreSound
    <3>3. CASE q = p
      BY <2>1, <2>2, <2>4, <3>3 DEF PostIsSound
    <3>4. CASE q # p
      <4>1. ASSUME Uncommitted(q)
            PROVE  SameRun(q)' = {} /\ HoldsRun(q)' = {} /\ q \notin reviews'
        <5>1. SameRun(q) = {} /\ HoldsRun(q) = {} /\ q \notin reviews
          BY <3>2, <4>1 DEF PostIsSound
        <5>2. RunOf[q] # RunOf[p] \/ RunOf[q] = NoRun
          BY <2>2, <3>4, <5>1 DEF HoldsRun
        <5>. QED BY <2>2, <3>1, <3>4, <5>1, <5>2 DEF SameRun
      <4>. QED BY <2>1, <2>2, <2>4, <3>1, <3>2, <3>4, <4>1 DEF PostIsSound
    <3>. QED BY <3>3, <3>4
  <2>6. \A q, r \in reviews' : RunOf[q] = RunOf[r] /\ RunOf[q] # NoRun => q = r
    BY <2>2 DEF IndInv, ReviewsAreSound, SameRun
  <2>7. \A q \in reviews' : post'[q].pc = "committed" /\ post'[q].review = q
    BY <2>1, <2>2 DEF IndInv, Types, ReviewsAreSound
  <2>8. ReviewsAreSound'
    BY <2>5, <2>6, <2>7 DEF ReviewsAreSound
  <2>. QED BY <2>3, <2>8 DEF IndInv
<1>. QED
  BY <1>4, <1>5

\* A request that dies is rolled back, its insert with it, also after the
\* answer.
LEMMA PostDiesInv ==
  ASSUME IndInv, NEW p \in Posts, PostDies(p)
  PROVE  IndInv'
<1>0. PICK review : review = post[p].review
  OBVIOUS
<1>1. UNCHANGED <<exportVars, reviews>>
  BY DEF PostDies, Step
<1>2. CASE post[p].pc = "answered" /\ Step(p, "answered", "lost", post[p].review)
  <2>1. PostIsSound(p) /\ review \in Posts \cup {NoPost}
    BY <1>0 DEF IndInv, ReviewsAreSound, Types, PostStates
  <2>2. review = p \/ review \in SameRun(p)
    BY <1>0, <1>2, <2>1 DEF PostIsSound, Given
  <2>3. PostMoves(p, "lost", review)
    BY <1>0, <1>1, <1>2, <2>1, <2>2 DEF PostMoves, Step
  <2>. QED BY <2>3, PostMovesInv
<1>3. CASE /\ post[p].pc \in {"missing", "found", "inserted"}
           /\ Step(p, post[p].pc, "failed", NoPost)
  <2>1. PostMoves(p, "failed", NoPost)
    BY <1>1, <1>3 DEF PostMoves, Step
  <2>. QED BY <2>1, PostMovesInv
<1>. QED
  BY <1>2, <1>3 DEF PostDies

-------------------------------------------------------------------------------
\* Every step keeps the invariant.
LEMMA IndInvStep == IndInv /\ [Next]_vars => IndInv'
<1> SUFFICES ASSUME IndInv, [Next]_vars PROVE IndInv'
  OBVIOUS
<1>1. ASSUME NEW c \in Corrections, RecordCorrection(c) PROVE IndInv'
  BY <1>1, RecordCorrectionInv
<1>2. ASSUME NEW e \in Exporters, ExporterStep(e) PROVE IndInv'
  BY <1>2, StartExportInv, AskMerchantInv, ReadExistingInv, CreateExampleInv, MarkExportedInv
     DEF ExporterStep
<1>3. ASSUME NEW e \in Exporters, ExporterDies(e) PROVE IndInv'
  BY <1>3, ExporterDiesInv
<1>4. ASSUME NEW p \in Posts,
             \/ SelectReview(p) \/ InsertReview(p) \/ AnswerPost(p) \/ CommitPost(p)
             \/ PostDies(p)
      PROVE  IndInv'
  BY <1>4, SelectReviewInv, InsertReviewInv, AnswerPostInv, CommitPostInv, PostDiesInv
<1>5. CASE UNCHANGED vars
  <2>1. Types' /\ ExportInv'
    BY <1>5, ExportKept DEF vars, reviewVars, IndInv, Types
  <2>2. ReviewsAreSound'
    BY <1>5, ReviewsKept DEF vars
  <2>. QED BY <2>1, <2>2 DEF IndInv
<1>. QED
  BY <1>1, <1>2, <1>3, <1>4, <1>5 DEF Next

(***************************************************************************)
(* The inductive invariant holds throughout: however many exports run,     *)
(* overlap, die or are run again, and whatever is posted meanwhile.        *)
(***************************************************************************)
THEOREM QueuesInvariant == Spec => []IndInv
BY IndInvInit, IndInvStep, PTL DEF Spec

\* The invariant has the types.
LEMMA IndInvTypes == IndInv => TypeOK
<1> SUFFICES ASSUME IndInv PROVE TypeOK
  OBVIOUS
<1>1. ToSet(queue) = {c \in Corrections : status[c] # "none"}
  <2>1. \A i \in DOMAIN queue : queue[i] \in Corrections
    BY DEF IndInv, Types
  <2>. QED BY <2>1 DEF IndInv, ExportInv, QueueIsRecorded, ToSet
<1>2. ASSUME NEW e \in Exporters
      PROVE  /\ exporter[e].pc \in {"idle", "asking", "loaded", "syncing"}
             /\ exporter[e].pc = "asking" => exporter[e].asked \in 0 .. Len(Merchants) - 1
             /\ Len(exporter[e].rows) <= Limit
             /\ exporter[e].next \in 1 .. Len(exporter[e].rows) + 1
  <2>1. PICK me \in ExporterStates : me = exporter[e]
    BY DEF IndInv, Types
  <2>2. Loaded(me)
    BY <2>1 DEF IndInv, ExportInv
  <2>3. me.pc = "asking" => me.asked \in 0 .. Len(Merchants) - 1
    BY <2>1, <2>2, QueuesAssumption DEF ExporterStates, Loaded
  <2>4. /\ me.pc \in {"idle", "asking", "loaded", "syncing"} /\ Len(me.rows) <= Limit
        /\ me.next \in 1 .. Len(me.rows) + 1
    BY <2>1, <2>2 DEF ExporterStates, Loaded
  <2>. QED BY <2>1, <2>3, <2>4
<1>3. \A p \in Posts :
        post[p].pc \in {"idle", "missing", "found", "inserted", "answered",
                        "committed", "lost", "failed"}
  BY DEF IndInv, Types, PostStates
<1>. QED
  BY <1>1, <1>2, <1>3 DEF TypeOK, IndInv, Types

(***************************************************************************)
(* Types, that the queue holds each recorded correction, and that a run of *)
(* the export never has more rows than EVAL_CORRECTIONS_EXPORT_LIMIT,      *)
(* whatever the merchants it has asked.                                    *)
(***************************************************************************)
THEOREM QueueTypeCorrect == Spec => []TypeOK
BY QueuesInvariant, IndInvTypes, PTL

(***************************************************************************)
(* A correction becomes one LangSmith example, whatever is recorded, dies  *)
(* or is run again between the sync and the mark, if exports do not        *)
(* overlap and row-level security keeps the merchants apart.               *)
(***************************************************************************)
THEOREM CorrectionsAreExportedOnce == Spec => []ExportedOnce
<1>1. IndInv => ExportedOnce
  BY DEF IndInv, ExportInv
<1>. QED
  BY QueuesInvariant, <1>1, PTL

(***************************************************************************)
(* What is marked exported is in LangSmith, also when exports overlap and  *)
(* without row-level security.                                             *)
(***************************************************************************)
THEOREM ExportedIsInLangSmith == Spec => []MarkedIsExported
<1>1. IndInv => MarkedIsExported
  BY DEF IndInv, ExportInv
<1>. QED
  BY QueuesInvariant, <1>1, PTL

\* Two answers for one run name reviews of that run: the same one, committed
\* or the only open one.
LEMMA IndInvAnswers == IndInv => AnswersNameOneReview
<1> SUFFICES ASSUME IndInv, NEW p \in Posts, Given(p), ~TookBack(p)
             PROVE  /\ post[p].review \in reviews \/ Uncommitted(p)
                    /\ \A q \in Posts : Given(q) /\ ~TookBack(q) =>
                         (post[p].review = post[q].review
                          <=> p = q \/ (RunOf[p] = RunOf[q] /\ RunOf[p] # NoRun))
  BY DEF AnswersNameOneReview
<1>1. \A q \in Posts : PostIsSound(q)
  BY DEF IndInv, ReviewsAreSound
<1>2. ASSUME NEW q \in Posts, Given(q), ~TookBack(q)
      PROVE  /\ post[q].review \in reviews \/ Uncommitted(q)
             /\ post[q].review = q
                \/ (RunOf[post[q].review] = RunOf[q] /\ RunOf[q] # NoRun)
  BY <1>1, <1>2 DEF PostIsSound, Given, TookBack, Uncommitted, SameRun
<1>3. \A q, r \in reviews : RunOf[q] = RunOf[r] /\ RunOf[q] # NoRun => q = r
  BY DEF IndInv, ReviewsAreSound
\* An open insert is the only review of its run.
<1>4. ASSUME NEW q \in Posts, NEW r \in Posts, Given(r), ~TookBack(r), Uncommitted(q),
             RunOf[q] = RunOf[r], RunOf[q] # NoRun
      PROVE  q = r
  <2>1. SameRun(q) = {} /\ HoldsRun(q) = {}
    BY <1>1, <1>4 DEF PostIsSound
  <2>2. CASE Uncommitted(r)
    BY <1>4, <2>1, <2>2 DEF HoldsRun
  <2>3. CASE post[r].review \in reviews
    <3>1. RunOf[post[r].review] = RunOf[r]
      BY <1>2, <1>4
    <3>. QED BY <1>4, <2>1, <2>3, <3>1 DEF SameRun
  <2>. QED BY <1>2, <1>4, <2>2, <2>3
<1>5. ASSUME NEW q \in Posts, Given(q), ~TookBack(q)
      PROVE  post[p].review = post[q].review
             <=> p = q \/ (RunOf[p] = RunOf[q] /\ RunOf[p] # NoRun)
  <2>1. ASSUME post[p].review = post[q].review, p # q
        PROVE  RunOf[p] = RunOf[q] /\ RunOf[p] # NoRun
    BY <1>2, <1>5, <2>1
  <2>2. ASSUME RunOf[p] = RunOf[q], RunOf[p] # NoRun, p # q
        PROVE  post[p].review = post[q].review
    <3>1. ~Uncommitted(p) /\ ~Uncommitted(q)
      BY <1>4, <1>5, <2>2
    <3>. QED BY <1>2, <1>3, <1>5, <2>2, <3>1
  <2>. QED BY <2>1, <2>2
<1>. QED
  BY <1>2, <1>5

(***************************************************************************)
(* Requests that were answered for one LangSmith run were given one and    *)
(* the same review, in the queue or about to be committed, although the    *)
(* answer comes before the commit and the commit may fail: only a review   *)
(* that its own request took back is missing.  The select before the       *)
(* insert does not give this: the unique constraint does, held from the    *)
(* insert to the commit.                                                   *)
(***************************************************************************)
THEOREM RunsHaveOneReview == Spec => []AnswersNameOneReview
BY QueuesInvariant, IndInvAnswers, PTL
===============================================================================
