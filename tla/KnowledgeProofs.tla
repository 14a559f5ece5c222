--------------------------- MODULE KnowledgeProofs ---------------------------
(***************************************************************************)
(* Proofs about Knowledge, for any documents, sites, handlers and bounds.  *)
(* A job that is about to replace a document's chunks has read their ids   *)
(* some time ago.  Inside one process that is harmless, for only one task  *)
(* of the event loop is between two of its awaits (Turns) and a deletion   *)
(* waits for it: what was read is still so (Fresh).  A second process runs *)
(* in between, and there the texts stay right but the vectors do not.      *)
(***************************************************************************)
EXTENDS Knowledge, FiniteSetTheorems, WellFoundedInduction, TLAPS

LEMMA Sizes ==
  /\ SiteOf \in [Docs -> Sites] /\ Concise \subseteq Managed /\ Managed \cap Uploads = {}
  /\ None \notin Docs /\ None \notin Sites /\ None \notin Doc
  /\ MaxVersion \in Nat /\ 1 \in 1..MaxVersion /\ 1 \in 0..MaxVersion
  /\ 1..MaxVersion \subseteq 0..MaxVersion /\ 0 \in 0..MaxVersion
  /\ IngestBound \in Nat /\ HandBound \in Nat /\ FaultBound \in Nat
  BY KnowledgeAssumption, NoRow

-----------------------------------------------------------------------------
(* The next id, and the sizes of sets.                                     *)

LEMMA LeastExists ==
  ASSUME NEW S \in SUBSET Nat, S # {}
  PROVE  \E x \in S : \A y \in S : x <= y
<1>1. \E x \in S : \A y \in S : <<y, x>> \notin OpToRel(<, Nat)
  BY NatLessThanWellFounded, WFMin
<1>2. \A x, y \in Nat : <<y, x>> \notin OpToRel(<, Nat) => x <= y
  BY DEF OpToRel
<1> QED BY <1>1, <1>2

LEMMA MaxOfBounded ==
  ASSUME NEW n \in Nat, NEW S \in SUBSET (0..n), S # {}
  PROVE  Max(S) \in S /\ \A x \in S : x <= Max(S)
<1> DEFINE T == {n - x : x \in S}
<1>1. T \in SUBSET Nat /\ T # {}
  OBVIOUS
<1>2. \E m \in T : \A k \in T : m <= k
  BY <1>1, LeastExists
<1>3. PICK x \in S : \A y \in S : n - x <= n - y
  BY <1>2
<1>4. \E z \in S : \A y \in S : z >= y
  BY <1>3
<1> QED BY <1>4 DEF Max

\* An id that no chunk of the rows has, if their ids are bounded.
LEMMA NextIdIsNew ==
  ASSUME NEW n \in Nat, NEW rows, \A c \in rows : c.id \in 0..n
  PROVE  /\ NextId(rows) \in Nat
         /\ NextId(rows) <= n + 1
         /\ \A c \in rows : c.id < NextId(rows)
<1> DEFINE S == {c.id : c \in rows} \cup {0}
<1>1. S \in SUBSET (0..n) /\ S # {}
  OBVIOUS
<1>2. \A c \in rows : c.id \in S
  OBVIOUS
<1>3. Max(S) \in S /\ \A x \in S : x <= Max(S)
  <2> HIDE DEF S
  <2> QED BY <1>1, MaxOfBounded
<1> DEFINE m == Max(S)
<1>4. NextId(rows) = 1 + m
  BY DEF NextId
<1>5. m \in 0..n /\ \A c \in rows : c.id \in Nat /\ c.id <= m
  BY <1>1, <1>2, <1>3
<1> HIDE DEF m
<1> QED BY <1>4, <1>5

LEMMA MinOfTwo ==
  ASSUME NEW a \in Nat, NEW b \in Nat
  PROVE  Min({a, b}) = (IF a <= b THEN a ELSE b)
<1> DEFINE m == IF a <= b THEN a ELSE b
<1>1. m \in {a, b} /\ \A y \in {a, b} : m <= y
  OBVIOUS
<1>2. \A x \in {a, b} : (\A y \in {a, b} : x <= y) => x = m
  OBVIOUS
<1> HIDE DEF m
<1>3. Min({a, b}) = m
  BY <1>1, <1>2 DEF Min
<1> QED BY <1>3 DEF m

LEMMA MaxOfTwo ==
  ASSUME NEW a \in Nat, NEW b \in Nat
  PROVE  Max({a, b}) = (IF a >= b THEN a ELSE b)
<1> DEFINE m == IF a >= b THEN a ELSE b
<1>1. m \in {a, b} /\ \A y \in {a, b} : m >= y
  OBVIOUS
<1>2. \A x \in {a, b} : (\A y \in {a, b} : x >= y) => x = m
  OBVIOUS
<1> HIDE DEF m
<1>3. Max({a, b}) = m
  BY <1>1, <1>2 DEF Max
<1> QED BY <1>3 DEF m

-----------------------------------------------------------------------------
(* The inductive invariant, for any number of processes.                   *)

Busy(r) == r.pc \in {"probing", "embedding", "replacing"}

JobOK(j) ==
  /\ Busy(job[j]) => job[j].doc \in Docs
  /\ j \notin Loop => job[j].doc \in Managed \cup {None}
  /\ job[j].pc = "replacing" => docs[job[j].doc] # None

Finite == IsFiniteSet(chunks) /\ \E n \in Nat : \A c \in chunks : c.id \in 0..n

OneChunkPerId == \A c, e \in chunks : c.id = e.id => c = e

\* One task of the loop at a time is between two of its awaits.
Turns == \A j, k \in Loop : Holds(j) /\ Holds(k) => j = k

\* What OneTextServed says of the texts.
OneText ==
  \A c \in chunks : c.doc # None =>
    docs[c.doc] # None /\ \A e \in chunks : e.doc = c.doc => e = c

Ingesting == ingest # None => \E c \in chunks : c.doc = None /\ c.id = ingest

KInv ==
  /\ TypeOK /\ Finite /\ OneChunkPerId /\ OneText /\ Ingesting /\ Turns
  /\ \A j \in Jobs : JobOK(j)

-----------------------------------------------------------------------------
(* What the steps are: a turn of a job, which keeps the chunks or replaces *)
(* those of its document, or a step of something else.                     *)

Turn(j, r) ==
  /\ LoopFree(j) /\ job' = [job EXCEPT ![j] = r] /\ r \in Job
  /\ Busy(r) => r.doc \in Docs
  /\ j \notin Loop => r.doc \in Managed \cup {None}
  /\ r.pc = "replacing" => docs[r.doc] # None /\ r.old = Ids(r.doc) /\ UNCHANGED index

\* No document's row is dropped.
DocsKept ==
  /\ docs' \in [Docs -> Doc \cup {None}]
  /\ \A d \in Docs : docs[d] # None => docs'[d] # None

Replaces(j) ==
  LET d == job[j].doc
      id == NextId(Kept(d))
  IN /\ job[j].pc = "replacing" /\ LoopFree(j)
     /\ chunks' = Kept(d) \cup {[id |-> id, doc |-> d, text |-> job[j].text]}
     /\ vectors' = (vectors \ job[j].old) \cup {id}

RestTyped ==
  /\ pages' \in [Sites -> 1..MaxVersion] /\ book' \in [Managed -> 0..MaxVersion]
  /\ copy' \in [Concise -> 0..MaxVersion] /\ due' \in BOOLEAN
  /\ ingested' \in 0..IngestBound /\ hands' \in 0..HandBound /\ faults' \in 0..FaultBound

JobStep(j) ==
  /\ \E r \in Job : Turn(j, r)
  /\ DocsKept /\ RestTyped /\ UNCHANGED ingest
  /\ UNCHANGED <<chunks, vectors>> \/ Replaces(j)

LEMMA BoundsTyped ==
  ASSUME TypeOK, Handed \/ Fails \/ UNCHANGED bounds
  PROVE  ingested' \in 0..IngestBound /\ hands' \in 0..HandBound /\ faults' \in 0..FaultBound
  BY Sizes DEF TypeOK, Handed, Fails, bounds

LEMMA MarkedKeeps ==
  ASSUME TypeOK, NEW d \in Docs, NEW s \in {"UPLOADED", "INDEXING", "READY", "ERROR"}, Marked(d, s)
  PROVE  DocsKept
  BY Sizes DEF TypeOK, Marked, DocsKept, Doc

LEMMA IdleOK == Idle \in Job /\ ~Busy(Idle) /\ Idle.doc = None /\ Idle.pc = "idle"
  BY Sizes DEF Idle, Job, PCs, Busy

LEMMA AbortedTurn ==
  ASSUME NEW j \in Jobs, LoopFree(j), Aborted(j)
  PROVE  Turn(j, Idle)
  BY IdleOK DEF Aborted, Turn

LEMMA DoneTurn ==
  ASSUME TypeOK, NEW j \in Jobs, LoopFree(j), Done(j)
  PROVE  \E r \in Job : Turn(j, r)
<1>1. CASE Alone(j)
  BY <1>1, AbortedTurn, IdleOK DEF Done, Aborted
<1>2. CASE ~Alone(j)
  <2> DEFINE r == [job[j] EXCEPT !.pc = "upserting", !.doc = None, !.old = {}]
  <2>1. job[j] \in Job
    BY DEF TypeOK
  <2>2. r \in Job /\ r.pc = "upserting" /\ r.doc = None
    BY <2>1 DEF Job, PCs
  <2>3. job' = [job EXCEPT ![j] = r]
    BY <1>2 DEF Done
  <2> QED BY <2>2, <2>3 DEF Turn, Busy
<1> QED BY <1>1, <1>2

LEMMA StartStep ==
  ASSUME KInv, NEW j \in Jobs, StartRefresh(j)
  PROVE  JobStep(j)
<1> DEFINE r == [job[j] EXCEPT !.pc = "choosing", !.sites = ManagedSites]
<1>1. job[j] \in Job /\ JobOK(j)
  BY DEF KInv, TypeOK
<1>2. r \in Job /\ r.pc = "choosing" /\ r.doc = job[j].doc
  BY <1>1 DEF Job, PCs, ManagedSites
<1>3. job' = [job EXCEPT ![j] = r]
  BY <1>1 DEF StartRefresh, KInv, TypeOK, Job
<1>4. Turn(j, r)
  BY <1>1, <1>2, <1>3 DEF StartRefresh, At, Turn, Busy, JobOK
<1>5. RestTyped
  BY BoundsTyped DEF StartRefresh, RestTyped, KInv, TypeOK, files
<1> QED BY <1>2, <1>4, <1>5 DEF StartRefresh, JobStep, DocsKept, KInv, TypeOK, index

LEMMA WriteStep ==
  ASSUME KInv, NEW j \in Jobs, NEW s \in Sites, WriteHandbooks(j, s) \/ SourceMissing(j, s)
  PROVE  JobStep(j)
<1>1. job[j] \in Job /\ JobOK(j) /\ LoopFree(j) /\ job \in [Jobs -> Job]
  BY DEF KInv, TypeOK, WriteHandbooks, SourceMissing, At
<1>2. CASE WriteHandbooks(j, s)
  <2> DEFINE r == [job[j] EXCEPT !.sites = @ \ {s}, !.site = s, !.todo = HandbooksOf(s),
                                 !.pc = "upserting"]
  <2>1. r \in Job /\ r.pc = "upserting" /\ r.doc = job[j].doc
    BY <1>1 DEF Job, PCs, HandbooksOf, Docs
  <2>2. job' = [job EXCEPT ![j] = r]
    BY <1>1, <1>2 DEF WriteHandbooks, Job
  <2>3. Turn(j, r)
    BY <1>1, <2>1, <2>2 DEF Turn, Busy, JobOK
  <2>4. RestTyped
    BY <1>2, BoundsTyped, Sizes DEF WriteHandbooks, RestTyped, KInv, TypeOK
  <2> QED BY <1>2, <2>1, <2>3, <2>4 DEF WriteHandbooks, JobStep, DocsKept, KInv, TypeOK, index
<1>3. CASE SourceMissing(j, s)
  <2> DEFINE r == [job[j] EXCEPT !.sites = @ \ {s}]
  <2>1. r \in Job /\ r.pc = "choosing" /\ r.doc = job[j].doc
    BY <1>1, <1>3 DEF Job, PCs, SourceMissing, At
  <2>2. job' = [job EXCEPT ![j] = r]
    BY <1>1, <1>3 DEF SourceMissing, Job
  <2>3. Turn(j, r)
    BY <1>1, <2>1, <2>2 DEF Turn, Busy, JobOK
  <2>4. RestTyped
    BY <1>3, BoundsTyped DEF SourceMissing, RestTyped, KInv, TypeOK, files
  <2> QED BY <1>3, <2>1, <2>3, <2>4 DEF SourceMissing, JobStep, DocsKept, KInv, TypeOK, index
<1> QED BY <1>2, <1>3

LEMMA UpsertStep ==
  ASSUME KInv, NEW j \in Jobs, NEW d \in Managed, Upsert(j, d)
  PROVE  JobStep(j)
<1> DEFINE r == [job[j] EXCEPT !.todo = @ \ {d}, !.doc = d,
                               !.pc = IF NeedsIndex(d) THEN "probing" ELSE "upserting"]
<1>1. job[j] \in Job /\ JobOK(j) /\ LoopFree(j) /\ job \in [Jobs -> Job] /\ d \in Docs
  BY DEF KInv, TypeOK, Upsert, At, Docs
<1>2. r \in Job /\ r.pc \in {"probing", "upserting"} /\ r.doc = d
  BY <1>1 DEF Job, PCs
<1>3. job' = [job EXCEPT ![j] = r]
  BY <1>1 DEF Upsert, Job
<1>4. Turn(j, r)
  BY <1>1, <1>2, <1>3 DEF Turn, Busy
<1>5. Upserted(d) \in Doc /\ Upserted(d) # None
  BY <1>1, Sizes DEF Upserted, Doc, KInv, TypeOK
<1>6. DocsKept
  BY <1>1, <1>5 DEF Upsert, DocsKept, KInv, TypeOK
<1>7. RestTyped
  BY BoundsTyped DEF Upsert, RestTyped, KInv, TypeOK, files
<1> QED BY <1>2, <1>4, <1>6, <1>7 DEF Upsert, JobStep

LEMMA SiteDoneStep ==
  ASSUME KInv, NEW j \in Jobs, SyncToOpenClaw(j) \/ SyncFails(j) \/ EndRefresh(j)
  PROVE  JobStep(j)
<1>1. job[j] \in Job /\ JobOK(j) /\ LoopFree(j) /\ job \in [Jobs -> Job]
  BY DEF KInv, TypeOK, SyncToOpenClaw, SyncFails, EndRefresh, At
<1>2. CASE SyncToOpenClaw(j)
  <2> DEFINE r == [job[j] EXCEPT !.pc = "choosing", !.site = None, !.doc = None]
  <2>1. r \in Job /\ r.pc = "choosing" /\ r.doc = None
    BY <1>1 DEF Job, PCs
  <2>2. job' = [job EXCEPT ![j] = r]
    BY <1>1, <1>2 DEF SyncToOpenClaw, Job
  <2>3. Turn(j, r)
    BY <1>1, <2>1, <2>2 DEF Turn, Busy
  <2>4. RestTyped
    BY <1>2, BoundsTyped, Sizes DEF SyncToOpenClaw, RestTyped, KInv, TypeOK
  <2> QED BY <1>2, <2>1, <2>3, <2>4 DEF SyncToOpenClaw, JobStep, DocsKept, KInv, TypeOK, index
<1>3. CASE SyncFails(j) \/ EndRefresh(j)
  <2>1. RestTyped
    BY <1>3, BoundsTyped DEF SyncFails, EndRefresh, RestTyped, KInv, TypeOK, files
  <2> QED BY <1>1, <1>3, <2>1, AbortedTurn, IdleOK
          DEF SyncFails, EndRefresh, JobStep, DocsKept, KInv, TypeOK, index
<1> QED BY <1>2, <1>3

LEMMA ReadStep ==
  ASSUME KInv, NEW j \in Jobs, ModelOffline(j) \/ BeginIngest(j) \/ EmbeddingFails(j)
  PROVE  JobStep(j)
<1> DEFINE d == job[j].doc
<1>1. /\ job[j] \in Job /\ JobOK(j) /\ LoopFree(j) /\ job \in [Jobs -> Job] /\ d \in Docs
      /\ TypeOK
  BY DEF KInv, TypeOK, ModelOffline, BeginIngest, EmbeddingFails, At, JobOK, Busy
<1>2. DocsKept
  BY <1>1, MarkedKeeps DEF ModelOffline, BeginIngest, EmbeddingFails
<1>3. RestTyped
  BY BoundsTyped DEF ModelOffline, BeginIngest, EmbeddingFails, RestTyped, KInv, TypeOK, files
<1>4. UNCHANGED <<chunks, vectors, ingest>>
  BY DEF ModelOffline, BeginIngest, EmbeddingFails
<1>5. \E r \in Job : Turn(j, r)
  <2>1. CASE Done(j)
    BY <1>1, <2>1, DoneTurn
  <2>2. CASE Aborted(j)
    BY <1>1, <2>2, AbortedTurn, IdleOK
  <2>3. CASE BeginIngest(j) /\ docs[d] # None
    <3> DEFINE r == [job[j] EXCEPT !.pc = "embedding",
                                   !.text = IF d \in Managed THEN book[d] ELSE 1]
    <3>1. (IF d \in Managed THEN book[d] ELSE 1) \in 0..MaxVersion
      BY <1>1, Sizes DEF TypeOK
    <3>2. r \in Job /\ r.pc = "embedding" /\ r.doc = d
      BY <1>1, <3>1 DEF Job, PCs
    <3>3. job' = [job EXCEPT ![j] = r]
      BY <1>1, <2>3 DEF BeginIngest, Job
    <3> QED BY <1>1, <3>2, <3>3 DEF Turn, JobOK
  <2> QED BY <2>1, <2>2, <2>3 DEF ModelOffline, BeginIngest, EmbeddingFails
<1> QED BY <1>2, <1>3, <1>4, <1>5 DEF JobStep

LEMMA EmbeddedStep ==
  ASSUME KInv, NEW j \in Jobs, Embedded(j)
  PROVE  JobStep(j)
<1> DEFINE d == job[j].doc
           r == [job[j] EXCEPT !.pc = "replacing", !.old = Ids(d)]
<1>1. job[j] \in Job /\ JobOK(j) /\ LoopFree(j) /\ job \in [Jobs -> Job] /\ d \in Docs
  BY DEF KInv, TypeOK, Embedded, At, JobOK, Busy
<1>2. Ids(d) \subseteq Nat
  BY DEF Ids, KInv, TypeOK, Chunk
<1>3. r \in Job /\ r.pc = "replacing" /\ r.doc = d /\ r.old = Ids(d)
  BY <1>1, <1>2 DEF Job, PCs
<1>4. \E q \in Job : Turn(j, q)
  <2>1. CASE docs[d] = None
    BY <1>1, <2>1, AbortedTurn, IdleOK DEF Embedded
  <2>2. CASE docs[d] # None
    <3>1. job' = [job EXCEPT ![j] = r] /\ UNCHANGED index
      BY <1>1, <2>2 DEF Embedded, Job
    <3> QED BY <1>1, <1>3, <2>2, <3>1 DEF Turn, JobOK
  <2> QED BY <2>1, <2>2
<1>5. RestTyped
  BY BoundsTyped DEF Embedded, RestTyped, KInv, TypeOK, files
<1> QED BY <1>4, <1>5 DEF Embedded, JobStep, DocsKept, KInv, TypeOK, index

LEMMA ReplaceStep ==
  ASSUME KInv, NEW j \in Jobs, ReplaceChunks(j)
  PROVE  JobStep(j)
<1> DEFINE d == job[j].doc
<1>1. JobOK(j) /\ LoopFree(j) /\ d \in Docs /\ TypeOK
  BY DEF KInv, TypeOK, ReplaceChunks, At, JobOK, Busy
<1>2. DocsKept
  BY <1>1, MarkedKeeps DEF ReplaceChunks
<1>3. RestTyped
  BY BoundsTyped DEF ReplaceChunks, RestTyped, KInv, TypeOK, files
<1>4. \E r \in Job : Turn(j, r)
  BY <1>1, DoneTurn, AbortedTurn, IdleOK DEF ReplaceChunks
<1>5. UNCHANGED <<chunks, vectors>> \/ Replaces(j)
  BY <1>1 DEF ReplaceChunks, Replaces, At
<1> QED BY <1>2, <1>3, <1>4, <1>5 DEF JobStep, ReplaceChunks

LEMMA PageStep ==
  ASSUME KInv, NEW h \in Handlers, Page(h)
  PROVE  JobStep(h)
<1>1. PICK d \in Docs : Reindex(h, d) \/ (d \in Uploads /\ Upload(h, d))
  BY DEF Page, Docs
<1> DEFINE r == [job[h] EXCEPT !.pc = "probing", !.doc = d]
<1>2. /\ job[h] \in Job /\ LoopFree(h) /\ job \in [Jobs -> Job] /\ h \in Jobs /\ h \in Loop
      /\ docs \in [Docs -> Doc \cup {None}]
  BY <1>1 DEF KInv, TypeOK, Upload, Reindex, At, Jobs, Loop
<1>3. r \in Job /\ r.pc = "probing" /\ r.doc = d
  BY <1>2 DEF Job, PCs
<1>4. job' = [job EXCEPT ![h] = r]
  BY <1>1, <1>2 DEF Upload, Reindex, Job
<1>5. Turn(h, r)
  BY <1>2, <1>3, <1>4 DEF Turn
<1>6. DocsKept
  <2>1. CASE Reindex(h, d)
    BY <1>2, <2>1 DEF Reindex, DocsKept, index
  <2>2. CASE Upload(h, d)
    <3>1. [status |-> "UPLOADED", digest |-> 0] \in Doc
      BY Sizes DEF Doc
    <3> QED BY <1>2, <2>2, <3>1, Sizes DEF Upload, DocsKept
  <2> QED BY <1>1, <2>1, <2>2
<1>7. RestTyped
  BY <1>1, BoundsTyped DEF Upload, Reindex, RestTyped, KInv, TypeOK, files
<1> QED BY <1>1, <1>3, <1>5, <1>6, <1>7 DEF Upload, Reindex, JobStep, index

LEMMA WorkStep ==
  ASSUME KInv, NEW j \in Jobs, StartRefresh(j) \/ Work(j)
  PROVE  JobStep(j)
  BY StartStep, WriteStep, UpsertStep, SiteDoneStep, ReadStep, EmbeddedStep, ReplaceStep DEF Work

-----------------------------------------------------------------------------
(* The invariant is kept.                                                  *)

LEMMA InitKInv == Init => KInv
<1> SUFFICES ASSUME Init PROVE KInv
  OBVIOUS
<1>1. TypeOK
  BY IdleOK, Sizes DEF Init, TypeOK
<1>2. Finite
  BY FS_EmptySet DEF Init, Finite
<1>3. OneChunkPerId /\ OneText /\ Ingesting
  BY DEF Init, OneChunkPerId, OneText, Ingesting
<1>4. \A j \in Jobs : job[j] = Idle
  BY DEF Init
<1>5. \A j \in Jobs : ~Holds(j) /\ JobOK(j)
  BY <1>4, IdleOK DEF Holds, JobOK, Busy
<1> QED BY <1>1, <1>2, <1>3, <1>5 DEF KInv, Turns, Jobs

\* A turn ends with at most one task between two awaits: the others were at
\* theirs when it began.
LEMMA TurnKeepsJobs ==
  ASSUME KInv, NEW j \in Jobs, NEW r \in Job, Turn(j, r), DocsKept
  PROVE  job' \in [Jobs -> Job] /\ Turns' /\ \A k \in Jobs : JobOK(k)'
<1>1. job \in [Jobs -> Job] /\ job' = [job EXCEPT ![j] = r] /\ job' \in [Jobs -> Job]
  BY DEF KInv, TypeOK, Turn
<1>2. job'[j] = r /\ \A k \in Jobs \ {j} : job'[k] = job[k]
  BY <1>1
<1>3. \A k \in Loop \ {j} : Holds(k)' <=> Holds(k)
  BY <1>2 DEF Holds, Alone, Jobs
<1>4. Turns'
  BY <1>3 DEF Turns, KInv, Turn, LoopFree
<1>5. JobOK(j)'
  BY <1>2, Sizes DEF JobOK, Busy, Turn, DocsKept, index
<1>6. ASSUME NEW k \in Jobs \ {j} PROVE JobOK(k)'
  BY <1>2, <1>6 DEF JobOK, Busy, KInv, DocsKept
<1> QED BY <1>1, <1>4, <1>5, <1>6

LEMMA NoneIsNoDoc == None \notin Docs /\ \A d \in Docs : d # None
  BY Sizes

\* A new chunk, of the next id, beside some that stay.
LEMMA ChunkAdded ==
  ASSUME KInv, NEW rows \in SUBSET chunks, NEW c \in Chunk, c.id = NextId(rows),
         chunks' = rows \cup {c}
  PROVE  /\ Finite' /\ OneChunkPerId' /\ \A e \in chunks' : e \in Chunk
         /\ \A e \in rows : e.id # c.id
<1>1. PICK n \in Nat : \A e \in chunks : e.id \in 0..n
  BY DEF KInv, Finite
<1>2. NextId(rows) \in Nat /\ NextId(rows) <= n + 1 /\ \A e \in rows : e.id < NextId(rows)
  BY <1>1, NextIdIsNew
<1>3. c.id \in 0..n + 1 /\ n + 1 \in Nat /\ \A e \in rows : e.id \in 0..n + 1 /\ e.id # c.id
  BY <1>1, <1>2
<1>4. IsFiniteSet(rows \cup {c})
  BY FS_Subset, FS_AddElement DEF KInv, Finite
<1>5. Finite'
  BY <1>3, <1>4 DEF Finite
<1>6. OneChunkPerId'
  BY <1>3 DEF OneChunkPerId, KInv
<1>7. \A e \in chunks' : e \in Chunk
  BY DEF KInv, TypeOK
<1> QED BY <1>3, <1>5, <1>6, <1>7

\* The chunks of a document, replaced or dropped, were the only ones of it.
LEMMA ReplacedChunk ==
  ASSUME KInv, NEW j \in Jobs, Replaces(j)
  PROVE  LET d == job[j].doc
             c == [id |-> NextId(Kept(d)), doc |-> d, text |-> job[j].text] IN
         /\ d \in Docs /\ docs[d] # None /\ c \in Chunk /\ Kept(d) \in SUBSET chunks
         /\ c.id = NextId(Kept(d)) /\ c.doc = d /\ chunks' = Kept(d) \cup {c}
         /\ vectors' = (vectors \ job[j].old) \cup {c.id}
<1> DEFINE d == job[j].doc
           c == [id |-> NextId(Kept(d)), doc |-> d, text |-> job[j].text]
<1>1. d \in Docs /\ docs[d] # None /\ job[j] \in Job
  BY DEF Replaces, KInv, TypeOK, JobOK, Busy
<1>2. Kept(d) \in SUBSET chunks
  BY DEF Kept
<1>3. PICK n \in Nat : \A e \in chunks : e.id \in 0..n
  BY DEF KInv, Finite
<1>4. NextId(Kept(d)) \in Nat
  BY <1>2, <1>3, NextIdIsNew
<1>5. c \in Chunk
  BY <1>1, <1>4 DEF Chunk, Job
<1> QED BY <1>1, <1>2, <1>5 DEF Replaces

LEMMA ReplacesKeeps ==
  ASSUME KInv, NEW j \in Jobs, Replaces(j), DocsKept, UNCHANGED ingest
  PROVE  /\ Finite' /\ OneChunkPerId' /\ OneText' /\ Ingesting'
         /\ \A c \in chunks' : c \in Chunk
         /\ vectors' \subseteq Nat
<1> DEFINE d == job[j].doc
           c == [id |-> NextId(Kept(d)), doc |-> d, text |-> job[j].text]
<1>1. /\ d \in Docs /\ docs[d] # None /\ c \in Chunk /\ Kept(d) \in SUBSET chunks
      /\ c.id = NextId(Kept(d)) /\ c.doc = d /\ chunks' = Kept(d) \cup {c}
      /\ vectors' = (vectors \ job[j].old) \cup {c.id}
  BY ReplacedChunk
<1> HIDE DEF c
<1>2. Finite' /\ OneChunkPerId' /\ \A e \in chunks' : e \in Chunk
  BY <1>1, ChunkAdded
<1>3. \A e \in Kept(d) : e \in chunks /\ e.doc # d
  BY DEF Kept
<1>4. OneText'
  <2> SUFFICES ASSUME NEW e \in chunks', e.doc # None
               PROVE  docs'[e.doc] # None /\ \A f \in chunks' : f.doc = e.doc => f = e
    BY DEF OneText
  <2>1. CASE e = c
    BY <1>1, <1>3, <2>1 DEF DocsKept
  <2>2. CASE e \in Kept(d)
    <3>1. e.doc \in Docs /\ docs[e.doc] # None /\ \A f \in chunks : f.doc = e.doc => f = e
      BY <1>3, <2>2 DEF KInv, TypeOK, OneText, Chunk
    <3> QED BY <1>1, <1>3, <2>2, <3>1 DEF DocsKept
  <2> QED BY <1>1, <2>1, <2>2
<1>5. Ingesting'
  <2>1. \A e \in chunks : e.doc = None => e \in chunks'
    BY <1>1, NoneIsNoDoc DEF Kept
  <2> QED BY <2>1 DEF KInv, Ingesting
<1>6. vectors' \subseteq Nat
  BY <1>1 DEF Chunk, KInv, TypeOK
<1> QED BY <1>2, <1>4, <1>5, <1>6

LEMMA UntouchedKeeps ==
  ASSUME KInv, UNCHANGED <<chunks, vectors, ingest>>, DocsKept
  PROVE  /\ Finite' /\ OneChunkPerId' /\ OneText' /\ Ingesting'
         /\ \A c \in chunks' : c \in Chunk
         /\ vectors' \subseteq Nat
<1>1. \A c \in chunks : c.doc # None => c.doc \in Docs
  BY DEF KInv, TypeOK, Chunk
<1> QED BY <1>1 DEF KInv, TypeOK, Finite, OneChunkPerId, OneText, Ingesting, DocsKept

LEMMA JobStepKeeps ==
  ASSUME KInv, NEW j \in Jobs, JobStep(j)
  PROVE  KInv'
<1>1. job' \in [Jobs -> Job] /\ Turns' /\ \A k \in Jobs : JobOK(k)'
  BY TurnKeepsJobs DEF JobStep
<1>2. /\ Finite' /\ OneChunkPerId' /\ OneText' /\ Ingesting'
      /\ \A c \in chunks' : c \in Chunk
      /\ vectors' \subseteq Nat
  BY ReplacesKeeps, UntouchedKeeps DEF JobStep
<1>3. TypeOK'
  BY <1>1, <1>2 DEF JobStep, DocsKept, RestTyped, KInv, TypeOK
<1> QED BY <1>1, <1>2, <1>3 DEF KInv

\* A deletion waits for the task that holds the loop, and takes uploads only:
\* no job is about to replace its chunks.
LEMMA DeleteKeeps ==
  ASSUME KInv, NEW d \in Uploads, Delete(d)
  PROVE  KInv'
<1>1. d \in Docs /\ d \notin Managed /\ Kept(d) \in SUBSET chunks /\ docs' = [docs EXCEPT ![d] = None]
  BY Sizes DEF Docs, Kept, Delete
<1>2. TypeOK'
  <2>1. RestTyped
    BY BoundsTyped DEF Delete, RestTyped, KInv, TypeOK, files
  <2> QED BY <1>1, <2>1 DEF Delete, RestTyped, WithoutVectors, KInv, TypeOK
<1>3. Finite'
  <2>1. IsFiniteSet(Kept(d))
    BY <1>1, FS_Subset DEF KInv, Finite
  <2> QED BY <1>1, <2>1 DEF Delete, KInv, Finite
<1>4. \A c \in chunks' : c \in chunks /\ c.doc # d
  BY DEF Delete, Kept
<1>5. OneChunkPerId' /\ OneText'
  <2>1. \A e \in Docs \ {d} : docs'[e] = docs[e]
    BY <1>1 DEF KInv, TypeOK
  <2>2. \A c \in chunks : c.doc # None => c.doc \in Docs
    BY DEF KInv, TypeOK, Chunk
  <2> QED BY <1>4, <2>1, <2>2 DEF OneChunkPerId, OneText, KInv
<1>6. Ingesting'
  <2>1. \A e \in chunks : e.doc = None => e \in chunks'
    BY <1>1, NoneIsNoDoc DEF Delete, Kept
  <2> QED BY <2>1 DEF KInv, Ingesting, Delete
<1>7. Turns'
  BY DEF Delete, KInv, Turns, Holds, Alone
<1>8. ASSUME NEW k \in Jobs PROVE JobOK(k)'
  <2>1. JobOK(k) /\ job' = job
    BY DEF KInv, Delete
  <2>2. job[k].pc = "replacing" => k \notin Loop
    BY DEF Delete, Holds
  <2>3. job[k].pc = "replacing" => job[k].doc \in Docs /\ job[k].doc \in Managed \cup {None}
    BY <2>1, <2>2 DEF JobOK, Busy
  <2>4. job[k].pc = "replacing" => job[k].doc # d
    BY <1>1, <2>3, NoneIsNoDoc
  <2>5. job[k].pc = "replacing" => docs'[job[k].doc] # None
    BY <1>1, <2>1, <2>3, <2>4 DEF JobOK, KInv, TypeOK
  <2> QED BY <2>1, <2>5 DEF JobOK, Busy
<1> QED BY <1>2, <1>3, <1>5, <1>6, <1>7, <1>8 DEF KInv

LEMMA JobsStay ==
  ASSUME KInv, UNCHANGED <<job, docs>>
  PROVE  Turns' /\ \A k \in Jobs : JobOK(k)'
  BY DEF KInv, Turns, Holds, Alone, JobOK, Busy

LEMMA IngestKeeps ==
  ASSUME KInv, IngestChunk
  PROVE  KInv'
<1> DEFINE c == [id |-> NextId(chunks), doc |-> None, text |-> 0]
<1>1. PICK n \in Nat : \A e \in chunks : e.id \in 0..n
  BY DEF KInv, Finite
<1>2. NextId(chunks) \in Nat
  BY <1>1, NextIdIsNew
<1>3. /\ c \in Chunk /\ c.id = NextId(chunks) /\ c.doc = None /\ chunks' = chunks \cup {c}
      /\ ingest' = c.id
  BY <1>2, Sizes DEF Chunk, IngestChunk
<1> HIDE DEF c
<1>4. Finite' /\ OneChunkPerId' /\ \A e \in chunks' : e \in Chunk
  BY <1>3, ChunkAdded
<1>5. TypeOK'
  BY <1>2, <1>4, Sizes DEF IngestChunk, KInv, TypeOK, files
<1>6. OneText' /\ Ingesting'
  BY <1>3 DEF OneText, Ingesting, KInv, IngestChunk
<1> QED BY <1>4, <1>5, <1>6, JobsStay DEF KInv, IngestChunk

LEMMA OtherKeeps ==
  ASSUME KInv, (\E s \in Sites : EditPages(s)) \/ IngestVector \/ UNCHANGED vars
  PROVE  KInv'
<1>1. /\ UNCHANGED <<docs, chunks, job>> /\ ingest' \in {ingest, None}
      /\ vectors' \in {vectors, vectors \cup {ingest}} /\ (vectors' # vectors => ingest # None)
  BY DEF EditPages, IngestVector, vars, index
<1>2. RestTyped
  BY Sizes DEF EditPages, IngestVector, RestTyped, KInv, TypeOK, vars, files, bounds
<1>3. TypeOK'
  BY <1>1, <1>2 DEF RestTyped, KInv, TypeOK
<1>4. Finite' /\ OneChunkPerId' /\ OneText' /\ Ingesting'
  BY <1>1 DEF KInv, Finite, OneChunkPerId, OneText, Ingesting
<1> QED BY <1>1, <1>3, <1>4, JobsStay DEF KInv

LEMMA CrashKeeps ==
  ASSUME KInv, Crash
  PROVE  KInv'
<1>1. job' \in [Jobs -> Job] /\ \A j \in Jobs : job'[j] = IF j \in Loop THEN Idle ELSE job[j]
  BY IdleOK DEF Crash, KInv, TypeOK
<1>2. RestTyped
  BY BoundsTyped DEF Crash, RestTyped, KInv, TypeOK, files
<1>3. TypeOK'
  BY <1>1, <1>2 DEF Crash, RestTyped, KInv, TypeOK, index
<1>4. Finite' /\ OneChunkPerId' /\ OneText' /\ Ingesting'
  BY DEF Crash, index, KInv, Finite, OneChunkPerId, OneText, Ingesting
<1>5. Turns'
  BY <1>1, IdleOK DEF Turns, Holds, Jobs
<1>6. \A j \in Jobs : JobOK(j)'
  BY <1>1, IdleOK DEF JobOK, Busy, KInv, Crash, index
<1> QED BY <1>3, <1>4, <1>5, <1>6 DEF KInv

LEMMA NextKInv == KInv /\ [Next]_vars => KInv'
<1> SUFFICES ASSUME KInv, [Next]_vars PROVE KInv'
  OBVIOUS
<1>1. ASSUME NEW j \in Jobs, StartRefresh(j) \/ Work(j) PROVE KInv'
  BY <1>1, WorkStep, JobStepKeeps
<1>2. ASSUME NEW h \in Handlers, Page(h) PROVE KInv'
  BY <1>2, PageStep, JobStepKeeps DEF Jobs, Loop
<1> QED BY <1>1, <1>2, DeleteKeeps, IngestKeeps, OtherKeeps, CrashKeeps DEF Next, ManagedSites

\* The inductive invariant holds.
THEOREM KnowledgeInvariant == Spec => []KInv
  BY InitKInv, NextKInv, PTL DEF Spec

\* The tables, the files and what the jobs hold are what the code takes them
\* for, and a chunk's id is the next one of a finite table.
THEOREM KnowledgeTypeCorrect == Spec => []TypeOK
<1>1. KInv => TypeOK
  BY DEF KInv
<1> QED BY <1>1, KnowledgeInvariant, PTL

\* However many processes refresh, index and delete, a document has one text
\* in the index at most, and a deleted document none (embedder.py
\* ingest_reference_document: "atomically replace").
THEOREM DocumentsHaveOneText == Spec => []OneText
<1>1. KInv => OneText
  BY DEF KInv
<1> QED BY <1>1, KnowledgeInvariant, PTL

-----------------------------------------------------------------------------
(* One process: what a job read is still so, and the vectors are those of  *)
(* the chunks.                                                             *)

Fresh == \A j \in Loop : job[j].pc = "replacing" => job[j].old = Ids(job[j].doc)

\* No vector outlives its chunk, and each document's chunk has one.
VectorsMatch ==
  /\ vectors \subseteq AllIds
  /\ \A c \in chunks : c.doc # None => c.id \in vectors

LInv == KInv /\ Fresh /\ VectorsMatch

LEMMA InitLInv == Init => LInv
<1> SUFFICES ASSUME Init PROVE LInv
  OBVIOUS
<1>1. \A j \in Loop : job[j] = Idle
  BY DEF Init, Jobs
<1> QED BY <1>1, InitKInv, IdleOK DEF Init, LInv, Fresh, VectorsMatch

\* A turn that leaves the chunks alone.
LEMMA TurnKeepsMatch ==
  ASSUME LInv, Commands = {}, NEW j \in Jobs, NEW r \in Job, Turn(j, r),
         UNCHANGED <<chunks, vectors>>
  PROVE  Fresh' /\ VectorsMatch'
<1>1. job \in [Jobs -> Job] /\ job' = [job EXCEPT ![j] = r] /\ Jobs = Loop
  BY DEF LInv, KInv, TypeOK, Turn, Jobs
<1>2. job'[j] = r /\ \A k \in Jobs \ {j} : job'[k] = job[k]
  BY <1>1
<1>3. \A d : Ids(d)' = Ids(d)
  BY DEF Ids
<1>4. Fresh'
  BY <1>1, <1>2, <1>3 DEF Fresh, LInv, Turn
<1> QED BY <1>4 DEF VectorsMatch, LInv, AllIds

\* A turn that replaces a document's chunks: no other task is about to, and
\* the ids it read are those of the chunks it drops.
LEMMA ReplaceKeepsMatch ==
  ASSUME LInv, Commands = {}, NEW j \in Jobs, NEW r \in Job, Turn(j, r), Replaces(j)
  PROVE  Fresh' /\ VectorsMatch'
<1> DEFINE d == job[j].doc
           c == [id |-> NextId(Kept(d)), doc |-> d, text |-> job[j].text]
<1>1. /\ job \in [Jobs -> Job] /\ job' = [job EXCEPT ![j] = r] /\ Jobs = Loop
      /\ job[j].old = Ids(d) /\ job[j].pc = "replacing"
  BY DEF LInv, KInv, TypeOK, Turn, Jobs, Fresh, Replaces
<1>2. /\ d \in Docs /\ c \in Chunk /\ Kept(d) \in SUBSET chunks
      /\ c.doc = d /\ chunks' = Kept(d) \cup {c}
      /\ vectors' = (vectors \ Ids(d)) \cup {c.id}
  BY <1>1, ReplacedChunk DEF LInv
<1> HIDE DEF c
<1>3. \A k \in Loop \ {j} : job'[k] = job[k] /\ job[k].pc # "replacing"
  BY <1>1 DEF Turn, LoopFree, Holds
<1>4. r.pc = "replacing" => r.old = Ids(r.doc)'
  BY DEF Turn, index, Ids
<1>5. Fresh'
  BY <1>1, <1>3, <1>4 DEF Fresh
<1>6. vectors' \subseteq AllIds'
  <2>1. \A v \in vectors \ Ids(d) : \E e \in Kept(d) : e.id = v
    BY DEF LInv, VectorsMatch, AllIds, Ids, Kept
  <2> QED BY <1>2, <2>1 DEF AllIds
<1>7. ASSUME NEW e \in chunks', e.doc # None PROVE e.id \in vectors'
  <2>1. CASE e \in Kept(d)
    <3>1. e \in chunks /\ e.doc # d /\ e.id \in vectors
      BY <1>7, <2>1 DEF Kept, LInv, VectorsMatch
    <3>2. e.id \notin Ids(d)
      BY <3>1 DEF Ids, LInv, KInv, OneChunkPerId
    <3> QED BY <1>2, <3>1, <3>2
  <2> QED BY <1>2, <2>1
<1> QED BY <1>5, <1>6, <1>7 DEF VectorsMatch

LEMMA JobStepKeepsMatch ==
  ASSUME LInv, Commands = {}, NEW j \in Jobs, JobStep(j)
  PROVE  LInv'
<1>1. KInv'
  BY JobStepKeeps DEF LInv
<1> QED BY <1>1, TurnKeepsMatch, ReplaceKeepsMatch DEF JobStep, LInv

LEMMA DeleteKeepsMatch ==
  ASSUME LInv, NEW d \in Uploads, Delete(d)
  PROVE  LInv'
<1>1. KInv'
  BY DeleteKeeps DEF LInv
<1>2. Fresh'
  BY DEF Delete, Fresh, Holds
<1>3. vectors' = vectors \ Ids(d) /\ chunks' = Kept(d)
  BY DEF Delete, WithoutVectors
<1>4. vectors' \subseteq AllIds'
  BY <1>3 DEF LInv, VectorsMatch, AllIds, Ids, Kept
<1>5. ASSUME NEW e \in chunks', e.doc # None PROVE e.id \in vectors'
  <2>1. e \in chunks /\ e.doc # d /\ e.id \in vectors
    BY <1>3, <1>5 DEF Kept, LInv, VectorsMatch
  <2>2. e.id \notin Ids(d)
    BY <2>1 DEF Ids, LInv, KInv, OneChunkPerId
  <2> QED BY <1>3, <2>1, <2>2
<1> QED BY <1>1, <1>2, <1>4, <1>5 DEF LInv, VectorsMatch

LEMMA OtherKeepsMatch ==
  ASSUME LInv, (\E s \in Sites : EditPages(s)) \/ IngestVector \/ UNCHANGED vars
  PROVE  LInv'
<1>1. KInv'
  BY OtherKeeps DEF LInv
<1>2. UNCHANGED <<chunks, job>>
  BY DEF EditPages, IngestVector, vars, index
<1>3. vectors' \in {vectors, vectors \cup {ingest}} /\ (vectors' # vectors => ingest \in AllIds)
  BY DEF EditPages, IngestVector, vars, index, LInv, KInv, Ingesting, AllIds
<1>4. VectorsMatch'
  BY <1>2, <1>3 DEF VectorsMatch, AllIds, LInv
<1>5. Fresh'
  BY <1>2 DEF Fresh, Ids, LInv
<1> QED BY <1>1, <1>4, <1>5 DEF LInv

LEMMA IngestKeepsMatch ==
  ASSUME LInv, IngestChunk
  PROVE  LInv'
<1>1. KInv'
  BY IngestKeeps DEF LInv
<1> DEFINE c == [id |-> NextId(chunks), doc |-> None, text |-> 0]
<1>2. c.doc = None /\ chunks' = chunks \cup {c} /\ UNCHANGED <<vectors, job>>
  BY DEF IngestChunk
<1> HIDE DEF c
<1>3. VectorsMatch'
  BY <1>2 DEF VectorsMatch, AllIds, LInv
<1>4. \A d \in Docs : Ids(d)' = Ids(d)
  BY <1>2, NoneIsNoDoc DEF Ids
<1>5. Fresh'
  BY <1>2, <1>4 DEF Fresh, LInv, KInv, JobOK, Busy, Jobs
<1> QED BY <1>1, <1>3, <1>5 DEF LInv

LEMMA CrashKeepsMatch ==
  ASSUME LInv, Crash
  PROVE  LInv'
<1>1. KInv'
  BY CrashKeeps DEF LInv
<1>2. \A j \in Loop : job'[j] = Idle
  BY DEF Crash, Jobs
<1>3. Fresh'
  BY <1>2, IdleOK DEF Fresh
<1>4. VectorsMatch'
  BY DEF Crash, index, VectorsMatch, AllIds, LInv
<1> QED BY <1>1, <1>3, <1>4 DEF LInv

LEMMA NextLInv == Commands = {} /\ LInv /\ [Next]_vars => LInv'
<1> SUFFICES ASSUME Commands = {}, LInv, [Next]_vars PROVE LInv'
  OBVIOUS
<1>1. ASSUME NEW j \in Jobs, StartRefresh(j) \/ Work(j) PROVE LInv'
  BY <1>1, WorkStep, JobStepKeepsMatch DEF LInv
<1>2. ASSUME NEW h \in Handlers, Page(h) PROVE LInv'
  BY <1>2, PageStep, JobStepKeepsMatch DEF LInv, Jobs, Loop
<1> QED BY <1>1, <1>2, DeleteKeepsMatch, IngestKeepsMatch, OtherKeepsMatch, CrashKeepsMatch DEF Next, ManagedSites

\* What the tasks of one process read before an await they still find after
\* it, and the vector table holds the chunks' vectors and no others.
THEOREM OneProcess ==
  ASSUME Commands = {}
  PROVE  Spec => []LInv
<1>1. Init => LInv
  BY InitLInv
<1>2. LInv /\ [Next]_vars => LInv'
  BY NextLInv
<1> QED BY <1>1, <1>2, PTL DEF Spec

\* With the service as the only process, a document is served by one text at
\* most, whole with its vectors, and a deleted document by none (embedder.py
\* ingest_reference_document, store.py replace_document_chunks and
\* delete_reference_document).
THEOREM OneTextIsServed ==
  ASSUME Commands = {}
  PROVE  Spec => []OneTextServed
<1>1. LInv => OneTextServed
  BY DEF LInv, KInv, OneText, VectorsMatch, OneTextServed
<1> QED BY <1>1, OneProcess, PTL

-----------------------------------------------------------------------------
(* The scan of knn_chunks covers every vector.                             *)

\* There are no more vectors than chunks.
LEMMA VectorCount ==
  ASSUME LInv
  PROVE  /\ IsFiniteSet(vectors) /\ Cardinality(vectors) \in Nat /\ Cardinality(chunks) \in Nat
         /\ Cardinality(vectors) <= Cardinality(chunks)
<1>1. IsFiniteSet(chunks)
  BY DEF LInv, KInv, Finite
<1> DEFINE f == [c \in chunks |-> c.id]
<1>2. f \in Surjection(chunks, AllIds)
  BY DEF Surjection, AllIds
<1>3. IsFiniteSet(AllIds) /\ Cardinality(AllIds) <= Cardinality(chunks)
  BY <1>1, <1>2, FS_Surjection
<1>4. IsFiniteSet(vectors) /\ Cardinality(vectors) <= Cardinality(AllIds)
  BY <1>3, FS_Subset DEF LInv, VectorsMatch
<1> QED BY <1>1, <1>3, <1>4, FS_CardinalityType

\* So the neighbours of a scan are all of them.
LEMMA ScanIsWhole ==
  ASSUME LInv, NEW k \in Nat,
         NEW nearest \in kSubset(Min({ScanLimit(k), Cardinality(vectors)}), vectors)
  PROVE  nearest = vectors
<1>1. ScanLimit(k) \in Nat /\ ScanLimit(k) >= Cardinality(vectors)
  BY VectorCount, MaxOfTwo DEF ScanLimit
<1>2. Min({ScanLimit(k), Cardinality(vectors)}) = Cardinality(vectors)
  BY <1>1, VectorCount, MinOfTwo
<1>3. nearest \in SUBSET vectors /\ Cardinality(nearest) = Cardinality(vectors)
  BY <1>2 DEF kSubset
<1> QED BY <1>3, VectorCount, FS_Subset

\* A scoped retrieval finds as many chunks as it asks for, or all there are
\* (store.py knn_chunks: "globally closer chunks from another site cannot
\* crowd out valid hits"): the scan is as long as the chunks are many, and
\* there are no vectors beside theirs.
THEOREM NothingIsCrowdedOut ==
  ASSUME Commands = {}
  PROVE  Spec => []NothingCrowdedOut
<1>1. LInv => NothingCrowdedOut
  <2> SUFFICES ASSUME LInv, NEW s \in Sites, NEW k \in 1..2
               PROVE  LET hits == {c.id : c \in InScope(s)} \cap vectors
                          scanned == Min({ScanLimit(k), Cardinality(vectors)})
                      IN \A nearest \in kSubset(scanned, vectors) :
                           Cardinality(nearest \cap hits) >= Min({k, Cardinality(hits)})
    BY DEF NothingCrowdedOut
  <2> DEFINE hits == {c.id : c \in InScope(s)} \cap vectors
  <2>1. hits \subseteq vectors
    OBVIOUS
  <2> HIDE DEF hits
  <2>2. Cardinality(hits) \in Nat
    BY <2>1, VectorCount, FS_Subset, FS_CardinalityType
  <2>3. Min({k, Cardinality(hits)}) <= Cardinality(hits)
    BY <2>2, MinOfTwo
  <2>4. ASSUME NEW nearest \in kSubset(Min({ScanLimit(k), Cardinality(vectors)}), vectors)
        PROVE  Cardinality(nearest \cap hits) >= Min({k, Cardinality(hits)})
    <3>1. nearest = vectors
      BY ScanIsWhole
    <3>2. nearest \cap hits = hits
      BY <2>1, <3>1
    <3> QED BY <2>2, <2>3, <3>2, MinOfTwo
  <2> QED BY <2>4 DEF hits
<1> QED BY <1>1, OneProcess, PTL
=============================================================================
