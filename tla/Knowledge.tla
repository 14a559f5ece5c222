----------------------------- MODULE Knowledge ------------------------------
(***************************************************************************)
(* The reference library and its index: handbooks generated from each      *)
(* site's pages (knowledge/), documents uploaded in the UI                 *)
(* (pages/references.py), their chunks and vectors (rag/, db/store.py).    *)
(*                                                                         *)
(* Jobs: the refresh at the start of the service and the page's handlers   *)
(* are tasks of one event loop, which a task gives up where it awaits the  *)
(* model; `mailforge references-refresh` is a process of its own.  A text  *)
(* is its version, and makes one chunk.  The vector table knows nothing of *)
(* the chunks table: its rows are matched by chunk id, which SQLite takes  *)
(* from the largest one present.                                           *)
(***************************************************************************)
EXTENDS Naturals, FiniteSets, FiniteSetsExt

CONSTANTS
  Managed, Uploads,   \* documents: generated handbooks, and uploads
  Concise,            \* the handbooks that are copied to the site's bot
  Sites, SiteOf,      \* the site of each document
  Handlers,           \* clicks on the page: refresh, upload, reindex
  Commands,           \* processes running references-refresh
  MaxVersion,         \* bound: versions of a site's pages
  IngestBound,        \* bound: chunks `mailforge ingest` adds
  HandBound,          \* bound: clicks and commands
  FaultBound,         \* bound: crashes, missing sources, failed embeddings and copies
  None

Docs == Managed \cup Uploads
Loop == {"startup"} \cup Handlers
Jobs == Loop \cup Commands

ASSUME KnowledgeAssumption ==
  /\ SiteOf \in [Docs -> Sites]
  /\ Concise \subseteq Managed /\ Managed \cap Uploads = {} /\ None \notin Docs \cup Sites
  /\ MaxVersion \in Nat \ {0} /\ {IngestBound, HandBound, FaultBound} \subseteq Nat

VARIABLES
  pages,    \* version of each site's canonical pages
  book,     \* version in each generated file, 0 if there is none
  copy,     \* version of each copy in an OpenClaw workspace
  docs,     \* reference_documents
  chunks,   \* chunks
  vectors,  \* chunk ids of chunk_embeddings
  job,      \* what each job is doing
  due,      \* the startup refresh is still to come
  ingest,   \* the id `mailforge ingest` has still to give a vector, or None
  ingested, hands, faults

files  == <<pages, book, copy>>
index  == <<docs, chunks, vectors>>
bounds == <<ingested, hands, faults>>
vars   == <<files, index, job, due, ingest, bounds>>

\* digest: the version the row's SHA-256 was taken of; 0 for an upload.
Doc   == [status : {"UPLOADED", "INDEXING", "READY", "ERROR"}, digest : 0..MaxVersion]
ASSUME NoRow == None \notin Doc

Chunk == [id : Nat, doc : Docs \cup {None}, text : 0..MaxVersion]
PCs   == {"idle", "choosing", "upserting", "probing", "embedding", "replacing"}
\* old: ids of the document's chunks as read before the transaction.
Job   == [pc : PCs, sites : SUBSET Sites, site : Sites \cup {None},
          todo : SUBSET Docs, doc : Docs \cup {None}, text : 0..MaxVersion,
          old : SUBSET Nat]
Idle  == [pc |-> "idle", sites |-> {}, site |-> None, todo |-> {}, doc |-> None,
          text |-> 0, old |-> {}]

Init ==
  /\ pages = [s \in Sites |-> 1] /\ copy = [d \in Concise |-> 0]
  /\ book = [d \in Managed |-> 0]
  /\ docs = [d \in Docs |-> None] /\ chunks = {} /\ vectors = {}
  /\ job = [j \in Jobs |-> Idle] /\ due = TRUE /\ ingest = None
  /\ ingested = 0 /\ hands = 0 /\ faults = 0

Handed == hands < HandBound /\ hands' = hands + 1 /\ UNCHANGED <<ingested, faults>>
Fails  == faults < FaultBound /\ faults' = faults + 1 /\ UNCHANGED <<ingested, hands>>

\* is_up is awaited by a refresh and blocks a handler of one document.
Alone(j) == job[j].sites = {} /\ job[j].site = None
Holds(j) == job[j].pc \in {"choosing", "upserting", "replacing"}
            \/ (job[j].pc = "probing" /\ Alone(j))
LoopFree(j) == j \in Loop => \A k \in Loop \ {j} : ~Holds(k)
At(j, pc) == job[j].pc = pc /\ LoopFree(j)

Ids(d) == {c.id : c \in {e \in chunks : e.doc = d}}
AllIds == {c.id : c \in chunks}
\* INTEGER PRIMARY KEY: one more than the largest of the rows there are.
NextId(rows) == 1 + Max({c.id : c \in rows} \cup {0})

\* One document of a job is done, or was given up.
Done(j)    == job' = [job EXCEPT ![j] = IF Alone(j) THEN Idle
                        ELSE [@ EXCEPT !.pc = "upserting", !.doc = None, !.old = {}]]
\* An exception: the page reports it, a refresh ends with it.
Aborted(j) == job' = [job EXCEPT ![j] = Idle]
Marked(d, s) == docs' = IF docs[d] = None THEN docs ELSE [docs EXCEPT ![d].status = s]

(***************************************************************************)
(* refresh_managed_knowledge, over every site.                             *)
(***************************************************************************)
HandbooksOf(s) == {d \in Managed : SiteOf[d] = s}
ManagedSites   == {s \in Sites : HandbooksOf(s) # {}}

StartRefresh(j) ==
  /\ At(j, "idle")
  /\ IF j = "startup" THEN due /\ due' = FALSE /\ UNCHANGED bounds
     ELSE Handed /\ UNCHANGED due
  /\ job' = [job EXCEPT ![j].pc = "choosing", ![j].sites = ManagedSites]
  /\ UNCHANGED <<files, index, ingest>>

\* Both files are built from the pages and replaced atomically.
WriteHandbooks(j, s) ==
  /\ At(j, "choosing") /\ s \in job[j].sites
  /\ job' = [job EXCEPT ![j].sites = @ \ {s}, ![j].site = s,
                        ![j].todo = HandbooksOf(s), ![j].pc = "upserting"]
  /\ book' = [d \in Managed |-> IF SiteOf[d] = s THEN pages[s] ELSE book[d]]
  /\ UNCHANGED <<pages, copy, index, due, ingest, bounds>>

\* A missing page or policy: the site is passed over.
SourceMissing(j, s) ==
  /\ At(j, "choosing") /\ s \in job[j].sites /\ Fails
  /\ job' = [job EXCEPT ![j].sites = @ \ {s}]
  /\ UNCHANGED <<files, index, due, ingest>>

EndRefresh(j) ==
  /\ At(j, "choosing") /\ job[j].sites = {}
  /\ Aborted(j) /\ UNCHANGED <<files, index, due, ingest, bounds>>

NeedsIndex_ChangedOnly(d) == docs[d] = None \/ docs[d].digest # book[d]

NeedsIndex(d) ==
  docs[d] = None \/ docs[d].digest # book[d] \/ docs[d].status # "READY"

Upserted_NoStatus(d) == [status |-> None, digest |-> book[d]]

\* upsert_managed_reference_document; the concise handbook comes first.
Upserted(d) ==
  IF docs[d] # None /\ docs[d].digest = book[d] THEN docs[d]
  ELSE [status |-> "UPLOADED", digest |-> book[d]]

Upsert(j, d) ==
  /\ At(j, "upserting") /\ d \in job[j].todo
  /\ d \in Concise \/ job[j].todo \cap Concise = {}
  /\ docs' = [docs EXCEPT ![d] = Upserted(d)]
  /\ job' = [job EXCEPT ![j].todo = @ \ {d}, ![j].doc = d,
                        ![j].pc = IF NeedsIndex(d) THEN "probing" ELSE "upserting"]
  /\ UNCHANGED <<files, chunks, vectors, due, ingest, bounds>>

\* The concise handbook goes to the site's bot.
SyncToOpenClaw(j) ==
  /\ At(j, "upserting") /\ job[j].todo = {}
  /\ copy' = [d \in Concise |-> IF SiteOf[d] = job[j].site THEN book[d] ELSE copy[d]]
  /\ job' = [job EXCEPT ![j].pc = "choosing", ![j].site = None, ![j].doc = None]
  /\ UNCHANGED <<pages, book, index, due, ingest, bounds>>

\* The copy cannot be written: unlike a missing source this ends the refresh.
SyncFails(j) ==
  /\ At(j, "upserting") /\ job[j].todo = {} /\ Fails
  /\ Aborted(j) /\ UNCHANGED <<files, index, due, ingest>>

(***************************************************************************)
(* ingest_reference_document and its callers.                              *)
(***************************************************************************)
ModelOffline(j) ==
  /\ At(j, "probing") /\ Marked(job[j].doc, "ERROR") /\ Done(j)
  /\ UNCHANGED <<files, chunks, vectors, due, ingest, bounds>>

\* The text is read before the embedding is awaited.
BeginIngest(j) ==
  LET d == job[j].doc
  IN /\ At(j, "probing") /\ Marked(d, "INDEXING")
     /\ IF docs[d] = None THEN Aborted(j)
        ELSE job' = [job EXCEPT ![j].pc = "embedding",
                                ![j].text = IF d \in Managed THEN book[d] ELSE 1]
     /\ UNCHANGED <<files, chunks, vectors, due, ingest, bounds>>

EmbeddingFails(j) ==
  /\ At(j, "embedding") /\ Fails
  /\ Marked(job[j].doc, "ERROR") /\ Aborted(j)
  /\ UNCHANGED <<files, chunks, vectors, due, ingest>>

Embedded(j) ==
  LET d == job[j].doc
  IN /\ At(j, "embedding")
     /\ IF docs[d] = None THEN Aborted(j)
        ELSE job' = [job EXCEPT ![j].pc = "replacing", ![j].old = Ids(d)]
     /\ UNCHANGED <<files, index, due, ingest, bounds>>

Kept_All(d) == chunks

Kept(d) == {c \in chunks : c.doc # d}

\* replace_document_chunks: one transaction.  If the id still has a vector
\* that no chunk of the document had, the insert violates UNIQUE.
ReplaceChunks(j) ==
  LET d == job[j].doc
      id == NextId(Kept(d))
  IN /\ At(j, "replacing")
     /\ IF id \in vectors \ job[j].old
        THEN Marked(d, "ERROR") /\ Aborted(j) /\ UNCHANGED <<chunks, vectors>>
        ELSE /\ chunks' = Kept(d) \cup {[id |-> id, doc |-> d, text |-> job[j].text]}
             /\ vectors' = (vectors \ job[j].old) \cup {id}
             /\ Marked(d, "READY") /\ Done(j)
     /\ UNCHANGED <<files, due, ingest, bounds>>

(***************************************************************************)
(* The page.                                                               *)
(***************************************************************************)
Upload(h, d) ==
  /\ At(h, "idle") /\ docs[d] = None /\ Handed
  /\ docs' = [docs EXCEPT ![d] = [status |-> "UPLOADED", digest |-> 0]]
  /\ job' = [job EXCEPT ![h].pc = "probing", ![h].doc = d]
  /\ UNCHANGED <<files, chunks, vectors, due, ingest>>

Reindex(h, d) ==
  /\ At(h, "idle") /\ docs[d] # None /\ Handed
  /\ job' = [job EXCEPT ![h].pc = "probing", ![h].doc = d]
  /\ UNCHANGED <<files, index, due, ingest>>

Delete_KeepVectors(d) == vectors

WithoutVectors(d) == vectors \ Ids(d)

\* delete_reference_document: a managed one is refused.
Delete(d) ==
  /\ \A j \in Loop : ~Holds(j)
  /\ docs[d] # None /\ Handed
  /\ vectors' = WithoutVectors(d) /\ chunks' = Kept(d)
  /\ docs' = [docs EXCEPT ![d] = None]
  /\ UNCHANGED <<files, job, due, ingest>>

(***************************************************************************)
(* Everything else.                                                        *)
(***************************************************************************)
EditPages(s) ==
  /\ pages[s] < MaxVersion /\ pages' = [pages EXCEPT ![s] = @ + 1]
  /\ UNCHANGED <<book, copy, index, job, due, ingest, bounds>>

\* `mailforge ingest`: a chunk of a style guide or a context document, and in
\* a transaction of its own its vector, replacing any there is.
IngestChunk ==
  /\ ingest = None /\ ingested < IngestBound /\ ingested' = ingested + 1
  /\ ingest' = NextId(chunks)
  /\ chunks' = chunks \cup {[id |-> NextId(chunks), doc |-> None, text |-> 0]}
  /\ UNCHANGED <<files, docs, vectors, job, due, hands, faults>>

IngestVector ==
  /\ ingest # None /\ ingest' = None /\ vectors' = vectors \cup {ingest}
  /\ UNCHANGED <<files, docs, chunks, job, due, bounds>>

Crash ==
  /\ Fails /\ due' = TRUE
  /\ job' = [j \in Jobs |-> IF j \in Loop THEN Idle ELSE job[j]]
  /\ UNCHANGED <<files, index, ingest>>

-----------------------------------------------------------------------------
Work(j) ==
  \/ \E s \in Sites : WriteHandbooks(j, s) \/ SourceMissing(j, s)
  \/ EndRefresh(j) \/ \E d \in Managed : Upsert(j, d)
  \/ SyncToOpenClaw(j) \/ SyncFails(j) \/ ModelOffline(j) \/ BeginIngest(j)
  \/ EmbeddingFails(j) \/ Embedded(j) \/ ReplaceChunks(j)

Page(h) ==
  \/ \E d \in Uploads : Upload(h, d)
  \/ \E d \in Docs : Reindex(h, d)

Next ==
  \/ \E j \in Jobs : StartRefresh(j) \/ Work(j)
  \/ \E h \in Handlers : Page(h)
  \/ \E d \in Uploads : Delete(d)
  \/ \E s \in ManagedSites : EditPages(s)
  \/ IngestChunk \/ IngestVector \/ Crash

Spec == Init /\ [][Next]_vars

\* The loop runs its tasks, the startup refresh among them; an embedding is
\* answered or times out.
Fairness == WF_vars(StartRefresh("startup")) /\ \A j \in Loop : WF_vars(Work(j))

FairSpec == Spec /\ Fairness
-----------------------------------------------------------------------------
TypeOK ==
  /\ pages \in [Sites -> 1..MaxVersion] /\ book \in [Managed -> 0..MaxVersion]
  /\ copy \in [Concise -> 0..MaxVersion]
  /\ docs \in [Docs -> Doc \cup {None}]
  /\ \A c \in chunks : c \in Chunk
  /\ vectors \subseteq Nat /\ job \in [Jobs -> Job] /\ due \in BOOLEAN
  /\ ingest \in Nat \cup {None}
  /\ ingested \in 0..IngestBound /\ hands \in 0..HandBound /\ faults \in 0..FaultBound

\* However ingests, reindexing and deletion interleave, a document is served
\* by one text at most, whole with its vectors, and a deleted document by none
\* (embedder.py ingest_reference_document: "atomically replace").
OneTextServed ==
  \A c \in chunks : c.doc # None =>
    /\ docs[c.doc] # None /\ c.id \in vectors
    /\ \A e \in chunks : e.doc = c.doc => e = c

ScanLimit_K(k) == k

\* knn_chunks scans as many vectors as there are chunks.
ScanLimit(k) == Max({k, Cardinality(chunks)})

InScope(s) == {c \in chunks : c.doc # None /\ SiteOf[c.doc] = s}

\* A scoped retrieval finds as many chunks as it asks for, or all there are,
\* wherever other sites' vectors lie: store.py knn_chunks, "so globally closer
\* chunks from another site cannot crowd out valid hits".
NothingCrowdedOut ==
  \A s \in Sites, k \in 1..2 :
    LET hits == {c.id : c \in InScope(s)} \cap vectors
        scanned == Min({ScanLimit(k), Cardinality(vectors)})
    IN \A nearest \in kSubset(scanned, vectors) :
         Cardinality(nearest \cap hits) >= Min({k, Cardinality(hits)})
=============================================================================
