# MailForge in TLA+

Specifications of the parts of MailForge where several actors share state and
things go wrong half way: the way of a mail from the mailbox through screening and
triage to a draft, the life of that draft until SMTP, the destruction of deleted mail
here and at the provider, the audit chain that records it all, the reference library
that drafts are written from, and the credentials. TLC checks them on small instances;
the invariants that matter most are proved with TLAPS for all values of the constants.

Paths below are relative to `src/src/mailforge/`, the Python package.

| module | models | checked by | proved in |
|---|---|---|---|
| `SendLedger` | the promise: nothing leaves unapproved | (abstract) | |
| `DraftSend` | drafts, approval pages, Compose, bridge processes, outbox, SMTP | `MCDraftSend` | `DraftSendProofs`, `DraftSendSafety` |
| `MailListener` | IMAP sessions, cursor, ingest, refresh, work queue | itself | `MailListenerProofs` |
| `Screening` | what `assess_inbound` answers (operators) | `MCTriage` | in `TriageProofs` |
| `Guardrails` | what `run_output_guardrails` answers (operators) | `MCTriage` | |
| `Triage` | `process_message` and all who call it, label, release, rescreen | `MCTriage` | `TriageProofs` |
| `Retention` | Trash, sweep, purge, the provider's copy, files | itself | `RetentionProofs` |
| `AuditChain` | the hash chain, its locks and connections, the monitor | itself | `AuditChainProofs` |
| `Knowledge` | handbooks, uploads, chunks, vectors, scoped retrieval | `MCKnowledge` | `KnowledgeProofs` |
| `Access` | keyring calls, accounts, `config.toml`, `RESET_LOGIN` | `MCAccess` | `AccessProofs` |

## 1. Inventory

One server process (`runtime.py`, `ui/app.py`) holds an asyncio loop, which runs
the NiceGUI pages, the triage consumer and the resumer of deferred drafts; one
thread per IMAP account; a monitor thread; and a sweep every six hours in a
worker thread. Each call of the agent bridge (`bridge_cli.py`) and of the command
line is a process of its own. They all meet in one SQLite file (WAL, a busy
timeout, one connection per thread or process) and nowhere else: there is no lock
between two statements of two actors. That is where the hard behaviour is.

| component | state | operations | talks to | what makes it correct |
|---|---|---|---|---|
| Draft life cycle and approval UI: `ui/pages/detail.py`, `assistant.py`, `ui/interrupt.py` | `drafts` (state, body); per page: the draft state and the gate it remembers | open, save, apply a revision, approve (awaits SMTP in a thread), reject | store, outbox, guardrails | only approved text leaves; a failure returns the draft; SENT is final |
| Compose: `ui/pages/compose.py` | manual drafts; per page: id, busy | open, save, send, delete | store, outbox | the draft sent is the one saved; deleting is safe under a send |
| Agent bridge: `bridge_cli.py`, `agent/revisions.py` | `send_authorizations` (token hash, digest of the text, expiry, use) | compose_draft, prepare_send, send, revise_draft; read-only queries | store, outbox, model | a token is bound to one text, spent once; sends are capped per hour |
| Outbox and SMTP: `mail/outbox.py`, `smtp_sender.py` | `sent_messages.outcome` | begin, transmit, finish | relay, Sent folder | the row never claims more than is known |
| IMAP listener: `mail/imap_listener.py` | `mailbox_cursors`, `messages`; in memory: failures per UID, backoff | connect, backfill, check, IDLE, reconnect | server, store, queue | no mail is passed over, no mail blocks the others |
| Refresh: `mail/sync_state.py` | requests and conditions in memory | request, wait, note a check | listener, pages | a waiting dialog is answered |
| Triage queue: `runtime.py` | `work_q` (memory), `messages.category` | recover at start, consume, resume deferred | listener, graph | a stored message is triaged or found again |
| Triage graph: `agent/graph.py`, `planner.py`, `worker.py` | message label, draft of a message | screen, classify, draft, defer | model, guardrails, store | a human's verdict is not overwritten; withheld mail is not drafted |
| Trash: `mail/retention.py`, `server_delete.py`, pages of `ui/pages/mail.py` | `trashed`, `trashed_at`, `purged_at`, `server_deleted_at`, `server_delete_error`; files | trash, restore, sweep, retry, purge | mail server, file system | not too early, in the end, everywhere, and nothing else |
| Audit: `audit/log.py`, `monitor.py` | hash chain of `audit_log`; a lock per process | append, verify, report | everyone | one chain, whoever appends; what was acknowledged is on file |
| Screening: `security/inbound_screening.py`, `rescreen.py` | labels, examples learned, known senders | assess, learn, label, release, rescreen | store, graph | only a human opens what was withheld |
| Guardrails and detectors: `security/` | none | verdict on a text | optional packages | a refused text is never proposed |
| Secrets and recovery: `secrets.py`, `recovery.py` | keyring; calls in flight; a reset file | bounded calls, one-shot reset | OS | a late answer cannot undo a newer write; a reset runs once; nobody waits for ever |
| Configuration and accounts: `config.py`, `accounts.py` | `config.toml`; `settings` in memory | add, password, remove, save | keyring, store | all of a change or nothing |
| Knowledge and retrieval: `knowledge/`, `rag/` | generated files, reference documents, chunks, vectors | refresh, upload, reindex, delete, ingest, retrieve | embedder, store | one text per document, found by its own site |
| Model bridge: `llm/` | none | HTTP calls with retries | model server | bounded waits |
| Mail parsing: `mail/normalize.py`, `sanitize.py`, `header_facts.py` | none | bytes to text | | pure |
| Command line, demo, services, other pages | none of their own | start the operations above, forms, installers | all | |

Interactions: triage writes drafts that pages and the bridge send; a human's
screening verdict closes the gate that both senders read; the listener feeds
triage through a queue that lives in memory only; the sweep destroys rows that
pages list and restore; every actor appends to the audit chain.

The hard behaviours, one row each under `hazards` in `PROJECT.json` with the line
where it bites: state read before an await and used after it (revise_draft, the
remembered state of a page, the ids of a sweep); two statements that should be
one (caps, the claim on a draft); a crash between the relay's answer and its
record; an answer of the relay that is lost; one mail of a batch that fails; UIDs
that come to name another mail; calls that were given up and still take effect; locks
and transactions shared by threads that do not know of each other; and the waits that
must end.

## 2. The models

### DraftSend and SendLedger

`SendLedger` is the abstract promise (README of the repository: "No auto-send,
ever"): an approval is recorded under a key for one draft and one text; a mail that
leaves spends one key that was not spent before and carries exactly its text.

`DraftSend` is the code. `draft` is the `drafts` table ("GONE" for no row), `auth`
is `send_authorizations`, `send` the approved attempts with their `sent_messages`
row and what the relay did, `withheld` the quarantine and screening gate of the
source message. `job[a]` is what actor `a` is doing: the program counter and the
values its code read earlier and will use again (`seen` and `gate` are the page's
remembered state, `body` the text carried to SMTP). Actors are approval tabs,
Compose pages and bridge processes.

One step is one SQL statement, one answer of the relay, or a UI handler up to its await:
the event loop is single-threaded, so a handler is atomic inside the server while bridge
processes interleave with it. Reads a call makes in a row, without a write between them,
are one step; `upsert_message_draft`'s read and write, one call on the event loop, are
one too (a bridge process could act between them). `transmit_and_record` is
`OpenRecord`, then one of `SmtpAccept`, `SmtpLose` (the relay took the mail and its
answer is lost) and `SmtpRefuse`, then `StampRecord`; each of the two writes can fail,
as the code swallows the error and goes on. Texts are model values; `Clean` is the set
of texts that pass the output guardrails, so a verdict is a fact about the text and any
policy is an instance. The token hash is the token's identity and the digest is equality
of texts.

The writes around a send can meet a busy database themselves ("busy" in `Faults`):
`BridgeStrand` is the audit append between APPROVED and the `try` of `_do_agent_send`,
`BridgeUnwritten` and `TabUnwritten` the SENT or PENDING that is never written. With a
crash these are `CutOff`, the steps after which a draft may stay APPROVED for ever;
`MCDraftSend` keeps the drafts they leave so in `stranded` (history).

Left out: an AI revision applied to a page while that same page's send is in
flight; a second click on Send of one Compose page (a second page on the same draft
stands for it) and a Save on a page whose draft was deleted under its own send, which
makes a new one; a busy database in the writes of Compose and of the handlers that send
nothing; a relay that took the mail and fails at QUIT, which is `SmtpLose` too, since row
and draft end alike; the per-process count behind `approvals_per_hour`, which only refuses
more; recipients and subjects (bound with the text in the same digest); the append to the
Sent folder, which cannot change an outcome.

### MailListener

One account and one folder. `cursor` is `mailbox_cursors.last_uid`; a UID is the place
in the order of delivery. `listener` is the thread: `StartCheck` is the part of
`_ingest_missing` up to the first fetch, `Ingest` handles one message of a chunk
(`_ingest_one` and its `except`), `AdvanceCursor` ends a chunk, `CheckDone` is
`note_check` with the choice between going on and the backoff; a check may fail before
its first fetch (`SearchFails`: the search, or the cursor of a check that finds nothing)
or after it (`CheckFails`). What is delivered before the first connection is the backlog
of a new account. `work_q` is a set: triaging a message a second time changes nothing
the model speaks of, and the queue is FIFO, which the fairness uses. `Poison` are mails
the parser always fails on; `IngestBusy` is a locked database, which does not count
against a mail. `Crash` forgets what the process kept in memory: queue, failure counts,
requests.

History variables record mails given up (`skipped`), left out by the bounded first
run (`left_out`), left to the next start (`forgotten`), and those that failed while there
was no cursor row (`early`).

Left out: the awaits inside the triage of a mail (here one step; they are in `Triage`);
UIDVALIDITY changes, expunges by other clients, the Sent-folder bootstrap, attachments,
the timer that resumes deferred drafts (it is in `Triage`), and the event that cuts a
backoff short (the request it announces is kept, the sleep just lasts its time).

### Retention

`row` holds the columns of `messages` that decide; `copy` is the provider's side:
whether our mail is in the folder, and what the UID on record names (ours, another
mail after a renumbering, or nothing). A job of a worker (the sweep, or a purge from
a page or the command line) goes through `Locate`, one IMAP session (`Delete`, or
`DeleteRefused`, or `DeleteInterrupted`, where the session dies after moving any part
of the batch), `RecordGone`, `RecordFailed`, `ReadPaths`, `Purge`, `RemoveFiles`.
The user may move, label or delete the message again between any two of these.
`Faults` turn on crashes, dropped connections, a busy database in the retry half, a
failing unlink and renumbering.

The rows of one record call are written together although the code commits one
statement per distinct error text. `server_delete_mode` is `trash` or `expunge` (with
`off` nothing is asked of the server), accounts and folders are one, an account
removed from the configuration is not modelled, and `server_retry_ids` is not cut at
its limit of 500. A mail without a Message-ID cannot be verified by the code:
`Headless`.

### Screening, Guardrails and Triage

`Screening` is `assess_inbound` over *cues*: a message is the set of what the regular
expressions and header checks find in it (`Cues`, by group), and the operators follow
the order, the points and the bars of the code. What the texts behind a cue are is left
out. `Guardrails` does the same for a draft: a text is what the detectors would find in
it, a setup says which optional packages are absent, working or raising, and the
operators are the gates, their fallbacks and the policies of `LocalPolicy`.

`Triage` puts them into the system. `box` is a message's screening, quarantine and
whose classification it carries; `drafts` are its rows, oldest first; `taught`,
`wanted`, `known` are what the store learned; `file` and `running` are `config.toml`
now and as the service loaded it. Tasks are the consumer and the resumer of the
service's event loop, and bridge processes (`propose`). `process_message` is
`ProcessMessage` (both gates), `ModelDown`/`ModelUp`, `Garbled`, `NoReply`, `Reply`,
`EmptyDraft`, `Drafted`; looking for the draft and writing it (`Upsert`, `Store`) are
two steps, between which a *process* may come, but no task or handler of the service:
`LoopFree` and `Calm` say who holds the loop. `job[t].source` is the screening source
that was read before the model was asked. `Raise` is a statement that fails anywhere.
The human labels (with the learning that goes with it), teaches by another mail of the
site, releases, and handles drafts; `RescreenRead` and `RescreenCommit` are the two
halves of the command, with the configuration of its own time.

`human` in a draft is history: whether a human wrote the row last. A message is a thread
of its own. Left out: what the prompts contain, priorities, a second `rescreen` beside the
first, and a failing cross-thread guard (in `Guardrails` it refuses the text).

### AuditChain

`append_audit_chained` in four statements under two locks: `lock` is
`_AUDIT_APPEND_LOCK` of a process, `writer` the connection that holds SQLite's write
lock, `pending` its uncommitted rows. `Shared` names the threads that use the graph/UI
connection: a statement of one of them runs in the transaction of the other, and a
commit commits for both. `Write`/`EndWrite` are all the other writes an actor makes. A
hash is a number: the time stamp in the hashed text makes it unique. `Alter`, `Drop` are
what may happen to the file; `Monitor` verifies as `verify_chain` does. Left out: the
transaction that Python's `sqlite3` leaves open, without the write lock, after a
statement that met a busy database. An append that joins it reads an old snapshot, which
SQLite does not let it write to in WAL mode, so it raises and forks nothing.

### Knowledge

A text is its version; it makes one chunk. `WriteHandbooks` generates both files of a
site, `Upsert` decides by digest and status whether a document is to be indexed,
`BeginIngest` reads the text, the embedding is awaited, `Embedded` reads the ids of the
old chunks, `ReplaceChunks` is the one transaction. Chunk ids are SQLite's: one more than
the largest present, so an id can come back; vectors are matched by that id and know
nothing of chunks. Jobs of the service share the event loop (`LoopFree`), and
`references-refresh` is a process of its own. `ScanLimit` is how many neighbours
`knn_chunks` asks for before it applies the scope of the site. A refresh goes on behind a
site whose source is missing, and ends at the first exception: an embedding that fails, a
document deleted under it, or a copy for OpenClaw that cannot be written (`SyncFails`).
`MCKnowledge` keeps in `passed_by` (history) the handbooks the refreshes since the last
start of one did not come to.

### Access

A keyring call is started by `Call` (refused when one of the same operation and entry is
in flight in the process), and then lands (`Land`), fails (`Refuse`) or is given up by
its caller (`GiveUp`), and may land after that. A job of a form or a command is a list
of steps: `ReadPrior`, keyring calls, `Load` and `Save` of `config.toml`, and their
undoing (`Failing`, `Restore`). `Consume`, `UnlinkFails`, `Act`, `EndWipe`, `Rotate` are
`consume_reset_sentinel` at the start of the service; `backed` says whether the store is
the encrypted file, which is renamed or resists (`Wipe`, `WipeFails`), or the system's,
of which each entry is deleted. A delete that fails is hidden from its caller or raises,
by the kind of the error. `clean`, `acked` and `reset` are history.

Left out: the two prior reads are one step; a read that joins an older read; the relay
and the database row of an account; the keys themselves, of which only the rotations are
counted; `unlock` with its password dialogue.

## 3. Runs

"pass" runs are exhaustive over their instance.

| run | instance | distinct states | shows |
|---|---|---|---|
| `send_race` | 1 reply, 1 tab, 1 process, a text that passes and one that is refused, 2 attempts, crashes, lost answers and a busy database, fairness | 445,210 | the ledger is implemented; SENT is never a lie; nothing withheld is answered, no refused text leaves, each mail has its row; a send that started ends; APPROVED is left again unless the send was cut off |
| `send_compose` | 1 manual draft, 1 page, 1 process, 2 texts, 1 token, 2 attempts, database faults and lost answers, fairness | 1,448,748 | a token pays once, also when the draft is deleted and made again; the outbox never claims more than is known |
| `mail_ingest` | 4 mails, before or after the first connection, 1 unreadable, chunks of 2, 2 faults of any kind, fairness | 118,506 | no mail is passed over but those that failed before there was a cursor; only the unreadable one is given up; a refresh is heard; each mail reaches triage |
| `trash_sweep` | 1 message, sweep and a page, all moves, 2 faults, fairness | 311,340 | what is due is destroyed, the provider's copy goes in the end, files follow, no other mail is deleted |
| `audit_chain` | loop, sweep and bridge with their own connections, 3 hashes, 2 faults of any kind, fairness | 6,808 | one chain, whoever appends; tampering stays visible; what was acknowledged is on file; no append waits for ever; a break is reported |
| `triage` | 1 message of 5 kinds, consumer, resumer, 1 bridge call, 1 human action, 1 fault, a configuration that changes, fairness | 340,579 | only a human opens what was withheld; triage never rewrites what a human wrote; a deferred reply settles |
| `knowledge` | 2 handbooks of a site and 1 upload of another, the refresh and a click, 2 versions, 3 disturbances (clicks, 2 faults, 1 foreign chunk), fairness | 534,680 | one whole text per document; a scoped retrieval misses nothing; a handbook is indexed or reported, unless its refresh passed it by |
| `access` | 1 mailbox, a form and a command one after the other, the start of the service, 2 actions, 1 fault, fairness | 126,050 | a late write never undoes a newer one; a failed add leaves nothing; a reset file acts once; nobody waits for ever |

Bounds: `Sends` bounds approved attempts, `Auths` the tokens ever issued, `MaxUid` the
mails, `MaxDay` the clock, `MaxHashes` the appends, `MaxVersion` the versions of a page,
`IngestBound` and `QueueBound` two counters, `AtOnce` the forms and commands at work at
once, `HandBound` what people and bridge callers do, `FaultBound` and `MaxFaults` the
faults, `Disturbances` what people, faults and other ingests do together. They are
guards of the actions that start something, so that nothing that has started is cut off.

Why these sizes: a race on a draft needs two actors on one draft and two attempts (two
mails can then both leave); a token can be misused by a second text, a second process or
a second draft under the same id. A chunk boundary needs more mails than a chunk holds,
giving up needs two attempts, and the limit of the start-up pass is 1 so that it binds.
Purges interact through one row and one IMAP session. A fork of the chain needs two
appenders and a third row to stand on it. In `triage` the tasks and the command meet in
one message, since every message has rows of its own; the two kinds of draft text, one
refused, and the two configurations make every disjunct of the graph fire. With two
actions of humans and bridge callers instead of one, the safety half of `triage` still
holds (3,899,851 states), too many for the liveness half. A vector left behind needs a
document whose ids come to be used by another, hence two sites and a foreign chunk. A
handbook left INDEXING needs a crash and then either a missing source or a second
handbook whose embedding fails first: two faults, two handbooks. In `access` calls that
were given up still interleave with every later job although jobs come one after the
other. What these sizes cannot show, the proofs do for any size (section 5).

Restrictions to know of.

- `EverySendRecorded` is about replies and a database that can be written to. When the
  insert of the row fails, the code logs "could not open outbox record; sending anyway"
  (`mail/outbox.py:83`); so does a manual draft deleted between the click and
  `begin_send_record`, whose insert fails its foreign key. The mail then leaves with no
  row, although `db/schema.sql:104` says one is always there first. Both are in the model.
- `NothingSkipped` excuses the mails in `early`. Until a cursor row exists the largest
  stored UID stands in for it (`mail/imap_listener.py:495`): if a mail of the very first
  chunk fails on a busy database and a later one is stored, the failed one is never looked
  at again.
- `ApprovedIsTransient` excuses the drafts in `stranded`. A draft whose send was cut off
  by a crash, or by a busy database in the append at `bridge_cli.py:567` or in the very
  write that should follow (`bridge_cli.py:591`, `:600`, `ui/pages/detail.py:613`),
  stays APPROVED, and a page opened from then on can neither edit, send nor reject it.
- `ManagedSettles` excuses the handbooks in `passed_by`. A crash in an embedding leaves
  INDEXING; when the next refresh misses the site's source (`knowledge/sync.py:64`) or
  ends on an exception before it comes to the document (`:98`), INDEXING stays until
  somebody refreshes again. Take either cause out of `PassedBy` and TLC finds it.
- The hourly cap (`bridge_cli.py:524`) is counted in one statement and the token spent in
  another: two processes at once exceed it. The repository does not promise it for calls
  at once.
- `HumanDraftsStand` is about the service. A bridge process that proposes while a human
  edits writes over the row it had found deferred (`db/store.py:1735`, read and write in
  two statements).
- `knowledge` has no second process: `references-refresh` beside the page can leave a
  vector without a chunk, because the ids of the old chunks are read before the
  transaction (`db/store.py:2255`), and such vectors crowd out hits of a site.
- `AllOrNothing` speaks of jobs whose calls were answered. A call that was given up
  survives the rollback: the operation is part of the key of `_run_bounded`, so a late
  *set* and the *delete* of the rollback do not exclude each other (`secrets.py:82`),
  and a failed add can leave a credential behind.

Every property has a mutant (`PROJECT.json`): a named variant of one definition, such
as `ClearTab_RememberedGate` or `Begin_Deferred`, that a plausible bug would
produce and under which TLC finds the property violated. The variants stand before
the definitions they replace and are used by nothing else.

### Fairness

Liveness is checked only under assumptions the code gives:

- *sending*: `io_bound` work runs on once started, its socket operations time out
  after 30 s, and the handler that awaits it always resumes; a bridge process runs
  to its end. So each actor is weakly fair in the steps `Onward`, in which no person
  decides anything;
- *listening*: a check ends or fails in bounded time, IDLE ends after 30 s, the backoff
  after at most 300 s; the queue is FIFO, so every queued message has its turn. IDLE is
  *strongly* fair: a forced reconnect may interrupt it again and again, but IDLE
  outlasts each of them;
- *sweeping*: the loop of `_retention_sweep` comes round every six hours, and its
  exceptions are caught. Nothing is assumed of pages;
- *appending*: a thread that holds the lock runs on, SQLite's busy timeout ends a wait,
  and the monitor comes round again. Nothing is assumed of other transactions, which may
  stay open for ever;
- *triage*: the loop runs its tasks, the minute passes, and a model call is answered or
  times out. Outages and empty answers are faults, which stop; answers that make no sense
  are not, the code caps them itself;
- *indexing*: the loop runs the refresh, and an embedding is answered or times out;
- *access*: threads and the start of the service run. The credential store is assumed to
  do *nothing*: `Land` and `Refuse` are without fairness.

Faults are bounded, which is to say that they stop at some time.

## 4. Disagreements found

Each has a run that expects the violation; the traces are short.

1. `sent_rewritten` (`agent/revisions.py:106`). `revise_draft` reads the state, awaits
   the model and writes PENDING without a condition. A reply approved and sent from a
   page meanwhile is sendable again, with another text, although `agent/revisions.py:47`
   and `ui/pages/assistant.py:224` call such a draft immutable. Save and Reject on a
   stale page do the same. A conditional UPDATE (`WHERE state IN ...`, as
   `update_manual_draft` has) would close it.
2. `restored_purged` (`mail/retention.py:187`). The sweep's ids are shredded after its
   IMAP sessions without a second look at `trashed`; a message restored meanwhile is
   destroyed here and at the provider.
3. `audit_forks` (`db/store.py:2630`). The event loop and worker threads use one
   connection (`runtime.py:83`, `ui/pages/detail.py:602`). An append that finds the
   other thread's transaction open joins it, and its commit and rollback are then not
   its own: the chain forks, although the docstring says that "two appenders — UI worker
   thread and the agent loop, or a second process — can never both chain onto the same
   predecessor". A connection per thread closes it: `ForkTakesIntrusion` proves that a
   fork takes a thread that ends the shared transaction while the other's append is in
   it.
4. `model_overrides_human` (`agent/graph.py:93`). The screening source is read before the
   model is asked, minutes before its SPAM is filed; a human's label given in between is
   overwritten, although the docstring says "Never overrides a human decision".

Seen while modelling, without a run of their own:

- rows lost at the end of the audit log cannot be detected by `verify_chain`
  (`audit/log.py:12` promises "any tampering or row deletion"); `Drop` therefore takes a
  row that is not the last;
- a send record that cannot be opened leaves its write transaction open during SMTP
  (`db/store.py:1260`);
- `rescreen` spares a message that a human labelled meanwhile, but still rejects its
  drafts and rewrites its category (`rescreen.py:219`);
- without `llm-guard` the fallback asks for PII of every category, so the configured
  categories have no effect (`security/guardrails.py:77`); a failing read of chunks lets
  the cross-thread guard pass (`security/crossthread.py:84`);
- an empty draft is retried every minute without a cap (`agent/graph.py:356`);
- a failed reindex reports ERROR while the old chunks are still served; a crash leaves an
  uploaded document INDEXING until somebody reindexes it; an ingest of an older text that
  ends late replaces a newer one (`db/store.py:2255`);
- the Settings page saves what it holds in memory and so drops a mailbox that a command
  added since the service started (`ui/pages/settings.py:503`); a reset that raises skips
  the rotation of the keys although its file is consumed (`recovery.py:377`).

## 5. Proofs

All proofs hold for any sets of drafts, texts, pages, processes, tokens and messages
(finite or not; only the paths of `RESET_LOGIN` are finitely many, as they are in the
code) under the named assumptions of the modules: kinds of actors and ids are
disjoint, `None` is no record, bounds are natural numbers.

**`DraftSendProofs`.** `TypeOK` and `TokenSpentOnce` are not inductive: whether a job
may spend a token depends on what it read before. `Inv` adds

- `JobOK`: what a job at a given point may rely on (its draft is of its kind, its text
  is a text, its token exists);
- `SendOK`: the attempt a job holds is on record with the job's draft and text, and
  the relay has not had it before it is sent; `Apart`: no two jobs hold one attempt;
- `TokenOK`: an attempt made with a token has spent it, for the token's draft and text;
- `SpentOK`: a job that has just spent a token is the only one, and no attempt has it
  yet. This is where `consume_send_authorization` being one UPDATE is used;
- `MailOK`: what the relay took is what was approved.

`Invariance`, `TypeCorrect` and `TokensAreOneTime` follow.

**`DraftSendSafety`.** `SafeInv` adds to `Inv` what the gate, the text and the row look
like on the way to the relay: `CleanOK` (what was approved for a reply or under a token
had passed the guardrails; with `MailOK` that is what leaves), `HeldOK` (a send of a
withheld message has not passed `ClearTab`, or was sent back by it; bridge processes
never start one), and `ProgressOK` (how far row and wire of an attempt are when its job
is at a point). A step that approves nothing and does not talk to the relay is
`Harmless`; the three approvals and the steps of `transmit_and_record` are `Approves`
and `Advances`. `OutboxIsTruthful` includes a failing database, `WithheldStaysIn` any
number of pages and changes of the verdict.

The same module proves three more results.

- `RepliesAreRecorded` and `EverySendIsRecorded`: where the database answers, every mail
  on the wire has its outbox row (`RecordInv`: a job about to transmit has noted its
  attempt or sends a manual draft, and no reply's draft is ever deleted, so its insert
  keeps the foreign key). Both hypotheses are needed: with a failing insert the code
  sends anyway, and a manual draft deleted under its send fails the insert (section 3).
  The first theorem therefore allows the manual draft as the only exception; the second
  says `EverySendRecorded` itself where only replies are sent, as in `send_race`.
- `NothingLeavesUnapproved == Spec => LedgerSpec`: each step is an approval
  (`ApproveTab`, `ApproveManual`, or the issue of a token by `PrepareIssue`), a
  transmission (`SmtpAccept`, `SmtpLose`) or a stutter of the ledger. `MailOK` and
  `TokenOK` make the mail the approved text; `Apart` and `TokenSpentOnce` make its key
  unspent. The theorem is about what leaves, not about what comes after: finding 1 is
  compatible with it, since a draft sent twice was approved twice.

**`RetentionProofs`.** Two observations carry `NoCopyForgotten` and
`DeletedCopyIsGone`: a mail that is no longer at its UID never returns there, and an
error recorded for one that *is* there stays recorded. `Learnt(w)` says what worker
`w` knows at each point of its job (after `Locate`: what it leaves out is gone; after
the session: what it was not refused is gone; before shredding: each message is
remembered), and `KnowledgeStays` that no other worker's step can take that away. Hence
`CopyInv`, inductive with any number of purges on the same messages.
`NoFileForgotten` needs `PathsRead` (the paths a purge holds cover the messages it
will be the first to shred) and `RetriesKeepRows` (the retry half never gets to the
local half). `OthersAreSafe` is inductive by itself, because verification and move
happen in one session.

**`AuditChainProofs`.** Everything here holds for any sharing of connections, the one
server's two threads share included. `Intrusion` is the end of some other write, by a
commit or a rollback, on a connection where another actor's append is between BEGIN and
COMMIT: what finding 3 shows. `ForkTakesIntrusion` and `LossTakesIntrusion` say that it
is the only way to fork the chain or to lose an append that was acknowledged: `Spec /\
[][~Intrusion]_vars` implies `[]ChainIntact` and `[]ReturnedIsOnFile`. The invariant
says that whoever has begun holds the write lock (`BEGIN IMMEDIATE` before the tail is
read), alone on its connection while it appends (`LockOK`, `Alone`), so that only its
own rows are pending; that the tail it read is the last row of log and pending; that
hashes are new; and that every row links to the one before, up to the place where the
file was tampered with. Type correctness needs no hypothesis.

**`TriageProofs`.** `Inv` adds to the types: whatever is queued or drafted has arrived
(`ArrivedOK`); a task at work has its mail and the row it will change (`JobsOK`); and a
planned rescreen is for a row that still is as it was read, or that the guard of the
UPDATE spares, and never opens a withheld mail (`PlanOK`). From `PlanOK` follows
`WithheldIsSafe`: the only other steps that touch a status are the model's SPAM, which
withholds, and the human's. `ScreeningTyped` is what is used of the screening. For
`HumanDraftsAreSafe`, `HumanInv` says that only what no human touched is deferred
(`HumanRowsOK`) and that the row a task of the *service* is about to change has been
written by no human (`StoresOK`). The latter is preserved because the loop is not given
up between looking and writing (`Calm`, `LoopFree`); for bridge processes it is false,
and the property exempts them.

With `Agents = {}`, so that all triage is the service's, more holds. `SoleInv` says that
a message has one row at most (`OneDraft`) and that a task about to store writes the row
it saw: the last one, which is still deferred or was rejected by a rescreen meanwhile
(`Seen`, `Regenerable`). Nobody else of the service acts before the task has written,
and a rescreen adds no rows. Hence `OneDraftEach`, and `SettledDraftsStand`: a row that
waits for a human or was sent changes by a human's hand or a rescreen only. This is what
`DraftSend` takes for granted when it gives each reply one row that triage fills or
retires only while it is deferred (`AgentFill`, `RetireDeferred`). The one case
`DraftSend` leaves out is the row that a concurrent `rescreen` rejects between the look
and the write, which triage then regenerates.

The last section is about the screening, for every set of cues (there are 2^22).
`SuspicionNeverOpens`: to add cues that only speak against a mail (`Suspicious`) never
makes it readable for a model, although cues raise points, move the bar and select the
branch; `PointsGrow` and `CorroborationStays` are its two halves. Cues that are not in
the set can open a mail, as the code means them to: a signature of ours, a topic, a
free-mail domain (whose learned spam does not count), a failed authentication (which
takes a mail out of its category rule). `StrictSiteOpensContent` says what a
`content_only` site shows a model. `TaughtSpamIsWithheld` puts it into the system: a
mail of a sender taught as spam arrives withheld, and by `WithheldIsSafe` it stays so
until a human says otherwise.

**`MailListenerProofs`.** `NothingSkipped` rests on `CursorInv`: while a check is under
way, chunk and rest lie one behind the other and contain every UID between the cursor
and their largest (`Covers`), and what was taken off a chunk that is still complete was
stored or given up (`Handled`). Hence moving the cursor to the largest UID of a complete
chunk passes over nothing. While there is no cursor row, what lies behind the largest
stored UID was stored, given up, left out by the bounded first run, or failed early
(`Behind`, `FloorKnown`); whatever the folder holds at the first connection, the theorem
needs no assumption. That `Max` and `Min` exist follows from the well-foundedness of the
natural numbers (`LeastExists`), and that the first chunk is the smallest part of the
targets from cardinalities (`SmallestOK`). `OnlyPoisonIsSkipped` uses that failures stay
below `MAX_INGEST_ATTEMPTS`, so that a busy database alone never reaches the limit.

**`AccessProofs`.** `SaveInv`: of a process and an entry one *set* is in flight at most
(`OneWrite`, the key of `_run_bounded`), and it is newer than any that process reported.
The invariant needs nothing of what a job will do next. `ResetInv` counts: files that
ask, plus what this start has found and still owes, plus what was done, is at most what
was asked for. Deleting the file before acting is what moves one from the first to the
second. `UndoInv`, for `FailureLeavesNothing`, says by the shape of a job's list of
steps what is still to come: as long as a job is *clean* (its calls were answered,
nobody else wrote its entries), what it has found before, what is in the store and the
steps left agree, so that the steps of an undoing end at what was found. A call in
flight is the head of the list of the job that waits for it, or of none (`Match`), which
is why a late answer cannot be taken for the one awaited.

**`KnowledgeProofs`.** `KInv` holds with any number of processes: ids are not shared by
two chunks and the table is finite, so that SQLite has a next id to give
(`OneChunkPerId`, `Finite`); a document has one text (`OneText`); what a job and an
unfinished `ingest` hold is there (`JobOK`, `Ingesting`); and one task of the service's
loop at a time is between two of its awaits (`Turns`). Hence `KnowledgeTypeCorrect` and
`DocumentsHaveOneText`, which needs only that `replace_document_chunks` is one
transaction. The vectors are another matter: the ids whose vectors go are read before
that transaction. `LInv` adds that they are still those of the document when it begins
(`Fresh`) and that there is a vector for every chunk of a document and for nothing else
(`VectorsMatch`). `Fresh` is kept because the service does not give up the loop in
between; with `references-refresh` beside it, it is false (section 3), so
`OneTextIsServed` and `NothingIsCrowdedOut` assume `Commands = {}`. The latter compares
the scan with the number of vectors by cardinalities (`VectorCount`).

**Model-checked only.** All liveness (fairness and ENABLED are beyond the prover). Every
safety invariant and safety action property of a passing run is a theorem, with these
hypotheses: `ChainIntact` and `ReturnedIsOnFile` as long as nobody intrudes;
`EverySendRecorded`, `OneTextServed` and `NothingCrowdedOut` as above.
Each hypothesis is also how the run is configured, and without it the property is false.

## 6. Plan

Done: the send path with its abstract specification and refinement, the way from
mailbox through screening and triage to a draft, retention, the audit chain, the
reference library, credentials and recovery; the proofs above.

Open, in this order:

1. *Composition.* `Triage` with `DraftSend`: both know `AgentFill` and `RetireDeferred`.
   `OneDraftEach` and `SettledDraftsStand` are what `DraftSend` assumes of triage without
   bridge processes; with them, two rows for a message are possible and need a model.
2. *Retention again.* The time of the deletion itself: archiving keeps `trashed_at`
   (`db/store.py:1446`), so a message deleted a second time can be due at once.
3. *Model bridge.* The order of endpoints and retries in `llm/bridge.py`.
4. *Login.* The exchange of the launcher key for a session, and the files of keys, of
   which `Access` counts the rotations only.
5. *Proofs.* An older text that a reindex read before a refresh, indexed after it: state
   and prove what `READY` promises about the text served.

## 7. Not modelled

What regular expressions, parsers, sanitisers and chunkers do to a text (the modules
start from what they find in it), the HTTP calls to the model, page layout and
selection, the forms that only edit configuration, installers, the demo and the wizard:
pure functions, input and output, or one person editing a file. They are listed as such
under `components` in `PROJECT.json`. Of modelled components, UIDVALIDITY and the
Sent-folder bootstrap of the listener, the relay's credentials, `unlock`'s change of
password, and the search and statistics of the store are left out.

## Running

    tlc -workers 2 -config SendRace.cfg MCDraftSend
    tlc -workers 2 -config SendCompose.cfg MCDraftSend
    tlc -workers 2 -config MailIngest.cfg MailListener
    tlc -workers 2 -config TrashSweep.cfg Retention
    tlc -workers 2 -config AuditChain.cfg AuditChain
    tlc -workers 2 -config Triage.cfg MCTriage
    tlc -workers 2 -config Knowledge.cfg MCKnowledge
    tlc -workers 2 -config Access.cfg MCAccess
    for m in *Proofs.tla DraftSendSafety.tla; do tlapm $m; done
