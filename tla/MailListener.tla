---------------------------- MODULE MailListener ----------------------------
(***************************************************************************)
(* From the mailbox to triage: one IMAP listener thread                    *)
(* (mail/imap_listener.py), the Refresh button (mail/sync_state.py), and   *)
(* the consumer of the work queue with its recovery at start (runtime.py). *)
(*                                                                         *)
(* The UID of a mail is its place in the order of delivery.  One step is   *)
(* one message of a fetch, one write of the cursor, one connection attempt *)
(* or one sleep; all that the code keeps in memory is lost in a crash.     *)
(***************************************************************************)
EXTENDS Integers, FiniteSets, FiniteSetsExt

CONSTANTS
  MaxUid,         \* bounds the mails delivered
  Poison,         \* mails the parser always fails on
  FetchChunk,     \* FETCH_CHUNK
  MaxAttempts,    \* MAX_INGEST_ATTEMPTS
  BackfillCount,  \* BACKFILL_COUNT
  StartupLimit,   \* the limit of unprocessed_message_ids
  Faults,         \* which of "crash", "drop", "store", "triage" can happen
  MaxFaults,      \* bounds how many do
  Unset           \* no cursor row

Uids == 1..MaxUid

ASSUME MailListenerAssumption ==
  /\ {MaxUid, FetchChunk, MaxAttempts, BackfillCount, StartupLimit} \subseteq Nat \ {0}
  /\ Poison \subseteq Uids /\ MaxFaults \in Nat
  /\ Faults \subseteq {"crash", "drop", "store", "triage"}
  /\ Unset \notin Int

VARIABLES
  delivered,          \* how many mails the folder has received
  cursor,             \* mailbox_cursors.last_uid, or Unset
  message,            \* what became of each mail: "none", "stored" or "triaged"
  listener,           \* the listener thread: see Listener
  failures,           \* _ingest_failures
  refresh_requested,  \* an Event
  waiting,            \* somebody waits in wait_for_check
  work_q,             \* messages queued for triage (triage is idempotent: a set)
  recovered,          \* the consumer has made its pass over unprocessed messages
  faults,             \* faults so far
  skipped,            \* history: mails given up after MaxAttempts failures
  left_out,           \* history: mails the first run leaves out on purpose
  early,              \* history: mails that failed when there was no cursor row
  forgotten           \* history: messages this run of the server leaves to the next

tables  == <<cursor, message>>
events  == <<refresh_requested, waiting>>
triage  == <<work_q, recovered, forgotten>>
history == <<skipped, left_out, early>>
vars == <<delivered, tables, listener, failures, events, triage, faults, history>>

\* pc: where the thread is.  todo: messages of the fetched chunk still to come.
\* chunk, rest: UIDs of this chunk and of the ones after it.  complete: none of
\* the chunk failed.  backfilled: _backfilled.  initial: this is the backfill.
Listener ==
  [pc : {"down", "idle", "fetching", "ingesting", "sleeping"},
   todo : SUBSET Uids, chunk : SUBSET Uids, rest : SUBSET Uids,
   complete : BOOLEAN, backfilled : BOOLEAN, initial : BOOLEAN]

Started == [pc |-> "down", todo |-> {}, chunk |-> {}, rest |-> {},
            complete |-> TRUE, backfilled |-> FALSE, initial |-> FALSE]

At(p) == listener.pc = p
Goto(p) == listener' = [listener EXCEPT !.pc = p]

Fault(f) == f \in Faults /\ faults < MaxFaults /\ faults' = faults + 1

Init ==
  /\ delivered = 0 /\ cursor = Unset
  /\ message = [u \in Uids |-> "none"]
  /\ listener = Started
  /\ failures = [u \in Uids |-> 0]
  /\ refresh_requested = FALSE /\ waiting = FALSE
  /\ work_q = {} /\ recovered = FALSE
  /\ faults = 0 /\ skipped = {} /\ left_out = {} /\ early = {} /\ forgotten = {}

Stored == {u \in Uids : message[u] # "none"}
Untriaged == {u \in Uids : message[u] = "stored"}

Deliver ==
  /\ delivered < MaxUid
  /\ delivered' = delivered + 1
  /\ UNCHANGED <<tables, listener, failures, events, triage, faults, history>>

-----------------------------------------------------------------------------
(* One reconciliation: _checked_ingest and _ingest_missing.               *)

Smallest(n, us) == {u \in us : Cardinality({v \in us : v < u}) < n}
Largest(n, us)  == {u \in us : Cardinality({v \in us : v > u}) < n}

\* Without a cursor row the largest stored UID stands in for it.
Floor == IF cursor # Unset THEN cursor ELSE Max(Stored \cup {0})
NewUids == {u \in 1..delivered : u > Floor}
FirstRun == cursor = Unset /\ Stored = {}
Targets(initial) ==
  IF initial /\ FirstRun THEN Largest(BackfillCount, NewUids) ELSE NewUids

\* The check is over, well or not: note_check wakes whoever waits for it, and
\* only a failed check that is not the backfill ends the session.
CheckDone(error, initial) ==
  /\ waiting' = FALSE
  /\ listener' = [Started EXCEPT
       !.pc = IF error /\ ~initial THEN "sleeping" ELSE "idle",
       !.backfilled = TRUE]

StartCheck(initial) ==
  LET us == Targets(initial)
      chunk == Smallest(FetchChunk, us) IN
  /\ refresh_requested' = FALSE
  /\ left_out' = left_out \cup (NewUids \ us)
  /\ IF us = {}
     THEN /\ cursor' = Floor
          /\ CheckDone(FALSE, initial)
     ELSE /\ listener' = [listener EXCEPT !.pc = "fetching", !.initial = initial,
                            !.chunk = chunk, !.rest = us \ chunk]
          /\ UNCHANGED <<cursor, waiting>>
  /\ UNCHANGED <<delivered, message, failures, triage, skipped, early>>

\* Connect, then backfill or honour a refresh that is waiting, or go idle.
Connect ==
  /\ At("down")
  /\ IF ~listener.backfilled \/ refresh_requested
     THEN StartCheck(~listener.backfilled)
     ELSE /\ Goto("idle")
          /\ UNCHANGED <<delivered, tables, failures, events, triage, history>>
  /\ UNCHANGED faults

\* IDLE ended: an untagged response, 30 seconds, or a refresh.
IdleEnds ==
  /\ At("idle")
  /\ StartCheck(FALSE)
  /\ UNCHANGED faults

Fetch ==
  /\ At("fetching")
  /\ listener' = [listener EXCEPT !.pc = "ingesting", !.todo = listener.chunk, !.complete = TRUE]
  /\ UNCHANGED <<delivered, tables, failures, events, triage, faults, history>>

Handle(u, complete) ==
  listener' = [listener EXCEPT !.todo = @ \ {u}, !.complete = @ /\ complete]

\* _ingest_one: a new row is queued for triage; a row already there is queued
\* again if it never got there.
IngestOne(u) ==
  /\ u \notin Poison
  /\ message' = [message EXCEPT ![u] = IF @ = "none" THEN "stored" ELSE @]
  /\ work_q' = IF message[u] = "triaged" THEN work_q ELSE work_q \cup {u}
  /\ failures' = [failures EXCEPT ![u] = 0]
  /\ Handle(u, TRUE)
  /\ UNCHANGED <<faults, skipped, early>>

Unhandled(u, n, limit) ==
  /\ IF n >= limit
     THEN /\ skipped' = skipped \cup {u}
          /\ failures' = [failures EXCEPT ![u] = 0]
          /\ Handle(u, TRUE)
          /\ UNCHANGED early
     ELSE /\ failures' = [failures EXCEPT ![u] = n]
          /\ Handle(u, FALSE)
          /\ early' = IF cursor = Unset THEN early \cup {u} ELSE early
          /\ UNCHANGED skipped
  /\ UNCHANGED <<message, work_q>>

IngestPoison_Forever(u) ==
  /\ u \in Poison
  /\ Unhandled(u, 1, MaxAttempts + 1)
  /\ UNCHANGED faults

IngestPoison_OneMore(u) ==
  /\ u \in Poison
  /\ Unhandled(u, failures[u] + 1, MaxAttempts + 1)
  /\ UNCHANGED faults

\* The parser fails: after MaxAttempts times in a row the mail is given up.
IngestPoison(u) ==
  /\ u \in Poison
  /\ Unhandled(u, failures[u] + 1, MaxAttempts)
  /\ UNCHANGED faults

IngestBusy_Counted(u) ==
  /\ Fault("store")
  /\ u \notin Poison
  /\ Unhandled(u, failures[u] + 1, MaxAttempts)

\* The database is locked, or the disk is full: not the mail's fault.
IngestBusy(u) ==
  /\ Fault("store")
  /\ u \notin Poison
  /\ Unhandled(u, failures[u], MaxAttempts)

Ingest ==
  /\ At("ingesting") /\ listener.todo # {}
  /\ LET u == Min(listener.todo) IN IngestOne(u) \/ IngestPoison(u) \/ IngestBusy(u)
  /\ UNCHANGED <<delivered, cursor, events, recovered, forgotten, left_out>>

\* The whole chunk was handled: the cursor moves past it and the next follows.
EndChunk(complete) ==
  LET next == Smallest(FetchChunk, listener.rest) IN
  /\ At("ingesting") /\ listener.todo = {}
  /\ IF complete
     THEN cursor' = Max({IF cursor = Unset THEN 0 ELSE cursor, Max(listener.chunk)})
     ELSE UNCHANGED cursor
  /\ IF complete /\ next # {}
     THEN /\ listener' = [listener EXCEPT !.pc = "fetching", !.chunk = next,
                            !.rest = @ \ next]
          /\ UNCHANGED waiting
     ELSE CheckDone(FALSE, listener.initial)
  /\ UNCHANGED <<delivered, message, failures, refresh_requested, triage, faults, history>>

AdvanceCursor_Always == EndChunk(TRUE)
AdvanceCursor == EndChunk(listener.complete)

CheckFails_Unnoted ==
  /\ At("fetching") /\ Fault("drop")
  /\ listener' = [Started EXCEPT !.pc = "sleeping", !.backfilled = TRUE]
  /\ UNCHANGED <<delivered, tables, failures, events, triage, history>>

\* The search for new mail breaks off, or the cursor cannot be read or written.
SearchFails ==
  /\ At("idle") \/ (At("down") /\ (~listener.backfilled \/ refresh_requested))
  /\ Fault("drop") \/ Fault("store")
  /\ refresh_requested' = FALSE
  /\ CheckDone(TRUE, ~listener.backfilled)
  /\ UNCHANGED <<delivered, tables, failures, triage, history>>

\* The connection drops in a fetch, or the cursor cannot be written.
CheckFails ==
  /\ \/ At("fetching") /\ Fault("drop")
     \/ At("ingesting") /\ listener.todo = {} /\ listener.complete /\ Fault("store")
  /\ CheckDone(TRUE, listener.initial)
  /\ UNCHANGED <<delivered, tables, failures, refresh_requested, triage, history>>

-----------------------------------------------------------------------------
(* Sessions: run and _connected_loop.                                     *)

ConnectFails ==
  /\ At("down") /\ Fault("drop")
  /\ waiting' = FALSE
  /\ Goto("sleeping")
  /\ UNCHANGED <<delivered, tables, failures, refresh_requested, triage, history>>

\* The forced reconnect, or a NOOP that finds the socket dead.
Reconnect ==
  /\ At("idle")
  /\ Goto("down")
  /\ UNCHANGED <<delivered, tables, failures, events, triage, faults, history>>

\* The backoff is over, or a refresh ends it early.
WakeUp ==
  /\ At("sleeping")
  /\ Goto("down")
  /\ UNCHANGED <<delivered, tables, failures, events, triage, faults, history>>

\* The Refresh button: request_refresh, then wait_for_check.
RequestRefresh ==
  /\ ~waiting
  /\ refresh_requested' = TRUE /\ waiting' = TRUE
  /\ UNCHANGED <<delivered, tables, listener, failures, triage, faults, history>>

\* wait_for_check times out.
GiveUpWaiting ==
  /\ waiting
  /\ waiting' = FALSE
  /\ UNCHANGED <<delivered, tables, listener, failures, refresh_requested, triage, faults,
                 history>>

-----------------------------------------------------------------------------
(* The consumer, and crashes of the server process.                       *)

Recover_Nothing ==
  /\ ~recovered /\ recovered' = TRUE
  /\ UNCHANGED <<delivered, tables, listener, failures, events, work_q, forgotten, faults, history>>

\* The pass over unprocessed messages takes the newest; older ones wait for
\* the next start.
Recover ==
  LET found == Largest(StartupLimit, Untriaged) IN
  /\ ~recovered /\ recovered' = TRUE
  /\ work_q' = work_q \cup found
  /\ forgotten' = Untriaged \ work_q'
  /\ UNCHANGED <<delivered, tables, listener, failures, events, faults, history>>

\* "Startup triage recovery failed; continuing with live mail".
RecoverFails ==
  /\ ~recovered /\ recovered' = TRUE
  /\ Fault("triage")
  /\ forgotten' = Untriaged \ work_q
  /\ UNCHANGED <<delivered, tables, listener, failures, events, work_q, history>>

\* process_message classifies, defers, withholds or drafts.
Triage(u) ==
  /\ recovered /\ u \in work_q
  /\ work_q' = work_q \ {u}
  /\ message' = [message EXCEPT ![u] = "triaged"]
  /\ UNCHANGED <<delivered, cursor, listener, failures, events, recovered, forgotten, faults,
                 history>>

\* "Graph failed for message": logged, and not queued again.
TriageFails(u) ==
  /\ recovered /\ u \in work_q
  /\ Fault("triage")
  /\ work_q' = work_q \ {u}
  /\ forgotten' = forgotten \cup {u}
  /\ UNCHANGED <<delivered, tables, listener, failures, events, recovered, history>>

Crash ==
  /\ Fault("crash")
  /\ listener' = Started
  /\ failures' = [u \in Uids |-> 0]
  /\ refresh_requested' = FALSE /\ waiting' = FALSE
  /\ work_q' = {} /\ recovered' = FALSE /\ forgotten' = {}
  /\ UNCHANGED <<delivered, tables, history>>

-----------------------------------------------------------------------------
Session == Connect \/ Fetch \/ Ingest \/ AdvanceCursor \/ WakeUp
Failing == ConnectFails \/ SearchFails \/ CheckFails
Consumer == Recover \/ RecoverFails \/ \E u \in Uids : Triage(u) \/ TriageFails(u)

Next == \/ Deliver \/ Session \/ IdleEnds \/ Reconnect \/ Failing \/ RequestRefresh
        \/ GiveUpWaiting \/ Consumer \/ Crash

Spec == Init /\ [][Next]_vars

\* Every wait of the listener is bounded: socket operations by a timeout, IDLE
\* by 30 seconds, the backoff by five minutes.  The queue is FIFO, so each
\* message has its turn.  IDLE ends in a check however often the session is
\* renewed.
Fairness ==
  /\ WF_vars(Session) /\ SF_vars(IdleEnds)
  /\ WF_vars(Recover \/ RecoverFails)
  /\ \A u \in Uids : WF_vars(Triage(u) \/ TriageFails(u))

FairSpec == Spec /\ Fairness

-----------------------------------------------------------------------------
TypeOK ==
  /\ delivered \in 0..MaxUid
  /\ cursor \in 0..MaxUid \cup {Unset}
  /\ message \in [Uids -> {"none", "stored", "triaged"}]
  /\ listener \in Listener
  /\ failures \in [Uids -> 0..MaxAttempts - 1]
  /\ refresh_requested \in BOOLEAN /\ waiting \in BOOLEAN /\ recovered \in BOOLEAN
  /\ work_q \subseteq Uids /\ forgotten \subseteq Uids
  /\ skipped \subseteq Uids /\ left_out \subseteq Uids /\ early \subseteq Uids
  /\ faults \in 0..MaxFaults

\* The cursor, or the largest stored UID that stands in for it, never passes a
\* mail that was neither stored nor given up: mail below it is not looked at
\* again.  Crashes and broken sessions cost no mail, also in the first run; the
\* exceptions are the mails the bounded first run leaves out and those that
\* failed while there was no cursor row (imap_listener.py:495).
NothingSkipped ==
  \A u \in 1..Floor : message[u] # "none" \/ u \in skipped \cup left_out \cup early

\* Only mail the parser cannot read is given up: a busy database never costs
\* a mail, however often it is busy.
OnlyPoisonSkipped == skipped \subseteq Poison

\* A message that is stored and not triaged is known to somebody: it is queued,
\* or recovery will look for it, or this run of the server gave it up and the
\* next start looks again.
UntriagedIsKnown ==
  \A u \in Untriaged : u \in work_q \cup forgotten \/ ~recovered

\* Once faults stop, every mail reaches triage unless it was given up, left out,
\* failed before there was a cursor row, or is left to the next start: neither a
\* poison mail nor a crash holds up others.
MailArrives ==
  \A u \in Uids :
    u <= delivered ~>
      message[u] = "triaged" \/ u \in skipped \cup left_out \cup early \cup forgotten

\* Whoever waits for a refresh is heard: the request is pending or a check runs,
\* and a check ends the wait whatever becomes of it.
RefreshNeverHangs == waiting => refresh_requested \/ At("fetching") \/ At("ingesting")
=============================================================================
