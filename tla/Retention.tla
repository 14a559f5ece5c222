------------------------------ MODULE Retention ------------------------------
(***************************************************************************)
(* The local Trash as a holding box (mail/retention.py, db/store.py) and   *)
(* the copy at the provider (mail/server_delete.py).  The background sweep *)
(* and purges started from a page or the command line work on connections  *)
(* of their own; between two of their statements the user may restore,     *)
(* label or delete, and another purge may run.                             *)
(***************************************************************************)
EXTENDS Integers

CONSTANTS
  Messages,
  Headless,   \* those that came without a Message-ID
  Sweeper,    \* the background sweep
  Purgers,    \* pages and command lines
  Days,       \* trash_retention_days, in ticks of the clock
  MaxDay,     \* bounds the clock
  Moves,      \* which of "restore", "archive", "label" the user makes
  Faults,     \* which of "crash", "drop", "busy", "unlink", "renumber" can happen
  MaxFaults,  \* bounds how many do
  None

Workers == {Sweeper} \cup Purgers

ASSUME RetentionAssumption ==
  /\ Headless \subseteq Messages
  /\ {Days, MaxDay, MaxFaults} \subseteq Nat
  /\ Moves \subseteq {"restore", "archive", "label"}
  /\ Faults \subseteq {"crash", "drop", "busy", "unlink", "renumber"}
  /\ None \notin Int

VARIABLES
  row,      \* the messages table
  copy,     \* the provider: is our mail there, and what the row's UID names
  file,     \* messages with attachment files on disk
  job,      \* the purge or sweep each worker is in
  now,
  faults,
  strayed,  \* history: messages for which the provider lost another mail
  orphaned  \* history: messages whose files an interrupted purge left behind

vars == <<row, copy, file, job, now, faults, strayed, orphaned>>

\* server_error: "refused" is retried by every sweep, "mismatch" by none.
Row ==
  [trashed : BOOLEAN, trashed_at : 0..MaxDay \cup {None}, spam : BOOLEAN, purged : BOOLEAN,
   server_deleted : BOOLEAN, server_error : {"none", "refused", "mismatch"}]

Copy == [ours : BOOLEAN, uid : {"ours", "other", "nothing"}]

\* kind: "retry" is the first half of a sweep.  ids: the messages worked on;
\* found: those with a server copy on record; gone, refused, mismatched: the
\* provider's answer; paths: the files to remove.
Job ==
  [pc : {"idle", "due", "locate", "delete", "gone", "failed", "paths", "purge", "unlink"},
   kind : {"retry", "sweep", "purge"}, ids : SUBSET Messages, found : SUBSET Messages,
   gone : SUBSET Messages, refused : SUBSET Messages, mismatched : SUBSET Messages,
   paths : SUBSET Messages]

Begin(pc, kind, ids) ==
  [pc |-> pc, kind |-> kind, ids |-> ids, found |-> {}, gone |-> {}, refused |-> {},
   mismatched |-> {}, paths |-> {}]
Idle == Begin("idle", "sweep", {})

At(w, pc) == job[w].pc = pc
Become(w, j) == job' = [job EXCEPT ![w] = j]
Fault(f) == f \in Faults /\ faults < MaxFaults /\ faults' = faults + 1

Init ==
  /\ row = [m \in Messages |->
       [trashed |-> FALSE, trashed_at |-> None, spam |-> FALSE, purged |-> FALSE,
        server_deleted |-> FALSE, server_error |-> "none"]]
  /\ copy = [m \in Messages |-> [ours |-> TRUE, uid |-> "ours"]]
  /\ file = Messages
  /\ job = [w \in Workers |-> Idle]
  /\ now = 0 /\ faults = 0 /\ strayed = {} /\ orphaned = {}

-----------------------------------------------------------------------------
(* The user, the clock and the server's own renumbering.                  *)

UserMove(m, r) ==
  /\ row' = [row EXCEPT ![m] = r]
  /\ UNCHANGED <<copy, file, job, now, faults, strayed, orphaned>>

Trash_BackDated(m) ==
  UserMove(m, [row[m] EXCEPT !.trashed = TRUE,
                 !.trashed_at = IF @ = None THEN now - Days ELSE @])

\* COALESCE: deleting again does not restart the clock.
Trash(m) ==
  UserMove(m, [row[m] EXCEPT !.trashed = TRUE, !.trashed_at = IF @ = None THEN now ELSE @])

Restore(m) ==
  /\ "restore" \in Moves
  /\ UserMove(m, [row[m] EXCEPT !.trashed = FALSE, !.trashed_at = None])

\* A stale page archives what another has moved to Trash; the clock stays.
Archive(m) ==
  /\ "archive" \in Moves
  /\ UserMove(m, [row[m] EXCEPT !.trashed = FALSE])

\* A human, the model or a rescreening labels the message.
Label(m) ==
  /\ "label" \in Moves
  /\ \E spam \in BOOLEAN : UserMove(m, [row[m] EXCEPT !.spam = spam])

Tick ==
  /\ now < MaxDay /\ now' = now + 1
  /\ UNCHANGED <<row, copy, file, job, faults, strayed, orphaned>>

\* UIDVALIDITY changed: the UID on record names another mail, or none.
Renumber(m) ==
  /\ Fault("renumber")
  /\ \E uid \in {"other", "nothing"} : copy' = [copy EXCEPT ![m].uid = uid]
  /\ UNCHANGED <<row, file, job, now, strayed, orphaned>>

-----------------------------------------------------------------------------
(* A sweep: retry what the provider refused, then purge what is due.      *)

RetryIds_InTrash ==
  {m \in Messages : ~row[m].purged /\ ~row[m].server_deleted /\ row[m].server_error = "refused"}

RetryIds ==
  {m \in Messages : row[m].purged /\ ~row[m].server_deleted /\ row[m].server_error = "refused"}

Due(m) ==
  /\ row[m].trashed /\ ~row[m].purged
  /\ row[m].spam \/ (row[m].trashed_at # None /\ row[m].trashed_at + Days <= now)

Unchanged == UNCHANGED <<row, copy, file, now, faults, strayed, orphaned>>

StartSweep(w) ==
  /\ At(w, "idle")
  /\ Become(w, IF RetryIds = {} THEN Begin("due", "sweep", {})
               ELSE Begin("locate", "retry", RetryIds))
  /\ Unchanged

FindDue(w) ==
  LET due == {m \in Messages : Due(m)} IN
  /\ At(w, "due")
  /\ Become(w, IF due = {} THEN Idle ELSE Begin("locate", "sweep", due))
  /\ Unchanged

\* "Delete permanently": confirmed for the messages a page once listed.
StartPurge(w) ==
  /\ At(w, "idle") /\ w # Sweeper
  /\ \E ids \in SUBSET Messages \ {{}} : Become(w, Begin("locate", "purge", ids))
  /\ Unchanged

Locate(w) ==
  LET found == {m \in job[w].ids : ~row[m].server_deleted} IN
  /\ At(w, "locate")
  /\ Become(w, [job[w] EXCEPT !.found = found, !.pc = IF found = {} THEN "failed" ELSE "delete"])
  /\ Unchanged

-----------------------------------------------------------------------------
(* delete_uids: one IMAP session, in which UIDs keep their meaning.       *)

Removed(m) == [ours |-> copy[m].ours /\ copy[m].uid # "ours", uid |-> "nothing"]

Answer(w, removed, gone, refused, mismatched) ==
  /\ copy' = [m \in Messages |-> IF m \in removed THEN Removed(m) ELSE copy[m]]
  /\ strayed' = strayed \cup {m \in removed : copy[m].uid = "other"}
  /\ Become(w, [job[w] EXCEPT !.pc = "gone", !.found = {}, !.gone = gone,
                 !.refused = refused, !.mismatched = mismatched])
  /\ UNCHANGED <<row, file, now, orphaned>>

Absent(w) == {m \in job[w].found : copy[m].uid = "nothing"}

Mismatched_Unverified(w) == {}

\* _verify_targets compares the Message-ID, when the row has one.
Mismatched(w) == {m \in job[w].found \ Headless : copy[m].uid = "other"}

Keep(w) == job[w].found \ (Absent(w) \cup Mismatched(w))

Delete(w) ==
  /\ At(w, "delete")
  /\ Answer(w, Keep(w), Absent(w) \cup Keep(w), {}, Mismatched(w))
  /\ UNCHANGED faults

\* No connection, no trash folder, no UIDPLUS: nothing was done.
DeleteRefused(w) ==
  /\ At(w, "delete") /\ Fault("drop")
  /\ Answer(w, {}, {}, job[w].found, {})

DeleteInterrupted_Accepted(w) ==
  /\ At(w, "delete") /\ Fault("drop")
  /\ \E removed \in SUBSET Keep(w) :
       Answer(w, removed, Absent(w) \cup Keep(w), {}, Mismatched(w))

\* The connection drops in the move: what it did is unknown, so all failed.
DeleteInterrupted(w) ==
  /\ At(w, "delete") /\ Fault("drop")
  /\ \E removed \in SUBSET Keep(w) :
       Answer(w, removed, Absent(w), Keep(w), Mismatched(w))

RecordGone(w) ==
  /\ At(w, "gone")
  /\ row' = [m \in Messages |-> IF m \in job[w].gone
               THEN [row[m] EXCEPT !.server_deleted = TRUE, !.server_error = "none"] ELSE row[m]]
  /\ Become(w, [job[w] EXCEPT !.pc = "failed", !.gone = {}])
  /\ UNCHANGED <<copy, file, now, faults, strayed, orphaned>>

Recorded(w, error, goes_on) ==
  /\ At(w, "failed")
  /\ row' = [m \in Messages |->
       IF m \in job[w].refused THEN [row[m] EXCEPT !.server_error = error]
       ELSE IF m \in job[w].mismatched THEN [row[m] EXCEPT !.server_error = "mismatch"]
       ELSE row[m]]
  /\ Become(w, IF job[w].kind = "retry" THEN Begin("due", "sweep", {})
               ELSE IF goes_on THEN Begin("paths", job[w].kind, job[w].ids)
               ELSE Idle)
  /\ UNCHANGED <<copy, file, now, faults, strayed, orphaned>>

RecordFailed_OneError(w) == Recorded(w, "mismatch", TRUE)
RecordFailed_KeepsRow(w) == Recorded(w, "refused", job[w].refused \cup job[w].mismatched = {})

\* Each failure with its own error; then the second half of the sweep, or of
\* the purge: whatever the provider said, the local content goes.
RecordFailed(w) == Recorded(w, "refused", TRUE)

-----------------------------------------------------------------------------
(* The local half.                                                        *)

ReadPaths_AfterPurge(w) ==
  /\ At(w, "paths")
  /\ Become(w, [job[w] EXCEPT !.pc = "purge"])
  /\ Unchanged

\* attachment_paths: the rows are there until a purge deletes them.
ReadPaths(w) ==
  /\ At(w, "paths")
  /\ Become(w, [job[w] EXCEPT !.pc = "purge", !.paths = {m \in job[w].ids : ~row[m].purged}])
  /\ Unchanged

\* purge_messages: not a word about trashed or the holding period.
Purge(w) ==
  /\ At(w, "purge")
  /\ row' = [m \in Messages |-> IF m \in job[w].ids /\ ~row[m].purged
               THEN [row[m] EXCEPT !.purged = TRUE, !.trashed = TRUE] ELSE row[m]]
  /\ Become(w, [job[w] EXCEPT !.pc = "unlink"])
  /\ UNCHANGED <<copy, file, now, faults, strayed, orphaned>>

RemoveFiles(w) ==
  /\ At(w, "unlink")
  /\ file' = file \ job[w].paths
  /\ Become(w, Idle)
  /\ UNCHANGED <<row, copy, now, faults, strayed, orphaned>>

\* "could not remove attachment file": logged, and the path is not kept.
RemoveFilesFails(w) ==
  /\ At(w, "unlink") /\ Fault("unlink")
  /\ \E left \in SUBSET (job[w].paths \cap file) :
       /\ file' = file \ (job[w].paths \ left)
       /\ orphaned' = orphaned \cup left
  /\ Become(w, Idle)
  /\ UNCHANGED <<row, copy, now, strayed>>

\* A locked database, or the process ends: the job stops where it is.
Abort(w) ==
  /\ ~At(w, "idle")
  /\ Fault("crash")
  /\ orphaned' = IF At(w, "unlink") THEN orphaned \cup (job[w].paths \cap file) ELSE orphaned
  /\ Become(w, Idle)
  /\ UNCHANGED <<row, copy, file, now, strayed>>

\* An error in the retry half does not stop the sweep.
RetryFails(w) ==
  /\ job[w].kind = "retry"
  /\ Fault("busy")
  /\ Become(w, Begin("due", "sweep", {}))
  /\ UNCHANGED <<row, copy, file, now, strayed, orphaned>>

-----------------------------------------------------------------------------
Step(w) == FindDue(w) \/ Locate(w) \/ Delete(w) \/ RecordGone(w) \/ RecordFailed(w)
           \/ ReadPaths(w) \/ Purge(w) \/ RemoveFiles(w)
Failure(w) == DeleteRefused(w) \/ DeleteInterrupted(w) \/ RemoveFilesFails(w) \/ Abort(w)
              \/ RetryFails(w)
User == \E m \in Messages : Trash(m) \/ Restore(m) \/ Archive(m) \/ Label(m)
Renumbering == \E m \in Messages : Renumber(m)
Working == \E w \in Workers : StartSweep(w) \/ StartPurge(w) \/ Step(w) \/ Failure(w)

Next == User \/ Tick \/ Renumbering \/ Working

Spec == Init /\ [][Next]_vars

\* The sweep comes round every six hours, and its IMAP calls time out.
FairSpec == Spec /\ WF_vars(StartSweep(Sweeper) \/ Step(Sweeper))

-----------------------------------------------------------------------------
TypeOK ==
  /\ row \in [Messages -> Row]
  /\ copy \in [Messages -> Copy]
  /\ file \subseteq Messages /\ strayed \subseteq Messages /\ orphaned \subseteq Messages
  /\ job \in [Workers -> Job]
  /\ now \in 0..MaxDay /\ faults \in 0..MaxFaults

StillAtUid(m) == copy[m].ours /\ copy[m].uid = "ours"

\* A shredded message whose mail is still at its UID is one the next sweep
\* retries: the row has left every trash query, so nothing else would.
CopyRemembered == \A m \in Messages : row[m].purged /\ StillAtUid(m) => m \in RetryIds

\* A copy recorded as deleted is not still standing where the row says.
DeletedMeansGone == \A m \in Messages : row[m].server_deleted => ~StillAtUid(m)

\* A UID that has come to name another mail does not cost that mail, as long as
\* the row has a Message-ID to tell.
OnlyOursDeleted == strayed \subseteq Headless

\* The files of a shredded message are gone, or a purge is about to remove them,
\* or one was interrupted: the paths are read while the rows exist.
FilesFollow ==
  \A m \in file : row[m].purged => m \in orphaned \/ \E w \in Workers : m \in job[w].paths

\* What is due does not stay so: no refusal, mismatch or interrupted purge keeps
\* a message from being destroyed.
DueIsPurged == \A m \in Messages : Due(m) ~> ~Due(m)

\* Once faults stop, the provider's copy of a shredded message goes too.
CopyGoes == \A m \in Messages : row[m].purged ~> ~StillAtUid(m)

\* Only what the user asked to destroy, or what is in Trash and due at that
\* moment, is destroyed: deleted mail can be restored until then.
NotDestroyedEarly ==
  [][\A m \in Messages : ~row[m].purged /\ row'[m].purged =>
       Due(m) \/ \E w \in Workers : At(w, "purge") /\ job[w].kind = "purge" /\ m \in job[w].ids
    ]_vars
=============================================================================
