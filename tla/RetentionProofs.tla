-------------------------- MODULE RetentionProofs ---------------------------
(***************************************************************************)
(* Proofs about Retention, for any messages, purgers, holding period,      *)
(* moves of the user and faults.  The idea: a mail that is no longer at    *)
(* its UID never comes back there, and an error recorded for one that is   *)
(* stays recorded; so what a purge learns about its messages while it      *)
(* talks to the server is still true when it shreds them.                  *)
(***************************************************************************)
EXTENDS Retention, TLAPS

\* What the next sweep needs to find the server's copy of m.
Remembered(m) == StillAtUid(m) => row[m].server_error = "refused"

\* What the job of worker w has learnt about its messages.
Learnt(w) ==
  LET j == job[w] IN
  /\ j.pc = "locate" => j.gone \cup j.mismatched = {}
  /\ j.pc = "delete" => \A m \in j.ids \ j.found : ~StillAtUid(m)
  /\ j.pc \in {"gone", "failed"} =>
       /\ \A m \in j.ids \ j.refused : ~StillAtUid(m)
       /\ \A m \in j.gone \cup j.mismatched : ~StillAtUid(m)
  /\ j.pc \in {"paths", "purge"} => \A m \in j.ids : Remembered(m)

JobsLearnt == \A w \in Workers : Learnt(w)
Recalled == \A m \in Messages : row[m].purged => Remembered(m)

CopyInv == TypeOK /\ DeletedMeansGone /\ JobsLearnt /\ Recalled

\* The paths a purge has read cover the messages it will be the first to shred,
\* and after the shredding it holds on to them until the files are gone.
PathsRead ==
  \A w \in Workers : job[w].pc = "purge" =>
    \A m \in job[w].ids : ~row[m].purged => m \in job[w].paths
FilesHeld ==
  \A m \in file : row[m].purged =>
    m \in orphaned \/ \E w \in Workers : job[w].pc = "unlink" /\ m \in job[w].paths

\* The retry half of a sweep never comes to the local half of a purge.
RetriesKeepRows ==
  \A w \in Workers : job[w].pc \in {"paths", "purge", "unlink"} => job[w].kind # "retry"

FileInv == TypeOK /\ RetriesKeepRows /\ PathsRead /\ FilesHeld

-----------------------------------------------------------------------------
LEMMA TypeInit == Init => TypeOK
  BY RetentionAssumption DEF Init, TypeOK, Row, Copy, Job, Idle, Begin

LEMMA BecomeType ==
  ASSUME TypeOK, NEW w \in Workers, NEW j \in Job, Become(w, j)
  PROVE  job' \in [Workers -> Job]
  BY DEF TypeOK, Become

LEMMA BeginType ==
  ASSUME NEW ids \in SUBSET Messages
  PROVE  /\ \A pc \in {"idle", "due", "locate", "paths"}, k \in {"retry", "sweep", "purge"} :
              Begin(pc, k, ids) \in Job
         /\ Idle \in Job
  BY DEF Begin, Idle, Job

LEMMA UserType == TypeOK /\ User => TypeOK'
<1> SUFFICES ASSUME TypeOK, NEW m \in Messages, Trash(m) \/ Restore(m) \/ Archive(m) \/ Label(m)
             PROVE  TypeOK'
  BY DEF User
<1>1. row[m] \in Row /\ now \in 0..MaxDay
  BY DEF TypeOK
<1>2. ASSUME NEW r \in Row, UserMove(m, r) PROVE TypeOK'
  BY <1>2 DEF UserMove, TypeOK
<1>3. CASE Trash(m)
  <2>1. [row[m] EXCEPT !.trashed = TRUE, !.trashed_at = IF @ = None THEN now ELSE @] \in Row
    BY <1>1 DEF Row
  <2> QED BY <1>2, <1>3, <2>1 DEF Trash
<1>4. CASE Restore(m)
  <2>1. [row[m] EXCEPT !.trashed = FALSE, !.trashed_at = None] \in Row
    BY <1>1 DEF Row
  <2> QED BY <1>2, <1>4, <2>1 DEF Restore
<1>5. CASE Archive(m)
  <2>1. [row[m] EXCEPT !.trashed = FALSE] \in Row
    BY <1>1 DEF Row
  <2> QED BY <1>2, <1>5, <2>1 DEF Archive
<1>6. CASE Label(m)
  <2>1. PICK spam \in BOOLEAN : UserMove(m, [row[m] EXCEPT !.spam = spam])
    BY <1>6 DEF Label
  <2>2. [row[m] EXCEPT !.spam = spam] \in Row
    BY <1>1 DEF Row
  <2> QED BY <1>2, <2>1, <2>2
<1> QED BY <1>3, <1>4, <1>5, <1>6

LEMMA AnswerType ==
  ASSUME TypeOK, NEW w \in Workers, faults' \in 0..MaxFaults,
         NEW removed \in SUBSET Messages, NEW gone \in SUBSET Messages,
         NEW refused \in SUBSET Messages, NEW mismatched \in SUBSET Messages,
         Answer(w, removed, gone, refused, mismatched)
  PROVE  TypeOK'
<1>1. copy' \in [Messages -> Copy]
  BY DEF Answer, TypeOK, Copy, Removed
<1>2. [job[w] EXCEPT !.pc = "gone", !.found = {}, !.gone = gone, !.refused = refused,
        !.mismatched = mismatched] \in Job
  BY DEF TypeOK, Job
<1> QED BY <1>1, <1>2, BecomeType DEF Answer, TypeOK

LEMMA FaultType == ASSUME TypeOK, NEW f, Fault(f) PROVE faults' \in 0..MaxFaults
  BY RetentionAssumption DEF TypeOK, Fault

LEMMA RecordedType ==
  ASSUME TypeOK, NEW w \in Workers, NEW goes_on \in BOOLEAN,
         NEW error \in {"refused", "mismatch"}, Recorded(w, error, goes_on)
  PROVE  TypeOK'
<1>1. \A m \in Messages, e \in {"refused", "mismatch"} :
        [row[m] EXCEPT !.server_error = e] \in Row /\ row[m] \in Row
  BY DEF TypeOK, Row
<1>2. row' \in [Messages -> Row]
  BY <1>1 DEF Recorded
<1>3. job[w].kind \in {"retry", "sweep", "purge"} /\ job[w].ids \subseteq Messages
  BY DEF TypeOK, Job
<1>4. job' \in [Workers -> Job]
  <2>1. PICK j \in Job : Become(w, j)
    BY <1>3, BeginType DEF Recorded
  <2> QED BY <2>1, BecomeType
<1> QED BY <1>2, <1>4 DEF Recorded, TypeOK

LEMMA StepType ==
  ASSUME TypeOK, NEW w \in Workers, StartSweep(w) \/ StartPurge(w) \/ Step(w)
  PROVE  TypeOK'
<1>0. job[w] \in Job
  BY DEF TypeOK
<1>1. ASSUME NEW j \in Job, Become(w, j), Unchanged PROVE TypeOK'
  BY <1>1, BecomeType DEF Unchanged, TypeOK
<1>2. CASE StartSweep(w)
  BY <1>1, <1>2, BeginType DEF StartSweep, RetryIds
<1>3. CASE StartPurge(w)
  BY <1>1, <1>3, BeginType DEF StartPurge
<1>4. CASE FindDue(w)
  BY <1>1, <1>4, BeginType DEF FindDue
<1>5. CASE Locate(w)
  <2> DEFINE found == {m \in job[w].ids : ~row[m].server_deleted}
  <2>1. \A pc \in {"failed", "delete"} : [job[w] EXCEPT !.found = found, !.pc = pc] \in Job
    BY <1>0 DEF Job
  <2> QED BY <1>1, <1>5, <2>1 DEF Locate
<1>6. CASE Delete(w)
  <2>1. /\ Keep(w) \in SUBSET Messages /\ Absent(w) \cup Keep(w) \in SUBSET Messages
        /\ Mismatched(w) \in SUBSET Messages /\ {} \in SUBSET Messages
    BY <1>0 DEF Keep, Absent, Mismatched, Job
  <2>2. faults' \in 0..MaxFaults
    BY <1>6 DEF Delete, TypeOK
  <2> QED BY <1>6, <2>1, <2>2, AnswerType DEF Delete
<1>7. CASE RecordGone(w)
  <2>1. \A m \in Messages :
          [row[m] EXCEPT !.server_deleted = TRUE, !.server_error = "none"] \in Row /\ row[m] \in Row
    BY DEF TypeOK, Row
  <2>2. row' \in [Messages -> Row]
    BY <1>7, <2>1 DEF RecordGone
  <2>3. [job[w] EXCEPT !.pc = "failed", !.gone = {}] \in Job
    BY <1>0 DEF Job
  <2> QED BY <1>7, <2>2, <2>3, BecomeType DEF RecordGone, TypeOK
<1>8. CASE RecordFailed(w)
  BY <1>8, RecordedType DEF RecordFailed
<1>9. CASE ReadPaths(w)
  <2>1. [job[w] EXCEPT !.pc = "purge", !.paths = {m \in job[w].ids : ~row[m].purged}] \in Job
    BY <1>0 DEF Job
  <2> QED BY <1>1, <1>9, <2>1 DEF ReadPaths
<1>10. CASE Purge(w)
  <2>1. \A m \in Messages :
          [row[m] EXCEPT !.purged = TRUE, !.trashed = TRUE] \in Row /\ row[m] \in Row
    BY DEF TypeOK, Row
  <2>2. row' \in [Messages -> Row]
    BY <1>10, <2>1 DEF Purge
  <2>3. [job[w] EXCEPT !.pc = "unlink"] \in Job
    BY <1>0 DEF Job
  <2> QED BY <1>10, <2>2, <2>3, BecomeType DEF Purge, TypeOK
<1>11. CASE RemoveFiles(w)
  BY <1>11, BeginType, BecomeType DEF RemoveFiles, TypeOK
<1> QED BY <1>2, <1>3, <1>4, <1>5, <1>6, <1>7, <1>8, <1>9, <1>10, <1>11 DEF Step

LEMMA FailureType ==
  ASSUME TypeOK, NEW w \in Workers, Failure(w)
  PROVE  TypeOK'
<1>0. /\ job[w] \in Job /\ job[w].paths \subseteq Messages /\ file \subseteq Messages
      /\ job[w].found \subseteq Messages
  BY DEF TypeOK, Job
<1>1. faults' \in 0..MaxFaults
  BY FaultType DEF Failure, DeleteRefused, DeleteInterrupted, RemoveFilesFails, Abort, RetryFails
<1>2. CASE DeleteRefused(w)
  BY <1>0, <1>1, <1>2, AnswerType DEF DeleteRefused
<1>3. CASE DeleteInterrupted(w)
  <2>1. /\ Keep(w) \in SUBSET Messages /\ Absent(w) \in SUBSET Messages
        /\ Mismatched(w) \in SUBSET Messages
    BY <1>0 DEF Keep, Absent, Mismatched
  <2>2. PICK removed \in SUBSET Keep(w) :
          Answer(w, removed, Absent(w), Keep(w), Mismatched(w))
    BY <1>3 DEF DeleteInterrupted
  <2> QED BY <1>1, <2>1, <2>2, AnswerType
<1>4. CASE RemoveFilesFails(w)
  BY <1>0, <1>1, <1>4, BeginType, BecomeType DEF RemoveFilesFails, TypeOK
<1>5. CASE Abort(w)
  BY <1>0, <1>1, <1>5, BeginType, BecomeType DEF Abort, TypeOK
<1>6. CASE RetryFails(w)
  BY <1>0, <1>1, <1>6, BeginType, BecomeType DEF RetryFails, TypeOK
<1> QED BY <1>2, <1>3, <1>4, <1>5, <1>6 DEF Failure

LEMMA TypeStep == TypeOK /\ [Next]_vars => TypeOK'
<1> SUFFICES ASSUME TypeOK, [Next]_vars PROVE TypeOK'
  OBVIOUS
<1>1. CASE User
  BY <1>1, UserType
<1>2. CASE Tick
  BY <1>2, RetentionAssumption DEF Tick, TypeOK
<1>3. CASE Renumbering
  <2>1. PICK m \in Messages : Renumber(m)
    BY <1>3 DEF Renumbering
  <2>2. copy' \in [Messages -> Copy]
    BY <2>1 DEF Renumber, TypeOK, Copy
  <2>3. faults' \in 0..MaxFaults
    BY <2>1, FaultType DEF Renumber
  <2> QED BY <2>1, <2>2, <2>3 DEF Renumber, TypeOK
<1>4. CASE Working
  BY <1>4, StepType, FailureType DEF Working
<1>5. CASE UNCHANGED vars
  BY <1>5 DEF vars, TypeOK
<1> QED BY <1>1, <1>2, <1>3, <1>4, <1>5 DEF Next

\* Every variable keeps its type, whatever the messages, purgers and faults.
THEOREM TypeCorrect == Spec => []TypeOK
<1>1. Init => TypeOK
  BY TypeInit
<1>2. TypeOK /\ [Next]_vars => TypeOK'
  BY TypeStep
<1> QED BY <1>1, <1>2, PTL DEF Spec

-----------------------------------------------------------------------------
(* What the provider still has is remembered.                             *)

LEMMA Becoming ==
  ASSUME TypeOK, NEW w \in Workers, NEW j, Become(w, j)
  PROVE  job'[w] = j /\ \A v \in Workers \ {w} : job'[v] = job[v]
  BY DEF TypeOK, Become

\* What each step does to the provider's side and to what a row says of it.
LEMMA AnswerCopy ==
  ASSUME TypeOK, NEW w \in Workers, NEW removed, NEW gone, NEW refused, NEW mismatched,
         Answer(w, removed, gone, refused, mismatched)
  PROVE  /\ \A m \in Messages : StillAtUid(m)' => StillAtUid(m) /\ m \notin removed
         /\ row' = row
         /\ job'[w] = [job[w] EXCEPT !.pc = "gone", !.found = {}, !.gone = gone,
                         !.refused = refused, !.mismatched = mismatched]
         /\ \A v \in Workers \ {w} : job'[v] = job[v]
<1>1. \A m \in Messages : StillAtUid(m)' => StillAtUid(m) /\ m \notin removed
  BY DEF Answer, Removed, StillAtUid
<1>2. row' = row
  BY DEF Answer
<1>3. Become(w, [job[w] EXCEPT !.pc = "gone", !.found = {}, !.gone = gone,
                   !.refused = refused, !.mismatched = mismatched])
  BY DEF Answer
<1> QED BY <1>1, <1>2, <1>3, Becoming

LEMMA UserCopy ==
  ASSUME TypeOK, User
  PROVE  /\ \A m \in Messages :
              /\ row'[m].server_error = row[m].server_error
              /\ row'[m].server_deleted = row[m].server_deleted
              /\ row'[m].purged = row[m].purged
         /\ UNCHANGED <<copy, job, file, orphaned>>
<1>1. PICK m \in Messages : Trash(m) \/ Restore(m) \/ Archive(m) \/ Label(m)
  BY DEF User
<1>2. ASSUME NEW r \in Row, UserMove(m, r), r.server_error = row[m].server_error,
             r.server_deleted = row[m].server_deleted, r.purged = row[m].purged
      PROVE  /\ \A x \in Messages :
                  /\ row'[x].server_error = row[x].server_error
                  /\ row'[x].server_deleted = row[x].server_deleted
                  /\ row'[x].purged = row[x].purged
             /\ UNCHANGED <<copy, job, file, orphaned>>
  BY <1>2 DEF UserMove, TypeOK
<1>3. row[m] \in Row /\ now \in 0..MaxDay
  BY DEF TypeOK
<1>4. CASE Trash(m)
  <2> DEFINE r == [row[m] EXCEPT !.trashed = TRUE, !.trashed_at = IF @ = None THEN now ELSE @]
  <2>1. /\ r \in Row /\ r.server_error = row[m].server_error
        /\ r.server_deleted = row[m].server_deleted /\ r.purged = row[m].purged
    BY <1>3 DEF Row
  <2> QED BY <1>2, <1>4, <2>1 DEF Trash
<1>5. CASE Restore(m)
  <2> DEFINE r == [row[m] EXCEPT !.trashed = FALSE, !.trashed_at = None]
  <2>1. /\ r \in Row /\ r.server_error = row[m].server_error
        /\ r.server_deleted = row[m].server_deleted /\ r.purged = row[m].purged
    BY <1>3 DEF Row
  <2> QED BY <1>2, <1>5, <2>1 DEF Restore
<1>6. CASE Archive(m)
  <2> DEFINE r == [row[m] EXCEPT !.trashed = FALSE]
  <2>1. /\ r \in Row /\ r.server_error = row[m].server_error
        /\ r.server_deleted = row[m].server_deleted /\ r.purged = row[m].purged
    BY <1>3 DEF Row
  <2> QED BY <1>2, <1>6, <2>1 DEF Archive
<1>7. CASE Label(m)
  <2>1. PICK spam \in BOOLEAN : UserMove(m, [row[m] EXCEPT !.spam = spam])
    BY <1>7 DEF Label
  <2> DEFINE r == [row[m] EXCEPT !.spam = spam]
  <2>2. /\ r \in Row /\ r.server_error = row[m].server_error
        /\ r.server_deleted = row[m].server_deleted /\ r.purged = row[m].purged
    BY <1>3 DEF Row
  <2> QED BY <1>2, <2>1, <2>2
<1> QED BY <1>1, <1>4, <1>5, <1>6, <1>7

\* Whoever did not act still knows what it knew, if mails do not come back and
\* what is remembered stays so.
LEMMA KnowledgeStays ==
  ASSUME TypeOK, NEW v \in Workers, Learnt(v), job'[v] = job[v],
         \A m \in Messages : StillAtUid(m)' => StillAtUid(m),
         \A m \in Messages : Remembered(m) => Remembered(m)'
  PROVE  Learnt(v)'
<1>1. /\ job[v].ids \subseteq Messages /\ job[v].gone \subseteq Messages
      /\ job[v].mismatched \subseteq Messages
  BY DEF TypeOK, Job
<1> QED BY <1>1 DEF Learnt

\* A step that changes no row's mind about the server, and of which only worker w
\* could have learnt anything.
LEMMA QuietStep ==
  ASSUME CopyInv, TypeOK',
         \A m \in Messages : StillAtUid(m)' => StillAtUid(m),
         \A m \in Messages :
           /\ row'[m].server_error = row[m].server_error
           /\ row'[m].server_deleted = row[m].server_deleted
           /\ row'[m].purged => row[m].purged,
         NEW W \in SUBSET Workers,
         \A v \in Workers \ W : job'[v] = job[v],
         \A v \in W : Learnt(v)'
  PROVE  CopyInv'
<1>1. \A m \in Messages : Remembered(m) => Remembered(m)'
  BY DEF Remembered
<1>2. JobsLearnt'
  BY <1>1, KnowledgeStays DEF CopyInv, JobsLearnt
<1>3. Recalled' /\ DeletedMeansGone'
  BY <1>1 DEF CopyInv, Recalled, DeletedMeansGone
<1> QED BY <1>2, <1>3 DEF CopyInv

LEMMA CopyUser == CopyInv /\ User /\ TypeOK' => CopyInv'
<1> SUFFICES ASSUME CopyInv, User, TypeOK' PROVE CopyInv'
  OBVIOUS
<1>1. TypeOK
  BY DEF CopyInv
<1>2. \A m \in Messages : StillAtUid(m)' => StillAtUid(m)
  BY <1>1, UserCopy DEF StillAtUid
<1>3. \A m \in Messages :
        /\ row'[m].server_error = row[m].server_error
        /\ row'[m].server_deleted = row[m].server_deleted
        /\ row'[m].purged => row[m].purged
  BY <1>1, UserCopy
<1>4. /\ {} \in SUBSET Workers
      /\ \A v \in Workers \ {} : job'[v] = job[v]
      /\ \A v \in {} : Learnt(v)'
  BY <1>1, UserCopy
<1> QED BY <1>2, <1>3, <1>4, QuietStep

\* A worker that takes up a job, or goes on in one, writing no row and without
\* a word with the server.
LEMMA CopyBecome ==
  ASSUME CopyInv, TypeOK', NEW w \in Workers, job'[w] # job[w] => Learnt(w)',
         \A v \in Workers \ {w} : job'[v] = job[v],
         row' = row, copy' = copy
  PROVE  CopyInv'
<1>1. \A m \in Messages : StillAtUid(m)' => StillAtUid(m)
  BY DEF StillAtUid
<1>2. Learnt(w)'
  <2>1. \A m \in Messages : Remembered(m) => Remembered(m)'
    BY DEF Remembered, StillAtUid
  <2>2. Learnt(w) /\ TypeOK
    BY DEF CopyInv, JobsLearnt
  <2> QED BY <1>1, <2>1, <2>2, KnowledgeStays
<1>3. /\ \A v \in Workers \ {w} : job'[v] = job[v]
      /\ \A v \in {w} : Learnt(v)'
  BY <1>2
<1>4. {w} \in SUBSET Workers
  OBVIOUS
<1> QED BY <1>1, <1>3, <1>4, QuietStep

\* A fresh job knows nothing yet, and claims nothing.
LEMMA FreshJob ==
  ASSUME NEW w \in Workers, NEW pc \in {"idle", "due", "locate"}, NEW kind, NEW ids,
         job'[w] = Begin(pc, kind, ids)
  PROVE  Learnt(w)'
  BY DEF Begin, Learnt

LEMMA CopyAnswer ==
  ASSUME CopyInv, TypeOK', NEW w \in Workers, At(w, "delete"),
         NEW removed, NEW gone, NEW refused, NEW mismatched,
         Answer(w, removed, gone, refused, mismatched),
         \A m \in job[w].found \ refused : m \in removed \/ ~StillAtUid(m),
         \A m \in gone \cup mismatched : m \in removed \/ ~StillAtUid(m),
         gone \cup mismatched \subseteq Messages
  PROVE  CopyInv'
<1>1. TypeOK /\ Learnt(w) /\ job[w] \in Job
  BY DEF CopyInv, JobsLearnt, TypeOK
<1>2. /\ \A m \in Messages : StillAtUid(m)' => StillAtUid(m) /\ m \notin removed
      /\ row' = row
      /\ job'[w] = [job[w] EXCEPT !.pc = "gone", !.found = {}, !.gone = gone,
                      !.refused = refused, !.mismatched = mismatched]
      /\ \A v \in Workers \ {w} : job'[v] = job[v]
  BY <1>1, AnswerCopy
<1>3. /\ job'[w].pc = "gone" /\ job'[w].ids = job[w].ids /\ job'[w].gone = gone
      /\ job'[w].refused = refused /\ job'[w].mismatched = mismatched
  BY <1>1, <1>2 DEF Job
<1>4. \A m \in job[w].ids \ refused : ~StillAtUid(m)'
  <2>1. job[w].ids \subseteq Messages
    BY <1>1 DEF Job
  <2>2. \A m \in job[w].ids \ job[w].found : ~StillAtUid(m)
    BY <1>1 DEF Learnt, At
  <2> QED BY <1>2, <2>1, <2>2
<1>5. \A m \in gone \cup mismatched : ~StillAtUid(m)'
  BY <1>2
<1>6. Learnt(w)'
  BY <1>3, <1>4, <1>5 DEF Learnt
<1>7. /\ \A m \in Messages : StillAtUid(m)' => StillAtUid(m)
      /\ \A v \in {w} : Learnt(v)'
      /\ {w} \in SUBSET Workers
  BY <1>2, <1>6
<1> QED BY <1>2, <1>7, QuietStep

LEMMA CopyDelete ==
  ASSUME CopyInv, TypeOK', NEW w \in Workers,
         Delete(w) \/ DeleteRefused(w) \/ DeleteInterrupted(w)
  PROVE  CopyInv'
<1>1. /\ job[w].found \subseteq Messages
      /\ \A m \in Messages : copy[m].uid \in {"ours", "other", "nothing"}
  BY DEF CopyInv, TypeOK, Job, Copy
<1>2. /\ Keep(w) \subseteq job[w].found /\ Absent(w) \subseteq job[w].found
      /\ Mismatched(w) \subseteq job[w].found
      /\ job[w].found = Keep(w) \cup Absent(w) \cup Mismatched(w)
      /\ \A m \in Absent(w) \cup Mismatched(w) : ~StillAtUid(m)
  BY <1>1 DEF Keep, Absent, Mismatched, StillAtUid
<1>3. CASE Delete(w)
  BY <1>1, <1>2, <1>3, CopyAnswer DEF Delete
<1>4. CASE DeleteRefused(w)
  BY <1>1, <1>2, <1>4, CopyAnswer DEF DeleteRefused
<1>5. CASE DeleteInterrupted(w)
  BY <1>1, <1>2, <1>5, CopyAnswer DEF DeleteInterrupted
<1> QED BY <1>3, <1>4, <1>5

LEMMA CopyRecordGone ==
  ASSUME CopyInv, TypeOK', NEW w \in Workers, RecordGone(w)
  PROVE  CopyInv'
<1>1. TypeOK /\ Learnt(w) /\ job[w] \in Job
  BY DEF CopyInv, JobsLearnt, TypeOK
<1>2. /\ job'[w] = [job[w] EXCEPT !.pc = "failed", !.gone = {}]
      /\ \A v \in Workers \ {w} : job'[v] = job[v]
  BY <1>1, Becoming DEF RecordGone
<1>3. \A m \in Messages :
        /\ row'[m].purged = row[m].purged
        /\ m \notin job[w].gone => row'[m] = row[m]
  <2>1. \A m \in Messages :
          LET r == [row[m] EXCEPT !.server_deleted = TRUE, !.server_error = "none"]
          IN  r.purged = row[m].purged
    BY <1>1 DEF TypeOK, Row
  <2> QED BY <2>1 DEF RecordGone
<1>4. \A m \in Messages : StillAtUid(m)' = StillAtUid(m)
  BY DEF RecordGone, StillAtUid
<1>5. \A m \in job[w].gone : ~StillAtUid(m)
  BY <1>1 DEF RecordGone, At, Learnt
<1>6. \A m \in Messages : Remembered(m) => Remembered(m)'
  BY <1>3, <1>4, <1>5 DEF Remembered
<1>7. Learnt(w)'
  <2>1. /\ job'[w].pc = "failed" /\ job'[w].ids = job[w].ids /\ job'[w].gone = {}
        /\ job'[w].refused = job[w].refused /\ job'[w].mismatched = job[w].mismatched
        /\ job[w].ids \subseteq Messages /\ job[w].mismatched \subseteq Messages
    BY <1>1, <1>2 DEF Job
  <2> QED BY <1>1, <1>4, <2>1 DEF Learnt, RecordGone, At
<1>8. JobsLearnt'
  BY <1>1, <1>2, <1>4, <1>6, <1>7, KnowledgeStays DEF CopyInv, JobsLearnt
<1>9. Recalled' /\ DeletedMeansGone'
  BY <1>3, <1>4, <1>5, <1>6 DEF CopyInv, Recalled, DeletedMeansGone
<1> QED BY <1>8, <1>9 DEF CopyInv

LEMMA CopyRecordFailed ==
  ASSUME CopyInv, TypeOK', NEW w \in Workers, RecordFailed(w)
  PROVE  CopyInv'
<1>1. TypeOK /\ Learnt(w) /\ job[w] \in Job
  BY DEF CopyInv, JobsLearnt, TypeOK
<1>2. /\ \A v \in Workers \ {w} : job'[v] = job[v]
      /\ \/ job'[w] = Begin("due", "sweep", {})
         \/ job'[w] = Begin("paths", job[w].kind, job[w].ids)
  BY <1>1, Becoming DEF RecordFailed, Recorded
<1>3. \A m \in Messages :
        /\ row'[m].purged = row[m].purged /\ row'[m].server_deleted = row[m].server_deleted
        /\ m \in job[w].refused => row'[m].server_error = "refused"
        /\ m \notin job[w].refused \cup job[w].mismatched => row'[m] = row[m]
  BY <1>1 DEF RecordFailed, Recorded, TypeOK, Row
<1>4. \A m \in Messages : StillAtUid(m)' = StillAtUid(m)
  BY DEF RecordFailed, Recorded, StillAtUid
<1>5. /\ \A m \in job[w].mismatched : ~StillAtUid(m)
      /\ \A m \in job[w].ids \ job[w].refused : ~StillAtUid(m)
      /\ job[w].ids \subseteq Messages
  BY <1>1 DEF RecordFailed, Recorded, At, Learnt, Job
<1>6. \A m \in Messages : Remembered(m) => Remembered(m)'
  BY <1>3, <1>4, <1>5 DEF Remembered
<1>7. \A m \in job[w].ids : Remembered(m)'
  BY <1>3, <1>4, <1>5 DEF Remembered
<1>8. Learnt(w)'
  BY <1>2, <1>7 DEF Learnt, Begin
<1>9. JobsLearnt'
  BY <1>1, <1>2, <1>4, <1>6, <1>8, KnowledgeStays DEF CopyInv, JobsLearnt
<1>10. Recalled' /\ DeletedMeansGone'
  BY <1>3, <1>4, <1>6 DEF CopyInv, Recalled, DeletedMeansGone
<1> QED BY <1>9, <1>10 DEF CopyInv

LEMMA CopyPurge ==
  ASSUME CopyInv, TypeOK', NEW w \in Workers, Purge(w)
  PROVE  CopyInv'
<1>1. TypeOK /\ Learnt(w) /\ job[w] \in Job
  BY DEF CopyInv, JobsLearnt, TypeOK
<1>2. /\ job'[w] = [job[w] EXCEPT !.pc = "unlink"]
      /\ \A v \in Workers \ {w} : job'[v] = job[v]
  BY <1>1, Becoming DEF Purge
<1>3. \A m \in Messages :
        /\ row'[m].server_deleted = row[m].server_deleted
        /\ row'[m].server_error = row[m].server_error
        /\ row'[m].purged => row[m].purged \/ m \in job[w].ids
  <2>1. \A m \in Messages :
          LET r == [row[m] EXCEPT !.purged = TRUE, !.trashed = TRUE]
          IN  r.server_deleted = row[m].server_deleted /\ r.server_error = row[m].server_error
    BY <1>1 DEF TypeOK, Row
  <2> QED BY <2>1 DEF Purge
<1>4. \A m \in Messages : StillAtUid(m)' = StillAtUid(m)
  BY DEF Purge, StillAtUid
<1>5. \A m \in Messages : Remembered(m)' = Remembered(m)
  BY <1>3, <1>4 DEF Remembered
<1>6. \A m \in job[w].ids : Remembered(m)
  BY <1>1 DEF Purge, At, Learnt
<1>7. Learnt(w)'
  BY <1>1, <1>2 DEF Learnt, Job
<1>8. JobsLearnt'
  BY <1>1, <1>2, <1>4, <1>5, <1>7, KnowledgeStays DEF CopyInv, JobsLearnt
<1>9. Recalled' /\ DeletedMeansGone'
  BY <1>3, <1>4, <1>5, <1>6 DEF CopyInv, Recalled, DeletedMeansGone
<1> QED BY <1>8, <1>9 DEF CopyInv

LEMMA CopyStep ==
  ASSUME CopyInv, TypeOK', NEW w \in Workers, StartSweep(w) \/ StartPurge(w) \/ Step(w)
  PROVE  CopyInv'
<1>1. TypeOK /\ Learnt(w) /\ job[w] \in Job
  BY DEF CopyInv, JobsLearnt, TypeOK
<1>2. ASSUME NEW j, Become(w, j), row' = row, copy' = copy, job'[w] = j => Learnt(w)'
      PROVE  CopyInv'
  BY <1>1, <1>2, Becoming, CopyBecome
<1>3. ASSUME NEW pc \in {"idle", "due", "locate"}, NEW kind, NEW ids,
             Become(w, Begin(pc, kind, ids)), row' = row, copy' = copy
      PROVE  CopyInv'
  BY <1>2, <1>3, FreshJob
<1>4. CASE StartSweep(w)
  BY <1>3, <1>4 DEF StartSweep, Unchanged
<1>5. CASE StartPurge(w)
  BY <1>3, <1>5 DEF StartPurge, Unchanged
<1>6. CASE FindDue(w)
  BY <1>3, <1>6 DEF FindDue, Unchanged, Idle
<1>7. CASE Locate(w)
  <2> DEFINE found == {m \in job[w].ids : ~row[m].server_deleted}
             j == [job[w] EXCEPT !.found = found, !.pc = IF found = {} THEN "failed" ELSE "delete"]
  <2>1. Become(w, j) /\ row' = row /\ copy' = copy
    BY <1>7 DEF Locate, Unchanged
  <2>2. \A m \in job[w].ids \ found : ~StillAtUid(m)'
    BY <1>1, <2>1 DEF CopyInv, DeletedMeansGone, StillAtUid, Job
  <2>3. /\ j.pc = IF found = {} THEN "failed" ELSE "delete"
        /\ j.ids = job[w].ids /\ j.found = found
        /\ j.gone = job[w].gone /\ j.mismatched = job[w].mismatched
    BY <1>1 DEF Job
  <2>4. job[w].gone \cup job[w].mismatched = {}
    BY <1>1, <1>7 DEF Locate, At, Learnt
  <2>5. job'[w] = j => Learnt(w)'
    BY <2>2, <2>3, <2>4 DEF Learnt
  <2> QED BY <1>2, <2>1, <2>5
<1>8. CASE Delete(w)
  BY <1>8, CopyDelete
<1>9. CASE RecordGone(w)
  BY <1>9, CopyRecordGone
<1>10. CASE RecordFailed(w)
  BY <1>10, CopyRecordFailed
<1>11. CASE ReadPaths(w)
  <2> DEFINE j == [job[w] EXCEPT !.pc = "purge", !.paths = {m \in job[w].ids : ~row[m].purged}]
  <2>1. Become(w, j) /\ row' = row /\ copy' = copy
    BY <1>11 DEF ReadPaths, Unchanged
  <2>2. j.pc = "purge" /\ j.ids = job[w].ids
    BY <1>1 DEF Job
  <2>3. \A m \in job[w].ids : Remembered(m)'
    BY <1>1, <1>11, <2>1 DEF ReadPaths, At, Learnt, Remembered, StillAtUid
  <2>4. job'[w] = j => Learnt(w)'
    BY <2>2, <2>3 DEF Learnt
  <2> QED BY <1>2, <2>1, <2>4
<1>12. CASE Purge(w)
  BY <1>12, CopyPurge
<1>13. CASE RemoveFiles(w)
  BY <1>3, <1>13 DEF RemoveFiles, Idle
<1> QED BY <1>4, <1>5, <1>6, <1>7, <1>8, <1>9, <1>10, <1>11, <1>12, <1>13 DEF Step

LEMMA CopyFailure ==
  ASSUME CopyInv, TypeOK', NEW w \in Workers, Failure(w)
  PROVE  CopyInv'
<1>1. ASSUME NEW pc \in {"idle", "due", "locate"}, NEW kind, NEW ids,
             Become(w, Begin(pc, kind, ids)), row' = row, copy' = copy
      PROVE  CopyInv'
  <2>1. TypeOK
    BY DEF CopyInv
  <2> QED BY <1>1, <2>1, Becoming, FreshJob, CopyBecome
<1>2. CASE DeleteRefused(w) \/ DeleteInterrupted(w)
  BY <1>2, CopyDelete
<1>3. CASE RemoveFilesFails(w)
  BY <1>1, <1>3 DEF RemoveFilesFails, Idle
<1>4. CASE Abort(w)
  BY <1>1, <1>4 DEF Abort, Idle
<1>5. CASE RetryFails(w)
  BY <1>1, <1>5 DEF RetryFails
<1> QED BY <1>2, <1>3, <1>4, <1>5 DEF Failure

LEMMA CopyInductive == CopyInv /\ [Next]_vars => CopyInv'
<1> SUFFICES ASSUME CopyInv, [Next]_vars PROVE CopyInv'
  OBVIOUS
<1>1. TypeOK /\ TypeOK'
  BY TypeStep DEF CopyInv
<1>2. CASE User
  BY <1>1, <1>2, CopyUser
<1>3. CASE Tick \/ Renumbering
  <2>1. /\ row' = row /\ job' = job
        /\ \A m \in Messages : StillAtUid(m)' => StillAtUid(m)
    BY <1>1, <1>3 DEF Tick, Renumbering, Renumber, StillAtUid, TypeOK, Copy
  <2>2. /\ {} \in SUBSET Workers
        /\ \A v \in Workers \ {} : job'[v] = job[v]
        /\ \A v \in {} : Learnt(v)'
    BY <2>1
  <2> QED BY <1>1, <2>1, <2>2, QuietStep
<1>4. CASE Working
  BY <1>1, <1>4, CopyStep, CopyFailure DEF Working
<1>5. CASE UNCHANGED vars
  BY <1>1, <1>5 DEF vars, CopyInv, TypeOK, DeletedMeansGone, JobsLearnt, Learnt, Recalled,
     Remembered, StillAtUid
<1> QED BY <1>2, <1>3, <1>4, <1>5 DEF Next

LEMMA CopyInit == Init => CopyInv
<1> SUFFICES ASSUME Init PROVE CopyInv
  OBVIOUS
<1>1. TypeOK
  BY TypeInit
<1>2. DeletedMeansGone /\ Recalled
  BY DEF Init, DeletedMeansGone, Recalled
<1>3. JobsLearnt
  BY DEF Init, Idle, Begin, JobsLearnt, Learnt
<1> QED BY <1>1, <1>2, <1>3 DEF CopyInv

LEMMA CopyAlways == Spec => []CopyInv
  BY CopyInit, CopyInductive, PTL DEF Spec

\* A copy recorded as deleted is not standing at its UID: whatever mixture of
\* answers, broken connections and aborted purges led to the record.
THEOREM DeletedCopyIsGone == Spec => []DeletedMeansGone
<1>1. CopyInv => DeletedMeansGone
  BY DEF CopyInv
<1> QED BY <1>1, CopyAlways, PTL

\* No shredded message's mail is left at the provider without an error that the
\* next sweep retries.
THEOREM NoCopyForgotten == Spec => []CopyRemembered
<1>1. CopyInv => CopyRemembered
  <2> SUFFICES ASSUME CopyInv, NEW m \in Messages, row[m].purged, StillAtUid(m)
               PROVE  m \in RetryIds
    BY DEF CopyRemembered
  <2>1. row[m].server_error = "refused"
    BY DEF CopyInv, Recalled, Remembered
  <2>2. ~row[m].server_deleted
    BY DEF CopyInv, DeletedMeansGone, TypeOK, Row
  <2> QED BY <2>1, <2>2 DEF RetryIds
<1> QED BY <1>1, CopyAlways, PTL

-----------------------------------------------------------------------------
(* The files of a shredded message.                                       *)

\* A worker that does not come to the local half, while rows and files stay.
LEMMA FilesUntouched ==
  ASSUME FileInv, TypeOK', NEW w \in Workers,
         job[w].pc # "unlink" \/ job'[w] = job[w],
         job'[w] = job[w] \/ job'[w].pc \notin {"paths", "purge", "unlink"},
         \A v \in Workers \ {w} : job'[v] = job[v],
         \A m \in Messages : row'[m].purged = row[m].purged,
         file' = file, orphaned \subseteq orphaned'
  PROVE  FileInv'
<1>1. RetriesKeepRows' /\ PathsRead'
  <2>1. \A v \in Workers : job[v].ids \subseteq Messages
    BY DEF FileInv, TypeOK, Job
  <2> QED BY <2>1 DEF FileInv, RetriesKeepRows, PathsRead
<1>2. FilesHeld'
  <2>1. file \subseteq Messages
    BY DEF FileInv, TypeOK
  <2> QED BY <2>1 DEF FileInv, FilesHeld
<1> QED BY <1>1, <1>2 DEF FileInv

LEMMA FileLocal ==
  ASSUME FileInv, TypeOK', NEW w \in Workers,
         ReadPaths(w) \/ Purge(w) \/ RemoveFiles(w) \/ RemoveFilesFails(w)
  PROVE  FileInv'
<1>0. /\ TypeOK /\ job[w] \in Job /\ file \subseteq Messages
      /\ \A v \in Workers : job[v].ids \subseteq Messages
      /\ RetriesKeepRows /\ PathsRead /\ FilesHeld
  BY DEF FileInv, TypeOK, Job
<1>1. CASE ReadPaths(w)
  <2> DEFINE read == {m \in job[w].ids : ~row[m].purged}
             j == [job[w] EXCEPT !.pc = "purge", !.paths = read]
  <2>1. job'[w] = j /\ \A v \in Workers \ {w} : job'[v] = job[v]
    BY <1>0, <1>1, Becoming DEF ReadPaths
  <2>2. j.pc = "purge" /\ j.kind = job[w].kind /\ j.ids = job[w].ids /\ j.paths = read
    BY <1>0 DEF Job
  <2>3. row' = row /\ file' = file /\ orphaned' = orphaned /\ job[w].pc = "paths"
    BY <1>1 DEF ReadPaths, Unchanged, At
  <2>4. RetriesKeepRows' /\ PathsRead'
    BY <1>0, <2>1, <2>2, <2>3 DEF RetriesKeepRows, PathsRead
  <2>5. FilesHeld'
    BY <1>0, <2>1, <2>3 DEF FilesHeld
  <2> QED BY <2>4, <2>5 DEF FileInv
<1>2. CASE Purge(w)
  <2>1. /\ job'[w] = [job[w] EXCEPT !.pc = "unlink"]
        /\ \A v \in Workers \ {w} : job'[v] = job[v]
    BY <1>0, <1>2, Becoming DEF Purge
  <2>2. /\ job'[w].pc = "unlink" /\ job'[w].kind = job[w].kind
        /\ job'[w].paths = job[w].paths /\ job[w].pc = "purge"
    BY <1>0, <1>2, <2>1 DEF Job, Purge, At
  <2>3. \A m \in Messages :
          /\ row[m].purged => row'[m].purged
          /\ row'[m].purged => row[m].purged \/ (m \in job[w].ids /\ ~row[m].purged)
    <3>1. \A m \in Messages : [row[m] EXCEPT !.purged = TRUE, !.trashed = TRUE].purged
      BY <1>0 DEF TypeOK, Row
    <3> QED BY <1>2, <3>1 DEF Purge
  <2>4. file' = file /\ orphaned' = orphaned
    BY <1>2 DEF Purge
  <2>5. RetriesKeepRows' /\ PathsRead'
    BY <1>0, <2>1, <2>2, <2>3 DEF RetriesKeepRows, PathsRead
  <2>6. FilesHeld'
    <3> SUFFICES ASSUME NEW m \in file, row'[m].purged, m \notin orphaned
                 PROVE  \E v \in Workers : job'[v].pc = "unlink" /\ m \in job'[v].paths
      BY <2>4 DEF FilesHeld
    <3>1. CASE row[m].purged
      BY <1>0, <2>1, <2>2, <3>1 DEF FilesHeld
    <3>2. CASE ~row[m].purged
      BY <1>0, <2>2, <2>3, <3>2 DEF PathsRead
    <3> QED BY <3>1, <3>2
  <2> QED BY <2>5, <2>6 DEF FileInv
<1>3. CASE RemoveFiles(w) \/ RemoveFilesFails(w)
  <2>1. Become(w, Idle) /\ row' = row /\ job[w].pc = "unlink"
    BY <1>3 DEF RemoveFiles, RemoveFilesFails, At
  <2>2. job'[w].pc = "idle" /\ \A v \in Workers \ {w} : job'[v] = job[v]
    BY <1>0, <2>1, Becoming DEF Idle, Begin
  <2>3. /\ file' \subseteq file /\ orphaned \subseteq orphaned'
        /\ \A m \in file' : m \in job[w].paths => m \in orphaned'
    BY <1>3 DEF RemoveFiles, RemoveFilesFails
  <2>4. RetriesKeepRows' /\ PathsRead'
    BY <1>0, <2>1, <2>2 DEF RetriesKeepRows, PathsRead
  <2>5. FilesHeld'
    BY <1>0, <2>1, <2>2, <2>3 DEF FilesHeld
  <2> QED BY <2>4, <2>5 DEF FileInv
<1> QED BY <1>1, <1>2, <1>3

LEMMA FileElsewhere ==
  ASSUME FileInv, TypeOK', NEW w \in Workers,
         \/ StartSweep(w) \/ StartPurge(w) \/ FindDue(w) \/ Locate(w) \/ RecordGone(w)
         \/ Delete(w) \/ DeleteRefused(w) \/ DeleteInterrupted(w)
  PROVE  FileInv'
<1>0. TypeOK /\ job[w] \in Job
  BY DEF FileInv, TypeOK
<1>1. /\ \A m \in Messages : row'[m].purged = row[m].purged
      /\ file' = file /\ orphaned' = orphaned /\ job[w].pc # "unlink"
  <2>1. CASE RecordGone(w)
    <3>1. \A m \in Messages :
            [row[m] EXCEPT !.server_deleted = TRUE, !.server_error = "none"].purged = row[m].purged
      BY <1>0 DEF TypeOK, Row
    <3> QED BY <2>1, <3>1 DEF RecordGone, At
  <2>2. CASE StartSweep(w) \/ StartPurge(w) \/ FindDue(w) \/ Locate(w)
    BY <2>2 DEF StartSweep, StartPurge, FindDue, Locate, Unchanged, At
  <2>3. CASE Delete(w) \/ DeleteRefused(w) \/ DeleteInterrupted(w)
    BY <2>3 DEF Delete, DeleteRefused, DeleteInterrupted, Answer, At
  <2> QED BY <2>1, <2>2, <2>3
<1>2. PICK j : Become(w, j) /\ j.pc \notin {"paths", "purge", "unlink"}
  <2>1. CASE StartSweep(w) \/ StartPurge(w) \/ FindDue(w)
    <3>1. ASSUME NEW pc \in {"idle", "due", "locate"}, NEW kind, NEW ids,
                 Become(w, Begin(pc, kind, ids))
          PROVE  \E j : Become(w, j) /\ j.pc \notin {"paths", "purge", "unlink"}
      <4>1. Begin(pc, kind, ids).pc = pc
        BY DEF Begin
      <4> QED BY <3>1, <4>1
    <3>2. CASE StartSweep(w)
      BY <3>1, <3>2 DEF StartSweep
    <3>3. CASE StartPurge(w)
      BY <3>1, <3>3 DEF StartPurge
    <3>4. CASE FindDue(w)
      BY <3>1, <3>4 DEF FindDue, Idle
    <3> QED BY <2>1, <3>2, <3>3, <3>4
  <2>2. CASE Locate(w)
    <3> DEFINE found == {m \in job[w].ids : ~row[m].server_deleted}
               j == [job[w] EXCEPT !.found = found,
                       !.pc = IF found = {} THEN "failed" ELSE "delete"]
    <3>1. Become(w, j) /\ j.pc \in {"failed", "delete"}
      BY <1>0, <2>2 DEF Locate, Job
    <3> QED BY <3>1
  <2>3. CASE RecordGone(w)
    <3>1. [job[w] EXCEPT !.pc = "failed", !.gone = {}].pc = "failed"
      BY <1>0 DEF Job
    <3> QED BY <2>3, <3>1 DEF RecordGone
  <2>4. CASE Delete(w) \/ DeleteRefused(w) \/ DeleteInterrupted(w)
    <3>1. \A gone, refused, mismatched :
            [job[w] EXCEPT !.pc = "gone", !.found = {}, !.gone = gone, !.refused = refused,
               !.mismatched = mismatched].pc = "gone"
      BY <1>0 DEF Job
    <3> QED BY <2>4, <3>1 DEF Delete, DeleteRefused, DeleteInterrupted, Answer
  <2> QED BY <2>1, <2>2, <2>3, <2>4
<1>3. job'[w] = j /\ \A v \in Workers \ {w} : job'[v] = job[v]
  BY <1>0, <1>2, Becoming
<1> QED BY <1>1, <1>2, <1>3, FilesUntouched

LEMMA FileRecordFailed ==
  ASSUME FileInv, TypeOK', NEW w \in Workers, RecordFailed(w)
  PROVE  FileInv'
<1>0. /\ TypeOK /\ job[w] \in Job /\ file \subseteq Messages
      /\ \A v \in Workers : job[v].ids \subseteq Messages
      /\ RetriesKeepRows /\ PathsRead /\ FilesHeld
  BY DEF FileInv, TypeOK, Job
<1>1. /\ \A v \in Workers \ {w} : job'[v] = job[v]
      /\ \/ job'[w].pc = "due"
         \/ job'[w].pc = "paths" /\ job'[w].kind # "retry"
  BY <1>0, Becoming DEF RecordFailed, Recorded, Begin
<1>2. /\ \A m \in Messages : row'[m].purged = row[m].purged
      /\ file' = file /\ orphaned' = orphaned /\ job[w].pc = "failed"
  <2>1. \A m \in Messages, e \in {"refused", "mismatch"} :
          [row[m] EXCEPT !.server_error = e].purged = row[m].purged
    BY <1>0 DEF TypeOK, Row
  <2> QED BY <2>1 DEF RecordFailed, Recorded, At
<1>3. RetriesKeepRows' /\ PathsRead'
  BY <1>0, <1>1, <1>2 DEF RetriesKeepRows, PathsRead
<1>4. FilesHeld'
  BY <1>0, <1>1, <1>2 DEF FilesHeld
<1> QED BY <1>3, <1>4 DEF FileInv

LEMMA FileStops ==
  ASSUME FileInv, TypeOK', NEW w \in Workers, Abort(w) \/ RetryFails(w)
  PROVE  FileInv'
<1>0. /\ TypeOK /\ job[w] \in Job /\ file \subseteq Messages
      /\ \A v \in Workers : job[v].ids \subseteq Messages
      /\ RetriesKeepRows /\ PathsRead /\ FilesHeld
  BY DEF FileInv, TypeOK, Job
<1>1. /\ job'[w].pc \in {"idle", "due"}
      /\ \A v \in Workers \ {w} : job'[v] = job[v]
      /\ row' = row /\ file' = file
  BY <1>0, Becoming DEF Abort, RetryFails, Idle, Begin
<1>2. RetriesKeepRows' /\ PathsRead'
  BY <1>0, <1>1 DEF RetriesKeepRows, PathsRead
<1>3. /\ orphaned \subseteq orphaned'
      /\ job[w].pc = "unlink" => \A m \in file : m \in job[w].paths => m \in orphaned'
  BY <1>0 DEF Abort, RetryFails, At, RetriesKeepRows
<1>4. FilesHeld'
  BY <1>0, <1>1, <1>3 DEF FilesHeld
<1> QED BY <1>2, <1>4 DEF FileInv

LEMMA FileInductive == FileInv /\ [Next]_vars => FileInv'
<1> SUFFICES ASSUME FileInv, [Next]_vars PROVE FileInv'
  OBVIOUS
<1>1. /\ TypeOK /\ TypeOK' /\ file \subseteq Messages
      /\ \A v \in Workers : job[v].ids \subseteq Messages
  BY TypeStep DEF FileInv, TypeOK, Job
<1>2. CASE User \/ Tick \/ Renumbering \/ UNCHANGED vars
  <2>1. /\ job' = job /\ file' = file /\ orphaned' = orphaned
        /\ \A m \in Messages : row'[m].purged = row[m].purged
    BY <1>1, <1>2, UserCopy DEF Tick, Renumbering, Renumber, vars
  <2>2. RetriesKeepRows' /\ PathsRead' /\ FilesHeld'
    BY <1>1, <2>1 DEF FileInv, RetriesKeepRows, PathsRead, FilesHeld
  <2> QED BY <1>1, <2>2 DEF FileInv
<1>3. CASE Working
  BY <1>1, <1>3, FileLocal, FileElsewhere, FileRecordFailed, FileStops
     DEF Working, Step, Failure
<1> QED BY <1>2, <1>3 DEF Next

\* The files of a shredded message are gone, or a purge holds their paths, or one
\* was cut short: with any number of purges of the same messages at once.
THEOREM NoFileForgotten == Spec => []FilesFollow
<1>1. Init => FileInv
  <2> SUFFICES ASSUME Init PROVE FileInv
    OBVIOUS
  <2>1. TypeOK
    BY TypeInit
  <2>2. RetriesKeepRows /\ PathsRead
    BY DEF Init, Idle, Begin, RetriesKeepRows, PathsRead
  <2>3. FilesHeld
    BY DEF Init, FilesHeld
  <2> QED BY <2>1, <2>2, <2>3 DEF FileInv
<1>2. FileInv => FilesFollow
  BY DEF FileInv, FilesHeld, FilesFollow
<1> QED BY <1>1, <1>2, FileInductive, PTL DEF Spec

-----------------------------------------------------------------------------
LEMMA StrayedStep == OnlyOursDeleted /\ [Next]_vars => OnlyOursDeleted'
<1> SUFFICES ASSUME OnlyOursDeleted, [Next]_vars PROVE OnlyOursDeleted'
  OBVIOUS
<1>1. ASSUME NEW w \in Workers, NEW removed \in SUBSET Keep(w), NEW gone, NEW refused,
             NEW mismatched, Answer(w, removed, gone, refused, mismatched)
      PROVE  OnlyOursDeleted'
  BY <1>1 DEF Answer, Keep, Mismatched, OnlyOursDeleted
<1>2. CASE strayed' = strayed
  BY <1>2 DEF OnlyOursDeleted
<1>3. CASE User \/ Tick \/ Renumbering \/ UNCHANGED vars
  BY <1>2, <1>3 DEF User, Trash, Restore, Archive, Label, UserMove, Tick, Renumbering,
     Renumber, vars
<1>4. ASSUME NEW w \in Workers, StartSweep(w) \/ StartPurge(w) \/ Step(w) \/ Failure(w)
      PROVE  OnlyOursDeleted'
  <2>1. CASE Delete(w)
    BY <1>1, <2>1 DEF Delete
  <2>2. CASE DeleteRefused(w)
    BY <1>1, <2>2 DEF DeleteRefused
  <2>3. CASE DeleteInterrupted(w)
    <3>1. PICK removed \in SUBSET Keep(w) :
            Answer(w, removed, Absent(w), Keep(w), Mismatched(w))
      BY <2>3 DEF DeleteInterrupted
    <3> QED BY <1>1, <3>1
  <2>4. CASE StartSweep(w) \/ StartPurge(w) \/ FindDue(w) \/ Locate(w) \/ ReadPaths(w)
    BY <1>2, <2>4 DEF StartSweep, StartPurge, FindDue, Locate, ReadPaths, Unchanged
  <2>5. CASE RecordGone(w) \/ RecordFailed(w) \/ Purge(w) \/ RemoveFiles(w)
    BY <1>2, <2>5 DEF RecordGone, RecordFailed, Recorded, Purge, RemoveFiles
  <2>6. CASE RemoveFilesFails(w) \/ Abort(w) \/ RetryFails(w)
    BY <1>2, <2>6 DEF RemoveFilesFails, Abort, RetryFails
  <2> QED BY <1>4, <2>1, <2>2, <2>3, <2>4, <2>5, <2>6 DEF Step, Failure
<1> QED BY <1>3, <1>4 DEF Next, Working

\* Renumbering never costs another mail while the row has a Message-ID.
THEOREM OthersAreSafe == Spec => []OnlyOursDeleted
<1>1. Init => OnlyOursDeleted
  BY DEF Init, OnlyOursDeleted
<1> QED BY <1>1, StrayedStep, PTL DEF Spec
=============================================================================
