------------------------------ MODULE AuditChain ------------------------------
(***************************************************************************)
(* The audit log (audit/log.py, Store.append_audit_chained) and the thread *)
(* that verifies it (audit/monitor.py).  Each row carries the hash of the  *)
(* one before it.  An append reads the tail and inserts behind it under a  *)
(* lock of its process and SQLite's write lock.                            *)
(*                                                                         *)
(* One step is one SQL statement.  Threads of the server that share the    *)
(* graph/UI connection share its transaction too: a statement of one runs  *)
(* in the transaction of the other, and a commit of one commits for both.  *)
(***************************************************************************)
EXTENDS Integers, Sequences

CONSTANTS
  Actors,     \* threads that append
  Server,     \* those of the server process; the others are processes
  Shared,     \* those on the graph/UI connection; the others have their own
  MaxHashes,  \* bounds the appends: none starts after so many hashes
  Faults,     \* which of "crash", "fail", "alter", "drop", "cycle" can happen
  MaxFaults,  \* bounds how many do
  None

ASSUME AuditAssumption ==
  /\ Shared \subseteq Server /\ Server \subseteq Actors
  /\ {MaxHashes, MaxFaults} \subseteq Nat
  /\ Faults \subseteq {"crash", "fail", "alter", "drop", "cycle"}
  /\ {"ui", "server", None} \cap Actors = {} /\ None \notin {"ui", "server"}

Conn(a) == IF a \in Shared THEN "ui" ELSE a
Process(a) == IF a \in Server THEN "server" ELSE a
Conns == {Conn(a) : a \in Actors}
Processes == {Process(a) : a \in Actors}

VARIABLES
  log,       \* the committed rows
  pending,   \* rows inserted in the open transaction of each connection
  writer,    \* the connection that holds SQLite's write lock
  lock,      \* _AUDIT_APPEND_LOCK of each process
  job,       \* the append each actor is in
  hashed,    \* how many hashes were computed: the next one is new
  faults,
  struck,    \* history: the row from which on the log was tampered with, or 0
  returned,  \* history: hashes of the appends that returned
  reported   \* history: the monitor has reported a broken chain

vars == <<log, pending, writer, lock, job, hashed, faults, struck, returned, reported>>
history == <<struck, returned, reported>>

\* A hash is a number, and 0 stands for no predecessor: time stamps make the
\* hashed text unique.  intact: the columns are those that were hashed.
Row == [prev : Nat, this : Nat, intact : BOOLEAN]

Job == [pc : {"idle", "begin", "tail", "insert", "commit"}, began : BOOLEAN,
        prev : Nat, this : Nat]

Idle == [pc |-> "idle", began |-> FALSE, prev |-> 0, this |-> 0]

Fault(f) == f \in Faults /\ faults < MaxFaults /\ faults' = faults + 1

Init ==
  /\ log = <<>> /\ pending = [c \in Conns |-> <<>>] /\ writer = None
  /\ lock = [p \in Processes |-> None] /\ job = [a \in Actors |-> Idle]
  /\ hashed = 0 /\ faults = 0 /\ struck = 0 /\ returned = {} /\ reported = FALSE

-----------------------------------------------------------------------------
(* SQLite's transactions.  A transaction holds the write lock: it begins   *)
(* with BEGIN IMMEDIATE or with a statement that writes.                   *)

Open(c) == writer = c
CanWrite(c) == writer \in {None, c}

CommitConn(c) ==
  IF Open(c)
  THEN log' = log \o pending[c] /\ pending' = [pending EXCEPT ![c] = <<>>] /\ writer' = None
  ELSE UNCHANGED <<log, pending, writer>>

RollbackConn(c) ==
  /\ pending' = [pending EXCEPT ![c] = <<>>]
  /\ writer' = IF Open(c) THEN None ELSE writer
  /\ UNCHANGED log

\* Any other write of the actor.  One that fails, such as a violated foreign
\* key, leaves its transaction open behind it.
Write(a) ==
  /\ job[a].pc = "idle" /\ writer = None
  /\ writer' = Conn(a)
  /\ UNCHANGED <<log, pending, lock, job, hashed, faults, history>>

EndWrite(a) ==
  /\ job[a].pc = "idle" /\ Open(Conn(a))
  /\ CommitConn(Conn(a)) \/ RollbackConn(Conn(a))
  /\ UNCHANGED <<lock, job, hashed, faults, history>>

-----------------------------------------------------------------------------
(* append_audit_chained.                                                   *)

At(a, pc) == job[a].pc = pc
Become(a, j) == job' = [job EXCEPT ![a] = j]
Release(a) == lock' = [lock EXCEPT ![Process(a)] = None] /\ Become(a, Idle)

Acquire(a) ==
  /\ At(a, "idle") /\ lock[Process(a)] = None /\ hashed < MaxHashes
  /\ lock' = [lock EXCEPT ![Process(a)] = a]
  /\ Become(a, [Idle EXCEPT !.pc = "begin"])
  /\ UNCHANGED <<log, pending, writer, hashed, faults, history>>

Begin_Deferred(a) ==
  /\ At(a, "begin")
  /\ Become(a, [job[a] EXCEPT !.pc = "tail", !.began = ~Open(Conn(a))])
  /\ UNCHANGED <<log, pending, writer, lock, hashed, faults, history>>

\* BEGIN IMMEDIATE unless the connection is in a transaction.
Begin(a) ==
  /\ At(a, "begin") /\ CanWrite(Conn(a))
  /\ writer' = Conn(a)
  /\ Become(a, [job[a] EXCEPT !.pc = "tail", !.began = ~Open(Conn(a))])
  /\ UNCHANGED <<log, pending, lock, hashed, faults, history>>

BusyTimeout_Never(a) == FALSE /\ UNCHANGED vars

\* busy_timeout: BEGIN raises when another connection keeps the write lock.
BusyTimeout(a) ==
  /\ At(a, "begin") /\ ~CanWrite(Conn(a))
  /\ Release(a)
  /\ UNCHANGED <<log, pending, writer, hashed, faults, history>>

LastHash_Null(a) ==
  LET rows == IF Open(Conn(a)) THEN log \o pending[Conn(a)] ELSE log
  IN  IF rows = <<>> THEN None ELSE rows[Len(rows)].this

\* A connection sees its own uncommitted rows.
LastHash(a) ==
  LET rows == IF Open(Conn(a)) THEN log \o pending[Conn(a)] ELSE log
  IN  IF rows = <<>> THEN 0 ELSE rows[Len(rows)].this

ReadTail(a) ==
  /\ At(a, "tail")
  /\ hashed' = hashed + 1
  /\ Become(a, [job[a] EXCEPT !.pc = "insert", !.prev = LastHash(a), !.this = hashed'])
  /\ UNCHANGED <<log, pending, writer, lock, faults, history>>

\* Outside a transaction the INSERT begins one.
Insert(a) ==
  /\ At(a, "insert") /\ CanWrite(Conn(a))
  /\ writer' = Conn(a)
  /\ pending' = [pending EXCEPT ![Conn(a)] =
       Append(@, [prev |-> job[a].prev, this |-> job[a].this, intact |-> TRUE])]
  /\ Become(a, [job[a] EXCEPT !.pc = "commit"])
  /\ UNCHANGED <<log, lock, hashed, faults, history>>

Commit_OwnOnly(a) ==
  /\ At(a, "commit")
  /\ IF job[a].began THEN CommitConn(Conn(a)) ELSE UNCHANGED <<log, pending, writer>>
  /\ returned' = returned \cup {job[a].this}
  /\ Release(a)
  /\ UNCHANGED <<hashed, faults, struck, reported>>

Commit(a) ==
  /\ At(a, "commit")
  /\ CommitConn(Conn(a))
  /\ returned' = returned \cup {job[a].this}
  /\ Release(a)
  /\ UNCHANGED <<hashed, faults, struck, reported>>

\* An append that fails undoes its transaction if it is its own.
Undo(a) ==
  /\ IF job[a].began THEN RollbackConn(Conn(a)) ELSE UNCHANGED <<log, pending, writer>>
  /\ Release(a)
  /\ UNCHANGED <<hashed, history>>

InsertFails(a) == At(a, "insert") /\ Fault("fail") /\ Undo(a)
CommitFails(a) == At(a, "commit") /\ Fault("fail") /\ Undo(a)

AppendStep(a) ==
  Begin(a) \/ BusyTimeout(a) \/ ReadTail(a) \/ Insert(a) \/ Commit(a)
    \/ InsertFails(a) \/ CommitFails(a)

-----------------------------------------------------------------------------
(* Crashes, and what happens to the file behind the program's back.        *)

Crash(p) ==
  LET dead == {a \in Actors : Process(a) = p}
      conns == {Conn(a) : a \in dead} IN
  /\ Fault("crash")
  /\ pending' = [c \in Conns |-> IF c \in conns THEN <<>> ELSE pending[c]]
  /\ writer' = IF writer \in conns THEN None ELSE writer
  /\ lock' = [lock EXCEPT ![p] = None]
  /\ job' = [a \in Actors |-> IF a \in dead THEN Idle ELSE job[a]]
  /\ UNCHANGED <<log, hashed, history>>

Strike(i) == struck = 0 /\ struck' = i

Alter(i) ==
  /\ Fault("alter") /\ Strike(i)
  /\ log' = [log EXCEPT ![i].intact = FALSE]
  /\ UNCHANGED <<pending, writer, lock, job, hashed, returned, reported>>

\* A row other than the last is lost.  (That the last rows are gone cannot be
\* seen from the rows that are left.)
Drop(i) ==
  /\ i < Len(log) /\ Fault("drop") /\ Strike(i)
  /\ log' = [j \in 1..Len(log) - 1 |-> log[IF j < i THEN j ELSE j + 1]]
  /\ returned' = returned \ {log[i].this}
  /\ UNCHANGED <<pending, writer, lock, job, hashed, reported>>

-----------------------------------------------------------------------------
(* verify_chain and the monitor's cycle.                                   *)

Bad_RowsOnly(rows, i) == ~rows[i].intact

Bad(rows, i) ==
  \/ rows[i].prev # (IF i = 1 THEN 0 ELSE rows[i - 1].this)
  \/ ~rows[i].intact

Verified(rows) == \A i \in 1..Len(rows) : ~Bad(rows, i)

\* A cycle that raises is logged, and the thread goes on to the next.
MonitorCycle ==
  /\ \/ reported' = (reported \/ ~Verified(log)) /\ UNCHANGED faults
     \/ Fault("cycle") /\ UNCHANGED reported
  /\ UNCHANGED <<log, pending, writer, lock, job, hashed, struck, returned>>

Next ==
  \/ \E a \in Actors : Write(a) \/ EndWrite(a) \/ Acquire(a) \/ AppendStep(a)
  \/ \E p \in Processes : Crash(p)
  \/ \E i \in 1..Len(log) : Alter(i) \/ Drop(i)
  \/ MonitorCycle

Spec == Init /\ [][Next]_vars

\* A thread that holds the lock runs on, and the monitor comes round again.
FairSpec ==
  /\ Spec
  /\ \A a \in Actors : WF_vars(AppendStep(a))
  /\ WF_vars(MonitorCycle)

-----------------------------------------------------------------------------
TypeOK ==
  /\ log \in Seq(Row) /\ pending \in [Conns -> Seq(Row)]
  /\ writer \in Conns \cup {None}
  /\ lock \in [Processes -> Actors \cup {None}]
  /\ job \in [Actors -> Job]
  /\ hashed \in Nat /\ faults \in 0..MaxFaults
  /\ struck \in Nat /\ returned \subseteq Nat /\ reported \in BOOLEAN

\* Whoever appends, in whatever order, and whatever fails: verification finds
\* no fork of the program's making, and it finds a row altered or lost at its
\* place, which no later append hides (verify_chain, log.py:203).
ChainIntact ==
  /\ \A i \in 1..Len(log) : (struck = 0 \/ i < struck) => ~Bad(log, i)
  /\ struck # 0 => struck \in 1..Len(log) /\ Bad(log, struck)

\* An append that has returned its hash is on file: neither a crash nor the
\* rollback of another actor takes back the evidence of an event.
ReturnedIsOnFile ==
  returned \subseteq {log[i].this : i \in 1..Len(log)}

\* Whoever takes the append lock gives it back, though the holder of the
\* write lock may be waiting for that very lock.
AppendsEnd == \A a \in Actors : ~At(a, "idle") ~> At(a, "idle")

\* A broken chain is reported in the end, though cycles of the monitor fail.
BreakReported == struck # 0 ~> reported
=============================================================================
