--------------------------- MODULE AuditChainProofs ---------------------------
(***************************************************************************)
(* What forks the audit chain, for any number of threads, processes and    *)
(* rows, and however the server's threads share connections: nothing but   *)
(* an Intrusion, a thread that ends the transaction of its connection      *)
(* while another thread on that connection is between BEGIN and COMMIT of  *)
(* an append.  AuditForks.cfg shows one.  Failures, crashes, other         *)
(* processes and appends that share a connection do no harm: the write     *)
(* lock and the append lock keep them apart.                               *)
(***************************************************************************)
EXTENDS AuditChain, TLAPS

\* Between BEGIN and COMMIT of an append.
Appending(a) == job[a].pc \in {"tail", "insert", "commit"}

\* Some other write of b, on the connection of an append under way, ends in a
\* commit or a rollback.
IntrudedBy(b) == EndWrite(b) /\ \E a \in Actors \ {b} : Conn(a) = Conn(b) /\ Appending(a)
Intrusion == \E b \in Actors : IntrudedBy(b)

Last(rows) == IF rows = <<>> THEN 0 ELSE rows[Len(rows)].this

\* Rows that can stand behind a row with hash p.
Linked(rows, p) ==
  \A i \in 1..Len(rows) :
    rows[i].intact /\ rows[i].prev = (IF i = 1 THEN p ELSE rows[i - 1].this)

\* Only the holder of the write lock has uncommitted rows, and they continue
\* the committed ones.
PendingOK ==
  \A c \in Conns :
    /\ pending[c] # <<>> => writer = c
    /\ Linked(pending[c], Last(log))

\* Who is in an append has the append lock of its process.
LockOK == \A a \in Actors : job[a].pc # "idle" => lock[Process(a)] = a

\* From BEGIN to COMMIT the append holds the write lock; the tail it has read
\* stays the tail, and its row stays in the transaction.
JobOK ==
  \A a \in Actors :
    /\ job[a].pc \in {"tail", "insert", "commit"} => writer = Conn(a)
    /\ job[a].pc = "insert" =>
         job[a].prev = LastHash(a) /\ job[a].prev < job[a].this /\ job[a].this <= hashed
    /\ job[a].pc = "commit" =>
         \E i \in 1..Len(pending[Conn(a)]) : pending[Conn(a)][i].this = job[a].this

\* A hash is computed after the one it covers, so no row repeats a hash.
Ordered(rows) == \A i \in 1..Len(rows) : rows[i].prev < rows[i].this /\ rows[i].this <= hashed

OrderOK == Ordered(log) /\ \A c \in Conns : Ordered(pending[c])

Inv == TypeOK /\ PendingOK /\ LockOK /\ JobOK /\ OrderOK /\ ChainIntact /\ ReturnedIsOnFile

-----------------------------------------------------------------------------
(* Connections.                                                            *)

\* A connection belongs to one process.
LEMMA ConnOfProcess ==
  ASSUME NEW a \in Actors, NEW b \in Actors, Conn(a) = Conn(b)
  PROVE  Process(a) = Process(b)
BY AuditAssumption DEF AuditAssumption, Conn, Process

\* Hence appends on one connection exclude each other.
LEMMA Alone ==
  ASSUME Inv, NEW a \in Actors, NEW b \in Actors, a # b, job[a].pc # "idle",
         Conn(a) = Conn(b)
  PROVE  job[b].pc = "idle"
BY ConnOfProcess DEF Inv, LockOK

LEMMA ConnTyped ==
  ASSUME NEW a \in Actors
  PROVE  Conn(a) \in Conns /\ Process(a) \in Processes /\ None \notin Conns
BY AuditAssumption DEF AuditAssumption, Conns, Processes, Conn

-----------------------------------------------------------------------------
(* Rows behind rows.                                                       *)

LEMMA JoinTyped ==
  ASSUME NEW s \in Seq(Row), NEW t \in Seq(Row)
  PROVE  /\ s \o t \in Seq(Row) /\ Len(s \o t) = Len(s) + Len(t)
         /\ \A i \in 1..Len(s) : (s \o t)[i] = s[i]
         /\ \A i \in 1..Len(t) : (s \o t)[Len(s) + i] = t[i]
OBVIOUS

\* Committing linked rows adds no bad row.
LEMMA JoinGood ==
  ASSUME NEW s \in Seq(Row), NEW t \in Seq(Row), Linked(t, Last(s)),
         NEW i \in (Len(s) + 1)..Len(s \o t)
  PROVE  ~Bad(s \o t, i)
<1> DEFINE j == i - Len(s)
<1>1. j \in 1..Len(t) /\ i = Len(s) + j
  BY JoinTyped
<1>2. (s \o t)[i] = t[j]
  BY <1>1, JoinTyped
<1>3. t[j].intact /\ t[j].prev = (IF j = 1 THEN Last(s) ELSE t[j - 1].this)
  BY <1>1 DEF Linked
<1>4. CASE j = 1
  <2>1. CASE s = <<>>
    BY <1>1, <1>2, <1>3, <1>4, <2>1 DEF Bad, Last
  <2>2. CASE s # <<>>
    <3>1. Len(s) \in 1..Len(s) /\ i # 1 /\ i - 1 = Len(s)
      BY <1>1, <1>4, <2>2
    <3>2. (s \o t)[i - 1] = s[Len(s)]
      BY <3>1, JoinTyped
    <3> QED  BY <1>2, <1>3, <1>4, <2>2, <3>1, <3>2 DEF Bad, Last
  <2> QED  BY <2>1, <2>2
<1>5. CASE j # 1
  <2>1. j - 1 \in 1..Len(t) /\ i - 1 = Len(s) + (j - 1) /\ i # 1
    BY <1>1, <1>5
  <2>2. (s \o t)[i - 1] = t[j - 1]
    BY <2>1, JoinTyped
  <2> QED  BY <1>2, <1>3, <1>5, <2>1, <2>2 DEF Bad
<1> QED  BY <1>4, <1>5

LEMMA JoinOld ==
  ASSUME NEW s \in Seq(Row), NEW t \in Seq(Row), NEW i \in 1..Len(s)
  PROVE  Bad(s \o t, i) = Bad(s, i)
<1>1. (s \o t)[i] = s[i]
  BY JoinTyped
<1>2. i # 1 => (s \o t)[i - 1] = s[i - 1]
  BY JoinTyped
<1> QED  BY <1>1, <1>2 DEF Bad

LEMMA AppendLinked ==
  ASSUME NEW t \in Seq(Row), NEW p \in Nat, NEW r \in Row, Linked(t, p),
         r.intact, r.prev = (IF t = <<>> THEN p ELSE t[Len(t)].this)
  PROVE  Linked(Append(t, r), p)
<1> SUFFICES ASSUME NEW i \in 1..Len(t) + 1
             PROVE  /\ Append(t, r)[i].intact
                    /\ Append(t, r)[i].prev = (IF i = 1 THEN p ELSE Append(t, r)[i - 1].this)
  BY DEF Linked
<1>1. CASE i = Len(t) + 1
  <2>1. Append(t, r)[i] = r /\ (i # 1 => Append(t, r)[i - 1] = t[Len(t)])
    BY <1>1
  <2>2. t = <<>> <=> i = 1
    BY <1>1
  <2> QED  BY <2>1, <2>2
<1>2. CASE i # Len(t) + 1
  <2>1. i \in 1..Len(t) /\ Append(t, r)[i] = t[i] /\ (i # 1 => Append(t, r)[i - 1] = t[i - 1])
    BY <1>2
  <2> QED  BY <2>1 DEF Linked
<1> QED  BY <1>1, <1>2

-----------------------------------------------------------------------------
LEMMA InitOK ==
  ASSUME Init  PROVE Inv
<1> USE DEF Init
<1>b. 0 \in 0..MaxFaults
  BY AuditAssumption DEF AuditAssumption
<1>1. TypeOK
  <2>1. log \in Seq(Row) /\ pending \in [Conns -> Seq(Row)]
    OBVIOUS
  <2>2. job \in [Actors -> Job]
    BY DEF Idle, Job
  <2> QED  BY <2>1, <2>2, <1>b DEF TypeOK
<1>2. PendingOK /\ LockOK /\ JobOK /\ OrderOK /\ ChainIntact /\ ReturnedIsOnFile
  BY DEF PendingOK, Linked, LockOK, JobOK, Idle, OrderOK, Ordered, ChainIntact, ReturnedIsOnFile
<1> QED  BY <1>1, <1>2 DEF Inv

LEMMA TypeStep ==
  ASSUME TypeOK, [Next]_vars  PROVE TypeOK'
<1> USE DEF TypeOK
<1> USE AuditAssumption DEF AuditAssumption
<1>s. CASE UNCHANGED vars
  BY <1>s DEF vars
<1>j. ASSUME NEW a \in Actors
      PROVE  job[a] \in Job /\ Idle \in Job /\ Conn(a) \in Conns /\ Process(a) \in Processes
  BY ConnTyped DEF Idle, Job
<1>c. ASSUME NEW a \in Actors, CommitConn(Conn(a))
      PROVE  /\ log' \in Seq(Row) /\ pending' \in [Conns -> Seq(Row)]
             /\ writer' \in Conns \cup {None}
  <2>1. pending[Conn(a)] \in Seq(Row) /\ log \o pending[Conn(a)] \in Seq(Row)
    BY <1>j
  <2>2. CASE Open(Conn(a))
    <3>1. /\ log' = log \o pending[Conn(a)] /\ writer' = None
          /\ pending' = [pending EXCEPT ![Conn(a)] = <<>>]
      BY <1>c, <2>2 DEF CommitConn
    <3>2. <<>> \in Seq(Row)
      OBVIOUS
    <3>3. pending' \in [Conns -> Seq(Row)]
      BY <1>j, <3>1, <3>2
    <3> QED  BY <2>1, <3>1, <3>3
  <2>3. CASE ~Open(Conn(a))
    BY <1>c, <2>3 DEF CommitConn
  <2> QED  BY <2>2, <2>3
<1>r. ASSUME NEW a \in Actors, RollbackConn(Conn(a))
      PROVE  /\ log' \in Seq(Row) /\ pending' \in [Conns -> Seq(Row)]
             /\ writer' \in Conns \cup {None}
  BY <1>r, <1>j DEF RollbackConn
<1>l. ASSUME NEW a \in Actors, Release(a)
      PROVE  lock' \in [Processes -> Actors \cup {None}] /\ job' \in [Actors -> Job]
  BY <1>l, <1>j DEF Release, Become
<1>f. ASSUME NEW f, Fault(f)
      PROVE  faults' \in 0..MaxFaults
  BY <1>f DEF Fault
<1>1. ASSUME NEW a \in Actors, Write(a)  PROVE TypeOK'
  BY <1>1, <1>j DEF Write, history
<1>2. ASSUME NEW a \in Actors, EndWrite(a)  PROVE TypeOK'
  BY <1>2, <1>c, <1>r DEF EndWrite, history
<1>3. ASSUME NEW a \in Actors, Acquire(a)  PROVE TypeOK'
  <2>1. lock' \in [Processes -> Actors \cup {None}]
    BY <1>3, <1>j DEF Acquire
  <2>2. [Idle EXCEPT !.pc = "begin"] \in Job
    BY DEF Idle, Job
  <2> QED  BY <1>3, <2>1, <2>2 DEF Acquire, Become, history
<1>4. ASSUME NEW a \in Actors, Begin(a)  PROVE TypeOK'
  <2>1. [job[a] EXCEPT !.pc = "tail", !.began = ~Open(Conn(a))] \in Job
    BY <1>j DEF Job, Open
  <2> QED  BY <1>4, <1>j, <2>1 DEF Begin, Become, history
<1>5. ASSUME NEW a \in Actors, BusyTimeout(a)  PROVE TypeOK'
  BY <1>5, <1>l DEF BusyTimeout, history
<1>6. ASSUME NEW a \in Actors, ReadTail(a)  PROVE TypeOK'
  <2> DEFINE rows == IF Open(Conn(a)) THEN log \o pending[Conn(a)] ELSE log
  <2>0. rows \in Seq(Row)
    BY <1>j
  <2>1. LastHash(a) \in Nat
    <3>1. CASE rows = <<>>
      BY <3>1 DEF LastHash
    <3>2. CASE rows # <<>>
      <4>1. rows[Len(rows)] \in Row
        BY <2>0, <3>2
      <4> QED  BY <3>2, <4>1 DEF LastHash, Row
    <3> QED  BY <3>1, <3>2
  <2>2. [job[a] EXCEPT !.pc = "insert", !.prev = LastHash(a), !.this = hashed + 1] \in Job
    <3>1. \A m, n \in Nat : [job[a] EXCEPT !.pc = "insert", !.prev = m, !.this = n] \in Job
      BY <1>j DEF Job
    <3>2. hashed + 1 \in Nat
      OBVIOUS
    <3> QED  BY <2>1, <3>1, <3>2
  <2> QED  BY <1>6, <2>2 DEF ReadTail, Become, history
<1>7. ASSUME NEW a \in Actors, Insert(a)  PROVE TypeOK'
  <2> DEFINE r == [prev |-> job[a].prev, this |-> job[a].this, intact |-> TRUE]
  <2>1. r \in Row
    BY <1>j DEF Job, Row
  <2>2. pending' \in [Conns -> Seq(Row)]
    BY <1>7, <1>j, <2>1 DEF Insert
  <2>3. [job[a] EXCEPT !.pc = "commit"] \in Job
    BY <1>j DEF Job
  <2> QED  BY <1>7, <1>j, <2>2, <2>3 DEF Insert, Become, history
<1>8. ASSUME NEW a \in Actors, Commit(a)  PROVE TypeOK'
  <2>1. job[a].this \in Nat
    BY <1>j DEF Job
  <2> QED  BY <1>8, <1>c, <1>l, <2>1 DEF Commit
<1>9. ASSUME NEW a \in Actors, Undo(a), faults' \in 0..MaxFaults  PROVE TypeOK'
  BY <1>9, <1>r, <1>l DEF Undo, history
<1>10. ASSUME NEW p \in Processes, Crash(p)  PROVE TypeOK'
  <2>1. Idle \in Job
    BY DEF Idle, Job
  <2>2. pending' \in [Conns -> Seq(Row)] /\ writer' \in Conns \cup {None}
    BY <1>10 DEF Crash
  <2>3. lock' \in [Processes -> Actors \cup {None}] /\ job' \in [Actors -> Job]
    BY <1>10, <2>1 DEF Crash
  <2> QED  BY <1>10, <1>f, <2>2, <2>3 DEF Crash, history
<1>11. ASSUME NEW i \in 1..Len(log), Alter(i)  PROVE TypeOK'
  <2>0. log[i] \in Row
    OBVIOUS
  <2>1. [log[i] EXCEPT !.intact = FALSE] \in Row
    BY <2>0 DEF Row
  <2>2. log' \in Seq(Row)
    BY <1>11, <2>1 DEF Alter
  <2> QED  BY <1>11, <1>f, <2>2 DEF Alter, Strike
<1>12. ASSUME NEW i \in 1..Len(log), Drop(i)  PROVE TypeOK'
  <2>1. \A j \in 1..Len(log) - 1 : log[IF j < i THEN j ELSE j + 1] \in Row
    OBVIOUS
  <2>2. log' \in Seq(Row)
    BY <1>12, <2>1 DEF Drop
  <2>3. i \in Nat /\ struck' = i /\ returned' \subseteq returned
    BY <1>12 DEF Drop, Strike
  <2> QED  BY <1>12, <1>f, <2>2, <2>3 DEF Drop
<1>13. ASSUME MonitorCycle  PROVE TypeOK'
  BY <1>13, <1>f DEF MonitorCycle
<1> QED
  BY <1>s, <1>1, <1>2, <1>3, <1>4, <1>5, <1>6, <1>7, <1>8, <1>9, <1>10, <1>11, <1>12, <1>13, <1>f
     DEF Next, AppendStep, InsertFails, CommitFails

-----------------------------------------------------------------------------
(* The tail of a transaction.                                              *)

LEMMA LastJoin ==
  ASSUME NEW s \in Seq(Row), NEW t \in Seq(Row)
  PROVE  Last(s \o t) = (IF t = <<>> THEN Last(s) ELSE Last(t))
<1>1. CASE t = <<>>
  <2>1. s \o t = s
    BY <1>1
  <2> QED  BY <1>1, <2>1
<1>2. CASE t # <<>>
  <2>1. Len(t) \in 1..Len(t) /\ Len(s \o t) = Len(s) + Len(t) /\ s \o t # <<>>
    BY <1>2
  <2>2. (s \o t)[Len(s) + Len(t)] = t[Len(t)]
    BY <2>1, JoinTyped
  <2> QED  BY <1>2, <2>1, <2>2 DEF Last
<1> QED  BY <1>1, <1>2

LEMMA LastHashIs ==
  ASSUME TypeOK, NEW a \in Actors
  PROVE  LastHash(a) = (IF Open(Conn(a)) /\ pending[Conn(a)] # <<>>
                        THEN Last(pending[Conn(a)]) ELSE Last(log))
<1>1. log \in Seq(Row) /\ pending[Conn(a)] \in Seq(Row)
  BY ConnTyped DEF TypeOK
<1>2. LastHash(a) = (IF Open(Conn(a)) THEN Last(log \o pending[Conn(a)]) ELSE Last(log))
  BY DEF LastHash, Last
<1> QED  BY <1>1, <1>2, LastJoin

LEMMA LastOrdered ==
  ASSUME NEW s \in Seq(Row), Ordered(s), hashed \in Nat
  PROVE  Last(s) \in Nat /\ Last(s) <= hashed
<1>1. CASE s = <<>>
  BY <1>1 DEF Last
<1>2. CASE s # <<>>
  <2>1. Len(s) \in 1..Len(s) /\ s[Len(s)] \in Row
    BY <1>2
  <2> QED  BY <1>2, <2>1 DEF Last, Ordered, Row
<1> QED  BY <1>1, <1>2

\* What does not touch the log, the transactions and the hashes keeps what is
\* said about them.
LEMMA Untouched ==
  ASSUME Inv, UNCHANGED <<log, pending, hashed, struck, returned>>,
         \A c \in Conns : writer = c => writer' = c
  PROVE  PendingOK' /\ OrderOK' /\ ChainIntact' /\ ReturnedIsOnFile'
<1>1. PendingOK'
  BY DEF Inv, PendingOK, Linked, Last
<1>2. OrderOK'
  BY DEF Inv, OrderOK, Ordered
<1>3. ChainIntact' /\ ReturnedIsOnFile'
  BY DEF Inv, ChainIntact, Bad, ReturnedIsOnFile
<1> QED  BY <1>1, <1>2, <1>3

\* The commit of a transaction.
LEMMA CommitKeeps ==
  ASSUME Inv, NEW a \in Actors, CommitConn(Conn(a)), UNCHANGED <<hashed, struck>>
  PROVE  /\ PendingOK' /\ OrderOK' /\ ChainIntact'
         /\ \A i \in 1..Len(log) : i \in 1..Len(log') /\ log'[i] = log[i]
         /\ Open(Conn(a)) => \A i \in 1..Len(pending[Conn(a)]) :
              \E j \in 1..Len(log') : log'[j] = pending[Conn(a)][i]
<1> DEFINE c == Conn(a)
<1>t. log \in Seq(Row) /\ pending \in [Conns -> Seq(Row)] /\ c \in Conns /\ pending[c] \in Seq(Row)
      /\ None \notin Conns
  BY ConnTyped DEF Inv, TypeOK
<1>1. CASE ~Open(c)
  <2>1. UNCHANGED <<log, pending, writer>>
    BY <1>1 DEF CommitConn
  <2>2. PendingOK'
    BY <2>1 DEF Inv, PendingOK, Linked, Last
  <2>3. OrderOK'
    BY <2>1 DEF Inv, OrderOK, Ordered
  <2>4. ChainIntact'
    BY <2>1 DEF Inv, ChainIntact, Bad
  <2> QED  BY <1>1, <2>1, <2>2, <2>3, <2>4
<1>2. CASE Open(c)
  <2>1. log' = log \o pending[c] /\ pending' = [pending EXCEPT ![c] = <<>>] /\ writer' = None
    BY <1>2 DEF CommitConn
  <2>2. \A d \in Conns : pending'[d] = <<>>
    BY <1>2, <1>t, <2>1 DEF Inv, PendingOK, Open
  <2>3. PendingOK'
    BY <2>2 DEF PendingOK, Linked
  <2>4. /\ Len(log') = Len(log) + Len(pending[c]) /\ Len(log) \in Nat /\ Len(pending[c]) \in Nat
        /\ \A i \in 1..Len(log) : log'[i] = log[i]
        /\ \A i \in 1..Len(pending[c]) : log'[Len(log) + i] = pending[c][i]
    BY <1>t, <2>1, JoinTyped
  <2>5. OrderOK'
    <3>1. ASSUME NEW i \in 1..Len(log')
          PROVE  log'[i].prev < log'[i].this /\ log'[i].this <= hashed
      <4>1. CASE i \in 1..Len(log)
        BY <2>4, <4>1 DEF Inv, OrderOK, Ordered
      <4>2. CASE i \notin 1..Len(log)
        <5>1. i - Len(log) \in 1..Len(pending[c]) /\ i = Len(log) + (i - Len(log))
          BY <2>4, <4>2
        <5> QED  BY <1>t, <2>4, <5>1 DEF Inv, OrderOK, Ordered
      <4> QED  BY <4>1, <4>2
    <3> QED  BY <2>2, <3>1 DEF OrderOK, Ordered
  <2>6. \A i \in 1..Len(log) : Bad(log', i) = Bad(log, i)
    BY <1>t, <2>1, JoinOld
  <2>7. \A i \in (Len(log) + 1)..Len(log') : ~Bad(log', i)
    <3>1. Linked(pending[c], Last(log))
      BY <1>t DEF Inv, PendingOK
    <3> QED  BY <1>t, <2>1, <3>1, JoinGood
  <2>8. ChainIntact'
    <3>1. ASSUME NEW i \in 1..Len(log'), struck = 0 \/ i < struck
          PROVE  ~Bad(log', i)
      BY <2>4, <2>6, <2>7, <3>1 DEF Inv, ChainIntact
    <3>2. struck # 0 => struck \in 1..Len(log') /\ Bad(log', struck)
      BY <2>4, <2>6 DEF Inv, ChainIntact
    <3> QED  BY <3>1, <3>2 DEF ChainIntact
  <2> QED  BY <1>2, <2>3, <2>4, <2>5, <2>8
<1> QED  BY <1>1, <1>2

LEMMA RollbackKeeps ==
  ASSUME Inv, NEW a \in Actors, RollbackConn(Conn(a)), UNCHANGED <<hashed, struck, returned>>
  PROVE  PendingOK' /\ OrderOK' /\ ChainIntact' /\ ReturnedIsOnFile'
<1> DEFINE c == Conn(a)
<1>1. /\ log' = log /\ pending' = [pending EXCEPT ![c] = <<>>]
      /\ writer' = (IF Open(c) THEN None ELSE writer)
  BY DEF RollbackConn
<1>2. pending \in [Conns -> Seq(Row)] /\ c \in Conns
  BY ConnTyped DEF Inv, TypeOK
<1>3. \A d \in Conns : pending'[d] = (IF d = c THEN <<>> ELSE pending[d])
  BY <1>1, <1>2
<1>4. PendingOK'
  BY <1>1, <1>3 DEF Inv, PendingOK, Linked, Last, Open
<1>5. OrderOK'
  BY <1>1, <1>3 DEF Inv, OrderOK, Ordered
<1>6. ChainIntact' /\ ReturnedIsOnFile'
  BY <1>1 DEF Inv, ChainIntact, Bad, ReturnedIsOnFile
<1> QED  BY <1>4, <1>5, <1>6

\* The end of a transaction is nothing to the appends of other connections: an
\* append under way holds the write lock.
LEMMA OthersKeep ==
  ASSUME Inv, NEW a \in Actors, hashed' = hashed,
         \/ CommitConn(Conn(a))
         \/ RollbackConn(Conn(a))
         \/ UNCHANGED <<log, pending, writer>>,
         \A b \in Actors : b # a => job'[b] = job[b],
         job'[a].pc \in {"idle", "begin"},
         \A b \in Actors \ {a} : Conn(a) = Conn(b) => ~Appending(b)
  PROVE  JobOK'
<1> SUFFICES ASSUME NEW b \in Actors, job'[b].pc \in {"tail", "insert", "commit"}
             PROVE  /\ writer' = Conn(b)
                    /\ job'[b].pc = "insert" =>
                         /\ job'[b].prev = LastHash(b)'
                         /\ job'[b].prev < job'[b].this /\ job'[b].this <= hashed'
                    /\ job'[b].pc = "commit" =>
                         \E i \in 1..Len(pending'[Conn(b)]) :
                           pending'[Conn(b)][i].this = job'[b].this
  BY DEF JobOK, Conn
<1>1. b # a /\ job'[b] = job[b]
  OBVIOUS
<1>2. writer = Conn(b) /\ ~Open(Conn(a)) /\ Conn(a) # Conn(b)
  BY <1>1 DEF Inv, JobOK, Open, Appending
<1>3. pending \in [Conns -> Seq(Row)] /\ Conn(b) \in Conns
  BY ConnTyped DEF Inv, TypeOK
<1>4. log' = log /\ writer' = writer /\ pending'[Conn(b)] = pending[Conn(b)]
  BY <1>2, <1>3 DEF CommitConn, RollbackConn
<1>5. LastHash(b)' = LastHash(b)
  BY <1>4 DEF LastHash, Open, Conn
<1> QED  BY <1>1, <1>2, <1>4, <1>5 DEF Inv, JobOK

-----------------------------------------------------------------------------
(* The steps.                                                              *)

LEMMA EndWriteStep ==
  ASSUME Inv, NEW a \in Actors, EndWrite(a), ~IntrudedBy(a)
  PROVE  (PendingOK /\ JobOK /\ OrderOK /\ ChainIntact /\ ReturnedIsOnFile)'
<1>1. UNCHANGED <<job, hashed, struck, returned>> /\ job[a].pc = "idle"
  BY DEF EndWrite, history
<1>2. JobOK'
  BY <1>1, OthersKeep DEF EndWrite, IntrudedBy
<1>3. CASE CommitConn(Conn(a))
  BY <1>1, <1>2, <1>3, CommitKeeps DEF Inv, ReturnedIsOnFile
<1>4. CASE RollbackConn(Conn(a))
  BY <1>1, <1>2, <1>4, RollbackKeeps
<1> QED  BY <1>3, <1>4 DEF EndWrite

LEMMA CommitStep ==
  ASSUME Inv, NEW a \in Actors, Commit(a)
  PROVE  (PendingOK /\ JobOK /\ OrderOK /\ ChainIntact /\ ReturnedIsOnFile)'
<1>1. /\ CommitConn(Conn(a)) /\ UNCHANGED <<hashed, struck>>
      /\ returned' = returned \cup {job[a].this} /\ job[a].pc = "commit"
  BY DEF Commit, At
<1>2. job' = [job EXCEPT ![a] = Idle] /\ job \in [Actors -> Job]
  BY DEF Commit, Release, Become, Inv, TypeOK
<1>3. JobOK'
  BY <1>1, <1>2, OthersKeep, Alone DEF Idle, Appending
<1>4. PICK i \in 1..Len(pending[Conn(a)]) : pending[Conn(a)][i].this = job[a].this
  BY <1>1 DEF Inv, JobOK
<1>5. Open(Conn(a))
  BY <1>1 DEF Inv, JobOK, Open
<1>6. job[a].this \in {log'[j].this : j \in 1..Len(log')}
  BY <1>1, <1>4, <1>5, CommitKeeps
<1>7. returned \subseteq {log'[j].this : j \in 1..Len(log')}
  BY <1>1, CommitKeeps DEF Inv, ReturnedIsOnFile
<1> QED  BY <1>1, <1>3, <1>6, <1>7, CommitKeeps DEF ReturnedIsOnFile

LEMMA UndoStep ==
  ASSUME Inv, NEW a \in Actors, Undo(a), job[a].pc # "idle"
  PROVE  (PendingOK /\ JobOK /\ OrderOK /\ ChainIntact /\ ReturnedIsOnFile)'
<1>1. /\ RollbackConn(Conn(a)) \/ UNCHANGED <<log, pending, writer>>
      /\ UNCHANGED <<hashed, struck, returned>>
  BY DEF Undo, history
<1>2. job' = [job EXCEPT ![a] = Idle] /\ job \in [Actors -> Job]
  BY DEF Undo, Release, Become, Inv, TypeOK
<1>3. JobOK'
  BY <1>1, <1>2, OthersKeep, Alone DEF Idle, Appending
<1>4. CASE RollbackConn(Conn(a))
  BY <1>1, <1>3, <1>4, RollbackKeeps
<1>5. CASE UNCHANGED <<log, pending, writer>>
  BY <1>1, <1>3, <1>5, Untouched
<1> QED  BY <1>1, <1>4, <1>5

LEMMA QuietStep ==
  ASSUME Inv, NEW a \in Actors, Acquire(a) \/ BusyTimeout(a)
  PROVE  (PendingOK /\ JobOK /\ OrderOK /\ ChainIntact /\ ReturnedIsOnFile)'
<1>1. UNCHANGED <<log, pending, writer, hashed, struck, returned>>
  BY DEF Acquire, BusyTimeout, history
<1>2. /\ job \in [Actors -> Job] /\ job'[a].pc \in {"idle", "begin"}
      /\ \A b \in Actors : b # a => job'[b] = job[b]
  BY DEF Acquire, BusyTimeout, Release, Become, Idle, Inv, TypeOK
<1>3. JobOK'
  <2>1. CASE writer # Conn(a)
    <3>1. \A b \in Actors \ {a} : Conn(a) = Conn(b) => ~Appending(b)
      BY <2>1 DEF Inv, JobOK, Appending
    <3> QED  BY <1>1, <1>2, <3>1, OthersKeep
  <2>2. CASE writer = Conn(a)
    <3>1. lock[Process(a)] = None \/ job[a].pc # "idle"
      BY DEF Acquire, BusyTimeout, At
    <3>2. \A b \in Actors \ {a} : Conn(a) = Conn(b) => ~Appending(b)
      BY <3>1, Alone, ConnOfProcess, AuditAssumption
         DEF AuditAssumption, Inv, LockOK, Appending
    <3> QED  BY <1>1, <1>2, <3>2, OthersKeep
  <2> QED  BY <2>1, <2>2
<1> QED  BY <1>1, <1>3, Untouched

LEMMA BeginStep ==
  ASSUME Inv, NEW a \in Actors, Write(a) \/ Begin(a)
  PROVE  (PendingOK /\ JobOK /\ OrderOK /\ ChainIntact /\ ReturnedIsOnFile)'
<1>1. /\ UNCHANGED <<log, pending, hashed, struck, returned>>
      /\ writer \in {None, Conn(a)} /\ writer' = Conn(a)
  BY DEF Write, Begin, CanWrite, history
<1>2. /\ job \in [Actors -> Job] /\ job'[a].pc \in {"idle", "tail"}
      /\ \A b \in Actors : b # a => job'[b] = job[b]
  <2>1. job \in [Actors -> Job] /\ job[a] \in Job
    BY DEF Inv, TypeOK
  <2>2. CASE Write(a)
    BY <2>1, <2>2 DEF Write
  <2>3. CASE Begin(a)
    <3>1. [job[a] EXCEPT !.pc = "tail", !.began = ~Open(Conn(a))].pc = "tail"
      BY <2>1 DEF Job
    <3> QED  BY <2>1, <2>3, <3>1 DEF Begin, Become
  <2> QED  BY <2>1, <2>2, <2>3
<1>3. \A b \in Actors : b # a => job[b].pc \notin {"tail", "insert", "commit"}
  <2>1. CASE writer = None
    BY <2>1, ConnTyped DEF Inv, JobOK
  <2>2. CASE writer # None
    <3>1. writer = Conn(a) /\ job[a].pc # "idle"
      BY <1>1, <2>2 DEF Write, Begin, At
    <3> QED  BY <3>1, Alone DEF Inv, JobOK
  <2> QED  BY <2>1, <2>2
<1>4. JobOK'
  BY <1>1, <1>2, <1>3 DEF JobOK, Conn
<1>5. \A c \in Conns : writer = c => writer' = c
  BY <1>1, ConnTyped
<1> QED  BY <1>1, <1>4, <1>5, Untouched

LEMMA ReadTailStep ==
  ASSUME Inv, NEW a \in Actors, ReadTail(a)
  PROVE  (PendingOK /\ JobOK /\ OrderOK /\ ChainIntact /\ ReturnedIsOnFile)'
<1>1. /\ UNCHANGED <<log, pending, writer, struck, returned>> /\ hashed' = hashed + 1
      /\ job' = [job EXCEPT ![a] = [job[a] EXCEPT !.pc = "insert", !.prev = LastHash(a),
                                                  !.this = hashed']]
      /\ job[a].pc = "tail" /\ hashed \in Nat /\ job \in [Actors -> Job] /\ job[a] \in Job
  BY DEF ReadTail, Become, At, history, Inv, TypeOK
<1>2. /\ job'[a].pc = "insert" /\ job'[a].prev = LastHash(a) /\ job'[a].this = hashed + 1
      /\ \A b \in Actors : b # a => job'[b] = job[b]
  BY <1>1 DEF Job
<1>3. \A b \in Actors : LastHash(b)' = LastHash(b)
  BY <1>1 DEF LastHash, Open, Conn
<1>4. LastHash(a) \in Nat /\ LastHash(a) <= hashed
  <2>1. log \in Seq(Row) /\ pending[Conn(a)] \in Seq(Row) /\ Ordered(log)
        /\ Ordered(pending[Conn(a)])
    BY ConnTyped DEF Inv, TypeOK, OrderOK
  <2>2. Last(log) \in Nat /\ Last(log) <= hashed
        /\ Last(pending[Conn(a)]) \in Nat /\ Last(pending[Conn(a)]) <= hashed
    BY <1>1, <2>1, LastOrdered
  <2> QED  BY <2>2, LastHashIs DEF Inv
<1>5. JobOK'
  <2> SUFFICES ASSUME NEW b \in Actors, job'[b].pc \in {"tail", "insert", "commit"}
               PROVE  /\ writer' = Conn(b)
                      /\ job'[b].pc = "insert" =>
                           /\ job'[b].prev = LastHash(b)'
                           /\ job'[b].prev < job'[b].this /\ job'[b].this <= hashed'
                      /\ job'[b].pc = "commit" =>
                           \E i \in 1..Len(pending'[Conn(b)]) :
                             pending'[Conn(b)][i].this = job'[b].this
    BY DEF JobOK, Conn
  <2>1. CASE b = a
    BY <1>1, <1>2, <1>3, <1>4, <2>1 DEF Inv, JobOK
  <2>2. CASE b # a
    <3>1. writer = Conn(a) /\ writer = Conn(b)
      BY <1>1, <1>2, <2>2 DEF Inv, JobOK
    <3>2. job[a].pc # "idle" /\ job[b].pc # "idle"
      BY <1>1, <1>2, <2>2
    <3> QED  BY <2>2, <3>1, <3>2, Alone
  <2> QED  BY <2>1, <2>2
<1>6. PendingOK' /\ ChainIntact' /\ ReturnedIsOnFile'
  BY <1>1 DEF Inv, PendingOK, Linked, Last, ChainIntact, Bad, ReturnedIsOnFile
<1>7. OrderOK'
  <2>1. ASSUME NEW s \in Seq(Row), Ordered(s), NEW i \in 1..Len(s)
        PROVE  s[i].prev < s[i].this /\ s[i].this <= hashed'
    <3>1. s[i] \in Row
      OBVIOUS
    <3> QED  BY <1>1, <2>1, <3>1 DEF Ordered, Row
  <2>2. log \in Seq(Row) /\ \A c \in Conns : pending[c] \in Seq(Row)
    BY DEF Inv, TypeOK
  <2> QED  BY <1>1, <2>1, <2>2 DEF Inv, OrderOK, Ordered
<1> QED  BY <1>5, <1>6, <1>7

LEMMA InsertStep ==
  ASSUME Inv, NEW a \in Actors, Insert(a)
  PROVE  (PendingOK /\ JobOK /\ OrderOK /\ ChainIntact /\ ReturnedIsOnFile)'
<1> DEFINE c == Conn(a)
           r == [prev |-> job[a].prev, this |-> job[a].this, intact |-> TRUE]
<1>t. /\ log \in Seq(Row) /\ pending \in [Conns -> Seq(Row)] /\ c \in Conns
      /\ pending[c] \in Seq(Row) /\ job \in [Actors -> Job] /\ job[a] \in Job /\ hashed \in Nat
  BY ConnTyped DEF Inv, TypeOK
<1>1. /\ UNCHANGED <<log, hashed, struck, returned>> /\ writer' = c
      /\ pending' = [pending EXCEPT ![c] = Append(@, r)]
      /\ job' = [job EXCEPT ![a] = [job[a] EXCEPT !.pc = "commit"]] /\ job[a].pc = "insert"
  BY DEF Insert, Become, At, history
<1>2. r \in Row /\ r.intact /\ r.prev = job[a].prev /\ r.this = job[a].this
  BY <1>t DEF Job, Row
<1>3. writer = c /\ job[a].prev = LastHash(a) /\ r.prev < r.this /\ r.this <= hashed
  BY <1>1, <1>2 DEF Inv, JobOK
<1>4. pending'[c] = Append(pending[c], r) /\ \A d \in Conns : d # c => pending'[d] = pending[d]
  BY <1>t, <1>1
<1>5. PendingOK'
  <2>1. r.prev = (IF pending[c] = <<>> THEN Last(log) ELSE pending[c][Len(pending[c])].this)
    BY <1>2, <1>3, LastHashIs DEF Inv, Open, Last
  <2>2. Last(log) \in Nat
    BY <1>t, LastOrdered DEF Inv, OrderOK
  <2>3. Linked(pending'[c], Last(log))
    BY <1>t, <1>2, <1>4, <2>1, <2>2, AppendLinked DEF Inv, PendingOK
  <2>4. \A d \in Conns : Linked(pending'[d], Last(log'))
    BY <1>1, <1>4, <2>3 DEF Inv, PendingOK, Last
  <2> QED  BY <1>1, <1>3, <1>4, <2>4 DEF Inv, PendingOK, Linked, Last
<1>6. OrderOK'
  <2>1. Ordered(pending'[c])
    <3>1. ASSUME NEW i \in 1..Len(pending[c]) + 1
          PROVE  Append(pending[c], r)[i].prev < Append(pending[c], r)[i].this
                 /\ Append(pending[c], r)[i].this <= hashed
      BY <1>t, <1>3, <3>1 DEF Inv, OrderOK, Ordered
    <3> QED  BY <1>t, <1>2, <1>4, <3>1 DEF Ordered
  <2> QED  BY <1>1, <1>4, <2>1 DEF Inv, OrderOK, Ordered
<1>7. JobOK'
  <2>1. job'[a].pc = "commit" /\ job'[a].this = r.this
    BY <1>t, <1>1, <1>2 DEF Job
  <2>2. /\ Len(pending[c]) + 1 \in 1..Len(pending'[c])
        /\ pending'[c][Len(pending[c]) + 1] = r
    BY <1>t, <1>2, <1>4
  <2>3. \A b \in Actors : b # a => job'[b].pc \notin {"tail", "insert", "commit"}
    <3>1. \A b \in Actors : b # a => job'[b] = job[b]
      BY <1>t, <1>1
    <3>2. \A b \in Actors : b # a /\ Conn(b) = c => job[b].pc = "idle"
      BY <1>1, Alone
    <3> QED  BY <1>3, <3>1, <3>2 DEF Inv, JobOK
  <2> QED  BY <1>1, <2>1, <2>2, <2>3 DEF JobOK, Conn
<1>8. ChainIntact' /\ ReturnedIsOnFile'
  BY <1>1 DEF Inv, ChainIntact, Bad, ReturnedIsOnFile
<1> QED  BY <1>5, <1>6, <1>7, <1>8

LEMMA CrashStep ==
  ASSUME Inv, NEW p \in Processes, Crash(p)
  PROVE  (PendingOK /\ JobOK /\ OrderOK /\ ChainIntact /\ ReturnedIsOnFile)'
<1> DEFINE dead == {a \in Actors : Process(a) = p}
           conns == {Conn(a) : a \in dead}
<1>1. /\ UNCHANGED <<log, hashed, struck, returned>>
      /\ pending' = [c \in Conns |-> IF c \in conns THEN <<>> ELSE pending[c]]
      /\ writer' = (IF writer \in conns THEN None ELSE writer)
      /\ job' = [a \in Actors |-> IF a \in dead THEN Idle ELSE job[a]]
  BY DEF Crash, history
<1>2. PendingOK'
  BY <1>1 DEF Inv, PendingOK, Linked, Last
<1>3. OrderOK'
  BY <1>1 DEF Inv, OrderOK, Ordered
<1>4. JobOK'
  <2> SUFFICES ASSUME NEW b \in Actors, job'[b].pc \in {"tail", "insert", "commit"}
               PROVE  /\ writer' = Conn(b)
                      /\ job'[b].pc = "insert" =>
                           /\ job'[b].prev = LastHash(b)'
                           /\ job'[b].prev < job'[b].this /\ job'[b].this <= hashed'
                      /\ job'[b].pc = "commit" =>
                           \E i \in 1..Len(pending'[Conn(b)]) :
                             pending'[Conn(b)][i].this = job'[b].this
    BY DEF JobOK, Conn
  <2>1. b \notin dead /\ job'[b] = job[b]
    BY <1>1 DEF Idle
  <2>2. Conn(b) \notin conns /\ Conn(b) \in Conns
    BY <2>1, ConnOfProcess, ConnTyped
  <2>3. writer = Conn(b)
    BY <2>1 DEF Inv, JobOK
  <2>4. writer' = writer /\ pending'[Conn(b)] = pending[Conn(b)]
    BY <1>1, <2>2, <2>3
  <2>5. LastHash(b)' = LastHash(b)
    BY <1>1, <2>4 DEF LastHash, Open, Conn
  <2> QED  BY <1>1, <2>1, <2>3, <2>4, <2>5 DEF Inv, JobOK
<1>5. ChainIntact' /\ ReturnedIsOnFile'
  BY <1>1 DEF Inv, ChainIntact, Bad, ReturnedIsOnFile
<1> QED  BY <1>2, <1>3, <1>4, <1>5

\* What happens to rows other than the last one is nothing to an append.
LEMMA TailStays ==
  ASSUME Inv, TypeOK', UNCHANGED <<pending, writer, job, hashed>>, Last(log') = Last(log)
  PROVE  PendingOK' /\ JobOK'
<1>1. \A a \in Actors : LastHash(a)' = LastHash(a)
  <2> TAKE a \in Actors
  <2>1. LastHash(a)' = (IF Open(Conn(a))' /\ pending'[Conn(a)] # <<>>
                        THEN Last(pending'[Conn(a)]) ELSE Last(log'))
    <3>1. log' \in Seq(Row) /\ pending'[Conn(a)] \in Seq(Row)
      BY ConnTyped DEF TypeOK, Inv
    <3>2. LastHash(a)' = (IF Open(Conn(a))' THEN Last(log' \o pending'[Conn(a)])
                          ELSE Last(log'))
      BY DEF LastHash, Last, Conn
    <3> QED  BY <3>1, <3>2, LastJoin
  <2> QED  BY <2>1, LastHashIs DEF Inv, Open
<1>2. JobOK'
  BY <1>1 DEF Inv, JobOK, Conn
<1>3. PendingOK'
  <2>1. \A c \in Conns : Linked(pending[c], Last(log'))
    BY DEF Inv, PendingOK
  <2> QED  BY <2>1 DEF Inv, PendingOK, Linked, Last
<1> QED  BY <1>2, <1>3

LEMMA AlterStep ==
  ASSUME Inv, TypeOK', NEW i \in 1..Len(log), Alter(i)
  PROVE  (PendingOK /\ JobOK /\ OrderOK /\ ChainIntact /\ ReturnedIsOnFile)'
<1>1. /\ log' = [log EXCEPT ![i].intact = FALSE] /\ struck = 0 /\ struck' = i
      /\ UNCHANGED <<pending, writer, job, hashed, returned>>
  BY DEF Alter, Strike
<1>2. log \in Seq(Row) /\ \A j \in 1..Len(log) : log[j] \in Row
  BY DEF Inv, TypeOK
<1>3. /\ Len(log') = Len(log)
      /\ \A j \in 1..Len(log) : log'[j].prev = log[j].prev /\ log'[j].this = log[j].this
      /\ \A j \in 1..Len(log) : j # i => log'[j] = log[j]
      /\ ~log'[i].intact
  BY <1>1, <1>2 DEF Row
<1>4. Last(log') = Last(log)
  BY <1>1, <1>2, <1>3 DEF Last
<1>5. PendingOK' /\ JobOK'
  BY <1>1, <1>4, TailStays
<1>6. OrderOK'
  BY <1>1, <1>3 DEF Inv, OrderOK, Ordered
<1>7. ReturnedIsOnFile'
  BY <1>1, <1>3 DEF Inv, ReturnedIsOnFile
<1>8. ChainIntact'
  <2>1. ASSUME NEW j \in 1..Len(log'), j < i
        PROVE  ~Bad(log', j)
    <3>1. ~Bad(log, j) /\ j \in 1..Len(log)
      BY <1>1, <1>3 DEF Inv, ChainIntact
    <3> QED  BY <1>2, <1>3, <2>1, <3>1 DEF Bad
  <2>2. Bad(log', i) /\ i \in 1..Len(log')
    BY <1>3 DEF Bad
  <2>3. struck' = i /\ i # 0
    BY <1>1, <1>2
  <2> QED  BY <2>1, <2>2, <2>3 DEF ChainIntact
<1> QED  BY <1>5, <1>6, <1>7, <1>8

LEMMA DropStep ==
  ASSUME Inv, TypeOK', NEW i \in 1..Len(log), Drop(i)
  PROVE  (PendingOK /\ JobOK /\ OrderOK /\ ChainIntact /\ ReturnedIsOnFile)'
<1>1. /\ log' = [j \in 1..Len(log) - 1 |-> log[IF j < i THEN j ELSE j + 1]]
      /\ i < Len(log) /\ struck = 0 /\ struck' = i /\ returned' = returned \ {log[i].this}
      /\ UNCHANGED <<pending, writer, job, hashed>>
  BY DEF Drop, Strike
<1>2. log \in Seq(Row) /\ (\A j \in 1..Len(log) : log[j] \in Row) /\ log' \in Seq(Row)
  BY DEF Inv, TypeOK
<1>3. /\ Len(log') = Len(log) - 1
      /\ \A j \in 1..Len(log) : j < i => log'[j] = log[j]
      /\ \A j \in 1..Len(log) : j > i => j - 1 \in 1..Len(log') /\ log'[j - 1] = log[j]
  BY <1>1, <1>2
<1>4. Last(log') = Last(log)
  <2>1. Len(log) \in 1..Len(log) /\ Len(log) > i /\ log # <<>>
    BY <1>1, <1>2
  <2>2. log'[Len(log')] = log[Len(log)] /\ Len(log') \in 1..Len(log') /\ log' # <<>>
    BY <1>2, <1>3, <2>1
  <2> QED  BY <2>1, <2>2 DEF Last
<1>5. PendingOK' /\ JobOK'
  BY <1>1, <1>4, TailStays
<1>6. OrderOK'
  BY <1>1, <1>2, <1>3 DEF Inv, OrderOK, Ordered
<1>7. ReturnedIsOnFile'
  <2>1. ASSUME NEW h \in returned, h # log[i].this
        PROVE  h \in {log'[j].this : j \in 1..Len(log')}
    <3>1. PICK j \in 1..Len(log) : h = log[j].this
      BY DEF Inv, ReturnedIsOnFile
    <3>2. CASE j < i
      BY <1>1, <1>3, <3>1, <3>2
    <3>3. CASE j > i
      BY <1>3, <3>1, <3>3
    <3> QED  BY <2>1, <3>1, <3>2, <3>3
  <2> QED  BY <1>1, <2>1 DEF ReturnedIsOnFile
<1>8. ChainIntact'
  <2>1. \A j \in 1..Len(log) : ~Bad(log, j)
    BY <1>1 DEF Inv, ChainIntact
  <2>2. ASSUME NEW j \in 1..Len(log'), j < i
        PROVE  ~Bad(log', j)
    <3>1. j \in 1..Len(log) /\ log'[j] = log[j] /\ (j # 1 => log'[j - 1] = log[j - 1])
      BY <1>1, <1>3, <2>2
    <3> QED  BY <2>1, <3>1 DEF Bad
  <2>3. Bad(log', i) /\ i \in 1..Len(log')
    \* Row i is now the one that was chained to the row that is gone.
    <3>1. i \in 1..Len(log') /\ log'[i] = log[i + 1] /\ i + 1 \in 1..Len(log)
      BY <1>1, <1>3
    <3>2. log[i + 1].prev = log[i].this
      BY <2>1, <3>1 DEF Bad
    <3>3. log[i].prev < log[i].this /\ log[i].this \in Nat /\ log[i].prev \in Nat
      BY <1>2 DEF Inv, OrderOK, Ordered, Row
    <3>4. log[i].prev = (IF i = 1 THEN 0 ELSE log[i - 1].this)
      BY <2>1 DEF Bad
    <3>5. i # 1 => log'[i - 1] = log[i - 1]
      BY <1>3
    <3> QED  BY <3>1, <3>2, <3>3, <3>4, <3>5 DEF Bad
  <2>4. struck' = i /\ i # 0
    BY <1>1, <1>2
  <2> QED  BY <2>2, <2>3, <2>4 DEF ChainIntact
<1> QED  BY <1>5, <1>6, <1>7, <1>8

\* The append lock is taken by who has none and freed by who is done.
LEMMA LockStep ==
  ASSUME Inv, [Next]_vars
  PROVE  LockOK'
<1>t. lock \in [Processes -> Actors \cup {None}] /\ job \in [Actors -> Job]
  BY DEF Inv, TypeOK
<1>1. CASE UNCHANGED <<lock, job>>
  BY <1>1 DEF Inv, LockOK, Process
<1>2. ASSUME NEW a \in Actors, Acquire(a)
      PROVE  LockOK'
  <2>1. /\ lock[Process(a)] = None /\ lock' = [lock EXCEPT ![Process(a)] = a]
        /\ \A b \in Actors : b # a => job'[b] = job[b]
    BY <1>2, <1>t DEF Acquire, Become
  <2>2. Process(a) \in Processes /\ lock'[Process(a)] = a
    BY <1>t, <2>1, ConnTyped
  <2>3. \A b \in Actors : b # a /\ job[b].pc # "idle" => Process(b) # Process(a)
    BY <2>1, AuditAssumption DEF AuditAssumption, Inv, LockOK
  <2>4. \A b \in Actors : Process(b) # Process(a) => lock'[Process(b)] = lock[Process(b)]
    BY <1>t, <2>1, ConnTyped
  <2> QED  BY <2>1, <2>2, <2>3, <2>4 DEF Inv, LockOK, Process
<1>3. ASSUME NEW a \in Actors, Release(a), job[a].pc # "idle"
      PROVE  LockOK'
  <2>1. /\ lock' = [lock EXCEPT ![Process(a)] = None]
        /\ job'[a].pc = "idle" /\ \A b \in Actors : b # a => job'[b] = job[b]
    BY <1>3, <1>t DEF Release, Become, Idle
  <2>2. \A b \in Actors : b # a /\ job[b].pc # "idle" => Process(b) # Process(a)
    BY <1>3 DEF Inv, LockOK
  <2>3. \A b \in Actors : Process(b) # Process(a) => lock'[Process(b)] = lock[Process(b)]
    BY <1>t, <2>1, ConnTyped
  <2> QED  BY <2>1, <2>2, <2>3 DEF Inv, LockOK, Process
<1>4. ASSUME NEW a \in Actors, UNCHANGED lock, job[a].pc # "idle",
             \E j : Become(a, j)
      PROVE  LockOK'
  <2>1. \A b \in Actors : b # a => job'[b] = job[b]
    BY <1>4, <1>t DEF Become
  <2> QED  BY <1>4, <2>1 DEF Inv, LockOK, Process
<1>5. ASSUME NEW p \in Processes, Crash(p)
      PROVE  LockOK'
  <2>1. /\ lock' = [lock EXCEPT ![p] = None]
        /\ \A b \in Actors : job'[b] = IF Process(b) = p THEN Idle ELSE job[b]
    BY <1>5 DEF Crash
  <2>2. \A b \in Actors : job'[b].pc # "idle" => Process(b) # p /\ job'[b] = job[b]
    BY <2>1 DEF Idle
  <2>3. \A b \in Actors : Process(b) # p => lock'[Process(b)] = lock[Process(b)]
    BY <1>t, <2>1, ConnTyped
  <2> QED  BY <2>1, <2>2, <2>3 DEF Inv, LockOK, Process
<1>6. ASSUME NEW a \in Actors, AppendStep(a)
      PROVE  LockOK'
  <2>1. CASE Begin(a) \/ ReadTail(a) \/ Insert(a)
    BY <1>4, <2>1 DEF Begin, ReadTail, Insert, At
  <2>2. CASE BusyTimeout(a) \/ Commit(a) \/ InsertFails(a) \/ CommitFails(a)
    BY <1>3, <2>2 DEF BusyTimeout, Commit, InsertFails, CommitFails, Undo, At
  <2> QED  BY <1>6, <2>1, <2>2 DEF AppendStep
<1> QED
  BY <1>1, <1>2, <1>5, <1>6
     DEF Next, Write, EndWrite, Alter, Drop, MonitorCycle, vars

LEMMA Step ==
  ASSUME Inv, [Next]_vars, [~Intrusion]_vars
  PROVE  Inv'
<1>t. TypeOK' /\ LockOK'
  BY TypeStep, LockStep DEF Inv
<1>1. CASE UNCHANGED <<log, pending, writer, job, hashed, struck, returned>>
  <2>1. JobOK'
    BY <1>1 DEF Inv, JobOK, LastHash, Open, Conn
  <2> QED  BY <1>t, <1>1, <2>1, Untouched DEF Inv
<1>2. ASSUME NEW a \in Actors, AppendStep(a)
      PROVE  Inv'
  <2>1. CASE Undo(a) /\ job[a].pc # "idle"
    BY <1>t, <2>1, UndoStep DEF Inv
  <2>2. CASE ~(Undo(a) /\ job[a].pc # "idle")
    BY <1>2, <1>t, <2>2, CommitStep, QuietStep, BeginStep, ReadTailStep, InsertStep
       DEF AppendStep, InsertFails, CommitFails, At, Inv
  <2> QED  BY <2>1, <2>2
<1>3. ASSUME NEW a \in Actors, Write(a) \/ EndWrite(a) \/ Acquire(a)
      PROVE  Inv'
  <2>1. CASE UNCHANGED vars
    BY <1>1, <2>1 DEF vars
  <2>2. CASE ~UNCHANGED vars
    BY <1>3, <1>t, <2>2, BeginStep, EndWriteStep, QuietStep DEF Inv, Intrusion
  <2> QED  BY <2>1, <2>2
<1>4. ASSUME NEW p \in Processes, Crash(p)
      PROVE  Inv'
  BY <1>4, <1>t, CrashStep DEF Inv
<1>5. ASSUME NEW i \in 1..Len(log), Alter(i) \/ Drop(i)
      PROVE  Inv'
  BY <1>5, <1>t, AlterStep, DropStep DEF Inv
<1> QED  BY <1>1, <1>2, <1>3, <1>4, <1>5 DEF Next, MonitorCycle, vars

\* Invariance of the strengthening as long as nobody intrudes.
THEOREM AuditInvariance == Spec /\ [][~Intrusion]_vars => []Inv
<1>1. Init => Inv
  BY InitOK
<1>2. Inv /\ [Next]_vars /\ [~Intrusion]_vars => Inv'
  BY Step
<1> QED  BY <1>1, <1>2, PTL DEF Spec

\* Types, whoever intrudes (TypeStep needs nothing else).
THEOREM AuditTypeCorrect == Spec => []TypeOK
<1>1. Init => TypeOK
  BY InitOK DEF Inv
<1>2. TypeOK /\ [Next]_vars => TypeOK'
  BY TypeStep
<1> QED  BY <1>1, <1>2, PTL DEF Spec

\* A fork of the chain takes an intrusion: in a behaviour without one,
\* Store.append_audit_chained keeps one chain, whatever threads share a
\* connection, interleave, fail or crash, and verify_chain points at the row
\* that was altered or lost.
THEOREM ForkTakesIntrusion == Spec /\ [][~Intrusion]_vars => []ChainIntact
<1>1. Inv => ChainIntact
  BY DEF Inv
<1> QED  BY <1>1, AuditInvariance, PTL

\* So does the loss of an acknowledged event: without an intrusion a hash that
\* append_audit_chained has returned names a row of the log.
THEOREM LossTakesIntrusion == Spec /\ [][~Intrusion]_vars => []ReturnedIsOnFile
<1>1. Inv => ReturnedIsOnFile
  BY DEF Inv
<1> QED  BY <1>1, AuditInvariance, PTL
=============================================================================
