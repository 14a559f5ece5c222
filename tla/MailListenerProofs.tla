------------------------- MODULE MailListenerProofs -------------------------
(***************************************************************************)
(* Proofs about MailListener, for any mailbox, chunk size, limit and       *)
(* faults.  A check that is under way works on chunk and rest, which with  *)
(* what is known cover every UID up to their largest one: that is why      *)
(* moving the cursor to the end of a chunk that was handled passes over    *)
(* nothing.                                                                *)
(***************************************************************************)
EXTENDS MailListener, FiniteSetTheorems, WellFoundedInduction, TLAPS

\* A check is under way.
Checking == listener.pc \in {"fetching", "ingesting"}

TypeInv == TypeOK /\ (Checking => listener.chunk # {})

LEMMA Sizes ==
  /\ MaxUid \in Nat /\ FetchChunk \in Nat \ {0} /\ MaxAttempts \in Nat \ {0}
  /\ MaxFaults \in Nat /\ Unset \notin Int
  /\ Uids \in SUBSET Nat /\ Uids \in SUBSET (0..MaxUid)
  BY MailListenerAssumption DEF Uids

-----------------------------------------------------------------------------
(* Least and greatest elements, and the smallest n of a set.               *)

LEMMA LeastExists ==
  ASSUME NEW S \in SUBSET Nat, S # {}
  PROVE  \E x \in S : \A y \in S : x <= y
<1>1. \E x \in S : \A y \in S : <<y, x>> \notin OpToRel(<, Nat)
  BY NatLessThanWellFounded, WFMin
<1>2. \A x, y \in Nat : <<y, x>> \notin OpToRel(<, Nat) => x <= y
  BY DEF OpToRel
<1> QED BY <1>1, <1>2

LEMMA MaxMin ==
  ASSUME NEW S \in SUBSET (0..MaxUid), S # {}
  PROVE  /\ Min(S) \in S /\ \A x \in S : Min(S) <= x
         /\ Max(S) \in S /\ \A x \in S : x <= Max(S)
<1>1. MaxUid \in Nat
  BY MailListenerAssumption
<1>2. \E x \in S : \A y \in S : x <= y
  BY <1>1, LeastExists
<1>3. \E x \in S : \A y \in S : x >= y
  <2> DEFINE T == {MaxUid - x : x \in S}
  <2>1. \A x \in S : MaxUid - x \in Nat
    BY <1>1
  <2>a. T \in SUBSET Nat /\ T # {}
    BY <2>1
  <2>2. \E m \in T : \A n \in T : m <= n
    BY <2>a, LeastExists
  <2>3. PICK x \in S : \A y \in S : MaxUid - x <= MaxUid - y
    BY <2>2
  <2> QED BY <1>1, <2>3
<1> QED BY <1>1, <1>2, <1>3 DEF Min, Max

LEMMA SmallestOK ==
  ASSUME NEW us \in SUBSET Uids, NEW n \in Nat \ {0}
  PROVE  /\ Smallest(n, us) \subseteq us
         /\ us # {} => Smallest(n, us) # {}
         /\ \A c \in Smallest(n, us), r \in us \ Smallest(n, us) : c < r
<1> DEFINE below(u) == {v \in us : v < u}
<1>1. us \subseteq Nat /\ us \subseteq 0..MaxUid
  BY Sizes
<1>2. IsFiniteSet(us)
  <2>1. IsFiniteSet(0..MaxUid)
    BY Sizes, FS_Interval
  <2> QED BY <1>1, <2>1, FS_Subset
<1>3. \A u \in us : IsFiniteSet(below(u)) /\ Cardinality(below(u)) \in Nat
  BY <1>2, FS_Subset, FS_CardinalityType
<1>4. ASSUME us # {} PROVE Smallest(n, us) # {}
  <2>1. PICK x \in us : \A y \in us : x <= y
    BY <1>1, <1>4, LeastExists
  <2>2. \A v \in us : ~(v < x)
    BY <1>1, <2>1
  <2>3. below(x) = {}
    BY <2>2
  <2> QED BY <2>3, FS_EmptySet DEF Smallest
<1>5. ASSUME NEW c \in Smallest(n, us), NEW r \in us \ Smallest(n, us), ~(c < r)
      PROVE  FALSE
  <2>1. c \in us /\ Cardinality(below(c)) < n /\ ~(Cardinality(below(r)) < n)
    BY <1>5 DEF Smallest
  <2>a. \A v \in us : v < r => v < c
    BY <1>1, <1>5, <2>1
  <2>2. below(r) \subseteq below(c)
    BY <2>a
  <2>3. Cardinality(below(r)) <= Cardinality(below(c))
    BY <1>3, <2>1, <2>2, FS_Subset
  <2> QED BY <1>3, <1>5, <2>1, <2>3
<1> QED BY <1>4, <1>5 DEF Smallest

-----------------------------------------------------------------------------
(* Type correctness.                                                       *)

LEMMA StartedOK == Started \in Listener /\ Started.pc = "down"
  BY DEF Started, Listener

\* A session is over, or idle again.
LEMMA Ended ==
  ASSUME NEW pc \in {"idle", "sleeping"},
         listener' = [Started EXCEPT !.pc = pc, !.backfilled = TRUE]
  PROVE  listener' \in Listener /\ listener'.pc = pc
  BY DEF Started, Listener

\* A chunk is taken up, the first or the next.
LEMMA FirstChunk ==
  ASSUME listener \in Listener, NEW c \in SUBSET Uids, NEW rs \in SUBSET Uids,
         NEW i \in BOOLEAN,
         listener' = [listener EXCEPT !.pc = "fetching", !.initial = i, !.chunk = c, !.rest = rs]
  PROVE  listener' \in Listener /\ At("fetching")' /\ listener'.chunk = c /\ listener'.rest = rs
  BY DEF Listener, At

LEMMA NextChunk ==
  ASSUME listener \in Listener, NEW c \in SUBSET Uids, NEW rs \in SUBSET Uids,
         listener' = [listener EXCEPT !.pc = "fetching", !.chunk = c, !.rest = rs]
  PROVE  listener' \in Listener /\ At("fetching")' /\ listener'.chunk = c /\ listener'.rest = rs
  BY DEF Listener, At

LEMMA CheckDoneOK ==
  ASSUME TypeOK, NEW e \in BOOLEAN, NEW i \in BOOLEAN, CheckDone(e, i)
  PROVE  listener' \in Listener /\ ~Checking' /\ waiting' = FALSE
  BY Ended DEF CheckDone, Checking

LEMMA FloorOK ==
  ASSUME TypeOK
  PROVE  /\ Floor \in 0..MaxUid /\ NewUids \in SUBSET Uids
         /\ \A initial \in BOOLEAN : Targets(initial) \in SUBSET Uids
         /\ cursor # Unset => Floor = cursor
         /\ cursor = Unset => Floor \in Stored \cup {0}
<1>1. Stored \cup {0} \in SUBSET (0..MaxUid) /\ Stored \cup {0} # {}
  BY MailListenerAssumption DEF Stored, Uids
<1>2. Floor \in 0..MaxUid
  BY <1>1, MaxMin DEF Floor, TypeOK
<1>3. NewUids \in SUBSET Uids
  BY <1>2, MailListenerAssumption DEF NewUids, Uids, TypeOK
<1> QED BY <1>1, <1>2, <1>3, MaxMin DEF Targets, Largest, Floor

LEMMA FaultOK ==
  ASSUME TypeOK, NEW f, Fault(f)
  PROVE  faults' \in 0..MaxFaults
  BY MailListenerAssumption DEF TypeOK, Fault

LEMMA InitType == Init => TypeInv
<1> SUFFICES ASSUME Init PROVE TypeInv
  OBVIOUS
<1>1. listener \in Listener /\ ~Checking
  BY StartedOK DEF Init, Checking
<1>2. delivered \in 0..MaxUid /\ cursor \in 0..MaxUid \cup {Unset} /\ faults \in 0..MaxFaults
  BY Sizes DEF Init
<1>3. failures \in [Uids -> 0..MaxAttempts - 1]
  BY Sizes DEF Init
<1> QED BY <1>1, <1>2, <1>3 DEF Init, TypeInv, TypeOK

LEMMA StartCheckType ==
  ASSUME TypeInv, NEW initial \in BOOLEAN, StartCheck(initial), UNCHANGED faults
  PROVE  TypeInv'
<1> DEFINE us == Targets(initial)
           chunk == Smallest(FetchChunk, us)
<1>1. /\ Floor \in 0..MaxUid /\ NewUids \in SUBSET Uids /\ us \in SUBSET Uids
      /\ chunk \subseteq us /\ (us # {} => chunk # {})
  BY FloorOK, SmallestOK, MailListenerAssumption DEF TypeInv
<1>2. CASE us = {}
  BY <1>1, <1>2, CheckDoneOK DEF StartCheck, TypeInv, TypeOK, triage
<1>3. CASE us # {}
  <2>a. listener \in Listener /\ chunk \in SUBSET Uids /\ us \ chunk \in SUBSET Uids
    BY <1>1 DEF TypeInv, TypeOK
  <2>b. listener' = [listener EXCEPT !.pc = "fetching", !.initial = initial, !.chunk = chunk,
                                     !.rest = us \ chunk]
    BY <1>3 DEF StartCheck
  <2>1. listener' \in Listener /\ listener'.chunk = chunk
    <3> HIDE DEF us, chunk
    <3> QED BY <2>a, <2>b, FirstChunk
  <2> QED BY <1>1, <1>3, <2>1 DEF StartCheck, TypeInv, TypeOK, Checking, triage
<1> QED BY <1>2, <1>3

\* The mail that is handled next.
LEMMA NextMail ==
  ASSUME TypeInv, Ingest
  PROVE  Min(listener.todo) \in listener.todo /\ Min(listener.todo) \in Uids
<1>1. listener.todo \in SUBSET Uids /\ listener.todo # {}
  BY DEF Ingest, TypeInv, TypeOK, Listener
<1>2. listener.todo \in SUBSET (0..MaxUid)
  BY <1>1, Sizes
<1> QED BY <1>1, <1>2, MaxMin

LEMMA IngestType ==
  ASSUME TypeInv, Ingest
  PROVE  TypeInv'
<1> DEFINE u == Min(listener.todo)
<1>1. u \in listener.todo /\ u \in Uids
  BY NextMail
<1>2. ASSUME NEW c \in BOOLEAN, Handle(u, c)
      PROVE  listener' \in Listener /\ (Checking' => listener'.chunk # {})
  BY <1>2 DEF Handle, TypeInv, TypeOK, Listener, Checking
<1>3. CASE IngestOne(u)
  <2>1. listener' \in Listener /\ (Checking' => listener'.chunk # {})
    BY <1>2, <1>3 DEF IngestOne
  <2>2. failures' \in [Uids -> 0..MaxAttempts - 1]
    <3>1. 0 \in 0..MaxAttempts - 1
      BY Sizes
    <3> QED BY <1>3, <3>1 DEF IngestOne, TypeInv, TypeOK
  <2>3. message' \in [Uids -> {"none", "stored", "triaged"}] /\ work_q' \subseteq Uids
    BY <1>1, <1>3 DEF IngestOne, TypeInv, TypeOK
  <2> QED BY <1>3, <2>1, <2>2, <2>3 DEF IngestOne, Ingest, TypeInv, TypeOK, events
<1>4. CASE IngestPoison(u) \/ IngestBusy(u)
  <2>1. PICK n \in {failures[u], failures[u] + 1} : Unhandled(u, n, MaxAttempts)
    BY <1>4 DEF IngestPoison, IngestBusy
  <2>2. n \in Nat
    BY <1>1, <2>1, MailListenerAssumption DEF TypeInv, TypeOK
  <2>a. failures' \in [Uids -> 0..MaxAttempts - 1]
    <3>1. CASE n >= MaxAttempts
      BY <2>1, <3>1, Sizes DEF Unhandled, TypeInv, TypeOK
    <3>2. CASE ~(n >= MaxAttempts)
      <4>1. n \in 0..MaxAttempts - 1
        BY <2>2, <3>2, Sizes
      <4> QED BY <2>1, <3>2, <4>1 DEF Unhandled, TypeInv, TypeOK
    <3> QED BY <3>1, <3>2
  <2>3. skipped' \subseteq Uids /\ early' \subseteq Uids
    BY <1>1, <2>1 DEF Unhandled, TypeInv, TypeOK
  <2>4. listener' \in Listener /\ (Checking' => listener'.chunk # {})
    BY <1>2, <2>1 DEF Unhandled
  <2>5. faults' \in 0..MaxFaults
    BY <1>4, FaultOK DEF IngestPoison, IngestBusy, TypeInv, TypeOK
  <2> QED BY <2>1, <2>a, <2>3, <2>4, <2>5 DEF Unhandled, Ingest, TypeInv, TypeOK, events
<1> QED BY <1>3, <1>4 DEF Ingest

\* Where the cursor goes at the end of a chunk.
LEMMA CursorMoves ==
  ASSUME TypeInv, Checking
  PROVE  LET c == IF cursor = Unset THEN 0 ELSE cursor
             m == Max(listener.chunk)
             to == Max({c, m}) IN
         /\ m \in listener.chunk /\ \A u \in listener.chunk : u <= m
         /\ to \in 0..MaxUid /\ c <= to /\ m <= to /\ to \in {c, m}
<1> DEFINE c == IF cursor = Unset THEN 0 ELSE cursor
           m == Max(listener.chunk)
<1>1. listener.chunk \in SUBSET (0..MaxUid) /\ listener.chunk # {}
  BY MailListenerAssumption DEF TypeInv, TypeOK, Listener, Uids
<1>2. m \in listener.chunk /\ \A u \in listener.chunk : u <= m
  BY <1>1, MaxMin
<1>3. c \in 0..MaxUid
  BY MailListenerAssumption DEF TypeInv, TypeOK
<1>4. {c, m} \in SUBSET (0..MaxUid) /\ {c, m} # {}
  BY <1>1, <1>2, <1>3
<1> HIDE DEF c, m
<1>5. Max({c, m}) \in {c, m} /\ c <= Max({c, m}) /\ m <= Max({c, m})
  BY <1>4, MaxMin
<1> QED BY <1>2, <1>4, <1>5 DEF c, m

LEMMA EndChunkType ==
  ASSUME TypeInv, AdvanceCursor
  PROVE  TypeInv'
<1> DEFINE next == Smallest(FetchChunk, listener.rest)
<1>1. next \subseteq listener.rest /\ listener.rest \subseteq Uids
  BY SmallestOK, MailListenerAssumption DEF TypeInv, TypeOK, Listener
<1>2. cursor' \in 0..MaxUid \cup {Unset}
  BY CursorMoves DEF AdvanceCursor, EndChunk, At, Checking, TypeInv, TypeOK
<1>3. listener' \in Listener /\ (Checking' => listener'.chunk # {}) /\ waiting' \in BOOLEAN
  <2>1. CASE listener.complete /\ next # {}
    <3>1. listener \in Listener /\ next \in SUBSET Uids /\ listener.rest \ next \in SUBSET Uids
      BY <1>1 DEF TypeInv, TypeOK
    <3>2. /\ listener' = [listener EXCEPT !.pc = "fetching", !.chunk = next,
                                           !.rest = listener.rest \ next]
          /\ UNCHANGED waiting
      BY <2>1 DEF AdvanceCursor, EndChunk
    <3>3. listener' \in Listener /\ listener'.chunk = next
      <4> HIDE DEF next
      <4> QED BY <3>1, <3>2, NextChunk
    <3> QED BY <2>1, <3>2, <3>3 DEF TypeInv, TypeOK
  <2>2. CASE ~(listener.complete /\ next # {})
    BY <2>2, CheckDoneOK DEF AdvanceCursor, EndChunk, TypeInv, TypeOK, Listener
  <2> QED BY <2>1, <2>2
<1> QED BY <1>2, <1>3 DEF AdvanceCursor, EndChunk, TypeInv, TypeOK, tables, events, triage, history

LEMMA SessionType ==
  ASSUME TypeInv, Session \/ Failing \/ IdleEnds \/ Reconnect
  PROVE  TypeInv'
<1> USE DEF tables, events, triage, history
<1>1. CASE Connect
  <2>1. CASE ~listener.backfilled \/ refresh_requested
    BY <1>1, <2>1, StartCheckType DEF Connect, TypeInv, TypeOK, Listener
  <2>2. CASE ~(~listener.backfilled \/ refresh_requested)
    BY <1>1, <2>2 DEF Connect, Goto, TypeInv, TypeOK, Listener, Checking
  <2> QED BY <2>1, <2>2
<1>2. CASE IdleEnds
  BY <1>2, StartCheckType DEF IdleEnds
<1>3. CASE Fetch
  BY <1>3 DEF Fetch, At, TypeInv, TypeOK, Listener, Checking
<1>4. CASE WakeUp \/ Reconnect
  BY <1>4 DEF WakeUp, Reconnect, Goto, TypeInv, TypeOK, Listener, Checking
<1>5. CASE ConnectFails \/ SearchFails \/ CheckFails
  <2>1. faults' \in 0..MaxFaults
    BY <1>5, FaultOK DEF ConnectFails, SearchFails, CheckFails, TypeInv
  <2>2. listener' \in Listener /\ ~Checking'
    <3>1. CASE ConnectFails
      BY <3>1 DEF ConnectFails, Goto, TypeInv, TypeOK, Listener, Checking
    <3>2. CASE SearchFails \/ CheckFails
      BY <3>2, CheckDoneOK DEF SearchFails, CheckFails, TypeInv, TypeOK, Listener
    <3> QED BY <1>5, <3>1, <3>2
  <2> QED BY <1>5, <2>1, <2>2 DEF ConnectFails, SearchFails, CheckFails, CheckDone, TypeInv, TypeOK
<1> QED BY <1>1, <1>2, <1>3, <1>4, <1>5, IngestType, EndChunkType DEF Session, Failing

LEMMA NextType ==
  ASSUME TypeInv, [Next]_vars
  PROVE  TypeInv'
<1> USE DEF tables, events, triage, history
<1>1. CASE Deliver
  BY <1>1, MailListenerAssumption DEF Deliver, TypeInv, TypeOK, Checking
<1>2. CASE RequestRefresh \/ GiveUpWaiting
  BY <1>2 DEF RequestRefresh, GiveUpWaiting, TypeInv, TypeOK, Checking
<1>3. CASE Recover \/ RecoverFails
  <2>1. faults' \in 0..MaxFaults
    BY <1>3, FaultOK DEF Recover, RecoverFails, TypeInv, TypeOK
  <2> QED BY <1>3, <2>1 DEF Recover, RecoverFails, Largest, Untriaged, TypeInv, TypeOK, Checking
<1>4. CASE \E u \in Uids : Triage(u) \/ TriageFails(u)
  <2>1. faults' \in 0..MaxFaults
    BY <1>4, FaultOK DEF Triage, TriageFails, TypeInv, TypeOK
  <2> QED BY <1>4, <2>1 DEF Triage, TriageFails, TypeInv, TypeOK, Checking
<1>5. CASE Crash
  <2>1. faults' \in 0..MaxFaults
    BY <1>5, FaultOK DEF Crash, TypeInv
  <2>2. failures' \in [Uids -> 0..MaxAttempts - 1]
    BY <1>5, Sizes DEF Crash
  <2> QED BY <1>5, <2>1, <2>2, StartedOK DEF Crash, TypeInv, TypeOK, Checking
<1>6. CASE UNCHANGED vars
  BY <1>6 DEF vars, TypeInv, TypeOK, Checking
<1> QED BY <1>1, <1>2, <1>3, <1>4, <1>5, <1>6, SessionType DEF Next, Consumer

\* TypeInv is an invariant.
THEOREM TypeInvariance == Spec => []TypeInv
  BY InitType, NextType, PTL DEF Spec

\* The state of listener, cursor and queue is always one the code can be in.
THEOREM MailTypeCorrect == Spec => []TypeOK
  BY TypeInvariance, PTL DEF TypeInv

-----------------------------------------------------------------------------
(* Mail given up, refreshes and the queue.                                 *)

\* Only IngestPoison gives a mail up: IngestBusy does not count towards it.
LEMMA SkipStep ==
  ASSUME TypeInv, OnlyPoisonSkipped, [Next]_vars
  PROVE  OnlyPoisonSkipped'
<1> USE DEF tables, events, triage, history
<1>1. CASE Ingest
  <2> DEFINE u == Min(listener.todo)
  <2>1. u \in Uids
    BY <1>1, NextMail
  <2>2. CASE IngestOne(u)
    BY <2>2 DEF IngestOne, OnlyPoisonSkipped
  <2>3. CASE IngestPoison(u)
    BY <2>3 DEF IngestPoison, Unhandled, OnlyPoisonSkipped
  <2>4. CASE IngestBusy(u)
    <3>1. ~(failures[u] >= MaxAttempts)
      <4>1. failures[u] \in 0..MaxAttempts - 1
        BY <2>1 DEF TypeInv, TypeOK
      <4> QED BY <4>1, Sizes
    <3> QED BY <2>4, <3>1 DEF IngestBusy, Unhandled, OnlyPoisonSkipped
  <2> QED BY <1>1, <2>2, <2>3, <2>4 DEF Ingest
<1>2. CASE Connect \/ IdleEnds \/ Fetch \/ WakeUp \/ Reconnect \/ AdvanceCursor
  BY <1>2 DEF Connect, IdleEnds, StartCheck, Fetch, WakeUp, Reconnect, AdvanceCursor, EndChunk,
              OnlyPoisonSkipped
<1>3. CASE Failing \/ Deliver \/ RequestRefresh \/ GiveUpWaiting \/ Consumer \/ Crash
  BY <1>3 DEF Failing, ConnectFails, SearchFails, CheckFails, Deliver, RequestRefresh, GiveUpWaiting, Consumer,
              Recover, RecoverFails, Triage, TriageFails, Crash, OnlyPoisonSkipped
<1>4. CASE UNCHANGED vars
  BY <1>4 DEF vars, OnlyPoisonSkipped
<1> QED BY <1>1, <1>2, <1>3, <1>4 DEF Next, Session

\* A busy database never costs a mail: what is given up the parser cannot read.
THEOREM OnlyPoisonIsSkipped == Spec => []OnlyPoisonSkipped
<1>1. Init => OnlyPoisonSkipped
  BY DEF Init, OnlyPoisonSkipped
<1> QED BY <1>1, SkipStep, TypeInvariance, PTL DEF Spec

LEMMA RefreshStep ==
  ASSUME TypeInv, RefreshNeverHangs, [Next]_vars
  PROVE  RefreshNeverHangs'
<1> USE DEF tables, events, triage, history, RefreshNeverHangs, At
<1>1. ASSUME NEW initial \in BOOLEAN, StartCheck(initial)
      PROVE  RefreshNeverHangs'
  <2>1. CASE Targets(initial) = {}
    BY <1>1, <2>1 DEF StartCheck, CheckDone
  <2>2. CASE Targets(initial) # {}
    BY <1>1, <2>2 DEF StartCheck, TypeInv, TypeOK, Listener
  <2> QED BY <2>1, <2>2
<1>2. CASE Connect
  BY <1>1, <1>2 DEF Connect, Goto, TypeInv, TypeOK, Listener
<1>3. CASE IdleEnds
  BY <1>1, <1>3 DEF IdleEnds
<1>4. CASE Ingest
  <2>1. listener'.pc = listener.pc /\ UNCHANGED events
    BY <1>4 DEF Ingest, IngestOne, IngestPoison, IngestBusy, Unhandled, Handle, TypeInv, TypeOK,
                Listener
  <2> QED BY <2>1
<1>5. CASE AdvanceCursor
  BY <1>5 DEF AdvanceCursor, EndChunk, CheckDone, TypeInv, TypeOK, Listener
<1>6. CASE Fetch \/ WakeUp \/ Reconnect
  BY <1>6 DEF Fetch, WakeUp, Reconnect, Goto, TypeInv, TypeOK, Listener
<1>7. CASE Failing \/ Deliver \/ RequestRefresh \/ GiveUpWaiting \/ Consumer \/ Crash
  BY <1>7 DEF Failing, ConnectFails, SearchFails, CheckFails, CheckDone, Deliver, RequestRefresh, GiveUpWaiting,
              Consumer, Recover, RecoverFails, Triage, TriageFails, Crash
<1>8. CASE UNCHANGED vars
  BY <1>8 DEF vars
<1> QED BY <1>2, <1>3, <1>4, <1>5, <1>6, <1>7, <1>8 DEF Next, Session

\* Whoever waits for a refresh has a request pending or a check under way:
\* no way out of a check, failed or not, leaves the waiter behind.
THEOREM RefreshIsHeard == Spec => []RefreshNeverHangs
<1>1. Init => RefreshNeverHangs
  BY DEF Init, RefreshNeverHangs
<1> QED BY <1>1, RefreshStep, TypeInvariance, PTL DEF Spec

LEMMA KnownStep ==
  ASSUME TypeInv, UntriagedIsKnown, [Next]_vars
  PROVE  UntriagedIsKnown'
<1> USE DEF tables, events, triage, history, UntriagedIsKnown, Untriaged
<1>1. CASE Ingest
  <2> DEFINE u == Min(listener.todo)
  <2>1. u \in Uids
    BY <1>1, NextMail
  <2>2. CASE IngestOne(u)
    BY <1>1, <2>1, <2>2 DEF IngestOne, Ingest, TypeInv, TypeOK
  <2>3. CASE IngestPoison(u) \/ IngestBusy(u)
    BY <1>1, <2>3 DEF IngestPoison, IngestBusy, Unhandled, Ingest
  <2> QED BY <1>1, <2>2, <2>3 DEF Ingest
<1>2. CASE Connect \/ IdleEnds \/ Fetch \/ WakeUp \/ Reconnect \/ AdvanceCursor
  BY <1>2 DEF Connect, IdleEnds, StartCheck, Fetch, WakeUp, Reconnect, AdvanceCursor, EndChunk
<1>3. CASE Failing \/ Deliver \/ RequestRefresh \/ GiveUpWaiting \/ Crash
  BY <1>3 DEF Failing, ConnectFails, SearchFails, CheckFails, Deliver, RequestRefresh, GiveUpWaiting, Crash
<1>4. CASE Recover \/ RecoverFails
  BY <1>4 DEF Recover, RecoverFails
<1>5. CASE \E u \in Uids : Triage(u) \/ TriageFails(u)
  BY <1>5 DEF Triage, TriageFails, TypeInv, TypeOK
<1>6. CASE UNCHANGED vars
  BY <1>6 DEF vars
<1> QED BY <1>1, <1>2, <1>3, <1>4, <1>5, <1>6 DEF Next, Session, Consumer

\* A message stored and not triaged is queued, or waits for a recovery, in this
\* run of the server or the next.
THEOREM UntriagedIsFound == Spec => []UntriagedIsKnown
<1>1. Init => UntriagedIsKnown
  BY DEF Init, UntriagedIsKnown, Untriaged
<1> QED BY <1>1, KnownStep, TypeInvariance, PTL DEF Spec

-----------------------------------------------------------------------------
(* The cursor.                                                             *)

Known(u) == message[u] # "none" \/ u \in skipped \cup left_out \cup early

\* The search starts behind the cursor, or behind any mail that is stored.
Behind ==
  /\ cursor # Unset => \A u \in Uids : u <= cursor => Known(u)
  /\ cursor = Unset => \A w \in Stored, u \in Uids : u <= w => Known(u)

\* chunk and rest lie one behind the other and miss nothing up to their end.
Covers ==
  /\ \A c \in listener.chunk, x \in listener.rest : c < x
  /\ \A u \in Uids, c \in listener.chunk \cup listener.rest :
       u <= c => u \in listener.chunk \cup listener.rest \/ Known(u)

\* What was taken off todo was handled, unless the chunk is not complete; without
\* a cursor row even then it was stored, or it is one of early.
Handled ==
  At("ingesting") =>
    /\ listener.todo \subseteq listener.chunk
    /\ listener.complete \/ cursor = Unset =>
         \A u \in listener.chunk \ listener.todo : Known(u)

CursorInv == Behind /\ (Checking => Covers) /\ Handled

\* No mail is unlearned.
Learns == \A u \in Uids : Known(u) => Known(u)'

\* Where the next check begins, everything before is known.
LEMMA FloorKnown ==
  ASSUME TypeOK, Behind
  PROVE  \A u \in Uids : u <= Floor => Known(u)
<1>1. CASE cursor # Unset
  BY <1>1, FloorOK DEF Behind
<1>2. CASE cursor = Unset
  <2> SUFFICES ASSUME NEW u \in Uids, u <= Floor
               PROVE  Known(u)
    OBVIOUS
  <2>1. Floor # 0
    BY Sizes DEF Uids
  <2>2. Floor \in Stored
    BY <1>2, <2>1, FloorOK
  <2> QED BY <1>2, <2>2 DEF Behind
<1> QED BY <1>1, <1>2

LEMMA Still ==
  ASSUME CursorInv, Learns, UNCHANGED cursor, Stored' \subseteq Stored,
         listener' = listener \/ ~Checking', listener \in Listener
  PROVE  CursorInv'
<1>1. Behind'
  BY DEF CursorInv, Behind, Learns
<1>2. Checking' => Covers'
  BY DEF CursorInv, Checking, Covers, Learns
<1>3. Handled'
  BY DEF CursorInv, Checking, Handled, Learns, At, Listener
<1> QED BY <1>1, <1>2, <1>3 DEF CursorInv

LEMMA StartCheckCursor ==
  ASSUME TypeInv, CursorInv, NEW initial \in BOOLEAN, StartCheck(initial), UNCHANGED faults
  PROVE  CursorInv'
<1> DEFINE us == Targets(initial)
           chunk == Smallest(FetchChunk, us)
<1>1. /\ us \in SUBSET Uids /\ us \subseteq NewUids /\ Floor \in 0..MaxUid
      /\ left_out' = left_out \cup (NewUids \ us) /\ UNCHANGED <<message, skipped, early>>
  BY FloorOK DEF StartCheck, Targets, Largest, TypeInv
<1>2. Learns /\ Stored' = Stored
  BY <1>1 DEF Learns, Known, Stored
<1>3. \A u \in Uids : u <= Floor => Known(u)
  BY FloorKnown DEF CursorInv, TypeInv
<1>4. CASE us = {}
  <2>1. cursor' = Floor /\ ~Checking'
    BY <1>4, CheckDoneOK DEF StartCheck, TypeInv
  <2>2. Behind'
    BY <1>1, <1>2, <1>3, <2>1, Sizes DEF Behind, Learns
  <2> QED BY <2>1, <2>2 DEF CursorInv, Checking, Handled, At
<1>5. CASE us # {}
  <2>1. chunk \subseteq us /\ \A c \in chunk, x \in us \ chunk : c < x
    BY <1>1, SmallestOK, Sizes
  <2>2. UNCHANGED cursor /\ At("fetching")' /\ listener'.chunk = chunk /\ listener'.rest = us \ chunk
    <3>1. listener' = [listener EXCEPT !.pc = "fetching", !.initial = initial, !.chunk = chunk,
                                       !.rest = us \ chunk]
      BY <1>5 DEF StartCheck
    <3>2. listener \in Listener /\ chunk \in SUBSET Uids /\ us \ chunk \in SUBSET Uids
      BY <1>1, <2>1 DEF TypeInv, TypeOK
    <3>3. UNCHANGED cursor
      BY <1>5 DEF StartCheck
    <3> HIDE DEF us, chunk
    <3> QED BY <3>1, <3>2, <3>3, FirstChunk
  <2>3. ASSUME NEW u \in Uids, NEW c \in us, u <= c
        PROVE  u \in us \/ Known(u)'
    <3>1. CASE u <= Floor
      BY <1>2, <1>3, <3>1 DEF Learns
    <3>2. CASE ~(u <= Floor)
      <4>1. u \in NewUids
        BY <1>1, <2>3, <3>2, Sizes DEF NewUids, TypeInv, TypeOK, Uids
      <4> QED BY <1>1, <4>1 DEF Known
    <3> QED BY <3>1, <3>2
  <2>4. Covers'
    <3> HIDE DEF us, chunk
    <3> QED BY <2>1, <2>2, <2>3 DEF Covers
  <2>5. Behind'
    BY <1>2, <2>2 DEF CursorInv, Behind, Learns
  <2> QED BY <2>2, <2>4, <2>5 DEF CursorInv, Handled, At
<1> QED BY <1>4, <1>5

LEMMA IngestCursor ==
  ASSUME TypeInv, CursorInv, Ingest
  PROVE  CursorInv'
<1>1. PICK u \in listener.todo : u \in Uids /\ u = Min(listener.todo)
  BY NextMail
<1>2. PICK c \in BOOLEAN : /\ Handle(u, c) /\ Learns /\ Stored' \subseteq Stored \cup {u}
                           /\ c \/ cursor = Unset => Known(u)'
  <2>1. CASE IngestOne(u)
    <3>1. Handle(u, TRUE) /\ Known(u)' /\ Learns /\ Stored' \subseteq Stored \cup {u}
      BY <1>1, <2>1 DEF IngestOne, Ingest, Known, Learns, Stored, TypeInv, TypeOK
    <3> QED BY <3>1
  <2>2. CASE IngestPoison(u) \/ IngestBusy(u)
    <3>1. PICK n \in {failures[u], failures[u] + 1} : Unhandled(u, n, MaxAttempts)
      BY <2>2 DEF IngestPoison, IngestBusy
    <3>2. CASE n >= MaxAttempts
      <4>1. Handle(u, TRUE) /\ Known(u)' /\ Learns /\ Stored' = Stored
        BY <3>1, <3>2 DEF Unhandled, Ingest, Known, Learns, Stored
      <4> QED BY <4>1
    <3>3. CASE ~(n >= MaxAttempts)
      <4>1. Handle(u, FALSE) /\ (cursor = Unset => Known(u)') /\ Learns /\ Stored' = Stored
        BY <3>1, <3>3 DEF Unhandled, Ingest, Known, Learns, Stored
      <4> QED BY <4>1
    <3> QED BY <3>2, <3>3
  <2> QED BY <1>1, <2>1, <2>2 DEF Ingest
<1>3. /\ listener'.pc = listener.pc /\ listener'.chunk = listener.chunk
      /\ listener'.rest = listener.rest /\ listener'.todo = listener.todo \ {u}
      /\ listener'.complete = (listener.complete /\ c)
  BY <1>2 DEF Handle, TypeInv, TypeOK, Listener
<1>4. UNCHANGED cursor /\ At("ingesting") /\ Checking
  BY DEF Ingest, At, Checking
<1>5. /\ listener.todo \subseteq listener.chunk /\ listener.chunk \subseteq Uids
      /\ listener.rest \subseteq Uids
  BY <1>4 DEF CursorInv, Handled, TypeInv, TypeOK, Listener
<1>6. Handled'
  <2>1. ASSUME listener'.complete \/ cursor' = Unset, NEW x \in listener'.chunk \ listener'.todo
        PROVE  Known(x)'
    <3>1. /\ (c /\ listener.complete) \/ cursor = Unset
          /\ (x = u \/ x \in listener.chunk \ listener.todo) /\ x \in Uids
      BY <1>3, <1>4, <1>5, <2>1
    <3>2. x # u => Known(x)
      BY <1>4, <3>1 DEF CursorInv, Handled
    <3> QED BY <1>2, <3>1, <3>2 DEF Learns
  <2> QED BY <1>3, <1>5, <2>1 DEF Handled
<1>7. Covers'
  BY <1>2, <1>3, <1>4 DEF Covers, CursorInv, Learns
<1>8. Behind'
  <2>1. ASSUME cursor' # Unset, NEW x \in Uids, x <= cursor'
        PROVE  Known(x)'
    BY <1>2, <1>4, <2>1 DEF CursorInv, Behind, Learns
  \* The mails of a chunk are handled in their order.
  <2>2. ASSUME cursor' = Unset, NEW w \in Stored', NEW x \in Uids, x <= w
        PROVE  Known(x)'
    <3>1. CASE w \in Stored
      BY <1>2, <1>4, <2>2, <3>1 DEF CursorInv, Behind, Learns
    <3>2. CASE w = u
      <4>1. x \notin listener.rest
        BY <1>1, <1>4, <1>5, <2>2, <3>2, Sizes DEF CursorInv, Covers
      <4>2. x \in listener.todo => x = u
        <5>1. listener.todo \in SUBSET (0..MaxUid) /\ listener.todo # {}
          BY <1>1, <1>5, Sizes
        <5>2. \A y \in listener.todo : u <= y
          BY <1>1, <5>1, MaxMin
        <5> QED BY <1>1, <2>2, <3>2, <5>2, Sizes
      <4>3. x \in listener.chunk \cup listener.rest \/ Known(x)
        BY <1>1, <1>4, <1>5, <2>2, <3>2 DEF CursorInv, Covers
      <4>4. x \in listener.chunk \ listener.todo => Known(x)
        BY <1>4, <2>2 DEF CursorInv, Handled
      <4> QED BY <1>2, <1>4, <2>2, <4>1, <4>2, <4>3, <4>4 DEF Learns
    <3> QED BY <1>2, <2>2, <3>1, <3>2
  <2> QED BY <2>1, <2>2 DEF Behind
<1> QED BY <1>6, <1>7, <1>8 DEF CursorInv

LEMMA EndChunkCursor ==
  ASSUME TypeInv, CursorInv, AdvanceCursor
  PROVE  CursorInv'
<1> DEFINE next == Smallest(FetchChunk, listener.rest)
<1>1. At("ingesting") /\ listener.todo = {} /\ listener \in Listener /\ Checking
  BY DEF AdvanceCursor, EndChunk, At, Checking, TypeInv, TypeOK
<1>2. Learns /\ Stored' = Stored
  BY DEF AdvanceCursor, EndChunk, history, Learns, Known, Stored
<1>3. CASE ~listener.complete
  <2>1. UNCHANGED cursor /\ ~Checking'
    BY <1>1, <1>3, CheckDoneOK DEF AdvanceCursor, EndChunk, TypeInv, Listener
  <2> QED BY <1>1, <1>2, <2>1, Still
<1>4. CASE listener.complete
  <2> DEFINE c == IF cursor = Unset THEN 0 ELSE cursor
  <2>1. /\ cursor' \in 0..MaxUid /\ cursor' \in {c, Max(listener.chunk)}
        /\ Max(listener.chunk) \in listener.chunk
    <3>1. cursor' = Max({c, Max(listener.chunk)})
      BY <1>4 DEF AdvanceCursor, EndChunk
    <3> QED BY <1>1, <3>1, CursorMoves
  <2>2. Covers /\ \A u \in listener.chunk : Known(u)
    BY <1>1, <1>4 DEF CursorInv, Handled
  <2>3. Behind'
    <3> SUFFICES ASSUME NEW u \in Uids, u <= cursor'
                 PROVE  Known(u)'
      BY <2>1, Sizes DEF Behind
    <3>1. CASE cursor' = c
      <4>1. cursor # Unset
        BY <3>1, Sizes DEF Uids
      <4> QED BY <1>2, <3>1, <4>1 DEF CursorInv, Behind, Learns
    <3>2. CASE cursor' = Max(listener.chunk)
      <4>1. u \in listener.chunk \cup listener.rest \/ Known(u)
        BY <2>1, <2>2, <3>2 DEF Covers
      <4>2. u \notin listener.rest
        <5>1. listener.chunk \subseteq Nat
          BY <1>1, Sizes DEF Listener
        <5> QED BY <2>1, <2>2, <3>2, <5>1, Sizes DEF Covers
      <4> QED BY <1>2, <2>2, <4>1, <4>2 DEF Learns
    <3> QED BY <2>1, <3>1, <3>2
  <2>4. CASE next = {}
    <3>1. ~Checking'
      BY <1>1, <2>4, CheckDoneOK DEF AdvanceCursor, EndChunk, TypeInv, Listener
    <3> QED BY <2>3, <3>1 DEF CursorInv, Checking, Handled, At
  <2>5. CASE next # {}
    <3>1. next \subseteq listener.rest /\ \A y \in next, x \in listener.rest \ next : y < x
      BY <1>1, SmallestOK, Sizes DEF Listener
    <3>2. At("fetching")' /\ listener'.chunk = next /\ listener'.rest = listener.rest \ next
      <4>1. listener' = [listener EXCEPT !.pc = "fetching", !.chunk = next,
                                         !.rest = listener.rest \ next]
        BY <1>4, <2>5 DEF AdvanceCursor, EndChunk
      <4>2. next \in SUBSET Uids /\ listener.rest \ next \in SUBSET Uids
        BY <1>1, <3>1 DEF Listener
      <4> HIDE DEF next
      <4> QED BY <1>1, <4>1, <4>2, NextChunk
    <3>3. \A u \in Uids, y \in listener.rest : u <= y => u \in listener.rest \/ Known(u)'
      BY <1>2, <2>2 DEF Covers, Learns
    <3>4. Covers'
      <4> HIDE DEF next
      <4> QED BY <3>1, <3>2, <3>3 DEF Covers
    <3> QED BY <2>3, <3>2, <3>4 DEF CursorInv, Handled, At
  <2> QED BY <2>4, <2>5
<1> QED BY <1>3, <1>4

\* Only what is stored is queued, so triage stores nothing.
QueueOK == work_q \subseteq Stored

LEMMA QueueStep ==
  ASSUME TypeInv, QueueOK, [Next]_vars
  PROVE  QueueOK'
<1> USE DEF tables, events, triage, history, QueueOK, Stored
<1>1. CASE Ingest
  <2> DEFINE u == Min(listener.todo)
  <2>1. u \in Uids
    BY <1>1, NextMail
  <2>2. CASE IngestOne(u)
    BY <2>1, <2>2 DEF IngestOne, TypeInv, TypeOK
  <2>3. CASE IngestPoison(u) \/ IngestBusy(u)
    BY <2>3 DEF IngestPoison, IngestBusy, Unhandled
  <2> QED BY <1>1, <2>2, <2>3 DEF Ingest
<1>2. CASE Connect \/ IdleEnds \/ Fetch \/ WakeUp \/ Reconnect \/ AdvanceCursor
  BY <1>2 DEF Connect, IdleEnds, StartCheck, Fetch, WakeUp, Reconnect, AdvanceCursor, EndChunk
<1>3. CASE Failing \/ Deliver \/ RequestRefresh \/ GiveUpWaiting \/ Crash
  BY <1>3 DEF Failing, ConnectFails, SearchFails, CheckFails, Deliver, RequestRefresh,
              GiveUpWaiting, Crash
<1>4. CASE Recover \/ RecoverFails
  BY <1>4 DEF Recover, RecoverFails, Largest, Untriaged
<1>5. CASE \E u \in Uids : Triage(u) \/ TriageFails(u)
  BY <1>5 DEF Triage, TriageFails, TypeInv, TypeOK
<1>6. CASE UNCHANGED vars
  BY <1>6 DEF vars
<1> QED BY <1>1, <1>2, <1>3, <1>4, <1>5, <1>6 DEF Next, Session, Consumer

LEMMA CursorStep ==
  ASSUME TypeInv, QueueOK, CursorInv, [Next]_vars
  PROVE  CursorInv'
<1> USE DEF tables, events, triage, history
<1>a. listener \in Listener
  BY DEF TypeInv, TypeOK
<1>1. CASE Connect
  <2>1. CASE ~listener.backfilled \/ refresh_requested
    BY <1>1, <2>1, StartCheckCursor DEF Connect, TypeInv, TypeOK, Listener
  <2>2. CASE ~(~listener.backfilled \/ refresh_requested)
    BY <1>1, <1>a, <2>2, Still DEF Connect, Goto, Learns, Known, Stored, Checking, Listener
  <2> QED BY <2>1, <2>2
<1>2. CASE IdleEnds
  BY <1>2, StartCheckCursor DEF IdleEnds
<1>3. CASE Fetch
  <2>1. /\ At("ingesting")' /\ listener'.chunk = listener.chunk /\ listener'.rest = listener.rest
        /\ listener'.todo = listener.chunk /\ Checking
    BY <1>3, <1>a DEF Fetch, Listener, At, Checking
  <2>2. UNCHANGED <<cursor, message, skipped, left_out, early>>
    BY <1>3 DEF Fetch
  <2> QED BY <2>1, <2>2 DEF CursorInv, Covers, Handled, Behind, Known, Stored, At
<1>4. CASE WakeUp \/ Reconnect \/ ConnectFails
  BY <1>4, <1>a, Still
     DEF WakeUp, Reconnect, ConnectFails, Goto, Learns, Known, Stored, Checking, Listener
<1>5. CASE SearchFails \/ CheckFails
  <2>1. ~Checking' /\ UNCHANGED <<cursor, message, skipped, left_out, early>>
    BY <1>5, <1>a, CheckDoneOK DEF SearchFails, CheckFails, TypeInv, Listener
  <2> QED BY <1>a, <2>1, Still DEF Learns, Known, Stored
<1>6. CASE Deliver \/ RequestRefresh \/ GiveUpWaiting \/ Recover \/ RecoverFails
  BY <1>6, <1>a, Still DEF Deliver, RequestRefresh, GiveUpWaiting, Recover, RecoverFails, Learns,
                           Known, Stored
<1>7. CASE \E u \in Uids : Triage(u) \/ TriageFails(u)
  <2>1. PICK u \in Uids : Triage(u) \/ TriageFails(u)
    BY <1>7
  <2>2. UNCHANGED <<cursor, listener, skipped, left_out, early>>
    BY <2>1 DEF Triage, TriageFails
  <2>3. \/ UNCHANGED message
        \/ u \in work_q /\ message' = [message EXCEPT ![u] = "triaged"]
    BY <2>1 DEF Triage, TriageFails
  <2>4. Learns /\ Stored' \subseteq Stored
    BY <2>2, <2>3 DEF Learns, Known, Stored, QueueOK, TypeInv, TypeOK
  <2> QED BY <1>a, <2>2, <2>4, Still
<1>8. CASE Crash
  BY <1>8, <1>a, StartedOK, Still DEF Crash, Learns, Known, Stored, Checking
<1>9. CASE UNCHANGED vars
  BY <1>9, <1>a, Still DEF vars, Learns, Known, Stored
<1> QED BY <1>1, <1>2, <1>3, <1>4, <1>5, <1>6, <1>7, <1>8, <1>9, IngestCursor, EndChunkCursor
        DEF Next, Session, Failing, Consumer

\* Whatever fails, drops or crashes, and however full the folder is when the
\* account is added, the search for new mail never starts behind a mail that is
\* neither stored nor given up, left out by the first run, or failed in it.
THEOREM NothingIsSkipped == Spec => []NothingSkipped
<1>1. Init => CursorInv
  <2> SUFFICES ASSUME Init PROVE CursorInv
    OBVIOUS
  <2>1. ~Checking /\ ~At("ingesting")
    BY StartedOK DEF Init, Checking, At
  <2>2. Stored = {} /\ cursor = Unset
    BY DEF Init, Stored
  <2> QED BY <2>1, <2>2 DEF CursorInv, Behind, Handled
<1>2. TypeInv /\ CursorInv => NothingSkipped
  BY FloorKnown, FloorOK, Sizes DEF CursorInv, NothingSkipped, Known, TypeInv, Uids
<1>3. Init => QueueOK
  BY DEF Init, QueueOK
<1> QED BY <1>1, <1>2, <1>3, CursorStep, QueueStep, TypeInvariance, PTL DEF Spec
=============================================================================
