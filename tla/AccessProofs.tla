---------------------------- MODULE AccessProofs ----------------------------
(***************************************************************************)
(* Proofs about Access, for any mailboxes, forms, commands and paths.      *)
(* SaveInv: a process has one write of an entry in flight, and it is newer *)
(* than anything that process reported.  ResetInv: every wipe and rotation *)
(* done, owed by this start, or still lying in a file was asked for.       *)
(* UndoInv: a failed job has put back what it no longer has to, and the    *)
(* call it waits for is the step it is at.                                 *)
(***************************************************************************)
EXTENDS Access, FiniteSetTheorems, TLAPS

Procs == Commands \cup {"service"}

LEMMA JobProc == \A j : Proc(j) \in Procs
  BY DEF Proc, Procs

-----------------------------------------------------------------------------
(* The credential store.                                                   *)

CallsOK ==
  \A c \in calls :
    /\ c.n \in Nat /\ c.n <= began /\ c.by \in Procs
    /\ \A e \in Entries : c.op = "set" /\ c.entry = e => acked[c.by][e] < c.n

\* _run_bounded lets one write of an entry be in flight per process.
OneWrite ==
  \A b, c \in calls :
    b.op = "set" /\ c.op = "set" /\ b.by = c.by /\ b.entry = c.entry => b = c

StoreOK ==
  /\ began \in Nat /\ acked \in [Procs -> [Entries -> Nat]]
  /\ ring = [e \in Entries |-> ring[e]]
  /\ \A e \in Entries : Held(e) # 0 => ring[e].by \in Procs /\ ring[e].n \in Nat
  /\ \A p \in Procs, e \in Entries : acked[p][e] <= began

SaveInv == StoreOK /\ CallsOK /\ OneWrite /\ OlderSaveNeverWins

\* Calls are answered by nobody, or were dropped with their process.
LEMMA FewerCalls ==
  ASSUME SaveInv, UNCHANGED <<ring, acked, began>>, calls' \subseteq calls
  PROVE  SaveInv'
  BY DEF SaveInv, StoreOK, CallsOK, OneWrite, OlderSaveNeverWins, Held

LEMMA CallStep ==
  ASSUME SaveInv, NEW j \in Jobs, Call(j)
  PROVE  SaveInv'
<1> DEFINE s == Doing(j)
           c == [n |-> began + 1, by |-> Proc(j), op |-> s.do, entry |-> s.entry, pw |-> s.pw]
<1>1. CASE InFlight(Proc(j), s.do, s.entry)
  BY <1>1, FewerCalls DEF Call
<1>2. CASE ~InFlight(Proc(j), s.do, s.entry)
  <2>1. began' = began + 1 /\ calls' = calls \cup {c} /\ UNCHANGED <<ring, acked>>
    BY <1>2 DEF Call
  <2>2. /\ c.n = began + 1 /\ c.by \in Procs
        /\ \A b \in calls : b.by = c.by /\ b.op = c.op => b.entry # c.entry
    BY <1>2, JobProc DEF InFlight
  <2>3. StoreOK'
    BY <2>1 DEF SaveInv, StoreOK, Held
  <2> HIDE DEF c
  <2>4. CallsOK'
    BY <2>1, <2>2 DEF SaveInv, StoreOK, CallsOK
  <2>5. OneWrite'
    BY <2>1, <2>2 DEF SaveInv, OneWrite
  <2>6. OlderSaveNeverWins'
    BY <2>1 DEF SaveInv, OlderSaveNeverWins, Held
  <2> QED BY <2>3, <2>4, <2>5, <2>6 DEF SaveInv
<1> QED BY <1>1, <1>2

LEMMA LandStep ==
  ASSUME SaveInv, NEW c \in calls, Land(c)
  PROVE  SaveInv'
<1>1. /\ calls' = calls \ {c} /\ UNCHANGED began
      /\ ring' = [ring EXCEPT ![c.entry] =
                    IF c.op = "set" THEN [pw |-> c.pw, n |-> c.n, by |-> c.by] ELSE Nothing]
  BY DEF Land
<1>2. /\ c.n \in Nat /\ c.n <= began /\ c.by \in Procs
      /\ \A e \in Entries : c.op = "set" /\ c.entry = e => acked[c.by][e] < c.n
  BY DEF SaveInv, CallsOK
<1>3. CASE c.op # "set"
  <2>1. UNCHANGED acked
    BY <1>3 DEF Land
  <2> QED BY <1>1, <1>3, <2>1 DEF SaveInv, StoreOK, CallsOK, OneWrite, OlderSaveNeverWins, Held, Nothing
<1>4. CASE c.op = "set"
  <2>1. acked' \in {acked, [acked EXCEPT ![c.by][c.entry] = c.n]}
    BY <1>4 DEF Land
  <2>2. /\ acked' \in [Procs -> [Entries -> Nat]]
        /\ \A p \in Procs, e \in Entries :
             acked'[p][e] = acked[p][e] \/ (p = c.by /\ e = c.entry /\ acked'[p][e] = c.n)
    BY <1>2, <2>1 DEF SaveInv, StoreOK
  <2>3. \A e \in Entries :
          ring'[e] = IF e = c.entry THEN [pw |-> c.pw, n |-> c.n, by |-> c.by] ELSE ring[e]
    BY <1>1, <1>4 DEF SaveInv, StoreOK
  <2>4. StoreOK'
    <3>1. ring' = [e \in Entries |-> ring'[e]]
      BY <1>1 DEF SaveInv, StoreOK
    <3>2. \A e \in Entries : Held(e)' # 0 => ring'[e].by \in Procs /\ ring'[e].n \in Nat
      BY <1>2, <2>3 DEF SaveInv, StoreOK, Held
    <3>3. \A p \in Procs, e \in Entries : acked'[p][e] <= began
      BY <1>2, <2>2 DEF SaveInv, StoreOK
    <3> QED BY <1>1, <2>2, <3>1, <3>2, <3>3 DEF SaveInv, StoreOK
  <2>5. OneWrite'
    BY <1>1 DEF SaveInv, OneWrite
  <2>6. CallsOK'
    <3> SUFFICES ASSUME NEW b \in calls', NEW e \in Entries, b.op = "set", b.entry = e
                 PROVE  acked'[b.by][e] < b.n
      BY <1>1 DEF SaveInv, CallsOK
    <3>1. b \in calls /\ b # c /\ acked[b.by][e] < b.n /\ b.by \in Procs
      BY <1>1 DEF SaveInv, CallsOK
    <3>2. ~(b.by = c.by /\ e = c.entry)
      BY <1>4, <3>1 DEF SaveInv, OneWrite
    <3> QED BY <2>2, <3>1, <3>2
  <2>7. OlderSaveNeverWins'
    <3> SUFFICES ASSUME NEW e \in Entries, Held(e)' # 0
                 PROVE  ring'[e].n >= acked'[ring'[e].by][e]
      BY DEF OlderSaveNeverWins
    <3>1. CASE e = c.entry
      <4>1. ring'[e].n = c.n /\ ring'[e].by = c.by
        BY <2>3, <3>1
      <4>2. acked'[c.by][e] = c.n \/ acked'[c.by][e] < c.n
        BY <1>2, <1>4, <2>2, <3>1
      <4>3. c.n \in Nat /\ acked'[c.by][e] \in Nat
        BY <1>2, <2>2
      <4> QED BY <4>1, <4>2, <4>3
    <3>2. CASE e # c.entry
      <4>1. ring'[e] = ring[e] /\ ring[e].by \in Procs
        BY <2>3, <3>2 DEF SaveInv, StoreOK, Held
      <4> QED BY <2>2, <3>2, <4>1 DEF SaveInv, OlderSaveNeverWins, Held
    <3> QED BY <3>1, <3>2
  <2> QED BY <2>4, <2>5, <2>6, <2>7 DEF SaveInv
<1> QED BY <1>3, <1>4

LEMMA WipeStep ==
  ASSUME SaveInv, NEW j \in Jobs, Wipe(j)
  PROVE  SaveInv'
  BY DEF Wipe, SaveInv, StoreOK, CallsOK, OneWrite, OlderSaveNeverWins, Held, Nothing

LEMMA SaveStep ==
  ASSUME SaveInv, [Next]_vars
  PROVE  SaveInv'
<1> USE DEF ringVars
<1>1. ASSUME NEW j \in Jobs, Proceeds(j) \/ SaveFails(j) \/ WipeFails(j)
      PROVE  SaveInv'
  BY <1>1, CallStep, WipeStep, FewerCalls
     DEF Proceeds, GiveUp, ReadPrior, Unused, Load, Save, SaveFails, WipeFails, Present, End
<1>2. ASSUME NEW j \in Jobs, Asked(j)
      PROVE  SaveInv'
  BY <1>2, FewerCalls DEF Asked, BeginAdd, BeginPasswd, BeginRemove, BeginReset, Interrupt
<1>3. ASSUME NEW c \in calls, Land(c) \/ Refuse(c)
      PROVE  SaveInv'
  BY <1>3, LandStep, FewerCalls DEF Refuse
<1>4. ASSUME \/ \E p \in Paths : UnlinkFails(p) \/ \E a \in Actions \cup {"typo"} : DropFile(p, a)
             \/ SaveSettings \/ StartServe \/ Starts \/ Stop
      PROVE  SaveInv'
  BY <1>4, FewerCalls DEF UnlinkFails, DropFile, SaveSettings, StartServe, Starts, Act, EndWipe,
                          Rotate, Consume, Stop
<1>5. CASE UNCHANGED vars
  BY <1>5, FewerCalls DEF vars
<1> QED BY <1>1, <1>2, <1>3, <1>4, <1>5 DEF Next

\* A password that a process reported as saved is not overwritten by an older
\* save of that process, however late the credential store gets to it.
THEOREM NewestSaveStays == Spec => []OlderSaveNeverWins
<1>1. Init => SaveInv
  BY DEF Init, SaveInv, StoreOK, CallsOK, OneWrite, OlderSaveNeverWins, Procs, Held, Nothing
<1>2. SaveInv => OlderSaveNeverWins
  BY DEF SaveInv
<1> QED BY <1>1, <1>2, SaveStep, PTL DEF Spec

-----------------------------------------------------------------------------
(* RESET_LOGIN.                                                            *)

\* Files that ask for w, and whether this start has still to do it.
Asking(w)   == {p \in Paths : login[p] \in {"all", w}}
Owed(w, ss) == IF serve \in ss /\ found \cap {"all", w} # {} THEN 1 ELSE 0

ResetInv ==
  /\ login \in [Paths -> Actions \cup {"typo", None}] /\ found \subseteq Actions
  /\ reset \in [wipe : Nat, rotate : Nat, wiped : Nat, rotated : Nat]
  /\ Cardinality(Asking("unlock")) + Owed("unlock", {"looking"}) + reset.wiped <= reset.wipe
  /\ Cardinality(Asking("ui")) + Owed("ui", {"looking", "wiping", "rotating"}) + reset.rotated
       <= reset.rotate

LEMMA Counts ==
  \A w : /\ IsFiniteSet(Asking(w)) /\ Cardinality(Asking(w)) \in Nat
        /\ Cardinality(Asking(w)') \in Nat
  BY AccessAssumption, FS_Subset, FS_CardinalityType DEF Asking

LEMMA Owes ==
  \A w, ss : Owed(w, ss) \in Nat /\ Owed(w, ss)' \in Nat
  BY DEF Owed

\* Nothing is dropped, found or done: less is owed at most.
LEMMA NothingDone ==
  ASSUME ResetInv, UNCHANGED <<login, reset>>, found' \subseteq Actions,
         \A w : /\ Owed(w, {"looking"})' <= Owed(w, {"looking"})
               /\ Owed(w, {"looking", "wiping", "rotating"})'
                    <= Owed(w, {"looking", "wiping", "rotating"})
  PROVE  ResetInv'
<1>1. \A w : Asking(w)' = Asking(w)
  BY DEF Asking
<1> QED BY <1>1, Owes, Counts DEF ResetInv

\* Deleting a file settles what it asks for, or leaves it to this start.
LEMMA Deleted ==
  ASSUME ResetInv, NEW p \in Paths, login' = [login EXCEPT ![p] = None], NEW w
  PROVE  IF login[p] \in {"all", w} /\ w # None
         THEN Cardinality(Asking(w)') = Cardinality(Asking(w)) - 1 /\ Cardinality(Asking(w)) >= 1
         ELSE w # None => Asking(w)' = Asking(w)
<1>1. \A q \in Paths : login'[q] = IF q = p THEN None ELSE login[q]
  BY DEF ResetInv
<1>2. None # "all"
  BY AccessAssumption DEF Actions
<1>3. CASE login[p] \in {"all", w} /\ w # None
  <2>1. Asking(w)' = Asking(w) \ {p} /\ p \in Asking(w)
    BY <1>1, <1>2, <1>3 DEF Asking
  <2>2. Cardinality(Asking(w) \ {p}) = Cardinality(Asking(w)) - 1
    BY <2>1, Counts, FS_RemoveElement
  <2>3. Asking(w)' = Asking(w) \ {p} /\ Cardinality(Asking(w) \ {p}) \in Nat
    BY <2>1, Counts, FS_Subset, FS_CardinalityType
  <2> QED BY <1>3, <2>2, <2>3, Counts
<1>4. CASE ~(login[p] \in {"all", w} /\ w # None)
  BY <1>1, <1>2, <1>4 DEF Asking
<1> QED BY <1>3, <1>4

LEMMA ConsumeStep ==
  ASSUME ResetInv, NEW p \in Paths, Consume(p)
  PROVE  ResetInv'
<1>1. /\ login' = [login EXCEPT ![p] = None] /\ found' = found \cup ({login[p]} \cap Actions)
      /\ UNCHANGED <<reset, serve>> /\ serve = "looking"
      /\ None \notin {"all", "unlock", "ui"}
  BY AccessAssumption DEF Consume, Actions
<1>2. /\ login' \in [Paths -> Actions \cup {"typo", None}] /\ found' \subseteq Actions
  BY <1>1 DEF ResetInv
<1>3. ASSUME NEW w \in {"unlock", "ui"}, NEW ss, "looking" \in ss
      PROVE  Cardinality(Asking(w)') + Owed(w, ss)' <= Cardinality(Asking(w)) + Owed(w, ss)
  <2>1. CASE login[p] \in {"all", w}
    <3>1. Cardinality(Asking(w)') = Cardinality(Asking(w)) - 1 /\ Cardinality(Asking(w)) >= 1
      BY <1>1, <2>1, Deleted
    <3> QED BY <3>1, Counts DEF Owed
  <2>2. CASE login[p] \notin {"all", w}
    <3>1. Asking(w)' = Asking(w)
      BY <1>1, <2>2, Deleted
    <3>2. Owed(w, ss)' = Owed(w, ss)
      BY <1>1, <2>2 DEF Owed
    <3> QED BY <3>1, <3>2, Counts DEF Owed
  <2> QED BY <2>1, <2>2
<1>4. /\ Cardinality(Asking("unlock"))' + Owed("unlock", {"looking"})' + reset.wiped <= reset.wipe
      /\ Cardinality(Asking("ui"))' + Owed("ui", {"looking", "wiping", "rotating"})'
           + reset.rotated <= reset.rotate
  BY <1>3, Counts, Owes DEF ResetInv
<1> QED BY <1>1, <1>2, <1>4 DEF ResetInv

LEMMA ResetFields ==
  ASSUME NEW r \in [wipe : Nat, rotate : Nat, wiped : Nat, rotated : Nat], NEW x \in Nat,
         NEW y \in Nat, NEW n, n = [r EXCEPT !.wipe = r.wipe + x, !.rotate = r.rotate + y]
  PROVE  /\ n.wipe = r.wipe + x /\ n.rotate = r.rotate + y
         /\ n.wiped = r.wiped /\ n.rotated = r.rotated
         /\ n \in [wipe : Nat, rotate : Nat, wiped : Nat, rotated : Nat]
<1>1. r.wipe + x \in Nat /\ r.rotate + y \in Nat
  OBVIOUS
<1>2. n.wiped = r.wiped /\ n.rotated = r.rotated
  OBVIOUS
<1>3. n.wipe = r.wipe + x /\ n.rotate = r.rotate + y
  OBVIOUS
<1>4. n = [wipe |-> n.wipe, rotate |-> n.rotate, wiped |-> n.wiped, rotated |-> n.rotated]
  OBVIOUS
<1> QED BY <1>1, <1>2, <1>3, <1>4

LEMMA DropStep ==
  ASSUME ResetInv, NEW p \in Paths, NEW a \in Actions \cup {"typo"}, DropFile(p, a)
  PROVE  ResetInv'
<1>1. /\ login' = [login EXCEPT ![p] = a] /\ login[p] = None /\ UNCHANGED <<serve, found>>
      /\ None \notin {"all", "unlock", "ui"}
  BY AccessAssumption DEF DropFile, Actions
<1>2. \A q \in Paths : login'[q] = IF q = p THEN a ELSE login[q]
  BY <1>1 DEF ResetInv
<1>3. ASSUME NEW w \in {"unlock", "ui"}
      PROVE  Cardinality(Asking(w)') = Cardinality(Asking(w)) + Asks(a, w)
  <2>1. p \notin Asking(w)
    BY <1>1 DEF Asking
  <2>2. CASE a \in {"all", w}
    <3>1. Asking(w)' = Asking(w) \cup {p}
      BY <1>2, <2>2 DEF Asking
    <3> QED BY <2>1, <2>2, <3>1, Counts, FS_AddElement DEF Asks
  <2>3. CASE a \notin {"all", w}
    <3>1. Asking(w)' = Asking(w)
      BY <1>2, <2>1, <2>3 DEF Asking
    <3> QED BY <2>3, <3>1, Counts DEF Asks
  <2> QED BY <2>2, <2>3
<1>4. Asks(a, "unlock") \in Nat /\ Asks(a, "ui") \in Nat
  BY DEF Asks
<1>5. /\ reset'.wipe = reset.wipe + Asks(a, "unlock") /\ reset'.wiped = reset.wiped
      /\ reset'.rotate = reset.rotate + Asks(a, "ui") /\ reset'.rotated = reset.rotated
      /\ reset' \in [wipe : Nat, rotate : Nat, wiped : Nat, rotated : Nat]
  <2>1. reset' = [reset EXCEPT !.wipe = reset.wipe + Asks(a, "unlock"),
                               !.rotate = reset.rotate + Asks(a, "ui")]
    BY DEF DropFile
  <2>2. reset \in [wipe : Nat, rotate : Nat, wiped : Nat, rotated : Nat]
    BY DEF ResetInv
  <2> QED BY <1>4, <2>1, <2>2, ResetFields
<1>6. \A w, ss : Owed(w, ss)' = Owed(w, ss)
  BY <1>1 DEF Owed
<1>7. login' \in [Paths -> Actions \cup {"typo", None}] /\ found' \subseteq Actions
  BY <1>1 DEF ResetInv
<1>8. /\ Cardinality(Asking("unlock")') + Owed("unlock", {"looking"}) + reset'.wiped <= reset'.wipe
      /\ Cardinality(Asking("ui")') + Owed("ui", {"looking", "wiping", "rotating"})
           + reset'.rotated <= reset'.rotate
  BY <1>3, <1>4, <1>5, Counts, Owes DEF ResetInv
<1> QED BY <1>5, <1>6, <1>7, <1>8 DEF ResetInv

\* What a start has found is done once, the store first.
LEMMA ActStep ==
  ASSUME ResetInv, Act \/ EndWipe \/ Rotate
  PROVE  ResetInv'
<1>1. UNCHANGED <<login, found>> /\ \A w : Asking(w)' = Asking(w)
  BY DEF Act, EndWipe, Rotate, Asking
<1>2. CASE EndWipe
  BY <1>2, NothingDone DEF EndWipe, Owed, ResetInv
<1>3. CASE Act
  <2>1. CASE found \cap {"all", "unlock"} = {}
    BY <1>1, <1>3, <2>1, NothingDone DEF Act, Owed, ResetInv
  <2>2. CASE found \cap {"all", "unlock"} # {}
    <3>1. /\ serve = "looking" /\ serve' = "wiping"
          /\ reset' = [reset EXCEPT !.wiped = reset.wiped + 1]
      BY <1>3, <2>2 DEF Act
    <3>2. /\ Owed("unlock", {"looking"}) = 1 /\ Owed("unlock", {"looking"})' = 0
          /\ Owed("ui", {"looking", "wiping", "rotating"})'
               = Owed("ui", {"looking", "wiping", "rotating"})
      BY <1>1, <2>2, <3>1 DEF Owed
    <3> QED BY <1>1, <3>1, <3>2, Counts, Owes DEF ResetInv
  <2> QED BY <2>1, <2>2
<1>4. CASE Rotate
  <2>1. CASE found \cap {"all", "ui"} = {}
    BY <1>1, <1>4, <2>1, NothingDone DEF Rotate, Owed, ResetInv
  <2>2. CASE found \cap {"all", "ui"} # {}
    <3>1. /\ serve = "rotating" /\ serve' = "up"
          /\ reset' = [reset EXCEPT !.rotated = reset.rotated + 1]
      BY <1>4, <2>2 DEF Rotate
    <3>2. /\ Owed("ui", {"looking", "wiping", "rotating"}) = 1
          /\ Owed("ui", {"looking", "wiping", "rotating"})' = 0
          /\ Owed("unlock", {"looking"})' = 0 /\ Owed("unlock", {"looking"}) = 0
      BY <1>1, <2>2, <3>1 DEF Owed
    <3> QED BY <1>1, <3>1, <3>2, Counts, Owes DEF ResetInv
  <2> QED BY <2>1, <2>2
<1> QED BY <1>2, <1>3, <1>4

LEMMA ResetStep ==
  ASSUME ResetInv, [Next]_vars
  PROVE  ResetInv'
<1> USE DEF serveVars
<1>1. ASSUME UNCHANGED serveVars PROVE ResetInv'
  BY <1>1, NothingDone DEF Owed, ResetInv
<1>2. ASSUME NEW j \in Jobs, Proceeds(j) \/ Asked(j) \/ SaveFails(j) \/ WipeFails(j)
      PROVE  ResetInv'
  BY <1>1, <1>2 DEF Proceeds, Call, GiveUp, ReadPrior, Unused, Load, Save, Present, Wipe, End,
                    SaveFails, WipeFails, Asked, BeginAdd, BeginPasswd, BeginRemove, BeginReset, Interrupt
<1>3. ASSUME NEW c \in calls, Land(c) \/ Refuse(c)
      PROVE  ResetInv'
  BY <1>1, <1>3 DEF Land, Refuse
<1>4. CASE \E p \in Paths : UnlinkFails(p)
  BY <1>4, NothingDone DEF UnlinkFails, Owed, ResetInv
<1>5. CASE SaveSettings \/ UNCHANGED vars
  BY <1>1, <1>5 DEF SaveSettings, vars
<1>6. CASE StartServe \/ Stop
  <2>1. found' = {} /\ UNCHANGED <<login, reset>>
    BY <1>6 DEF StartServe, Stop
  <2>2. \A w, ss : Owed(w, ss)' = 0
    BY <2>1 DEF Owed
  <2> QED BY <2>1, <2>2, NothingDone, Owes
<1> QED BY <1>2, <1>3, <1>4, <1>5, <1>6, ConsumeStep, DropStep, ActStep DEF Next, Starts

\* Secrets are wiped and keys rotated no more often than files asked for it,
\* whatever is stopped or fails in between: the file goes before it is acted on.
THEOREM ResetHappensOnce == Spec => []ResetOnce
<1>1. Init => ResetInv
  <2> SUFFICES ASSUME Init PROVE ResetInv
    OBVIOUS
  <2>1. \A w \in {"unlock", "ui"} : Asking(w) = {}
    BY AccessAssumption DEF Init, Asking, Actions
  <2>2. \A w, ss : Owed(w, ss) = 0
    BY DEF Init, Owed
  <2>3. Cardinality(Asking("unlock")) = 0 /\ Cardinality(Asking("ui")) = 0
    BY <2>1, FS_EmptySet
  <2>4. /\ reset.wipe = 0 /\ reset.rotate = 0 /\ reset.wiped = 0 /\ reset.rotated = 0
        /\ reset \in [wipe : Nat, rotate : Nat, wiped : Nat, rotated : Nat]
    BY DEF Init
  <2>5. login \in [Paths -> Actions \cup {"typo", None}] /\ found \subseteq Actions
    BY DEF Init
  <2> QED BY <2>2, <2>3, <2>4, <2>5 DEF ResetInv
<1>2. ResetInv => ResetOnce
  BY Counts, Owes DEF ResetInv, ResetOnce
<1> QED BY <1>1, <1>2, ResetStep, PTL DEF Spec

-----------------------------------------------------------------------------
(* Putting the entries back.                                               *)

IsJob(r) ==
  r = [op |-> r.op, box |-> r.box, pw |-> r.pw, both |-> r.both, todo |-> r.todo,
       prior |-> r.prior, call |-> r.call, view |-> r.view, loaded |-> r.loaded,
       failed |-> r.failed, clean |-> r.clean]

Stores(r)  == r.op \in {"add", "passwd"}
Undoing(r) == Stores(r) /\ r.failed
UndoImap(r) == Restore(Imap(r.box), r.prior.imap)
UndoSmtp(r) == Restore(Smtp(r.box), r.prior.smtp)

\* What a failed add or change of password has still to put back.
RecOK(r) ==
  /\ IsJob(r) /\ r.call \in Nat /\ (r.call # 0 => r.todo # <<>>)
  /\ Stores(r) => r.box \in Mailboxes
  /\ Undoing(r) => r.todo \in {<<UndoImap(r), UndoSmtp(r)>>, <<UndoSmtp(r)>>, <<>>}

\* What it has put back, if all went well.
RingOK(r) ==
  Undoing(r) /\ r.clean =>
    /\ r.todo \in {<<UndoSmtp(r)>>, <<>>} => Held(Imap(r.box)) = r.prior.imap
    /\ r.todo = <<>> => Held(Smtp(r.box)) = r.prior.smtp

\* The call a job waits for is the step it is at.
Match(c, r) ==
  r.call = c.n => /\ r.todo # <<>> /\ Head(r.todo).do = c.op
                  /\ Head(r.todo).entry = c.entry /\ Head(r.todo).pw = c.pw

UndoInv ==
  /\ began \in Nat /\ job = [j \in Jobs |-> job[j]] /\ ring = [e \in Entries |-> ring[e]]
  /\ \A c \in calls : c.n \in Nat \ {0} /\ c.n <= began /\ c.op \in {"set", "delete"}
  /\ \A j \in Jobs : /\ RecOK(job[j]) /\ RingOK(job[j]) /\ job[j].call <= began
                     /\ \A c \in calls : Match(c, job[j])

LEMMA Pairs ==
  ASSUME NEW x, NEW y
  PROVE  /\ Tail(<<x, y>>) = <<y>> /\ Tail(<<y>>) = <<>> /\ Head(<<x, y>>) = x /\ Head(<<y>>) = y
         /\ <<x, y>> # <<>> /\ <<y>> # <<>> /\ <<x, y>> # <<y>>
  OBVIOUS

LEMMA Entry ==
  ASSUME NEW m \in Mailboxes
  PROVE  Imap(m) \in Entries /\ Smtp(m) \in Entries /\ Imap(m) # Smtp(m)
  BY AccessAssumption DEF Imap, Smtp, Entries

LEMMA Restored ==
  ASSUME NEW e, NEW v
  PROVE  /\ Restore(e, v).entry = e /\ Restore(e, v).do \in {"set", "delete"}
         /\ Restore(e, v).do = "set" => Restore(e, v).pw = v
         /\ Restore(e, v).do = "delete" => v = 0
  BY DEF Restore, Set, Delete, Step

\* What a step may make of a job: less sure of its entries, ...
Same(r, q) ==
  /\ IsJob(q) /\ q.op = r.op /\ q.box = r.box /\ q.todo = r.todo /\ q.prior = r.prior
  /\ q.call = r.call /\ q.failed = r.failed /\ (q.clean => r.clean)

\* ... or with no call, and nothing yet that it put back for certain.
Settled(q) ==
  /\ IsJob(q) /\ q.call = 0 /\ (Stores(q) => q.box \in Mailboxes)
  /\ Undoing(q) => /\ q.todo \in {<<UndoImap(q), UndoSmtp(q)>>, <<UndoSmtp(q)>>, <<>>}
                   /\ q.clean => q.todo = <<UndoImap(q), UndoSmtp(q)>>

LEMMA PopJob ==
  ASSUME NEW r, IsJob(r)
  PROVE  LET q == Pop(r) IN
         /\ IsJob(q) /\ q.op = r.op /\ q.box = r.box /\ q.todo = Tail(r.todo) /\ q.call = 0
         /\ q.prior = r.prior /\ q.failed = r.failed /\ q.clean = r.clean
<1> DEFINE t == Tail(r.todo)
           q == Pop(r)
<1>1. q = [r EXCEPT !.todo = t, !.call = 0]
  BY DEF Pop
<1> HIDE DEF t, q
<1>2. /\ IsJob(q) /\ q.op = r.op /\ q.box = r.box /\ q.todo = t /\ q.call = 0
      /\ q.prior = r.prior /\ q.failed = r.failed /\ q.clean = r.clean
  BY <1>1 DEF IsJob
<1> QED BY <1>2 DEF t, q

\* A job that goes on after a step that was not done.
LEMMA GivenUpSettled ==
  ASSUME NEW r, RecOK(r), r.todo # <<>>, NEW q, q = [Pop(r) EXCEPT !.clean = FALSE]
  PROVE  Settled(q)
<1>1. /\ IsJob(q) /\ q.op = r.op /\ q.box = r.box /\ q.todo = Tail(r.todo) /\ q.call = 0
      /\ q.prior = r.prior /\ q.failed = r.failed /\ q.clean = FALSE
  BY DEF IsJob, Pop, RecOK
<1>2. UndoImap(q) = UndoImap(r) /\ UndoSmtp(q) = UndoSmtp(r)
  BY <1>1 DEF UndoImap, UndoSmtp
<1>3. Undoing(r) => Tail(r.todo) \in {<<UndoSmtp(r)>>, <<>>}
  BY Pairs DEF RecOK
<1> QED BY <1>1, <1>2, <1>3 DEF Settled, RecOK, Undoing, Stores

LEMMA FailingSettled ==
  ASSUME NEW r, RecOK(r), r.todo # <<>>, NEW b \in BOOLEAN
  PROVE  Settled(Failing(r, b))
<1>1. CASE r.failed
  BY <1>1, GivenUpSettled DEF Failing
<1>2. CASE ~r.failed
  <2> DEFINE t == IF r.op \in {"add", "passwd"}
                  THEN <<Restore(Imap(r.box), r.prior.imap), Restore(Smtp(r.box), r.prior.smtp)>>
                  ELSE <<>>
             q == Failing(r, b)
  <2>1. q = [r EXCEPT !.failed = TRUE, !.call = 0, !.clean = @ /\ b, !.todo = t]
    BY <1>2 DEF Failing
  <2> HIDE DEF t
  <2>2. IsJob(q) /\ q.op = r.op /\ q.box = r.box /\ q.prior = r.prior /\ q.todo = t /\ q.call = 0
    BY <2>1 DEF IsJob, RecOK
  <2> HIDE DEF q
  <2>3. Stores(q) => q.todo = <<UndoImap(q), UndoSmtp(q)>>
    BY <2>2 DEF t, Stores, UndoImap, UndoSmtp
  <2>4. Settled(q)
    BY <2>2, <2>3 DEF Settled, RecOK, Undoing, Stores
  <2> QED BY <2>4 DEF q
<1> QED BY <1>1, <1>2

\* An undo is at no other step than a call.
LEMMA NotUndoing ==
  ASSUME NEW r, RecOK(r), r.todo # <<>>, Head(r.todo).do \notin {"set", "delete"}
  PROVE  ~Undoing(r)
  BY Pairs, Restored DEF RecOK, UndoImap, UndoSmtp

LEMMA SettledOK ==
  ASSUME NEW q, Settled(q)
  PROVE  RecOK(q) /\ RingOK(q) /\ q.call = 0
<1>1. <<UndoImap(q), UndoSmtp(q)>> \notin {<<UndoSmtp(q)>>, <<>>}
  BY Pairs
<1>2. RingOK(q)
  BY <1>1 DEF Settled, RingOK
<1> QED BY <1>2 DEF Settled, RecOK

LEMMA SameOK ==
  ASSUME NEW r, NEW q, RecOK(r), Same(r, q)
  PROVE  /\ RecOK(q) /\ Undoing(q) = Undoing(r)
         /\ UndoImap(q) = UndoImap(r) /\ UndoSmtp(q) = UndoSmtp(r)
         /\ \A c : Match(c, r) => Match(c, q)
  BY DEF Same, RecOK, Undoing, Stores, UndoImap, UndoSmtp, Match

\* A step that leaves the store alone.
LEMMA QuietStep ==
  ASSUME UndoInv, UNCHANGED <<ring, began>>, calls' \subseteq calls,
         job' = [j \in Jobs |-> job'[j]],
         \A j \in Jobs : Same(job[j], job'[j]) \/ Settled(job'[j])
  PROVE  UndoInv'
<1>1. ASSUME NEW j \in Jobs
      PROVE  /\ RecOK(job'[j]) /\ RingOK(job[j])' /\ job'[j].call <= began
             /\ \A c \in calls : Match(c, job'[j])
  <2>1. CASE Same(job[j], job'[j])
    BY <2>1, SameOK DEF UndoInv, RingOK, Held, Same
  <2>2. CASE Settled(job'[j])
    BY <2>2, SettledOK DEF UndoInv, RingOK, Held, Match
  <2> QED BY <2>1, <2>2
<1> QED BY <1>1 DEF UndoInv, RecOK, Match

LEMMA OneJob ==
  ASSUME UndoInv, NEW j \in Jobs, NEW q, Settled(q), job' = [job EXCEPT ![j] = q],
         UNCHANGED <<ring, began>>, calls' \subseteq calls
  PROVE  UndoInv'
<1>1. job' = [k \in Jobs |-> job'[k]] /\ job'[j] = q /\ \A k \in Jobs \ {j} : job'[k] = job[k]
  BY DEF UndoInv
<1>2. \A k \in Jobs : Same(job[k], job[k])
  BY DEF UndoInv, RecOK, Same
<1>3. \A k \in Jobs : Same(job[k], job'[k]) \/ Settled(job'[k])
  BY <1>1, <1>2
<1> QED BY <1>1, <1>3, QuietStep

LEMMA NoJob ==
  ASSUME UndoInv, UNCHANGED <<job, ring, began>>, calls' \subseteq calls
  PROVE  UndoInv'
<1>1. \A k \in Jobs : Same(job[k], job'[k])
  BY DEF UndoInv, RecOK, Same
<1>2. job' = [k \in Jobs |-> job'[k]]
  BY DEF UndoInv
<1> QED BY <1>1, <1>2, QuietStep

\* A step that is no call.
LEMMA OtherStep ==
  ASSUME UndoInv, NEW j \in Jobs, Ready(j), Doing(j).do \notin {"set", "delete"},
         NEW q, IsJob(q), q.op = job[j].op, q.box = job[j].box, q.failed = job[j].failed, q.call = 0,
         job' = [job EXCEPT ![j] = q], UNCHANGED <<ring, began>>, calls' \subseteq calls
  PROVE  UndoInv'
<1>1. RecOK(job[j]) /\ ~Undoing(job[j])
  BY NotUndoing DEF UndoInv, Ready, Doing
<1>2. Settled(q)
  BY <1>1 DEF Settled, Undoing, Stores, RecOK
<1> QED BY <1>2, OneJob

LEMMA PoppedStep ==
  ASSUME UndoInv, NEW j \in Jobs, Ready(j), Doing(j).do \notin {"set", "delete"}, Popped(j),
         UNCHANGED <<ring, began>>, calls' \subseteq calls
  PROVE  UndoInv'
<1>1. IsJob(job[j]) /\ job' = [job EXCEPT ![j] = Pop(job[j])]
  BY DEF UndoInv, RecOK, Popped
<1> QED BY <1>1, PopJob, OtherStep

LEMMA FailedStep ==
  ASSUME UndoInv, NEW j \in Jobs, job[j].todo # <<>>, NEW b \in BOOLEAN, Failed(j, b),
         UNCHANGED <<ring, began>>, calls' \subseteq calls
  PROVE  UndoInv'
<1>1. Settled(Failing(job[j], b)) /\ job' = [job EXCEPT ![j] = Failing(job[j], b)]
  BY FailingSettled DEF UndoInv, Failed
<1> QED BY <1>1, OneJob

LEMMA ReadPriorStep ==
  ASSUME UndoInv, NEW j \in Jobs, ReadPrior(j)
  PROVE  UndoInv'
<1>1. PICK i, t, b : job' = [job EXCEPT ![j].prior = i, ![j].clean = b, ![j].todo = t]
  BY DEF ReadPrior
<1> DEFINE q == [job[j] EXCEPT !.prior = i, !.clean = b, !.todo = t]
<1>2. IsJob(job[j]) /\ Ready(j) /\ Doing(j).do = "read" /\ job[j].call = 0
  BY DEF UndoInv, RecOK, ReadPrior, At, Ready
<1>3. /\ IsJob(q) /\ q.op = job[j].op /\ q.box = job[j].box /\ q.failed = job[j].failed
      /\ q.call = 0
  <2>1. PICK r : r = job[j]
    OBVIOUS
  <2>2. IsJob(r) /\ r.call = 0 /\ q = [r EXCEPT !.prior = i, !.clean = b, !.todo = t]
    BY <1>2, <2>1
  <2> HIDE DEF q
  <2>3. IsJob(q) /\ q.op = r.op /\ q.box = r.box /\ q.failed = r.failed /\ q.call = r.call
    BY <2>2 DEF IsJob
  <2> QED BY <2>1, <2>2, <2>3
<1>4. job' = [job EXCEPT ![j] = q]
  BY <1>1, <1>2 DEF UndoInv, IsJob
<1> HIDE DEF q
<1> QED BY <1>2, <1>3, <1>4, OtherStep DEF ReadPrior, ringVars

LEMMA TodoStep ==
  ASSUME UndoInv, NEW j \in Jobs, Ready(j), Doing(j).do \notin {"set", "delete"},
         NEW t, job' = [job EXCEPT ![j].todo = t], UNCHANGED <<ring, began>>, calls' \subseteq calls
  PROVE  UndoInv'
<1> DEFINE q == [job[j] EXCEPT !.todo = t]
<1>1. IsJob(job[j]) /\ job[j].call = 0 /\ job' = [job EXCEPT ![j] = q]
  BY DEF UndoInv, RecOK, Ready
<1>2. /\ IsJob(q) /\ q.op = job[j].op /\ q.box = job[j].box /\ q.failed = job[j].failed
      /\ q.call = 0
  BY <1>1 DEF IsJob
<1> HIDE DEF q
<1> QED BY <1>1, <1>2, OtherStep

LEMMA LoadStep ==
  ASSUME UndoInv, NEW j \in Jobs, Load(j)
  PROVE  UndoInv'
<1> DEFINE p == Pop(job[j])
           q == [p EXCEPT !.view = config]
<1>1. Ready(j) /\ Doing(j).do = "load" /\ job' = [job EXCEPT ![j] = q]
  BY DEF Load, At
<1>2. IsJob(p) /\ p.op = job[j].op /\ p.box = job[j].box /\ p.failed = job[j].failed /\ p.call = 0
  BY PopJob DEF UndoInv, RecOK
<1> HIDE DEF p
<1>3. IsJob(q) /\ q.op = p.op /\ q.box = p.box /\ q.failed = p.failed /\ q.call = p.call
  <2>1. p = [op |-> p.op, box |-> p.box, pw |-> p.pw, both |-> p.both, todo |-> p.todo,
             prior |-> p.prior, call |-> p.call, view |-> p.view, loaded |-> p.loaded,
             failed |-> p.failed, clean |-> p.clean]
    BY <1>2 DEF IsJob
  <2> QED BY <2>1 DEF IsJob
<1> HIDE DEF q
<1> QED BY <1>1, <1>2, <1>3, OtherStep DEF Load, ringVars

LEMMA PresentStep ==
  ASSUME UndoInv, NEW j \in Jobs, Present(j)
  PROVE  UndoInv'
<1>1. Ready(j) /\ Doing(j).do = "present" /\ UNCHANGED ringVars
  BY DEF Present, At
<1>2. CASE Popped(j)
  BY <1>1, <1>2, PoppedStep DEF ringVars
<1>3. CASE job' = [job EXCEPT ![j].todo[1] = Delete(Doing(j).entry)]
  <2>1. job' = [job EXCEPT ![j].todo = [job[j].todo EXCEPT ![1] = Delete(Doing(j).entry)]]
    BY <1>3
  <2> QED BY <1>1, <2>1, TodoStep DEF ringVars
<1> QED BY <1>2, <1>3 DEF Present

LEMMA IdleSettled == Settled(Idle)
  BY DEF Idle, Settled, IsJob, Undoing, Stores

LEMMA BeginStep ==
  ASSUME UndoInv, NEW j \in Jobs, NEW op, NEW m, NEW both, NEW todo, Begin(j, op, m, both, todo),
         op \in {"add", "passwd"} => m \in Mailboxes, UNCHANGED ringVars
  PROVE  UndoInv'
<1> DEFINE w == hands + 1
           l == Listed(j)
           q == [Idle EXCEPT !.op = op, !.box = m, !.pw = w, !.both = both, !.todo = todo,
                             !.loaded = l]
<1>1. job' = [job EXCEPT ![j] = q]
  BY DEF Begin
<1> HIDE DEF w, l
<1>2. IsJob(q) /\ q.op = op /\ q.box = m /\ q.failed = FALSE /\ q.call = 0
  <2>1. PICK r : r = Idle
    OBVIOUS
  <2>2. IsJob(r) /\ r.failed = FALSE /\ r.call = 0
    BY <2>1 DEF IsJob, Idle
  <2>3. q = [r EXCEPT !.op = op, !.box = m, !.pw = w, !.both = both, !.todo = todo,
                      !.loaded = l]
    BY <2>1
  <2> HIDE DEF q
  <2> QED BY <2>2, <2>3 DEF IsJob
<1> HIDE DEF q
<1>3. Settled(q)
  BY <1>2 DEF Settled, Undoing, Stores
<1> QED BY <1>1, <1>3, OneJob DEF ringVars

LEMMA AskedStep ==
  ASSUME UndoInv, NEW j \in Jobs, Asked(j)
  PROVE  UndoInv'
<1>1. ASSUME NEW m \in Mailboxes, BeginAdd(j, m) PROVE UndoInv'
  BY <1>1, BeginStep DEF BeginAdd
<1>2. ASSUME NEW m \in Mailboxes, NEW p \in BOOLEAN, BeginRemove(j, m, p) PROVE UndoInv'
  BY <1>2, BeginStep DEF BeginRemove
<1>3. ASSUME NEW m \in Mailboxes, NEW b \in BOOLEAN, BeginPasswd(j, m, b) PROVE UndoInv'
  BY <1>3, BeginStep DEF BeginPasswd
<1>4. CASE BeginReset(j)
  BY <1>4, BeginStep DEF BeginReset
<1>5. CASE Interrupt(j)
  BY <1>5, IdleSettled, OneJob DEF Interrupt
<1> QED BY <1>1, <1>2, <1>3, <1>4, <1>5 DEF Asked

\* A call that is made is the step its job is at, and of a number of its own.
LEMMA CalledStep ==
  ASSUME UndoInv, NEW j \in Jobs, Call(j)
  PROVE  UndoInv'
<1> DEFINE s == Doing(j)
           c == [n |-> began + 1, by |-> Proc(j), op |-> s.do, entry |-> s.entry, pw |-> s.pw]
<1>1. Ready(j) /\ job[j].todo # <<>> /\ s.do \in {"set", "delete"} /\ UNCHANGED ring
  BY DEF Call, Ready
<1>2. CASE InFlight(Proc(j), s.do, s.entry)
  BY <1>1, <1>2, FailedStep DEF Call
<1>3. CASE ~InFlight(Proc(j), s.do, s.entry)
  <2>1. began' = began + 1 /\ calls' = calls \cup {c} /\ job' = [job EXCEPT ![j].call = began + 1]
    BY <1>3 DEF Call
  <2>2. began \in Nat /\ c.n = began + 1 /\ c.op = s.do /\ c.entry = s.entry /\ c.pw = s.pw
    BY DEF UndoInv
  <2> DEFINE q == [job[j] EXCEPT !.call = began + 1]
  <2>3. job' = [job EXCEPT ![j] = q]
    BY <2>1
  <2>4. /\ IsJob(q) /\ q.op = job[j].op /\ q.box = job[j].box /\ q.todo = job[j].todo
        /\ q.prior = job[j].prior /\ q.failed = job[j].failed /\ q.clean = job[j].clean
        /\ q.call = began + 1
    <3>1. PICK r : r = job[j]
      OBVIOUS
    <3>2. IsJob(r) /\ q = [r EXCEPT !.call = began + 1]
      BY <3>1 DEF UndoInv, RecOK
    <3> HIDE DEF q
    <3>3. /\ IsJob(q) /\ q.op = r.op /\ q.box = r.box /\ q.todo = r.todo
          /\ q.prior = r.prior /\ q.failed = r.failed /\ q.clean = r.clean
          /\ q.call = began + 1
      BY <3>2 DEF IsJob
    <3> QED BY <3>1, <3>3
  <2> HIDE DEF c, q
  <2>5. job' = [k \in Jobs |-> job'[k]] /\ job'[j] = q /\ \A k \in Jobs \ {j} : job'[k] = job[k]
    BY <2>3 DEF UndoInv
  <2>6. RecOK(q) /\ RingOK(job[j])'
    <3>1. /\ RecOK(job[j]) /\ RingOK(job[j]) /\ UndoImap(q) = UndoImap(job[j])
          /\ UndoSmtp(q) = UndoSmtp(job[j]) /\ Undoing(q) = Undoing(job[j])
      BY <2>4 DEF UndoInv, UndoImap, UndoSmtp, Undoing, Stores
    <3>2. RecOK(q)
      BY <1>1, <2>2, <2>4, <3>1 DEF RecOK, Stores
    <3>3. RingOK(job[j])'
      BY <1>1, <2>4, <2>5, <3>1 DEF RingOK, Held
    <3> QED BY <3>2, <3>3
  <2>7. ASSUME NEW k \in Jobs
        PROVE  RecOK(job'[k]) /\ RingOK(job[k])' /\ job'[k].call <= began + 1
    <3>1. CASE k = j
      BY <2>2, <2>4, <2>5, <2>6, <3>1
    <3>2. CASE k # j
      <4>1. job'[k] = job[k] /\ RecOK(job[k]) /\ RingOK(job[k]) /\ job[k].call <= began
        BY <2>5, <3>2 DEF UndoInv
      <4>2. job[k].call <= began + 1
        BY <2>2, <4>1 DEF RecOK
      <4> QED BY <1>1, <4>1, <4>2 DEF RingOK, Held
    <3> QED BY <3>1, <3>2
  <2>8. ASSUME NEW b \in calls', NEW k \in Jobs
        PROVE  /\ b.n \in Nat \ {0} /\ b.n <= began + 1 /\ b.op \in {"set", "delete"}
               /\ Match(b, job'[k])
    <3>1. CASE b = c
      <4>1. k # j => job'[k].call # c.n
        BY <2>2, <2>5 DEF UndoInv, RecOK
      <4> QED BY <1>1, <2>2, <2>4, <2>5, <3>1, <4>1 DEF Match, Doing
    <3>2. CASE b \in calls
      <4>1. b.n \in Nat \ {0} /\ b.n <= began /\ b.op \in {"set", "delete"}
        BY <3>2 DEF UndoInv
      <4>2. CASE k = j
        BY <2>2, <2>4, <2>5, <4>1, <4>2 DEF Match
      <4>3. CASE k # j
        BY <2>2, <2>5, <3>2, <4>1, <4>3 DEF UndoInv
      <4> QED BY <2>2, <4>1, <4>2, <4>3
    <3> QED BY <2>1, <3>1, <3>2
  <2> QED BY <1>1, <2>1, <2>2, <2>5, <2>7, <2>8, j \in Jobs DEF UndoInv
<1> QED BY <1>2, <1>3

Marked(r, b) == [r EXCEPT !.clean = b]

LEMMA MarkedSame ==
  ASSUME NEW r, IsJob(r), NEW b, b => r.clean
  PROVE  Same(r, Marked(r, b)) /\ Marked(r, b).clean = b
<1> DEFINE q == Marked(r, b)
<1>1. /\ IsJob(q) /\ q.op = r.op /\ q.box = r.box /\ q.todo = r.todo /\ q.prior = r.prior
      /\ q.call = r.call /\ q.failed = r.failed /\ q.clean = b
  BY DEF IsJob, Marked
<1> QED BY <1>1 DEF Same

\* What the end of a call is to each job.
LEMMA AfterCases ==
  ASSUME UndoInv, NEW c \in calls, NEW ok \in BOOLEAN, NEW hidden \in BOOLEAN, NEW j \in Jobs
  PROVE  /\ ~Waits(j, c) =>
              /\ Same(job[j], After(c, ok, hidden)[j])
              /\ After(c, ok, hidden)[j].clean => job[j].clean /\ ~Touches(j, c.entry)
         /\ Waits(j, c) => job[j].todo # <<>>
         /\ Waits(j, c) /\ ok => After(c, ok, hidden)[j] = Pop(job[j])
         /\ Waits(j, c) /\ ~ok => Settled(After(c, ok, hidden)[j])
<1> DEFINE q == After(c, ok, hidden)[j]
<1>1. RecOK(job[j]) /\ IsJob(job[j]) /\ (Waits(j, c) => job[j].todo # <<>>)
  BY DEF UndoInv, RecOK, Match, Waits
<1>2. ASSUME ~Waits(j, c)
      PROVE  Same(job[j], q) /\ (q.clean => job[j].clean /\ ~Touches(j, c.entry))
  <2>1. q = Marked(job[j], job[j].clean /\ ~Touches(j, c.entry))
    BY <1>2 DEF After, Marked
  <2> HIDE DEF q
  <2> QED BY <1>1, <2>1, MarkedSame
<1>3. ASSUME Waits(j, c), ok PROVE q = Pop(job[j])
  BY <1>3 DEF After
<1>4. ASSUME Waits(j, c), ~ok PROVE Settled(q)
  <2>1. CASE hidden
    <3>1. q = [Pop(job[j]) EXCEPT !.clean = FALSE]
      BY <1>4, <2>1 DEF After
    <3> HIDE DEF q
    <3> QED BY <1>1, <1>4, <3>1, GivenUpSettled
  <2>2. CASE ~hidden
    <3>1. q = Failing(job[j], TRUE)
      BY <1>4, <2>2 DEF After
    <3> HIDE DEF q
    <3> QED BY <1>1, <1>4, <3>1, FailingSettled
  <2> QED BY <2>1, <2>2
<1> QED BY <1>1, <1>2, <1>3, <1>4

LEMMA RefusedStep ==
  ASSUME UndoInv, NEW c \in calls, Refuse(c)
  PROVE  UndoInv'
<1>1. PICK hidden \in BOOLEAN :
        job' = After(c, FALSE, hidden) /\ UNCHANGED <<ring, began>> /\ calls' \subseteq calls
  BY DEF Refuse
<1>2. job' = [j \in Jobs |-> job'[j]]
  BY <1>1 DEF After
<1>3. \A j \in Jobs : Same(job[j], job'[j]) \/ Settled(job'[j])
  BY <1>1, AfterCases
<1> QED BY <1>1, <1>2, <1>3, QuietStep

\* The entry of a call that landed holds what the step asked for.
LEMMA LandedEntry ==
  ASSUME UndoInv, NEW c \in calls, Land(c), NEW e \in Entries
  PROVE  Held(e)' = IF e # c.entry THEN Held(e) ELSE IF c.op = "set" THEN c.pw ELSE 0
<1> DEFINE v == IF c.op = "set" THEN [pw |-> c.pw, n |-> c.n, by |-> c.by] ELSE Nothing
<1>1. ring' = [ring EXCEPT ![c.entry] = v] /\ v.pw = IF c.op = "set" THEN c.pw ELSE 0
  BY DEF Land, Nothing
<1> HIDE DEF v
<1>2. ring'[e] = IF e = c.entry THEN v ELSE ring[e]
  BY <1>1 DEF UndoInv
<1> QED BY <1>1, <1>2 DEF Held

\* A restoring step whose call landed has restored its entry.
LEMMA LandedUndo ==
  ASSUME UndoInv, NEW c \in calls, Land(c), NEW e \in Entries, NEW v,
         c.op = Restore(e, v).do, c.entry = Restore(e, v).entry, c.pw = Restore(e, v).pw
  PROVE  Held(e)' = v
<1>1. c.entry = e /\ (c.op = "set" => c.pw = v) /\ (c.op # "set" => v = 0)
  BY Restored
<1> QED BY <1>1, LandedEntry

LEMMA LandedStep ==
  ASSUME UndoInv, NEW c \in calls, Land(c)
  PROVE  UndoInv'
<1>1. job' = After(c, TRUE, FALSE) /\ UNCHANGED began /\ calls' = calls \ {c}
  BY DEF Land
<1>2. job' = [j \in Jobs |-> job'[j]] /\ ring' = [e \in Entries |-> ring'[e]]
  BY <1>1 DEF After, Land, UndoInv
<1>3. ASSUME NEW j \in Jobs
      PROVE  /\ RecOK(job'[j]) /\ RingOK(job[j])' /\ job'[j].call <= began
             /\ \A b \in calls' : Match(b, job'[j])
  <2>1. RecOK(job[j]) /\ RingOK(job[j]) /\ job[j].call <= began
    BY DEF UndoInv
  <2>a. Stores(job[j]) => /\ job[j].box \in Mailboxes /\ Imap(job[j].box) \in Entries
                          /\ Smtp(job[j].box) \in Entries /\ Imap(job[j].box) # Smtp(job[j].box)
                          /\ Working(j)
    BY <2>1, Entry, AccessAssumption DEF RecOK, Stores, Working, Busy
  <2>2. CASE ~Waits(j, c)
    <3>1. /\ Same(job[j], job'[j])
          /\ job'[j].clean => job[j].clean /\ ~Touches(j, c.entry)
      BY <1>1, <2>2, AfterCases
    <3>2. /\ RecOK(job'[j]) /\ Undoing(job'[j]) = Undoing(job[j])
          /\ UndoSmtp(job'[j]) = UndoSmtp(job[j])
          /\ \A b : Match(b, job[j]) => Match(b, job'[j])
      BY <2>1, <3>1, SameOK
    <3>3. ASSUME Undoing(job'[j]), job'[j].clean
          PROVE  /\ ring'[Imap(job[j].box)].pw = Held(Imap(job[j].box))
                 /\ ring'[Smtp(job[j].box)].pw = Held(Smtp(job[j].box))
      BY <2>a, <3>1, <3>2, <3>3, LandedEntry DEF Touches, Undoing, Held, Same
    <3>4. RingOK(job[j])'
      BY <2>1, <3>1, <3>2, <3>3 DEF RingOK, Held, Same
    <3> QED BY <1>1, <2>1, <3>1, <3>2, <3>4 DEF UndoInv, Same
  <2>3. CASE Waits(j, c)
    <3> DEFINE r == job[j]
    <3>1. /\ IsJob(job'[j]) /\ job'[j].op = r.op /\ job'[j].box = r.box /\ job'[j].todo = Tail(r.todo)
          /\ job'[j].call = 0 /\ job'[j].prior = r.prior /\ job'[j].failed = r.failed
          /\ job'[j].clean = r.clean
      <4>1. IsJob(r) /\ job'[j] = Pop(r)
        BY <1>1, <2>1, <2>3, AfterCases DEF RecOK
      <4> HIDE DEF r
      <4> QED BY <4>1, PopJob
    <3>2. /\ r.todo # <<>> /\ Head(r.todo).do = c.op /\ Head(r.todo).entry = c.entry
          /\ Head(r.todo).pw = c.pw
      BY <2>3 DEF UndoInv, Waits, Match
    <3>3. /\ Undoing(job'[j]) = Undoing(r) /\ UndoImap(job'[j]) = UndoImap(r)
          /\ UndoSmtp(job'[j]) = UndoSmtp(r) /\ Stores(job'[j]) = Stores(r)
      BY <3>1 DEF Undoing, Stores, UndoImap, UndoSmtp
    <3>4. Undoing(r) => r.todo \in {<<UndoImap(r), UndoSmtp(r)>>, <<UndoSmtp(r)>>}
      BY <2>1, <3>2 DEF RecOK
    <3>5. Undoing(r) => Tail(r.todo) \in {<<UndoSmtp(r)>>, <<>>}
      BY <3>4, Pairs
    <3>6. RecOK(job'[j])
      BY <2>1, <3>1, <3>3, <3>5 DEF RecOK
    <3>7. ASSUME Undoing(r), r.todo = <<UndoImap(r), UndoSmtp(r)>>
          PROVE  ring'[Imap(r.box)].pw = r.prior.imap /\ Tail(r.todo) # <<>>
      <4>1. Head(r.todo) = UndoImap(r) /\ Tail(r.todo) = <<UndoSmtp(r)>>
        BY <3>7, Pairs
      <4>2. Imap(r.box) \in Entries
        BY <2>a, <3>7 DEF Undoing
      <4>4. \A e \in Entries : Held(e)' = ring'[e].pw
        BY DEF Held
      <4>5. PICK e \in Entries : e = Imap(r.box)
        BY <4>2
      <4>6. Held(e)' = r.prior.imap
        BY <3>2, <4>1, <4>5, LandedUndo DEF UndoImap
      <4> QED BY <4>1, <4>4, <4>5, <4>6, Pairs
    <3>8. ASSUME Undoing(r), r.clean, r.todo = <<UndoSmtp(r)>>
          PROVE  /\ ring'[Imap(r.box)].pw = r.prior.imap /\ ring'[Smtp(r.box)].pw = r.prior.smtp
      <4>1. Head(r.todo) = UndoSmtp(r)
        BY <3>8, Pairs
      <4>2. PICK e \in Entries : e = Smtp(r.box)
        BY <2>a, <3>8 DEF Undoing
      <4>3. Held(e)' = r.prior.smtp /\ c.entry = e
        BY <3>2, <4>1, <4>2, LandedUndo, Restored DEF UndoSmtp
      <4>4. PICK i \in Entries : i = Imap(r.box) /\ i # e
        BY <2>a, <3>8, <4>2 DEF Undoing
      <4>5. Held(i)' = Held(i)
        BY <4>3, <4>4, LandedEntry
      <4>6. Held(i) = r.prior.imap
        BY <2>1, <3>8, <4>4 DEF RingOK
      <4> QED BY <4>2, <4>3, <4>4, <4>5, <4>6 DEF Held
    <3>9. RingOK(job[j])'
      BY <3>1, <3>3, <3>4, <3>7, <3>8 DEF RingOK, Held
    <3>10. \A b \in calls' : Match(b, job'[j])
      BY <1>1, <3>1 DEF UndoInv, Match
    <3> QED BY <3>1, <3>6, <3>9, <3>10 DEF UndoInv
  <2> QED BY <2>2, <2>3
<1> QED BY <1>1, <1>2, <1>3 DEF UndoInv

LEMMA WipedStep ==
  ASSUME UndoInv, NEW j \in Jobs, Wipe(j)
  PROVE  UndoInv'
<1>1. /\ Ready(j) /\ Doing(j).do = "wipe" /\ UNCHANGED <<calls, began>>
      /\ job' = [k \in Jobs |-> IF k = j THEN Pop(job[k]) ELSE Marked(job[k], FALSE)]
      /\ ring' = [e \in Entries |-> ring'[e]]
  BY DEF Wipe, At, Marked
<1>2. RecOK(job[j]) /\ ~Undoing(job[j])
  BY <1>1, NotUndoing DEF UndoInv, Ready, Doing
<1>3. ASSUME NEW k \in Jobs
      PROVE  /\ RecOK(job'[k]) /\ RingOK(job[k])' /\ job'[k].call <= began
             /\ \A b \in calls : Match(b, job'[k])
  <2>1. CASE k = j
    <3>1. job'[k] = Pop(job[j]) /\ IsJob(job[j])
      BY <1>1, <1>2, <2>1 DEF RecOK
    <3>2. /\ IsJob(job'[k]) /\ job'[k].op = job[j].op /\ job'[k].box = job[j].box
          /\ job'[k].call = 0 /\ job'[k].failed = job[j].failed
      BY <3>1, PopJob
    <3>3. ~Undoing(job'[k]) /\ Settled(job'[k])
      BY <1>2, <3>2 DEF RecOK, Settled, Undoing, Stores
    <3> QED BY <3>2, <3>3, SettledOK DEF RingOK, UndoInv, Match
  <2>2. CASE k # j
    <3>1. job'[k] = Marked(job[k], FALSE) /\ RecOK(job[k]) /\ job[k].call <= began
      BY <1>1, <2>2 DEF UndoInv
    <3>2. Same(job[k], job'[k]) /\ job'[k].clean = FALSE
      BY <3>1, MarkedSame DEF RecOK
    <3> QED BY <3>1, <3>2, SameOK DEF UndoInv, RingOK, Same
  <2> QED BY <2>1, <2>2
<1> QED BY <1>1, <1>3 DEF UndoInv

LEMMA ProceedsStep ==
  ASSUME UndoInv, NEW j \in Jobs, Proceeds(j) \/ SaveFails(j) \/ WipeFails(j)
  PROVE  UndoInv'
<1> USE DEF ringVars
<1>1. CASE GiveUp(j)
  <2>1. job[j].todo # <<>>
    BY <1>1 DEF GiveUp, UndoInv, RecOK
  <2> QED BY <1>1, <2>1, FailedStep DEF GiveUp
<1>2. CASE SaveFails(j) \/ WipeFails(j)
  BY <1>2, FailedStep DEF SaveFails, WipeFails, At, Ready
<1>3. CASE Unused(j)
  BY <1>3, TodoStep DEF Unused, At
<1>4. CASE Save(j)
  BY <1>4, PoppedStep DEF Save, At
<1>5. CASE End(j)
  BY <1>5, IdleSettled, OneJob DEF End
<1> QED BY <1>1, <1>2, <1>3, <1>4, <1>5, CalledStep, ReadPriorStep, LoadStep, PresentStep, WipedStep
        DEF Proceeds

\* The service stops or dies, or the start hands its job out or takes it back.
LEMMA ServiceStep ==
  ASSUME UndoInv, Starts \/ Stop \/ StartServe
  PROVE  UndoInv'
<1> USE DEF ringVars
<1>1. CASE Stop
  <2>1. /\ job' = [j \in Jobs |-> job'[j]] /\ UNCHANGED <<ring, began>> /\ calls' \subseteq calls
        /\ \A j \in Jobs : job'[j] \in {job[j], Idle}
    BY <1>1 DEF Stop
  <2>2. \A j \in Jobs : Same(job[j], job[j])
    BY DEF UndoInv, RecOK, Same
  <2>3. \A j \in Jobs : Same(job[j], job'[j]) \/ Settled(job'[j])
    BY <2>1, <2>2, IdleSettled
  <2> QED BY <2>1, <2>3, QuietStep
<1>2. CASE StartServe \/ Rotate \/ \E p \in Paths : Consume(p)
  BY <1>2, NoJob DEF StartServe, Rotate, Consume
<1>3. CASE EndWipe
  BY <1>3, IdleSettled, OneJob DEF EndWipe, Jobs
<1>4. CASE Act
  <2>1. CASE UNCHANGED job
    BY <1>4, <2>1, NoJob DEF Act
  <2>2. CASE ~UNCHANGED job
    <3> DEFINE t == ResetSteps(memory)
               q == [Idle EXCEPT !.op = "reset", !.todo = t]
    <3>1. job' = [job EXCEPT !["startup"] = q] /\ UNCHANGED ringVars
      BY <1>4, <2>2 DEF Act
    <3> HIDE DEF t
    <3>2. Settled(q)
      <4>1. PICK r : r = Idle
        OBVIOUS
      <4>2. IsJob(r) /\ r.call = 0
        BY <4>1 DEF IsJob, Idle
      <4>3. q = [r EXCEPT !.op = "reset", !.todo = t]
        BY <4>1
      <4> HIDE DEF q
      <4>4. IsJob(q) /\ q.op = "reset" /\ q.call = 0
        BY <4>2, <4>3 DEF IsJob
      <4> QED BY <4>4 DEF Settled, Undoing, Stores
    <3> HIDE DEF q
    <3> QED BY <3>1, <3>2, OneJob DEF Jobs
  <2> QED BY <2>1, <2>2
<1> QED BY <1>1, <1>2, <1>3, <1>4 DEF Starts

LEMMA UndoStep ==
  ASSUME UndoInv, [Next]_vars
  PROVE  UndoInv'
<1> USE DEF ringVars
<1>1. CASE UNCHANGED vars
  BY <1>1, NoJob DEF vars
<1>2. CASE \/ \E p \in Paths : UnlinkFails(p) \/ \E a \in Actions \cup {"typo"} : DropFile(p, a)
           \/ SaveSettings
  BY <1>2, NoJob DEF UnlinkFails, DropFile, SaveSettings
<1> QED BY <1>1, <1>2, ProceedsStep, AskedStep, LandedStep, RefusedStep, ServiceStep DEF Next

\* A mailbox that could not be added, or a password that could not be changed,
\* leaves both entries as they were found, when every call was answered and
\* nobody else wrote them (accounts.py add_account: "or nothing at all").
THEOREM FailureLeavesNothing == Spec => []AllOrNothing
<1>1. Init => UndoInv
  <2> SUFFICES ASSUME Init PROVE UndoInv
    OBVIOUS
  <2>1. \A j \in Jobs : job[j] = Idle
    BY DEF Init
  <2>2. RecOK(Idle) /\ RingOK(Idle) /\ Idle.call = 0
    BY IdleSettled, SettledOK
  <2>3. began = 0 /\ calls = {} /\ job = [j \in Jobs |-> job[j]] /\ ring = [e \in Entries |-> ring[e]]
    BY DEF Init
  <2> QED BY <2>1, <2>2, <2>3 DEF UndoInv
<1>2. UndoInv => AllOrNothing
  BY DEF UndoInv, RingOK, Undoing, Stores, AllOrNothing
<1> QED BY <1>1, <1>2, UndoStep, PTL DEF Spec
=============================================================================
