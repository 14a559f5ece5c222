-------------------------- MODULE DraftSendSafety ---------------------------
(***************************************************************************)
(* What DraftSend promises of the mail itself, for any constants: nothing  *)
(* withheld and nothing the guardrails refuse goes out, a draft shown as   *)
(* SENT went to the relay, and the Outbox says no more than is known.      *)
(* DraftSendProofs!Inv says whose attempt is whose; SafeInv adds what the  *)
(* attempt and the gate look like at each point of the way to the relay.   *)
(* RecordInv says which mails have their outbox row, and the last part that*)
(* every step is one of SendLedger or a stutter.                           *)
(***************************************************************************)
EXTENDS DraftSendProofs

\* What was approved for a reply or under a token had passed the guardrails.
CleanOK ==
  \A s \in Attempts : send[s].draft \in Replies \/ send[s].auth # None => send[s].body \in Clean

\* Only a tab that has not met the gate again carries a send of a withheld
\* message, or one that the gate sent back.
Gated(a, j, w) ==
  j.held => a \in Tabs /\ j.pc \in {"approved", "bounced"} /\ j.draft \in Replies /\ w[j.draft]

HeldOK == \A a \in Actors : Gated(a, job[a], withheld)

\* How far an attempt z is when its job is at p.
Progress(p, z) ==
  /\ p \in Unsent => z.row \in {"none", "UNKNOWN"}
  /\ p = "accepted" => z.wire = "accepted"
  /\ p = "failed" => z.wire # "accepted"
  /\ p = "delivered" => z.wire # "no"

ProgressOK == \A a \in Actors : job[a].pc \in Paying => Progress(job[a].pc, send[job[a].send])

Safe == CleanOK /\ HeldOK /\ ProgressOK /\ RowTellsTruth /\ SentDraftWasTransmitted

SafeInv == Inv /\ Safe

LEMMA InitSafe == Init => Safe
  BY DEF Init, Safe, CleanOK, HeldOK, Gated, ProgressOK, RowTellsTruth, SentDraftWasTransmitted,
         Drafts, Attempts, Idle, Paying

-----------------------------------------------------------------------------
(* Steps that approve nothing and do not talk to the relay.                *)

\* A job that is paying afterwards was paying, for the same attempt, and is
\* where it was or past the gate.
Stays(j, n) ==
  n.pc \in Paying =>
    /\ n.send = j.send
    /\ n.pc = j.pc \/ (j.pc = "approved" /\ n.pc = "cleared")

\* Only a delivered attempt makes a draft SENT.
OnlyDelivered ==
  \A d \in Drafts : draft'[d].state = "SENT" =>
    \/ draft[d].state = "SENT"
    \/ \E a \in Actors : job[a].pc = "delivered" /\ job[a].draft = d

Harmless ==
  /\ UNCHANGED send
  /\ \A a \in Actors : Stays(job[a], job'[a]) /\ Gated(a, job'[a], withheld')
  /\ OnlyDelivered

LEMMA HarmlessStep ==
  ASSUME SafeInv, Harmless
  PROVE  Safe'
<1> USE DEF SafeInv, Safe, Harmless
<1>1. CleanOK' /\ RowTellsTruth' /\ HeldOK'
  BY DEF CleanOK, RowTellsTruth, HeldOK, Attempts
<1>2. ProgressOK'
  <2> SUFFICES ASSUME NEW a \in Actors, job'[a].pc \in Paying
               PROVE  Progress(job'[a].pc, send[job'[a].send])
    BY DEF ProgressOK
  <2> QED BY DEF Stays, ProgressOK, Progress, Paying, Unsent
<1>3. SentDraftWasTransmitted'
  <2> SUFFICES ASSUME NEW d \in Drafts, draft'[d].state = "SENT"
               PROVE  \E s \in Attempts : send[s].draft = d /\ Taken(s)
    BY DEF SentDraftWasTransmitted, Attempts, Taken
  <2>1. CASE draft[d].state = "SENT"
    BY <2>1 DEF SentDraftWasTransmitted
  <2>2. CASE \E a \in Actors : job[a].pc = "delivered" /\ job[a].draft = d
    BY <2>2 DEF Inv, SendOK, ProgressOK, Progress, Paying, Taken
  <2> QED BY <2>1, <2>2 DEF OnlyDelivered
<1> QED BY <1>1, <1>2, <1>3

\* Only actor a goes on.
Alone(a) ==
  /\ job' = [job EXCEPT ![a] = job'[a]]
  /\ Stays(job[a], job'[a]) /\ Gated(a, job'[a], withheld')

LEMMA AloneStep ==
  ASSUME SafeInv, UNCHANGED <<withheld, send>>, NEW a \in Actors, Alone(a), OnlyDelivered
  PROVE  Harmless
  BY DEF SafeInv, Safe, Inv, TypeOK, HeldOK, Alone, Harmless, Stays

LEMMA NoJobStep ==
  ASSUME SafeInv, UNCHANGED <<withheld, send, job>>, OnlyDelivered
  PROVE  Harmless
  BY DEF SafeInv, Safe, HeldOK, Harmless, Stays

LEMMA IdleAlone == \A j, a, w : Stays(j, Idle) /\ Gated(a, Idle, w)
  BY DEF Idle, Stays, Gated, Paying

\* A state other than SENT is written, or SENT for a delivered attempt.
Writable(d, s) ==
  s # "SENT" \/ \E a \in Actors : job[a].pc = "delivered" /\ job[a].draft = d

LEMMA DraftWrites ==
  ASSUME SafeInv, NEW d, NEW s, NEW b, SetDraft(d, s, b), Writable(d, s)
  PROVE  OnlyDelivered
  BY DEF SafeInv, Inv, TypeOK, SetDraft, OnlyDelivered, Writable

LEMMA StateWrites ==
  ASSUME SafeInv, NEW d, NEW s, SetState(d, s), Writable(d, s)
  PROVE  OnlyDelivered
  BY DEF SafeInv, Inv, TypeOK, SetState, OnlyDelivered, Writable

LEMMA TriageHarmless ==
  ASSUME SafeInv, TriageNext
  PROVE  Harmless
<1>1. PICK r \in Replies : \/ \E b \in Bodies : AgentFill(r, b)
                          \/ RetireDeferred(r) \/ ScreenByHuman(r) \/ ScreenByModel(r)
                          \/ Release(r)
  BY DEF TriageNext
<1>2. CASE (\E b \in Bodies : AgentFill(r, b)) \/ RetireDeferred(r)
  BY <1>2, NoJobStep, DraftWrites, StateWrites DEF Writable, AgentFill, RetireDeferred
<1>3. CASE ScreenByHuman(r) \/ ScreenByModel(r)
  <2>1. OnlyDelivered
    BY <1>3, StateWrites DEF Writable, ScreenByHuman, ScreenByModel, OnlyDelivered
  <2>2. \A a \in Actors : Stays(job[a], job'[a]) /\ Gated(a, job'[a], withheld')
    BY <1>3 DEF ScreenByHuman, ScreenByModel, SafeInv, Safe, Inv, TypeOK, HeldOK, Gated, Stays
  <2> QED BY <1>3, <2>1, <2>2 DEF ScreenByHuman, ScreenByModel, Harmless
<1>4. CASE Release(r)
  <2>1. OnlyDelivered
    BY <1>4 DEF Release, OnlyDelivered
  <2>2. ASSUME NEW a \in Actors
        PROVE  Stays(job[a], job'[a]) /\ Gated(a, job'[a], withheld')
    BY <1>4 DEF Release, SafeInv, Safe, Inv, TypeOK, Job, HeldOK, Gated, Stays
  <2> QED BY <1>4, <2>1, <2>2 DEF Release, Harmless
<1> QED BY <1>1, <1>2, <1>3, <1>4

LEMMA TabHarmless ==
  ASSUME SafeInv, NEW t \in Tabs, TabNext(t), \A b \in Bodies, s \in Sends : ~ApproveTab(t, b, s)
  PROVE  Harmless
<1>a. t \in Actors /\ job \in [Actors -> Job]
  BY DEF Actors, SafeInv, Inv, TypeOK
<1>1. CASE \E r \in Replies : OpenTab(t, r)
  <2>1. Alone(t) /\ OnlyDelivered
    BY <1>1, <1>a DEF OpenTab, Alone, Idle, Stays, Gated, Paying, OnlyDelivered
  <2> QED BY <1>1, <1>a, <2>1, AloneStep DEF OpenTab
<1>2. CASE ClosePage(t)
  BY <1>2, <1>a, IdleAlone, AloneStep DEF ClosePage, Alone, OnlyDelivered
<1>3. CASE \E b \in Bodies : EditRefused(t, b)
  BY <1>3, DraftWrites, NoJobStep DEF Writable, EditRefused, Editable
<1>4. CASE \E b \in Bodies : SaveTab(t, b) \/ ApplyRevision(t, b)
  <2>1. OnlyDelivered
    BY <1>4, DraftWrites DEF Writable, SaveTab, ApplyRevision
  <2>2. Alone(t)
    BY <1>4, <1>a DEF SaveTab, ApplyRevision, Alone, At, Job, Stays, Gated, Paying, SafeInv,
                      Safe, HeldOK
  <2> QED BY <1>4, <1>a, <2>1, <2>2, AloneStep DEF SaveTab, ApplyRevision
<1>5. CASE RejectTab(t)
  <2>1. OnlyDelivered
    <3>1. SetState(job[t].draft, "REJECTED") /\ Writable(job[t].draft, "REJECTED")
      BY <1>5 DEF RejectTab, Writable
    <3> QED BY <3>1, StateWrites
  <2>2. CASE At(t, "open")
    BY <1>5, <1>a, <2>1, <2>2, IdleAlone, AloneStep DEF RejectTab, Alone
  <2>3. CASE ~At(t, "open")
    BY <1>5, <2>1, <2>3, NoJobStep DEF RejectTab
  <2> QED BY <2>2, <2>3
<1>6. CASE ClearTab(t) \/ RefuseTab(t)
  <2>1. OnlyDelivered
    BY <1>6 DEF ClearTab, RefuseTab, OnlyDelivered
  <2>2. Alone(t)
    BY <1>6, <1>a DEF ClearTab, RefuseTab, Become, Alone, At, Job, Stays, Gated, Paying, SafeInv,
                      Safe, HeldOK
  <2> QED BY <1>6, <1>a, <2>1, <2>2, AloneStep DEF ClearTab, RefuseTab
<1>7. CASE TabSent(t)
  <2>1. OnlyDelivered
    BY <1>7, <1>a, DraftWrites DEF Writable, TabSent, At
  <2> QED BY <1>7, <1>a, <2>1, IdleAlone, AloneStep DEF TabSent, Alone
<1>8. CASE TabRetry(t)
  <2>1. OnlyDelivered
    BY <1>8, DraftWrites DEF Writable, TabRetry, Retryable
  <2>2. Alone(t)
    <3>1. job' = [job EXCEPT ![t] = [job[t] EXCEPT !.pc = "open", !.seen = "PENDING",
                    !.body = Blank, !.held = FALSE, !.send = None]]
      BY <1>8 DEF TabRetry, Retryable
    <3>2. job' = [job EXCEPT ![t] = job'[t]]
      BY <1>a, <3>1
    <3>3. job'[t].pc = "open" /\ job'[t].held = FALSE
      BY <1>a, <3>1 DEF Job
    <3> QED BY <3>2, <3>3 DEF Alone, Stays, Gated, Paying
  <2> QED BY <1>8, <1>a, <2>1, <2>2, AloneStep DEF TabRetry, Retryable
<1> QED BY <1>1, <1>2, <1>3, <1>4, <1>5, <1>6, <1>7, <1>8 DEF TabNext

LEMMA TabCutHarmless ==
  ASSUME SafeInv, NEW t \in Tabs, TabUnwritten(t)
  PROVE  Harmless
<1>1. t \in Actors /\ job \in [Actors -> Job]
  BY DEF Actors, SafeInv, Inv, TypeOK
<1>2. job' = [job EXCEPT ![t] = [job[t] EXCEPT !.pc = "open", !.body = Blank, !.held = FALSE]]
  BY DEF TabUnwritten
<1>3. job' = [job EXCEPT ![t] = job'[t]] /\ job'[t].pc = "open" /\ job'[t].held = FALSE
  BY <1>1, <1>2 DEF Job
<1>4. Alone(t) /\ OnlyDelivered
  BY <1>3 DEF Alone, Stays, Gated, Paying, TabUnwritten, OnlyDelivered
<1> QED BY <1>1, <1>4, AloneStep DEF TabUnwritten

LEMMA PageHarmless ==
  ASSUME SafeInv, NEW g \in Pages, PageNext(g), \A s \in Sends : ~ApproveManual(g, s)
  PROVE  Harmless
<1>a. g \in Actors /\ job \in [Actors -> Job] /\ g \notin Tabs
  BY DraftSendAssumption DEF Actors, SafeInv, Inv, TypeOK
<1>b. ~job[g].held
  BY <1>a DEF SafeInv, Safe, HeldOK, Gated
<1>1. CASE \E d \in Manuals \cup {None} : OpenPage(g, d)
  <2>1. Alone(g) /\ OnlyDelivered
    BY <1>1, <1>a DEF OpenPage, Alone, Idle, Stays, Gated, Paying, OnlyDelivered
  <2> QED BY <1>1, <1>a, <2>1, AloneStep DEF OpenPage
<1>2. CASE \E d \in Manuals, b \in Texts : SaveManual(g, d, b) \/ SendManual(g, d, b)
  <2>1. OnlyDelivered
    BY <1>2, DraftWrites DEF Writable, SaveManual, SendManual, Persist, OnlyDelivered
  <2>2. Alone(g)
    BY <1>2, <1>a, <1>b DEF SaveManual, SendManual, Alone, At, Job, Stays, Gated, Paying
  <2> QED BY <1>2, <1>a, <2>1, <2>2, AloneStep DEF SaveManual, SendManual
<1>3. CASE \E d \in Manuals : DeleteManual(g, d)
  <2>1. OnlyDelivered
    BY <1>3, DraftWrites DEF Writable, DeleteManual
  <2>2. /\ job'[g].pc = job[g].pc /\ job'[g].send = job[g].send /\ job'[g].held = job[g].held
        /\ job' = [job EXCEPT ![g] = job'[g]]
    <3>1. PICK d \in Manuals, n \in BOOLEAN :
            job' = IF n THEN [job EXCEPT ![g].seen = "GONE",
                                ![g].draft = IF job[g].pc = "open" THEN None ELSE d] ELSE job
      BY <1>3 DEF DeleteManual
    <3> QED BY <1>a, <3>1 DEF Job
  <2>3. Alone(g)
    BY <1>b, <2>2 DEF Alone, Stays, Gated
  <2> QED BY <1>3, <1>a, <2>1, <2>3, AloneStep DEF DeleteManual
<1>4. CASE ClosePage(g)
  BY <1>4, <1>a, IdleAlone, AloneStep DEF ClosePage, Alone, OnlyDelivered
<1>5. CASE RefuseManual(g)
  <2>1. Alone(g) /\ OnlyDelivered
    BY <1>5, <1>a, <1>b DEF RefuseManual, Become, Alone, Job, Stays, Gated, Paying, OnlyDelivered
  <2> QED BY <1>5, <1>a, <2>1, AloneStep DEF RefuseManual
<1>6. CASE ManualSent(g)
  <2>1. OnlyDelivered
    BY <1>6, <1>a, StateWrites DEF Writable, ManualSent, At, OnlyDelivered
  <2>2. Alone(g)
    BY <1>6, <1>a DEF ManualSent, Alone, Idle, Stays, Gated, Paying
  <2> QED BY <1>6, <1>a, <2>1, <2>2, AloneStep DEF ManualSent
<1>7. CASE ManualFailed(g)
  <2>1. Alone(g) /\ OnlyDelivered
    BY <1>7, <1>a DEF ManualFailed, Unbusy, Alone, Idle, Stays, Gated, Paying, OnlyDelivered
  <2> QED BY <1>7, <1>a, <2>1, AloneStep DEF ManualFailed, Unbusy
<1> QED BY <1>1, <1>2, <1>3, <1>4, <1>5, <1>6, <1>7 DEF PageNext

LEMMA ProcHarmless ==
  ASSUME SafeInv, NEW p \in Procs, ProcNext(p), \A s \in Sends : ~BridgeApprove(p, s)
  PROVE  Harmless
<1>a. p \in Actors /\ job \in [Actors -> Job] /\ p \notin Tabs
  BY DraftSendAssumption DEF Actors, SafeInv, Inv, TypeOK
<1>b. ~job[p].held
  BY <1>a DEF SafeInv, Safe, HeldOK, Gated
<1>1. CASE \/ \E d \in Drafts : PrepareRead(p, d)
           \/ \E d \in Drafts, k \in Auths : BridgeLoad(p, d, k)
  <2>1. PICK d \in Drafts, pc \in {"preparing", "loaded"}, k \in Auths \cup {None} :
          Loadable(p, d) /\ Load(p, d, pc, k) /\ UNCHANGED <<draft, withheld, auth, send>>
    BY <1>1 DEF PrepareRead, BridgeLoad, LoadUnder
  <2>2. job'[p].pc \notin Paying /\ ~job'[p].held /\ job' = [job EXCEPT ![p] = job'[p]]
    BY <1>a, <2>1 DEF Loadable, Load, Idle, Paying
  <2> QED BY <1>a, <2>1, <2>2, AloneStep DEF Alone, Stays, Gated, OnlyDelivered
<1>2. CASE GiveUp(p) \/ \E k \in Auths : PrepareIssue(p, k)
  BY <1>2, <1>a, IdleAlone, AloneStep
     DEF GiveUp, PrepareIssue, Alone, OnlyDelivered
<1>3. CASE \E r \in Replies : ReviseRead(p, r)
  <2>1. Alone(p) /\ OnlyDelivered
    BY <1>3, <1>a DEF ReviseRead, StartRevision, Alone, Idle, Stays, Gated, Paying, OnlyDelivered
  <2> QED BY <1>3, <1>a, <2>1, AloneStep DEF ReviseRead, StartRevision
<1>4. CASE \E b \in Bodies : ReviseWrite(p, b)
  <2>1. OnlyDelivered
    BY <1>4, DraftWrites DEF Writable, ReviseWrite
  <2>2. Alone(p) /\ UNCHANGED <<withheld, send>>
    BY <1>4, <1>a, IdleAlone DEF ReviseWrite, Alone
  <2> QED BY <1>a, <2>1, <2>2, AloneStep
<1>5. CASE BridgeConsume(p)
  <2>1. Alone(p) /\ OnlyDelivered
    BY <1>5, <1>a, <1>b DEF BridgeConsume, Consume, Become, Alone, Job, Stays, Gated, Paying,
                            OnlyDelivered
  <2> QED BY <1>5, <1>a, <2>1, AloneStep DEF BridgeConsume, Consume
<1>6. CASE BridgeSent(p) \/ BridgeRetry(p)
  <2>1. OnlyDelivered
    BY <1>6, <1>a, StateWrites DEF Writable, BridgeSent, BridgeRetry, At
  <2> QED BY <1>6, <1>a, <2>1, IdleAlone, AloneStep DEF BridgeSent, BridgeRetry, Alone
<1> QED BY <1>1, <1>2, <1>3, <1>4, <1>5, <1>6 DEF ProcNext

LEMMA ProcCutHarmless ==
  ASSUME SafeInv, NEW p \in Procs, ProcCrash(p) \/ BridgeStrand(p) \/ BridgeUnwritten(p)
  PROVE  Harmless
<1>a. p \in Actors /\ job \in [Actors -> Job]
  BY DEF Actors, SafeInv, Inv, TypeOK
<1>1. Alone(p) /\ UNCHANGED <<withheld, send>>
  BY <1>a, IdleAlone DEF Alone, ProcCrash, BridgeStrand, BridgeUnwritten
<1>2. OnlyDelivered
  BY StateWrites DEF Writable, ProcCrash, BridgeStrand, BridgeUnwritten, OnlyDelivered
<1> QED BY <1>a, <1>1, <1>2, AloneStep

LEMMA OutsideHarmless ==
  ASSUME SafeInv,
         \/ \E d \in Manuals, b \in Bodies : BridgeCompose(d, b)
         \/ \E k \in Auths : Expire(k) \/ HourPasses(k)
         \/ ServeCrash
  PROVE  Harmless
<1>1. CASE \E d \in Manuals, b \in Bodies : BridgeCompose(d, b)
  BY <1>1, DraftWrites, NoJobStep DEF Writable, BridgeCompose
<1>2. CASE \E k \in Auths : Expire(k) \/ HourPasses(k)
  BY <1>2, NoJobStep DEF Expire, HourPasses, OnlyDelivered
<1>3. CASE ServeCrash
  <2>1. \A a \in Actors : Stays(job[a], job'[a]) /\ Gated(a, job'[a], withheld')
    BY <1>3, IdleAlone DEF ServeCrash, SafeInv, Safe, HeldOK, Stays
  <2> QED BY <1>3, <2>1 DEF ServeCrash, Harmless, OnlyDelivered
<1> QED BY <1>1, <1>2, <1>3

-----------------------------------------------------------------------------
(* The three steps that approve a send.                                    *)

\* Actor a gets attempt s of text b for draft d under token k.
Approves(a, s, d, b, k) ==
  /\ send[s] = None
  /\ send' = [send EXCEPT ![s] = NewSend(d, b, k)]
  /\ d \in Replies \/ k # None => b \in Clean
  /\ job' = [job EXCEPT ![a] = job'[a]] /\ job'[a].send = s
  /\ job'[a].pc \in {"approved", "cleared"} /\ Gated(a, job'[a], withheld')

\* One of the three approvals happens.
Approved ==
  /\ \E a \in Actors, s \in Sends, d \in Drafts, b \in Bodies, k \in Auths \cup {None} :
       Approves(a, s, d, b, k)
  /\ UNCHANGED withheld /\ OnlyDelivered

LEMMA ApproveSafe ==
  ASSUME SafeInv, NEW a \in Actors, NEW s \in Sends, NEW d \in Drafts, NEW b \in Bodies,
         NEW k \in Auths \cup {None}, Approves(a, s, d, b, k), UNCHANGED withheld, OnlyDelivered
  PROVE  Safe'
<1>1. /\ send'[s] = NewSend(d, b, k) /\ send'[s] # None
      /\ \A z \in Sends : z # s => send'[z] = send[z]
      /\ Attempts' = Attempts \cup {s} /\ s \notin Attempts
  <2>1. NewSend(d, b, k) \in Send
    BY DEF NewSend, Send, Texts
  <2> QED BY <2>1, NoneAssumption DEF SafeInv, Inv, TypeOK, Approves, Attempts
<1>2. \A c \in Actors : c # a => job'[c] = job[c]
  BY DEF SafeInv, Inv, TypeOK, Approves
<1>3. CleanOK' /\ RowTellsTruth'
  BY <1>1 DEF SafeInv, Safe, CleanOK, RowTellsTruth, Approves, NewSend
<1>4. HeldOK'
  BY <1>2 DEF SafeInv, Safe, HeldOK, Approves
<1>5. ProgressOK'
  <2> SUFFICES ASSUME NEW c \in Actors, job'[c].pc \in Paying
               PROVE  Progress(job'[c].pc, send'[job'[c].send])
    BY DEF ProgressOK
  <2>1. CASE c = a
    BY <1>1, <2>1 DEF Approves, NewSend, Progress
  <2>2. CASE c # a
    <3>1. job'[c] = job[c] /\ job[c].send \in Sends \ {s}
      BY <1>1, <1>2, <2>2 DEF SafeInv, Inv, SendOK, Attempts
    <3> QED BY <1>1, <3>1 DEF SafeInv, Safe, ProgressOK
  <2> QED BY <2>1, <2>2
<1>6. SentDraftWasTransmitted'
  <2> SUFFICES ASSUME NEW e \in Drafts, draft'[e].state = "SENT"
               PROVE  \E z \in Attempts' : send'[z].draft = e /\ Taken(z)'
    BY DEF SentDraftWasTransmitted
  <2>1. \E z \in Attempts : send[z].draft = e /\ Taken(z)
    <3>1. CASE draft[e].state = "SENT"
      BY <3>1 DEF SafeInv, Safe, SentDraftWasTransmitted
    <3>2. CASE \E c \in Actors : job[c].pc = "delivered" /\ job[c].draft = e
      BY <3>2 DEF SafeInv, Safe, Inv, SendOK, ProgressOK, Progress, Paying, Taken
    <3> QED BY <3>1, <3>2 DEF OnlyDelivered
  <2> QED BY <1>1, <2>1 DEF Taken, Attempts
<1> QED BY <1>3, <1>4, <1>5, <1>6 DEF Safe

LEMMA ApproveTabApproves ==
  ASSUME SafeInv, NEW t \in Tabs, NEW b \in Bodies, NEW s \in Sends, ApproveTab(t, b, s)
  PROVE  Approved
<1>1. t \in Actors /\ job \in [Actors -> Job] /\ job[t].draft \in Replies
  BY DEF Actors, SafeInv, Inv, TypeOK, JobOK, Holds, ApproveTab, Approval, At
<1>2. OnlyDelivered
  BY DraftWrites DEF Writable, ApproveTab, Approval
<1>3. Approves(t, s, job[t].draft, b, None)
  <2>1. job' = [job EXCEPT ![t] = [job[t] EXCEPT !.pc = "approved", !.seen = "APPROVED",
                  !.body = b, !.held = withheld[job[t].draft], !.send = s]]
    BY DEF ApproveTab, Approval
  <2>2. job' = [job EXCEPT ![t] = job'[t]]
    BY <1>1, <2>1
  <2>3. /\ job'[t].pc = "approved" /\ job'[t].send = s /\ job'[t].draft = job[t].draft
        /\ job'[t].held = withheld[job[t].draft]
    BY <1>1, <2>1 DEF Job
  <2>4. withheld' = withheld
    BY DEF ApproveTab, Approval
  <2>5. Gated(t, job'[t], withheld')
    BY <1>1, <2>3, <2>4 DEF Gated
  <2> QED BY <2>2, <2>3, <2>5 DEF ApproveTab, Approval, Approves
<1> QED BY <1>1, <1>2, <1>3 DEF ApproveTab, Approval, Drafts, Approved

LEMMA ApproveManualApproves ==
  ASSUME SafeInv, NEW g \in Pages, NEW s \in Sends, ApproveManual(g, s)
  PROVE  Approved
<1>1. g \in Actors /\ job \in [Actors -> Job] /\ job[g].draft \in Manuals /\ job[g].body \in Bodies
  BY DEF Actors, SafeInv, Inv, TypeOK, JobOK, Holds, ApproveManual, At
<1>2. ~job[g].held
  BY <1>1, DraftSendAssumption DEF SafeInv, Safe, HeldOK, Gated
<1>3. Approves(g, s, job[g].draft, job[g].body, None)
  <2>1. job' = [job EXCEPT ![g] = [job[g] EXCEPT !.pc = "cleared", !.send = s]]
    BY DEF ApproveManual
  <2>2. job' = [job EXCEPT ![g] = job'[g]]
    BY <1>1, <2>1
  <2>3. job'[g].pc = "cleared" /\ job'[g].send = s /\ job'[g].held = job[g].held
    BY <1>1, <2>1 DEF Job
  <2>4. job[g].draft \notin Replies
    BY <1>1, DraftSendAssumption
  <2> QED BY <1>2, <2>2, <2>3, <2>4 DEF ApproveManual, Approves, Gated
<1> QED BY <1>1, <1>3 DEF ApproveManual, Drafts, OnlyDelivered, Approved

LEMMA BridgeApproveApproves ==
  ASSUME SafeInv, NEW p \in Procs, NEW s \in Sends, BridgeApprove(p, s)
  PROVE  Approved
<1>1. /\ p \in Actors /\ job \in [Actors -> Job] /\ job[p].draft \in Drafts
      /\ job[p].body \in Bodies /\ job[p].auth \in Auths
  BY DEF Actors, SafeInv, Inv, TypeOK, JobOK, Holds, BridgeApprove, At
<1>2. ~job[p].held
  BY <1>1, DraftSendAssumption DEF SafeInv, Safe, HeldOK, Gated
<1>3. OnlyDelivered
  BY StateWrites DEF Writable, BridgeApprove
<1>4. Approves(p, s, job[p].draft, job[p].body, job[p].auth)
  <2>1. job' = [job EXCEPT ![p] = [job[p] EXCEPT !.pc = "cleared", !.send = s]]
    BY DEF BridgeApprove
  <2>2. job' = [job EXCEPT ![p] = job'[p]]
    BY <1>1, <2>1
  <2>3. job'[p].pc = "cleared" /\ job'[p].send = s /\ job'[p].held = job[p].held
    BY <1>1, <2>1 DEF Job
  <2> QED BY <1>2, <2>2, <2>3 DEF BridgeApprove, Approves, Gated
<1> QED BY <1>1, <1>3, <1>4 DEF BridgeApprove, Approved

-----------------------------------------------------------------------------
(* Talking to the relay.                                                   *)

\* Actor a moves its attempt on from z to y.
Advances(a, y) ==
  LET s == job[a].send
      z == send[s] IN
  /\ job[a].pc \in Paying
  /\ send' = [send EXCEPT ![s] = y] /\ y \in Send
  /\ y.draft = z.draft /\ y.body = z.body /\ y.auth = z.auth
  /\ z.wire # "no" => y.wire # "no"
  /\ y.row = "SENT" => y.wire = "accepted"
  /\ y.row = "FAILED" => y.wire # "accepted"
  /\ job' = [job EXCEPT ![a].pc = job'[a].pc]
  /\ job[a].pc # "approved"
  /\ job'[a].pc \in Paying => Progress(job'[a].pc, y)

LEMMA AdvanceSafe ==
  ASSUME SafeInv, NEW a \in Actors, NEW y, Advances(a, y), UNCHANGED <<draft, withheld>>
  PROVE  Safe'
<1> DEFINE s == job[a].send
<1>1. /\ s \in Attempts /\ send'[s] = y /\ y # None
      /\ \A z \in Sends : z # s => send'[z] = send[z]
      /\ Attempts' = Attempts
  BY NoneAssumption DEF SafeInv, Inv, TypeOK, SendOK, Advances, Attempts
<1>2. /\ \A c \in Actors : c # a => job'[c] = job[c]
      /\ job'[a].held = job[a].held /\ job'[a].draft = job[a].draft /\ job'[a].send = s
  BY DEF SafeInv, Inv, TypeOK, Job, Advances
<1>3. CleanOK' /\ RowTellsTruth'
  BY <1>1 DEF SafeInv, Safe, CleanOK, RowTellsTruth, Advances
<1>4. HeldOK'
  <2>1. ~job[a].held
    BY DEF SafeInv, Safe, HeldOK, Gated, Advances, Paying
  <2> QED BY <1>2, <2>1 DEF SafeInv, Safe, HeldOK, Gated
<1>5. ProgressOK'
  <2> SUFFICES ASSUME NEW c \in Actors, job'[c].pc \in Paying
               PROVE  Progress(job'[c].pc, send'[job'[c].send])
    BY DEF ProgressOK
  <2>1. CASE c = a
    BY <1>1, <1>2, <2>1 DEF Advances
  <2>2. CASE c # a
    <3>1. job'[c] = job[c] /\ job[c].send # s /\ job[c].send \in Sends
      BY <1>2, <2>2 DEF SafeInv, Inv, SendOK, Apart, Advances, Attempts
    <3> QED BY <1>1, <3>1 DEF SafeInv, Safe, ProgressOK
  <2> QED BY <2>1, <2>2
<1>6. SentDraftWasTransmitted'
  BY <1>1 DEF SafeInv, Safe, SentDraftWasTransmitted, Taken, Attempts, Advances
<1> QED BY <1>3, <1>4, <1>5, <1>6 DEF Safe

LEMMA TransportSafe ==
  ASSUME SafeInv, NEW a \in Actors, Transport(a)
  PROVE  Safe'
<1> DEFINE s == job[a].send
           z == send[s]
<1>1. job[a].pc \in {"cleared", "sending", "accepted", "failed"}
  BY DEF Transport, OpenRecord, SmtpAccept, SmtpLose, SmtpRefuse, Wire, StampRecord, At
<1>2. /\ job \in [Actors -> Job] /\ s \in Sends /\ z \in Send /\ Progress(job[a].pc, z)
      /\ send \in [Sends -> Send \cup {None}] /\ job[a].body \in Texts
  BY <1>1 DEF SafeInv, Safe, Inv, TypeOK, SendOK, ProgressOK, Paying, Attempts, Job
<1>r. (z.row = "SENT" => z.wire = "accepted") /\ (z.row = "FAILED" => z.wire # "accepted")
  BY <1>1 DEF SafeInv, Safe, Inv, SendOK, RowTellsTruth, Paying
<1>3. CASE OpenRecord(a)
  <2>1. PICK row \in {"none", "UNKNOWN"} : send' = [send EXCEPT ![s].row = row]
    BY <1>3 DEF OpenRecord
  <2>2. Advances(a, [z EXCEPT !.row = row])
    BY <1>2, <1>3, <2>1 DEF OpenRecord, At, Become, Advances, Send, Job, Paying, Unsent, Progress
  <2> QED BY <1>3, <2>2, AdvanceSafe DEF OpenRecord
<1>4. CASE SmtpAccept(a) \/ SmtpLose(a) \/ SmtpRefuse(a)
  <2>1. PICK w \in {"accepted", "lost", "no"}, p \in {"accepted", "failed"} :
          Wire(a, w, p) /\ (p = "accepted" <=> w = "accepted")
    BY <1>4 DEF SmtpAccept, SmtpLose, SmtpRefuse
  <2>2. ~Taken(s)
    BY <2>1 DEF Wire, At, SafeInv, Inv, SendOK, Paying, Unsent
  <2>3. Advances(a, [z EXCEPT !.wire = w, !.mail = job[a].body])
    BY <1>2, <2>1, <2>2 DEF Wire, At, Become, Advances, Send, Job, Paying, Unsent, Progress, Taken
  <2> QED BY <2>1, <2>3, AdvanceSafe DEF Wire
<1>5. CASE StampRecord(a)
  <2>1. PICK o \in {"SENT", "FAILED"}, p \in {"delivered", "bounced"} :
          /\ Stamp(a, o, p, p)
          /\ (o = "SENT" /\ p = "delivered" /\ At(a, "accepted"))
               \/ (o = "FAILED" /\ p = "bounced" /\ At(a, "failed"))
    BY <1>5 DEF StampRecord
  <2>2. CASE send' = [send EXCEPT ![s].row = o]
    <3>1. Advances(a, [z EXCEPT !.row = o])
      BY <1>2, <2>1, <2>2 DEF Stamp, At, Become, Advances, Send, Job, Paying, Unsent, Progress
    <3> QED BY <2>1, <3>1, AdvanceSafe DEF Stamp
  <2>3. CASE UNCHANGED send
    <3>1. Advances(a, z)
      BY <1>2, <1>r, <2>1, <2>3 DEF Stamp, At, Become, Advances, Send, Job, Paying, Unsent, Progress
    <3> QED BY <2>1, <3>1, AdvanceSafe DEF Stamp
  <2> QED BY <2>1, <2>2, <2>3 DEF Stamp
<1> QED BY <1>3, <1>4, <1>5 DEF Transport

-----------------------------------------------------------------------------
\* What a step can be.
LEMMA NextKinds ==
  ASSUME SafeInv, [Next]_vars
  PROVE  Harmless \/ Approved \/ \E a \in Actors : Transport(a)
<1>1. CASE \E t \in Tabs : TabNext(t)
  BY <1>1, TabHarmless, ApproveTabApproves
<1>2. CASE \E g \in Pages : PageNext(g)
  BY <1>2, PageHarmless, ApproveManualApproves
<1>3. CASE \E p \in Procs : ProcNext(p)
  BY <1>3, ProcHarmless, BridgeApproveApproves
<1>4. CASE UNCHANGED vars
  BY <1>4, NoJobStep DEF vars, OnlyDelivered
<1>5. CASE CutOff
  BY <1>5, TabCutHarmless, ProcCutHarmless, OutsideHarmless DEF CutOff
<1> QED BY <1>1, <1>2, <1>3, <1>4, <1>5, TriageHarmless, OutsideHarmless DEF Next, Work

LEMMA NextSafe ==
  ASSUME SafeInv, [Next]_vars
  PROVE  Safe'
  BY NextKinds, HarmlessStep, ApproveSafe, TransportSafe DEF Approved

\* SafeInv is an invariant: it is what the four theorems below read off.
THEOREM SafeInvariance == Spec => []SafeInv
<1>1. Init => SafeInv
  BY InitInv, InitSafe DEF SafeInv
<1>2. SafeInv /\ [Next]_vars => SafeInv'
  BY NextInv, NextSafe DEF SafeInv
<1> QED BY <1>1, <1>2, PTL DEF Spec

\* No reply to a message that was withheld when it was approved, and since,
\* is ever on its way to the relay: the worker thread of detail.py reads the
\* gate again, and a bridge process does not start while it is shut.
THEOREM WithheldStaysIn == Spec => []NothingWithheldGoesOut
<1>1. SafeInv => NothingWithheldGoesOut
  BY DEF SafeInv, Safe, HeldOK, Gated, NothingWithheldGoesOut, Transmitting
<1> QED BY <1>1, SafeInvariance, PTL

\* Text the guardrails refuse is not transmitted as a reply or by an agent,
\* though EditRefused stores it in a row that can be sent.
THEOREM BlockedStaysIn == Spec => []BlockedTextNeverLeaves
<1>1. SafeInv => BlockedTextNeverLeaves
  BY DEF SafeInv, Safe, Inv, MailOK, CleanOK, BlockedTextNeverLeaves
<1> QED BY <1>1, SafeInvariance, PTL

\* A draft shown as SENT went to the relay.
THEOREM SentMeansTransmitted == Spec => []SentDraftWasTransmitted
<1>1. SafeInv => SentDraftWasTransmitted
  BY DEF SafeInv, Safe
<1> QED BY <1>1, SafeInvariance, PTL

\* An outbox row that says SENT is of a mail the relay acknowledged, one that
\* says FAILED of a mail it did not, whatever fails or crashes in between.
THEOREM OutboxIsTruthful == Spec => []RowTellsTruth
<1>1. SafeInv => RowTellsTruth
  BY DEF SafeInv, Safe
<1> QED BY <1>1, SafeInvariance, PTL
-----------------------------------------------------------------------------
(* The outbox row.  begin_send_record can fail because the draft or the    *)
(* token it refers to is gone, which deleting a manual draft brings about  *)
(* and nothing else does.                                                  *)

RowsThere ==
  /\ \A r \in Replies : draft[r].state # "GONE"
  /\ \A k \in Auths : auth[k] # None /\ auth[k].status = "gone" => auth[k].draft \in Manuals

\* No reply is deleted by the step, and no token but those of a manual draft.
RowsKept ==
  /\ \A r \in Replies : draft'[r].state = "GONE" => draft[r].state = "GONE"
  /\ \A k \in Auths : auth'[k] # None /\ auth'[k].status = "gone" =>
       \/ auth'[k].draft \in Manuals
       \/ auth[k] # None /\ auth[k].status = "gone" /\ auth'[k].draft = auth[k].draft

LEMMA DraftKept ==
  ASSUME TypeOK, UNCHANGED auth, NEW d, NEW st, NEW b, st # "GONE" \/ d \notin Replies,
         SetDraft(d, st, b)
  PROVE  RowsKept
  BY DEF TypeOK, SetDraft, Drafts, RowsKept

LEMMA StateKept ==
  ASSUME TypeOK, UNCHANGED auth, NEW d, NEW st, st # "GONE", SetState(d, st)
  PROVE  RowsKept
  BY DEF TypeOK, SetState, Drafts, RowsKept

LEMMA AllKept ==
  ASSUME UNCHANGED <<draft, auth>>
  PROVE  RowsKept
  BY DEF RowsKept

LEMMA TabRows ==
  ASSUME TypeOK, NEW t \in Tabs, TabNext(t)
  PROVE  RowsKept
<1>1. CASE \/ \E r \in Replies : OpenTab(t, r)
           \/ ClosePage(t) \/ ClearTab(t) \/ RefuseTab(t)
  BY <1>1 DEF OpenTab, ClosePage, ClearTab, RefuseTab, RowsKept
<1>2. CASE RejectTab(t) \/ TabSent(t) \/ TabRetry(t)
  <2>1. CASE RejectTab(t)
    BY <2>1, StateKept DEF RejectTab
  <2>2. CASE TabSent(t) \/ TabRetry(t)
    BY <2>2, DraftKept DEF TabSent, TabRetry, Retryable
  <2> QED BY <1>2, <2>1, <2>2
<1>3. CASE \E b \in Bodies : EditRefused(t, b) \/ SaveTab(t, b)
  BY <1>3, DraftKept DEF EditRefused, SaveTab, Editable
<1>4. CASE \E b \in Bodies : ApplyRevision(t, b)
  BY <1>4, DraftKept DEF ApplyRevision
<1>5. CASE \E b \in Bodies, s \in Sends : ApproveTab(t, b, s)
  BY <1>5, DraftKept DEF ApproveTab, Approval
<1> QED BY <1>1, <1>2, <1>3, <1>4, <1>5 DEF TabNext

LEMMA PageRows ==
  ASSUME TypeOK, NEW g \in Pages, PageNext(g)
  PROVE  RowsKept
<1>1. CASE \/ \E d \in Manuals \cup {None} : OpenPage(g, d)
           \/ \E s \in Sends : ApproveManual(g, s)
           \/ ClosePage(g) \/ RefuseManual(g) \/ ManualFailed(g)
  BY <1>1 DEF OpenPage, ApproveManual, ClosePage, RefuseManual, ManualFailed, Unbusy, RowsKept
<1>2. CASE \E d \in Manuals, b \in Texts : SaveManual(g, d, b) \/ SendManual(g, d, b)
  <2>1. PICK d \in Manuals, b \in Texts : Persist(g, d, b) /\ UNCHANGED auth
    BY <1>2 DEF SaveManual, SendManual
  <2>2. SetDraft(d, "DRAFT", b) \/ UNCHANGED draft
    BY <2>1 DEF Persist
  <2> QED BY <2>1, <2>2, DraftKept, AllKept
<1>3. CASE ManualSent(g)
  <2>1. (SetState(job[g].draft, "SENT") \/ UNCHANGED draft) /\ UNCHANGED auth
    BY <1>3 DEF ManualSent
  <2> QED BY <2>1, StateKept, AllKept
<1>4. CASE \E d \in Manuals : DeleteManual(g, d)
  <2>1. PICK d \in Manuals : DeleteManual(g, d)
    BY <1>4
  <2>2. \A r \in Replies : draft'[r] = draft[r]
    BY <2>1, DraftSendAssumption DEF DeleteManual, SetDraft, TypeOK, Drafts
  <2>3. \A k \in Auths : auth'[k] = auth[k] \/ (auth[k].draft = d /\ auth'[k].draft = auth[k].draft)
    BY <2>1 DEF DeleteManual, TypeOK, Auth
  <2> QED BY <2>2, <2>3 DEF RowsKept
<1> QED BY <1>1, <1>2, <1>3, <1>4 DEF PageNext

LEMMA ProcRows ==
  ASSUME TypeOK, NEW p \in Procs, ProcNext(p)
  PROVE  RowsKept
<1>1. CASE \/ \E d \in Drafts : PrepareRead(p, d)
           \/ \E d \in Drafts, k \in Auths : BridgeLoad(p, d, k)
           \/ \E r \in Replies : ReviseRead(p, r)
           \/ GiveUp(p)
  BY <1>1 DEF PrepareRead, BridgeLoad, LoadUnder, ReviseRead, StartRevision, GiveUp, RowsKept
<1>2. CASE \/ \E s \in Sends : BridgeApprove(p, s)
           \/ \E b \in Bodies : ReviseWrite(p, b)
           \/ BridgeSent(p) \/ BridgeRetry(p)
  <2>1. CASE \E s \in Sends : BridgeApprove(p, s)
    BY <2>1, StateKept DEF BridgeApprove
  <2>2. CASE \E b \in Bodies : ReviseWrite(p, b)
    BY <2>2, DraftKept DEF ReviseWrite
  <2>3. CASE BridgeSent(p) \/ BridgeRetry(p)
    BY <2>3, StateKept DEF BridgeSent, BridgeRetry
  <2> QED BY <1>2, <2>1, <2>2, <2>3
<1>3. CASE \E k \in Auths : PrepareIssue(p, k)
  BY <1>3 DEF PrepareIssue, TypeOK, RowsKept
<1>4. CASE BridgeConsume(p)
  BY <1>4, NoneAssumption DEF BridgeConsume, Consume, TypeOK, Auth, RowsKept
<1> QED BY <1>1, <1>2, <1>3, <1>4 DEF ProcNext

LEMMA CutOffRows ==
  ASSUME TypeOK, CutOff
  PROVE  RowsKept
<1>1. CASE \E p \in Procs : BridgeStrand(p)
  BY <1>1, StateKept DEF BridgeStrand
<1> QED BY <1>1, AllKept DEF CutOff, ServeCrash, TabUnwritten, ProcCrash, BridgeUnwritten

LEMMA StepRows ==
  ASSUME TypeOK, [Next]_vars
  PROVE  RowsKept
<1>1. CASE TriageNext
  <2>1. PICK r \in Replies : \/ \E b \in Bodies : AgentFill(r, b)
                            \/ RetireDeferred(r) \/ ScreenByHuman(r) \/ ScreenByModel(r)
                            \/ Release(r)
    BY <1>1 DEF TriageNext
  <2>2. CASE \E b \in Bodies : AgentFill(r, b)
    BY <2>2, DraftKept DEF AgentFill
  <2>3. CASE RetireDeferred(r) \/ ScreenByHuman(r)
    <3>1. (SetState(r, "REJECTED") \/ UNCHANGED draft) /\ UNCHANGED auth
      BY <2>3 DEF RetireDeferred, ScreenByHuman
    <3> QED BY <3>1, StateKept, AllKept
  <2>4. CASE ScreenByModel(r) \/ Release(r)
    BY <2>4 DEF ScreenByModel, Release, RowsKept
  <2> QED BY <2>1, <2>2, <2>3, <2>4
<1>2. CASE \E d \in Manuals, b \in Bodies : BridgeCompose(d, b)
  BY <1>2, DraftKept DEF BridgeCompose
<1>3. CASE \E a \in Actors : Transport(a)
  BY <1>3 DEF Transport, OpenRecord, SmtpAccept, SmtpLose, SmtpRefuse, Wire, StampRecord, Stamp,
              RowsKept
<1>4. CASE \E k \in Auths : Expire(k) \/ HourPasses(k)
  BY <1>4 DEF Expire, HourPasses, RecentSends, TypeOK, Auth, RowsKept
<1>5. CASE UNCHANGED vars
  BY <1>5 DEF vars, RowsKept
<1> QED BY <1>1, <1>2, <1>3, <1>4, <1>5, CutOffRows, TabRows, PageRows, ProcRows DEF Next, Work

\* z has its row, or is of a manual draft.
Noted(z) == z.row # "none" \/ z.draft \in Manuals

NotedOK ==
  /\ \A s \in Attempts : Taken(s) => Noted(send[s])
  /\ \A a \in Actors : job[a].pc \in Transmitting => Noted(send[job[a].send])

RecordInv == RowsThere /\ NotedOK

LEMMA HarmlessNoted ==
  ASSUME NotedOK, Harmless
  PROVE  NotedOK'
<1>1. \A a \in Actors : job'[a].pc \in Transmitting =>
        job[a].pc \in Transmitting /\ job'[a].send = job[a].send
  BY DEF Harmless, Stays, Paying, Transmitting
<1> QED BY <1>1 DEF Harmless, NotedOK, Noted, Attempts, Taken

LEMMA ApprovedNoted ==
  ASSUME SafeInv, NotedOK, Approved
  PROVE  NotedOK'
<1>1. PICK a \in Actors, s \in Sends, d \in Drafts, b \in Bodies, k \in Auths \cup {None} :
        Approves(a, s, d, b, k)
  BY DEF Approved
<1>2. /\ send'[s] = NewSend(d, b, k) /\ send[s] = None
      /\ \A z \in Sends : z # s => send'[z] = send[z]
  BY <1>1 DEF SafeInv, Inv, TypeOK, Approves
<1>3. \A z \in Attempts' : Taken(z)' => Noted(send'[z])
  BY <1>2 DEF NotedOK, NewSend, Attempts, Taken
<1>4. ASSUME NEW c \in Actors, job'[c].pc \in Transmitting
      PROVE  Noted(send'[job'[c].send])
  <2>1. c # a /\ job'[c] = job[c]
    BY <1>1, <1>4 DEF SafeInv, Inv, TypeOK, Approves, Transmitting
  <2>2. job[c].send \in Sends \ {s}
    BY <1>2, <1>4, <2>1 DEF SafeInv, Inv, SendOK, Attempts, Transmitting, Paying
  <2> QED BY <1>2, <1>4, <2>1, <2>2 DEF NotedOK
<1> QED BY <1>3, <1>4 DEF NotedOK

\* An actor moves its attempt on: it has its row, or had it before.
LEMMA MoveNoted ==
  ASSUME SafeInv, NotedOK, NEW a \in Actors, NEW y, job[a].pc \in Paying,
         send' = [send EXCEPT ![job[a].send] = y],
         job' = [job EXCEPT ![a].pc = job'[a].pc],
         Noted(y)
  PROVE  NotedOK'
<1> DEFINE s == job[a].send
<1>1. s \in Attempts /\ send'[s] = y /\ \A z \in Sends : z # s => send'[z] = send[z]
  BY DEF SafeInv, Inv, TypeOK, SendOK, Attempts
<1>2. /\ \A c \in Actors : c # a => job'[c] = job[c]
      /\ job'[a].send = s
  BY DEF SafeInv, Inv, TypeOK, Job
<1>3. \A z \in Attempts' : Taken(z)' => Noted(send'[z])
  BY <1>1 DEF NotedOK, Attempts, Taken
<1>4. ASSUME NEW c \in Actors, job'[c].pc \in Transmitting
      PROVE  Noted(send'[job'[c].send])
  <2>1. CASE c = a
    BY <1>1, <1>2, <2>1
  <2>2. CASE c # a
    <3>1. job[c].send \in Sends
      BY <1>2, <1>4, <2>2 DEF SafeInv, Inv, SendOK, Attempts, Transmitting, Paying
    <3> QED BY <1>1, <1>2, <1>4, <2>2, <3>1 DEF NotedOK
  <2> QED BY <2>1, <2>2
<1> QED BY <1>3, <1>4 DEF NotedOK

LEMMA TransportNoted ==
  ASSUME "db" \notin Faults, SafeInv, RecordInv, NEW a \in Actors, Transport(a)
  PROVE  NotedOK'
<1> DEFINE s == job[a].send
           z == send[s]
<1>1. job[a].pc \in {"cleared", "sending", "accepted", "failed"}
  BY DEF Transport, OpenRecord, SmtpAccept, SmtpLose, SmtpRefuse, Wire, StampRecord, At
<1>2. /\ job[a].pc \in Paying /\ s \in Attempts /\ z \in Send /\ z.draft \in Drafts
      /\ job \in [Actors -> Job] /\ send \in [Sends -> Send \cup {None}]
  BY <1>1 DEF SafeInv, Inv, TypeOK, SendOK, Paying, Attempts, Send
<1>3. CASE OpenRecord(a)
  <2>1. PICK row \in {"none", "UNKNOWN"} :
          /\ row = "none" => ~CanOpen(s)
          /\ send' = [send EXCEPT ![s].row = row] /\ Become(a, "sending")
    BY <1>3 DEF OpenRecord, Fault
  <2>2. z.draft \in Replies => CanOpen(s)
    BY <1>2, DraftSendAssumption
       DEF CanOpen, RecordInv, RowsThere, SafeInv, Inv, TokenOK, Send
  <2>3. Noted([z EXCEPT !.row = row])
    BY <1>2, <2>1, <2>2 DEF Noted, Drafts, Send
  <2>4. send' = [send EXCEPT ![s] = [z EXCEPT !.row = row]] /\ job' = [job EXCEPT ![a].pc = job'[a].pc]
    BY <1>2, <2>1 DEF Become, Job
  <2> QED BY <1>2, <2>3, <2>4, MoveNoted DEF RecordInv
<1>4. CASE SmtpAccept(a) \/ SmtpLose(a) \/ SmtpRefuse(a)
  <2>1. PICK w \in {"accepted", "lost", "no"}, p \in {"accepted", "failed"} : Wire(a, w, p)
    BY <1>4 DEF SmtpAccept, SmtpLose, SmtpRefuse
  <2>2. Noted(z)
    BY <2>1 DEF Wire, At, Transmitting, RecordInv, NotedOK
  <2>3. Noted([z EXCEPT !.wire = w, !.mail = job[a].body])
    BY <1>2, <2>2 DEF Noted, Send
  <2>4. /\ send' = [send EXCEPT ![s] = [z EXCEPT !.wire = w, !.mail = job[a].body]]
        /\ job' = [job EXCEPT ![a].pc = job'[a].pc]
    BY <1>2, <2>1 DEF Wire, Become, Job
  <2> QED BY <1>2, <2>3, <2>4, MoveNoted DEF RecordInv
<1>5. CASE StampRecord(a)
  <2>1. PICK o \in {"SENT", "FAILED"}, p \in {"delivered", "bounced"} : Stamp(a, o, p, p)
    BY <1>5 DEF StampRecord
  <2>2. Noted(z)
    BY <1>5 DEF StampRecord, At, Transmitting, RecordInv, NotedOK
  <2>3. PICK y \in {z, [z EXCEPT !.row = o]} : send' = [send EXCEPT ![s] = y]
    BY <1>2, <2>1 DEF Stamp
  <2>4. Noted(y)
    BY <1>2, <2>2, <2>3 DEF Noted, Send
  <2>5. job' = [job EXCEPT ![a].pc = job'[a].pc]
    BY <1>2, <2>1 DEF Stamp, Become, Job
  <2> QED BY <1>2, <2>3, <2>4, <2>5, MoveNoted DEF RecordInv
<1> QED BY <1>3, <1>4, <1>5 DEF Transport

LEMMA RecordedStep ==
  ASSUME "db" \notin Faults
  PROVE  SafeInv /\ RecordInv /\ [Next]_vars => RecordInv'
<1> SUFFICES ASSUME SafeInv, RecordInv, [Next]_vars PROVE RecordInv'
  OBVIOUS
<1>1. RowsThere'
  BY StepRows DEF SafeInv, Inv, RecordInv, RowsThere, RowsKept
<1>2. NotedOK'
  BY NextKinds, HarmlessNoted, ApprovedNoted, TransportNoted DEF RecordInv
<1> QED BY <1>1, <1>2 DEF RecordInv

\* Every mail on the wire has its row, or is of a manual draft.
RowOrManual == \A s \in Attempts : Taken(s) => Noted(send[s])

\* While the database answers, no reply is on the wire without its outbox row,
\* and a manual draft only if it was deleted under its send: a transmission that
\* begin_send_record could not note is of a manual draft.
THEOREM RepliesAreRecorded ==
  ASSUME "db" \notin Faults
  PROVE  Spec => []RowOrManual
<1>1. Init => RecordInv
  BY DraftSendAssumption
     DEF Init, RecordInv, RowsThere, NotedOK, Drafts, Attempts, Idle, Transmitting
<1>2. RecordInv => RowOrManual
  BY DEF RecordInv, NotedOK, RowOrManual
<1>3. SafeInv /\ RecordInv /\ [Next]_vars => RecordInv'
  BY RecordedStep
<1> QED BY <1>1, <1>2, <1>3, SafeInvariance, PTL DEF Spec

\* Where only replies are sent, every mail on the wire has its row.
THEOREM EverySendIsRecorded ==
  ASSUME "db" \notin Faults, Manuals = {}
  PROVE  Spec => []EverySendRecorded
<1>1. RowOrManual => EverySendRecorded
  BY DEF RowOrManual, Noted, EverySendRecorded
<1> QED BY <1>1, RepliesAreRecorded, PTL

-----------------------------------------------------------------------------
(* DraftSend implements SendLedger: every mail the relay took was approved *)
(* by a human, draft and text, and no approval paid for two of them.       *)

LEMMA LedgerInit == Init => Ledger!Init
  BY DEF Init, Ledger!Init, ApprovedAs, MailedAs, Attempts

\* The ledger sees neither the states of drafts nor those of tokens and rows.
LEMMA LedgerStutter ==
  ASSUME Inv, UNCHANGED send,
         \A k \in Auths : /\ auth'[k] = None <=> auth[k] = None
                          /\ auth[k] # None => /\ auth'[k].draft = auth[k].draft
                                               /\ auth'[k].body = auth[k].body
  PROVE  UNCHANGED Ledger!vars
<1>1. UNCHANGED ApprovedAs
  BY DEF ApprovedAs
<1>2. UNCHANGED MailedAs
  BY DEF MailedAs, Attempts, Taken, KeyOf
<1> QED BY <1>1, <1>2 DEF Ledger!vars

\* A token is issued for what the human is shown.
LEMMA LedgerIssue ==
  ASSUME Inv, NEW p \in Procs, NEW k \in Auths, PrepareIssue(p, k)
  PROVE  Ledger!Next
<1> DEFINE d == job[p].draft
           x == job[p].body
<1>1. d \in Drafts /\ x \in Bodies /\ TypeOK
  BY DraftSendAssumption DEF Inv, JobOK, Holds, PrepareIssue, At, Actors
<1>2. /\ UNCHANGED send /\ auth[k] = None
      /\ auth' = [auth EXCEPT ![k] = [draft |-> d, body |-> x, status |-> "staged",
                                      expired |-> FALSE, recent |-> FALSE]]
  BY DEF PrepareIssue
<1> HIDE DEF d, x
<1>3. /\ auth'[k].draft = d /\ auth'[k].body = x /\ auth'[k] # None
      /\ \A l \in Auths : l # k => auth'[l] = auth[l]
  <2>1. [draft |-> d, body |-> x, status |-> "staged", expired |-> FALSE, recent |-> FALSE] \in Auth
    BY <1>1 DEF Auth
  <2> QED BY <1>1, <1>2, <2>1, NoneAssumption DEF TypeOK
<1>4. ApprovedAs' = [ApprovedAs EXCEPT ![k] = [draft |-> d, text |-> x]]
  BY <1>2, <1>3 DEF ApprovedAs
<1>5. UNCHANGED MailedAs
  BY <1>2 DEF MailedAs, Attempts, Taken, KeyOf
<1>6. ApprovedAs[k] = None
  BY <1>2 DEF ApprovedAs
<1>7. Ledger!Approve(k, d, x)
  BY <1>4, <1>5, <1>6 DEF Ledger!Approve
<1> QED BY <1>1, <1>7 DEF Ledger!Next

\* A click in the UI approves the text in the box and starts one attempt.
LEMMA LedgerClick ==
  ASSUME Inv, UNCHANGED auth, NEW s \in Sends, NEW d \in Drafts, NEW b \in Bodies,
         NEW k \in Auths \cup {None}, send[s] = None,
         send' = [send EXCEPT ![s] = NewSend(d, b, k)]
  PROVE  /\ k = None => Ledger!Next
         /\ k # None => UNCHANGED Ledger!vars
<1>1. TypeOK /\ s \notin Auths
  BY DraftSendAssumption DEF Inv
<1>2. /\ send'[s] # None /\ send'[s].draft = d /\ send'[s].body = b
      /\ send'[s].auth = k /\ send'[s].wire = "no"
      /\ \A z \in Sends : z # s => send'[z] = send[z]
  <2>1. NewSend(d, b, k) \in Send
    BY DEF NewSend, Send, Texts
  <2> QED BY <1>1, <2>1, NoneAssumption DEF TypeOK, NewSend
<1>3. UNCHANGED MailedAs
  <2>1. {z \in Attempts : Taken(z)}' = {z \in Attempts : Taken(z)}
    BY <1>2 DEF Attempts, Taken
  <2>2. \A z \in {y \in Attempts : Taken(y)} : send'[z] = send[z]
    BY <1>2 DEF Attempts
  <2> QED BY <2>1, <2>2 DEF MailedAs, KeyOf
<1>4. CASE k = None
  <2>1. ApprovedAs' = [ApprovedAs EXCEPT ![s] = [draft |-> d, text |-> b]]
    BY <1>1, <1>2, <1>4 DEF ApprovedAs
  <2>2. ApprovedAs[s] = None
    BY <1>1 DEF ApprovedAs
  <2>3. Ledger!Approve(s, d, b)
    BY <1>3, <2>1, <2>2 DEF Ledger!Approve
  <2> QED BY <1>4, <2>3 DEF Ledger!Next
<1>5. CASE k # None
  <2>1. UNCHANGED ApprovedAs
    BY <1>1, <1>2, <1>5 DEF ApprovedAs
  <2> QED BY <1>3, <1>5, <2>1 DEF Ledger!vars
<1> QED BY <1>4, <1>5

\* What Wire does to the attempt of a job in "sending".
LEMMA WireFacts ==
  ASSUME Inv, NEW a \in Actors, NEW w \in {"no", "accepted", "lost"}, NEW pc \in PCs, Wire(a, w, pc),
         NEW s, s = job[a].send
  PROVE  /\ s \in Sends /\ s \in Attempts /\ ~Taken(s) /\ UNCHANGED auth
         /\ send[s] \in Send /\ send'[s] # None
         /\ send'[s].draft = send[s].draft /\ send'[s].body = send[s].body
         /\ send'[s].auth = send[s].auth /\ send'[s].wire = w /\ send'[s].mail = send[s].body
         /\ \A z \in Sends : z # s => send'[z] = send[z]
<1>1. job[a].pc = "sending" /\ job[a] \in Job
  BY DEF Wire, At, Inv, TypeOK
<1>2. /\ s \in Attempts /\ s \in Sends /\ ~Taken(s) /\ send[s] \in Send
      /\ send[s].body = job[a].body /\ job[a].body \in Texts
  BY <1>1 DEF Inv, SendOK, Paying, Unsent, Attempts, TypeOK, Job
<1>3. send' = [send EXCEPT ![s].wire = w, ![s].mail = job[a].body] /\ UNCHANGED auth
  BY DEF Wire
<1>4. /\ send'[s] \in Send
      /\ send'[s].draft = send[s].draft /\ send'[s].body = send[s].body
      /\ send'[s].auth = send[s].auth /\ send'[s].wire = w /\ send'[s].mail = send[s].body
      /\ \A z \in Sends : z # s => send'[z] = send[z]
  BY <1>2, <1>3 DEF Inv, TypeOK, Send
<1> QED BY <1>2, <1>3, <1>4, NoneAssumption

\* Steps that change only rows of the outbox, or that the relay refuses.
LEMMA LedgerRow ==
  ASSUME Inv, UNCHANGED auth, NEW s \in Attempts, send'[s] # None,
         send'[s].draft = send[s].draft, send'[s].body = send[s].body,
         send'[s].auth = send[s].auth, send'[s].wire = send[s].wire,
         send[s].wire # "no" => send'[s].mail = send[s].mail,
         \A z \in Sends : z # s => send'[z] = send[z]
  PROVE  UNCHANGED Ledger!vars
<1>1. Attempts' = Attempts /\ s \in Sends
  BY DEF Attempts
<1>2. UNCHANGED ApprovedAs
  BY <1>1 DEF ApprovedAs, Attempts
<1>3. UNCHANGED MailedAs
  <2>1. {z \in Attempts : Taken(z)}' = {z \in Attempts : Taken(z)}
    BY <1>1 DEF Attempts, Taken
  <2>2. \A z \in {y \in Attempts : Taken(y)} :
          /\ send'[z].draft = send[z].draft /\ send'[z].mail = send[z].mail
          /\ send'[z].auth = send[z].auth
    BY DEF Attempts, Taken
  <2> QED BY <2>1, <2>2 DEF MailedAs, KeyOf
<1> QED BY <1>2, <1>3 DEF Ledger!vars

\* The relay takes a mail: the one promised step of the ledger.
LEMMA LedgerWire ==
  ASSUME Inv, NEW a \in Actors, NEW w \in {"accepted", "lost"}, NEW pc \in PCs, Wire(a, w, pc),
         NEW s, s = job[a].send
  PROVE  Ledger!Next
<1> DEFINE k == KeyOf(s)
           m == [id |-> s, key |-> k, draft |-> send[s].draft, text |-> send[s].body]
<1>1. /\ s \in Sends /\ s \in Attempts /\ ~Taken(s) /\ UNCHANGED auth
      /\ send[s] \in Send /\ send'[s] # None
      /\ send'[s].draft = send[s].draft /\ send'[s].body = send[s].body
      /\ send'[s].auth = send[s].auth /\ send'[s].wire = w /\ send'[s].mail = send[s].body
      /\ \A z \in Sends : z # s => send'[z] = send[z]
  BY WireFacts
<1>2. UNCHANGED ApprovedAs
  BY <1>1 DEF ApprovedAs, Attempts
<1>3. k \in Auths \cup Sends /\ ApprovedAs[k] = [draft |-> send[s].draft, text |-> send[s].body]
  <2>1. CASE send[s].auth = None
    BY <1>1, <2>1, DraftSendAssumption DEF KeyOf, ApprovedAs, Attempts
  <2>2. CASE send[s].auth # None
    <3>1. send[s].auth \in Auths
      BY <1>1, <2>2 DEF Send
    <3>2. auth[send[s].auth] # None /\ auth[send[s].auth].draft = send[s].draft
          /\ auth[send[s].auth].body = send[s].body
      BY <1>1, <2>2 DEF Inv, TokenOK
    <3> QED BY <2>2, <3>1, <3>2 DEF KeyOf, ApprovedAs
  <2> QED BY <2>1, <2>2
<1>4. ApprovedAs[k] # None
  BY <1>1, <1>3, NoneAssumption DEF Send
<1>5. ASSUME NEW z \in Attempts, Taken(z) PROVE z # s /\ KeyOf(z) # k
  <2>1. z # s /\ z \in Sends /\ send[z] \in Send
    BY <1>1, <1>5 DEF Attempts, Inv, TypeOK
  <2>2. CASE send[z].auth # None /\ send[z].auth = send[s].auth
    BY <1>1, <2>1, <2>2 DEF Inv, TokenSpentOnce
  <2>3. CASE send[z].auth = None \/ send[z].auth # send[s].auth
    BY <1>1, <2>1, <2>3, DraftSendAssumption DEF KeyOf, Send
  <2> QED BY <2>1, <2>2, <2>3
<1>6. \A x \in MailedAs : x.id # s /\ x.key # k
  BY <1>5 DEF MailedAs
<1>7. MailedAs' = MailedAs \cup {m}
  <2>1. {z \in Attempts : Taken(z)}' = {z \in Attempts : Taken(z)} \cup {s}
    BY <1>1 DEF Attempts, Taken
  <2>2. \A z \in {y \in Attempts : Taken(y)} : send'[z] = send[z]
    BY <1>1 DEF Attempts
  <2>3. /\ KeyOf(s)' = k /\ send'[s].draft = send[s].draft /\ send'[s].mail = send[s].body
        /\ \A z \in {y \in Attempts : Taken(y)} : KeyOf(z)' = KeyOf(z)
    BY <1>1, <2>2 DEF KeyOf
  <2> HIDE DEF k
  <2> QED BY <2>1, <2>2, <2>3 DEF MailedAs
<1>8. Ledger!Transmit(s, k)
  BY <1>2, <1>3, <1>4, <1>6, <1>7 DEF Ledger!Transmit
<1> QED BY <1>1, <1>3, <1>8 DEF Ledger!Next

LEMMA LedgerTransport ==
  ASSUME Inv, NEW a \in Actors, Transport(a)
  PROVE  Ledger!Next \/ UNCHANGED Ledger!vars
<1> DEFINE s == job[a].send
<1>1. {"accepted", "failed"} \subseteq PCs
  BY DEF PCs, Transmitting
<1>2. CASE SmtpAccept(a) \/ SmtpLose(a)
  <2>1. PICK z : z = job[a].send
    OBVIOUS
  <2> QED BY <1>1, <1>2, <2>1, LedgerWire DEF SmtpAccept, SmtpLose
<1>3. CASE SmtpRefuse(a)
  <2>1. Wire(a, "no", "failed")
    BY <1>3 DEF SmtpRefuse
  <2>2. /\ s \in Attempts /\ ~Taken(s) /\ UNCHANGED auth /\ send'[s] # None
        /\ send'[s].draft = send[s].draft /\ send'[s].body = send[s].body
        /\ send'[s].auth = send[s].auth /\ send'[s].wire = "no"
        /\ \A z \in Sends : z # s => send'[z] = send[z]
    BY <1>1, <2>1, WireFacts
  <2> QED BY <2>2, LedgerRow DEF Taken
<1>4. CASE UNCHANGED <<auth, send>>
  BY <1>4, LedgerStutter
<1>5. ASSUME NEW row \in {"none", "UNKNOWN", "SENT", "FAILED"}, UNCHANGED auth,
             job[a].pc \in Paying, send' = [send EXCEPT ![s].row = row]
      PROVE  UNCHANGED Ledger!vars
  <2>1. s \in Attempts /\ send[s] \in Send
    BY <1>5 DEF Inv, SendOK, TypeOK, Attempts
  <2>2. /\ send'[s] \in Send
        /\ send'[s].draft = send[s].draft /\ send'[s].body = send[s].body
        /\ send'[s].auth = send[s].auth /\ send'[s].wire = send[s].wire
        /\ send'[s].mail = send[s].mail
        /\ \A z \in Sends : z # s => send'[z] = send[z]
    BY <1>5, <2>1 DEF Inv, TypeOK, Send, Attempts
  <2> QED BY <1>5, <2>1, <2>2, NoneAssumption, LedgerRow
<1> QED BY <1>2, <1>3, <1>4, <1>5
        DEF Transport, OpenRecord, StampRecord, Stamp, At, Paying

LEMMA LedgerNext ==
  ASSUME Inv, [Next]_vars
  PROVE  Ledger!Next \/ UNCHANGED Ledger!vars
<1>1. CASE UNCHANGED <<auth, send>>
  BY <1>1, LedgerStutter
<1>2. ASSUME NEW k \in Auths, NEW x, auth[k] # None, auth' = [auth EXCEPT ![k] = x],
             x # None, x.draft = auth[k].draft, x.body = auth[k].body, UNCHANGED send
      PROVE  UNCHANGED Ledger!vars
  <2>1. auth'[k] = x /\ \A l \in Auths : l # k => auth'[l] = auth[l]
    BY <1>2 DEF Inv, TypeOK
  <2> QED BY <1>2, <2>1, LedgerStutter
<1>3. ASSUME NEW k \in Auths, Expire(k) \/ HourPasses(k) PROVE UNCHANGED Ledger!vars
  <2>1. auth[k] \in Auth /\ auth[k] # None
    BY <1>3 DEF Inv, TypeOK, Expire, HourPasses, RecentSends
  <2>2. PICK x \in {[auth[k] EXCEPT !.expired = TRUE], [auth[k] EXCEPT !.recent = FALSE]} :
          auth' = [auth EXCEPT ![k] = x]
    BY <1>3 DEF Expire, HourPasses
  <2>3. x \in Auth /\ x.draft = auth[k].draft /\ x.body = auth[k].body
    BY <2>1 DEF Auth
  <2>4. UNCHANGED send
    BY <1>3 DEF Expire, HourPasses
  <2> QED BY <1>2, <2>1, <2>2, <2>3, <2>4, NoneAssumption
<1>4. ASSUME NEW p \in Procs, BridgeConsume(p) PROVE UNCHANGED Ledger!vars
  <2> DEFINE k == job[p].auth
             x == [auth[k] EXCEPT !.status = "used", !.recent = TRUE]
  <2>1. k \in Auths /\ auth[k] # None /\ auth[k] \in Auth
    BY <1>4 DEF Inv, TypeOK, JobOK, Holds, BridgeConsume, At, Actors
  <2>2. auth' = [auth EXCEPT ![k] = x] /\ UNCHANGED send
    BY <1>4, <2>1 DEF BridgeConsume, Consume
  <2> HIDE DEF k
  <2>3. x \in Auth /\ x.draft = auth[k].draft /\ x.body = auth[k].body
    BY <2>1 DEF Auth
  <2> HIDE DEF x
  <2> QED BY <1>2, <2>1, <2>2, <2>3, NoneAssumption
<1>5. ASSUME NEW g \in Pages, NEW d \in Manuals, DeleteManual(g, d) PROVE UNCHANGED Ledger!vars
  <2>1. \A k \in Auths : auth[k] # None => auth[k] \in Auth
    BY DEF Inv, TypeOK
  <2>2. \A x \in Auth : /\ [x EXCEPT !.status = "gone"] \in Auth
                        /\ [x EXCEPT !.status = "gone"].draft = x.draft
                        /\ [x EXCEPT !.status = "gone"].body = x.body
    BY DEF Auth
  <2>3. UNCHANGED send
    BY <1>5 DEF DeleteManual
  <2>4. \A k \in Auths : /\ auth'[k] = None <=> auth[k] = None
                         /\ auth[k] # None => /\ auth'[k].draft = auth[k].draft
                                              /\ auth'[k].body = auth[k].body
    BY <1>5, <2>1, <2>2, NoneAssumption DEF DeleteManual
  <2> QED BY <2>3, <2>4, LedgerStutter
<1>6. ASSUME NEW t \in Tabs, NEW b \in Bodies, NEW s \in Sends, ApproveTab(t, b, s)
      PROVE  Ledger!Next
  <2>1. job[t].draft \in Drafts
    BY <1>6, DraftSendAssumption
    DEF Inv, JobOK, Holds, Actors, ApproveTab, Approval, At, Drafts
  <2>2. UNCHANGED auth /\ send[s] = None
        /\ send' = [send EXCEPT ![s] = NewSend(job[t].draft, b, None)]
    BY <1>6 DEF ApproveTab, Approval
  <2> QED BY <2>1, <2>2, LedgerClick
<1>7. ASSUME NEW g \in Pages, NEW s \in Sends, ApproveManual(g, s) PROVE Ledger!Next
  <2>1. job[g].draft \in Drafts /\ job[g].body \in Bodies
    BY <1>7, DraftSendAssumption DEF Inv, JobOK, Holds, Actors, ApproveManual, At, Drafts
  <2>2. UNCHANGED auth /\ send[s] = None
        /\ send' = [send EXCEPT ![s] = NewSend(job[g].draft, job[g].body, None)]
    BY <1>7 DEF ApproveManual
  <2> QED BY <2>1, <2>2, LedgerClick
<1>8. ASSUME NEW p \in Procs, NEW s \in Sends, BridgeApprove(p, s) PROVE UNCHANGED Ledger!vars
  <2>1. PICK d, b, k : d = job[p].draft /\ b = job[p].body /\ k = job[p].auth
    OBVIOUS
  <2>2. d \in Drafts /\ b \in Bodies /\ k \in Auths /\ k # None
    BY <1>8, <2>1, DraftSendAssumption DEF Inv, JobOK, Holds, Actors, BridgeApprove, At
  <2>3. UNCHANGED auth /\ send[s] = None /\ send' = [send EXCEPT ![s] = NewSend(d, b, k)]
    BY <1>8, <2>1 DEF BridgeApprove
  <2>4. k \in Auths \cup {None} /\ UNCHANGED auth
    BY <2>2, <2>3
  <2> QED BY <2>2, <2>3, <2>4, LedgerClick
<1>9. ASSUME NEW p \in Procs, ProcNext(p) PROVE Ledger!Next \/ UNCHANGED Ledger!vars
  <2>1. CASE UNCHANGED <<auth, send>>
    BY <1>1, <2>1
  <2> QED BY <1>4, <1>8, <1>9, <2>1, LedgerIssue
      DEF ProcNext, PrepareRead, BridgeLoad, LoadUnder, ReviseRead, StartRevision, ReviseWrite,
          BridgeSent, BridgeRetry, GiveUp
<1>10. ASSUME NEW g \in Pages, PageNext(g) PROVE Ledger!Next \/ UNCHANGED Ledger!vars
  BY <1>1, <1>5, <1>7, <1>10
  DEF PageNext, OpenPage, SaveManual, SendManual, ClosePage, RefuseManual, ManualSent,
      ManualFailed, Unbusy
<1>11. ASSUME NEW t \in Tabs, TabNext(t) PROVE Ledger!Next \/ UNCHANGED Ledger!vars
  BY <1>1, <1>6, <1>11
  DEF TabNext, OpenTab, EditRefused, SaveTab, ApplyRevision, ClosePage, RejectTab, ClearTab,
      RefuseTab, TabSent, TabRetry, Retryable
<1>12. CASE TriageNext \/ CutOff \/ \E d \in Manuals, b \in Bodies : BridgeCompose(d, b)
  BY <1>1, <1>12 DEF TriageNext, AgentFill, RetireDeferred, ScreenByHuman, ScreenByModel, Release,
                     CutOff, ServeCrash, TabUnwritten, ProcCrash, BridgeStrand, BridgeUnwritten,
                     BridgeCompose
<1>13. CASE UNCHANGED vars
  BY <1>1, <1>13 DEF vars
<1> QED BY <1>3, <1>9, <1>10, <1>11, <1>12, <1>13, LedgerTransport DEF Next, Work

\* Nothing leaves that a human did not approve, and an approval pays once
\* (README "No auto-send, ever"), whatever pages, processes and crashes do.
THEOREM NothingLeavesUnapproved == Spec => LedgerSpec
<1>1. Inv /\ [Next]_vars => [Ledger!Next]_Ledger!vars
  BY LedgerNext
<1> QED BY <1>1, LedgerInit, Invariance, PTL DEF Spec, LedgerSpec, Ledger!Spec
=============================================================================
