---------------------------- MODULE TriageProofs ----------------------------
(***************************************************************************)
(* No program undoes a human's or a gate's decision to withhold a mail     *)
(* from the model, and triage never rewrites what a human wrote in a       *)
(* draft: for any number of messages, senders, bridge processes, texts and *)
(* configurations, and however often anything fails.                       *)
(***************************************************************************)
EXTENDS Triage, TLAPS

WithMail == {"probing", "classifying", "drafting", "storing"}

\* Whatever works on a mail works on one that has arrived.
ArrivedOK ==
  \A m \in Messages :
    drafts[m] # <<>> \/ queue[m] > 0 \/ m \in todo => box[m] # None

\* A task at work: its mail is stored, and the row it will change exists.
Fits(j, b, d) ==
  j.pc \in WithMail =>
    /\ j.msg \in Messages /\ b[j.msg] # None
    /\ j.pc = "storing" => j.seen <= Len(d[j.msg])

JobsOK == \A t \in Tasks : Fits(job[t], box, drafts)

\* A planned change is for a row that still is as it was read, or that the
\* guard of the UPDATE spares; and it never opens a withheld mail.
PlanFits(p, r) ==
  p # None =>
    /\ r # None
    /\ r.source \in AutoSources => r.status = p.before
    /\ p.verdict.status \in AiReadable => p.before \in AiReadable

PlanOK == plan # None => \A m \in Messages : PlanFits(plan[m], box[m])

Inv == TypeOK /\ ArrivedOK /\ JobsOK /\ PlanOK

\* Only what nobody touched is deferred; the service is about to change a row
\* that no human has written.
HumanRowsOK ==
  \A m \in Messages : \A i \in DOMAIN drafts[m] :
    drafts[m][i].human => drafts[m][i].state # "DEFERRED_NO_LLM"

StoresOK ==
  \A t \in Service :
    job[t].pc = "storing" /\ job[t].seen > 0 => ~drafts[job[t].msg][job[t].seen].human

PutsOK == \A t \in Tasks : ~job[t].put.human

HumanInv == Inv /\ HumanRowsOK /\ StoresOK /\ PutsOK

-----------------------------------------------------------------------------
(* Constants and the screening.                                            *)

LEMMA ConstantsTyped ==
  /\ \A x \in Mails : x.sender \in Senders
  /\ Verdicts \subseteq Labels /\ Agents \cap Service = {}
  /\ MaxClassifyAttempts \in Nat \ {0}
  /\ QueueBound \in Nat /\ FaultBound \in Nat /\ HandBound \in Nat
  /\ None \notin Messages /\ None \notin Tasks
BY TriageAssumption DEF TriageAssumption

Verdictish == [status : Statuses, source : AutoSources, filed : BOOLEAN]

\* assess_inbound answers a stored status and a source of the screener's own.
LEMMA ScreeningTyped ==
  ASSUME NEW mode, NEW c, NEW taughtBy \in Taught, NEW domainTaught
  PROVE  AssessInbound(mode, c, taughtBy, domainTaught) \in Verdictish
<1>1. \A s \in Statuses, src \in AutoSources : Verdict(s, src) \in Verdictish
  BY DEF Verdict, Verdictish
<1>2. CategoryResult(c, taughtBy) \in Verdictish
  BY DEF CategoryResult, ExemptStatus, Verdict, Verdictish, Statuses, AutoSources, Taught
<1>3. \A n : StandardVerdict(c, taughtBy, n) \in Verdictish
  BY <1>1 DEF StandardVerdict, Statuses, AutoSources
<1>4. \A n : ContentVerdict(c, taughtBy, n) \in Verdictish
  BY <1>1 DEF ContentVerdict, Statuses, AutoSources
<1> QED
  BY <1>1, <1>2, <1>3, <1>4 DEF AssessInbound, Statuses, AutoSources

LEMMA MailsTyped ==
  ASSUME NEW x \in Mails
  PROVE  x.sender \in Senders /\ x.risky \in BOOLEAN /\ x # None
BY TriageAssumption, NoneAssumption DEF TriageAssumption

LEMMA ScreenTyped ==
  ASSUME taught \in [Senders -> Taught], NEW x \in Mails, NEW conf
  PROVE  Screen(x, conf) \in Verdictish
BY ScreeningTyped, ConstantsTyped DEF Screen

-----------------------------------------------------------------------------
(* What a step may do to the mail and to the tasks without harm.           *)

\* No row goes, and one whose status changes is no longer the screener's.
RowsKept ==
  \A m \in Messages : box[m] # None =>
    /\ box'[m] # None
    /\ box'[m].source \in AutoSources =>
         box[m].source \in AutoSources /\ box'[m].status = box[m].status

DraftsKept == \A m \in Messages : Len(drafts[m]) <= Len(drafts'[m])

OnlyArrived ==
  \A m \in Messages : drafts'[m] # <<>> \/ queue'[m] > 0 \/ m \in todo' =>
    drafts[m] # <<>> \/ queue[m] > 0 \/ m \in todo \/ box'[m] # None

\* Every task is at work on mail that is there before the step.
JobsGood ==
  /\ job' \in [Tasks -> Job]
  /\ \A u \in Tasks : Fits(job'[u], box, drafts)

LEMMA StepKeeps ==
  ASSUME Inv, TypeOK', RowsKept, DraftsKept, OnlyArrived, JobsGood
  PROVE  ArrivedOK' /\ JobsOK' /\ (plan' = plan => PlanOK')
<1>1. ArrivedOK'
  BY DEF Inv, ArrivedOK, RowsKept, OnlyArrived
<1>2. JobsOK'
  <2> SUFFICES ASSUME NEW u \in Tasks, job'[u].pc \in WithMail
               PROVE  /\ job'[u].msg \in Messages /\ box'[job'[u].msg] # None
                      /\ job'[u].pc = "storing" => job'[u].seen <= Len(drafts'[job'[u].msg])
    BY DEF JobsOK, Fits
  <2> DEFINE m == job'[u].msg
  <2>1. /\ m \in Messages /\ box[m] # None
        /\ job'[u].pc = "storing" => job'[u].seen <= Len(drafts[m])
    BY DEF JobsGood, Fits
  <2>2. drafts[m] \in Seq(Draft) /\ drafts'[m] \in Seq(Draft) /\ job'[u].seen \in Nat
    BY <2>1 DEF Inv, TypeOK, JobsGood, Job
  <2>3. Len(drafts[m]) \in Nat /\ Len(drafts'[m]) \in Nat
    BY <2>2
  <2>4. Len(drafts[m]) <= Len(drafts'[m]) /\ box'[m] # None
    BY <2>1 DEF DraftsKept, RowsKept
  <2> QED  BY <2>1, <2>2, <2>3, <2>4
<1>3. ASSUME plan' = plan PROVE PlanOK'
  BY <1>3 DEF Inv, PlanOK, PlanFits, RowsKept
<1> QED  BY <1>1, <1>2, <1>3

\* A task that comes to a good job leaves the others alone.
LEMMA OneAdvances ==
  ASSUME Inv, NEW t \in Tasks, NEW j \in Job, Fits(j, box, drafts),
         job' = [job EXCEPT ![t] = j]
  PROVE  JobsGood
BY DEF Inv, TypeOK, JobsOK, JobsGood

LEMMA NobodyMoves ==
  ASSUME Inv, job' = job
  PROVE  JobsGood
BY DEF Inv, TypeOK, JobsOK, JobsGood

LEMMA DraftTyped ==
  /\ \A s \in States, n \in 0..MaxClassifyAttempts : NewDraft(s, n) \in Draft
  /\ 0 \in 0..MaxClassifyAttempts
BY ConstantsTyped DEF NewDraft, Draft

LEMMA IdleGood ==
  /\ Idle \in Job /\ Idle.pc = "idle" /\ Idle.msg = None
  /\ \A p \in PCs : [Idle EXCEPT !.pc = p] \in Job /\ [Idle EXCEPT !.pc = p].pc = p
  /\ \A b, d : Fits(Idle, b, d)
<1>1. NewDraft("REJECTED", 0) \in Draft
  BY DraftTyped DEF States
<1> QED  BY <1>1 DEF Idle, Job, PCs, Sources, AutoSources, Fits, WithMail

LEMMA FinishGood ==
  ASSUME Inv, NEW t \in Tasks, Finish(t)
  PROVE  JobsGood
BY IdleGood, OneAdvances DEF Finish

\* A task that goes on with its mail, or stops.
LEMMA BecomeGood ==
  ASSUME Inv, NEW t \in Tasks, NEW p \in PCs \ {"storing"}, Become(t, p),
         p \in WithMail => job[t].pc \in WithMail
  PROVE  JobsGood
<1> DEFINE j == [job[t] EXCEPT !.pc = p]
<1>1. job[t] \in Job /\ Fits(job[t], box, drafts)
  BY DEF Inv, TypeOK, JobsOK
<1>2. j \in Job /\ Fits(j, box, drafts)
  BY <1>1 DEF Job, Fits
<1>3. job' = [job EXCEPT ![t] = j]
  BY DEF Become, Inv, TypeOK
<1> QED  BY <1>2, <1>3, OneAdvances

LEMMA StoringGood ==
  ASSUME Inv, NEW t \in Tasks, NEW m \in Messages, box[m] # None, NEW d \in Draft,
         job' = [job EXCEPT ![t].pc = "storing", ![t].msg = m,
                            ![t].seen = Len(drafts[m]), ![t].put = d]
  PROVE  JobsGood
<1> DEFINE j == [job[t] EXCEPT !.pc = "storing", !.msg = m, !.seen = Len(drafts[m]),
                               !.put = d]
<1>1. job[t] \in Job /\ Len(drafts[m]) \in Nat
  BY DEF Inv, TypeOK
<1>2. j \in Job /\ j.pc = "storing" /\ j.msg = m /\ j.seen = Len(drafts[m])
  BY <1>1 DEF Job, PCs
<1>3. Fits(j, box, drafts)
  BY <1>1, <1>2 DEF Fits
<1>4. job' = [job EXCEPT ![t] = j]
  BY DEF Inv, TypeOK
<1> QED  BY <1>2, <1>3, <1>4, OneAdvances

LEMMA UpsertGood ==
  ASSUME Inv, NEW t \in Tasks, job[t].msg \in Messages, box[job[t].msg] # None,
         NEW s \in States, NEW n \in 0..MaxClassifyAttempts,
         Upsert(t, job[t].msg, s, n)
  PROVE  JobsGood
<1> DEFINE m == job[t].msg
<1>1. CASE drafts[m] = <<>> \/ Deferred(m)
  <2>1. job' = [job EXCEPT ![t].pc = "storing", ![t].msg = m, ![t].seen = Len(drafts[m]),
                           ![t].put = NewDraft(s, n)]
    BY <1>1 DEF Upsert, Inv, TypeOK, Job
  <2> QED  BY <2>1, StoringGood, DraftTyped
<1> QED  BY <1>1, FinishGood DEF Upsert

LEMMA RetireGood ==
  ASSUME Inv, NEW t \in Tasks, NEW m \in Messages, box[m] # None, RetireDeferred(t, m)
  PROVE  JobsGood
BY FinishGood, StoringGood, DraftTyped DEF RetireDeferred, States

LEMMA ProcessGood ==
  ASSUME Inv, NEW t \in Tasks, NEW m \in Messages, box[m] # None, ProcessMessage(t, m)
  PROVE  JobsGood
<1> DEFINE j == [Idle EXCEPT !.pc = "probing", !.msg = m, !.source = box[m].source]
<1>1. box[m].source \in Sources
  BY DEF Inv, TypeOK, Row
<1>2. j \in Job
  BY <1>1, IdleGood DEF Job, PCs
<1>3. j.pc = "probing" /\ j.msg = m
  BY IdleGood DEF Job
<1>4. Fits(j, box, drafts)
  BY <1>3 DEF Fits
<1> QED  BY <1>2, <1>4, OneAdvances, RetireGood DEF ProcessMessage

-----------------------------------------------------------------------------
(* The steps.                                                              *)

LEMMA AtMail ==
  ASSUME Inv, NEW t \in Tasks, job[t].pc \in WithMail
  PROVE  /\ job[t] \in Job /\ job[t].msg \in Messages
         /\ box[job[t].msg] \in Row /\ box[job[t].msg] # None
         /\ mail[job[t].msg] \in Mails /\ Sender(job[t].msg) \in Senders
BY ConstantsTyped DEF Inv, TypeOK, JobsOK, Fits, Sender

\* A step that leaves the mail, the drafts and the rows alone.
LEMMA JobStep ==
  ASSUME Inv, JobsGood, UNCHANGED <<mailVars, taught, wanted, configVars, plan>>,
         known' \subseteq Senders, queue' \in [Messages -> Nat],
         lock' \in Service \cup {None}, todo' \subseteq Messages,
         OnlyArrived, faults' \in 0..FaultBound, hands' \in 0..HandBound
  PROVE  Inv'
<1> USE DEF mailVars, configVars
<1>1. TypeOK'
  BY DEF Inv, TypeOK, JobsGood
<1>2. RowsKept /\ DraftsKept
  <2>1. \A m \in Messages : Len(drafts[m]) \in Nat
    BY DEF Inv, TypeOK
  <2> QED  BY <2>1 DEF RowsKept, DraftsKept
<1> QED  BY <1>1, <1>2, StepKeeps DEF Inv

LEMMA Counters ==
  ASSUME Inv
  PROVE  /\ faults \in 0..FaultBound /\ hands \in 0..HandBound
         /\ Fails \/ Works => faults' \in 0..FaultBound
         /\ Handed => hands' \in 0..HandBound
BY ConstantsTyped DEF Inv, TypeOK, Fails, Works, Handed

\* A step on rows that leaves drafts and tasks as they are good.
LEMMA RowStep ==
  ASSUME Inv, JobsGood, RowsKept, DraftsKept, OnlyArrived,
         mail' \in [Messages -> Mails \cup {None}], box' \in [Messages -> Row \cup {None}],
         \A m \in Messages : box'[m] # None => mail'[m] # None,
         drafts' \in [Messages -> Seq(Draft)],
         taught' \in [Senders -> Taught], wanted' \subseteq Senders, known' \subseteq Senders,
         configVars' = configVars, queue' \in [Messages -> Nat],
         lock' = lock, todo' = todo, plan' = plan,
         faults' \in 0..FaultBound, hands' \in 0..HandBound
  PROVE  Inv'
<1>1. TypeOK'
  BY DEF Inv, TypeOK, JobsGood, configVars
<1> QED  BY <1>1, StepKeeps DEF Inv

LEMMA BindGood ==
  ASSUME Inv, NEW m \in Messages, Sender(m) \in Senders, BindRecipient(m)
  PROVE  known' \subseteq Senders
BY DEF BindRecipient, Inv, TypeOK

LEMMA StoreStep ==
  ASSUME Inv, NEW t \in Tasks, Store(t)
  PROVE  Inv'
<1> DEFINE m == job[t].msg
           i == job[t].seen
<1>1. /\ job[t] \in Job /\ m \in Messages /\ box[m] # None
      /\ i \in Nat /\ i <= Len(drafts[m]) /\ job[t].put \in Draft /\ drafts[m] \in Seq(Draft)
  BY AtMail DEF Store, At, WithMail, Job, Inv, JobsOK, Fits, TypeOK
<1>2. /\ drafts' \in [Messages -> Seq(Draft)] /\ DraftsKept
      /\ \A k \in Messages : drafts'[k] # <<>> => drafts[k] # <<>> \/ k = m
  <2>1. CASE i = 0
    <3>1. drafts' = [drafts EXCEPT ![m] = Append(@, job[t].put)]
      BY <2>1 DEF Store
    <3>2. Append(drafts[m], job[t].put) \in Seq(Draft)
          /\ Len(Append(drafts[m], job[t].put)) = Len(drafts[m]) + 1
      BY <1>1
    <3>3. \A k \in Messages : Len(drafts[k]) \in Nat
      BY DEF Inv, TypeOK
    <3> QED  BY <1>1, <3>1, <3>2, <3>3 DEF Inv, TypeOK, DraftsKept
  <2>2. CASE i # 0
    <3>1. drafts' = [drafts EXCEPT ![m] = [@ EXCEPT ![i] = job[t].put]]
      BY <2>2 DEF Store, Inv, TypeOK
    <3>2. [drafts[m] EXCEPT ![i] = job[t].put] \in Seq(Draft)
          /\ Len([drafts[m] EXCEPT ![i] = job[t].put]) = Len(drafts[m])
      BY <1>1, <2>2
    <3>3. \A k \in Messages : Len(drafts[k]) \in Nat
      BY DEF Inv, TypeOK
    <3> QED  BY <1>1, <3>1, <3>2, <3>3 DEF Inv, TypeOK, DraftsKept
  <2> QED  BY <2>1, <2>2
<1>3. JobsGood
  BY FinishGood DEF Store
<1>4. RowsKept /\ OnlyArrived
  BY <1>1, <1>2 DEF Store, RowsKept, OnlyArrived, loopVars
<1> QED
  BY <1>2, <1>3, <1>4, RowStep, Counters
     DEF Store, Inv, TypeOK, learnVars, configVars, loopVars

\* What the model's answer makes of a row.
LEMMA FiledGood ==
  ASSUME Inv, NEW m \in Messages, box[m] \in Row, NEW source \in Sources
  PROVE  /\ Classified(m) \in Row /\ Classified(m).source = box[m].source
         /\ Classified(m).status = box[m].status
         /\ Classified(m).quarantined = box[m].quarantined
         /\ FileModelSpam(m, source) \in Row
         /\ FileModelSpam(m, source).quarantined = box[m].quarantined
         /\ \/ FileModelSpam(m, source) = Classified(m)
            \/ /\ FileModelSpam(m, source).source = "LLM"
               /\ FileModelSpam(m, source).status \in {"SPAM", "POTENTIAL_SPAM"}
<1> DEFINE c == Classified(m)
<1>1. /\ c \in Row /\ c.source = box[m].source /\ c.status = box[m].status
      /\ c.quarantined = box[m].quarantined
  BY DEF Classified, Row
<1>2. ASSUME NEW st \in {"SPAM", "POTENTIAL_SPAM"}
      PROVE  LET r == [c EXCEPT !.status = st, !.source = "LLM"]
             IN /\ r \in Row /\ r.source = "LLM" /\ r.status = st
                /\ r.quarantined = box[m].quarantined
  BY <1>1 DEF Row, Statuses, Sources
<1> QED  BY <1>1, <1>2 DEF FileModelSpam

LEMMA GraphStep ==
  ASSUME Inv, NEW t \in Tasks, Graph(t)
  PROVE  Inv'
<1> DEFINE m == job[t].msg
<1> USE DEF vars, mailVars, learnVars, configVars, loopVars
<1>a. job[t].pc \in WithMail
  BY DEF Graph, Store, ModelDown, ModelUp, Garbled, Reply, NoReply, EmptyDraft, Drafted, Raise,
         At, WithMail
<1>b. /\ m \in Messages /\ box[m] # None /\ Sender(m) \in Senders /\ mail[m] \in Mails
      /\ job[t] \in Job /\ box[m] \in Row
  BY <1>a, AtMail
<1>c. {"DEFERRED_NO_LLM", "PENDING", "BLOCKED"} \subseteq States
  BY DEF States
<1>d. ASSUME UNCHANGED <<queue, todo, drafts>>  PROVE OnlyArrived
  BY <1>d DEF OnlyArrived
<1>e. ASSUME drafts' = drafts  PROVE DraftsKept
  <2>1. \A k \in Messages : Len(drafts[k]) \in Nat
    BY DEF Inv, TypeOK
  <2> QED  BY <1>e, <2>1 DEF DraftsKept
<1>f. known \subseteq Senders /\ taught \in [Senders -> Taught] /\ wanted \subseteq Senders
      /\ queue \in [Messages -> Nat] /\ lock \in Service \cup {None} /\ todo \subseteq Messages
      /\ drafts \in [Messages -> Seq(Draft)] /\ mail \in [Messages -> Mails \cup {None}]
      /\ box \in [Messages -> Row \cup {None}]
      /\ \A k \in Messages : box[k] # None => mail[k] # None
  BY DEF Inv, TypeOK
<1>1. CASE Store(t)
  BY <1>1, StoreStep
<1>2. CASE ModelDown(t)
  <2>1. JobsGood
    BY <1>2, <1>b, <1>c, UpsertGood, DraftTyped DEF ModelDown
  <2> QED  BY <1>2, <1>b, <1>d, <1>f, <2>1, JobStep, BindGood, Counters DEF ModelDown
<1>3. CASE ModelUp(t)
  <2>1. JobsGood
    BY <1>3, <1>a, BecomeGood DEF ModelUp, PCs
  <2> QED  BY <1>3, <1>d, <1>f, <2>1, JobStep, Counters DEF ModelUp
<1>4. CASE Garbled(t)
  <2> DEFINE n == ClassifyAttempts(m) + 1
  <2>1. ClassifyAttempts(m) \in Nat
    <3>1. CASE Deferred(m)
      <4>1. Len(drafts[m]) \in DOMAIN drafts[m] /\ drafts[m] \in Seq(Draft)
        BY <1>b, <1>f, <3>1 DEF Deferred
      <4>2. drafts[m][Len(drafts[m])] \in Draft
        BY <4>1
      <4>3. drafts[m][Len(drafts[m])].attempts \in 0..MaxClassifyAttempts
        BY <4>2 DEF Draft
      <4> QED  BY <3>1, <4>3 DEF ClassifyAttempts
    <3> QED  BY <3>1 DEF ClassifyAttempts
  <2>2. JobsGood
    <3>1. CASE n >= MaxClassifyAttempts
      BY <1>4, <1>b, <3>1, RetireGood DEF Garbled
    <3>2. CASE ~(n >= MaxClassifyAttempts)
      <4>1. n \in 0..MaxClassifyAttempts
        BY <2>1, <3>2, ConstantsTyped
      <4> QED  BY <1>4, <1>b, <1>c, <3>2, <4>1, UpsertGood DEF Garbled
    <3> QED  BY <3>1, <3>2
  <2> QED  BY <1>4, <1>b, <1>d, <1>f, <2>2, JobStep, BindGood, Counters DEF Garbled
<1>5. CASE Reply(t)
  <2>1. JobsGood
    BY <1>5, <1>a, BecomeGood DEF Reply, PCs, WithMail
  <2>2. box' \in [Messages -> Row \cup {None}] /\ RowsKept
    <3>1. /\ Classified(m) \in Row /\ Classified(m) # None
          /\ Classified(m).source = box[m].source /\ Classified(m).status = box[m].status
      BY <1>b, FiledGood, NoneAssumption DEF Sources
    <3> QED  BY <1>5, <1>b, <1>f, <3>1 DEF Reply, RowsKept
  <2> QED  BY <1>5, <1>b, <1>d, <1>e, <1>f, <2>1, <2>2, RowStep, BindGood, Counters DEF Reply
<1>6. ASSUME NEW spam \in BOOLEAN, NoReply(t, spam)  PROVE Inv'
  <2>1. JobsGood
    BY <1>6, <1>b, RetireGood DEF NoReply
  <2>2. job[t].source \in Sources
    BY <1>b DEF Job
  <2> DEFINE r == IF spam THEN FileModelSpam(m, job[t].source) ELSE Classified(m)
  <2>3. /\ r \in Row /\ r # None
        /\ r.source \in AutoSources => r.source = box[m].source /\ r.status = box[m].status
    BY <1>b, <2>2, FiledGood, NoneAssumption DEF AutoSources
  <2>4. box' = [box EXCEPT ![m] = r]
    BY <1>6 DEF NoReply
  <2>5. box' \in [Messages -> Row \cup {None}] /\ RowsKept
        /\ \A k \in Messages : box'[k] # None => mail[k] # None
    BY <1>b, <1>f, <2>3, <2>4 DEF RowsKept
  <2> QED  BY <1>6, <1>d, <1>e, <1>f, <2>1, <2>5, RowStep, Counters DEF NoReply
<1>7. CASE EmptyDraft(t)
  <2>1. JobsGood
    BY <1>7, <1>b, <1>c, UpsertGood, DraftTyped DEF EmptyDraft
  <2> QED  BY <1>7, <1>d, <1>f, <2>1, JobStep, Counters DEF EmptyDraft
<1>8. ASSUME NEW x \in Texts, NEW embedded \in BOOLEAN, Drafted(t, x, embedded)  PROVE Inv'
  <2>1. PICK s \in {"PENDING", "BLOCKED"} : Upsert(t, m, s, 0)
    BY <1>8 DEF Drafted
  <2>2. JobsGood
    BY <1>b, <1>c, <2>1, UpsertGood, DraftTyped
  <2> QED  BY <1>8, <1>d, <1>f, <2>2, JobStep, Counters DEF Drafted
<1>9. CASE Raise(t)
  BY <1>9, <1>d, <1>f, FinishGood, JobStep, Counters DEF Raise
<1> QED  BY <1>1, <1>2, <1>3, <1>4, <1>5, <1>6, <1>7, <1>8, <1>9 DEF Graph

LEMMA LoopStep ==
  ASSUME Inv, NEW t \in Service, Loop(t)
  PROVE  Inv'
<1> USE DEF mailVars, learnVars, configVars, loopVars
<1>f. known \subseteq Senders /\ queue \in [Messages -> Nat] /\ lock \in Service \cup {None}
      /\ todo \subseteq Messages /\ t \in Tasks /\ "consumer" \in Tasks
  BY DEF Inv, TypeOK, Tasks, Service
<1>1. CASE Recover
  <2>1. JobsGood
    BY <1>1, <1>f, BecomeGood DEF Recover, PCs, WithMail
  <2>2. queue' \in [Messages -> Nat]
    BY <1>1, <1>f DEF Recover
  <2>3. OnlyArrived
    BY <1>1, <1>f DEF Recover, OnlyArrived, NeedsProcessing
  <2> QED  BY <1>1, <1>f, <2>1, <2>2, <2>3, JobStep, Counters DEF Recover
<1>2. ASSUME NEW m \in Messages, Consume(m)  PROVE Inv'
  <2>1. box[m] # None
    BY <1>2 DEF Consume, Inv, ArrivedOK
  <2>2. JobsGood
    BY <1>2, <1>f, <2>1, ProcessGood DEF Consume
  <2>3. queue' \in [Messages -> Nat] /\ OnlyArrived
    BY <1>2, <1>f DEF Consume, OnlyArrived
  <2> QED  BY <1>2, <1>f, <2>2, <2>3, JobStep, Counters DEF Consume
<1>3. CASE BeginPass(t)
  <2>1. JobsGood
    BY <1>3, <1>f, BecomeGood DEF BeginPass, PCs, WithMail
  <2> QED  BY <1>3, <1>f, <2>1, JobStep, Counters DEF BeginPass, OnlyArrived
<1>4. CASE PassDown(t)
  <2>1. JobsGood
    BY <1>4, <1>f, BecomeGood DEF PassDown, PCs, WithMail
  <2> QED  BY <1>4, <1>f, <2>1, JobStep, Counters DEF PassDown, OnlyArrived
<1>5. CASE PassUp(t)
  <2>1. JobsGood
    BY <1>5, <1>f, BecomeGood DEF PassUp, PCs, WithMail
  <2>2. OnlyArrived /\ todo' \subseteq Messages
    BY <1>5, <1>f DEF PassUp, OnlyArrived, DeferredDrafts, Inv, TypeOK
  <2> QED  BY <1>5, <1>f, <2>1, <2>2, JobStep, Counters DEF PassUp
<1>6. CASE EndPass(t)
  BY <1>6, <1>f, NobodyMoves, JobStep, Counters DEF EndPass, OnlyArrived
<1>7. ASSUME NEW m \in Messages, Resume(t, m)  PROVE Inv'
  <2>1. box[m] # None
    BY <1>7 DEF Resume, Inv, ArrivedOK
  <2>2. JobsGood
    BY <1>7, <1>f, <2>1, ProcessGood DEF Resume
  <2> QED  BY <1>7, <1>f, <2>2, JobStep, Counters DEF Resume, OnlyArrived
<1> QED  BY <1>1, <1>2, <1>3, <1>4, <1>5, <1>6, <1>7 DEF Loop

LEMMA RejectedTyped ==
  ASSUME NEW rows \in Seq(Draft), NEW byHuman \in BOOLEAN
  PROVE  /\ Rejected(rows, byHuman) \in Seq(Draft)
         /\ Len(Rejected(rows, byHuman)) = Len(rows)
         /\ \A i \in DOMAIN rows :
              LET r == Rejected(rows, byHuman)[i]
              IN \/ r = rows[i]
                 \/ /\ r.state = "REJECTED" /\ r.human = (rows[i].human \/ byHuman)
<1> DEFINE new(i) == [rows[i] EXCEPT !.state = "REJECTED", !.human = @ \/ byHuman]
           f == [i \in 1..Len(rows) |-> IF rows[i].state \in Live THEN new(i) ELSE rows[i]]
<1>1. DOMAIN rows = 1..Len(rows) /\ Len(rows) \in Nat
  OBVIOUS
<1>2. ASSUME NEW i \in 1..Len(rows)
      PROVE  /\ new(i) \in Draft /\ new(i).state = "REJECTED"
             /\ new(i).human = (rows[i].human \/ byHuman) /\ rows[i] \in Draft
  <2>1. rows[i] \in Draft
    OBVIOUS
  <2> QED  BY <2>1 DEF Draft, States
<1>3. Rejected(rows, byHuman) = f
  BY <1>1 DEF Rejected
<1> HIDE DEF new
<1>4. f \in [1..Len(rows) -> Draft]
  BY <1>2
<1>5. f \in Seq(Draft) /\ Len(f) = Len(rows)
  BY <1>1, <1>4
<1>6. \A i \in DOMAIN rows :
        \/ f[i] = rows[i]
        \/ f[i].state = "REJECTED" /\ f[i].human = (rows[i].human \/ byHuman)
  BY <1>1, <1>2
<1> QED  BY <1>3, <1>5, <1>6

LEMMA HumanStep ==
  ASSUME Inv, Human
  PROVE  Inv'
<1> USE DEF mailVars, learnVars, configVars, loopVars
<1>f. /\ drafts \in [Messages -> Seq(Draft)] /\ box \in [Messages -> Row \cup {None}]
      /\ taught \in [Senders -> Taught] /\ wanted \subseteq Senders /\ known \subseteq Senders
      /\ mail \in [Messages -> Mails \cup {None}] /\ queue \in [Messages -> Nat]
      /\ \A m \in Messages : box[m] # None => mail[m] # None
      /\ \A k \in Messages : Len(drafts[k]) \in Nat
  BY DEF Inv, TypeOK
<1>g. ASSUME NEW s \in Senders, NEW l, NEW similar, Learn(s, l, similar)
      PROVE  /\ taught' \in [Senders -> Taught] /\ wanted' \subseteq Senders
             /\ known' = known
  BY <1>f, <1>g DEF Learn, Taught
<1>1. ASSUME NEW m \in Messages, NEW l \in Verdicts, NEW similar \in BOOLEAN,
             Label(m, l, similar)
      PROVE  Inv'
  <2>1. box[m] \in Row /\ box[m] # None /\ mail[m] \in Mails /\ Sender(m) \in Senders
    BY <1>1, <1>f, ConstantsTyped DEF Label, Sender
  <2> DEFINE r == [box[m] EXCEPT !.status = l, !.source = "USER"]
  <2>2. r \in Row /\ r.source = "USER" /\ r # None
    BY <2>1, ConstantsTyped, NoneAssumption DEF Row, Statuses, Labels, Sources
  <2>3. box' = [box EXCEPT ![m] = r]
    BY <1>1 DEF Label
  <2>4. box' \in [Messages -> Row \cup {None}] /\ RowsKept
    BY <1>f, <2>1, <2>2, <2>3 DEF RowsKept, AutoSources
  <2>5. /\ drafts' \in [Messages -> Seq(Draft)] /\ DraftsKept
        /\ \A k \in Messages : Len(drafts'[k]) = Len(drafts[k])
    <3>1. drafts' = drafts \/ drafts' = [drafts EXCEPT ![m] = Rejected(drafts[m], TRUE)]
      BY <1>1 DEF Label
    <3>2. /\ Rejected(drafts[m], TRUE) \in Seq(Draft)
          /\ Len(Rejected(drafts[m], TRUE)) = Len(drafts[m])
      BY <1>f, RejectedTyped
    <3>3. CASE drafts' = drafts
      BY <1>f, <3>3 DEF DraftsKept
    <3>4. CASE drafts' = [drafts EXCEPT ![m] = Rejected(drafts[m], TRUE)]
      <4>1. /\ drafts' \in [Messages -> Seq(Draft)]
            /\ \A k \in Messages : Len(drafts'[k]) = Len(drafts[k])
        BY <1>f, <3>2, <3>4
      <4> QED  BY <1>f, <4>1 DEF DraftsKept
    <3> QED  BY <3>1, <3>3, <3>4
  <2>6. OnlyArrived
    <3>1. \A k \in Messages : drafts'[k] # <<>> => drafts[k] # <<>>
      BY <1>f, <2>5
    <3> QED  BY <1>1, <3>1 DEF Label, OnlyArrived
  <2>7. \A k \in Messages : box'[k] # None => mail'[k] # None
    BY <1>1, <1>f, <2>1, <2>3 DEF Label
  <2> QED
    BY <1>1, <1>f, <1>g, <2>1, <2>4, <2>5, <2>6, <2>7, NobodyMoves, RowStep, Counters DEF Label
<1>2. ASSUME NEW s \in Senders, NEW l, Teach(s, l)  PROVE Inv'
  <2>1. RowsKept /\ DraftsKept /\ OnlyArrived /\ JobsGood
    BY <1>2, <1>f, NobodyMoves DEF Teach, RowsKept, DraftsKept, OnlyArrived
  <2>2. taught' \in [Senders -> Taught] /\ wanted' \subseteq Senders /\ known' \subseteq Senders
    BY <1>2, <1>f, <1>g DEF Teach
  <2> QED  BY <1>2, <1>f, <2>1, <2>2, RowStep, Counters DEF Teach
<1>3. ASSUME NEW m \in Messages, Release(m)  PROVE Inv'
  <2> DEFINE r == [box[m] EXCEPT !.quarantined = FALSE]
  <2>1. box[m] \in Row /\ box[m] # None /\ box' = [box EXCEPT ![m] = r]
    BY <1>3, <1>f DEF Release
  <2>2. r \in Row /\ r.source = box[m].source /\ r.status = box[m].status /\ r # None
    BY <2>1, NoneAssumption DEF Row
  <2>3. box' \in [Messages -> Row \cup {None}] /\ RowsKept
        /\ \A k \in Messages : box'[k] # None => mail[k] # None
    BY <1>f, <2>1, <2>2 DEF RowsKept
  <2> QED
    BY <1>3, <1>f, <2>3, NobodyMoves, RowStep, Counters DEF Release, DraftsKept, OnlyArrived
<1>4. ASSUME NEW m \in Messages, NEW i \in DOMAIN drafts[m],
             NEW s \in {"PENDING", "REJECTED", "SENT"}, HandleDraft(m, i, s)
      PROVE  Inv'
  <2> DEFINE d == [drafts[m][i] EXCEPT !.state = s, !.human = TRUE]
             rows == [drafts[m] EXCEPT ![i] = d]
  <2>1. drafts[m] \in Seq(Draft) /\ i \in 1..Len(drafts[m]) /\ drafts[m][i] \in Draft
    BY <1>f
  <2>2. d \in Draft
    BY <2>1 DEF Draft, States
  <2>3. rows \in Seq(Draft) /\ Len(rows) = Len(drafts[m])
    BY <2>1, <2>2
  <2>4. drafts' = [drafts EXCEPT ![m] = rows]
    BY <1>4, <1>f DEF HandleDraft
  <2>5. drafts' \in [Messages -> Seq(Draft)] /\ DraftsKept
    BY <1>f, <2>3, <2>4 DEF DraftsKept
  <2>6. OnlyArrived /\ RowsKept
    BY <1>4, <1>f, <2>1, <2>4 DEF HandleDraft, OnlyArrived, RowsKept
  <2> QED  BY <1>4, <1>f, <2>5, <2>6, NobodyMoves, RowStep, Counters DEF HandleDraft
<1> QED  BY <1>1, <1>2, <1>3, <1>4 DEF Human

LEMMA ListenerStep ==
  ASSUME Inv, Listener
  PROVE  Inv'
<1> USE DEF mailVars, learnVars, configVars, loopVars
<1>f. /\ drafts \in [Messages -> Seq(Draft)] /\ box \in [Messages -> Row \cup {None}]
      /\ taught \in [Senders -> Taught] /\ wanted \subseteq Senders /\ known \subseteq Senders
      /\ mail \in [Messages -> Mails \cup {None}] /\ queue \in [Messages -> Nat]
      /\ \A m \in Messages : box[m] # None => mail[m] # None
      /\ \A k \in Messages : Len(drafts[k]) \in Nat
      /\ lock \in Service \cup {None} /\ todo \subseteq Messages
  BY DEF Inv, TypeOK
<1>1. ASSUME NEW m \in Messages, NEW x \in Mails, Arrive(m, x)  PROVE Inv'
  <2>1. PICK v \in Screenings(x) :
          /\ v = Screen(x, running) => Works
          /\ v # Screen(x, running) => Fails
          /\ box' = [box EXCEPT ![m] =
                      [status |-> v.status, source |-> v.source, quarantined |-> x.risky,
                       model |-> IF v.filed THEN "rule" ELSE "none"]]
    BY <1>1 DEF Arrive
  <2>2. v \in Verdictish
    <3>1. Verdict("POTENTIAL_ISSUE", "AUTO_POLICY") \in Verdictish
      BY DEF Verdict, Verdictish, Statuses, AutoSources
    <3> QED  BY <1>f, <3>1, ScreenTyped DEF Screenings
  <2>3. x \in Mails /\ x.risky \in BOOLEAN /\ x # None
    BY MailsTyped
  <2> DEFINE r == [status |-> v.status, source |-> v.source, quarantined |-> x.risky,
                   model |-> IF v.filed THEN "rule" ELSE "none"]
  <2>4. r \in Row /\ r # None
    BY <2>2, <2>3, NoneAssumption DEF Row, Verdictish, Sources
  <2>5. box' \in [Messages -> Row \cup {None}] /\ RowsKept
    BY <1>1, <1>f, <2>1, <2>4 DEF Arrive, RowsKept
  <2>6. /\ mail' \in [Messages -> Mails \cup {None}] /\ queue' \in [Messages -> Nat]
        /\ \A k \in Messages : box'[k] # None => mail'[k] # None
    BY <1>1, <1>f, <2>1, <2>3 DEF Arrive
  <2>7. OnlyArrived
    BY <1>1, <1>f, <2>1, <2>4 DEF Arrive, OnlyArrived
  <2>8. faults' \in 0..FaultBound /\ hands' \in 0..HandBound
    BY <1>1, <2>1, Counters DEF Arrive
  <2> QED  BY <1>1, <1>f, <2>5, <2>6, <2>7, <2>8, NobodyMoves, RowStep DEF Arrive, DraftsKept
<1>2. ASSUME NEW m \in Messages, Requeue(m)  PROVE Inv'
  BY <1>2, <1>f, NobodyMoves, JobStep, Counters DEF Requeue, NeedsProcessing, OnlyArrived
<1> QED  BY <1>1, <1>2 DEF Listener

LEMMA PlannedGood ==
  ASSUME Inv, NEW m \in Messages, NEW all \in BOOLEAN
  PROVE  /\ Change(m, all) \in Planned \cup {None}
         /\ PlanFits(Change(m, all), box[m])
<1> DEFINE v == Screen(mail[m], file)
           p == [before |-> box[m].status, verdict |-> v]
<1>1. CASE /\ box[m] # None /\ Rewritable(m)
           /\ ~KeptWithheld(box[m].status, v.status)
           /\ ~KeptReadable(box[m].status, v, all)
           /\ v.status # box[m].status \/ v.filed # (box[m].model = "rule")
  <2>1. box[m] \in Row /\ mail[m] \in Mails
    BY <1>1 DEF Inv, TypeOK
  <2>2. v \in Verdictish
    BY <2>1, ScreenTyped DEF Inv, TypeOK
  <2>3. p \in Planned
    BY <2>1, <2>2 DEF Planned, Verdictish, Row
  <2>4. PlanFits(p, box[m])
    BY <1>1 DEF PlanFits, KeptWithheld, AiMayRead
  <2>5. Change(m, all) = p
    BY <1>1 DEF Change
  <2> QED  BY <2>3, <2>4, <2>5
<1>2. CASE ~(/\ box[m] # None /\ Rewritable(m)
             /\ ~KeptWithheld(box[m].status, v.status)
             /\ ~KeptReadable(box[m].status, v, all)
             /\ v.status # box[m].status \/ v.filed # (box[m].model = "rule"))
  <2>1. Change(m, all) = None
    BY <1>2 DEF Change
  <2> QED  BY <2>1 DEF PlanFits
<1> QED  BY <1>1, <1>2

\* What the rescreen makes of a row that it planned to change.
LEMMA RescreenedGood ==
  ASSUME Inv, NEW m \in Messages, plan # None, plan[m] # None
  PROVE  /\ box[m] \in Row /\ Rescreened(m) \in Row /\ Rescreened(m) # None
         /\ Rescreened(m).quarantined = box[m].quarantined
         /\ box[m].status \notin AiReadable => Rescreened(m).status \notin AiReadable
<1> DEFINE v == plan[m].verdict
           r == IF Rewritable(m) THEN [box[m] EXCEPT !.status = v.status, !.source = v.source]
                ELSE box[m]
           k == IF v.filed THEN "rule" ELSE IF r.model = "rule" THEN "none" ELSE r.model
<1>1. box[m] \in Row /\ v \in Verdictish
  BY DEF Inv, TypeOK, PlanOK, PlanFits, Planned, Verdictish
<1>2. /\ r \in Row /\ r.quarantined = box[m].quarantined
      /\ box[m].status \notin AiReadable => r.status \notin AiReadable
  <2>1. CASE Rewritable(m)
    <3>1. r = [box[m] EXCEPT !.status = v.status, !.source = v.source]
      BY <2>1
    <3>2. r \in Row /\ r.quarantined = box[m].quarantined /\ r.status = v.status
      BY <1>1, <3>1 DEF Row, Verdictish, Sources
    <3>3. box[m].status = plan[m].before
          /\ (v.status \in AiReadable => plan[m].before \in AiReadable)
      BY <2>1 DEF Rewritable, Inv, PlanOK, PlanFits
    <3> QED  BY <3>2, <3>3
  <2>2. CASE ~Rewritable(m)
    BY <1>1, <2>2
  <2> QED  BY <2>1, <2>2
<1>3. k \in {"none", "rule", "llm"}
  BY <1>2 DEF Row
<1>4. Rescreened(m) = [r EXCEPT !.model = k]
  BY DEF Rescreened
<1>5. /\ [r EXCEPT !.model = k] \in Row
      /\ [r EXCEPT !.model = k].quarantined = r.quarantined
      /\ [r EXCEPT !.model = k].status = r.status
  BY <1>2, <1>3 DEF Row
<1> HIDE DEF r, k
<1> QED  BY <1>1, <1>2, <1>4, <1>5, NoneAssumption

LEMMA CommandLineStep ==
  ASSUME Inv, CommandLine
  PROVE  Inv'
<1> USE DEF mailVars, learnVars, configVars, loopVars
<1>f. /\ drafts \in [Messages -> Seq(Draft)] /\ box \in [Messages -> Row \cup {None}]
      /\ \A m \in Messages : box[m] # None => mail[m] # None
      /\ \A k \in Messages : Len(drafts[k]) \in Nat
  BY DEF Inv, TypeOK
<1>g. ASSUME UNCHANGED <<drafts, box, queue, todo, job>>
      PROVE  JobsGood /\ RowsKept /\ DraftsKept /\ OnlyArrived
  BY <1>f, <1>g, NobodyMoves DEF RowsKept, DraftsKept, OnlyArrived
<1>1. ASSUME NEW c \in Configs, EditConfig(c)  PROVE Inv'
  <2>1. TypeOK'
    BY <1>1 DEF EditConfig, Inv, TypeOK
  <2> QED  BY <1>1, <1>g, <2>1, StepKeeps DEF EditConfig, Inv
<1>2. ASSUME NEW all \in BOOLEAN, RescreenRead(all)  PROVE Inv'
  <2>1. plan' = [m \in Messages |-> Change(m, all)]
    BY <1>2 DEF RescreenRead
  <2>2. plan' \in [Messages -> Planned \cup {None}]
    BY <2>1, PlannedGood
  <2>3. PlanOK'
    BY <1>2, <2>1, PlannedGood DEF RescreenRead, PlanOK
  <2>4. TypeOK'
    BY <1>2, <2>2 DEF RescreenRead, Inv, TypeOK
  <2> QED  BY <1>2, <1>g, <2>3, <2>4, StepKeeps DEF RescreenRead, Inv
<1>3. CASE RescreenCommit
  <2>1. plan # None /\ plan' = None
    BY <1>3 DEF RescreenCommit
  <2>2. box' = [m \in Messages |-> IF plan[m] = None THEN box[m] ELSE Rescreened(m)]
    BY <1>3 DEF RescreenCommit
  <2>3. box' \in [Messages -> Row \cup {None}]
        /\ \A m \in Messages : (box[m] # None <=> box'[m] # None)
    BY <1>f, <2>1, <2>2, RescreenedGood, NoneAssumption
  <2>4. \A m \in Messages :
          /\ drafts'[m] = drafts[m] \/ drafts'[m] = Rejected(drafts[m], FALSE)
          /\ drafts'[m] \in Seq(Draft) /\ Len(drafts'[m]) = Len(drafts[m])
    BY <1>3, <1>f, RejectedTyped DEF RescreenCommit
  <2>5. drafts' \in [Messages -> Seq(Draft)] /\ DraftsKept
    <3>1. drafts' \in [Messages -> Seq(Draft)]
      BY <1>3, <2>4 DEF RescreenCommit
    <3>2. \A m \in Messages : Len(drafts[m]) \in Nat /\ Len(drafts'[m]) = Len(drafts[m])
      BY <1>f, <2>4
    <3>3. DraftsKept
      BY <3>2 DEF DraftsKept
    <3> QED  BY <3>1, <3>3
  <2>6. TypeOK'
    BY <1>3, <1>f, <2>1, <2>3, <2>5 DEF RescreenCommit, Inv, TypeOK
  <2>7. JobsGood
    BY <1>3, NobodyMoves DEF RescreenCommit
  <2>8. ArrivedOK'
    <3>1. ASSUME NEW m \in Messages, drafts[m] = <<>>  PROVE drafts'[m] = <<>>
      <4>1. drafts'[m] \in Seq(Draft) /\ Len(drafts'[m]) = 0
        BY <2>4, <3>1
      <4> QED  BY <4>1
    <3> QED  BY <1>3, <2>3, <3>1 DEF RescreenCommit, loopVars, Inv, ArrivedOK
  <2>9. JobsOK'
    BY <1>3, <1>f, <2>3, <2>4 DEF RescreenCommit, Inv, TypeOK, Job, JobsOK, Fits
  <2> QED  BY <2>1, <2>6, <2>8, <2>9 DEF Inv, PlanOK
<1> QED  BY <1>1, <1>2, <1>3 DEF CommandLine

LEMMA CrashStep ==
  ASSUME Inv, Crash
  PROVE  Inv'
<1> USE DEF mailVars, learnVars, configVars, loopVars
<1>1. /\ job' \in [Tasks -> Job]
      /\ \A t \in Tasks : job'[t] = job[t] \/ job'[t].pc \in {"starting", "idle"}
  <2>1. \A t \in Tasks : \/ job'[t] = job[t]
                          \/ \E p \in {"starting", "idle"} : job'[t] = [Idle EXCEPT !.pc = p]
    BY DEF Crash
  <2>2. \A t \in Tasks : job[t] \in Job
    BY DEF Inv, TypeOK
  <2>3. ASSUME NEW t \in Tasks
        PROVE  job'[t] \in Job /\ (job'[t] = job[t] \/ job'[t].pc \in {"starting", "idle"})
    <3>1. CASE job'[t] = job[t]
      BY <2>2, <3>1
    <3>2. ASSUME NEW p \in {"starting", "idle"}, job'[t] = [Idle EXCEPT !.pc = p]
          PROVE  job'[t] \in Job /\ job'[t].pc = p
      <4>1. [Idle EXCEPT !.pc = p] \in Job /\ [Idle EXCEPT !.pc = p].pc = p
        BY IdleGood DEF PCs, Job
      <4> QED  BY <3>2, <4>1
    <3> QED  BY <2>1, <3>1, <3>2
  <2>4. job' = [t \in Tasks |-> job'[t]]
    BY DEF Crash
  <2> QED  BY <2>3, <2>4
<1>2. JobsGood
  BY <1>1 DEF Inv, JobsOK, JobsGood, Fits, WithMail
<1>3. RowsKept /\ DraftsKept /\ OnlyArrived
  <2>1. \A m \in Messages : Len(drafts[m]) \in Nat
    BY DEF Inv, TypeOK
  <2> QED  BY <2>1 DEF Crash, RowsKept, DraftsKept, OnlyArrived
<1>4. TypeOK'
  <2>1. /\ queue' \in [Messages -> Nat] /\ lock' = None /\ todo' = {} /\ running' = file
        /\ UNCHANGED <<mail, box, drafts, taught, wanted, known, file, plan, hands>>
    BY DEF Crash
  <2> QED  BY <1>1, <2>1, Counters DEF Crash, Inv, TypeOK
<1> QED  BY <1>2, <1>3, <1>4, StepKeeps DEF Crash, Inv

LEMMA ProposeStep ==
  ASSUME Inv, NEW a \in Agents, NEW m \in Messages, Propose(a, m)
  PROVE  Inv'
<1>1. JobsGood
  BY ProcessGood DEF Propose, Tasks
<1> QED
  BY <1>1, JobStep, Counters
     DEF Propose, Inv, TypeOK, OnlyArrived, mailVars, learnVars, configVars, loopVars

LEMMA InitOK == Init => Inv
<1> SUFFICES ASSUME Init PROVE Inv
  OBVIOUS
<1>1. <<>> \in Seq(Draft)
  OBVIOUS
<1>2. /\ job \in [Tasks -> Job]
      /\ \A t \in Tasks : job[t].pc \in {"starting", "idle"}
  BY IdleGood DEF Init, Job, PCs
<1>3. TypeOK
  BY <1>1, <1>2, ConstantsTyped DEF Init, TypeOK, Taught
<1>4. ArrivedOK /\ JobsOK /\ PlanOK
  BY <1>2 DEF Init, ArrivedOK, JobsOK, PlanOK, Fits, WithMail
<1> QED  BY <1>3, <1>4 DEF Inv

LEMMA Step == Inv /\ [Next]_vars => Inv'
<1> SUFFICES ASSUME Inv, [Next]_vars PROVE Inv'
  OBVIOUS
<1>1. CASE UNCHANGED vars
  BY <1>1 DEF vars, mailVars, learnVars, configVars, loopVars, Inv, TypeOK, ArrivedOK, JobsOK,
              PlanOK
<1> QED
  BY <1>1, GraphStep, LoopStep, HumanStep, ListenerStep, CommandLineStep, CrashStep,
     ProposeStep DEF Next

\* Types, and that nothing works on mail that is not stored.
THEOREM TriageInvariance == Spec => []Inv
BY InitOK, Step, PTL DEF Spec

THEOREM TriageTypeCorrect == Spec => []TypeOK
<1>1. Inv => TypeOK
  BY DEF Inv
<1> QED  BY <1>1, TriageInvariance, PTL

-----------------------------------------------------------------------------
(* Withheld mail.                                                          *)

\* No step makes mail readable for the model but the human's own.
LEMMA WithheldStep ==
  ASSUME Inv, [Next]_vars, NEW m \in Arrived, WithheldFromAi(box[m]),
         ~WithheldFromAi(box'[m])
  PROVE  Release(m) \/ \E similar \in BOOLEAN : Label(m, "CONTENT", similar)
<1>f. m \in Messages /\ box[m] # None /\ box[m] \in Row
  BY DEF Arrived, Inv, TypeOK
<1>g. ASSUME box'[m] = box[m] \/ (/\ box'[m].quarantined = box[m].quarantined
                                  /\ box'[m].status \in AiReadable => box[m].status \in AiReadable)
      PROVE  FALSE
  BY <1>g DEF WithheldFromAi
<1>1. CASE Human
  <2>1. ASSUME NEW k \in Messages, NEW l \in Verdicts, NEW similar \in BOOLEAN,
               Label(k, l, similar)
        PROVE  m = k /\ l = "CONTENT"
    <3>1. box' = [box EXCEPT ![k] = [@ EXCEPT !.status = l, !.source = "USER"]]
      BY <2>1 DEF Label
    <3>2. k = m
      BY <1>f, <1>g, <3>1 DEF Inv, TypeOK
    <3>3. box'[m].quarantined = box[m].quarantined /\ box'[m].status = l
      BY <1>f, <3>1, <3>2 DEF Inv, TypeOK, Row
    <3>4. l \in AiReadable
      BY <1>g, <3>3
    <3> QED  BY <3>2, <3>4, ConstantsTyped DEF AiReadable, Labels
  <2>2. ASSUME NEW k \in Messages, Release(k)  PROVE m = k
    BY <1>f, <1>g, <2>2 DEF Release, Inv, TypeOK
  <2>3. ASSUME UNCHANGED box  PROVE FALSE
    BY <1>g, <2>3
  <2> QED  BY <1>1, <2>1, <2>2, <2>3 DEF Human, Teach, HandleDraft, mailVars
<1>2. CASE Listener
  BY <1>2, <1>f, <1>g DEF Listener, Arrive, Requeue, mailVars, Inv, TypeOK
<1>3. CASE CommandLine
  <2>1. CASE RescreenCommit
    <3>1. box' = [k \in Messages |-> IF plan[k] = None THEN box[k] ELSE Rescreened(k)]
          /\ plan # None
      BY <2>1 DEF RescreenCommit
    <3>2. CASE plan[m] = None
      BY <1>f, <1>g, <3>1, <3>2
    <3>3. CASE plan[m] # None
      BY <1>f, <1>g, <3>1, <3>3, RescreenedGood
    <3> QED  BY <3>2, <3>3
  <2> QED  BY <1>3, <1>g, <2>1 DEF CommandLine, EditConfig, RescreenRead, mailVars
<1>4. ASSUME NEW t \in Tasks, Graph(t)  PROVE FALSE
  <2> DEFINE k == job[t].msg
  <2>1. ASSUME job[t].pc \in WithMail
        PROVE  box[k] \in Row /\ job[t].source \in Sources /\ k \in Messages
    BY <2>1, AtMail DEF Job
  <2>2. ASSUME NEW r, box' = [box EXCEPT ![k] = r], box[k] \in Row,
               r \in {Classified(k), FileModelSpam(k, job[t].source)},
               job[t].source \in Sources, k \in Messages
        PROVE  FALSE
    <3>1. r.quarantined = box[k].quarantined
          /\ (r.status \in AiReadable => box[k].status \in AiReadable)
      BY <2>2, FiledGood DEF AiReadable
    <3>2. box'[m] = box[m] \/ (m = k /\ box'[m] = r)
      BY <1>f, <2>2 DEF Inv, TypeOK
    <3> QED  BY <1>g, <3>1, <3>2
  <2>3. CASE Reply(t)
    BY <2>1, <2>2, <2>3 DEF Reply, At, WithMail
  <2>4. ASSUME NEW spam \in BOOLEAN, NoReply(t, spam)  PROVE FALSE
    <3>1. \E r \in {Classified(k), FileModelSpam(k, job[t].source)} : box' = [box EXCEPT ![k] = r]
      BY <2>4 DEF NoReply
    <3> QED  BY <2>1, <2>2, <2>4, <3>1 DEF NoReply, At, WithMail
  <2> QED
    BY <1>4, <1>g, <2>3, <2>4
       DEF Graph, Store, ModelDown, ModelUp, Garbled, EmptyDraft, Drafted, Raise, mailVars
<1>5. ASSUME UNCHANGED box  PROVE FALSE
  BY <1>g, <1>5
<1> QED
  BY <1>1, <1>2, <1>3, <1>4, <1>5
     DEF Next, Crash, Loop, Recover, Consume, BeginPass, PassDown, PassUp, EndPass, Resume,
         Propose, vars, mailVars

\* rescreen and the model's own verdict leave withheld and quarantined mail
\* withheld, whatever they read before; the human opens it.
THEOREM WithheldIsSafe == Spec => WithheldStaysWithheld
<1>1. Inv /\ [Next]_vars =>
        [\A m \in Arrived : WithheldFromAi(box[m]) /\ ~WithheldFromAi(box'[m]) =>
           \/ Release(m) \/ \E similar \in BOOLEAN : Label(m, "CONTENT", similar)]_vars
  BY WithheldStep
<1> QED  BY <1>1, TriageInvariance, PTL DEF Spec, WithheldStaysWithheld

-----------------------------------------------------------------------------
(* What humans wrote.                                                      *)

HumanKept ==
  \A m \in Messages : \A i \in DOMAIN drafts[m] :
    drafts[m][i].human /\ drafts'[m][i] # drafts[m][i] =>
      \/ Human \/ RescreenCommit \/ \E a \in Agents : Store(a)

\* The index a task stores to names a row.
LEMMA SeenTyped ==
  ASSUME Inv, NEW t \in Tasks, job[t].pc = "storing"
  PROVE  /\ job[t].msg \in Messages /\ drafts[job[t].msg] \in Seq(Draft)
         /\ job[t].seen \in 0..Len(drafts[job[t].msg]) /\ job[t].put \in Draft
         /\ job[t].seen > 0 => job[t].seen \in DOMAIN drafts[job[t].msg]
<1>1. /\ job[t] \in Job /\ job[t].msg \in Messages
      /\ job[t].seen <= Len(drafts[job[t].msg])
  BY DEF Inv, TypeOK, JobsOK, Fits, WithMail
<1>2. drafts[job[t].msg] \in Seq(Draft)
  BY <1>1 DEF Inv, TypeOK
<1>3. job[t].seen \in Nat /\ job[t].put \in Draft /\ Len(drafts[job[t].msg]) \in Nat
  BY <1>1, <1>2 DEF Job
<1> QED  BY <1>1, <1>2, <1>3

LEMMA AppendFacts ==
  ASSUME NEW s \in Seq(Draft), NEW d \in Draft
  PROVE  /\ Append(s, d) \in Seq(Draft) /\ DOMAIN Append(s, d) = 1..(Len(s) + 1)
         /\ Append(s, d)[Len(s) + 1] = d
         /\ \A j \in 1..Len(s) : Append(s, d)[j] = s[j]
<1>1. Append(s, d) \in Seq(Draft) /\ Len(Append(s, d)) = Len(s) + 1 /\ Len(s) \in Nat
  OBVIOUS
<1>2. DOMAIN Append(s, d) = 1..(Len(s) + 1)
  BY <1>1
<1> QED  BY <1>1, <1>2

LEMMA ReplaceFacts ==
  ASSUME NEW s \in Seq(Draft), NEW d \in Draft, NEW i \in 1..Len(s)
  PROVE  LET r == [s EXCEPT ![i] = d]
         IN /\ r \in Seq(Draft) /\ DOMAIN r = DOMAIN s /\ r[i] = d
            /\ \A j \in DOMAIN s : j # i => r[j] = s[j]
<1> DEFINE r == [s EXCEPT ![i] = d]
<1>1. DOMAIN s = 1..Len(s) /\ s \in [1..Len(s) -> Draft]
  OBVIOUS
<1>2. r \in [1..Len(s) -> Draft] /\ r[i] = d /\ \A j \in DOMAIN s : j # i => r[j] = s[j]
  BY <1>1
<1>3. r \in Seq(Draft)
  OBVIOUS
<1> QED  BY <1>1, <1>2, <1>3

\* Store appends a row or rewrites the one it has seen.
LEMMA StoreWrites ==
  ASSUME Inv, NEW t \in Tasks, Store(t), NEW k \in Messages
  PROVE  LET m == job[t].msg
             n == IF job[t].seen = 0 THEN Len(drafts[m]) + 1 ELSE job[t].seen
         IN /\ drafts[k] \in Seq(Draft) /\ drafts'[k] \in Seq(Draft)
            /\ \A i \in DOMAIN drafts'[k] :
                 IF k = m /\ i = n THEN drafts'[k][i] = job[t].put
                 ELSE i \in DOMAIN drafts[k] /\ drafts'[k][i] = drafts[k][i]
            /\ DOMAIN drafts[k] \subseteq DOMAIN drafts'[k]
<1> DEFINE m == job[t].msg
           i == job[t].seen
<1>1. /\ m \in Messages /\ drafts[m] \in Seq(Draft) /\ i \in 0..Len(drafts[m])
      /\ job[t].put \in Draft
      /\ i > 0 => i \in DOMAIN drafts[m]
  BY SeenTyped DEF Store, At
<1>2. drafts \in [Messages -> Seq(Draft)] /\ drafts[k] \in Seq(Draft)
  BY DEF Inv, TypeOK
<1>3. CASE i = 0
  <2>1. drafts' = [drafts EXCEPT ![m] = Append(@, job[t].put)]
    BY <1>3 DEF Store
  <2>2. /\ Append(drafts[m], job[t].put) \in Seq(Draft)
        /\ DOMAIN Append(drafts[m], job[t].put) = 1..(Len(drafts[m]) + 1)
        /\ Append(drafts[m], job[t].put)[Len(drafts[m]) + 1] = job[t].put
        /\ \A j \in 1..Len(drafts[m]) : Append(drafts[m], job[t].put)[j] = drafts[m][j]
    BY <1>1, AppendFacts
  <2>3. /\ Len(drafts[m]) \in Nat /\ DOMAIN drafts[m] = 1..Len(drafts[m])
        /\ \A j \in 1..(Len(drafts[m]) + 1) : j # Len(drafts[m]) + 1 => j \in 1..Len(drafts[m])
    BY <1>1
  <2>4. CASE k # m
    BY <1>2, <2>1, <2>4
  <2>5. CASE k = m
    BY <1>1, <1>2, <1>3, <2>1, <2>2, <2>3, <2>5
  <2> QED  BY <2>4, <2>5
<1>4. CASE i # 0
  <2>1. drafts' = [drafts EXCEPT ![m] = [@ EXCEPT ![i] = job[t].put]]
    BY <1>4, <1>2 DEF Store
  <2> DEFINE r == [drafts[m] EXCEPT ![i] = job[t].put]
  <2>2. i \in 1..Len(drafts[m])
    BY <1>1, <1>4
  <2>3. /\ r \in Seq(Draft) /\ DOMAIN r = DOMAIN drafts[m] /\ r[i] = job[t].put
        /\ \A j \in DOMAIN drafts[m] : j # i => r[j] = drafts[m][j]
    BY <1>1, <2>2, ReplaceFacts
  <2>4. drafts' = [drafts EXCEPT ![m] = r]
    BY <2>1
  <2> HIDE DEF r
  <2> QED  BY <1>1, <1>2, <1>4, <2>3, <2>4
<1> QED  BY <1>3, <1>4

LEMMA DraftsSame ==
  ASSUME [Next]_vars, ~Human, ~RescreenCommit, \A t \in Tasks : ~Store(t)
  PROVE  drafts' = drafts
BY DEF Next, Listener, Arrive, Requeue, CommandLine, EditConfig, RescreenRead, Crash,
  Graph, ModelDown, ModelUp, Garbled, Reply, NoReply, EmptyDraft, Drafted, Raise,
  Loop, Recover, Consume, BeginPass, PassDown, PassUp, EndPass, Resume, Propose,
  vars, mailVars, Tasks

LEMMA HumanKeptStep ==
  ASSUME HumanInv, [Next]_vars
  PROVE  HumanKept
<1> SUFFICES ASSUME NEW m \in Messages, NEW i \in DOMAIN drafts[m], drafts[m][i].human,
                    drafts'[m][i] # drafts[m][i], ~Human, ~RescreenCommit,
                    \A a \in Agents : ~Store(a)
             PROVE  FALSE
  BY DEF HumanKept
<1>1. PICK t \in Service : Store(t)
  BY DraftsSame DEF Tasks
<1>2. t \in Tasks /\ job[t].pc = "storing"
  BY <1>1 DEF Tasks, Store, At
<1> DEFINE k == job[t].msg
           n == job[t].seen
<1>3. DOMAIN drafts[m] \subseteq DOMAIN drafts'[m] /\ drafts[m] \in Seq(Draft)
  BY <1>1, <1>2, StoreWrites DEF HumanInv
<1>4. m = k /\ i = (IF n = 0 THEN Len(drafts[k]) + 1 ELSE n)
  BY <1>1, <1>2, <1>3, StoreWrites DEF HumanInv
<1>5. n = i /\ n > 0
  BY <1>2, <1>3, <1>4, SeenTyped DEF HumanInv
<1> QED  BY <1>2, <1>4, <1>5 DEF HumanInv, StoresOK

\* A task that begins to store goes on with a row that no human has written,
\* and what it will store is not a human's.
Clean(j) ==
  /\ ~j.put.human
  /\ j.pc = "storing" /\ j.seen > 0 =>
       /\ j.msg \in Messages /\ j.seen \in DOMAIN drafts[j.msg]
       /\ ~drafts[j.msg][j.seen].human

JobsClean == \A u \in Tasks : job'[u] = job[u] \/ Clean(job'[u])

LEMMA IdleClean == ~Idle.put.human /\ Idle.pc = "idle"
BY DEF Idle, NewDraft

LEMMA FinishClean ==
  ASSUME Inv, NEW t \in Tasks, Finish(t)
  PROVE  JobsClean
BY IdleClean DEF Finish, Inv, TypeOK, JobsClean, Clean

LEMMA BecomeClean ==
  ASSUME Inv, PutsOK, NEW t \in Tasks, NEW p \in PCs \ {"storing"}, Become(t, p)
  PROVE  JobsClean
<1>1. job[t] \in Job /\ ~job[t].put.human
  BY DEF Inv, TypeOK, PutsOK
<1>2. job'[t].put = job[t].put /\ job'[t].pc = p
  BY <1>1 DEF Become, Inv, TypeOK, Job
<1> QED  BY <1>1, <1>2 DEF Become, Inv, TypeOK, JobsClean, Clean

\* Only a deferred row is seen.
LEMMA StoringClean ==
  ASSUME Inv, HumanRowsOK, NEW t \in Tasks, NEW m \in Messages, NEW s, NEW n,
         drafts[m] = <<>> \/ Deferred(m),
         job' = [job EXCEPT ![t].pc = "storing", ![t].msg = m,
                            ![t].seen = Len(drafts[m]), ![t].put = NewDraft(s, n)]
  PROVE  JobsClean
<1>1. /\ job'[t].pc = "storing" /\ job'[t].msg = m /\ job'[t].seen = Len(drafts[m])
      /\ job'[t].put = NewDraft(s, n)
      /\ \A u \in Tasks : u # t => job'[u] = job[u]
  BY DEF Inv, TypeOK, Job
<1>2. ~NewDraft(s, n).human
  BY DEF NewDraft
<1>3. ASSUME Len(drafts[m]) > 0
      PROVE  Len(drafts[m]) \in DOMAIN drafts[m] /\ ~drafts[m][Len(drafts[m])].human
  <2>1. drafts[m] \in Seq(Draft)
    BY DEF Inv, TypeOK
  <2>2. Len(drafts[m]) \in DOMAIN drafts[m] /\ drafts[m] # <<>>
    BY <1>3, <2>1
  <2>3. drafts[m][Len(drafts[m])] \in Draft
    BY <2>1, <2>2
  <2> QED  BY <2>2, <2>3 DEF Deferred, HumanRowsOK, Draft
<1> QED  BY <1>1, <1>2, <1>3 DEF JobsClean, Clean

LEMMA UpsertClean ==
  ASSUME Inv, HumanRowsOK, NEW t \in Tasks, job[t].msg \in Messages, NEW s, NEW n,
         Upsert(t, job[t].msg, s, n)
  PROVE  JobsClean
<1> DEFINE m == job[t].msg
<1>1. CASE drafts[m] = <<>> \/ Deferred(m)
  <2>1. job' = [job EXCEPT ![t].pc = "storing", ![t].msg = m, ![t].seen = Len(drafts[m]),
                           ![t].put = NewDraft(s, n)]
    BY <1>1 DEF Upsert, Inv, TypeOK, Job
  <2> QED  BY <1>1, <2>1, StoringClean
<1> QED  BY <1>1, FinishClean DEF Upsert

LEMMA RetireClean ==
  ASSUME Inv, HumanRowsOK, NEW t \in Tasks, NEW m \in Messages, RetireDeferred(t, m)
  PROVE  JobsClean
BY FinishClean, StoringClean DEF RetireDeferred

LEMMA ProcessClean ==
  ASSUME Inv, HumanRowsOK, NEW t \in Tasks, NEW m \in Messages, ProcessMessage(t, m)
  PROVE  JobsClean
<1> DEFINE j == [Idle EXCEPT !.pc = "probing", !.msg = m, !.source = box[m].source]
<1>1. j.put = Idle.put /\ j.pc = "probing"
  BY IdleGood DEF Job
<1>2. CASE job' = [job EXCEPT ![t] = j]
  BY <1>1, <1>2, IdleClean DEF Inv, TypeOK, JobsClean, Clean
<1> QED  BY <1>2, RetireClean DEF ProcessMessage

LEMMA GraphClean ==
  ASSUME HumanInv, NEW t \in Tasks, Graph(t)
  PROVE  JobsClean
<1> USE DEF HumanInv
<1>a. job[t].pc \in WithMail
  BY DEF Graph, Store, ModelDown, ModelUp, Garbled, Reply, NoReply, EmptyDraft, Drafted, Raise,
         At, WithMail
<1>b. job[t].msg \in Messages
  BY <1>a, AtMail
<1>1. CASE Store(t) \/ Raise(t)
  BY <1>1, FinishClean DEF Store, Raise
<1>2. CASE ModelUp(t) \/ Reply(t)
  BY <1>2, BecomeClean DEF ModelUp, Reply, PCs
<1>3. CASE ModelDown(t) \/ EmptyDraft(t)
  BY <1>3, <1>b, UpsertClean DEF ModelDown, EmptyDraft
<1>4. CASE Garbled(t)
  BY <1>4, <1>b, UpsertClean, RetireClean DEF Garbled
<1>5. ASSUME NEW spam \in BOOLEAN, NoReply(t, spam)  PROVE JobsClean
  BY <1>5, <1>b, RetireClean DEF NoReply
<1>6. ASSUME NEW x, NEW embedded, Drafted(t, x, embedded)  PROVE JobsClean
  BY <1>6, <1>b, UpsertClean DEF Drafted
<1> QED  BY <1>1, <1>2, <1>3, <1>4, <1>5, <1>6 DEF Graph

LEMMA CleanStep ==
  ASSUME HumanInv, [Next]_vars
  PROVE  JobsClean
<1> USE DEF HumanInv
<1>1. ASSUME NEW t \in Service, Loop(t)  PROVE JobsClean
  <2>1. t \in Tasks /\ "consumer" \in Tasks
    BY DEF Tasks, Service
  <2> QED
    BY <1>1, <2>1, BecomeClean, ProcessClean
       DEF Loop, Recover, Consume, BeginPass, PassDown, PassUp, EndPass, Resume, PCs, JobsClean
<1>2. ASSUME NEW a \in Agents, NEW m \in Messages, Propose(a, m)  PROVE JobsClean
  BY <1>2, ProcessClean DEF Propose, Tasks
<1>3. CASE Crash
  <2>1. \A p \in {"starting", "idle"} :
          [Idle EXCEPT !.pc = p].pc = p /\ [Idle EXCEPT !.pc = p].put = Idle.put
    BY IdleGood DEF PCs, Job
  <2>2. \A t \in Tasks : \/ job'[t] = job[t]
                          \/ \E p \in {"starting", "idle"} : job'[t] = [Idle EXCEPT !.pc = p]
    BY <1>3 DEF Crash
  <2> QED  BY <2>1, <2>2, IdleClean DEF JobsClean, Clean
<1>4. CASE UNCHANGED job
  BY <1>4 DEF JobsClean
<1> QED
  BY <1>1, <1>2, <1>3, <1>4, GraphClean
     DEF Next, Human, Label, Teach, Release, HandleDraft, Listener, Arrive, Requeue,
         CommandLine, EditConfig, RescreenRead, RescreenCommit, vars

\* Where no human acts, a row stays and does not become a human's.
LEMMA MachineRows ==
  ASSUME HumanInv, [Next]_vars, ~Human, NEW k \in Messages, NEW i \in DOMAIN drafts[k]
  PROVE  i \in DOMAIN drafts'[k] /\ (drafts'[k][i].human => drafts[k][i].human)
<1> USE DEF HumanInv
<1>1. ASSUME NEW t \in Tasks, Store(t)
      PROVE  i \in DOMAIN drafts'[k] /\ (drafts'[k][i].human => drafts[k][i].human)
  BY <1>1, StoreWrites DEF PutsOK
<1>2. CASE RescreenCommit
  <2> DEFINE r == Rejected(drafts[k], FALSE)
  <2>1. drafts[k] \in Seq(Draft) /\ FALSE \in BOOLEAN
    BY DEF Inv, TypeOK
  <2>2. /\ r \in Seq(Draft) /\ Len(r) = Len(drafts[k])
        /\ \A n \in DOMAIN drafts[k] :
             r[n] = drafts[k][n] \/ r[n].human = (drafts[k][n].human \/ FALSE)
    BY <2>1, RejectedTyped
  <2>3. drafts'[k] \in {drafts[k], r}
    BY <1>2 DEF RescreenCommit
  <2> HIDE DEF r
  <2>4. DOMAIN r = DOMAIN drafts[k]
    BY <2>1, <2>2
  <2> QED  BY <2>2, <2>3, <2>4
<1> QED  BY <1>1, <1>2, DraftsSame

LEMMA PutsStep ==
  ASSUME HumanInv, [Next]_vars
  PROVE  PutsOK'
BY CleanStep DEF HumanInv, PutsOK, JobsClean, Clean

LEMMA StoresStep ==
  ASSUME HumanInv, [Next]_vars
  PROVE  StoresOK'
<1> SUFFICES ASSUME NEW t \in Service, job'[t].pc = "storing", job'[t].seen > 0
             PROVE  ~drafts'[job'[t].msg][job'[t].seen].human
  BY DEF StoresOK
<1>0. t \in Tasks
  BY DEF Tasks
<1>1. ~Human
  <2>1. Human => UNCHANGED job /\ Calm
    BY DEF Human, Label, Teach, Release, HandleDraft
  <2> QED  BY <2>1 DEF Calm
<1> DEFINE k == job'[t].msg
           i == job'[t].seen
<1>2. k \in Messages /\ i \in DOMAIN drafts[k] /\ ~drafts[k][i].human
  <2>1. CASE job'[t] = job[t]
    BY <1>0, <2>1, SeenTyped DEF HumanInv, StoresOK
  <2>2. CASE Clean(job'[t])
    BY <2>2 DEF Clean
  <2> QED  BY <1>0, <2>1, <2>2, CleanStep DEF JobsClean
<1> QED  BY <1>1, <1>2, MachineRows

\* A row that a human wrote and one that triage writes anew.
LEMMA RowsStep ==
  ASSUME HumanInv, [Next]_vars
  PROVE  HumanRowsOK'
<1> USE DEF HumanInv
<1> SUFFICES ASSUME NEW k \in Messages, NEW i \in DOMAIN drafts'[k], drafts'[k][i].human
             PROVE  drafts'[k][i].state # "DEFERRED_NO_LLM"
  BY DEF HumanRowsOK
<1>0. drafts[k] \in Seq(Draft) /\ drafts \in [Messages -> Seq(Draft)]
  BY DEF Inv, TypeOK
<1>1. ASSUME i \in DOMAIN drafts[k], drafts'[k][i] = drafts[k][i]
      PROVE  drafts'[k][i].state # "DEFERRED_NO_LLM"
  BY <1>1 DEF HumanRowsOK
<1>2. ASSUME NEW t \in Tasks, Store(t)
      PROVE  drafts'[k][i].state # "DEFERRED_NO_LLM"
  BY <1>1, <1>2, StoreWrites DEF PutsOK
<1>3. ASSUME NEW byHuman \in BOOLEAN, drafts'[k] = Rejected(drafts[k], byHuman)
      PROVE  drafts'[k][i].state # "DEFERRED_NO_LLM"
  <2> DEFINE r == Rejected(drafts[k], byHuman)
  <2>1. /\ r \in Seq(Draft) /\ Len(r) = Len(drafts[k])
        /\ \A n \in DOMAIN drafts[k] : r[n] = drafts[k][n] \/ r[n].state = "REJECTED"
    BY <1>0, RejectedTyped
  <2> HIDE DEF r
  <2>2. DOMAIN r = DOMAIN drafts[k] /\ drafts'[k] = r
    BY <1>0, <1>3, <2>1 DEF r
  <2> QED  BY <1>1, <2>1, <2>2
<1>4. CASE RescreenCommit
  <2>1. drafts'[k] \in {drafts[k], Rejected(drafts[k], FALSE)}
    BY <1>4 DEF RescreenCommit
  <2> QED  BY <1>1, <1>3, <2>1
<1>5. CASE Human
  <2>1. ASSUME NEW m \in Messages, NEW l \in Verdicts, NEW similar \in BOOLEAN,
               Label(m, l, similar)
        PROVE  drafts'[k][i].state # "DEFERRED_NO_LLM"
    <3>1. drafts'[k] \in {drafts[k], Rejected(drafts[k], TRUE)}
      BY <1>0, <2>1 DEF Label
    <3> QED  BY <1>1, <1>3, <3>1
  <2>2. ASSUME NEW m \in Messages, NEW s \in {"PENDING", "REJECTED", "SENT"},
               NEW n \in DOMAIN drafts[m], HandleDraft(m, n, s)
        PROVE  drafts'[k][i].state # "DEFERRED_NO_LLM"
    <3> DEFINE d == [drafts[m][n] EXCEPT !.state = s, !.human = TRUE]
               r == [drafts[m] EXCEPT ![n] = d]
    <3>1. drafts[m] \in Seq(Draft) /\ n \in 1..Len(drafts[m]) /\ drafts[m][n] \in Draft
      BY <1>0
    <3>2. d \in Draft /\ d.state = s
      BY <3>1 DEF Draft, States
    <3>3. drafts' = [drafts EXCEPT ![m] = r]
      BY <2>2, <1>0 DEF HandleDraft
    <3> HIDE DEF d
    <3>4. /\ r \in Seq(Draft) /\ DOMAIN r = DOMAIN drafts[m] /\ r[n] = d
          /\ \A j \in DOMAIN drafts[m] : j # n => r[j] = drafts[m][j]
      BY <3>1, <3>2, ReplaceFacts
    <3> HIDE DEF r
    <3>5. CASE k = m
      <4>1. drafts'[k] = r
        BY <1>0, <3>3, <3>5
      <4>2. CASE i = n
        BY <3>2, <3>4, <4>1, <4>2
      <4>3. CASE i # n
        BY <1>1, <3>4, <3>5, <4>1, <4>3
      <4> QED  BY <4>2, <4>3
    <3>6. CASE k # m
      BY <1>0, <1>1, <3>3, <3>6
    <3> QED  BY <3>5, <3>6
  <2>3. CASE UNCHANGED drafts
    BY <1>1, <2>3
  <2>4. ASSUME NEW s, NEW l, Teach(s, l)  PROVE drafts' = drafts
    BY <2>4 DEF Teach, mailVars
  <2>5. ASSUME NEW m, Release(m)  PROVE drafts' = drafts
    BY <2>5 DEF Release
  <2>6. \A m \in Messages, s \in {"PENDING", "REJECTED", "SENT"} :
          \A n \in DOMAIN drafts[m] :
            HandleDraft(m, n, s) => drafts'[k][i].state # "DEFERRED_NO_LLM"
    BY <2>2
  <2> QED
    <3>1. CASE \E m \in Messages, l \in Verdicts, similar \in BOOLEAN : Label(m, l, similar)
      BY <2>1, <3>1
    <3>2. CASE \E m \in Messages, s \in {"PENDING", "REJECTED", "SENT"} :
                 \E n \in DOMAIN drafts[m] : HandleDraft(m, n, s)
      BY <2>6, <3>2
    <3> QED  BY <1>5, <2>3, <2>4, <2>5, <3>1, <3>2 DEF Human
<1> QED  BY <1>1, <1>2, <1>4, <1>5, DraftsSame

LEMMA HumanInit == Init => HumanInv
<1> SUFFICES ASSUME Init PROVE HumanInv
  OBVIOUS
<1>1. Inv
  BY InitOK
<1>2. HumanRowsOK
  BY DEF Init, HumanRowsOK
<1>3. \A p : [Idle EXCEPT !.pc = p].put = Idle.put
  BY DEF Idle
<1>4. PutsOK
  BY <1>3, IdleClean DEF Init, PutsOK
<1>5. StoresOK
  <2>1. \A t \in Tasks : job[t] \in {[Idle EXCEPT !.pc = "starting"], [Idle EXCEPT !.pc = "idle"]}
    BY DEF Init
  <2>2. \A p : "pc" \in DOMAIN Idle /\ [Idle EXCEPT !.pc = p].pc = p
    BY DEF Idle
  <2> QED  BY <2>1, <2>2 DEF StoresOK, Tasks
<1> QED  BY <1>1, <1>2, <1>4, <1>5 DEF HumanInv

\* Everything a task knows of drafts is right: what it is about to rewrite is
\* a deferred row that no human has touched (store.py upsert_message_draft).
THEOREM HumanInvariance == Spec => []HumanInv
<1>1. HumanInv /\ [Next]_vars => HumanInv'
  BY Step, PutsStep, StoresStep, RowsStep DEF HumanInv
<1> QED  BY HumanInit, <1>1, PTL DEF Spec

\* What a human last wrote in a draft is never rewritten by the service's
\* triage, however long ago it read the row (graph.py, store.py 1735).
THEOREM HumanDraftsAreSafe == Spec => HumanDraftsStand
<1>1. HumanInv /\ [Next]_vars => [HumanKept]_vars
  BY HumanKeptStep
<1> QED
  BY <1>1, HumanInvariance, PTL DEF Spec, HumanDraftsStand, HumanKept

-----------------------------------------------------------------------------
(* Without bridge processes: the service's tasks take turns.               *)

OneDraft == \A m \in Messages : Len(drafts[m]) <= 1

\* What a rescreen may do to a row between its reading and its writing is to
\* reject it.
Regenerable == {"DEFERRED_NO_LLM", "REJECTED"}

Seen(j, d) ==
  j.pc = "storing" =>
    /\ j.msg \in Messages /\ j.seen = Len(d[j.msg])
    /\ j.seen > 0 => d[j.msg][j.seen].state \in Regenerable

SoleInv == Inv /\ OneDraft /\ \A t \in Service : Seen(job[t], drafts)

\* A task that begins to store has just seen the row.
Takes(t) ==
  /\ \A u \in Tasks \ {t} : job'[u] = job[u]
  /\ Seen(job'[t], drafts)

LEMMA FinishTakes ==
  ASSUME Inv, NEW t \in Tasks, Finish(t)
  PROVE  Takes(t)
BY IdleClean DEF Finish, Inv, TypeOK, Takes, Seen

LEMMA BecomeTakes ==
  ASSUME Inv, NEW t \in Tasks, NEW p \in PCs \ {"storing"}, Become(t, p)
  PROVE  Takes(t)
BY DEF Become, Inv, TypeOK, Job, Takes, Seen

LEMMA StoringTakes ==
  ASSUME Inv, NEW t \in Tasks, NEW m \in Messages, NEW s, NEW n,
         drafts[m] = <<>> \/ Deferred(m),
         job' = [job EXCEPT ![t].pc = "storing", ![t].msg = m,
                            ![t].seen = Len(drafts[m]), ![t].put = NewDraft(s, n)]
  PROVE  Takes(t)
<1>1. /\ job'[t].pc = "storing" /\ job'[t].msg = m /\ job'[t].seen = Len(drafts[m])
      /\ \A u \in Tasks : u # t => job'[u] = job[u]
  BY DEF Inv, TypeOK, Job
<1>2. Len(drafts[m]) > 0 => drafts[m] # <<>>
  BY DEF Inv, TypeOK
<1> QED BY <1>1, <1>2 DEF Takes, Seen, Regenerable, Deferred

LEMMA UpsertTakes ==
  ASSUME Inv, NEW t \in Tasks, job[t].msg \in Messages, NEW s, NEW n,
         Upsert(t, job[t].msg, s, n)
  PROVE  Takes(t)
<1> DEFINE m == job[t].msg
<1>1. CASE drafts[m] = <<>> \/ Deferred(m)
  <2>1. job' = [job EXCEPT ![t].pc = "storing", ![t].msg = m, ![t].seen = Len(drafts[m]),
                           ![t].put = NewDraft(s, n)]
    BY <1>1 DEF Upsert, Inv, TypeOK, Job
  <2> QED  BY <1>1, <2>1, StoringTakes
<1> QED  BY <1>1, FinishTakes DEF Upsert

LEMMA RetireTakes ==
  ASSUME Inv, NEW t \in Tasks, NEW m \in Messages, RetireDeferred(t, m)
  PROVE  Takes(t)
BY FinishTakes, StoringTakes DEF RetireDeferred

LEMMA ProcessTakes ==
  ASSUME Inv, NEW t \in Tasks, NEW m \in Messages, ProcessMessage(t, m)
  PROVE  Takes(t)
<1> DEFINE j == [Idle EXCEPT !.pc = "probing", !.msg = m, !.source = box[m].source]
<1>1. j.pc = "probing"
  BY IdleGood DEF Job
<1>2. CASE job' = [job EXCEPT ![t] = j]
  BY <1>1, <1>2 DEF Inv, TypeOK, Takes, Seen
<1> QED  BY <1>2, RetireTakes DEF ProcessMessage

LEMMA GraphTakes ==
  ASSUME Inv, NEW t \in Tasks, Graph(t)
  PROVE  Takes(t)
<1>a. job[t].pc \in WithMail
  BY DEF Graph, Store, ModelDown, ModelUp, Garbled, Reply, NoReply, EmptyDraft, Drafted, Raise,
         At, WithMail
<1>b. job[t].msg \in Messages
  BY <1>a, AtMail
<1>1. CASE Store(t) \/ Raise(t)
  BY <1>1, FinishTakes DEF Store, Raise
<1>2. CASE ModelUp(t) \/ Reply(t)
  BY <1>2, BecomeTakes DEF ModelUp, Reply, PCs
<1>3. CASE ModelDown(t) \/ EmptyDraft(t)
  BY <1>3, <1>b, UpsertTakes DEF ModelDown, EmptyDraft
<1>4. CASE Garbled(t)
  BY <1>4, <1>b, UpsertTakes, RetireTakes DEF Garbled
<1>5. ASSUME NEW spam \in BOOLEAN, NoReply(t, spam)  PROVE Takes(t)
  BY <1>5, <1>b, RetireTakes DEF NoReply
<1>6. ASSUME NEW x, NEW embedded, Drafted(t, x, embedded)  PROVE Takes(t)
  BY <1>6, <1>b, UpsertTakes DEF Drafted
<1> QED  BY <1>1, <1>2, <1>3, <1>4, <1>5, <1>6 DEF Graph

LEMMA LoopTakes ==
  ASSUME Inv, NEW t \in Service, Loop(t)
  PROVE  UNCHANGED job \/ Takes(t)
<1>1. t \in Tasks /\ "consumer" \in Tasks
  BY DEF Tasks, Service
<1>2. ASSUME t = "consumer", Recover  PROVE Takes(t)
  BY <1>1, <1>2, BecomeTakes DEF Recover, PCs
<1>3. ASSUME NEW m \in Messages, t = "consumer", Consume(m)  PROVE Takes(t)
  BY <1>1, <1>3, ProcessTakes DEF Consume
<1>4. ASSUME BeginPass(t) \/ PassDown(t) \/ PassUp(t)  PROVE Takes(t)
  BY <1>1, <1>4, BecomeTakes DEF BeginPass, PassDown, PassUp, PCs
<1>5. ASSUME NEW m \in Messages, Resume(t, m)  PROVE Takes(t)
  BY <1>1, <1>5, ProcessTakes DEF Resume
<1>6. ASSUME EndPass(t)  PROVE UNCHANGED job
  BY <1>6 DEF EndPass
<1> QED  BY <1>2, <1>3, <1>4, <1>5, <1>6 DEF Loop

\* A task about to store was so before, or has just seen the row.
LEMMA StoringSince ==
  ASSUME Inv, Agents = {}, [Next]_vars, NEW t \in Service, job'[t].pc = "storing"
  PROVE  \/ job'[t] = job[t]
         \/ Seen(job'[t], drafts) /\ drafts' = drafts
<1>0. t \in Tasks /\ Tasks = Service
  BY DEF Tasks
<1>1. ASSUME NEW u \in Service, Takes(u)
      PROVE  job'[t] = job[t] \/ Seen(job'[t], drafts)
  BY <1>0, <1>1 DEF Takes
<1>2. ASSUME NEW u \in Service, Store(u)  PROVE job'[t] = job[t]
  <2>1. u # t
    BY <1>0, <1>2, IdleClean DEF Store, Finish, Inv, TypeOK
  <2> QED  BY <1>0, <1>2, <2>1 DEF Store, Finish, Inv, TypeOK
<1>3. ASSUME NEW u \in Service, Graph(u), ~Store(u)
      PROVE  drafts' = drafts
  BY <1>3 DEF Graph, ModelDown, ModelUp, Garbled, Reply, NoReply, EmptyDraft, Drafted, Raise,
     mailVars
<1>4. ASSUME NEW u \in Service, Loop(u)  PROVE drafts' = drafts
  BY <1>4 DEF Loop, Recover, Consume, BeginPass, PassDown, PassUp, EndPass, Resume, mailVars
<1>5. ASSUME Crash  PROVE FALSE
  <2>1. job'[t] \in {[Idle EXCEPT !.pc = "starting"], [Idle EXCEPT !.pc = "idle"]}
    BY <1>0, <1>5 DEF Crash
  <2>2. \A p : [Idle EXCEPT !.pc = p].pc = p
    BY DEF Idle
  <2> QED  BY <2>1, <2>2
<1>6. ASSUME Listener \/ Human \/ CommandLine \/ UNCHANGED vars  PROVE job' = job
  BY <1>6 DEF Human, Label, Teach, Release, HandleDraft, Listener, Arrive, Requeue,
     CommandLine, EditConfig, RescreenRead, RescreenCommit, vars
<1>7. CASE \E u \in Service : Graph(u)
  BY <1>0, <1>1, <1>2, <1>3, <1>7, GraphTakes
<1>8. CASE \E u \in Service : Loop(u)
  BY <1>1, <1>4, <1>8, LoopTakes
<1> QED  BY <1>0, <1>5, <1>6, <1>7, <1>8 DEF Next

LEMMA SeenStep ==
  ASSUME SoleInv, Agents = {}, [Next]_vars, NEW t \in Service
  PROVE  Seen(job'[t], drafts')
<1> SUFFICES ASSUME job'[t].pc = "storing"  PROVE Seen(job'[t], drafts')
  BY DEF Seen
<1> USE DEF SoleInv
<1>0. t \in Tasks
  BY DEF Tasks
<1>1. CASE Seen(job'[t], drafts) /\ drafts' = drafts
  BY <1>1
<1>2. CASE job'[t] = job[t]
  <2> DEFINE m == job[t].msg
             i == job[t].seen
  <2>1. /\ m \in Messages /\ drafts[m] \in Seq(Draft) /\ i = Len(drafts[m])
        /\ i > 0 => i \in DOMAIN drafts[m] /\ drafts[m][i].state \in Regenerable
    BY <1>0, <1>2, SeenTyped DEF Seen
  <2>2. ~Human
    <3>1. Human => Calm
      BY DEF Human, Label, Teach, Release, HandleDraft
    <3> QED  BY <1>2, <3>1 DEF Calm
  <2>3. \A u \in Tasks : ~Store(u)
    <3>1. ASSUME NEW u \in Service, Store(u)  PROVE FALSE
      <4>1. u # t
        BY <1>0, <3>1, IdleClean DEF Store, Finish, Inv, TypeOK
      <4> QED  BY <1>2, <3>1, <4>1 DEF Store, At, LoopFree
    <3> QED  BY <3>1 DEF Tasks
  <2>4. CASE RescreenCommit
    <3> DEFINE r == Rejected(drafts[m], FALSE)
    <3>1. /\ Len(r) = Len(drafts[m])
          /\ \A n \in DOMAIN drafts[m] : r[n] = drafts[m][n] \/ r[n].state = "REJECTED"
      BY <2>1, RejectedTyped
    <3>2. drafts'[m] \in {drafts[m], r}
      BY <2>1, <2>4 DEF RescreenCommit
    <3> HIDE DEF r
    <3> QED  BY <1>2, <2>1, <3>1, <3>2 DEF Seen, Regenerable
  <2>5. CASE ~RescreenCommit
    <3>1. drafts' = drafts
      BY <2>2, <2>3, <2>5, DraftsSame
    <3> QED  BY <1>2, <3>1
  <2> QED  BY <2>4, <2>5
<1> QED  BY <1>1, <1>2, StoringSince

\* No handler of the UI adds a row.
LEMMA HumanLens ==
  ASSUME Inv, Human, NEW k \in Messages
  PROVE  Len(drafts'[k]) = Len(drafts[k])
<1>0. drafts \in [Messages -> Seq(Draft)]
  BY DEF Inv, TypeOK
<1>1. ASSUME NEW m \in Messages, NEW l, NEW similar, Label(m, l, similar)
      PROVE  Len(drafts'[k]) = Len(drafts[k])
  <2>1. drafts'[k] \in {drafts[k], Rejected(drafts[k], TRUE)}
    BY <1>0, <1>1 DEF Label
  <2>2. Len(Rejected(drafts[k], TRUE)) = Len(drafts[k])
    BY <1>0, RejectedTyped
  <2> QED  BY <2>1, <2>2
<1>2. ASSUME NEW m \in Messages, NEW s \in {"PENDING", "REJECTED", "SENT"},
             NEW i \in DOMAIN drafts[m], HandleDraft(m, i, s)
      PROVE  Len(drafts'[k]) = Len(drafts[k])
  <2> DEFINE d == [drafts[m][i] EXCEPT !.state = s, !.human = TRUE]
             r == [drafts[m] EXCEPT ![i] = d]
  <2>1. drafts[m] \in Seq(Draft) /\ i \in 1..Len(drafts[m]) /\ drafts[m][i] \in Draft
    BY <1>0
  <2>2. d \in Draft
    BY <2>1 DEF Draft, States
  <2>3. drafts' = [drafts EXCEPT ![m] = r]
    BY <1>2, <1>0 DEF HandleDraft
  <2> HIDE DEF d
  <2>4. Len(r) = Len(drafts[m])
    BY <2>1, <2>2
  <2> HIDE DEF r
  <2> QED  BY <1>0, <2>3, <2>4
<1>3. \A m \in Messages, s \in {"PENDING", "REJECTED", "SENT"} : \A i \in DOMAIN drafts[m] :
        HandleDraft(m, i, s) => Len(drafts'[k]) = Len(drafts[k])
  BY <1>2
<1>4. ASSUME (\E s, l : Teach(s, l)) \/ \E m : Release(m)  PROVE drafts' = drafts
  BY <1>4 DEF Teach, Release, mailVars
<1> QED  BY <1>1, <1>3, <1>4 DEF Human

LEMMA OneDraftStep ==
  ASSUME SoleInv, Agents = {}, [Next]_vars
  PROVE  OneDraft'
<1> SUFFICES ASSUME NEW k \in Messages  PROVE Len(drafts'[k]) <= 1
  BY DEF OneDraft
<1> USE DEF SoleInv
<1>0. /\ drafts[k] \in Seq(Draft) /\ Len(drafts[k]) <= 1 /\ Len(drafts[k]) \in Nat
      /\ DOMAIN drafts[k] \subseteq {1}
  BY DEF Inv, TypeOK, OneDraft
<1>1. ASSUME NEW t \in Service, Store(t)  PROVE Len(drafts'[k]) <= 1
  <2> DEFINE m == job[t].msg
             n == IF job[t].seen = 0 THEN Len(drafts[m]) + 1 ELSE job[t].seen
  <2>1. t \in Tasks /\ job[t].pc = "storing"
    BY <1>1 DEF Tasks, Store, At
  <2>2. n = 1
    <3>1. /\ m \in Messages /\ job[t].seen = Len(drafts[m])
          /\ drafts[m] \in Seq(Draft) /\ Len(drafts[m]) <= 1
      BY <2>1, SeenTyped DEF Seen, OneDraft
    <3> DEFINE c == Len(drafts[m])
    <3>2. c \in Nat /\ c <= 1 /\ job[t].seen = c
      BY <3>1
    <3>3. n = IF c = 0 THEN c + 1 ELSE c
      BY <3>2
    <3> HIDE DEF c, n
    <3> QED  BY <3>2, <3>3
  <2>3. /\ drafts'[k] \in Seq(Draft)
        /\ \A i \in DOMAIN drafts'[k] : (k = m /\ i = n) \/ i \in DOMAIN drafts[k]
    BY <1>1, <2>1, StoreWrites
  <2>4. DOMAIN drafts'[k] \subseteq {1}
    BY <1>0, <2>2, <2>3
  <2> DEFINE c == Len(drafts'[k])
  <2>5. c \in Nat /\ 1..c \subseteq {1}
    <3>1. Len(drafts'[k]) \in Nat /\ DOMAIN drafts'[k] = 1..Len(drafts'[k])
      BY <2>3
    <3> QED  BY <2>4, <3>1
  <2> HIDE DEF c
  <2>6. c > 1 => 2 \in 1..c
    BY <2>5
  <2> QED  BY <2>5, <2>6 DEF c
<1>2. CASE Human
  BY <1>0, <1>2, HumanLens
<1>3. CASE RescreenCommit
  <2>1. drafts'[k] \in {drafts[k], Rejected(drafts[k], FALSE)}
    BY <1>3 DEF RescreenCommit
  <2>2. Len(Rejected(drafts[k], FALSE)) = Len(drafts[k])
    BY <1>0, RejectedTyped
  <2> QED  BY <1>0, <2>1, <2>2
<1>4. Tasks = Service
  BY DEF Tasks
<1> QED  BY <1>0, <1>1, <1>2, <1>3, <1>4, DraftsSame

LEMMA SoleInit == Init => SoleInv
<1> SUFFICES ASSUME Init PROVE SoleInv
  OBVIOUS
<1>1. Inv
  BY InitOK
<1>2. OneDraft
  BY DEF Init, OneDraft
<1>3. \A t \in Service : Seen(job[t], drafts)
  <2>1. \A t \in Tasks : job[t] \in {[Idle EXCEPT !.pc = "starting"], [Idle EXCEPT !.pc = "idle"]}
    BY DEF Init
  <2>2. \A p : "pc" \in DOMAIN Idle /\ [Idle EXCEPT !.pc = p].pc = p
    BY DEF Idle
  <2>3. \A t \in Service : job[t].pc # "storing"
    BY <2>1, <2>2 DEF Tasks
  <2> QED  BY <2>3 DEF Seen
<1> QED  BY <1>1, <1>2, <1>3 DEF SoleInv

LEMMA SoleInvariance ==
  ASSUME Agents = {}
  PROVE  Spec => []SoleInv
<1>1. SoleInv /\ [Next]_vars => SoleInv'
  BY Step, SeenStep, OneDraftStep DEF SoleInv
<1> QED  BY SoleInit, <1>1, PTL DEF Spec

\* Without bridge processes a message never has two draft rows, although the
\* consumer and the resumer both look for a row and write one, and upsert is
\* not one statement (store.py upsert_message_draft).
THEOREM OneDraftEach ==
  ASSUME Agents = {}
  PROVE  Spec => []OneDraft
<1>1. SoleInv => OneDraft
  BY DEF SoleInv
<1> QED  BY <1>1, SoleInvariance, PTL

\* Then a row that a human can act on or that was sent is never rewritten by
\* triage: it changes by a human's hand or by a rescreen.
Settled == {"PENDING", "BLOCKED", "SENT"}

SettledKept ==
  \A m \in Messages : \A i \in DOMAIN drafts[m] :
    drafts[m][i].state \in Settled /\ drafts'[m][i] # drafts[m][i] =>
      Human \/ RescreenCommit

LEMMA SettledStep ==
  ASSUME SoleInv, Agents = {}, [Next]_vars
  PROVE  SettledKept
<1> SUFFICES ASSUME NEW m \in Messages, NEW i \in DOMAIN drafts[m],
                    drafts[m][i].state \in Settled,
                    drafts'[m][i] # drafts[m][i], ~Human, ~RescreenCommit
             PROVE  FALSE
  BY DEF SettledKept
<1> USE DEF SoleInv
<1>1. PICK t \in Service : Store(t)
  BY DraftsSame DEF Tasks
<1>2. t \in Tasks /\ job[t].pc = "storing"
  BY <1>1 DEF Tasks, Store, At
<1> DEFINE k == job[t].msg
           n == job[t].seen
<1>3. DOMAIN drafts[m] \subseteq DOMAIN drafts'[m] /\ drafts[m] \in Seq(Draft)
  BY <1>1, <1>2, StoreWrites
<1>4. m = k /\ i = (IF n = 0 THEN Len(drafts[k]) + 1 ELSE n)
  BY <1>1, <1>2, <1>3, StoreWrites
<1>5. n = i /\ n > 0
  BY <1>2, <1>3, <1>4, SeenTyped
<1> QED  BY <1>2, <1>4, <1>5 DEF Seen, Regenerable, Settled

\* A draft that waits for a human, or was sent, is left alone by triage
\* although a task writes long after it has read (graph.py, store.py 1735).
THEOREM SettledDraftsStand ==
  ASSUME Agents = {}
  PROVE  Spec => [][SettledKept]_vars
<1>1. SoleInv /\ [Next]_vars => [SettledKept]_vars
  BY SettledStep
<1> QED  BY <1>1, SoleInvariance, PTL DEF Spec

-----------------------------------------------------------------------------
(* What the screening answers, for every set of cues.                      *)

Opens(mode, c, t, d) == AiMayRead(AssessInbound(mode, c, t, d).status)

\* Cues that speak against a mail and for nothing.
Suspicious ==
  {"own_domain", "dmarc_fail", "brand", "lookalike", "lure", "claim", "cold", "own_url",
   "classroom", "fake_reply", "reply_elsewhere", "issue_body", "unsolicited"}

MoreSuspicious(c, e) == c \subseteq e /\ e \subseteq c \cup Suspicious

LEMMA PointsGrow ==
  ASSUME NEW c, NEW e, MoreSuspicious(c, e), NEW d \in BOOLEAN
  PROVE  /\ SpamPoints(c, d) \in Nat /\ SpamPoints(e, d) \in Nat
         /\ SpamPoints(c, d) <= SpamPoints(e, d)
<1>1. \A cue, n : n \in Nat => /\ Points(c, cue, n) \in Nat /\ Points(e, cue, n) \in Nat
                               /\ Points(c, cue, n) <= Points(e, cue, n)
  BY DEF Points, MoreSuspicious
<1> DEFINE evidence(x) ==
      Points(x, "cold", 4) + Points(x, "own_url", 4) + Points(x, "fake_reply", 3)
      + Points(x, "classroom", 4) + (IF d /\ "freemail" \notin x THEN 4 ELSE 0)
    more(x) == Points(x, "freemail", 1) + Points(x, "reply_elsewhere", 1)
<1>2. ("freemail" \in c) = ("freemail" \in e)
  BY DEF MoreSuspicious, Suspicious
<1>3. /\ evidence(c) \in Nat /\ evidence(e) \in Nat /\ evidence(c) <= evidence(e)
      /\ more(c) \in Nat /\ more(e) \in Nat /\ more(c) <= more(e)
  BY <1>1, <1>2
<1>4. /\ SpamPoints(c, d) = IF evidence(c) = 0 THEN 0 ELSE evidence(c) + more(c)
      /\ SpamPoints(e, d) = IF evidence(e) = 0 THEN 0 ELSE evidence(e) + more(e)
  BY <1>1, <1>3 DEF SpamPoints
<1> HIDE DEF evidence, more
<1> QED BY <1>3, <1>4

LEMMA CorroborationStays ==
  ASSUME NEW c, NEW e, MoreSuspicious(c, e), Corroborated(c)
  PROVE  Corroborated(e)
BY DEF MoreSuspicious, Suspicious, Corroborated

\* What neither the header checks nor a rule decide.
LEMMA StandardOpens ==
  ASSUME NEW c, NEW t \in Taught, NEW n \in Nat
  PROVE  AiMayRead(StandardVerdict(c, t, n).status) <=> t # "SPAM" /\ n < SpamScore
BY DEF StandardVerdict, Verdict, AiMayRead, AiReadable, SpamScore, StandardSpamScore

LEMMA ContentOpens ==
  ASSUME NEW c, NEW t \in Taught, NEW n \in Nat
  PROVE  AiMayRead(ContentVerdict(c, t, n).status) <=>
           /\ "claim" \notin c /\ t # "SPAM" /\ n < PotentialScore /\ "unsolicited" \notin c
           /\ "topical" \in c \/ ("issue_body" \notin c /\ t = "CONTENT")
<1>1. \A b \in {SpamScore, StandardSpamScore} : n >= b => n >= PotentialScore
  BY DEF SpamScore, StandardSpamScore, PotentialScore
<1> QED
  BY <1>1 DEF ContentVerdict, Verdict, AiMayRead, AiReadable, PotentialScore,
     SpamScore, StandardSpamScore

\* Where nothing is wrong with the header, and no rule matches.
LEMMA ScoredOpens ==
  ASSUME NEW mode, NEW c, NEW t \in Taught, NEW d \in BOOLEAN,
         SpamPoints(c, d) \in Nat, Opens(mode, c, t, d)
  PROVE  /\ ~ImpersonatesOwnDomain(c) /\ ~Corroborated(c)
         /\ IF RuleMatches(c) THEN "exempt" \notin c /\ t = "CONTENT"
            ELSE /\ "brand" \notin c
                 /\ IF mode = "standard" THEN AiMayRead(StandardVerdict(c, t, SpamPoints(c, d)).status)
                    ELSE AiMayRead(ContentVerdict(c, t, SpamPoints(c, d)).status)
BY DEF Opens, AssessInbound, CategoryResult, ExemptStatus, Verdict, AiMayRead, AiReadable, Taught

LEMMA OpensIf ==
  ASSUME NEW mode, NEW c, NEW t \in Taught, NEW d \in BOOLEAN,
         ~ImpersonatesOwnDomain(c), ~Corroborated(c),
         IF RuleMatches(c) THEN "exempt" \notin c /\ t = "CONTENT"
         ELSE /\ "brand" \notin c
              /\ IF mode = "standard" THEN AiMayRead(StandardVerdict(c, t, SpamPoints(c, d)).status)
                 ELSE AiMayRead(ContentVerdict(c, t, SpamPoints(c, d)).status)
  PROVE  Opens(mode, c, t, d)
BY DEF Opens, AssessInbound, CategoryResult, ExemptStatus, Verdict, AiMayRead, AiReadable, Taught

\* One more suspicious cue never makes a mail readable for a model, whatever
\* the order of the rules, their bars and what was learned
\* (inbound_screening.py assess_inbound).
THEOREM SuspicionNeverOpens ==
  ASSUME NEW mode, NEW c, NEW e, MoreSuspicious(c, e), NEW t \in Taught, NEW d \in BOOLEAN,
         Opens(mode, e, t, d)
  PROVE  Opens(mode, c, t, d)
<1> DEFINE p == SpamPoints(c, d)
           q == SpamPoints(e, d)
<1>1. p \in Nat /\ q \in Nat /\ p <= q
  BY PointsGrow
<1>2. /\ ~ImpersonatesOwnDomain(e) /\ ~Corroborated(e)
      /\ IF RuleMatches(e) THEN "exempt" \notin e /\ t = "CONTENT"
         ELSE /\ "brand" \notin e
              /\ IF mode = "standard" THEN AiMayRead(StandardVerdict(e, t, q).status)
                 ELSE AiMayRead(ContentVerdict(e, t, q).status)
  BY <1>1, ScoredOpens
<1>3. ~ImpersonatesOwnDomain(c) /\ ~Corroborated(c)
  BY <1>2, CorroborationStays DEF ImpersonatesOwnDomain, MoreSuspicious, Suspicious
<1>4. /\ RuleMatches(c) = RuleMatches(e)
      /\ \A cue \in {"exempt", "topical"} : (cue \in c) = (cue \in e)
      /\ \A cue : cue \in c => cue \in e
  BY DEF RuleMatches, MoreSuspicious, Suspicious
<1>5. AiMayRead(StandardVerdict(e, t, q).status) => AiMayRead(StandardVerdict(c, t, p).status)
  <2>1. q < SpamScore => p < SpamScore
    BY <1>1 DEF SpamScore
  <2> HIDE DEF p, q
  <2> QED BY <1>1, <2>1, StandardOpens
<1>6. AiMayRead(ContentVerdict(e, t, q).status) => AiMayRead(ContentVerdict(c, t, p).status)
  <2>1. q < PotentialScore => p < PotentialScore
    BY <1>1 DEF PotentialScore
  <2> HIDE DEF p, q
  <2> QED BY <1>1, <1>4, <2>1, ContentOpens
<1>7. IF RuleMatches(c) THEN "exempt" \notin c /\ t = "CONTENT"
      ELSE /\ "brand" \notin c
           /\ IF mode = "standard" THEN AiMayRead(StandardVerdict(c, t, p).status)
              ELSE AiMayRead(ContentVerdict(c, t, p).status)
  BY <1>2, <1>4, <1>5, <1>6
<1> QED BY <1>3, <1>7, OpensIf

\* A site of content_only shows a model what is on its topics or what a human
\* wanted of this sender, and nothing else.
THEOREM StrictSiteOpensContent ==
  ASSUME NEW c, NEW t \in Taught, NEW d \in BOOLEAN, Opens("content_only", c, t, d)
  PROVE  "topical" \in c \/ t = "CONTENT"
<1>1. SpamPoints(c, d) \in Nat
  BY PointsGrow DEF MoreSuspicious
<1> DEFINE n == SpamPoints(c, d)
<1>2. CASE RuleMatches(c)
  BY <1>1, <1>2, ScoredOpens
<1>3. CASE ~RuleMatches(c)
  <2>1. AiMayRead(ContentVerdict(c, t, n).status)
    BY <1>1, <1>3, ScoredOpens
  <2> HIDE DEF n
  <2> QED BY <1>1, <2>1, ContentOpens DEF n
<1> QED BY <1>2, <1>3

\* What a human called spam is not opened by any cue, rule or mode.
LEMMA SpamStaysShut ==
  ASSUME NEW mode, NEW c, NEW d \in BOOLEAN
  PROVE  ~Opens(mode, c, "SPAM", d)
<1>1. SpamPoints(c, d) \in Nat
  BY PointsGrow DEF MoreSuspicious
<1>2. "SPAM" \in Taught
  BY DEF Taught
<1> DEFINE n == SpamPoints(c, d)
<1>3. /\ ~AiMayRead(StandardVerdict(c, "SPAM", n).status)
      /\ ~AiMayRead(ContentVerdict(c, "SPAM", n).status)
  <2> HIDE DEF n
  <2> QED BY <1>1, <1>2, ContentOpens, StandardOpens DEF n
<1>4. ASSUME Opens(mode, c, "SPAM", d)  PROVE FALSE
  BY <1>1, <1>2, <1>3, <1>4, ScoredOpens
<1> QED BY <1>4

\* The mail of a sender whose newest example is spam.
SpamIsWithheld ==
  \A m \in Messages : box[m] = None /\ box'[m] # None /\ taught[mail'[m].sender] = "SPAM" =>
    WithheldFromAi(box'[m])

LEMMA ScreenedSpamIsShut ==
  ASSUME NEW x, NEW conf, taught[x.sender] = "SPAM"
  PROVE  Screen(x, conf).status \notin AiReadable
<1>1. DomainTaught(x.sender) \in BOOLEAN
  BY DEF DomainTaught
<1> QED BY <1>1, SpamStaysShut DEF Screen, Opens, AiMayRead

LEMMA ArrivalStep ==
  ASSUME Inv, [Next]_vars
  PROVE  SpamIsWithheld
<1> SUFFICES ASSUME NEW m \in Messages, box[m] = None, box'[m] # None,
                    taught[mail'[m].sender] = "SPAM"
             PROVE  WithheldFromAi(box'[m])
  BY DEF SpamIsWithheld
<1>0. box \in [Messages -> Row \cup {None}] /\ mail \in [Messages -> Mails \cup {None}]
  BY DEF Inv, TypeOK
<1>1. ASSUME NEW k \in Messages, NEW x \in Mails, Arrive(k, x)
      PROVE  WithheldFromAi(box'[m])
  <2>1. k = m
    BY <1>0, <1>1 DEF Arrive
  <2>2. mail'[m] = x
    BY <1>0, <1>1, <2>1 DEF Arrive
  <2>3. \A v \in Screenings(x) : v.status \notin AiReadable
    BY <2>2, ScreenedSpamIsShut DEF Screenings, Verdict, AiReadable
  <2>4. PICK v \in Screenings(x) :
          box' = [box EXCEPT ![m] = [status |-> v.status, source |-> v.source,
                    quarantined |-> x.risky, model |-> IF v.filed THEN "rule" ELSE "none"]]
    BY <1>1, <2>1 DEF Arrive
  <2> QED BY <1>0, <2>3, <2>4 DEF WithheldFromAi
<1>2. ASSUME NEW k \in Messages, NEW r, box[k] # None, box' = [box EXCEPT ![k] = r]
      PROVE  FALSE
  BY <1>0, <1>2
<1>3. CASE Human
  <2>1. ASSUME NEW k \in Messages, NEW l, NEW similar, Label(k, l, similar)  PROVE FALSE
    BY <1>2, <2>1 DEF Label
  <2>2. ASSUME NEW k \in Messages, Release(k)  PROVE FALSE
    BY <1>0, <2>2 DEF Release
  <2> QED BY <1>3, <2>1, <2>2 DEF Human, Teach, HandleDraft, mailVars
<1>4. CASE RescreenCommit
  <2>1. plan # None /\ box'[m] = IF plan[m] = None THEN box[m] ELSE Rescreened(m)
    BY <1>4 DEF RescreenCommit
  <2>2. plan[m] # None => box[m] # None
    BY <2>1 DEF Inv, PlanOK, PlanFits
  <2> QED BY <2>1, <2>2
<1>5. ASSUME NEW t \in Tasks, Graph(t)  PROVE FALSE
  <2> DEFINE k == job[t].msg
  <2>1. ASSUME job[t].pc \in WithMail  PROVE box[k] # None /\ k \in Messages
    BY <2>1, AtMail, NoneAssumption
  <2>2. CASE Reply(t)
    BY <1>2, <2>1, <2>2 DEF Reply, At, WithMail
  <2>3. ASSUME NEW spam \in BOOLEAN, NoReply(t, spam)  PROVE FALSE
    <3>1. \E r : box' = [box EXCEPT ![k] = r]
      BY <2>3 DEF NoReply
    <3> QED BY <1>2, <2>1, <2>3, <3>1 DEF NoReply, At, WithMail
  <2> QED
    BY <1>5, <2>2, <2>3
       DEF Graph, Store, ModelDown, ModelUp, Garbled, EmptyDraft, Drafted, Raise, mailVars
<1>6. ASSUME UNCHANGED box  PROVE FALSE
  BY <1>6
<1> QED
  BY <1>1, <1>3, <1>4, <1>5, <1>6
     DEF Next, Listener, Requeue, CommandLine, EditConfig, RescreenRead, Crash, Loop, Recover,
         Consume, BeginPass, PassDown, PassUp, EndPass, Resume, Propose, vars, mailVars

\* While a sender's newest example is spam, no mail of that sender arrives
\* readable for a model, whatever config.toml and the rules say; with
\* WithheldIsSafe, only a human opens it.
THEOREM TaughtSpamIsWithheld == Spec => [][SpamIsWithheld]_vars
<1>1. Inv /\ [Next]_vars => [SpamIsWithheld]_vars
  BY ArrivalStep
<1> QED BY <1>1, TriageInvariance, PTL DEF Spec
=============================================================================
