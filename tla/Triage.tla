------------------------------- MODULE Triage -------------------------------
(***************************************************************************)
(* From an inbound mail to a proposed draft, with every actor that decides *)
(* whether a model may read it:                                            *)
(*                                                                         *)
(*  - the listener screens, stores and queues a mail (imap_listener.py);   *)
(*  - the consumer and the resumer of deferred drafts (runtime.py), two    *)
(*    tasks of the service's event loop, and bridge processes ("propose")  *)
(*    run AgentGraph.process_message, awaiting the model for minutes;      *)
(*  - a human labels, releases and edits in the UI, on the same loop;      *)
(*  - the command line re-screens stored mail (rescreen.py) in a process   *)
(*    of its own, with the rules that config.toml holds by then.           *)
(*                                                                         *)
(* What a task does between two awaits is one step, except that looking    *)
(* for the draft and writing it are two: other processes may come between  *)
(* the statements.  A task of the service holds the loop over both.        *)
(***************************************************************************)
EXTENDS Screening, Integers, Sequences

CONSTANTS
  Messages,
  Senders, DomainOf,    \* addresses and their domains
  Mails,                \* what may arrive: cues, sender, injection score over the bar
  Texts,                \* what the model may write, as the guardrails see it
  Domains, PiiTypes, Detectors, \* of the guardrails: see Guardrails
  Verdicts,             \* the labels humans give
  Configs,              \* what config.toml may say
  Agents,               \* bridge processes
  MaxClassifyAttempts,  \* MAX_CLASSIFY_ATTEMPTS
  QueueBound,           \* bound: copies of one id that refreshes queue
  FaultBound,           \* bound: outages, empty answers, errors and crashes
  HandBound,            \* bound: what humans and bridge callers ask for
  None

Service == {"consumer", "resumer"}
Tasks   == Service \cup Agents

\* Each message is a thread of its own.
Gates == INSTANCE Guardrails WITH Addresses <- Senders, Threads <- Messages,
                                  Nobody <- None

ASSUME TriageAssumption ==
  /\ DomainOf \in [Senders -> Domains]
  /\ Mails \subseteq [cues : SUBSET Cues, sender : Senders, risky : BOOLEAN]
  /\ Verdicts \subseteq Labels
  /\ Texts \subseteq Gates!Text /\ Detectors \in Gates!Setup
  /\ Configs \subseteq [mode : Modes, rules : BOOLEAN, security : Gates!Security]
  /\ Agents \cap Service = {}
  /\ MaxClassifyAttempts \in Nat \ {0}
  /\ QueueBound \in Nat /\ FaultBound \in Nat /\ HandBound \in Nat
  /\ None \notin Messages \cup Tasks \cup Senders

VARIABLES
  mail,      \* what each message contains, once arrived
  box,       \* messages: screening, quarantine and whose classification
  drafts,    \* drafts rows of each message, oldest first
  taught,    \* newest example learned for a sender
  wanted,    \* senders with CONTENT feedback of any kind
  known,     \* recipient_allowlist
  file,      \* config.toml
  running,   \* the configuration the service loaded
  queue,     \* work_q: how often each id waits; its order is left open
  lock,      \* holder of deferred_resume_lock
  todo,      \* deferred messages the holder still has to resume
  job,       \* what each task is doing
  plan,      \* what a rescreen will write, or None
  faults, hands

mailVars   == <<mail, box, drafts>>
learnVars  == <<taught, wanted, known>>
configVars == <<file, running>>
loopVars   == <<queue, lock, todo>>
vars == <<mailVars, learnVars, configVars, loopVars, job, plan, faults, hands>>

\* model: who classified the message, if anybody.
Row == [status : Statuses, source : Sources, quarantined : BOOLEAN,
        model : {"none", "rule", "llm"}]
ASSUME NoneAssumption == None \notin Row \cup Mails
States == {"PENDING", "BLOCKED", "DEFERRED_NO_LLM", "REJECTED", "SENT"}
Live   == {"PENDING", "BLOCKED", "DEFERRED_NO_LLM"}
\* attempts: classify_attempts of the guardrail flags; human (history): a
\* human wrote the row last.
Draft == [state : States, attempts : 0..MaxClassifyAttempts, human : BOOLEAN]
PCs == {"starting", "recovered", "idle", "asking", "probing", "classifying",
        "drafting", "storing"}
\* source: screening_source of the row process_message read when it began.
\* seen: the draft row the write will change, 0 to insert one.
Job == [pc : PCs, msg : Messages \cup {None}, source : Sources, seen : Nat,
        put : Draft]
Planned == [before : Statuses, verdict : [status : Statuses, source : AutoSources,
            filed : BOOLEAN]]

NewDraft(s, n) == [state |-> s, attempts |-> n, human |-> FALSE]
Idle == [pc |-> "idle", msg |-> None, source |-> "AUTO_POLICY", seen |-> 0,
         put |-> NewDraft("REJECTED", 0)]

Arrived == {m \in Messages : box[m] # None}
Sender(m) == mail[m].sender
Readable(m) == box[m].status \in AiReadable

Init ==
  /\ mail = [m \in Messages |-> None] /\ box = [m \in Messages |-> None]
  /\ drafts = [m \in Messages |-> <<>>]
  /\ taught = [s \in Senders |-> "none"] /\ wanted = {} /\ known = {}
  /\ file \in Configs /\ running = file
  /\ queue = [m \in Messages |-> 0] /\ lock = None /\ todo = {}
  /\ job = [t \in Tasks |-> [Idle EXCEPT !.pc = IF t = "consumer" THEN "starting"
                                                ELSE "idle"]]
  /\ plan = None /\ faults = 0 /\ hands = 0

Fails  == faults < FaultBound /\ faults' = faults + 1
Works  == UNCHANGED faults
Handed == hands < HandBound /\ hands' = hands + 1

(***************************************************************************)
(* Screening with what this store has learned.                             *)
(***************************************************************************)
\* learned_spam_domains: a human marked a sender of the domain, and nothing
\* from it was ever wanted.
DomainTaught(s) ==
  LET kin == {k \in Senders : DomainOf[k] = DomainOf[s]}
  IN /\ \E k \in kin : taught[k] = "SPAM"
     /\ kin \cap (wanted \cup known) = {}
     /\ \A m \in Arrived : Sender(m) \in kin =>
          box[m].status \notin {"CONTENT", "UNSCREENED", "FILED"}

Screen(x, conf) ==
  AssessInbound(conf.mode, IF conf.rules THEN x.cues ELSE x.cues \ {"rule"},
                taught[x.sender], DomainTaught(x.sender))

\* Screening that fails holds the mail for review.
Screenings(x) == {Screen(x, running), Verdict("POTENTIAL_ISSUE", "AUTO_POLICY")}

\* One new message.
Arrive(m, x) ==
  /\ box[m] = None
  /\ \E v \in Screenings(x) :
       /\ IF v = Screen(x, running) THEN Works ELSE Fails
       /\ box' = [box EXCEPT ![m] =
                    [status |-> v.status, source |-> v.source, quarantined |-> x.risky,
                     model |-> IF v.filed THEN "rule" ELSE "none"]]
  /\ mail' = [mail EXCEPT ![m] = x]
  /\ queue' = [queue EXCEPT ![m] = @ + 1]
  /\ UNCHANGED <<drafts, learnVars, configVars, lock, todo, job, plan, hands>>

NeedsProcessing(m) ==
  /\ box[m] # None /\ box[m].model \in {"none", "rule"}
  /\ drafts[m] = <<>> /\ Readable(m)

\* A refresh finds a stored message that never reached triage.
Requeue(m) ==
  /\ NeedsProcessing(m) /\ queue[m] < QueueBound
  /\ queue' = [queue EXCEPT ![m] = @ + 1]
  /\ UNCHANGED <<mailVars, learnVars, configVars, lock, todo, job, plan, faults, hands>>

(***************************************************************************)
(* process_message.                                                        *)
(***************************************************************************)
\* The loop of the service belongs to a task until its next await.
LoopFree(t) == t \in Service => \A u \in Service \ {t} : job[u].pc # "storing"
At(t, p) == job[t].pc = p /\ LoopFree(t)
Become(t, p) == job' = [job EXCEPT ![t].pc = p]
Finish(t) == job' = [job EXCEPT ![t] = Idle]

Deferred(m) == drafts[m] # <<>> /\ drafts[m][Len(drafts[m])].state = "DEFERRED_NO_LLM"

Upsert_AnyRow(t, m, s, n) ==
  job' = [job EXCEPT ![t].pc = "storing", ![t].seen = Len(drafts[m]),
                     ![t].put = NewDraft(s, n)]

\* upsert_message_draft finds no row, or one that is still deferred.
Upsert(t, m, s, n) ==
  IF drafts[m] = <<>> \/ Deferred(m)
  THEN job' = [job EXCEPT ![t].pc = "storing", ![t].seen = Len(drafts[m]),
                          ![t].put = NewDraft(s, n)]
  ELSE Finish(t)

RetireDeferred(t, m) ==
  IF Deferred(m)
  THEN job' = [job EXCEPT ![t].pc = "storing", ![t].msg = m, ![t].seen = Len(drafts[m]),
                          ![t].put = NewDraft("REJECTED", 0)]
  ELSE Finish(t)

Store(t) ==
  LET m == job[t].msg
  IN /\ At(t, "storing")
     /\ drafts' = IF job[t].seen = 0
                  THEN [drafts EXCEPT ![m] = Append(@, job[t].put)]
                  ELSE [drafts EXCEPT ![m][job[t].seen] = job[t].put]
     /\ Finish(t)
     /\ UNCHANGED <<mail, box, learnVars, configVars, loopVars, plan, faults, hands>>

\* The two gates: neither contained nor withheld mail reaches a model.
ProcessMessage(t, m) ==
  IF box[m].quarantined \/ ~AiMayRead(box[m].status)
  THEN RetireDeferred(t, m)
  ELSE job' = [job EXCEPT ![t] = [Idle EXCEPT !.pc = "probing", !.msg = m,
                                              !.source = box[m].source]]

\* A recipient is a participant of the thread, which the sender always is;
\* it becomes known by being replied to.
BindRecipient(m) ==
  known' = IF "no_sender" \in mail[m].cues THEN known ELSE known \cup {Sender(m)}

ModelDown(t) ==
  /\ At(t, "probing") /\ Fails
  /\ BindRecipient(job[t].msg)
  /\ Upsert(t, job[t].msg, "DEFERRED_NO_LLM", 0)
  /\ UNCHANGED <<mailVars, taught, wanted, configVars, loopVars, plan, hands>>

ModelUp(t) ==
  /\ At(t, "probing") /\ Become(t, "classifying")
  /\ UNCHANGED <<mailVars, learnVars, configVars, loopVars, plan, faults, hands>>

ClassifyAttempts_Forgotten(m) == 0

ClassifyAttempts(m) == IF Deferred(m) THEN drafts[m][Len(drafts[m])].attempts ELSE 0

\* An answer without a valid classification, or none at all.
Garbled(t) ==
  LET m == job[t].msg
      n == ClassifyAttempts(m) + 1
  IN /\ At(t, "classifying")
     /\ BindRecipient(m)
     /\ IF n >= MaxClassifyAttempts THEN RetireDeferred(t, m)
        ELSE Upsert(t, m, "DEFERRED_NO_LLM", n)
     /\ UNCHANGED <<mailVars, taught, wanted, configVars, loopVars, plan, faults, hands>>

Classified(m) == [box[m] EXCEPT !.model = "llm"]

\* The label is decided on the source read before the model was asked.
FileModelSpam(m, source) ==
  IF source = "USER" THEN Classified(m)
  ELSE [Classified(m) EXCEPT
          !.status = IF Sender(m) \in known /\ "no_sender" \notin mail[m].cues
                     THEN "POTENTIAL_SPAM" ELSE "SPAM",
          !.source = "LLM"]

\* Bridge processes load config.toml when they start.
Conf(t) == IF t \in Service THEN running ELSE file

\* freeze_plan: never to a blocked domain; else the model may say no.
PlanAllows(t) == DomainOf[Sender(job[t].msg)] \notin Conf(t).security.blocked

\* Any category; only SPAM moves the message.  No reply is called for, the
\* plan allows none, or there is nobody to reply to.
NoReply(t, spam) ==
  LET m == job[t].msg
  IN /\ At(t, "classifying")
     /\ box' = [box EXCEPT ![m] = IF spam THEN FileModelSpam(m, job[t].source)
                                  ELSE Classified(m)]
     /\ RetireDeferred(t, m)
     /\ UNCHANGED <<mail, drafts, learnVars, configVars, loopVars, plan, faults, hands>>

Reply(t) ==
  LET m == job[t].msg
  IN /\ At(t, "classifying") /\ PlanAllows(t) /\ "no_sender" \notin mail[m].cues
     /\ box' = [box EXCEPT ![m] = Classified(m)]
     /\ BindRecipient(m)
     /\ Become(t, "drafting")
     /\ UNCHANGED <<mail, drafts, taught, wanted, configVars, loopVars, plan, faults, hands>>

EmptyDraft(t) ==
  /\ At(t, "drafting") /\ Fails
  /\ Upsert(t, job[t].msg, "DEFERRED_NO_LLM", 0)
  /\ UNCHANGED <<mailVars, learnVars, configVars, loopVars, plan, hands>>

\* Every embedding succeeds or is done without; the chunks can be read, and
\* the cross-thread guard does not fail.
DraftContext(m, embedded) ==
  [recipient |-> Sender(m), domain |-> DomainOf[Sender(m)], thread |-> m,
   bound |-> {Sender(m)}, elapsed |-> -1, reauthenticated |-> FALSE,
   embedded |-> embedded, readable |-> TRUE, raises |-> FALSE]

\* PENDING when every output guardrail passes, else BLOCKED.
Drafted(t, x, embedded) ==
  LET m == job[t].msg
      passed == Gates!RunOutputGuardrails(x, Detectors, Conf(t).security,
                  DraftContext(m, embedded), known, {DomainOf[s] : s \in known})
  IN /\ At(t, "drafting")
     /\ Upsert(t, m, IF passed THEN "PENDING" ELSE "BLOCKED", 0)
     /\ UNCHANGED <<mailVars, learnVars, configVars, loopVars, plan, faults, hands>>

\* A statement fails; the caller logs it and goes on.
Raise(t) ==
  /\ job[t].pc \in {"probing", "classifying", "drafting", "storing"} /\ LoopFree(t)
  /\ Fails /\ Finish(t)
  /\ UNCHANGED <<mailVars, learnVars, configVars, loopVars, plan, hands>>

(***************************************************************************)
(* The callers of process_message.                                         *)
(***************************************************************************)
\* The service starts: what never reached triage is queued.
Recover ==
  /\ At("consumer", "starting") /\ Become("consumer", "recovered")
  /\ queue' = [m \in Messages |-> queue[m] + IF NeedsProcessing(m) THEN 1 ELSE 0]
  /\ UNCHANGED <<mailVars, learnVars, configVars, lock, todo, plan, faults, hands>>

\* One pass at the start and one every minute, never two at once.
BeginPass(t) ==
  /\ At(t, IF t = "consumer" THEN "recovered" ELSE "idle") /\ lock = None
  /\ lock' = t /\ Become(t, "asking")
  /\ UNCHANGED <<mailVars, learnVars, configVars, queue, todo, plan, faults, hands>>

PassDown(t) ==
  /\ At(t, "asking") /\ Fails
  /\ lock' = None /\ Become(t, "idle")
  /\ UNCHANGED <<mailVars, learnVars, configVars, queue, todo, plan, hands>>

DeferredDrafts ==
  {m \in Messages : \E i \in DOMAIN drafts[m] : drafts[m][i].state = "DEFERRED_NO_LLM"}

PassUp(t) ==
  /\ At(t, "asking") /\ Become(t, "idle")
  /\ todo' = DeferredDrafts
  /\ UNCHANGED <<mailVars, learnVars, configVars, queue, lock, plan, faults, hands>>

Resume(t, m) ==
  /\ At(t, "idle") /\ lock = t /\ m \in todo
  /\ todo' = todo \ {m} /\ ProcessMessage(t, m)
  /\ UNCHANGED <<mailVars, learnVars, configVars, queue, lock, plan, faults, hands>>

EndPass(t) ==
  /\ At(t, "idle") /\ lock = t /\ todo = {}
  /\ lock' = None
  /\ UNCHANGED <<mailVars, learnVars, configVars, queue, todo, job, plan, faults, hands>>

Consume(m) ==
  /\ At("consumer", "idle") /\ lock # "consumer" /\ queue[m] > 0
  /\ queue' = [queue EXCEPT ![m] = @ - 1] /\ ProcessMessage("consumer", m)
  /\ UNCHANGED <<mailVars, learnVars, configVars, lock, todo, plan, faults, hands>>

\* Bridge "propose": the gates once more, and no draft but a deferred one.
Propose(a, m) ==
  /\ job[a].pc = "idle" /\ box[m] # None /\ Handed
  /\ ~box[m].quarantined /\ Readable(m)
  /\ drafts[m] = <<>> \/ Deferred(m)
  /\ ProcessMessage(a, m)
  /\ UNCHANGED <<mailVars, learnVars, configVars, loopVars, plan, faults>>

\* The service ends in the middle of anything and is started again.
Crash ==
  /\ Fails
  /\ queue' = [m \in Messages |-> 0] /\ lock' = None /\ todo' = {}
  /\ job' = [t \in Tasks |-> IF t \in Agents THEN job[t]
                             ELSE [Idle EXCEPT !.pc = IF t = "consumer" THEN "starting"
                                                      ELSE "idle"]]
  /\ running' = file
  /\ UNCHANGED <<mailVars, learnVars, file, plan, hands>>

(***************************************************************************)
(* The human, in the UI.                                                   *)
(***************************************************************************)
Calm == \A u \in Service : job[u].pc # "storing"

Learn(s, l, similar) ==
  /\ taught' = IF similar /\ l \in {"CONTENT", "SPAM"} THEN [taught EXCEPT ![s] = l]
               ELSE taught
  /\ wanted' = IF l = "CONTENT" THEN wanted \cup {s} ELSE wanted
  /\ UNCHANGED known

Rejected(rows, byHuman) ==
  [i \in DOMAIN rows |->
     IF rows[i].state \in Live
     THEN [rows[i] EXCEPT !.state = "REJECTED", !.human = @ \/ byHuman] ELSE rows[i]]

\* record_screening_feedback: the human's verdict on one message.
Label(m, l, similar) ==
  /\ box[m] # None /\ Calm /\ Handed
  /\ box' = [box EXCEPT ![m] = [@ EXCEPT !.status = l, !.source = "USER"]]
  /\ drafts' = IF l = "CONTENT" THEN drafts
               ELSE [drafts EXCEPT ![m] = Rejected(@, TRUE)]
  /\ Learn(Sender(m), l, similar)
  /\ UNCHANGED <<mail, configVars, loopVars, job, plan, faults>>

\* The same verdict on some other mail of the site.
Teach(s, l) ==
  /\ Calm /\ Handed /\ Learn(s, l, TRUE)
  /\ UNCHANGED <<mailVars, configVars, loopVars, job, plan, faults>>

Release(m) ==
  /\ box[m] # None /\ box[m].quarantined /\ Calm /\ Handed
  /\ box' = [box EXCEPT ![m].quarantined = FALSE]
  /\ UNCHANGED <<mail, drafts, learnVars, configVars, loopVars, job, plan, faults>>

\* Save, reject or send a draft (DraftSend has the detail).
HandleDraft(m, i, s) ==
  /\ drafts[m][i].state \in Live /\ Calm /\ Handed
  /\ s = "SENT" => drafts[m][i].state = "PENDING"
  /\ drafts' = [drafts EXCEPT ![m][i] = [@ EXCEPT !.state = s, !.human = TRUE]]
  /\ UNCHANGED <<mail, box, learnVars, configVars, loopVars, job, plan, faults>>

(***************************************************************************)
(* rescreen, with --all-statuses or without.                               *)
(***************************************************************************)
\* Bound: one edit between two starts of the service.
EditConfig(c) ==
  /\ running = file /\ c # file /\ file' = c
  /\ UNCHANGED <<mailVars, learnVars, running, loopVars, job, plan, faults, hands>>

KeptWithheld_Never(before, after) == FALSE

KeptWithheld(before, after) ==
  after # before /\ AiMayRead(after) /\ ~AiMayRead(before)

KeptReadable(before, v, all) ==
  /\ ~all /\ v.status # before /\ AiMayRead(before)
  /\ v.status \notin {"SPAM", "FILED"} /\ ~v.filed

Rewritable(m) == box[m].source \in AutoSources

Change(m, all) ==
  LET v == Screen(mail[m], file)
      before == box[m].status
  IN IF /\ box[m] # None /\ Rewritable(m)
        /\ ~KeptWithheld(before, v.status) /\ ~KeptReadable(before, v, all)
        /\ v.status # before \/ v.filed # (box[m].model = "rule")
     THEN [before |-> before, verdict |-> v] ELSE None

RescreenRead(all) ==
  /\ plan = None
  /\ plan' = [m \in Messages |-> Change(m, all)]
  /\ \E m \in Messages : plan'[m] # None
  /\ UNCHANGED <<mailVars, learnVars, configVars, loopVars, job, faults, hands>>

Rescreened(m) ==
  LET v == plan[m].verdict
      r == IF Rewritable(m) THEN [box[m] EXCEPT !.status = v.status, !.source = v.source]
           ELSE box[m]
  IN [r EXCEPT !.model = IF v.filed THEN "rule" ELSE IF @ = "rule" THEN "none" ELSE @]

\* One transaction; the guard of the UPDATE spares only the message's row.
RescreenCommit ==
  /\ plan # None
  /\ box' = [m \in Messages |-> IF plan[m] = None THEN box[m] ELSE Rescreened(m)]
  /\ drafts' = [m \in Messages |->
                  IF plan[m] # None /\ ~AiMayRead(plan[m].verdict.status)
                  THEN Rejected(drafts[m], FALSE) ELSE drafts[m]]
  /\ plan' = None
  /\ UNCHANGED <<mail, learnVars, configVars, loopVars, job, faults, hands>>

-----------------------------------------------------------------------------
Graph(t) ==
  \/ Store(t) \/ ModelDown(t) \/ ModelUp(t) \/ Garbled(t) \/ Reply(t)
  \/ \E spam \in BOOLEAN : NoReply(t, spam)
  \/ EmptyDraft(t)
  \/ \E x \in Texts, embedded \in BOOLEAN : Drafted(t, x, embedded)
  \/ Raise(t)

Loop(t) ==
  \/ t = "consumer" /\ (Recover \/ \E m \in Messages : Consume(m))
  \/ BeginPass(t) \/ PassDown(t) \/ PassUp(t) \/ EndPass(t)
  \/ \E m \in Messages : Resume(t, m)

Human ==
  \/ \E m \in Messages, l \in Verdicts, similar \in BOOLEAN : Label(m, l, similar)
  \/ \E s \in Senders, l \in Verdicts \cap {"CONTENT", "SPAM"} : Teach(s, l)
  \/ \E m \in Messages : Release(m)
  \/ \E m \in Messages, s \in {"PENDING", "REJECTED", "SENT"} :
       \E i \in DOMAIN drafts[m] : HandleDraft(m, i, s)

Listener ==
  \/ \E m \in Messages, x \in Mails : Arrive(m, x)
  \/ \E m \in Messages : Requeue(m)

CommandLine ==
  \/ \E c \in Configs : EditConfig(c)
  \/ \E all \in BOOLEAN : RescreenRead(all)
  \/ RescreenCommit

Next ==
  \/ Listener \/ Human \/ CommandLine \/ Crash
  \/ \E t \in Tasks : Graph(t)
  \/ \E t \in Service : Loop(t)
  \/ \E a \in Agents, m \in Messages : Propose(a, m)

Spec == Init /\ [][Next]_vars

\* The loop runs its tasks, the minute passes, and the model answers in the end.
Fairness == \A t \in Service : WF_vars(Graph(t)) /\ WF_vars(Loop(t))

FairSpec == Spec /\ Fairness
-----------------------------------------------------------------------------
TypeOK ==
  /\ mail \in [Messages -> Mails \cup {None}]
  /\ box \in [Messages -> Row \cup {None}]
  /\ \A m \in Messages : box[m] # None => mail[m] # None
  /\ drafts \in [Messages -> Seq(Draft)]
  /\ taught \in [Senders -> Taught] /\ wanted \subseteq Senders /\ known \subseteq Senders
  /\ file \in Configs /\ running \in Configs
  /\ queue \in [Messages -> Nat] /\ lock \in Service \cup {None} /\ todo \subseteq Messages
  /\ job \in [Tasks -> Job]
  /\ plan = None \/ plan \in [Messages -> Planned \cup {None}]
  /\ faults \in 0..FaultBound /\ hands \in 0..HandBound

\* No program makes withheld or quarantined mail readable for a model again,
\* however stale its view: only the human's label or release does
\* (rescreen.py: never released by a batch tool; screening_source guard).
WithheldFromAi(r) == r.quarantined \/ r.status \notin AiReadable

WithheldStaysWithheld ==
  [][\A m \in Arrived : WithheldFromAi(box[m]) /\ ~WithheldFromAi(box'[m]) =>
       \/ Release(m) \/ \E similar \in BOOLEAN : Label(m, "CONTENT", similar)]_vars

\* What a human last wrote in a draft (an edit, a rejection, a sent mail, a
\* label's rejection) is never rewritten by triage that read the row earlier:
\* only a deferred row is regenerated (store.py upsert_message_draft).
HumanDraftsStand ==
  [][\A m \in Messages : \A i \in DOMAIN drafts[m] :
       drafts[m][i].human /\ drafts'[m][i] # drafts[m][i] =>
         \/ Human \/ RescreenCommit \/ \E a \in Agents : Store(a)]_vars

\* A deferred reply does not stay deferred: the resume passes draft it, give
\* it up after MAX_CLASSIFY_ATTEMPTS, or retire it because the mail was
\* withheld meanwhile (graph.py, the resumer of runtime.py).
DeferredSettles == \A m \in Messages : Deferred(m) ~> ~Deferred(m)

\* graph.py _file_model_spam: "Never overrides a human decision
\* (screening_source USER)".
HumanVerdictStands ==
  [][\A m \in Arrived : box[m].source = "USER" /\ box'[m].status # box[m].status =>
       box'[m].source = "USER"]_vars
=============================================================================
