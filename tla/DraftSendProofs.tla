-------------------------- MODULE DraftSendProofs ---------------------------
(***************************************************************************)
(* Proofs about DraftSend, for any drafts, texts, actors, tokens and       *)
(* faults.  The invariant Inv says what a job in progress may rely on: the *)
(* values it read are there, its send is its own, and its token was spent  *)
(* for it alone.                                                           *)
(***************************************************************************)
EXTENDS DraftSend, TLAPS

\* The job holds an approved attempt that is not settled.
Paying == {"approved", "cleared", "sending", "accepted", "failed", "delivered"}
\* ... and has not met the relay with it.
Unsent == {"approved", "cleared", "sending"}

\* What a job at a given point holds, if au is the table of tokens.
Holds(a, j, au) ==
  /\ a \in Tabs /\ j.pc # "idle" => j.draft \in Replies
  /\ a \in Pages /\ (j.pc \notin {"idle", "open"} \/ j.seen # "GONE") => j.draft \in Manuals
  /\ a \in Procs /\ j.pc # "idle" => j.draft \in Drafts
  /\ j.pc \in {"requested", "preparing", "consumed"} => j.body \in Bodies
  /\ j.pc \in {"loaded", "consumed"} => j.auth \in Auths /\ au[j.auth] # None

JobOK == \A a \in Actors : Holds(a, job[a], auth)

\* The attempt a job holds is the one that was approved, for its draft and text.
SendOK ==
  \A a \in Actors : job[a].pc \in Paying =>
    LET s == job[a].send IN
    /\ s \in Attempts
    /\ send[s].draft = job[a].draft /\ send[s].body = job[a].body
    /\ job[a].pc \in Unsent => ~Taken(s)

\* No two jobs hold the same attempt.
Apart ==
  \A a, b \in Actors : a # b /\ job[a].pc \in Paying /\ job[b].pc \in Paying =>
    job[a].send # job[b].send

\* An attempt made with a token has spent it, for what the token says.
TokenOK ==
  \A s \in Attempts : send[s].auth # None =>
    /\ auth[send[s].auth] # None
    /\ auth[send[s].auth].status # "staged"
    /\ auth[send[s].auth].draft = send[s].draft
    /\ auth[send[s].auth].body = send[s].body

\* A job that has just spent a token is the only one that can use it.
SpentOK ==
  \A a \in Actors : job[a].pc = "consumed" =>
    /\ auth[job[a].auth].status # "staged"
    /\ Binds(job[a].auth, job[a])
    /\ \A s \in Attempts : send[s].auth # job[a].auth
    /\ \A b \in Actors : b # a /\ job[b].pc = "consumed" => job[b].auth # job[a].auth

\* What the relay took is what was approved.
MailOK == \A s \in Attempts : Taken(s) => send[s].mail = send[s].body

Inv == TypeOK /\ JobOK /\ SendOK /\ Apart /\ TokenOK /\ SpentOK /\ MailOK /\ TokenSpentOnce

LEMMA InitInv == Init => Inv
  BY DraftSendAssumption, NoneAssumption
  DEF Init, Inv, TypeOK, JobOK, Holds, SendOK, Apart, TokenOK, SpentOK, MailOK, TokenSpentOnce,
      Drafts, Texts, Actors, States, PCs, Transmitting, Job, Auth, Send, Idle, Attempts,
      Paying, Unsent

-----------------------------------------------------------------------------
(* A step is calm for a job when the job comes no nearer to the relay by   *)
(* it: it enters none of the points that SendOK and SpentOK speak of.      *)
Calm(j, n) ==
  /\ n.pc \in Paying =>
       /\ j.pc \in Paying /\ (n.pc \in Unsent => j.pc \in Unsent)
       /\ n.draft = j.draft /\ n.body = j.body /\ n.send = j.send
  /\ n.pc = "consumed" =>
       j.pc = "consumed" /\ n.draft = j.draft /\ n.body = j.body /\ n.auth = j.auth

\* Tokens are never forgotten, rebound, or made unspent again.
KeepsTokens(au, av) ==
  \A k \in Auths : au[k] # None =>
    /\ av[k] # None /\ av[k].draft = au[k].draft /\ av[k].body = au[k].body
    /\ au[k].status # "staged" => av[k].status # "staged"

DraftsOK   == draft \in [Drafts -> [state : States, body : Texts]]
WithheldOK == withheld \in [Replies -> BOOLEAN]
AuthsOK    == auth \in [Auths -> Auth \cup {None}]

\* Calm steps that leave the attempts alone preserve the invariant.
LEMMA QuietStep ==
  ASSUME Inv, DraftsOK', WithheldOK', AuthsOK', KeepsTokens(auth, auth'), UNCHANGED send,
         job' \in [Actors -> Job],
         \A a \in Actors : Holds(a, job'[a], auth') /\ Calm(job[a], job'[a])
  PROVE  Inv'
<1>1. TypeOK' /\ JobOK'
  BY DEF TypeOK, Inv, DraftsOK, WithheldOK, AuthsOK, JobOK
<1>2. SendOK' /\ Apart'
  BY DEF Inv, SendOK, Apart, Attempts, Taken, Calm
<1>3. TokenOK' /\ MailOK' /\ TokenSpentOnce'
  BY DEF Inv, TypeOK, Send, Attempts, TokenOK, MailOK, Taken, TokenSpentOnce, KeepsTokens
<1>4. SpentOK'
  <2> SUFFICES ASSUME NEW a \in Actors, job'[a].pc = "consumed"
               PROVE  /\ auth'[job'[a].auth].status # "staged"
                      /\ Binds(job[a].auth, job[a])'
                      /\ \A s \in Attempts' : send'[s].auth # job'[a].auth
                      /\ \A b \in Actors : b # a /\ job'[b].pc = "consumed" =>
                            job'[b].auth # job'[a].auth
    BY DEF SpentOK
  <2>1. job[a].pc = "consumed" /\ job'[a].draft = job[a].draft
          /\ job'[a].body = job[a].body /\ job'[a].auth = job[a].auth
    BY DEF Calm
  <2>2. job[a].auth \in Auths /\ auth[job[a].auth] # None
    BY <2>1 DEF Inv, JobOK, Holds
  <2> QED BY <2>1, <2>2 DEF Inv, SpentOK, Binds, KeepsTokens, Attempts, Calm
<1> QED BY <1>1, <1>2, <1>3, <1>4 DEF Inv

\* Only actor a goes on, and calmly.
Moves(a) ==
  /\ job' = [job EXCEPT ![a] = job'[a]] /\ job'[a] \in Job
  /\ Holds(a, job'[a], auth') /\ Calm(job[a], job'[a])

LEMMA OneJobStep ==
  ASSUME Inv, DraftsOK', WithheldOK', AuthsOK', KeepsTokens(auth, auth'), UNCHANGED send,
         NEW a \in Actors, Moves(a)
  PROVE  Inv'
<1> USE DEF Moves
<1>1. \A b \in Actors : Calm(job[b], job[b])
  BY DEF Calm
<1>2. job \in [Actors -> Job]
  BY DEF Inv, TypeOK
<1>3. \A b \in Actors : Holds(b, job[b], auth')
  BY DEF Inv, JobOK, Holds, KeepsTokens
<1>4. job' \in [Actors -> Job] /\ \A b \in Actors : b # a => job'[b] = job[b]
  BY <1>2
<1> QED BY <1>1, <1>3, <1>4, QuietStep

LEMMA JobFields ==
  ASSUME NEW j \in Job, NEW pc \in PCs, NEW st \in States, NEW b \in Texts,
         NEW h \in BOOLEAN, NEW s \in Sends \cup {None}
  PROVE  [j EXCEPT !.pc = pc, !.seen = st, !.body = b, !.held = h, !.send = s] \in Job
  BY DEF Job

LEMMA IdleJob == Idle \in Job /\ (\A a, au : Holds(a, Idle, au)) /\ \A j : Calm(j, Idle)
  BY DEF Idle, Job, PCs, States, Texts, Holds, Calm, Paying

\* The tables, as the helpers leave them.
LEMMA SetStateOK ==
  ASSUME TypeOK, NEW d \in Drafts, NEW st \in States, SetState(d, st)
  PROVE  DraftsOK'
  BY DEF SetState, TypeOK, DraftsOK

LEMMA SetDraftOK ==
  ASSUME TypeOK, NEW d \in Drafts, NEW st \in States, NEW b \in Texts, SetDraft(d, st, b)
  PROVE  DraftsOK'
  BY DEF SetDraft, TypeOK, DraftsOK

LEMMA SameTables ==
  ASSUME TypeOK
  PROVE  /\ UNCHANGED draft => DraftsOK'
         /\ UNCHANGED withheld => WithheldOK'
         /\ UNCHANGED auth => AuthsOK' /\ KeepsTokens(auth, auth')
  BY DEF TypeOK, DraftsOK, WithheldOK, AuthsOK, KeepsTokens

-----------------------------------------------------------------------------
LEMMA TriageStep ==
  ASSUME Inv, TriageNext
  PROVE  Inv'
<1> SUFFICES ASSUME NEW r \in Replies,
                    \/ \E b \in Bodies : AgentFill(r, b)
                    \/ RetireDeferred(r) \/ ScreenByHuman(r) \/ ScreenByModel(r) \/ Release(r)
             PROVE  Inv'
  BY DEF TriageNext
<1>0. TypeOK /\ r \in Drafts
  BY DEF Inv, Drafts
<1>1. DraftsOK'
  <2>1. ASSUME NEW b \in Bodies, AgentFill(r, b) PROVE DraftsOK'
    <3>1. PICK st \in States : SetDraft(r, st, b)
      BY <2>1 DEF AgentFill, States
    <3> QED BY <1>0, <3>1, SetDraftOK DEF Texts
  <2>2. CASE SetState(r, "REJECTED")
    BY <1>0, <2>2, SetStateOK DEF States
  <2>3. CASE UNCHANGED draft
    BY <1>0, <2>3, SameTables
  <2> QED BY <2>1, <2>2, <2>3 DEF RetireDeferred, ScreenByHuman, ScreenByModel, Release
<1>2. WithheldOK'
  BY <1>0 DEF TypeOK, WithheldOK, AgentFill, RetireDeferred, ScreenByHuman, ScreenByModel, Release
<1>3. UNCHANGED <<auth, send>>
  BY DEF AgentFill, RetireDeferred, ScreenByHuman, ScreenByModel, Release
<1>4. AuthsOK' /\ KeepsTokens(auth, auth')
  BY <1>0, <1>3, SameTables
<1>5. job \in [Actors -> Job] /\ \A a \in Actors : Holds(a, job[a], auth') /\ Calm(job[a], job[a])
  BY <1>3 DEF Inv, TypeOK, JobOK, Calm
<1>6. CASE UNCHANGED job
  BY <1>1, <1>2, <1>3, <1>4, <1>5, <1>6, QuietStep
<1>7. CASE Release(r)
  <2>1. \A j \in Job : [j EXCEPT !.held = FALSE] \in Job
    BY DEF Job
  <2>2. job' \in [Actors -> Job]
    BY <1>5, <1>7, <2>1 DEF Release
  <2>3. \A a \in Actors : /\ job'[a].pc = job[a].pc /\ job'[a].draft = job[a].draft
                          /\ job'[a].seen = job[a].seen /\ job'[a].body = job[a].body
                          /\ job'[a].auth = job[a].auth /\ job'[a].send = job[a].send
    BY <1>5, <1>7 DEF Release, Job
  <2>4. \A a \in Actors : Holds(a, job'[a], auth') /\ Calm(job[a], job'[a])
    BY <1>5, <2>3 DEF Holds, Calm
  <2> QED BY <1>1, <1>2, <1>3, <1>4, <2>2, <2>4, QuietStep
<1> QED BY <1>6, <1>7 DEF AgentFill, RetireDeferred, ScreenByHuman, ScreenByModel

-----------------------------------------------------------------------------
\* What a step of a detail page, other than an approval, leaves.
TabQuiet(t) ==
  \/ \E r \in Replies : OpenTab(t, r)
  \/ \E b \in Bodies : EditRefused(t, b) \/ SaveTab(t, b) \/ ApplyRevision(t, b)
  \/ ClosePage(t) \/ RejectTab(t) \/ ClearTab(t) \/ RefuseTab(t) \/ TabSent(t) \/ TabRetry(t)
  \/ TabUnwritten(t)

LEMMA TabQuietStep ==
  ASSUME Inv, NEW t \in Tabs, TabQuiet(t)
  PROVE  Inv'
<1>1. /\ TypeOK /\ t \in Actors /\ t \notin Pages \cup Procs
      /\ job \in [Actors -> Job] /\ job[t] \in Job /\ Holds(t, job[t], auth)
  BY DraftSendAssumption DEF Inv, TypeOK, JobOK, Actors
<1>2. UNCHANGED <<withheld, auth, send>>
  BY DEF TabQuiet, OpenTab, EditRefused, SaveTab, ApplyRevision, ClosePage, RejectTab, ClearTab,
         RefuseTab, TabSent, TabRetry, Retryable, TabUnwritten
<1>3. WithheldOK' /\ AuthsOK' /\ KeepsTokens(auth, auth')
  BY <1>1, <1>2, SameTables
<1>4. At(t, "idle") \/ job[t].draft \in Replies
  BY <1>1 DEF Holds, At
<1>5. DraftsOK'
  <2>1. CASE UNCHANGED draft
    BY <1>1, <2>1, SameTables
  <2>2. CASE ~At(t, "idle") /\ \E st \in States : SetState(job[t].draft, st)
    BY <1>1, <1>4, <2>2, SetStateOK DEF Drafts
  <2>3. CASE ~At(t, "idle") /\ \E st \in States, b \in Texts : SetDraft(job[t].draft, st, b)
    BY <1>1, <1>4, <2>3, SetDraftOK DEF Drafts
  <2>4. job[t].body \in Texts /\ job[t].seen \in States /\ Bodies \subseteq Texts
    BY <1>1 DEF Job, Texts
  <2>5. CASE \E b \in Bodies : EditRefused(t, b) \/ SaveTab(t, b) \/ ApplyRevision(t, b)
    BY <2>3, <2>4, <2>5 DEF EditRefused, SaveTab, ApplyRevision, States, At
  <2>6. CASE RejectTab(t)
    BY <2>2, <2>6 DEF RejectTab, States
  <2>7. CASE TabSent(t) \/ TabRetry(t)
    BY <2>3, <2>4, <2>7 DEF TabSent, TabRetry, Retryable, States, At
  <2> QED BY <2>1, <2>5, <2>6, <2>7 DEF TabQuiet, OpenTab, ClosePage, ClearTab, RefuseTab,
                                         TabUnwritten
<1>6. Moves(t)
  <2>1. Calm(job[t], job[t]) /\ Holds(t, job[t], auth')
    BY <1>1, <1>2 DEF Calm
  <2>2. CASE UNCHANGED job
    BY <1>1, <2>1, <2>2 DEF Moves
  <2>3. CASE job' = [job EXCEPT ![t] = Idle]
    BY <1>1, <2>3, IdleJob DEF Moves
  <2>4. ASSUME NEW r \in Replies, OpenTab(t, r) PROVE Moves(t)
    <3>1. draft[r].state \in States /\ withheld[r] \in BOOLEAN
      BY <1>1 DEF TypeOK, Drafts
    <3> DEFINE n == [Idle EXCEPT !.pc = "open", !.draft = r, !.seen = draft[r].state,
                                 !.gate = withheld[r]]
    <3>2. n \in Job /\ n.pc = "open" /\ n.draft \in Replies
      BY <3>1 DEF Idle, Job, PCs, Texts, Drafts
    <3>3. job' = [job EXCEPT ![t] = n]
      BY <2>4 DEF OpenTab
    <3> HIDE DEF n
    <3> QED BY <1>1, <3>2, <3>3 DEF Moves, Holds, Calm, Paying
  <2>5. ASSUME NEW st \in States, job[t].pc = "open", job' = [job EXCEPT ![t].seen = st]
        PROVE  Moves(t)
    <3>1. \A j \in Job : [j EXCEPT !.seen = st] \in Job
      BY DEF Job
    <3> QED BY <1>1, <2>5, <3>1 DEF Moves, Job, Holds, Calm, Paying
  <2>6. ASSUME NEW pc \in {"cleared", "bounced"}, job[t].pc = "approved", Become(t, pc)
        PROVE  Moves(t)
    <3>1. \A j \in Job : [j EXCEPT !.pc = pc] \in Job
      BY DEF Job, PCs
    <3> QED BY <1>1, <2>6, <3>1 DEF Moves, Become, Job, Holds, Calm, Paying, Unsent
  <2>7. CASE TabRetry(t)
    <3> DEFINE n == [job[t] EXCEPT !.pc = "open", !.seen = "PENDING", !.body = Blank,
                                   !.held = FALSE, !.send = None]
    <3>1. n \in Job
      BY <1>1, JobFields DEF PCs, States, Texts
    <3>2. n.pc = "open" /\ n.draft = job[t].draft
      BY <1>1 DEF Job
    <3>3. job' = [job EXCEPT ![t] = n]
      BY <1>1, <2>7 DEF TabRetry, Retryable
    <3>4. job[t].draft \in Replies
      BY <1>4, <2>7 DEF TabRetry, At
    <3> HIDE DEF n
    <3> QED BY <1>1, <3>1, <3>2, <3>3, <3>4 DEF Moves, Holds, Calm, Paying
  <2>8. CASE TabUnwritten(t)
    <3> DEFINE n == [job[t] EXCEPT !.pc = "open", !.body = Blank, !.held = FALSE]
    <3>1. n \in Job /\ n.pc = "open" /\ n.draft = job[t].draft
      BY <1>1 DEF Job, PCs, Texts
    <3>2. job' = [job EXCEPT ![t] = n]
      BY <1>1, <2>8 DEF TabUnwritten
    <3>3. job[t].draft \in Replies
      BY <1>4, <2>8 DEF TabUnwritten, At
    <3> HIDE DEF n
    <3> QED BY <1>1, <3>1, <3>2, <3>3 DEF Moves, Holds, Calm, Paying
  <2> QED BY <2>2, <2>3, <2>4, <2>5, <2>6, <2>7, <2>8
      DEF TabQuiet, EditRefused, SaveTab, ApplyRevision, ClosePage, RejectTab, ClearTab, RefuseTab,
          TabSent, At, States
<1> QED BY <1>1, <1>2, <1>3, <1>5, <1>6, OneJobStep

-----------------------------------------------------------------------------
\* The steps of a Compose page other than the approval of a send.
PageQuiet(g) ==
  \/ \E d \in Manuals \cup {None} : OpenPage(g, d)
  \/ \E d \in Manuals, b \in Texts : SaveManual(g, d, b) \/ SendManual(g, d, b)
  \/ \E d \in Manuals : DeleteManual(g, d)
  \/ ClosePage(g) \/ RefuseManual(g) \/ ManualSent(g) \/ ManualFailed(g)

LEMMA PageQuietStep ==
  ASSUME Inv, NEW g \in Pages, PageQuiet(g)
  PROVE  Inv'
<1>1. /\ TypeOK /\ g \in Actors /\ g \notin Tabs \cup Procs
      /\ job \in [Actors -> Job] /\ job[g] \in Job /\ Holds(g, job[g], auth)
  BY DraftSendAssumption DEF Inv, TypeOK, JobOK, Actors
<1>2. UNCHANGED <<withheld, send>>
  BY DEF PageQuiet, OpenPage, SaveManual, SendManual, DeleteManual, ClosePage, RefuseManual,
         ManualSent, ManualFailed, Unbusy
<1>3. WithheldOK'
  BY <1>1, <1>2, SameTables
<1>4. AuthsOK' /\ KeepsTokens(auth, auth')
  <2>1. CASE UNCHANGED auth
    BY <1>1, <2>1, SameTables
  <2>2. ASSUME NEW d \in Manuals, DeleteManual(g, d) PROVE AuthsOK' /\ KeepsTokens(auth, auth')
    <3>1. \A x \in Auth : /\ [x EXCEPT !.status = "gone"] \in Auth
                          /\ [x EXCEPT !.status = "gone"].draft = x.draft
                          /\ [x EXCEPT !.status = "gone"].body = x.body
                          /\ [x EXCEPT !.status = "gone"].status = "gone"
      BY DEF Auth
    <3>2. \A k \in Auths : auth[k] # None => auth[k] \in Auth
      BY <1>1 DEF TypeOK
    <3>3. AuthsOK'
      BY <1>1, <2>2, <3>1, <3>2 DEF DeleteManual, AuthsOK, TypeOK
    <3>4. KeepsTokens(auth, auth')
      BY <2>2, <3>1, <3>2, NoneAssumption DEF DeleteManual, KeepsTokens
    <3> QED BY <3>3, <3>4
  <2> QED BY <2>1, <2>2 DEF PageQuiet, OpenPage, SaveManual, SendManual, ClosePage, RefuseManual,
                            ManualSent, ManualFailed, Unbusy
<1>5. DraftsOK'
  <2>1. CASE UNCHANGED draft
    BY <1>1, <2>1, SameTables
  <2>2. CASE \E d \in Manuals, st \in States : SetState(d, st)
    BY <1>1, <2>2, SetStateOK DEF Drafts
  <2>3. CASE \E d \in Manuals, st \in States, b \in Texts : SetDraft(d, st, b)
    BY <1>1, <2>3, SetDraftOK DEF Drafts
  <2>4. CASE \E d \in Manuals, b \in Texts : SaveManual(g, d, b) \/ SendManual(g, d, b)
    BY <2>1, <2>3, <2>4 DEF SaveManual, SendManual, Persist, States
  <2>5. CASE \E d \in Manuals : DeleteManual(g, d)
    BY <2>3, <2>5 DEF DeleteManual, States, Texts
  <2>6. CASE ManualSent(g)
    <3>1. job[g].draft \in Manuals
      BY <1>1, <2>6 DEF ManualSent, At, Holds
    <3> QED BY <2>1, <2>2, <2>6, <3>1 DEF ManualSent, States
  <2> QED BY <2>1, <2>4, <2>5, <2>6
      DEF PageQuiet, OpenPage, ClosePage, RefuseManual, ManualFailed, Unbusy
<1>6. Moves(g)
  <2>1. CASE job' = [job EXCEPT ![g] = Idle]
    BY <1>1, <2>1, IdleJob DEF Moves
  <2>2. ASSUME NEW d \in Manuals \cup {None}, NEW st \in {"DRAFT", "GONE"},
               d = None => st = "GONE",
               job' = [job EXCEPT ![g] = [Idle EXCEPT !.pc = "open", !.draft = d, !.seen = st]]
        PROVE  Moves(g)
    <3> DEFINE n == [Idle EXCEPT !.pc = "open", !.draft = d, !.seen = st]
    <3>1. n \in Job /\ n.pc = "open" /\ n.draft = d /\ n.seen = st
      BY DEF Idle, Job, PCs, Texts, Drafts, States
    <3>2. d \in Manuals \/ st = "GONE"
      BY <2>2
    <3>3. job' = [job EXCEPT ![g] = n]
      BY <2>2
    <3> HIDE DEF n
    <3> QED BY <1>1, <3>1, <3>2, <3>3 DEF Moves, Holds, Calm, Paying
  <2>3. ASSUME NEW d \in Manuals, NEW b \in Texts, SaveManual(g, d, b) PROVE Moves(g)
    <3> DEFINE n == [job[g] EXCEPT !.draft = d, !.seen = "DRAFT"]
    <3>1. /\ n \in Job /\ n.pc = job[g].pc /\ n.draft = d /\ n.body = job[g].body
          /\ n.send = job[g].send /\ n.auth = job[g].auth
      BY <1>1 DEF Job, Drafts, States
    <3>2. job' = [job EXCEPT ![g] = n] /\ UNCHANGED auth
      BY <1>1, <2>3 DEF SaveManual
    <3>3. job[g].pc = "open" \/ (job[g].draft = d /\ job[g].pc # "idle")
      BY <2>3 DEF SaveManual, Persist, At
    <3> HIDE DEF n
    <3>4. Holds(g, n, auth')
      BY <1>1, <3>1, <3>2, <3>3 DEF Holds
    <3>5. Calm(job[g], n)
      BY <3>1, <3>3 DEF Calm, Paying
    <3> QED BY <1>1, <3>1, <3>2, <3>4, <3>5 DEF Moves
  <2>4. ASSUME NEW d \in Manuals, NEW b \in Texts, SendManual(g, d, b) PROVE Moves(g)
    <3> DEFINE n == [job[g] EXCEPT !.pc = "requested", !.draft = d, !.seen = "DRAFT", !.body = b]
    <3>1. n \in Job /\ n.pc = "requested" /\ n.draft = d /\ n.body = b
      BY <1>1 DEF Job, PCs, Drafts, States
    <3>2. job' = [job EXCEPT ![g] = n] /\ b \in Bodies
      BY <1>1, <2>4 DEF SendManual, Texts
    <3> HIDE DEF n
    <3> QED BY <1>1, <3>1, <3>2 DEF Moves, Holds, Calm, Paying
  <2>5. CASE RefuseManual(g)
    <3>1. \A j \in Job : [j EXCEPT !.pc = "bounced"] \in Job
      BY DEF Job, PCs
    <3> QED BY <1>1, <2>5, <3>1 DEF RefuseManual, At, Become, Moves, Job, Holds, Calm, Paying
  <2>6. CASE ManualSent(g)
    <3> DEFINE n == [Idle EXCEPT !.pc = "open"]
    <3>1. n \in Job /\ n.pc = "open" /\ n.seen = "GONE"
      BY DEF Idle, Job, PCs, Texts, States
    <3>2. job' = [job EXCEPT ![g] = n]
      BY <2>6 DEF ManualSent
    <3> HIDE DEF n
    <3> QED BY <1>1, <3>1, <3>2 DEF Moves, Holds, Calm, Paying
  <2>7. CASE ManualFailed(g)
    <3> DEFINE st == job[g].seen
               d == IF st = "GONE" THEN None ELSE job[g].draft
               n == [Idle EXCEPT !.pc = "open", !.seen = st, !.draft = d]
    <3>1. st \in States /\ (st = "GONE" \/ d \in Manuals) /\ d \in Drafts \cup {None}
      BY <1>1, <2>7 DEF ManualFailed, At, Holds, Job
    <3>2. job' = [job EXCEPT ![g] = n]
      BY <2>7 DEF ManualFailed, Unbusy
    <3> HIDE DEF st, d
    <3>3. n \in Job /\ n.pc = "open" /\ n.draft = d /\ n.seen = st
      BY <3>1 DEF Idle, Job, PCs, Texts
    <3> HIDE DEF n
    <3> QED BY <1>1, <3>1, <3>2, <3>3 DEF Moves, Holds, Calm, Paying
  <2>8. ASSUME NEW d \in Manuals, DeleteManual(g, d) PROVE Moves(g)
    <3>1. Calm(job[g], job[g]) /\ Holds(g, job[g], auth')
      BY <1>1, <1>4 DEF Calm, Holds, KeepsTokens
    <3>2. CASE UNCHANGED job
      BY <1>1, <3>1, <3>2 DEF Moves
    <3>3. CASE ~UNCHANGED job
      <4> DEFINE x == IF job[g].pc = "open" THEN None ELSE d
                 n == [job[g] EXCEPT !.seen = "GONE", !.draft = x]
      <4>1. x \in Drafts \cup {None} /\ job[g].draft = d /\ job[g].pc # "idle"
            /\ (job[g].pc = "open" \/ x = d)
        BY <2>8, <3>3 DEF DeleteManual, Drafts, At
      <4>2. job' = [job EXCEPT ![g] = n]
        BY <1>1, <2>8, <3>3 DEF DeleteManual
      <4> HIDE DEF x
      <4>3. /\ n \in Job /\ n.pc = job[g].pc /\ n.draft = x /\ n.seen = "GONE"
            /\ n.body = job[g].body /\ n.send = job[g].send /\ n.auth = job[g].auth
        BY <1>1, <4>1 DEF Job, States
      <4> HIDE DEF n
      <4>4. Holds(g, n, auth')
        BY <1>1, <3>1, <4>1, <4>3 DEF Holds
      <4>5. Calm(job[g], n)
        BY <4>1, <4>3 DEF Calm, Paying
      <4> QED BY <1>1, <4>2, <4>3, <4>4, <4>5 DEF Moves
    <3> QED BY <3>2, <3>3
  <2>9. ASSUME NEW d \in Manuals \cup {None}, OpenPage(g, d) PROVE Moves(g)
    BY <2>2, <2>9, DraftSendAssumption DEF OpenPage
  <2> QED BY <2>1, <2>3, <2>4, <2>5, <2>6, <2>7, <2>8, <2>9 DEF PageQuiet, ClosePage
<1> QED BY <1>1, <1>2, <1>3, <1>4, <1>5, <1>6, OneJobStep

-----------------------------------------------------------------------------
\* The steps of a bridge process other than consuming a token and approving.
ProcQuiet(p) ==
  \/ \E d \in Drafts : PrepareRead(p, d)
  \/ \E d \in Drafts, k \in Auths : BridgeLoad(p, d, k)
  \/ \E k \in Auths : PrepareIssue(p, k)
  \/ \E r \in Replies : ReviseRead(p, r)
  \/ \E b \in Bodies : ReviseWrite(p, b)
  \/ BridgeSent(p) \/ BridgeRetry(p) \/ GiveUp(p) \/ ProcCrash(p)
  \/ BridgeStrand(p) \/ BridgeUnwritten(p)

LEMMA ProcQuietStep ==
  ASSUME Inv, NEW p \in Procs, ProcQuiet(p)
  PROVE  Inv'
<1>1. /\ TypeOK /\ p \in Actors /\ p \notin Tabs \cup Pages
      /\ job \in [Actors -> Job] /\ job[p] \in Job /\ Holds(p, job[p], auth)
  BY DraftSendAssumption DEF Inv, TypeOK, JobOK, Actors
<1>2. UNCHANGED <<withheld, send>>
  BY DEF ProcQuiet, PrepareRead, BridgeLoad, LoadUnder, PrepareIssue, ReviseRead, StartRevision,
         ReviseWrite, BridgeSent, BridgeRetry, GiveUp, ProcCrash, BridgeStrand, BridgeUnwritten
<1>3. WithheldOK'
  BY <1>1, <1>2, SameTables
<1>4. AuthsOK' /\ KeepsTokens(auth, auth')
  <2>1. CASE UNCHANGED auth
    BY <1>1, <2>1, SameTables
  <2>2. ASSUME NEW k \in Auths, PrepareIssue(p, k) PROVE AuthsOK' /\ KeepsTokens(auth, auth')
    <3>1. [draft |-> job[p].draft, body |-> job[p].body, status |-> "staged",
           expired |-> FALSE, recent |-> FALSE] \in Auth
      BY <1>1, <2>2 DEF PrepareIssue, At, Holds, Auth
    <3> QED BY <1>1, <2>2, <3>1 DEF PrepareIssue, AuthsOK, KeepsTokens, TypeOK
  <2> QED BY <2>1, <2>2 DEF ProcQuiet, PrepareRead, BridgeLoad, LoadUnder, ReviseRead,
                            StartRevision, ReviseWrite, BridgeSent, BridgeRetry, GiveUp, ProcCrash,
                            BridgeStrand, BridgeUnwritten
<1>5. DraftsOK'
  <2>1. CASE UNCHANGED draft
    BY <1>1, <2>1, SameTables
  <2>2. At(p, "idle") \/ job[p].draft \in Drafts
    BY <1>1 DEF Holds, At
  <2>3. CASE BridgeSent(p) \/ BridgeRetry(p) \/ BridgeStrand(p)
    BY <1>1, <2>2, <2>3, SetStateOK DEF BridgeSent, BridgeRetry, BridgeStrand, At, States
  <2>4. ASSUME NEW b \in Bodies, ReviseWrite(p, b) PROVE DraftsOK'
    BY <1>1, <2>2, <2>4, SetDraftOK DEF ReviseWrite, At, States, Texts
  <2> QED BY <2>1, <2>3, <2>4 DEF ProcQuiet, PrepareRead, BridgeLoad, LoadUnder, PrepareIssue,
                                  ReviseRead, StartRevision, GiveUp, ProcCrash, BridgeUnwritten
<1>6. Moves(p)
  <2>1. CASE job' = [job EXCEPT ![p] = Idle]
    BY <1>1, <2>1, IdleJob DEF Moves
  <2>2. ASSUME NEW d \in Drafts, NEW pc \in {"preparing", "loaded"}, NEW k \in Auths \cup {None},
               Load(p, d, pc, k), UNCHANGED auth,
               pc = "preparing" => draft[d].body \in Bodies,
               pc = "loaded" => k \in Auths /\ auth[k] # None
        PROVE  Moves(p)
    <3> DEFINE n == [Idle EXCEPT !.pc = pc, !.draft = d, !.body = draft[d].body,
                                 !.held = Withheld(d), !.auth = k]
    <3>1. draft[d].body \in Texts /\ Withheld(d) \in BOOLEAN
      BY <1>1 DEF TypeOK, Withheld
    <3>2. n \in Job /\ n.pc = pc /\ n.draft = d /\ n.body = draft[d].body /\ n.auth = k
      BY <3>1 DEF Idle, Job, PCs, States
    <3>3. job' = [job EXCEPT ![p] = n]
      BY <2>2 DEF Load
    <3> HIDE DEF n
    <3>4. Holds(p, n, auth')
      BY <1>1, <2>2, <3>2 DEF Holds
    <3>5. Calm(job[p], n)
      BY <3>2 DEF Calm, Paying
    <3> QED BY <1>1, <3>2, <3>3, <3>4, <3>5 DEF Moves
  <2>3. ASSUME NEW d \in Drafts, PrepareRead(p, d) PROVE Moves(p)
    BY <2>2, <2>3, DraftSendAssumption DEF PrepareRead
  <2>4. ASSUME NEW d \in Drafts, NEW k \in Auths, BridgeLoad(p, d, k) PROVE Moves(p)
    BY <2>2, <2>4 DEF BridgeLoad, LoadUnder
  <2>5. ASSUME NEW r \in Replies, ReviseRead(p, r) PROVE Moves(p)
    <3> DEFINE n == [Idle EXCEPT !.pc = "revising", !.draft = r]
    <3>1. n \in Job /\ n.pc = "revising" /\ n.draft = r
      BY DEF Idle, Job, PCs, States, Texts, Drafts
    <3>2. job' = [job EXCEPT ![p] = n]
      BY <2>5 DEF ReviseRead, StartRevision
    <3> HIDE DEF n
    <3> QED BY <1>1, <3>1, <3>2 DEF Moves, Holds, Calm, Paying, Drafts
  <2> QED BY <2>1, <2>3, <2>4, <2>5
      DEF ProcQuiet, PrepareIssue, ReviseWrite, BridgeSent, BridgeRetry, GiveUp, ProcCrash,
          BridgeStrand, BridgeUnwritten
<1> QED BY <1>1, <1>2, <1>3, <1>4, <1>5, <1>6, OneJobStep

-----------------------------------------------------------------------------
\* A human's or a process's approval: a fresh attempt, held by one job.
LEMMA ApprovalStep ==
  ASSUME Inv, NEW a \in Actors, NEW s \in Sends, send[s] = None,
         DraftsOK', UNCHANGED <<withheld, auth>>,
         NEW d \in Drafts, NEW b \in Bodies, NEW k \in Auths \cup {None},
         send' = [send EXCEPT ![s] = NewSend(d, b, k)],
         k # None => job[a].pc = "consumed" /\ job[a].auth = k /\ job[a].draft = d /\ job[a].body = b,
         job' = [job EXCEPT ![a] = job'[a]], job'[a] \in Job, Holds(a, job'[a], auth),
         job'[a].pc \in {"approved", "cleared"}, job'[a].draft = d, job'[a].body = b,
         job'[a].send = s
  PROVE  Inv'
<1>1. TypeOK
  BY DEF Inv
<1>2. /\ send'[s] \in Send /\ send'[s] # None /\ send'[s].draft = d /\ send'[s].body = b
      /\ send'[s].auth = k /\ send'[s].wire = "no"
  BY <1>1, NoneAssumption DEF TypeOK, NewSend, Send, Texts
<1>3. \A z \in Sends : z # s => send'[z] = send[z]
  BY <1>1 DEF TypeOK
<1>4. Attempts' = Attempts \cup {s} /\ s \notin Attempts
  BY <1>2, <1>3 DEF Attempts
<1>5. \A c \in Actors : c # a => job'[c] = job[c]
  BY <1>1 DEF TypeOK
<1>6. TypeOK'
  BY <1>1, <1>2 DEF TypeOK, DraftsOK
<1>7. JobOK'
  BY <1>5 DEF Inv, JobOK
<1>8. SendOK'
  BY <1>2, <1>3, <1>4, <1>5 DEF Inv, SendOK, Taken, Paying
<1>9. Apart'
  BY <1>4, <1>5 DEF Inv, Apart, SendOK, Paying
<1>10. TokenOK'
  <2>1. k # None => /\ auth[k] # None /\ auth[k].status # "staged"
                    /\ auth[k].draft = d /\ auth[k].body = b
    BY DEF Inv, SpentOK, Binds, JobOK, Holds
  <2> QED BY <1>2, <1>3, <1>4, <2>1 DEF Inv, TokenOK
<1>11. SpentOK'
  <2> SUFFICES ASSUME NEW c \in Actors, job'[c].pc = "consumed"
               PROVE  /\ auth'[job'[c].auth].status # "staged"
                      /\ Binds(job[c].auth, job[c])'
                      /\ \A z \in Attempts' : send'[z].auth # job'[c].auth
                      /\ \A e \in Actors : e # c /\ job'[e].pc = "consumed" =>
                            job'[e].auth # job'[c].auth
    BY DEF SpentOK
  <2>1. c # a /\ job'[c] = job[c] /\ job[c].pc = "consumed" /\ job[c].auth \in Auths
    BY <1>5 DEF Inv, JobOK, Holds
  <2>2. k # job[c].auth
    BY <2>1, DraftSendAssumption DEF Inv, SpentOK
  <2>3. \A z \in Attempts' : send'[z].auth # job'[c].auth
    BY <1>2, <1>3, <1>4, <2>1, <2>2 DEF Inv, SpentOK
  <2> QED BY <1>5, <2>1, <2>3 DEF Inv, SpentOK, Binds
<1>12. MailOK'
  BY <1>2, <1>3, <1>4 DEF Inv, MailOK, Taken
<1>13. TokenSpentOnce'
  <2>1. k # None => \A z \in Attempts : send[z].auth # k
    BY DEF Inv, SpentOK
  <2> QED BY <1>2, <1>3, <1>4, <2>1 DEF Inv, TokenSpentOnce
<1> QED BY <1>6, <1>7, <1>8, <1>9, <1>10, <1>11, <1>12, <1>13 DEF Inv

\* What the transport does to the attempt of a job, and to no other.
LEMMA RecordStep ==
  ASSUME Inv, NEW a \in Actors, job[a].pc \in Paying, UNCHANGED <<draft, withheld, auth>>,
         NEW pc \in (Paying \ {"approved"}) \cup {"bounced"}, Become(a, pc),
         NEW s \in Sends, s = job[a].send,
         send' = [send EXCEPT ![s] = send'[s]], send'[s] \in Send,
         send'[s].draft = send[s].draft, send'[s].body = send[s].body,
         send'[s].auth = send[s].auth,
         send'[s].wire # "no" => send'[s].mail = send'[s].body,
         pc \in Unsent => job[a].pc \in Unsent /\ send'[s].wire = "no"
  PROVE  Inv'
<1>1. TypeOK /\ send'[s] # None
  BY NoneAssumption DEF Inv
<1>2. \A z \in Sends : z # s => send'[z] = send[z]
  BY <1>1 DEF TypeOK
<1>3. s \in Attempts /\ Attempts' = Attempts
  BY <1>1, <1>2 DEF Attempts, Inv, SendOK
<1>4. \A z \in Attempts : /\ send'[z].draft = send[z].draft /\ send'[z].body = send[z].body
                          /\ send'[z].auth = send[z].auth
  BY <1>2 DEF Attempts
<1>5. \A c \in Actors : c # a => job'[c] = job[c]
  BY <1>1 DEF TypeOK, Become
<1>6. /\ job'[a] \in Job /\ job'[a].pc = pc /\ job'[a].draft = job[a].draft
      /\ job'[a].body = job[a].body /\ job'[a].auth = job[a].auth /\ job'[a].send = s
      /\ job'[a].seen = job[a].seen
  <2>1. pc \in PCs
    BY DEF PCs, Transmitting, Paying
  <2>2. job[a] \in Job /\ job'[a] = [job[a] EXCEPT !.pc = pc]
    BY <1>1 DEF TypeOK, Become
  <2> QED BY <2>1, <2>2 DEF Job
<1>7. TypeOK'
  BY <1>1, <1>6 DEF TypeOK, Become
<1>8. JobOK'
  BY <1>5, <1>6 DEF Inv, JobOK, Holds, Paying
<1>9. SendOK'
  <2>1. \A c \in Actors : c # a /\ job[c].pc \in Paying => job[c].send # s
    BY DEF Inv, Apart
  <2> QED BY <1>2, <1>3, <1>4, <1>5, <1>6, <2>1 DEF Inv, SendOK, Taken, Attempts
<1>10. Apart'
  BY <1>5, <1>6 DEF Inv, Apart
<1>11. TokenOK' /\ TokenSpentOnce'
  BY <1>3, <1>4 DEF Inv, TokenOK, TokenSpentOnce
<1>12. SpentOK'
  BY <1>3, <1>4, <1>5, <1>6 DEF Inv, SpentOK, Binds, Paying
<1>13. MailOK'
  BY <1>2, <1>3 DEF Inv, MailOK, Taken, Attempts
<1> QED BY <1>7, <1>8, <1>9, <1>10, <1>11, <1>12, <1>13 DEF Inv

LEMMA TransportStep ==
  ASSUME Inv, NEW a \in Actors, Transport(a)
  PROVE  Inv'
<1> DEFINE s == job[a].send
<1>1. job[a].pc \in Paying
  BY DEF Transport, OpenRecord, SmtpAccept, SmtpLose, SmtpRefuse, Wire, StampRecord, At, Paying
<1>2. /\ TypeOK /\ job[a] \in Job /\ s \in Attempts /\ s \in Sends /\ send[s] \in Send
      /\ send[s].body = job[a].body /\ (job[a].pc \in Unsent => send[s].wire = "no")
      /\ (send[s].wire # "no" => send[s].mail = send[s].body)
  BY <1>1 DEF Inv, TypeOK, SendOK, MailOK, Attempts, Taken
<1>3. UNCHANGED <<draft, withheld, auth>>
  BY DEF Transport, OpenRecord, SmtpAccept, SmtpLose, SmtpRefuse, Wire, StampRecord, Stamp
<1>s. s = job[a].send
  OBVIOUS
<1> HIDE DEF s
<1>4. ASSUME NEW row \in {"none", "UNKNOWN", "SENT", "FAILED"},
             NEW pc \in (Paying \ {"approved"}) \cup {"bounced"}, Become(a, pc),
             send' = [send EXCEPT ![s].row = row],
             pc \in Unsent => job[a].pc \in Unsent
      PROVE  Inv'
  <2>1. /\ send' = [send EXCEPT ![s] = send'[s]] /\ send'[s] \in Send
        /\ send'[s].draft = send[s].draft /\ send'[s].body = send[s].body
        /\ send'[s].auth = send[s].auth /\ send'[s].wire = send[s].wire
        /\ send'[s].mail = send[s].mail
    BY <1>2, <1>4 DEF TypeOK, Send
  <2>2. send'[s].wire # "no" => send'[s].mail = send'[s].body
    BY <1>2, <2>1
  <2>3. pc \in Unsent => job[a].pc \in Unsent /\ send'[s].wire = "no"
    BY <1>2, <1>4, <2>1
  <2>4. job[a].pc \in Paying /\ s \in Sends /\ Become(a, pc)
    BY <1>1, <1>2, <1>4
  <2> QED BY <1>3, <1>s, <2>1, <2>2, <2>3, <2>4, RecordStep
<1>5. CASE OpenRecord(a)
  BY <1>4, <1>5 DEF OpenRecord, At, Paying, Unsent, s
<1>6. ASSUME NEW w \in {"no", "accepted", "lost"}, NEW pc \in {"accepted", "failed"}, Wire(a, w, pc)
      PROVE  Inv'
  <2>1. Become(a, pc) /\ send' = [send EXCEPT ![s].wire = w, ![s].mail = job[a].body]
    BY <1>6 DEF Wire, s
  <2>2. /\ send' = [send EXCEPT ![s] = send'[s]] /\ send'[s] \in Send
        /\ send'[s].draft = send[s].draft /\ send'[s].body = send[s].body
        /\ send'[s].auth = send[s].auth /\ send'[s].mail = send'[s].body
    <3>1. job[a].body \in Texts
      BY <1>2 DEF Job
    <3> QED BY <1>2, <2>1, <3>1 DEF TypeOK, Send
  <2>3. pc \in (Paying \ {"approved"}) \cup {"bounced"} /\ pc \notin Unsent
    BY DEF Paying, Unsent
  <2>4. job[a].pc \in Paying /\ s \in Sends /\ Become(a, pc)
    BY <1>1, <1>2, <2>1
  <2> QED BY <1>3, <1>s, <2>2, <2>3, <2>4, RecordStep
<1>7. CASE StampRecord(a)
  <2>1. ASSUME NEW row \in {"SENT", "FAILED"}, NEW pc \in {"delivered", "bounced"},
               Stamp(a, row, pc, pc)
        PROVE  Inv'
    <3>1. CASE send' = [send EXCEPT ![s].row = row]
      BY <1>4, <2>1, <3>1 DEF Stamp, Paying, Unsent
    <3>2. CASE UNCHANGED send
      <4>1. send' = [send EXCEPT ![s].row = send[s].row]
        BY <1>2, <3>2 DEF TypeOK, Send
      <4> QED BY <1>2, <1>4, <2>1, <4>1 DEF Stamp, Paying, Unsent, Send
    <3> QED BY <2>1, <3>1, <3>2 DEF Stamp, s
  <2> QED BY <1>7, <2>1 DEF StampRecord
<1> QED BY <1>5, <1>6, <1>7 DEF Transport, SmtpAccept, SmtpLose, SmtpRefuse

-----------------------------------------------------------------------------
LEMMA ApproveTabStep ==
  ASSUME Inv, NEW t \in Tabs, NEW b \in Bodies, NEW s \in Sends, ApproveTab(t, b, s)
  PROVE  Inv'
<1> DEFINE d == job[t].draft
           n == [job[t] EXCEPT !.pc = "approved", !.seen = "APPROVED", !.body = b,
                               !.held = withheld[d], !.send = s]
<1>1. /\ TypeOK /\ t \in Actors /\ t \notin Pages \cup Procs /\ job \in [Actors -> Job]
      /\ job[t] \in Job /\ d \in Replies /\ d \in Drafts /\ withheld[d] \in BOOLEAN
  BY DraftSendAssumption DEF Inv, TypeOK, JobOK, Holds, Actors, ApproveTab, Approval, At, Drafts
<1>2. DraftsOK'
  BY <1>1, SetDraftOK DEF ApproveTab, Approval, States, Texts
<1>3. /\ n \in Job /\ n.pc = "approved" /\ n.draft = d /\ n.body = b /\ n.send = s
  <2>1. n \in Job
    BY <1>1, JobFields DEF PCs, States, Texts
  <2> QED BY <1>1, <2>1 DEF Job
<1>4. job' = [job EXCEPT ![t] = n]
  BY <1>1 DEF ApproveTab, Approval
<1>5. send' = [send EXCEPT ![s] = NewSend(d, b, None)] /\ send[s] = None
      /\ UNCHANGED <<withheld, auth>>
  BY DEF ApproveTab, Approval
<1> HIDE DEF d, n
<1>6. Holds(t, n, auth)
  BY <1>1, <1>3 DEF Holds
<1> QED BY <1>1, <1>2, <1>3, <1>4, <1>5, <1>6, ApprovalStep

LEMMA ApproveManualStep ==
  ASSUME Inv, NEW g \in Pages, NEW s \in Sends, ApproveManual(g, s)
  PROVE  Inv'
<1> DEFINE d == job[g].draft
           b == job[g].body
           n == [job[g] EXCEPT !.pc = "cleared", !.send = s]
<1>1. /\ TypeOK /\ g \in Actors /\ g \notin Tabs \cup Procs /\ job \in [Actors -> Job]
      /\ job[g] \in Job /\ d \in Manuals /\ d \in Drafts /\ b \in Bodies
  BY DraftSendAssumption DEF Inv, TypeOK, JobOK, Holds, Actors, ApproveManual, At, Drafts
<1>2. DraftsOK'
  BY <1>1, SameTables DEF ApproveManual
<1>3. n \in Job /\ n.pc = "cleared" /\ n.draft = d /\ n.body = b /\ n.send = s
  BY <1>1 DEF Job, PCs
<1>4. job' = [job EXCEPT ![g] = n]
  BY <1>1 DEF ApproveManual
<1>5. send' = [send EXCEPT ![s] = NewSend(d, b, None)] /\ send[s] = None
      /\ UNCHANGED <<withheld, auth>>
  BY DEF ApproveManual
<1> HIDE DEF d, b, n
<1>6. Holds(g, n, auth)
  BY <1>1, <1>3 DEF Holds
<1> QED BY <1>1, <1>2, <1>3, <1>4, <1>5, <1>6, ApprovalStep

LEMMA BridgeApproveStep ==
  ASSUME Inv, NEW p \in Procs, NEW s \in Sends, BridgeApprove(p, s)
  PROVE  Inv'
<1> DEFINE d == job[p].draft
           b == job[p].body
           k == job[p].auth
           n == [job[p] EXCEPT !.pc = "cleared", !.send = s]
<1>1. /\ TypeOK /\ p \in Actors /\ p \notin Tabs \cup Pages /\ job \in [Actors -> Job]
      /\ job[p] \in Job /\ d \in Drafts /\ b \in Bodies /\ k \in Auths
      /\ job[p].pc = "consumed"
  BY DraftSendAssumption DEF Inv, TypeOK, JobOK, Holds, Actors, BridgeApprove, At
<1>2. DraftsOK'
  BY <1>1, SetStateOK DEF BridgeApprove, States
<1>3. n \in Job /\ n.pc = "cleared" /\ n.draft = d /\ n.body = b /\ n.send = s
  BY <1>1 DEF Job, PCs
<1>4. job' = [job EXCEPT ![p] = n]
  BY <1>1 DEF BridgeApprove
<1>5. send' = [send EXCEPT ![s] = NewSend(d, b, k)] /\ send[s] = None
      /\ UNCHANGED <<withheld, auth>>
  BY DEF BridgeApprove
<1>6. job[p].draft = d /\ job[p].body = b /\ job[p].auth = k
  OBVIOUS
<1> HIDE DEF d, b, k, n
<1>7. Holds(p, n, auth)
  BY <1>1, <1>3 DEF Holds
<1> QED BY <1>1, <1>2, <1>3, <1>4, <1>5, <1>6, <1>7, ApprovalStep

\* The token is spent by the one job whose UPDATE found it staged.
LEMMA BridgeConsumeStep ==
  ASSUME Inv, NEW p \in Procs, BridgeConsume(p)
  PROVE  Inv'
<1> DEFINE k == job[p].auth
<1>1. /\ TypeOK /\ p \in Actors /\ job \in [Actors -> Job] /\ job[p] \in Job
      /\ p \notin Tabs \cup Pages /\ job[p].draft \in Drafts
      /\ job[p].pc = "loaded" /\ k \in Auths /\ auth[k] \in Auth /\ auth[k].status = "staged"
      /\ auth[k].draft = job[p].draft /\ auth[k].body = job[p].body
  BY DraftSendAssumption
  DEF Inv, TypeOK, JobOK, Holds, Actors, BridgeConsume, At, Binds
<1>2. UNCHANGED <<draft, withheld, send>> /\ Become(p, "consumed")
      /\ auth' = [auth EXCEPT ![k].status = "used", ![k].recent = TRUE]
  BY DEF BridgeConsume, Consume
<1> HIDE DEF k
<1>3. /\ auth'[k] \in Auth /\ auth'[k].status = "used"
      /\ auth'[k].draft = auth[k].draft /\ auth'[k].body = auth[k].body
      /\ \A l \in Auths : l # k => auth'[l] = auth[l]
  BY <1>1, <1>2 DEF TypeOK, Auth
<1>4. AuthsOK' /\ KeepsTokens(auth, auth')
  BY <1>1, <1>2, <1>3, NoneAssumption DEF TypeOK, AuthsOK, KeepsTokens
<1>5. /\ job'[p] \in Job /\ job'[p].pc = "consumed" /\ job'[p].draft = job[p].draft
      /\ job'[p].body = job[p].body /\ job'[p].auth = job[p].auth
      /\ \A a \in Actors : a # p => job'[a] = job[a]
  <2>1. job'[p] = [job[p] EXCEPT !.pc = "consumed"]
    BY <1>1, <1>2 DEF Become
  <2> QED BY <1>1, <1>2, <2>1 DEF Become, Job, PCs
<1>6. TypeOK'
  BY <1>1, <1>2, <1>4, <1>5 DEF TypeOK, AuthsOK, Become
<1>7. Holds(p, job'[p], auth')
  BY <1>1, <1>3, <1>5, NoneAssumption DEF Holds, Auth, k
<1>8. JobOK'
  BY <1>4, <1>5, <1>7 DEF Inv, JobOK, Holds, KeepsTokens
<1>9. SendOK' /\ Apart' /\ MailOK'
  BY <1>1, <1>2, <1>5 DEF Inv, SendOK, Apart, MailOK, Attempts, Taken, Paying
<1>10. TokenOK' /\ TokenSpentOnce'
  BY <1>1, <1>2, <1>4 DEF Inv, TypeOK, Send, Attempts, TokenOK, TokenSpentOnce, KeepsTokens
<1>11. SpentOK'
  <2>1. \A z \in Attempts : send[z].auth # k
    BY <1>1, DraftSendAssumption DEF Inv, TokenOK
  <2>2. \A a \in Actors : job[a].pc = "consumed" => job[a].auth # k
    BY <1>1 DEF Inv, SpentOK
  <2>3. \A a \in Actors : job[a].pc = "consumed" => job[a].auth \in Auths
    BY DEF Inv, JobOK, Holds
  <2> SUFFICES ASSUME NEW c \in Actors, job'[c].pc = "consumed"
               PROVE  /\ auth'[job'[c].auth].status # "staged"
                      /\ Binds(job[c].auth, job[c])'
                      /\ \A z \in Attempts' : send'[z].auth # job'[c].auth
                      /\ \A e \in Actors : e # c /\ job'[e].pc = "consumed" =>
                            job'[e].auth # job'[c].auth
    BY DEF SpentOK
  <2>4. CASE c = p
    BY <1>1, <1>2, <1>3, <1>5, <2>1, <2>2, <2>4 DEF Binds, Attempts, k
  <2>5. CASE c # p
    <3>1. job'[c] = job[c] /\ job[c].auth # k /\ auth'[job[c].auth] = auth[job[c].auth]
      BY <1>3, <1>5, <2>2, <2>3, <2>5
    <3> QED BY <1>2, <1>5, <2>5, <3>1 DEF Inv, SpentOK, Binds, Attempts, k
  <2> QED BY <2>4, <2>5
<1> QED BY <1>6, <1>8, <1>9, <1>10, <1>11 DEF Inv

-----------------------------------------------------------------------------
\* Steps that no job makes.
LEMMA OutsideStep ==
  ASSUME Inv,
         \/ \E d \in Manuals, b \in Bodies : BridgeCompose(d, b)
         \/ \E k \in Auths : Expire(k) \/ HourPasses(k)
         \/ ServeCrash
  PROVE  Inv'
<1>1. TypeOK /\ job \in [Actors -> Job] /\ \A a \in Actors : Holds(a, job[a], auth)
  BY DEF Inv, TypeOK, JobOK
<1>2. UNCHANGED <<withheld, send>>
  BY DEF BridgeCompose, Expire, HourPasses, ServeCrash
<1>3. WithheldOK'
  BY <1>1, <1>2, SameTables
<1>4. DraftsOK'
  <2>1. CASE UNCHANGED draft
    BY <1>1, <2>1, SameTables
  <2>2. ASSUME NEW d \in Manuals, NEW b \in Bodies, BridgeCompose(d, b) PROVE DraftsOK'
    BY <1>1, <2>2, SetDraftOK DEF BridgeCompose, Drafts, States, Texts
  <2> QED BY <2>1, <2>2 DEF Expire, HourPasses, ServeCrash
<1>5. AuthsOK' /\ KeepsTokens(auth, auth')
  <2>1. CASE UNCHANGED auth
    BY <1>1, <2>1, SameTables
  <2>2. ASSUME NEW k \in Auths, Expire(k) \/ HourPasses(k)
        PROVE  AuthsOK' /\ KeepsTokens(auth, auth')
    <3>1. auth[k] \in Auth
      BY <1>1, <2>2 DEF TypeOK, Expire, HourPasses, RecentSends
    <3>2. PICK x \in {[auth[k] EXCEPT !.expired = TRUE], [auth[k] EXCEPT !.recent = FALSE]} :
            auth' = [auth EXCEPT ![k] = x]
      BY <2>2 DEF Expire, HourPasses
    <3>3. /\ x \in Auth /\ x.draft = auth[k].draft /\ x.body = auth[k].body
          /\ x.status = auth[k].status
      BY <3>1 DEF Auth
    <3>4. auth'[k] = x /\ \A l \in Auths : l # k => auth'[l] = auth[l]
      BY <1>1, <3>2 DEF TypeOK
    <3>5. AuthsOK'
      BY <1>1, <3>2, <3>3 DEF TypeOK, AuthsOK
    <3>6. KeepsTokens(auth, auth')
      BY <3>3, <3>4, NoneAssumption DEF KeepsTokens
    <3> QED BY <3>5, <3>6
  <2> QED BY <2>1, <2>2 DEF BridgeCompose, ServeCrash
<1>6. job' \in [Actors -> Job] /\ \A a \in Actors : job'[a] = job[a] \/ job'[a] = Idle
  BY <1>1, IdleJob DEF BridgeCompose, Expire, HourPasses, ServeCrash
<1>7. \A a \in Actors : Holds(a, job[a], auth') /\ Calm(job[a], job[a])
  BY <1>1, <1>5 DEF Holds, KeepsTokens, Calm
<1> QED BY <1>2, <1>3, <1>4, <1>5, <1>6, <1>7, IdleJob, QuietStep

LEMMA NextInv ==
  ASSUME Inv, [Next]_vars
  PROVE  Inv'
<1>1. CASE UNCHANGED vars
  BY <1>1 DEF vars, Inv, TypeOK, JobOK, Holds, SendOK, Apart, TokenOK, SpentOK, Binds, MailOK,
              TokenSpentOnce, Attempts, Taken
<1>2. ASSUME NEW t \in Tabs, TabNext(t) PROVE Inv'
  BY <1>2, TabQuietStep, ApproveTabStep DEF TabNext, TabQuiet
<1>3. ASSUME NEW g \in Pages, PageNext(g) PROVE Inv'
  BY <1>3, PageQuietStep, ApproveManualStep DEF PageNext, PageQuiet
<1>4. ASSUME NEW p \in Procs, ProcNext(p) PROVE Inv'
  BY <1>4, ProcQuietStep, BridgeApproveStep, BridgeConsumeStep DEF ProcNext, ProcQuiet
<1>5. CASE CutOff
  BY <1>5, TabQuietStep, ProcQuietStep, OutsideStep DEF CutOff, TabQuiet, ProcQuiet
<1>6. CASE Work
  BY <1>2, <1>3, <1>4, <1>6, TriageStep, TransportStep, OutsideStep DEF Work
<1> QED BY <1>1, <1>5, <1>6 DEF Next

\* Every state of the system satisfies the invariant.
THEOREM Invariance == Spec => []Inv
  BY InitInv, NextInv, PTL DEF Spec

\* Type correctness, for any number of drafts, pages and processes.
THEOREM TypeCorrect == Spec => []TypeOK
  BY Invariance, PTL DEF Inv

\* A one-time token pays for at most one attempt (README, bridge commands).
THEOREM TokensAreOneTime == Spec => []TokenSpentOnce
  BY Invariance, PTL DEF Inv
=============================================================================
