----------------------------- MODULE DraftSend ------------------------------
(***************************************************************************)
(* The life of a draft from proposal to SMTP, with every actor that can    *)
(* write a row of the drafts table or put mail on the wire:                *)
(*                                                                         *)
(*  - Tabs:  detail pages of the approval UI (ui/pages/detail.py), whose   *)
(*           Approve handler awaits the SMTP work in a thread;             *)
(*  - Pages: Compose pages (ui/pages/compose.py) on manual drafts;         *)
(*  - Procs: agent-bridge processes (bridge_cli.py), one CLI call at a     *)
(*           time, talking to the same SQLite file with no lock between    *)
(*           two statements;                                               *)
(*  - the triage agent and the human's screening verdicts (db/store.py).   *)
(*                                                                         *)
(* A job is what one actor is doing: where its code is (pc) and the values *)
(* it read earlier and will still use.  One step is one SQL statement, one *)
(* SMTP answer, or a whole UI handler up to its await: inside the server   *)
(* process a handler is atomic, between processes nothing is.  Reads that  *)
(* one call makes in a row, with no write between, are one step.           *)
(***************************************************************************)
EXTENDS Naturals, FiniteSets

CONSTANTS
  Replies,    \* drafts answering an inbound message (message_id set)
  Manuals,    \* ids for manual drafts (message_id NULL)
  Bodies,     \* nonempty texts
  Clean,      \* the texts that pass the output guardrails
  Blank,      \* the empty text
  Tabs, Pages, Procs,
  Auths,      \* rows of send_authorizations (bounds the one-time tokens)
  Sends,      \* approved transmission attempts (bounds them)
  RateLimit,  \* openclaw.agent_send_per_hour
  Faults,     \* which of "crash", "db", "busy", "late" can happen
  None

ASSUME DraftSendAssumption ==
  /\ Clean \subseteq Bodies /\ Blank \notin Bodies
  /\ Replies \cap Manuals = {} /\ Auths \cap Sends = {}
  /\ Tabs \cap Pages = {} /\ Tabs \cap Procs = {} /\ Pages \cap Procs = {}
  /\ None \notin Replies \cup Manuals \cup Auths \cup Sends
  /\ RateLimit \in Nat \ {0}
  /\ Faults \subseteq {"crash", "db", "busy", "late"}

VARIABLES
  draft,      \* drafts: state and body; "GONE" is a row that does not exist
  withheld,   \* the source message is quarantined or screened out
  auth,       \* send_authorizations, or None
  send,       \* approved attempts with their sent_messages row, or None
  job         \* what each actor is doing

vars == <<draft, withheld, auth, send, job>>

Drafts == Replies \cup Manuals
Texts  == Bodies \cup {Blank}
Actors == Tabs \cup Pages \cup Procs

States   == {"GONE", "DRAFT", "PENDING", "BLOCKED", "DEFERRED_NO_LLM",
             "APPROVED", "SENT", "REJECTED"}
Editable == {"DRAFT", "PENDING", "BLOCKED", "DEFERRED_NO_LLM"}
Sendable == {"DRAFT", "PENDING"}
Transmitting == {"sending", "accepted", "failed", "delivered"}
PCs == {"idle", "open", "approved", "requested", "preparing", "revising",
        "loaded", "consumed", "cleared", "bounced"} \cup Transmitting

\* body_sha256 binds a token to the text; recent: used within the last hour.
Auth == [draft : Drafts, body : Bodies, status : {"staged", "used", "gone"},
         expired : BOOLEAN, recent : BOOLEAN]
\* row: outcome column of the sent_messages row, "none" if it was never opened.
\* body: the text approved; mail: the text handed to the relay.
\* wire: what the relay did; "lost" is accepted with the answer lost.
Send == [draft : Drafts, body : Bodies, auth : Auths \cup {None}, mail : Texts,
         row : {"none", "UNKNOWN", "SENT", "FAILED"}, wire : {"no", "accepted", "lost"}]
\* seen, gate: draft state and source_withheld as the page remembers them; on a
\* Compose page seen is "GONE" when it holds no draft id.
\* held (history): the source was withheld when the send was asked for and
\* has been ever since.
Job == [pc : PCs, draft : Drafts \cup {None}, seen : States, gate : BOOLEAN,
        body : Texts, held : BOOLEAN, auth : Auths \cup {None}, send : Sends \cup {None}]

\* None is no record.
ASSUME NoneAssumption ==
  None \notin Auth /\ None \notin Send /\ None \notin [draft : Drafts, text : Bodies]

Idle == [pc |-> "idle", draft |-> None, seen |-> "GONE", gate |-> FALSE,
         body |-> Blank, held |-> FALSE, auth |-> None, send |-> None]

Withheld(d) == d \in Replies /\ withheld[d]
Fault(f)    == f \in Faults
At(a, p)    == job[a].pc = p
Become(a, p) == job' = [job EXCEPT ![a].pc = p]

SetState_DropsBody(d, s) == draft' = [draft EXCEPT ![d] = [state |-> s, body |-> None]]

\* update_draft_state: unconditional, and a no-op on a row that is gone.
SetState(d, s) ==
  draft' = IF draft[d].state = "GONE" THEN draft ELSE [draft EXCEPT ![d].state = s]
SetDraft(d, s, b) == draft' = [draft EXCEPT ![d] = [state |-> s, body |-> b]]

\* The human's approval of text b of draft d, on record before the socket opens.
NewSend(d, b, k) ==
  [draft |-> d, body |-> b, auth |-> k, mail |-> Blank, row |-> "none", wire |-> "no"]

Init ==
  /\ draft = [d \in Drafts |->
       [state |-> IF d \in Replies THEN "DEFERRED_NO_LLM" ELSE "GONE", body |-> Blank]]
  /\ withheld = [r \in Replies |-> FALSE]
  /\ auth = [k \in Auths |-> None]
  /\ send = [s \in Sends |-> None]
  /\ job = [a \in Actors |-> Idle]

-----------------------------------------------------------------------------
(* The triage agent and the human's verdicts on the source message.        *)

\* upsert_message_draft: only a deferred row is overwritten.
AgentFill(r, b) ==
  /\ draft[r].state = "DEFERRED_NO_LLM"
  /\ SetDraft(r, IF b \in Clean THEN "PENDING" ELSE "BLOCKED", b)
  /\ UNCHANGED <<withheld, auth, send, job>>

RetireDeferred(r) ==
  /\ draft[r].state = "DEFERRED_NO_LLM"
  /\ SetState(r, "REJECTED")
  /\ UNCHANGED <<withheld, auth, send, job>>

\* record_screening_feedback with any label but CONTENT: one transaction.
ScreenByHuman(r) ==
  /\ withheld' = [withheld EXCEPT ![r] = TRUE]
  /\ IF draft[r].state \in {"PENDING", "BLOCKED", "DEFERRED_NO_LLM"}
     THEN SetState(r, "REJECTED") ELSE UNCHANGED draft
  /\ UNCHANGED <<auth, send, job>>

\* set_message_screening by the model, or quarantine: drafts are left alone.
ScreenByModel(r) ==
  /\ ~withheld[r]
  /\ withheld' = [withheld EXCEPT ![r] = TRUE]
  /\ UNCHANGED <<draft, auth, send, job>>

\* CONTENT feedback, or release from quarantine.
Release(r) ==
  /\ withheld[r]
  /\ withheld' = [withheld EXCEPT ![r] = FALSE]
  /\ job' = [a \in Actors |->
       IF job[a].draft = r THEN [job[a] EXCEPT !.held = FALSE] ELSE job[a]]
  /\ UNCHANGED <<draft, auth, send>>

-----------------------------------------------------------------------------
(* The approval UI.                                                       *)

OpenTab(t, r) ==
  /\ At(t, "idle")
  /\ job' = [job EXCEPT ![t] = [Idle EXCEPT
       !.pc = "open", !.draft = r, !.seen = draft[r].state, !.gate = withheld[r]]]
  /\ UNCHANGED <<draft, withheld, auth, send>>

\* A page is left with nothing under way.
ClosePage(a) ==
  /\ At(a, "open")
  /\ job' = [job EXCEPT ![a] = Idle]
  /\ UNCHANGED <<draft, withheld, auth, send>>

\* Save, or Approve, of a text the guardrails refuse: _guard_current still
\* stores the text, under the state the page remembers.
EditRefused(t, b) ==
  /\ At(t, "open") /\ job[t].seen \in Editable
  /\ b \notin Clean
  /\ SetDraft(job[t].draft, job[t].seen, b)
  /\ UNCHANGED <<withheld, auth, send, job>>

SaveTab(t, b) ==
  LET s == IF job[t].seen = "PENDING" THEN "PENDING" ELSE "DRAFT" IN
  /\ At(t, "open") /\ job[t].seen \in Editable
  /\ b \in Clean
  /\ SetDraft(job[t].draft, s, b)
  /\ job' = [job EXCEPT ![t].seen = s]
  /\ UNCHANGED <<withheld, auth, send>>

\* "Apply this version" in the AI drawer re-reads the row before writing it.
ApplyRevision(t, b) ==
  LET d == job[t].draft IN
  /\ At(t, "open") /\ b \in Clean
  /\ draft[d].state \in Editable
  /\ SetDraft(d, IF draft[d].state = "PENDING" THEN "PENDING" ELSE "DRAFT", b)
  /\ job' = [job EXCEPT ![t].seen = IF @ = "PENDING" THEN @ ELSE "DRAFT"]
  /\ UNCHANGED <<withheld, auth, send>>

\* The button stays live while a send is awaited, and on a page TabUnwritten
\* left behind: _sync_buttons has not run.
RejectTab(t) ==
  /\ ~At(t, "idle")
  /\ At(t, "open") =>
       job[t].seen \notin {"SENT", "REJECTED", "APPROVED"} \/ job[t].send # None
  /\ SetState(job[t].draft, "REJECTED")
  /\ job' = IF At(t, "open") THEN [job EXCEPT ![t] = Idle] ELSE job
  /\ UNCHANGED <<withheld, auth, send>>

\* What _approve_and_send does up to its await with text b of the box, if it
\* goes on to transmit text x.
Approval(t, b, x, s) ==
  LET d == job[t].draft IN
  /\ At(t, "open") /\ job[t].seen \in Sendable /\ ~job[t].gate
  /\ send[s] = None
  /\ SetDraft(d, "APPROVED", b)
  /\ send' = [send EXCEPT ![s] = NewSend(d, b, None)]
  /\ job' = [job EXCEPT ![t].pc = "approved", ![t].seen = "APPROVED", ![t].body = x,
                        ![t].held = withheld[d], ![t].send = s]
  /\ UNCHANGED <<withheld, auth>>

ApproveTab_NoGuard(t, b, s)   == Approval(t, b, b, s)
ApproveTab_StoredText(t, b, s) == b \in Clean /\ Approval(t, b, draft[job[t].draft].body, s)

\* Guard the text in the box, mark the row APPROVED with it, and send it.
ApproveTab(t, b, s) == b \in Clean /\ Approval(t, b, b, s)

ClearTab_RememberedGate(t) ==
  /\ At(t, "approved")
  /\ Become(t, "cleared")
  /\ UNCHANGED <<draft, withheld, auth, send>>

\* _do_send in the worker thread reads the gate again before it transmits.
ClearTab(t) ==
  /\ At(t, "approved")
  /\ ~withheld[job[t].draft]
  /\ Become(t, "cleared")
  /\ UNCHANGED <<draft, withheld, auth, send>>

\* The gate is shut, or there is no account, relay or secret: it raises.
RefuseTab(t) ==
  /\ At(t, "approved")
  /\ Become(t, "bounced")
  /\ UNCHANGED <<draft, withheld, auth, send>>

TabSent(t) ==
  /\ At(t, "delivered")
  /\ SetDraft(job[t].draft, "SENT", job[t].body)
  /\ job' = [job EXCEPT ![t] = Idle]
  /\ UNCHANGED <<withheld, auth, send>>

Retryable(t) ==
  /\ SetDraft(job[t].draft, "PENDING", job[t].body)
  /\ job' = [job EXCEPT ![t].pc = "open", ![t].seen = "PENDING", ![t].body = Blank,
                        ![t].held = FALSE, ![t].send = None]
  /\ UNCHANGED <<withheld, auth, send>>

\* Both the send and the write that should make the draft retryable fail.
TabUnwritten(t) ==
  /\ Fault("busy") /\ job[t].pc \in {"bounced", "delivered"}
  /\ job' = [job EXCEPT ![t].pc = "open", ![t].body = Blank, ![t].held = FALSE]
  /\ UNCHANGED <<draft, withheld, auth, send>>

TabRetry_NotForRefusals(t) == At(t, "delivered") /\ Fault("late") /\ Retryable(t)
TabRetry_PageOnly(t) ==
  /\ \/ At(t, "bounced")
     \/ At(t, "delivered") /\ Fault("late")
  /\ job' = [job EXCEPT ![t].pc = "open", ![t].seen = "PENDING", ![t].body = Blank,
                        ![t].held = FALSE, ![t].send = None]
  /\ UNCHANGED <<draft, withheld, auth, send>>

\* The except clause: back to PENDING.  It also catches what is raised after
\* the mail left (a locked database, a page torn down): "late".
TabRetry(t) ==
  /\ \/ At(t, "bounced")
     \/ At(t, "delivered") /\ Fault("late")
  /\ Retryable(t)

-----------------------------------------------------------------------------
(* Compose: manual drafts.                                                *)

OpenPage(g, d) ==
  /\ At(g, "idle")
  /\ d = None \/ d \in Manuals
  /\ d # None => draft[d].state \in {"DRAFT", "SENT"}
  /\ job' = [job EXCEPT ![g] = [Idle EXCEPT
       !.pc = "open", !.draft = d, !.seen = IF d = None THEN "GONE" ELSE "DRAFT"]]
  /\ UNCHANGED <<draft, withheld, auth, send>>

\* create_manual_draft on a page without an id, else update_manual_draft,
\* whose WHERE state='DRAFT' may match nothing: the caller does not look.
Persist(g, d, b) ==
  IF job[g].seen = "GONE"
  THEN draft[d].state = "GONE" /\ SetDraft(d, "DRAFT", b)
  ELSE /\ d = job[g].draft
       /\ IF draft[d].state = "DRAFT" THEN SetDraft(d, "DRAFT", b) ELSE UNCHANGED draft

\* The button is live while a send is awaited: the row then takes a new text.
SaveManual(g, d, b) ==
  /\ At(g, "open") \/ (~At(g, "idle") /\ job[g].seen = "DRAFT")
  /\ Persist(g, d, b)
  /\ job' = [job EXCEPT ![g].draft = d, ![g].seen = "DRAFT"]
  /\ UNCHANGED <<withheld, auth, send>>

SendManual(g, d, b) ==
  /\ At(g, "open") /\ b # Blank
  /\ Persist(g, d, b)
  /\ job' = [job EXCEPT ![g].pc = "requested", ![g].draft = d, ![g].seen = "DRAFT",
                        ![g].body = b]
  /\ UNCHANGED <<withheld, auth, send>>

\* The approval row of the audit log is written first; failing that, no send.
ApproveManual(g, s) ==
  /\ At(g, "requested")
  /\ send[s] = None
  /\ send' = [send EXCEPT ![s] = NewSend(job[g].draft, job[g].body, None)]
  /\ job' = [job EXCEPT ![g].pc = "cleared", ![g].send = s]
  /\ UNCHANGED <<draft, withheld, auth>>

RefuseManual(g) ==
  /\ At(g, "requested")
  /\ Become(g, "bounced")
  /\ UNCHANGED <<draft, withheld, auth, send>>

\* mark_manual_draft_sent, then a fresh page.  If the id was deleted from this
\* page meanwhile the call raises instead and marks nothing.
ManualSent(g) ==
  LET d == job[g].draft IN
  /\ At(g, "delivered")
  /\ IF job[g].seen # "GONE" /\ draft[d].state = "DRAFT"
     THEN SetState(d, "SENT") ELSE UNCHANGED draft
  /\ job' = [job EXCEPT ![g] = [Idle EXCEPT !.pc = "open"]]
  /\ UNCHANGED <<withheld, auth, send>>

Unbusy(g) ==
  LET j == job[g] IN
  /\ job' = [job EXCEPT ![g] = [Idle EXCEPT !.pc = "open", !.seen = j.seen,
       !.draft = IF j.seen = "GONE" THEN None ELSE j.draft]]
  /\ UNCHANGED <<draft, withheld, auth, send>>

ManualFailed(g) == At(g, "bounced") /\ Unbusy(g)

\* The saved-drafts list deletes a row, also under a send; its tokens go with
\* it (ON DELETE CASCADE).
DeleteManual(g, d) ==
  LET j == job[g]
      mine == j.seen = "DRAFT" /\ j.draft = d IN
  /\ ~At(g, "idle") /\ d \in Manuals /\ draft[d].state = "DRAFT"
  /\ SetDraft(d, "GONE", Blank)
  /\ auth' = [k \in Auths |->
       IF auth[k] # None /\ auth[k].draft = d THEN [auth[k] EXCEPT !.status = "gone"]
       ELSE auth[k]]
  /\ job' = IF mine THEN [job EXCEPT ![g].seen = "GONE",
                            ![g].draft = IF j.pc = "open" THEN None ELSE d]
            ELSE job
  /\ UNCHANGED <<withheld, send>>

-----------------------------------------------------------------------------
(* The agent bridge: one process is one call of its CLI.                   *)

\* compose_draft: guarded text, saved for a human to send.
BridgeCompose(d, b) ==
  /\ draft[d].state = "GONE" /\ b \in Clean
  /\ SetDraft(d, "DRAFT", b)
  /\ UNCHANGED <<withheld, auth, send, job>>

\* Where prepare_send and send both start.
Loadable(p, d) ==
  /\ At(p, "idle")
  /\ draft[d].state \in Sendable /\ ~Withheld(d)

Load(p, d, pc, k) ==
  job' = [job EXCEPT ![p] = [Idle EXCEPT !.pc = pc, !.draft = d,
            !.body = draft[d].body, !.held = Withheld(d), !.auth = k]]

PrepareRead(p, d) ==
  /\ Loadable(p, d)
  /\ draft[d].body \in Clean
  /\ Load(p, d, "preparing", None)
  /\ UNCHANGED <<draft, withheld, auth, send>>

\* create_send_authorization; its foreign key needs the draft to be there.
PrepareIssue(p, k) ==
  LET d == job[p].draft IN
  /\ At(p, "preparing")
  /\ auth[k] = None /\ draft[d].state # "GONE"
  /\ auth' = [auth EXCEPT ![k] = [draft |-> d, body |-> job[p].body, status |-> "staged",
                                  expired |-> FALSE, recent |-> FALSE]]
  /\ job' = [job EXCEPT ![p] = Idle]
  /\ UNCHANGED <<draft, withheld, send>>

\* send, up to the token: agent_sends_last_hour is read here.
RecentSends == {k \in Auths : auth[k] # None /\ auth[k].status = "used" /\ auth[k].recent}

LoadUnder(p, d, k, limit) ==
  /\ Loadable(p, d)
  /\ auth[k] # None
  /\ Cardinality(RecentSends) < limit
  /\ Load(p, d, "loaded", k)
  /\ UNCHANGED <<draft, withheld, auth, send>>

BridgeLoad(p, d, k) == LoadUnder(p, d, k, RateLimit)

\* The WHERE clause of consume_send_authorization.
Binds(k, j) == auth[k].draft = j.draft /\ auth[k].body = j.body

Consume(p) ==
  /\ ~auth[job[p].auth].expired
  /\ auth' = [auth EXCEPT ![job[p].auth].status = "used", ![job[p].auth].recent = TRUE]
  /\ Become(p, "consumed")
  /\ UNCHANGED <<draft, withheld, send>>

BridgeConsume_Reusable(p) ==
  /\ At(p, "loaded") /\ auth[job[p].auth].status # "gone"
  /\ Binds(job[p].auth, job[p])
  /\ Consume(p)

\* Validated and spent in one UPDATE.
BridgeConsume(p) ==
  /\ At(p, "loaded") /\ auth[job[p].auth].status = "staged"
  /\ Binds(job[p].auth, job[p])
  /\ Consume(p)

\* Guardrails again on what will be sent, then APPROVED and the audit row.
BridgeApprove(p, s) ==
  /\ At(p, "consumed") /\ job[p].body \in Clean
  /\ send[s] = None
  /\ SetState(job[p].draft, "APPROVED")
  /\ send' = [send EXCEPT ![s] = NewSend(job[p].draft, job[p].body, job[p].auth)]
  /\ job' = [job EXCEPT ![p].pc = "cleared", ![p].send = s]
  /\ UNCHANGED <<withheld, auth>>

\* The audit row cannot be written: audit.record raises outside the try.
BridgeStrand(p) ==
  /\ Fault("busy") /\ At(p, "consumed") /\ job[p].body \in Clean
  /\ SetState(job[p].draft, "APPROVED")
  /\ job' = [job EXCEPT ![p] = Idle]
  /\ UNCHANGED <<withheld, auth, send>>

BridgeSent(p) ==
  /\ At(p, "delivered")
  /\ SetState(job[p].draft, "SENT")
  /\ job' = [job EXCEPT ![p] = Idle]
  /\ UNCHANGED <<withheld, auth, send>>

BridgeRetry(p) ==
  /\ At(p, "bounced")
  /\ SetState(job[p].draft, "PENDING")
  /\ job' = [job EXCEPT ![p] = Idle]
  /\ UNCHANGED <<withheld, auth, send>>

\* The write of SENT, or of PENDING in the except clause, fails.
BridgeUnwritten(p) ==
  /\ Fault("busy") /\ job[p].pc \in {"delivered", "bounced"}
  /\ job' = [job EXCEPT ![p] = Idle]
  /\ UNCHANGED <<draft, withheld, auth, send>>

StartRevision(p, r) ==
  /\ At(p, "idle") /\ ~withheld[r]
  /\ job' = [job EXCEPT ![p] = [Idle EXCEPT !.pc = "revising", !.draft = r]]
  /\ UNCHANGED <<draft, withheld, auth, send>>

\* revise_draft: the state is checked, the model is awaited, the row is written.
ReviseRead(p, r) == draft[r].state \in Editable /\ StartRevision(p, r)

ReviseWrite(p, b) ==
  /\ At(p, "revising")
  /\ SetDraft(job[p].draft, IF b \in Clean THEN "PENDING" ELSE "BLOCKED", b)
  /\ job' = [job EXCEPT ![p] = Idle]
  /\ UNCHANGED <<withheld, auth, send>>

\* A BridgeInputError (no model, token refused, guardrails, no relay or secret)
\* or a statement that fails before the draft is APPROVED.
\* A token that was consumed stays consumed.
GiveUp(p) ==
  /\ job[p].pc \in {"preparing", "revising", "loaded", "consumed"}
  /\ job' = [job EXCEPT ![p] = Idle]
  /\ UNCHANGED <<draft, withheld, auth, send>>

\* expires_at is past.
Expire(k) ==
  /\ auth[k] # None /\ auth[k].status = "staged" /\ ~auth[k].expired
  /\ auth' = [auth EXCEPT ![k].expired = TRUE]
  /\ UNCHANGED <<draft, withheld, send, job>>

\* used_at is more than an hour ago.
HourPasses(k) ==
  /\ k \in RecentSends
  /\ auth' = [auth EXCEPT ![k].recent = FALSE]
  /\ UNCHANGED <<draft, withheld, send, job>>

-----------------------------------------------------------------------------
(* transmit_and_record, the one way to the relay.                          *)

\* The row refers to the draft and the token: either one gone fails the insert.
CanOpen(s) ==
  /\ draft[send[s].draft].state # "GONE"
  /\ send[s].auth # None => auth[send[s].auth].status # "gone"

OpenRecord_Afterwards(a) ==
  /\ At(a, "cleared")
  /\ Become(a, "sending")
  /\ UNCHANGED <<draft, withheld, auth, send>>

\* begin_send_record; "could not open outbox record; sending anyway".
OpenRecord(a) ==
  LET s == job[a].send IN
  /\ At(a, "cleared")
  /\ \E row \in {"none", "UNKNOWN"} :
       /\ row = "UNKNOWN" => CanOpen(s)
       /\ row = "none" => ~CanOpen(s) \/ Fault("db")
       /\ send' = [send EXCEPT ![s].row = row]
  /\ Become(a, "sending")
  /\ UNCHANGED <<draft, withheld, auth>>

Wire(a, w, p) ==
  /\ At(a, "sending")
  /\ send' = [send EXCEPT ![job[a].send].wire = w, ![job[a].send].mail = job[a].body]
  /\ Become(a, p)
  /\ UNCHANGED <<draft, withheld, auth>>

SmtpAccept(a) == Wire(a, "accepted", "accepted")
\* The relay took the mail and its answer, or its goodbye, never came back.
SmtpLose(a)   == Wire(a, "lost", "failed")
SmtpRefuse(a) == Wire(a, "no", "failed")

\* Writing the outcome, which fails silently (with a database fault, or with
\* no row to write to), and going on at p or, if it failed, at q.
Stamp(a, outcome, p, q) ==
  LET s == job[a].send
      failed == send[s].row = "none" IN
  /\ \/ /\ ~failed
        /\ send' = [send EXCEPT ![s].row = outcome]
        /\ Become(a, p)
     \/ /\ failed \/ Fault("db")
        /\ Become(a, q)
        /\ UNCHANGED send
  /\ UNCHANGED <<draft, withheld, auth>>

StampRecord_NoReraise(a) ==
  \/ At(a, "accepted") /\ Stamp(a, "SENT", "delivered", "delivered")
  \/ At(a, "failed") /\ Stamp(a, "FAILED", "delivered", "delivered")
StampRecord_Finally(a) ==
  \/ At(a, "accepted") /\ Stamp(a, "SENT", "delivered", "delivered")
  \/ At(a, "failed") /\ Stamp(a, "SENT", "bounced", "bounced")

\* finish_send_record; what SMTP raised is raised again.
StampRecord(a) ==
  \/ At(a, "accepted") /\ Stamp(a, "SENT", "delivered", "delivered")
  \/ At(a, "failed") /\ Stamp(a, "FAILED", "bounced", "bounced")

-----------------------------------------------------------------------------
(* Crashes: what was in memory is gone, the rows stay.                     *)

ServeCrash ==
  /\ Fault("crash")
  /\ \E a \in Tabs \cup Pages : job[a].pc \notin {"idle", "open"}
  /\ job' = [a \in Actors |-> IF a \in Procs THEN job[a] ELSE Idle]
  /\ UNCHANGED <<draft, withheld, auth, send>>

ProcCrash(p) ==
  /\ Fault("crash")
  /\ job[p].pc \in {"cleared", "bounced"} \cup Transmitting
  /\ job' = [job EXCEPT ![p] = Idle]
  /\ UNCHANGED <<draft, withheld, auth, send>>

-----------------------------------------------------------------------------
TriageNext ==
  \E r \in Replies :
    \/ \E b \in Bodies : AgentFill(r, b)
    \/ RetireDeferred(r) \/ ScreenByHuman(r) \/ ScreenByModel(r) \/ Release(r)

TabNext(t) ==
  \/ \E r \in Replies : OpenTab(t, r)
  \/ \E b \in Bodies : EditRefused(t, b) \/ SaveTab(t, b) \/ ApplyRevision(t, b)
  \/ \E b \in Bodies, s \in Sends : ApproveTab(t, b, s)
  \/ ClosePage(t) \/ RejectTab(t) \/ ClearTab(t) \/ RefuseTab(t) \/ TabSent(t) \/ TabRetry(t)

PageNext(g) ==
  \/ \E d \in Manuals \cup {None} : OpenPage(g, d)
  \/ \E d \in Manuals, b \in Texts : SaveManual(g, d, b) \/ SendManual(g, d, b)
  \/ \E s \in Sends : ApproveManual(g, s)
  \/ \E d \in Manuals : DeleteManual(g, d)
  \/ ClosePage(g) \/ RefuseManual(g) \/ ManualSent(g) \/ ManualFailed(g)

ProcNext(p) ==
  \/ \E d \in Drafts : PrepareRead(p, d)
  \/ \E d \in Drafts, k \in Auths : BridgeLoad(p, d, k)
  \/ \E k \in Auths : PrepareIssue(p, k)
  \/ \E s \in Sends : BridgeApprove(p, s)
  \/ \E r \in Replies : ReviseRead(p, r)
  \/ \E b \in Bodies : ReviseWrite(p, b)
  \/ BridgeConsume(p) \/ BridgeSent(p) \/ BridgeRetry(p) \/ GiveUp(p)

Transport(a) ==
  OpenRecord(a) \/ SmtpAccept(a) \/ SmtpLose(a) \/ SmtpRefuse(a) \/ StampRecord(a)

Work ==
  \/ TriageNext
  \/ \E d \in Manuals, b \in Bodies : BridgeCompose(d, b)
  \/ \E t \in Tabs : TabNext(t)
  \/ \E g \in Pages : PageNext(g)
  \/ \E p \in Procs : ProcNext(p)
  \/ \E a \in Actors : Transport(a)
  \/ \E k \in Auths : Expire(k) \/ HourPasses(k)

\* A send is left where it is: its process ended, or what should follow failed.
CutOff ==
  \/ ServeCrash
  \/ \E t \in Tabs : TabUnwritten(t)
  \/ \E p \in Procs : ProcCrash(p) \/ BridgeStrand(p) \/ BridgeUnwritten(p)

Next == Work \/ CutOff

Spec == Init /\ [][Next]_vars

\* What runs on by itself once started: the worker thread, whose socket calls
\* time out, the handler that awaits it, and a running CLI process.
Onward(a) ==
  \/ Transport(a)
  \/ a \in Tabs /\ (ClearTab(a) \/ RefuseTab(a) \/ TabSent(a) \/ TabRetry(a))
  \/ a \in Pages /\ (\/ \E s \in Sends : ApproveManual(a, s)
                     \/ RefuseManual(a) \/ ManualSent(a) \/ ManualFailed(a))
  \/ a \in Procs /\ (\/ \E s \in Sends : BridgeApprove(a, s)
                     \/ BridgeSent(a) \/ BridgeRetry(a) \/ GiveUp(a))

Fairness == \A a \in Actors : WF_vars(Onward(a))

FairSpec == Spec /\ Fairness

-----------------------------------------------------------------------------
TypeOK ==
  /\ draft \in [Drafts -> [state : States, body : Texts]]
  /\ withheld \in [Replies -> BOOLEAN]
  /\ auth \in [Auths -> Auth \cup {None}]
  /\ send \in [Sends -> Send \cup {None}]
  /\ job \in [Actors -> Job]

Attempts == {s \in Sends : send[s] # None}
Taken(s) == send[s].wire # "no"
Used     == {k \in Auths : auth[k] # None /\ auth[k].status # "staged"}

\* The two promises of SendLedger: what was approved under which key, and what
\* the relay took.  The token is the key of a bridge send; a click in the UI
\* makes its own.
KeyOf(s) == IF send[s].auth = None THEN s ELSE send[s].auth

ApprovedAs == [k \in Auths \cup Sends |->
  IF k \in Auths
  THEN IF auth[k] = None THEN None ELSE [draft |-> auth[k].draft, text |-> auth[k].body]
  ELSE IF send[k] = None \/ send[k].auth # None THEN None
       ELSE [draft |-> send[k].draft, text |-> send[k].body]]

MailedAs ==
  {[id |-> s, key |-> KeyOf(s), draft |-> send[s].draft, text |-> send[s].mail] :
     s \in {x \in Attempts : Taken(x)}}

Ledger == INSTANCE SendLedger WITH
  Keys <- Auths \cup Sends, Transmissions <- Sends, Texts <- Bodies, Nothing <- None,
  approved <- ApprovedAs, mailed <- MailedAs

LedgerSpec == Ledger!Spec

\* A draft shown as SENT did go to the relay: no failure on the way there, and
\* none of the handlers that write states, leads to a SENT that never left.
SentDraftWasTransmitted ==
  \A d \in Drafts : draft[d].state = "SENT" =>
    \E s \in Attempts : send[s].draft = d /\ Taken(s)

\* The Outbox never says more than is known: a row says SENT only for a mail
\* the relay acknowledged, FAILED only for one it did not.
RowTellsTruth ==
  \A s \in Attempts :
    /\ send[s].row = "SENT" => send[s].wire = "accepted"
    /\ send[s].row = "FAILED" => send[s].wire # "accepted"

\* A message withheld when its reply was approved, and since, is not answered:
\* the gate a page remembers is stale by then, and must be read again.
NothingWithheldGoesOut ==
  \A a \in Actors : job[a].pc \in Transmitting => ~job[a].held

\* Text the guardrails refuse is never transmitted as a reply or by an agent,
\* although it can be stored in a draft that is sendable.
BlockedTextNeverLeaves ==
  \A s \in Attempts : Taken(s) /\ (send[s].draft \in Replies \/ send[s].auth # None)
    => send[s].mail \in Clean

\* A token buys one attempt, even with several processes holding it.
TokenSpentOnce ==
  \A s, z \in Attempts : send[s].auth # None /\ send[s].auth = send[z].auth => s = z

\* No mail is on the wire without its outbox row (begin_send_record).
EverySendRecorded ==
  \A s \in Attempts : Taken(s) => send[s].row # "none"

\* A sent reply is immutable: neither its text nor its state changes again.
SentIsFinal ==
  [][\A r \in Replies : draft[r].state = "SENT" => draft'[r] = draft[r]]_vars

\* A send that was started ends: the page or the process is free again.
SendsSettle ==
  \A a \in Actors :
    job[a].pc \in {"approved", "requested", "cleared", "bounced"} \cup Transmitting
      ~> job[a].pc \in {"idle", "open"}
=============================================================================
