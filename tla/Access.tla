------------------------------- MODULE Access -------------------------------
(***************************************************************************)
(* The credentials of the mailboxes and what resets them: the bounded      *)
(* keyring calls (secrets.py), adding and removing a mailbox and changing  *)
(* its password (accounts.py), config.toml (config.py), and the            *)
(* RESET_LOGIN file (recovery.py).                                         *)
(*                                                                         *)
(* A keyring call runs on a thread of its own; its caller waits for it no  *)
(* longer than a timeout, and the call goes on without it.  The threads of *)
(* a process know of each other, those of two processes do not.            *)
(***************************************************************************)
EXTENDS Naturals, Sequences, FiniteSets, SequencesExt

CONSTANTS
  Mailboxes, Users, UserOf,  \* account labels and the username of each
  Clicks,                    \* mailbox forms open on the Settings page
  Commands,                  \* runs of the command line
  Paths,                     \* where RESET_LOGIN is looked for
  HandBound,                 \* bound: what people do
  AtOnce,                    \* bound: forms and commands at work at once
  FaultBound,                \* bound: stores, writes and deletions that fail
  None

Entries == ({"imap"} \X Mailboxes) \cup ({"smtp"} \X Users)
Jobs    == Clicks \cup Commands \cup {"startup"}
Actions == {"all", "unlock", "ui"}

ASSUME AccessAssumption ==
  /\ UserOf \in [Mailboxes -> Users]
  /\ {HandBound, AtOnce, FaultBound} \subseteq Nat /\ IsFiniteSet(Paths)
  /\ None \notin Jobs \cup Mailboxes \cup Actions

VARIABLES
  ring,      \* the credential store: password, 0 for none, and the call that wrote it
  calls,     \* keyring calls in flight
  acked,     \* history: newest set of an entry a process saw succeed
  config,    \* mailboxes listed in config.toml
  memory,    \* the service's settings.imap_accounts
  job,       \* what each form, command and the start of the service is at
  backed,    \* the credential store: "file", or "keyring" of the system
  serve,     \* how far the service has come
  login,     \* RESET_LOGIN at each path: its content, or None
  left,      \* paths this start has still to look at
  found,     \* what the files consumed in this start ask for
  reset,     \* history: files that asked to wipe and to rotate, and what was done
  began, hands, faults

ringVars  == <<ring, calls, acked, began>>
serveVars == <<serve, login, left, found, reset>>
vars == <<ringVars, config, memory, job, backed, serveVars, hands, faults>>

Proc(j) == IF j \in Commands THEN j ELSE "service"
Imap(m) == <<"imap", m>>
Smtp(m) == <<"smtp", UserOf[m]>>

\* An entry that is not there.
Nothing == [pw |-> 0, n |-> 0, by |-> None]

\* A step of a job: a keyring call, a look at an entry, or one of the others.
Step(d, e, pw) == [do |-> d, entry |-> e, pw |-> pw]
Set(e, pw)     == Step("set", e, pw)
Delete(e)      == Step("delete", e, 0)
Other(d)       == Step(d, None, 0)

\* prior: what the entries held, 0 for nothing.  call: the call it waits for.
\* clean (history): none of its own calls was given up or undone in vain, and
\* no other call touched its entries.
Idle == [op |-> "none", box |-> None, pw |-> 0, both |-> FALSE, todo |-> <<>>,
         prior |-> [imap |-> 0, smtp |-> 0], call |-> 0, view |-> {},
         loaded |-> {}, failed |-> FALSE, clean |-> TRUE]

Init ==
  /\ ring = [e \in Entries |-> Nothing] /\ calls = {}
  /\ acked = [p \in Commands \cup {"service"} |-> [e \in Entries |-> 0]]
  /\ config = {} /\ memory = {} /\ job = [j \in Jobs |-> Idle]
  /\ backed \in {"file", "keyring"} /\ serve = "down"
  /\ login = [p \in Paths |-> None] /\ left = {} /\ found = {}
  /\ reset = [wipe |-> 0, rotate |-> 0, wiped |-> 0, rotated |-> 0]
  /\ began = 0 /\ hands = 0 /\ faults = 0

Handed == hands < HandBound /\ hands' = hands + 1 /\ UNCHANGED faults
Fails  == faults < FaultBound /\ faults' = faults + 1 /\ UNCHANGED hands
Runs   == UNCHANGED <<hands, faults>>

Busy(j)    == job[j].op # "none"
Doing(j)   == Head(job[j].todo)
Ready(j)   == Busy(j) /\ job[j].todo # <<>> /\ job[j].call = 0
At(j, d)   == Ready(j) /\ Doing(j).do = d
Pop(r)     == [r EXCEPT !.todo = Tail(@), !.call = 0]
Popped(j)  == job' = [job EXCEPT ![j] = Pop(@)]
Working(j) == Busy(j) /\ job[j].box # None
Touches(j, e) == Working(j) /\ e \in {Imap(job[j].box), Smtp(job[j].box)}

\* settings.imap_accounts of the process.
Listed(j) == IF j \in Commands THEN config ELSE memory
Known(j)  == IF j \in Commands THEN job[j].loaded ELSE memory

Restore_Delete(e, prior) == Delete(e)

Restore(e, prior) == IF prior = 0 THEN Delete(e) ELSE Set(e, prior)

\* A step raises: an add or a change of password puts the entries back, each
\* as well as it can; a purge or a reset stops where it is.
Failing(r, clean) ==
  IF r.failed THEN [Pop(r) EXCEPT !.clean = FALSE]
  ELSE [r EXCEPT !.failed = TRUE, !.call = 0, !.clean = @ /\ clean,
          !.todo = IF r.op \in {"add", "passwd"}
                   THEN <<Restore(Imap(r.box), r.prior.imap),
                          Restore(Smtp(r.box), r.prior.smtp)>>
                   ELSE <<>>]

\* A failed add takes the mailbox off the service's list, a removal that was
\* not saved puts it back.
Undone(j) ==
  IF j \notin Clicks \/ job[j].failed THEN memory
  ELSE IF job[j].op = "add" THEN memory \ {job[j].box}
  ELSE IF job[j].op = "remove" /\ Doing(j).do = "save" THEN memory \cup {job[j].box}
  ELSE memory

Failed(j, clean) == job' = [job EXCEPT ![j] = Failing(@, clean)] /\ memory' = Undone(j)

(***************************************************************************)
(* _run_bounded: one call in flight per process, operation and entry.      *)
(***************************************************************************)
InFlight_Never(p, op, e) == FALSE

InFlight(p, op, e) == \E c \in calls : c.by = p /\ c.op = op /\ c.entry = e

Call(j) ==
  LET s == Doing(j)
  IN /\ Ready(j) /\ s.do \in {"set", "delete"}
     /\ IF InFlight(Proc(j), s.do, s.entry)
        THEN Failed(j, FALSE) /\ UNCHANGED <<calls, began>>
        ELSE /\ began' = began + 1
             /\ calls' = calls \cup {[n |-> began + 1, by |-> Proc(j), op |-> s.do,
                                      entry |-> s.entry, pw |-> s.pw]}
             /\ job' = [job EXCEPT ![j].call = began + 1] /\ UNCHANGED memory
     /\ Runs /\ UNCHANGED <<ring, acked, config, serveVars>>

GiveUp_Never(j) == FALSE /\ UNCHANGED vars

\* The caller has waited long enough.
GiveUp(j) ==
  /\ job[j].call # 0 /\ Failed(j, FALSE)
  /\ Runs /\ UNCHANGED <<ringVars, config, serveVars>>

Waits(j, c) == job[j].call = c.n

\* What the end of call c means to each job; delete_secret hides a KeyringError.
After(c, ok, hidden) ==
  [j \in Jobs |->
     IF ~Waits(j, c) THEN [job[j] EXCEPT !.clean = @ /\ ~Touches(j, c.entry)]
     ELSE IF ok THEN Pop(job[j])
     ELSE IF hidden THEN [Pop(job[j]) EXCEPT !.clean = FALSE]
     ELSE Failing(job[j], TRUE)]

\* The store answers at last, to a caller or to nobody.
Land(c) ==
  /\ calls' = calls \ {c} /\ job' = After(c, TRUE, FALSE)
  /\ ring' = [ring EXCEPT ![c.entry] =
                IF c.op = "set" THEN [pw |-> c.pw, n |-> c.n, by |-> c.by] ELSE Nothing]
  /\ acked' = IF c.op = "set" /\ (\E j \in Jobs : Waits(j, c))
              THEN [acked EXCEPT ![c.by][c.entry] = c.n] ELSE acked
  /\ Runs /\ UNCHANGED <<config, memory, began, serveVars>>

Refuse(c) ==
  /\ Fails /\ calls' = calls \ {c}
  /\ \E hidden \in BOOLEAN : (hidden => c.op = "delete") /\ job' = After(c, FALSE, hidden)
  /\ memory' = IF c.op = "set" /\ (\E j \in Jobs : Waits(j, c))
               THEN Undone(CHOOSE j \in Jobs : Waits(j, c)) ELSE memory
  /\ UNCHANGED <<ring, acked, began, config, serveVars>>

(***************************************************************************)
(* accounts.py.                                                            *)
(***************************************************************************)
Begin(j, op, m, both, todo) ==
  /\ j # "startup" /\ ~Busy(j) /\ Handed
  /\ Cardinality({k \in Clicks \cup Commands : Busy(k)}) < AtOnce
  /\ j \in Clicks => serve = "up"
  /\ job' = [job EXCEPT ![j] = [Idle EXCEPT !.op = op, !.box = m, !.pw = hands + 1,
                                  !.both = both, !.todo = todo, !.loaded = Listed(j)]]

BeginAdd(j, m) ==
  /\ \A k \in Listed(j) : k # m /\ UserOf[k] # UserOf[m]
  /\ Begin(j, "add", m, TRUE, <<Other("read")>>)
  /\ memory' = IF j \in Clicks THEN memory \cup {m} ELSE memory
  /\ UNCHANGED <<ringVars, config, serveVars>>

BeginPasswd(j, m, both) ==
  /\ j \in Commands /\ m \in Listed(j)
  /\ Begin(j, "passwd", m, both, <<Other("read")>>)
  /\ UNCHANGED <<ringVars, config, memory, serveVars>>

\* Only a command can be told to keep the secrets.
BeginRemove(j, m, purge) ==
  /\ m \in Listed(j) /\ (purge \/ j \in Commands)
  /\ Begin(j, "remove", m, FALSE,
           <<Other("load"), Other("save")>>
           \o IF purge THEN <<Delete(Imap(m)), Step("unused", Smtp(m), 0)>> ELSE <<>>)
  /\ memory' = IF j \in Clicks THEN memory \ {m} ELSE memory
  /\ UNCHANGED <<ringVars, config, serveVars>>

\* What get_secret finds: nothing too if the store does not answer in time.
Held(e)  == ring[e].pw
Found(e) == {0, Held(e)}

\* Both entries are read, and the writes follow from what was found.
ReadPrior(j) ==
  LET m == job[j].box
      saves == IF job[j].op = "add" THEN <<Other("load"), Other("save")>> ELSE <<>>
  IN /\ At(j, "read")
     /\ \E i \in Found(Imap(m)), s \in Found(Smtp(m)) :
          job' = [job EXCEPT
            ![j].prior = [imap |-> i, smtp |-> s],
            ![j].clean = i = Held(Imap(m)) /\ s = Held(Smtp(m)),
            ![j].todo = <<Set(Imap(m), job[j].pw)>>
                        \o (IF job[j].both \/ s = 0 THEN <<Set(Smtp(m), job[j].pw)>>
                            ELSE <<>>) \o saves]
     /\ Runs /\ UNCHANGED <<ringVars, config, memory, serveVars>>

\* The SMTP entry goes with the last mailbox that sends as this user.
Unused(j) ==
  /\ At(j, "unused")
  /\ job' = [job EXCEPT ![j].todo =
               IF \E m \in Known(j) \ {job[j].box} : Smtp(m) = Doing(j).entry THEN <<>>
               ELSE <<Delete(Doing(j).entry)>>]
  /\ Runs /\ UNCHANGED <<ringVars, config, memory, serveVars>>

\* config.toml is read again, and written with this one change.
Load(j) ==
  /\ At(j, "load")
  /\ job' = [job EXCEPT ![j] = [Pop(@) EXCEPT !.view = config]]
  /\ Runs /\ UNCHANGED <<ringVars, config, memory, serveVars>>

Save(j) ==
  /\ At(j, "save") /\ Popped(j)
  /\ config' = IF job[j].op = "add" THEN job[j].view \cup {job[j].box}
               ELSE job[j].view \ {job[j].box}
  /\ Runs /\ UNCHANGED <<ringVars, memory, serveVars>>

SaveFails(j) ==
  /\ At(j, "save") /\ Fails /\ Failed(j, TRUE)
  /\ UNCHANGED <<ringVars, config, serveVars>>

\* The Settings page saves all it holds in memory.
SaveSettings ==
  /\ serve = "up" /\ memory # config /\ Handed /\ config' = memory
  /\ UNCHANGED <<ringVars, memory, job, serveVars>>

\* A command that ends takes its threads with it.
End(j) ==
  /\ j # "startup" /\ Busy(j) /\ job[j].todo = <<>>
  /\ job' = [job EXCEPT ![j] = Idle]
  /\ calls' = IF j \in Commands THEN {c \in calls : c.by # j} ELSE calls
  /\ Runs /\ UNCHANGED <<ring, acked, began, config, memory, serveVars>>

(***************************************************************************)
(* recovery.py.                                                            *)
(***************************************************************************)
\* The SMTP entry of two listed mailboxes stays.
PurgeOf(m, boxes) ==
  <<Step("present", Imap(m), 0)>>
  \o IF \E k \in boxes \ {m} : Smtp(k) = Smtp(m) THEN <<>> ELSE <<Step("present", Smtp(m), 0)>>

ResetSteps(boxes) ==
  IF backed = "file" THEN <<Other("wipe")>>
  ELSE FlattenSeq([i \in 1..Len(SetToSeq(boxes)) |-> PurgeOf(SetToSeq(boxes)[i], boxes)])

\* unlock reset.
BeginReset(j) ==
  /\ j \in Commands /\ Begin(j, "reset", None, FALSE, ResetSteps(config))
  /\ UNCHANGED <<ringVars, config, memory, serveVars>>

\* An entry is deleted if a read finds it.
Present(j) ==
  /\ At(j, "present")
  /\ \E p \in Found(Doing(j).entry) :
       IF p = 0 THEN Popped(j)
       ELSE job' = [job EXCEPT ![j].todo[1] = Delete(Doing(j).entry)]
  /\ Runs /\ UNCHANGED <<ringVars, config, memory, serveVars>>

\* The file is renamed.
Wipe(j) ==
  /\ At(j, "wipe")
  /\ ring' = [e \in Entries |-> Nothing]
  /\ job' = [k \in Jobs |-> IF k = j THEN Pop(job[k]) ELSE [job[k] EXCEPT !.clean = FALSE]]
  /\ Runs /\ UNCHANGED <<calls, acked, began, config, memory, serveVars>>

\* It cannot be renamed.
WipeFails(j) ==
  /\ At(j, "wipe") /\ Fails /\ Failed(j, TRUE)
  /\ UNCHANGED <<ringVars, config, serveVars>>

Asks(a, what) == IF a \in {"all", what} THEN 1 ELSE 0

DropFile(p, a) ==
  /\ login[p] = None /\ Handed /\ login' = [login EXCEPT ![p] = a]
  /\ reset' = [reset EXCEPT !.wipe = @ + Asks(a, "unlock"), !.rotate = @ + Asks(a, "ui")]
  /\ UNCHANGED <<ringVars, config, memory, job, serve, left, found>>

StartServe ==
  /\ serve = "down" /\ serve' = "looking" /\ left' = Paths /\ found' = {}
  /\ memory' = config
  /\ Runs /\ UNCHANGED <<ringVars, config, job, login, reset>>

\* Every file is deleted before anything is reset, one whose content is not an
\* action too.
Consume(p) ==
  /\ serve = "looking" /\ p \in left /\ left' = left \ {p}
  /\ login' = [login EXCEPT ![p] = None]
  /\ found' = found \cup ({login[p]} \cap Actions)
  /\ Runs /\ UNCHANGED <<ringVars, config, memory, job, serve, reset>>

UnlinkFails_Acts(p) ==
  /\ serve = "looking" /\ p \in left /\ left' = left \ {p}
  /\ login[p] # None /\ Fails
  /\ found' = found \cup ({login[p]} \cap Actions)
  /\ UNCHANGED <<ringVars, config, memory, job, serve, login, reset>>

\* A file that cannot be deleted is not acted on.
UnlinkFails(p) ==
  /\ serve = "looking" /\ p \in left /\ left' = left \ {p}
  /\ login[p] # None /\ Fails
  /\ UNCHANGED <<ringVars, config, memory, job, serve, login, found, reset>>

\* What the files ask for together is done once: the store first.
Act ==
  /\ serve = "looking" /\ left = {}
  /\ IF found \cap {"all", "unlock"} = {}
     THEN serve' = "rotating" /\ UNCHANGED <<job, reset>>
     ELSE /\ serve' = "wiping" /\ reset' = [reset EXCEPT !.wiped = @ + 1]
          /\ job' = [job EXCEPT !["startup"] =
                       [Idle EXCEPT !.op = "reset", !.todo = ResetSteps(memory)]]
  /\ Runs /\ UNCHANGED <<ringVars, config, memory, login, left, found>>

\* A reset that raises skips the keys.
EndWipe ==
  /\ serve = "wiping" /\ job["startup"].todo = <<>>
  /\ serve' = IF job["startup"].failed THEN "up" ELSE "rotating"
  /\ job' = [job EXCEPT !["startup"] = Idle]
  /\ Runs /\ UNCHANGED <<ringVars, config, memory, login, left, found, reset>>

\* Launcher key and cookie secret.
Rotate ==
  /\ serve = "rotating" /\ serve' = "up"
  /\ reset' = IF found \cap {"all", "ui"} = {} THEN reset ELSE [reset EXCEPT !.rotated = @ + 1]
  /\ Runs /\ UNCHANGED <<ringVars, config, memory, job, login, left, found>>

\* The service is stopped, or dies; a command is interrupted.
Stop ==
  /\ serve # "down" /\ Handed /\ serve' = "down" /\ left' = {} /\ found' = {}
  /\ job' = [j \in Jobs |-> IF j \in Commands THEN job[j] ELSE Idle]
  /\ calls' = {c \in calls : c.by # "service"}
  /\ UNCHANGED <<ring, acked, began, config, memory, login, reset>>

Interrupt(j) ==
  /\ j \in Commands /\ Busy(j) /\ Handed /\ job' = [job EXCEPT ![j] = Idle]
  /\ calls' = {c \in calls : c.by # j}
  /\ UNCHANGED <<ring, acked, began, config, memory, serveVars>>

\* The steps of a job that need nothing of the store, and of the service.
Proceeds(j) ==
  \/ Call(j) \/ GiveUp(j) \/ ReadPrior(j) \/ Unused(j) \/ Load(j) \/ Save(j)
  \/ Present(j) \/ Wipe(j) \/ End(j)

Starts == Act \/ EndWipe \/ Rotate \/ \E p \in Paths : Consume(p)

Asked(j) ==
  \/ \E m \in Mailboxes : \/ BeginAdd(j, m)
                          \/ \E purge \in BOOLEAN : BeginRemove(j, m, purge)
                          \/ \E both \in BOOLEAN : BeginPasswd(j, m, both)
  \/ BeginReset(j) \/ Interrupt(j)

Next ==
  /\ \/ \E j \in Jobs : Proceeds(j) \/ Asked(j) \/ SaveFails(j) \/ WipeFails(j)
     \/ \E c \in calls : Land(c) \/ Refuse(c)
     \/ \E p \in Paths : UnlinkFails(p) \/ \E a \in Actions \cup {"typo"} : DropFile(p, a)
     \/ SaveSettings \/ StartServe \/ Starts \/ Stop
  /\ UNCHANGED backed

\* Threads run; the credential store need never answer, and a person need
\* never do anything.
Fairness ==
  /\ \A j \in Jobs : WF_vars(Proceeds(j) /\ UNCHANGED backed)
  /\ WF_vars(Starts /\ UNCHANGED backed)

Spec == Init /\ [][Next]_vars /\ Fairness
-----------------------------------------------------------------------------
\* A password whose saving one process reported is not overwritten later by an
\* older saving of that process whose caller had given up (_run_bounded refuses
\* a second write of an entry while one is in flight).
OlderSaveNeverWins ==
  \A e \in Entries : Held(e) # 0 => ring[e].n >= acked[ring[e].by][e]

\* A mailbox that could not be added, or a password that could not be changed,
\* leaves both entries as they were found, when every call was answered and
\* nobody else wrote them (add_account: "keyring + config.toml + DB row, or
\* nothing at all").
AllOrNothing ==
  \A j \in Jobs :
    Working(j) /\ job[j].op \in {"add", "passwd"} /\ job[j].failed /\ job[j].clean
      /\ job[j].todo = <<>>
    => /\ Held(Imap(job[j].box)) = job[j].prior.imap
       /\ Held(Smtp(job[j].box)) = job[j].prior.smtp

\* Passwords are wiped and keys rotated no more often than files asked for it,
\* whatever was stopped or could not be deleted in between
\* (consume_reset_sentinel: "so a crash half way can never replay it").
ResetOnce == reset.wiped <= reset.wipe /\ reset.rotated <= reset.rotate

\* With a credential store that never answers again every form and command
\* still comes to an end and the service still starts (secrets.py: callers
\* "fail, back off and retry instead of wedging for good").
CallersNeverWedge ==
  /\ \A j \in Jobs : Busy(j) ~> ~Busy(j)
  /\ serve = "looking" ~> serve \in {"up", "down"}
=============================================================================
