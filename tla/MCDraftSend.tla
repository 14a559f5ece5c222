---------------------------- MODULE MCDraftSend -----------------------------
(***************************************************************************)
(* Small instances of DraftSend for TLC, with one history variable: the    *)
(* drafts left APPROVED by a send that was cut off.                        *)
(***************************************************************************)
EXTENDS DraftSend, TLC

VARIABLE stranded
hvars == <<vars, stranded>>

StillApproved(D) == {d \in D : draft'[d].state = "APPROVED"}

HInit == Init /\ stranded = {}
HNext ==
  \/ Work /\ stranded' = StillApproved(stranded)
  \/ /\ CutOff
     /\ LET left == {job[a].draft : a \in {x \in Actors : job'[x] # job[x]}} IN
        stranded' = StillApproved(stranded \cup (left \cap Drafts))

HSpec == HInit /\ [][HNext]_hvars /\ Fairness

\* APPROVED is a passing state: the page and the bridge process each see to it
\* that SENT or a retryable state follows, whatever the relay does and whoever
\* else writes the row.  It lasts only if the send itself was cut off (a crash,
\* or the database refusing the very write that should follow).
ApprovedIsTransient ==
  \A d \in Drafts : draft[d].state = "APPROVED" /\ d \notin stranded
    ~> draft[d].state # "APPROVED" \/ d \in stranded

Symmetry == Permutations(Auths) \cup Permutations(Sends) \cup Permutations(Tabs)
              \cup Permutations(Pages) \cup Permutations(Procs)
=============================================================================
