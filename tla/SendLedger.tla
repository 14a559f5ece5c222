----------------------------- MODULE SendLedger -----------------------------
(***************************************************************************)
(* What MailForge promises about outgoing mail, without saying how:        *)
(* nothing leaves unless a human approved exactly that text for exactly    *)
(* that draft, and one approval pays for at most one transmission          *)
(* (README "No auto-send, ever"; invariant 0.1 in ui/pages/detail.py).     *)
(*                                                                         *)
(* An approval is identified by a Key: the one-time send token of the      *)
(* agent bridge, or the approval record of an approval click in the UI.    *)
(***************************************************************************)
CONSTANTS
  Keys,           \* identities of approvals
  Transmissions,  \* identities of transmission attempts
  Drafts,         \* drafts that can be approved
  Texts,          \* texts a draft can have
  Nothing         \* "no approval under this key"

VARIABLES
  approved,       \* approved[k]: the draft and text approved under k, or Nothing
  mailed          \* the transmissions the relay accepted, each with its key

vars == <<approved, mailed>>

Approval == [draft : Drafts, text : Texts]
Mail     == [id : Transmissions, key : Keys, draft : Drafts, text : Texts]

Init ==
  /\ approved = [k \in Keys |-> Nothing]
  /\ mailed = {}

\* A human approves text x of draft d under a fresh key.
Approve(k, d, x) ==
  /\ approved[k] = Nothing
  /\ approved' = [approved EXCEPT ![k] = [draft |-> d, text |-> x]]
  /\ UNCHANGED mailed

\* The relay accepts a mail that spends the approval k, as it was approved.
Transmit(i, k) ==
  /\ approved[k] # Nothing
  /\ \A m \in mailed : m.id # i /\ m.key # k
  /\ mailed' = mailed \cup
       {[id |-> i, key |-> k, draft |-> approved[k].draft, text |-> approved[k].text]}
  /\ UNCHANGED approved

Next ==
  \/ \E k \in Keys, d \in Drafts, x \in Texts : Approve(k, d, x)
  \/ \E i \in Transmissions, k \in Keys : Transmit(i, k)

Spec == Init /\ [][Next]_vars
=============================================================================
