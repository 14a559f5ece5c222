----------------------------- MODULE Screening ------------------------------
(***************************************************************************)
(* The deterministic screening of inbound mail                             *)
(* (security/inbound_screening.py): what assess_inbound answers for one    *)
(* message, from the cues its regular expressions and header checks find   *)
(* and from what humans taught the site.  A message is the set of its      *)
(* cues; the texts behind them are left out.                               *)
(***************************************************************************)
EXTENDS Naturals

Statuses   == {"UNSCREENED", "CONTENT", "POTENTIAL_SPAM", "POTENTIAL_ISSUE",
               "SPAM", "FILED"}
AiReadable == {"UNSCREENED", "CONTENT"}
Labels     == {"CONTENT", "POTENTIAL_SPAM", "POTENTIAL_ISSUE", "SPAM"}
\* screening_source: the screener's four, the human's and the model's.
AutoSources == {"AUTO_POLICY", "AUTO_RULE", "LEARNED", "RULE"}
Sources     == AutoSources \cup {"USER", "LLM"}
Modes       == {"standard", "content_only"}
Taught      == {"none", "CONTENT", "SPAM"}

(***************************************************************************)
(* own_domain     the From: domain is one of ours                          *)
(* own_signed     ... with a provider-verified DKIM signature of ours      *)
(* dmarc_fail     a DMARC verdict "fail"                                   *)
(* unauthentic    provider verdicts contradict the claimed sender          *)
(* no_sender      there is no From: address                                *)
(***************************************************************************)
HeaderCues == {"own_domain", "own_signed", "dmarc_fail", "unauthentic", "no_sender"}

(***************************************************************************)
(* brand          the display name claims a brand of another domain        *)
(* role           ... and that brand is a role name, with no domains       *)
(* lookalike      the domain is one edit away from a brand's               *)
(* lure, claim    lure subject; account, payment or legal claim in it      *)
(* freemail       a freemail domain                                        *)
(***************************************************************************)
PhishingCues == {"brand", "role", "lookalike", "lure", "claim", "freemail"}

\* An enabled category rule of the site matches; it exempts this notice, and
\* its exempt_status is POTENTIAL_SPAM.
RuleCues == {"rule", "exempt", "exempt_spam"}

(***************************************************************************)
(* cold, classroom, fake_reply: the subject sells, or baits an opening     *)
(* own_url, reply_elsewhere: it opens with our address; Reply-To differs   *)
(***************************************************************************)
SalesCues == {"cold", "own_url", "classroom", "fake_reply", "reply_elsewhere"}

\* What subject and body say to a content_only site.
TopicCues == {"issue_body", "unsolicited", "topical"}

Cues == HeaderCues \cup PhishingCues \cup RuleCues \cup SalesCues \cup TopicCues

SpamScore         == 4
StandardSpamScore == 6
PotentialScore    == 2

AiMayRead(s) == s \in AiReadable

Verdict(s, src) == [status |-> s, source |-> src, filed |-> FALSE]

ImpersonatesOwnDomain(c) == "own_domain" \in c /\ "own_signed" \notin c

\* Brand impersonation with evidence besides the display name; for a role
\* name an account claim alone is not evidence.
Corroborated(c) ==
  \/ /\ "brand" \in c
     /\ \/ c \cap {"lure", "lookalike", "freemail", "dmarc_fail"} # {}
        \/ "claim" \in c /\ "role" \notin c
  \/ /\ "brand" \notin c /\ "lookalike" \in c
     /\ c \cap {"lure", "claim"} # {}

RuleMatches(c) == "rule" \in c /\ "unauthentic" \notin c

Points(c, cue, n) == IF cue \in c THEN n ELSE 0

\* Sales and template cues; the last two corroborate, and count only then.
SpamPoints(c, domainTaught) ==
  LET evidence == Points(c, "cold", 4) + Points(c, "own_url", 4)
                  + Points(c, "fake_reply", 3) + Points(c, "classroom", 4)
                  + (IF domainTaught /\ "freemail" \notin c THEN 4 ELSE 0)
  IN IF evidence = 0 THEN 0
     ELSE evidence + Points(c, "freemail", 1) + Points(c, "reply_elsewhere", 1)

ExemptStatus(c) == IF "exempt_spam" \in c THEN "POTENTIAL_SPAM" ELSE "POTENTIAL_ISSUE"

CategoryResult_NoDefault(c, taught) ==
  [Verdict(IF "exempt" \in c THEN ExemptStatus(c) ELSE taught, "RULE") EXCEPT !.filed = TRUE]

CategoryResult(c, taught) ==
  [Verdict(IF "exempt" \in c THEN ExemptStatus(c)
           ELSE IF taught = "none" THEN "FILED" ELSE taught,
           IF "exempt" \notin c /\ taught # "none" THEN "LEARNED" ELSE "RULE")
     EXCEPT !.filed = TRUE]

StandardVerdict(c, taught, score) ==
  IF taught = "SPAM" THEN Verdict("SPAM", "LEARNED")
  ELSE IF score >= StandardSpamScore THEN Verdict("SPAM", "AUTO_RULE")
  ELSE IF score >= SpamScore THEN Verdict("POTENTIAL_SPAM", "AUTO_RULE")
  ELSE Verdict("UNSCREENED", "AUTO_POLICY")

ContentVerdict(c, taught, score) ==
  LET bar == IF "topical" \in c /\ "own_url" \notin c
             THEN StandardSpamScore ELSE SpamScore
  IN IF "claim" \in c THEN Verdict("POTENTIAL_ISSUE", "AUTO_POLICY")
     ELSE IF taught = "SPAM" THEN Verdict("SPAM", "LEARNED")
     ELSE IF score >= bar THEN Verdict("SPAM", "AUTO_RULE")
     ELSE IF score >= PotentialScore THEN Verdict("POTENTIAL_SPAM", "AUTO_RULE")
     ELSE IF "unsolicited" \in c THEN Verdict("POTENTIAL_SPAM", "AUTO_POLICY")
     ELSE IF "topical" \in c THEN Verdict("CONTENT", "AUTO_POLICY")
     ELSE IF "issue_body" \in c THEN Verdict("POTENTIAL_ISSUE", "AUTO_POLICY")
     ELSE IF taught = "CONTENT" THEN Verdict("CONTENT", "LEARNED")
     ELSE Verdict("POTENTIAL_SPAM", "AUTO_POLICY")

\* taught: the newest human example of this sender or subject pattern.
\* domainTaught: the domain is among learned_spam_domains of the site.
AssessInbound(mode, c, taught, domainTaught) ==
  LET score == SpamPoints(c, domainTaught)
  IN IF ImpersonatesOwnDomain(c) THEN Verdict("POTENTIAL_ISSUE", "AUTO_POLICY")
     ELSE IF Corroborated(c) THEN Verdict("SPAM", "AUTO_RULE")
     ELSE IF RuleMatches(c) THEN CategoryResult(c, taught)
     ELSE IF "brand" \in c THEN Verdict("POTENTIAL_ISSUE", "AUTO_POLICY")
     ELSE IF mode = "standard" THEN StandardVerdict(c, taught, score)
     ELSE ContentVerdict(c, taught, score)
=============================================================================
