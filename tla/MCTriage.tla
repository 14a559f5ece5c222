------------------------------ MODULE MCTriage ------------------------------
(* An instance of Triage for TLC: one domain with a sender, and mails that *)
(* the screening treats differently.                                       *)
EXTENDS Triage

MCDomains  == {"domain"}
MCDomainOf == [s \in Senders |-> "domain"]

MCSecurity(blocked) == [pii |-> {}, links |-> {}, recipients |-> {},
                        blocked |-> blocked, cooldown |-> 30]

\* The second one came to block the domain of the senders.
MCConfigs == {[mode |-> "standard", rules |-> TRUE, security |-> MCSecurity({})],
              [mode |-> "content_only", rules |-> FALSE,
               security |-> MCSecurity({"domain"})]}

\* No optional package is installed.
MCDetectors == [detectSecrets |-> "absent", presidio |-> "absent", llmGuard |-> "absent"]

MCText == [secrets |-> FALSE, more |-> FALSE, suspicious |-> FALSE, toxic |-> FALSE,
           regexPii |-> {}, presidioPii |-> {}, scanners |-> {}, links |-> {},
           quotes |-> {}, resembles |-> {}]

\* A harmless text, and one with a telephone number in it.
MCTexts == {MCText, [MCText EXCEPT !.regexPii = {"PHONE_NUMBER"}]}

\* Nothing in particular; an injection attempt; a notification a rule files;
\* a cold sales mail.
MCMails ==
  {[cues |-> {}, sender |-> s, risky |-> FALSE] : s \in Senders}
  \cup {[cues |-> {"topical"}, sender |-> s, risky |-> TRUE] : s \in Senders}
  \cup {[cues |-> c, sender |-> s, risky |-> FALSE] :
           c \in {{"rule", "topical"}, {"cold"}}, s \in Senders}
=============================================================================
