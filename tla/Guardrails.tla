----------------------------- MODULE Guardrails -----------------------------
(***************************************************************************)
(* The output guardrails (security/__init__.py run_output_guardrails): may *)
(* a draft be proposed?  A text is what the detectors find in it; which    *)
(* detectors there are depends on the optional packages installed.         *)
(***************************************************************************)
EXTENDS Integers

CONSTANTS Domains, Addresses, Threads, PiiTypes, Nobody

\* An optional package is absent, works, or raises when it is asked.
Packages == {"absent", "working", "raising"}
Setup == [detectSecrets : Packages, presidio : Packages, llmGuard : Packages]

\* A URL: how it parses, and the names its host goes by (registered, full).
Shapes == {"web", "unparseable", "other_scheme", "no_host", "raw_ip", "punycode"}
Link   == [shape : Shapes, names : SUBSET Domains]

(***************************************************************************)
(* secrets, suspicious, toxic, regexPii: found by the built-in patterns    *)
(* more, presidioPii, scanners: found by the packages alone                *)
(* quotes, resembles: threads whose n-grams or embeddings the body meets   *)
(***************************************************************************)
Text == [secrets : BOOLEAN, more : BOOLEAN, suspicious : BOOLEAN, toxic : BOOLEAN,
         regexPii : SUBSET PiiTypes, presidioPii : SUBSET PiiTypes,
         scanners : SUBSET {"Secrets", "Sensitive", "MaliciousURLs", "Toxicity"},
         links : SUBSET Link, quotes : SUBSET Threads, resembles : SUBSET Threads]

\* SecuritySettings: categories of PII to block, lists of domains, cooldown.
Security == [pii : SUBSET PiiTypes, links : SUBSET Domains,
             recipients : SUBSET Domains, blocked : SUBSET Domains, cooldown : Nat]

\* What the caller knows: elapsed since untrusted content was fetched, -1 if
\* it does not say; embedded: there is a vector for the body; raises: the
\* cross-thread guard fails.
Context == [recipient : Addresses \cup {Nobody}, domain : Domains, thread : Threads,
            bound : SUBSET Addresses, elapsed : Int, reauthenticated : BOOLEAN,
            embedded : BOOLEAN, readable : BOOLEAN, raises : BOOLEAN]

\* secrets_scan.scan: the package adds to the patterns.
SecretsFound(x, e) == x.secrets \/ (e.detectSecrets = "working" /\ x.more)

\* presidio.detect_pii: the package replaces the patterns; no categories: all.
DetectPii(x, e, categories) ==
  LET types == IF e.presidio = "working" THEN x.presidioPii ELSE x.regexPii
  IN IF categories = {} THEN types ELSE types \cap categories

\* guardrails._heuristic_scan asks for PII of every category.
HeuristicScan(x, e) ==
  /\ ~SecretsFound(x, e) /\ DetectPii(x, e, {}) = {}
  /\ ~x.suspicious /\ ~x.toxic

ScanOutput(x, e) ==
  IF e.llmGuard = "working" THEN x.scanners = {} ELSE HeuristicScan(x, e)

\* url_check.check_urls: without an allowlist every domain will do.
UrlPasses(u, allow) == u.shape = "web" /\ (allow = {} \/ u.names \cap allow # {})
CheckUrls(x, allow) == \A u \in x.links : UrlPasses(u, allow)

\* The guard that cannot read the chunks compares no n-grams; one that fails
\* otherwise refuses.
CrossThreadPasses(x, ctx) ==
  /\ ~ctx.raises
  /\ ctx.readable => x.quotes \subseteq {ctx.thread}
  /\ ctx.readable /\ ctx.embedded => x.resembles \subseteq {ctx.thread}

\* LocalPolicy.  known: the recipient allowlist, knownDomains its domains.
RecipientBound(ctx, known) ==
  ctx.recipient # Nobody /\ ctx.recipient \in ctx.bound \cup known

DomainAllowed(ctx, s, known, knownDomains) ==
  LET allowed == s.recipients \cup s.links \cup knownDomains
  IN ctx.recipient # Nobody =>
       /\ ctx.domain \notin s.blocked
       /\ allowed = {} \/ ctx.domain \in allowed \/ ctx.recipient \in known

CooledDown(ctx, s) ==
  ctx.elapsed = -1 \/ ctx.reauthenticated \/ ctx.elapsed >= s.cooldown

PolicyPasses(x, e, s, ctx, known, knownDomains) ==
  /\ RecipientBound(ctx, known) /\ DomainAllowed(ctx, s, known, knownDomains)
  /\ CooledDown(ctx, s)
  /\ ~SecretsFound(x, e) /\ DetectPii(x, e, s.pii) = {}

RunOutputGuardrails(x, e, s, ctx, known, knownDomains) ==
  /\ ~SecretsFound(x, e) /\ DetectPii(x, e, s.pii) = {}
  /\ ScanOutput(x, e)
  /\ CheckUrls(x, s.links \cup knownDomains)
  /\ CrossThreadPasses(x, ctx)
  /\ PolicyPasses(x, e, s, ctx, known, knownDomains)
=============================================================================
