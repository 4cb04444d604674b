----------------------------- MODULE EvidenceGates -----------------------------
(***************************************************************************)
(* The gates one case of a qualification passes: what the adapter and the   *)
(* service make of a run (src/adapters/pi/adapter.ts, src/tasks/service.ts),*)
(* the evidence the smoke test writes about it (src/smoke), and who reads   *)
(* that evidence: the entry point that publishes it, the ledger             *)
(* (src/qualification/manifest.ts, evidence-contract.ts), the verifier and  *)
(* the capability index.  Each decides for itself from the fields it reads; *)
(* hashes, names and identities that a case merely carries along are left   *)
(* out, and so are the older protocols.                                     *)
(***************************************************************************)
EXTENDS TaskEvents

CONSTANTS
  MaxObservations,   \* how many observations evidence may hold: 256
  Runs(_)            \* the runs whose events a stream may be

ASSUME GatesAssumption == MaxObservations \in Nat

(* What a command says, as far as a gate can tell: the command the prompt   *)
(* asks for, the one that writes the file (Pi), or any other.               *)
Texts == {"status", "write", "other"}

(* How a run ended.  A run that was not launched has failed before the      *)
(* client was called; one that threw failed in the smoke test itself.       *)
Ended ==
  [runtime : {"pi", "kimi"}, task : {"review", "delegate"},
   how : {"ran", "unlaunched", "threw"},
   status : {"completed", "failed"},
   model : {"frozen", "other", "unsafe", "none"},   \* unsafe: not a name a record may hold
   telemetry : [known : BOOLEAN, invoked : BOOLEAN, fallback : BOOLEAN, drained : BOOLEAN],
   diagnosed : {"plain", "credential", "quota"},
   isolated : BOOLEAN,    \* the environment of the child
   frozen : BOOLEAN,      \* the configuration is the one of the preflight
   changed : BOOLEAN,     \* in a review, files changed
   good : BOOLEAN]        \* the review found the defect, the file is as it should be

Unknown == [known |-> FALSE, invoked |-> FALSE, fallback |-> FALSE, drained |-> FALSE]

(* Telemetry that is not known says nothing.  The events of the client      *)
(* protocol are those of Kimi, all others are those of Pi.                  *)
PossibleRuns(kind) ==
  {end \in Ended : /\ end.telemetry.known \/ end.telemetry = Unknown
                   /\ end.runtime = "kimi" <=> kind = "acp"}

-----------------------------------------------------------------------------
(* The adapter and the service. *)

(* An error of the adapter is a failed result with no telemetry.            *)
Launch(end) ==
  IF end.how = "unlaunched"
  THEN [end EXCEPT !.status = "failed", !.model = "none", !.telemetry = Unknown, !.isolated = FALSE]
  ELSE end

(* Only Pi says by itself which model answered.                             *)
BindModel(end) ==
  IF end.runtime # "pi" \/ end.model = "frozen" THEN end
  ELSE [end EXCEPT !.status = "failed",
                   !.telemetry.fallback = @ \/ (end.model # "none" /\ end.telemetry.known)]

TaskStatus(end, violations) ==
  CASE end.task = "review" /\ end.changed -> "workspace_changed"
    [] end.task = "review" /\ ~end.changed /\ violations # <<>> -> "failed"
    [] OTHER -> end.status

-----------------------------------------------------------------------------
(* The smoke test. *)

(* sanitizeCommandObservations and sanitizePiWriteCommandObservations: the  *)
(* text is left out, and what a title says matches nothing.                 *)
Sanitize(observed, text) ==
  [i \in DOMAIN observed |->
     LET o == observed[i] IN
     IF o.origin = "title" THEN [source |-> "title_fallback", match |-> "other"]
     ELSE [source |-> o.source,
           match |-> IF o.command # Absent /\ text[i] = "status" THEN "exact" ELSE "other"]]

IsRaw(life) == life.command = "command"
MatchOf(text) == CASE text = "write" -> "exact" [] text = "status" -> "status_exact" [] OTHER -> "other"

SanitizeWrites(lives, text) ==
  [i \in DOMAIN lives |->
     [source |-> IF IsRaw(lives[i]) THEN "raw_input" ELSE "title_fallback",
      match |-> IF IsRaw(lives[i]) THEN MatchOf(text[i]) ELSE "other",
      outcome |-> lives[i].outcome]]

ExactLifecycleSucceeded(lives, text, command) ==
  LET matches == {i \in DOMAIN lives : IsRaw(lives[i]) /\ text[i] = command} IN
  Cardinality(matches) = 1 /\ \A i \in matches : lives[i].outcome = "success"

(* What is known of the commands of a run: how many were counted, the       *)
(* sanitized observations, and whether the required ones were seen.         *)
NoCommands == [count |-> 0, list |-> <<>>, required |-> FALSE]

KimiCommands(events, text) ==
  LET observed == ExtractCommandObservations(events) IN
  [count |-> Len(CommandsFromObservations(observed, "raw_only")),
   list |-> Sanitize(observed, text),
   required |-> \E i \in DOMAIN observed : observed[i].origin = "raw_input" /\ text[i] = "status"]

PiCommands(events, text) ==
  LET calls == {e \in ToSet(events) : e.type # "tool_result"}
      observed == ExtractCommandObservations(Only(events, calls))
      lives == ExtractLifecycles(events) IN
  [count |-> Len(CommandsFromObservations(observed, "compatibility")),
   list |-> SanitizeWrites(lives, text),
   required |-> /\ ExactLifecycleSucceeded(lives, text, "write")
                /\ ExactLifecycleSucceeded(lives, text, "status")]

TelemetryIsValid(t, retries) == t.known /\ t.invoked /\ retries = 0 /\ ~t.fallback

Verdict(b) == IF b THEN "true" ELSE "false"

(* A record with the fields of two.                                         *)
Spread(f, g) == [name \in DOMAIN f \cup DOMAIN g |-> IF name \in DOMAIN f THEN f[name] ELSE g[name]]

(* The checks of a review and of a delegation, by name.  Pi also looks at   *)
(* the environment of the child.                                            *)
KimiChecks(end, commands, retries) ==
  LET common == [actualModelMatches |-> Verdict(end.model = "frozen"),
                 ownedProcessDrained |-> Verdict(end.telemetry.drained),
                 executionTelemetryValid |-> Verdict(TelemetryIsValid(end.telemetry, retries))]
      review == [workspaceUnchanged |-> Verdict(~end.changed),
                 knownDefectFound |-> Verdict(end.good)]
      delegate == [resultFileValid |-> Verdict(end.good),
                   resultFileObserved |-> Verdict(end.good),
                   onlyExpectedFileChanged |-> Verdict(end.good),
                   requiredCommandObserved |-> Verdict(commands.required)]
  IN Spread(common, IF end.task = "review" THEN review ELSE delegate)

PiChecks(end, commands, retries) ==
  Spread(KimiChecks(end, commands, retries), [environmentIsolated |-> Verdict(end.isolated)])

AllTrue(checks) == \A key \in DOMAIN checks : checks[key] = "true"

(* The environment of a child that was never started has no credential, and *)
(* the evidence says null.                                                  *)
CredentialEnv(end) == IF end.how = "unlaunched" THEN "null" ELSE "expected"

(* What both write; "has" names the optional fields that are there.         *)
Evidence(end, status, commands, retries, checks, passed, reason) ==
  [runtime |-> end.runtime, task |-> end.task, status |-> status, passed |-> passed,
   failureReason |-> reason, model |-> end.model, telemetry |-> end.telemetry,
   retries |-> IF end.telemetry.known THEN retries ELSE 0,
   credentialEnv |-> CredentialEnv(end), frozen |-> end.frozen, checks |-> checks,
   file |-> IF end.good THEN "valid" ELSE "other", commands |-> commands,
   has |-> IF end.task = "review" THEN {} ELSE {"commandCount", "resultFile"}]

KimiEvidence(end, status, commands, retries) ==
  LET checks == KimiChecks(end, commands, retries)
      passed == status = "completed" /\ AllTrue(checks)
      reason == CASE passed -> "null"
                  [] ~passed /\ status = "completed" -> "acceptance_failed"
                  [] OTHER -> "adapter_auth_or_model_unavailable"
      e == Evidence(end, status, commands, retries, checks, passed, reason)
  IN IF end.task = "review" THEN e ELSE [e EXCEPT !.has = @ \cup {"commandObservations"}]

PiEvidence(end, status, commands, retries) ==
  LET checks == PiChecks(end, commands, retries)
      passed == status = "completed" /\ AllTrue(checks)
      reason == CASE passed -> "null"
                  [] ~passed /\ end.diagnosed = "credential" -> "missing_credential"
                  [] ~passed /\ end.diagnosed = "quota" -> "account_quota_exceeded"
                  [] OTHER -> IF status = "completed" THEN "acceptance_failed" ELSE "adapter_failure"
      e == Evidence(end, status, commands, retries, checks, passed, reason)
      own == {"provider", "credentialEnv", "configSha256"}
  IN [e EXCEPT !.has = @ \cup own \cup IF end.task = "review" THEN {}
                                       ELSE {"writeCommandObservations"}]

(* What is published of a smoke test that threw or whose evidence is not    *)
(* what it should be.                                                       *)
InfrastructureEvidence(end) ==
  [runtime |-> end.runtime, task |-> end.task, status |-> "failed", passed |-> FALSE,
   failureReason |-> "infrastructure_failure", model |-> "none", telemetry |-> Unknown,
   retries |-> 0, credentialEnv |-> "null", frozen |-> TRUE,
   checks |-> [ownedProcessDrained |-> "unknown"], file |-> "other", commands |-> NoCommands,
   has |-> IF end.runtime = "pi" THEN {"provider"} ELSE {}]

RunKimiSmoke(end, events, text, retries) ==
  LET commands == IF end.task = "review" THEN NoCommands ELSE KimiCommands(events, text)
  IN KimiEvidence(end, TaskStatus(end, <<>>), commands, retries)

(* The smoke test throws if there is more to report than evidence may hold. *)
RunPiSmoke(end, events, text, retries) ==
  LET commands == IF end.task = "review" THEN NoCommands ELSE PiCommands(events, text)
  IN IF Len(commands.list) > MaxObservations THEN InfrastructureEvidence(end)
     ELSE PiEvidence(end, TaskStatus(end, ReviewPolicyViolations(events)), commands, retries)

RunSmoke(end, events, text, retries) ==
  LET bound == BindModel(Launch(end)) IN
  CASE end.how = "threw" -> InfrastructureEvidence(end)
    [] end.how # "threw" /\ end.runtime = "pi" -> RunPiSmoke(bound, events, text, retries)
    [] OTHER -> RunKimiSmoke(bound, events, text, retries)

-----------------------------------------------------------------------------
(* The entry point. *)
AllRequiredChecksPassed(kind, task, checks) ==
  /\ DOMAIN checks =
       {"actualModelMatches", "executionTelemetryValid", "ownedProcessDrained"}
         \cup (IF kind = "kimi" THEN {} ELSE {"environmentIsolated"})
         \cup IF task = "review" THEN {"knownDefectFound", "workspaceUnchanged"}
              ELSE {"onlyExpectedFileChanged", "requiredCommandObserved",
                    "resultFileObserved", "resultFileValid"}
  /\ AllTrue(checks)

ExactTelemetry(e) == /\ e.telemetry.known /\ e.telemetry.invoked
                     /\ e.retries = 0 /\ ~e.telemetry.fallback

PassedIsSound(e) ==
  /\ e.status = "completed" /\ ExactTelemetry(e) /\ e.telemetry.drained
  /\ AllRequiredChecksPassed(e.runtime, e.task, e.checks)

Publish(e, end) == IF e.passed => PassedIsSound(e) THEN e ELSE InfrastructureEvidence(end)

-----------------------------------------------------------------------------
(* The contract of the evidence, which the ledger, the verifier and the     *)
(* index share.                                                             *)
CurrentEvidenceCheckKeys(runtime, task) ==
  {"actualModelMatches", "executionTelemetryValid", "ownedProcessDrained"}
    \cup (IF runtime = "pi" THEN {"environmentIsolated"} ELSE {})
    \cup IF task = "review" THEN {"knownDefectFound", "workspaceUnchanged"}
         ELSE {"onlyExpectedFileChanged", "requiredCommandObserved",
               "resultFileObserved", "resultFileValid"}

ExactBooleanChecks(e) ==
  /\ DOMAIN e.checks = CurrentEvidenceCheckKeys(e.runtime, e.task)
  /\ \A key \in DOMAIN e.checks : e.checks[key] \in {"true", "false"}

Matching(list, match) == {i \in DOMAIN list : list[i].match = match}

(* Mutant: every observation counts as a command.                           *)
KimiDiagnosticsCountingAll(e) ==
  "commandObservations" \in e.has =>
    /\ Len(e.commands.list) <= MaxObservations
    /\ Len(e.commands.list) = e.commands.count
    /\ Verdict(Matching(e.commands.list, "exact") # {}) = e.checks["requiredCommandObserved"]

KimiDiagnosticsHold(e) ==
  LET list == e.commands.list
      titled == {"title_fallback", "unextractable"} IN
  /\ "writeCommandObservations" \notin e.has
  /\ e.passed => "commandObservations" \in e.has
  /\ "commandObservations" \in e.has =>
       /\ Len(list) <= MaxObservations
       /\ \A i \in DOMAIN list : list[i].source \in titled => list[i].match = "other"
       /\ Cardinality({i \in DOMAIN list : list[i].source \notin titled}) = e.commands.count
       /\ Verdict(Matching(list, "exact") # {}) = e.checks["requiredCommandObserved"]

PiDiagnosticsHold(e) ==
  LET list == e.commands.list
      once(match) == /\ Cardinality(Matching(list, match)) = 1
                     /\ \A i \in Matching(list, match) : list[i].outcome = "success"
      succeeded == once("exact") /\ once("status_exact") IN
  /\ "commandObservations" \notin e.has
  /\ e.passed => "writeCommandObservations" \in e.has
  /\ "writeCommandObservations" \in e.has =>
       /\ Len(list) <= MaxObservations
       /\ \A i \in DOMAIN list : list[i].source = "title_fallback" => list[i].match = "other"
       /\ Cardinality({i \in DOMAIN list : list[i].source # "unextractable"}) = e.commands.count
       /\ Matching(list, "status_exact") # {} => e.checks["requiredCommandObserved"] = Verdict(succeeded)
       /\ e.passed => succeeded /\ e.checks["requiredCommandObserved"] = "true"

ReasonFits(e) ==
  CASE e.failureReason = "acceptance_failed" -> e.status = "completed" /\ ~AllTrue(e.checks)
    [] e.failureReason = "adapter_auth_or_model_unavailable" ->
         e.runtime = "kimi" /\ e.status # "completed"
    [] e.failureReason = "adapter_failure" -> e.runtime = "pi" /\ e.status # "completed"
    [] OTHER -> e.failureReason \in {"missing_credential", "account_quota_exceeded"} /\ e.runtime = "pi"

DelegateFieldsHold(e) ==
  /\ e.passed => "resultFile" \in e.has /\ e.file = "valid"
  /\ IF e.runtime = "kimi" THEN KimiDiagnosticsHold(e) ELSE PiDiagnosticsHold(e)

ContractHolds(e) ==
  IF e.failureReason = "infrastructure_failure"
  THEN /\ ~e.passed /\ e.status = "failed" /\ ~e.telemetry.drained
       /\ e.checks = [ownedProcessDrained |-> "unknown"]
  ELSE /\ ExactBooleanChecks(e)
       /\ e.checks["ownedProcessDrained"] = Verdict(e.telemetry.drained)
       /\ IF e.passed THEN e.status = "completed" /\ e.telemetry.drained /\ AllTrue(e.checks)
          ELSE ReasonFits(e)
       /\ IF e.task = "review"
          THEN e.has \cap {"resultFile", "commandObservations", "writeCommandObservations",
                           "commandCount"} = {}
          ELSE DelegateFieldsHold(e)

-----------------------------------------------------------------------------
(* The ledger. *)
TelemetryNormal(e) ==
  /\ e.passed => e.telemetry.drained
  /\ ~e.telemetry.known => ~e.telemetry.invoked /\ e.retries = 0 /\ ~e.telemetry.fallback

CredentialFits(e) ==
  IF e.runtime # "pi" THEN "credentialEnv" \notin e.has
  ELSE (e.passed \/ "credentialEnv" \in e.has) => e.credentialEnv = "expected"

FailureReasonNormal(e) == e.passed <=> e.failureReason = "null"

LedgerAccepts(e) ==
  /\ TelemetryNormal(e) /\ FailureReasonNormal(e)
  /\ "provider" \in e.has <=> e.runtime = "pi"
  /\ IF e.passed THEN e.model = "frozen" ELSE e.model # "unsafe"
  /\ e.runtime = "pi" /\ e.passed => e.frozen
  /\ CredentialFits(e)
  /\ e.passed => ExactTelemetry(e)
  /\ ContractHolds(e)

(* The verifier, of evidence whose entry in the manifest is the ledger's.   *)
VerifierAccepts(e) ==
  LET infrastructure == ~e.passed /\ e.failureReason = "infrastructure_failure" IN
  /\ e.passed => e.status = "completed" /\ e.model = "frozen"
                 /\ ExactTelemetry(e) /\ e.telemetry.drained
  /\ IF e.runtime # "pi" THEN {"provider", "configSha256", "credentialEnv"} \cap e.has = {}
     ELSE /\ "provider" \in e.has
          /\ ~infrastructure \/ "configSha256" \in e.has => e.frozen
          /\ ~infrastructure \/ "credentialEnv" \in e.has => e.credentialEnv = "expected"
  /\ ContractHolds(e)

(* The capability index, of evidence whose entry says passed.               *)
IndexAccepts(e) ==
  /\ e.model = "frozen" /\ e.status = "completed" /\ e.passed /\ e.failureReason = "null"
  /\ ExactTelemetry(e) /\ e.telemetry.drained
  /\ "provider" \in e.has <=> e.runtime = "pi"
  /\ IF e.runtime = "pi" THEN e.credentialEnv = "expected" ELSE "credentialEnv" \notin e.has
  /\ ContractHolds(e)
  /\ DOMAIN e.checks = CurrentEvidenceCheckKeys(e.runtime, e.task) /\ AllTrue(e.checks)

-----------------------------------------------------------------------------
(* The commands a run had to execute, read from the events themselves: one  *)
(* that is raw when all its updates are in; with Pi, one that writes and    *)
(* one that looks at the result, each called once and ended once, well.     *)
RequiredCommandsRan(runtime, events, text) ==
  LET ids == InOrder(events, Executed(events))
      raw == {i \in DOMAIN ids : CommandOf(events, ids[i]) = "command"}
      results(id) == {r \in DOMAIN events : events[r].id = id /\ events[r].type = "tool_result"}
      first(id) == Least(Starts(events, id))
      saidBy(command) ==
        {i \in DOMAIN ids : /\ text[i] = command
                            /\ events[first(ids[i])].patch["rawInput"] = "command"}
      once(command) ==
        \E i \in saidBy(command) :
          /\ saidBy(command) = {i}
          /\ Cardinality(Starts(events, ids[i])) = 1
          /\ \E r \in results(ids[i]) :
               /\ results(ids[i]) = {r} /\ r > first(ids[i])
               /\ events[r].isError = "false"
               /\ events[r].title = events[first(ids[i])].patch["title"]
  IN IF runtime = "kimi"
     THEN \E i \in raw : text[i] = "status" /\ FinalValue(events, ids[i], "rawInput") = "command"
     ELSE once("write") /\ once("status")

(* What a case that passes stands for. *)
WentWell(end, events, text, retries) ==
  /\ end.how = "ran" /\ end.status = "completed" /\ end.model = "frozen" /\ end.good
  /\ end.telemetry = [known |-> TRUE, invoked |-> TRUE, fallback |-> FALSE, drained |-> TRUE]
  /\ retries = 0
  /\ end.runtime = "pi" => end.isolated
  /\ IF end.task = "delegate" THEN RequiredCommandsRan(end.runtime, events, text)
     ELSE ~end.changed /\ (end.runtime = "pi" => ReviewPolicyViolations(events) = <<>>)

(* What the ledger cannot take, though the smoke test wrote it: a Pi run    *)
(* that never started its child, for its credentialEnv is null; a failed    *)
(* run under an odd name of a model; a Kimi run of too many commands; and   *)
(* a run of Pi that passed under another configuration.                     *)
Unrecordable(end, e) ==
  /\ e.failureReason # "infrastructure_failure"
  /\ \/ end.runtime = "pi" /\ end.how = "unlaunched"
     \/ ~e.passed /\ e.model = "unsafe"
     \/ end.runtime = "kimi" /\ end.task = "delegate" /\ Len(e.commands.list) > MaxObservations
     \/ end.runtime = "pi" /\ e.passed /\ ~end.frozen

GatesAgreeOn(end, events, text, retries) ==
  \A smoke \in {RunSmoke(end, events, text, retries)} :
    \A e \in {Publish(smoke, end)}, well \in {WentWell(end, events, text, retries)} :
      /\ e = smoke
      /\ e.failureReason # "infrastructure_failure" => (e.passed <=> well)
      /\ LedgerAccepts(e) <=> ~Unrecordable(end, e)
      /\ LedgerAccepts(e) /\ (end.runtime = "pi" => end.frozen) => VerifierAccepts(e)
      /\ e.passed /\ LedgerAccepts(e) => IndexAccepts(e)
      /\ IndexAccepts(e) => well

(* Five gates read one piece of evidence, each with rules of its own.  They *)
(* agree: a case passes exactly if its run went well, with the commands     *)
(* asked for among its events and no retry; what the smoke test writes, the *)
(* ledger records, but for the cases named in Unrecordable; what the ledger *)
(* records the verifier takes; and the index takes what passed, and only    *)
(* that.                                                                    *)
GatesAgree ==
  LET events == CASE stream.kind = "pi" -> AdapterEvents(stream.seen)
                  [] stream.kind = "acp" -> stream.seen [] OTHER -> <<>>
      retries == IF stream.kind = "retry" THEN RetryCount(Retries(stream.seen)) ELSE 0
      count == Cardinality(Executed(events))
  IN stream.kind \in Kinds =>
       \A end \in Runs(stream), text \in [1..count -> Texts] :
         end \in PossibleRuns(stream.kind) => GatesAgreeOn(end, events, text, retries)
=============================================================================
