----------------------------- MODULE TaskEvents -----------------------------
(***************************************************************************)
(* What the host reads out of the events of a run once it is over: the      *)
(* commands of the agent (src/tasks/command-observations.ts), how each of   *)
(* them ended under Pi (src/tasks/pi-command-lifecycle.ts), whether a       *)
(* review used a tool it may not (src/tasks/service.ts), and how often Pi   *)
(* retried (src/adapters/pi/client.ts).  Each is a fold over the events in  *)
(* the order they came in; the reference beside it says what it stands for  *)
(* without one.  A value is what the code distinguishes: Absent, one that   *)
(* is used, or one that is not of the expected type or is empty.            *)
(***************************************************************************)
EXTENDS Naturals, SequencesExt, FiniteSets

CONSTANTS
  Ids, Coming,   \* toolCallId: non-empty strings; those of events to come
  Patches,       \* what an event of the client protocol says of its call
  RetryAttempts, \* the attempt numbers of retry events
  Beginnings     \* how a stream begins, and how many events may follow

Absent == "absent"
Fields == {"kind", "title", "rawInput"}
Kinds == {"acp", "pi", "retry"}

ASSUME TaskEventsAssumption ==
  /\ \A patch \in Patches : DOMAIN patch = Fields
  /\ \A start \in Beginnings : DOMAIN start = {"kind", "seen", "left"} /\ start.left \in Nat
  /\ Coming \subseteq Ids /\ Absent \notin Ids \cup RetryAttempts

VARIABLE stream   \* [kind, seen, left]: the events so far, of one of three kinds

-----------------------------------------------------------------------------
(* extractCommandObservations: one record per call.  An update that comes   *)
(* before its call waits for it.                                            *)
Unfolded == [seenInitial |-> FALSE, pending |-> <<>>, rawAtFirst |-> FALSE,
             field |-> [name \in Fields |-> [source |-> "none", value |-> Absent]]]

ApplyPatch(folded, patch, source) ==
  [folded EXCEPT !.field = [name \in Fields |->
     IF patch[name] = Absent THEN @[name] ELSE [source |-> source, value |-> patch[name]]]]

(* Mutant: an update that comes before its call is forgotten.               *)
FoldCallForgetting(folded, event) ==
  IF event.type = "tool_call_update" /\ ~folded.seenInitial THEN folded
  ELSE IF event.type = "tool_call"
  THEN IF folded.seenInitial THEN folded
       ELSE ApplyPatch([folded EXCEPT !.seenInitial = TRUE], event.patch, "initial")
  ELSE ApplyPatch(folded, event.patch, "update")

LateUpdate(folded, patch) == ApplyPatch(folded, patch, "update")

FoldCall(folded, event) ==
  LET first == ApplyPatch([folded EXCEPT !.seenInitial = TRUE, !.pending = <<>>],
                          event.patch, "initial")
      marked == [first EXCEPT !.rawAtFirst = first.field["rawInput"].value = "command"]
  IN CASE folded.seenInitial -> IF event.type = "tool_call" THEN folded ELSE LateUpdate(folded, event.patch)
       [] ~folded.seenInitial /\ event.type = "tool_call" -> FoldLeft(LateUpdate, marked, folded.pending)
       [] OTHER -> [folded EXCEPT !.pending = Append(@, event.patch)]

(* The calls, and those that have begun in the order they did.              *)
FoldEvent(s, event) ==
  LET call == FoldCall(s.calls[event.id], event) IN
  [s EXCEPT !.calls[event.id] = call,
            !.order = IF call.seenInitial /\ ~s.calls[event.id].seenInitial
                      THEN Append(@, event.id) ELSE @]

(* The elements of a sequence that are in a set, in their order.            *)
Only(s, keep) ==
  LET pick(picked, x) == IF x \in keep THEN Append(picked, x) ELSE picked IN
  FoldLeft(pick, <<>>, s)

IsText(title) == title \notin {Absent, "useless"}
Observation(source, command, origin) == [source |-> source, command |-> command, origin |-> origin]

ObservationFor(folded) ==
  LET field == folded.field
      isLate(name) == field[name].source = "update" IN
  CASE field["rawInput"].value = "command" ->
         Observation(IF isLate("kind") \/ isLate("rawInput") THEN "late_update" ELSE "raw_input",
                     "command", "raw_input")
    [] field["rawInput"].value # "command" /\ IsText(field["title"].value) ->
         Observation(IF \/ isLate("kind") \/ isLate("title")
                        \/ isLate("rawInput") /\ folded.rawAtFirst
                     THEN "late_update" ELSE "title_fallback", field["title"].value, "title")
    [] OTHER -> Observation("unextractable", Absent, Absent)

ExtractCommandObservations(events) ==
  LET s == FoldLeft(FoldEvent, [calls |-> [id \in Ids |-> Unfolded], order |-> <<>>], events)
      order == Only(s.order, {id \in Ids : s.calls[id].field["kind"].value = "execute"})
  IN [i \in DOMAIN order |-> ObservationFor(s.calls[order[i]])]

CommandsFromObservations(observations, policy) ==
  LET counted == Only(observations, {o \in ToSet(observations) :
        o.command # Absent /\ (policy = "compatibility" \/ o.origin = "raw_input")})
  IN [i \in DOMAIN counted |-> counted[i].command]

-----------------------------------------------------------------------------
(* What Pi reports, and what its adapter makes of it: the start and the end *)
(* of a tool; other events are dropped.                                     *)
KindOf(tool) == CASE tool = "bash" -> "execute" [] tool \in {"edit", "write"} -> "write"
                  [] tool = "read" -> "read" [] OTHER -> "search"

MapToolEvent(event) ==
  IF event.type = "tool_execution_end"
  THEN [type |-> "tool_result", id |-> event.id, title |-> event.tool, isError |-> event.isError]
  ELSE [type |-> "tool_call", id |-> event.id,
        patch |-> [kind |-> KindOf(event.tool), title |-> event.tool, rawInput |-> event.args]]

AdapterEvents(events) ==
  LET tools == Only(events, {e \in ToSet(events) :
        e.type \in {"tool_execution_start", "tool_execution_end"}})
  IN [i \in DOMAIN tools |-> MapToolEvent(tools[i])]

(* extractPiCommandLifecycleObservations.  Every title of Pi is the name of *)
(* a tool, so that it is never empty.                                       *)
Unstarted == [started |-> FALSE, included |-> FALSE, early |-> FALSE, twice |-> FALSE,
              results |-> <<>>, raw |-> Absent, title |-> Absent]

FoldLifecycle(s, event) ==
  LET life == s.calls[event.id]
      starts == event.type = "tool_call" /\ ~life.started
      included == starts /\ event.patch["kind"] = "execute" IN
  [calls |-> [s.calls EXCEPT ![event.id] =
     CASE event.type = "tool_result" ->
            IF life.started THEN [life EXCEPT !.results = Append(@, event)]
            ELSE [life EXCEPT !.early = TRUE]
       [] event.type = "tool_call" /\ life.started -> [life EXCEPT !.twice = TRUE]
       [] OTHER -> [life EXCEPT !.started = TRUE, !.included = included,
                                !.raw = event.patch["rawInput"], !.title = event.patch["title"]]],
   order |-> IF included THEN Append(s.order, event.id) ELSE s.order]

OutcomeFor(life) ==
  CASE life.early \/ life.twice -> "unknown"
    [] ~(life.early \/ life.twice) /\ life.results = <<>> -> "missing"
    [] OTHER -> IF Len(life.results) > 1 \/ life.results[1].title # life.title
                   \/ life.results[1].isError = Absent THEN "unknown"
                ELSE IF life.results[1].isError = "true" THEN "error" ELSE "success"

ExtractLifecycles(events) ==
  LET s == FoldLeft(FoldLifecycle, [calls |-> [id \in Ids |-> Unstarted], order |-> <<>>], events)
  IN [i \in DOMAIN s.order |->
        LET life == s.calls[s.order[i]] IN
        [id |-> s.order[i], outcome |-> OutcomeFor(life),
         command |-> IF life.raw = "command" THEN "command" ELSE life.title]]

ReviewPolicyViolations(events) ==
  Only(events, {e \in ToSet(events) :
    e.type = "tool_call" /\ e.patch["kind"] \in {"execute", "write"}})

-----------------------------------------------------------------------------
(* The retries of a run, counted conservatively from three witnesses.       *)
NoRetries == [attempts |-> {}, anonymous |-> 0, active |-> Absent,
              willRetry |-> 0, compactions |-> 0, unbalanced |-> FALSE]

CountRetry(r, event) ==
  CASE event.type = "agent_end" -> [r EXCEPT !.willRetry = @ + 1]
    [] event.type = "compaction_end" -> [r EXCEPT !.compactions = @ + 1]
    [] event.type = "auto_retry_start" ->
         IF event.attempt = Absent THEN [r EXCEPT !.anonymous = @ + 1, !.active = "anonymous"]
         ELSE [r EXCEPT !.attempts = @ \cup {event.attempt}, !.active = event.attempt]
    [] event.type = "auto_retry_end" /\ event.attempt = Absent ->
         IF r.active = Absent THEN [r EXCEPT !.anonymous = @ + 1, !.unbalanced = TRUE]
         ELSE [r EXCEPT !.active = Absent]
    [] OTHER -> IF event.attempt \notin r.attempts
                THEN [r EXCEPT !.attempts = @ \cup {event.attempt}, !.unbalanced = TRUE]
                ELSE [r EXCEPT !.active = IF @ = event.attempt THEN Absent ELSE @]

Retries(events) == FoldLeft(CountRetry, NoRetries, events)
Unbalanced(r) == r.unbalanced \/ r.active # Absent
RetryCount(r) == LET explicit == Cardinality(r.attempts) + r.anonymous IN
                 r.compactions + IF explicit > r.willRetry THEN explicit ELSE r.willRetry

-----------------------------------------------------------------------------
AcpEvents(ids) == [type : {"tool_call", "tool_call_update"}, id : ids, patch : Patches]
PiEvents(ids) ==
  [type : {"tool_execution_start"}, id : ids, tool : {"bash", "write", "read"},
   args : {"command", "useless"}]
    \cup [type : {"tool_execution_end"}, id : ids, tool : {"bash", "read"},
          isError : {Absent, "true", "false"}]
    \cup [type : {"other"}]
RetryEvents ==
  [type : {"auto_retry_start", "auto_retry_end"}, attempt : RetryAttempts \cup {Absent}]
    \cup [type : {"agent_end", "compaction_end"}]
EventsOf(kind, ids) == CASE kind = "acp" -> AcpEvents(ids) [] kind = "pi" -> PiEvents(ids)
                         [] OTHER -> RetryEvents

ASSUME BeginningsAssumption ==
  \A start \in Beginnings : start.kind \in Kinds /\ start.seen \in Seq(EventsOf(start.kind, Ids))

EventsInit == stream \in Beginnings

Observe ==
  /\ stream.left > 0
  /\ \E event \in EventsOf(stream.kind, Coming) :
       stream' = [stream EXCEPT !.seen = Append(@, event), !.left = @ - 1]

EventsSpec == EventsInit /\ [][Observe]_stream

-----------------------------------------------------------------------------
(* The references. *)

Says(events, id, name, type) ==
  {i \in DOMAIN events : /\ events[i].id = id /\ events[i].type = type
                         /\ events[i].patch[name] # Absent}
Starts(events, id) == {i \in DOMAIN events : events[i].id = id /\ events[i].type = "tool_call"}
Least(S) == CHOOSE i \in S : \A j \in S : i <= j
Greatest(S) == CHOOSE i \in S : \A j \in S : i >= j

(* A field of a call is what its last update says of it, wherever in the    *)
(* stream, or else what the call itself did.                                *)
FinalValue(events, id, name) ==
  LET updates == Says(events, id, name, "tool_call_update") IN
  IF updates # {} THEN events[Greatest(updates)].patch[name]
  ELSE events[Least(Starts(events, id))].patch[name]
Late(events, id, name) == Says(events, id, name, "tool_call_update") # {}

CommandOf(events, id) ==
  LET title == FinalValue(events, id, "title") IN
  CASE FinalValue(events, id, "rawInput") = "command" -> "command"
    [] FinalValue(events, id, "rawInput") # "command" /\ IsText(title) -> title
    [] OTHER -> Absent

Executed(events) == {id \in Ids : /\ Starts(events, id) # {}
                                  /\ FinalValue(events, id, "kind") = "execute"}
InOrder(events, ids) ==
  LET at == 1..Cardinality(ids) IN
  CHOOSE order \in [at -> ids] :
    \A i, j \in at : i < j => Least(Starts(events, order[i])) < Least(Starts(events, order[j]))

(* The commands are those of the calls that execute, in the order the calls *)
(* began, whenever their updates arrived; and only a command that no update *)
(* had a part in counts as given at once.                                   *)
ObservationsFaithful ==
  LET observed == ExtractCommandObservations(stream.seen)
      ids == InOrder(stream.seen, Executed(stream.seen))
      at == DOMAIN observed IN
  stream.kind = "acp" =>
    /\ Len(observed) = Len(ids)
    /\ \A i \in at : observed[i].command = CommandOf(stream.seen, ids[i])
    /\ \A i \in at : observed[i].source = "raw_input" =>
         ~Late(stream.seen, ids[i], "kind") /\ ~Late(stream.seen, ids[i], "rawInput")
    /\ \A i \in at : observed[i].source = "late_update" =>
         \E name \in Fields : Late(stream.seen, ids[i], name)

(* Both readers of a run of Pi see the same commands; a command succeeded   *)
(* only if it began once, ended once, afterwards, as the same tool and      *)
(* without an error; and a review in which a command was seen is refused.   *)
LifecyclesFaithful ==
  LET events == AdapterEvents(stream.seen)
      calls == {e \in ToSet(events) : e.type = "tool_call"}
      observed == CommandsFromObservations(ExtractCommandObservations(Only(events, calls)),
                                           "compatibility")
      lives == ExtractLifecycles(events)
      results(id) == {i \in DOMAIN events : events[i].id = id /\ events[i].type = "tool_result"}
  IN stream.kind = "pi" =>
    /\ observed = [i \in DOMAIN lives |-> lives[i].command]
    /\ \A i \in DOMAIN lives :
         LET id == lives[i].id
             once == Cardinality(Starts(events, id)) = 1 /\ Cardinality(results(id)) = 1 IN
         /\ lives[i].outcome \in {"success", "error"} =>
              /\ once
              /\ \E s \in Starts(events, id), r \in results(id) :
                   s < r /\ events[r].title = events[s].patch["title"]
                         /\ events[r].isError = IF lives[i].outcome = "error" THEN "true" ELSE "false"
         /\ lives[i].outcome = "missing" <=> results(id) = {} /\ Cardinality(Starts(events, id)) = 1
    /\ lives # <<>> => ReviewPolicyViolations(events) # <<>>

(* No sign of a retry goes uncounted: the count is zero only for a run that *)
(* shows none, it is never below the number of attempts or of announced     *)
(* retries, and a run whose retries begin and end in turn has the exact     *)
(* number and no complaint.                                                 *)
RetriesFaithful ==
  LET events == stream.seen
      r == Retries(events)
      ofType(type) == {i \in DOMAIN events : events[i].type = type}
      starts == ofType("auto_retry_start")
      ends == ofType("auto_retry_end")
      named == {events[i].attempt : i \in starts \cup ends} \ {Absent}
      inTurn == /\ \A i \in starts : /\ i + 1 \in ends /\ events[i + 1].attempt = events[i].attempt
                                     /\ \A j \in starts \ {i} : events[i].attempt # Absent =>
                                          events[j].attempt # events[i].attempt
                /\ \A i \in ends : i - 1 \in starts
  IN stream.kind = "retry" =>
    /\ RetryCount(r) = 0 <=> events = <<>>
    /\ RetryCount(r) >= Cardinality(named)
    /\ RetryCount(r) >= Cardinality(ofType("agent_end")) + Cardinality(ofType("compaction_end"))
    /\ inTurn => /\ ~Unbalanced(r)
                 /\ RetryCount(r) - Cardinality(ofType("compaction_end"))
                      \in {Cardinality(starts), Cardinality(ofType("agent_end"))}

(* What the host reads of the events is what happened in them.              *)
EventsFaithful == ObservationsFaithful /\ LifecyclesFaithful /\ RetriesFaithful
=============================================================================
