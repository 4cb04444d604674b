----------------------------- MODULE HostReceipt -----------------------------
(***************************************************************************)
(* What the observer of a host acceptance makes of the times and events it  *)
(* is told (host-acceptance/src/AcceptanceState.cs), and what the release   *)
(* validator demands of the receipt (src/release/release-validation.ts).    *)
(* HostAcceptance says which session gets so far; here are the clock, the   *)
(* identities and the chain of hashes.  Windows counts ticks, the receipt   *)
(* milliseconds.  A hash is the thing that is hashed.                       *)
(***************************************************************************)
EXTENDS Naturals, Sequences, SequencesExt, FiniteSets

CONSTANTS
  TicksPerMs,   \* TimeSpan.TicksPerMillisecond
  LastTick,     \* bound: the last tick of the clock
  OldNames,     \* bound: the identities the processes of the old host may have
  NewNames      \* bound: those of the new host

Ticks == 0..LastTick
Places == 1..3    \* ChatGpt, AppServer, KernelPeerMcp

ASSUME ClockAssumption ==
  /\ TicksPerMs \in Nat \ {0} /\ LastTick \in Nat
  /\ \A names \in OldNames \cup NewNames : DOMAIN names = Places

VARIABLE machine   \* HostAcceptanceStateMachine

Nonce == "nonce"
Descriptor == "descriptor"
CompletionMarker == "marker"

Unobserved ==
  [stage |-> "oldHello", old |-> <<>>, exited |-> <<>>, new |-> <<>>,
   events |-> <<>>, binding |-> <<>>, last |-> 0]
Rejected == [Unobserved EXCEPT !.stage = "failed"]

-----------------------------------------------------------------------------
\* Mutant: times are kept as Windows tells them.
ExactTimestamp(tick) == tick

NormalizeTimestamp(tick) == tick - (tick % TicksPerMs)
FormatTimestamp(tick) == tick \div TicksPerMs

Normalized(times) == [p \in Places |-> NormalizeTimestamp(times[p])]
Formatted(times) == [p \in Places |-> FormatTimestamp(times[p])]
Chain(names, times) == [names |-> names, created |-> Normalized(times)]

InOrder(times) == \A p \in Places \ {1} : times[p - 1] <= times[p]
AllDistinct(names) == Cardinality(ToSet(names)) = Len(names)

ObserveOldHost ==
  /\ machine.stage = "oldHello"
  /\ \E names \in OldNames, times \in [Places -> Ticks] :
       LET chain == Chain(names, times) IN
       machine' = IF InOrder(chain.created)
                  THEN [machine EXCEPT !.stage = "oldExit", !.old = chain] ELSE Rejected

ObserveOldHostGone ==
  /\ machine.stage = "oldExit"
  /\ \E times \in [Places -> Ticks] :
       LET exits == Normalized(times) IN
       machine' = IF \A p \in Places : machine.old.created[p] < exits[p]
                  THEN [machine EXCEPT !.stage = "newHello", !.exited = exits] ELSE Rejected

ObserveNewHost ==
  /\ machine.stage = "newHello"
  /\ \E names \in NewNames, times \in [Places -> Ticks] :
       LET chain == Chain(names, times) IN
       machine' = IF /\ InOrder(chain.created)
                     /\ \A p \in Places : machine.exited[p] < chain.created[1]
                     /\ AllDistinct(machine.old.names \o names)
                  THEN [machine EXCEPT !.stage = "events", !.new = chain] ELSE Rejected

BindingHash(newNames) ==
  <<"host-acceptance-request-binding-v1", Nonce, newNames, "correlation", CompletionMarker,
    Descriptor>>
EventHash(name, at, previous, outcome) ==
  <<"host-acceptance-event-v1", name, at, previous, outcome>>

(* The events that each frame, and the look for the marker, stand for. *)
Observations ==
  << << <<"request-started", <<"bound", CompletionMarker, Descriptor>>>> >>,
     << <<"sdk-abort", "true">> >>,
     << <<"owned-process-exit", "cancelled">>, <<"ownership-drained", "true">> >>,
     << <<"handler-cancelled", "cancelled">> >>,
     << <<"in-flight-removed", "true">> >>,
     << <<"completion-marker-checked", <<"absent", CompletionMarker>>>> >> >>

NewEvent(name, at, previous, outcome) ==
  [at |-> FormatTimestamp(at), previous |-> previous,
   hash |-> EventHash(name, FormatTimestamp(at), previous, outcome)]

LastHash(x) == IF x.events = <<>> THEN x.binding ELSE Last(x.events).hash
Observed(x, at, what) ==
  [x EXCEPT !.events = Append(@, NewEvent(what[1], at, LastHash(x), what[2]))]

(* One frame or one look: what is seen, of which the exit makes two events. *)
ObservedAll(x, at, what) ==
  LET once == Observed(x, at, what[1]) IN
  IF Len(what) = 1 THEN once ELSE Observed(once, at, what[2])

(* How many frames have been taken: the third of them makes two events. *)
FramesTaken == Len(machine.events) - (IF Len(machine.events) > 3 THEN 1 ELSE 0)

(* A frame of this session and request, in its turn, or another one; the    *)
(* clock may have been set back.                                            *)
ObserveNext ==
  /\ machine.stage = "events"
  /\ \E tick \in Ticks, fits \in BOOLEAN :
       LET at == NormalizeTimestamp(tick)
           bound == [machine EXCEPT !.binding = BindingHash(machine.new.names), !.last = at]
           earliest == IF machine.events = <<>> THEN machine.new.created[3] ELSE machine.last
           what == Observations[FramesTaken + 1]
       IN machine' =
            IF fits /\ at >= earliest
            THEN [ObservedAll(bound, at, what) EXCEPT
                    !.stage = IF FramesTaken + 1 = Len(Observations) THEN "completed" ELSE @]
            ELSE Rejected

ReceiptInit == machine = Unobserved
ReceiptNext == ObserveOldHost \/ ObserveOldHostGone \/ ObserveNewHost \/ ObserveNext
ReceiptSpec == ReceiptInit /\ [][ReceiptNext]_machine

(* BuildReceiptUtf8, the part that says what was seen *)
Receipt ==
  [oldHost |-> [names |-> machine.old.names, created |-> Formatted(machine.old.created),
                exited |-> Formatted(machine.exited)],
   newHost |-> [names |-> machine.new.names, created |-> Formatted(machine.new.created)],
   binding |-> machine.binding, events |-> machine.events]

-----------------------------------------------------------------------------
(* The validator *)

ExpectedEvents ==
  << <<"request-started", <<"bound", CompletionMarker, Descriptor>>>>,
     <<"sdk-abort", "true">>,
     <<"owned-process-exit", "cancelled">>,
     <<"ownership-drained", "true">>,
     <<"handler-cancelled", "cancelled">>,
     <<"in-flight-removed", "true">>,
     <<"completion-marker-checked", <<"absent", CompletionMarker>>>> >>

(* Each event names the one before it, and its hash is that of its content. *)
EventsHold(binding, events) ==
  /\ Len(events) = Len(ExpectedEvents)
  /\ \A i \in DOMAIN events :
       LET event == events[i]
           expected == ExpectedEvents[i]
           previous == IF i = 1 THEN binding ELSE events[i - 1].hash
       IN /\ event.previous = previous
          /\ event.hash = EventHash(expected[1], event.at, previous, expected[2])

TimelineHolds(old, new, events) ==
  /\ InOrder(old.created) /\ InOrder(new.created)
  /\ \A p \in Places : old.created[p] < old.exited[p] /\ old.exited[p] < new.created[1]
  /\ events[1].at >= new.created[3]
  /\ \A i \in DOMAIN events \ {1} : events[i - 1].at <= events[i].at

ReceiptHolds(receipt) ==
  /\ AllDistinct(receipt.oldHost.names \o receipt.newHost.names)
  /\ receipt.binding = BindingHash(receipt.newHost.names)
  /\ EventsHold(receipt.binding, receipt.events)
  /\ TimelineHolds(receipt.oldHost, receipt.newHost, receipt.events)

(* A session the observer completed is never lost to the release: the        *)
(* validator, which knows nothing but the receipt and its milliseconds,      *)
(* accepts what it wrote (release-validation.ts:1178-1351).                  *)
CompletedIsAccepted == machine.stage = "completed" => ReceiptHolds(Receipt)
=============================================================================
