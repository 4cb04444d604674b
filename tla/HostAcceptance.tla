--------------------------- MODULE HostAcceptance ---------------------------
(***************************************************************************)
(* The acceptance of a release on a real host.  A script                    *)
(* (host-acceptance/start-session.mjs) starts an observer                   *)
(* (host-acceptance/src/*.cs) and publishes a descriptor of the session;    *)
(* every MCP process that is asked for something reads it and connects to   *)
(* the pipe of the observer, once (src/mcp/host-acceptance-client.ts), and  *)
(* tells it of the one delegate that the descriptor names.  The observer    *)
(* wants to see a host go away for good, a new one come up, and the         *)
(* delegate cancelled there by Stop; only then it writes a receipt.         *)
(*                                                                          *)
(* The pipe, the processes and their handles are those of Windows.  A       *)
(* request is taken by what StdioSession checks of its events.              *)
(***************************************************************************)
EXTENDS Naturals, Sequences

CONSTANTS
  Apps,    \* the hosts: a ChatGPT process with its app server
  Mcps,    \* their MCP processes
  AppOf,   \* the host of each
  First,   \* the MCP process that runs, with its host, when a session begins
  Asks,        \* bound: what an MCP process may be asked for, once each
  MaxBuffered  \* bound: the frames in the pipe; writing is slow when it is full

ASSUME HostAssumption ==
  AppOf \in [Mcps -> Apps] /\ First \in Mcps /\ 0 \notin Mcps
  /\ Asks \in [Mcps -> SUBSET {"review", "delegate"}] /\ MaxBuffered \in Nat \ {0}

VARIABLES
  app,       \* the hosts: [state, before], before being what had exited at its start
  mcp,       \* the MCP processes, with the client and the request of each
  pipe,      \* the instance of the named pipe, if any
  observer,  \* where HostAcceptanceObserverSession.Run has come to
  script,    \* where main() of the script has come to
  lines,     \* the stdout of the observer that the script has not read
  disk       \* [descriptor, receipt, markers]

vars == <<app, mcp, pipe, observer, script, lines, disk>>

Phases == <<"READY", "OLD_HOST_BOUND", "OLD_HOST_EXITED", "REQUEST_STARTED">>
Events == <<"requestStarted", "sdkAbort", "ownedExit", "handlerCancelled", "inFlightRemoved">>

NoPipe == [open |-> FALSE, peer |-> 0, buffer |-> <<>>, eof |-> FALSE]

NewApp == [state |-> "unborn", before |-> [apps |-> {}, mcps |-> {}]]

(* asked: the requests a host has made of it, at most one of each kind.     *)
(* loading: openRequest() waits for the descriptor.  attempt: the           *)
(* SessionAttempt for the nonce.  tail: the frames it has still to write.   *)
NewMcp == [state |-> "unborn", asked |-> {}, loading |-> "none",
           attempt |-> "none", terminal |-> "open", tail |-> <<>>, claimed |-> FALSE,
           request |-> "none", sink |-> FALSE, agent |-> FALSE,
           stopped |-> FALSE, told |-> FALSE, reason |-> "none", status |-> "none"]

Init ==
  /\ app = [a \in Apps |-> [NewApp EXCEPT !.state = IF a = AppOf[First] THEN "running" ELSE @]]
  /\ mcp = [m \in Mcps |-> [NewMcp EXCEPT !.state = IF m = First THEN "running" ELSE @]]
  /\ pipe = NoPipe
  /\ observer = [at |-> "starting", old |-> 0, new |-> 0, frames |-> 0]
  /\ script = [at |-> "consuming", index |-> 0, published |-> FALSE,
               failed |-> FALSE, interrupted |-> FALSE]
  /\ lines = <<>>
  /\ disk \in [descriptor : {"none", "other"}, receipt : {FALSE}, markers : {{}}]

-----------------------------------------------------------------------------
(* The hosts.  Nothing makes a user close one before opening another, and   *)
(* an MCP process may outlive its host for a while.                         *)
Alive(m) == mcp[m].state \in {"running", "closing"}
GoneNow == {m \in Mcps : mcp[m].state = "gone"}
ExitedNow == {a \in Apps : app[a].state = "exited"}

AppStarts(a) ==
  /\ app[a].state = "unborn"
  /\ app' = [app EXCEPT ![a] = [state |-> "running",
                                before |-> [apps |-> ExitedNow, mcps |-> GoneNow]]]
  /\ UNCHANGED <<mcp, pipe, observer, script, lines, disk>>

AppExits(a) ==
  /\ app[a].state = "running" /\ app' = [app EXCEPT ![a].state = "exited"]
  /\ UNCHANGED <<mcp, pipe, observer, script, lines, disk>>

McpStarts(m) ==
  /\ mcp[m].state = "unborn" /\ app[AppOf[m]].state = "running"
  /\ mcp' = [mcp EXCEPT ![m].state = "running"]
  /\ UNCHANGED <<app, pipe, observer, script, lines, disk>>

Hangup(m) == IF pipe.peer = m THEN [pipe EXCEPT !.eof = TRUE] ELSE pipe

(* An attempt that is over.  What becomes of its delegate nobody hears any  *)
(* more; that it may leave the marker is all that matters.                  *)
Over(x, how) ==
  LET over == [x EXCEPT !.attempt = how, !.terminal = "abortive", !.tail = <<>>, !.sink = FALSE]
  IN IF x.request \in {"running", "ending"}
     THEN [over EXCEPT !.request = IF x.agent THEN "unobserved" ELSE "gone", !.agent = FALSE,
                       !.stopped = FALSE, !.told = FALSE, !.reason = "none", !.status = "none"]
     ELSE over

(* The end of the process closes its side of the pipe, and takes its agent  *)
(* with it.                                                                 *)

McpExits(m) ==
  /\ Alive(m)
  /\ mcp' = [mcp EXCEPT ![m] = [Over([@ EXCEPT !.agent = FALSE], "ended") EXCEPT
                                  !.state = "gone", !.asked = {}, !.loading = "none"]]
  /\ pipe' = Hangup(m)
  /\ UNCHANGED <<app, observer, script, lines, disk>>

-----------------------------------------------------------------------------
(* The client.  openRequest() is called for every request; it goes on once  *)
(* the descriptor is read.                                                  *)
Ask(m, task) ==
  /\ mcp[m].state = "running" /\ mcp[m].loading = "none"
  /\ task \in Asks[m] \ mcp[m].asked
  /\ mcp' = [mcp EXCEPT ![m].loading = task, ![m].asked = @ \cup {task}]
  /\ UNCHANGED <<app, pipe, observer, script, lines, disk>>

(* enqueue(): nothing after the end of the attempt was decided.             *)
Enqueue(x, event) ==
  IF x.attempt \in {"failed", "ended"} \/ x.terminal # "open" THEN x
  ELSE [x EXCEPT !.tail = Append(@, event)]

\* Mutant: a removed request leaves the connection open.
TellForever(x, event) ==
  IF ~x.sink THEN x
  ELSE [Enqueue(x, event) EXCEPT !.sink = (event # "inFlightRemoved")]

(* requestSink(): events go to the attempt until the request is removed,    *)
(* which also ends the attempt, behind the frames that wait.                *)
Tell(x, event) ==
  IF ~x.sink THEN x
  ELSE LET sent == Enqueue(x, event) IN
       IF event # "inFlightRemoved" THEN sent
       ELSE [sent EXCEPT !.sink = FALSE,
                         !.terminal = IF @ = "open" THEN "graceful" ELSE @]

(* claim(): one request for the life of the attempt. *)
Claimable(x) == ~x.claimed /\ x.attempt \notin {"failed", "ended"} /\ x.terminal = "open"

(* The delegate begins.  A session that closed meanwhile turns it away,     *)
(* though the attempt is claimed; one that was stopped has no agent.        *)
Begin(x) ==
  LET begun == [x EXCEPT !.request = "running", !.sink = TRUE, !.agent = ~x.stopped,
                         !.status = IF x.stopped THEN "cancelled" ELSE @]
      started == Tell(begun, "requestStarted")
  IN IF x.state # "running" THEN [x EXCEPT !.request = "gone"]
     ELSE IF x.stopped THEN [Tell(started, "sdkAbort") EXCEPT !.told = TRUE] ELSE started

(* It is read whole or not at all: its file is linked into place.           *)
Found == disk.descriptor = "ours"

Loaded(m) ==
  LET x == [mcp[m] EXCEPT !.loading = "none"]
      attempting == IF Found /\ x.attempt = "none"
                    THEN [x EXCEPT !.attempt = "connecting", !.tail = <<"hello">>] ELSE x
  IN /\ Alive(m) /\ mcp[m].loading # "none"
     /\ mcp' = [mcp EXCEPT ![m] =
          IF mcp[m].loading = "review" THEN attempting
          ELSE IF Found /\ Claimable(attempting) THEN Begin([attempting EXCEPT !.claimed = TRUE])
          ELSE [attempting EXCEPT !.request = "unobserved"]]
     /\ UNCHANGED <<app, pipe, observer, script, lines, disk>>

(* The pipe has one instance for one client.                                *)
Connect(m) ==
  /\ Alive(m) /\ mcp[m].attempt = "connecting" /\ pipe.open /\ pipe.peer = 0
  /\ IF mcp[m].terminal = "abortive"
       THEN /\ mcp' = [mcp EXCEPT ![m] = Over(@, "ended")]
            /\ pipe' = [pipe EXCEPT !.peer = m, !.eof = TRUE]
       ELSE /\ mcp' = [mcp EXCEPT ![m].attempt = "open"]
            /\ pipe' = [pipe EXCEPT !.peer = m]
  /\ UNCHANGED <<app, observer, script, lines, disk>>

(* A failed attempt is never made again by this process.                    *)
ConnectFails(m) ==
  /\ Alive(m) /\ mcp[m].attempt = "connecting" /\ (pipe.open => pipe.peer # 0)
  /\ mcp' = [mcp EXCEPT ![m] = Over(@, "failed")]
  /\ UNCHANGED <<app, pipe, observer, script, lines, disk>>

(* The tail of the attempt: one frame after the other, then the close.  An  *)
(* abort leaves out the frames; a pipe the observer has left fails it.      *)
Write(m) ==
  /\ Alive(m) /\ mcp[m].attempt = "open"
  /\ mcp[m].tail # <<>> \/ mcp[m].terminal # "open"
  /\ IF mcp[m].tail # <<>> /\ mcp[m].terminal # "abortive" /\ pipe.peer = m
       THEN /\ Len(pipe.buffer) < MaxBuffered
            /\ mcp' = [mcp EXCEPT ![m].tail = Tail(@)]
            /\ pipe' = [pipe EXCEPT !.buffer = Append(@, Head(mcp[m].tail))]
       ELSE /\ mcp' = [mcp EXCEPT ![m] = Over(@, "ended")]
            /\ pipe' = Hangup(m)
  /\ UNCHANGED <<app, observer, script, lines, disk>>

(* shutdown(), when the session of the process has settled.                 *)
Shutdown(m) ==
  LET x == mcp[m] IN
  /\ x.state = "closing" /\ x.loading = "none" /\ x.request \in {"none", "unobserved", "gone"}
  /\ x.terminal = "open"
  /\ mcp' = [mcp EXCEPT ![m].terminal = "abortive"]
  /\ UNCHANGED <<app, pipe, observer, script, lines, disk>>

-----------------------------------------------------------------------------
(* The request: the events of its lifecycle (tools.ts), as StdioSession has *)
(* them for a delegate run by Kimi.  Both what the host sends for Stop and  *)
(* the close of the session abort its signal.                               *)
Cancelled(x, why) ==
  LET reasoned == IF x.agent /\ x.reason = "none" THEN [x EXCEPT !.reason = why] ELSE x
  IN IF x.request \in {"running", "ending"} /\ ~x.told
     THEN [Tell(reasoned, "sdkAbort") EXCEPT !.told = TRUE] ELSE reasoned

Stop(m) ==
  /\ mcp[m].state = "running" /\ ~mcp[m].stopped
  /\ mcp[m].loading = "delegate" \/ mcp[m].request \in {"running", "ending"}
  /\ mcp' = [mcp EXCEPT ![m] = [Cancelled(@, "cancelled") EXCEPT !.stopped = TRUE]]
  /\ UNCHANGED <<app, pipe, observer, script, lines, disk>>

SessionCloses(m) ==
  /\ mcp[m].state = "running"
  /\ mcp' = [mcp EXCEPT ![m] = [Cancelled(@, "session_shutdown") EXCEPT !.state = "closing"]]
  /\ UNCHANGED <<app, pipe, observer, script, lines, disk>>

(* The agent, which was told to leave the marker as the last thing it does, *)
(* does so, and it may end by itself.  Of a delegate without a sink the     *)
(* marker is all that matters.                                              *)
LeaveMarker(m) ==
  /\ mcp[m].agent \/ (mcp[m].request = "unobserved" /\ Alive(m))
  /\ m \notin disk.markers
  /\ disk' = [disk EXCEPT !.markers = @ \cup {m}]
  /\ UNCHANGED <<app, mcp, pipe, observer, script, lines>>

AgentEnds(m) ==
  /\ Alive(m) /\ mcp[m].agent /\ mcp[m].reason = "none"
  /\ \E status \in {"completed", "failed"} :
       LET x == [mcp[m] EXCEPT !.agent = FALSE, !.request = "ending", !.status = status] IN
       mcp' = [mcp EXCEPT ![m] = IF status = "failed" THEN Tell(x, "ownedExit") ELSE x]
  /\ UNCHANGED <<app, pipe, observer, script, lines, disk>>

\* Mutant: a shutdown is told as the exit the observer waits for.
AgentTerminatedSomehow(m) ==
  /\ Alive(m) /\ mcp[m].agent /\ mcp[m].reason # "none"
  /\ \E status \in {"cancelled", "failed"} :
       LET x == [mcp[m] EXCEPT !.agent = FALSE, !.request = "ending", !.status = status] IN
       mcp' = [mcp EXCEPT ![m] = Tell(x, "ownedExit")]
  /\ UNCHANGED <<app, pipe, observer, script, lines, disk>>

(* What is told of the agent is the reason it was terminated for, once it   *)
(* is drained; the run may fail all the same.                               *)
AgentTerminated(m) ==
  /\ Alive(m) /\ mcp[m].agent /\ mcp[m].reason # "none"
  /\ \E status \in {"cancelled", "failed"} :
       LET x == [mcp[m] EXCEPT !.agent = FALSE, !.request = "ending", !.status = status] IN
       mcp' = [mcp EXCEPT ![m] = IF x.reason = "cancelled" THEN Tell(x, "ownedExit") ELSE x]
  /\ UNCHANGED <<app, pipe, observer, script, lines, disk>>

Settle(m) ==
  LET x == mcp[m]
      ended == IF x.status = "cancelled" THEN Tell(x, "handlerCancelled") ELSE x
  IN /\ Alive(m) /\ x.request \in {"running", "ending"} /\ ~x.agent
     /\ mcp' = [mcp EXCEPT ![m] = [Tell(ended, "inFlightRemoved") EXCEPT !.request = "gone"]]
     /\ UNCHANGED <<app, pipe, observer, script, lines, disk>>

-----------------------------------------------------------------------------
(* The observer.  What fails anywhere ends it with an exit code, and with   *)
(* its pipe.  From then on the hosts have no part in anything and are no    *)
(* longer followed.                                                         *)
ObserverOver == observer.at \in {"passed", "failed", "killed"}
EndsAs(end) ==
  /\ observer' = [observer EXCEPT !.at = end, !.old = 0, !.new = 0, !.frames = 0]
  /\ pipe' = NoPipe
  /\ app' = [a \in Apps |-> NewApp] /\ mcp' = [m \in Mcps |-> NewMcp]
Fails == EndsAs("failed")
Goes(next) == observer' = next /\ UNCHANGED <<app, mcp>>

(* A line is written as long as the script reads.                           *)
Publish(phase) == script.at = "consuming" /\ lines' = Append(lines, phase)
Unread == script.at # "consuming" /\ UNCHANGED lines

CreatePipe ==
  /\ observer.at \in {"starting", "restarting"}
  /\ LET first == observer.at = "starting" IN
     \/ /\ Publish(IF first THEN "READY" ELSE "OLD_HOST_EXITED")
        /\ pipe' = [NoPipe EXCEPT !.open = TRUE]
        /\ Goes([observer EXCEPT !.at = IF first THEN "accepting" ELSE "reaccepting"])
     \/ Unread /\ Fails
  /\ UNCHANGED <<script, disk>>

(* The handles of the peer, its parent and its grandparent are taken while  *)
(* they run.                                                                *)
Accept ==
  /\ observer.at \in {"accepting", "reaccepting"} /\ pipe.peer # 0
  /\ IF Alive(pipe.peer) /\ app[AppOf[pipe.peer]].state = "running"
       THEN /\ Goes([observer EXCEPT !.at = IF @ = "accepting" THEN "greeting" ELSE "regreeting"])
            /\ UNCHANGED pipe
       ELSE Fails
  /\ UNCHANGED <<script, lines, disk>>

Received(event) == pipe.buffer # <<>> /\ Head(pipe.buffer) = event
NotReceived(event) == IF pipe.buffer = <<>> THEN pipe.eof ELSE Head(pipe.buffer) # event
Consume(next) == Goes(next) /\ pipe' = [pipe EXCEPT !.buffer = Tail(@)]

ObserveOldHello ==
  /\ observer.at = "greeting"
  /\ \/ /\ Received("hello") /\ Publish("OLD_HOST_BOUND")
        /\ Consume([observer EXCEPT !.at = "waiting", !.old = pipe.peer])
     \/ Received("hello") /\ Unread /\ Fails
     \/ NotReceived("hello") /\ Fails /\ UNCHANGED lines
  /\ UNCHANGED <<script, disk>>

(* All three processes are waited for, and the connection has to end with   *)
(* nothing more in it.                                                      *)
ObserveOldExited ==
  /\ observer.at = "waiting"
  /\ mcp[observer.old].state = "gone" /\ app[AppOf[observer.old]].state = "exited"
  /\ IF pipe.buffer = <<>>
       THEN pipe' = NoPipe /\ Goes([observer EXCEPT !.at = "restarting"])
       ELSE Fails
  /\ UNCHANGED <<script, lines, disk>>

(* oldLatestExit < the start of the new host; a process that has exited is  *)
(* never met again.                                                         *)
StartedAfter(new, old) ==
  /\ AppOf[old] \in app[AppOf[new]].before.apps
  /\ old \in app[AppOf[new]].before.mcps

ObserveNewHello ==
  /\ observer.at = "regreeting"
  /\ \/ /\ Received("hello") /\ StartedAfter(pipe.peer, observer.old)
        /\ Consume([observer EXCEPT !.at = "observing", !.new = pipe.peer])
     \/ (NotReceived("hello") \/ (Received("hello") /\ ~StartedAfter(pipe.peer, observer.old)))
        /\ Fails
  /\ UNCHANGED <<script, lines, disk>>

(* The five events, each at its turn.                                       *)
Observe ==
  LET event == Events[observer.frames + 1]
      first == observer.frames = 0 IN
  /\ observer.at = "observing" /\ observer.frames < Len(Events)
  /\ \/ /\ Received(event)
        /\ IF first THEN Publish("REQUEST_STARTED") ELSE UNCHANGED lines
        /\ Consume([observer EXCEPT !.frames = @ + 1])
     \/ Received(event) /\ first /\ Unread /\ Fails
     \/ NotReceived(event) /\ Fails /\ UNCHANGED lines
  /\ UNCHANGED <<script, disk>>

RequireCleanEof ==
  /\ observer.at = "observing" /\ observer.frames = Len(Events)
  /\ \/ /\ pipe.buffer = <<>> /\ pipe.eof /\ pipe' = NoPipe
        /\ Goes([observer EXCEPT !.at = "checking"])
     \/ pipe.buffer # <<>> /\ Fails
  /\ UNCHANGED <<script, lines, disk>>

RequireCompletionMarkerAbsent ==
  /\ observer.at = "checking"
  /\ IF disk.markers = {} THEN Goes([observer EXCEPT !.at = "writing"]) /\ UNCHANGED pipe
     ELSE Fails
  /\ UNCHANGED <<script, lines, disk>>

WriteReceipt ==
  /\ observer.at = "writing" /\ Goes([observer EXCEPT !.at = "passed"])
  /\ disk' = [disk EXCEPT !.receipt = TRUE]
  /\ UNCHANGED <<pipe, script, lines>>

-----------------------------------------------------------------------------
(* The script: consumeObserverLifecycle(), then the end of main().          *)
Consumed(next) == script' = next /\ lines' = Tail(lines)
Broken == [script EXCEPT !.failed = TRUE, !.at = "removing"]

\* Mutant: a descriptor that is there already is taken for the own one.
ReadLineOver ==
  /\ script.at = "consuming" /\ lines # <<>>
  /\ LET next == [script EXCEPT !.index = @ + 1] IN
     IF Head(lines) # "READY" THEN Consumed(next) /\ UNCHANGED disk
     ELSE /\ Consumed([next EXCEPT !.published = TRUE])
          /\ disk' = [disk EXCEPT !.descriptor = "ours"]
  /\ UNCHANGED <<app, mcp, pipe, observer>>

(* link() refuses a path that is taken.                                     *)
PublishDescriptor ==
  disk.descriptor = "none" /\ disk' = [disk EXCEPT !.descriptor = "ours"]
RemoveExactDescriptor ==
  IF disk.descriptor = "ours" THEN [disk EXCEPT !.descriptor = "none"] ELSE disk

(* A phase at its turn; READY publishes the descriptor, where none may be.  *)
ReadLine ==
  /\ script.at = "consuming" /\ lines # <<>>
  /\ LET next == [script EXCEPT !.index = @ + 1] IN
     \/ Head(lines) # Phases[script.index + 1] /\ Consumed(Broken) /\ UNCHANGED disk
     \/ /\ Head(lines) = Phases[script.index + 1] /\ Head(lines) # "READY"
        /\ Consumed(next) /\ UNCHANGED disk
     \/ /\ Head(lines) = Phases[script.index + 1] /\ Head(lines) = "READY"
        /\ \/ PublishDescriptor /\ Consumed([next EXCEPT !.published = TRUE])
           \/ disk.descriptor # "none" /\ Consumed(Broken) /\ UNCHANGED disk
  /\ UNCHANGED <<app, mcp, pipe, observer>>

(* The output ends with the observer: all phases and exit code 0, or else.  *)
LinesEnd ==
  /\ script.at = "consuming" /\ lines = <<>> /\ ObserverOver
  /\ script' = [script EXCEPT !.at = "removing",
                  !.failed = script.index # Len(Phases) \/ observer.at # "passed"]
  /\ UNCHANGED <<app, mcp, pipe, observer, lines, disk>>

RemoveDescriptor ==
  /\ script.at = "removing"
  /\ script' = [script EXCEPT !.at = "leaving"]
  /\ IF script.published THEN disk' = RemoveExactDescriptor ELSE UNCHANGED disk
  /\ UNCHANGED <<app, mcp, pipe, observer, lines>>

Killed == IF ObserverOver THEN UNCHANGED <<observer, pipe, app, mcp>> ELSE EndsAs("killed")

(* A session that broke off kills the observer it holds, and waits.         *)
Leave ==
  /\ script.at = "leaving"
  /\ IF script.failed THEN Killed ELSE UNCHANGED <<observer, pipe, app, mcp>>
  /\ script' = [script EXCEPT
       !.at = IF script.failed \/ script.interrupted THEN "failed" ELSE "succeeded"]
  /\ UNCHANGED <<lines, disk>>

ScriptOver == script.at \in {"succeeded", "failed", "dead"}

Interrupt ==
  /\ ~ScriptOver /\ ~script.interrupted /\ Killed
  /\ script' = [script EXCEPT !.interrupted = TRUE]
  /\ UNCHANGED <<lines, disk>>

(* A second SIGINT finds no listener.                                       *)
ScriptDies ==
  /\ ~ScriptOver /\ script.interrupted
  /\ script' = [script EXCEPT !.at = "dead"] /\ lines' = <<>>
  /\ UNCHANGED <<app, mcp, pipe, observer, disk>>

(* Another session on this machine ends and takes its descriptor with it.   *)
OtherEnds ==
  /\ disk.descriptor = "other" /\ disk' = [disk EXCEPT !.descriptor = "none"]
  /\ UNCHANGED <<app, mcp, pipe, observer, script, lines>>

-----------------------------------------------------------------------------
ObserverSteps ==
  \/ CreatePipe \/ Accept \/ ObserveOldHello \/ ObserveOldExited \/ ObserveNewHello
  \/ Observe \/ RequireCleanEof \/ RequireCompletionMarkerAbsent \/ WriteReceipt
ScriptSteps == ReadLine \/ LinesEnd \/ RemoveDescriptor \/ Leave
ClientSteps(m) == Loaded(m) \/ Connect(m) \/ ConnectFails(m) \/ Write(m) \/ Shutdown(m)
RequestSteps(m) == AgentTerminated(m) \/ Settle(m)
HostSteps(m) ==
  \/ McpStarts(m) \/ McpExits(m) \/ Stop(m) \/ SessionCloses(m)
  \/ \E task \in {"review", "delegate"} : Ask(m, task)
AgentSteps(m) == LeaveMarker(m) \/ AgentEnds(m)

Finished == ScriptOver /\ ObserverOver /\ UNCHANGED vars

Next ==
  \/ ObserverSteps \/ ScriptSteps \/ Interrupt \/ ScriptDies \/ OtherEnds \/ Finished
  \/ ~ObserverOver /\ \E a \in Apps : AppStarts(a) \/ AppExits(a)
  \/ ~ObserverOver /\ \E m \in Mcps :
       ClientSteps(m) \/ RequestSteps(m) \/ HostSteps(m) \/ AgentSteps(m)

(* Programs go on; users, hosts and agents need not.                        *)
Fairness ==
  /\ WF_vars(ObserverSteps) /\ WF_vars(ScriptSteps)
  /\ \A m \in Mcps : WF_vars(~ObserverOver /\ ClientSteps(m))
                     /\ WF_vars(~ObserverOver /\ RequestSteps(m))

Spec == Init /\ [][Next]_vars /\ Fairness

-----------------------------------------------------------------------------
(* A receipt tells the truth: the old host and its MCP process had exited   *)
(* before the new one started, the delegate ran there, had an agent when    *)
(* Stop was pressed, and neither the agent nor the marker it would have     *)
(* left is there (ObserverSession.cs:45-90, AcceptanceState.cs:185-245,     *)
(* host-acceptance-client.ts:205-262).                                      *)
ReceiptIsTrue ==
  disk.receipt =>
    LET old == observer.old
        new == mcp[observer.new] IN
    /\ old \in app[AppOf[observer.new]].before.mcps
    /\ AppOf[old] \in app[AppOf[observer.new]].before.apps
    /\ new.stopped /\ new.reason = "cancelled" /\ new.status = "cancelled"
    /\ new.request = "gone" /\ ~new.agent
    /\ observer.new \notin disk.markers

(* The script says success only with a receipt, with its descriptor gone    *)
(* and no observer left; it leaves its descriptor behind only if it was     *)
(* killed, and never touches that of another session                        *)
(* (start-session.mjs:608-652, 965-1017).                                   *)
ScriptIsHonest ==
  [][ /\ script'.at = "succeeded" => disk'.receipt /\ disk'.descriptor # "ours"
      /\ script'.at \in {"succeeded", "failed"} =>
           disk'.descriptor # "ours" /\ observer'.at \in {"passed", "failed", "killed"}
      /\ disk.descriptor = "other" /\ disk'.descriptor # "other" => UNCHANGED script ]_vars

(* Once the delegate that the new host was asked for is over, or the        *)
(* process that ran it is gone, the session comes to its end by itself      *)
(* (host-acceptance-client.ts:165-195, start-session.mjs:608-652).          *)
AcceptanceSettles ==
  \A m \in Mcps :
    observer.new = m /\ (mcp[m].request = "gone" \/ mcp[m].state = "gone") ~> ScriptOver
=============================================================================
