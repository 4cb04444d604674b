# codex-agent-tools in TLA+

This directory models codex-agent-tools: an MCP stdio server that offers
`external_review` and `external_delegate` to a host, runs each request as one
task of an external LLM agent (Kimi over ACP, Pi over a JSON-line RPC), and owns
every agent process it starts until nothing of it is left.  On Windows the
ownership rests on a small C# helper that keeps the agent in a Job object.
Around the server the repository has a qualification pipeline (a lock, a ledger
of checkpoints and a batch coordinator), a host acceptance observer, and release
tooling.

The specifications are written from the code at this commit.  `PROJECT.json`
lists the components, the hazards, the runs, the mutants (a plausible bug for
every property, which the run must notice), the theorems, and for every
definition the lines it translates.  Paths below are relative to the repository.

## Inventory

| Component | State | Operations | Talks to | What makes it correct |
|---|---|---|---|---|
| Helper lifecycle (`native/windows-job-helper/src/LifecycleMachine.cs`) | immutable record: state, owner of the cleanup, stop reason, failure stage, six facts | `Apply`, `ApplyFailure`, `ApplyStop` | called by three threads under the gate of `JobSession` | the first disposition wins; no legal call is refused; the terminal frame states it |
| Helper threads (`SessionCoordinator.cs`, `JobSession.cs`, `ControlChannel.cs`) | lifecycle, Job and process handles, an auto-reset event, the control pipe, flags | launch, drain, read exit code, reserve and write the terminal frame, dispose; read frames; wait for the root | parent over fd 3; kernel | no orphan, no false EXIT, no lost wake-up |
| Frame codecs (`ControlProtocol.cs`, `src/runtime/windows-job-protocol.ts`) | partial frame, sequence position | `push`, `finish` | both ends of fd 3 | any split of the byte stream decodes alike; nothing after a terminal |
| Owned process (`src/runtime/windows-owned-agent-process.ts`) | a closure of some twenty variables, two promises | 12 event handlers, `terminate` | helper, adapters | `closed` settles once, resolves only of a drained tree; every failure is cleaned up |
| Keyed limiter (`src/runtime/limiter.ts`) | per key: active count and queue | `run`, `#drain`, abort of a waiter | task service | at most the limit, in order, no slot idle, nobody forgotten |
| Deadline (`src/runtime/deadline.ts`) | remaining time, timer | arm, fire, `cancel` | adapters | fires once, never early, not after `cancel` |
| POSIX termination (`src/runtime/process-tree.ts`) | none | SIGTERM, wait, SIGKILL | adapters | the group is gone; no other group is hit |
| MCP session (`src/mcp/stdio-session.ts`, `in-flight.ts`, `tools.ts`, `progress.ts`) | connected, closing, first failure; set of tasks; abort signal | `run`, `close`, `closeAdmission`, `drain`, tool handlers | host, task service | no task starts after close; the session ends only when all are done |
| Task service (`src/tasks/service.ts`) | the limiter | `review`, `delegate` | limiter, adapters, git | one adapter run per slot; a review that changes files is reported |
| Workspace walks (`src/evidence/workspace.ts`, `src/plugin/state-snapshot.ts`) | files found so far | capture, snapshot, compare | task service, isolated installation | what is named as changed has changed, and the other way round |
| Readers of events (`src/tasks/command-observations.ts`, `pi-command-lifecycle.ts`) | fold over the events of a run | observations, lifecycles, retries | smoke tests, service | the commands read are those that ran |
| Smoke tests and gates (`src/smoke`, `evidence-contract.ts`, parts of `manifest.ts`, `verifier.ts`, `capability-index.ts`) | one piece of evidence | write, publish, accept | adapters, ledger | all gates judge a run alike |
| Pi and Kimi adapters (`src/adapters`) | a dozen flags per run: cancellation, internal failure, closure, exit | `run`: spawn, await ready, RPC, cancel, drain | owned process, deadline, signals | one status that agrees with what happened; a completed run has seen its process end, and one that cannot end it says so |
| Qualification lock (`src/qualification/lock.ts`) | a directory with `owner.json` | acquire, release, recover | other processes, file system | one owner; a dead owner's lock is freed once, with a terminal manifest |
| Ledger and coordinator (`manifest.ts`, `coordinator.ts`, `scripts/gate-requalification.ts`) | files of a batch: checkpoints, evidence, terminal manifest | publish, load, recover | lock, preflight, case runner | the files on disk always describe a legal prefix of a batch; one terminal |
| Preflight, verifier, index (`preflight.ts`, `verifier.ts`, `capability-index.ts`) | what has been read | read, compare, accept or refuse | git, files, ledger | what is accepted has existed at one moment |
| Host acceptance (`src/mcp/host-acceptance-client.ts`, `host-acceptance/src`, `host-acceptance/start-session.mjs`) | queue of frames, pipe; observer; descriptor and receipt on disk | connect, emit, shutdown; accept, write receipt; publish, report | session, hosts | a receipt tells the truth; the session comes to an end |
| Release validation (`src/release/release-validation.ts`, `.github/workflows/release.yml`) | markers, receipts, tags, registry | verify a beta, verify a stable version | git, npm, host receipt | what is released is what was tried |
| Registry, environment, locators, doctor, scripts | tables and files | pure checks, one pass | | data validation |

What is hard here: three threads and a kernel around one state machine in the
helper; events of six streams and a child in any order in the wrapper;
cancellation by three parties against completion in the adapters; shutdown
against admission in the session; crashes between any two file operations in
the qualification pipeline; files that change while they are read; three programs
around a pipe of which each may be killed.  `PROJECT.json` "hazards" lists each at
its line.

## Modules

    LifecycleMachine ---- JobHelper ------ implements ---> OwnedTarget
          |                  \------------ implements ---> HelperWire
          |                                                  |
          +------------------------------------------ OwnedProcess --- implements ---> OwnedAgent
    KeyedLimiter --------------------------- implements ---> BoundedPool
                                                                 |
    StdioSession ----------------------------------------------- +
          \--------------------------------- implements ---> TaskServer

    AdapterRun <- PiClient, KimiClient            one run of each client
    PiClient, KimiClient <- Clients               the two side by side
    TaskEvents <- EvidenceGates                   its events, and who judges it
    WorkspaceEvidence                             the workspace before and after
    QualificationLedger <- Qualification          batches and recoveries
    FrozenCandidate                               who reads the repository
    HostAcceptance                                hosts, client, observer, script
    FrameDecoder                                  the bytes of fd 3
    ControlChannel                                the reads at its other end
    HostReceipt <- ReleaseValidation              the receipt, and the release it allows

    JobHelperProofs                               theorems: the helper
    QueueLemmas -> KeyedLimiterProofs,            the limiter, WorkspaceEvidence
                   StdioSessionProofs,            the session
                   ClientProofs                   both clients, TaskEvents, EvidenceGates
                   ControlPipeProofs              OwnedProcess, ControlChannel, FrameDecoder
    QualificationProofs                           Qualification, FrozenCandidate
    AcceptanceProofs                              HostAcceptance, HostReceipt, ReleaseValidation

`MC*` modules hold the small instances; each `.cfg` is one run.  Where two models
share nothing, a behaviour of a run is of the one or of the other, and the run
checks them side by side: the clients and the streams of events (`MCAdapters`), the
wrapper, the decoder and the reads of the pipe (`MCOwnedWire`), the limiter and the
walks (`MCTaskService`), the batches, the readers, the host receipt and the release
(`MCQualification`).  The session of the acceptance runs alone (`MCHostAcceptance`).

**LifecycleMachine** is the record and the transition function of
`LifecycleMachine.cs`.  `Apply(m, actor, event)` and `ApplyFailure(m, actor,
stage)` are sets of successors: empty where the code throws
`LifecycleViolationException`.

**JobHelper** composes it with its callers.  `pc` is the point in
`SessionCoordinator.RunCore`, `rpc` the point in `ControlChannel.ReadLoop`, `wpc`
the point in `WaitForRoot`; a step is what a thread does while it holds the gate,
or one system call, which may succeed or fail.  `ResumeAndPublishReady` is the
one place where the gate is held over two steps, so the reader and the waiter
are blocked there (`GateFree`).  The kernel kills the processes of a condemned
Job one at a time, the target spawns and exits as it likes, the parent writes any
frames and closes the pipe at any time, and the helper may be killed anywhere.
Of a frame only its type, reason, stage and whether the exit code was read are
kept.

**OwnedTarget** is what the helper promises about the process tree, without
threads: it never reports EXIT of a living tree, never runs a condemned one, and
condemns what is left when it goes.  **HelperWire** is what the other end of the
pipe can see: frames in order, the first stop, whether the target is drained,
the exit status.  JobHelper is checked to implement both.

**OwnedProcess** is the wrapper in Node at the other end.  The variables of the
closure are the fields of the record `w`; `RecordFailure`, `FailAndClean`,
`RequestPrivateProtocolStop`, `TrySettle` and `OnFrame` are functions on it, one
per function of the code; an action is one event with the microtasks it queues.
Its helper is HelperWire, so the two sides are verified against one interface
rather than multiplied; with `MaxRogue > 0` the helper writes anything at all.
**OwnedAgent** is the contract the adapters program against.

**KeyedLimiter** has a state object per key named by the job that created it, so
that two objects of one key can be told apart; `BeginWork`, `Settle` and
`Release` are the three turns of the promise chain, because `run` and `abort` may
come between any two.  **BoundedPool** is the same thing without objects and
microtasks.

**StdioSession** is the session (`s`, the variables of `createMcpStdioSession`),
the tasks in flight and, per request, where its handler stands: `r[q].stage` runs
from the sink it asks for through the limiter, the workspace checks and the
adapter to its removal from `InFlightTasks`.  An action is what happens between
two awaits.  `AbortRequest` is one abort of `extra.signal` with all its listeners
(the lifecycle, the limiter while the job waits, the adapter), whether it comes from
a cancellation or from `server.close()`; the shutdown signal is another, which only
adapters watch.  Slots are taken from BoundedPool; an agent by what the
models of the clients show of it: a run that completed has seen its process end
(`AgentEnds`), one that failed or was cancelled may return with the process alive
(`AgentLeft`), when `terminate()` or `closed` rejects on Windows, or on POSIX the kill of
the group is refused or the child does not close within a second.  What is left behind
is nobody's any more and may end by itself (`LeftAgentDies`).  Kimi and Pi differ in one point that matters here: Kimi gives up its
listeners before its process is gone (stage `leaving`).  The MCP SDK is external:
`connect` starts the transport before anything is received, and `close` aborts
every request it is handling.  **TaskServer** is what the host may rely on: a gate
that closes once, tasks that are admitted only before, an end when none is left.

**AdapterRun** is what both clients have around them: the signals of caller and
session, the deadline, which is armed in pieces, and the agent.  On Windows the
agent is OwnedAgent's promise, on POSIX a process group that
`terminatePosixProcessGroup` kills, for up to three callers at a time.  **PiClient**
is `runPiRpc` and **KimiClient** `runKimiAcp`: the variables of the closure are the
fields of `run`, `run.stage` says which `await` the coroutine has come to, a
`Resume...` action is the code from one await to the next, with `catch` and
`finally` (`Throw`, `Leave`, `Finally`), and every event handler is an action.  An
event is delivered only when the coroutine waits (`Quiet`), as Node runs microtasks
first.  The functions of the closures work on a `World`, the pair of the closure's
record and its agent.  Pi may say anything out of turn; Kimi answers one request at a
time, because the protocol has ids.

**TaskEvents** has the folds over the events of a run: command observations, Pi
lifecycles, review violations, retries.  The references beside them look at the
whole stream at once.  **EvidenceGates** follows one run through everybody who
judges it: adapter and service, the checks of the smoke test, what is published, and
the acceptance by ledger, verifier and capability index, each with the rules it has
in the code.  **WorkspaceEvidence** is the walk of `captureWorkspace` and that of
`captureSnapshot`, entry by entry, while others write.  Which runs a stream of events may
be of is the constant operator `Runs` of EvidenceGates; the run takes a few
(`MCRuns`), the theorem takes any.

**QualificationLedger** is the directory of a batch as a value, and what
`manifest.ts` makes of it: whether it loads, how it may end, which manifest it gives.
**Qualification** has the processes that write it: `pc` of a batch names the next call
of `runQualificationBatch`, `pc` of a recovery that of `recoverQualificationLock`;
between two actions anything may crash, fail, or be recovered by somebody else.
`raced` and `misread` record that two recoveries ran at once or that a live process
was taken for dead.  **FrozenCandidate** has the programs that read a repository:
each is a sequence of questions (status, head, one of four ways to read a file),
translated from the calls of the code; a file is blocks behind an inode, so that a
write in place, a replacement, a truncation and a link are different things.  The
preflight builds the artifacts anew between its two readings of them, as a rule with the
same bytes (`RunCommand`).  The others may do anything to the files, go to a new commit or
back to an old one, and undo what they did; the one thing they cannot do is make git
status lie (`StatusIsTrue`).  `undone` records that they brought back something a
freezing program has had before it: a block in its place or a size of a file of the
candidate, a commit that was left, or a clean tree under the same commit.

**HostAcceptance** has the hosts and their MCP processes, the client in each, the
pipe, the observer and the script.  `Write` is the tail of the client's promise chain,
`Over` the end of an attempt, `EndsAs` the end of the observer, `disk` the descriptor,
the receipt and the markers agents leave.

**FrameDecoder** is `WindowsJobFrameDecoder` on bytes: storage, start and end of
its buffer, one chunk being taken, the encoders, and every check a frame has to pass.
Numbers are read and written little-endian, as `readUInt32LE` and `writeUInt32LE` do.
**ControlChannel** opens up one read at the helper's end: `operation` is a
`PendingControlOperation`, which the kernel fills by itself (`inKernel`), whose event
the reader waits on under a lease, and which the main thread takes away
(`ShutdownAfterTerminal`, `RetirePendingRead`) whenever the terminal frame has been
written.  A call that uses memory, an event or the pipe lasts from one step to another
(`submitting`, `waiting`, `copying`, `retiring`), so that what goes away in between is
seen to be missing.

**HostReceipt** has the clock that HostAcceptance leaves out.  The observer counts ticks,
cuts them to milliseconds and decides; the validator of the release has the
milliseconds, the identities and a chain of hashes, and decides again.
**ReleaseValidation** is the repository around that: commits with their ancestors, two
tags, the registry.  The maintainers write the freeze receipt, the markers and the host
receipt into the files, true of what lies before them at the time, and then edit,
commit, check out something older or tag; `VerifyBeta` and `VerifyStable` are
`verifyReleaseValidation` of what the tag has, check by check.  A digest is the content
it is taken of.

## Runs

| Run | Instance | Shows |
|---|---|---|
| `job_helper` | 2 frames of 2 reasons, 1 descendant | the lifecycle refuses no call but the seal of the terminal frame, EXIT is earned, nothing is orphaned, the terminal frame states the disposition, a latched stop holds; every disposition ends the helper; it implements OwnedTarget, with its liveness, and HelperWire |
| `job_helper_terminal` | 2 frames, no descendant | violation: the helper can end without attempting a terminal frame (see Findings) |
| `owned_process` | two streams, two reasons; beside it five wires of frames, and three reads of the pipe | failures are cleaned up, no frame overtakes the configuration; refinement of OwnedAgent; `closed` settles after failure, termination and loss of the helper; the decoder returns what was sent, or refuses; reader, shutdown and kernel use nothing that is gone, keep nothing, and the reader does not stop silently |
| `owned_process_rogue` | any 3 frames, one stream (6.1M states) | a completion has been proved by the frames whatever the helper does |
| `limiter` | four jobs on a key of two slots; beside it two walks over five places | the limit, no idle slot; refinement of BoundedPool with its order and its service of every waiter; the comparison of two walks names what changed |
| `session_safety` | a delegate of Kimi and a review of Pi on one slot (503k states) | no task outlives the session, and no process that its adapter has not given up; nothing starts after close; slots, tasks and agents agree; events are in order; the outcome is the first failure; refinement of TaskServer |
| `session_live` | two reviews, one of each adapter, on one slot | a session asked to close settles and a cancelled request ends, though the host reads nothing and a terminated process may live on |
| `session_kimi` | one Kimi review | violation: a cancelled request may keep its agent (see Findings) |
| `adapters` | one run of each client on both platforms; every stream of three events (four of retries); every end of a run (843k states) | status, telemetry and drain say what happened; a cancelled run ends; the host reads the events as they are; the gates agree |
| `adapters_deaf` | Pi on Windows | violation: a run that is out of time may wait for ever (see Findings) |
| `qualification` | two batches, two recoveries, two cases, two faults; beside it one reader and two writes, a receipt on a clock of eight ticks, and a release of three commits and one edit (1.55M states) | the lock of a live batch holds, ledgers are true, a dead owner can be recovered, an authorization starts one batch; a file that was read was whole, a candidate existed unless a change was undone; the release accepts every receipt of a session that was completed; what is published as stable is what was frozen, published as beta and tried |
| `host_acceptance` | two hosts, two MCP processes, a pipe of one frame | a receipt is true, the script is honest, the session ends once the delegate is over |

Bounds.  Two frames are a configuration and a stop, or a frame out of place; a
second stop would only meet `StopIsInert`, and the end of the pipe supplies the
reason `SessionShutdown` that a latched stop must not become.  That more frames
change nothing is proved for every bound (`JobHelperProofs`).  `Cancelled` and
`ProtocolError` cover the branches on reasons.  One descendant is what tells "the
root is gone" from "the Job is empty".  Two slots with four jobs let two wait while
two hold; that keys do not interfere is proved.  Two of the three standard streams
suffice because the wrapper treats them alike and only asks whether all are closed;
the rogue needs three frames to write READY, a terminal and one too many.  Two
requests on a single slot are what it takes for one to wait while the other works; a
delegate and a review cover both handlers, and each adapter appears once.

In `adapters` a deadline has two pieces (`Timeouts` 2, `MaxTimerDelay` 1); a chunk
of stdout (`MCChunks`) is every response, a message or an end of each identity, and
the combinations that come in one read.  Retries of Pi are not pinned: the two further
commands meet what the others meet.  `MCBeginnings` says how a stream of events
begins and how many may follow: three with two calls and every patch are one call,
its update before or after, and another call; the streams with a beginning are those
that may pass a gate or carry more than `MaxObservations` (2, for 256).  Every way a
run can end is tried on a stream without events, and a good end with one thing wrong on
those that may pass; for other streams a good end suffices, because the gates read
the commands and the end separately.

In `qualification` `MaxFaults` 2 lets a crash follow a failed call; two cases are the
first and the last; `OneMisfortune` follows a recovery that misread a live owner only
with one batch and one recovery, since nothing is claimed of it but what `LedgerHonest`
keeps.  A reader meets two acts of the others, beside the build: one to change a file or the
commit, one to change another or to undo the first.  A new file holds one block, of two
kinds; it grows by another write.  `MaxSize` 2 makes
a file grow over the limit.  The index is tried with the changes that matter to it,
those of manifest, evidence and lock file; the manifest and the evidence of a batch
are changed only under it, the verifier asks the same of them.  The walks have two
edits, a directory, an ignored directory with a file, and a workspace that is not
there; a link leads to a file outside.  In `host_acceptance` two hosts are the old and
the new one, in any overlap, and `MaxBuffered` 1 makes every write wait once.  The
decoder has bytes below 8, a buffer that starts at 14 bytes and may grow to 38, chunks
of 1, 13 and 64 bytes, and one byte spoilt: frames end at, before and after the end of
chunk and buffer.  `MaxReads` 3 has a read that ends at once, one that the kernel
completes and one that only a cancellation ends.  A millisecond of two ticks
(`TicksPerMs`) lets two times differ for the observer and agree for the release; `LastTick` 7
is four milliseconds, of which old start, old exit and new start need one each.  Three
commits are the frozen one, the beta's and the stable one's; the edit is the thing that
changes on the way, wherever that is.  Two edits were tried as well (565k states).  The
two versions whose host session the code lets pass are a choice of `ReleaseInit`
(`maySkip`).

Fairness.  In JobHelper the three threads run when they can and the kernel
carries out kills; nothing obliges the parent, the target or a failure to happen,
and system calls that are about to fail spontaneously are not owed.  In
OwnedProcess the Node loop delivers what has happened (socket, writes, child
close), the helper ends once it is stopped, drained or has reported (which is what
`job_helper` shows of it), a kill takes effect, and the streams of a helper
that is gone close; adapters read stdout and stderr, without which Node would not
emit their close.  In AdapterRun and its clients the coroutine resumes, a call of the
system returns, a process that was told to end does (which is OwnedAgent's liveness),
and its end is reported; the agent need not answer, the timer need not fire, nobody
need cancel.  In KeyedLimiter the microtasks run and a work settles: that is
what the adapters above and the owned process below are for.  In StdioSession the
event loop runs what is queued, and the adapter of an agent that was terminated
returns, with the agent gone or not: `owned_process` shows that `closed` settles, which is
not to say that it resolves, and on POSIX the waits have time limits.  The host owes nothing: it need not read, cancel
or close.  In HostAcceptance the programs go on; users, hosts and agents owe
nothing.  Qualification has no liveness: a batch may stop anywhere, and nobody is
obliged to recover it.  `FairSpec` of the session also assumes that a Kimi process whose input ended exits, or
that `closed` rejects (`KimiExits`); `UncooperativeSpec`, of `session_kimi`, does not.

## Theorems

Each holds for every value of the constants that the named assumptions allow, where
the runs show it for one.  The assumptions say no more than that bounds are naturals,
sets of jobs and streams are finite, reasons are those the code knows, and the values
that stand for "nothing" are none of the others.

**JobHelperProofs**, for every `MaxFrames`, `MaxKids` and set of stop reasons:

- all invariants of `job_helper` (`OwnershipHolds`, `ExitFramesAreEarned`,
  `TerminalIsFaithful`, and `CallsAreLegal`, that the lifecycle accepts every
  event, stop, failure, root and empty Job the threads report to it; the seal of the
  terminal frame, which it can refuse, is the subject of `job_helper_terminal`) and its action property (`LatchedStopHolds`);
- `ImplementsWire`, that every behaviour of the helper is one of HelperWire, and
  `ImplementsOwnedTarget`, the same of the safety of OwnedTarget;
- `TypeCorrect`, `DrainIsReal`, `SuccessIsExit`, `CancelledNeverRan`, `WireOrder` and
  `FirstDisposition`, which need no run.

The inductive invariant `IInv` has six parts, each preserved with the help of
those before it.  `Typed`: the types, and a lifecycle that is `Coherent`, the
facts of the record that every transition keeps.  `Launching`: until the thread
is resumed nobody but the coordinator and the reader runs.  `Owned`: the process
is published before anyone waits for it and its Job is open or doomed.
`Drained`: what the lifecycle has recorded about the target is true of the kernel,
which needs that an empty Job starts nothing.  `Framed`: a reserved frame states
the sealed lifecycle and at most that one follows READY.  `Admissible`: at each
point of the three threads the lifecycle is in a state that admits the calls made
from there.  None of these is stated in the code, and without them the properties are
not inductive: that EXIT is earned, for instance, rests on `pc = "seal"` being reached
only with a failure or a known exit code.  The module begins with the effect of each
group of lifecycle events as a lemma, so that the proofs about threads never open the
machine.

**ControlPipeProofs** is about the two ends of fd 3.  For any number of reads,
`ReadsStaySafe`: a read at the helper's end uses no memory, event or pipe that is gone.
`ReadInv` says who holds what: the memory of a read belongs to the reader that submits
it, to the pending operation, or to the shutdown that retires it, and the event outlives
the memory only under the lease of a reader that waits.  For any streams, reasons and
any `MaxRogue`, thus whatever the other end writes, `CompletionsAreProven`,
`ConfigurationComesFirst` and `WrapperTypeCorrect`: `WrapperInv` ties what the wrapper
believes (`readySeen`, `terminal`, `decoder`) to the frames it has been delivered, and
keeps a completion, once reported, true of all of them.  `FailuresAreCleanedUp` and
`IsAnOwnedAgent` (the refinement of OwnedAgent) have the hypothesis `Sound`, that
`MaxRogue` is 0: a helper that lies about the tree can leave something behind, and no
wrapper could know.  What HelperWire allows is what `ImplementsWire` shows the helper to
do, so the two theorems meet in one interface.

Between the two is the decoder: `DecodingIsFaithful`, for any radix from 8 up, any limits
that fit into four bytes, any traffic that can be encoded, any spoilt byte and any lengths of
chunks.

- Numbers: what is written is read back and what is read would be written so
  (`ReadFour`, from `TwoDigits` and `DigitsBack`).
- `Found(p, o, s)`, that s stands in p behind the offset o, carries the rest.  A payload
  found somewhere is decoded to the frame it was encoded from (`FrameBack`), and whatever is
  decoded could have been encoded and stands there as it would be (`FrameRead`).  The two
  directions for a launch go along its list of strings, one at a time (`ReadAll`, `ReadSome`).
- The buffer: compacting, growing and making room keep what is unread (`Writable`,
  `FrameFits`), and there is always room, since outside a round of decoding less than the
  largest frame is unread (`PartialFits`).  So the branch of `ensureWritableCapacity` that
  throws is never taken.
- `DecodingInv`: the frames read so far, what is unread and the rest of the chunk stand in
  the line one behind the other (`Stream`), which decoding, writing and taking a chunk
  keep (`StreamTake`, `StreamWrite`, `StreamPush`).  If the line is as it was sent, the frames
  read begin it, and what is unread begins with the next one (`NextFrame`): so it is not
  refused.

**KeyedLimiterProofs**, for every finite set of jobs, keys and positive limits:
`NeverMoreThanTheLimit` and `NoSlotIdles`, which `limiter` checks, `ImplementsSafePool`,
that the limiter is a BoundedPool but for its fairness, and `TypeCorrect`,
`StatesAreCounts`, `MapIsExact` and `NoWaiterIsAborted`, which need no
run.  `KInv` says that the counter of an object
is the number of jobs holding its slots, its queue exactly the jobs waiting on it,
each once, that an object in use is the one in the map, and that nobody waits
below the limit.  The lemmas on queues (`QueueLemmas`: what striking out an
element leaves) and on `Release` do the work.  A consequence worth knowing: the branch of `start()`
for an aborted signal (`limiter.ts:40-44`) is never taken.

The second half is about WorkspaceEvidence: `ReportsAreFaithful`, for any tree of places,
any contents, any edits and both kinds of walk.  `EvidenceInv` says of a walk under way:
of a place that did not move under a walk, the walk has noted what is there, unless
the place or a directory above it is still to come (`Notes`); and what is still to come
(`Coming`) is what it was taken for, unless it moved, and stands below no directory that is
left out (`ItemFits`).  When nothing is left to come, the notes are what is there.
A snapshot fails at a link and so has noted none (`Plain`), which is why its
comparison may say "changed" of every difference.  `Chain` is a recursive function of the
places, and has a value because places form trees: no set of places contains what lies
above each of its members (`EvidenceAssumption`, which the file system sees to).  The
proof takes the least set that is closed under `Above`.

**StdioSessionProofs**, for every set of requests, pools and positive limits,
has the safety of the session: `TypeCorrect`, `NothingIsLeft`, `LinesAndSlotsMatch`,
`EventsAreInOrder`, `FirstFailureDecides`, `NothingStarts`, and `Implements`, that
every behaviour of the session is one of TaskServer.  The limiter enters by
BoundedPool, which `ImplementsSafePool` proves of it.  `SInv` has, besides the types,
four parts.  `Course`:
the gate of the tasks is the close request of the session, which a shutdown
presupposes; before the connection is made nothing was received; a listener
heard before the completion is gone after it.  `Held`: the tracked tasks and
the slots are functions of the stages, and so is an agent as long as an adapter works
with it; one that was left behind belongs to a request that has not completed and has told
of no exit (`Owning`).  So `NothingIsLeft` is about tasks and adapters: what it says of
processes is that the only survivors of a settled session are those whose adapter
returned without them and did not report success.  `Lined`: each line is exactly
the requests that wait for its pool, each once.  `Told`: what a log may contain at
each stage, which is where the order of the events comes from: it needs that a
run that ends as cancelled, with a log, has seen the abort before, and that Kimi
stops listening only with a result that is not a cancellation.

**QualificationProofs**, for any batches, recoveries, authorizations, cases and faults:
`HolderIsKept`, `LedgersAreHonest`, `LocksAreRecoverable`, `AuthorizationsAreSpentOnce`
and `QualificationTypeCorrect`.  `QualificationInv` is made in layers, by how much must
go right.  Always: what is on disk of a batch fits what the batch knows (`Fits`), and
a batch that reports passed has left passed evidence of the whole schedule.  As long as no live
owner was taken for dead (`~misread`): the ledger is, point by point, the prefix the
coordinator has come to (`Phased`), and the target of a recovery is dead.  As long as no
two recoveries ran at once either (`~raced`): the lock is its holder's or that of the
dead batch being recovered (`Exclusive`), and a batch that passed the preflight is the
only one with its authorization (`Unspent`).  The layers are the hypotheses the
properties themselves have.  That a passed manifest counts evidence of every case is a
matter of cardinality: an injection of the ordinals into the evidence beside it.

The second half of the module is about FrozenCandidate: `ReadingsAreReal`, for any list of
artifacts, any contents, any bound on sizes and writes, any record, and whatever the
others do to the repository between two system calls.  Of a candidate it says nothing if
they undid a change meanwhile (see "What the models assume").

- A single reading (`ReadingOK`).  What was read so far is what the file behind the inode
  begins with, or the file was rewritten where it had been read; and every block of it was seen in its
  place in the file at some moment (`Noticed`).  The second look at the inode and the size
  then decides.
- The candidate (`FreezingOK`).  The programs are lists of questions, and the
  lemmas first establish of each program, whatever its artifacts, what the proof needs:
  there is a place up to which everything of the candidate is asked, the commit before the
  lock file, and behind which everything is asked again (`PreflightSplit` and its likes).
  In front of it (`FrontOK`) all that is noted of a file was seen in it (`Known`),
  so that a file that has lost some of it does not get it back unless somebody undoes
  a change.  At that place the moment is named that the theorem promises: the present one.
  Behind it (`RestOK`) whatever of the record was not true at that moment is
  doomed: the file or the commit differs from what was noted and is still to be asked for
  (`TreeDoom`, `FileDoom`), or is being read with something else than was noted.  At the
  end nothing is left to be asked, so everything was true.

It is the argument for why the code reads twice: the lock file is read only once, and
what takes the place of its second reading is that the status is asked again.  And it
shows what that argument needs: only a status that stays dirty, or a commit that stays
left, until it is asked for gives the change away.

**ClientProofs**, for any timeouts, any length of a timer, both platforms, and whatever
chunks of records Pi writes: `RunsAreHonest`, `ClientsTypeCorrect` and `ClientsInvariant`.
`PiInv` and `KimiInv` say, of the record of a closure and its agent at every `await`:

- `Promised`: what the promises of the agent can have settled with, on which platform, and
  that an exit means that the tree is gone;
- `...Works`: which flags are set at which stage.  Before the process there is no agent, up
  to `finally` the status is still `failed` and the cleanup has not begun, and a command was
  sent to an agent that was made;
- `PiKnows`: an exit the run has recorded is the agent's, and the agent was asked to end
  for the first reason, for an internal failure, or because the status is not `completed`
  any more.  This is what rules out a `completed` of a process the client has killed, and it
  is not visible in any single handler;
- `...Stands`: what the status rests on, once it is given and before the last `await`s;
- `...Concluded`: the same of the result;
- `Attended`: nobody listens before a run begins or after its `finally`, the pieces of the
  deadline add up to the timeout, and `timed_out` is a reason only with the deadline behind it.

The closures' functions are lemmas (`CancelIs`, `LatchIs`, `ConcludeIs`, `FinallyIs`); a
handler that only gives a first reason, fails, or asks the agent to end keeps the invariant
by `PiKeeps` or `KimiKeeps`, whatever the stage.  The fold of `handleRecord` over a chunk is
taken by an induction over the records read so far (`FromZero` of `QueueLemmas`, which
states induction over a set of numbers).

The second part of the module is about streams of events of any length (TaskEvents), for
any calls, patches, attempts and beginnings: `EventsAreFaithful`.

- A fold has a trace: one value for each number of events taken in, each made of the one
  before (`FoldLeft` is defined by a recursive function, and the library's theorems about
  those are beyond the provers; the trace is had by an induction over lengths from
  `FromZero`).  `CallTo` and `LifeTo` say what the reader holds of one call after the first k
  events, in terms of the events alone: whether it began, under which patches, how it
  ended, what came too early.
- The order of the commands.  `InOrder` is the one enumeration of a set of calls by where
  they began (`Sorted`, `SortedOnce`); that there is only one makes the reader's list and
  the reference's the same (`InOrderIs`).
- The readers of a run of Pi see different streams, of which one leaves out what
  does not execute; `Places` says where the events of the shorter are in the longer.
- `Streamed` types the stream: what a client protocol may send is what the fold is
  ready for.

The third is about who judges a run (EvidenceGates): `GatesAlwaysAgree`, whatever a run did,
whatever its commands say, for any bound on observations and any stream.  The checks and the
evidence are first described once, by what they say of the run and its commands (`ChecksSay`,
`Writes`); then each gate is read off that description, and that all of them agree is a
matter of comparing six conditions (`KimiJudged`, `PiJudged`).  What the evidence says of
the commands is tied to the events by `KimiReport` and `PiReport`, for which the list of
sanitized observations is matched, place by place, with the calls of the stream: the list
has a succeeded `exact` and `status_exact` once each if and only if the stream has the two
calls, each begun once and ended once, later and well (`RequiredIs`).

**AcceptanceProofs** follows a release.

- The session, for any hosts, processes and bound of the pipe: `ReceiptsAreTrue`,
  `ScriptStaysHonest`, `AcceptanceTypeCorrect` and `AcceptanceInvariant`.  `Trail` is
  what a process has told, wherever it is by now: in its own chain of promises, in the
  pipe, or heard by the observer.  `Told` says what the frames on a trail imply of the
  request they are about; since a frame only moves along its trail, a step has to be
  looked at only where one is added.  `Bound`: the observer hears the process it bound, which
  started after the old one had gone.  `Scripted`: what the script knows of its
  descriptor and of the end of the observer.
- The receipt, for any clock and identities: `CompletedCounts`, that the validator accepts
  what the observer completed.  `ReceiptInv` has the times of the machine in whole
  milliseconds, which keep their order when they are formatted, and the events as a chain
  of hashes, each behind the one before.
- The release, for any history of edits, commits, checkouts, tags and publications:
  `StableIsWhatWasTested`, and with the receipt `ReleasesAreTested`.  `ReleaseInv` says
  that every file anybody wrote is true of what it was written of (`Truthful`) and that
  what is in the registry was verified.  Both last because nothing is taken back
  (`Growing`): commits, tags, the registry and the sessions only gain, so what
  was verified of a tag would be verified again.

Only model-checked, and why: everything about liveness and fairness (`OwnedTargetContract`
and `ImplementsPool` as far as they promise progress, and the runs' other temporal
properties), which is beyond the proof system here.

## Findings

Three statements of the design documents do not hold of the code.  Each has a run
that ends in the counterexample.

`ApplyStop` and `ApplyFailure` differ in one state.  When the Job has been counted
empty and the root waiter has not yet reported, a failure of the wait moves the
machine to Terminated, but an end of file or protocol error leaves it in
Terminating (`LifecycleMachine.cs:440`).  `DrainOwnedJob` returns all the same, the
lifecycle refuses to seal an error from Terminating, and the helper ends with
status 68 without trying to write a terminal frame, which the design of
2026-07-31 allows only when the write itself fails (`TerminalAttempted`).  No target is
left behind, and the wrapper reports a failed helper; what is lost is the stage that
says why.

`runKimiAcp` removes its listeners and its deadline, ends the input of a process
whose prompt was answered, and waits for it to close (`src/adapters/kimi/client.ts:619-634`).
A Kimi process that does not exit then is heard by nobody: neither the host's
cancellation nor the shutdown of the session nor the deadline reaches it, where the
design of 2026-07-31 has cancellation stop an owned run (`CancelReclaimsAgent`).
`session_live` shows that everything else is live once such a process exits.

`runPiRpc` rejects the command it waits for when its process ends only as long as the
run has not been told to finish (`src/adapters/pi/client.ts:591-601`); `cancel()`
rejects nothing.  If `agent_settled` comes before the answer to a command, or output
that does not parse before `ready`, and the process then ends, the run waits for the
answer for ever and keeps its slot; the deadline only sets a reason (`TimeoutEndsRun`).
`CancelEndsRun` holds but for this state (`Deaf`) and for a group the system refuses to
signal on POSIX.

Smaller observations, made on the way and not made runs of:

- A cancellation before `ready` ends as `failed` on Windows, because the helper reports
  it by an ERROR frame and `closed` rejects, whereas `test/adapters/pi/client.test.ts:398-440`
  expects `cancelled` of a double whose `closed` resolves.
- Kimi's status does not look at the stop reason of the prompt.
- `HolderKeepsLock` and `AuthorizationOnce` are stated for one recovery at a time and for
  start times that read the same.  Two recoveries of one dead owner can take the lock of
  a batch that started in between (`raced`), and a live owner whose start time is
  reported differently is recovered under its feet (`misread`).  The release runbook
  allows one recovery per batch.
- An authorization is taken as unused only if every batch directory records one.  A batch
  whose first checkpoint fails leaves an empty directory and releases its lock, so that no
  recovery can be started for it and every later preflight is refused
  (`manifest.ts:2668`); the design of 2026-07-26 (line 142) has no directory before the
  checkpoint.
- `Unrecordable` in EvidenceGates names the evidence the smoke tests write and the ledger
  refuses: a Pi run that never launched its child, a failed run under an odd model name, a
  Kimi run of too many commands, a Pi run that passed under another configuration.
  A batch then stops for a failure of the infrastructure rather than of the case.
- A user who interrupts the acceptance script after the receipt was written gets a failure
  with a receipt on disk.  A client whose connection failed never tries again in that
  process.
- Good frames in the same chunk as a bad one are not returned by `push`.

## Not modelled

Left out because it is data or one pass over files: P/Invoke declarations and command
line quoting, location and verification of the helper, locators and configuration of
the agents, registry and environment tables, redaction, parsing of descriptors and of
strict JSON, permission decisions of Kimi and their containment checks, digests and
identities of executables, git status and diff in the packet of a review, doctor,
the sanitizing of reports (`assurance.ts`) and scripts other than
`gate-requalification.ts` and `start-session.mjs`.  Batches and evidence of older protocols are still read by
the code and are left out: they are closed, and no program writes them.

Left out although it has state:

- the writes of `ControlChannel` and `ReadLaunchConfig`, which one thread begins, awaits
  and releases: a write is one step of JobHelper, which may fail;
- the use of a process id again, in `process-tree.ts` and in the owner of the lock, except
  as a start time that reads differently;
- a signal that comes once a client has stopped listening, which nobody looks at again;
- secondary failure codes of the wrapper, diagnostics and their wording.

What the models assume and the code does not check:

- FrozenCandidate: git status does not lie, the build leaves tracked files alone, and the
  directories above a file do not change.  Nothing else is assumed of what the others do,
  but `CandidateIsReal` has the hypothesis that they undo no change (`~undone`).  Without it
  the property fails: the preflight reads the lock file once (`preflight.ts:1038`), and if
  that is edited after the first status, read, and brought back by `git checkout` before the
  next status, the recorded hash was never that of the recorded commit.  The same goes
  for an artifact changed in front of one reading and changed back for the next.  A file rewritten in place to the same size
  after its first blocks were read is read torn (`FileIsWhole` names the case); readings
  of the plain style rely on the hash they are compared with.  A single
  `assertQualificationFrozenCandidate` does not show that what it compared existed at one
  moment; the whole of the preflight and of the verifier do, because they read twice.
- StdioSession: a process left behind by its adapter is followed by nobody, and holds neither
  slot nor task: the limiter bounds the adapters that work, not the processes there are.  On
  POSIX a process that left its group is not seen by the code and not modelled.
- HostAcceptance: an agent is gone once its run has ended.  One that was left behind has told
  of no `ownedExit`, without which the observer completes no session, so that there is no
  receipt it could make false.
- HelperWire: status 0 is allowed once EXIT is on the wire.  That the code also has it
  flushed is in `WriteTerminal`; the wire cannot tell, and no property does.
- WorkspaceEvidence: a place that changes under a walk may be missed, and changes in
  `.git`, `node_modules` and `dist` and of the git index are invisible to a review.
- FrameDecoder: a character is one byte.  The limits are such that a length has four bytes
  and ten doublings of the first capacity reach the largest frame; those of
  `protocol.v1.json` are (4096 * 1024 is four times the largest frame).
- ReleaseValidation: a tag is not moved and a published version not replaced.  The
  validator reads the working tree, which `release.yml` makes the checkout of the tag.
  Nothing compares the plugin and the observer that the stable version carries with
  those of its beta, and `StableWasTested` does not claim it; nor is the time of the old
  host part of the chain of hashes in a receipt.

## The plan

Every invariant of the runs is proved.  What is left is what no proof here can reach:
liveness.
