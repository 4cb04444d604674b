---------------------------- MODULE FrozenCandidate ----------------------------
(***************************************************************************)
(* How a candidate is read while others may change it: one file at a time   *)
(* (src/smoke/result-file-evidence.ts, readImmutableBytes of the ledger and *)
(* the verifier, readStableRepositoryFile of the preflight), and the lists  *)
(* of questions that the preflight, the verifier and the capability index   *)
(* ask of the repository.  A file is a sequence of blocks behind an inode;  *)
(* whoever works in the repository writes, grows, cuts, replaces, links and *)
(* removes files, commits, and undoes what was done; the preflight builds   *)
(* the artifacts itself between its two readings.  What names the files and *)
(* parses them is left out; so is the chain of directories above a file.    *)
(***************************************************************************)
EXTENDS Integers, Sequences, FiniteSets, SequencesExt

CONSTANTS
  Artifacts,   \* the artifacts of the build, in the order they are read
  Tasks,       \* which of the programs below are run
  Recorded,    \* what a record of the candidate may say: its commit, and of each file its content
  Blocks,      \* what a block of a file may hold
  NewContents, \* what a new file may contain
  MaxSize,     \* the largest file read, in blocks
  MaxWrites    \* how often the others act

Tracked == {"package-lock"}
Candidate == Tracked \cup Range(Artifacts)
Files == Candidate \cup {"manifest", "evidence", "result"}

ASSUME CandidateAssumption ==
  /\ MaxSize \in Nat /\ MaxWrites \in Nat
  /\ 0 \in Blocks /\ Blocks \subseteq Nat /\ NewContents \subseteq Seq(Blocks)
  /\ Artifacts \in Seq(STRING)
  /\ Tasks \subseteq {"result", "preflight", "verify", "index"}
  /\ Recorded \subseteq [head : Nat, of : [Candidate -> Seq(Nat)]]
  /\ Range(Artifacts) \cap {"package-lock", "manifest", "evidence", "result"} = {}

VARIABLES
  disk,     \* the blocks of every inode
  path,     \* [kind, inode] of every file; a link leads to an inode
  tree,     \* [head, state]: the commit, and what git status says
  writes,   \* how often the others have acted
  reader,   \* the program that reads
  held,     \* what the repository was like, at every moment of a preflight or verification
  since,    \* the same for the file being read, and whether a block that was read is gone
  undone    \* whether the others have brought back what a preflight or verification had before it

world == <<disk, path, tree, writes>>
candidateVars == <<disk, path, tree, writes, reader, held, since, undone>>

Freezing == {"preflight", "verify"}
Trees == {"clean", "batch", "dirty"}   \* batch: but for the files of the batch
Nowhere == [kind |-> "missing", inode |-> 0]
Size(inode) == Len(disk[inode])
NoContent == <<-1>>                       \* what no file contains
Content(file) == IF path[file].kind = "file" THEN disk[path[file].inode] ELSE NoContent
Moment == [head |-> tree.head, state |-> tree.state, of |-> [file \in Candidate |-> Content(file)]]

-----------------------------------------------------------------------------
(* The four ways to read a file.  "capped": where its size is held against  *)
(* the limit; "same": the opened file must be the one that was looked at;   *)
(* "until": whether it is read to its end or to the size it had; "after"    *)
(* and "again": whether the handle, and the path, are looked at afterwards. *)
\* Mutant: the handle is not looked at after the reading.
ImmutableUnchecked == [capped |-> "before", same |-> TRUE, until |-> "size", after |-> FALSE, again |-> FALSE]
Bounded   == [capped |-> "before", same |-> TRUE, until |-> "end", after |-> TRUE, again |-> FALSE]
Immutable == [capped |-> "before", same |-> TRUE, until |-> "size", after |-> TRUE, again |-> FALSE]
Stable    == [capped |-> "opened", same |-> TRUE, until |-> "size", after |-> TRUE, again |-> TRUE]
Plain     == [capped |-> "before", same |-> FALSE, until |-> "end", after |-> FALSE, again |-> FALSE]

(* What a program asks.  An answer is noted, or has to be the same as the   *)
(* one noted before; the programs compare some answers later than at once,  *)
(* which refuses the same runs.                                             *)
Status(allowed) == [op |-> "status", allowed |-> allowed]
Commit(as) == [op |-> "head", as |-> as]
Read(style, file, as) == [op |-> "read", style |-> style, file |-> file, as |-> as]
ReadAll(style, files, as) == [i \in DOMAIN files |-> Read(style, files[i], as)]
Build(file) == [op |-> "build", file |-> file]

InspectResultFile == <<Read(Bounded, "result", "same")>>

CollectQualificationBuildIdentity(as) == ReadAll(Stable, Artifacts, as)
CaptureRepository(as) == <<Status({"clean"}), Commit(as)>>
ReadPackageIdentity(as) == <<Read(Stable, "package-lock", as)>>

(* The commands that build and try the candidate: the build makes every     *)
(* artifact anew, the others leave the candidate alone.                     *)
DeterministicCommands == [i \in DOMAIN Artifacts |-> Build(Artifacts[i])]

\* Mutant: the build is not read a second time.
PreflightOnce ==
  CaptureRepository("note") \o ReadPackageIdentity("note")
    \o CollectQualificationBuildIdentity("note") \o DeterministicCommands
    \o CaptureRepository("same") \o CaptureRepository("same")

RunQualificationPreflight ==
  CaptureRepository("note") \o ReadPackageIdentity("note")
    \o CollectQualificationBuildIdentity("note") \o DeterministicCommands
    \o CaptureRepository("same") \o CollectQualificationBuildIdentity("same")
    \o CaptureRepository("same")

AssertQualificationFrozenCandidate ==
  LET repository == <<Status({"clean", "batch"}), Commit("same")>> IN
  repository \o CollectQualificationBuildIdentity("same") \o repository

CollectQualificationCurrentSnapshot ==
  <<Commit("same")>> \o ReadPackageIdentity("same") \o CollectQualificationBuildIdentity("same")

(* The manifest is read and validated by the ledger, then by the verifier,  *)
(* and once more by both when all else is done.                             *)
InspectQualificationTerminal == <<Read(Immutable, "manifest", "same")>>
AssertTerminalStable == InspectQualificationTerminal \o <<Read(Immutable, "manifest", "same")>>
ValidateManifestEvidence == <<Read(Immutable, "evidence", "same")>>

VerifyQualification(mode) ==
  InspectQualificationTerminal \o <<Read(Immutable, "manifest", "same")>>
    \o ValidateManifestEvidence
    \o (IF mode = "immutable-evidence" THEN <<>>
        ELSE AssertQualificationFrozenCandidate \o CollectQualificationCurrentSnapshot
               \o AssertQualificationFrozenCandidate)
    \o AssertTerminalStable

VerifyBatchCapabilityEvidence ==
  VerifyQualification("immutable-evidence")
    \o <<Read(Plain, "manifest", "same"), Read(Plain, "evidence", "same")>>

(* The inputs of the runtime are files under version control; one entry of  *)
(* the index, its fingerprint before its evidence.                          *)
CollectCapabilityRuntimeInputs == <<Read(Plain, "package-lock", "same")>>
AnalyzeCapabilityIndex == CollectCapabilityRuntimeInputs \o VerifyBatchCapabilityEvidence

Program(task) ==
  CASE task = "result" -> InspectResultFile
    [] task = "preflight" -> RunQualificationPreflight
    [] task = "verify" -> VerifyQualification("frozen-candidate")
    [] task = "index" -> AnalyzeCapabilityIndex

-----------------------------------------------------------------------------
(* A program runs one question after the other. *)
Nothing == [contents |-> {}, rewritten |-> FALSE]
Begin == [step |-> "look", seen |-> [inode |-> 0, size |-> 0], handle |-> 0, got |-> <<>>]
Op == reader.left[1]
Underway == reader.verdict = "running"
Asks(op) == Underway /\ Op.op = op
Reads(step) == Asks("read") /\ reader.file.step = step

ReaderAlone == UNCHANGED <<world, held, undone>>
Refuse == reader' = [reader EXCEPT !.verdict = "refused"] /\ since' = Nothing
Advance(log) ==
  /\ reader' = [reader EXCEPT !.left = Tail(@), !.file = Begin, !.log = log,
                              !.verdict = IF Len(reader.left) = 1 THEN "accepted" ELSE "running"]
  /\ since' = Nothing
ToStep(step) == reader' = [reader EXCEPT !.file.step = step]

ReadStatus ==
  /\ Asks("status") /\ ReaderAlone
  /\ IF tree.state \in Op.allowed THEN Advance(reader.log) ELSE Refuse

ReadHead ==
  /\ Asks("head") /\ ReaderAlone
  /\ IF Op.as = "same" /\ tree.head # reader.log.head THEN Refuse
     ELSE Advance([reader.log EXCEPT !.head = tree.head])

Look ==
  LET at == path[Op.file] IN
  /\ Reads("look") /\ ReaderAlone
  /\ IF \/ at.kind # "file"
        \/ Op.style.capped = "before" /\ Size(at.inode) > MaxSize
     THEN Refuse
     ELSE /\ reader' = [reader EXCEPT !.file.step = "open",
                                      !.file.seen = [inode |-> at.inode, size |-> Size(at.inode)]]
          /\ since' = [contents |-> {Content(Op.file)}, rewritten |-> FALSE]

OpenFile ==
  /\ Reads("open") /\ ReaderAlone
  /\ IF path[Op.file].kind = "missing" THEN Refuse
     ELSE /\ reader' = [reader EXCEPT !.file.step = "opened", !.file.handle = path[Op.file].inode]
          /\ UNCHANGED since

SameFile(stat) == stat = reader.file.seen
Handle == [inode |-> reader.file.handle, size |-> Size(reader.file.handle)]

CheckOpened ==
  /\ Reads("opened") /\ ReaderAlone
  /\ IF \/ Op.style.same /\ ~SameFile(Handle)
        \/ Op.style.capped = "opened" /\ Handle.size > MaxSize
     THEN Refuse
     ELSE reader' = [reader EXCEPT !.file.step = "read", !.file.seen = Handle] /\ UNCHANGED since

(* The answer is the content of the file.                                   *)
Conclude ==
  IF Op.as = "same" /\ reader.file.got # reader.log.of[Op.file] THEN Refuse
  ELSE Advance([reader.log EXCEPT !.of[Op.file] = reader.file.got])

EndRead == IF Op.style.after THEN ToStep("after") /\ UNCHANGED since ELSE Conclude

ReadBlock ==
  LET at == Len(reader.file.got) + 1
      more == at <= Handle.size
      take == reader' = [reader EXCEPT !.file.got = Append(@, disk[reader.file.handle][at])]
  IN
  /\ Reads("read") /\ ReaderAlone
  /\ CASE Op.style.until = "end" ->
            IF ~more THEN EndRead
            ELSE IF at > MaxSize THEN Refuse ELSE take /\ UNCHANGED since
       [] OTHER ->
            IF at > reader.file.seen.size THEN EndRead
            ELSE IF ~more THEN Refuse ELSE take /\ UNCHANGED since

After ==
  /\ Reads("after") /\ ReaderAlone
  /\ IF ~SameFile(Handle) \/ Len(reader.file.got) # reader.file.seen.size THEN Refuse
     ELSE IF Op.style.again THEN ToStep("again") /\ UNCHANGED since ELSE Conclude

LookAgain ==
  LET at == path[Op.file] IN
  /\ Reads("again") /\ ReaderAlone
  /\ IF at.kind # "file" \/ ~SameFile([inode |-> at.inode, size |-> Size(at.inode)]) THEN Refuse
     ELSE Conclude

(* A command fails, or an artifact is taken away and made anew: as a rule    *)
(* with the bytes it had.                                                   *)
NewFile(file, blocks) ==
  /\ disk' = Append(disk, blocks)
  /\ path' = [path EXCEPT ![file] = [kind |-> "file", inode |-> Len(disk) + 1]]

RunCommand ==
  /\ Asks("build")
  /\ \/ Refuse /\ ReaderAlone
     \/ \E blocks \in NewContents :
          /\ NewFile(Op.file, blocks) /\ UNCHANGED <<tree, writes, undone>>
          /\ held' = held \cup {Moment'} /\ Advance(reader.log)

-----------------------------------------------------------------------------
(* The others. *)
(* What they change: what the program reads.  What the verifier reads of a  *)
(* batch is changed under the index, which asks the same of it.             *)
ReadBy(program) == {program[i].file : i \in {j \in DOMAIN program : program[j].op = "read"}}
Writable == IF reader.task = "verify" THEN Candidate ELSE ReadBy(Program(reader.task))
Reading == Underway /\ Op.op = "read" /\ reader.file.step # "look"

Acts == Underway /\ writes < MaxWrites /\ writes' = writes + 1 /\ UNCHANGED reader

(* What they bring back: a block in the place it had in a file, or the size  *)
(* of a file; a commit that was left; a clean tree under the same commit.   *)
Marks(content) ==
  IF content = NoContent THEN {}
  ELSE {<<0, Len(content)>>} \cup {<<i, content[i]>> : i \in DOMAIN content}
Seen(file) == UNION {Marks(moment.of[file]) : moment \in held}
Undoing ==
  \/ \E file \in Candidate : (Marks(Content(file))' \ Marks(Content(file))) \cap Seen(file) # {}
  \/ tree'.head # tree.head /\ \E moment \in held : moment.head = tree'.head
  \/ tree'.head = tree.head /\ tree.state = "dirty" /\ tree'.state # "dirty"

Watch(inode) ==
  /\ IF reader.task \in Freezing
     THEN held' = held \cup {Moment'} /\ undone' = (undone \/ Undoing)
     ELSE UNCHANGED <<held, undone>>
  /\ since' = IF ~Reading THEN since
              ELSE [contents |-> since.contents \cup {Content(Op.file)'},
                    rewritten |-> \/ since.rewritten
                                  \/ /\ inode = reader.file.handle /\ inode # 0
                                     /\ ~IsPrefix(reader.file.got, disk'[inode])]

(* A tree is clean, but for other files, where the lock file is what it was   *)
(* whenever the same commit was clean.                                      *)
StatusIsTrue ==
  tree'.state # "dirty" =>
    \A moment \in held :
      moment.head = tree'.head /\ moment.state # "dirty" =>
        moment.of["package-lock"] = Content("package-lock")'
Touches(file) ==
  /\ IF file \in Tracked THEN \E state \in Trees : tree' = [tree EXCEPT !.state = state]
     ELSE UNCHANGED tree
  /\ StatusIsTrue

WriteInPlace(file) ==
  LET inode == path[file].inode IN
  /\ path[file].kind = "file" /\ Acts
  /\ \/ \E i \in DOMAIN disk[inode], block \in Blocks : disk' = [disk EXCEPT ![inode][i] = block]
     \/ \E block \in Blocks : disk' = [disk EXCEPT ![inode] = Append(@, block)]
     \/ \E n \in 0..(Size(inode) - 1) : disk' = [disk EXCEPT ![inode] = SubSeq(@, 1, n)]
  /\ UNCHANGED path /\ Touches(file) /\ Watch(inode)

(* A new file takes the place of the old one; or the old one is moved and   *)
(* linked to, or moved back; or it is gone.                                 *)
Replace(file) ==
  /\ Acts
  /\ \/ \E blocks \in NewContents : NewFile(file, blocks)
     \/ /\ path[file].kind # "missing" /\ UNCHANGED disk
        /\ path' = [path EXCEPT ![file].kind = IF @ = "file" THEN "link" ELSE "file"]
     \/ path' = [path EXCEPT ![file] = Nowhere] /\ UNCHANGED disk
  /\ Touches(file) /\ Watch(0)

(* Another commit is there, one that is new or an earlier one; the files are  *)
(* its own or stay what they were.                                          *)
Checkout ==
  /\ Acts
  /\ \E head \in 0..(writes + 1), state \in {"clean", "dirty"} :
       head # tree.head /\ tree' = [head |-> head, state |-> state]
  /\ \/ UNCHANGED <<disk, path>>
     \/ \E blocks \in NewContents : NewFile("package-lock", blocks)
  /\ StatusIsTrue /\ Watch(0)

(* Other files are changed, or changed back.                                *)
Litter ==
  /\ Acts /\ \E state \in Trees \ {tree.state} : tree' = [tree EXCEPT !.state = state]
  /\ UNCHANGED <<disk, path>> /\ StatusIsTrue /\ Watch(0)

-----------------------------------------------------------------------------
Inodes == SetToSeq(Files)
Original(file) == IF file \in Candidate THEN <<0>> ELSE <<0, 0>>
AsItIs == [head |-> 0, of |-> [file \in Candidate |-> Original(file)]]
CandidateInit ==
  /\ path = [file \in Files |-> [kind |-> "file", inode |-> CHOOSE i \in DOMAIN Inodes : Inodes[i] = file]]
  /\ disk = [i \in DOMAIN Inodes |-> Original(Inodes[i])]
  /\ tree = [head |-> 0, state |-> "clean"] /\ writes = 0
  /\ \E task \in Tasks, record \in Recorded \cup {AsItIs} :
       /\ task # "verify" => record = AsItIs
       /\ reader = [task |-> task, left |-> Program(task), file |-> Begin, verdict |-> "running",
                    log |-> [record EXCEPT !.of = [file \in Files |->
                               IF file \in Candidate THEN record.of[file] ELSE Original(file)]]]
  /\ held = {Moment}
  /\ since = Nothing /\ undone = FALSE

ReaderNext ==
  ReadStatus \/ ReadHead \/ Look \/ OpenFile \/ CheckOpened \/ ReadBlock \/ After \/ LookAgain
    \/ RunCommand
CandidateNext ==
  \/ ReaderNext
  \/ \E file \in Writable : WriteInPlace(file) \/ Replace(file)
  \/ Checkout \/ Litter
CandidateSpec == CandidateInit /\ [][CandidateNext]_candidateVars

-----------------------------------------------------------------------------
(* A file that was read was on the path, whole, as a regular file and not   *)
(* larger than allowed, at one moment of the reading; unless it was changed *)
(* in place where it had been read already and ends as long as it was.  A   *)
(* plain reading is not held to this: its hash is.                          *)
FileIsWhole ==
  LET f == reader.file
      concludes ==
        \/ Reads("after") /\ ~Op.style.again /\ SameFile(Handle) /\ Len(f.got) = f.seen.size
        \/ Reads("again") /\ path[Op.file].kind = "file"
             /\ SameFile([inode |-> path[Op.file].inode, size |-> Size(path[Op.file].inode)])
        \/ Reads("read") /\ ~Op.style.after /\ Len(f.got) = f.seen.size
  IN concludes /\ Op.style # Plain =>
       /\ Len(f.got) <= MaxSize
       /\ f.got \in since.contents \/ (since.rewritten /\ Handle.size = Len(f.got))

(* What the preflight records, and what the verifier calls the frozen       *)
(* candidate, has existed: at one moment the recorded commit was checked    *)
(* out, without changes, and every artifact and the lock file had the       *)
(* recorded content, though they are read one after the other, the lock     *)
(* file once and before the build, while others write.  It holds unless     *)
(* these undo a change meanwhile: the lock file edited after the first      *)
(* status and checked out before the next goes unnoticed, and its hash was  *)
(* never that of the commit (preflight.ts:1038).                            *)
CandidateIsReal ==
  reader.verdict = "accepted" /\ reader.task \in Freezing /\ ~undone =>
    \E moment \in held :
      /\ moment.head = reader.log.head /\ moment.state # "dirty"
      /\ \A file \in Candidate : moment.of[file] = reader.log.of[file]

(* Both, of every program that reads while others write (preflight.ts:272,   *)
(* manifest.ts:882, verifier.ts:137, result-file-evidence.ts:112).           *)
ReadingIsReal == FileIsWhole /\ CandidateIsReal
=============================================================================
