-------------------------- MODULE ReleaseValidation --------------------------
(***************************************************************************)
(* The way of a release: the runtime is frozen on a host, published as a     *)
(* beta, tried by a host session, and published as stable.  Maintainers      *)
(* write the evidence into the repository by hand, at different times; a tag *)
(* is released when src/release/release-validation.ts accepts what the       *)
(* checkout of the tag says (.github/workflows/release.yml).  A digest is    *)
(* the content it is taken of, and a file is what the properties tell apart. *)
(***************************************************************************)
EXTENDS HostReceipt

CONSTANTS
  Missing,      \* no such file, tag or package
  Contents,     \* what each edited file may hold
  Fingerprints, \* the projection of a capability index
  MaxCommits,   \* bound on the history
  MaxEdits      \* bound on the changes of files

ASSUME ReleaseAssumption ==
  /\ DOMAIN Contents = {"inputs", "helper", "index", "plugin", "sources"}
  /\ \A file \in DOMAIN Contents : 0 \in Contents[file]
  /\ {MaxCommits, MaxEdits} \subseteq Nat

Versions == {"beta", "stable"}

VARIABLES
  checkout,   \* the files of the maintainers
  head,       \* the commit it is based on
  commits,    \* the history: [files, line], line being the commit and its ancestors
  tags,       \* the commit of each tag, which is never moved
  registry,   \* the package of each version, which is never replaced
  sessions,   \* the receipts of host sessions, outside of the repository
  maySkip,    \* the versions are the pair whose host session the code lets pass
  edits

releaseVars == <<checkout, head, commits, tags, registry, sessions, maySkip, edits>>

FileNames ==
  DOMAIN Contents \cup {"version", "observer", "manifest", "freeze",
                       "betaMarker", "stableMarker", "receipt"}

(* The observer is built of its sources, and the manifest says of which. *)
ReleaseInit ==
  /\ checkout = [file \in FileNames |->
                   IF file \in DOMAIN Contents \cup {"observer", "manifest"} THEN 0 ELSE Missing]
  /\ head = 1 /\ commits = <<[files |-> checkout, line |-> {1}]>>
  /\ tags = [v \in Versions |-> Missing] /\ registry = [v \in Versions |-> Missing]
  /\ sessions = {} /\ maySkip \in BOOLEAN /\ edits = 0

-----------------------------------------------------------------------------
(* What is computed of files *)

CanonicalDigest(files) == <<files.inputs, files.helper>>
PluginDigest(files) == <<files.plugin, files.helper>>
ObserverArtifact(files) ==
  [sha |-> files.observer, manifest |-> files.manifest, inputs |-> files.manifest]
Package(files) == [version |-> files.version, plugin |-> PluginDigest(files)]

FreezeReceipt(files, commit) ==
  [commit |-> commit, canonical |-> CanonicalDigest(files), helper |-> files.helper,
   observer |-> ObserverArtifact(files), capabilities |-> Fingerprints[files.index]]

Core(files) ==
  [commit |-> files.freeze.commit, canonical |-> CanonicalDigest(files),
   helper |-> files.helper, index |-> files.index, freeze |-> files.freeze]

BetaMarker(files) ==
  [core |-> Core(files), plugin |-> PluginDigest(files),
   observer |-> ObserverArtifact(files)]

-----------------------------------------------------------------------------
(* verifyReleaseValidation, of a checkout and the commit of its tag.  A file *)
(* that is not there fails as one that does not agree.                       *)

IsAncestor(ancestor, commit) == ancestor \in commits[commit].line

\* Mutant: the canonical inputs are not collected again.
CoreHoldsOnPaper(core, files, commit) ==
  /\ core.helper = files.helper /\ core.index = files.index
  /\ core.commit # commit /\ IsAncestor(core.commit, commit)

(* parseCore, the canonical identity, the index and the frozen commit *)
CoreHolds(core, files, commit) ==
  /\ core.canonical = CanonicalDigest(files) /\ core.helper = files.helper
  /\ core.index = files.index
  /\ core.commit # commit /\ IsAncestor(core.commit, commit)

(* The receipt is looked for under the name of its commit. *)
FreezeHolds(core, observer, files) ==
  /\ files.freeze # Missing /\ files.freeze.commit = core.commit
  /\ core.freeze = files.freeze
  /\ files.freeze.capabilities = Fingerprints[files.index]
  /\ files.freeze.observer = observer
  /\ files.freeze.canonical = core.canonical /\ files.freeze.helper = core.helper

ObserverProvenance(observer, files) ==
  /\ files.observer = observer.sha
  /\ files.manifest = observer.manifest /\ files.manifest = observer.inputs
  /\ files.sources = files.manifest

VerifyBeta(files, commit) ==
  LET marker == files.betaMarker IN
  /\ tags["beta"] = commit /\ files.version = "beta"
  /\ marker # Missing
  /\ CoreHolds(marker.core, files, commit)
  /\ FreezeHolds(marker.core, marker.observer, files)
  /\ PluginDigest(files) = marker.plugin
  /\ ObserverProvenance(marker.observer, files)

(* What the files at the tag of the beta say, and the registry *)
BetaHolds(beta, core, commit) ==
  LET files == commits[beta.commit].files IN
  /\ beta.commit # commit /\ tags["beta"] = beta.commit
  /\ IsAncestor(beta.commit, commit)
  /\ core.commit # beta.commit /\ IsAncestor(core.commit, beta.commit)
  /\ files.version = "beta" /\ files.betaMarker # Missing
  /\ files.betaMarker = beta.marker
  /\ files.betaMarker.core = core
  /\ files.betaMarker.plugin = beta.plugin /\ files.betaMarker.observer = beta.observer
  /\ ObserverProvenance(beta.observer, files)
  /\ registry["beta"] = beta.npm

(* assertHostAcceptanceReceipt, but for what ReceiptHolds says of it *)
SessionHolds(receipt, marker) ==
  /\ receipt.commit = marker.publicBeta.commit /\ receipt.npm = marker.publicBeta.npm
  /\ receipt.core = marker.core
  /\ receipt.plugin = marker.publicBeta.plugin
  /\ receipt.observer = marker.publicBeta.observer
  /\ receipt.nonce = marker.host.nonce

HostHolds(marker, files) ==
  \/ /\ marker.host.status = "passed"
     /\ files.receipt # Missing /\ files.receipt = marker.host.receipt
     /\ SessionHolds(files.receipt, marker)
  \/ /\ marker.host.status = "skipped" /\ maySkip
     /\ marker.host.decision = marker.publicBeta

VerifyStable(files, commit) ==
  LET marker == files.stableMarker IN
  /\ tags["stable"] = commit /\ files.version = "stable"
  /\ marker # Missing
  /\ CoreHolds(marker.core, files, commit)
  /\ FreezeHolds(marker.core, marker.publicBeta.observer, files)
  /\ BetaHolds(marker.publicBeta, marker.core, commit)
  /\ HostHolds(marker, files)

-----------------------------------------------------------------------------
(* The maintainers.  What they write is true of what they have before them; *)
(* what they have before them may have changed since.                       *)

Clean == checkout = commits[head].files

UnchangedHistory == UNCHANGED <<head, commits, tags, registry>>

Edit ==
  /\ edits < MaxEdits /\ edits' = edits + 1
  /\ \E file \in DOMAIN Contents : \E content \in Contents[file] \ {checkout[file]} :
       checkout' = [checkout EXCEPT ![file] = content]
  /\ UNCHANGED sessions /\ UnchangedHistory

BuildObserver ==
  /\ checkout.sources # checkout.manifest
  /\ checkout' = [checkout EXCEPT !.observer = checkout.sources, !.manifest = checkout.sources]
  /\ UNCHANGED <<sessions, edits>> /\ UnchangedHistory

CommitFiles ==
  /\ ~Clean /\ Len(commits) < MaxCommits
  /\ commits' = Append(commits, [files |-> checkout,
                                 line |-> commits[head].line \cup {Len(commits) + 1}])
  /\ head' = Len(commits) + 1
  /\ UNCHANGED <<checkout, tags, registry, sessions, edits>>

(* To work on from an older commit; what is not committed is lost. *)
CheckOut ==
  /\ \E commit \in DOMAIN commits \ {head} :
       head' = commit /\ checkout' = commits[commit].files
  /\ UNCHANGED <<commits, tags, registry, sessions, edits>>

(* The freeze of a host is of a clean checkout. *)
FreezeHost ==
  /\ Clean /\ ObserverProvenance(ObserverArtifact(checkout), checkout)
  /\ checkout' = [checkout EXCEPT !.freeze = FreezeReceipt(checkout, head)]
  /\ UNCHANGED <<sessions, edits>> /\ UnchangedHistory

PrepareBeta ==
  /\ checkout.freeze # Missing
  /\ checkout' = [checkout EXCEPT !.version = "beta", !.betaMarker = BetaMarker(checkout)]
  /\ UNCHANGED <<sessions, edits>> /\ UnchangedHistory

(* The beta as its tag and the registry have it *)
PublicBeta ==
  LET marker == commits[tags["beta"]].files.betaMarker IN
  [commit |-> tags["beta"], marker |-> marker, plugin |-> marker.plugin,
   observer |-> marker.observer, npm |-> registry["beta"]]

(* The core is computed again or copied from the beta's marker. *)
PrepareStable ==
  /\ registry["beta"] # Missing /\ checkout.freeze # Missing
  /\ \E core \in {Core(checkout), PublicBeta.marker.core} :
       \/ \E receipt \in sessions :
            checkout' = [checkout EXCEPT
              !.version = "stable", !.receipt = receipt,
              !.stableMarker = [core |-> core, publicBeta |-> PublicBeta,
                                host |-> [status |-> "passed", receipt |-> receipt,
                                          nonce |-> receipt.nonce]]]
       \/ /\ maySkip
          /\ checkout' = [checkout EXCEPT
               !.version = "stable",
               !.stableMarker = [core |-> core, publicBeta |-> PublicBeta,
                                 host |-> [status |-> "skipped", decision |-> PublicBeta]]]
  /\ UNCHANGED <<sessions, edits>> /\ UnchangedHistory

(* release.yml refuses a tag of another version than the package's at once. *)
TagCommit ==
  /\ \E v \in Versions :
       /\ tags[v] = Missing /\ commits[head].files.version = v
       /\ tags' = [tags EXCEPT ![v] = head]
  /\ UNCHANGED <<checkout, head, commits, registry, sessions, edits>>

(* start-session.mjs: a clean checkout of the tag, the plugin of the beta    *)
(* installed, the package in the registry; then the host is tried.           *)
HostSession ==
  LET marker == checkout.betaMarker IN
  /\ Clean /\ head = tags["beta"] /\ checkout.version = "beta"
  /\ marker # Missing /\ ObserverProvenance(marker.observer, checkout)
  /\ marker.plugin = PluginDigest(checkout)
  /\ registry["beta"] # Missing
  /\ sessions = {}
  /\ sessions' = {[commit |-> head, npm |-> registry["beta"], core |-> marker.core,
                   plugin |-> marker.plugin, observer |-> marker.observer,
                   nonce |-> Nonce]}
  /\ UNCHANGED <<checkout, edits>> /\ UnchangedHistory

(* release.yml works on the checkout of the tag. *)
Verified(v, commit) ==
  LET files == commits[commit].files IN
  IF v = "beta" THEN VerifyBeta(files, commit) ELSE VerifyStable(files, commit)

PublishPackage ==
  /\ \E v \in Versions :
       /\ tags[v] # Missing /\ registry[v] = Missing
       /\ Verified(v, tags[v])
       /\ registry' = [registry EXCEPT ![v] = Package(commits[tags[v]].files)]
  /\ UNCHANGED <<checkout, head, commits, tags, sessions, edits>>

ReleaseNext ==
  /\ UNCHANGED maySkip
  /\ \/ Edit \/ BuildObserver \/ CommitFiles \/ CheckOut
     \/ FreezeHost \/ PrepareBeta \/ PrepareStable \/ TagCommit \/ HostSession
     \/ PublishPackage

ReleaseSpec == ReleaseInit /\ [][ReleaseNext]_releaseVars

-----------------------------------------------------------------------------
(* The runtime that is published as stable is the one that was published as  *)
(* beta, which is the one that was frozen, on a commit both descend from,    *)
(* with the observer, the index and the fingerprints of then; and a host has *)
(* been tried with that beta, unless that may be skipped.                    *)
StableWasTested ==
  registry["stable"] # Missing =>
    LET stable == commits[tags["stable"]].files
        beta == commits[tags["beta"]].files
        frozen == commits[beta.betaMarker.core.commit].files
    IN /\ registry["beta"] = Package(beta)
       /\ tags["beta"] \in commits[tags["stable"]].line \ {tags["stable"]}
       /\ beta.betaMarker.core.commit \in commits[tags["beta"]].line \ {tags["beta"]}
       /\ \A file \in {"inputs", "helper"} :
            stable[file] = beta[file] /\ beta[file] = frozen[file]
       /\ stable.index = beta.index
       /\ Fingerprints[beta.index] = Fingerprints[frozen.index]
       /\ beta.observer = frozen.observer /\ beta.sources = frozen.sources
       /\ maySkip \/ \E receipt \in sessions :
            receipt.commit = tags["beta"] /\ receipt.npm = registry["beta"]

(* What a release says of the runtime is what has been tried, and a session  *)
(* that the observer completed counts (release-validation.ts:1765-1980).     *)
ReleaseIsTested == StableWasTested /\ CompletedIsAccepted
=============================================================================
