-------------------------- MODULE ManifestPublication --------------------------
(***************************************************************************)
(* How a committed manifest set reaches the gateway: the observer          *)
(* (packages/agents/src/upstream-gateway/manifest-observer.ts) scans the   *)
(* authority, the committer (manifest-snapshot-commit.ts) replaces the     *)
(* gateway's registry and the operation catalog, announces both, and the   *)
(* composition (packages/server-runtime/src/composition/                   *)
(* server-runtime-providers.ts) acknowledges the set as published.  The    *)
(* authority is that of ServiceManifests, seen through its two revisions;  *)
(* a snapshot is identified by its own.                                    *)
(*                                                                         *)
(* Two lanes run their jobs one after the other: the committer's mutation  *)
(* lane, and the lane of operation layers in the permission platform       *)
(* (packages/capabilities/src/operation-permission-core/index.ts).         *)
(***************************************************************************)
EXTENDS Integers, Sequences

CONSTANTS
  Backlog,       \* SERVICE_MANIFEST_MAX_UNPUBLISHED_SET_REVISIONS
  MaxRevision,   \* bound on set revisions
  MaxPolicy,     \* bound on changes of grants
  MaxPlugins,    \* bound on changes of plugin operations
  MaxFaults,     \* bound on failing steps and crashes
  None

VARIABLES
  candidate, published,  \* the durable pointers
  observer,   \* bound: the committer exists; bootstrap: bootstrapReadPending;
              \* accepted: acceptedSetRevision; scan: activeScan, on its revision;
              \* early: for the properties, what the gateway alone accepted
  gateway,    \* registry: manifestSnapshotRevision; catalog: upstreamSourceRevision;
              \* base: the changes of plugin operations in baseOperations
  lane,       \* mutationLane: its jobs, the first one running
  step,       \* where the running job is
  prior,      \* what the running commit restores if it fails
  layers,     \* operationLayerMutation: its jobs, the first one running
  facts,      \* pending: pendingPublication; committed: lastCommittedKey; audience:
              \* lastAudienceProjection; event, audienceEvent: the last ones sent
  policy,     \* number of changes of grants and tags so far
  plugins,    \* number of changes of plugin operations begun
  faults,
  announced,  \* for the properties: the sets whose publication was announced,
  admitted,   \* the audience projections admitted by this process, and
  torn        \* whether a roll back failed and no commit succeeded since

authority == <<candidate, published>>
jobs == <<lane, step, prior, layers>>
environment == <<policy, plugins, faults>>
history == <<announced, admitted, torn>>
vars == <<authority, observer, gateway, jobs, facts, environment, history>>


NoAudience == [revision |-> 0, source |-> -1, catalog |-> -1, base |-> 0, policy |-> -1]
Idle == [step |-> "idle", revision |-> -1]

\* What a process knows when it starts.
BootObserver ==
  [bound |-> FALSE, bootstrap |-> TRUE, accepted |-> -1, early |-> -1, scan |-> Idle]
BootGateway == [registry |-> 0, catalog |-> -1, base |-> 0]
BootFacts == [pending |-> None, committed |-> -1, audience |-> NoAudience,
              event |-> -1, audienceEvent |-> NoAudience]

Init ==
  /\ candidate = 0 /\ published = 0
  /\ observer = BootObserver /\ gateway = BootGateway /\ facts = BootFacts
  /\ lane = <<>> /\ step = "start" /\ prior = None /\ layers = <<>>
  /\ policy = 0 /\ plugins = 0 /\ faults = 0
  /\ announced = {0} /\ admitted = {} /\ torn = FALSE

Fault == faults < MaxFaults /\ faults' = faults + 1 /\ UNCHANGED <<policy, plugins>>

-----------------------------------------------------------------------------
(***************************************************************************)
(* The observer and the writer.                                            *)
(***************************************************************************)
\* commitManifestSet with a change, from the publishing application or from the
\* configuration loader.
CommitManifest ==
  /\ candidate - published < Backlog /\ candidate < MaxRevision
  /\ candidate' = candidate + 1
  /\ UNCHANGED <<published, observer, gateway, jobs, facts, environment, history>>

\* executeScan up to its first await: the first read of a process is the published
\* snapshot, every later one the candidate.
ScanRead ==
  LET revision == IF observer.bootstrap THEN published ELSE candidate
  IN /\ observer.scan = Idle /\ revision > observer.accepted
     /\ observer' = [observer EXCEPT !.bootstrap = FALSE,
                                     !.scan = [step |-> "read", revision |-> revision]]
     /\ UNCHANGED <<authority, gateway, jobs, facts, environment, history>>

\* onSnapshot before the binding: the gateway alone takes the snapshot.
DeliverToGateway ==
  /\ observer.scan.step = "read" /\ ~observer.bound
  /\ gateway' = [gateway EXCEPT !.registry = observer.scan.revision]
  /\ observer' = [observer EXCEPT !.accepted = observer.scan.revision,
                                !.early = observer.scan.revision, !.scan = Idle]
  /\ UNCHANGED <<authority, jobs, facts, environment, history>>

\* onSnapshot after it: commitManifestSnapshot.
DeliverToCommitter ==
  /\ observer.scan.step = "read" /\ observer.bound
  /\ observer' = [observer EXCEPT !.scan.step = "commit"]
  /\ lane' = Append(lane, [kind |-> "commit", by |-> "scan", revision |-> observer.scan.revision])
  /\ UNCHANGED <<authority, gateway, step, prior, layers, facts, environment, history>>

\* MUTANT of Acknowledges: whatever the candidate is by now, it is published.
MutAcknowledges == published' = candidate

\* acknowledgePublished refuses all but the current candidate.
Acknowledges == observer.scan.revision = candidate /\ published' = candidate

AcknowledgeOk ==
  /\ observer.scan.step = "acknowledge"
  /\ Acknowledges
  /\ observer' = [observer EXCEPT !.accepted = observer.scan.revision, !.scan = Idle]
  /\ UNCHANGED <<candidate, gateway, jobs, facts, environment, history>>

\* MUTANT of Rejected: the set counts as accepted although its commit failed.
MutRejected == [observer EXCEPT !.accepted = observer.scan.revision, !.scan = Idle]

\* The catch of executeScan: the next scan finds the set again.
Rejected == [observer EXCEPT !.scan = Idle]

AcknowledgeStale ==
  /\ observer.scan.step = "acknowledge" /\ observer.scan.revision # candidate
  /\ observer' = Rejected
  /\ UNCHANGED <<authority, gateway, jobs, facts, environment, history>>

AcknowledgeFails ==
  /\ Fault
  /\ observer.scan.step = "acknowledge"
  /\ observer' = Rejected
  /\ UNCHANGED <<authority, gateway, jobs, facts, history>>

\* bindUpstreamManifestSnapshotCommit: the committer starts with the snapshot the
\* gateway has.
Bind ==
  /\ ~observer.bound /\ observer.accepted >= 0
  /\ observer' = [observer EXCEPT !.bound = TRUE]
  /\ lane' = <<[kind |-> "commit", by |-> "bind", revision |-> observer.accepted]>>
  /\ UNCHANGED <<authority, gateway, step, prior, layers, facts, environment, history>>

\* The process ends with all it knows, also because its start failed.
Reboot ==
  /\ observer' = BootObserver /\ gateway' = BootGateway /\ facts' = BootFacts
  /\ lane' = <<>> /\ step' = "start" /\ prior' = None /\ layers' = <<>>
  /\ admitted' = {} /\ torn' = FALSE

Crash == Fault /\ Reboot /\ UNCHANGED <<authority, announced>>

-----------------------------------------------------------------------------
(***************************************************************************)
(* The mutation lane.                                                      *)
(***************************************************************************)
At(kind, place) == lane # <<>> /\ Head(lane).kind = kind /\ step = place
LayersAt(job) == layers # <<>> /\ Head(layers) = job

\* What waits for the running job: an observer's scan, or a change of plugin operations
\* that holds the lane of operation layers meanwhile.
Resumes(ok) ==
  /\ lane' = Tail(lane) /\ step' = "start" /\ prior' = None
  /\ observer' = IF Head(lane).by # "scan" THEN observer
                 ELSE IF ok THEN [observer EXCEPT !.scan.step = "acknowledge"]
                 ELSE Rejected
  /\ layers' = IF Head(lane).by = "plugin" THEN Tail(layers) ELSE layers

\* The running job throws, and leaves the facts as it made them: a failed binding ends
\* the start of the process.
Throws(known) ==
  IF Head(lane).by = "bind"
    THEN Reboot
    ELSE Resumes(FALSE) /\ facts' = known /\ UNCHANGED <<gateway, admitted, torn>>

\* finishPendingPublication, before whatever job finds a publication pending.
ResumePublication ==
  /\ lane # <<>> /\ step = "start" /\ facts.pending # None
  /\ step' = "announce"
  /\ UNCHANGED <<authority, observer, gateway, lane, prior, layers, facts, environment, history>>

\* emitCatalogPublicationEvent
AnnounceCatalog ==
  /\ lane # <<>> /\ step = "announce"
  /\ facts' = [facts EXCEPT !.event = facts.pending.revision]
  /\ announced' = announced \cup {facts.pending.revision}
  /\ step' = "admit"
  /\ UNCHANGED <<authority, observer, gateway, lane, prior, layers, environment, admitted, torn>>

\* The bus fails; the publication stays pending.
AnnounceFails ==
  /\ Fault
  /\ lane # <<>> /\ step = "announce" /\ facts.event # facts.pending.revision
  /\ Throws(facts)
  /\ UNCHANGED <<authority, announced>>

\* MUTANT of Completed: the audience projection is not kept.
MutCompleted == [facts EXCEPT !.committed = facts.pending.revision,
                              !.audienceEvent = facts.pending.audience,
                              !.pending = None]

\* The end of finishPendingPublication: all that was pending becomes the last facts.
Completed == [facts EXCEPT !.committed = facts.pending.revision,
                           !.audience = facts.pending.audience,
                           !.audienceEvent = facts.pending.audience,
                           !.pending = None]

\* emitAudiencePublicationEvent: for a projection that is not the last one, the event,
\* unless it was the last one sent, and the admission.  The commit of this very set is
\* done, any other job goes on.
AdmitAudience ==
  /\ lane # <<>> /\ step = "admit"
  /\ facts' = Completed
  /\ admitted' = admitted \cup {facts.pending.audience}
  /\ IF Head(lane).revision = facts.pending.revision
       THEN Resumes(TRUE)
       ELSE step' = "start" /\ UNCHANGED <<observer, lane, prior, layers>>
  /\ UNCHANGED <<authority, gateway, environment, announced, torn>>

\* The bus fails.
AudienceEventFails ==
  /\ Fault
  /\ lane # <<>> /\ step = "admit"
  /\ facts.pending.audience \notin {facts.audience, facts.audienceEvent}
  /\ Throws(facts)
  /\ UNCHANGED <<authority, announced>>

\* onAudiencePublished throws, with the event sent: the publication stays pending.
AdmissionFails ==
  /\ Fault
  /\ lane # <<>> /\ step = "admit" /\ facts.pending.audience # facts.audience
  /\ Throws([facts EXCEPT !.audienceEvent = facts.pending.audience])
  /\ UNCHANGED <<authority, announced>>

\* A snapshot that was committed before, or one older than the gateway's.
CommittedAlready(revision) == revision = facts.committed \/ revision < gateway.registry

CommitIsOver ==
  /\ At("commit", "start") /\ facts.pending = None
  /\ CommittedAlready(Head(lane).revision)
  /\ Resumes(TRUE)
  /\ UNCHANGED <<authority, gateway, facts, environment, history>>

\* replaceFromManifestSnapshot; the catalog is to follow, in its own lane.
ReplaceRegistry ==
  /\ At("commit", "start") /\ facts.pending = None
  /\ ~CommittedAlready(Head(lane).revision)
  /\ prior' = gateway
  /\ gateway' = [gateway EXCEPT !.registry = Head(lane).revision]
  /\ layers' = Append(layers, "replace")
  /\ step' = "replace"
  /\ UNCHANGED <<authority, observer, lane, facts, environment, history>>

\* replaceUpstreamOperations, which never goes back.
ReplaceCatalog ==
  /\ At("commit", "replace") /\ LayersAt("replace")
  /\ Head(lane).revision >= gateway.catalog
  /\ gateway' = [gateway EXCEPT !.catalog = Head(lane).revision]
  /\ layers' = Tail(layers)
  /\ step' = "compile"
  /\ UNCHANGED <<authority, observer, lane, prior, facts, environment, history>>

\* The catalog, unless it has the set already, or the compilation of the audiences
\* fails.  rollbackPair restores the registry at once, and the catalog when its lane
\* comes to it.
CommitFails ==
  /\ Fault
  /\ \/ /\ At("commit", "replace") /\ LayersAt("replace")
        /\ Head(lane).revision > gateway.catalog
        /\ layers' = Append(Tail(layers), "restore")
     \/ At("commit", "compile") /\ layers' = Append(layers, "restore")
  /\ gateway' = [gateway EXCEPT !.registry = prior.registry]
  /\ step' = "restore"
  /\ UNCHANGED <<authority, observer, lane, prior, facts, history>>

\* MUTANT of Restored: only the gateway's registry is restored.
MutRestored == gateway

\* restoreOperationLayersState: both layers, as they were when the commit began.
Restored == [gateway EXCEPT !.catalog = prior.catalog, !.base = prior.base]

\* The commit throws, its roll back done: a failed binding ends the start of the process.
RolledBack(restored, tears) ==
  /\ At("commit", "restore") /\ LayersAt("restore")
  /\ IF Head(lane).by = "bind"
       THEN Reboot
       ELSE /\ gateway' = restored
            /\ lane' = Tail(lane) /\ step' = "start" /\ prior' = None
            /\ layers' = Tail(layers)
            /\ observer' = Rejected
            /\ torn' = (torn \/ tears)
            /\ UNCHANGED <<facts, admitted>>
  /\ UNCHANGED <<authority, announced>>

RestoreCatalog == RolledBack(Restored, FALSE) /\ UNCHANGED environment

\* saveCatalogSnapshot fails in the roll back: both layers stay as they are.
RestoreFails == RolledBack(gateway, gateway.catalog # prior.catalog) /\ Fault

\* compileAudienceProjection: the next revision, unless nothing changed.
Compiled(source) ==
  LET next == [revision |-> facts.audience.revision + 1, source |-> source,
               catalog |-> gateway.catalog, base |-> gateway.base, policy |-> policy]
  IN IF [next EXCEPT !.revision = facts.audience.revision] = facts.audience
       THEN facts.audience
       ELSE next

\* compileCurrentAudience and finalizeManifestSnapshot
CompileAudience ==
  /\ At("commit", "compile")
  /\ facts' = [facts EXCEPT !.pending = [revision |-> Head(lane).revision,
                                         audience |-> Compiled(Head(lane).revision)]]
  /\ step' = "announce"
  /\ torn' = FALSE
  /\ UNCHANGED <<authority, observer, gateway, lane, prior, layers, environment, announced, admitted>>

\* refreshAudienceProjectionNow: the event and the admission of a changed projection.
Refresh ==
  LET next == Compiled(facts.committed)
  IN /\ At("refresh", "start") /\ facts.pending = None
     /\ IF facts.committed = -1
          THEN UNCHANGED <<facts, admitted>>
          ELSE /\ facts' = [facts EXCEPT !.audience = next, !.audienceEvent = next]
               /\ admitted' = admitted \cup {next}
     /\ Resumes(TRUE)
     /\ UNCHANGED <<authority, gateway, environment, announced, torn>>

\* The compilation or the bus fails.  The handlers of changes are best effort: nobody
\* tries again.
RefreshFails ==
  /\ Fault
  /\ At("refresh", "start") /\ facts.pending = None /\ facts.committed # -1
  /\ Throws(facts)
  /\ UNCHANGED <<authority, announced>>

\* onAudiencePublished throws, with the event sent: the next projection that differs
\* from the last one admitted takes the same revision.
RefreshAdmissionFails ==
  LET next == Compiled(facts.committed)
  IN /\ Fault
     /\ At("refresh", "start") /\ facts.pending = None /\ facts.committed # -1
     /\ next # facts.audience
     /\ Throws([facts EXCEPT !.audienceEvent = next])
     /\ UNCHANGED <<authority, announced>>

-----------------------------------------------------------------------------
(***************************************************************************)
(* Changes from elsewhere, each followed by a refresh of the audiences.    *)
(***************************************************************************)
QueueRefresh(by) ==
  lane' = Append(lane, [kind |-> "refresh", by |-> by, revision |-> -1])

\* A grant or a tag changes.
ChangePolicy ==
  /\ observer.bound /\ policy < MaxPolicy
  /\ policy' = policy + 1
  /\ QueueRefresh("policy")
  /\ UNCHANGED <<authority, observer, gateway, step, prior, layers, facts, plugins, faults, history>>

\* refreshOperations, when the contributions of a plugin change: a job of the layers'
\* lane that ends when all whom it notifies are done.
ChangePlugin ==
  /\ observer.bound /\ plugins < MaxPlugins
  /\ plugins' = plugins + 1
  /\ layers' = Append(layers, "plugin")
  /\ UNCHANGED <<authority, observer, gateway, lane, step, prior, facts, policy, faults, history>>

\* MUTANT of NotifyPluginChange: nobody waits for those it notifies.
MutNotifyPluginChange ==
  /\ LayersAt("plugin")
  /\ layers' = Tail(layers)
  /\ gateway' = [gateway EXCEPT !.base = @ + 1]
  /\ QueueRefresh("policy")
  /\ UNCHANGED <<authority, observer, step, prior, facts, environment, history>>

\* applyOperationLayersNow, up to the end of those it notifies
NotifyPluginChange ==
  /\ LayersAt("plugin")
  /\ layers' = <<"notifying">> \o Tail(layers)
  /\ gateway' = [gateway EXCEPT !.base = @ + 1]
  /\ QueueRefresh("plugin")
  /\ UNCHANGED <<authority, observer, step, prior, facts, environment, history>>

\* Its catalog cannot be saved: the operations stay as they were.
PluginChangeFails ==
  /\ Fault
  /\ LayersAt("plugin")
  /\ layers' = Tail(layers)
  /\ UNCHANGED <<authority, observer, gateway, lane, step, prior, facts, history>>

Observer ==
  ScanRead \/ DeliverToGateway \/ DeliverToCommitter \/ AcknowledgeOk \/ AcknowledgeStale \/ Bind

Committer ==
  \/ ResumePublication \/ AnnounceCatalog \/ AdmitAudience
  \/ CommitIsOver \/ ReplaceRegistry \/ ReplaceCatalog \/ RestoreCatalog \/ CompileAudience
  \/ Refresh

Failures ==
  \/ Crash \/ AcknowledgeFails
  \/ AnnounceFails \/ AudienceEventFails \/ AdmissionFails
  \/ CommitFails \/ RestoreFails \/ RefreshFails \/ RefreshAdmissionFails
  \/ PluginChangeFails

Next ==
  \/ Observer \/ Committer \/ NotifyPluginChange \/ Failures
  \/ CommitManifest \/ ChangePolicy \/ ChangePlugin

Spec ==
  Init /\ [][Next]_vars /\ WF_vars(Observer) /\ WF_vars(Committer) /\ WF_vars(NotifyPluginChange)

-----------------------------------------------------------------------------
(***************************************************************************)
(* Properties.                                                             *)
(***************************************************************************)
\* With no job under way the gateway serves the set last committed, or the one whose
\* announcement is pending, and the operation catalog serves the same, whatever failed
\* and was rolled back before.  Only where a roll back failed itself is the catalog
\* ahead, and only until the next commit succeeds (commitManifestSnapshotNow,
\* rollbackPair, restoreOperationLayersState).
GatewayAndCatalogAgree ==
  observer.bound /\ lane = <<>> =>
    /\ gateway.registry = IF facts.pending = None THEN facts.committed ELSE facts.pending.revision
    /\ gateway.catalog = gateway.registry \/ (torn /\ gateway.catalog > gateway.registry)

\* A roll back puts back the plugin operations of the commit's beginning and yet undoes
\* no change of theirs: the change, in the same lane, would end first, and that takes a
\* refresh queued behind the commit (restoreOperationLayersState,
\* notifyOperationPermissionChanged).
RollBackKeepsPluginChanges ==
  step = "restore" /\ LayersAt("restore") => gateway.base = prior.base

\* A set is published only after the catalog took it over and announced it, in this
\* process or in one before it (onSnapshot, acknowledgePublished).
PublishedIsAnnounced == published \in announced

\* Within one process an audience revision means one thing: two projections whose
\* admission was completed under one revision are the same (compileAudienceProjection,
\* finishPendingPublication).  The next process counts from 1 again, and of projections
\* whose admission failed the events may bear one revision.
AudienceRevisionsIdentify ==
  \A a, b \in admitted : a.revision = b.revision => a = b

\* The observer's timer fired before the committer was bound, or the start was slow: the
\* gateway took the set over, the binding commits it, and as the observer counts it as
\* accepted it is not delivered again and nobody acknowledges it.
AcceptedEarly == observer.early = candidate /\ published < candidate

\* A change of plugin operations holds the lane of operation layers until the audiences
\* are refreshed, and the refresh is queued behind a commit that waits for that lane.
LanesWaitForEachOther ==
  LayersAt("notifying") /\ step \in {"replace", "restore"}

\* Every set committed is published in the end, or a later one in its stead, if only
\* finitely many steps fail: unless the process comes into one of the two states above,
\* which it does not leave by itself.
EveryCandidateIsPublished ==
  \A r \in 1..MaxRevision :
    candidate >= r ~> published >= r \/ AcceptedEarly \/ LanesWaitForEachOther

\* What PublicationEarly and PublicationDeadlock refute: that neither state is reached.
NothingIsStranded == ~AcceptedEarly
LanesMoveOn == ~LanesWaitForEachOther
=================================================================================
