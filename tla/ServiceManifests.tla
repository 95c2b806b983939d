--------------------------- MODULE ServiceManifests ---------------------------
(***************************************************************************)
(* The durable authority over service manifests (packages/foundation/src/  *)
(* storage/service-manifest-transaction.ts): an index of service versions, *)
(* each valid in an interval of set revisions, over content-addressed      *)
(* manifest blobs, with a pointer to the candidate and one to the          *)
(* published revision.  Every operation is one immediate transaction.      *)
(* Digests are collision free: a set digest is the set revision it was     *)
(* made for, a manifest digest is the manifest.                            *)
(***************************************************************************)
EXTENDS Naturals, Sequences, FiniteSets, FiniteSetsExt

CONSTANTS
  Services, Manifests,
  Requests,      \* idempotency keys
  Backlog,       \* SERVICE_MANIFEST_MAX_UNPUBLISHED_SET_REVISIONS
  MaxServices, MaxRequests, MaxCleanup,  \* maxServices, maxRequestRecords, maxCleanupEntries
  MaxRevision    \* bound on the set revisions explored

ASSUME ManifestBounds == MaxCleanup \in Nat \ {0} /\ MaxRequests \in Nat \ {0}

VARIABLES
  versions,      \* manifest_service_versions: [service, from, to, revision, manifest]
  blobs,         \* manifest_blobs
  services,      \* manifest_services: of each service, its revision and manifest
  candidateRev,  \* candidate_set_revision
  publishedRev,  \* published_set_revision
  requests       \* manifest_requests, oldest first

manifestVars == <<versions, blobs, services, candidateRev, publishedRev, requests>>

NoService == [revision |-> 0, manifest |-> "none"]

ManifestInit ==
  /\ versions = {} /\ blobs = {} /\ requests = <<>>
  /\ services = [s \in Services |-> NoService]
  /\ candidateRev = 0 /\ publishedRev = 0

-----------------------------------------------------------------------------
(***************************************************************************)
(* readSnapshot                                                            *)
(***************************************************************************)
\* MUTANT of ValidAt: the interval of a version includes the revision that closed it.
MutValidAt(v, revision) == v.from <= revision /\ (v.to = 0 \/ v.to >= revision)

ValidAt(v, revision) == v.from <= revision /\ (v.to = 0 \/ v.to > revision)

\* The versions of a revision, joined with their blobs.
Snapshot(revision) ==
  {[service |-> v.service, revision |-> v.revision, manifest |-> v.manifest] :
     v \in {v \in versions : ValidAt(v, revision) /\ v.manifest \in blobs}}

-----------------------------------------------------------------------------
(***************************************************************************)
(* commitManifest                                                          *)
(***************************************************************************)
\* What a caller asks for, and what a request record keeps of it.
Inputs == [request : Requests, service : Services, manifest : Manifests,
           serviceRevision : 0..MaxRevision, setRevision : 0..MaxRevision]

Recorded(input) == \E k \in DOMAIN requests : requests[k].request = input.request

Current(input) ==
  /\ input.serviceRevision = services[input.service].revision
  /\ input.setRevision = candidateRev

\* The oldest request rows go, as far as the capacity needs it or they are past
\* their retention, but never more than one clean-up may touch.
Pruned(old) ==
  LET surplus == Max({old, Len(requests) + 1 - MaxRequests})
  IN SubSeq(requests, Min({surplus, MaxCleanup}) + 1, Len(requests))

Record(input) ==
  \E old \in 0..Len(requests) :
    /\ Len(Pruned(old)) < MaxRequests
    /\ requests' = Append(Pruned(old), input)

\* A manifest the service already has: only the request is recorded.
CommitUnchanged(input) ==
  /\ ~Recorded(input) /\ Current(input)
  /\ services[input.service].manifest = input.manifest
  /\ Record(input)
  /\ UNCHANGED <<versions, blobs, services, candidateRev, publishedRev>>

\* The open version of the service is closed at the new revision.
Superseded(s, revision) ==
  {IF v.service = s /\ v.to = 0 THEN [v EXCEPT !.to = revision] ELSE v : v \in versions}

CommitChange(input) ==
  LET s == input.service
      next == candidateRev + 1
      entry == [revision |-> services[s].revision + 1, manifest |-> input.manifest]
  IN /\ ~Recorded(input) /\ Current(input)
     /\ services[s].manifest # input.manifest
     /\ services[s] = NoService =>
          Cardinality({t \in Services : services[t] # NoService}) < MaxServices
     /\ candidateRev - publishedRev < Backlog
     /\ candidateRev < MaxRevision
     /\ blobs' = blobs \cup {input.manifest}
     /\ versions' = Superseded(s, next) \cup
          {[service |-> s, from |-> next, to |-> 0,
            revision |-> entry.revision, manifest |-> entry.manifest]}
     /\ services' = [services EXCEPT ![s] = entry]
     /\ candidateRev' = next
     /\ Record(input)
     /\ UNCHANGED publishedRev

-----------------------------------------------------------------------------
(***************************************************************************)
(* acknowledgePublished                                                    *)
(***************************************************************************)
\* MUTANT of Obsolete: a version closed by the published revision itself is kept.
MutObsolete(revision) == {v \in versions : v.to # 0 /\ v.to < revision}

Obsolete(revision) == {v \in versions : v.to # 0 /\ v.to <= revision}

\* Blobs of removed versions that no version refers to any more are deleted.
Referenced(removed) ==
  {m \in blobs : (\E v \in removed : v.manifest = m) => \E v \in versions \ removed : v.manifest = m}

\* ORDER BY valid_to_revision LIMIT maxCleanupEntries
Oldest(removed, obsolete) ==
  /\ Cardinality(removed) = Min({MaxCleanup, Cardinality(obsolete)})
  /\ \A v \in removed, w \in obsolete \ removed : v.to <= w.to

\* Only the current candidate can be acknowledged.
Acknowledge ==
  /\ publishedRev' = candidateRev
  /\ \E removed \in SUBSET Obsolete(candidateRev) :
       /\ Oldest(removed, Obsolete(candidateRev))
       /\ versions' = versions \ removed
       /\ blobs' = Referenced(removed)
  /\ UNCHANGED <<services, candidateRev, requests>>

ManifestNext ==
  \/ Acknowledge
  \/ \E input \in Inputs : CommitUnchanged(input) \/ CommitChange(input)

ManifestSpec == ManifestInit /\ [][ManifestNext]_manifestVars

-----------------------------------------------------------------------------
(***************************************************************************)
(* Properties.                                                             *)
(***************************************************************************)
\* Through versions, shared blobs and clean-up the two snapshots behave as two plain
\* sets: no commit and no clean-up ever changes what is published, and publication
\* takes over the candidate entry for entry (readSnapshot, commitManifest,
\* acknowledgePublished).
TwoSets == INSTANCE PublishedSet WITH
  candidate <- Snapshot(candidateRev), published <- Snapshot(publishedRev),
  ahead <- candidateRev - publishedRev
ImplementsPublishedSet == TwoSets!Spec

\* Nothing piles up: a version that was closed is kept only while the published
\* revision may still show it, and a blob only while a version refers to it
\* (acknowledgePublished, whose clean-up is bounded by maxCleanupEntries).
NothingPilesUp ==
  /\ \A v \in versions : v.to # 0 => v.to > publishedRev
  /\ blobs = {v.manifest : v \in versions}
===============================================================================
