----------------------- MODULE ManifestPublicationProofs -----------------------
(***************************************************************************)
(* Theorems about ManifestPublication for any number of sets, changes and  *)
(* faults.                                                                 *)
(***************************************************************************)
EXTENDS ManifestPublication, TLAPS

Audience == [revision : Nat, source : Int, catalog : Int, base : Int, policy : Int]
Pending == [revision : Int, audience : Audience]
Pair == [registry : Int, catalog : Int, base : Int]

\* Commits come from the observer's scans and from the binding.
CommitJob == [kind : {"commit"}, by : {"scan", "bind"}, revision : Int]
RefreshJob == [kind : {"refresh"}, by : {"policy", "plugin"}, revision : {-1}]

ScanSteps == {"idle", "read", "commit", "acknowledge"}
Steps == {"start", "replace", "compile", "restore", "announce", "admit"}

\* The steps of a commit that has replaced the registry, and may restore it.
Replacing == {"replace", "compile", "restore"}
Publishing == {"announce", "admit"}

Observers == [bound : BOOLEAN, bootstrap : BOOLEAN, accepted : Int, early : Int,
              scan : [step : ScanSteps, revision : Int]]
Facts == [pending : Pending \cup {None}, committed : Int, audience : Audience,
          event : Int, audienceEvent : Audience]
Jobs == CommitJob \cup RefreshJob

PublicationTypes ==
  /\ candidate \in Nat /\ published \in Nat /\ published <= candidate
  /\ observer \in Observers
  /\ gateway \in Pair
  /\ lane \in Seq(Jobs)
  /\ step \in Steps
  /\ facts \in Facts
  /\ policy \in Nat
  /\ admitted \subseteq Audience /\ torn \in BOOLEAN
  /\ step \in Replacing => lane # <<>> /\ Head(lane).kind = "commit" /\ prior \in Pair
  /\ step \in Publishing => lane # <<>> /\ facts.pending \in Pending

\* An observer waits for one job of the lane at most, and no other bears its name.
ScansAreQueued ==
  /\ observer.scan.step # "idle" => observer.scan.revision \in 0..candidate
  /\ \A k \in DOMAIN lane : lane[k].by = "scan" =>
       observer.scan.step = "commit" /\ observer.scan.revision = lane[k].revision
  /\ \A j, k \in DOMAIN lane : lane[j].by = "scan" /\ lane[k].by = "scan" => j = k

\* Whatever the gateway serves, or may go back to, is a set that was committed.
NothingIsAhead ==
  /\ gateway.registry <= candidate /\ observer.accepted <= candidate
  /\ step \in Replacing => prior.registry <= candidate
  /\ \A k \in DOMAIN lane : lane[k].revision <= candidate

\* The commit a scan waits for ends with its set announced, or with a newer one served.
CommitsAreAnnounced ==
  /\ published \in announced
  /\ facts.committed \in announced \cup {-1}
  /\ step = "admit" => facts.pending.revision \in announced
  /\ observer.scan.step = "acknowledge" =>
       observer.scan.revision \in announced \/ observer.scan.revision < candidate

AnnouncedInv == PublicationTypes /\ ScansAreQueued /\ NothingIsAhead /\ CommitsAreAnnounced

\* A projection under way is the last one, or the next.
AudienceInv ==
  /\ PublicationTypes
  /\ \A a \in admitted : /\ a.revision <= facts.audience.revision
                         /\ a.revision = facts.audience.revision => a = facts.audience
  /\ step \in Publishing \/ facts.pending # None =>
       \/ facts.pending.audience = facts.audience
       \/ facts.pending.audience.revision > facts.audience.revision
  /\ AudienceRevisionsIdentify

\* The set that was last committed, its announcement done or pending.
Served == IF facts.pending = None THEN facts.committed ELSE facts.pending.revision

\* The catalog has a set, or a later one if a roll back failed.
CatalogHas(catalog, set) == catalog = set \/ (torn /\ catalog > set)

Agree == gateway.registry = Served /\ CatalogHas(gateway.catalog, Served)

Binding == lane # <<>> /\ Head(lane).by = "bind"

\* Until its binding commits a process has committed nothing.
BindingInv ==
  /\ ~observer.bound => /\ facts = BootFacts /\ gateway.catalog = -1
                        /\ lane = <<>> /\ step = "start" /\ layers = <<>>
                        /\ observer.scan.step \in {"idle", "read"}
  /\ ~observer.bound => gateway.registry = observer.accepted \/ observer.accepted = -1
  /\ \A k \in DOMAIN lane : lane[k].by = "bind" => k = 1
  /\ Binding /\ step = "start" =>
       facts = BootFacts /\ gateway.registry = Head(lane).revision /\ gateway.registry >= 0
  /\ Binding /\ step \in Publishing => facts.pending.revision = Head(lane).revision

\* How far a commit has come, and what it can go back to.
CommitInv ==
  /\ observer.bound /\ step = "start" /\ ~Binding => Agree
  /\ step \in Publishing => Agree
  /\ step \in Replacing => facts.pending = None
  /\ step \in {"replace", "compile"} => gateway.registry = Head(lane).revision
  /\ step = "compile" => gateway.catalog = Head(lane).revision
  /\ step = "restore" => gateway.registry = prior.registry
  /\ step \in Replacing => gateway.catalog >= prior.catalog
  /\ step \in Replacing /\ ~Binding =>
       prior.registry = facts.committed /\ CatalogHas(prior.catalog, facts.committed)

AgreeInv == PublicationTypes /\ BindingInv /\ CommitInv

-----------------------------------------------------------------------------
(***************************************************************************)
(* What the parts of a step make of the state.                             *)
(***************************************************************************)
LEMMA AppendIs ==
  ASSUME NEW S, NEW q \in Seq(S), NEW x \in S, NEW r, r = Append(q, x)
  PROVE  /\ r \in Seq(S) /\ r # <<>>
         /\ q # <<>> => Head(r) = Head(q)
         /\ \A k \in DOMAIN r :
              \/ k \in DOMAIN q /\ r[k] = q[k]
              \/ k = Len(q) + 1 /\ r[k] = x
         /\ Len(q) + 1 \notin DOMAIN q
OBVIOUS

LEMMA TailIs ==
  ASSUME NEW S, NEW q \in Seq(S), q # <<>>
  PROVE  /\ Tail(q) \in Seq(S) /\ Head(q) \in S
         /\ Head(q) = q[1] /\ 1 \in DOMAIN q
         /\ \A k \in DOMAIN Tail(q) :
              k \in Nat \ {0} /\ k + 1 \in DOMAIN q /\ Tail(q)[k] = q[k + 1]
OBVIOUS

LEMMA ScanGoesTo ==
  ASSUME observer \in Observers, NEW place \in ScanSteps,
         NEW o, o = [observer EXCEPT !.scan.step = place]
  PROVE  /\ o \in Observers /\ o.scan.step = place
         /\ o.scan.revision = observer.scan.revision
         /\ o.bound = observer.bound /\ o.accepted = observer.accepted
<1> DEFINE scan == [observer.scan EXCEPT !.step = place]
<1>1. observer.scan \in [step : ScanSteps, revision : Int]
  BY DEF Observers
<1>2. /\ scan \in [step : ScanSteps, revision : Int]
      /\ scan.step = place /\ scan.revision = observer.scan.revision
  BY <1>1
<1>3. o = [observer EXCEPT !.scan = scan]
  OBVIOUS
<1> HIDE DEF scan
<1> QED
  BY <1>2, <1>3 DEF Observers

LEMMA RejectedIs ==
  ASSUME observer \in Observers
  PROVE  /\ Rejected \in Observers /\ Rejected.scan = Idle
         /\ Rejected.bound = observer.bound /\ Rejected.accepted = observer.accepted
<1>1. Idle \in [step : ScanSteps, revision : Int]
  BY DEF Idle, ScanSteps
<1> QED
  BY <1>1 DEF Rejected, Observers

LEMMA BootIs ==
  /\ BootObserver \in Observers /\ BootObserver.scan = Idle
  /\ ~BootObserver.bound /\ BootObserver.accepted = -1
  /\ BootGateway \in Pair /\ BootGateway.registry = 0 /\ BootGateway.catalog = -1
  /\ BootFacts \in Facts /\ BootFacts.pending = None /\ BootFacts.committed = -1
  /\ Idle.step = "idle" /\ Idle.revision = -1
BY DEF BootObserver, Observers, Idle, ScanSteps, BootGateway, Pair, BootFacts, Facts,
   NoAudience, Audience

\* The running job is over, well or not, and the scan that waits for it knows.
JobEnds(ok) ==
  /\ lane' = Tail(lane) /\ lane' \in Seq(Jobs) /\ step' = "start"
  /\ observer' \in Observers
  /\ observer'.bound = observer.bound /\ observer'.accepted = observer.accepted
  /\ Head(lane).by # "scan" => observer'.scan = observer.scan
  /\ Head(lane).by = "scan" /\ ~ok => observer'.scan = Idle
  /\ Head(lane).by = "scan" /\ ok =>
       /\ observer'.scan.step = "acknowledge"
       /\ observer'.scan.revision = observer.scan.revision

LEMMA ResumesIs ==
  ASSUME PublicationTypes, lane # <<>>, NEW ok \in BOOLEAN, Resumes(ok)
  PROVE  JobEnds(ok)
<1>1. observer \in Observers /\ lane \in Seq(Jobs)
  BY DEF PublicationTypes
<1>2. Tail(lane) \in Seq(Jobs)
  BY <1>1, TailIs
<1>3. CASE Head(lane).by # "scan"
  BY <1>1, <1>2, <1>3 DEF Resumes, JobEnds
<1>4. CASE Head(lane).by = "scan" /\ ~ok
  BY <1>1, <1>2, <1>4, RejectedIs DEF Resumes, JobEnds
<1>5. CASE Head(lane).by = "scan" /\ ok
  <2>1. observer' = [observer EXCEPT !.scan.step = "acknowledge"]
    BY <1>5 DEF Resumes
  <2>2. "acknowledge" \in ScanSteps
    BY DEF ScanSteps
  <2> QED
    BY <1>1, <1>2, <1>5, <2>1, <2>2, ScanGoesTo DEF Resumes, JobEnds
<1> QED
  BY <1>3, <1>4, <1>5

\* A commit that was rolled back ends likewise.
LEMMA RolledBackIs ==
  ASSUME PublicationTypes, NEW restored, NEW tears, RolledBack(restored, tears)
  PROVE  /\ lane # <<>> /\ step = "restore" /\ prior \in Pair
         /\ Reboot \/ (JobEnds(FALSE) /\ Head(lane).by # "bind"
                       /\ gateway' = restored /\ torn' = (torn \/ tears)
                       /\ UNCHANGED <<facts, admitted>>)
<1>1. lane # <<>> /\ Head(lane).kind = "commit" /\ lane \in Seq(Jobs) /\ observer \in Observers
  BY DEF RolledBack, At, PublicationTypes
<1>2. Head(lane) \in Jobs /\ Tail(lane) \in Seq(Jobs)
  BY <1>1, TailIs
<1>3. Head(lane).by \in {"scan", "bind"}
  BY <1>1, <1>2 DEF Jobs, CommitJob, RefreshJob
<1>4. step = "restore" /\ prior \in Pair
  BY DEF RolledBack, At, PublicationTypes, Replacing
<1> QED
  BY <1>2, <1>3, <1>4, <1>1, RejectedIs DEF RolledBack, JobEnds

\* Every way out of a job: the lane goes on, or the process ends.
LEMMA ThrowsIs ==
  ASSUME NEW known, Throws(known)
  PROVE  Reboot \/ (Resumes(FALSE) /\ facts' = known /\ UNCHANGED <<gateway, admitted, torn>>
                     /\ Head(lane).by # "bind")
BY DEF Throws

LEMMA CompiledIs ==
  ASSUME PublicationTypes, NEW source \in Int
  PROVE  /\ Compiled(source) \in Audience
         /\ Compiled(source) = facts.audience
              \/ Compiled(source).revision > facts.audience.revision
<1>1. facts.audience \in Audience /\ policy \in Nat /\ gateway.catalog \in Int /\ gateway.base \in Int
  BY DEF PublicationTypes, Facts, Pair
<1> DEFINE next == [revision |-> facts.audience.revision + 1, source |-> source,
                    catalog |-> gateway.catalog, base |-> gateway.base, policy |-> policy]
<1>2. next \in Audience /\ next.revision > facts.audience.revision
  BY <1>1 DEF Audience
<1>3. Compiled(source) \in {facts.audience, next}
  BY DEF Compiled
<1> QED
  BY <1>1, <1>2, <1>3

-----------------------------------------------------------------------------
(***************************************************************************)
(* Types.                                                                  *)
(***************************************************************************)
LEMMA RebootTypes ==
  ASSUME PublicationTypes, Reboot, UNCHANGED authority, policy' \in Nat
  PROVE  PublicationTypes'
<1>1. <<>> \in Seq(Jobs) /\ "start" \in Steps /\ "start" \notin Replacing /\ "start" \notin Publishing
  BY DEF Steps, Replacing, Publishing
<1> QED
  BY <1>1, BootIs DEF PublicationTypes, Reboot, authority

LEMMA ResumeTypes ==
  ASSUME PublicationTypes, lane # <<>>, NEW ok \in BOOLEAN, Resumes(ok), UNCHANGED authority,
         gateway' \in Pair, facts' \in Facts, policy' \in Nat, admitted' \subseteq Audience,
         torn' \in BOOLEAN
  PROVE  PublicationTypes'
<1>1. "start" \in Steps /\ "start" \notin Replacing /\ "start" \notin Publishing
  BY DEF Steps, Replacing, Publishing
<1> QED
  BY <1>1, ResumesIs DEF PublicationTypes, authority, JobEnds

LEMMA ThrowTypes ==
  ASSUME PublicationTypes, lane # <<>>, NEW known \in Facts, Throws(known),
         UNCHANGED <<authority, policy>>
  PROVE  PublicationTypes'
BY ThrowsIs, RebootTypes, ResumeTypes DEF PublicationTypes

LEMMA RollBackTypes ==
  ASSUME PublicationTypes, NEW restored \in Pair, NEW tears \in BOOLEAN,
         RolledBack(restored, tears), policy' = policy
  PROVE  PublicationTypes'
<1>1. UNCHANGED authority /\ policy' \in Nat
  BY DEF RolledBack, PublicationTypes
<1>2. CASE Reboot
  BY <1>1, <1>2, RebootTypes
<1>3. CASE JobEnds(FALSE) /\ gateway' = restored /\ torn' = (torn \/ tears)
           /\ UNCHANGED <<facts, admitted>>
  <2>1. "start" \in Steps /\ "start" \notin Replacing /\ "start" \notin Publishing
    BY DEF Steps, Replacing, Publishing
  <2> QED
    BY <1>1, <1>3, <2>1 DEF JobEnds, authority, PublicationTypes
<1> QED
  BY <1>2, <1>3, RolledBackIs

LEMMA ObserverTypes ==
  ASSUME PublicationTypes, Observer
  PROVE  PublicationTypes'
<1> USE DEF PublicationTypes
<1>1. CASE ScanRead
  <2> DEFINE r == IF observer.bootstrap THEN published ELSE candidate
  <2>1. [step |-> "read", revision |-> r] \in [step : ScanSteps, revision : Int]
    BY DEF ScanSteps
  <2>2. observer' \in Observers
    BY <1>1, <2>1 DEF ScanRead, Observers
  <2> QED
    BY <1>1, <2>2 DEF ScanRead, authority, jobs, environment, history
<1>2. CASE DeliverToGateway
  <2>1. observer' \in Observers /\ gateway' \in Pair
    BY <1>2, BootIs DEF DeliverToGateway, Observers, Pair, Idle, ScanSteps
  <2> QED
    BY <1>2, <2>1 DEF DeliverToGateway, authority, jobs, environment, history
<1>3. CASE AcknowledgeOk
  <2>1. observer' \in Observers
    <3>1. observer' = [observer EXCEPT !.accepted = observer.scan.revision, !.scan = Idle]
      BY <1>3 DEF AcknowledgeOk
    <3>2. observer.scan.revision \in Int /\ Idle \in [step : ScanSteps, revision : Int]
      BY DEF Observers, Idle, ScanSteps
    <3> QED
      BY <3>1, <3>2 DEF Observers
  <2> QED
    BY <1>3, <2>1 DEF AcknowledgeOk, Acknowledges, jobs, environment, history
<1>4. CASE AcknowledgeStale
  BY <1>4, RejectedIs DEF AcknowledgeStale, authority, jobs, environment, history
<1>5. CASE Bind
  <2>1. observer' \in Observers
    BY <1>5 DEF Bind, Observers
  <2>2. [kind |-> "commit", by |-> "bind", revision |-> observer.accepted] \in CommitJob
    BY <1>5 DEF Bind, Observers, CommitJob
  <2>3. lane' \in Seq(Jobs) /\ Head(lane').kind = "commit" /\ lane' # <<>>
    BY <1>5, <2>2 DEF Bind, Jobs
  <2> QED
    BY <1>5, <2>1, <2>3 DEF Bind, authority, environment, history
<1>6. CASE DeliverToCommitter
  <2>1. observer' \in Observers
    BY <1>6, ScanGoesTo DEF DeliverToCommitter, ScanSteps
  <2> DEFINE job == [kind |-> "commit", by |-> "scan", revision |-> observer.scan.revision]
  <2>2. job \in Jobs
    BY <1>6 DEF CommitJob, Jobs, Observers
  <2>3. lane' = Append(lane, job)
    BY <1>6 DEF DeliverToCommitter
  <2> HIDE DEF job
  <2>4. lane' \in Seq(Jobs) /\ lane' # <<>> /\ (lane # <<>> => Head(lane') = Head(lane))
    BY <2>2, <2>3, AppendIs
  <2> QED
    BY <1>6, <2>1, <2>4 DEF DeliverToCommitter, authority, environment, history
<1> QED
  BY <1>1, <1>2, <1>3, <1>4, <1>5, <1>6 DEF Observer

LEMMA CommitterTypes ==
  ASSUME PublicationTypes, Committer
  PROVE  PublicationTypes'
<1> USE DEF PublicationTypes
<1>1. CASE ResumePublication
  BY <1>1 DEF ResumePublication, authority, environment, history, Steps, Replacing,
     Publishing, Facts
<1>2. CASE AnnounceCatalog
  <2>1. facts.pending \in Pending /\ lane # <<>>
    BY <1>2 DEF AnnounceCatalog, Publishing
  <2>2. facts' \in Facts /\ facts'.pending = facts.pending
    BY <1>2, <2>1 DEF AnnounceCatalog, Facts, Pending
  <2> QED
    BY <1>2, <2>1, <2>2 DEF AnnounceCatalog, authority, environment, Steps, Replacing, Publishing
<1>3. CASE AdmitAudience
  <2>1. facts.pending \in Pending /\ facts.pending.audience \in Audience /\ lane # <<>>
    BY <1>3 DEF AdmitAudience, Publishing, Pending
  <2>2. Completed \in Facts
    BY <2>1 DEF Completed, Facts, Pending
  <2>3. facts' \in Facts /\ admitted' \subseteq Audience /\ gateway' \in Pair /\ policy' \in Nat
        /\ UNCHANGED <<authority, torn>>
    BY <1>3, <2>1, <2>2 DEF AdmitAudience, environment
  <2>4. CASE Resumes(TRUE)
    BY <2>1, <2>3, <2>4, ResumeTypes
  <2>5. CASE step' = "start" /\ UNCHANGED <<observer, lane, prior, layers>>
    BY <2>3, <2>5 DEF authority, Steps, Replacing, Publishing
  <2> QED
    BY <1>3, <2>4, <2>5 DEF AdmitAudience
<1>4. CASE CommitIsOver
  BY <1>4, ResumeTypes DEF CommitIsOver, At, environment, history
<1>5. CASE ReplaceRegistry
  <2>1. lane # <<>> /\ Head(lane).kind = "commit" /\ Head(lane) \in Jobs
    BY <1>5, TailIs DEF ReplaceRegistry, At
  <2>2. gateway' \in Pair /\ prior' \in Pair
    BY <1>5, <2>1 DEF ReplaceRegistry, Pair, Jobs, CommitJob, RefreshJob
  <2> QED
    BY <1>5, <2>1, <2>2 DEF ReplaceRegistry, authority, environment, history, Steps,
       Replacing, Publishing
<1>6. CASE ReplaceCatalog
  <2>1. lane # <<>> /\ Head(lane).kind = "commit" /\ Head(lane) \in Jobs /\ prior \in Pair
    BY <1>6, TailIs DEF ReplaceCatalog, At, Replacing
  <2>2. gateway' \in Pair
    BY <1>6, <2>1 DEF ReplaceCatalog, Pair, Jobs, CommitJob, RefreshJob
  <2> QED
    BY <1>6, <2>1, <2>2 DEF ReplaceCatalog, authority, environment, history, Steps,
       Replacing, Publishing
<1>7. CASE RestoreCatalog
  <2>1. prior \in Pair
    BY <1>7, RolledBackIs DEF RestoreCatalog
  <2>2. Restored \in Pair
    BY <2>1 DEF Restored, Pair
  <2>3. policy' = policy
    BY <1>7 DEF RestoreCatalog, environment
  <2> QED
    BY <1>7, <2>2, <2>3, RollBackTypes DEF RestoreCatalog
<1>8. CASE CompileAudience
  <2>1. lane # <<>> /\ Head(lane) \in Jobs /\ Head(lane).revision \in Int
    BY <1>8, TailIs DEF CompileAudience, At, Jobs, CommitJob, RefreshJob
  <2>2. [revision |-> Head(lane).revision, audience |-> Compiled(Head(lane).revision)] \in Pending
    BY <2>1, CompiledIs DEF Pending
  <2>3. facts' \in Facts /\ facts'.pending \in Pending
    BY <1>8, <2>2 DEF CompileAudience, Facts
  <2> QED
    BY <1>8, <2>1, <2>3 DEF CompileAudience, authority, environment, history, Steps,
       Replacing, Publishing
<1>9. CASE Refresh
  <2>1. lane # <<>>
    BY <1>9 DEF Refresh, At
  <2>2. Compiled(facts.committed) \in Audience
    BY CompiledIs DEF Facts
  <2>3. facts' \in Facts /\ admitted' \subseteq Audience
    BY <1>9, <2>2 DEF Refresh, Facts
  <2> QED
    BY <1>9, <2>1, <2>3, ResumeTypes DEF Refresh, environment
<1> QED
  BY <1>1, <1>2, <1>3, <1>4, <1>5, <1>6, <1>7, <1>8, <1>9 DEF Committer

LEMMA FailureTypes ==
  ASSUME PublicationTypes, Failures
  PROVE  PublicationTypes'
<1> USE DEF PublicationTypes
<1>1. CASE Crash
  BY <1>1, RebootTypes DEF Crash, Fault
<1>2. CASE AcknowledgeFails
  BY <1>2, RejectedIs DEF AcknowledgeFails, Fault, authority, jobs, history
<1>3. CASE AnnounceFails \/ AudienceEventFails \/ RefreshFails
  BY <1>3, ThrowTypes DEF AnnounceFails, AudienceEventFails, RefreshFails, Fault, At
<1>5. CASE AdmissionFails
  <2>1. facts.pending.audience \in Audience
    BY <1>5 DEF AdmissionFails, Publishing, Pending
  <2>2. [facts EXCEPT !.audienceEvent = facts.pending.audience] \in Facts
    BY <2>1 DEF Facts
  <2> QED
    BY <1>5, <2>2, ThrowTypes DEF AdmissionFails, Fault
<1>6. CASE RefreshAdmissionFails
  <2> DEFINE next == Compiled(facts.committed)
  <2>1. next \in Audience
    BY CompiledIs DEF Facts
  <2>2. Throws([facts EXCEPT !.audienceEvent = next])
    BY <1>6 DEF RefreshAdmissionFails
  <2> HIDE DEF next
  <2>3. [facts EXCEPT !.audienceEvent = next] \in Facts
    BY <2>1 DEF Facts
  <2> QED
    BY <1>6, <2>2, <2>3, ThrowTypes DEF RefreshAdmissionFails, Fault, At
<1>7. CASE RestoreFails
  BY <1>7, RollBackTypes DEF RestoreFails, Fault
<1>8. CASE PluginChangeFails
  BY <1>8 DEF PluginChangeFails, Fault, authority, history
<1>4. CASE CommitFails
  <2>1. lane # <<>> /\ Head(lane).kind = "commit" /\ prior \in Pair
    BY <1>4 DEF CommitFails, At, Replacing
  <2>2. gateway' \in Pair
    BY <1>4, <2>1 DEF CommitFails, Pair
  <2> QED
    BY <1>4, <2>1, <2>2 DEF CommitFails, Fault, authority, history, Steps, Replacing, Publishing
<1> QED
  BY <1>1, <1>2, <1>3, <1>4, <1>5, <1>6, <1>7, <1>8 DEF Failures

\* A refresh is queued, and nothing but a count of changes is touched.
LEMMA QueueIs ==
  ASSUME PublicationTypes, NEW by \in {"policy", "plugin"}, QueueRefresh(by)
  PROVE  /\ lane' \in Seq(Jobs) /\ lane' # <<>>
         /\ lane # <<>> => Head(lane') = Head(lane)
         /\ \A k \in DOMAIN lane' :
              \/ k \in DOMAIN lane /\ lane'[k] = lane[k]
              \/ lane'[k].by = by /\ lane'[k].kind = "refresh" /\ lane'[k].revision = -1
<1> DEFINE job == [kind |-> "refresh", by |-> by, revision |-> -1]
<1>1. job \in Jobs /\ job.by = by /\ job.kind = "refresh" /\ job.revision = -1
  BY DEF Jobs, RefreshJob
<1>2. lane' = Append(lane, job)
  BY DEF QueueRefresh
<1> HIDE DEF job
<1> QED
  BY <1>1, <1>2, AppendIs DEF PublicationTypes

LEMMA ChangeTypes ==
  ASSUME PublicationTypes,
         CommitManifest \/ ChangePolicy \/ ChangePlugin \/ NotifyPluginChange
  PROVE  PublicationTypes'
<1> USE DEF PublicationTypes
<1>1. CASE CommitManifest
  BY <1>1 DEF CommitManifest, jobs, environment, history
<1>2. CASE ChangePolicy
  BY <1>2, QueueIs DEF ChangePolicy, authority, history
<1>3. CASE ChangePlugin
  BY <1>3 DEF ChangePlugin, authority, history
<1>4. CASE NotifyPluginChange
  <2>1. gateway' = [gateway EXCEPT !.base = gateway.base + 1] /\ gateway \in Pair
    BY <1>4 DEF NotifyPluginChange
  <2>2. gateway' \in Pair
    BY <2>1 DEF Pair
  <2> QED
    BY <1>4, <2>2, QueueIs DEF NotifyPluginChange, authority, environment, history
<1> QED
  BY <1>1, <1>2, <1>3, <1>4

LEMMA TypesInit == Init => PublicationTypes
<1> SUFFICES ASSUME Init PROVE PublicationTypes
  OBVIOUS
<1>1. lane \in Seq(Jobs) /\ admitted \subseteq Audience
  BY DEF Init
<1>3. torn \in BOOLEAN
  BY Zenon DEF Init
<1>2. step \in Steps /\ step \notin Replacing /\ step \notin Publishing
  BY DEF Init, Steps, Replacing, Publishing
<1> QED
  BY <1>1, <1>2, <1>3, BootIs DEF Init, PublicationTypes

LEMMA TypesStep == PublicationTypes /\ [Next]_vars => PublicationTypes'
<1> SUFFICES ASSUME PublicationTypes, [Next]_vars PROVE PublicationTypes'
  OBVIOUS
<1>1. CASE UNCHANGED vars
  BY <1>1 DEF vars, authority, jobs, environment, history, PublicationTypes
<1> QED
  BY <1>1, ObserverTypes, CommitterTypes, FailureTypes, ChangeTypes DEF Next

LEMMA Typed == Spec => []PublicationTypes
BY TypesInit, TypesStep, PTL DEF Spec

-----------------------------------------------------------------------------
(***************************************************************************)
(* Audience revisions.                                                     *)
(***************************************************************************)
\* What has nothing to do with audiences keeps what is known of them.
LEMMA AudienceFrame ==
  ASSUME AudienceInv, PublicationTypes', admitted' = admitted,
         facts'.pending = facts.pending, facts'.audience = facts.audience,
         step' \in Publishing => step \in Publishing \/ facts.pending # None
  PROVE  AudienceInv'
BY DEF AudienceInv, AudienceRevisionsIdentify

LEMMA AudienceBoots ==
  ASSUME PublicationTypes', Reboot
  PROVE  AudienceInv'
BY BootIs DEF Reboot, AudienceInv, AudienceRevisionsIdentify, Publishing

\* A projection that is admitted as the last one: it is the last one, or a later one.
LEMMA AudienceAdmitted ==
  ASSUME AudienceInv, PublicationTypes', NEW a \in Audience,
         a = facts.audience \/ a.revision > facts.audience.revision,
         admitted' = admitted \cup {a}, facts'.audience = a,
         facts'.pending = None, step' \notin Publishing
  PROVE  AudienceInv'
<1>1. /\ facts.audience \in Audience /\ admitted \subseteq Audience
      /\ \A b \in Audience : b.revision \in Nat
  BY DEF AudienceInv, PublicationTypes, Facts, Audience
<1>2. \A b \in admitted' : b.revision <= a.revision /\ (b.revision = a.revision => b = a)
  BY <1>1 DEF AudienceInv
<1>3. AudienceRevisionsIdentify'
  BY <1>1, <1>2 DEF AudienceInv, AudienceRevisionsIdentify
<1> QED
  BY <1>2, <1>3 DEF AudienceInv

LEMMA AudienceThrows ==
  ASSUME AudienceInv, PublicationTypes', lane # <<>>, NEW known, Throws(known),
         known.pending = facts.pending, known.audience = facts.audience
  PROVE  AudienceInv'
<1>1. CASE Reboot
  BY <1>1, AudienceBoots
<1>2. CASE Resumes(FALSE) /\ facts' = known /\ UNCHANGED <<gateway, admitted, torn>>
  BY <1>2, AudienceFrame DEF Resumes, Publishing
<1> QED
  BY <1>1, <1>2, ThrowsIs

LEMMA AudienceRollsBack ==
  ASSUME AudienceInv, PublicationTypes', NEW restored, NEW tears, RolledBack(restored, tears)
  PROVE  AudienceInv'
<1>1. CASE Reboot
  BY <1>1, AudienceBoots
<1>2. CASE step' = "start" /\ UNCHANGED <<facts, admitted>>
  BY <1>2, AudienceFrame DEF Publishing
<1> QED
  BY <1>1, <1>2 DEF RolledBack

LEMMA AudienceCommitter ==
  ASSUME AudienceInv, PublicationTypes', Committer
  PROVE  AudienceInv'
<1>1. PublicationTypes /\ facts \in Facts
  BY DEF AudienceInv, PublicationTypes
<1>2. CASE ResumePublication
  BY <1>2, AudienceFrame DEF ResumePublication, history
<1>3. CASE AnnounceCatalog
  <2>1. facts'.pending = facts.pending /\ facts'.audience = facts.audience
    BY <1>1, <1>3 DEF AnnounceCatalog, Facts
  <2> QED
    BY <1>3, <2>1, AudienceFrame DEF AnnounceCatalog, Publishing
<1>4. CASE AdmitAudience
  <2> DEFINE a == facts.pending.audience
  <2>1. a \in Audience /\ step \in Publishing
    BY <1>1, <1>4 DEF AdmitAudience, PublicationTypes, Publishing, Pending
  <2>2. a = facts.audience \/ a.revision > facts.audience.revision
    BY <2>1 DEF AudienceInv
  <2>3. /\ facts' = Completed /\ admitted' = admitted \cup {a} /\ step' = "start"
    BY <1>4 DEF AdmitAudience, Resumes
  <2>4. facts'.audience = a /\ facts'.pending = None /\ step' \notin Publishing
    BY <1>1, <2>3 DEF Completed, Facts, Publishing
  <2> HIDE DEF a
  <2> QED
    BY <2>1, <2>2, <2>3, <2>4, AudienceAdmitted
<1>5. CASE CommitIsOver
  BY <1>5, AudienceFrame DEF CommitIsOver, Resumes, history, Publishing
<1>6. CASE ReplaceRegistry \/ ReplaceCatalog
  BY <1>6, AudienceFrame DEF ReplaceRegistry, ReplaceCatalog, history, Publishing
<1>7. CASE RestoreCatalog
  BY <1>7, AudienceRollsBack DEF RestoreCatalog
<1>8. CASE CompileAudience
  <2>1. Head(lane).revision \in Int
    BY <1>1, <1>8, TailIs DEF CompileAudience, At, PublicationTypes, Jobs, CommitJob, RefreshJob
  <2> DEFINE a == Compiled(Head(lane).revision)
  <2>2. a = facts.audience \/ a.revision > facts.audience.revision
    BY <1>1, <2>1, CompiledIs
  <2>3. /\ facts' = [facts EXCEPT !.pending = [revision |-> Head(lane).revision, audience |-> a]]
        /\ admitted' = admitted
    BY <1>8 DEF CompileAudience, history
  <2>4. facts'.pending.audience = a /\ facts'.audience = facts.audience
    BY <1>1, <2>3 DEF Facts
  <2> HIDE DEF a
  <2> QED
    BY <2>2, <2>3, <2>4 DEF AudienceInv, AudienceRevisionsIdentify
<1>9. CASE Refresh
  <2> DEFINE a == Compiled(facts.committed)
  <2>1. a \in Audience /\ (a = facts.audience \/ a.revision > facts.audience.revision)
    BY <1>1, CompiledIs DEF Facts
  <2>2. step' \notin Publishing /\ facts.pending = None
    BY <1>9 DEF Refresh, Resumes, Publishing
  <2>3. CASE facts.committed = -1
    BY <1>9, <2>2, <2>3, AudienceFrame DEF Refresh
  <2>4. CASE facts.committed # -1
    <3>1. /\ facts' = [facts EXCEPT !.audience = a, !.audienceEvent = a]
          /\ admitted' = admitted \cup {a}
      BY <1>9, <2>4 DEF Refresh
    <3>2. facts'.audience = a /\ facts'.pending = None
      BY <1>1, <2>2, <3>1 DEF Facts
    <3> HIDE DEF a
    <3> QED
      BY <2>1, <2>2, <3>1, <3>2, AudienceAdmitted
  <2> QED
    BY <2>3, <2>4
<1> QED
  BY <1>2, <1>3, <1>4, <1>5, <1>6, <1>7, <1>8, <1>9 DEF Committer

LEMMA AudienceStep == AudienceInv /\ PublicationTypes' /\ [Next]_vars => AudienceInv'
<1> SUFFICES ASSUME AudienceInv, PublicationTypes', [Next]_vars PROVE AudienceInv'
  OBVIOUS
<1>1. CASE Committer
  BY <1>1, AudienceCommitter
<1>2. CASE Observer
  BY <1>2, AudienceFrame
    DEF Observer, ScanRead, DeliverToGateway, DeliverToCommitter, AcknowledgeOk,
        AcknowledgeStale, Bind, jobs, history
<1>3. CASE Failures
  <2>1. CASE Crash
    BY <2>1, AudienceBoots DEF Crash
  <2>2. CASE AnnounceFails \/ AudienceEventFails \/ RefreshFails
    BY <2>2, AudienceThrows DEF AnnounceFails, AudienceEventFails, RefreshFails, At
  <2>3. CASE AcknowledgeFails \/ CommitFails \/ PluginChangeFails
    BY <2>3, AudienceFrame
      DEF AcknowledgeFails, CommitFails, PluginChangeFails, jobs, history, Publishing
  <2>4. ASSUME NEW a, lane # <<>>, Throws([facts EXCEPT !.audienceEvent = a])
        PROVE  AudienceInv'
    <3>1. facts \in Facts
      BY DEF AudienceInv, PublicationTypes
    <3>2. /\ [facts EXCEPT !.audienceEvent = a].pending = facts.pending
          /\ [facts EXCEPT !.audienceEvent = a].audience = facts.audience
      BY <3>1 DEF Facts
    <3> QED
      BY <2>4, <3>2, AudienceThrows
  <2>5. CASE AdmissionFails \/ RefreshAdmissionFails
    BY <2>4, <2>5 DEF AdmissionFails, RefreshAdmissionFails, At
  <2>6. CASE RestoreFails
    BY <2>6, AudienceRollsBack DEF RestoreFails
  <2> QED
    BY <1>3, <2>1, <2>2, <2>3, <2>5, <2>6 DEF Failures
<1>4. CASE CommitManifest \/ ChangePolicy \/ ChangePlugin \/ NotifyPluginChange
  BY <1>4, AudienceFrame
    DEF CommitManifest, ChangePolicy, ChangePlugin, NotifyPluginChange, jobs, history
<1>5. CASE UNCHANGED vars
  BY <1>5, AudienceFrame DEF vars, jobs, history
<1> QED
  BY <1>1, <1>2, <1>3, <1>4, <1>5 DEF Next

\* However announcements fail and are resumed, and whatever grants change meanwhile,
\* two projections that were admitted under one revision are the same
\* (compileAudienceProjection, finishPendingPublication).
THEOREM AudiencesAreIdentified == Spec => []AudienceRevisionsIdentify
<1>1. Init => AudienceInv
  BY TypesInit DEF Init, AudienceInv, AudienceRevisionsIdentify, BootFacts, Publishing
<1>2. AudienceInv => AudienceRevisionsIdentify
  BY DEF AudienceInv
<1> QED
  BY <1>1, <1>2, AudienceStep, Typed, PTL DEF Spec

-----------------------------------------------------------------------------
(***************************************************************************)
(* What is published was announced.                                        *)
(***************************************************************************)
LEMMA AnnouncedBoots ==
  ASSUME AnnouncedInv, PublicationTypes', Reboot, UNCHANGED <<authority, announced>>
  PROVE  AnnouncedInv'
<1>1. candidate \in Nat
  BY DEF AnnouncedInv, PublicationTypes
<1> QED
  BY <1>1, BootIs
    DEF Reboot, authority, AnnouncedInv, ScansAreQueued, NothingIsAhead, CommitsAreAnnounced,
        Replacing

LEMMA AnnouncedJobEnds ==
  ASSUME AnnouncedInv, PublicationTypes', lane # <<>>, NEW ok \in BOOLEAN, JobEnds(ok),
         UNCHANGED <<candidate, published, announced>>, gateway'.registry = gateway.registry,
         facts'.committed \in announced \cup {-1},
         Head(lane).by = "scan" /\ ok =>
           Head(lane).revision \in announced \/ Head(lane).revision < candidate
  PROVE  AnnouncedInv'
<1>1. lane \in Seq(Jobs) /\ candidate \in Nat
  BY DEF AnnouncedInv, PublicationTypes
<1>2. /\ Head(lane) = lane[1] /\ 1 \in DOMAIN lane /\ lane' = Tail(lane)
      /\ \A k \in DOMAIN Tail(lane) :
           k \in Nat \ {0} /\ k + 1 \in DOMAIN lane /\ Tail(lane)[k] = lane[k + 1]
  BY <1>1, TailIs DEF JobEnds
<1>3. Head(lane).by = "scan" =>
        /\ observer.scan.step = "commit" /\ observer.scan.revision = Head(lane).revision
        /\ \A k \in DOMAIN lane' : lane'[k].by # "scan"
  BY <1>2 DEF AnnouncedInv, ScansAreQueued
<1>4. ScansAreQueued'
  <2>1. CASE Head(lane).by = "scan"
    BY <1>3, <2>1, BootIs DEF JobEnds, AnnouncedInv, ScansAreQueued
  <2>2. CASE Head(lane).by # "scan"
    <3>1. observer'.scan = observer.scan
      BY <2>2 DEF JobEnds
    <3>2. ASSUME NEW k \in DOMAIN lane', lane'[k].by = "scan"
          PROVE  observer.scan.step = "commit" /\ observer.scan.revision = lane'[k].revision
      BY <1>2, <3>2 DEF AnnouncedInv, ScansAreQueued
    <3>3. ASSUME NEW j \in DOMAIN lane', NEW k \in DOMAIN lane',
                 lane'[j].by = "scan", lane'[k].by = "scan"
          PROVE  j = k
      <4>1. j + 1 = k + 1 /\ j \in Nat /\ k \in Nat
        BY <1>2, <3>3 DEF AnnouncedInv, ScansAreQueued
      <4> QED
        BY <4>1
    <3> QED
      BY <3>1, <3>2, <3>3 DEF AnnouncedInv, ScansAreQueued
  <2> QED
    BY <2>1, <2>2
<1>5. NothingIsAhead'
  BY <1>2 DEF JobEnds, AnnouncedInv, NothingIsAhead, Replacing
<1>6. CommitsAreAnnounced'
  BY <1>3, BootIs DEF JobEnds, AnnouncedInv, CommitsAreAnnounced
<1> QED
  BY <1>4, <1>5, <1>6 DEF AnnouncedInv

LEMMA AnnouncedThrows ==
  ASSUME AnnouncedInv, PublicationTypes', lane # <<>>, NEW known, Throws(known),
         known.committed = facts.committed, UNCHANGED <<authority, announced>>
  PROVE  AnnouncedInv'
<1>1. CASE Reboot
  BY <1>1, AnnouncedBoots
<1>2. CASE Resumes(FALSE) /\ facts' = known /\ UNCHANGED <<gateway, admitted, torn>>
  <2>1. JobEnds(FALSE)
    BY <1>2, ResumesIs DEF AnnouncedInv
  <2>2. facts'.committed \in announced \cup {-1}
    BY <1>2 DEF AnnouncedInv, CommitsAreAnnounced
  <2> QED
    BY <1>2, <2>1, <2>2, AnnouncedJobEnds DEF authority
<1> QED
  BY <1>1, <1>2, ThrowsIs

LEMMA AnnouncedRollsBack ==
  ASSUME AnnouncedInv, PublicationTypes', NEW restored, NEW tears, RolledBack(restored, tears),
         restored.registry = gateway.registry
  PROVE  AnnouncedInv'
<1>1. lane # <<>> /\ UNCHANGED <<authority, announced>>
  BY RolledBackIs DEF RolledBack, AnnouncedInv
<1>2. CASE Reboot
  BY <1>1, <1>2, AnnouncedBoots
<1>3. CASE JobEnds(FALSE) /\ gateway' = restored /\ UNCHANGED <<facts, admitted>>
  <2>1. facts'.committed \in announced \cup {-1}
    BY <1>3 DEF AnnouncedInv, CommitsAreAnnounced
  <2> QED
    BY <1>1, <1>3, <2>1, AnnouncedJobEnds DEF authority
<1> QED
  BY <1>2, <1>3, RolledBackIs DEF AnnouncedInv

LEMMA AnnouncedObserver ==
  ASSUME AnnouncedInv, PublicationTypes', Observer
  PROVE  AnnouncedInv'
<1>1. /\ PublicationTypes /\ observer \in Observers /\ gateway \in Pair
      /\ candidate \in Nat /\ published \in Nat /\ published <= candidate
  BY DEF AnnouncedInv, PublicationTypes
<1> USE DEF AnnouncedInv, ScansAreQueued, NothingIsAhead, CommitsAreAnnounced
<1>2. CASE ScanRead
  <2> DEFINE r == IF observer.bootstrap THEN published ELSE candidate
  <2>1. observer' = [observer EXCEPT !.bootstrap = FALSE,
                                     !.scan = [step |-> "read", revision |-> r]]
    BY <1>2 DEF ScanRead
  <2>2. r \in 0..candidate
    BY <1>1
  <2>3. observer'.scan.step = "read" /\ observer'.scan.revision = r
        /\ observer'.accepted = observer.accepted
    BY <1>1, <2>1 DEF Observers
  <2>4. \A k \in DOMAIN lane : lane[k].by # "scan"
    BY <1>2 DEF ScanRead, Idle
  <2> HIDE DEF r
  <2> QED
    BY <1>2, <2>2, <2>3, <2>4 DEF ScanRead, authority, jobs, history
<1>3. CASE DeliverToGateway
  <2>1. /\ observer'.scan = Idle /\ observer'.accepted = observer.scan.revision
        /\ gateway'.registry = observer.scan.revision
    BY <1>1, <1>3 DEF DeliverToGateway, Observers, Pair
  <2>2. observer.scan.revision \in 0..candidate /\ \A k \in DOMAIN lane : lane[k].by # "scan"
    BY <1>3 DEF DeliverToGateway
  <2> QED
    BY <1>1, <1>3, <2>1, <2>2, BootIs DEF DeliverToGateway, authority, jobs, history
<1>4. CASE DeliverToCommitter
  <2> DEFINE job == [kind |-> "commit", by |-> "scan", revision |-> observer.scan.revision]
  <2>1. job \in Jobs /\ job.by = "scan" /\ job.revision = observer.scan.revision
    BY <1>1 DEF Jobs, CommitJob, Observers
  <2>2. lane' = Append(lane, job)
    BY <1>4 DEF DeliverToCommitter
  <2>3. /\ observer'.scan.step = "commit" /\ observer'.scan.revision = observer.scan.revision
        /\ observer'.accepted = observer.accepted
    BY <1>1, <1>4, ScanGoesTo DEF DeliverToCommitter, ScanSteps
  <2>4. /\ observer.scan.revision \in 0..candidate
        /\ \A k \in DOMAIN lane : lane[k].by # "scan"
    BY <1>4 DEF DeliverToCommitter
  <2> HIDE DEF job
  <2>5. \A k \in DOMAIN lane' :
           \/ k \in DOMAIN lane /\ lane'[k] = lane[k]
           \/ k = Len(lane) + 1 /\ lane'[k] = job
    <3>1. lane \in Seq(Jobs) /\ job \in Jobs
      BY <1>1, <2>1 DEF PublicationTypes
    <3> QED
      BY <2>2, <3>1, AppendIs
  <2>6. ScansAreQueued'
    BY <1>4, <2>1, <2>3, <2>4, <2>5 DEF DeliverToCommitter, authority
  <2>7. NothingIsAhead'
    BY <1>4, <2>1, <2>3, <2>4, <2>5 DEF DeliverToCommitter, authority
  <2> QED
    BY <1>4, <2>3, <2>6, <2>7 DEF DeliverToCommitter, authority, history
<1>5. CASE AcknowledgeOk
  <2>1. observer'.scan = Idle /\ observer'.accepted = observer.scan.revision
    BY <1>1, <1>5 DEF AcknowledgeOk, Observers
  <2>2. /\ observer.scan.revision = candidate /\ published' = candidate
        /\ candidate \in announced
        /\ \A k \in DOMAIN lane : lane[k].by # "scan"
    BY <1>1, <1>5 DEF AcknowledgeOk, Acknowledges
  <2> QED
    BY <1>1, <1>5, <2>1, <2>2, BootIs DEF AcknowledgeOk, jobs, history
<1>6. CASE AcknowledgeStale
  <2>1. observer'.scan = Idle /\ observer'.accepted = observer.accepted
    BY <1>1, <1>6, RejectedIs DEF AcknowledgeStale
  <2> QED
    BY <1>6, <2>1, BootIs DEF AcknowledgeStale, authority, jobs, history
<1>7. CASE Bind
  <2> DEFINE job == [kind |-> "commit", by |-> "bind", revision |-> observer.accepted]
  <2>1. observer'.scan = observer.scan /\ observer'.accepted = observer.accepted
    BY <1>1, <1>7 DEF Bind, Observers
  <2>2. lane' = <<job>> /\ job.by = "bind" /\ job.revision = observer.accepted
    BY <1>7 DEF Bind
  <2> HIDE DEF job
  <2>3. \A k \in DOMAIN lane' : lane'[k] = job
    BY <2>2
  <2> QED
    BY <1>7, <2>1, <2>2, <2>3 DEF Bind, authority, history
<1> QED
  BY <1>2, <1>3, <1>4, <1>5, <1>6, <1>7 DEF Observer

LEMMA AnnouncedCommitter ==
  ASSUME AnnouncedInv, PublicationTypes', Committer
  PROVE  AnnouncedInv'
<1>1. /\ PublicationTypes /\ facts \in Facts /\ gateway \in Pair /\ lane \in Seq(Jobs)
      /\ candidate \in Nat
  BY DEF AnnouncedInv, PublicationTypes
<1> USE DEF AnnouncedInv, ScansAreQueued, NothingIsAhead, CommitsAreAnnounced
<1>2. CASE ResumePublication
  BY <1>2 DEF ResumePublication, authority, history, Replacing
<1>3. CASE AnnounceCatalog
  <2>1. facts'.pending = facts.pending /\ facts'.committed = facts.committed
    BY <1>1, <1>3 DEF AnnounceCatalog, Facts
  <2>2. announced' = announced \cup {facts.pending.revision} /\ step' = "admit"
    BY <1>3 DEF AnnounceCatalog
  <2> QED
    BY <1>3, <2>1, <2>2 DEF AnnounceCatalog, authority, Replacing
<1>4. CASE AdmitAudience
  <2>1. /\ lane # <<>> /\ facts' = Completed
        /\ facts.pending.revision \in announced
    BY <1>4 DEF AdmitAudience
  <2>2. facts'.committed = facts.pending.revision
    BY <1>1, <2>1 DEF Completed, Facts
  <2>3. CASE Head(lane).revision = facts.pending.revision /\ Resumes(TRUE)
    <3>1. JobEnds(TRUE)
      BY <1>1, <2>1, <2>3, ResumesIs
    <3> HIDE DEF AnnouncedInv
    <3> QED
      BY <1>4, <2>1, <2>2, <2>3, <3>1, AnnouncedJobEnds DEF AdmitAudience, authority
  <2>4. CASE step' = "start" /\ UNCHANGED <<observer, lane, prior, layers>>
    BY <1>4, <2>1, <2>2, <2>4 DEF AdmitAudience, authority, Replacing
  <2> QED
    BY <1>4, <2>3, <2>4 DEF AdmitAudience
<1>5. CASE CommitIsOver
  <2>1. /\ lane # <<>> /\ CommittedAlready(Head(lane).revision) /\ Resumes(TRUE)
        /\ facts' = facts /\ gateway' = gateway
        /\ UNCHANGED <<candidate, published, announced>>
    BY <1>5 DEF CommitIsOver, At, authority, history
  <2>2. JobEnds(TRUE)
    BY <1>1, <2>1, ResumesIs
  <2>3. Head(lane) = lane[1] /\ 1 \in DOMAIN lane /\ Head(lane) \in Jobs
    BY <1>1, <2>1, TailIs
  <2>4. Head(lane).revision \in Int /\ gateway.registry \in Int
    BY <1>1, <2>3 DEF Jobs, CommitJob, RefreshJob, Pair
  <2>5. Head(lane).by = "scan" => Head(lane).revision \in announced \/ Head(lane).revision < candidate
    <3>1. CASE Head(lane).revision = facts.committed
      <4>1. Head(lane).by = "scan" => Head(lane).revision \in 0..candidate
        BY <2>3
      <4> QED
        BY <3>1, <4>1
    <3>2. CASE Head(lane).revision < gateway.registry
      BY <1>1, <2>4, <3>2
    <3> QED
      BY <2>1, <3>1, <3>2 DEF CommittedAlready
  <2>6. facts'.committed \in announced \cup {-1}
    BY <2>1
  <2> HIDE DEF AnnouncedInv
  <2> QED
    BY <2>1, <2>2, <2>5, <2>6, AnnouncedJobEnds
<1>6. CASE ReplaceRegistry
  <2>1. lane # <<>> /\ Head(lane) = lane[1] /\ 1 \in DOMAIN lane
    BY <1>1, <1>6, TailIs DEF ReplaceRegistry, At
  <2>2. /\ gateway'.registry = Head(lane).revision /\ prior' = gateway
    BY <1>1, <1>6 DEF ReplaceRegistry, Pair
  <2> QED
    BY <1>6, <2>1, <2>2 DEF ReplaceRegistry, authority, history
<1>7. CASE ReplaceCatalog
  <2>1. gateway'.registry = gateway.registry /\ step \in Replacing
    BY <1>1, <1>7 DEF ReplaceCatalog, Pair, At, Replacing
  <2> QED
    BY <1>7, <2>1 DEF ReplaceCatalog, authority, history
<1>8. CASE RestoreCatalog
  <2>1. Restored.registry = gateway.registry
    BY <1>1 DEF Restored, Pair
  <2> HIDE DEF AnnouncedInv
  <2> QED
    BY <1>8, <2>1, AnnouncedRollsBack DEF RestoreCatalog
<1>9. CASE CompileAudience
  <2>1. facts'.committed = facts.committed
    BY <1>1, <1>9 DEF CompileAudience, Facts
  <2> QED
    BY <1>9, <2>1 DEF CompileAudience, authority, history, Replacing
<1>10. CASE Refresh
  <2>1. lane # <<>> /\ Resumes(TRUE) /\ UNCHANGED <<authority, gateway, announced>>
        /\ Head(lane).kind = "refresh"
    BY <1>10 DEF Refresh, At
  <2>2. JobEnds(TRUE) /\ Head(lane).by # "scan"
    <3>1. Head(lane) \in Jobs
      BY <1>1, <2>1, TailIs
    <3>2. Head(lane).by # "scan"
      BY <2>1, <3>1 DEF Jobs, CommitJob, RefreshJob
    <3>3. JobEnds(TRUE)
      BY <1>1, <2>1, ResumesIs
    <3> QED
      BY <3>2, <3>3
  <2>3. facts'.committed = facts.committed
    BY <1>1, <1>10 DEF Refresh, Facts
  <2>4. facts'.committed \in announced \cup {-1}
    BY <2>3
  <2> HIDE DEF AnnouncedInv
  <2> QED
    BY <2>1, <2>2, <2>4, AnnouncedJobEnds DEF authority
<1> QED
  BY <1>2, <1>3, <1>4, <1>5, <1>6, <1>7, <1>8, <1>9, <1>10 DEF Committer

LEMMA AnnouncedFailures ==
  ASSUME AnnouncedInv, PublicationTypes', Failures
  PROVE  AnnouncedInv'
<1>1. PublicationTypes /\ observer \in Observers /\ gateway \in Pair
  BY DEF AnnouncedInv, PublicationTypes
<1>2. CASE Crash
  BY <1>2, AnnouncedBoots DEF Crash
<1>3. CASE AnnounceFails \/ AudienceEventFails \/ RefreshFails
  BY <1>3, AnnouncedThrows DEF AnnounceFails, AudienceEventFails, RefreshFails, At
<1>6. CASE AdmissionFails \/ RefreshAdmissionFails
  <2>1. \A a : [facts EXCEPT !.audienceEvent = a].committed = facts.committed
    BY DEF AnnouncedInv, PublicationTypes, Facts
  <2> QED
    BY <1>6, <2>1, AnnouncedThrows DEF AdmissionFails, RefreshAdmissionFails, At
<1>7. CASE RestoreFails
  BY <1>7, AnnouncedRollsBack DEF RestoreFails
<1>8. CASE PluginChangeFails
  BY <1>8
    DEF PluginChangeFails, authority, history, AnnouncedInv, ScansAreQueued,
        NothingIsAhead, CommitsAreAnnounced
<1>4. CASE AcknowledgeFails
  <2>1. observer'.scan = Idle /\ observer'.accepted = observer.accepted
    BY <1>1, <1>4, RejectedIs DEF AcknowledgeFails
  <2> QED
    BY <1>4, <2>1, BootIs
      DEF AcknowledgeFails, authority, jobs, history, AnnouncedInv, ScansAreQueued,
          NothingIsAhead, CommitsAreAnnounced
<1>5. CASE CommitFails
  <2>1. gateway'.registry = prior.registry /\ step \in Replacing
    BY <1>1, <1>5 DEF CommitFails, Pair, At, Replacing
  <2> QED
    BY <1>5, <2>1
      DEF CommitFails, authority, history, AnnouncedInv, ScansAreQueued,
          NothingIsAhead, CommitsAreAnnounced
<1> QED
  BY <1>2, <1>3, <1>4, <1>5, <1>6, <1>7, <1>8 DEF Failures

LEMMA AnnouncedChange ==
  ASSUME AnnouncedInv, PublicationTypes',
         CommitManifest \/ ChangePolicy \/ ChangePlugin \/ NotifyPluginChange
  PROVE  AnnouncedInv'
<1>1. PublicationTypes /\ candidate \in Nat
  BY DEF AnnouncedInv, PublicationTypes
<1> USE DEF AnnouncedInv, ScansAreQueued, NothingIsAhead, CommitsAreAnnounced
<1>2. CASE CommitManifest
  <2>1. /\ gateway \in Pair /\ observer \in Observers /\ lane \in Seq(Jobs)
        /\ step \in Replacing => prior \in Pair
    BY <1>1 DEF PublicationTypes
  <2>2. \A k \in DOMAIN lane : lane[k] \in Jobs /\ lane[k].revision \in Int
    BY <2>1 DEF Jobs, CommitJob, RefreshJob
  <2>3. /\ gateway.registry \in Int /\ observer.accepted \in Int /\ observer.scan.revision \in Int
        /\ step \in Replacing => prior.registry \in Int
    BY <2>1 DEF Pair, Observers
  <2>4. candidate' = candidate + 1 /\ UNCHANGED <<published, observer, gateway, lane, step, prior, facts, announced>>
    BY <1>2 DEF CommitManifest, jobs, history
  <2>5. ScansAreQueued'
    BY <1>1, <2>3, <2>4
  <2>6. NothingIsAhead'
    BY <1>1, <2>2, <2>3, <2>4
  <2>7. CommitsAreAnnounced'
    BY <1>1, <2>3, <2>4
  <2> QED
    BY <2>5, <2>6, <2>7
<1>3. ASSUME NEW by \in {"policy", "plugin"}, QueueRefresh(by),
             UNCHANGED <<authority, observer, gateway.registry, step, prior, facts, history>>
      PROVE  AnnouncedInv'
  <2>1. \A k \in DOMAIN lane' :
          \/ k \in DOMAIN lane /\ lane'[k] = lane[k]
          \/ lane'[k].by = by /\ lane'[k].kind = "refresh" /\ lane'[k].revision = -1
    BY <1>1, <1>3, QueueIs
  <2>2. ScansAreQueued'
    BY <1>3, <2>1 DEF authority
  <2>3. NothingIsAhead'
    BY <1>1, <1>3, <2>1 DEF authority
  <2> QED
    BY <1>3, <2>2, <2>3 DEF authority, history
<1>4. CASE ChangePlugin
  BY <1>4 DEF ChangePlugin, authority, history
<1>5. CASE NotifyPluginChange
  <2>1. gateway'.registry = gateway.registry
    BY <1>1, <1>5 DEF NotifyPluginChange, PublicationTypes, Pair
  <2> HIDE DEF AnnouncedInv
  <2> QED
    BY <1>3, <1>5, <2>1 DEF NotifyPluginChange
<1>6. CASE ChangePolicy
  <2> HIDE DEF AnnouncedInv
  <2> QED
    BY <1>3, <1>6 DEF ChangePolicy
<1> QED
  BY <1>2, <1>4, <1>5, <1>6

LEMMA AnnouncedStep == AnnouncedInv /\ PublicationTypes' /\ [Next]_vars => AnnouncedInv'
<1>1. AnnouncedInv /\ PublicationTypes' /\ UNCHANGED vars => AnnouncedInv'
  BY DEF vars, authority, jobs, history, AnnouncedInv, ScansAreQueued, NothingIsAhead,
     CommitsAreAnnounced
<1> QED
  BY <1>1, AnnouncedObserver, AnnouncedCommitter, AnnouncedFailures, AnnouncedChange DEF Next

LEMMA AnnouncedInit == Init => AnnouncedInv
BY TypesInit, BootIs
  DEF Init, AnnouncedInv, ScansAreQueued, NothingIsAhead, CommitsAreAnnounced, Replacing

\* The published pointer names a set only after the catalog took it over and announced
\* it, whatever candidates come in, jobs fail and processes end in between
\* (executeScan, commitManifestSnapshotNow, acknowledgePublished).
THEOREM OnlyAnnouncedIsPublished == Spec => []PublishedIsAnnounced
<1>1. AnnouncedInv => PublishedIsAnnounced
  BY DEF AnnouncedInv, CommitsAreAnnounced, PublishedIsAnnounced
<1> QED
  BY <1>1, AnnouncedInit, AnnouncedStep, Typed, PTL DEF Spec

-----------------------------------------------------------------------------
(***************************************************************************)
(* The gateway and the catalog.                                            *)
(***************************************************************************)
LEMMA AgreeBoots ==
  ASSUME PublicationTypes', Reboot
  PROVE  AgreeInv'
BY BootIs DEF Reboot, AgreeInv, BindingInv, CommitInv, Binding, Replacing, Publishing

\* What concerns neither the lane nor what is served.
LEMMA AgreeFrame ==
  ASSUME AgreeInv, PublicationTypes',
         UNCHANGED <<gateway, lane, step, prior, facts, layers, torn>>,
         observer'.bound = observer.bound,
         ~observer.bound => observer'.accepted = observer.accepted
                              /\ observer'.scan.step \in {"idle", "read"}
  PROVE  AgreeInv'
<1>1. BindingInv'
  BY DEF AgreeInv, BindingInv, Binding
<1>2. CommitInv'
  BY DEF AgreeInv, CommitInv, Binding, Agree, CatalogHas, Served
<1> QED
  BY <1>1, <1>2 DEF AgreeInv

\* A job that leaves the gateway and the catalog in agreement may end.
LEMMA AgreeJobEnds ==
  ASSUME AgreeInv, PublicationTypes', lane # <<>>, NEW ok \in BOOLEAN, JobEnds(ok), Agree'
  PROVE  AgreeInv'
<1>1. observer'.bound
  BY DEF AgreeInv, BindingInv, JobEnds
<1>2. lane \in Seq(Jobs) /\ lane' \in Seq(Jobs) /\ lane' = Tail(lane) /\ step' = "start"
  BY DEF AgreeInv, PublicationTypes, JobEnds
<1>3. \A k \in DOMAIN Tail(lane) :
        k \in Nat \ {0} /\ k + 1 \in DOMAIN lane /\ Tail(lane)[k] = lane[k + 1]
  BY <1>2, TailIs
<1>4. \A k \in DOMAIN lane' : lane'[k].by # "bind"
  <2> SUFFICES ASSUME NEW k \in DOMAIN lane', lane'[k].by = "bind" PROVE FALSE
    OBVIOUS
  <2>1. k + 1 = 1 /\ k \in Nat \ {0}
    BY <1>2, <1>3 DEF AgreeInv, BindingInv
  <2> QED
    BY <2>1
<1>5. ~Binding'
  BY <1>2, <1>4, TailIs DEF Binding
<1> QED
  BY <1>1, <1>2, <1>4, <1>5 DEF AgreeInv, BindingInv, CommitInv, Replacing, Publishing

LEMMA AgreeThrows ==
  ASSUME AgreeInv, PublicationTypes', lane # <<>>, Agree, NEW known, Throws(known),
         known.pending = facts.pending, known.committed = facts.committed
  PROVE  AgreeInv'
<1>1. CASE Reboot
  BY <1>1, AgreeBoots
<1>2. CASE Resumes(FALSE) /\ facts' = known /\ UNCHANGED <<gateway, admitted, torn>>
  BY <1>2, ResumesIs, AgreeJobEnds DEF AgreeInv, Agree, CatalogHas, Served
<1> QED
  BY <1>1, <1>2, ThrowsIs

\* A job at the head of the lane that is no binding finds an agreement.
LEMMA AgreeAtStart ==
  ASSUME AgreeInv, lane # <<>>, step = "start", Head(lane).by # "bind"
  PROVE  Agree
BY DEF AgreeInv, BindingInv, CommitInv, Binding

LEMMA RefreshBinds ==
  ASSUME PublicationTypes, lane # <<>>, Head(lane).kind = "refresh"
  PROVE  Head(lane).by # "bind"
<1>1. Head(lane) \in Jobs
  BY TailIs DEF PublicationTypes
<1> QED
  BY <1>1 DEF Jobs, CommitJob, RefreshJob

\* Whatever joins the lane joins it behind a binding, and is none itself.
LEMMA AgreeGrows ==
  ASSUME AgreeInv, PublicationTypes', observer.bound, observer'.bound,
         UNCHANGED <<gateway.registry, gateway.catalog, step, prior, facts, torn>>, lane' # <<>>,
         lane # <<>> => Head(lane') = Head(lane),
         lane = <<>> => Head(lane').by # "bind",
         \A k \in DOMAIN lane' :
           (k \in DOMAIN lane /\ lane'[k] = lane[k]) \/ lane'[k].by # "bind"
  PROVE  AgreeInv'
<1>1. Binding' <=> Binding
  BY DEF Binding
<1>2. \/ lane # <<>> /\ Head(lane') = Head(lane)
      \/ ~Binding /\ step \notin Replacing
  BY DEF AgreeInv, PublicationTypes, Binding
<1>3. BindingInv'
  BY <1>1, <1>2 DEF AgreeInv, BindingInv, Binding
<1>4. CommitInv'
  BY <1>1, <1>2 DEF AgreeInv, CommitInv, Agree, CatalogHas, Served, Replacing
<1> QED
  BY <1>3, <1>4 DEF AgreeInv

\* A roll back, unless it fails, has the catalog of the commit's beginning.
LEMMA AgreeRollsBack ==
  ASSUME AgreeInv, PublicationTypes', NEW restored, NEW tears \in BOOLEAN,
         RolledBack(restored, tears),
         restored.registry = gateway.registry, restored.catalog \in Int,
         \/ restored.catalog = prior.catalog
         \/ restored.catalog = gateway.catalog /\ tears = (gateway.catalog # prior.catalog)
  PROVE  AgreeInv'
<1>1. PublicationTypes /\ gateway \in Pair
  BY DEF AgreeInv, PublicationTypes
<1>2. lane # <<>> /\ step = "restore" /\ prior \in Pair
  BY <1>1, RolledBackIs
<1>3. CASE Reboot
  BY <1>3, AgreeBoots
<1>4. CASE /\ JobEnds(FALSE) /\ Head(lane).by # "bind" /\ gateway' = restored
           /\ torn' = (torn \/ tears) /\ UNCHANGED <<facts, admitted>>
  <2>1. /\ gateway.registry = facts.committed /\ CatalogHas(prior.catalog, facts.committed)
        /\ gateway.catalog >= prior.catalog /\ facts.pending = None
    BY <1>2, <1>4 DEF AgreeInv, CommitInv, Replacing, Binding
  <2>2. gateway.catalog \in Int /\ prior.catalog \in Int /\ gateway.registry \in Int
        /\ torn \in BOOLEAN
    BY <1>1, <1>2 DEF Pair, PublicationTypes
  <2>3. \/ restored.catalog = prior.catalog
        \/ restored.catalog > prior.catalog /\ tears
    BY <2>1, <2>2
  <2>4. restored.catalog = facts.committed \/ (torn' /\ restored.catalog > facts.committed)
    BY <1>4, <2>1, <2>2, <2>3 DEF CatalogHas
  <2>5. Agree'
    BY <1>4, <2>1, <2>4 DEF Agree, CatalogHas, Served
  <2> QED
    BY <1>2, <1>4, <2>5, AgreeJobEnds
<1> QED
  BY <1>1, <1>3, <1>4, RolledBackIs

LEMMA AgreeObserver ==
  ASSUME AgreeInv, PublicationTypes', Observer
  PROVE  AgreeInv'
<1>1. observer \in Observers /\ gateway \in Pair
  BY DEF AgreeInv, PublicationTypes
<1>2. CASE ScanRead
  <2>1. observer'.bound = observer.bound /\ observer'.accepted = observer.accepted
        /\ observer'.scan.step = "read"
    BY <1>1, <1>2 DEF ScanRead, Observers
  <2> QED
    BY <1>2, <2>1, AgreeFrame DEF ScanRead, jobs, history
<1>3. CASE DeliverToGateway
  <2>1. /\ observer'.scan = Idle /\ observer'.accepted = observer.scan.revision
        /\ observer'.bound = observer.bound
        /\ gateway'.registry = observer.scan.revision /\ gateway'.catalog = gateway.catalog
    BY <1>1, <1>3 DEF DeliverToGateway, Observers, Pair
  <2>2. lane' = lane /\ step' = step /\ layers' = layers /\ facts' = facts /\ ~observer.bound
    BY <1>3 DEF DeliverToGateway, jobs
  <2> QED
    BY <2>1, <2>2, BootIs
      DEF AgreeInv, BindingInv, CommitInv, Binding, Replacing, Publishing
<1>4. CASE DeliverToCommitter
  <2> DEFINE job == [kind |-> "commit", by |-> "scan", revision |-> observer.scan.revision]
  <2>1. job \in Jobs /\ job.by = "scan"
    BY <1>1 DEF Jobs, CommitJob, Observers
  <2>2. lane' = Append(lane, job) /\ lane \in Seq(Jobs)
    BY <1>4 DEF DeliverToCommitter, AgreeInv, PublicationTypes
  <2>3. observer'.bound = observer.bound /\ observer.bound
    BY <1>1, <1>4, ScanGoesTo DEF DeliverToCommitter, ScanSteps
  <2> HIDE DEF job
  <2>4. /\ lane' # <<>> /\ (lane # <<>> => Head(lane') = Head(lane))
        /\ \A k \in DOMAIN lane' :
             \/ k \in DOMAIN lane /\ lane'[k] = lane[k]
             \/ k = Len(lane) + 1 /\ lane'[k] = job
    BY <2>1, <2>2, AppendIs
  <2>5. lane = <<>> => Head(lane').by = "scan"
    BY <2>1, <2>2
  <2>6. UNCHANGED <<gateway, step, prior, facts, layers, torn>>
    BY <1>4 DEF DeliverToCommitter, history
  <2> QED
    BY <2>1, <2>3, <2>4, <2>5, <2>6, AgreeGrows
<1>5. CASE AcknowledgeOk
  <2>1. observer'.bound = observer.bound /\ observer.bound
    BY <1>1, <1>5 DEF AcknowledgeOk, Observers, AgreeInv, BindingInv
  <2> QED
    BY <1>5, <2>1, AgreeFrame DEF AcknowledgeOk, jobs, history
<1>6. CASE AcknowledgeStale
  <2>1. observer'.bound = observer.bound /\ observer.bound
    BY <1>1, <1>6, RejectedIs DEF AcknowledgeStale, AgreeInv, BindingInv
  <2> QED
    BY <1>6, <2>1, AgreeFrame DEF AcknowledgeStale, jobs, history
<1>7. CASE Bind
  <2> DEFINE job == [kind |-> "commit", by |-> "bind", revision |-> observer.accepted]
  <2>1. observer'.bound /\ ~observer.bound /\ observer.accepted >= 0
    BY <1>1, <1>7 DEF Bind, Observers
  <2>2. lane' = <<job>> /\ job.by = "bind" /\ job.revision = observer.accepted
    BY <1>7 DEF Bind
  <2> HIDE DEF job
  <2>3. Head(lane') = job /\ lane' # <<>> /\ \A k \in DOMAIN lane' : k = 1
    BY <2>2
  <2>4. UNCHANGED <<gateway, step, prior, facts, layers, torn>>
    BY <1>7 DEF Bind, history
  <2> QED
    BY <2>1, <2>2, <2>3, <2>4
      DEF AgreeInv, BindingInv, CommitInv, Binding, Replacing, Publishing
<1> QED
  BY <1>2, <1>3, <1>4, <1>5, <1>6, <1>7 DEF Observer

LEMMA AgreeCommitter ==
  ASSUME None \notin Pending, AgreeInv, PublicationTypes', Committer
  PROVE  AgreeInv'
<1>1. PublicationTypes /\ facts \in Facts /\ gateway \in Pair /\ lane \in Seq(Jobs)
  BY DEF AgreeInv, PublicationTypes
<1>2. lane # <<>> /\ observer.bound
  BY DEF Committer, ResumePublication, AnnounceCatalog, AdmitAudience, CommitIsOver,
     ReplaceRegistry, ReplaceCatalog, RestoreCatalog, RolledBack, CompileAudience, Refresh,
     At, AgreeInv, BindingInv
<1>3. ASSUME UNCHANGED <<observer, lane>>, CommitInv',
             Binding /\ step' = "start" => facts' = BootFacts /\ gateway' = gateway /\ step = "start",
             Binding /\ step' \in Publishing => facts'.pending.revision = Head(lane).revision
      PROVE  AgreeInv'
  BY <1>2, <1>3 DEF AgreeInv, BindingInv, Binding
<1> USE DEF history
<1>4. CASE ResumePublication
  <2>1. ~Binding
    BY <1>4, BootIs DEF ResumePublication, AgreeInv, BindingInv
  <2>2. Agree
    BY <1>2, <1>4, <2>1, AgreeAtStart DEF ResumePublication, Binding
  <2>3. step' = "announce" /\ UNCHANGED <<observer, gateway, lane, prior, facts, torn>>
    BY <1>4 DEF ResumePublication
  <2>4. CommitInv'
    BY <2>2, <2>3 DEF CommitInv, Agree, CatalogHas, Served, Replacing, Publishing
  <2> QED
    BY <1>3, <2>1, <2>3, <2>4
<1>5. CASE AnnounceCatalog
  <2>1. facts'.pending = facts.pending /\ facts'.committed = facts.committed
    BY <1>1, <1>5 DEF AnnounceCatalog, Facts
  <2>2. step = "announce" /\ step' = "admit" /\ UNCHANGED <<observer, gateway, lane, prior, torn>>
    BY <1>5 DEF AnnounceCatalog
  <2>3. CommitInv'
    BY <2>1, <2>2 DEF AgreeInv, CommitInv, Agree, CatalogHas, Served, Replacing, Publishing
  <2>4. Binding => facts'.pending.revision = Head(lane).revision
    BY <2>1, <2>2 DEF AgreeInv, BindingInv, Publishing
  <2> QED
    BY <1>3, <2>2, <2>3, <2>4
<1>6. CASE AdmitAudience
  <2>1. step = "admit" /\ facts' = Completed /\ gateway' = gateway /\ torn' = torn
    BY <1>6 DEF AdmitAudience
  <2>2. facts.pending \in Pending /\ facts.pending # None /\ Agree
    BY <1>1, <2>1 DEF PublicationTypes, AgreeInv, CommitInv, Publishing
  <2>3. facts'.committed = facts.pending.revision /\ facts'.pending = None
    BY <1>1, <2>1 DEF Completed, Facts
  <2>4. Agree'
    BY <2>1, <2>2, <2>3 DEF Agree, CatalogHas, Served
  <2>5. CASE Resumes(TRUE)
    BY <1>1, <1>2, <2>4, <2>5, ResumesIs, AgreeJobEnds
  <2>6. CASE /\ Head(lane).revision # facts.pending.revision /\ step' = "start"
             /\ UNCHANGED <<observer, lane, prior, layers>>
    <3>1. ~Binding
      BY <2>1, <2>6 DEF AgreeInv, BindingInv, Publishing
    <3>2. CommitInv'
      BY <2>4, <2>6 DEF CommitInv, Replacing, Publishing
    <3> QED
      BY <1>3, <2>6, <3>1, <3>2 DEF Publishing
  <2> QED
    BY <1>6, <2>5, <2>6 DEF AdmitAudience
<1>7. CASE CommitIsOver
  <2>1. /\ step = "start" /\ CommittedAlready(Head(lane).revision) /\ Resumes(TRUE)
        /\ facts' = facts /\ gateway' = gateway /\ torn' = torn
    BY <1>7 DEF CommitIsOver, At
  <2>2. Head(lane).by # "bind"
    <3> SUFFICES ASSUME Head(lane).by = "bind" PROVE FALSE
      OBVIOUS
    <3>1. /\ facts.committed = -1 /\ gateway.registry = Head(lane).revision
          /\ gateway.registry >= 0 /\ gateway.registry \in Int
      BY <1>1, <1>2, <2>1, BootIs DEF AgreeInv, BindingInv, Binding, Pair
    <3> QED
      BY <2>1, <3>1 DEF CommittedAlready
  <2>3. Agree'
    BY <1>2, <2>1, <2>2, AgreeAtStart DEF Agree, CatalogHas, Served
  <2> QED
    BY <1>1, <1>2, <2>1, <2>3, ResumesIs, AgreeJobEnds
<1>8. CASE ReplaceRegistry
  <2>1. /\ step = "start" /\ step' = "replace" /\ facts.pending = None /\ prior' = gateway
        /\ UNCHANGED <<observer, lane, facts, torn>> /\ gateway'.registry = Head(lane).revision
        /\ gateway'.catalog = gateway.catalog /\ gateway.catalog \in Int
    BY <1>1, <1>8 DEF ReplaceRegistry, At, Pair
  <2>2. ~Binding => gateway.registry = facts.committed /\ CatalogHas(gateway.catalog, facts.committed)
    BY <1>2, <2>1, AgreeAtStart DEF Agree, Served, Binding
  <2>3. CommitInv'
    BY <2>1, <2>2 DEF CommitInv, CatalogHas, Replacing, Publishing, Binding
  <2> QED
    BY <1>3, <2>1, <2>3 DEF Publishing
<1>9. CASE ReplaceCatalog
  <2>1. /\ step = "replace" /\ step' = "compile" /\ UNCHANGED <<observer, lane, facts, prior, torn>>
        /\ gateway'.registry = gateway.registry /\ gateway'.catalog = Head(lane).revision
        /\ Head(lane).revision >= gateway.catalog
    BY <1>1, <1>9 DEF ReplaceCatalog, At, Pair
  <2>2. prior.catalog \in Int /\ gateway.catalog \in Int /\ Head(lane).revision \in Int
    <3>1. Head(lane) \in Jobs /\ prior \in Pair
      BY <1>1, <1>2, <2>1, TailIs DEF PublicationTypes, Replacing
    <3> QED
      BY <1>1, <3>1 DEF Pair, Jobs, CommitJob, RefreshJob
  <2>3. gateway.catalog >= prior.catalog
    BY <2>1 DEF AgreeInv, CommitInv, Replacing
  <2>4. CommitInv'
    BY <2>1, <2>2, <2>3 DEF AgreeInv, CommitInv, CatalogHas, Replacing, Publishing, Binding
  <2> QED
    BY <1>3, <2>1, <2>4 DEF Publishing
<1>10. CASE RestoreCatalog
  <2>1. prior \in Pair
    BY <1>1, <1>10, RolledBackIs DEF RestoreCatalog
  <2>2. /\ Restored.registry = gateway.registry /\ Restored.catalog = prior.catalog
        /\ Restored.catalog \in Int
    BY <1>1, <2>1 DEF Restored, Pair
  <2> QED
    BY <1>10, <2>2, AgreeRollsBack DEF RestoreCatalog
<1>11. CASE CompileAudience
  <2> DEFINE next == [revision |-> Head(lane).revision, audience |-> Compiled(Head(lane).revision)]
  <2>1. /\ step = "compile" /\ step' = "announce" /\ UNCHANGED <<observer, gateway, lane, prior>>
        /\ torn' = FALSE
        /\ facts' = [facts EXCEPT !.pending = next]
    BY <1>11 DEF CompileAudience, At
  <2>2. next \in Pending /\ next.revision = Head(lane).revision
    <3>1. Head(lane) \in Jobs
      BY <1>1, <1>2, TailIs
    <3>2. Head(lane).revision \in Int
      BY <3>1 DEF Jobs, CommitJob, RefreshJob
    <3> QED
      BY <1>1, <3>2, CompiledIs DEF Pending
  <2> HIDE DEF next
  <2>3. facts'.pending = next /\ next # None
    BY <1>1, <2>1, <2>2 DEF Facts
  <2>4. gateway.registry = Head(lane).revision /\ gateway.catalog = Head(lane).revision
    BY <2>1 DEF AgreeInv, CommitInv
  <2>5. CommitInv'
    BY <2>1, <2>2, <2>3, <2>4 DEF CommitInv, Agree, CatalogHas, Served, Replacing, Publishing
  <2> QED
    BY <1>3, <2>1, <2>2, <2>3, <2>5
<1>12. CASE Refresh
  <2>1. /\ step = "start" /\ Head(lane).kind = "refresh" /\ Resumes(TRUE)
        /\ gateway' = gateway /\ torn' = torn
    BY <1>12 DEF Refresh, At
  <2>2. facts'.pending = facts.pending /\ facts'.committed = facts.committed
    BY <1>1, <1>12 DEF Refresh, Facts
  <2>3. Agree'
    BY <1>1, <1>2, <2>1, <2>2, RefreshBinds, AgreeAtStart DEF Agree, CatalogHas, Served
  <2> QED
    BY <1>1, <1>2, <2>1, <2>3, ResumesIs, AgreeJobEnds
<1> QED
  BY <1>4, <1>5, <1>6, <1>7, <1>8, <1>9, <1>10, <1>11, <1>12 DEF Committer

LEMMA AgreeFailures ==
  ASSUME AgreeInv, PublicationTypes', Failures
  PROVE  AgreeInv'
<1>1. PublicationTypes /\ observer \in Observers /\ gateway \in Pair
  BY DEF AgreeInv, PublicationTypes
<1>2. CASE Crash
  BY <1>2, AgreeBoots DEF Crash
<1>3. CASE AnnounceFails \/ AudienceEventFails
  BY <1>3, AgreeThrows DEF AnnounceFails, AudienceEventFails, AgreeInv, CommitInv, Publishing
<1>4. CASE RefreshFails
  BY <1>1, <1>4, RefreshBinds, AgreeAtStart, AgreeThrows DEF RefreshFails, At
<1>7. \A a : /\ [facts EXCEPT !.audienceEvent = a].pending = facts.pending
            /\ [facts EXCEPT !.audienceEvent = a].committed = facts.committed
  BY <1>1 DEF PublicationTypes, Facts
<1>8. CASE AdmissionFails
  BY <1>7, <1>8, AgreeThrows DEF AdmissionFails, AgreeInv, CommitInv, Publishing
<1>9. CASE RefreshAdmissionFails
  BY <1>1, <1>7, <1>9, RefreshBinds, AgreeAtStart, AgreeThrows DEF RefreshAdmissionFails, At
<1>10. CASE RestoreFails
  BY <1>1, <1>10, AgreeRollsBack DEF RestoreFails, Pair
<1>11. CASE PluginChangeFails
  BY <1>11 DEF PluginChangeFails, history, AgreeInv, BindingInv, CommitInv, Binding, Agree,
     CatalogHas, Served
<1>5. CASE AcknowledgeFails
  <2>1. observer'.bound = observer.bound /\ observer.bound
    BY <1>1, <1>5, RejectedIs DEF AcknowledgeFails, AgreeInv, BindingInv
  <2> QED
    BY <1>5, <2>1, AgreeFrame DEF AcknowledgeFails, jobs, history
<1>6. CASE CommitFails
  <2>1. /\ gateway'.registry = prior.registry /\ step \in Replacing /\ step' = "restore"
        /\ gateway'.catalog = gateway.catalog
        /\ lane # <<>> /\ UNCHANGED <<observer, lane, prior, facts, torn>>
    BY <1>1, <1>6 DEF CommitFails, Pair, At, Replacing, history
  <2>2. observer.bound
    BY <2>1 DEF AgreeInv, BindingInv
  <2> QED
    BY <2>1, <2>2 DEF AgreeInv, BindingInv, CommitInv, CatalogHas, Binding, Replacing, Publishing
<1> QED
  BY <1>2, <1>3, <1>4, <1>5, <1>6, <1>8, <1>9, <1>10, <1>11 DEF Failures

LEMMA AgreeChange ==
  ASSUME AgreeInv, PublicationTypes',
         CommitManifest \/ ChangePolicy \/ ChangePlugin \/ NotifyPluginChange
  PROVE  AgreeInv'
<1>1. PublicationTypes
  BY DEF AgreeInv
<1>2. CASE CommitManifest
  BY <1>2, AgreeFrame DEF CommitManifest, jobs, history, AgreeInv, BindingInv
<1>3. ASSUME NEW by \in {"policy", "plugin"}, QueueRefresh(by), observer.bound,
             UNCHANGED <<observer, gateway.registry, gateway.catalog, step, prior, facts, torn>>
      PROVE  AgreeInv'
  <2>1. /\ lane' # <<>> /\ (lane # <<>> => Head(lane') = Head(lane))
        /\ \A k \in DOMAIN lane' :
             \/ k \in DOMAIN lane /\ lane'[k] = lane[k]
             \/ lane'[k].by = by /\ lane'[k].kind = "refresh" /\ lane'[k].revision = -1
    BY <1>1, <1>3, QueueIs
  <2>2. lane = <<>> => Head(lane').by # "bind"
    BY <1>3 DEF QueueRefresh
  <2> QED
    BY <1>3, <2>1, <2>2, AgreeGrows
<1>4. CASE ChangePlugin
  BY <1>4 DEF ChangePlugin, history, AgreeInv, BindingInv, CommitInv, Binding, Agree,
     CatalogHas, Served
<1>5. CASE NotifyPluginChange
  <2>1. observer.bound
    BY <1>5 DEF NotifyPluginChange, LayersAt, AgreeInv, BindingInv
  <2>2. gateway'.registry = gateway.registry /\ gateway'.catalog = gateway.catalog
    BY <1>1, <1>5 DEF NotifyPluginChange, PublicationTypes, Pair
  <2> QED
    BY <1>3, <1>5, <2>1, <2>2 DEF NotifyPluginChange, history
<1>6. CASE ChangePolicy
  BY <1>3, <1>6 DEF ChangePolicy, history
<1> QED
  BY <1>2, <1>4, <1>5, <1>6

LEMMA AgreeStep ==
  ASSUME None \notin Pending
  PROVE  AgreeInv /\ PublicationTypes' /\ [Next]_vars => AgreeInv'
<1>1. AgreeInv /\ PublicationTypes' /\ UNCHANGED vars => AgreeInv'
  BY AgreeFrame DEF vars, jobs, history, AgreeInv, BindingInv
<1> QED
  BY <1>1, AgreeObserver, AgreeCommitter, AgreeFailures, AgreeChange DEF Next

LEMMA AgreeInit == Init => AgreeInv
BY TypesInit, BootIs
  DEF Init, AgreeInv, BindingInv, CommitInv, Binding, Replacing, Publishing

\* Whatever commits fail half-way and are rolled back, while grants and plugins change
\* and processes end: when no job is under way, the gateway serves the set last committed
\* and the operation catalog serves the same, or a later one if a roll back failed and no
\* commit succeeded since (commitManifestSnapshotNow, rollbackPair,
\* restoreOperationLayersState, finishPendingPublication).
THEOREM TheyAgreeAtRest ==
  ASSUME None \notin Pending
  PROVE  Spec => []GatewayAndCatalogAgree
<1>1. AgreeInv /\ PublicationTypes' /\ [Next]_vars => AgreeInv'
  BY AgreeStep
<1>2. AgreeInv => GatewayAndCatalogAgree
  BY DEF AgreeInv, PublicationTypes, CommitInv, Binding, Agree, CatalogHas, Served, Steps,
     Replacing, Publishing, GatewayAndCatalogAgree
<1> QED
  BY <1>1, <1>2, AgreeInit, Typed, PTL DEF Spec

-----------------------------------------------------------------------------
(***************************************************************************)
(* Roll backs and changes of plugin operations.                            *)
(***************************************************************************)
LayerJobs == {"plugin", "notifying", "replace", "restore"}

\* One change of plugin operations waits for a refresh in the lane, and it holds the lane
\* of operation layers as long; while it does, a commit may come short of its change.
PluginInv ==
  /\ layers \in Seq(LayerJobs)
  /\ \A k \in DOMAIN lane : lane[k].by = "plugin" => LayersAt("notifying")
  /\ \A j, k \in DOMAIN lane : lane[j].by = "plugin" /\ lane[k].by = "plugin" => j = k
  /\ step \in Replacing => gateway.base = prior.base \/ LayersAt("notifying")

LEMMA PluginBoots ==
  ASSUME Reboot
  PROVE  PluginInv'
BY DEF Reboot, PluginInv, Replacing

\* What joins a lane of operation layers joins it behind its head.
LEMMA LayersGrow ==
  ASSUME layers \in Seq(LayerJobs), NEW job \in LayerJobs, layers' = Append(layers, job)
  PROVE  /\ layers' \in Seq(LayerJobs)
         /\ LayersAt("notifying") => LayersAt("notifying")'
BY AppendIs DEF LayersAt

LEMMA LayersShrink ==
  ASSUME layers \in Seq(LayerJobs), layers # <<>>
  PROVE  Tail(layers) \in Seq(LayerJobs)
OBVIOUS

\* Neither lane changes, and the running commit, if any, is where it was.
LEMMA PluginFrame ==
  ASSUME PluginInv, UNCHANGED <<lane, layers, prior>>, gateway'.base = gateway.base,
         step' \in Replacing => step \in Replacing
  PROVE  PluginInv'
BY DEF PluginInv, LayersAt

\* Another job joins the lane.
LEMMA PluginGrows ==
  ASSUME PluginInv, PublicationTypes, NEW job \in Jobs, job.by # "plugin",
         lane' = Append(lane, job),
         UNCHANGED <<gateway, step, prior, layers>>
  PROVE  PluginInv'
<1>1. lane \in Seq(Jobs)
  BY DEF PublicationTypes
<1>2. \A k \in DOMAIN lane' :
        \/ k \in DOMAIN lane /\ lane'[k] = lane[k]
        \/ k = Len(lane) + 1 /\ lane'[k] = job
  BY <1>1, AppendIs
<1> QED
  BY <1>2 DEF PluginInv, LayersAt

\* A job of the lane ends that no change of plugin operations waits for, or none of those
\* left has such a job.
LEMMA PluginJobEnds ==
  ASSUME PluginInv, PublicationTypes, lane # <<>>, lane' = Tail(lane), step' = "start",
         layers' \in Seq(LayerJobs),
         layers' = layers \/ \A k \in DOMAIN Tail(lane) : Tail(lane)[k].by # "plugin"
  PROVE  PluginInv'
<1>1. \A k \in DOMAIN Tail(lane) :
        k \in Nat \ {0} /\ k + 1 \in DOMAIN lane /\ Tail(lane)[k] = lane[k + 1]
  BY TailIs DEF PublicationTypes
<1>2. \A k \in DOMAIN lane' : lane'[k].by = "plugin" => LayersAt("notifying")'
  BY <1>1 DEF PluginInv, LayersAt
<1>3. ASSUME NEW j \in DOMAIN lane', NEW k \in DOMAIN lane',
             lane'[j].by = "plugin", lane'[k].by = "plugin"
      PROVE  j = k
  <2>1. j + 1 = k + 1 /\ j \in Nat /\ k \in Nat
    BY <1>1, <1>3 DEF PluginInv
  <2> QED
    BY <2>1
<1>4. step' \notin Replacing
  BY DEF Replacing
<1> QED
  BY <1>2, <1>3, <1>4 DEF PluginInv

LEMMA PluginResumes ==
  ASSUME PluginInv, PublicationTypes, lane # <<>>, NEW ok, Resumes(ok)
  PROVE  PluginInv'
<1>1. lane' = Tail(lane) /\ step' = "start"
  BY DEF Resumes
<1>2. CASE Head(lane).by # "plugin"
  BY <1>1, <1>2, PluginJobEnds DEF Resumes, PluginInv
<1>3. CASE Head(lane).by = "plugin"
  <2>1. /\ Head(lane) = lane[1] /\ 1 \in DOMAIN lane
        /\ \A k \in DOMAIN Tail(lane) :
             k \in Nat \ {0} /\ k + 1 \in DOMAIN lane /\ Tail(lane)[k] = lane[k + 1]
    BY TailIs DEF PublicationTypes
  <2>2. layers # <<>> /\ layers' = Tail(layers)
    BY <1>3, <2>1 DEF PluginInv, Resumes, LayersAt
  <2>3. layers' \in Seq(LayerJobs)
    BY <2>2, LayersShrink DEF PluginInv
  <2>4. ASSUME NEW k \in DOMAIN Tail(lane), Tail(lane)[k].by = "plugin"
        PROVE  FALSE
    <3>1. k + 1 = 1 /\ k \in Nat \ {0}
      BY <1>3, <2>1, <2>4 DEF PluginInv
    <3> QED
      BY <3>1
  <2> QED
    BY <1>1, <2>3, <2>4, PluginJobEnds
<1> QED
  BY <1>2, <1>3

LEMMA PluginThrows ==
  ASSUME PluginInv, PublicationTypes, lane # <<>>, NEW known, Throws(known)
  PROVE  PluginInv'
BY ThrowsIs, PluginBoots, PluginResumes

\* With another job at the head of the layers' lane no change waits for a refresh.
LEMMA NobodyWaits ==
  ASSUME PluginInv, NEW job \in LayerJobs \ {"notifying"}, LayersAt(job)
  PROVE  /\ ~LayersAt("notifying") /\ Tail(layers) \in Seq(LayerJobs)
         /\ \A k \in DOMAIN lane : lane[k].by # "plugin"
BY LayersShrink DEF PluginInv, LayersAt

LEMMA PluginRollsBack ==
  ASSUME PluginInv, PublicationTypes, NEW restored, NEW tears, RolledBack(restored, tears)
  PROVE  PluginInv'
<1>1. CASE Reboot
  BY <1>1, PluginBoots
<1>2. CASE lane' = Tail(lane) /\ step' = "start" /\ layers' = Tail(layers)
  <2>1. lane # <<>> /\ LayersAt("restore")
    BY DEF RolledBack, At
  <2>2. Tail(layers) \in Seq(LayerJobs) /\ \A k \in DOMAIN lane : lane[k].by # "plugin"
    BY <2>1, NobodyWaits DEF LayerJobs
  <2>3. \A k \in DOMAIN Tail(lane) : k + 1 \in DOMAIN lane /\ Tail(lane)[k] = lane[k + 1]
    BY <2>1, TailIs DEF PublicationTypes
  <2>4. \A k \in DOMAIN Tail(lane) : Tail(lane)[k].by # "plugin"
    BY <2>2, <2>3
  <2> QED
    BY <1>2, <2>1, <2>2, <2>4, PluginJobEnds
<1> QED
  BY <1>1, <1>2 DEF RolledBack

LEMMA PluginObserver ==
  ASSUME PluginInv, PublicationTypes, Observer
  PROVE  PluginInv'
<1>1. CASE ScanRead \/ AcknowledgeOk \/ AcknowledgeStale
  BY <1>1, PluginFrame DEF ScanRead, AcknowledgeOk, AcknowledgeStale, jobs
<1>2. CASE DeliverToGateway
  <2>1. gateway'.base = gateway.base
    BY <1>2 DEF DeliverToGateway, PublicationTypes, Pair
  <2> QED
    BY <1>2, <2>1, PluginFrame DEF DeliverToGateway, jobs
<1>3. CASE DeliverToCommitter
  <2> DEFINE job == [kind |-> "commit", by |-> "scan", revision |-> observer.scan.revision]
  <2>1. job \in Jobs /\ job.by = "scan"
    BY DEF Jobs, CommitJob, PublicationTypes, Observers
  <2>2. lane' = Append(lane, job) /\ UNCHANGED <<gateway, step, prior, layers>>
    BY <1>3 DEF DeliverToCommitter
  <2> HIDE DEF job
  <2> QED
    BY <2>1, <2>2, PluginGrows
<1>4. CASE Bind
  <2> DEFINE job == [kind |-> "commit", by |-> "bind", revision |-> observer.accepted]
  <2>1. lane' = <<job>> /\ job.by = "bind" /\ UNCHANGED <<gateway, step, prior, layers>>
    BY <1>4 DEF Bind
  <2> HIDE DEF job
  <2>2. \A k \in DOMAIN lane' : lane'[k].by # "plugin"
    BY <2>1
  <2> QED
    BY <2>1, <2>2 DEF PluginInv, LayersAt
<1> QED
  BY <1>1, <1>2, <1>3, <1>4 DEF Observer

LEMMA PluginCommitter ==
  ASSUME PluginInv, PublicationTypes, Committer
  PROVE  PluginInv'
<1>1. CASE ResumePublication \/ AnnounceCatalog \/ CompileAudience
  BY <1>1, PluginFrame DEF ResumePublication, AnnounceCatalog, CompileAudience, Replacing
<1>2. CASE AdmitAudience
  <2>1. lane # <<>> /\ gateway' = gateway
    BY <1>2 DEF AdmitAudience
  <2>2. CASE Resumes(TRUE)
    BY <2>1, <2>2, PluginResumes
  <2>3. CASE step' = "start" /\ UNCHANGED <<observer, lane, prior, layers>>
    BY <2>1, <2>3, PluginFrame DEF Replacing
  <2> QED
    BY <1>2, <2>2, <2>3 DEF AdmitAudience
<1>3. CASE CommitIsOver \/ Refresh
  BY <1>3, PluginResumes DEF CommitIsOver, Refresh, At
<1>4. CASE ReplaceRegistry
  <2>1. /\ prior' = gateway /\ lane' = lane /\ layers' = Append(layers, "replace")
        /\ gateway'.base = gateway.base
    BY <1>4 DEF ReplaceRegistry, PublicationTypes, Pair
  <2>2. layers' \in Seq(LayerJobs) /\ (LayersAt("notifying") => LayersAt("notifying")')
    BY <2>1, LayersGrow DEF PluginInv, LayerJobs
  <2> QED
    BY <2>1, <2>2 DEF PluginInv
<1>5. CASE ReplaceCatalog
  <2>1. /\ LayersAt("replace") /\ layers' = Tail(layers) /\ UNCHANGED <<lane, prior>>
        /\ gateway'.base = gateway.base /\ step \in Replacing
    BY <1>5 DEF ReplaceCatalog, At, Replacing, PublicationTypes, Pair
  <2>2. /\ ~LayersAt("notifying") /\ layers' \in Seq(LayerJobs)
        /\ \A k \in DOMAIN lane : lane[k].by # "plugin"
    BY <2>1, NobodyWaits DEF LayerJobs
  <2> QED
    BY <2>1, <2>2 DEF PluginInv
<1>6. CASE RestoreCatalog
  BY <1>6, PluginRollsBack DEF RestoreCatalog
<1> QED
  BY <1>1, <1>2, <1>3, <1>4, <1>5, <1>6 DEF Committer

LEMMA PluginFailures ==
  ASSUME PluginInv, PublicationTypes, Failures
  PROVE  PluginInv'
<1>1. CASE Crash
  BY <1>1, PluginBoots DEF Crash
<1>2. CASE AcknowledgeFails
  BY <1>2, PluginFrame DEF AcknowledgeFails, jobs
<1>3. CASE AnnounceFails \/ AudienceEventFails \/ AdmissionFails \/ RefreshFails
             \/ RefreshAdmissionFails
  BY <1>3, PluginThrows
    DEF AnnounceFails, AudienceEventFails, AdmissionFails, RefreshFails,
        RefreshAdmissionFails, At
<1>4. CASE RestoreFails
  BY <1>4, PluginRollsBack DEF RestoreFails
<1>5. CASE CommitFails
  <2>1. /\ gateway'.base = gateway.base /\ UNCHANGED <<lane, prior>> /\ step \in Replacing
        /\ \/ LayersAt("replace") /\ layers' = Append(Tail(layers), "restore")
           \/ layers' = Append(layers, "restore")
    BY <1>5 DEF CommitFails, At, Replacing, PublicationTypes, Pair
  <2>2. CASE layers' = Append(layers, "restore")
    <3>1. layers' \in Seq(LayerJobs) /\ (LayersAt("notifying") => LayersAt("notifying")')
      BY <2>2, LayersGrow DEF PluginInv, LayerJobs
    <3> QED
      BY <2>1, <3>1 DEF PluginInv
  <2>3. CASE LayersAt("replace") /\ layers' = Append(Tail(layers), "restore")
    <3>1. /\ ~LayersAt("notifying") /\ Tail(layers) \in Seq(LayerJobs)
          /\ \A k \in DOMAIN lane : lane[k].by # "plugin"
      BY <2>3, NobodyWaits DEF LayerJobs
    <3>2. layers' \in Seq(LayerJobs)
      BY <2>3, <3>1 DEF LayerJobs
    <3> QED
      BY <2>1, <3>1, <3>2 DEF PluginInv
  <2> QED
    BY <2>1, <2>2, <2>3
<1>6. CASE PluginChangeFails
  <2>1. LayersAt("plugin") /\ layers' = Tail(layers) /\ UNCHANGED <<gateway, lane, step, prior>>
    BY <1>6 DEF PluginChangeFails
  <2>2. /\ ~LayersAt("notifying") /\ layers' \in Seq(LayerJobs)
        /\ \A k \in DOMAIN lane : lane[k].by # "plugin"
    BY <2>1, NobodyWaits DEF LayerJobs
  <2> QED
    BY <2>1, <2>2 DEF PluginInv
<1> QED
  BY <1>1, <1>2, <1>3, <1>4, <1>5, <1>6 DEF Failures

LEMMA PluginChange ==
  ASSUME PluginInv, PublicationTypes,
         CommitManifest \/ ChangePolicy \/ ChangePlugin \/ NotifyPluginChange
  PROVE  PluginInv'
<1>1. CASE CommitManifest
  BY <1>1, PluginFrame DEF CommitManifest, jobs
<1>2. CASE ChangePolicy
  <2> DEFINE job == [kind |-> "refresh", by |-> "policy", revision |-> -1]
  <2>1. job \in Jobs /\ job.by = "policy"
    BY DEF Jobs, RefreshJob
  <2>2. lane' = Append(lane, job) /\ UNCHANGED <<gateway, step, prior, layers>>
    BY <1>2 DEF ChangePolicy, QueueRefresh
  <2> HIDE DEF job
  <2> QED
    BY <2>1, <2>2, PluginGrows
<1>3. CASE ChangePlugin
  <2>1. layers' = Append(layers, "plugin") /\ UNCHANGED <<gateway, lane, step, prior>>
    BY <1>3 DEF ChangePlugin
  <2>2. layers' \in Seq(LayerJobs) /\ (LayersAt("notifying") => LayersAt("notifying")')
    BY <2>1, LayersGrow DEF PluginInv, LayerJobs
  <2> QED
    BY <2>1, <2>2 DEF PluginInv
<1>4. CASE NotifyPluginChange
  <2>1. LayersAt("plugin") /\ layers' = <<"notifying">> \o Tail(layers) /\ QueueRefresh("plugin")
    BY <1>4 DEF NotifyPluginChange
  <2>2. /\ Tail(layers) \in Seq(LayerJobs) /\ lane \in Seq(Jobs)
        /\ \A k \in DOMAIN lane : lane[k].by # "plugin"
    BY <2>1, NobodyWaits DEF LayerJobs, PublicationTypes
  <2>3. layers' \in Seq(LayerJobs) /\ LayersAt("notifying")'
    BY <2>1, <2>2 DEF LayersAt, LayerJobs
  <2> DEFINE job == [kind |-> "refresh", by |-> "plugin", revision |-> -1]
  <2>4. job \in Jobs /\ lane' = Append(lane, job)
    BY <2>1 DEF Jobs, RefreshJob, QueueRefresh
  <2> HIDE DEF job
  <2>5. \A k \in DOMAIN lane' :
          \/ k \in DOMAIN lane /\ lane'[k] = lane[k]
          \/ k = Len(lane) + 1 /\ lane'[k] = job
    BY <2>2, <2>4, AppendIs
  <2> QED
    BY <2>2, <2>3, <2>5 DEF PluginInv
<1> QED
  BY <1>1, <1>2, <1>3, <1>4

LEMMA PluginStep == PluginInv /\ PublicationTypes /\ [Next]_vars => PluginInv'
<1>1. PluginInv /\ UNCHANGED vars => PluginInv'
  BY PluginFrame DEF vars, jobs
<1> QED
  BY <1>1, PluginObserver, PluginCommitter, PluginFailures, PluginChange DEF Next

\* A commit that is rolled back puts back the plugin operations it found, and yet none of
\* their changes is undone, however many are under way: the lane of operation layers comes
\* to the roll back only when no change was applied since the commit began
\* (restoreOperationLayersState, refreshOperations).
THEOREM NoPluginChangeIsUndone == Spec => []RollBackKeepsPluginChanges
<1>1. Init => PluginInv
  BY DEF Init, PluginInv, Replacing
<1>2. PluginInv => RollBackKeepsPluginChanges
  BY DEF PluginInv, RollBackKeepsPluginChanges, Replacing, LayersAt
<1> QED
  BY <1>1, <1>2, PluginStep, Typed, PTL DEF Spec

================================================================================
