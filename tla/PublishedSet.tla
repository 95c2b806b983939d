----------------------------- MODULE PublishedSet -----------------------------
(***************************************************************************)
(* What the service-manifest authority promises, without versions, content *)
(* blobs, request history or clean-up: two sets of service entries.  A     *)
(* change replaces one entry of the candidate set and leaves the published *)
(* set as it is; publication copies the whole candidate set.               *)
(***************************************************************************)
EXTENDS Naturals

CONSTANTS Services, Manifests, Backlog

VARIABLES
  candidate,  \* the entries [service, revision, manifest] of the candidate set
  published,  \* those of the published set
  ahead       \* the number of changes that are not published yet

setVars == <<candidate, published, ahead>>

Init == candidate = {} /\ published = {} /\ ahead = 0

Others(s) == {x \in candidate : x.service # s}

Change(s, m) ==
  /\ ahead < Backlog
  /\ \E r \in {x.revision + 1 : x \in candidate} \cup {1} :
       /\ candidate' = Others(s) \cup {[service |-> s, revision |-> r, manifest |-> m]}
       /\ \A x \in candidate \ Others(s) : r = x.revision + 1 /\ m # x.manifest
       /\ Others(s) = candidate => r = 1
  /\ ahead' = ahead + 1
  /\ UNCHANGED published

Publish == published' = candidate /\ ahead' = 0 /\ UNCHANGED candidate

Next == Publish \/ \E s \in Services, m \in Manifests : Change(s, m)

Spec == Init /\ [][Next]_setVars
===============================================================================
