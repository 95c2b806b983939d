------------------------------ MODULE MCFairClaim ------------------------------
(* Small instances of FairClaim for TLC. *)
EXTENDS FairClaim

Items4 == 1..4
Items3 == 1..3
Items2 == 1..2

\* Three classes: two slots for the highest, one for each of the others.
ShortCycle == <<3, 3, 2, 1>>
LongCycle == <<4, 3, 2, 1>>
TwoClasses == <<2, 2, 1>>
OneSlotEach == <<3, 2, 1>>

\* One partition, with work in every class.
OnePartition == [i \in WorkItems |-> <<1, 1>>]
Mixed3 == <<3, 2, 1>>
LowAndHigh == <<1, 3>>

\* A tenant with two projects, and another tenant, with an item each.
TwoTenants3 == <<<<1, 1>>, <<1, 2>>, <<2, 1>>>>
Priorities3 == <<2, 1, 1>>

\* The same, with a second item of the first project, in its class.
TwoTenants4 == <<<<1, 1>>, <<1, 2>>, <<2, 1>>, <<1, 1>>>>
Priorities4 == <<2, 1, 3, 2>>

Roomy == <<9, 9, 9>>
Tight == <<2, 2, 1>>
Loose == <<3, 3, 2>>
===============================================================================
