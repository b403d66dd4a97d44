------------------------- MODULE CampaignControlMC -------------------------
EXTENDS CampaignControl, TLC

CONSTANTS t1, t2, t3, t4, a1, a2, a3, p1, p2, s1, s2

\* One budget of four tasks, enough for two blocks, and a successor of which no
\* task is looked at.
BlocksAdmissionOf == [t \in {t1, t2, t3, t4} |-> a1]
BlocksPolicyOf    == a1 :> p1 @@ a2 :> p2
BlocksSampleOf    == a1 :> s1 @@ a2 :> s1
BlocksSymmetry    == Permutations({t1, t2, t3, t4})

\* Two samples under one policy, one task and two, and a successor with one.
PairsAdmissionOf == t1 :> a1 @@ t2 :> a2 @@ t3 :> a2 @@ t4 :> a3
PairsPolicyOf    == a1 :> p1 @@ a2 :> p1 @@ a3 :> p2
PairsSampleOf    == a1 :> s1 @@ a2 :> s2 @@ a3 :> s1
PairsSymmetry    == Permutations({t2, t3})
=============================================================================
