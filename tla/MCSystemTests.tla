--------------------------- MODULE MCSystemTests ---------------------------
EXTENDS SystemTests

CONSTANTS d1, d2, d3, d4, r1, r2

\* One dag within 25 percent, two more within 50, one outside.
MCBucket == d1 :> 10 @@ d2 :> 30 @@ d3 :> 45 @@ d4 :> 70

MCRegionBucket == r1 :> 40 @@ r2 :> 80

\* A shard without orders, and one whose only day has no revenue.
MCShard == {<<>>, <<[day |-> 1, status |-> "cancelled", amount |-> 1]>>}
=============================================================================
