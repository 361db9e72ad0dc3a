------------------------- MODULE MCPullReplication -------------------------
EXTENDS PullReplication, TLC

CONSTANTS c1, c2

\* Two partitions of 8 keys, each in two 4-key sub-ranges.  As replica 1
\* the responder starts each answer one key into the summary's range and
\* covers the rest with its second scan; as replica 0 it starts at
\* rangeStart.
MCRespIdx1 == (0 :> 1) @@ (1 :> 1)
MCRespIdx0 == (0 :> 0) @@ (1 :> 0)

\* Partition 1 holds the data.  The responder has an entry the puller lacks
\* in each sub-range (8, 14), one newer than the puller's (15) and one
\* equal to it (10); the puller has one the responder lacks (11), so with
\* bloomN = 1 the first sub-range needs two summaries.
MCSInit == [k \in 0 .. 15 |-> CASE k \in {8, 10, 14} -> 1
                                [] k = 15 -> 2
                                [] OTHER -> 0]
MCPInit == [k \in 0 .. 15 |-> IF k \in {10, 11, 15} THEN 1 ELSE 0]

MCOneCaller  == {c1}
MCTwoCallers == {c1, c2}
=============================================================================
