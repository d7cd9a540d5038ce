--------------------------- MODULE MCSharedMetrics ---------------------------
EXTENDS SharedMetrics
\* A stressor with two instances and three entries, and one with one instance
\* and one entry, which it may overflow; the descriptions of each are rounded
\* up by four bytes.
InstancesOf == <<2, 1>>
MaxItemsOf == <<3, 1>>
CreatorsOf == {<<1, 1>>, <<2, 1>>}
DescOf == {<<"d1">>, <<"d2">>}
=============================================================================
