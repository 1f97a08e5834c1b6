SPECIFICATION Spec
INVARIANT PartitionMatchesRule
