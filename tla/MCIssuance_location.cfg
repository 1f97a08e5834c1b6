CONSTANT Launches <- MCLaunches
SPECIFICATION Spec
INVARIANT RejectionNamesOperation
CHECK_DEADLOCK FALSE
