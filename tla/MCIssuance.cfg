CONSTANT Launches <- MCLaunches
SPECIFICATION Spec
INVARIANT TypeOK
PROPERTY IssuanceRefines IssuanceSettles
CHECK_DEADLOCK FALSE
