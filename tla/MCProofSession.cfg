CONSTANTS
  Libs <- MCLibs
  AC2CLibs <- MCAC2CLibs
  Sessions <- MCAllSessions
  EncIdx <- MCEncIdx
  RevealIdx <- MCRevealIdx
  Garbage = Garbage
SPECIFICATION Spec
\* A session is a finite chain of calls: it really stops once settled.
CHECK_DEADLOCK FALSE
INVARIANTS
  TypeOK
  DecryptCorrelation
  LabelsResolved
PROPERTIES
  Settles
