SPECIFICATION FairDomainSpec
CONSTANTS
  a = a  b = b
  p1 = p1  p2 = p2
  o1 = o1  o2 = o2  o3 = o3
  absent = absent  edited = edited
  NoOp = NoOp
  Files <- MCFiles
  Contents <- MCContents
  Absent = absent
  Edited = edited
  Ops <- MCOps
  Targets <- MCTargets
  Pre <- MCPre
  New <- MCNew
  InitialFile <- MCInitial
  Procs <- MCProcs
  MaxFaults = 4
  LegacySets <- MCLegacySets
INVARIANTS
  OneWriter
PROPERTIES
  DomainsImplementAtomic
  DomainLocksAreReleased
