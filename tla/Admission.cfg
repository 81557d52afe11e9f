SPECIFICATION FairSpec
CONSTANTS
  ProposalRows = 2
  MissionRows = 3
  Key = {k1}
  Evidence = {FALSE}
  Resolver = {}
  Unfreezer = {u1}
  Spawner = {s1}
  Reaper = reaper
  Limits <- MCLimits
  MaxFindings = 1
  MaxFaults = 1
INVARIANTS
  AdmissionSound
PROPERTIES
  EveryProposalDecided
CHECK_DEADLOCK FALSE
