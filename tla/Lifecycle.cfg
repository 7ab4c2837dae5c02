SPECIFICATION FairSpec
CONSTANTS
  s1 = s1
  s2 = s2
  r1 = r1
  r2 = r2
  Services = {s1, s2}
  Requests = {r1, r2}
INVARIANTS
  LifecycleTypeOK
  DrainsNotServing
  StatusIsLastCheck
  CutOnlyByForce
PROPERTIES
  StopEndsProcess
  OutageShown
