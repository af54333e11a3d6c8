\* Two schedules, two pods during a rollout, two edits, two faults.
SPECIFICATION Spec
CONSTANTS
  Slots = {s1, s2}
  Pods = {p1, p2}
  Day = 8
  Window = 6
  SendTimes <- MCSendTimes
  Zones <- MCZones
  MaxEdits = 2
  MaxFaults = 2
SYMMETRY Symmetry
PROPERTIES
  SendsAreSpaced
  
