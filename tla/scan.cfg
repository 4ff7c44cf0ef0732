SPECIFICATION Spec
CONSTANTS
  chrome = chrome
  edge = edge
  c1 = c1
  c2 = c2
  c3 = c3
  e1 = e1
  w1 = w1
  Family = {chrome, edge}
  Process = {c1, c2, c3, e1}
  Manageable = {c1, c2, e1}
  Window = {w1, w2}
  FamilyOf <- MCFamilyOf
  OwnerOf <- MCOwnerOf
  MaxGroupPids = 2
  ScanFaults = {"snapshot", "open"}
INVARIANTS TypeOK RestoredWindowProtects ForegroundProtects WindowlessIsLeftAlone AudioProtects
