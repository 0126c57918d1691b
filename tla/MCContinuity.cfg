SPECIFICATION MCSpec
CONSTANTS
  None = None
  i1 = i1  r1 = r1  k1 = k1  k2 = k2  k3 = k3  k4 = k4  k5 = k5  k6 = k6  k7 = k7
  e1 = e1  e2 = e2  e3 = e3  e4 = e4  e5 = e5  e6 = e6  e7 = e7  op1 = op1  op2 = op2  s1 = s1
  s2 = s2  p1 = p1  b1 = b1  w1 = w1  w2 = w2
  Items = {i1}
  Rooms = {r1}
  Keys = {k1, k2, k3, k4, k5, k6, k7}
  EventIds = {e1, e2, e3, e4, e5, e6, e7}
  Operations = {op1, op2}
  Summaries = {s1, s2}
  Projects = {p1}
  Commands <- MCCommands
  Bundles = {b1}
  Plan <- MCPlan
  Times = {1}
  Conns = {w1, w2}
  Readers = {w1}
  Memories = {1, 2}
  v1 = v1  v2 = v2  p2 = p2  c1 = c1
  Versions = {v1, v2}
  Places = {p1, p2}
  Claims = {c1}
  Blockers = {"missing_source_or_provenance_pointer", "stale_or_superseded", "unresolved_contradiction"}
  MaxProposals = 1
  Nil = Nil
  Absent = Absent  x1 = x1  x2 = x2  y1 = y1  y2 = y2  y3 = y3  y4 = y4  y5 = y5  g1 = g1
  Speakers = {1, 2}
  Contents = {x1, x2}
  Grants = {g1}
  Granted <- MCGranted
  AstelSources <- MCAstelSources
  SolenSources <- MCSolenSources
  Attestations <- MCAttestations
  MaxRevision = 4
  MaxReplays = 2
  Worlds = {"merge", "lifecycle", "bundle", "reading",
            "records", "relations", "evolution", "legacy",
            "granting", "attesting"}
SYMMETRY Symmetry
INVARIANTS
  Replayable MergeKeepsConcurrent BundleWhole
  ReadIsOneMoment ExcludedStaysExcluded
  OrdinaryChainsAreSelectable StandingIsCurrent ReplaysAgree
  ConfirmedOnce JointIsOfBoth
PROPERTY AppendOnly
CHECK_DEADLOCK FALSE
