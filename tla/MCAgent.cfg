SPECIFICATION MCSpec
CONSTANTS
  Nil = Nil  None = None
  s1 = s1  s2 = s2  t1 = t1  t2 = t2  r1 = r1  r2 = r2  k1 = k1  k2 = k2  x1 = x1  x2 = x2  op = op
  Servers = {s1, s2}
  Tools = {t1, t2}
  ServerOf <- MCServerOf
  Connections = {k1, k2}
  Schemas = {x1, x2}
  ReviewedServers = {s1}
  Runners = {r1, r2}
  MaxLegs = 1
  MaxIndex = 2
  Calls <- MCCalls
  Parents = {op}
  ParentOf <- MCParentOf
  Bindings <- MCBindings
  Bodies = {"answer", "unavailable"}
  Configs <- MCConfigs
  Requests <- MCRequests
  Replies <- MCReplies
INVARIANTS TranscriptIsFaithful EvidenceIsTrue AnswersAreEarned
PROPERTIES EffectsAreReviewed
