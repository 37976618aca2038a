SPECIFICATION Spec
CONSTANTS
  None = None
  leaf1 = leaf1
  leaf2 = leaf2
  db = db
  other = other
  Networks <- MCNetworks
  RuleIds <- MCRuleIds
  FirstLeaf = leaf1
  SecondLeaf = leaf2
  Owner <- MCOwner
  CertRole <- MCCertRole
  Pools <- MCPools
  Sessions = {s1}
  Handlers = {h1}
  Words <- MCWords
  Bodies <- MCBodies
  Requests <- MCRequests
  Posts <- MCPosts
  PolicyUpdates <- MCPolicyUpdates
  MaxRequests = 2
  MaxFaults = 2
  MaxUpdates = 1
INVARIANT AckedDeleteGone
