\* Deletions and an agent that keeps reporting.
CONSTANTS
  h1 = h1
  h2 = h2
  agent = agent
  None = None
  Sites <- MCSites
  Tunnels <- MCTunnels
  EndA <- MCEndA
  EndB <- MCEndB
  Wireguard <- MCTunnels
  SeedSites <- MCSeedSites
  SeedStatus <- MCSeedStatus
  Handlers = {h1, h2}
  Agents = {agent}
  AgentSite <- MCAgentSite
  Ops <- GhostReportOps
  UpdateTo = {"paused"}
SYMMETRY HandlerSymmetry
SPECIFICATION Spec
INVARIANTS DeletedIsDropped
