\* Deletion of every site, then a restart.
CONSTANTS
  h1 = h1
  h2 = h2
  agent = agent
  None = None
  Sites <- MCSites
  Tunnels <- MCTunnels
  EndA <- MCEndA
  EndB <- MCEndB
  Wireguard <- MCTunnels
  SeedSites <- MCSeedSites
  SeedStatus <- MCSeedStatus
  Handlers = {h1, h2}
  Agents = {}
  AgentSite <- NoAgentSite
  Ops <- BootOps
  UpdateTo = {"paused"}
SYMMETRY HandlerSymmetry
SPECIFICATION Spec
INVARIANTS SeedOnFirstBootOnly
CHECK_DEADLOCK FALSE
