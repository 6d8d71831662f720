\* Two toggles of one tunnel at a time.
CONSTANTS
  h1 = h1
  h2 = h2
  agent = agent
  None = None
  Sites <- MCSites
  Tunnels <- MCTunnels
  EndA <- MCEndA
  EndB <- MCEndB
  Wireguard <- MCTunnels
  SeedSites <- MCSeedSites
  SeedStatus <- MCSeedStatus
  Handlers = {h1, h2}
  Agents = {}
  AgentSite <- NoAgentSite
  Ops <- ToggleOps
  UpdateTo = {"paused"}
SYMMETRY HandlerSymmetry
SPECIFICATION Spec
INVARIANTS DisabledMeansDown
