\* Every operation, two requests at a time, an agent, crashes.
CONSTANTS
  h1 = h1
  h2 = h2
  agent = agent
  None = None
  Sites <- MCSites
  Tunnels <- MCTunnels
  EndA <- MCEndA
  EndB <- MCEndB
  Wireguard = {"tnl_1"}
  SeedSites <- MCSeedSites
  SeedStatus <- MCSeedStatus
  Handlers = {h1, h2}
  Agents = {agent}
  AgentSite <- MCAgentSite
  Ops <- AllOps
  UpdateTo = {"paused"}
SYMMETRY HandlerSymmetry
SPECIFICATION Spec
VIEW ButSettled
INVARIANTS TypeOK ReferentialIntegrity NoLostTunnel MirrorAgrees GhostExplained AuditComplete
\* With every site deleted the process cannot boot again: it really stops.
CHECK_DEADLOCK FALSE
