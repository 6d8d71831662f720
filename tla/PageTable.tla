------------------------------ MODULE PageTable ------------------------------
(***************************************************************************)
(* The pages of the console (src/web/src/pages), each by its control: the  *)
(* endpoints it reads, the one whose data or error decides what is         *)
(* rendered, and what an operator can do there.  Columns, labels and       *)
(* layout are left out; a field's value is Pages' business.                *)
(***************************************************************************)
EXTENDS Naturals, FiniteSets

\* What an endpoint's queries read (lib/api.ts, internal/api/handlers.go).
Reads ==
  [overview     |-> {"sites", "tunnels", "users", "gateways", "sessions", "alerts"},
   sites        |-> {"sites", "tunnels"},
   site         |-> {"sites", "tunnels", "resources", "gateways"},
   tunnels      |-> {"tunnels", "sites"},
   tunnel       |-> {"tunnels", "sites"},
   users        |-> {"users"},
   user         |-> {"users", "devices", "sessions"},
   sessions     |-> {"sessions", "users", "devices"},
   resources    |-> {"resources", "sites"},
   policies     |-> {"policies", "resources"},
   gateways     |-> {"gateways", "sites"},
   cloud        |-> {"cloud", "sites"},
   certificates |-> {"certificates"},
   keys         |-> {"keys"},
   alerts       |-> {"alerts"},
   audit        |-> {"audit"},
   operators    |-> {"operators"},
   mfa          |-> {"totp"},
   webhook      |-> {"webhook"},
   agentToken   |-> {"agent"}]

Estate == {"sites", "tunnels", "gateways", "cloud", "users", "devices", "sessions",
           "resources", "policies", "alerts", "certificates", "keys"}

\* What an operation's handler writes; every one of them also appends to audit.
Writes ==
  [createSite |-> {"sites"}, updateSite |-> {"sites"},
   deleteSite |-> {"sites", "tunnels", "gateways", "cloud"},
   createTunnel |-> {"tunnels"}, updateTunnel |-> {"tunnels"},
   deleteTunnel |-> {"tunnels"}, toggleTunnel |-> {"tunnels"},
   createGateway |-> {"gateways"}, updateGateway |-> {"gateways"},
   deleteGateway |-> {"gateways"}, rotateGateway |-> {"gateways", "keys"},
   createCloud |-> {"cloud", "sites"}, deleteCloud |-> {"cloud", "sites", "tunnels", "gateways"},
   createUser |-> {"users"}, updateUser |-> {"users"},
   deleteUser |-> {"users", "devices", "sessions"}, suspendUser |-> {"users"},
   enrollDevice |-> {"devices"}, deleteDevice |-> {"devices"},
   disconnectSession |-> {"sessions"},
   createResource |-> {"resources"}, updateResource |-> {"resources"},
   deleteResource |-> {"resources"}, createPolicy |-> {"policies"},
   updatePolicy |-> {"policies"}, deletePolicy |-> {"policies"},
   resolveAlert |-> {"alerts"}, issueCert |-> {"certificates"},
   revokeCert |-> {"certificates"}, deleteCert |-> {"certificates"},
   generateKey |-> {"keys"}, revealKey |-> {}, deleteKey |-> {"keys"},
   createOperator |-> {"operators"}, updateOperator |-> {"operators"},
   deleteOperator |-> {"operators"}, changePasscode |-> {"passcode"},
   mfaSetup |-> {}, mfaActivate |-> {"totp"}, mfaDisable |-> {"totp"},
   setWebhook |-> {"webhook"}, resetEstate |-> Estate, restore |-> Estate]

-----------------------------------------------------------------------------
(* How an operation starts, and the hooks its success reloads:             *)
(*   press    a button sends it                                            *)
(*   ask      a dialog asks first                                          *)
(*   fill     a form that starts empty (or from defaults)                  *)
(*   edit     a form filled from the row it was opened on                  *)
(*   revise   a form filled from the thing the page is about               *)
(* then: what follows a success, "stay" or "leave" the page.               *)
Op(name, via, reloads) == [name |-> name, via |-> via, reloads |-> reloads, then |-> "stay"]
Final(name, via) == [name |-> name, via |-> via, reloads |-> {}, then |-> "leave"]

\* hooks: the endpoint of each useResource call; gate: the call whose data and
\* error the page's first lines look at, 0 if it renders whatever they are.
Page(hooks, detail, ops) == [hooks |-> hooks, gate |-> 1, detail |-> detail, ops |-> ops]

OverviewPage == Page(<<"overview", "tunnels", "sessions">>, FALSE, {})

TopologyPage == Page(<<"sites", "tunnels", "sessions">>, FALSE, {})

SitesPage == Page(<<"sites">>, FALSE, {Op("createSite", "fill", {1})})

SiteDetailPage == Page(<<"site">>, TRUE,
  {Op("updateSite", "revise", {1}), Final("deleteSite", "ask")})

TunnelsPage == Page(<<"tunnels", "sites">>, FALSE,
  {Op("toggleTunnel", "press", {1}), Op("deleteTunnel", "ask", {1}),
   Op("createTunnel", "fill", {1})})

TunnelDetailPage == Page(<<"tunnel">>, TRUE,
  {Op("toggleTunnel", "press", {1}), Op("updateTunnel", "revise", {1}),
   Final("deleteTunnel", "ask")})

GatewaysPage == Page(<<"gateways", "sites">>, FALSE,
  {Op("rotateGateway", "ask", {1}), Op("createGateway", "fill", {1}),
   Op("updateGateway", "edit", {1}), Op("deleteGateway", "ask", {1})})

CloudPage == Page(<<"cloud">>, FALSE,
  {Op("createCloud", "fill", {1}), Op("deleteCloud", "ask", {1})})

UsersPage == Page(<<"users">>, FALSE,
  {Op("suspendUser", "press", {1}), Op("createUser", "fill", {1}),
   Op("updateUser", "edit", {1}), Op("deleteUser", "ask", {1})})

UserDetailPage == Page(<<"user">>, TRUE,
  {Op("enrollDevice", "fill", {1}), Op("updateUser", "revise", {1}),
   Op("disconnectSession", "ask", {1}), Op("deleteDevice", "ask", {1}),
   Final("deleteUser", "ask")})

SessionsPage == Page(<<"sessions">>, FALSE, {Op("disconnectSession", "ask", {1})})

\* Writing a resource reloads the resources only, though the policies' rows
\* carry its name.
ResourcesPage == Page(<<"resources", "policies">>, FALSE,
  {Op("createResource", "fill", {1}), Op("updateResource", "edit", {1}),
   Op("deleteResource", "ask", {1}), Op("createPolicy", "fill", {2}),
   Op("updatePolicy", "edit", {2}), Op("deletePolicy", "ask", {2})})

VaultPage == Page(<<"certificates", "keys">>, FALSE,
  {Op("issueCert", "fill", {1}), Op("revokeCert", "ask", {1}),
   Op("deleteCert", "ask", {1}), Op("generateKey", "fill", {2}),
   Op("revealKey", "ask", {}), Op("deleteKey", "ask", {2})})

\* A bug to find: the audit trail is not read again.
MonitoringPageBug == Page(<<"alerts", "audit">>, FALSE, {Op("resolveAlert", "press", {1})})

MonitoringPage == Page(<<"alerts", "audit">>, FALSE, {Op("resolveAlert", "press", {1, 2})})

TeamPage == Page(<<"operators">>, FALSE,
  {Op("createOperator", "fill", {1}), Op("updateOperator", "edit", {1}),
   Op("deleteOperator", "ask", {1})})

AnalyticsPage == Page(<<"tunnels">>, FALSE, {})

\* Its cards each wait for their own data; a restore or a reset reloads the tab.
MfaCard == {Op("mfaSetup", "press", {}), Op("mfaActivate", "press", {1}),
            Op("mfaDisable", "ask", {1})}
WebhookCard == {Op("setWebhook", "press", {2})}
SettingsPage ==
  [hooks |-> <<"mfa", "webhook", "agentToken">>, gate |-> 0, detail |-> FALSE,
   ops |-> {Op("changePasscode", "fill", {}), Final("resetEstate", "ask"),
            Final("restore", "ask")} \cup MfaCard \cup WebhookCard]

Pagebook ==
  {OverviewPage, TopologyPage, SitesPage, SiteDetailPage, TunnelsPage,
   TunnelDetailPage, GatewaysPage, CloudPage, UsersPage, UserDetailPage,
   SessionsPage, ResourcesPage, VaultPage, MonitoringPage, TeamPage,
   AnalyticsPage, SettingsPage}

AllOps == UNION {p.ops : p \in Pagebook}

\* The hooks of page p that an operation of it makes out of date.
Touched(p, op) ==
  {h \in DOMAIN p.hooks : Reads[p.hooks[h]] \cap (Writes[op.name] \cup {"audit"}) # {}}

\* What a page never reloads although it wrote it: the number of tunnels in the
\* options of a tunnel's form, which does not show it, and the resource's name
\* in the policies' rows, which do.
LeftStale(p, op) ==
  {h \in Touched(p, op) :
     \/ p = TunnelsPage /\ p.hooks[h] = "sites"
     \/ p = ResourcesPage /\ p.hooks[h] = "policies" /\ op.reloads = {1}}
=============================================================================
