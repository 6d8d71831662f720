# Cipherlane, specified

Cipherlane is a self-hosted VPN control plane: one Go process (`src/server`)
with an HTTP API over SQLite, a telemetry engine, a WebSocket hub, an optional
agent per gateway (`src/server/cmd/agent`), and a React console (`src/web`).
This directory holds TLA+ modules of its core, TLC configurations that check
them on small instances, and TLAPS proofs that hold for every value of the
constants.

## The system

| component | state | operations | hard part |
| --- | --- | --- | --- |
| Estate (`api/create_handlers.go`, `crud_handlers.go`, `settings_handlers.go`, `sim/engine.go`) | tables `sites`, `tunnels`, `audit_events`; the engine's map of live tunnels | create / update / toggle / delete, reset, boot, agents' reports | the map mirrors the table by hand: one call per handler, after the statement and outside any transaction |
| Store and locks (`db/db.go`, `sim/engine.go`, `api/handlers.go`) | one SQLite connection, one `sync.RWMutex` | every handler, the 2 s tick, the alert evaluation | handlers that hold one and wait for the other |
| Hub (`ws/hub.go`) | client set, a buffered channel and two goroutines per client | broadcast, connect, disconnect | closing a channel others send to; slow and vanished clients |
| Alerts (`sim/engine.go` evaluateAlerts, `api/ops_handlers.go`) | table `alerts`, setting `webhook_url` | evaluate, raise, resolve, post | count-then-insert, conditions that are over when the alert is raised |
| Remote access (`api/user_handlers.go`, `ops_handlers.go`) | tables `users`, `devices`, `sessions`; the engine's map of live sessions | create, suspend, enroll, disconnect, delete | a second hand-kept mirror |
| Certificates and vault (`api/vault_handlers.go`, `pki`, `vault`) | settings `ca_cert`, `ca_key`, tables `certificates`, `vault_keys` | first use creates the CA, issue, revoke, delete | the CA is two settings written one after another |
| Accounts (`api/auth_handlers.go`, `operator_handlers.go`, `mfa_handlers.go`, `auth`, `totp`) | table `operators`, MFA settings, signed tokens | login, CRUD, MFA setup / activate / disable | checks and writes apart; a token keeps the role it was issued with |
| Cloud connectors (`api/cloud_handlers.go`) | table `cloud_connectors` and a site each | create, delete | three inserts outside a transaction |
| Gateways, policies, resources (`api/crud_handlers.go`) | a table each | plain CRUD | none beyond cascades |
| Backup, restore, passcode, webhook (`api/settings_handlers.go`) | settings, every table | restore wipes and inserts | partial snapshots |
| Agent (`cmd/agent/main.go`) | the config it fetched, last counters | fetch, apply, sample, report | the first sample, counters that restart |
| Simulated telemetry (`sim/engine.go` tick, walk) | rates, loss, series | tick | numeric bounds |
| Console: session and feed (`useAuth.tsx`, `Login.tsx`, `live.tsx`) | the cookie, who the tab is taken for, the form, one socket and its timer | sign in and out, F5, expiry, reconnect | the factor changes during a sign-in; sockets that close while the provider comes and goes |
| Console: fetched resources (`useApi.ts`) | per call: data, error, loading | refetch on mount, reload, change of address | several requests out, answers in any order |
| Console: pages, forms, dialogs (`pages/`, `FormModal.tsx`, `Modal.tsx`) | which form is open and what it was filled from, one dialog | buttons, dialogs, forms, reload after each write | forms outlive the data they were opened on; handlers outlive the page |
| Console: top bar and webhook card (`TopBar.tsx`, `Settings.tsx`) | a list of alerts; a field, and whether it was typed in | poll, resolve; type, save | reads that nothing cancels; a field that follows data |
| Console: network map (`Topology.tsx`) | positions per layout, in the page and in `localStorage`; one drag | drag, pick and reset a layout | several pointers and one drag; divisions by one less |
| Router, config, WireGuard keys, models, seed data | - | - | plain functions |

How they interact: a request runs in a goroutine of its own and shares with
the others only the pool's connection, the engine (behind its mutex) and the
hub (behind its own). The ticker locks the engine, takes a snapshot, unlocks,
and broadcasts; every fifteenth tick starts an alert evaluation beside it.
Agents call two HTTP endpoints. The console fetches resources over HTTP, refetches
them after each write, and takes the live feed from the hub; its parts share the
cookie and otherwise only what the server holds.

## The modules

### `Estate`: the tables and their mirror

One action is one SQL statement or one engine call with the code up to the
next: the connection makes the first atomic and the mutex the second, and
between two of them any other request may run. A request is a record in `req`
with the point `pc` it has reached, its operation, the id it is about and the
status it carries.

| variable | code |
| --- | --- |
| `sites`, `status` | rows of `sites`; the `status` column of `tunnels`, `Absent` without a row |
| `used` | ids that `db.NewID` has issued: random, never issued twice |
| `live` | `Engine.tunnels` and the live `Status` in it |
| `known` | the tunnels an agent fetched from `agentConfig` when it started |
| `audit` | `audit_events`, as (action, target); the code audits a name where the model keeps the id |
| `residue` | the rest of the seed's rows (alerts, audit events), which nothing but a reset removes |
| `up` | whether the process runs |
| `parted` | a history: tunnels whose row and live status were written for different reasons, with nothing since to rejoin them |
| `cut` | a history: ids whose creation or deletion a crash left unrecorded or a reset erased |

Creation takes five steps (two endpoint checks, insert, `AddTunnel`, audit);
a toggle reads, writes, mirrors and audits; a site deletion cascades, audits
and reloads; a reset wipes, counts, seeds, reloads and audits. A refused
request changes nothing and is no step.

`EndA`, `EndB` give the two sites an id will be created with, so a tunnel's
endpoints are a constant of its id. `UpdateTo` is the set of strings a `PUT` may
carry as the status, which the handler stores and mirrors as they are; the engine
takes an unknown one for `up` when it loads the row (`NewTunnel`, `Loaded`).
`Ops` restricts the operations of a run.

Nothing in the server keeps two requests on a tunnel apart, and the console does
not either: its toggle stays enabled while a request is out. Two that overlap can
leave the row and the live status different for good (`DisabledMeansDown`, refuted
below), so `MirrorAgrees` and `GhostExplained` speak of the tunnels outside
`parted`. A tunnel enters it when two requests are on it together, when a reset
seeds beside one, or when an agent's report changes what is live (`Parts`); it
leaves it with a restart, or with a reload, a toggle, an update or a deletion that
comes to it alone (`Mends`). No request is forbidden, and all the rest (cascades,
reloads, resets, crashes, requests on other tunnels) must keep the two together.
`AuditComplete` excepts likewise only the ids in `cut`. No guard reads a history.

Properties: `ReferentialIntegrity`, `NoLostTunnel`, `MirrorAgrees`,
`GhostExplained`, `AuditComplete`, each stated and explained in the module.
Three more are refuted, see *Findings*.

### `StoreLocks`: who waits for whom

Each kind of goroutine is the sequence of its operations on the connection
and the mutex (`Program`); Go's pool and `RWMutex` are modelled by their
documentation: a writer announces itself, waits for the readers inside, and
keeps later readers out; unlocking lets every queued reader in.
`NoDeadlock` says that the only goroutines that ever wait for one another in a
circle are a listing (a cursor that looks rows up in the engine) and a reload
(queries under the engine's lock); `EverythingCompletes` that otherwise every
goroutine ends.

### `Hub` and `Fanout`

`Hub` has one action per step of `Broadcast` (one per client), of the two
pumps and of their shutdown. The lock is held for reading exactly while a
broadcast has clients left to serve (`todo`), and connecting and removing
need it. `Fanout` is what the feed promises: a dashboard sees snapshots
published since it joined, in order, each at most once, possibly with gaps.
`ImplementsFanout` is the refinement, with the count of broadcasts as
`published` and the clients that ever connected as `joined`.

### `Alerts`

An evaluation is a goroutine that a tick starts and nobody waits for. Its
`stage` says whether it raises tunnels or certificates, `todo` what is left,
`pending` the alert it has counted but not inserted. The table is the number
of open alerts of each source and title, which is all that `raiseAlert` and
`resolveAlert` depend on. `Change` is the rest of the system: what makes a
tunnel lossy or a certificate expire. `OnePerEvaluation` bounds the
duplicates, `TroubleIsReported` and `QuietAfterRecovery` say that an alert
comes when it must and does not come back when it is over. The bound
`Evals` on evaluations at work is the model's: where it makes a tick wait, Go
would start one more.

### `Authority`

`loadCA` as five statements (two settings read, two written, a row inserted),
then `issueCert`'s row. `caCert` and `caKey` say whose certificate and key the
settings hold. `created` and the ids in state `gone` are never used again, as
random ids and keys are not. `raced` remembers whether two requests were ever
creating the authority at once: `OneAuthority` holds otherwise, with any
number of restarts between the statements; `CAPersists` holds always.

### `Mfa`

The settings `totp_enabled` and `totp_secret` and the three handlers that
write them, one statement at a time. `shown` and `proved` are what authenticators
hold and what activations have verified. `OwnerCanSignIn` holds unless an
activation overlaps a setup or a disabling (`raced`); two setups, two
disablings, or one of each may overlap as they like.

### `Session`: a tab that signs in, and its feed

Extends `Mfa` by a tab: `AuthProvider` (`ready`, `as`), the form (`mode`,
`mfaStep`), the sign-in under way (`attempt`, whose `pc` says how far the
server's `login` got: it reads `totp_enabled` and `totp_secret` in two
statements), sign-out, the expiry of the cookie and F5. `OwnerGetsIn` says that
an owner who keeps typing the passcode, and the code when asked for one, gets
in, whatever the factor's handlers do meanwhile. The second half is
`LiveProvider`: `mounted`, the sockets, the one that `ws` names, the timer.
`OneSocket` and `FeedReturns` are its comment's promises.

### `Latest` and `Fetch`: a fetched resource

`Latest` is what `useResource` promises: a hook shows what the server held at
some moment between its newest request and the answer, or that request's
failure. `Fetch` has the requests: each run of the effect sends one, `wire`
holds requests and answers in no order, and an answer counts only if its run is
in `alive`. `rev` counts the writes to what a hook reads, which is all that
tells one answer from another. `ImplementsLatest` is the refinement; `asked` is
a history variable both share.

### `PageTable` and `Pages`: the seventeen pages

`PageTable` gives each page's control as a record: the endpoints its hooks
read, whether the first of them decides what is rendered (`gate`), and its
operations, each with how it starts (a button, a question, a form that is empty,
filled from a row or from the page's thing) and what it reloads. `Reads` and
`Writes` say what an endpoint's handler reads and writes. `Pages` runs any of
them: hooks, `open` (the page's
`creating` or `editing`), `box` (the mounted `FormModal`), `jobs` (handlers under way), `dialog`
(`ModalHost`'s `req`). In `PageSpec` the hooks are `Latest`'s; in `WholeSpec` they
are `Fetch`'s, with each request, answer and cleanup, and `WholeSpec` implements
`PageSpec` (`WholeImplementsPages`). `Draw` is the render: which form it leaves mounted.
`OwnDraft`, `OncePerForm`, `BusyEnds` are about forms, `EffectShown` about the
reloads that each handler lists by hand; `LeftStale` names where one is missing.
Only the failure of the hook that a page's first lines look at is ever said
(`SaysFailed`). That of another one empties its list and says nothing
(`FailsSilently`): this is `EffectShown`'s second exception, and what it still rules
out is a list that goes on showing the rows of before.
`Cancel` is a button or a click on an overlay, which closes the form or the dialog, or Escape, which
closes both.

### `Shell`: the bell and the webhook card

The bell's reads are slots of `polls`: nothing cancels one, and whichever
arrives last is shown. The card's field follows the data it read unless `dirty`.
`BellCatchesUp` and `WebhookShows` say that each comes to show what the server holds.

### `Topology`: the network map

`GridSpot` and `LayeredSpot` translate `place` for two of the four layouts;
`pos`, `saved`, `drag` and `held` are the page's positions, `localStorage`, the
drag ref and the browser's pointer capture. `AtRestSaved`, `InCanvas` and
`Spread` relate them. The order of the sites is given by the size of each
tier, which is all that the two layouts depend on.

### Definitions named `...Bug`

Next to some definitions stands a wrong variant of it, marked "A bug to find":
a plausible mistake in that code. With the variant in place of the definition,
the property it aims at must fail; it shows that the property depends on the
code it is about. `ThresholdBug` is a second variant of `Conditions`. No specification uses them.

## The runs

| run | checks | instance |
| --- | --- | --- |
| `estate` | `TypeOK`, `ReferentialIntegrity`, `NoLostTunnel`, `MirrorAgrees`, `GhostExplained`, `AuditComplete` | every operation: two requests on any sites and tunnels, an agent, resets and crashes |
| `estate_toggle` | `DisabledMeansDown`, refuted | two toggles of a tunnel |
| `estate_ghost_report` | `DeletedIsDropped`, refuted | deletions and a reporting agent |
| `estate_boot` | `SeedOnFirstBootOnly`, refuted | site deletions and restarts |
| `locks` | `TypeOK`, `NoDeadlock`, `EverythingCompletes` | three goroutines of any kind, two rows, fair |
| `locks_wedge` | `EvaluationCompletes`, refuted | a listing, a reload, an evaluation |
| `alerts` | `TypeOK`, `OnePerEvaluation`, `TroubleIsReported`, `QuietAfterRecovery` | a tunnel, a certificate, two evaluations, every second tick, fair |
| `authority` | `TypeOK`, `OneAuthority`, `CAPersists` | two requests, three authorities, two certificates |
| `authority_race` | `ReloadedCAIssues`, refuted | the same |
| `session` | `TypeOK`, `OwnerCanSignIn`, `OwnerGetsIn`, `ScreenMovesOn`, `OneSocket`, `FeedReturns`, `BellCatchesUp`, `WebhookShows`, `AtRestSaved`, `InCanvas`, `Spread` | the factor with three requests; a tab and two requests; a tab and three sockets; two alerts and two reads; three addresses; two pointers, or up to 25 nodes |
| `console` | `TypeOK`, `ImplementsLatest`, `NeverOlder`, `LoadingEnds`, `OwnDraft`, `OncePerForm`, `BusyEnds`, `EffectShown` | one hook with three requests and two writes; each page with its operator; three pages with their operator and their requests |
| `hub` | `TypeOK`, `NoSendOnClosed`, `ImplementsFanout`, `BroadcastEnds`, `ClientReleased` | two clients, a channel of two, three broadcasts, fair |

Bounds. Two requests at a time are what every race of the estate needs (all
are between two steps of one request and one of another); three sites and two
tunnels give a seeded and an issued id of each kind. The issued tunnel joins the
seeded sites, so that a reset brings its sites back without its row. One status
that the engine does not know is enough for `UpdateTo`, and the agent reports the issued tunnel
only. An id is used once, so runs
are finite without a counter. The estate run merges states that differ only in the
events of ids whose creation and deletion are both on the trail, or whose trail is
cut, or in what a request carries that no later step of it uses (`VIEW ButSettled`): no guard reads
the trail, and what `AuditComplete` asks of such an id is met for good. Three goroutines are a
circle of two and a bystander; the proof covers any number. A channel of two
and three broadcasts fill the channel, drop a snapshot and leave two in it to
get out of order; `MaxTicks` bounds the broadcasts only. Two evaluations are
what a duplicate needs. Three authorities are one per request and one after a
crash; three secrets and requests let a setup, an activation and a disabling
overlap; the tab beside them needs two of each, since the race that a third
brings is excluded anyway. Three sockets are one that counts and two that close.
Two reads of the bell are what it takes to overtake, two alerts to tell their
answers apart. Two pointers replace one another's drag; two aims tell a clamped
position from another one, and the remote node goes to one of them only. Three
runs of an effect and two writes are an answer to drop, one to show and one to
compare. Two writes per page are started on three pages that have one of each
kind of operation (`MCLong`), one on the others; the address changes in place once.
The three that also run with their requests (`WholePages`) are a detail whose address changes and
two pages with two lists; `Room` keeps one of a hook's three runs for each write
that may still reload it.

`MCSession` and `MCConsole` put parts that share no state side by side: a
behaviour moves the one that `focus` names and leaves the others as they start,
so that the states add up and do not multiply.

Fairness. `StoreLocks`: a runnable goroutine runs (weak fairness); those that
compete for the connection or the write lock get it in turn (strong):
`database/sql` queues its requests and `sync.Mutex` hands over to a starved
waiter. New work need not come. `Hub`: goroutines that can run do; a write ends
by its deadline (`writeWait`), one way or the other; `Remove` is strongly fair
because a writer that waits for the lock keeps later broadcasts out. Nobody
has to connect, leave or tick. `Alerts`: the ticker ticks and evaluations run,
which is what `locks` shows as long as the server is not wedged; nobody has to
resolve anything, and troubles come and go as they like. `Fetch` and `Pages`:
React runs the effects it owes, and the browser ends every request, with the
rows or with an error. `Session`: what is sent is answered or lost; timers fire
and a socket that is told to close does; one that is tried again and again opens
some time (strong), unless the cookie is gone. `Shell`: the interval fires, and
not every read fails (strong). Nobody has to type, press or navigate:
`OwnerGetsIn` assumes an owner who does, and that F5, the link under the form
and lost answers end. In the two MC modules each condition names its
`focus`, because a part that stands still owes nothing.

## Findings

- `estate_ghost_report`: `ApplyReport` registers a tunnel the engine does not
  track. An agent fetches its tunnels once, so its next report after a deletion
  brings the tunnel back into every snapshot until the next reload.
- `estate_boot`: `Seed` decides by the number of sites. After the deletion of
  every site a restart seeds again, collides with the alerts and audit events
  of the first seed, and `main` exits.
- `estate_toggle`: a toggle reads the row, writes it and mirrors it in three steps that
  nothing serialises. Two of one tunnel (a double click: the button stays enabled) may
  write in one order and mirror in the other, after which the row says down
  and telemetry shows the tunnel up, or the other way round, until somebody toggles again or
  the engine reloads.
- `locks_wedge`: `tunnelsWhere` and `sessionsWhere` wait for the engine's mutex
  under an open cursor, `Reload` waits for the connection under the mutex. One
  of each, at the wrong moment, stops the server for good.
- `authority_race`: two first `POST /certificates` may store one's certificate
  with the other's key. The pair loads, but `x509.CreateCertificate` refuses a
  key that is not the parent's, so that every later request fails; a reset
  keeps the settings.

Seen while modelling, and allowed for in the properties above: a tunnel whose
`AddTunnel` comes after the reload of its site's deletion stays in telemetry
without a row (`GhostExplained` speaks of tunnels whose sites exist); a site
created between the wipe and the seed of a reset turns the seed into a no-op
(`SeedCount`); a crash between a statement and its audit event leaves the
mutation unrecorded (`cut`); a status the engine does not know is shown as it is until the next
reload and as `up` afterwards, while the row keeps it (`Agrees`); a deletion
that a reset overtakes removes the re-seeded tunnel from telemetry
(`NoLostTunnel` excepts `Reissued` ids); evaluations that overlap duplicate an
alert (`OnePerEvaluation`); an authority may sign without being listed after a
reset or a crash; an activation that overlaps a disabling leaves the second
factor on without a secret (`OwnerCanSignIn`).

In the console: a form that is open while the address changes in place saves
the old row's values to the new row (`OwnDraft` speaks of forms opened on a
settled page that the address leaves alone); a failed reload unmounts the form
and its draft with the page; a question that another replaces is never answered, and a
confirmed deletion navigates from wherever the operator is by then (`Succeed`); the policies' table goes on
with the name of a resource that was edited or deleted, and the secondary hooks
of a page are never retried (`LeftStale`, `Retry`) and fail without a word: "No
audit events." (`Monitoring.tsx:55,80`), no keys (`Vault.tsx:24`), no policies
(`Resources.tsx:40`) and the cards of `Settings.tsx:124,184` look like an empty table
(`FailsSilently`); the webhook field falls
back to the old address while the read after a save is out, stays there if that
read fails, and loses what is typed during the save (`WebhookShows`); a second
pointer replaces a drag that has moved, which is then not saved
(`AtRestSaved`); from six nodes in a tier the layered boxes overlap (`Spread`); a lost sign-out leaves a
cookie that the next F5 signs in with; an expired cookie leaves the console
signed in with requests that fail (`Expire`); "a 6-digit authenticator code is
required at every sign-in" (`Settings.tsx:155`) holds for the owner only
(`LoginServed`).

## The proofs

| theorem | module | from |
| --- | --- | --- |
| `TypeCorrect`, `EndpointsExist` | `EstateProofs` | `TypeOK /\ Shape`: a request at a tunnel's step is about a tunnel; with it the endpoints of every row are sites |
| `NothingLost` | `EstateMirrorProofs` | `OneLife`: an id is fresh until its insert, and a request that deletes it finds no row ever after, unless a reset issues it again |
| `MirrorCorrect`, `NoGhosts` | `EstateMirrorProofs` | `Joined`: of a tunnel that is not parted, one request at most is at work (`OneAtWork`), what that one is about to mirror or add is what the row holds (`Owed`), and the two properties hold of it (`Mirrored`, `Removed`). Beside it `OneLife`, `Tracked` (what is live or known to an agent was issued), `EndsUsed` |
| `NothingUnrecorded` | `EstateMirrorProofs` | `OneLife`, `AuditDue` (each event is on the trail, or `Due`: a request short of its audit step will write it), `EndsUsed` (the sites of a used tunnel were issued), `EndsNeverReturn`, `WipedClean` (a seed after a wipe gives no tunnel deleted since its sites back) |
| `LocksTyped`, `DeadlockFree` | `StoreLocksProofs` | `Holding`: what the borrower of the connection, a reader, a queued reader and the writer do next |
| `HubTyped`, `NeverPanics`, `HubImplementsFanout` | `HubProofs` | the channels hold increasing snapshots above what was seen; clients to serve are members, members are open |
| `AlertsTyped`, `BoundedDuplicates` | `AlertsProofs` | inductive as they stand: an evaluation starts to insert only when no alert is open |
| `AuthorityTyped`, `SignedByOne`, `CAStays` | `AuthorityProofs` | `Lone`: without a race, who creates the authority is alone and finds no key |
| `MfaTyped`, `NeverLockedOut` | `TabProofs` | `Verified`: without a race, who replaces or clears the secret finds the factor off |
| `FeedHasOneSocket` | `TabProofs` | `FeedInv`: what is live is the socket the effect holds; only a mounted effect holds one or has a timer set, never both |
| `FeedReconnects` | `TabProofs` | the same `FeedInv`: a mounted feed has a socket of its own or a timer set |
| `CardShowsStored` | `TabProofs` | `CardInv`: who saves has typed; while nobody types the field says what the data does, and the data, or an answer due to be shown, what is stored |
| `MapKeepsPositions`, `MapInCanvas` | `TabProofs` | `MapInv`: what is on the map and what is saved lies on the canvas (`GridInBox`, `LayeredInBox`, `ClampInBox`) |
| `MapSpread` | `TabProofs` | `SmallGrid` (25 nodes make at most five columns and lines, and no two the same place), `GridApart`, `LayeredApart` |
| `FetchTyped`, `FetchImplementsLatest`, `FetchNeverOlder` | `ConsoleProofs` | `LastAlive` (the run that is alive is the hook's last), `OneMessage` (one message per run), `LiveCounts` (a live message asks what `asked` says, and its rows lie between the request and the server), `InOrder` (what a page shows is no newer than the newest request or the server) |
| `WholeImplementsPages`, `PagesTyped`, `PagesUseLatest` | `ConsoleProofs` | `Fetch`'s invariant under every step of a page (`WholeInv`); with it an answer that counts is `Show` or `Fail` and one that does not is no step of the page (`HearsSettles`) |
| `PagesNeverOlder` | `ConsoleProofs` | `HooksOK` (types, `InOrder`, and a hook that has asked is loading), `PageTyped` |
| `FetchLoadingAwaits` | `ConsoleProofs` | `LoadingAwaits` itself, beside the invariant above: a hook that loads is due to ask, or its live run's message is on its way |
| `PagesSaveOwnDraft`, `PagesSendOnce`, `PagesBusyAwaits` | `ConsoleProofs` | `PageInv`: `Drawn` (a mounted form is open on a page with content), `SameThing` (a calm form is about what filled it, and so are the data and the request that is out), `SentOnce` (at most one of its writes is under way, and then it is busy and open as what it sent), `Asking` |

The specifications these speak of: `Spec` in `Estate`, `Hub` and the others of the
server; `Safety` in `Fetch`; `SessionSpec`, the factor, the tab and the feed
together; `CardSpec`; `MapSpec`, for any number of sites of each kind; `WholeSpec`, any page with its operator, its hooks
and their requests; and `PageSpec`, the same with `Latest`'s hooks, which `WholeSpec`
implements, so that what is proved of the one holds of the other. The last five have no fairness. What they assume of the constants are
distinctions the runs' model values have (`None` is no row, slot or open form,
`NoNode` no drag), that aims are whole points (`AimsAssumption`) and that a page has
a first hook (`HooksAssumption`). Nothing bounds the requests, sockets,
pointers, hooks or writes: `Reopen`, `GoTo` and a lost answer may come at any moment
of any of them. The bounds `Long` and `Homes` are any sets: all the pages and all the
ids among others.

`OwnDraft` is not inductive: it says nothing of a form before it is submitted.
`SameThing` does, and it needs the request on its way as well, because an
answer that is about another id would change what the form saves to. For a
page's own thing it also needs that such a form is on a page that waits for
its first hook, which `PageFacts` shows for each of the seventeen. `OncePerForm` needs that the
form stays open as what it sent (`SentOnce`), or a success would not close it.
`Redrawn` is the lemma about a render, and `OneWrite` the one about a step of a
handler; nearly every action is one of the two. `Spread` needs no induction over steps;
its lemmas are about division. The map's square root exists by well-foundedness of the naturals
(`RootExists`).

`AuditComplete` holds however many requests overlap on a site or a tunnel: `Due` says
that one of them will still write the event. The theorems about the estate assume nothing of
`Ops`, `UpdateTo` or the clients: where the code breaks the
mirror or the trail, `parted` and `cut` say of which id and until when. `GhostExplained` would be false of
parted tunnels:
a creation still on its way to `AddTunnel` while another request deletes the row
adds a tunnel that is gone.

`ImplementsLatest` is proved step by step: `Serve` and the delivery of a dead
run's answer stutter, a live one's is `Show` or `Fail`, and `LiveCounts` puts its
revision where `Show` wants it; `InOrder` gives `NeverOlder`.
`MirrorAgrees` is not inductive because it says nothing of a creation that has
not reached the engine or a toggle that has not written; `Owed` does.
`NoDeadlock` follows from `Holding` alone: nobody waits for anybody but the
borrower, the writer and the readers; readers wait for nobody; and the
borrower and the writer wait for one another only as a listing and a reload.

Every invariant and action property that a passing run checks is also proved.
Model-checked only is all liveness
(`EverythingCompletes`, `BroadcastEnds`, `ClientReleased`,
`TroubleIsReported`, `QuietAfterRecovery`, `OwnerGetsIn`, `ScreenMovesOn`,
`FeedReturns`, `BellCatchesUp`, `LoadingEnds`, `BusyEnds`, `EffectShown`), since fairness and `ENABLED` are
out of the prover's reach. For three of them the part that is safety is proved: nothing
is ever left waiting with nothing to wait for. That is `FeedReconnects` for `FeedReturns`,
`FetchLoadingAwaits` for `LoadingEnds` and `PagesBusyAwaits` for `BusyEnds`; what fairness
adds is that the timer, the message or the write comes.

## Not modelled yet, and the plan

In this order:

1. `RemoteAccess`: users, devices, sessions and the map of live sessions,
   with suspension and enrolment. Abstract specification: the map is what the
   table was at some time since the last reload.
2. `Accounts`: operators' rows beside `Session`'s sign-in, tokens with a remaining
   lifetime, the first operators. An operator suspended for good has no valid token in the
   end; the owner's passcode always signs in.
3. Restore, cloud connectors and gateways as further operations of `Estate`.
4. Telemetry and the agent over small integers: clamped walks, capped series,
   rates from counters that restart.

Left out of the console: rendering, styles, formats and charts; the ring and the
radial layout (sines), the map's edges and its export; the values of a form's
fields (which row they come from is modelled, what they say is not), two forms
of a page open at once, the command palette's own list; the secret that the
second factor's card or an enrolment shows; the theme and a
table's columns. A second tab shares only the cookie, which `Expire` and
`LoginLost` let change under this one.

Left out elsewhere: HTTP routing and static files (plain functions), key formats, the certificate and password
cryptography (library code), seed contents.

Also left out of `Estate`: an SQL error other than a violated key, and the
audit event whose insertion fails; both are the loss of a step that a crash
would also lose, except that the process goes on.
