# SiteFoundry in TLA+

SiteFoundry is a panel that builds Astro sites from templates, installs them on
the operator's own servers over SSH, keeps them fresh and takes their leads and
visits. This directory holds TLA+ models of the parts of it where order,
overlap and failure matter, TLC configurations that check them on small
instances, and proofs, checked by TLAPS, of what holds for every instance.
Paths below are relative to the repository's root; `api/` stands for
`apps/api/src/`.

1. [The system](#1-the-system)
2. [Modules](#2-modules)
3. [Runs](#3-runs)
4. [Where the code and its documents disagree](#4-where-the-code-and-its-documents-disagree)
5. [Fairness](#5-fairness)
6. [Proofs](#6-proofs)
7. [What is not modelled](#7-what-is-not-modelled)
8. [Plan](#8-plan)

## 1. The system

One NestJS process (the API) serves the dashboard, the deployed sites and two
daily jobs. With `JOBS_MODE=bullmq` a second process (the worker) executes
install jobs taken from Redis; with `JOBS_MODE=inline`, which the production
script sets, the API executes them itself. Both use one PostgreSQL database,
whose statements run at READ COMMITTED. Node runs a piece of code to its next
`await` without interruption, so **an action of these models is the code
between two awaits**, and everything else may happen in between.

| component | state | operations | talks to | what makes it correct |
|---|---|---|---|---|
| Install pipeline `api/installer/installer.service.ts` | `sites.install_status`, `status`, `last_build_id`; rows of `builds`; the set `running` in memory; the document root on the server | install from a step, files-only rebuild, rollback | server over SSH, Builds, ProgressBus | one pipeline per site; the column says what runs; only successful builds are recorded and served; it ends |
| Job dispatch `api/jobs/job-runner.ts`, `worker.ts` | the queue | enqueue, take, redeliver after a crash | pipeline | a job runs in one process, a crashed one again |
| Nightly rebuild `api/installer/auto-rebuild.service.ts` | the list of live sites | sweep | pipeline | skips sites that are being built |
| Install progress `api/jobs/progress-bus.ts`, `installer/install.controller.ts` | listeners in memory, open responses | publish, subscribe, replay | pipeline, dashboard | whoever waits is told the truth, in the end |
| Client editing `api/content` | `sites.params`, `content_edit_key` | save; generate, ensure, disable the key | pipeline | what was promised is published; a shared key opens; only allowed paths are written |
| Sites `api/sites` | rows of `sites` | create, update, validate (`runPreflight`), clone, archive | clients, templates, pipeline | what is installed has passed the gate; domains are unique |
| TLS certificates `api/ssl`, pipeline | `ssl_status`, `ssl_expires_at`; the certificate | issue, renew, hook callback, sweep, alerts | server, certbot | an expiry is never overstated, never silent |
| Product discovery `api/discovery` | `search_cache` | search, public search, featured, categories | SerpApi | the paid searches stay under the cap; repeats are free |
| Team and sign-in `api/settings/users.controller.ts`, `api/auth` | rows of `users`; tokens | create, change role, remove; login, refresh | | an administrator remains; power ends with the token |
| Servers `api/servers` | status, `base_provisioned`, host key, credential | create, test, re-pin, rotate, provision, remove | server over SSH | ready means provisioned; only a vetted key is pinned |
| Leads `api/leads` | rows of `leads`; a limiter in memory | capture, export, webhook with a retry | customer's webhook | the limit holds; a delivery ends and is reported as it was |
| Visits `api/analytics`, `templates/stock/public/sf.js` | monthly partitions of `visits`; a limiter in memory; the browser's storage | track, report, make partitions | sites | each visit is credited to its campaign; there is a partition to write to |
| Self-update `api/settings/update.service.ts`, `deploy/update.sh` | the flag `updating`; checkout, schema, build | check, update, the script by hand, restart | git, systemd | code never runs ahead of its schema; a re-run repairs; the flag is given back |
| Clients, templates `api/clients`, `api/templates` | rows | create, remove, deprecate | sites | a site keeps its client; tenants stay apart |
| Dashboard `apps/dashboard/src/pages` | React state of a page, requests on their way | wizard, site record, lists, settings | every controller | what a button stands for is still true when it is pressed |
| Stock template `templates/stock/src/lib` | the catalog staged for a build, curated stores | category, product and store pages | discovery, builds | every page is reached and lists what it should |
| Settings, vault, health | rows | upserts, encryption, probes | | |

The hard parts are the same everywhere: a row is read, a server or a payment
service is asked for seconds or minutes, and the row is written from what was
read; requests, cron jobs, callbacks and crashes come in between. What keeps
activations apart is a set in the memory of one process, and only for installs
and rebuilds. `PROJECT.json` lists each such place under `hazards`.

## 2. Modules

| module | models | extends |
|---|---|---|
| `Installer` | pipeline, job dispatch, nightly sweep, rollback, crashes | |
| `InstallLifecycle` | what the dashboard is promised of `install_status`: the abstract specification that `Installer` implements | |
| `InstallerInvariant`, `InstallerProofs` | the inductive invariant and the theorems | `Installer` |
| `InstallEvents` | ProgressBus and SSE streams around the pipeline | |
| `SslLifecycle` | the certificate columns and who writes them | |
| `MCSite` | composes the two for TLC | `SslLifecycle` |
| `SiteProofs` | the theorems about the two | `MCSite` |
| `ContentEdits` | `saveEdits`, updates and rollbacks around the pipeline | |
| `Preflight` | `runPreflight`, and the reference `Compliant` | |
| `PublishGate` | documents on their way through gate, build, deploy, verification | `Preflight` |
| `EditorKeys` | the editing key; what a save may write | |
| `Wizard` | the site wizard of the dashboard, with its requests | |
| `RecordPage` | the site record page, with its requests | |
| `StoreCatalog` | what the pages of a built site list | |
| `MCDocuments`, `MCContent` | the documents enumerated; composes the seven | `ContentEdits`, `Preflight` |
| `ContentProofs` | the theorems about the seven | `MCContent` |
| `ProductSearch` | paid product searches and their cache | |
| `RateLimiter`, `LeadDelivery` | the sliding window; leads, their limiter and webhook | |
| `VisitTracking` | beacon, limiter, partitions, report | |
| `MCPublic` | composes the three public endpoints | `ProductSearch` |
| `PublicProofs` | the theorems about the three | `MCPublic` |
| `TeamAccess`, `TeamAccessProofs` | members, roles, tokens | |
| `ServerRegistry`, `ServerRegistryProofs` | rows of `servers` and the long operations on them | `ServerState` |
| `SiteRecords`, `SiteRecordsProofs` | clients, templates and sites of several tenants | `RecordState` |
| `PanelUpdate`, `PanelUpdateProofs` | the panel's update of itself | `UpdateState` |
| `ServerState`, `RecordState`, `UpdateState` | the state of the three above and what must be true of it | |
| `MCPanel` | composes the four | `TeamAccess` and the three |

The `MC` modules start in one of the parts they hold and stay in it: the parts
share no state, so the state spaces add up, and one run asks one family of
questions. The modules of proofs extend them, so that a theorem speaks of the
very definition its run checks, and name a part by its instance: `Gate!Spec`,
`Leads!Spec`.

`InstallEvents` and `ContentEdits` see the pipeline from outside, as an
environment that takes and releases the lock, reads the row and ends; `Installer`
is the model of what happens inside. A definition such as `UpdateUnchecked` beside
`Update` is a mistake one could make in it; no specification uses it.
`PROJECT.json` pairs each with the property that rules it out, and so shows that
the property depends on that line of the code.

### Installer

A **task** is one asynchronous activation: an install job (`run`), a rebuild
called by a content save (`edit`) or by the sweep, or a rollback. Its `pc` is the
await it stands at, its `step` the entry of `INSTALL_STEPS` it is on. `Holds(t)`
says that it is between `running.add` and `running.delete`.

| code | actions |
|---|---|
| `InstallController.install`, `rebuild`, `JobRunner.enqueueInstall` | `RequestInline`, `RequestQueued`, `TakeJob` |
| `execute` | `MarkQueued`, `Connect`, `RestoreLastBuild`, `EnterStep`, `RunStep`, `GoLive`, `Fail`, `Release` |
| `stepDeployFiles`, `deployArtifact` | `CreateBuild`, `BuildSite`, `SwapOut`, `SwapIn` |
| `rebuildFiles`, `rollback` | `PublishEdits`, `SweepRebuild`, `Rollback`, `RecordBuild` |
| `AutoRebuildService.sweep` | `SweepStart`, `SweepSkip`, `SweepRebuild` |
| a process dies | `Crash` |

Each step but `deploying_files` is one action that succeeds or fails. The
document root holds nothing (`NoDir`), an empty directory or a build; the two
`mv` commands of a deploy are two actions. Abstracted: what a build contains,
whether the catalog changed, the order of the queue. A remote chain whose answer
the panel no longer awaits has finished or stopped at that moment.

### InstallEvents

A stream (`viewer`) is `checking` while its site is looked up, `asking` while its
job is enqueued, `reading` while its row is read, `open`, or `ending` in the
200 ms after a terminal event. A client may go in each of them; the handler goes
on, and if it hears of the close too late (`install.controller.ts:55`, `73`) the
listener is `leaked` and stays. `Told` is `publish`: it reaches
the listeners of its own process. A rollback ends with a word on the channel, or
with none if no session could be opened. `mode` is `JOBS_MODE`, chosen once.
`vanished` and `missed` are history: the last install ended without an outcome,
as a resumed install without a build does; an event came between the read of the
row and the subscription.

### ContentEdits

A save is the read of the row, the write of the whole of `params`, and the call
of `rebuildFiles`; its value is the number of the edit, so newer values are
greater. The operator's update of a site writes `params` in the same way and
republishes nothing (`sites.service.ts:152`). `job` is a rebuild or an install: it
reads `params` at its start, builds what it read (`artifacts`) and serves it; an
install resumed behind `deploying_files` reads and serves nothing new. `Rollback`
serves any earlier build, whoever has the lock. `promised`, `lost`, `version` and
`release` are history.

### SslLifecycle

Dates are days. `cert` is the certificate on the server; `posts` are callbacks
of certbot's hook on their way. `Certbot` lets the command succeed, keep the
certificate, be refused, or outlive the panel's patience. Alerts are computed for
sites that are published or paused (`Watched`): one that a failed install left at
`building`, or an archived one, has none, whatever its certificate does.

### ProductSearch

A request stands before its cache lookup (`lookup`), its usage check (`check`),
the cache lookup of `search` (`search`), the paid call (`fetch`) or the insert of
the result (`store`). `spent` counts what visitors cost in the month, `lost` those
searches that leave no row to be counted by: failed for a credit, or not stored
before a crash. Months have any number of days. A missing key or a query that is
too short ends a request at once and changes nothing; the rate limiter only
removes requests.

### TeamAccess

A request is at its count of administrators, at its write, or at the signing of a
pair of tokens. The clock's unit is long against a request, so it does not tick
while a pair is signed. `lastAdmin` is history.

### ServerRegistry

An operation carries the row as it read it. `vetted` is history: the keys under
which a machine accepted a credential. Two provisioning commands stand for the
ten of `provision-steps.ts`. Machines may be reinstalled (a new key) or have
their login changed.

### Preflight and PublishGate

`RunPreflight` is `preflight.ts` check by check, over documents whose texts are
only short, good or too long and whose links are https, http or missing, to a
host that is the destination, allowed or neither. `Compliant` is the reference:
what the checks are for, said once and without their order. `GateIsExact`
compares the two on every document `MCDocuments` makes by damaging a good one in
up to two places. The gate passes over a block of the template's schema that is
no object or lists nothing as required (`preflight.ts:144`), its lengths too:
`Walked` are the others, and `Compliant` asks nothing of the rest. The price and
title that the stock schema requires of a product are read by no check.
`PublishGate` moves documents: the row the operator edits, the copy an install
took at its start, the builds, and what is served. A build and a deployed page
are the document they were made of; `RenderedPages` lets a build miss any one
thing a document asks for, which `verifyDist` or the final verification must
then notice.

### EditorKeys

The operator's requests (`panel`) generate, ensure and disable the key; a
client's save is checked against the key and writes later. `Sanitized` (the loop
over the paths of a save, a recursive function) and
`SetPath` are `sanitizeEdits` and `setPath`, over one editable text, one
protected one and a list of claims. `clean` and `stale` are history: nobody else
touched the key meanwhile; the key was replaced after the save was let in.

### Wizard and RecordPage

Two pages of the dashboard with the requests they have on their way. A request
is sent, read by the panel and answered in three steps, in any order among
requests; a page's state changes when an answer arrives or the operator acts. In
`Wizard` a document is one required text, the outbound offers and one tag, and
`Valid` stands for the gate (`Preflight` has all of it). In `RecordPage` the
record is the number of changes made to the campaign links, and what the page has
under way are tasks: an action and the reload it ends with, or a reload alone.
Most buttons wait for `busy`; the cross of a campaign link and the auto-renew
checkbox do not (`SiteRecordPage.tsx:258`, `383`), and the first task to end
clears `busy` for all, so actions overlap. A reload carries the filter of the
render in which its button was pressed, a rebuild gives `busy` back before its
reload, and other pages act as well (`Elsewhere`). `handmade`, `edited`, `wrote`,
`muddled`, `alone` and `linkHolds` are history.

### StoreCatalog

Operators for `featured` and `categories`, for `catalog.js` and `retailers.js`,
over a search cache that grows, expires and is searched anew and over stores
whose category a site renames. Every loop that passes over a list and keeps some
of it is `Picked`. Texts have a wording and a slug, so that two of them may
collide.

### RateLimiter, LeadDelivery, VisitTracking

`RateLimiter` is the sliding window that three controllers share in form, with
its map that forgets everybody when it is full; a key's array of times is the set
of them, numbered. `LeadDelivery` adds the capture,
the webhook, its one retry, and crashes; a request that was not answered may
have been received. `VisitTracking` has the browser's storage (one session for
all tabs, one campaign for each), the three things that keep an event out of the
rows (the session's limiter, with its map that any crowd clears; an archived
site; in production an `Origin` that is no longer one of the site's), the months
with a partition, and the report: any window of time, and of its campaigns the
`TopLimit` with the most visits, ties broken in every way. The address of an ad
works as long as it is shown, its row in `campaign_links` or not, so those rows
are not part of it. `due`, `sent`, `landed`, `booted` and `lost` are history.

### SiteRecords and PanelUpdate

In `SiteRecords` a request checks in one statement and writes in another, and
sees what others have committed in between; `Visible` is row-level security, and
foreign and unique keys hold across tenants. In `PanelUpdate` a job is one run of
`deploy/update.sh`: for a `POST /settings/update`, which holds the flag and first
asks git for the head, in a shell, or `stray`, when the request has timed out and
the command bash was running is still at work. A script that is killed goes no
further than that command. A restart is left to `nohup sh` in the unit of the API
or in the shell, and ends what runs in the unit. Commits are numbers, and `schema`,
`built` and `running` are the commit that was last migrated, built and started.
The check behind the page's button changes nothing, and `update` does not ask for
it; `failed`, `overlapped` and `gitFailed` are history.

## 3. Runs

Every cfg names its bounds. Slots (`Task`, `Viewer`, `Editor`, `Act`, `Request`,
`Op`, `Tab`, `Panel`, `Script`) are the activations alive at one time; slots are
reused, so the number of activations in a behaviour is not bounded by them. Two
suffice for each race described here, since each is between a reader that writes
later and one other writer; the proofs of section 6 hold for any number.

| run | bounds | shows |
|---|---|---|
| `inline` | 1 site, 2 tasks, 3 builds, no crash, fair; starts no later than the build step | one process never works on a site twice at a time; builds served are successful ones; no status without a run behind it; every lock is released |
| `bullmq` | 1 site, 2 tasks, 3 builds, 1 crash; two processes; starts before and behind the build step | locks are exact, the column follows the run, live sites have a build and are published, and the pipeline implements `InstallLifecycle` |
| `site` | certificates: 2 activations, 3 days, certificates of 2 days, any status of the site; events: 2 streams, 2 jobs, both job modes; fair | dates are never overstated, alerts on published sites never too mild; streams wait only for what is under way, a requester who is not cut off is told how the install ended, and the row tells the truth to whoever polls it |
| `content` | saves: 2 saves or updates, 2 jobs, 2 edits, any rollback; gate: up to 2 faults in a document, 3 documents deployed, 2 builds; keys: 2 operators, a client, 3 keys; wizard: 2 templates, 2 stores, 1 change after the first filling in, 1 failure; record page: 2 tasks, 1 campaign, 1 change of the links, 3 keys, 1 failure; catalog: 2 searches of up to 2 products, 3 stores | promised edits are served, on their way, or lost in a named way, and but for rollbacks the site never goes back; the gate is exact and a full install serves what it vetted; the key alone opens the editor; an install is asked for only for a row that passes; the record page shows what was chosen and done; the catalog lists everything |
| `public` | search: cap 1, 2 requests, 2 queries, 2 days, 1 loss; leads: 2 visitors, 2 leads a window, 2 leads; beacon: 2 tabs, 1 campaign and none, 3 months, 3 events, 2 of a session in one unit of time, reports of 1 campaign; fair deliveries | spending is bounded, repeats are free; the limiter stops what it should; deliveries end as reported; reports credit what was recorded; partitions are ahead |
| `panel` | team: 2 users, 2 requests, 2 units of time; servers: 1 server, 2 operations, 2 keys, 2 credentials, 1 change, 1 crash; records: 2 tenants of 1 client and 1 template each, 2 requests, 2 domains, 2 sites; update: 2 scripts, 2 commits, 2 failures | an administrator's power expires; ready is provisioned, pinned is vetted; sites keep client, domain and tenant; code never runs ahead of its schema, what was pulled runs in the end, and the update's flag is given back |

Properties with several parts (`CatalogIsSound`, `EditorIsKeyed`, `LimitIsExact`,
`PageIsCurrent`, `SitesAreSound`, `StatusIsTrue`, `StreamsAreLive`,
`VisitsAreTold`) are conjunctions of definitions that say
each part, and its exceptions, on its own. `GateIsExact` and `CatalogIsSound`
are evaluated in the behaviours of their subject only: elsewhere their variables
do not change.

The counters with a bound are `MaxBuilds`, `MaxCrashes`, `MaxEdits`, `MaxJobs`,
`MaxDay`, `MaxMonth`, `MaxLost`, `MaxTime`, `MaxClears`, `MaxLeads`, `MaxTests`,
`MaxEvents`, `MaxChanges`, `MaxMinted`, `MaxSaved`, `MaxClaim`, `FormEdits`,
`MaxFailures`, `MaxFound`, `MaxRows`, `MaxSites` and `MaxCommits`. Builds,
edits, keys, commits and days are only compared, so two or three of them show
every order. `inline` lets no process crash and no install resume behind the
build step: both leave a site in a status nobody works on (the second is the run
`stuck`). Symmetry is used for slots and keys that differ in their name only
(`Task` in `bullmq` and `content`, `Request`, `Op` and `Key` in `panel`), in
runs without liveness. A campaign and no campaign are the two that a report of
one campaign has to choose from, and the two filters of the record page. `panel`
does not check for deadlock: without an administrator, and with the clock at its
bound, nothing is left to do.

## 4. Where the code and its documents disagree

Each of six runs checks one sentence of a comment or message, and TLC finds the
behaviour that breaks it. The details, with the sentence, are in `PROJECT.json`.

| run | what happens |
|---|---|
| `stuck` | an install resumed behind the build step of a site without a build stays `queued` |
| `lost_edit` | two overlapping saves lose an edit |
| `gate` | a document that does not pass the gate is served: the install was resumed, or a republication took the row as it was by then |
| `lastadmin` | two administrators remove each other |
| `tags` | a tracking tag cleared in the wizard stays in the row |
| `per_ip` | behind the panel's own proxy all visitors share one limit for leads |

The theorem `LastAdminProtected` shows that one request at a time keeps the
administrator; `LimitIsExact`, in `public`, that the limiter does what it should
where visitors have keys of their own.

Other gaps shaped the statements of properties that hold, and no run is spent on
them:

- Searches in flight together pass the hard cap: `SpendingBounded` states by how
  much. To see it, check `HardCap` with `MCPublic.cfg`.
- `sf.js` appends the campaign to outbound links from the address of the page,
  which loses it on the second page of a visit (`sf.js:73`). To see it, check
  `OutboundCarriesSource` with `MCPublic.cfg`.
- `JOBS_MODE=bullmq`: the sweep asks the API process's `running` set and cannot
  see the worker's installs (`api/installer/auto-rebuild.service.ts:68`), so
  `OnePipelinePerSite` is stated for an inline panel and `OneHolderPerProcess`
  for both. To see it, check `OnePipelinePerSite` with `MCInstaller_bullmq.cfg`.
- `JOBS_MODE=bullmq`: no bridge carries the worker's events to the API process
  (`api/jobs/progress-bus.ts:14` describes one), so `RequesterIsTold` and
  `StreamsAreLive` are stated for an inline panel.
- A deploy moves the document root away and the release in with two commands
  (`installer.service.ts:294`); between them a live site serves nothing.
- A viewer of `install-status` reads the row before it subscribes
  (`install.controller.ts:65`) and may miss the end of the install
  (`WatcherNeverIdle` excepts it); if its client goes while the row is read, the
  handler subscribes after the close, and the listener stays (line 72). A request
  leaks its listener in the same way (line 55), with BullMQ also while its job is
  being enqueued.
- A refused second request, or the end of a rollback, publishes `fail` or `done`
  on the channel of the install that goes on and ends its streams: the `Cut` of
  `RequesterIsTold`.
- A save during a rebuild is answered "publishing" although its republication is
  refused (`content.service.ts:128`); a rollback takes away what was promised, and
  the next rebuild brings it back (`installer.service.ts:468`). Both are in the
  `lost` of `PromiseAccounted`.
- An operator's update of a live site is not republished
  (`sites.service.ts:152`): it is served by the next rebuild.
- A template that lists nothing as required of a block has the block's lengths
  unchecked (`preflight.ts:144`).
- Two operators who open the editor at the same moment get two keys, of which
  one is dead (`content.service.ts:81`).
- A failing connection test writes back the host key it read before
  (`servers.service.ts:215`), null for instance, over one pinned meanwhile.
- A certificate whose date was never read (`installer.service.ts:345-362`) has
  no alert, and neither has a site that a failed install left at `building`
  (`ssl-monitor.service.ts:66`), although it keeps its certificate: `NeverTooMild`
  speaks of known dates and published sites.
- The check for updates hands git the branch's name with its line feed
  (`update.service.ts:65`, `71`); git refuses it, so the page always says "up to
  date" and its button "Update now" (`SettingsPage.tsx:476`) is always disabled.
  An update is asked for by the API alone, or run by hand.
- If git fails before the `try`, the flag `updating` stays up until a restart
  (`update.service.ts:98`); a command that outlives the script's 600 s, and a
  script run by hand, may overlap the next update; after a step that failed the
  checkout is ahead of the code until the script is run again. `FlagIsFreed`,
  `SchemaIsReady` and `PulledRuns` say that nothing else goes wrong.
- Overlapping reloads of the record page may arrive out of order and leave the
  funnel of another campaign under the chosen name (`SiteRecordPage.tsx:81`), and
  a reload after an action is that of the filter when the button was pressed. A
  cross pressed while a key is rotated clears `busy`, and the key may be rotated
  twice at a time; the answers decide in the order they come which link is shown.
- The report lists 20 campaigns (`analytics.service.ts:99`); `CampaignsAreCredited`
  says what may be left out.
- A create that was carried out but not answered leaves the wizard without the
  site's id (`NewSitePage.tsx:256`); every further save is refused as a duplicate.
- Two queries, or two renamed categories of stores, with one slug share a page,
  and the second one's is never reached (`catalog.js:88`, `retailers.js:538`).
- After two months without a restart there is no partition for a visit
  (`analytics.service.ts:27`).

## 5. Fairness

Safety runs use `Spec`, without fairness. The liveness runs state weak fairness
of the steps of an activation that has started, never of requests, edits,
crashes or viewers that leave: `FairSpec` of `Installer` in `inline`, `Fairness`
of `InstallEvents` in `site`, of the deliveries in `public`. The code justifies
it as follows: SSH connections and commands, page fetches, webhooks and SerpApi
calls carry timeouts; the database is assumed to answer, and its errors in the
middle of bookkeeping are not modelled; the worker takes jobs as long as it
lives; the retry of a webhook is a timer of the process. `astro build` has
**no** timeout (`api/builds/build.service.ts:231`): that builds end is an
assumption, and a build that hangs locks its site.

## 6. Proofs

`tlapm` checks every leaf. Every safety and action property that a passing run
checks is also a theorem, for any number of slots and any bounds. Proofs use only
the named `ASSUME`s, which TLC evaluates in the runs: bounds and limits are natural
numbers, slots of searches and users are finite sets, and

- `GateAssumption`, `DocumentAssumption`: the limit of a text is a number, no host
  is the text "null", and the documents that a panel starts with or an operator
  writes have the shape the template's schema gives them (`Document`).
- `FormAssumption`: there is a template and a store to choose from.
- `CatalogAssumption`: a text has a slug and a wording, a store a category.
- `LimiterAssumption`: a limiter's window is not empty.

The inductive invariants, by module:

- **Installer.** `TypeOK` and the lock property alone are not inductive: that
  `running.delete` removes one's own entry and no other's rests on what each
  program point knows. `IInv` (module `InstallerInvariant`) adds which operation
  can be where (`ShapeInv`), what install_status a run finds (`StatusInv`), and
  that whoever is past its build carries a successful build of its site, the row
  under construction belonging to one activation (`BuildInv`). From `Invariance`
  follow `TypeCorrect`, `LockCorrect`, `InlineExclusion` (for an inline panel),
  `StatusCorrect`, `BuildsCorrect`, `LiveSitesAreBuilt`, `PublishedCorrect`,
  and, step by step, `LifecycleRefinement`: the pipeline implements
  `InstallLifecycle`. `InstallsSettle` assumes `NothingIsLost`, the opposite of
  what the run `stuck` shows: installs start at the deploy step or before it, an
  inline panel does not crash, and a worker crashes once at most. `QuietInv`
  adds to `QuietIsSettled` that a run which has only its lock to give up has
  written its outcome, and that a waiting one is in the queue.
- **InstallEvents.** `RowTells`: what the polled row says of an install is
  inductive as it stands. `StreamsAreServed`: `StreamsInv` adds that an open
  stream listens and has its client, that a stream which reads its row does not
  listen yet and, if it saw an install under way, that install is or its end was
  missed; the lemmas say what one event, one request and one client that goes do
  to each stream.
- **SslLifecycle.** `DateIsSafe`: new certificates only get later dates, so
  whatever was read or posted before is not later than the one there now.
  `AlertIsSafe` adds that `classifySsl` is monotone in the date, and that a
  published site is watched.
- **ContentEdits.** `PromisesAreKept` and `NeverGoesBack`. `PromiseAccounted` is
  not inductive: a deployment may take away what is served. `PromiseInv` adds
  that a promise is about the current value, so whoever reads it reads the
  promised one; `LockInv`, that one job at most is under way; `VersionInv`, that
  it read no earlier than what is served or was ever built, so not even a
  rollback to its own build lets it go back.
- **Preflight, PublishGate.** `GateDecides` is about any document: the errors
  `runPreflight` raises are empty exactly when it is compliant. `InstallIsTrue`
  and `LiveIsTrue` rest on `GateInv`: an install past its gate carries a
  document that passed, its own build is of that document, and what it has seen
  at the site is what it deployed.
- **EditorKeys.** `EditorIsLocked`. `KeyInv` adds to the property what each
  operator holds: a clean key in hand is the current one, and whoever is about
  to mint leaves no other's clean (`HeldInv`). That protected texts stay as they
  are is a fact about the loop of `sanitizeEdits`.
- **RecordPage.** `PageIsTrue`, `LinkOpens`. `RecordInv`: on a page that is not
  muddled one reload at most is on its way, alone and for the filter chosen
  (`ReloadInv`); a reload alone that was read, or else what is shown, has the
  page's own changes, but for one whose answer will bring another reload
  (`ChangeInv`); while the link holds one answer at most is due, and it or the
  page has the key (`LinkInv`).
- **Wizard.** `ImportsPass`, `InstallsAreVetted`. `WizardInv`: unless the
  operator chose stores by hand, an imported offer's store is allowed in the
  form, in the draft being saved, in the row and in each read of it on its way
  (`ImportInv`); "passed" on the page means that the row passes, and no save is
  under way (`VettedInv`).
- **StoreCatalog.** `CatalogHolds`. The invariant only says what rows and stores
  are; the proof is about the operators: what is picked of a list stands there
  at the places to be picked and in their order (`PickedIs`), what is joined has
  what each part has (`JoinedIs`), and the first of its kind stays (`FirstOf`).
- **ProductSearch.** `SpendingIsBounded`: the rows of the month, what is paid
  and not stored, and what is lost add up to at least what was spent; a request
  past the check saw fewer rows than the cap. The overshoot is the number of
  slots. `RepeatsCostNothing`: for each query the fresh rows and the requests
  that are paying for one are together no more than the slots.
- **RateLimiter, LeadDelivery.** `WindowIsBounded`: the requests let through
  since the map was last cleared are the recent hits of their keys, each request
  one hit (`LimiterInv`). `LimiterIsExact` assumes that visitors have keys of
  their own, as the run `per_ip` shows it must.
- **VisitTracking.** `VisitsTold`: what a tab has stored is the campaign it
  arrived by, so a row's campaign is the one due, and a report that groups and
  counts rows groups and counts what is due; the session in the browser's
  storage is that of the last event sent (`VisitsInv`). `PartitionsLast`: there
  are partitions for the month of the last start and the next (`PartInv`).
- **TeamAccess.** `AdminPowerDoesExpire`: a token's role was its user's in the
  unit of time it was signed in. `LastAdminProtected` assumes one request slot,
  and the run `lastadmin` shows that it needs to.
- **ServerRegistry.** `StatusCorrect` and `PinCorrect`: what an operation
  carries of its server stays true, since a server is never provisioned less and
  keys are never vetted less than before (`OpKept`), so an operation that writes
  late writes nothing false. What a test will write is never
  `provisioning_base`, and only the provisioning itself leaves that status.
- **SiteRecords.** `SitesAreKept`: foreign and unique keys are checked in the
  statement that writes, whatever a request saw before; and the rows it saw
  never change their tenant (`OpsStayInTenant`).
- **PanelUpdate.** `SchemaComesFirst`, `ReRunRepairs`, `FlagGivenBack`. The flag
  is up for one request at most (`FlagInv`), so scripts that did not overlap
  build the commit they just migrated to (`SchemaInv`); unless a step failed
  since the last pull, what was pulled is being built by a script that was not
  killed, or is built and will run or runs (`BuildInv`).

Loops of the code are recursive functions over the numbers of their rounds. What
such a loop computes is proved for every input by an induction in first-order
form: a nonempty set of numbers has a least element (`LeastNumber`, from the
well-foundedness of the numbers), so a set that has 0 and the successor of each of
its members has all (`EveryNumber`), so the function defined round by round exists
(`FoldExists`) and keeps what each round keeps (`FoldStays`).

Only model-checked: the liveness properties (`LockIsReleased`, `RequesterIsTold`,
`DeliveriesSettle`), which are outside the proof system.

## 7. What is not modelled

- `api/sites` `clone`, a read followed by a create; the exports and list pages
  of leads and analytics: reads of the same rows.
- `api/discovery/normalize.ts`, a function of one answer of SerpApi; the curated
  list of stores, data; markup and styles of the template.
- Settings, health: single statements without a protocol. The vault: encryption,
  functions of bytes.
- The dashboard's list pages, `ServersPage` and `SettingsPage`: they load once and
  act once; what they can ask for is what the models' requests are.
- The check for updates, which changes nothing, and the fallback of a checkout
  without `deploy/update.sh`, which restarts nothing.
- `deploy/provision-panel.sh`: run by hand once.
- Files: what is in an artifact, a half unzipped one (`build.service.ts:177`), the
  `.astro` cache two builds share (`build.service.ts:134`). A remote command that
  goes on after its timeout (`ssh.service.ts:117`).
- Everywhere: texts, logs, the audit log and `deploy_events`, HTTP details.

## 8. Plan

1. *(done)* `Installer` with `InstallLifecycle` and proofs: the core.
2. *(done)* `ContentEdits`, `ProductSearch`, `TeamAccess`, `ServerRegistry`,
   `SslLifecycle`, `InstallEvents`.
3. *(done)* `LeadDelivery`, `RateLimiter`, `VisitTracking`, `EditorKeys`,
   `Preflight`, `PublishGate`, `StoreCatalog`, `Wizard`, `RecordPage`,
   `SiteRecords`, `PanelUpdate`.
4. *(done)* Proofs of the safety and action properties of every module.
5. Composition: `ContentEdits`, `InstallEvents` and `PublishGate` over `Installer`
   itself in place of their environments, as refinements, step by step.
6. `DocrootSwap`: two chains of deploy commands on the server, the older one
   going on after its timeout; it refines the two moves of `Installer`.
