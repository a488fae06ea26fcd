# TLA+ specifications of dockge2

The panel manages Docker Compose stacks (`src/backend`, `src/common`, `src/frontend`) and is itself
moved from release to release by a host-side updater (`src/extra/updater`, Go).  This directory holds
the TLA+ modules that model those parts, the TLC configurations that check them on small instances
and the TLAPS proofs that hold for every value of the constants.

| module | models | checked by | proved in |
|---|---|---|---|
| `Updater` | the updater: update, recovery, rollback, resume, restore container | `MCUpdater`: `UpdaterContention`, `UpdaterChain`, `UpdaterLiveness` | `UpdaterProofs`, `UpdaterDataProofs` |
| `UpdatePhases` | the abstract updater: an update as its journal, the last success and the panel | `UpdaterChain`, through `UpdaterRefinement` | `UpdaterDataProofs` |
| `UpdaterRefinement` | the mapping of `Updater` onto `UpdatePhases` | `MCUpdater`: `UpdaterChain` | `UpdaterDataProofs` |
| `StackWrite` | the file transaction of a stack and its recovery at startup | `MCStackSaves`: `StackWriteCrashes`; `MCStackWrite`: `StackWriteEnvironment`, `StackWriteStale` | `StackWriteProofs` |
| `McpOperations` | operations of MCP clients, the key they run under, their handlers | `MCMcpOperations`: `McpOperations` | `McpOperationsProofs` |
| `PanelPage` | the page's side of a panel update: the reducer | with `PanelUpdate` | `PanelUpdateProofs` |
| `PanelUpdate` | helpers, the panel process that starts and observes them, the pages that follow | `MCPages`: `Pages`; `MCPanelUpdate`: `PanelUpdateEnds`, `PanelUpdateNotStarted` | `PanelUpdateProofs` |
| `SelectionPage` | the page of a stack: choices, polls, commands | `MCPages`: `Pages` | `SelectionPageProofs` |
| `StackGit` | the application of a Git comparison to a stack | `MCServer`: `Server` | `ServerProofs` |
| `StackDirectory` | directories of stacks: create, clone, deploy, delete; the stored selection | `MCServer`: `Server` | `ServerProofs` |
| `Observing` | rounds, intervals, availability, ordered shutdown, fatal error | `MCServer`: `Server` | `ServerProofs` |
| `ChildProcess` | a command with its timeout, its group and its answer | `MCServer`: `Server` | `ServerProofs` |
| `Terminals` | the registry of terminals, commands and shells | `MCServer`: `Server` | `ServerProofs` |
| `SharedReading`, `BoundedCache` | a slow reading shared and kept; the cache bounded in bytes | `MCServer`: `Server` | `ServerProofs` |
| `Accounts` | accounts, packets of their sockets, changes of access | `MCClients`: `Clients` | `ClientsProofs` |
| `Agents` | the connections of several tabs to one agent | `MCClients`: `Clients` | `ClientsProofs` |
| `Delegation` | signed calls between two panels | `MCClients`: `Clients` | `ClientsProofs` |
| `McpAudit` | counted repeats of the MCP log | `MCClients`: `Clients` | `ClientsProofs` |

Run `tlc -workers 2 -config X.cfg MCmodule.tla` for a check and `tlapm XProofs.tla` for a proof.
`PROJECT.json` lists the runs, the source lines of every definition, the hazards of the code with the
property that covers each, and for every property a plausible bug (a `...Mutant` operator) that
breaks it.

# The system

## Components

| component | state | operations | hard behaviour | what makes it correct |
|---|---|---|---|---|
| Updater (`extra/updater`) | journal, active and previous record, snapshot, locks; the panel container | update, install, rollback, resume, restore | a kill between any two effects, failed commands, a container that outlives its starter, two invocations | data of every release is only opened by a release that understands it; nothing written is lost silently; a stopped panel is always told by the journal; recovery ends |
| Stack file transaction (`stack-write.ts`, `stack-lock.ts`) | stack directory, journals, selection, per-path queue | save, write env file, create env file, select, recover | crash inside the transaction, its compensation or its recovery; edits from outside; two tabs | a save is whole or not there; nobody's text is lost or overwritten unread; the queue moves |
| MCP operations (`mcp-operations.ts`, `mcp-files-git.ts`) | operation rows, prepared forms in memory, stack lock | prepare, approve, apply, status | repeated requests, lost answers, restarts, rights withdrawn in the middle | executed at most once, only approved, only over what was read, stopped at a checkpoint, recorded truthfully |
| MCP keys (`mcp-keys.ts`) | key rows with a policy version | issue, reissue, reduce, revoke, resolve | read before an await, written after it | rights only shrink, and at once |
| MCP delegation and audit (`mcp-delegation.ts`, `mcp-audit.ts`) | served nonces, places; groups of repeats in memory and their rows | sign, serve, confirm; count, write, flush | copies, expiry during the work, panels that call each other; repeats during a write | worked once, under rights in force, answered; every repeat is counted |
| Panel update observer (`panel-update.ts`, `panel-update-machine.ts`) | helper containers under fixed names, derived status; the page's node and its saved record | preview, apply, cancel, dismiss, observe; boot, link, tick | `docker run` that fails after it started, its own restart, pages that reconnect and reload | the page ends in an outcome, and the outcome is what happened |
| Stack page (`StackInspector.vue`, `request-tracker.ts`, `stack-run.ts`, `agent-requests.ts`) | choice, generation, requests in flight, command on the screen | choose, retry, poll, preview, run, hide | answers in any order after another choice; a load that fails | what is polled and run belongs to what is chosen; details of the stack before go when the load succeeds; polling goes on; commands end |
| Stack lifecycle (`stack.ts`, `stack-delete.ts`) | directories, containers, selection | create, clone, deploy, delete | two requests for one name, people's files in the directory, a crash between containers, directory and selection | a name is given back; nothing of others is deleted; no container is forgotten |
| Selection and settings (`stack-config.ts`, `settings.ts`) | one settings row for all stacks, cache | get, set, remove | read-modify-write across stacks, stale cache refills | a stack's selection is changed by its own saves only |
| Git workflow (`stack-git.ts`) | previews, index, files, refs | compare, apply, discard, expire | outside edits, failures in the write and in its rollback, a crash | files, index and ref belong to one commit, or the originals are kept |
| Terminals and child processes (`terminal.ts`, `child-process.ts`, `process-group.ts`) | registry, clients, process groups, timers | exec, join, leave, kill, end | timeout against exit, a child that ignores the signal, a session reopened while the old one ends | every call is answered; a stop is seen through; one command per stack; shells end |
| Server lifecycle (`dockge-server.ts`, `resource-owner.ts`) | resources in order, readiness | start, recover, shut down | shutdown beside a running round, a resource that never stops | nothing writes to what was closed; the shutdown ends |
| Accounts and sessions (`auth-access.ts`, `util-server.ts`) | users, sessions, roles, packets | set up, sign in, change access | owners who change one another at once, packets on the way | an owner always remains; a change that was answered is in force |
| Agents (`agent-manager.ts`, `agent-auth.ts`) | sockets to other panels, shared login | connect, renew, add, remove | renewal against removal, tabs that close in the middle | one login, no connection out of reach, all come back |
| Observations (`observations.ts`, `common/availability.ts`) | intervals in the database | sample, summarise | restarts, gaps, deleted stacks | intervals claim watched time only, do not overlap, figures add up |
| Readings and caches (`shared-reading.ts`, `bounded-cache.ts`) | value, generation, byte count, timer | get, invalidate, expire | invalidation during a reading | no value older than its invalidation; the bound holds |
| Secrets, stability, version checks, MCP server and policy, Compose algorithms, other pages, scripts | — | — | — | not modelled, see below |

## How they interact

The updater never talks to the panel: it runs in a helper container the observer launches (or from the
shell), writes its journal and output, and the panel's observer derives the status from both.  The
helper of `PanelUpdate` walks a coarser set of phases than `UpdatePhases`: the phases of the cutover
are one, since neither panel nor page tells them apart.
The panel's saves and MCP writes of one stack share `withStackLock`; a save writes through
`writeStackFiles` and then the selection through `StackConfig`, an MCP write replaces one file in place.
MCP operations revalidate the key through a callback at each checkpoint, delegated ones by asking the
issuing server.  The recovery of saves runs in the server's start before it listens.  The handlers of
sockets re-read the role before each event.  Everything a page asks of a stack goes through
`AgentRequests`, which answers every request, and commands run in the terminals of `Terminals`.

# The modules

## `Updater`, `UpdatePhases`, `UpdaterRefinement`

One process of `Procs` is one run of the updater binary: an update, a first installation, a rollback
(with or without `--restore-data`) or a resume.  Its `pc` names the place in `execute`,
`recoverFailure`, `restoreAfterFailedStart`, `rollback` or `resumeOperation` where it stands; a step
is what the code does between two effects that survive a kill: one write of the journal, one docker
command that changes the panel, one write of `active.json` or `previous.json`.

| model | code |
|---|---|
| `journal`, `previous`, `active`, `env` | `operation.json`, `previous.json`, `active.json`, `.env` |
| `panel` | the panel container: its image and whether it runs |
| `data`, `snap`, `staged`, `failed` | the data directory, `operations/<id>/data-backup`, `<data>.dockge-restore-<id>`, `<data>.dockge-failed-<id>` |
| `restore` | the restore container, which belongs to the daemon and outlives its starter |
| `lock` | the flocks on the project and on the data path |
| `op`, `seen`, `opt` | the operation in memory, the files read before the lock, the command line |

A directory is its kind (absent, empty, partial, full), the schema its database was migrated to and
the number of the last write it contains.  A kill drops `pc`, `op` and the locks and leaves files,
containers and the restore container.

`UpdatePhases` is what a reader of the journal may rely on: which phase may follow which, that the
panel moves only under a phase that says so and only to one of the operation's two releases, that
success and recovered are written while exactly the promised release serves, that a rollback undoes
the last success, that nothing is begun over a pending operation.  `UpdaterRefinement` maps the
journal, `previous` and `panel` and forgets locks, processes, files and the restore container;
`ImplementsPhases` is the abstract specification as a property of `UpdaterChain`.

Left out: development builds, option syntax, signatures and downloads, the detection of writers other
than the restore container (`otherWriters`), docker clients that survive their updater, two panel
containers under one project label, deadlines as numbers (a deadline is a failure that may happen).

## `StackWrite`

A request of `Savers` queues for the lock of the stack, plans its transaction, opens a journal, checks
and replaces each file, verifies, stores the selection, commits and removes the journal; a failure
goes to `undoWrite` (and first puts the selection back when it was stored).  A crash drops the memory;
the next start takes the journals one by one, in any order.

| model | code |
|---|---|
| `disk`, `sel` | the stack directory; the stored `StackFileConfig` |
| `journals` | `stack-writes/<id>`: manifest (`plan`), commit marker, copies of both versions, the mark of one kept unresolved |
| `queue`, `pc`, `req` | `withStackLock`'s queue and the requests: save, `writeEnvFile`, `createEnvFromExample`, `setFileConfig` |
| `tx` | the running `writeStackFiles` |
| `rec`, `up` | `recoverStackWrites` in the server's start |
| `told`, `touched`, `kept` | not in the code: what the answers and the outside edits say there is, what was edited since the transaction checked it, whether a journal was left by a server that went on |

Environment: an edit of any file (`Edit`), also between a file's last check and its rename (bounded
by `MaxRaces`), a removal of a journal that stops half way (`MaxTorn`), a power cut that loses
unflushed journal entries (`MaxCuts`), failures and crashes (`MaxFaults`).  `Covered` names the
histories for which the code can promise whole saves: no left journal, torn removal, power cut or
race.  Outside of it the promises fail, which is what the violation run and the known disagreements
show; `TextKept` and `ComesUp` are checked there.

`MCStackSaves` has two settings (`focus`).  In "crashes" there is one env file and up to `MaxFaults`
failures and crashes; in "selection" there are two env files, requests read, save to and select either,
and there is one edit from outside or one fault.  The second setting is where a save finds that its
editor read another selection than the one stored (stack.ts:690-701): `NoLostUpdate` then also says
that a save writes into no file but the compose file and the env file its editor showed.

Left out: modes and ownership, the selection write of the secrets, edits between the reads of one
check, edits inside the recovery's check-and-replace.

## `McpOperations`

A call of `Calls` is one tool call: a prepare (`inspect`, `fresh`, `prune`, `insert`) or an apply
(`revalidate`, `owned`, `claim` and, once the row says running, the handler's steps).  Every await of
the code is a boundary between two steps, so calls, the owner's tabs, saves in the panel, expiry and
restarts interleave there.

| model | code |
|---|---|
| `key` | the row of `mcp_key`: alive, mode, policy version |
| `tabs` | the row a reduction read before it writes |
| `rows` | `mcp_operation`: state, request id, policy version, fingerprint, approval, expiry |
| `memory` | the prepared forms in the process |
| `calls` | where each call stands and what it read |
| `lock`, `stack` | the stack lock; the numbers of the last change of the files and of the containers |
| `effect` | not in the code: what an operation really did |

Three kinds of operation stand for the handlers: `write` (`stack_files_write`, under the stack lock),
`control` (deploy, start, stop, restart: one command) and `update` (pull, then deploy: two).  A key's
permissions and resources are folded into its mode: taking one away is like making it read only.
The read of the identity and the lookup of the request are one step, and the insert and the
remembering in memory are one step: nothing between them is visible to another call.

Left out: `git_*`, clone and container handlers, delegation (`Delegation` has it by itself), the
answer of `operation_status`, issuing and reissuing keys, what Docker reads from the files on its own.

## `PanelPage` and `PanelUpdate`

`PanelPage` is the reducer of `panel-update-machine.ts` as operators from a page and an event to a
step (the page, what it saves, whether it asks or emits); its comments name the rows of
docs/panel-update-statechart.md.  `PanelUpdate` drives it with three parties.

| model | code |
|---|---|
| `helper`, `journal` | the containers under the two fixed names; `operation.json` on the host |
| `up`, `version` | the panel's container |
| `session` | the panel process: the published status, the shared reading and its callers, the queue of serialized actions, the refresh that is due, the followed outputs, calls under way |
| `conn`, `mail`, `due` | sockets, what was sent to a page, the acknowledgements it waits for |
| `pages` | node, link, saved record (session storage), probe, build |
| `touched`, `reached`, `disowned` | not in the code: what became of an update, and what a page said did not begin |

Docker is read in one step (`Readings`), which may fail or miss the journal; a reading under way is
shared (`StatusRead`, `StatusEnds`) and overtaken by what happens meanwhile.  `docker run` may be
refused, fail before or after the container exists, or survive the panel that ran it.  `Breaks` loses
a connection, a session or the page; a page's deadline passes when nothing is on its way, or as one of
the `MaxTroubles`.

Simplifications: one release to update to; the phases of the cutover are one; the result line and the
exit of a helper are one step; a page reads what it was sent before the panel sends it more (`Fits`);
the reading that ends an action is delivered when taken.  Left out: the reload a page does by itself,
`INFO` and the manual release check, an installation that is not managed, the discovery of the
installation and the journal's cache, the redaction for other roles.

## `SelectionPage`

The page of a stack is one component for all stacks of one agent.  `screen` holds its fields, its
`RequestTracker` (`generation`, `asking`) and its `StackRun` (`run`); `flight` is the requests that
`AgentRequests` will answer, from the server or with "unknown", in any order.  Data shown is the stack
it is about.  `shown.details` is what `getStack` told (`this.stack`, `this.config`: services, images,
ports, links): a choice clears what was polled but on an owner's page not these
(StackInspector.vue:1001-1012), a load that succeeds replaces them (1038-1039) and one that fails keeps
them and shows the error with a button that tries again (`Retry`).  The stack's own buttons wait for
`processing` and are there once some stack was loaded (`StackButtons`).  A command holds `processing`
until an answer of its own generation; the embedded editor, which goes with the choice or with its tab,
tells the page how its deployment ended as long as it is shown: deployments of a closed one leave
`flight` (`editorGone`).  So `ShownIsChosen` says two things: what was polled, previewed and run is
always of the stack that is chosen; the details are of another stack only while the load is under way,
when the stack's buttons wait, or after it failed, with the error shown.

Left out: statistics (asked for like the status), the age of the reading, dialogs, what is computed
for display.  The page opens visible; a change of role is not modelled (`owner` is fixed).

## The server's own components

Each shares no variable with the others.  `MCServer` checks them in one run: a behaviour is that of
the component in `focus`, the rest stand still in their initial states.  Since no action of one reads
a variable of another, what holds for each alone holds for all at once.  The properties of a component
are named one by one in its module and joined at its end into the one the run checks; each joined
property has a mutant per part.  The parts that say what must *happen* under fairness are joined apart,
in `MCServer` (`ServerProgress`: `ShutdownEnds`, `CallsEnd`, `ShellsEnd`) and in `MCClients`
(`ClientsProgress`: `RevokedDropped`, `ConnectionsRecover`, `RequestsEnd`, `RepeatsCounted`), since only
the others are proved.

- `StackGit`: `work`, `gitIndex`, `head`, `indexLock` are the directory, the index, the branch and
  `index.lock`; `kept` the recovery directories; `stored` and `shown` the previews of server and
  pages; `job` the application with the step it is at.  A file is replaced after its check and before
  its verification; a failure at any step rolls back what was moved; a failure of the rollback keeps
  the recovery directory; a crash leaves lock and directory to people.  Left out: comparison and
  wording, credentials, limits, modes, submodules, clones (`StackDirectory` has their directory).
- `StackDirectory`: `files` and `containers` of each stack, the row `selected` and its `cache`.  Save
  of a new stack, clone into a reserved name, deployment and deletion, each with its awaits; people's
  files appear at any time; crashes.  One request holds a stack's lock where the code takes it:
  deployments take none.
- `Observing`: the cron with the guard of `runOnce`, rows of `stack_observation`, the sums of
  `measure`, the ordered shutdown with a share of time per resource, the exit after an unhandled
  error.  The clock counts scans.
- `ChildProcess`: `spawn` with its timeout, close grace and kill timer over a process group with one
  child that may hold the output open.
- `Terminals`: the registry and the `Terminal` objects of commands and shells, keyed by name and
  owner; join, leave, disconnect, kill, `endAll`.
- `SharedReading`, `BoundedCache`: the two classes, whole.  The bytes of a set of entries are the number
  of its pairs of a key and one of its bytes (`Parts`), and what the timer leaves is a choice among the
  orders of the live places that keep their order (`InOrder`: there is one), so that neither needs a
  recursion.  `measure` of `Observing` counts moments in the same way.

## The panel's clients

`MCClients` is built like `MCServer`.

- `Accounts`: every packet of a socket is authorised by a fresh read (`Authorize`), admitted in its
  turn (`Admit`) and handled; changes of access confirm, lock, write and answer, and cut the sockets
  of their account.  Sign-in itself, cookies and passwords are a library's.  Left out: authentication
  switched off, the settings of the console, the attempt limit, reset-account; a browser makes one
  change of access at a time.
- `Agents`: one agent seen from several tabs; `links` are the calls of `connect` with the client each
  made, `session` the shared login.  Left out: events passed on (`emitToEndpoint`).  A call of
  `connect` that is under way while its agent is removed registers with a removed agent, and a tab
  whose login failed stays offline until it is loaded again: both are in the model and excused in
  the properties.
- `Delegation`: copies of a signed call arrive at any time; the receiver serves each call once and asks
  the caller's panel before and after the work; both panels have few places.  Left out: the refresh
  during the work, the shapes of policies, the cap of 1000 nonces, the tolerance of clocks.
- `McpAudit`: the chain of writes of one group of repeats, its timer, and readers who flush.

# What the runs check

| run | question | answer |
|---|---|---|
| `UpdaterContention` | two invocations race over releases of two schemas, two failures or kills | the invariant of the proofs `IInv`, `NoWriterDuringRestore`, `JournalTellsDowntime` hold |
| `UpdaterChain` | two operations in a row, three releases, two schemas, two failures or kills | `StartsOnItsData`, `CutoverRecoverable`, `NoSilentDataLoss` and the refinement `ImplementsPhases` hold |
| `UpdaterLiveness` | does every invocation let go, and does an insisting operator get a panel back | `LockReleased` and `RecoveryEnds` hold |
| `StackWriteCrashes` | two requests: over one env file with two failures or crashes, also in compensation and recovery; over two env files beside an edit or a fault and each other's selection | `SavesSettled`, `NoLostUpdate`, `EveryRequestAnswered` hold |
| `StackWriteEnvironment` | one save beside an edit, a race, a fault, a torn removal and a power cut | `TextKept`, `ComesUp` hold |
| `StackWriteStale` | stack-write.ts:680-682: what is rolled back was never answered as saved | refuted: `createEnvFromExample` dies with its journal open, the next start's recovery throws and is only logged (dockge-server.ts:610), `setFileConfig` stores a selection and is answered, and the start after the next crash puts the selection of before the journal back over it (stack-write.ts:626-637) |
| `McpOperations` | two calls, two operations of any kind, repeated requests, full memory, expiry, approval, one act of the owner, one failure or restart | `AtMostOnce`, `OnceInv`, `StopsAtCheckpoint`, `ApprovedFirst`, `OutcomeTrue`, `NothingOverwrittenUnread` hold |
| `Pages` | a page follows an update with one thing going wrong at any moment; the page of a stack under two commands and three choices or retries of a failed load | `OutcomeHonest`, `ShownByNewBuild`, `PhaseForward`; `ScreenKept` hold |
| `PanelUpdateEnds` | does a followed update end on the page, a kept result get settled, an ended helper get noticed, once the panel stays up | `OutcomeReached` holds |
| `PanelUpdateNotStarted` | docs/panel-update-statechart.md:306: no operation in the asked status means nothing started | refuted: a probe asked before the submission is answered after it from an older reading; the page offers the update again while its helper starts |
| `Server` | the seven components of the server, each by itself | `ReadingsCurrent`, `CacheKept`, `AvailabilityMeasured`, `HistoryTrue`, `CallsSettle`, `TerminalsKept`, `GitKept`, `DirectoriesKept` and the liveness `ServerProgress` hold |
| `Clients` | the four components clients meet, each by itself | `OwnersRemain`, `AccessInForce`, `ConnectionsKept`, `DelegatedInForce`, `RepeatsKept` and the liveness `ClientsProgress` hold |

The two refuted statements are quoted with the lines of the code in `PROJECT.json` under `findings`.

## Known disagreements

These were met while modelling.  Those named as definitions of the modules are
listed by no configuration, because they do not hold as said; the others are outside of what the modules claim.

- `Updater.BeforeTargetStartRecoverable`: docs/self-updates.md:169 says that before the target's start
  the previous panel can be recovered whatever the schema.  When the restart of the untouched previous
  release fails before a snapshot exists (recovery.go:208, 403), the journal is left in a phase that
  rollback, resume and a new update refuse (restore.go:210, recovery.go:589, main.go:280).
- `Updater.FirstInstallRetryable`: docs/self-updates.md:206 retries a failed first installation with
  `--resume`.  Killed in phase `stopping` (main.go:752-781) it is taken neither by resume nor by
  rollback (recovery.go:359, 575).
- `Updater.ActiveMatchesPanel`: after a kill between `active.json` and the phase `success` a resume
  that fails recovers the previous release and leaves `active.json` naming the target.
- `StackWrite.NoHalfWrittenPair`: dockge-server.ts:603-604 says no stack starts from a half written
  pair.  A crash inside the recursive removal of a committed journal (stack-write.ts:495) can leave a
  journal without its commit marker, which the next start rolls back.
- `McpOperations.KeyNeverGrows`: docs/mcp.md:202 and mcp-keys.ts:92 say a key never grows.  `reduce`
  reads the row before an await and writes it after (95-113): of two overlapping reductions the second
  writes back what the first took.  Both write the same next policy version, so the version does not
  tell the two rows apart: a key can be in approval mode under the version under which an operation was
  prepared without one.  `ApprovedFirst` is therefore claimed, checked and proved for one tab.
- docs/panel-update-statechart.md:343-346 never shows "Updated" on a page that still runs the old code.
  After a success that the host rolled back, a page of the old build keeps its pending result; a later
  update then brings the version it waits for, and the page confirms it without looking at its own build
  (panel-update-machine.ts:915-942).  `PanelUpdate.ShownByNewBuild` excepts exactly that (`Undone`).
- `StackDirectory.SelectionsKept`: stack-config.ts:200 stores the selection of one stack.  With two
  stacks saved at once the later write of the shared row undoes the earlier one (205).
- `StackDirectory.CacheCurrent` excuses a reading that a write overtook (settings.ts:72, 102): the
  stale value is served until the next write or expiry.
- mcp-audit.ts:235 says that a flush writes every counted repeat now.  A repeat queued behind a write
  that has just ended is taken off the list (180) and missed (`FlushedIsWritten` names the exception);
  it is written a little later.
- stack.ts:1333-1338: two requests for a container's terminal that both found none create two; the
  first shell is out of reach until its clients leave (`Overtaken` in `Terminals`).
- stack-run.ts:149 says that no answer of a released operation reaches the screen.  After leaving and
  coming back the answer of the first command ends a second one on the screen, since only the stacks
  are compared (118).
- A deployment started in the files tab whose editor is closed by another tab keeps its `run-end` to
  itself (Compose.vue:1171): the page shows the command as running until another stack is chosen or a failed load
  is retried, and its stack buttons return without a word (StackInspector.vue:1184).
- request-tracker.ts:5-8 says that the tracker keeps the previous stack's services from standing under the
  current stack's title.  It drops late answers, but `loadStack` does not clear `this.stack` and
  `this.config` for an owner (StackInspector.vue:1001-1012; only who may not manage gets new ones, 1019):
  services, images, ports and links of the earlier stack stand under the new name until `getStack`
  answers, and as long as the load fails (1033-1036).  After a failed load the
  buttons of their rows send a service's name of the earlier stack with the name of the new one
  (`runService`, 1291); during the load they are disabled.  `ShownIsChosen` allows
  this while the load is under way or failed, and nothing more.
- A preview left with its stack never ends its loading line (`previewLoading`, StackInspector.vue:1116):
  the next stack shows it until it asks for a preview of its own.
- Text typed in the editor while a save is under way is taken for saved when the answer comes
  (Compose.vue:1203-1208), and an answer that arrives after the user has left routes back to the old
  stack (1208).
- Windows the code has and the models name: the instant between a file's last check and its rename in
  saves and Git applications; a `git update-ref` that was killed and may have moved the branch although
  the application is answered as refused; an `index.lock` left by a crash, which blocks later
  applications until it is removed by hand; containers that a deployment beside a deletion starts after
  the deletion has counted; the close timer of `child-process.ts`, which is not cleared during the
  grace.

## Bounds, and why they are enough

- Updater: two processes are what a lock needs; three releases and two schemas give a change of schema
  and none on either side of the middle release, upgrades and downgrades; two operations let the
  second read every record the first one left; two writes tell a write before the snapshot from one
  after it; two faults allow a failure and a failure or a kill of its recovery.
- StackWrite: two savers, since the lock admits one and the second only has to have read earlier; a
  compose file and an env file, or two of them where the selection moves; two texts tell the old
  version from the new one and from an empty copy; two faults reach a failing compensation and a
  crash in the recovery; the refuted run has three.  With two env files there is one edit or one fault
  (`MCStackSaves.Within`) and no empty file at first: a save that meets another selection or another
  text is refused in its plan, before a fault can matter.  `TextKept` and the bad removals are checked
  with one saver: they act on one transaction.
- McpOperations: two calls and two operations with two request ids show every pair of steps on one
  operation and on two; one prepared form in memory makes eviction happen; the third and fourth
  participant of a claim would meet the same row (`OnceInv` is proved for any number).  One tab,
  since two at once are exactly what breaks `KeyNeverGrows`.
- PanelUpdate: one page and two requests (a dry run and its update, or two attempts), since pages do not
  speak to each other and the panel serves each alike; one trouble for safety, none for liveness, where
  the update itself stops the panel, drops the connection and reloads the page.  `MaxAsks` status
  requests of a page may be unanswered: one for safety; two for liveness, so that an orphaned one never
  keeps the page from asking.  `OnePreview` keeps the safety run to one dry run, whose second request
  is its update; `UntroubledSpec` of the liveness run leaves troubles out.
- SelectionPage: two stacks and three choices or retries are leaving and coming back; two commands are the one left
  behind and the next one; the user acts while at most `MaxWaiting` requests wait, and what these acts
  send comes on top (up to three at once).
- StackGit: two files, one of them added by the new commit; one commit, one foreign write, one trouble.
  StackDirectory: one stack, two requests, one selection, one visit, one trouble.  Observing: one stack, a clock of two
  scans, two lives.  ChildProcess: one call.  Terminals: a command and a shell, two clients, two
  terminals, so that one is reopened.  SharedReading: two callers, two changes, three readings.
  BoundedCache: three keys for two entries, three bytes, a clock over two lifetimes.
- Accounts: two accounts and browsers, two packets.  Agents: two tabs, four logins, three connections,
  one failure, one edit.  Delegation: two panels with one place each, a call each way, one of them in
  two copies, a lifetime of one.  McpAudit: two windows, two readers, two events, one failed write.
- Every counter with a bound (`Max...`, `Cap`) is a constant named in its module.

Deadlock is not checked (`CHECK_DEADLOCK FALSE`): each system may rest when nothing is asked of it and
the bounds are used up.  Symmetry is used over processes, savers, calls, requests and operations, and
only in runs without liveness.

## Fairness

- `Updater`: `Progress` is weak fairness of the steps of an invocation that holds the locks and of the
  restore container.  The code bounds every wait by a deadline and the daemon runs the container, so
  a step that can be taken is taken.  `RecoveryEnds` also assumes an operator who repeats
  `--rollback --restore-data` (`Insists`); the code alone never retries.
- `StackWrite`: weak fairness of the running transaction (a promise settles) and of the recovery (the
  panel is restarted: `restart: unless-stopped`, docker-compose.yml:21).  No fairness of requests,
  edits or faults.
- `PanelUpdate`: the helpers walk on and Docker decides about a container it created; the panel's event
  loop serves what is asked, and the refresh that is due has a timer of its own; a browser delivers
  messages, gives up on acknowledgements (`socket.timeout`), reconnects and loads, and fires the page's
  timers, each by itself.  Nothing is assumed of the owner or of trouble.  The promises are made under
  `<>[]up`: the panel's container is up from some time on.
- `ChildProcess`, `Terminals`: timers fire and a killed process is gone; nothing is assumed of
  processes that were not killed.  `Observing`: a shutdown takes its next step and its shares of time
  pass.  `Accounts`: handshakes complete and rounds run.  `Agents`: requests have deadlines and
  socket.io keeps trying.  `Delegation`: queries and tools end and questions have deadlines.
  `McpAudit`: timers fire and writes end.
- `McpOperations`, `StackGit`, `StackDirectory`, `SharedReading`, `BoundedCache` and `SelectionPage`
  state no liveness.

# What is proved

Every theorem holds for any values of the constants that satisfy the named assumptions of its module,
which say no more than that a name is not one of a set, that bounds are numbers, and that a later
release reads what an earlier one wrote.  Bounds on faults, edits and writes are constants as well, so
a theorem holds for any number of them.

## `UpdaterProofs`: the lock, the records, the restore container

Assumptions: `ProcsAssumption`, `VersionAssumption`, `SchemaAssumption`, `BoundAssumption`.

- `Invariance`: `Spec => []IInv`.  `IInv` joins the types, that the process inside the locked region is
  the holder of the lock (`LockInv`), that records are complete wherever a step reads them
  (`RecordInv`), that the panel is up under every quiet phase of the journal and that a process past
  its last check has written a phase that is not quiet (`PhaseInv`), and that a working restore
  container has a stopped panel beside it and no process inside the locks but one that waits for it
  (`RestoreInv`).  None of them is inductive alone: the phase a process may be in follows from its
  record, its record from the lock, and the restore container's from both.
- `TypeCorrect`, `DowntimeTold` (`JournalTellsDowntime`) and `RestoreAlone` (`NoWriterDuringRestore`)
  follow from it.

## `UpdaterDataProofs`: the panel's data

Same assumptions, on top of `IInv`.

- `DataInvariance`: `Spec => [](IInv /\ DataInv)`.  What the data directory may hold is a question to
  the journal, not to the process that works on it, because the process may be killed at any step.
  `SettledData` says it for a finished operation, `PendingData` for a pending one (the previous
  release's data until the target may have been started; at most the target's until it is moved aside;
  after that the snapshot's), `RestoreData` for a restore container that outlived its starter,
  `AsideInv` for the directories moved aside, `PreviousInv` for the record a rollback goes by.
  `HolderInv` says for each place in the code that the operation in memory is the journal's and what
  has been reached; `ReaderInv` says what survives of the files read *before* the locks were taken
  (main.go, recovery.go): a resume or a rollback compares them again inside, but the previous record
  it kept in memory is only as good as the fact that a finished operation is never reopened except by
  a rollback (`Ended`).  Without `ReaderInv` the first step inside the locks is not inductive.
- `StartsOnServedData` (`StartsOnItsData`), `RecoverableCutover` (`CutoverRecoverable`) follow.
- `NoWriteLost` (`NoSilentDataLoss`, an action property and an invariant): no step loses a write of a
  panel; data is only taken away by the rename that keeps it aside, and what is aside is never changed.
  Beside `DataInv` it needs `GenInv`: what directories hold was written before.

## The updater implements its phases (`UpdaterDataProofs`)

- `UpdaterImplementsPhases`: `Spec => ImplementsPhases`.  Each action of `Updater` is, under the
  mapping, one step of `UpdatePhases` or changes nothing its readers see.  A step writes the journal
  from the record *in memory*, which may be one phase ahead of the disk; `JournalInv` says which phase
  is on disk wherever a process stands, `HolderInv` that the two are the same operation, and `DataInv`
  that the panel serves the release a final phase promises.

## `McpOperationsProofs`

Assumptions: `KindAssumption`, `FreeAssumption`, `MadeAssumption`, `McpBoundAssumption`.

- `OnceInvariant`: `Spec => []OnceInv`.  The claim changes the row from prepared to running in one
  statement, so one call holds it (`ClaimHeld`); the insert is refused when the request has a row, so
  one operation stands for a request (`OneRowPerRequest`); until its holder runs the first command an
  operation has had no effect (`ExecutedByHolder`).  A restart forgets the calls but leaves the row
  running, so nobody claims it again.
- `ExecutedAtMostOnce` (`AtMostOnce`) and `TypeCorrect` follow.
- `OutcomeInvariance`: `Spec => [](OnceInv /\ OutcomeInv)`.  `OutcomeInv` says for each place of a call
  what its operation has done so far (`Doing`), and for each operation what its row may say about it
  (`Done`).  From it: `OutcomeIsTrue` (`OutcomeTrue`), `WritesWhatWasRead`
  (`NothingOverwrittenUnread`: under the stack lock the fingerprint that was compared is the stack's
  until the write) and `StopsAtItsCheckpoint` (`StopsAtCheckpoint`: the count of commands after a
  reduction starts anew at every checkpoint that still found the key allowing them, so it is the
  commands since the last such checkpoint that are at most one).
- `ExecutedWhenApproved`: `OneTab /\ Spec => []ApprovedFirst`.  `ApprovalInv` follows the policy version
  from the key to the row: a row of the key's version was made in the key's mode, so what is executed
  in approval mode under an unchanged version was approved.  It is inductive only when the version
  tells rows of the key apart, that is when reductions do not overlap: `OneTab` (at most one owner's
  tab) is the hypothesis.  With two tabs the lost update under *Known disagreements* breaks it.

## `SelectionPageProofs`

Assumption: `SelectionBoundsAssumption`.

- `SelectionInvariance`, `PageKeepsItsStack` (`ScreenKept`): what was polled and run is of the selected
  stack because every answer under way carries the generation of its choice, and an answer of the
  present generation was asked for the present stack (`Tracked`).  Details of another stack are there
  only with the load of the present generation under way or failed, since nothing else ends
  `processing` before that load is answered.  A running command has an answer on its way or an editor
  that was closed (`Commands`); a visible page has a timer or a request (`Polls`).

## `StackWriteProofs`: the file transaction

Assumptions: `FileAssumption`, `TextAssumption`, `BoundAssumption`.

- `TypeCorrect` (with `Shape`: a transaction runs under the lock of a server that is up, and its lists
  are not empty where their ends are taken) and `QueuedOnce` (`QueueInv`) hold of every history.
- `SaveInvariance`: `Spec => []SaveInv`, where `SaveInv` is `Covered => CoveredInv`: the claim ends with
  the events the transaction is not made for (a journal left by a server that goes on, a torn removal, a
  power cut, an edit between a check and its rename), and none of them is ever taken back, so a covered
  step starts covered (`StillCovered`).  `CoveredInv` says what a *recovery* would leave rather than what
  is there: at most one journal is ready and it stands for what was said (`Answered`: a file of its plan
  will have its goal, by the marker, or keeps a third text; any other file is true already); with no
  journal ready everything said is true.  A process may die at any step, so this has to hold in the
  middle of a save and of a recovery as well.  `TxInv` adds what the transaction in memory knows at each
  place (`Claims`: written, still to write, edited meanwhile; `SelectedAt`; `EndsKnown`: what the last
  check found), `Baseline` that the plan goes by what its editor sent, and `RecInv` that the recovery has
  every journal before it and has brought back what it is through with.  `SavesSettled` alone is not
  inductive: it says nothing while a save is under way.
- `SavedOrUndone` (`SavesSettled`), `NothingLost` (`TextKept`) and `NothingOverwritten` (`NoLostUpdate`)
  follow.  `NoLostUpdate` needs `Covered` too: a race overwrites an edit nobody read.
  `PlanBaseline` carries what the plan was compared with: texts, selection and the one env file shown.

## `PanelUpdateProofs`: what a page says of an update

Assumption: `PanelUpdateAssumption` (the bound on requests is a number).

- `PanelInvariant`: `Spec => []PanelInv`.  A page is told what it shows by a panel that derived it from a
  helper and a journal, through messages of two panels, records that survive a reload and actions that
  wait in a queue; so the invariant says of each of these places that what it holds is *true*: an outcome
  that claims an end (`Attained`) is of an update that reached it (`Ends`), an outcome that claims that
  nothing changed (`Spared`) is of an update that can no longer stop the panel (`Untouchable`).  Both sets
  only grow, so what is true when it is said stays true however late it is read (`Grows`, `MoreTrue`).
  `HostTrue` is what makes it so: an update is asked for once and has begun nothing while it is asked for
  (`Once`), a helper has done what its last phase says (`HelperTrue`), the journal's phase was reached
  (`JournalTrue`), and once an update succeeded nothing but an undone success takes the panel back
  (`Progress`).  `PanelTrue` adds that no two actions under way are for the same update (`Distinct`), which
  is why a helper that appears after its action was given up is still of an update nobody judged.
  `OutcomeHonest` alone is not inductive: it says nothing of a status on its way.
- Every event of a page (`BootTrue`, `LinkUpTrue`, `TickTrue`, `PushTrue`, `OnAckTrue`, `SubmitTrue`, ...) is
  a lemma about the reducer alone: it makes a true page from a true page and a true status, and its record
  never goes back (`Forward`).  `AnyStep` joins them with the steps of the panel and of the helpers.
- `OutcomesHonest` (`OutcomeHonest`), `ShownByItsBuild` (`ShownByNewBuild`) and `PhasesForward`
  (`PhaseForward`, an action property) follow.

## `ServerProofs`: the server's own components

Assumptions: `ReadingBoundsAssumption`, `CacheAssumption` (a cache has room for an entry, a lifetime and
a clock that is not 0), `GitFilesAssumption`, `GitBoundsAssumption`, `DirBoundsAssumption`,
`DirNamesAssumption` and `TerminalKeysAssumption` (names are not one another's), `CallsAssumption`,
`ObsBoundsAssumption`.

- `ReadingInvariance`, `AnsweredCurrently` (`ReadingsCurrent`): readings start in the order of their
  numbers and a caller waits only for one that began after what it must see, so neither an answer nor
  the value kept is older than the change the caller knows of.
- `CacheInvariance`, `CacheStaysKept` (`CacheKept`).  `CacheInv` says of the state between any two calls
  what `CacheBounded` says, that no two entries have one key and that an entry fits by itself
  (`Admitted`): the last is why the eviction loop always ends with room, so that `Evicted` has a least
  number to take.  The bytes of two sets without a common key add up (`BytesAdd`), which replaces a sum
  over a sequence.  That a set of numbers has a least one (`LeastNat`) rests on the library's
  well-foundedness of strict subsets.
- `GitInvariant`, `CommitsApplied` (`GitKept`).  `GitInv` says for each step of the application and of
  its rollback which files hold the result, which hold what was compared and which have their original
  in the recovery copy; index and branch likewise.  `GitEditsKept` alone says nothing of the rollback's
  knowledge, and `GitAllOrNothing` looks only at the last step.
- `DirInvariant`, `DirectoriesStayKept` (`DirectoriesKept`).  `DirInv` says that who fills, clones into or
  deletes a directory holds the lock of its stack (`Unlocked` is nobody's name) and works on that stack
  until the step that lets go (`RouteOK`), that a directory is empty only while somebody makes it or
  after a crash or failure (`abandoned`), and that none is gone while its containers are counted.
- `CallsAlwaysSettle` (`CallsSettle`): which timer runs at each state of the process and its answer
  (`TimersRun`).  That a timer runs is the safety half of "the call always ends"; that it fires is
  fairness and stays with TLC.
- `TerminalsStayKept` (`TerminalsKept`).  The invariant joins the two halves of the registry: an entry is
  of a terminal of that name, and a running terminal is its name's entry unless it was told to end or
  overtaken.  Terminals are numbered as they are created (`Unused` takes the next number), which is what
  makes "later" of `Overtaken` mean anything.
- `ObservingInvariance`, `HistoryIsTrue` (`HistoryTrue`).  `ObsInv` says that ids are given once, that no row
  ends after the clock or after the sample of the round under way, and that the interval kept in memory,
  and the one a round awaits, are the last of their stack and of this life: so a row that is extended is
  one nobody has followed.  `StopsInOrder` says what is left to stop and what is over by then.  From it
  follow that intervals of a stack are disjoint and confirmed, and that the database is closed after
  the round that writes to it or after its share of the shutdown.
- `AvailabilityIsMeasured` (`AvailabilityMeasured`): as the intervals of a stack are disjoint, the durations
  `measure` adds up are the number of the moments of the window inside an interval of a known state
  (`DurationIs`, `MomentsCounted`).

## `ClientsProofs`: what reaches the panel

Assumptions: `AccountBoundsAssumption`, `AccountNamesAssumption` ("nobody" is no account and no browser),
`AgentBoundsAssumption`, `DelegationAssumption`, `AuditBoundsAssumption`.

- `AccountInvariance`, `OwnersAlwaysRemain` (`OwnersRemain`), `PacketsHandledAsPermitted`
  (`AccessInForce`).  The last owner is counted under the lock in which the change is written, so no two
  changes count the same owners.  A packet is allowed on a read that may be old when its turn comes:
  the invariant says that what was allowed is still allowed or that the answer which cuts the socket is
  still to come (`CutPending`), and that packets of a socket wait in the order of their numbers, the
  handled ones before them.
- `AgentInvariance`, `ConnectionsStayKept` (`ConnectionsKept`).  A link has what its step needs (`LinkRight`);
  the login the map holds has not failed, and the logins that were made are no more than the failures,
  ended sessions and edits account for, plus one while it can be used (`LoginsInv`): that one is why
  tabs that renew at once share their login.
- `DelegationInvariance`, `DelegatedWorkIsInForce` (`DelegatedInForce`).  A claim is remembered until its
  assertion has expired (`ClaimsRemembered`), so a second claim of a call comes too late to be worked for
  (`SecondClaimIsLate`); `RightsSeenAgain` follows the second question step by step.  The rights
  are those of the moment the work ended: the receiver asks again then, and not when the result leaves.
- `AuditInvariance`, `FlushedLogIsComplete` (`RepeatsKept`).  What a group has counted is in its row, given
  up, in a write of its chain or still to be written (`GroupKept`), and a reader who flushes waits for a
  write that covers what was counted when its flush began (`FlushCovers`).  Two exceptions are part of the
  statement: nothing is owed for a group that had a write in its chain when the flush began
  (mcp-audit.ts:180), and a count given up with a write that failed (175-178) is settled.

## What stays with TLC

Every invariant and every action property of the passing runs is stated by a theorem above.  The rest:

- Liveness (`LockReleased`, `RecoveryEnds`, `EveryRequestAnswered`, `ComesUp`, `OutcomeReached`,
  `ServerProgress`, `ClientsProgress`): the prover reaches neither `ENABLED` nor fairness.
- `ApprovedFirst` is proved, as it is checked, for one tab.
- That the components of `MCServer` and `MCClients` do not disturb each other needs no theorem: they
  share no variable.  The theorems are about the specification of each component.

# Not modelled

The components marked `not_modelled` in `PROJECT.json`, each with the reason, and what every module
leaves out above: secrets and their bindings, stability figures, the checks for releases and images, the
MCP server with its sessions and catalogue, the algorithms on Compose files, the pages other than the two
above, scripts and images.  Of modelled components: combined logs of a stack, output buffers and sizes of
terminals, relations and the status scan, retention of observations, readiness and migrations, the editor
of files.  Parsing and rendering (docker's output, YAML, docker run commands, pages), release signatures
and sign-in rest on libraries and are out of scope.

# Further hazards

`PROJECT.json` lists the main hazards. These are covered by the same properties:

- `src/extra/updater/restore.go:128`: The restore container belongs to the daemon: it outlives a killed updater, and a second command given meanwhile may start a panel on data that is being replaced. (NoWriterDuringRestore)
- `src/extra/updater/main.go:784`: The process may be killed while compose up runs, so what the journal says last does not tell whether the target has opened and migrated the data. (StartsOnItsData, CutoverRecoverable)
- `src/extra/updater/main.go:755`: The panel is stopped by a command and the phase is a file: a kill between the two must never leave a stopped panel under a journal that says nothing is pending. (JournalTellsDowntime)
- `src/extra/updater/files.go:167`: A copy that runs out of disk leaves an incomplete snapshot that must never be taken for a verified one. (CutoverRecoverable, StartsOnItsData)
- `src/backend/stack-write.ts:480`: One of the files, the selection or the marker fails after others were written, and the compensation or a step of it fails too. (SavesSettled, SavedNeverUndone)
- `src/backend/stack-write.ts:409`: A file is edited outside the panel while the journal is written, between two files of one save, or before the compensation puts a file back. (TextKept)
- `src/backend/stack-write.ts:324`: Two tabs save from the same baseline; the second must conflict even when the first is still half way or was undone. (NoLostUpdate)
- `src/backend/mcp-operations.ts:227`: A client repeats operation_prepare before the first one answered: both find no row for the request id. (AtMostOnce, OnceInv)
- `src/backend/panel-update.ts:728`: Callers share one reading of Docker: it may be older than the request of the one who joins it, and be pushed after a newer status. (OutcomeHonest, PhaseForward)
- `src/common/panel-update.ts:460`: A helper killed after its last write has no result line: the journal decides, and a phase that is not final says nothing about whether the panel was stopped. (OutcomeHonest)
- `src/backend/panel-update.ts:786`: The update is launched and the consumed dry run cannot be removed, or the process dies between the two: both helpers remain. (OutcomeHonest)

These are covered by no property:

- `src/extra/updater/main.go:802`: previous.json, active.json and the phase success are three writes; a kill between them leaves records that disagree with the panel a later recovery starts. ActiveMatchesPanel states it and does not hold: after a kill between active.json (main.go:802) and the phase success, a resume that fails recovers the previous release (recovery.go:218) and leaves active.json naming the target. No run lists it.
- `src/extra/updater/recovery.go:208`: The restart of the untouched previous release fails before any snapshot exists: the journal is left in a phase every command refuses. BeforeTargetStartRecoverable states it and does not hold (README, known disagreements); no run lists it.
- `src/extra/updater/main.go:752`: A first installation is killed after its configuration was written and before its target was started. FirstInstallRetryable states it and does not hold (README, known disagreements); no run lists it.
- `src/extra/updater/docker.go:89`: A docker client the updater started runs in a process group of its own and survives a SIGKILL of the updater, so a compose up of the dead process can still act after a new command has begun. Not modelled: the effect of a killed command is taken at the kill, not later.
- `src/extra/updater/docker.go:375`: A recreate that compose does not finish leaves two panel containers or none under the project's labels, which every later command refuses as ambiguous. Not modelled: the panel is one container at a time.
- `src/backend/stack-write.ts:373`: The stack's files are flushed (252) and the journal is not (373-382): after a power cut a new file can be there while the manifest, the marker or the copies are gone or empty, so the save is neither finished nor undone. The cut is modelled (PowerCut); what SavesSettled and TextKept claim ends with it, and only ComesUp is claimed after one. dockge-server.ts:603 promises more than the code does.
- `src/backend/stack-write.ts:256`: A file is edited outside the panel between its last check (409) and its rename: the edit is overwritten without a conflict. The window is modelled (Races) and is the code's own limit: no property holds in it, although stack-write.ts:437-439 says a manual edit on disk is reported as a conflict.
- `src/backend/mcp-operations.ts:289`: A command that timed out at the client or whose outcome could not be written is recorded as failed with completed: false although it took effect. The model has the case (a command that takes effect and fails); the documentation only promises not to retry, so no property forbids it.
- `src/backend/mcp-operations.ts:294`: The last owned() may refuse the answer of an operation that succeeded, when the key was reduced meanwhile. Only the answer is lost; answers are not modelled.
- `src/backend/mcp-operations.ts:144`: An operation that expires while it runs is pruned from memory when a prepare finds it full, and operation_status then answers unknown for it. Pruning is modelled (Prune); the wording of operation_status is not.
- `src/backend/mcp-operations.ts:208`: The cap of 500 is checked before the awaited insert, so prepares at once can exceed it. Modelled (Cap against Prune and Insert) and harmless: no property bounds the memory exactly.
- `src/backend/mcp-files-git.ts:148`: An MCP write replaces the file in place, without the journal of the panel's own saves: a crash in it leaves a torn file. The model counts the write as one change; dockge-server.ts:603 speaks of journalled saves only.
- `src/backend/mcp-files-git.ts:196`: A deployment takes no stack lock: a save between the last snapshot and the moment Docker reads the file deploys a text nobody reviewed. Docker's own read of the files is outside the model.
- `src/backend/mcp-keys.ts:146`: reissue reads the row, issues a key of the same rights and then writes expires_at: a reduction in between is not carried over, and its shorter lifetime is overwritten. Issuing and reissuing are not modelled yet.
- `src/backend/panel-update.ts:1147`: docker run answers with a failure while the daemon still creates or starts the helper: the name is inspected once, and what appears later was reported as not started. Launch leaves such a container behind and HelperStarts starts it; the page that was told start-failed shows it as soon as a status does, and no line of the documentation promises more.
- `src/frontend/src/pages/StackInspector.vue:1121`: A preview that is asked for and then left with its stack never ends the loading line: previewLoading is reset by its own answer only, which the generation drops, and not by loadStack, so the next stack shows 'checking' until it asks for a preview of its own. A known disagreement (README): the model has no flag for the line.
- `src/frontend/src/stack-run.ts:118`: The answer of a command that was released with its stack finds the same stack chosen again and a second command running, and ends that one on the screen although stack-run.ts:149 says that no answer of a released operation reaches the screen. A known disagreement (README): StackRun compares stacks and not commands. RunsEnd of SelectionPage says what holds all the same: the buttons come back with the second answer.
- `src/backend/stack-config.ts:170`: getAll answers {} when the setting cannot be read; the next set then stores a map without any other stack. The setting shared by several stacks is not modelled.
- `src/backend/settings.ts:102`: A read that started before a set fills the cache after the set deleted its entry. CacheCurrent of StackDirectory says what remains: the value is stale after such a reading, and only until the next set or the expiry.
- `src/backend/stack-secrets.ts:72`: The compose file is written under its journal and the bindings are stored afterwards, outside it: a crash or a failure between the two leaves a file the bindings do not describe. Secrets are not modelled; StackWrite covers only saves whose selection is inside the transaction.

# Plan

Modules are written to be proved about as well as checked: no `RECURSIVE`, constants with named
assumptions, one action per operation, invariants as named conjuncts.

1. `AtomicFiles`, the abstract promise of a save (all files and the selection change at once or not at
   all), with `StackWrite` refining it over the histories of `Covered`.
2. The rest of the pages: the sign-in of the socket (`session-bootstrap.ts`, `mixins/socket.ts`), the
   editor of files against saves and outside edits (`Compose.vue`), the lists.
3. Secrets and their bindings beside the files of a save; issuing and reissuing keys; the remaining MCP
   handlers; readiness and migrations.
4. Pure operators against reference definitions: the status of a stack, stability.
