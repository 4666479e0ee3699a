# A verification model of yunohost-mcp

yunohost-mcp lets agents administer a YunoHost server over MCP. Requests are
authenticated by signed Nostr events, destructive operations need a
confirmation ticket, the most dangerous ones the owner's signature as well,
and in the packaged deployment a root *broker* runs the operations while an
unprivileged *frontend* serves HTTP. This directory holds TLA+ models of the
parts where processes, threads, clocks, files and hand-kept tables meet, the
TLC configurations that check them, and TLAPS proofs of the central safety
properties. Paths below are relative to `src/src/yunohost_mcp/`.

## The system

| Component | State | Operations | Talks to |
|---|---|---|---|
| SQLite ticket table (`policy/confirmation.py` 316-474) | one row per ticket: requester, tool, arguments hash, expiry, `owner_approved_by`, `consumed_at` | create, approve, peek, consume, finalize, revert | frontend and broker, as two processes |
| In-memory ticket store (`policy/confirmation.py` 157-313) | `_pending`, `_in_flight` | the same | worker threads and push threads of one process |
| Confirmed write (`policy/enforcement.py`, `audit/decorator.py`, `policy/locks.py`, `server.py`) | the `WriteLock` | issue a ticket, accept one, run the tool body | ticket store, broker client, audit log |
| Policy (`policy/rules.py`, `policy/roles.py`, `auth/identity.py`, `auth/delegation.py`) | `policy.toml`, read at start; `identity.toml` and delegations, read per request | choose a rule, the hard checks, resolve scopes | frontend and broker, each for itself |
| Broker (`broker/helper.py`, `broker/operations.py`, `broker/client.py`) | a thread per request, an in-memory replay cache, four tables of operations | handle: authorise, claim, run, finalize or revert, answer, audit | ticket table, YunoHost, audit log |
| YunoHost adapter (`yunohost/adapter.py`) | none | one method per operation, and the workflows | the broker, or YunoHost itself |
| Owner approval (`server.py` 421-467 and 2629-2756, `push_approval.py`) | none | approve_operation, the push thread, approval_get and approval_status | ticket store |
| Request authentication (`auth/nip98.py`, `auth/replay.py`, `auth/middleware.py`) | a replay cache in each process | verify, check_and_record | every request, twice |
| Audit log (`audit/log.py`) | a file, a hash chain of lines | record, list, get, verify | threads of both processes |
| Plans (`server.py` 1830-1862, 2867-2979) | in-memory tickets used as plans | plan, execute, publish | broker |
| Package tests (`policy/package_sessions.py`, `server.py` 2376-2578, `adapter.py`) | a SQLite table of sessions | prepare, each test, the cycle of all | frontend and broker |
| Drafts and deliveries (`concord_pending_signature.py`, `concord_delivery.py`) | two SQLite tables | draft, submit, announce, join | relays; both server processes |
| Concord control plane (`concord_control.py`) | none: folded from relay events at each use | fold roles, grants, channels | relays |
| Bridge (`bridge.py`) | one lazy remote connection per host | connect, request, drop, close | a remote server |

How a write goes: the middleware verifies the NIP-98 event and remembers it.
The tool, without a `confirmation_id`, inserts a ticket and returns it (and may
start a push thread that asks the owner's signer). The owner's event reaches
the store through the push thread or through `approve_operation`. The caller
repeats the call with the id: the frontend takes the `WriteLock`, *peeks* at the
ticket, and forwards the request with its whole NIP-98 envelope. A broker thread
verifies the envelope again with a cache of its own, looks its operation up in
tables of its own, *claims* the ticket (`consumed_at`), runs the operation, and
*finalizes* (deletes the row) or *reverts* (clears the marker). Both processes
append to the audit log.

What is hard about it: the frontend's check and the broker's claim are two
transactions of two processes, made by two sets of tables; a client gives up
after `request_timeout_seconds` while its thread works on; rows lapse and are
removed by whoever looks at them, in the middle of a write; the broker may die
between any two steps; the push thread holds no lock, and neither the audit log
nor the replay caches have one; workflows of many steps fail half-way; plans and
sessions lapse under way; relays take an event and do not say so; one event loop
interleaves requests with connections that come and go.

What makes each part correct:

- tickets: one operation per ticket, only as issued and co-signed, retriable
  exactly until the operation ran, never left unusable while the broker lives;
- the tables: root runs what was asked with what was asked, claims a ticket
  wherever the rule wants one, and does not refuse what the frontend accepted;
- replay caches: a request enters once and authorises one privileged call;
- audit log: no record lost, no intact log reported, no damage unreported;
- plans, sessions, workflows: a plan is carried out once; a test starts in a
  live session of its caller; what a workflow reports is what it did, and a
  test cycle leaves nothing behind;
- publication: one declaration per plan, one announcement per release, one post
  per draft, and a record of it that does not change;
- bridge: no connection nobody will close, no stampede of retries, every request
  and the process come to an end;
- control plane: what is believed depends on what was signed, not on the order
  it came in.

The hazards, each at its line, with the properties that watch it, are in
`PROJECT.json` under `hazards`.

## The modules

| Module | Models | Checked by |
|---|---|---|
| `ConfirmationStore` | the ticket row and what each store method does to a table, as operators both deployments share | with the next and `InMemoryTickets` |
| `BrokeredWrite` | frontend, ticket table and broker threads of the packaged deployment | `BrokeredWrite_safety`, `BrokeredWrite_faults`, `BrokeredWriteProofs` |
| `OneShotTicket` | the abstract promise about one ticket | as a property of `BrokeredWrite_safety`; the implementation is proved in `BrokeredWriteProofs` |
| `InMemoryTickets` | the store of a server without a broker, with its threads | `InMemoryTickets_threads`, `InMemoryProofs` |
| `ServerTools`, `AdapterCalls`, `BrokerOperations`, `PolicyRules`, `Roles` | the hand-kept tables of frontend and root | with the next |
| `PrivilegedCall` | one call through all of these tables while files are edited | `PrivilegedCall_calls`, `PrivilegedCall_twins`, `PrivilegedCallProofs` |
| `RequestReplay` | one NIP-98 event through both replay caches | `RequestReplay_caches`, `RequestReplay_own_replay`, `SignedEventProofs` |
| `AuditLog` | the log file, its writers and `verify` | `AuditLog_writers`, `AuditLogProofs` |
| `Workflows` | plans, package tests, `safe_upgrade`, the test cycle | `Workflows_host`, `WorkflowsProofs` |
| `Publication` | catalogue publication, announcements, drafts, joins in two processes | `Publication_processes`, `PublicationProofs` |
| `ControlFold`, `ControlFetch` | the fold of roles, grants and channels, and the fetching of what it folds | `ControlFold_orders`, `SignedEventProofs` |
| `RemoteSession` | the bridge's connection to one remote host | `RemoteSession_bridge`, `RemoteSessionProofs` |

The `MC` modules only give TLC its small sets and symmetries.

### ConfirmationStore and BrokeredWrite

A ticket is an id drawn from uuid4 and never drawn again. An operation (`Op`)
stands for a policy key with its exact arguments, so that the code's comparison
of tool and arguments hash is one comparison. `OwnerOp` are the operations whose
rule has `require_owner_signature`, `LocalOp` the audit reads, which the
frontend runs itself and which consume without `defer`. An approval event is its
author and the ticket its tags name; signatures are taken to be unforgeable, and
anyone may sign.

`BrokeredWrite` has one action per transaction or observable step:

| Action | Code |
|---|---|
| `IssueTicket`, `PresentTicket` | `require_confirmation` under `audited_write`'s lock; the write keeps the lock in `call` |
| `Forward`, `GiveUp` | `broker/client.py`: send; a refused socket, a timeout, a frontend restart |
| `ApprovalStatus` | `approval_get`, `approval_status`: `peek` first, then who asks |
| `AuditRead`, `AuditReadRefused` | `audit_list`, `audit_get` |
| `SignApproval`, `ApproveOperation`, `PushApproval` | the owner's signer, the tool, the background thread |
| `Deny`, `ConsumeTicket`, `RefuseTicket`, `BeginInvoke`, `InvokeReturns`, `InvokeRaises`, `Finalize`, `RevertClaim`, `SendResult` | `BrokerRequestHandler.handle`, one stage after the other |
| `FinalizeFaults`, `RevertFaults` | a SQLite error in either; only with `StorageFaults` |
| `BrokerCrash`, `Tick` | the process is killed and restarted; time |

Every check before the consume that may refuse (peer, protocol, NIP-98, scope,
free space, backup age) is `Deny`; the package-test session check after it is
part of `InvokeRaises`. `peek` is three autocommit statements in the code and one
step here: between them the row can be claimed, approved or removed, and the
frontend then forwards a call the broker refuses, or refuses one it could have
forwarded; both outcomes are other behaviours of the model. `issued`, `executed`
and `runs` are history variables.

### InMemoryTickets

Without a broker the store is a dictionary no lock protects. Tools that write
hold the `WriteLock`; audit reads, status polls and the push thread do not. A
method that reads the dictionary and removes the key is one step (a second
removal of the key raises and changes nothing); `approve` reads, verifies a
signature, and assigns a copy of what it read, and is two. `finalize` and
`revert` are not called in this deployment.

### The tables and PrivilegedCall

`ServerTools` has a row for every tool that ends in one call of the adapter: its
scope, its parameters, which of them may be `None`, and the policy key its
confirmation is filed under. `AdapterCalls` has the operation and the arguments
each brokered method sends. `BrokerOperations` has each handler, the scope it
needs (`OPERATIONS`), and the policy names and confirmation arguments of
`helper.py`. `PolicyRules` and `Roles` are `policy/rules.py` and
`policy/roles.py`. `PrivilegedCall` composes them: `CallPlainly`, `Ask`,
`Approve`, `Present` at the frontend; `Run`, `Refuse`, `Return` at root; `Lapse`,
`ChangeRole`, `EditPolicy` and `Restart` around them. A value is what the tables
can tell apart: a parameter as given, another value of it, `None`, or the value
that selects a stricter rule. Once-ness and crashes are `BrokeredWrite`'s; here
one ticket and one call exist at a time, and a restart takes the call with it.

### RequestReplay

The frontend admits an event when it is fresh and not in its cache; the tool
forwards the envelope once for each privileged call it makes, and the broker asks
for freshness and its own cache each time. `check_and_record` is two steps in the
broker's threads and one in the frontend, which runs it on its event loop. Every
other refusal is `Deny`. The number of calls a tool makes is read off the code
(`BrokerCalls`). The broker's cache is lost at `BrokerRestart`.

### AuditLog

The file is a sequence of entries, of lines cut short (`Partial`) and of lines
that do not parse (`Garbage`: an entry appended to a line cut short). `record` is
two steps, `ReadTail` and `WriteEntry` or `WriteFails`, because it reads the last
hash before it opens the file to append, in threads of two processes. A hash is
computed from the entry and the hash before it; it is modelled by the sequence
of everything said up to it, so that equal hashes mean equal histories. What a
read returns is a set of line numbers. `ReadLimit` stands for the 64 MiB of
`_MAX_READ_BYTES`: of a longer file `get`, `list` and `verify` see the end only
(`ReadAll`; `Unread` is the rest), while `record` finds the last hash in a file
of any length (it looks back one MiB, which is taken to hold the last entry).
`verify` then has no hash to hold its first entry against and reports it, so that
beyond the limit an alarm says nothing and `TamperingShows` little.

### Workflows

The host is the version of each app, the archive with the fixed name
`safe-upgrade-<app>`, and whether there is any other archive. `work["front"]` is
what the holder of the write lock does, `work["orphan"]` a broker thread whose
client has given up. `MakePlan`, `UsePlan`, `UpgradePlanned` are
`plan_app_upgrade` and `execute_plan`; `Prepare`, `TestBegins`, `Admit`, `Reject`,
`TestEnds`, `Lapse` the package tests at both processes; `SafeUpgradeBegins`,
`SafeBackup`, `SafeUpgradeStep`, `SafeVerify` and `CycleBegins`, `CycleStep` the
two workflows, step by step with every success and failure; `GiveUp`, `Restart`,
`Shell` and `Tick` what happens around them.

As in the code: `execute_plan` uses a plan up before the policy is checked and
before the upgrade, so a failure costs the plan; a plan named by somebody else is
used up as well; the version the plan was made for is not compared with the
catalogue's at the time; the composites are refused in the packaged deployment
(see `RequestReplay_own_replay`) and only modelled without a broker. A cycle asked
for an app that is already installed backs up, removes and restores the
original and then removes it for good, which is why `CycleCleansUp` speaks of
apps that were not there. A second `safe_upgrade` of an app fails at its backup
as long as the first one's archive is kept. A row of a session nobody names again
stays in the table.

### Publication

Two processes (HTTP and stdio) share the SQLite files and have a write lock and
plans each. `call[x]` is what the holder of the lock of process `x` does:
`BeginPublish`, `Forward`, `PublishHere` and `PublishAtRoot` are
`catalog_publish`; `Announce`, `JoinByBot`, `AskDraft`, `Submit` begin the Armada
tools, and `Select`, `Delete`, `Look`, `Prepare`, `PrepareDraft`, `Send`, `Record`
are their steps, each transaction of a store by itself. `PublishAtRoot` may
publish and still fail; `Send` may reach a relay and not be told; `Crash` ends a
process between any two steps.

As in the code: naming a plan uses it up, whoever does, and the broker's failure
gives the approval back though the plan it was for is gone (300 s against
1800 s); the publication `catalog_announce` announces is the caller's word; a
draft is deleted before its owner, purpose and expiry are checked, so the wrong
caller burns it; `INSERT OR IGNORE` keeps the first event's id while each answer
names its own. The key of a delivery is the event id, else the `naddr`, else
repository, app and version; one release described in two ways has two keys, and
a `Release` of the model is one key.

### ControlFold

The one variable, `fetched`, is what a fetch has returned, in its order; the fold
itself is a tower of pure operators (`RosterChain`, `HeadsOf`, `Members`,
`Admitted`, `Accepted`, `Believed`, `ChannelHeads`) named after the functions of
`concord_control.py` they stand for. `ControlFetch` adds the behaviour: an edition
comes in, or a new fetch begins. The chain of an entity is a recursive function
of the version and the rounds of `build_roster_authorizer` one of their number:
each round but the last admits at least one edition more, so that as many rounds
as there are editions are enough, and no more than `MaxRounds` are made, as in
the code.

Two things of the code show in the premises: of two grants to one member
`_roster_members` takes the one that came later, so that `OneGrantEach` is a
premise of two properties; and of rivals the one with the lowest id counts,
whoever signed it, so that an owner who empties a member's grant has the last
word only as long as nobody's edition is chosen before it: `Dismissed` asks that
the chain accepted of the grant is the owner's own. `fold_channel_metadata` looks
only at the edition with the lowest id of each version. A later edition that is
not marked deleted brings a deleted channel back, although `concord_control.py`
304 calls deletion terminal. The failure of a whole load on one malformed event
is left out.

### RemoteSession

Requests, connection tasks and the shutdown of the bridge on one event loop: a
step is the code between two awaits. `Begin`, `Locked`, `Awaken` are `_connect`;
`OperationReturns`, `OperationFails`, `DropLater` are `request` and `_drop`;
`ConnUp`, `ConnFails`, `ConnCloses`, `ConnBreaks`, `ConnEnds` are
`_run_connection`; `StdioEnds` and `Close` the end of `_async_main`; `Cancel` any
await's cancellation. `causes` remembers two things the session does not repair:
a request cancelled while it waited for its connection, whose task then holds a
connection nobody else knows of; and a connection that ended so late that its
`finally` forgot its successor. The properties hold up to these two.

## What the runs show

| Run | Question | Result |
|---|---|---|
| `BrokeredWrite_safety` | two tickets, two threads, owner and agent, crashes, timeouts: does one ticket run one operation, as issued, co-signed, and never again? is the whole an implementation of `OneShotTicket`? | holds |
| `BrokeredWrite_faults` | does anything but a lapse, a completed operation or a misused audit read remove a row, does any step take an approval back, does a claim stay behind, with SQLite errors and crashes? does every claim end? | no; yes unless its thread was lost |
| `InMemoryTickets_threads` | what does the lock still buy with threads that do not take it? | what runs was issued and co-signed; a write ticket no push thread approved runs once |
| `RequestReplay_caches` | is a request admitted once, and does one event authorise one call, across restarts? | yes |
| `RequestReplay_own_replay` | does the broker ever refuse its own frontend? | yes, for tools that call it more than once |
| `AuditLog_writers` | several writers, a full disk: what is left, and what does `verify` see? | no record is lost but the one after a cut line and what lies beyond the read limit; while no two records overlap, `verify` is quiet on an untouched file up to the limit, complains of any beyond it, and reports every damage but a truncation |
| `PrivilegedCall_calls` | do the tables of frontend and root fit, for every tool? | yes, with the exceptions the properties name: a rule for `service.start` is the frontend's alone; a cycle without an app's name, a plan under a confirming rule and two reads by delegates are refused by the broker |
| `PrivilegedCall_twins` | does a ticket run only the tool it was issued for? | no: tools under one policy key with the same parameters are not told apart |
| `Workflows_host` | plans, tests, safe upgrades and cycles that fail anywhere, give up, restart, with a shell on the host | a plan runs once, the safety backup is of the version replaced, a violation hides no upgrade, a cycle cleans up or says so, a test starts in a live session, the lock is released |
| `Publication_processes` | two processes, two people, crashes, lost answers | one publication per plan; one announcement but for lost answers and races; one post per draft but for races; records stand |
| `ControlFold_orders` | does the order of arrival matter, does a dismissal hold, is the head of a chain grounded? | no (one grant each); yes; yes |
| `RemoteSession_bridge` | connections that fail, break, end late; cancelled requests; shutdown | no leak but for the two named causes; retries paced; everything ends |

The two violated properties state what a comment or docstring of the code says;
the `findings` of `PROJECT.json` quote it. Seen in the models, and kept out of
the runs' properties by a named exception or bound:

- `finalize` that fails after the operation ran lands in the `except` that
  reverts the claim: the ticket is good for a second run (`broker/helper.py` 290);
- a client's timeout releases the `WriteLock` while the broker works on, so that
  two writes are in flight (`broker/client.py` 40);
- without a broker, an approval the push thread verified while the ticket was
  used stores it again (`policy/confirmation.py` 233);
- two overlapping `record`s fork the chain, and `verify` reports an untouched file
  (`audit/log.py` 91); a log longer than the read limit is reported too, and one
  whose end was cut off is accepted;
- two processes that both `SELECT` a draft before either `DELETE`s it both post it
  (`concord_pending_signature.py` 121);
- a release announced by two processes at once, or again after an answer was
  lost, is announced twice (`concord_delivery.py` 38).

### Bounds, and why they are enough

- *Tickets*: rows of different tickets meet only at the lock, the threads and an
  approval presented for the wrong ticket: two. One in `BrokeredWrite_faults`,
  whose properties are about single rows.
- *Threads*: a race for a claim needs two; the third writer of the audit log is
  there so that one may read the tail between two forked appends.
- *Identities*: the owner and one agent; a third would play the agent's part.
- *Operations*: one of each way through the code: a plain write, a guarded one, a
  guarded audit read. `BrokeredWrite_safety` and the in-memory run leave out the
  plain write, which asks less of everybody.
- *Time*: `Ttl` 1 and `OwnerTtl` 2 with a clock to 2 or 3: either kind of ticket
  can lapse between any two steps. In `RequestReplay` `Skew` 1 and `Ttl` 3 keep
  the order of the packaged values (60 and 300 seconds, more than twice the skew)
  and the clock runs to 6, past the end of every entry made while its event is
  fresh.
- *Log*: five calls of three writers: a fork, a line cut short and an entry after
  each; a read takes in three lines, so that the file outgrows it.
- *Calls*: every tool, with three roles (none, one without the scope of most
  writes, one with all) and a policy file that adds confirmation to four keys,
  `services.start` among them; one ticket and one call at a time, because each is
  judged by itself.
- *Host*: the control plane's own app and one other, two versions, one plan and
  one session of either of two people, one tick; the shell interferes at most
  once in a workflow. `Tested` keeps tests off the control plane, for which the
  steps are the same.
- *Publication*: one release, one draft, two people, two processes (a draft and a
  release race only with themselves), at most three events on the relays.
- *Editions*: nine, six to a fetch: two levels of delegation, a dismissal, two
  rivals for a first edition of a channel, a deletion, a second grant to one
  member, in every order. No version is above 2 (`MaxVersion`, 2^64 - 1 in the
  code); `MaxRounds` is the code's 128, never reached by six editions.
- *Requests of the bridge*: three: one that connects, one behind it in the lock,
  one that calls over the connection or starts the next.
- *Counters*: `runs`, `entered` and the like stop at 2; no property tells more.

Sizes: the largest runs are `Publication_processes` (2.5 million distinct
states) and `InMemoryTickets_threads` (0.6 million). `SYMMETRY` permutes tickets,
threads, people or processes, and only in runs without a liveness property.
`CHECK_DEADLOCK FALSE` is set where the bound on calls or on the clock ends the
model, and where the bridge has shut down.

### Fairness

- `BrokeredWrite_faults`: weak fairness of `Handle(w)` for each broker thread. Its
  steps are plain code of a `ThreadingMixIn` server; the one that may take long
  is YunoHost's own operation, which is assumed to return or raise. Nothing is
  assumed of clients, owners or the clock.
- `Workflows_host`: weak fairness of each step of a workflow that holds the lock
  (`Compose`) and of each side of a brokered call (`Serve(j)`), on the same
  grounds. A client giving up, the shell and the clock have none.
- `RemoteSession_bridge`: weak fairness of each request's steps, each connection
  task's steps and of `Close`: the event loop runs what is ready, and
  `httpx2.Timeout(120.0)` ends every wait on the network. A broken connection, a
  cancellation and the end of the retry delay are not assumed to happen.

## What is proved

All theorems hold for every value of the constants under the assumptions the
modules name: any number of tickets, threads, people, processes, events,
releases, apps, connections and records, any TTL and clock bound. The
assumptions are of three kinds. `StoreAssumption`, `WriteAssumption`,
`InMemoryAssumption`, `ReplayAssumption`, `PublicationAssumption`,
`WorkflowsAssumption`, `CallAssumption`, `LineAssumption` and `EditionAssumption`
give the constants their types and keep apart what the code keeps apart. `NoRowAssumption`,
`RowAssumption`, `IdleAssumption` and `NoConnAssumption` say that a mark for
"nothing" is not something. `TablesAgree`, `BindingsTellApart` and
`ToolsAreUnderstood` speak of the concrete tables and of no constant: evaluating
them decides them, which TLC does at the start of every run of `PrivilegedCall`.
`EditionAssumption` also says that two editions with one id are the same, as an
id is a hash. Two theorems have a hypothesis of their own: `OneShot` and
`OneShotRefinement` need `~StorageFaults`, which the `_safety` run satisfies.

| Module | Theorem | Statement | Argument |
|---|---|---|---|
| `BrokeredWriteProofs` | `TypeCorrect` | `Spec => []TypeOK` | inductive as it stands |
| | `ClaimsAreExclusive` | `Spec => []ExclusiveClaim` | `ClaimInv` |
| | `OnlyAuthorisedRuns` | `Spec => []Authorised` | `ClaimInv` |
| | `OneShot` | `~StorageFaults` implies `Spec => [](AtMostOnce /\ NeverRetriableOnceDone)` | `OneShotInv` on top of `ClaimInv` |
| | `NothingBurnsInVain` | `Spec => BurnedForCause` | `Carries`, on top of `ClaimInv` |
| | `ApprovalsStand` | `Spec => ApprovalKept` | `ClaimInv` |
| | `NoClaimIsOrphaned` | `Spec => NoOrphanClaim` | `ClaimInv` |
| | `OneShotRefinement` | `~StorageFaults` implies `Spec => ImplementsOneShot` | `RefinementInv`, one mapped step per action |
| `InMemoryProofs` | `OnlyAuthorisedRuns` | `Spec => []Authorised` | `RowsBound` |
| | `LockedTicketsRunOnce` | `Spec => []OneShotUnderLock` | `UsedMeansGone` |
| `SignedEventProofs` | `EventsAdmittedOnce` | `Spec => []AdmittedOnce` | `EntriesLast` |
| | `OneCallEach` | `Spec => []OneCallPerEvent` | `EntriesLast`, `OneAtATime` |
| | `OrderIsForgotten` | `Fetch!Spec => []OrderDoesNotMatter` | `ExchangeChangesNothing`, of any sequence of editions |
| | `RevocationIsFinal` | `Fetch!Spec => []RevocationHolds` | `DismissalHolds`, by `ChainBetween` |
| | `HistoryIsWhole` | `Fetch!Spec => []Unbroken` | `WayBackIs` |
| `PublicationProofs` | `TypeCorrect` | `Spec => [](TypeOK /\ RecordsAreTrue)` | inductive as they stand together |
| | `PlansPublishOnce` | `Spec => []PublishedOnce` | `PlansAreFresh` |
| | `DraftsPostOnce` | `Spec => []DraftOnce` | `DraftsAreFresh` |
| | `RecordsStand` | `Spec => RecordStands` | `RecordsAreTrue` |
| | `ReleasesAnnouncedOnce` | `Spec => []AnnouncedOnce` | `PostsAreKnown` |
| `RemoteSessionProofs` | `NoConnectionLost` | `Spec => []NoLeak` | `SessionInv` |
| | `AttemptsPaced` | `Spec => []Paced` | `SessionInv` |
| | `FailuresDropTheirOwn` | `Spec => DropsItsOwn` | `SessionInv` |
| `WorkflowsProofs` | `PlansRunOnce` | `Spec => []PlanRunsOnce` | `WorkflowInv` (`PlansSpent`) |
| | `BackupsAreCurrent` | `Spec => []SafeBackupIsCurrent` | `WorkflowInv` (`SafeProgress`) |
| | `ViolationsHideNothing` | `Spec => []ViolationMeansNotUpgraded` | `WorkflowInv` (`SafeProgress`) |
| | `CyclesCleanUp` | `Spec => []CycleCleansUp` | `WorkflowInv` (`CycleProgress`) |
| | `PassesAreComplete` | `Spec => []PassedMeansTested` | `WorkflowInv` (`CycleProgress`) |
| | `TestsAreAdmittedLive` | `Spec => AdmittedLive` | `WorkflowInv` |
| `PrivilegedCallProofs` | `CallsAreUnderstood` | `Spec => []TypeOK` | `CallInv`, `ToolsAreUnderstood` |
| | `RootHasClaimed` | `Spec => []ClaimedAtRoot` | `CallInv`, `TablesAgree` |
| | `PlansAreCarriedOut` | `Spec => []PlanIsWhatRuns` | `CallInv`, `BindingsTellApart` |
| | `AcceptedCallsAreAdmitted` | `Spec => []AcceptedIsAdmitted` | `CallInv`, all three |
| | `NothingGetsLost` | `Spec => []NothingLost` | `CallInv`, `ToolsAreUnderstood` |
| `AuditLogProofs` | `RecordsAreKept` | `Spec => []RecordsKept` | `LogInv` |
| | `UntouchedFilesVerify` | `Spec => []NoFalseAlarm` | `LogInv` |
| | `TamperingIsSeen` | `Spec => []TamperingShows` | `LogInv` |

*Brokered writes.* `ExclusiveClaim` is not inductive: a claim requires an unmarked
row, so one must know that whoever holds a claim shows in the row
(`HeldIsConsumed`); and that a row is removed under a holder does not help a
second one, because an id is issued once: `Bound` says that rows, threads and
history agree on what was issued, and with which signature. `Bound` also keeps
audit tickets, which are consumed without a marker, away from the broker.
`ClaimInv` is the conjunction of these. `AtMostOnce` needs more (`OneShotInv`): a
thread on its way to the operation holds a ticket that is not done, and a thread
that failed after it no longer has a row to revert (`HeldIsFresh`). The second is
what a failing `finalize` breaks, hence the assumption `~StorageFaults`.
`BurnedForCause` looks at a row after it is gone, when `Bound` says nothing more
of it: `Carries` says that a call and the thread that works for it still carry
what their ticket was issued for, and that a thread past its operation has it
counted in `runs`.

*The refinement.* A ticket of `OneShotTicket` is `done` once its operation ran,
`running` while a thread holds it, `pending` while its row is there unclaimed, and
`void` when it can no longer be used. Under `RefinementInv` exactly one of these
holds, and what it is depends on four facts about the ticket alone
(`StatusFacts`); each action is shown to change these facts, ticket by ticket, as
one step of the abstract specification does, or not at all (`MoveStep`). Several
tickets may move at once, as when the broker dies with all its threads.

*In memory.* A ticket may come back with the copy an `approve` call wrote, so that
nothing can be said of the table alone: `RowsBound` says of the stored rows and of
the rows in the hands of `approve` calls alike that they are as issued, and that
an approval has the owner's signature behind it. `UsedMeansGone` says that a used
ticket is in neither, unless a push thread has been at it: the tool's own
`approve` holds the lock the consuming tool needs.

*Replays.* `AdmittedOnce` needs the arithmetic of the windows (`EntriesLast`): an
entry outlives the freshness of its event because an event may be seen `Skew`
early and stays fresh for at most twice that, which is less than `Ttl`. At the
broker the look-up and the recording are two steps; `OneAtATime` says that of the
threads that carry one event at most one is between them or has been let through.

*Publication.* A plan that is not used up, or is used up by a call that has not
published yet, has never been published, and there is only one such call
(`PlansAreFresh`); the same for a draft that nobody raced for (`DraftsAreFresh`).
An event that is recorded or about to be is one of that release
(`RecordsAreTrue`), which `TypeOK` shares its induction with. `AnnouncedOnce`
counts the posts of a release: `PostsAreKnown` says that without a race they are
no more than those lost plus the one that is recorded or about to be, that one
process at most is between its look-up and its record, and that none is when
there is a record; one post more is one number more in a finite set, so that no
sequence has to be folded.

*The bridge.* The lock is held across one await only, by the request that waits
for its connection (`LockIsWaiting`), and nobody else starts or drops a
connection meanwhile. Hence one connection at most holds on, and `_remote` and
`_close_event` are its (`ComingUp`, `Up`, `OfOne`), as long as neither of the two
named causes has struck. `DropsItsOwn` adds that a request's `client` is a
connection (`CallersHaveOne`).

*Workflows.* A plan somebody is about to carry out is gone and was never carried
out, and nobody else is (`PlansSpent`): the one who gives up and the thread that
works on are the same piece of work. `Alone` says that while a composite runs no
broker thread does, so that only the shell can change the host under it, which
`steady` records; `SafeProgress` and `CycleProgress` then say what its report
holds and how the host stands at each stage.

*Calls through the tables.* The behaviour is proved and the tables are computed:
`CallInv` says that calls and tickets are of tools there are, that what root runs
was admitted under the rules root has and claims a ticket that fits it
(`RunsAdmitted`), and that what the frontend accepted still holds until somebody
edits something (`StillAccepted`). It mentions no particular tool. That the
frontend's key is the broker's policy name, that a key with its bound arguments
belongs to one tool or its twin, and that every tool's request is understood are
the three assumptions about the tables. They speak of names, which can be
computed; `NothingLost` speaks of values, and follows for every value: a request
binds a name to what the tool was given or filled in, and root's handler reads it
by the same name.

*Log.* `LogInv` says that writers have calls of their own, that each record that
was lost cost a garbled line (`LossesCounted`), and that the entries follow one
another while no records overlapped (`Chained`). The first entry that is read
follows the newest of those that are not: it matches the genesis hash if and only
if there are none, so that the alarm beyond the limit is certain. For tampering,
the first entry that verifies but is not the one of the original would have a
predecessor with the right hash, and a hash tells all that was said before it, so
that there is no first one: a least element (`WFMin` of the library) stands where
one would use induction.

*Control plane.* The behaviour says only that what was fetched is a sequence of
editions; the three theorems are about what the fold computes of any such
sequence. That the recursive functions of the fold exist and are what their
equations say is proved by the least number at which two approximations would
differ (`Recursion`, and `Climb` for what holds from one step to the next), again
in place of induction. `OrderDoesNotMatter`: the editions are the same set, and
with one grant to each member there is no choice left that looks at the order, so
that members, rounds and channels depend on the set alone (`MembersAgree`,
`AdmittedAgree`, `AcceptedAgree`). `RevocationHolds`: the accepted editions only
grow, from the owner's own to the last round's, and a chain on which the first and
the last of these sets agree is the same in every set between (`ChainBetween`);
the empty grant is hence the head in every round, its member is a member in none,
and nothing of it is admitted (`NoSay`). `Unbroken`: a version of a chain is chosen
only after the one before it, so that there is no greatest gap on the way back.

Only model-checked: liveness under fairness (`ClaimSettles`, `RequestsEnd`,
`ShutdownEnds`, `LockReleased`), which TLAPS does not treat. Every other
property of a passing run is a theorem.

## Not modelled

- *Bridge to several hosts* (`bridge.py` 430-640): merged tool tables and routing
  over one session each.
- *Signer pairing, onboarding and delegation programs* (`approve.py`,
  `onboarding.py`, `delegate.py`): interactive programs of one user that write
  files or post one event.
- *Guestbook, membership and routing* of Concord, envelopes, keys and invites:
  formats and key derivation; relays are an environment of `Publication` and
  `ControlFold`.
- *Resolving an identity*: groups, npubs, the owner's sources; a delegation is the
  intersection of what it asks for and the delegator's scopes.
- *Request slots and the middleware's timeout*: to everything behind them, the
  timeout is a client that gives up.
- *`repair_app`, catalogue inspection, diagnosis and log parsing* in the adapter,
  and what YunoHost itself does with a call: it succeeds, or fails half-way.
- Cryptography, hashes and encodings (taken as injective and unforgeable), message
  framing, lengths and formats of values, redaction and wording, configuration,
  notification and look-up clients, and SQLite's own atomicity and durability.
