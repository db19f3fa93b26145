# A verification project for Yaghan

Yaghan runs sandboxes as Firecracker microVMs. A control plane stores what each
sandbox should be; a daemon on every node makes it so. This directory holds TLA+
modules of that system, the TLC configurations that check them on small
instances, and TLAPS proofs of the most important results for every instance.

## 1. The system

### Parts

| part | source | state | operations |
|---|---|---|---|
| Sandbox service | `api-server/pkg/service/sandbox.go` | none of its own | Create, Pause, Resume, Delete, StartSnapshot, Get, List |
| Sandbox table | `api-server/pkg/db/sandbox/dynamodb` | one row per sandbox: version, node, status, intent, digest | Create, Update (conditional puts), Get, List |
| Watchable table | `api-server/pkg/service/watchable_db.go` | none | emits an event after every write without error |
| Event stream, watchers | `api-server/pkg/watch` | Redis stream, last delivered id per watcher, buffers | publish, read loop, deliver, acknowledge, evict |
| Cluster session | `api-server/pkg/service/cluster.go` | one stream per node | connect, forward events, receive updates and patches |
| Node registry | `api-server/pkg/service/cluster_node.go` | one row per node | register, patch (bounded read-modify-write) |
| Snapshot registry | `api-server/pkg/service/snapshot.go` | immutable rows | create, delete |
| Scheduler | `api-server/pkg/scheduler` | none | choose a healthy node |
| Daemon controller | `daemon/pkg/controller` | indexer, work queue, retry counts, stream | dispatch, resync, worker, retry, markFailed, send |
| Reconciler | `daemon/pkg/reconciler` | none | boot, pause, resume, delete, snapshot |
| Firecracker provider | `daemon/pkg/firecracker` | index of microVMs, chroots | create, load, pause, resume, snapshot, destroy, Recover |
| Network, firewall, DNS | `daemon/pkg/network`, `daemon/pkg/dns` | namespaces, rule lists, policies by address | provision, deprovision, resolve |
| Node agent | `daemon/pkg/node` | last samples | metrics and health loops |
| Guest agent, transport | `agent` | conversations, processes | exec, stdin, cancel, file transfer |
| Command line tool | `ctl` | none | reads a version and issues a request |

### How they interact

A client's request makes the service read the row, stamp the client's version
on it, set status (the work in progress, e.g. `PAUSING`) and intent (its target,
e.g. `PAUSED`), and put it back on condition that the version and the prior
phase fit. The written image becomes an event. The daemon of the row's node puts
the image in its indexer unless it is older than the one there, and queues the
id. One worker takes the id, drives the microVM to the intent, and sends the
resulting image back, with the version it started from, as an `UpdateSandbox`
that goes through the same conditional put. Errors are retried a bounded number
of times and then reported as `FAILED`. A periodic resync lists the node's rows
and queues those that still have an intent.

### What makes it hard

Handlers read and write in two steps. Events and reports are lost, repeated and
reordered. Daemons restart with empty memory next to microVMs that kept running.
Calls to the microVM fail after taking effect. A write whose condition fails may
still succeed as a *replay* when the content digest matches, and then emits an
image it did not store. `PROJECT.json` lists these hazards at their lines, with
the properties that cover each one.

### What should hold

- A request accepted is in force until completed, failed or overridden by a delete.
- A late report never undoes a newer request; an accepted delete is never undone.
- No component ever holds an image newer than the row.
- A sandbox has at most one microVM, on the node it was scheduled to.
- A row at rest describes the microVM.
- Every accepted request is eventually settled.

## 2. Modules

| module | content |
|---|---|
| `SandboxImage` | no state: the Sandbox message, the digest, the prior-phase guard, and the images each writer builds |
| `SandboxPhases` | abstract specification: what the service promises about phase and intent of the stored row |
| `Lifecycle` | detailed specification: service, table, event delivery, controller, reconciler and microVM for one sandbox |
| `MCLifecycle` | node symmetry for TLC |
| `Lifecycle_proofs` | theorems and proofs |

### State of `Lifecycle`

| variable | in the code |
|---|---|
| `log` | every row stored, by version; the last is the current DynamoDB item |
| `events` | images published by the watchable table |
| `calls` | handlers between `db.Get` and `db.Update` |
| `updates` | images sent as `UpdateSandbox` |
| `index`, `queued`, `retries` | indexer, work queue, `NumRequeues` of each daemon |
| `pc`, `work` | position of the worker and the image it is about to send |
| `vm` | the microVM in the provider's index: none, running or paused |
| `snaps`, `faults` | source of fresh snapshot ids; faults used so far |

`events` and `updates` only grow, and their elements may be taken at any time,
any number of times, or never. This covers loss, duplication and reordering in
Redis, in the session stream and across reconnections.

### Actions

| action | code |
|---|---|
| `CreateSandbox`, `RetryCreateSandbox` | `CreateSandbox`, and its retry on an existing row |
| `StartCall`, `FinishCall` | the read half and the write half of the other handlers |
| `ApplyUpdate` | `receiveRequests`, case UpdateSandbox |
| `Dispatch`, `Resync` | `dispatch`, `resync`, both through `indexer.Put` and `queue.Add` |
| `Skip`, `Abandon`, `Boot`, `Pause`, `Resume`, `Delete` | one pass of the worker through `reconcilePhase` |
| `PauseForSnapshot`, `FinishSnapshot`, `SnapshotInPlace` | `snapshot` and `CreateSnapshot`, split where the microVM is paused |
| `SnapshotPauseLost`, `SnapshotResumeFails` | the pause or the resume inside `CreateSnapshot` fails |
| `Send`, `SendFails` | end of `processItem` |
| `Requeue`, `GiveUp` | `processNext` on an error; `markFailed` |
| `Restart` | the daemon stops, starts and runs `Recover` |

Only the worker touches the microVM, and the queue never hands an id to two
workers, so taking the id and the provider call are one step; `Restart` may come
between any two. An error is a `Fail` when the environment causes it (counted in
`faults`) and a `Reject` when the daemon's state forces it (not counted).

One sandbox id is modelled, because ids share no state on these paths. Fields no
component branches on are left out. Status messages are kept only as far as the
digest tells them apart.

## 3. Runs

Bounds are written nodes / MaxVersion / MaxCalls / MaxRetries / MaxSnapshots /
MaxFaults. `MaxVersion` only stops new requests, `MaxSnapshots` makes later
snapshots fail; neither blocks the daemon.

| run | specification, bounds | shows |
|---|---|---|
| `lifecycle_faults` | `Spec`, 2/4/2/1/1/1 | `TypeOK`, `NothingAhead`, `EventsAgree`, `OneHome`, `Coherent`, `DeleteSticks`, and refinement `ImplementsPhases`, with restarts, failures and two concurrent handlers |
| `lifecycle_steady` | `SteadySpec`, 1/4/1/1/1/2 | `RestingRowMatchesVM`, all requests |
| `lifecycle_cycles` | `SteadySpec`, 1/6/1/0/1/2 | the same for longer sequences of pause, resume, snapshot |
| `lifecycle_live` | `FairSpec`, 1/4/1/1/1/2 | `Converges` |
| `lifecycle_unchecked` | `UncheckedSpec`, 1/5/1/0/1/1 | violation of `DeleteSticks` |
| `lifecycle_retried` | `RetriedSpec`, 2/5/1/0/1/1 | violation of `OneHome` |
| `lifecycle_resume` | `ResumeSpec`, 1/5/1/0/2/1 | violation of `RestingRowMatchesVM` |

Why the bounds are enough to be interesting: version 4 is a created, booted
sandbox with a request in force and another written over it, so stale copies of
every earlier version are in flight; six versions let a pause, a resume and a
snapshot follow each other; two handlers can race; one retry makes both the
requeue and the give-up happen; one fault can be a restart at any point. Two
nodes are all that matters to `OneHome`, and they are interchangeable, so the
symmetry is sound (that run has no liveness property). No run needs
`CHECK_DEADLOCK FALSE`.

`SteadySpec` leaves out restarts and the two snapshot calls that fail halfway.
That is a real restriction: `RestingRowMatchesVM` does not hold with them. A
daemon that restarts between the pause and the resume of a snapshot finds a
paused microVM and takes it for a client's pause; one that restarts may not find
its microVM again; and after a restart the empty indexer accepts an old `PENDING`
event and boots a sandbox that was deleted.

In `lifecycle_unchecked` and `lifecycle_retried`, `UncheckedCall` and
`RetryCreateSandbox` are added to the steps; the other runs assume clients that
ask for a transition the image they read admits, and that do not retry a create.
The results of section 4 have this assumption too.

### Fairness

`FairSpec` assumes, for every daemon, weak fairness of the worker (a goroutine
that loops for the life of the process) and of resync (a ticker). Of delivery
it assumes only that a daemon which reports on the current row for ever is
heard: single reports may be lost. It assumes nothing about events, so
`Converges` shows that resync alone suffices. Restarts are finitely many
(`MaxFaults`); a daemon that restarts for ever makes no progress.

### Findings

1. *Replay emits an unstored version* (`lifecycle_unchecked`). `Update` bumps the
   caller's image before the put. A pause repeated on a `PAUSING` row is a
   replay, so an image with version v+1 is emitted while the row is at v. After
   a delete takes the row to v+1, the daemon's answer to the phantom image
   passes the version check and turns `DELETING` into `PAUSED`.
2. *A create retried onto another node* (`lifecycle_retried`). The table keeps the
   first node and reports success, but the event names the second, whose daemon
   boots a second microVM.
3. *The resume after a snapshot is not retried* (`lifecycle_resume`). Its error is
   dropped, the row settles at `RUNNING` with no intent, and no later pass
   touches the microVM, although a comment says the next one will.

## 4. Proofs

`Lifecycle_proofs` proves, for all finite non-empty sets of nodes and all natural
bounds (the `ASSUME`s of `Lifecycle`), of every behaviour of `Spec`:

| theorem | statement |
|---|---|
| `TypeCorrect` | `TypeOK` always holds |
| `CoherentCorrect` | `Coherent` always holds |
| `NothingAheadCorrect` | no copy is newer than the row |
| `EventsAgreeCorrect` | an event with the current version is the row |
| `OneHomeCorrect` | only the row's node has a microVM |
| `DeleteSticksCorrect` | an accepted delete is not undone |
| `PhasesImplemented` | `Lifecycle` implements `SandboxPhases` |

The inductive invariant is `Inv == TypeOK /\ Coherent`. None of the properties is
inductive alone: whether a late report may overwrite the row depends on what the
report was made from. `Coherent` says of everything in flight (events, calls,
reports, indexed images, the worker's image) that it belongs to the sandbox's
home and is not newer than the row, and that if it *has* the row's version then
it is the row, or a legal successor of it (`Follows`). When the row advances,
everything in flight becomes strictly older and the second half holds vacuously;
when it does not, the table's condition keeps it. A successful put therefore
always writes a legal successor, which gives the refinement, and the refinement's
step lemma gives `DeleteSticks`.

The proof follows that argument: `TableStep` for a put, `InFlightStep` for what is in
flight when the row moves, `QuietStep` and `WorkStep` for steps of a daemon, one
lemma per group of actions, then `Invariance`, and last the theorems above.

Only model-checked: `Converges` (liveness under fairness is outside the prover's
reach) and `RestingRowMatchesVM`, whose inductive invariant must relate the microVM
to the whole history of the row.

## 5. Not modelled, and the plan

Not modelled because it is I/O or generated: the session file, upload and download
of snapshot files, the API types and Firecracker client, the command line tool's
output. In order, the rest of the plan is:

1. *Host*: `boot` and `delete` step by step (index, namespace, DNS policy, chroot,
   microVM), with crashes and `Recover`. Properties: no two live microVMs share an
   index; a rolled-back boot leaves nothing; what a restart preserves.
   Abstract specification: the `vm` of `Lifecycle`.
2. *Watch*: the Redis read loop, positions, acknowledgement, eviction, and the
   sessions of a reconnecting node. Properties: delivery in order, what may be
   skipped, at most one live watcher per node. It justifies the delivery that
   `Lifecycle` assumes.
3. *Nodes*: registration and patches with bounded retries, and the node agent's
   loops; two writers of one row.
4. *Transport*: conversations over one vsock connection, and the guest's processes.
5. *Pure functions*: DNS name matching and TTL clamping, firewall rule order, listing
   and continuation tokens, against reference definitions.
6. *Proofs*: `RestingRowMatchesVM` under `SteadySpec`; the safety of Host, Watch and
   Nodes.
