# QSA HiSparse in TLA+

`sglang_qsa_hisparse` is a plugin for the SGLang server. It lets models with
quantised sparse attention (QSA) keep the K/V cache of a decoding request in
host memory: a request is prefilled through one raw staging lane on the device,
its closed blocks of four tokens ("C4 blocks") are handed to a host slab, and
decode keeps a small ring of open tokens, a hot buffer of resident blocks and a
table of what is resident. A host cache of prefix checkpoints lets later
requests skip what they have in common with earlier ones.

The kernels are arithmetic and are tested as such. What is hard is who owns
which piece of memory at which moment: leases that outlive their pool row,
copies that outlive the call that queued them, calls that raise half-way,
rollbacks that are repeated, ranks that must decide alike, and one process in
which other plugins hook the names this one has patched. That is what these
modules model. All paths below are relative to the repository; the runtime is
`src/sglang_qsa_hisparse/hisparse`, the patches on SGLang are
`src/sglang_qsa_hisparse/patches`.

## 1. The system

### Components, their state and their operations

| component | source | state | operations |
|---|---|---|---|
| lease table | `hisparse/slots.py` | active lease, phase and last generation by row; sorted free slots; owner of the staging lane | acquire, begin/finish handoff, admit_decode, mark_failed, drain, logical_flushed, commit_release; address arithmetic |
| runtime of a rank | `hisparse/runtime.py` | request caches by row, pending releases, blocked graph leases, streams and events, ring/hot/host storage | begin_batch, handoff, decode store and resolve, graph replay and its failure, release, after_release, logical flush, prefix restore and capture |
| coordinator | `hisparse/coordinator.py` | the staging queue, the target of the initial batch | handoff of a request into staging, the votes of collect_ready_reqs, the wait for the initial batch, idleness, release |
| lifecycle hooks | `patches/hisparse/lifecycle.py` | none of their own | around alloc_for_extend, release_kv_cache, the allocator's free group, clear |
| host prefix cache | `hisparse/prefix.py` | checkpoints in LRU order, retired ones, readers, reserved bytes and entries, epoch | acquire, reserve, publish, close (reader, reservation), reset |
| prefix adapter | `hisparse/prefix_cache.py` | matches and restoring records by request | match, prepare, restore, rollback, claim_kv_row, capture and publication, reset |
| scheduler patches | `patches/hisparse/scheduler.py` | the prompt in chunks, the running requests, the adder's chunk limit | allocatable requests, chunk or decode, result processing, abort, idleness |
| single-request owner | `hisparse/single_request.py` | the phase-1 owner of one request, its slab, its states by layer | begin_batch, handoff, after_store, selected, release, after_release |
| image identity | `hisparse/image_identity.py`, `image_request.py` | image key of a request | boundary keys, comparison |
| configuration, pools | `hisparse/config.py`, `patches/hisparse/pools.py` | capacities | byte prices, pool construction, validation, choice of the cache |
| graph and attention hooks | `patches/hisparse/graph.py`, `qsa_backend.py` | captured graphs, static buffers | capture, load of a batch, replay, its failure |
| attention layer | `patches/model_compat/qsa_attention.py`, `kernels` | the K/V pool, the layer's scale, the planned wrapper | store, selection, fused path, the read paths |
| activation | `patching.py`, `plugin.py`, `fingerprint.py`, `features.py`, `scope.py` | registered hooks, bindings, features, the activation record | load, registration, final verification, scope |
| launcher | `launch.py` | the server process | start, wait ready, signals, stop |
| service controller | `tools/qsa_service.py` | invocation record and marker on disk, systemd unit | start, stop, status |
| the model's forward, arithmetic of the kernels, evidence tools | `patches/model_compat/qwen4_exp.py`, `kernels`, `tools` | none that outlives a call | numerical code, offline reports |

### How they interact

- The scheduler's single thread makes every call of a rank. It calls the
  patched hooks, the hooks call the adapter (runtime or prefix adapter), the
  adapter calls the lease table. There is no lock in the runtime; the host
  prefix cache has one, for it has users on other threads.
- The device runs beside the thread: two or three CUDA streams, ordered only
  by events. A call returns when its work is queued, not when it is done.
- SGLang's pools are external: the row pool with its generation per row, the
  page allocator with its free groups (frees are collected and returned at the
  end of a group, then the "after" hook runs).
- SGLang loads the plugin in every process: the plugin registers hooks in a
  registry it shares with other plugins, and bindings of names in modules
  anybody can rebind. It verifies them last, when the scheduler is configured,
  and writes the record the launcher waits for.
- Ranks share nothing; they meet in the collectives of `collect_ready_reqs`,
  of the prefix adapter's votes and of each forward.

### What is hard, and what makes it correct

- *Custody.* A slot, a lane or a logical page is reused only when no device
  work and no logical page of the old lease is left - though release, flush
  and commit are three calls, the row is reused before the lease is gone, and
  a stale lease may be presented to any method.
- *Calls that fail half-way.* Each call with several effects may raise between
  them; callers go on with other requests. Nothing may be freed twice or lost.
- *Streams.* One row of the hot buffer is the source of an asynchronous copy
  and the destination of the next block; one graph event is re-recorded by
  each replay; tables outlive the lease that filled them.
- *The host cache.* Reservation and publication are two steps; shared segments
  are counted once; a flush may come in between.
- *Transactions.* An allocation with a restore must be undone by a rollback
  that may itself raise, and is then repeated in another state of the world.
- *Ranks.* A rank that decides from its own events only would wait in another
  collective than its peers, or in a forward of another batch or chunk.
- *Between the framework's lists.* A parked request is in none of the lists the
  framework looks at for aborts, idleness or capacity; each has a patch of its own.
- *A process others patch too.* Activation is a sequence of registrations that
  may stop anywhere, be repeated under other switches, or be undone by others.
- *Answers computed twice.* Memory is priced in one place, built in a second
  and checked in a third; switches are read again at each.
- *Paths that must agree.* K/V are stored in place or as a copy, scaled or not,
  and read by one of six paths chosen from other facts than the store's.
- *Progress.* One lane, a few slots and deferred releases: every request must
  still be served and every lease come back.

`PROJECT.json` lists each hazard at its line with the properties that cover it.

## 2. The modules

    QSACustody                 what any keeper of backings promises
      ^  implemented by          ^  implemented by
    QSASlots  <---- EXTENDS ---- QSALifecycle        (one rank, all calls)
      ^    \
      |     <---- EXTENDS ---- QSAPrefixTransaction  (allocation + rollback)
      |
    QSAWriteback      (streams and data of decoding leases)
    QSAHostPrefix     (the checkpoints and their users)
    QSACoordinator    (the schedulers of all ranks)
    QSALaunch         (the launcher and its process group)
    QSAService        (the controllers of a managed unit)

    QSAActivation     (the load of the plugin)
      ^  EXTENDS
    QSAConfig         (pools, owner and cache of a start)
      ^  EXTENDS by each of
    QSASingleRequest, QSAGraph, QSAAttention
      ^  EXTENDS
    QSAProcess        (a process from its load to its requests)

The theorems about a module are in a module `..._proofs` that EXTENDS it: there
is one for each of QSASlots, QSALifecycle and QSAPrefixTransaction (which build
on that of QSASlots), QSAWriteback, QSAHostPrefix, QSACoordinator and
QSAProcess, and QSAOperation_proofs for QSALaunch and QSAService.

Each `MC...` module gives the constants of one of them small values.

### QSACustody - the abstract specification

Backing slots have holders, one holder has the lane, identities are spent, and
`GiveBack` needs a holder that nobody uses. It says nothing of phases, queues
or flushes. Two modules implement it with two readings of "using": QSASlots
with what the table *believes* (the phases), QSALifecycle with what *is* there
(device work and logical pages).

### QSASlots - `hisparse/slots.py`

One action per method, guards from `require` and the explicit checks. `active`,
`phases`, `last_generation` and `prefill_owner` are the code's dictionaries and
attribute; `free_slots[s]` counts how often the free list holds slot `s`, so
that a double free would be seen. Actions take any lease value, not only the
active one: stale callers are part of the environment. `DrainRaises` is the
drain whose event raises: an `Exception` leaves `failed`, anything else leaves
`releasing`. `RingStart`, `RingSlice`, `StagingSlice`, `RawPoolSize` are the
address arithmetic.

### QSALifecycle - `runtime.py`, `coordinator.py`, `patches/hisparse/lifecycle.py`

`stage[rid]` is where the scheduler keeps a request, `row`/`generation` are the
row pool, `requests` the runtime's caches by row, `ack_staging_queue` and
`pending_releases` the two queues, `free_group` the allocator's group, `work`
the outstanding device work, each piece with its lease and kind. `tracked`
says whether some event that `release` waits for covers it. `call` is the point
inside a call with several effects, so that `HandoffFails`, `Raise` or
`Commit(TRUE)` can come between two of them.

| code | actions |
|---|---|
| row allocation with the caps of the scheduler patch | AllocRow |
| `begin_batch`, extend | BeginPrefill (also raising behind `acquire`), PrefillChunk |
| `handoff` | HandoffBegin, HandoffFinish, HandoffFails |
| `admit_request_into_staging` | Park |
| `collect_ready_reqs`, one rank | Collect (also cut short by the ledger) |
| `begin_batch`, decode; `fail_graph_replay` | Decode, GraphFails |
| `release`, then `release_kv_cache`, `after_release` | Release, ReleaseFails, FreePages, FreeRow, Defer, MarkFlushed, Commit, Raise (also between any two of these), ReleaseUnleased |
| the free-group hook, `after_logical_flush` | FreeGroupBegin, FreeGroupEnd, then MarkFlushed/Commit with `call.op = "flushing"` |
| the device | Complete |

`lost` are requests that left the queue in a `collect_ready_reqs` that raised:
the scheduler never gets them.

### QSAWriteback - `runtime.py`, `single_request.py`, `graph.py`, `layout.py`

`producer` and `copies` are the two streams as queues. A decode step of the
thread appends `store`, `close`, `resolve` and `record` operations to the one
and the copies of closed blocks to the other; `Store`, `Close`, `Resolve`,
`Record` and `CopyToHost` execute the heads. A copy is named by its slot, the
generation of its lease and its block, and events go by the names of the copies
they are about: an operation has the copies whose done event the stream waits
for before it (`after`), and the copies whose event it records (`ready`). An
operation is executed when the copies it waits for are done, a copy when the
operation that records its event is. `ring`, `hot`, `tokens` (the
resident table), `host` and `compact` hold tokens, known by the generation of
their lease and their position, so that a read of another lease's bytes or of
another position is visible. `Resolve` takes any selection of blocks and any
placement of the missing ones that the code's replacement permits. `graph`,
chosen once, decides between one event per slot (`done`) and the single shared
event of the replays (`graph_copy_done`). One layer is modelled: layers have storage of
their own and do the same work. The thread queues a whole step before the
device sees any of it; since streams only consume from the head, a device that
starts earlier sees a prefix of the same queue. Eager and graph decode do not
mix in a process.

### QSAHostPrefix - `prefix.py` with capture and match

The tables of the cache with the readers, reservations and the epoch; requests
that match, prefill to a boundary, capture, and publish or fail. Cache
operations are atomic (each is under the lock); a capture is two steps, with
anything in between. That is wider than the scheduler's single thread, which
does some of the orders only, and it is what the cache itself permits: its
tests read it with eight threads. Prompts are counted in pages, the image key
is ignored (a prompt with images is a prompt of other content). `staged` is a
history variable: the pages, by the copy they come from, whose bytes a request's
staging lane has, restored from there or copied there by its captures. `Only(s, K)` is
an OrderedDict of which only the keys in K are left. `reserve` may
evict every unpinned entry and still fail, as the code does; `EvictsAsNeeded`
therefore bounds the victims only when it succeeded.

### QSAPrefixTransaction - `prefix_cache.py` with the alloc_for_extend hook

`restoring` is the record of a prepared request: reader, `prefix` and `suffix`
pages, the noted lease, whether it was drained. `table[q]` is the row's pages,
`free[p]` counts page `p` in the allocator's free list. Between `Prepare` and
`HandMiss`/`RestoreDone` any step may `Raise`; the rollback is `Sync`, then
`UndoChunk` for a later chunk or `UndoDrain`, `UndoFree` (the pages), `UndoRow`,
`UndoEnd` for a fresh request; each may raise and keep the record, and `Retry` calls it again (the
code does so from the next allocation, which refuses a request with a record;
tests/prefix/test_prefix_cache.py does so explicitly). In between other
requests run: the freed row of the first may be another's when its rollback is
repeated. Votes of the ranks inside the transaction appear as steps that raise.
The rollback runs outside a free group, so the pending-release branch of its
`finally` is not reachable and not modelled; the recurrent state slot is freed
with the row and goes with it. `Taken(n)` is some `n` different free pages;
which ones the allocator gives is left open, and the proofs use nothing else
of it.

### QSACoordinator - `coordinator.py`, `patches/hisparse/scheduler.py`, every rank

One turn of a rank's loop: `JoinReceive` (what rank 0 received, aborts among
it), `JoinTotal` (aborts applied, the prompt in chunks stashed), `JoinVotes` and
`Admit` (`collect_ready_reqs`), then `SchedulePrefill`, `ScheduleDecode` or
`ScheduleNothing` (`get_next_batch_to_run`, `on_idle`), a forward, and its
result. A rank in a collective waits until all have joined (`Complete`); it can
only complete when all are in the same one. Each scheduler patch is an operator:
`Allocatable` (S05), `FullyIdle` (S08), `Inflight` (S09), `StartsRunning` (S10),
`Basis` and `ChunkEnd` (the adder of S06 with P01 and P02). `copied` is how far
the events of the rank have come, independently of the other ranks. The present
`handoff` synchronises its event before it parks, so that `event.query()` is
true; the coordinator does not rely on it, and the model lets it answer either
way. A rank that raises ends its process, and its peers then raise in their
collectives. A request is a number, a chunk is where it ends. `waiting` is a
set: requests get their numbers in the order of arrival, leave the queue from
the front only or by an abort, and so the queue is always sorted. An abort of the
prompt in chunks is the framework's path and left out; the budgets of the adder
are that a slot and the lane are free; prefill goes first, as in the patch.

### QSALaunch - `launch.py`

`at` is where the launcher stands: the checks before the start, the loop that
waits for `/health`, the check of the records, the loop that supervises, and the
`finally` with `stop_server`. Beside it the leader of the group (`server`, until
it is reaped), its ranks (`workers`), and signals, which a handler only appends
to `_signals`. `killed` are the processes a SIGKILL has been sent to: they end,
but not at once. SIGTERM may be ignored. `Reuse` gives the process ID of a reaped
leader to another group; `strayed` notes a signal that went there. A health
request may be answered at any time, by anybody, and a rank's record may be
there, missing or wrong.

### QSAService - `tools/qsa_service.py`

`at` and `does` are the place and the purpose of the one command that holds the
lock, `state` is the record it has in memory, `record` is `state.json`. A marker
and an invocation ID are the number of the start that made them. `Killed` can
come at any step: the command is gone, its lock is free, what it wrote stays. A
start stops its unit when it raises ServiceError or is interrupted in its loop
(`CleansUp`); any other exception, such as the OSError of a write, passes by
qsa_service.py:471 and leaves everything as it is, which is `Killed` again.
systemd, the unit's exit, the server's socket, the launcher's `ready.json` and
other programs at the port are actions of the environment, so that everything a
command has looked at may have changed when it acts on it. `write_json` replaces
the file and is one step.

### QSAActivation - `plugin.py`, `patching.py`, `fingerprint.py`, `features.py`, `scope.py`

`hooks` is SGLang's registry, `live[n]` the chain of those who bound name `n`,
`patched` and `frozen` what was applied and remembered. `LoadMalformed`,
`LoadInactive`, `LoadAgain`, `LoadRefused`, `LoadFails` and `LoadActivates` are
the ways a load can go; it may come several times, under switches that changed
in between. Other plugins register (`Registers`), even under this plugin's
source, or rebind (`Binds`), with everything below a name perhaps moved.
`FinalPass` is the framework's, `Configure...` the configuration of the
scheduler, whose hook runs `verify_final`, unless somebody bound the name over
it. `package` is what the plugin declares, with its manifest and fingerprints:
one of a set, well formed or wrong in one place. Names are paths, some below
others.

### QSAConfig - `hisparse/config.py`, `patches/hisparse/pools.py`, start of the owner

The steps of a start: `PricePools`, `BuildPools`, `AttachOwner`, `BuildCache`,
each of which reads the switches and arguments for itself, and each of which
may stop the process. Bytes are small integers (`RawCell`, `QsaCell`,
`RingBytes`), with budgets exact and a byte short among the arguments.

### QSASingleRequest - `hisparse/single_request.py`

The owner of the modes `offload` and `resident`. `compute` and `copies` are the
two streams; `AwaitedCopies` is what an operation was told to wait for. The
handoff moves all layers, or some and then raises; what raises leaves the
scheduler's loop or is caught. `group` is the allocator's free group, `pages`
the logical pages of each request, which may come again under its old ID.

### QSAGraph - `patches/hisparse/graph.py` over `runtime.py`

`static` are the static buffers, `fed` the rows whose tokens the runner holds,
`ring[s]` the lease whose token slot `s` holds, `newest[s]` the one whose block
`close_c4` put in its newest row. A forward (`Forward`) stores the token of every
row at its write location, which in a capture is the reserved raw row, and closes
the blocks of the real rows only. Captures and warmups, the load
of a batch (`Prepare`), `Replay`, `Finish`, and `FailReplay` at each point of
the scope, with a drain that succeeds or fails. Leases are reduced to
generation, slot, phase and length; QSALifecycle has the rest.

### QSAAttention - `patches/model_compat/qsa_attention.py`, `kernels`, `qsa_backend.py`

One layer and one request at a time, from the store on: the fused path (`Fused`),
`StoreRows`, `AfterStore`, `Attend`. A row knows its request, its position and
whether it was divided by the layer's scale; `Reads` has one operator for each
read path (`FromPrompt`, `FromPacked`, `FromReference`, `FromTable`,
`FromSelected`) with the rows it takes and the factor it applies. A selection
takes all tokens: which ones of a longer context is the model's choice.

### QSAProcess - the composition

Each part acts when the one before let it: pools are built in a process whose
load ended, requests are served by the owner that was attached. Owner kinds
exclude each other, and QSAAttention keeps its own account of a request.

## 3. The runs

| run | checks | instance and why it is enough |
|---|---|---|
| slots | SlotsInv, BackingDisjoint, RetiredForever, ImplementsCustody | 3 rows, 2 slots, 2 generations, 2 request IDs: rows outnumber slots, each row is leased twice, so that stale leases of an earlier occupancy exist. 12,567 states. |
| lifecycle | WorkWithinLease, LaneWork, BooksExact, OnlyFailuresForget, ImplementsDeviceCustody | 3 requests on 2 rows and 2 slots, one more forward after the first, two failing calls: rows and slots are reused, one request always waits, a failure may hit the cleanup of another. 208,269 states (symmetric requests). |
| lifecycle_live | EveryRequestFinishes, EveryLeaseReturns | the same without failures and without symmetry. 82,823 states. |
| handoff_cleanup | WorkWithinLease, violated | one failure, and the cleanup behind it may fail as well: the finding of section 6. |
| host_prefix | BudgetHeld, AccountsExact, CurrentEpochOnly, SharingExact, EvictsAsNeeded, RetiredReclaimed | three prompts of two pages, two beginning alike; bytes for two or three checkpoints, three entries, three publications, one flush: they share, evict and are flushed under writers. 124,263 states. |
| writeback | CompactExact, NoBlockLost, StreamsMove | 2 slots leased twice; blocks of 2, hot buffer and selection of 2 blocks, sequences up to 8 tokens: the hot buffer overflows and blocks are loaded from the host; the thread runs two operations ahead of the device; eager decode and graph replays. 2,096,707 states. |
| prefix_transaction | PagesExact, RestorePinned, NothingLeaks, RollbackEnds | 2 requests, rows and slots, 5 pages of 2 tokens, one checkpoint of a page, chunks ending at 3 (inside a page) and 5, two steps that raise: a rollback fails, the other request takes the row, the rollback is repeated. 58,621 states. |
| coordinator | RanksAgree, OnePlace, EveryParkedAdmitted | 2 ranks, 4 requests on 2 leases, an initial batch of 2, chunks of 4 and pages of 2: prompts unaligned and aligned, with and without a host prefix, of one and two chunks, one that ends at its first token, two with ignore_eos; one abort, one failing call: requests come behind the initial batch, ranks see different events, a rank dies inside or outside a collective. 24,330 states. |
| service | Controllable, RecordHonest | 4 starts, 3 commands killed or interrupted: a start, its killed successor, a command that takes over, and one start more. 236,738 states. |
| service_orphan | Controllable, violated | 2 starts, one killed command whose systemd-run outlives it: the second finding of section 6. |
| launch | GroupStopped, OutcomeTrue, LauncherEnds | 2 ranks, 2 signals, a server that ends with 0, 17 or SIGTERM. 34,823 states. |
| process | RecordTrue, AllOrNothing, StartAgrees, ForwardMatches, OneOwner, ReplayOwn, WritebackHeld, AttentionExact | 8 names, 13 packages (one right, the others wrong in one place), 6 settings of the switches, one step of another plugin; budgets exact and a byte short; 2 request IDs, 2 layers, sequences of 9 tokens; 2 rows, 3 leases, 4 tokens, one graph step that raises; 3 machines, 3 kinds of layer, 2 requests of 6 tokens. 869,972 states. |

Bounds are constants: `Generations` (row generations), `MaxSteps` (forwards
left), `MaxFaults` (failing calls), `MaxIds`, `MaxEpoch` (publications,
flushes), `MaxGen`, `MaxSeq`, `Ahead` (leases of a slot, tokens, lead of the
thread), `MaxStarts` (starts of the unit), `MaxSignals`, `Requests`, `Ends`,
`MaxAborts` (aborted requests), `MaxForeign` (steps of other plugins),
`MaxLeases`, `MaxTokens`, `MaxGraphFaults`, `MaxAttended`, `MaxServed`.
The run `process` has a constraint, `Explored`: activation is explored with every
package and interference; starts only in processes nobody interfered with and
whose package is right; requests only where, besides, the switches are still
those of the activation; and the attention layer without graphs or phase-1
requests beside it, which share no variable with it. The owner of a process is
one of the two anyway, so that this leaves out orders of independent steps.
In the run `coordinator`, enough requests reach decode to form the initial batch
(CoordinatorAssumption): with fewer the code waits for ever, as the comment at
coordinator.py:25-26 intends for its tests. Deadlock is not checked: the instances end when
their generations, prompts or requests are used up; liveness is checked by
properties, and for the streams by StreamsMove.

### What the properties say

- **WorkWithinLease, LaneWork, ImplementsDeviceCustody**: a slot and the lane
  change hands only when the device is done and the pages are flushed, whichever
  two calls failed.
- **SlotsInv**: whatever calls come, valid or stale, slots are conserved, leases
  identified and the lane has one owner (one inductive invariant of four parts).
- **BooksExact**: the runtime's own books agree with the lease table: a row
  belongs to a request from its allocation to its flush, an active lease is that
  of its row's request, a call under way is about the lease it began with, parked
  requests are in the staging queue once, pending releases are exactly those
  that await a flush, and the caches are those of the active leases, so that a
  flush that raised can be repeated.
- **OnlyFailuresForget**: a lease that somebody will release (the scheduler has
  its request, a call is releasing it, or it awaits the flush) stops being one
  only by four failures: its cache was never made, the collection that picked its
  request was lost, its drain was interrupted, or its release failed behind the
  drain. A failed handoff, replay, drain or flush loses none, nor does a call that
  succeeds. The four are what the code does: it keeps such a lease and its slot,
  and nothing looks for it again.
- **CompactExact, NoBlockLost**: what attention reads is the lease's own data at
  the right positions, and what the resident table says is there is there,
  however the streams interleave.
- **BudgetHeld, AccountsExact, CurrentEpochOnly, EvictsAsNeeded,
  RetiredReclaimed**: the cache's budget (writers included), books, epochs,
  eviction order and reclamation.
- **SharingExact** (SharedPagesAgree, SharedPagesStaged): checkpoints share a page
  only where their tokens agree up to it, and a capture shares a page only if its
  own staging lane has the bytes of that very copy: not of one published in its
  place for the same tokens, whose forward may have been in other chunks.
- **PagesExact, RestorePinned, NothingLeaks, RollbackEnds**: a failed allocation
  is undone exactly once, and in the end. NothingLeaks says that every open reader
  and every active lease is in a record or with a request in prefill; that a
  record can be got rid of is RollbackEnds, which exempts the leases no rollback
  can return (section 4).
- **RanksAgree, EveryParkedAdmitted**: ranks stay in step, to the batch and the
  end of a chunk, and nobody stays parked.
- **OnePlace**: a request waits, prefills, is parked or runs, one at a time; an
  abort finds it in any of these; it was parked with the checkpoint of its last
  whole page; an idle rank has it nowhere.
- **RecordTrue, AllOrNothing**: the activation record claims what is so, and a
  process that serves is patched entirely or not at all.
- **StartAgrees**: what is priced fits, what is built is what the owner admits,
  and the private cache has an owner that keeps prefixes.
- **ForwardMatches, OneOwner**: a phase-1 forward runs on the storage of its
  kind and on this request's blocks; slab and pages have one owner.
- **ReplayOwn, WritebackHeld**: a replay touches the rings and newest rows of its
  own batch only, and a capture those of nobody; a copy that no event covers keeps its slot.
- **AttentionExact**: by whichever path, attention reads the request's own rows,
  scaled exactly if they were divided.
- **GroupStopped, OutcomeTrue, LauncherEnds**: whatever ends first, no rank is
  left, nobody else's group is signalled, and a supervisor sees the true outcome.
- **Controllable, RecordHonest** (EndsRecorded, ReadyEarned): whatever command is
  killed, the next one can control the unit, and the record says only what happened.

## 4. Fairness

- *QSALifecycle*: the device finishes its work (weak); the thread returns from
  calls and closes its groups (weak: it is inside them); the scheduler's loop
  comes back to each request (strong, for the lane, a row or a slot is free on
  and off, and the loop tries the waiting requests every time). A request ends
  at the latest when its context is full, which the server enforces.
- *QSAHostPrefix*: a writer publishes or its failure is handled; both are in one
  `try` of the capture.
- *QSAPrefixTransaction*: the thread returns from its calls; the device finishes
  restores; whoever meets a retained record calls the rollback again (strong).
  RollbackEnds excludes, by name (`Unreleasable`), the leases no rollback can
  return: a lease whose cache was never made, and one whose drain was
  interrupted (`releasing` is not drainable).
- *QSACoordinator*: loops run, joined collectives complete, copies finish.
  Nothing is assumed of failures, aborts or the other requests.
- *QSAProcess* has safety properties only and assumes no fairness.
- *QSALaunch*: the launcher's thread runs, and a process that got SIGKILL ends.
  Nothing is assumed of SIGTERM, of `/health` or of the ranks.

## 5. What is proved

Every theorem is about the specification of its module, for every value of the
constants that the module's named assumptions admit. These assumptions are what
the code insists on or what its data are (a page size is a positive number, a
declared target is a name, a return code is not the mark for "still running");
TLC evaluates them in every run. Two theorem groups have one condition more:

- `CleanupMayFail = FALSE`: the synchronisation behind a failed handoff works.
- `DispatchOutlives = FALSE`: a systemd-run ends with the command that called it.

Without them the properties are false of the code, as the runs handoff_cleanup
and service_orphan show (section 6). What is proved without a condition
is said to hold whatever these two do.

`tlapm M.tla` checks a module from nothing. The leaves are kept small enough that
each is found with the provers' time limits cut to a third (`tlapm --stretch 0.3`):
what is proved does not depend on a fast machine. Where an operator is given a part
of the state, a step first names that part by a PICK and uses the lemma about the
name; most leaves that were slow were slow for want of it.

### The lease table: `QSASlots_proofs`

For every set of rows, generations and request IDs, every admissible page size
and staging size, and one to eight slots:

| theorem | says |
|---|---|
| SlotsInvariant | the four parts of SlotsInv hold together |
| SlotsTypeCorrect | `SlotsSpec => []SlotsTypeOK` |
| SlotsConserved | no slot lost, freed twice, or held twice |
| LeasesIdentified | an active lease sits in its row under the row's last generation |
| LaneHasOneOwner | the lane has one owner, and only before its drain |
| RingsDisjoint | no two active leases share a raw row, no ring meets the lane |
| RetirementIsFinal | a retired lease never becomes active again |
| SlotsImplementCustody | the table implements QSACustody |

The inductive invariant is `SlotsInv`, the conjunction of SlotsTypeOK,
SlotConservation, LeaseIdentity and LaneExclusive. None of the last three is
inductive alone: a commit conserves slots only because no other row's lease has
the same slot; a finished handoff may free the lane only because no other row is
copying from it; an acquire makes a new identity only because the generations of
a row grow. There is a lemma for each kind of step: `PhaseStep` for the five
methods that only move a lease from phase to phase, and one each for acquire,
finish_handoff, drain and commit_release. RingsDisjoint needs the invariant (two
leases have two slots) and the arithmetic of `RingStart`. RetirementIsFinal
follows from LeaseIdentity and the growth of last_generation. For the refinement
the holder of a slot is the active lease of that slot, which SlotConservation
makes unique; acquire maps to Take, commit_release to GiveBack, the rest to Use
steps or stutters.

### The life of a request: `QSALifecycle_proofs`

For any number of rows, generations, requests, chunks, steps and failing calls:

| theorem | says |
|---|---|
| BooksAreExact | `Spec => []BooksExact` |
| OnlyFailuresLoseLeases | `Spec => OnlyFailuresForget`, of every step |
| TableInRuntime | the table keeps SlotsInv inside the runtime, which writes its phases as well |
| WorkStaysWithinLeases | with CleanupMayFail = FALSE, WorkWithinLease |
| LaneWorkIsOwners | with CleanupMayFail = FALSE, LaneWork |
| RuntimeImplementsCustody | with CleanupMayFail = FALSE, the runtime and its device work implement QSACustody |

`BooksExact` is inductive as a whole and in no smaller part: a release finds the
lease of its request only because the row is still the request's (RowsOwned);
the flush behind a deferred free commits only what it marked because a call
under way is about the lease it began with (CallExact) and the pending releases
are drained leases (PendingExact); and a row that another request took over
before the old lease was committed is told apart by CacheMatchesTable. There is a
lemma for each call, with one step per part. OnlyFailuresLoseLeases goes call by
call over the same invariant: what a call does to its own lease, and that it
leaves every other lease on its way.
For WorkWithinLease the release must know that what lost its event is remembered
in `graph_failed_leases` (`UntrackedKnown`, with BooksExact and the two
properties the invariant `WorkInv`); the failed cleanup of a handoff is the one
step that breaks it. For the refinement the holder of a slot is the active lease
of the slot and its users are the device work and the logical pages, so that
GiveBack is enabled only because WorkInv and BooksExact say that a committed
lease has neither.

### The prefix transaction: `QSAPrefixTransaction_proofs`

For any requests, rows, slots and pages, any page size, checkpoint length and
chunk ends, and any number of steps that raise:

| theorem | says |
|---|---|
| TransactionTable | `Spec => []SlotsInv`: the calls of an allocation and of its rollback keep the table's invariants |
| NoPageLostOrShared | `Spec => []PagesExact` |
| RestoresArePinned | `Spec => []RestorePinned` |
| EverythingIsReturned | `Spec => []NothingLeaks` |

What makes a repeated rollback safe is what the record remembers. The invariant
says it field by field:

- `RecordExact`: how far the transaction came and how much of it was undone.
  A record that has no row any more has no pages and no prefix; the prefix is
  the first part of the written row, the suffix exactly the row's pages behind
  the earlier chunks once it was read.
- `LeaseKept`: an active lease is in the hands of its prefill, or of the record
  of its allocation. From the first look-up on, the record's own copy of the
  lease counts and not the row, because the row may be another request's when
  the rollback is repeated; a drain that was done is remembered with it.
- `RestoreKept`: a restore has not left its row, and the record of a fresh
  request says that there is a stream to wait for. So a page or a reader is
  given up only after the stream of the restore was synchronised.
- `Cached`: a row's cached lease is the active one of that row, so that a
  release at a row returns the lease of the request that has it.
- `PagesApart`: the pages in a row and in the prefix of a record are the
  request's own, each once; what nobody holds is free once. A prefix that is
  being freed and the row it was written to are one and the same pages here,
  which is why freeing both would be twice.
- `Enough`: the pages the scheduler counted when it admitted the chunk are still
  free when the suffix is allocated, the prefix taken in between included.

The pages given are counted with the library's theorems on cardinalities; that
whole pages of a shorter chunk are no more than those of a longer one is
`PagesForIs`.

### Decode and writeback: `QSAWriteback_proofs`

For any slots, block size, hot buffer, selection and capacity, any number of
leases, and however far the thread runs ahead of the device:

| theorem | says |
|---|---|
| ReadsOwnKV | `Spec => []CompactExact` |
| BlocksAreKept | `Spec => []NoBlockLost` |
| NoStreamDeadlock | `Spec => []StreamsMove` |

None of the three is inductive, because what the device does next was queued
long before. The invariant `IInv` connects the queues with the data:

- `QueueOK`: what the producer stream still holds of a slot is in order
  (`InOrder`), of steps the lease has taken (`Within`), and complete behind its
  first operation (`Complete`). So the queue alone says how far the device came:
  the last token stored is the one whose successor's store is queued
  (`LastStored`).
- `DeviceOK`, by that token: the ring has the tokens of the open block, and of
  a full one until it is closed; the blocks of a request that fits are in their
  own rows, the newest one in the newest row; a row holds what the resident
  table says.
- `CopiesOK`: a block is closed, and a selection resolved, only behind the
  earlier copies of its slot (`Waits`, because of the done events,
  `DoneBehind`). Hence the newest row is not overwritten before it was copied
  (`HotHeld`), and a block that has no copy queued is in the host (`InHost`),
  which is where `Resolve` loads it from.
- `StreamsOK`: the event of a copy is recorded behind its close (`ReadyBehind`);
  an operation waits only for copies whose events, and those of the copies
  before them, are recorded earlier in the same queue (`WaitBehind`). A circle
  of waiting would need one recorded later. That a later copy is not one of
  those already named by an event is `AllKnown`.

Eager steps and replays queue different things; both have the `Shape` that
AppendStep needs (`EagerShape`, `ReplayShape`): for each request a store, a close
if its token closes a block, and a selection, behind the copies of the earlier
blocks. What the operations do to the data is in StoreDevice, CloseDevice and
ResolveDevice; the arithmetic of blocks and rows is in DivIs, NextToken and
BlocksGrow.

### The host cache: `QSAHostPrefix_proofs`

For any finite set of requests, any prompts, budget, entry limit and sizes of
states, pages and keys, and any number of publications and flushes:

| theorem | says |
|---|---|
| BudgetIsHeld | `Spec => []BudgetHeld` |
| AccountsAreExact | `Spec => []AccountsExact` |
| OnlyCurrentEpoch | `Spec => []CurrentEpochOnly` |
| PagesAreShared | `Spec => []SharedPagesAgree` |
| SharedPagesAreStaged | `Spec => []SharedPagesStaged` |
| SharingIsExact | `Spec => []SharingExact`, both of them |
| EvictionIsNeeded | `Spec => EvictsAsNeeded`, of every step |

The four invariants hold together or not at all. A reservation is enough only
because the pages of its ancestor are still held when the writer publishes; they
are because its reader is counted; and a count stays exact under a flush that
closes the readers of matches only because a match is told from a writer. The
parts of `IInv`:

- `Books`: the tables are a cache whose readers are those that requests hold
  (`CacheOK`). It is said of any cache and any handles and not of the variables,
  because one call of `capture_prefix` opens and closes up to two readers and
  evicts on the way: each operation (`AcquireIs`, `CloseIs`, `WithoutIs`,
  `EvictIs`) takes such a cache to such a cache, and what the action does is
  their composition (`AncestorIs`).
- `Numbered`: checkpoints and their pages bear numbers of earlier publications,
  so that a new one shares with the others only what it takes from its ancestor.
- `Room`: what is held and what is pending fit, which evictions and closes can
  only improve (`LessUses`).
- `Pending` and `RequestsOK`: what is pending is what the writers reserved, a
  writer reserved for exactly the pages behind its ancestor, and an ancestor or a
  match is a part of the request's own prompt. Hence the growth of the cache at a
  publication is at most the reservation (`GrowthFits`).
- `EntriesNow`: what is in the queue is of the present epoch.

SharedPagesAreStaged has an invariant of its own, `AllStaged`: whatever checkpoint
a request's basis names, by its number, is staged as long as it is in the table. It
outlives the request's handle, because numbers are not given twice: a checkpoint
of the same tokens that was published later has another one.

A footprint is a sum over the table and a fold in the community modules, and the
n-th entry left in a queue is found by counting. What is needed of both (the
order of a sum does not matter, one more element adds its value: `SumIs`,
`SumAdd`, `SumPart`; what `Only` keeps, each once and in its order: `OnlyIs`) is
proved by induction on finite sets. The well-foundedness of their inclusion is a
theorem of the library without an operator as a parameter, from which least
sets, and so least numbers, are had (`LeastSet`, `LeastNumber`).

For EvictionIsNeeded only captures matter: nothing else takes an entry from the
queue but a flush. A capture has looked up one or two checkpoints before it
evicts, which moves these to the end and leaves the others in their order
(`Along`); the victims are the unpinned ones in that order (`VictimsAre`), of
which the first few go (`EvictedIs`), the fewest that will do
(`EvictionsMinimal`). With the last of them back, what is held is what was held
when one fewer had been taken, and then there was no room.

### The ranks: `QSACoordinator_proofs`

For any finite set of ranks, any requests, prompts, host prefixes, page size and
chunk size, and any number of aborts and failing calls:

| theorem | says |
|---|---|
| RanksStayInStep | `Spec => []RanksAgree` |
| RequestsStayInOnePlace | `Spec => []OnePlace` |

RanksAgree compares ranks that are in the same place, and is far from
inductive: between two collectives every rank goes on alone, one may be a
forward ahead, and the copies completed differ. The invariant is about `Goal`,
the collective a rank will join next and what it will see when it does, as a
function of its view (its queues, the prompt in chunks, the batch that runs) and
of the last outcome. `GoalsAgree`: goals are equal on all ranks that live. A
step of one rank leaves its goal (there is a lemma for each place), so ranks
that left one collective together join the next one together (`JoinedExact`,
`OutcomeExact`, `OutcomesShared`). Copies come in by votes alone: what is
admitted is the prefix that every rank voted for, hence copied everywhere
(`AdmittedFrom`, `AdmittedCopied`). Deaths are counted (`DeathsCounted`) because
one is excused only by a call that failed. OnePlace follows from `Located`,
which says of one rank where a request is, that an abort has found it, and that
no chunk crosses the last page boundary without being stashed there.

### The launcher: `QSAOperation_proofs`

For any set of ranks, signals and return codes:

| theorem | says |
|---|---|
| GroupIsStopped | `LaunchSpec => []GroupStopped` |
| OutcomeIsTrue | `LaunchSpec => []OutcomeTrue` |

The invariant says what the order of the code is for. The leader is reaped by
the last step only (`Unreaped`), so that nobody else can have its process ID
while the launcher still signals the group; from the SIGKILL on, whoever runs is
about to die of it, the leader too, so that nobody is started after it
(`Doomed`); and the outcome is settled when the launcher begins to stop, by
facts that later signals and the later end of the server leave alone
(`Settled`, with `ReadyWhere` and `HasStatus`).

### The controllers: `QSAOperation_proofs`

For any number of starts and of killed commands:

| theorem | says |
|---|---|
| ReadinessIsEarned | ReadyEarned, whatever outlives a command |
| UnitStaysControllable | with DispatchOutlives = FALSE, Controllable |
| EndsAreTrue | with DispatchOutlives = FALSE, EndsRecorded |
| RecordIsHonest | with DispatchOutlives = FALSE, RecordHonest: the two together |

The invariant `Owned` follows one start through its command. A systemd-run is
under way only where its command waits for it (`Waited`); hence no unit can
appear between the look that found none and the next dispatch (`Gone`), and from
the marker on the record on disk and the one in memory name the same start
(`InHand`). The first of these is what an outliving dispatch breaks.

### A process: `QSAProcess_proofs`

For every plugin package, switch and argument, every number of requests, rows,
layers and tokens, and any number of steps of other plugins and of failing graph
steps, about `Spec` of QSAProcess:

| theorem | says |
|---|---|
| PluginAllOrNothing | a process that serves has what its features declare bound, or nothing of the plugin |
| RecordsAreTrue | a written activation record is true of the process (an action property) |
| StartsAgree | what was priced fits, what is built the owner admits, the private cache has its owner |
| ForwardsMatch | a phase-1 forward runs on the storage of its kind and finds this request's blocks |
| OneOwnerAlways | the slab and the pages of phase 1 have one owner |
| WritebacksHeld | a copy on copy_stream is a living lease's that holds the slot; a lease blocked for one never decodes again |
| ReplaysOwn | the static buffers of a prepared replay name its leases, and rings and newest rows hold only what their own leases stored |
| AttentionReadsExactly | each row read is the one this request stored for the token, multiplied exactly if it was divided |

Each has its own inductive invariant, kept by every step of the whole process
because the other parts leave those variables alone.

- `PluginInv`: a load that fails anywhere stops the process; in one that was not
  stopped, what is bound is what the active features declare (`BoundWhole`), and
  every load asked for these or for nothing (`AskedFor`). `FrozenTrue` says what the plugin remembered at its
  last binding, and `MeddledShows` that what others did since can be seen in the
  comparison `verify_final` makes; the record is true because of both.
- `StartInv`: StartAgrees compares pools, owner and arguments when all three are
  there. The prices of the steps in between (`Priced`) and the order of the
  steps (`Ordered`) carry it; that whole pages cost no more than what they are
  whole pages of is nonlinear arithmetic, done by hand in `CostGrows`.
- `GraphInv`: WritebackHeld is not inductive alone. A copy that no event covers
  must be known to be blocked (`UncoveredBlocked`), or its lease could be
  released without waiting; and the batch must name living leases
  (`BatchLives`), or a replay that ends would queue copies for leases that are
  gone.
- `ReplayInv`, over GraphInv: a replay writes ring by ring through the slots of
  the static buffers, and which row a slot belongs to is determined only because
  slots are apart (`SlotsApart`). `RingsOwn` says what ReplayOwn says between
  replays in the middle of one as well: every ring is right but those of the
  rows that await the replay, and every newest row for the tokens already stored
  (`Done`). A capture closes no block because no row is real while it lasts, and
  stores in the reserved row only (`Fresh`).
- `SingleInv`: that a store is the present owner's needs that what is offloaded
  has an owner (`OffloadedOwned`), and that a release that awaits the flush
  left nothing behind (`PendingIdle`), so that the flush may free the owner.
- `ForwardInv`, over SingleInv: in the middle of a forward one layer is a token
  ahead of the next, so that "the newest complete block" is said layer by layer
  (`LatestComplete`). A complete block is on the host or its copy is queued
  (`HostOrQueued`); a selection waits for the copies queued before it and asks
  for no block its layer has not come to (`SelectsKnown`). Buffers are raw or
  rings in all layers unless a handoff failed, and then nothing runs
  (`RawWhole`, `MovedWhole`).
- `AttentionInv`, over StartInv: every token held is where it is looked for, at
  home, in its block on the host, or in the ring until the block is closed
  (`RowsHeld`). Which of the three holds depends on the step of the forward,
  because the store, the copy of a block and the read are three steps; that a
  forward of a request that moved is a decode, and so stores one token, is
  `CallFits`.

### What is not proved

Out of reach of the prover, and left to TLC: liveness and ENABLED
(EveryRequestFinishes, EveryLeaseReturns, RetiredReclaimed, RollbackEnds,
EveryParkedAdmitted, LauncherEnds). Every invariant and every action property
that a passing run checks is also a theorem; the two conditions named at the
head of this section are those of the runs.

## 6. Findings

**A handoff whose cleanup fails too.** `handoff` synchronises the copy stream when it fails, because a copy may have
been queued without an event (runtime.py:1444-1451). If this synchronisation
raises as well, the lease is marked failed and nobody remembers the copy. A
later `release` waits for the events it knows and drains the lease, and the slot
can be leased again under the outstanding copy. The graph path remembers its
leases for this case (`graph_failed_leases`, runtime.py:718-719); the handoff
path does not. Run handoff_cleanup shows it; `lifecycle` checks the rest of the
behaviour with `CleanupMayFail = FALSE`, the one thing it excludes.

**A dispatch that outlives its command.** The comment at qsa_service.py:427-428
says that a later controller recovers the invocation "even if this process dies
immediately after launch". It does when systemd already has the unit. The
systemd-run of a killed command may still be under way, though, when the next
start looks: it finds no unit, overwrites the marker, and then the old unit
appears. Its own systemd-run fails because of the name, and its cleanup, like
every later command, refuses the unit, whose marker is in no record. Run
service_orphan shows it; `service` has `DispatchOutlives = FALSE`.

## 7. Not modelled

- In the lifecycle of a rank and the writeback: an eager `after_store` that
  fails between copy and event; the content of the diagnostic ledger (that it
  raises is modelled); the votes inside the prefix adapter other than as steps
  that raise; stream registration.
- In the scheduler patches: the token budgets of the adder other than that a
  slot and the lane are free, the branches for embeddings and disaggregation,
  metrics, the output stream.
- In the activation: that a module's bytes are the pinned ones is a yes or no.
  In the start: the kinds and types of tensors and the construction of the pool
  objects.
- In the phase-1 owner: the sealing of its diagnostic record. In the graphs:
  the copying of each static buffer, LoRA, speculation. QSAGraph reduces leases
  to what a graph depends on; the leases of QSALifecycle are not composed with
  it.
- In the attention: the arithmetic of the kernels; the indexer, which kernel
  scores and which tokens are chosen; the context-parallel forward
  (qsa_attention.py:417-422); `save_kv_cache = False`; more than one request in a
  forward (`AttentionExact` is about one, QSAGraph about the rows of a batch); the
  rows that pad a batch; and `qwen4_exp.py`, the model's forward and the loading of its weights, which
  keep no protocol state.
- In the launcher: a signal before the handlers are installed (nothing is
  started by then), a `print` that raises between `Popen` and the `try`, a write
  of ready.json or the `print` behind it that raises (launch.py:367-374; the
  `finally` stops the group, and the outcome is a traceback's 1), workers that leave the process group, a SIGKILL of the launcher itself. In the
  controller: `status` and `logs`, which only read; the validation of a profile.
- SGLang itself: row pool, page allocator, radix cache, scheduler loop are
  external and appear as the code uses them.
- Components without a module (`not_modelled` in `PROJECT.json`): the image
  identity, whose keys make a prompt with other images one of other content,
  which is how QSAHostPrefix takes it; and the evidence tools, offline scripts.

## 8. Plan

Written, most important first: QSACustody, QSASlots, QSALifecycle, QSAWriteback,
QSAHostPrefix, QSAPrefixTransaction, QSACoordinator with the scheduler patches,
QSALaunch, QSAService, QSAActivation, QSAConfig, QSASingleRequest, QSAGraph,
QSAAttention, QSAProcess; the proof modules of QSASlots, QSAProcess,
QSALifecycle, QSACoordinator, QSALaunch, QSAService, QSAPrefixTransaction,
QSAWriteback and QSAHostPrefix.

Modules that may still come: pure operators with reference definitions (the
checkpoint limit, image keys at a boundary, layout arithmetic), and the
composition of QSAGraph with the leases of QSALifecycle.

The theorems left are those about liveness, which the prover does not reach.
