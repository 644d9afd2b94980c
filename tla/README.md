# A TLA+ verification of the oRKLLM NPU driver

The repository is a user-space driver for the Rockchip NPU (`src/src/npu*`,
`src/src/soc*`), a daemon `orkd` that lets several processes share that NPU
(`src/src/orkd*`), and a small scheduler that runs a DAG of operations over NPU
and CPU threads (`src/include/ork_spine.h`).  This directory holds TLA+ modules
of the daemon, of what its clients rely on, and of the control of the driver
library; TLC configurations that check them on small instances; and TLAPS proofs,
for every instance, of what fifteen of them promise, among them that the daemon
implements an abstract call service.  `PROJECT.json` is the index:
components, runs, the source lines of every definition, mutants, findings,
hazards and theorems.

Contents: 1 inventory, 2 modules and their correspondence to the code, 3 runs,
4 findings, 5 fairness, 6 proofs, 7 limits, 8 plan.

## 1. Inventory

### The daemon and its clients

| component | state | operations |
|---|---|---|
| daemon loop, `orkd.c` | `cl[]`/`nc` (client slots), `refs`, the submit queue `g_q`, the domain pool `g_dom_inuse`, `g_active_dom`, `g_stop` | poll, accept or refuse, service a slot, drop and compact, `dispatch_one`, `ring_service`, idle reap, shutdown |
| handlers, `orkd_handlers.c` | the slot's weights `wt`, kv handles `kvt`, owned domains, ring mapping; buffers imported into the NPU's address space | one per message of `orkd_proto.h`: HELLO, PING, PACK, IMPORT, FREE, KV_ALLOC, KV_APPEND, RUN, RUN_ZC, RUN_ZC2, CHAIN, SEQ, FFN, ATTN, ATTN_RR, LAYER, SDP, DMABUF probe, RING_SETUP, DOM_REQ, DOM_REL, BYE |
| client library, `orkd_client.c`, `orkd_client_ops.c` | descriptor, ring mapping, ticket cursor | `orkd_connect` (with auto-spawn and retries), one wrapper per request, `orkd_ring_submit`/`collect`, `orkd_disconnect` |
| A-ring, `orkd_ring.h` | slots in shared memory with a state word, free-running cursors on both sides, `stop` | submit, collect, `ring_service`, reclaim |
| single instance, `main()` of `orkd.c` | pidfile and its `flock`, socket path | start, lose, bind, serve, reap, die |
| descriptor passing, `orkd_shm.h` | up to two descriptors on a header | send, receive |

The daemon is one thread.  It talks to each client over a Unix stream socket
with blocking reads and writes, and, once a ring is set up, through shared
memory it polls.  Clients are independent processes that may stop at any
instruction.  A RUN is queued and answered later by `dispatch_one`; every other
request is answered by its handler.

What is hard there: results of `poll()` are indexed by slot while accept and
drop move slots; a queued run names its client by descriptor number, and
descriptor numbers are reused; a handler must consume its whole request on every
error path or the stream loses its framing; passed descriptors must be closed
exactly once on paths where any of several steps may fail; the ring's data and
its state word are separate stores, and its cursors never see each other; several
daemons may be started at once, and killed at any system call.

What makes it correct: each client sees a one-call-one-reply service whatever
the others do; the loop never blocks on a silent client; nothing a client held
outlives it; `refs`, the pool and the tables are exact; one process owns the NPU.

### The executors

`ork_spine.h`: units (worker threads) with a mutex, a condition variable, and the
counters `gen`/`done_gen`; a dispatcher that scans the ops, dispatches those
whose producers are done, polls the units, and stops them.  `npu/core/sched.c`
has two more pools: one thread per NPU core, owned by a context, and one for
the whole process behind `ork_parallel_for`.  Hard: missed wake-ups, a stale
completion taken for a new one, two ops on the NPU, a helper that is still in a
stack frame that has been left.  Correct: each op, element or index once, after
what it depends on, and every call returns.

### The driver library

| component | state | hard behaviour | here |
|---|---|---|---|
| splitting over cores, `npu/core/colsplit.c`, `npu.c`, `dyn.c`, `dyn_ctl.c` | each core's submit, the doorbells, `mc_error`, `dom_dirty` | one core fails and the others do not; retries; stale scratch taken for a result | `MultiCore` |
| dynamic chains, `dyn.c`, `dyn_ctl.c`, and the deferred queue, `i8/queue.c` | programs and links in a command buffer the hardware is walking; doorbells | appending to a chain that runs; a flush that fails half-way; a warm-up pass over the same buffers | `DynQueue` |
| IOMMU domains and run scratch, `npu/core/domain.c`, `buf.c`, `sched.c` | per-domain scratch sets, stuck jobs | a buffer addressed in a domain it is not mapped in; a job that outlives the switch | `NpuContext` |
| packed weights, `i8/pack.c`, `npu.c`, `packhdr.c` | tile buffers, views, dumps | layouts that four functions must agree on; partial failures while a weight is made | `PackedWeight` |
| stream pool, `npu.c`, `buf.c` | what is mapped in the window | eviction and roll-back when others take the room | `StreamPool` |
| sequences, `npu.c`, `i8/dyn_seq.c` | the open batch, groups and their cores | order and results across batches, groups and single ops | `SeqSubmit` |
| worker pools, `npu/core/sched.c` | generation, countdown, condition variables | wake-ups; frames | `NpuPool`, `ParallelFor` |
| fused chains, `i8/chain.c`, and operating mode, `npu/core/mode.c` | per core: load program, table, task array and their records; the mode | records that outlive what they describe; a warm switch that should have reset | `FusedChain` |
| int4, fp16, int16, SDP, norm, SSM | register programs, tensor layouts | numeric | their hand-over to threads and cores only |
| CPU kernels, captured register programs, probes, SoC tables | data | none at this level | no |

### Hazards

`PROJECT.json` lists 40 places that are hard to test, each at its line, with the
properties that would catch it.  Those without a property say why.

Behaviours the code really has that no property here excludes, met while
modelling:

*Daemon and clients.*
* DOM_REL returns a domain whose weights are still resident
  (`orkd_handlers.c:561`), so the next holder shares it with them.
* `wk_pick` has no ageing, and a sliced run keeps its `seq`: among equals the
  same run is picked until it is done (`orkd.c:155,157`).  The comment at
  `orkd.c:121-122` says that slicing lets others interleave; that happens only
  across priorities or active domains.
* A client that connects while a daemon is being reaped can spend its only spawn
  on a daemon that loses the lock (`orkd_client.c:63`, `orkd.c:304`).
* The daemon never sets `ring->stop`, the only way out of the spin in
  `orkd_ring_collect` (`orkd_client.c:185`); the comment at `orkd_ring.h:43`
  says it does on teardown.
* RUN_ZC imports A and C in `pack_domain`, 0 outside a pack, and runs in the
  domain of the weight (`orkd_handlers.c:487,510`; `buf.c:294`).
* An import whose address does not fit in 32 bits is refused after it was mapped
  (`npu/core/buf.c:240`), and a refused kv pair is freed without unmapping
  (`npu/i8/pack.c:88`, `npu.c:1140`, `orkd_handlers.c:244`); both keep their
  share of the address space until the daemon exits.
* The default case of the dispatch does not consume the body of an unknown
  message (`orkd.c:430`); only a client of another version sends one.
* `ork_submit_chain` through a daemon keeps an intermediate resident; if a later
  run of the same call aliases its buffer, the stale host copy is uploaded.

*Executors.*
* `ork_spine_run` does not return for a CPU op when there is no CPU unit
  (`ork_spine.h:107`).
* The width of a dispatch is not compared with `pool_n` (`dyn_ctl.c:328`,
  `i8/run.c:211`, `i4/run.c:487`); the pool is only ever made wide enough.

*Rounds and chains.*
* A dropped fp16 stream round does not mark its domain (`recov_max` is 0), though
  the comment at `dyn_ctl.c:442` says "ALL dtypes".
* `npu.c:1394,1413` and `i8/run.c:209` take any non-negative frontier for
  success; `npu.c:2415,2471` ignore the result of `ork_dyn_end`, for which
  `seq.h:253` promises "-1 a submit failed/wedged".
* `dyn_seq.c:126` ignores a core's rejected submit, and its output is freed after
  a 3 s timeout while the chain may still run.
* `ork_dyn_queue_idle` halts a plain chunk among its real tasks (`queue.c:75-84`,
  against the comment at 73-74); a drain drops what is unsubmitted after a
  failed flush (`queue.c:87-90`).
* `ork_pc_run` records a warm-up that failed as done (`queue.c:155`);
  `ork_pc_compile` (`queue.c:120,128`) and a refused `ork_dyn_begin`
  (`dyn.c:319`) leak what they had allocated.
* The end of a chain unlinks the spin slots and waits for the doorbells of the tasks;
  the tail has none.  Once the last task has rung the sequencer goes on into the slot
  whose link it has read, while `spinA` and `spinC` are freed (`dyn_ctl.c:595`) and the
  next begin rewrites the command buffer: the drain does not wait for the "~1-2
  tasks" after which the comment calls it safe (`dyn_ctl.c:229-231`).
* The wait for a single-core chain is left after 500 us without a doorbell
  (`dyn_ctl.c:352`), 3 s in all (354) or a signal (347), that of `ork_pc_run` after 2
  s (`i8/queue.c:160`), that for a warm pass likewise (`dyn.c:266`, `queue.c:154`), so
  that the real chain may be submitted over it, against the comment that it "completes
  cleanly, no in-flight job" (`dyn.c:273-276`). None looks at the NPU. A program of K
  = 4096 and a large N, which `ork_dyn_begin` accepts (`dyn.c:194-197`), may take
  longer than 500 us: its end then reports a frontier that still moves, frees the
  copies of A (`dyn_ctl.c:595`), and the next begin rewrites the command buffer under
  the sequencer.
* A fused chain reloads its activation table only when the *address* of the table
  changes (`i8/chain.c`, `chain_lut_p`).  `ork_i8_mm_run_chain_ffn` (157-165) and
  `_sdpsilu` (145-154) rebuild one static array in place and do not clear that
  record, which the biased entry does (177-187, whose comment measures the
  error): a second call with other scales runs with the curve of the first.
  The daemon's FFN handler takes its scales from the client
  (`orkd_handlers.c:76`).  The round-robin entry without a bias (771-781) is the
  same.
* The doorbell of a fused chain leaves both polls at the timeout and still
  returns 0 (`i8/chain.c:586-592`); the record of what was unwritten is lost.
* With `ORK_CHAIN_LUT_STICKY`, the task array of a core is taken to be current
  when its *number* of programs matches (`i8/chain.c:532-534`), though which of
  them are SDP tasks depends on the op list.  And `chain_lut_devloaded` is cleared
  by `ork_npu_enter` only: the resets of `npu/core/submit.c:374`,
  `dyn_ctl.c:636`, `colsplit.c:792`, `npu.c:531` and `i8/run.c:424`, and the plain
  SDP ops that load core 0's table (`i8/run.c:246,308`, `dyn_seq.c:79`,
  `ssm.c:359`), leave it set.
* A submit that fails on one core resets the NPU under the chains of its siblings
  (`npu/core/submit.c:374`).
* A layer counts as warmed by the addresses of its seven weights
  (`i8/chain.c:97-105`): weights freed and others packed at the same addresses
  are not warmed again.
* Mode switch (`npu/core/mode.c`): the row of SDP has `setdt=1` and its callers pass the
  current mode as the target, so the early return at 120 makes `RC_SDPKW` (137)
  unreachable; the comment at 88-99 says `setdt=0` and relies on it.  From an
  int4 chain or stream to fp16 and on to an int8 chain no step resets (`XP_MC_MM`
  does not, the keep-warm of the second does not), though `internal.h:338-346`
  calls the reset between the two load-bearing.  Nor does one where a matmul with
  a fused SiLU comes between: it sets `last_dt` itself (`i8/run.c:237,303`).
* A fused chain allocates two buffers and tests the first of them on the next
  call (`i8/chain.c:219-225,485-492`): when only the second failed, that call goes
  on without it.

*Sequences.*
* A batch that fails at its boundary (`npu.c:2482`) is reported, but the next op
  has been gathered and is submitted.
* The witness matmul is packed once, in the `pack_domain` of that moment: groups
  of other domains always fall back.  The fall-back runs `ork_i8_mm_run` for
  every kind.  The array of group ids (`npu.c:2437`) is filled before the length
  of the run is compared with its size.

*Memory.*
* After a failed allocation, sizes that were recorded early no longer describe
  the buffers (`npu.c:1679`, `dyn.c:425`, `sched.c:366-388`): `ScratchExact`,
  `SubmitsComplete` and `SwitchReaped` are conditional on no failure where that
  shows.  `dom_reserve` returns without a switch (`domain.c:220`), and a reap
  without memory returns silently after clearing the mark.
* A dropped coalesced expert round (`i4/chain.c`, `rc = -2`) marks no domain.  The
  per-core buffers of `i8/chain.c:219-225` are not parked.
* `fd_reap`, when opted into, does not furnish domain 0 again.
* `orki_bstage_map` leaks its priming handle when the allocation after it fails
  (`buf.c:352-354`); `bimport` closes the descriptor and not the handle.
* `ork_stream_pool_map` does not touch `last_use`: a freshly mapped entry is the
  next victim.
* `ork_i8_w_dump_cpu_st` writes no header though it promises a file
  "byte-identical" to one that has it (`weights.h:277-278`); `dump_bf_cpu` stamps a
  header of its own, which shifts the views of an adopted dump by a page
  (`i8/pack.c:355-368`).  With `ORK_KTILE` set, dumps are cut by it and loads by
  1024, and the header does not tell.

## 2. Modules

Names follow the source: `cl`, `refs`, `g_q`, `g_dom_inuse`, `wk_alloc`,
`wk_pick`, `dispatch_one`, `gen`, `done_gen`, `mc_error`, `dom_dirty`, `recov`,
`spin_end`, and so on.

### OrkdDaemon: the loop, the scheduler, several clients

State: the kernel's descriptors (`sock`, descriptor to peer) and listen
`backlog`; per client its phase, outstanding request, how much of it is unread,
and its unread replies; per daemon its loop position `pc`, the slots `rev` that
`poll()` reported and that are still to be serviced, the slot table, `refs`, the
domain pool, the active domain and the queue.

One tick of the loop is `PollNoAccept`, `PollAccept` or `PollRefuse`, then one
`Service(i)` per reported slot in ascending order, then `Dispatch`.  Clients act
between any two of these.  A request is two writes (header, payload); a handler
runs only when all of it is there or the client is gone, because the daemon's
reads block.  `Drop` is the whole drop path: purge the queue, return the domains,
close, move the last slot into the hole, skip that slot for this tick.
`Dispatch` runs one quantum of the item `wk_pick` chooses.

Abstractions: tensors are left out; CHAIN stands for all requests that run inline
over resident weights, PACK for PACK and IMPORT, RUN for the three kinds of run
(each has its own action in OrkdRequest); `seq` is the rank of an item, since
it is only compared; the NPU's return code is free.  A client is synchronous, as
the library is; several threads on one connection are outside its contract.

### RpcService: what a client is promised

`Open`, `Ask`, `Answer`, `Return`, `Leave`: a call on an open connection is
answered at most once, by a reply to that call, and nothing else arrives.
OrkdDaemon implements it (`RefinesRpc`, checked and proved); the mapping keeps, for each
client that has not left, the kind of its call and the tags of its unread
replies, and hides slots, descriptors, queue, slices and domains.

### OrkdRequest: every message on one connection

Two byte streams at the grain of one struct, list or payload; the client writes
one unit at a time and may die between two.  `Wrapper` says for each call what
it writes, how many descriptors it sends and which reply it takes; `Begin`,
`Write`, `Receive`, `Fail`, `Disconnect`, `Die` are the client.  Every handler is
an action that reads what the code reads on each of its paths, and acts on `srv`:
open descriptors, the DMA registry with the domain of each import, the IOVA
account, weights with the descriptors they own, the queued run, the ring, the
domains granted.  Any allocation, import or run may fail.  Fewer descriptors may
arrive than were sent.  Both settings of `ORK_ADOPT_ZC` are initial states.

### OrkdTables: the slot array as memory

Slots above `nc` keep what was last stored in them; `Accept` assigns the fields
the code assigns and no others; `Drop` frees and compacts.  Weights and kv
handles are heap addresses that can be reused.

### OrkdRing: the A-ring

`SubmitFill` and `SubmitPublish` are the client's two stores, `RingRun` and
`RingRespond` the daemon's.  The cursors are counters modulo `CTR` (2^32 in the
code) and indices modulo `NSLOTS`.  `RingService`, `RingEnter`, `RingLeave`,
`RingServiced` are the bounded pass between two rounds of sockets.

### OrkdLifecycle: who owns the NPU

Paths lead to inodes, locks belong to inodes, each system call of the start and
the end of `main()` and of `orkd_connect` is a step, and a daemon may die before
any of them.  The shutdown has the order of the code: close the socket, unlock,
unlink.

### Spine

A step is one critical section, or the dispatcher's work between two;
`pthread_cond_wait` is two steps.  The initial states are all DAGs, placements
and kinds of units within the bounds.

### NpuPool: the pool of a context (`sched.c`)

The owner of the context publishes a job under `pmu`, runs element 0 itself and
waits for the helpers of the elements 1 to nc-1.  `HelperSleep`, `HelperTake`,
`HelperRun`, `HelperReport`, `HelperStop` are `orki_npu_pool_worker`;
`PoolEnsure` may create fewer threads than asked; `PoolDispatch`, `RunOwn`,
`WaitSleep`, `WaitReturn` are a dispatch; `StopPool` and `JoinReturn` the end of
the context.  The array of arguments is named by the generation of its job, so
that a helper in the wrong frame shows.

### ParallelFor: the pool of the process (`sched.c`)

Any thread may call; the `dispatch` mutex serialises; the first call that needs
them makes the threads, possibly fewer than wanted; `ParSplit` cuts the range
into chunks of `ceil(n/threads)`, the last of which may be empty or short; the
caller takes the first.  Lengths of zero and below return at once.

### MultiCore: one matmul, or a stream, on several cores

`BeginColsplit` gives each core a share of the column tiles, `BeginStream` a
share of the ops.  For a split matmul each worker submits (`WorkerSubmit`,
`WorkerReject` with the retry after a reset), waits (`WorkerDone`,
`WorkerTimeout`), meets the others once per K-slice where the slices of an fp16
weight lie in different buffers (`Barrier`), and sums (`WorkerSum`).  `Land` and
`Stall` are the NPU.  A stream is polled (`EndLanded`), resubmitted or given up
(`EndRecovers`, `EndGivesUp`), and `Judge` is how the caller reads the frontier.
What a tile holds is whether it is this call's result.

### DynQueue: chains steered while they run

The command buffer is slots with a program and a link; the sequencer (`ReadAhead`,
`Complete`, `Hang`) holds up to `lead` slots beyond the program it runs. `Begin`,
`WarmSubmit`, `RealSubmit` open a chain, with the warm pass over the same buffers;
`AppendWrite`, `AppendFlush`, `AppendLink` are the three stores of an append with
their headroom check (`TooClose`); `HaltAt`, `EndStart`, `EndPoll` close it. `EndPoll`
and `WarmDone` are enabled in every state of the doorbells and of the sequencer: the
code's waits end with the doorbells or with the clock. A wait that is given up while
the sequencer is in the chain sets `left` (`Leave`). A chain that is written or
submitted over one that runs, be it one that was left, a warm pass or a spin tail,
makes the sequencer `"wild"` (`Overwrite`): what it reads from there on is not known,
and it may ring any doorbell (`Stray`). Over it the deferred queue (`QPush`, `QFlush`,
`QIdle`, `QDrain` with its chunks), a chain used directly, and the precompiled chain
(`PcRun`, `PcWait`).

The sequencer is external: the code assumes of it that it reads links from
memory and is at most `HEADROOM - 1` slots ahead.  `Slack` makes this explicit:
between the check of an append and its link the NPU may complete at most what
the headroom leaves.  An append that took longer than that is outside the model,
as the code has no defence against it.  How long a program takes is not assumed.

### NpuContext: scratch, domains, drops, teardown

A buffer is a slot of the scratch, the domain it is mapped in and a size class;
`ctx.save` are the parked sets.  `RunSingle`, `RunStream` and `RunExperts` stand
for the three kinds of run by the buffers they grow and create (`GrowBuf`,
`GrowSized`, `McEnsure`); each activates its domain first (`Activate`, `Park`,
`Switch`), which reaps stuck jobs by their age (`Reaped`), and any allocation on
the way may fail (the sets `F`).  `ActivateDomain`, `LiveReap` and `Free` are the
API calls.  A mapping whose last handle was overwritten is counted as lost.

### PackedWeight: int8 weights in memory and in files

Bytes are elements of the matrix, so `Tiled` is the permutation `orki_pack` does
(`RowOf`, `ColOf`) and `Untiled` its inverse in the loader (`Spot`); `Interleaved` is
the rebuild of a full copy from the tiles.  A layout is a place for each tile (`One`,
`Each`, `Chunks`), `Contents` what its objects then hold (`Put`).  `Packed`, `Imported`, `Loaded`,
`Adopted` are the ways to make a weight, each with its fall-backs (one chunk, one
buffer per slice, a full copy for a one-row matmul, views of a chunk) and with
the window full at any point; `PackHeader` is the stamp and its check.
`Destroyed` is what `ork_mm_free` destroys for a weight of that layout, `limbo`
what `ork_w_free` leaves to the context.  Repacking in place and the resident K/V
pair with its appends (K transposed, V not) write through the same layout.

### StreamPool: weights slid through the window

`PoolRun` maps the weight it needs buffer by buffer (`MapBuf`), rolls back when
the window is full (`MapFails`), evicts the least recently used other entry and
starts again (`Evict`), or fails.  `Others` take and give back room between any
two ioctls.

### SeqSubmit: sequences of ops

`SeqHw` gathers a matmul into the open batch, `SeqSw` closes the batch and runs
an op alone, `SeqGroup` takes a contiguous run of grouped ops, builds one chain
per core (`Eligible`, `ChainsOf`: whole groups, each to the least loaded core, a
witness matmul where a chain would not end in one) or falls back.
`ork_submit_chain` cuts the sequence first (`RunEnd`).  `sofar.saw` records for
each op which results its input buffer held when it was copied.

### FusedChain: tables a core keeps, and the operating mode

`CallFused` is an entry point of `i8/chain.c` up to its first chain: it computes
its curve, clears the records of all cores where the code does (`Forgotten`), and
enters the mode.  Then each core takes a chain (`TakeChain`), patches its load
program and loads the table unless it is there (`LoadLut`), builds the task array
unless it is there (`RunChain`) and submits.  `unit[i]` has the records of core i
(`lut_p`, `devloaded`, `built`, `P`) and what they are about (`lrc`, `sram`, `tk`),
which `ResetKnown`, `ResetUnknown`, `SdpOp` and the submits change.
`XSPEC`, `KeptWarm` and `Resets` are the tables and predicates of `ork_npu_enter`.

`FusedExact` says that a call that succeeds ran each chain once, with its own
curve and its own task array, and did not enter the int8 pipeline warm from an int4
chain.  It excepts what section 1 lists under *Rounds and chains* (a curve rebuilt
in place behind a record that is not cleared, the two cases of
`ORK_CHAIN_LUT_STICKY`), each by the condition under which it arises, so that
everything around these cases is checked.

### The composites

MCClient, MCResident, MCDriver and MCExecutors check several parts in one run.
Their parts share no state, as they share none in the code, and a variable
`which`, chosen initially, says whose behaviour is looked at; the initial choices
of the others are then fixed.  Each property is thus checked on all behaviours of
its part.

### How they fit together

OrkdDaemon gives the interleaving of clients and takes each request as one
unit; OrkdRequest opens one request and takes the other clients away; OrkdTables
and OrkdRing open two pieces of the daemon's state; OrkdLifecycle is what
happens around the loop (its "serve" is the loop, its "reap" the action `Reap`).
Below the requests, SeqSubmit orders the ops of a call, MultiCore and DynQueue
run one of them or a batch, NpuPool carries the workers of MultiCore
and the round-robin chains of FusedChain, NpuContext has the memory the runs use
and PackedWeight and StreamPool the weights.

What one assumes another checks: that a whole request is read or the client
dropped (`Take`, `Drop`) is `InSync`; that weights follow their slot under
compaction is `WeightsExact`; that one daemon runs is `CrashSafe`, up to the
finding below; that the workers of MultiCore each run once and are joined
(`Join`) is `JobComplete`; that a dropped round is marked (`DropMarked`) is what
`RunStream` of NpuContext assumes and `SwitchReaped` uses; that a batch is
submitted whole and once (`Submit` of SeqSubmit) is `NothingLost`; that a mapped
weight holds its tiles is `LayoutExact`.

## 3. Runs

| run | instance | checks |
|---|---|---|
| `daemon_runs` | 2 clients, each in a domain of its own, queue of 2, runs of 2 quanta, 2 priorities, PACK/FREE/RUN | `TypeOK`; `WorkIsOwed`: a queued run belongs to a client that is owed that reply; `RequestConserved`: a call is in exactly one place |
| `daemon_table` | 3 clients, 2 slots, 1 pool domain, DOM_REQ/DOM_REL | `ConnectionsAgree`: table, descriptors and backlog agree; `NoBlockingRead`, `RefsExact`, `DomainsExact` |
| `daemon_live` | 2 clients, one domain, equal priorities, all inline requests | `CallsReturn`, `DeadClientReclaimed`, `RefinesRpc` |
| `client` | life: 2 daemons, 2 clients, 2 inodes; ring: 1 client, 3 slots, counters that overflow at 6 | `CrashSafe`, `SubscribersServed`, `ClientsServed` (connects and collects return, sockets get their turn) |
| `resident` | tables: 2 slots, tables of 2, 3 weights, 2 kv handles; stream: 2 descriptors, 2 weights, 2 domains of 3 buffers; ring: as above with 2 inputs; stream pool: 3 entries of 1 or 2 buffers, window of 3, others take up to 2, 3 runs; sequences: up to 3 ops, batches of 2 or 4, 2 cores, 2 groups, both entry points, 1 submit going wrong | `WeightsExact`, `InSync`, `NoLostCall`, `FdsExact`, `IovaExact`, `RingExact` (`TicketsExact` and `CursorsAgree`), `PoolExact`, `SeqExact`, `GroupsWhole` |
| `executors` | spine: 2 units, 2 ops, 2 runs, all DAGs and placements; context pool: 4 threads, 3 jobs; process pool: 2 callers, 2 calls each, up to 3 threads, lengths 0, 1, 2, 4; fused chains: 2 entry points, 2 curves, 2 op lists, 2 calls of 1 or 2 chains on 2 cores, 1 op of another kind or fault | `DepsRespected`, `ResultsExact`, `JobComplete`, `EachIndexOnce`, `FusedExact`, `ExecutorsReturn` |
| `driver` | cores: 3, split fp16 matmuls and int8 streams of 2 or 4 tiles or ops, 1 or 2 K-slices, 2 retries, 3 faults; chains of up to 4 tasks in chunks of 2, with and without a reserve, 0 or 1 slots read ahead, 2 runs of a precompiled chain, 2 refusals or hangs, every wait free to run out; context: 2 cores, 2 domains, 2 dropped rounds or a failed allocation; weights: two shapes, both SoCs, two window sizes, one dump at a time, a K/V pair of 2 keys | `CompleteIsLanded`, `Lockstep`, `DropMarked`; `NeverTorn`, `NothingLost`, `CountIsLanded`; `ScratchExact`, `SubmitsComplete`, `SwitchReaped`; `LayoutExact`, `BuffersExact`; `DriverReturns` |
| `life_twice` | 3 daemons, 3 inodes | `SingleOwner` is violated |
| `tables_kv` | 2 slots, tables of 2 | `KvExact` is violated |
| `mc_silent` | int8 matmul, 2 cores, 1 fault | `CompleteIsLanded` is violated |
| `weights_import` | one shape, room for all | `ImportServed` is violated |
| `seq_stale` | sequences of 2 ops | `ReadsInOrder` is violated |

Why the bounds suffice for the cases that matter.  Compaction moves a slot from
two slots on; a refusal needs one client more than slots; a domain moves between
holders in a pool of one when a second client asks.  Slicing needs runs longer
than one quantum with somebody else queued, preemption two priorities, reuse of a
descriptor a client that leaves and one that comes.  The ring wraps with slots
still in flight, and its counters wrap twice as late as its slots (`CTR` is a
multiple of `NSLOTS`, as 2^32 is of the code's slot count).  A zero-copy run
holds two descriptors and an adopted weight one or two: at 2 they fit, fit in
part, and run out.  The pidfile finding needs three daemons.

Below the daemon: three cores let one fail, one finish early and one late; widths of 2
and 4 give cores no share, equal shares and unequal ones. Four tasks in chunks of two
are two chunks, the last full or short; a reserve of five leaves room for an append in
flight and a spin slot behind it. Two domains are one to leave and one to come back
to, with a first and a repeated visit. A shape of 12 x 12 has two K-slices and, on
either SoC, two N-slices, the last of each short; 14 x 2 is too deep for a full copy
of its columns. A window of 200 elements makes each fall-back of the packing and
loading paths happen, one of 400 none. Three ops let a group sit between two single
ops, or two groups share a core. A helper of the pool can sleep through a whole job
only when there is a narrower one between two wider ones, hence four threads and three
jobs. Two calls of fused chains are one that leaves records and one that finds them;
two entry points use two arrays, op lists of two lengths two sizes of task array. The
variables that keep the pipeline warm are set together.

`MaxWid` bounds the handles issued to a connection, `MaxRuns` and `MaxJobs` the
calls made, `MaxClock` the runs over a stream pool, `MaxFused` the calls of fused chains: counters without other
effect.  `MaxFaults`, `MaxErrors`, `MaxTrouble`, `MaxRefused`, `MaxEvents` bound how often
the environment misbehaves in one behaviour.

Every property has a mutant: a plausible slip in one mapped definition (a
missing purge, a leaked domain, a forgotten close, a publication before the data,
a lost signal, a worker that leaves its loop early, a roll-back that is left out,
a full copy that is not rewritten) under which TLC finds the property violated by
the same configuration.

Deadlock is checked except where calls and sequences simply end (`driver`,
`executors`, `mc_silent`, `seq_stale`).  In `client` and `resident` the states
that may rest (the daemon gone with every client detached or spinning; a sequence
that is over) are named by the action `Rest`, and any other is an error.

## 4. Findings

1. **Two daemons can own the NPU** (`life_twice`, `orkd.c:450`).  The shutdown
   unlocks the pidfile, closes it, then unlinks it.  A daemon that opened the path
   before the unlink locks the old inode; after the unlink another creates and
   locks a new one.  "Single-instance: hold an exclusive flock on the pidfile"
   (`orkd.c:299`).
2. **A new client inherits another's kv handles** (`tables_kv`, `orkd.c:381`).
   `accept` does not reset `nkv`/`kvt`, and a compaction leaves a copy of the
   moved client in the last slot.  Whichever of the two leaves first frees the
   handles under the other.
3. **An int8 matmul can succeed over a tile that was not computed** (`mc_silent`,
   `npu/core/colsplit.c:166`).  A per-core submit that fails raises `mc_error` for
   fp16 only; for int8 the tile is summed from what the scratch held, the round
   counts as complete and the call returns 0.  "A silently wrong number is worse
   than a crash" (`npu/core/submit.c:282-285`).
4. **The default import refuses a good dump** (`weights_import`,
   `npu/i8/pack.c:380`).  The client checks and strips the header; the daemon's
   load asks for it (`i8/pack.c:326,171`).  "Returns an is_orkd weight handle"
   (`weights.h:28-29`).  With `ORK_ADOPT_ZC` the import works, and `LayoutExact`
   covers what it makes.
5. **A grouped op does not see its group's results** (`seq_stale`, `npu.c:1998`).
   Inputs are copied when the chain is built, results written back when it is
   over.  "CONTIGUOUS ops sharing a group id form ONE sequential chain (kept on
   one core, in order)" (`seq.h:247-248`).  Ops outside groups are not concerned:
   `SeqExact` says so.

## 5. Fairness

* OrkdDaemon: weak fairness of the daemon's loop as a whole (one thread, always
  scheduled, whose NPU calls return), of a client finishing the write it began,
  reading the reply it blocks on, and noticing a closed socket.  No fairness for
  sending, connecting, dying, reaping or signals.  The second assumption is
  needed: a client stopped between header and payload holds the daemon in a
  blocking read (hazard at `orkd.c:52`).  `CallsReturn` is checked with one
  domain and equal priorities because the scheduler does not promise more.
* MCClient, ring: the loop goes on, every pass over the sockets (finite: the
  clients `poll()` reported) ends in a pass over the rings, every ring is entered
  in its turn, a spinning client looks again.
* MCClient, life: a daemon's `main()` and a client's retry loop go on, and a
  daemon accepts in the order of its backlog.  Time is left out: the retries are
  taken to outlast a start, as the comment on them says.
* MCExecutors: threads are scheduled, op functions return, the caller stops the
  units and joins the helpers.  Nothing is assumed of who calls.
* MCDriver: the calling thread and each worker run, and each core of a per-core round
  goes on with a program it does not stall on (`Land`). Of the NPU that walks a chain
  nothing is assumed, not even that it goes on: `EndPoll` and `WarmDone` end by the
  clock. Stalls, hangs and refusals may happen at any time within their bounds, and
  what makes `DriverReturns` true then is the code's own: timeouts, bounded retries,
  the barrier that a failed worker still attends. Nothing is assumed of the user of a
  chain, or of the context and the weights.

## 6. Proofs

Eight modules `X_proofs.tla` extend the modules they are about: mostly `X`, while
`OrkdState_proofs` is about OrkdLifecycle, OrkdTables and OrkdRing, `Executors_proofs`
about Spine, NpuPool, ParallelFor and FusedChain, `DriverMemory_proofs` about
StreamPool and NpuContext, and `Submission_proofs` about MultiCore and SeqSubmit.  A theorem holds for all values of the
constants that satisfy the named `ASSUME` of its module; these say no more than
that counts are naturals, that there is at least one slot, unit or thread where
the code has one, and that the "none" values are not members of the sets they
stand beside.  TLC evaluates each in the runs.  Three theorems have a further
hypothesis: two are discussed under MultiCore, `LayoutsAreExact` under PackedWeight.

Each proof has the same shape: an inductive invariant as a conjunction of named
parts, which TLC checked before it was proved; a lemma per kind of step, with
frame lemmas for the steps that leave a part alone; then initial states, steps,
and the theorems.

| module | theorem | states |
|---|---|---|
| `OrkdDaemon_proofs` | `TypeCorrect`, `TableConsistent`, `NeverBlocks`, `DomainsNeverLeak` | `TypeOK`, `ConnectionsAgree`, `NoBlockingRead`, `DomainsExact` |
| | `RefsAreExact` | `RefsExact` |
| | `WorkAlwaysOwed`, `NoRequestLost` | `WorkIsOwed`, `RequestConserved` |
| | `OneCallOneReply` | `RefinesRpc`: the daemon implements RpcService |
| `OrkdRequest_proofs` | `StreamsInSync`, `CallsAreOwed` | `InSync`, `NoLostCall` |
| | `FdsAreExact`, `IovaIsExact` | `FdsExact`, `IovaExact` |
| `OrkdState_proofs` | `CrashesAreSafe`, `SubscribersAlwaysServed` | `CrashSafe`, `SubscribersServed` of OrkdLifecycle |
| | `WeightsAreExact` | `WeightsExact` of OrkdTables |
| | `RingIsExact` | `RingExact` of OrkdRing |
| `Executors_proofs` | `SpineTypes`, `DepsAlwaysRespected`, `ResultsAreExact`, `RunsComplete`, `SpineWakeupsKept` | `TypeOK`, `DepsRespected`, `ResultsExact` of Spine, and two stated there |
| | `JobsComplete`, `PoolWakeupsKept` | `JobComplete` of NpuPool, and one stated there |
| | `IndicesVisitedOnce`, `ParWakeupsKept` | `EachIndexOnce` of ParallelFor, and one stated there |
| | `FusedIsExact` | `FusedExact` of FusedChain |
| `DriverMemory_proofs` | `PoolIsExact` | `PoolExact` of StreamPool |
| | `ScratchIsExact`, `SubmitsAreComplete`, `SwitchesReap` | `ScratchExact`, `SubmitsComplete`, `SwitchReaped` of NpuContext |
| `Submission_proofs` | `SlicesInLockstep`, `SuccessIsComplete`, `DropsAreMarked` | `Lockstep`, `CompleteIsLanded`, `DropMarked` of MultiCore |
| | `SequencesAreExact`, `GroupsAreKeptWhole` | `SeqExact`, `GroupsWhole` of SeqSubmit |
| `DynQueue_proofs` | `NeverReadsTorn`, `NothingIsLost`, `CountsWhatLanded` | `NeverTorn`, `NothingLost`, `CountIsLanded` |
| `PackedWeight_proofs` | `BuffersAreExact`, `LayoutsAreExact` | `BuffersExact`, `LayoutExact` |

### OrkdDaemon

Assumed: `LimitsAssumption` (at least one slot, one domain and a positive quantum;
the other limits are naturals) and `InputAssumption` (request kinds, rows and
priorities are what the code's types say).

The first four theorems share one invariant, the conjunction of what they state;
none of the four is inductive alone.  Typing a reply of `dispatch_one` needs the
item's descriptor to lead to a real peer (`TableMatchesSockets`); a slot stays
readable under another slot's handler only because distinct slots have distinct
descriptors and these distinct peers; `ConnectionsAgree` needs its backlog half so
that a newly accepted peer is not already in the table; `DomainsExact` needs its
third conjunct (the automatic domain is not among the requested ones) so that
DOM_REL does not return a domain that is still held.

`RefsExact` counts slots, so its proof is about cardinalities under the three
changes of the table: a slot is appended, greeted, or removed by moving the last
one over it.

`WorkIsOwed` and `RequestConserved` follow from `CallInv`: the queue's half
(`WorkIsOwed`), a record per peer of where its call is (`PeerCalls`: what it has
written, what is queued for its descriptor, what it has not read), and
`Untouched` (a peer in the backlog has had nothing read or written).  The step
that needs it most is the reuse of a descriptor: an item of a client that left
cannot be found again because `Drop` purges by descriptor before `close` frees
the number.

The refinement adds to these that an unaccepted peer can only have sent its HELLO
(`Greeting`), without which a WELCOME could answer another call.  Then each
daemon step is mapped: a service or a dispatch that writes a reply is one
`Answer`, a drop with or without an error reply one `Answer` or a stutter, and all
bookkeeping stutters.

### OrkdRequest

Assumed: `RequestAssumption` (at least one domain; descriptors, weights and the
ceiling are naturals, and may be 0).

`IInv` has three parts.  `Flow` says where a connection stands: `Idle`; `Asked`, the
client has written some of a request and what is on the stream with what it has
still to write is one whole message of the call it makes (`Coming`); `Waiting` for
a queued run; `Answered`; `Left`, when the client is gone and its last message may
be cut at any unit; and `Dropped`, when the daemon has closed and at most a last
answer is unread.  `Sound` says of a
state, with the descriptors `P` the handler in progress was passed and `k` buffers
in hand in domain `d` that are not registered yet, that every open descriptor has
one owner, `P` included (`Mine`), and that each domain is charged for what is mapped
in it (`Account`).  Third, a connection that is not open holds nothing (`Blank`).
The parameters `P` and `k` are what makes the paths provable one call at a time:
an import takes a descriptor from `P` and adds one in hand, `Register` turns those in hand
into a weight, an error path gives them back or counts them as lost.

What a handler owes is `Outcome`: it has taken exactly its message off the stream
unless it asks for the drop, its reply is one the wrapper reads to the end (`Answer`), or its run is queued,
and its state is sound again with nothing in hand and nothing passed.  It is proved of each of the 21
handlers as a function of state and descriptors (`HelloIs` ... `RingSetupIs`); that a message
arrives in a state the lemma is about (`Arrives`), that one that is cut is a hangup (`HangupKeeps`) and
that an outcome installed keeps the invariant (`Installs`, `HandleKeeps`) is proved
once for all of them.  `DropKeeps` shows that the drop path leaves nothing.

The model states a release for a set of buffers at once: `ork_iova_release` in the
code is called per buffer and stops at zero.  The two agree as long as no release saturates; `Account` is what `FreeImports` and
`ReleaseKeeps` use to show that none does.

### OrkdRing

The daemon's cursor and a client's cursor are counters modulo `CTR`, slots are
counters modulo `NSLOTS`, and neither side sees the other's.  The assumption
`CTR % NSLOTS = 0` is the code's (2^32 and a slot count that divides it); without
it a slot would change owner at the overflow.  `RingInv` says which slots hold
requests (`Cursors`: those from `ring_tail` up to the client's cursor, at most
`NSLOTS` of them), that a ticket not yet collected names the request or its answer in its slot
(`Tickets`), that what is published has data (`Held`), and what the daemon is
doing with the request it has taken (`Serving`).  Under it lies a little modular
arithmetic: two counters at a distance below `NSLOTS` are in the same slot only
if equal (`OtherSlot`), at a multiple of it always (`SameSlot`), and a span of
slots grows and shrinks at its ends (`SpanGrows`, `SpanShrinks`, `FullSpan`).

### OrkdLifecycle

As long as no daemon has been on the shutdown path, the pidfile path never
changes its inode once it exists (`OneFile`); so every daemon past its `flock`
holds the lock of the same inode (`LockHeld`), and only it touches the socket
path (`SocketOwned`).  With the shutdown the first part fails, which is finding 1;
`CrashSafe` has that hypothesis.  `SubscribersServed` has not.

### OrkdTables

`TabInv` is `WeightsExact` with what it rests on.  A slot's handles are at most its
counter `next_wid` and each names one weight (`HandlesIssued`, `OneHandle`), so that
a new handle is not one that is in use; and every slot of the array keeps its
bounds, the ones beyond `nc` too, because accept takes over what a dropped client
left there.  `OneSlotChanges` reduces every step but the drop to what it does to
one slot; the drop moves the last slot over the one that leaves, and what has two
copies then is in use once.

### Spine, NpuPool, ParallelFor

The invariants relate what the dispatcher believes to what the threads have been
given and have done.  Spine: a busy unit carries one op, the last it was given,
and its generation is ahead until its worker is done with it (`BusyUnits`,
`Workers`); each op in flight is on one unit (`OpsCounted`).  NpuPool: the helpers
with a part in the published job, and those of them that are done, are counted by
`pdone` (`DoneCounted`), whatever generations the others have slept through; while
one is not done the dispatcher is in its frame (`FrameLive`).  ParallelFor: one
call is inside at a time (`OneCall`), the threads still to report are counted
(`RunningCounted`), and the lanes partition the range (`LanesSplit`), for which
`ChunkCovers` and `LanesPartition` show that chunks of `ceil(n/t)` cover
`0 .. n-1` without overlap although the last ones may be short or empty.

`SpineNoLostWakeup`, `PoolNoLostWakeup` and `ParNoLostWakeup`, stated in the proof
module, say that who sleeps has nothing to do.  They
are the part of "every call returns" that is a safety property; the rest needs
fairness and stays with TLC (`ExecutorsReturn`).

### StreamPool

`StreamInv` counts the window: an entry has as many buffers in it as it has been
mapped for, all, none, or those mapped so far (`WindowHolds`).  That a run that
fails had nothing left to evict needs that a victim exists whenever another entry
is mapped (`VictimExists`), by the least element of the use times.

### NpuContext

`CtxInv` has two layers.  `Good` holds whatever allocation fails: a set of scratch
has at most one buffer in a slot and all of them in its own domain, and what the
active and the parked sets name is mapped; the parked copy of the active set is
stale and is not one of them.  As long as no allocation has failed there is more:
nothing is mapped that no set names (`Exact`), and the sets have what their
records say (`Furnished`): the three shared buffers, a buffer at least as large as
the size recorded for its slot, and the three buffers of a core together or none.
That last part is why `orki_mc_ensure`, which asks for one of the three and
creates all, never overwrites a handle.  The three facts about the operators that
everything else is built from are `RecreateKeeps` (destroy, then create: nothing
dangles and nothing is lost, whichever of the creations fail), `SwitchKeeps` (a set is parked and another taken up; both stay what they were)
and `McEnsureKeeps`.  `Waited` says of a dropped job that it is of the active domain
and that the mark this domain bears covers its timeout: therefore the flush, which
waits that long, outlives it, and no switch leaves it behind.  The join of the
timeouts (`LoseRound`) is what makes it inductive over several drops.

### MultiCore

That the shares of the cores partition tiles and programs is arithmetic of
quotients (`ShareEnds`, `SharesPartition`); the rest is what each record of the run
level promises about the workers and the NPU.  `Together` (workers on either side
of the barrier are on the same slice) and `Jobs` (a job on a core is that of
its worker) give `Lockstep`, with no hypothesis.  `LandedSoFar` and `Written`
follow a program from its submit to the output it adds to, through stalls,
rejected submits, recoveries and resubmissions.

`SuccessIsComplete` excludes the int8 column split (`"i8" \notin Kinds`): its
workers do not note a submit that failed, and the run `mc_silent` shows a call
that returns 0 without its output.  `DropsAreMarked` excludes streams of fp16 ops
(`"f16stream" \notin Kinds`) and a limit of no recoveries (`RECOV_MAX > 0`): there a
round that does not land is given up at once, and it is the recovery that marks
the domain (see section 1).

### FusedChain

`FcInv` relates the records a core keeps to what they are about (`RecordsTrue`: the
load program of an entry that clears the records is the array as it is now; the
SRAM holds the table the record names unless it was changed behind it; a task
array that counts as built has the length that is recorded), and the chains of a call to the cores
that have them (`CallUnderWay`, `EachOnce`).  `FusedExact` needs one fact more: what
a core has in its SRAM at the moment it starts (`ReadyToRun`), because between load
and run a reset, another op or a mode switch may come, and exactly those clear
the records.  The two places where the code accepts a table it did not load (the
sticky knob, and the entries that trust the record) are disjuncts of it.

### DynQueue

`DynInv` has two layers.  What the host knows by itself holds in every state: shapes
(`DynShape`), which step of which call it is in (`Phases`), what the handle says
(`Handle`) and that counts stay in range (`Bounds`).  What it knows of the NPU
(`Steered`) holds until a chain comes over one that runs: what is in the command
buffer slot by slot (`Buffer`), what the sequencer has read of it (`InPipe`), which
doorbells have rung (`Doorbells`: those of a prefix of the chain) and what the host
has counted (`Counted`).  It cannot be kept beyond that, as `Overwrite` says nothing
of what follows; that it is kept up to there, with waits that end at any moment, is
the content of the theorems.

The heart of it is that the host writes into memory the sequencer is reading:
`AppendAhead` shows that a slot being written and its link lie beyond what is read
ahead, because the host appends only at a distance of `HEADROOM` from the front it
has seen and the sequencer has moved by `Slack` at most since; `ReadsRight` is then
what the sequencer finds.  `Slack` says how many programs complete during an append.
It is the one assumption about the time the NPU takes; none is made of how long a
program runs, nor of a wait and the NPU.

An end may be given up while the sequencer is in the chain.  The chain lies in its
slots as it did and goes on to be read and rung, so nothing is torn (`HeldIsWhole`);
what was counted is a prefix that has landed, and a prefix only grows (`RangKept`).
Hence `NeverReadsTorn` and the bound of `CountsWhatLanded` hold with `left` set.
Completeness (`NothingIsLost`), the exact count and that only spin programs are left
do not, and have it as a hypothesis; `left` is set where the code leaves its poll on
a running chain and nowhere else.  A program the queue could not build
(`FlushRefused`) may still have overwritten slots; `FlushRefusedKeeps` shows that
without a chain in them this disturbs nothing.  `DynAssumption` bounds the reserve by
the room of the modelled buffer.

### SeqSubmit

Assumed: `SeqAssumption` (at least one core and a batch of at least one op; the
bound on refusals is a natural).

`SInv` cuts the sequence in two (`Standing`): the ops up to some `lo` have been
dealt with, and those from there to the op the loop is at are the batch, all
matmuls of one kind and domain (`Gathered`).  `Dealt` says of the first part that its
ops were submitted once each and in order, none missing unless one failed, and,
as long as no doorbell round was lost, that all their results are there and an op
in no group has seen those it reads.  What makes the last conjunct inductive is
that an op reads only results of ops that are not matmuls (`ReadsBefore`): the
members of a batch never read from each other, so copying their inputs all at once
is as good as one after the other.  Inside a group that is not so, which is what
the run `seq_stale` shows.

`GroupsWhole` rests on two lemmas.  Groups are intervals of the run
(`GroupSpan`), because the number of an op, the changes of the id up to it, grows
by at most one from op to op; closing a group with a witness keeps
that (`GroupsAreWhole`).  Handing a group to the least loaded core appends it to the
chain of that core (`GiveKeeps`): every group stays together at the place where it was
appended (`Placed`), and since a core without load is lighter than any other, the
first groups go to the cores in turn and none is left empty (`Shared`).

Both recursions, over the ops run in turn (`TurnsExist`, `InTurnKeeps`) and over the
groups handed out (`GivenExists`, `ChainsAreShared`), are functions on `0 .. n`.  That
they exist and keep the invariant is shown by the least number for which they would
not (`LeastOfSet`, from the well-foundedness of `<` on the naturals), in place of
induction.

### PackedWeight

Assumed: `PackedAssumption`.  Sizes are positive, the K-slices, N-slices and weights
are whole blocks, as the guards of `orki_pack` and the tables of `soc.c` have it; the
resident pair fits one K-slice and one N-slice of K; objects are finitely many.

`BuffersExact` is about who owns what, but to know it one has to know where every tile
lies: a consolidated pack has views into one object, an import fills chunks, an
adopted buffer is cut up as it is, and each is destroyed in its own way.  The proof
goes up in layers.

* What buffers take is the number of their pages (`Pages`): a set, so that sums are
  cardinalities, which add up over disjoint parts (`TotalJoin`) and do not depend on
  the names of the buffers (`TotalMoved`).  The offset of a tile is the pages before it
  (`BeforeIs`).
* A layout `Covers` its tiles: each lies inside its object, tiles of one object do not
  overlap, every object is used.  One object each and one for all are direct; for
  chunks filled in order, the recursion exists (`PlacingExists`) and keeps its tiles
  apart (`ChunksInOrder`), again by the least index at which it would not.
* Laid out in memory, what is read through each buffer is the tile that was meant to
  be there, and the memory has exactly the new objects more (`LaidBuffers`), under
  handles that are new and different (`HandlesAreNew`).
* Each maker is such a layout, then a full copy or none, or it is nothing at all
  (`Good`, `PackedIs`, `ImportedIs`, `LoadedIs`, `AdoptedIs`).  A weight made so names
  each of its objects once when it is freed (`DestroyedOnce`).

The inductive invariant `PkInv` says of every object that it is long whole pages, and
belongs to `limbo`, to the caller's weight or to one weight of the pair (`Owned`); and
of every dump that it is one (`FileOK`), because a load trusts the lengths of the body.
The pair is the case that needs most care: a failed second pack leaves the first one
in `limbo`, an append writes through both weights and must change no length.

`LayoutExact` is about what the buffers hold.  A tile *holds* its slice when each
element of the matrix is at its address in it (`TileHolds`), and the proof follows the
elements through every step a weight can take.

* The permutation of `orki_pack` and the address the loader computes are inverse to
  each other in every slice of whole blocks (`SpotIs`, `PlaceIs`), so packing holds
  the slice (`TileSetHolds`) and unpacking gives the matrix back (`UntiledIs`): each
  place of a matrix is in one slice (`SliceOf`).
* The full copy rebuilt from the tiles of an adopted or loaded weight holds the matrix
  over the full K (`RebuiltHolds`), though its tiles have other shapes than those
  it is read from.
* What a tile holds is not disturbed by where it is laid out (`ReadsHold`), nor by
  memory that other weights own (`ExactMoved`).
* An append writes one column of K transposed, or one row of V, in a tile and in the
  full copy (`ColumnPatch`, `RowPatch`, `AppendTo`).  It changes that key and nothing
  else, because the copies share no object: this is where `PkInv` is needed.

The inductive invariant `LyInv` stands beside `PkInv`: every weight reads as the matrix it
was given, in buffers or as codes (`Exactly`); the resident pair has its shapes and
is no offline weight; and every dump that has a header holds its weight as it is tiled
for the SoC the header names (`FileExact`), which is what a reader that accepts the
header relies on.  A dump without a header promises nothing; the readers that check
headers refuse it.

The hypothesis `KTILE \in {0, KS}` is what the code needs.  `orki_pack`, the
appends, the offline dumps and the matmul that reads the tiles cut by `orki_int8_ks`, which
`ORK_KTILE` overrides; the loads, the imports, the repack and
`ork_i8_mm_pack_import` cut by 1024 (`i8/pack.c:189,232,332,405,764`), and the header names neither.  With another
`ORK_KTILE` a weight cut one way is read the other: given `KTILE = 4` in place of 0 and
the other constants of the run `driver`, TLC violates `LayoutExact` with a first
`ork_i8_mm_pack_import`; given `KTILE = 8`, which is `KS` there, it finds no error.

### What stays with TLC

Liveness (`CallsReturn`, `DeadClientReclaimed`, `ClientsServed`,
`ExecutorsReturn`, `DriverReturns`): fairness and `ENABLED` are out of the prover's
reach.

Every safety invariant of a passing run, and the refinement of RpcService, is proved.

## 7. Limits

The memory model: the ring's stores are in program order, as the release and
acquire operations of `orkd_ring.h` provide; a program is flushed before it is
linked, as the cache maintenance of `ork_dyn_append` provides.  Timeouts have no
duration: one may run out whenever the event it waits for has not happened, whether
or not what should bring it about is still under way, except that NpuContext compares
the age of a stuck job with the timeout it was submitted with.  The
hardware is as the code takes it: a submit is a list of programs that land in
order, is refused whole, or stalls and stays until it is reset or reaped.

Not modelled, and why:

* Register programs, nibble and tensor layouts other than the int8 tiles, the
  numeric kernels (SDP, norm, SSM, attention arithmetic, quantisation, CPU
  kernels).  Their control is straight-line, and whether their words are right is
  a question to the hardware, not to a model of the code.
* The warm-up submits and the growth of scratch at a mode switch (`mode.c`): what
  goes wrong without them is a measured numeric effect.
* The row split, the asynchronous
  job thread, the helper thread that marshals SSM inputs, layers and attention as sequences of calls, the rescue by slices.
* Device bring-up, ioctls, reading the environment, profiling: I/O.
* The kernel's capture tables, probes and per-SoC constants: data and experiments.
* `ORK_KTILE` and the offset views `bf_off`: the first is a constant of
  PackedWeight that the runs leave at 0 and `LayoutsAreExact` takes to be 0 or the
  slice the loads cut by; with any other value the layouts disagree by design (see
  section 1).
* `tools/`, `examples/` and `tests/`: stand-alone programs that call the library.

The map covers a small share of the repository's lines for this reason.  The
driver library and the daemon are a third of them, and most of the library is
the register programs, layouts and kernels listed first; the rest is
tools, examples, probes and captured data, which have no shared state.  What is
modelled is the part in which actors interleave, things fail half-way and
records have to agree.

## 8. Plan

What is left, in order of use:

1. The asynchronous job thread as a user of NpuPool and DynQueue, and `TakeChain`
   of FusedChain as a job of NpuPool.
2. The row split, composed with MultiCore.
3. Proofs about what these add.
