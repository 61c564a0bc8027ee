# A TLA+ verification project for the Amlogic media modules

The repository holds the Linux kernel drivers of Amlogic's video hardware: the
V4L2 stateful decoder (`drivers/amvdec_ports`), the decoder core and its codec
drivers (`drivers/frame_provider`), stream input and demux
(`drivers/stream_input`), presentation time stamps and A/V synchronisation
(`drivers/media_sync`), encoders (`drivers/frame_sink`) and chip support.  Most
of its 600,000 lines are register programming and bitstream syntax, one driver
per codec.  What carries the system's own logic, and what this project is
about, is the code every codec shares: how a stream gets in, how decoder
instances share the hardware, how decoded buffers travel and come back, and how
fences and time stamps keep up with them.

Contents: [inventory](#inventory), [plan](#plan), [modules](#modules),
[runs](#runs), [proofs](#proofs), [findings](#findings),
[met while modelling](#met-while-modelling), [not modelled](#not-modelled).

## Inventory

### How a frame travels

    frame mode:   application --QBUF(output)--> V4L2 context --vdec_vframe_write--> decoder input
    stream mode:  application --write--> write thread --> ES parser or the driver --> ring
                       |                                                             |
                       +--time stamps--> PTS server <--offset----------+             |
                                                                       |             |
                     scheduler (vdec_core_thread) ---runs---> codec driver <---------+
                                                                  |      ^
                                                       fences     |      | aml_buf_get
    application <--DQBUF(capture)-- sink <-- VPP / GE2D / AVBC <--+      |
         |                           +--> DI manager --callback--+       |
         +--QBUF(capture)--> buffer core: reference counts, free queue --+

### Components

| component | state | operations | interacts with |
|---|---|---|---|
| Buffer core (`aml_buf_core.c`) | table of entries by dmabuf key; per entry reference count, state, holder word, `inited`; free queue; reference count of the manager | get, get_ref, put_ref, done, fill, vpp_cb, reset, attach, detach, release | called by decoder, post processors, vb2 queue, DI callback through `aml_buf_mgr.c`; calls the hooks of the buffer manager |
| Buffer manager (`aml_buf_mgr.c`) | frame buffer context, recycle work queue | prepare, free, vpp_que/dque/reset, DI callback, recycle worker | buffer core, task chain, DI manager (outside the repository), UVM |
| Task chain (`aml_task_chain.c`) | per buffer: list of items, link map, reference count | attach, clean, submit, show, release | drawn by `aml_creat_pipeline`, walked by `aml_buf_done` |
| V4L2 context (`aml_vcodec_dec.c`) | context state, vb2 queues, capture fifo, is_stream_off | QBUF/DQBUF, STREAMON/OFF, capture worker, events, controls | everything in `amvdec_ports` |
| Post processors (`aml_vcodec_vpp.c`, `_ge2d.c`, `_avbc_wrapper.c`) | input and output fifos, one thread each | fill_vpp, threads, completion callbacks | buffer core; hardware callbacks |
| Decoder input (`vdec_input.c`) | lists of blocks, free blocks and chunks with their accounts; the block being written | add_chunk, next_chunk, release_chunk, get_free_block, get_freed_handle, prepare_bufs, release | writer ioctl, codec driver's work, scheduler thread |
| Scheduler (`vdec.c`) | instance list, core masks, per instance status and masks, a semaphore | connect, disconnect, run, finish, destroy, reset, core thread | decoder input, codec drivers' interrupts, work items and callbacks |
| Fences (`vdec_sync.c`) | slots, timelines, sync points, buffer count | get, create, signal, count buffers, release, clean | H.265 drivers, V4L2 context, dma-fence, display |
| Memory boxes (`decoder_mmu_box.c`, `decoder_bmmu_box.c`) | index tables of reference-counted allocations | alloc_idx, free_idx, move, keep | codec drivers, keep list |
| Time stamps (`pts_server_core.c`) | table of instances; per instance a list of nodes, 32-bit offsets, the state of two search heuristics | alloc, bind by id, check in, check out, peek, reset, release | V4L2 stream mode, players, demux, audio |
| Media sync (`media_sync_core.c`, `_policy.c`) | instances, clock anchors | bind, update anchor, get | players |
| Stream input (`amstream.c`, `streambuf.c`, `thread_rw.c`, `stream_buffer_*.c`) | ring buffer with read and write pointer and payload; write thread with two fifos of blocks, levels and offsets | write, write work, set_rp, check-in of time stamps, release | parser, decoder, PTS server |
| ES parser (`esparser.c`) | registers of the fetch, `search_done`, bytes parsed | fetch, interrupt, timeout | write thread, ring |

Demux interrupt handlers, codec drivers, power and clock sequences, encoders
and firmware loading are listed in `PROJECT.json` with the reason they are left
out.

### What is hard

* **Buffers have several owners.**  One capture buffer can be held by the
  application (display), by the decoder (prediction), by a post processor and by
  the DI manager at the same time.  The count of all of them is one `atomic_t`;
  who they are is one word of 4-bit counters.  Each owner gives up its part on
  a thread of its own.
* **STREAMOFF races everything.**  `buf_core_reset` sets every count back to the
  application's one reference while callbacks of post processors and of the DI
  manager may still be under way.
* **Locks are taken in pieces.**  `vdec_input_add_chunk` takes `input->lock` up to
  four times for one frame; what it learned under one lock is used under the
  next.  `vdec_input_release_chunk` is entered with a chunk that was tested
  without a lock.
* **Leftovers.**  `task_chain_clean` keeps the link map; `vdec_input_init` keeps
  `wr_block` and `no_mem_err_cnt`; `buf_core_reset` keeps `ref_bit_map`.
* **The scheduler sleeps on a semaphore** that a dozen places raise, and keeps
  three views of which core is whose (`active_mask`, `sched_mask`,
  `core->sched_mask`), changed by the thread, by work items and by users that
  give up waiting after two seconds.
* **A picture is shown before it is decoded**, and its fence, its vframe, its
  buffer and its timeline are released by different threads in any order.
* **Offsets are added up from counters that different threads change**: a time
  stamp's offset is what the parser has passed plus what the thread still has.
* **Time stamps are found by heuristics** over wrapping 32-bit offsets, in a list
  that throws nodes away when it is full.
* **Hardware that times out** may have done its work or not.
* **Limits.**  Total block size, level, number of frames and failed allocations
  all refuse a frame; a refusal must not last for ever.

`PROJECT.json` "hazards" lists these at their lines with the properties that
would catch them.

### What makes each component correct

* Buffer core: the count of an entry is the number of its holders; what is in
  the free queue is held by nobody, is there once, and is everything that is
  FREE; a buffer given back by everyone returns to the queue; the manager lives
  exactly as long as its entries.
* Task chain: a buffer visits the users the pipeline draws, whatever pipelines it
  went through before; the chain is destroyed once, after its items.
* Decoder input: a queued frame's bytes are not overwritten before it was
  decoded; a frame is released once and only when consumed; the accounts are
  those of the lists; a refused frame is accepted in the end; a buffer of the
  application comes back exactly once.
* Scheduler: a core belongs to one instance; an instance with work is run in the
  end; nothing refers to an instance that was released; a disconnect returns.
* Fences: a fence is signalled when its picture is done and not before, lives as
  long as somebody refers to it, and its timeline as long as its fences.
* Time stamps: a frame gets the time stamp it was checked in with; a full list
  takes the next frame; an instance lives as long as it has users.
* Stream input: the decoder reads what the application wrote, once and in order;
  the levels and offsets are those of the data; what was written is drained.
* Planned: an index of a memory box is freed once.

## Plan

Done, in this order:

1. `Pipeline`, `TaskChain`, `BufCore` (the core of the system), its inductive
   invariant and proofs, `VdecInput`.
2. `VdecCore`: the scheduler with its calls into the decoder input.
3. `VdecSync`: timelines, sync points and their users.
4. `PtsList`, `PtsServer`: the time stamp server with wrapping offsets.
5. `BufPool`: what the buffer core promises; `BufCoreImpl` and its proof that it
   keeps the promise.
6. `StreamIn`: write thread, ring and parser.
7. Proofs of every safety invariant of `TaskChain`, `BufCore`, `VdecInput`, `VdecCore`,
   `VdecSync` and `StreamIn`.
8. Proofs of `PtsServer`: the table, its users and what the lists say.

Left:

9. `WokenUnlessForced` where instances combine cores: which releases of such an
   instance leave another one waiting.
10. `DmaPool`: dynamic mode of the buffer core (`aml_buf_core.c` 241-600), against
   `BufPool` as well.
11. `MemBox` (MMU and BMMU boxes with keep); media sync; the V4L2 context's state
   machine; the DRM, VC1 and audio ways of the stream input.

## Modules

### `Pipeline`

The users of a buffer and the order `aml_creat_pipeline` draws for a requester
(`aml_creat_pipeline`, in attach order) and what it amounts to (`Route`).  Shared
by the next two modules; `TaskChain` checks that the first yields the second.

### `TaskChain`

One buffer's `struct task_chain_s`: reference count, item list, `cur_type`, the
link map, direction, `slock`.  `aml_buf_prepare` is clean plus redraw for any
requester of any context; `DecAttach` is the decoder's own attach, which comes
after `aml_buf_get` returned and outside the core's mutex; then
`task_buffer_submit` and `aml_buf_free`.  The copies of the vframe that items
carry are data and left out, and so is the debug walk, which changes nothing.
`task->recycle` has no caller that is ever called.

### `BufCore`

All entries of one manager, the users around it and STREAMON/STREAMOFF.  The
core's operations run under `bc->mutex` and are one action each.  What the code
does in several pieces is several actions:

* a post processor's completion callback tests `is_stream_off` (`PPCheck`) and
  calls the core later (`PPAct`);
* the DI manager's callback only queues work (`DiRelease`), the work drops the
  reference (`RecycleWork`);
* STREAMOFF is `StopBegin` (ioctl), `VdecReset` (decoder stopped, fifos emptied),
  `VppReset` (DI told), `FlushWork`, `buf_core_reset`, with everybody else in
  between.

`where` is the one reference that travels with a buffer (application, decoder,
post processor, sink); `decRef` counts the references the decoder keeps for
prediction; `di` and `work` are the DI manager's reference before and after its
callback.  `Claims(b)` adds them up.  `bits` is the real word: `direction_buf_get`
and `direction_buf_put` add and subtract units of 4-bit fields as the code does,
borrows included.

Assumptions about code outside the module:

* The DI manager is external.  After `buf_mgr_reset` it reports a buffer only
  once that was queued to it again, as the comment at `aml_buf_core.c` 970-977
  describes; it is never combined with the VPP (`vpp_needed`,
  `aml_vcodec_dec.c` 557), hence `DiPostAssumption`.
* The decoder has stopped before `aml_buf_reset`; it may or may not have put its
  references back by then.
* A buffer queued before STREAMON reaches `buf_queue` at STREAMON (vb2).
* The vb2 queue lock keeps QBUF, STREAMON, STREAMOFF and buffer init/cleanup from
  overlapping; nothing else is assumed about order.

A callback that slept through the whole of STREAMOFF may put a buffer into the
free queue that is the application's again (finding `buf_core_late_fill`).  From
there on two users believe that they own one buffer, which `where` cannot
express; the ghost `intruded` records it and the model stops.  The properties
are stated up to that point, and `FreeIsIdle` without it.

### `BufCoreInv`, `BufCoreProofs`

The inductive invariant and the proofs; see [Proofs](#proofs).  `TaskChainProofs`,
`VdecInputProofs`, `VdecCoreInv` and `VdecCoreProofs`, `VdecSyncProofs`,
`PtsServerProofs` and `StreamInProofs` are the same for their components.
`BufCoreProofs` also proves that `BufCoreImpl` keeps the promise of `BufPool`.

### `Lists`, `ListsProofs`

Kernel lists as sequences: what is left of one when elements go (`Without`, used by
the decoder input, the scheduler and the fences), with no recursion in it, and the
facts the proofs keep needing: what `Without`, `Append` and `Tail` leave, that a list
without repetitions is as long as the set it lists, and that a set of numbers has a
smallest one, which takes the place of induction.

`Walk` is `list_for_each` with an accumulator, and the time stamp server's loops are
walks.  It is a recursive function over the positions of the list rather than a fold,
so that something can be proved about it: `StepsExist` shows, from the smallest
position without one, that there is a function which takes every step, so the function
the walk is defined by takes them too; `StepsStay`, that what each step keeps is kept
to the end.  `PtsServerProofs` uses the two for the four loops of
`pts_server_core.c`.

### `BufPool`, `BufCoreImpl`

`BufPool` is what users of the buffer core may rely on, without its counters,
states and bit maps: a buffer is lent when nobody has a claim on it, in the
order in which buffers came back; whoever has it may share it; and the step in
which the last claim is given up is the step that queues it.  `BufCoreImpl`
instantiates it with the users' claims (`Claims`, what the users hold, not what
the core counts) and the core's queue; `ImplementsPool` is checked by TLC and
proved.  The promise ends with the first intrusion (above).

### `VdecInput`

The frame input of one decoder instance in frame mode.  Each section under
`input->lock` is one action; the writer's program counter runs through
`AddChunk` (does the frame fit?), `Recycle`, `vdec_input_get_free_block`,
`AllocBlock` / `AllocFails` / `AllocRefused`, and `FillDone`, a refused frame
being offered again.  A releaser picks a chunk (`NextChunk`), tests it without
the lock (`TestConsumed`), unlinks it under the lock (`ReleaseChunk`) and frees
block and chunk after it (`ReleaseTail`).  Blocks and chunks are addresses:
freed ones are handed out again, and a read of a freed chunk may give anything.
Three modes: frames copied into blocks of the driver, DMA buffers given back by
a callback, secure buffers given back by `vdec_input_get_freed_handle`.

Left out: `VDEC_TYPE_FRAME_CIRCULAR` (requested by no caller) and with it the
blocks' read pointers; failures of `kzalloc` for the small structures; the
result of the copy (`vframe_chunk_fill` returns 0).  There is one writer.  Time
stamps are abstracted to one bit, `long`: whether more than
`MAX_FRAME_DURATION_S` are queued, chosen anew at each test.  Two releasers are
real: `vdec_core_thread` and the codec's work both run the release loop, and the
code says so ("2 threads go here").

### `VdecCore`

The scheduler with `parallel_decode = 1`, its default.  A section under
`vdec_mutex` is one action; between two of them everybody else moves.  Actions by
actor:

* `vdec_core_thread`: `Pass` (wake up, release consumed chunks, collect
  instances to disconnect), `SearchAfter` and `SearchStart` (the election, behind
  the last instance and then from the head), `Grant`, `Run`, `Reap`, `EndPass`
  (polling and `check_core_run_flag`);
* a codec driver: `Isr`, `IrqThreadDone`, `Work`, `WorkBack`, `Callback`, `SetMmu`
  and `ClearMmu` (an H.264 stream that takes all cores and gives them back);
  `Hang` is hardware that never answers;
* users: `Open` (connect), `Write`, `Put` (the display gives a picture back),
  `Disconnect`, `DisconnectDone`, `DisconnectTimeout`, `Reset`,
  `InactiveCoreReset`, `Unregister`, `ForceClear`.

The input is reduced to its unread and consumed chunks: what `VdecInput` shows
about them is not repeated.  Three kinds of driver: one core ("hevc"), one that
may combine all ("h264"), a front and a back core ("fb").  The semaphore
saturates at `SemMax`: the thread looks at everything in every pass, so a count
of one is as good as any other.

### `VdecSync`

The fences of `vdec_sync.c` and the H.265 drivers that use them, in both usages
(fences for the driver and for the application) and for both kinds of driver
(V4L2 or not).  `Probe`, `AllocBuf`, `Post` / `PostNoFd` (`post_picture_early` with
and without a free file descriptor), `DisplayBuf` and `WorkEnd` (the picture is
decoded, or given up), `VfPut` (a frame comes back and is put or parked), `Stop`,
`FenceRelease`, `CleanAllFence`; `DecCount` and `DecTail` are the two halves of
`vdec_fence_buffer_count_decrease`.  The display (`DisplayTake`, `DisplayDrop`)
and the application's file (`Poll`, `Close`) are external.  Two instances compete
for the slots.

A point keeps its name after its last reference: a frame whose fence is gone, or a
display that still thinks it has a reference, stays visible in it.  A point's name
is used again only when neither is left, and a display does not touch a fence that
is gone: in the code that would be a use of freed memory, and `DriverFencesExact`
says when it can be reached.

### `PtsList`, `PtsServer`

`PtsList` is one instance as functions on a record: `CheckinPts` with recycling,
pieces without a time stamp, alignment and sorted insertion; `CheckoutPts` with
the two searches (`Search`, `FirstSearch`), the choice between candidates by
offset and by time (`Choose`) and the guess when nothing fits (`Failed`); `Peek`;
`CheckinApts`, `CheckoutApts`.  Loops over the list are walks (`Walk`).  Offsets are modulo
`W`, time stamps modulo `P`, the fields that keep only 32 bits modulo `P32`.

`PtsServer` is the table and its users: `Alloc` for dynamic instances, `BindLook`
and `BindTake` for static ones, and for every call by id a look-up and the call
itself (`ReleaseLook` / `ReleaseDrop`, `ResetLook` / `ResetDo`, `CallLook` /
`CallDo`).  A V4L2 stream writes regular frames and checks each one out; a player
does anything; the demultiplexer and audio readers share an id.  `Room` is what the
table asks of its users and does not enforce; see
[Proofs](#proofs).

### `StreamIn`

From `write(2)` to the decoder's read pointer, in both ways the port can be
opened: "ring" (`stream_buffer_interface.c`, no parser) and "parser"
(`esparser.c`).  The application's call is `WriteBegin`, one
`threadrw_write_onece` per block, `WriteEnd`; after -EAGAIN
`threadrw_alloc_more_buffer_size` or `WriteAgain`.  The work is `WorkLock`,
`write_ex` (how much?), and then `stream_buffer_write_inner` or `CopyUnmapped`, or
`FetchStart`, the hardware's `HwFetch` and `esparser_isr`, and `FetchEnd` or
`FetchTimeout`, and `LevelDown`.  The decoder is `SetRp` and `SubPayload`.  A unit
of data is its number in the stream, so order, loss and duplication are visible.

A check-in changes nothing here, so it is no action: `MayCheckin` says when one
may come and `Offset` what it would be given.

Assumptions: the write thread exists (no secure memory, no debug flag); a port
has one writer, which also sends the time stamps; at a timeout the hardware has
carried the fetch out whole or not at all, and its interrupt does not come once
the fetch was stopped.

## Runs

Every passing run checks properties that a mutant of the mapped code violates;
the mutants are the operators placed before the definition they
change, each under a comment that starts with "Fault:".

| run | checks | shows |
|---|---|---|
| `task_chain` | `LinksFollowPipeline`, `RefCountsItems` | over all sixteen context configurations in any order the list is the pipeline just drawn, its links are the ones followed although clean keeps the map, and the chain dies with its last item |
| `buf_core_di` | `FreeQueExact`, `RefExact`, `CoreRefExact`, `ImplementsPool`, `Recycles` | decoder, sink and a DI manager that keeps references across STREAMOFF: the core implements the pool, and whatever the order of QBUF, DI callback, work and STREAMOFF, a returned buffer is offered again |
| `buf_core_vpp` | `BitsTellHolders`, `Inv` | the VPP consumes the decoder's buffer and takes an output buffer of its own, its callbacks racing STREAMOFF |
| `input` | `TypeOK`, `ChunksDisjoint`, `CountsExact`, `HandleExact` | the three modes; frames smaller and larger than a prepared block, a failing allocation, resets; the block being written is never recycled; buffers of the application come back once |
| `input_two_releasers` | `OnlyConsumedLeave`, `Accepted` | two threads in the release loop, as long as the address of a chunk they hold is not reused; a refused frame is accepted in the end, when every frame fits a prepared block |
| `sched` | `TypeOK`, `CoresOwned`, `RunHasInput`, `NoDangling`, `WokenUnlessForced`, `IrqThreadFirst` | three sets of instances with hanging hardware, resets and releases: the masks agree, a run has input, pointers are good, nobody with work is left with the thread asleep |
| `sched_served` | `Served`, `DisconnectReturns` | an instance with work is run, whatever the others do; a disconnect returns |
| `fences` | `KrefExact`, `DriverFencesExact`, `SignalsTellDecoding`, `NothingLeft`, `WaitersWake` | two instances and one slot, parked frames, errors, no descriptor, teardown in any order |
| `pts` | `TypeOK`, `RefsExact`, `OneInstance`, `PositionsExact`, `NewestKept`, `OwnPts`, `NearestApts` | a V4L2 stream, a player, the demultiplexer with audio readers, with full lists and wrapping offsets |
| `stream_in` | `TypeOK`, `InOrder`, `AccountsExact`, `TstampExact`, `Drains` | both ways into the ring, with half-written blocks, stores that wrap, fetch timeouts before and after the copy, failing maps, blocks added, and the port opened again |

`Inv` is checked because a proof of an invariant that does not hold would be a
long search.  GE2D and the progressive VPP are covered by the theorems, which
hold for every context but for `BitsAreHolders`.

The two violation runs, `buf_core_late_fill` and `sched_forced`, are described
under [Findings](#findings).

### Bounds

* `TaskChain` has none: its state space is finite as it stands.
* `BufCore`: two buffers, one reference kept by the decoder per buffer.  Two is
  where the interesting cases are: an order in the free queue, one buffer at the
  decoder while the other is with DI or the application, a source and an output
  buffer for a post processor.  One prediction reference already makes the
  decoder hold a buffer twice.  The theorems hold for any finite set of buffers
  and any `MaxDecRef`.
* `VdecInput`: three blocks and three chunks (two blocks where liveness or a
  second releaser multiply the states).  With two prepared blocks of seven bytes,
  padding one and extra padding one, three frames of one
  byte fill a block, a frame of six does not fit a prepared block and makes the
  default size grow.  Three chunks are one at the decoder, one at a releaser and one waiting,
  and let a freed address be reused.  `ManyFrames` (30 in the code) is one and
  the levels are a few bytes, so that every branch of
  `vdec_input_have_blocks_enough` is taken.  `MaxFails` bounds failed
  allocations: one where safety is checked, none for `Accepted` (four of them trip
  `no_mem_err_cnt`).
  `FirstMayFail` and, with two releasers, `ReuseHeld` are FALSE: the cases they
  leave out are under [Met while modelling](#met-while-modelling).
* `VdecCore`: two instances (three sets of kinds for safety, three for liveness),
  one unread frame per input, one or two output buffers.  Two instances on one
  core are enough for an election to be unfair or a wake-up to be lost; the
  second frame of an input is the one that does not raise the semaphore, and it
  comes as soon as the first was read.  `TimeoutWhenHung` says that two seconds
  are enough when the hardware works.  About 1.1 million states.
* `VdecSync`: two instances, one slot, two sync points and two buffers each: one
  picture parked or displayed while the next is decoded, and a count that goes
  from one to zero and back.  `Serial` says that the buffers of one instance are
  not released by two threads at once.
* `PtsServer`: `W` = 16, so that a stream of four frames wraps; `MaxCount` = 3, so
  that it fills the list; thresholds scaled to frames of three or four units.
  Three setups, each user opening once.  `DynamicNum` and `Serial` leave out the
  cases listed under [Met while modelling](#met-while-modelling).
* `StreamIn`: blocks of three units, a ring of five with one in reserve, writes of
  one and four units, eight units in all: a write takes one or two blocks, the
  ring does not hold two full blocks, and the ring wraps at least once.  Three
  blocks, one of them added under load.  `MaxFails` = 2 timeouts or failed
  mappings, one reopening.  `CopyFails` and `StampKinds` leave out two cases listed
  under [Met while modelling](#met-while-modelling).
* Symmetry is used on addresses, in runs without liveness only.

All passing runs end within about two minutes on two cores.

Deadlock is not checked: a driver that nobody calls has nothing to do.

### Fairness

* `BufCore!FairSpec`: `RecycleWork` (the kernel runs queued work) and `DiRelease`
  (the DI manager gives back what it was lent; its contract).  Nothing is assumed
  of the application or of the post processors.
* `VdecInput!FairSpec`: the writer (callers repeat a call that returned -EAGAIN),
  the decoder (the hardware finishes, or the watchdog does it) and the releasers
  (the scheduler thread runs).  `Accepted` presupposes that resets come to an end.
  No fairness on allocations that succeed: `AllocBlock` and `AllocFails` are the
  same writer's step.
* `VdecCore`: the scheduler thread (a kernel thread that runs until it blocks), and
  per instance what its threads owe it: interrupts of hardware that does not hang,
  work items, callbacks, a display that gives pictures back, and waits that end
  by completion or timer.  Nothing is assumed of users or of input.
* `VdecSync`: a posted picture is decoded or given up (the driver's work item, or
  its watchdog).
* `StreamIn`: weak fairness of a call inside the kernel, of the work's steps, the
  hardware and the decoder.  Strong fairness of `WorkLock`: the work is queued again
  whenever it ends, and Linux mutexes hand over to a waiter, although the
  application may take `task->mutex` any number of times in between.

## Proofs

Each component has an inductive invariant, a lemma for each action, and a theorem
for each property.

| module | theorem | states | provided that |
|---|---|---|---|
| `BufCoreProofs` | `Invariance` | `Spec => []Inv` | |
| | `TypeCorrect` | `[]TypeOK` | |
| | `RefCountsUsers` | `[]RefExact`: the count is the number of holders | |
| | `FreeQueueIsExact` | `[]FreeQueExact`: the queue is the FREE entries, each once, and `free_num` its length | |
| | `FreeUnlessIntruded` | `[](intruded \/ FreeIsIdle)`: only a callback from before a STREAMOFF (a late fill, or a late hand-over to DI between its reset and the core's) can put a held buffer into the free queue | |
| | `CoreRefCounts` | `[]CoreRefExact`: the manager dies with its last entry | |
| | `CoreImplementsPool` | `ImplementsPool`: the buffer core is a pool | |
| | `BitsAreHolders` | `[]BitsTellHolders`: the 4-bit counters are the holders | `~Ctx.ge2d`, `MaxDecRef <= 14` |
| `TaskChainProofs` | `RefsCountItems` | `[]RefCountsItems` | |
| | `LinksAreFollowed` | `[]LinksFollowPipeline` | |
| `VdecInputProofs` | `Invariance`, `TypeCorrect` | `[]Inv`, `[]TypeOK` | `Hypotheses` |
| | `FramesStayIntact` | `[]ChunksDisjoint`: no queued frame is overwritten | `Hypotheses` |
| | `AccountsAreExact` | `[]CountsExact` | `Hypotheses` |
| | `BuffersAreKnown` | `[]HandleExact`: no block is lost or freed twice | `Hypotheses` |
| | `ReleasedWereConsumed` | `[]OnlyConsumedLeave` | `Hypotheses` |
| `VdecCoreProofs` | `Invariance`, `TypeCorrect` | `[]Inv`, `[]TypeOK` | `TimeoutWhenHung` |
| | `CoresAreOwned` | `[]CoresOwned`: the masks agree and no core has two owners | `TimeoutWhenHung` |
| | `RunsHaveInput` | `[]RunHasInput` | `TimeoutWhenHung` |
| | `NothingDangles` | `[]NoDangling` | `TimeoutWhenHung` |
| | `IrqThreadIsFirst` | `[]IrqThreadFirst` | `TimeoutWhenHung` |
| | `WakesAreNotLost` | `[](NoCombining => WokenUnlessForced)`: the thread sleeps at zero only with nothing to do | `TimeoutWhenHung` |
| `VdecSyncProofs` | `Invariance` | `[]Inv` | `Serial` |
| | `KrefIsExact` | `[]KrefExact` | `Serial` |
| | `DriverFencesAreExact` | `[]DriverFencesExact` | `Serial` |
| | `SignalsAreTrue` | `[]SignalsTellDecoding` | `Serial` |
| | `NothingIsLeft` | `[]NothingLeft` | `Serial` |
| `PtsServerProofs` | `TableStays`, `TypeCorrect` | `[]TableInv`, `[]TypeOK` | `Serial`, `Room` |
| | `RefsCorrect` | `[]RefsExact`: the count of an instance is the number of its users | `Serial`, `Room` |
| | `OneInstanceEach` | `[]OneInstance`: an id names one instance, and a call finds after its second lock what it looked up | `Serial`, `Room` |
| | `PositionsCorrect` | `[]PositionsExact`: a node has the position and the time stamp of a frame that was written | `Serial`, `Room` |
| | `NewestCorrect` | `[]NewestKept`: the next frame always gets a node | `Serial`, `Room` |
| `StreamInProofs` | `Invariance`, `TypeCorrect` | `[]Inv`, `[]TypeOK` | no copy fails |
| | `StreamInOrder` | `[]InOrder` | no copy fails |
| | `AccountsAreExact` | `[]AccountsExact` | no copy fails |
| | `TstampsAreExact` | `[]TstampExact` | no copy fails, no `AMSTREAM_SET_TSTAMP` on a ring |

They hold for every value of the constants that satisfies the ASSUMEs of the
module: any finite set of buffers, any context without the AVBC wrapper, any
number of decoder instances and slots, any frames, any size of ring and blocks, any
bound.  The
hypotheses of the last column are statements about constants, satisfied in the
passing runs; without them the properties fail, as [Met while
modelling](#met-while-modelling) shows:

* `Hypotheses` of `VdecInputProofs`: the first allocation of `vdec_input_prepare_bufs`
  succeeds (`~FirstMayFail`); and there is one releaser, or `kzalloc` does not return
  the address of a chunk that a releaser still points to (`~ReuseHeld`).
* `~Ctx.ge2d`: GE2D's get from the free queue takes a decoder unit away that nobody
  added.  `MaxDecRef <= 14`: with its own hold the decoder's references to one buffer
  are at most 15, as many as its four bits count.
* `TimeoutWhenHung`: the two seconds `vdec_disconnect` waits are over only when the
  hardware hangs.
* `Serial` of `VdecSyncProofs`: the buffers of one instance are not released by two
  threads at once.
* `Serial` of `PtsServerProofs`: nobody binds or releases an instance while a binder is
  between its two locks.
* `Room`: the table has a slot for every user (the loops of `ptsserver_ins_alloc` and
  `ptsserver_static_ins_binder` report success when they find none); an id given to the
  static instances is no number of a dynamic slot (the look-up by id searches both); and
  a player that calls `PTSSERVER_IOC_RELEASE` is the only user of dynamic slots, because
  its file goes on naming the slot it gave back.  `MC_PtsServer` assumes both, so TLC
  evaluates them on the instance it checks.
* `TRUE \notin CopyFails`: `copy_from_user` does not fail.
* `<<"ring", "tstamp">> \notin StampKinds`: see `TstampExact`.

### Buffer core

`RefExact` is not inductive: whether an operation moves a
reference depends on the state it finds.  `buf_core_done` returns early unless
the state is USE, REF or DONE, and `buf_core_fill` unless it is INIT, DONE or
REF; either early return would leave a user believing that it has given up a
reference it still counts for.  `Inv` adds what rules that out:

* `StateOK`: who has the buffer determines the states the entry can be in, and a
  FREE entry has no references;
* `UsersOnChain`, `ChainOK`: a user that has the buffer is on its chain, the source
  is not its end, so a successor exists when it submits;
* `FreshOK`: an entry that has not been in the free queue since the last reset is
  the application's or waits for DI; that is what the `inited` test of
  `buf_core_fill` relies on;
* `DiOK`: DI never has a buffer that somebody before the sink works on, and what
  it kept over a reset is uncounted until queued again;
* `PassedOK`: a callback past its test still has its buffer, or STREAMOFF is over
  and STREAMON not yet there: the window of the late fill, and no other;
* `StopOK`, `TableOK`: after STREAMOFF nothing is queued or pending; what is not in
  the table is held by nobody.

Each action has its lemma (`InvGet`, `InvPutRef`, ...), built on lemmas about
the steps they share (`DropRefEffect`, `FreeQueAdd`, `DoneEffect`) and about
sequences.

**The refinement.**  Under `Inv`, `entry->ref` equals the claims (`RefExact`), so
the core, which frees an entry when its count reaches zero, does so exactly when
the pool does.  Each action is shown to be one action of the pool or to leave
`known`, `claims`, `fifo` and `broken` alone: `buf_core_get` is `Take`, `get_ref` and
the hand-over to DI are `Share`, `put_ref`, `fill` and the recycle work are
`GiveUp`, the hand-overs between users and STREAMOFF's preparations stutter,
`buf_core_reset` is `Recall`, attach and detach are `Add` and `Remove`.

**The holder counters.**  `WordInv` is not part of `Inv`, since it needs hypotheses
`Inv` does not.  `Word(b)` is the number the holders of an entry amount to in the
layout of `ref_bit_map`, and `WordAt` says that the entry's word is that number, unless
the entry has not been in the free queue since the last reset (`buf_core_reset` leaves
the word as it was) or the sink has dropped the buffer.  A step on an entry has to be
shown to move the unit of the user that moved: for the hand-over in `buf_core_done`
that is `GiverOK`, which says that the user before the next one on the chain is the
giver, because a chain without GE2D names nobody twice; for `put_ref` it is `DecUnit`,
since `direction_buf_put` leaves the word alone if the decoder's digit reads 0; and the
last drop sets the word to 0, which is right because `RefExact` leaves no holder
(`DropWord`).  That the digits of the word are the counters is `Digits`: none of them
carries into the next.

### Task chain

The link map is never emptied, so nothing can be said of all its entries.  The
invariant (`Draws`) is about the ones that matter: along the pipeline of this
generation, next leads to the successor and pre back.  An attach in front writes
exactly the two entries between the new item and the old first one; since the
items of a pipeline differ it overwrites no other entry of this generation.

### Decoder input

`ChunksDisjoint` and `CountsExact` depend on each other.  A block's write pointer goes
back to 0 only when its `chunk_count` is 0, so frames stay intact because the count is
right; and the count is right because a chunk that is queued lies in a block that is
in `vframe_block_list`.  `Inv` says both: `QueueOK` and `ApartOK` (queued chunks lie
below the write pointer of a block in use, apart from each other), `BlocksOK` (a block
counts the chunks in it, a free block is empty), `WriterOK` (the block the writer works
on is `wr_block` and listed, whatever happens between its sections), `BlockCountsOK`
(`block_nums` and `input_size` are those of the lists).  `input_size` is a sum over
blocks; it is stated as the cardinality of the set of their bytes (`Bytes`), since what a
fold computes cannot be proved.

A releaser tests a chunk without the lock and unlinks it later.  `RelOK` says what it
knows then: a chunk that it has looked at is queued, consumed and in the block it saw, or
somebody else has released it and its address is not in use again; a block it is to
free is in no list and is no other releaser's (`RelsApart`, `FoundOK`).  With one
releaser nobody else releases, so the address may be reused at once; with two the
hypothesis on `kzalloc` is needed.

### Scheduler

`CoresOwned` is a statement about sections that follow each other: the thread
elects an instance, gives it cores and runs it in three sections of `vdec_mutex`,
while users and work items use the mutex in between.  `PendingOK` says that what
the election saw is still true when it is used: the instance is listed, wants the
cores, has input and room, and none of the cores is taken.  `StageOK` says what each
stage of connect, disconnect, reset and release can rely on.  An instance whose
hardware hangs is the hard case: it stays listed with cores nobody gives back
(`Stuck`) through a reset and up to the forced removal.  `SchedOK` (the core's mask
is the disjoint union of the listed instances' masks), `MaskOK` and `JobOK` tie runs
to cores.

`WokenUnlessForced` is about the semaphore: an instance may become ready at any step of
anybody, while the thread sleeps or while it walks the list and has come by the
instance already.  `WakeInv` says of a state in which the semaphore is at zero and no
callback is running: nobody waits to be disconnected; and either the thread has set
`run_flag`, so that it will come back, or no instance it has come by in this pass could
be given the core it was asked about (`PassedOver`).  `Ripe` is "could be given the
core" without what the irq threads say.  For each core the thread asks the instances
behind the last one that ran and then all of them from the front.  An instance it
comes by is elected, or only an irq thread keeps it from running, which the thread
notes in `run_flag`, or it is a stream with nothing to read, which the look at it marks
as waiting for more data, so that it is ripe no longer (`MissedOK`, `SearchLeaves`).  The
rest is that no other step makes an instance ripe without waking the thread
(`UserWakes`, `DriverWakes`) or leaving a work item whose callback will.  `QuietOK`,
`RipeSame` and `UnwokenSame` are for the many steps that make none.

Combined cores are left out because there it is not so; see [Met while
modelling](#met-while-modelling).

### Fences

The invariant is about one instance (`InstOK`, over the values of its record), so
that most lemmas need no frame conditions; `FrameOK` and `SlotsOK` put instances and
slots together.  `ListOK`: `pt_list` is the points that have references, once
each; `KrefOK`: the count is `Owed` (driver, context, buffers) plus the length of that
list; `PointOK`: who refers to a point; `SweepOK`: after the sweep only the display's
references are left, and before it a point only the display refers to is a failed
picture's; `SignalOK`: of the points that exist only the posted one is not
decoded, and it is the next to be signalled unless a point was forgotten; `BusyOK`: an
open instance has a buffer for every frame that is out, so the last buffer goes only
when none is.

The proof changed the property.  `DriverFencesExact` used to say that references
and referrers always agree.  It is not so for a picture whose decoding failed: `vf_put`
parks a frame while its fence has status 0, or 1 and a second reference
(`vh265.c` 9522), not while it has an error, so a failed
picture's frame gives its reference up at once, and the sweep with the last buffer
then takes the only reference that is left, the display's.  `DroppedEarly` is that
case; the theorem says that there is no other.

### Time stamps

The proof has two layers.  Below, one instance as a value: `InsOK` (the nodes are in the
list or free, `size` is the length of the list, every number is in its range) and, for each
operation of `PtsList`, a lemma with what the table needs to know of it.
`CheckoutPtsIs`, `PeekIs` and `CheckoutAptsIs` say `OutOf`: the list that is left is part of
the list there was, and what tells where the stream is has not changed.  They hold for every
list, every accumulator and whichever candidate the heuristics prefer.
`CheckinPtsIs` says `CheckinOf`: the new node is there, at the position the stream has
reached (`Onward`), and the position moves on by the size of the piece.  `Onward` is
computed modulo `W` from the last piece, the pieces without a time stamp and the
alignment; the arithmetic (`ModAdd`, `Unique`) holds for every width.

Above, the table.  `RefsExact` and `OneInstance` are statements about calls that take two
locks one after the other.  `TableInv` says what each call relies on between them:

* `Phase`: a call by id found, in its look-up, the slot its user holds;
* `Binder`: what a binder found is still so when it takes the second lock.  This is
  where `Serial` is needed;
* `Bound`, `Owned`: an open user by id holds the instance of its id, and the owner of a
  dynamic slot holds that slot, or has given it back by ioctl and nobody has taken it
  since;
* `SlotIds`, `UniqueIds`: a dynamic instance has the number of its slot as id, a static one
  has none of those numbers, and no two instances have the same id;
* `SoleOwner`, `OneBinder`: a dynamic slot has one user, so only users by id ever share
  one, and a release that is not the last is a release by id;
* `Stream`: the list of a V4L2 user's instance has only frames it wrote, and the user's
  position in the stream is `Onward` of its instance.

`Room` gives every allocation a slot (`DynamicRoom`, `StaticRoom`): the slots taken map
one to one to the users, or to the ids, of everybody else.

### Stream input

`InOrder` compares three places (blocks, ring, the parser's fetch) with the
numbers of the stream.  Between the step that copies a block's data and the step that
takes them out of the block they are in two places; `work.pc` and the parser's state
tell how many of the first block's units are already in the ring (`Copied`).
`LockOK`: who has `task->mutex`; `FifosOK`: every block is free or queued, once;
`LengthOK`, `CountsOK`: the levels and offsets; `ParserOK`: which of the states of a
fetch go together.  What is proved about the ring is arithmetic modulo its size
(`ModBelow`, `ModAbove`, `RingArith`), for every size.

### Only model-checked

* Liveness (`Recycles`, `Accepted`, `Served`, `DisconnectReturns`, `WaitersWake`,
  `Drains`): fairness and ENABLED are out of the prover's reach.
* `WokenUnlessForced` where an instance combines cores: the runs have at most two
  instances then, and for three it does not hold.
* `OwnPts`, `NearestApts` of `PtsServer`: which node the searches prefer.  That nodes are
  neither lost nor changed is proved; that the preferred one is the right one depends
  on the thresholds (frames of a few units, a limit on the nodes looked at), and does not
  hold for every value of them.

## Findings

| run | property | what the code does |
|---|---|---|
| `buf_core_late_fill` | `FreeIsIdle` | a VPP callback tests `is_stream_off`, STREAMOFF and its reset run, then the callback's `aml_buf_fill` puts the application's buffer into the free queue |
| `sched_forced` | `NoLostWakeup` | an instance that hung is removed by force and its cores are free again, but nobody raises the semaphore: another instance with a frame waits |

Each is quoted with its lines in `PROJECT.json`.

## Met while modelling

What the models show about the code outside the passing runs.  Where a constant
or a formula is given, changing it in the run's configuration shows the case.

Buffer core:

* GE2D's get from the free queue subtracts a decoder unit nobody added
  (`aml_buf_core.c` 138): the word becomes 0x10 - 1 and the decoder's counter
  reads 15.  `Ctx <- CtxGe2d` violates `BitsTellHolders`.
* `entry->holder` stays DI after DI's own put (210) while the decoder still has
  the buffer.  The field is only printed.
* `aml_task_chain.h` 83 says `slock` covers reading and writing the item list;
  `task_order_attach` and `task_item_release` write it without.

Decoder input:

* A block whose last frame is released between the writer's test
  (`vdec_input.c` 748-761) and its switch (882-892) stays in `vframe_block_list`
  empty and in nobody's hands; its size stays in the total.  The formula
  `\A b \in block_list : blk[b].count = 0 => b = wr_block \/ b = w.b` does not hold.
* Four failed allocations block all later ones (776-798): `MaxFails = 4` with
  frames larger than a prepared block violates `Accepted`.
* "The other done the deletion" (1109-1115) is decided by address: `ReuseHeld =
  TRUE` with two releasers violates `OnlyConsumedLeave`.
* A reset whose first allocation fails leaves `wr_block` on a freed block (310, 348,
  870): `FirstMayFail = TRUE` violates `ChunksDisjoint`.
* `block->free` is read after the unlock (1168), when another releaser may have
  freed the block.
* 719 draws the line at `ret >= 13`, 772 at `> 13`.

Scheduler:

* `vdec_disconnect` returns 0 after two seconds whether the thread answered or not
  (`vdec.c` 3349): `TimeoutWhenHung = FALSE`, a thread that is merely late, violates
  `NoDangling`.
* A mask of several cores waits only when both irq threads are late (4890), while
  an H.264 instance on all cores has only one: `IrqThreadFirst` excludes it.
* While an instance that combines cores is being released, its share in
  `vdec_combine_flag` keeps the others from being offered a core, and `vdec_release`
  lowers the flag (4611) without raising the semaphore.  With three instances
  (`{a :> Closes(H264) @@ b :> Hangs(H264) @@ c :> Hevc}`) that leaves `c` with a frame, a
  free core and a sleeping thread: `WokenUnlessForced` fails.
* VDEC_1 is scanned last and a grant ends the scan, so the HEVC cores may overtake
  it; `Served` holds all the same.

Fences:

* With fences for the application only its file holds the fence, while the driver
  goes on using `sync->fence` (`vdec_sync.c` 287-288, `vh265.c` 10595): requiring
  the same of "app" instances fails as soon as the file is closed.
* 514-516 decrease the count and read it again: two buffers released at once
  both see zero.  `Serial = FALSE` violates `KrefExact`.
* 517 walks the list of a timeline the line before may have freed.
* Without a file descriptor (275) the new point is forgotten in `pt_list`, and
  `seqno` and `value` drift apart: later fences are signalled late.
* The frame of a failed picture is not parked (`vh265.c` 9522), so a display that
  still waits for its fence may lose its reference to the sweep: `DriverFencesExact`
  without `DroppedEarly` does not hold.
* A parked frame whose fence has an error is not released before the teardown,
  because the test is for a status of 1.
* `sync_timeline_free` clears `use_flag` before it clears `sync->timeline`.

Time stamps:

* With all dynamic slots taken `ptsserver_ins_alloc` succeeds with an instance in
  no slot (`pts_server_core.c` 196, 210): `DynamicNum = 2` and two V4L2 users
  violate `RefsExact`.
* `PTSSERVER_IOC_RELEASE` leaves the id in the file and closing releases it again
  (`pts_server_dev.c` 214, 64), although 307 means to prevent that: a second user
  in the slot violates `RefsExact`.
* The binder's look-up and its taking of a slot are two sections (1593), as are
  look-up and use everywhere (66): `Serial = FALSE` violates `OneInstance`.
* `cur_offset > ptn->offset` (647) does not know of the wrap: `OwnPts` excludes
  offsets within the threshold of it.
* The recycling loop (329-343) raises `mLastDropIndex` while it deletes, so a full
  list in order of which nothing was checked out is emptied.
* A first frame with time stamp 0 is taken for a piece of a frame.
* Tests for `pts_90k == -1` never hold; `expired_count` may wrap;
  `mLastCheckinPts64` and `mFirstCheckinPts64` are 32 bits wide;
  `ptsserver_set_mode` has no caller.

Stream input:

* When `copy_from_user` fails the application's address is put into `freefifo` and
  the block is lost (`thread_rw.c` 141): `CopyFails = {FALSE, TRUE}` violates
  `AccountsExact`.
* `AMSTREAM_SET_TSTAMP` without parser checks in with `stream_offset`
  (`amstream.c` 2009-2010, 2860), which leaves out what the thread still has;
  `AMSTREAM_SET_TSTAMP_US64` uses `data_offset`.  `StampKinds <- AllKinds` violates
  `TstampExact`.
* The wait for a free block (`thread_rw.c` 180) holds the mutex that the work
  needs to free one: it can only time out.
* `amstream.c` 2036 checks audio in with `es_vpts_checkin_us64`; `task->errors` is
  never cleared; without parser `buffered_data_size` is never decreased.
* Read, not modelled: `drm_write` takes the level down for data that never were in
  the thread, goes on after a failed flush, and returns an error after some parts
  were written although `esparser.c` 775 says "should not write partial data in drm
  mode"; `stbuf_wait_space` returns 0 when interrupted (`streambuf.c` 474); the VC1
  write of V4L2 may fill the ring exactly, which then looks empty
  (`vdec_vc1_if.c` 383-386).

## Not modelled

* In the modelled parts: the DMA pool (dynamic mode), field pairs (`sub_entry`) and
  `buf_core_replace`, the AVBC wrapper, a non-UVM dmabuf replaced in mid-stream,
  `buf_num`; stream mode of the decoder input; failure of the allocation that
  wraps an application's DMA buffer; dual-layer instances, the non-parallel and the
  debug modes of the scheduler; `ptsserver_check_rec_num_enough` and the 90 kHz
  twins of the time stamps; DRM packets, audio, subtitles and meta data in the
  stream input.
* A callback that reaches an entry after it was freed: the model keeps the
  entry's memory, so such a touch is harmless there.
* Memory boxes, media sync and the V4L2 context's state machine: planned.
* Codec drivers beyond what they do with cores and fences, bitstream parsers,
  demux, encoders, power and clocks: nine tenths of the repository.  They are
  register sequences and firmware protocols whose other side, the microcode and
  the hardware, is not in the repository, so a model would have to invent the
  part that decides whether they are right.
