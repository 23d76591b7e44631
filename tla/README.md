# TLA+ models of the OpenAMP virtio core

This directory holds TLA+ models of the virtio transport in `src/`: the split-ring
virtqueue engine, the vring layout, the virtual-device layer and the MMIO
transport binding. It also holds the TLC configurations that check them.
`PROJECT.json` lists the components, runs, mutants, the source lines each
definition models (`map`), findings and hazards.

## 1. The system

| Part | Source | What it does |
|---|---|---|
| Vring Layout | `include/openamp/virtio_ring.h` | Byte layout of the shared ring: `vring_size`, `vring_init`, `vring_need_event`, flag bits. |
| Virtqueue Engine | `virtio/virtqueue.c`, `include/openamp/virtqueue.h` | Per-side private queue state and the operations on the shared ring. |
| Virtual Device | `virtio/virtio.c`, `include/openamp/virtio.h` | `virtio_create_virtqueues` and the op-table wrappers (status, features, reset). |
| MMIO Transport | `virtio_mmio/virtio_mmio_drv.c` | Register-level device init, queue setup, notify doorbell and the ISR. |
| Identification table | `virtio/virtio.c` | Device and feature names for diagnostics. |
| Platform I/O (libmetal) | outside the repository | Register access, address translation, cache maintenance and fences. |

**How the parts interact.** One driver and one device run on two processors and share one vring per queue.

The **driver** (`VIRTIO_DEV_DRIVER`) manages descriptors:
- It owns the descriptor table and the free list (`vq_desc_head_idx`, `vq_free_cnt`).
- It owns the cookie side table `vq_descx[]`.
- It publishes chain heads into `avail->ring` and then bumps `avail->idx`.
- `virtqueue_kick` rings the peer if it asked for it. The peer asks either by leaving `VRING_USED_F_NO_NOTIFY` clear or through `avail_event` with `VIRTIO_RING_F_EVENT_IDX`.
- It takes completions from `used->ring` at `vq_used_cons_idx` and splices each chain back into the free list.

The **device** (`VIRTIO_DEV_DEVICE`) answers the driver:
- It reads `avail->ring` at `vq_available_idx`.
- It returns heads into `used->ring` and then bumps `used->idx`.
- It interrupts the driver, subject to `VRING_AVAIL_F_NO_INTERRUPT` or `used_event`.

Each side suppresses notifications with `virtqueue_disable_cb` while it polls. It re-arms them with `virtqueue_enable_cb`, which re-checks the ring after a fence. That re-check is what closes the lost-wakeup window.

The virtual-device layer creates the queues. For a driver it first clears `vring_size()` bytes of ring memory. The MMIO binding programs queue addresses into registers and turns the `QUEUE_NOTIFY` doorbell and the interrupt line into `virtqueue_notification` calls.

## 2. Modules

| Module | Models | State (VARIABLES) ↔ code |
|---|---|---|
| `Virtqueue` | virtqueue engine, both roles on one queue | see below |
| `VirtioDevice` | `virtio_reset_device`, `virtio_create_virtqueues` around a `Virtqueue` | `lifecycle` ↔ status 0 written and queues not yet re-created |
| `VringLayout` | `vring_size`, `vring_init`, the clearing in `virtio_create_virtqueues` | `vr` ↔ `struct vring`; `zeroed` ↔ bytes `metal_io_block_set` cleared |
| `Channel` | what one queue promises its two users (spec §4.1-4.2), with no rings | `avail`, `held`, `used`: the buffers posted, taken and returned |
| `VirtioMmio` | MMIO probe through the `virtio.h` wrappers, the dispatch table, feature negotiation, `register_device`, `create_virtqueues`/`setup_virtqueue`, `virtio_mmio_isr`, and the device peer | see below |
| `VirtioIdent` | `virtio_ident_table`, `virtio_common_feature_desc`, `virtio_dev_name`, `virtio_feature_name`, `virtio_describe` | none: sentinel-terminated tables as sequences of records, with the null pointer as the model value `NULL`; the two loops as `RECURSIVE` scans |
| `VringEvent` | `vring_need_event`, the event branch of `vq_ring_must_notify`, and the 16-bit arithmetic (`U16`) | none: pure operators, used by `Virtqueue` and `VringLayout` |
| `MmioQueue` | one driver-side `Virtqueue` behind `virtio_mmio_isr`: the ISR's read, the queue callback draining with `virtqueue_get_buffer` and re-arming with `virtqueue_enable_cb`, and the ack | the `Virtqueue` variables plus `isrPc` |
| `MCVirtqueue`, `MCVirtioDevice`, `MCVringLayout`, `MCVirtioMmio`, `MCMmioQueue` | TLC instances | constants that are definitions |

### `Virtqueue`

The constants are:
- `N`: `vq_nentries`.
- `Cookies`: caller correlators, as model values.
- `StartIdx`: the 16-bit index value the ring starts from.
- `MaxChain`: the longest chain an add may ask for.
- `MaxAdds`: a bound on the total number of adds.
- `EventIdxModes`: the values the negotiated `VIRTIO_RING_F_EVENT_IDX` bit may take. The variable `eventIdx` is chosen from it in Init and never changes.
- `VQUEUE_DEBUG`: whether the build defines it.
- `MaxStrays`: how many heads the device's caller may return without holding them (0 for a caller that follows the protocol).
- `IsrReclaims`: whether the driver's queue callback calls `virtqueue_get_buffer` from interrupt context.

Shared ring state:
- `desc`: `desc[].next` and `desc[].flags`.
- `availRing`, `availIdx`, `availFlags`, and `usedEvent` (`avail->ring[num]`).
- `usedRing` (the `id` field), `usedIdx`, `usedFlags`, and `availEvent` (`used->ring[num]`).

Driver-private state:
- `drvHead` (`vq_desc_head_idx`), `drvFree` (`vq_free_cnt`) and `drvQueued` (`vq_queued_cnt`).
- `drvUsedCons` (`vq_used_cons_idx`).
- `descx` (`vq_descx[]`: `cookie` and `ndescs`).

Device-private state:
- `devAvailCons` (`vq_available_idx`) and `devQueued`.

Caller and notification state:
- `kickPending`: the doorbell raised and not yet handled.
- `irqPending`: the interrupt raised and not yet handled.
- `drvPc`: the driver thread. It is "idle", "getting" (between `virtqueue_get_buffer`'s index check and its `VQUEUE_BUSY`), or "adding" (between the slot write and the idx increment). When the program has stopped it is "assert" (a `VQASSERT`), "hang" (an endless loop) or "ub" (undefined behaviour).
- `devPc`: the device between its used-slot write and its idx increment.
- `devRun`: the device's notification loop, one of "sleeping", "running" or "empty".
- `devHeld`: the heads the device has taken and not yet returned.
- `inflight`, a ghost: the cookies posted and not yet returned.
- `adds`, a ghost: the number of adds so far.
- `strays`, a ghost: the number of heads the device returned without holding them.

Each operation is one action, split only where another processor can observe the gap:
- `virtqueue_add_buffer` (the whole of `vq_ring_add_buffer` plus the avail slot write) is one action, followed by `vq_ring_update_avail_idx` (the fence, `avail->idx++` and `vq_queued_cnt++`).
- `virtqueue_add_consumed_buffer` (the used-slot write) is one action, followed by `virtqueue_add_consumed_buffer_idx`.
- `virtqueue_get_buffer` is two steps:
  - `virtqueue_get_buffer_check` compares `vq_used_cons_idx` with `used->idx`.
  - `vq_free_used_entry`, from `VQUEUE_BUSY` on, takes the head at `vq_used_cons_idx++` and runs `vq_ring_free_chain`.
- `vq_ring_free_chain_outcome` says how `vq_ring_free_chain` ends for the head:
  - A debug build asserts that an empty free list ends at `CHAIN_END`.
  - `ChainFrom` walks the NEXT links, with fuel `N + 1`. A longer walk is a cycle, and the `while` loop never ends ("hang").
  - A step to `CHAIN_END` trips `VQ_RING_ASSERT_VALID_IDX` in a debug build. In a release build it reads out of bounds.
  - A length that differs from `ndescs` trips the final `VQASSERT` in a debug build. A release build frees the chain anyway, with `vq_free_cnt += ndescs` and `ndescs -=` the length in 16 bits.
- `virtqueue_enable_cb` on the driver calls `virtqueue_nused`. Its `VQASSERT` stops a debug build once `vq_used_cons_idx` has run past `used->idx`. On the device, `virtqueue_navail` gives the re-check.
- `virtqueue_notification_driver` is the driver's interrupt. With `IsrReclaims` the callback calls `virtqueue_get_buffer` wherever the thread is:
  - Inside `VQUEUE_BUSY` ("adding"), a debug build traps "VirtQueue already in use".
  - Between the thread's check and its `VQUEUE_BUSY` ("getting"), nothing traps.
- `ReturnHead(h)` is the device's caller. It passes `virtqueue_add_consumed_buffer` a head it holds or, up to `MaxStrays` times, any descriptor index. The code only rejects `head_idx >= vq_nentries`.
- `virtqueue_add_buffer_full` is the same call without room. With `VQUEUE_DEBUG` it returns `ERROR_VRING_FULL` and changes nothing. In a release build the check is compiled out. The walk then passes `VQ_RING_DESC_CHAIN_END`, which is undefined behaviour. The model lets the resulting head be any value and moves the driver to "ub".
- The 16-bit fields wrap with `U16`. The slot is `idx % N`, which equals `idx & (N-1)` because `N` is a power of two.

Init is the state reached after `StartIdx` single-buffer round trips from a freshly created queue:
- every index and event field equals that value;
- the free list is in identity order;
- every ring slot holds 0.

Starting at 65535 makes the first publish wrap the 16-bit indices.

### `Channel` and the refinement

`Channel` is the abstract queue:
- `Post(c)`: the driver posts a buffer while fewer than `Capacity` are in the channel.
- `Take`: the device takes the oldest posted one.
- `Complete(c)`: the device returns any buffer it holds.
- `Reclaim`: the driver gets back the oldest returned one.

`Virtqueue` instantiates it with `INSTANCE Channel WITH`, and the run checks `Chan!Spec` as the property `ChannelRefinement`. The mapping is:
- `avail` is the cookies of the heads in the avail window `[vq_available_idx, avail->idx)`.
- `held` is the cookies of the heads the device holds or is returning.
- `used` is the cookies of the heads in the used window `[vq_used_cons_idx, used->idx)`.
- `Capacity` is `N`.

A slot write before its index increment maps to a stutter. So does every notification, suppression and index-check step.

### `VirtioMmio`

The constants describe the environment:
- `NQ`: the number of pre-allocated queues passed to `register_device`.
- `NENTRIES`: their `vq_nentries`.
- `Slots`: the register contents a slot may present: MAGIC, VERSION, DEVICE_ID and QUEUE_NUM_MAX.
- `DeviceModes`: the possible values of `device_mode`.
- `ReadyChoices`: whether a pre-allocated vq passes setup's "already configured" test.
- `Offered` and `Wanted`: the feature sets.
- `NegotiationStyles`: how the probing caller negotiates. "set" calls `virtio_set_features(w)`. "get" follows the spec: it reads the offer with `virtio_get_features` and proposes the part it wants. "negotiate" calls `virtio_negotiate_features`.
- `VQUEUE_DEBUG`: the build flag.
- `MaxEvents`: a bound on the interrupts the device raises.
- `MetalIoResults`: whether libmetal registers, opens and maps both I/O regions in `virtio_mmio_get_metal_io`.

The variables are:
- `regs`: the register bank. It holds STATUS, GUEST_PAGE_SIZE, QUEUE_SEL, DEVICE_FEATURES_SEL, DRIVER_FEATURES, INTERRUPT_STATUS, and the per-queue QUEUE_NUM, QUEUE_ALIGN and QUEUE_PFN.
- `role`, `idVersion` and `features` of `struct virtio_device`.
- `vringsInfo`, `vringsNum`, and `infoCap`, the number of entries allocated.
- `phase`: the probing caller's position. It goes from probe through inited, driver, featured, registered, creating and created to running, or ends in failed, assert or ub.
- `cfgIo`: whether `cfg_io` is a usable I/O region after `virtio_mmio_get_metal_io`.
- `isrPc`, `isrVal` and `isrI`: the ISR's local state.
- `done`: the completions raised and not yet drained, per queue.

The caller reaches the transport through the `virtio.h` wrappers:
- `virtio_set_status`, `virtio_get_features`, `virtio_set_features` and `virtio_negotiate_features_ret` check `Has(op)` against `virtio_mmio_dispatch`, and return `-ENXIO` when the op is missing.
- The MMIO table has no `negotiate_features`, so the "negotiate" style ends the probe.
- `virtio_mmio_get_features` returns DEVICE_FEATURES AND `vdev->features`. Before `set_features` that is empty, so the "get" style negotiates nothing.
- The probe sets DRIVER and DRIVER_OK as `virtio_get_status` OR the new bit, the way a caller keeps the bits already set.
- `virtio_mmio_device_init` calls `virtio_mmio_get_metal_io` and ignores its result, which is 0 even when a region is missing. With `MetalIoResults` containing FALSE, the first register read goes through a NULL `cfg_io`, and the model moves the caller to "ub".
- `virtio_create_virtqueues` (virtio.c) finds `create_virtqueues` in the table and hands the job to `virtio_mmio_create_virtqueues`.

Each library function is one action. The loop of `virtio_mmio_create_virtqueues` is one action per iteration, and each iteration is a whole `virtio_mmio_setup_virtqueue`. The ISR is split where the device can act in between:
- the read of INTERRUPT_STATUS;
- each callback of the loop;
- the end of the loop;
- the write of INTERRUPT_ACK.

The device peer's code is not in the repository, so its two actions come from the spec's register table. `device_complete` needs DRIVER_OK and a programmed QUEUE_PFN. `device_config_change` raises the config bit. A queue callback stands for draining the used ring with `virtqueue_get_buffer`, which the `Virtqueue` module models.

## 3. Runs

| Run | cfg | Expect | Checks |
|---|---|---|---|
| `queue_safety` | `VirtqueueSafety.cfg` | pass | `TypeOK`, `DescriptorsPartitioned`, `HeadOwnership`, `ChannelRefinement` |
| `queue_live` | `VirtqueueLive.cfg` | pass | `NoLostBuffer`, flag suppression and event-index suppression |
| `queue_debug_traps` | `VirtqueueDebugTraps.cfg` | pass | `FreeListIntactOrTrapped`: a debug build, a faulty device caller and a driver callback that reclaims |
| `queue_reentry` | `VirtqueueReentry.cfg` | violation | `OwnershipIntactOrTrapped`: a debug build, a callback that reclaims, a correct device |
| `release_full` | `VirtqueueRelease.cfg` | violation | `DescriptorsPartitioned` without `VQUEUE_DEBUG` |
| `reset_recreate` | `VirtioDeviceReset.cfg` | violation | `ResetRecreateIsFresh` |
| `vring_layout` | `VringLayout.cfg` | pass | `VringSizeFormula`, `RingLayoutSound`, `NeedEventMatchesWindow`, `IdentLookupsMatchTables` |
| `vring_unaligned` | `VringLayoutUnaligned.cfg` | violation | `RingLayoutSound` for unaligned ring memory |
| `mmio_probe` | `VirtioMmioInit.cfg` | pass | `TypeOK`, `QueueActivationSound`, `InterruptLineSettles` |
| `mmio_isr_race` | `MmioQueueIsrRace.cfg` (module `MCMmioQueue`) | violation | `IsrReclaimsEveryBuffer` |
| `mmio_vrings_overflow` | `VirtioMmioOverflow.cfg` | violation | `VringsInfoInBounds` |
| `mmio_null_vq` | `VirtioMmioNullVq.cfg` | violation | `SetupNeverUsesNullQueue` |

What each property states:
- **`DescriptorsPartitioned`**: the free list, walked from `vq_desc_head_idx` for `vq_free_cnt` links, is injective and ends at `CHAIN_END`. Every in-flight chain has exactly the `ndescs` recorded for its cookie. Together the chains and the free list cover the whole table without overlap. Breaking it takes an add, a completion through the device and a free-chain splice in the wrong order.
- **`HeadOwnership`**: at most `N` buffers sit in each window between consumer and producer index. Every in-flight head is in exactly one place: the avail window, held by the device, the used window, or between a slot write and its idx increment. The cookies of the in-flight heads are exactly the posted ones. This is where the 16-bit wrap and the slot-before-idx order matter.
- **`ChannelRefinement`**: every step of either side is a `Channel` step or a stutter under the mapping above. So the device takes buffers in posting order and the driver gets them back in completion order, each with its own cookie. Reading the avail slot one past `vq_available_idx` breaks it.
- **`NoLostBuffer`**: every posted buffer is eventually returned to the driver. This is the lost-wakeup property of the disable/poll/enable/re-check discipline, and of `vring_need_event`.
- **`FreeListIntactOrTrapped`**: the driver never loops forever in `vq_ring_free_chain`, and unless a `VQASSERT` has stopped it, `DescriptorsPartitioned` holds. This holds whatever the faulty caller returns (a head never taken, one returned twice, a descriptor inside another chain) and wherever the callback preempts the thread. It is what spec §7 means by "free-list corruption and chain-length mismatch are trapped".
- **`OwnershipIntactOrTrapped`**: unless a `VQASSERT` has stopped the program, `HeadOwnership` holds. This is the spec's claim that the busy guard traps reentrant access.
- **`ResetRecreateIsFresh`** (an action property): a reset followed by re-creating the queues yields a fresh driver queue (spec §8.6).
- **`VringSizeFormula`**: `vring_size` equals the spec's formula (spec §8.8).
- **`RingLayoutSound`**: desc, avail (with `used_event`) and used (with `avail_event`) lie in order, `used` is aligned, and everything lies inside the cleared bytes.
- **`NeedEventMatchesWindow`**: for every old index and every `vq_queued_cnt` at and around the 16-bit boundaries (0, 1, 32767-32769, 65534, 65535), `vq_ring_must_notify` answers true exactly when the peer's event index lies among the entries published since the last notification, counted without wrapping (spec §8, property 7). This is the check of `vring_need_event` against a reference over the whole range of `vq_queued_cnt`, which the queue runs cannot reach.
- **`IdentLookupsMatchTables`**: `virtio_dev_name` and `virtio_feature_name` return the name of the first row with the key among the rows before each table's sentinel, searching the driver's table before the common one and skipping a NULL driver table, and NULL when no row has the key. `virtio_describe`'s lookup of feature 0 never finds a row. The reference is built from `SelectInSeq` over the tables cut at their sentinels, not from the pointer walk.
- **`QueueActivationSound`**: a queue the device is handed (QUEUE_PFN non-zero) was set up on a validated slot, with a usable `cfg_io`, in the driver role, with QUEUE_NUM within QUEUE_NUM_MAX, and its callback is reachable from the ISR. Dropping the VERSION check from `device_init` does not break this, because `setup_virtqueue` checks `id.version` again. Dropping the QUEUE_NUM_MAX assertion does break it.
- **`InterruptLineSettles`**: because the ISR acknowledges every bit it read, unknown bits included, the line is deasserted once the device stops. Acknowledging only the vring bit would leave a config interrupt asserted forever.
- **`IsrReclaimsEveryBuffer`**, **`VringsInfoInBounds`** and **`SetupNeverUsesNullQueue`**: the statements the spec makes that the violation runs refute. `IsrReclaimsEveryBuffer` says that a driver which reclaims only in its queue callback gets every posted buffer back.

Every property of a passing run has a mutant in `PROJECT.json`: a plausible one-line bug in a mapped definition that TLC finds. The mutants are:
- the missing 16-bit wrap of `avail->idx`;
- a free-chain splice that forgets the old head;
- the used slot off by one;
- the avail slot read one past `vq_available_idx`;
- `vq_ring_free_chain` without its chain-length `VQASSERT`;
- `vq_ring_enable_interrupt` without its re-check;
- `vring_need_event` off by one;
- `vring_need_event` without its `(uint16_t)` cast;
- `device_init` that dropped the `get_metal_io` call's effect (a `cfg_io` never checked reaches the register writes);
- `vring_size` without the rounding;
- `vring_init` without the `used_event` field;
- set-up without the QUEUE_NUM_MAX assertion;
- `set_features` without masking by DEVICE_FEATURES;
- `virtio_feature_name` scanning the common table before the driver's;
- the ISR acknowledging only the vring bit.

### Findings

1. **`release_full`.** Without `VQUEUE_DEBUG`, `virtqueue_add_buffer` never returns `ERROR_VRING_FULL`, although spec §4.2 says it does. TLC adds one buffer to a 2-entry ring and then asks for two more descriptors. `vq_free_cnt` wraps to 65535.
2. **`reset_recreate`.** `virtqueue_create` (virtqueue.c:68-102) sets only `vq_nentries` and `vq_free_cnt` and re-threads `desc[].next`. Four fields survive a reset into the zeroed ring: `vq_desc_head_idx` (CHAIN_END after a full add), `vq_used_cons_idx`, `vq_queued_cnt` and the cookies. The next add then starts from a head of CHAIN_END.
3. **`vring_unaligned`.** `vring_init` aligns the absolute address of `used`, but `vring_size` aligns the length. At address 4108 with alignment 16 and one descriptor, the used ring ends 4 bytes past the cleared region. No code checks the alignment of `vaddr`.
4. **`mmio_vrings_overflow`** (a code bug). `virtio_mmio_register_device` allocates `vq_num` entries, fills them and sets `vrings_num = vq_num`. `virtio_mmio_create_virtqueues` reads `vrings_info[i].vq` (virtio_mmio_drv.c:504), so the probe registers the device before creating its queues. Each `setup_virtqueue` then stores its vq again at `vrings_info[vrings_num++]` (444-445), with no bound against the `vq_num` entries allocated. TLC's trace (with no device interrupts) ends at the first append past the allocation; an ISR that ran afterwards would iterate over `vrings_num` entries, twice the allocation.
5. **`mmio_isr_race`** (a spec gap). `virtio_mmio_isr` writes INTERRUPT_ACK with the status it read, after the callbacks, and the spec says the same. The run composes the real driver queue with the ISR (`MmioQueue`). The callback drains, re-arms with `virtqueue_enable_cb`, and finds the ring empty. The device then completes a buffer and sets the VRING bit again, and the ack clears it. The device has nothing more to return and goes back to sleep, so no interrupt follows. The buffer stays in the used ring, and a driver that reclaims only from its callback never gets it back. TLC's trace on a 2-entry ring has 22 states. `enable_cb`'s re-check closes the window before the re-arm, not the one between the re-arm and the ack.
6. **`mmio_null_vq`.** A vq straight from `virtqueue_allocate` (zeroed) fails setup's "already configured" test (virtio_mmio_drv.c:403), so `virtqueue_create` receives `vq == NULL`. A debug build refuses it. A release build writes through it.
7. **`queue_reentry`.** `virtqueue_get_buffer` compares `vq_used_cons_idx` with `used->idx` (virtqueue.c:196) before `VQUEUE_BUSY`, so the guard does not cover reentry at that point. TLC's 15-state trace, on a 2-entry ring, in a debug build:
   - The driver posts c1 (head 0) and c2 (head 1), and the device takes both.
   - The device returns head 1.
   - The thread sees the used entry.
   - Before the thread's `VQUEUE_BUSY`, the interrupt callback reclaims c2.
   - The thread resumes and takes used slot 1, which still holds its initial head 0. That is c1, which the device still holds. Its `ndescs` matches, so no assertion fires.

   The driver may now reuse a buffer the device is writing, and `vq_used_cons_idx` is past `used->idx`. Spec §4.2.8 says the guard asserts on entry to every public mutating operation, and §4.2.9 and §7 say reentrant access is trapped.

**Observations without a run.** Each of these is a single expression that a unit test reaches directly:
- `set_features` negotiates `VIRTIO_F_BAD_FEATURE` when it is offered and asked for (virtio_mmio_drv.c:162). Spec §4.3 says it must never be negotiated.
- `virtio_mmio_get_features` returns the offer masked by the features already negotiated (virtio_mmio_drv.c:129). Before `set_features` that is 0, so a driver that reads the offer first, as spec §4.3 describes, negotiates nothing. The header comment at virtio.h:308 also calls the result the features the device exposes. The "get" style of the probe model follows this sequence and reaches DRIVER_OK with no features negotiated. No run checks it: stating that the negotiated set is the wanted part of the offer would need a violation run of its own.
- `virtio_ident_table` has no row for `VIRTIO_ID_RPMSG` (7), the device type this library serves, so `virtio_dev_name` returns NULL for it.
- `virtio_mmio_read_config` ignores `offset` and always copies from CONFIG+0 (virtio_mmio_drv.c:105). Spec §4.4 says it reads from CONFIG+offset.

## 4. Bounds and why they suffice

The bounds for `queue_safety`:
- `N = 4` lets two chains of two descriptors, or chains of different lengths, coexist with a non-trivial free list.
- `Cookies = {c1, c2}` allows two buffers in flight.
- `MaxChain = 2` exercises both chained and single descriptors, and both read and write flags.
- `MaxAdds = 3` makes the third add reuse a recycled descriptor.
- `StartIdx = {65535}` wraps every 16-bit index during the run.

This gives about 1.3 million distinct states in about 95 seconds. Adding `ChannelRefinement` adds no states.

The liveness run uses `N = 2` and both suppression schemes: about 860,000 states in about two minutes. `queue_safety` uses flag suppression only. Suppression does not change which heads move where, and adding the event-index scheme multiplies the state space by five.

`queue_debug_traps` and `queue_reentry` use `N = 2` with both cookies, chains of up to two descriptors and three adds, so every descriptor is recycled. `queue_debug_traps` sets `MaxStrays = 2`, so a stray can follow another stray or a legitimate return. With `N = 4` the run exceeds nine million states. It reaches about 6.5 million distinct states in under two minutes. Without the `MaxStrays` bound, stray returns would walk `used->idx` through all 65,536 values. Both runs disable deadlock checking because a trapped program stops.

The MMIO runs use two queues, so the duplicated `vrings_info` entries and a completion on one queue while the other's callback runs both occur. `mmio_probe` enumerates all 24 slot contents, both roles and both outcomes of the "already configured" test. The ISR runs allow three interrupts: one to start the handler, one inside the window, and one spare.

The layout runs enumerate:
- every power-of-two count up to 1024;
- alignments 2, 4, 16 and 4096;
- three aligned addresses for the passing run, and one unaligned address for the violation run.

`MCVringLayout` also picks, in its initial state, either one input of the event-index test or one lookup in the identification tables. Creating a ring replaces it with the zero input, so the layout states are not multiplied by the inputs. The input is an old index from {0, 1, 32767, 32768, 65534, 65535}, a `vq_queued_cnt` from {0-3, 32767-32769, 65534, 65535}, and an event index at offsets 0, 1, 32768 and 65535 from the old index and within two of the new one. These are the values on either side of every wrap and sign boundary of the 16-bit subtraction. The `(uint16_t)` cast and an off-by-one both fail at these values. A lookup input is a key from 0-42 (every assigned device id and the unassigned ones between them, 7 included), 65535, or one of the four common feature bits, and a driver feature table that is NULL or has up to two rows before its sentinel. Those rows take values 1, EVENT_IDX or BAD_FEATURE and the name "Drv" or NULL, so they cover a driver row that shadows a common one, a repeated value, and a matching row whose name is NULL. Scanning the tables in the wrong order fails on a shadowing row. The run has 2453 initial states and 2585 distinct states in all.

## 5. Fairness

Weak fairness is assumed only for steps a processor keeps taking once it has started, or that the code's structure makes inevitable:
- finishing a publish (`vq_ring_update_avail_idx`, `virtqueue_add_consumed_buffer_idx`);
- the driver kicking after publishing;
- the driver polling `virtqueue_get_buffer` (its check and the rest);
- the device's notification callback running when the doorbell is pending;
- the device polling until `get_available_buffer` returns NULL, re-enabling callbacks, and returning what it took. Fairness covers only returns of heads it holds, because a stray return is a fault and not an obligation.

Adding buffers, `disable_cb` and `enable_cb` on the driver, and the driver's interrupt handler are left unfair. The driver polls, so nothing in `NoLostBuffer` depends on its interrupt.

In `MmioQueue`, the device actions and the thread's publish and kick are weakly fair as in `Virtqueue`, and so is the ISR as a whole: the line is level-triggered, so while the VRING bit is set the interrupt is taken and the handler runs to its end. The thread's adds are not fair. It reclaims nothing, so the property does not depend on it.

In `VirtioMmio`, the ISR's four steps are weakly fair. The line is level-triggered, so while INTERRUPT_STATUS is non-zero the CPU takes the interrupt, and the handler runs to its end. The device and the probing caller are not fair.

The MMIO runs disable deadlock checking. The caller abandons the device after a failed probe (spec §7), and the device's interrupts are bounded, so every behaviour really ends.

## 6. Not modelled, and the plan

**Not modelled yet:**
- **Full composition.** `MmioQueue` composes one driver queue with the ISR's vring path. The probe of `VirtioMmio` is not composed with it: the probe ends before any buffer moves, so composing them would only multiply states. The config-change bit is modelled in `VirtioMmio` alone.
- **Finer preemption.** The interrupt callback preempts the thread only at the split points: before `VQUEUE_BUSY` in `get_buffer`, and between the slot write and the idx increment of `add_buffer`. Inside `VQUEUE_BUSY` a debug build traps wherever the preemption lands, so `queue_debug_traps` is exact. A release build can also be preempted between reading and writing `vq_desc_head_idx` in `add_buffer`, which the model keeps atomic.
- **Release build against a faulty device.** A stray head corrupts the free list silently. `release_full` already shows that build without its checks.
- **`get_metal_io` internals.** The libmetal registration, open and map calls are outside the repository, so the model reduces them to one boolean outcome.
- **`vq_queued_cnt` wrap.** `NeedEventMatchesWindow` checks the notify decision for every count up to 65535. A 65536th add without a kick would wrap the count to 0 and suppress the kick. That needs 65536 adds, which is out of TLC's reach.
- **`VIRTIO_ASSERT` compiled out.** `VIRTIO_ASSERT` is `metal_assert` (virtio.h:171-180), which the model treats as a trap in every build. A build that compiles `metal_assert` out under `NDEBUG` would program a queue larger than QUEUE_NUM_MAX (virtio_mmio_drv.c:434-437). The probe's build flavours vary only `VQUEUE_DEBUG`, so `QueueActivationSound` does not cover that case.
- **MMIO operations.** `read_config` and `write_config` (byte copies and a warning) and `get_max_elem` (a read with no effect on the probe) are not modelled.

**Out of scope:**
- `virtqueue_free`, `virtqueue_dump`, and the address and length accessors, which are pure reads or teardown.
- Libmetal I/O, which the models assume gives sequentially consistent shared memory. The code's `seq_cst` fences provide that.
