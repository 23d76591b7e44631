----------------------------- MODULE Virtqueue -----------------------------
(***************************************************************************)
(* One split virtqueue shared by a driver and a device, as implemented in  *)
(* src/lib/virtio/virtqueue.c and src/lib/include/openamp/virtio_ring.h.   *)
(*                                                                         *)
(* Both sides run the same engine on their own struct virtqueue: the       *)
(* driver adds buffers, kicks and reclaims completions; the device takes   *)
(* available buffers, returns them as used and raises interrupts.  The     *)
(* shared vring (descriptor table, avail ring, used ring, the two event    *)
(* words and the two flag words) is modelled field by field; each C        *)
(* statement on shared memory is one atomic access (the code's seq_cst     *)
(* fences make the two processors sequentially consistent).  The only      *)
(* function split in two steps is each producer's publish, where a peer    *)
(* can run between the ring-slot write and the index increment.            *)
(*                                                                         *)
(* Buffer addresses and lengths are abstracted away: a descriptor keeps    *)
(* its next link and its NEXT/WRITE flags; a cookie is a model value.      *)
(***************************************************************************)
EXTENDS Integers, Sequences, FiniteSets, Functions, VringEvent

CONSTANTS
  N,            \* vq_nentries, a power of two
  Cookies,      \* opaque cookies handed to virtqueue_add_buffer
  NULL,         \* the NULL cookie
  StartIdx,     \* free-running 16-bit index value the queue starts from
  MaxChain,     \* longest chain (readable + writable) a caller adds
  MaxAdds,      \* bound on the number of virtqueue_add_buffer calls
  EventIdxModes, \* whether VIRTIO_RING_F_EVENT_IDX may be negotiated
  VQUEUE_DEBUG, \* build with VQUEUE_DEBUG: VQ_PARAM_CHK/VQASSERT compiled in
  MaxStrays,    \* bound on heads the device's caller returns without holding
  IsrReclaims   \* the driver's virtqueue callback calls virtqueue_get_buffer

ASSUME N \in {1, 2, 4, 8} /\ NULL \notin Cookies
ASSUME StartIdx \subseteq 0 .. 65535 /\ MaxChain \in 1 .. N
ASSUME EventIdxModes \subseteq BOOLEAN /\ VQUEUE_DEBUG \in BOOLEAN /\ MaxStrays \in Nat
ASSUME IsrReclaims \in BOOLEAN

CHAIN_END == 32768                   \* VQ_RING_DESC_CHAIN_END
Idx == 0 .. N - 1
Slot(i) == i % N                     \* i & (vq_nentries - 1)

VARIABLES
  \* ---- shared vring ----
  desc,        \* desc[i] = [next, flags]
  availRing,   \* avail->ring[slot]
  availIdx,    \* avail->idx
  availFlags,  \* avail->flags has VRING_AVAIL_F_NO_INTERRUPT
  usedEvent,   \* vring_used_event: avail->ring[num]
  usedRing,    \* used->ring[slot].id
  usedIdx,     \* used->idx
  usedFlags,   \* used->flags has VRING_USED_F_NO_NOTIFY
  availEvent,  \* vring_avail_event: used->ring[num].event
  eventIdx,    \* vdev->features has VIRTIO_RING_F_EVENT_IDX (fixed)
  \* ---- driver's struct virtqueue ----
  drvHead,     \* vq_desc_head_idx
  drvFree,     \* vq_free_cnt
  drvQueued,   \* vq_queued_cnt
  drvUsedCons, \* vq_used_cons_idx
  descx,       \* vq_descx[i] = [cookie, ndescs]
  \* ---- device's struct virtqueue ----
  devAvailCons, \* vq_available_idx
  devQueued,    \* vq_queued_cnt
  \* ---- notifications in flight ----
  kickPending, \* driver's notify reached the device, callback not yet run
  irqPending,  \* device's notify reached the driver
  \* ---- the two callers ----
  drvPc,       \* driver thread: "idle" | "getting" (used entry seen, before
               \* VQUEUE_BUSY) | "adding" (between slot write and idx++);
               \* the program stopped: "assert" | "hang" | "ub"
  drvPending,  \* head being published while drvPc = "adding"
  devPc,       \* "idle" | "returning" (between used slot write and idx++)
  devPending,  \* head being returned while devPc = "returning"
  devRun,      \* device consumer: "sleeping" | "running" | "empty"
  devHeld,     \* heads obtained by get_available and not yet returned
  inflight,    \* cookies added and not yet returned by get_buffer
  adds,        \* number of virtqueue_add_buffer calls so far
  strays       \* number of heads the device returned without holding them

ring   == <<desc, availRing, availIdx, availFlags, usedEvent, usedRing,
            usedIdx, usedFlags, availEvent>>
drv    == <<drvHead, drvFree, drvQueued, drvUsedCons, descx>>
dev    == <<devAvailCons, devQueued>>
env    == <<kickPending, irqPending, drvPc, drvPending, devPc, devPending,
            devRun, devHeld, inflight, adds, strays>>
stateVars == <<ring, drv, dev, env>>   \* what the operations change
vars   == <<stateVars, eventIdx>>

-----------------------------------------------------------------------------
(* Descriptor-chain helpers.                                               *)

\* The free list as vq_ring_add_buffer walks it: k links from i.
RECURSIVE FreeWalk(_, _)
FreeWalk(i, k) ==
  IF k = 0 \/ i = CHAIN_END THEN <<>>
  ELSE <<i>> \o FreeWalk(desc[i].next, k - 1)

\* The descriptors vq_ring_free_chain visits from i: i, then desc[].next
\* while NEXT is set.  It stops early at a NEXT link to
\* VQ_RING_DESC_CHAIN_END (an index past the table); a walk longer than
\* the table means the links form a cycle.
RECURSIVE ChainFrom(_, _)
ChainFrom(i, fuel) ==
  IF fuel = 0 THEN <<>>
  ELSE <<i>> \o (IF "NEXT" \in desc[i].flags /\ desc[i].next # CHAIN_END
                 THEN ChainFrom(desc[i].next, fuel - 1) ELSE <<>>)

\* Mutant: vq_ring_free_chain without the chain-length VQASSERT.
free_chain_no_len_check(head) ==
  LET w == ChainFrom(head, N + 1)
  IN IF VQUEUE_DEBUG /\ drvFree = 0 /\ drvHead # CHAIN_END THEN "assert"
     ELSE CASE Len(w) > N -> "hang"
            [] Len(w) <= N /\ "NEXT" \in desc[w[Len(w)]].flags ->
                 IF VQUEUE_DEBUG THEN "assert" ELSE "ub"
            [] OTHER -> "ok"

\* How vq_ring_free_chain ends for a head.  With VQUEUE_DEBUG it first
\* asserts that an empty free list ends at VQ_RING_DESC_CHAIN_END.  The
\* walk over NEXT links loops forever ("hang") when they cycle; a step to
\* an index past the table trips VQ_RING_ASSERT_VALID_IDX in a debug build
\* and reads out of bounds ("ub") in a release one; a chain whose length
\* differs from vq_descx[head].ndescs trips the final VQASSERT in a debug
\* build and is freed anyway in a release one ("ok").
vq_ring_free_chain_outcome(head) ==
  LET w == ChainFrom(head, N + 1)
  IN IF VQUEUE_DEBUG /\ drvFree = 0 /\ drvHead # CHAIN_END THEN "assert"
     ELSE CASE Len(w) > N -> "hang"
            [] Len(w) <= N /\ "NEXT" \in desc[w[Len(w)]].flags ->
                 IF VQUEUE_DEBUG THEN "assert" ELSE "ub"
            [] Len(w) <= N /\ "NEXT" \notin desc[w[Len(w)]].flags
               /\ descx[head].ndescs # Len(w) ->
                 IF VQUEUE_DEBUG THEN "assert" ELSE "ok"
            [] OTHER -> "ok"

\* virtqueue_nused (driver) and virtqueue_navail (device): the entries the
\* peer published and this side has not consumed, in 16 bits.  Both
\* VQASSERT that the count is at most vq_nentries.
virtqueue_nused == U16(usedIdx - drvUsedCons)
virtqueue_navail == U16(availIdx - devAvailCons)

\* Flags vq_ring_add_buffer gives the k-th (1-based) of n descriptors.
DescFlags(k, n, readable) ==
  {f \in {"NEXT", "WRITE"} : \/ f = "NEXT" /\ k < n
                             \/ f = "WRITE" /\ k > readable}

-----------------------------------------------------------------------------
(* Initial state: a created queue (virtqueue_allocate zeroes the struct,   *)
(* vq_ring_init threads desc[i].next = i+1) whose indices have all reached *)
(* the same value b, as after b single-buffer round trips, which keep the  *)
(* free list in index order and put head 0 in every ring slot.            *)
vq_ring_init ==
  [i \in Idx |-> [next |-> IF i < N - 1 THEN i + 1 ELSE CHAIN_END, flags |-> {}]]

Init ==
  \E b \in StartIdx :
    /\ desc = vq_ring_init
    /\ eventIdx \in EventIdxModes
    /\ availRing = [s \in Idx |-> 0]  /\ usedRing = [s \in Idx |-> 0]
    /\ availIdx = b /\ usedIdx = b /\ usedEvent = b /\ availEvent = b
    /\ availFlags = FALSE /\ usedFlags = FALSE
    /\ drvHead = 0 /\ drvFree = N /\ drvQueued = 0 /\ drvUsedCons = b
    /\ descx = [i \in Idx |-> [cookie |-> NULL, ndescs |-> 0]]
    /\ devAvailCons = b /\ devQueued = 0
    /\ kickPending = FALSE /\ irqPending = FALSE
    /\ drvPc = "idle" /\ drvPending = CHAIN_END
    /\ devPc = "idle" /\ devPending = CHAIN_END
    /\ devRun = "sleeping" /\ devHeld = {}
    /\ inflight = {} /\ adds = 0 /\ strays = 0

-----------------------------------------------------------------------------
(* Driver side.                                                            *)

\* vq_ring_must_notify, driver role: peer's avail_event or NO_NOTIFY flag.
must_notify_driver ==
  IF eventIdx
  THEN must_notify_event(availEvent, availIdx, drvQueued)
  ELSE ~usedFlags

\* virtqueue_add_buffer with room, up to the avail-ring slot write:
\* reserve the chain from the free list, fill its flags, record the cookie,
\* advance the free head, then vq_ring_update_avail stores the head.
virtqueue_add_buffer(readable, writable, cookie) ==
  LET needed == readable + writable
      head   == drvHead
      chain  == FreeWalk(head, needed)
      pos(i) == CHOOSE k \in 1 .. needed : chain[k] = i
  IN
  /\ drvPc = "idle" /\ adds < MaxAdds /\ cookie \notin inflight
  /\ drvFree >= needed
  /\ desc' = [i \in Idx |->
        IF i \in Range(chain)
        THEN [desc[i] EXCEPT !.flags = DescFlags(pos(i), needed, readable)]
        ELSE desc[i]]
  /\ descx' = [descx EXCEPT ![head] = [cookie |-> cookie, ndescs |-> needed]]
  /\ drvHead' = desc[chain[needed]].next
  /\ drvFree' = drvFree - needed
  /\ availRing' = [availRing EXCEPT ![Slot(availIdx)] = head]
  /\ drvPc' = "adding" /\ drvPending' = head
  /\ inflight' = inflight \cup {cookie} /\ adds' = adds + 1
  /\ UNCHANGED <<availIdx, availFlags, usedEvent, usedRing, usedIdx, usedFlags,
                 availEvent, drvQueued, drvUsedCons, dev, kickPending,
                 irqPending, devPc, devPending, devRun, devHeld, strays>>

\* virtqueue_add_buffer without room.  With VQUEUE_DEBUG, VQ_PARAM_CHK
\* returns ERROR_VRING_FULL and nothing changes.  Without it the check is
\* compiled out: the walk runs past VQ_RING_DESC_CHAIN_END into desc[32768]
\* (undefined behaviour, not modelled further), vq_free_cnt wraps and the
\* head is whatever that out-of-bounds next field held.
virtqueue_add_buffer_full(readable, writable, cookie) ==
  /\ drvPc = "idle" /\ adds < MaxAdds /\ cookie \notin inflight
  /\ drvFree < readable + writable
  /\ IF VQUEUE_DEBUG
     THEN UNCHANGED vars
     ELSE /\ drvFree' = U16(drvFree - (readable + writable))
          /\ drvHead' \in Idx \cup {CHAIN_END}
          /\ drvPc' = "ub" /\ adds' = adds + 1
          /\ UNCHANGED <<ring, drvQueued, drvUsedCons, descx, dev,
                         kickPending, irqPending, drvPending, devPc,
                         devPending, devRun, devHeld, inflight, strays>>

\* Mutant: avail->idx kept in a wider integer, without the 16-bit wrap.
update_avail_idx_no_wrap ==
  /\ drvPc = "adding"
  /\ availIdx' = availIdx + 1
  /\ drvQueued' = U16(drvQueued + 1)
  /\ drvPc' = "idle" /\ drvPending' = CHAIN_END
  /\ UNCHANGED <<desc, availRing, availFlags, usedEvent, usedRing, usedIdx,
                 usedFlags, availEvent, drvHead, drvFree, drvUsedCons, descx,
                 dev, kickPending, irqPending, devPc, devPending, devRun,
                 devHeld, inflight, adds, strays>>

\* Rest of vq_ring_update_avail: fence, avail->idx++, vq_queued_cnt++.
vq_ring_update_avail_idx ==
  /\ drvPc = "adding"
  /\ availIdx' = U16(availIdx + 1)
  /\ drvQueued' = U16(drvQueued + 1)
  /\ drvPc' = "idle" /\ drvPending' = CHAIN_END
  /\ UNCHANGED <<desc, availRing, availFlags, usedEvent, usedRing, usedIdx,
                 usedFlags, availEvent, drvHead, drvFree, drvUsedCons, descx,
                 dev, kickPending, irqPending, devPc, devPending, devRun,
                 devHeld, inflight, adds, strays>>

\* virtqueue_kick, driver role.  The caller kicks after publishing.
virtqueue_kick_driver ==
  /\ drvPc = "idle" /\ drvQueued > 0
  /\ kickPending' = (kickPending \/ must_notify_driver)
  /\ drvQueued' = 0
  /\ UNCHANGED <<ring, drvHead, drvFree, drvUsedCons, descx, dev, irqPending,
                 drvPc, drvPending, devPc, devPending, devRun, devHeld,
                 inflight, adds, strays>>

\* virtqueue_get_buffer up to VQUEUE_BUSY: used->idx differs from
\* vq_used_cons_idx, so there is an entry to take (else NULL, no change).
virtqueue_get_buffer_check ==
  /\ drvPc = "idle" /\ drvUsedCons # usedIdx
  /\ drvPc' = "getting"
  /\ UNCHANGED <<ring, drv, dev, kickPending, irqPending, drvPending, devPc,
                 devPending, devRun, devHeld, inflight, adds, strays>>

\* Mutant: vq_ring_free_chain forgets to link the freed chain's tail to
\* the old free head.
get_buffer_no_splice(pcAfter) ==
  LET head  == usedRing[Slot(drvUsedCons)]
      chain == ChainFrom(head, N + 1)
  IN
  /\ vq_ring_free_chain_outcome(head) = "ok"
  /\ drvUsedCons' = U16(drvUsedCons + 1)
  /\ drvFree' = drvFree + descx[head].ndescs
  /\ drvHead' = head
  /\ descx' = [descx EXCEPT ![head] = [cookie |-> NULL, ndescs |-> 0]]
  /\ inflight' = inflight \ {descx[head].cookie}
  /\ drvPc' = pcAfter
  /\ UNCHANGED <<desc, availRing, availIdx, availFlags, usedEvent, usedRing,
                 usedIdx, usedFlags, availEvent, drvQueued, dev, kickPending,
                 drvPending, devPc, devPending, devRun, devHeld, adds, strays>>

\* The rest of virtqueue_get_buffer, from VQUEUE_BUSY, including
\* vq_ring_free_chain: take the head at vq_used_cons_idx++ in used->ring
\* (whatever the index check saw), give its chain back to the front of
\* the free list and hand back (and clear) its cookie; the caller goes on
\* at pcAfter.  The head is trusted: with VQUEUE_DEBUG a chain that does
\* not match vq_descx traps in an assertion (the program stops); without
\* it the free proceeds with vq_free_cnt += ndescs and ndescs -= chain
\* length in 16 bits, and a step past the table reads out of bounds.  A
\* cyclic chain loops forever in both builds.
vq_free_used_entry(pcAfter) ==
  LET head    == usedRing[Slot(drvUsedCons)]
      chain   == ChainFrom(head, N + 1)
      outcome == vq_ring_free_chain_outcome(head)
  IN
  CASE outcome # "ok" ->
         /\ drvPc' = outcome
         /\ UNCHANGED <<ring, drv, dev, kickPending, drvPending, devPc,
                        devPending, devRun, devHeld, inflight, adds, strays>>
    [] OTHER ->
         /\ drvUsedCons' = U16(drvUsedCons + 1)
         /\ drvFree' = U16(drvFree + descx[head].ndescs)
         /\ desc' = [desc EXCEPT ![chain[Len(chain)]].next = drvHead]
         /\ drvHead' = head
         /\ descx' = [descx EXCEPT ![head] =
                        [cookie |-> NULL, ndescs |-> U16(@.ndescs - Len(chain))]]
         /\ inflight' = inflight \ {descx[head].cookie}
         /\ drvPc' = pcAfter
         /\ UNCHANGED <<availRing, availIdx, availFlags, usedEvent, usedRing,
                        usedIdx, usedFlags, availEvent, drvQueued, dev,
                        kickPending, drvPending, devPc, devPending, devRun,
                        devHeld, adds, strays>>

\* The driver thread's virtqueue_get_buffer after its index check.
virtqueue_get_buffer ==
  /\ drvPc = "getting"
  /\ vq_free_used_entry("idle")
  /\ UNCHANGED irqPending

\* virtqueue_disable_cb, driver role.
virtqueue_disable_cb_driver ==
  /\ drvPc = "idle"
  /\ IF eventIdx
     THEN /\ usedEvent' = U16(drvUsedCons - N - 1) /\ UNCHANGED availFlags
     ELSE /\ availFlags' = TRUE /\ UNCHANGED usedEvent
  /\ UNCHANGED <<desc, availRing, availIdx, usedRing, usedIdx, usedFlags,
                 availEvent, drv, dev, env>>

\* virtqueue_enable_cb, driver role (vq_ring_enable_interrupt with ndesc 0):
\* arm used_event or clear NO_INTERRUPT, fence, then virtqueue_nused,
\* whose VQASSERT stops a debug build when the consumer index has run
\* past used->idx.  The driver polls, so the returned hint is unused.
virtqueue_enable_cb_driver ==
  /\ drvPc = "idle"
  /\ IF eventIdx
     THEN /\ usedEvent' = drvUsedCons /\ UNCHANGED availFlags
     ELSE /\ availFlags' = FALSE /\ UNCHANGED usedEvent
  /\ drvPc' = IF VQUEUE_DEBUG /\ virtqueue_nused > N THEN "assert" ELSE "idle"
  /\ UNCHANGED <<desc, availRing, availIdx, usedRing, usedIdx, usedFlags,
                 availEvent, drv, dev, kickPending, irqPending, drvPending,
                 devPc, devPending, devRun, devHeld, inflight, adds, strays>>

\* virtio_mmio_isr / virtqueue_notification on the driver: the callback
\* runs.  A polling driver does nothing in it.  One that reclaims from
\* interrupt context calls virtqueue_get_buffer there, preempting the
\* thread wherever it is: between the thread's own index check and its
\* VQUEUE_BUSY, or inside VQUEUE_BUSY (publishing), where a debug build
\* traps "VirtQueue already in use".
virtqueue_notification_driver ==
  /\ irqPending /\ drvPc \in {"idle", "getting", "adding"}
  /\ irqPending' = FALSE
  /\ CASE ~IsrReclaims \/ drvUsedCons = usedIdx ->
            UNCHANGED <<ring, drv, dev, kickPending, drvPc, drvPending, devPc,
                        devPending, devRun, devHeld, inflight, adds, strays>>
       [] drvPc = "adding" /\ VQUEUE_DEBUG ->
            /\ drvPc' = "assert"
            /\ UNCHANGED <<ring, drv, dev, kickPending, drvPending, devPc,
                           devPending, devRun, devHeld, inflight, adds, strays>>
       [] OTHER -> vq_free_used_entry(drvPc)

-----------------------------------------------------------------------------
(* Device side.                                                            *)

\* vq_ring_must_notify, device role: peer's used_event or NO_INTERRUPT flag.
must_notify_device ==
  IF eventIdx
  THEN must_notify_event(usedEvent, usedIdx, devQueued)
  ELSE ~availFlags

\* virtqueue_disable_cb, device role, as the device's notification
\* callback calls it (virtqueue_notification -> callback) before polling.
\* The embedder masks the interrupt around queue calls, so the callback
\* never runs inside another call on the same queue (VQUEUE_BUSY).
virtqueue_notification_device ==
  /\ kickPending /\ devPc = "idle"
  /\ kickPending' = FALSE
  /\ devRun' = "running"
  /\ IF eventIdx
     THEN /\ availEvent' = U16(devAvailCons - N - 1) /\ UNCHANGED usedFlags
     ELSE /\ usedFlags' = TRUE /\ UNCHANGED availEvent
  /\ UNCHANGED <<desc, availRing, availIdx, availFlags, usedEvent, usedRing,
                 usedIdx, drv, dev, irqPending, drvPc, drvPending, devPc,
                 devPending, devHeld, inflight, adds, strays>>

\* Mutant: the device reads the avail slot one past vq_available_idx.
get_available_buffer_next_slot ==
  /\ devRun = "running" /\ devPc = "idle"
  /\ devAvailCons # availIdx
  /\ devAvailCons' = U16(devAvailCons + 1)
  /\ devHeld' = devHeld \cup {availRing[Slot(devAvailCons + 1)]}
  /\ UNCHANGED <<ring, drv, devQueued, kickPending, irqPending, drvPc,
                 drvPending, devPc, devPending, devRun, inflight, adds, strays>>

\* virtqueue_get_available_buffer returning a buffer: read avail->ring at
\* vq_available_idx++ and keep the head to return it later.
virtqueue_get_available_buffer ==
  /\ devRun = "running" /\ devPc = "idle"
  /\ devAvailCons # availIdx
  /\ devAvailCons' = U16(devAvailCons + 1)
  /\ devHeld' = devHeld \cup {availRing[Slot(devAvailCons)]}
  /\ UNCHANGED <<ring, drv, devQueued, kickPending, irqPending, drvPc,
                 drvPending, devPc, devPending, devRun, inflight, adds, strays>>

\* virtqueue_get_available_buffer returning NULL once everything taken has
\* been returned: the consumer goes on to re-enable callbacks.
virtqueue_get_available_buffer_empty ==
  /\ devRun = "running" /\ devPc = "idle" /\ devHeld = {}
  /\ devAvailCons = availIdx
  /\ devRun' = "empty"
  /\ UNCHANGED <<ring, drv, dev, kickPending, irqPending, drvPc, drvPending,
                 devPc, devPending, devHeld, inflight, adds, strays>>

\* Mutant: vq_ring_enable_interrupt without the re-check after the fence.
enable_cb_device_no_recheck ==
  /\ devRun = "empty" /\ devPc = "idle"
  /\ IF eventIdx
     THEN /\ availEvent' = devAvailCons /\ UNCHANGED usedFlags
     ELSE /\ usedFlags' = FALSE /\ UNCHANGED availEvent
  /\ devRun' = "sleeping"
  /\ UNCHANGED <<desc, availRing, availIdx, availFlags, usedEvent, usedRing,
                 usedIdx, drv, dev, kickPending, irqPending, drvPc, drvPending,
                 devPc, devPending, devHeld, inflight, adds, strays>>

\* virtqueue_enable_cb, device role (vq_ring_enable_interrupt, ndesc 0):
\* arm avail_event or clear NO_NOTIFY, fence, then re-check
\* virtqueue_navail; a non-zero hint keeps the consumer polling.
virtqueue_enable_cb_device ==
  /\ devRun = "empty" /\ devPc = "idle"
  /\ IF eventIdx
     THEN /\ availEvent' = devAvailCons /\ UNCHANGED usedFlags
     ELSE /\ usedFlags' = FALSE /\ UNCHANGED availEvent
  /\ devRun' = IF virtqueue_navail > 0 THEN "running" ELSE "sleeping"
  /\ UNCHANGED <<desc, availRing, availIdx, availFlags, usedEvent, usedRing,
                 usedIdx, drv, dev, kickPending, irqPending, drvPc, drvPending,
                 devPc, devPending, devHeld, inflight, adds, strays>>

\* Mutant: the used slot computed one past used->idx.
add_consumed_next_slot(head) ==
  /\ devPc = "idle"
  /\ head < N
  /\ usedRing' = [usedRing EXCEPT ![Slot(usedIdx + 1)] = head]
  /\ devHeld' = devHeld \ {head}
  /\ devPc' = "returning" /\ devPending' = head
  /\ UNCHANGED <<desc, availRing, availIdx, availFlags, usedEvent, usedIdx,
                 usedFlags, availEvent, drv, dev, kickPending, irqPending,
                 drvPc, drvPending, devRun, inflight, adds>>

\* virtqueue_add_consumed_buffer up to the used-ring slot write.  The code
\* only rejects head_idx >= vq_nentries (ERROR_VRING_NO_BUFF, no change);
\* a correct caller passes a head it took, a faulty one any index.
virtqueue_add_consumed_buffer(head) ==
  /\ devPc = "idle"
  /\ head < N
  /\ usedRing' = [usedRing EXCEPT ![Slot(usedIdx)] = head]
  /\ devHeld' = devHeld \ {head}
  /\ devPc' = "returning" /\ devPending' = head
  /\ UNCHANGED <<desc, availRing, availIdx, availFlags, usedEvent, usedIdx,
                 usedFlags, availEvent, drv, dev, kickPending, irqPending,
                 drvPc, drvPending, devRun, inflight, adds>>

\* The device's caller returns a head: one it took, or, when faulty, any
\* descriptor index (counted in strays).
ReturnHead(h) ==
  /\ virtqueue_add_consumed_buffer(h)
  /\ IF h \in devHeld THEN UNCHANGED strays
     ELSE strays < MaxStrays /\ strays' = strays + 1

\* Rest of virtqueue_add_consumed_buffer: fence, used->idx++, queued++.
virtqueue_add_consumed_buffer_idx ==
  /\ devPc = "returning"
  /\ usedIdx' = U16(usedIdx + 1)
  /\ devQueued' = U16(devQueued + 1)
  /\ devPc' = "idle" /\ devPending' = CHAIN_END
  /\ UNCHANGED <<desc, availRing, availIdx, availFlags, usedEvent, usedRing,
                 usedFlags, availEvent, drv, devAvailCons, kickPending,
                 irqPending, drvPc, drvPending, devRun, devHeld, inflight,
                 adds, strays>>

\* virtqueue_kick, device role: interrupt the driver if it asked for it.
virtqueue_kick_device ==
  /\ devPc = "idle" /\ devQueued > 0
  /\ irqPending' = (irqPending \/ must_notify_device)
  /\ devQueued' = 0
  /\ UNCHANGED <<ring, drv, devAvailCons, kickPending, drvPc, drvPending,
                 devPc, devPending, devRun, devHeld, inflight, adds, strays>>

-----------------------------------------------------------------------------
DrvNext ==
  \/ \E r \in 0 .. MaxChain, w \in 0 .. MaxChain, c \in Cookies :
       /\ 1 <= r + w /\ r + w <= MaxChain
       /\ \/ virtqueue_add_buffer(r, w, c)
          \/ virtqueue_add_buffer_full(r, w, c)
  \/ vq_ring_update_avail_idx
  \/ virtqueue_kick_driver
  \/ virtqueue_get_buffer_check
  \/ virtqueue_get_buffer
  \/ virtqueue_disable_cb_driver
  \/ virtqueue_enable_cb_driver
  \/ virtqueue_notification_driver

DevNext ==
  \/ virtqueue_notification_device
  \/ virtqueue_get_available_buffer
  \/ virtqueue_get_available_buffer_empty
  \/ virtqueue_enable_cb_device
  \/ \E h \in Idx : ReturnHead(h)
  \/ virtqueue_add_consumed_buffer_idx
  \/ virtqueue_kick_device

\* The negotiated features do not change while the queue runs.
Next == (DrvNext \/ DevNext) /\ UNCHANGED eventIdx

(* Both processors keep running the steps they have started, the driver    *)
(* kicks after publishing and polls for completions, the device answers    *)
(* its interrupt and serves what it took.  Adding buffers, and the calls   *)
(* that only tune suppression, are up to the callers and not fair.         *)
Fairness ==
  /\ WF_stateVars(vq_ring_update_avail_idx)
  /\ WF_stateVars(virtqueue_kick_driver)
  /\ WF_stateVars(virtqueue_get_buffer_check)
  /\ WF_stateVars(virtqueue_get_buffer)
  /\ WF_stateVars(virtqueue_notification_device)
  /\ WF_stateVars(virtqueue_get_available_buffer)
  /\ WF_stateVars(virtqueue_get_available_buffer_empty)
  /\ WF_stateVars(virtqueue_enable_cb_device)
  /\ WF_stateVars(\E h \in devHeld : ReturnHead(h))
  /\ WF_stateVars(virtqueue_add_consumed_buffer_idx)

Spec == Init /\ [][Next]_vars
FairSpec == Spec /\ Fairness

-----------------------------------------------------------------------------
(* Properties.                                                             *)

\* Every variable has its type; the free-running indices stay 16-bit.
TypeOK ==
  /\ desc \in [Idx -> [next : Idx \cup {CHAIN_END}, flags : SUBSET {"NEXT", "WRITE"}]]
  /\ availRing \in [Idx -> Idx] /\ usedRing \in [Idx -> Idx]
  /\ {availIdx, usedIdx, usedEvent, availEvent, drvUsedCons, devAvailCons,
      drvQueued, devQueued} \subseteq 0 .. 65535
  /\ drvHead \in Idx \cup {CHAIN_END} /\ drvFree \in 0 .. N
  /\ descx \in [Idx -> [cookie : Cookies \cup {NULL}, ndescs : 0 .. N]]
  /\ drvPc \in {"idle", "getting", "adding"} /\ devPc \in {"idle", "returning"}
  /\ devRun \in {"sleeping", "running", "empty"}
  /\ devHeld \subseteq Idx /\ inflight \subseteq Cookies

\* Heads of the chains the driver has reserved (cookie recorded).
InFlightHeads == {h \in Idx : descx[h].cookie # NULL}

\* vq_free_cnt, vq_desc_head_idx, the desc[].next links and vq_descx
\* agree (spec section 8, properties 1 and 2): the free list from the head
\* has exactly vq_free_cnt distinct descriptors and ends at
\* VQ_RING_DESC_CHAIN_END; each reserved head's chain has ndescs
\* descriptors; free list and chains partition the table.  Breaking it
\* takes add, complete and reclaim steps of both sides in some order.
DescriptorsPartitioned ==
  LET fl == FreeWalk(drvHead, drvFree)
      chain(h) == ChainFrom(h, N + 1)
  IN
  /\ drvFree <= N
  /\ Len(fl) = drvFree /\ IsInjective(fl)
  /\ IF drvFree = 0 THEN drvHead = CHAIN_END
     ELSE desc[fl[drvFree]].next = CHAIN_END
  /\ \A h \in InFlightHeads :
       /\ Len(chain(h)) = descx[h].ndescs /\ IsInjective(chain(h))
       /\ Range(chain(h)) \cap Range(fl) = {}
       /\ \A g \in InFlightHeads \ {h} : Range(chain(g)) \cap Range(chain(h)) = {}
  /\ Range(fl) \cup UNION {Range(chain(h)) : h \in InFlightHeads} = Idx

\* The avail-ring entries the device has not taken yet and the used-ring
\* entries the driver has not reclaimed yet (free-running 16-bit windows).
Window(ringArr, from, to) ==
  [k \in 1 .. U16(to - from) |-> ringArr[Slot(U16(from + k - 1))]]
AvailWindow == Window(availRing, devAvailCons, availIdx)
UsedWindow  == Window(usedRing, drvUsedCons, usedIdx)

\* Where a head can be between add and reclaim.
Occurrences(h) ==
  Cardinality({k \in DOMAIN AvailWindow : AvailWindow[k] = h})
  + Cardinality({k \in DOMAIN UsedWindow : UsedWindow[k] = h})
  + (IF h \in devHeld THEN 1 ELSE 0)
  + (IF drvPending = h THEN 1 ELSE 0)
  + (IF devPending = h THEN 1 ELSE 0)

\* Every reserved chain head is in exactly one place (being published, in
\* the avail window, held by the device, being returned, or in the used
\* window) and no other head is anywhere, the two ring windows never hold
\* more than vq_nentries entries (the VQASSERTs in virtqueue_nused and
\* virtqueue_navail), and the recorded cookies are exactly those in flight.
\* A stale ring slot, a lost or doubled index step on either side, or a
\* head reclaimed twice breaks it.
HeadOwnership ==
  /\ U16(availIdx - devAvailCons) <= N /\ U16(usedIdx - drvUsedCons) <= N
  /\ \A h \in Idx : Occurrences(h) = IF h \in InFlightHeads THEN 1 ELSE 0
  /\ {descx[h].cookie : h \in InFlightHeads} = inflight

\* Whatever head the device's caller hands to virtqueue_add_consumed_buffer
\* (one it never took, one already returned, a descriptor inside another
\* chain), the driver's virtqueue_get_buffer either stops in a VQASSERT of
\* vq_ring_free_chain or keeps its free list and vq_descx sound; it never
\* loops forever on a corrupted chain (spec section 7: free-list
\* corruption and chain-length mismatch are trapped).
FreeListIntactOrTrapped ==
  /\ drvPc # "hang"
  /\ drvPc # "assert" => DescriptorsPartitioned

\* Spec sections 4.2.8, 4.2.9 and 7: the busy guard asserts on entry to every
\* public mutating operation, so a reentrant call is trapped.  Hence in a
\* debug build whose driver also reclaims from its interrupt callback,
\* either the program has stopped in a VQASSERT or every in-flight head is
\* still in exactly one place.  virtqueue_get_buffer reads used->idx
\* before VQUEUE_BUSY, so a callback between that check and the guard is
\* not seen as reentry.
OwnershipIntactOrTrapped ==
  drvPc \notin {"assert", "hang", "ub"} => HeadOwnership

\* The refinement mapping: the cookies of the heads in the avail window
\* are the posted buffers, those the device holds or is returning are
\* held, and those in the used window are returned.  A head between its
\* slot write and its index increment is not visible yet.
CookieOf(h) == descx[h].cookie
Chan == INSTANCE Channel WITH
          Capacity <- N,
          avail <- [k \in DOMAIN AvailWindow |-> CookieOf(AvailWindow[k])],
          held  <- {CookieOf(h) : h \in devHeld \cup ({devPending} \cap Idx)},
          used  <- [k \in DOMAIN UsedWindow |-> CookieOf(UsedWindow[k])]

\* The queue implements the Channel: every step of either side is a step
\* of the abstract channel or leaves it unchanged, so the device gets the
\* buffers in the order the driver published them (16-bit avail->idx and
\* the slot write before it), and the driver gets them back in the order
\* the device returned them, each with its own cookie.
ChannelRefinement == Chan!Spec

\* Every buffer the driver adds is eventually handed back to it by
\* virtqueue_get_buffer: no notification is lost between the driver's
\* kick (vq_ring_must_notify) and the device re-enabling callbacks
\* (vq_ring_enable_interrupt re-checking the avail index).
NoLostBuffer == \A c \in Cookies : c \in inflight ~> c \notin inflight

=============================================================================
