--------------------------- MODULE MCVringLayout ---------------------------
(* Model-checking instance of VringLayout and of the pure operators of    *)
(* VringEvent and VirtioIdent; the layout's inputs live in the .cfg.      *)
(* Beside the ring being created, an initial state picks either one input *)
(* of the event-index test (an old producer index, a vq_queued_cnt and a  *)
(* peer event index, all 16-bit, near the boundaries) or one lookup in    *)
(* the identification tables (a key and a driver feature table); the     *)
(* other input is at zero.  Each input is checked in the initial state    *)
(* that holds it.                                                         *)
EXTENDS VringLayout, VirtioIdent, TLC

\* Power-of-two descriptor counts up to 1024, as virtqueue_create demands.
MCNums == {2^k : k \in 0..10}

VARIABLES
  evOld,    \* the producer's index at its last notification
  evCnt,    \* vq_queued_cnt: entries published since then
  evEvent,  \* the peer's event index (avail_event or used_event)
  idKey,    \* the devid or feature value looked up
  idDesc    \* the driver's feature table passed to virtio_feature_name

probe == <<evOld, evCnt, evEvent, idKey, idDesc>>

EventProbe ==
  /\ evOld \in EdgeIdx
  /\ evCnt \in EdgeCnt
  /\ evEvent \in {U16(evOld + d) : d \in EdgeOff(evCnt)}

\* Every assigned and some unassigned device ids, every feature bit of the
\* common table, and driver tables of up to two rows that repeat, shadow
\* or name a feature with NULL, each closed by the {0, NULL} row.
IdKeys == (0 .. 42) \cup {65535, VIRTIO_F_NOTIFY_ON_EMPTY,
                          VIRTIO_RING_F_INDIRECT_DESC,
                          VIRTIO_RING_F_EVENT_IDX, VIRTIO_F_BAD_FEATURE}
DrvRows == [val : {1, VIRTIO_RING_F_EVENT_IDX, VIRTIO_F_BAD_FEATURE},
            str : {"Drv", NULL}]
DrvTables == {NULL} \cup
  {t \o <<[val |-> 0, str |-> NULL]>> : t \in UNION {[1 .. n -> DrvRows] : n \in 0 .. 2}}

LookupProbe == idKey \in IdKeys /\ idDesc \in DrvTables

MCInit ==
  /\ Init
  /\ \/ EventProbe /\ idKey = 0 /\ idDesc = NULL
     \/ LookupProbe /\ evOld = 0 /\ evCnt = 0 /\ evEvent = 0

\* The layout does not depend on the probe: creating a ring drops the input
\* for the zero one, so the layout states are not multiplied by the inputs.
MCNext ==
  /\ Next
  /\ evOld' = 0 /\ evCnt' = 0 /\ evEvent' = 0 /\ idKey' = 0 /\ idDesc' = NULL

MCSpec == MCInit /\ [][MCNext]_<<vars, probe>>

\* For every count vq_queued_cnt can hold (up to 65535 entries published
\* without a kick) and every old index, vq_ring_must_notify answers "the
\* peer's event index was among the entries published since the last
\* notification": no kick is lost across the 16-bit wrap of avail->idx or
\* used->idx, and none is sent for an index not yet reached (spec section 8,
\* property 7: notify exactly when the new index has passed the event).
NeedEventMatchesWindow == MatchesWindow(evEvent, evOld, evCnt)

\* The pointer walks of virtio_dev_name and virtio_feature_name return the
\* name of the first row with the key among the rows before each table's
\* sentinel, the driver's table before the common one and a NULL driver
\* table skipped, and NULL when no row has it; virtio_describe's lookup of
\* feature 0 never finds a row.
IdentLookupsMatchTables ==
  /\ virtio_dev_name(idKey) = DevNameRef(idKey)
  /\ virtio_feature_name(idKey, idDesc) = FeatureNameRef(idKey, idDesc)
  /\ virtio_describe(idDesc) = NULL

=============================================================================
