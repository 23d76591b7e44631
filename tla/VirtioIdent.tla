----------------------------- MODULE VirtioIdent -----------------------------
(***************************************************************************)
(* The identification tables of src/lib/virtio/virtio.c: virtio_dev_name  *)
(* and virtio_feature_name scan sentinel-terminated tables of             *)
(* (value, name) pairs.  Names are strings; the null pointer is the model *)
(* value NULL, unequal to every string and every table.                   *)
(***************************************************************************)
EXTENDS Integers, Sequences, SequencesExt

CONSTANT NULL

\* VIRTIO_ID_* (virtio.h) and the feature bits of virtio.h and virtqueue.h.
VIRTIO_F_NOTIFY_ON_EMPTY == 2^24
VIRTIO_RING_F_INDIRECT_DESC == 2^28
VIRTIO_RING_F_EVENT_IDX == 2^29
VIRTIO_F_BAD_FEATURE == 2^30

\* virtio_ident_table: the device types with a name, then {0, NULL}.
\* VIRTIO_ID_RPMSG (7) and the other ids without a row have no name.
virtio_ident_table ==
  << [devid |-> 1, name |-> "Network"], [devid |-> 2, name |-> "Block"],
     [devid |-> 3, name |-> "Console"], [devid |-> 4, name |-> "Entropy"],
     [devid |-> 5, name |-> "Balloon"], [devid |-> 6, name |-> "IOMemory"],
     [devid |-> 8, name |-> "SCSI"], [devid |-> 9, name |-> "9P Transport"],
     [devid |-> 10, name |-> "MAC80211 WLAN"],
     [devid |-> 11, name |-> "Remoteproc Serial"],
     [devid |-> 16, name |-> "GPU"], [devid |-> 18, name |-> "Input"],
     [devid |-> 19, name |-> "Vsock Transport"], [devid |-> 25, name |-> "Sound"],
     [devid |-> 26, name |-> "File System"],
     [devid |-> 29, name |-> "MAC80211 HWSIM"],
     [devid |-> 34, name |-> "I2C Adapter"], [devid |-> 40, name |-> "Bluetooth"],
     [devid |-> 41, name |-> "GPIO"], [devid |-> 0, name |-> NULL] >>

\* virtio_common_feature_desc, terminated by {0, NULL}.
virtio_common_feature_desc ==
  << [val |-> VIRTIO_F_NOTIFY_ON_EMPTY, str |-> "NotifyOnEmpty"],
     [val |-> VIRTIO_RING_F_INDIRECT_DESC, str |-> "RingIndirect"],
     [val |-> VIRTIO_RING_F_EVENT_IDX, str |-> "EventIdx"],
     [val |-> VIRTIO_F_BAD_FEATURE, str |-> "BadFeature"],
     [val |-> 0, str |-> NULL] >>

-----------------------------------------------------------------------------
\* virtio_dev_name: for (ident = table; ident->name; ident++) return the
\* name of the first row with the devid; NULL once the sentinel is reached.
RECURSIVE DevNameFrom(_, _)
DevNameFrom(devid, i) ==
  IF virtio_ident_table[i].name = NULL THEN NULL
  ELSE IF virtio_ident_table[i].devid = devid THEN virtio_ident_table[i].name
  ELSE DevNameFrom(devid, i + 1)

virtio_dev_name(devid) == DevNameFrom(devid, 1)

\* Mutant: the outer loop visits the common table before the driver's.
feature_name_common_first(val, desc) ==
  LET RECURSIVE Scan(_, _, _)
      Scan(descs, i, j) ==
        IF i > 2 THEN NULL
        ELSE IF descs[i] = NULL \/ descs[i][j].val = 0 THEN Scan(descs, i + 1, 1)
        ELSE IF descs[i][j].val = val THEN descs[i][j].str
        ELSE Scan(descs, i, j + 1)
  IN Scan(<<virtio_common_feature_desc, desc>>, 1, 1)

\* virtio_feature_name: descs = {desc, virtio_common_feature_desc}; a NULL
\* table is skipped, each table is scanned up to its vfd_val == 0 row, and
\* the first row with the value returns its string (which may be NULL).
virtio_feature_name(val, desc) ==
  LET RECURSIVE Scan(_, _, _)
      Scan(descs, i, j) ==
        IF i > 2 THEN NULL
        ELSE IF descs[i] = NULL \/ descs[i][j].val = 0 THEN Scan(descs, i + 1, 1)
        ELSE IF descs[i][j].val = val THEN descs[i][j].str
        ELSE Scan(descs, i, j + 1)
  IN Scan(<<desc, virtio_common_feature_desc>>, 1, 1)

\* virtio_describe: deprecated; looks up feature 0 and drops the result.
virtio_describe(desc) == virtio_feature_name(0, desc)

-----------------------------------------------------------------------------
(* Reference: a table is the rows before its first zero key; a lookup is  *)
(* the name of the first row with the key in the concatenated tables.     *)
Rows(t, Key(_)) == SubSeq(t, 1, SelectInSeq(t, LAMBDA r : Key(r) = 0) - 1)

FirstNamed(rows, Match(_), Name(_)) ==
  LET k == SelectInSeq(rows, Match) IN IF k = 0 THEN NULL ELSE Name(rows[k])

DevNameRef(devid) ==
  FirstNamed(Rows(virtio_ident_table, LAMBDA r : IF r.name = NULL THEN 0 ELSE 1),
             LAMBDA r : r.devid = devid, LAMBDA r : r.name)

FeatureNameRef(val, desc) ==
  LET own == IF desc = NULL THEN <<>> ELSE Rows(desc, LAMBDA r : r.val) IN
  FirstNamed(own \o Rows(virtio_common_feature_desc, LAMBDA r : r.val),
             LAMBDA r : r.val = val, LAMBDA r : r.str)

=============================================================================
