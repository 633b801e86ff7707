--------------------------------- MODULE Ota ---------------------------------
(***************************************************************************)
(* Firmware updates, fs/ota.c: an image is written chunk by chunk into a   *)
(* partition of the storage and then recorded in the metadata block.  A    *)
(* checksum is the bytes it was computed from.  ota_mark_valid,            *)
(* ota_mark_invalid, ota_rollback and the queries read the metadata        *)
(* through a storage handle that is always NULL: they change nothing.      *)
(***************************************************************************)
EXTENDS Integers, Sequences

CONSTANTS Partitions,   \* numbers below OTA_PARTITION_MAX
          Handles,      \* updates under way at one time
          Chunks,       \* what one ota_write is given, a sequence of bytes
          ImageSizes,   \* expected sizes
          MaxSequence   \* bound on meta.sequence

ASSUME OtaAssumption ==
    Chunks \subseteq Seq(0..255) /\ ImageSizes \subseteq Nat /\ MaxSequence \in Nat

VARIABLES ota,        \* the open handles; alone (history) while no other has the partition
          image,      \* the bytes of each partition
          meta,       \* the metadata block, with magic FALSE when it is not one
          ota_mixed   \* history: partitions an update began on, or two wrote, since their record

otaVars == <<ota, image, meta, ota_mixed>>

Closed == [open |-> FALSE]
NoMeta == [magic |-> FALSE]

-----------------------------------------------------------------------------
OnPartition(p) == {h \in Handles : ota[h].open /\ ota[h].partition = p}

ota_begin(h, p, size) ==
    /\ ~ota[h].open
    /\ ota' = [g \in Handles |->
                 IF g = h THEN [open |-> TRUE, partition |-> p, expected_size |-> size,
                                written |-> 0, crc32 |-> <<>>, alone |-> OnPartition(p) = {}]
                 ELSE IF g \in OnPartition(p) THEN [ota[g] EXCEPT !.alone = FALSE]
                 ELSE ota[g]]
    /\ ota_mixed' = ota_mixed \cup {p}
    /\ UNCHANGED <<image, meta>>

\* The image with the bytes at their place.
Stored(bytes, at, new) ==
    [i \in 1..(IF at + Len(new) > Len(bytes) THEN at + Len(new) ELSE Len(bytes)) |->
        IF i \in (at + 1)..(at + Len(new)) THEN new[i - at] ELSE bytes[i]]

ota_crc32_update(crc, data) == crc \o data

\* A chunk past the expected size is cut to it.
Fitted(u, data) ==
    IF u.written + Len(data) > u.expected_size
    THEN SubSeq(data, 1, u.expected_size - u.written) ELSE data

ota_write_checksum_first(h, data) ==  \* mutant: the checksum is taken before the write
    LET u   == ota[h]
        new == Fitted(u, data)
    IN  /\ u.open
        /\ \E n \in 0..Len(new) :
             /\ image' = [image EXCEPT ![u.partition] = Stored(@, u.written, SubSeq(new, 1, n))]
             /\ ota' = [ota EXCEPT ![h].crc32 = ota_crc32_update(@, new),
                                   ![h].written = @ + n]
        /\ UNCHANGED <<meta, ota_mixed>>

\* The storage takes the chunk, or fails with some of it written.
ota_write(h, data) ==
    LET u   == ota[h]
        new == Fitted(u, data)
        Put(n) == [image EXCEPT ![u.partition] = Stored(@, u.written, SubSeq(new, 1, n))]
    IN  /\ u.open
        /\ \/ /\ image' = Put(Len(new))
              /\ ota' = [ota EXCEPT ![h].crc32 = ota_crc32_update(@, new),
                                    ![h].written = @ + Len(new)]
           \/ /\ \E n \in 0..Len(new) : image' = Put(n)
              /\ UNCHANGED ota
        /\ UNCHANGED <<meta, ota_mixed>>

\* The record of the first update ever is left without size, checksum and state.
Record(u, verify_signature) ==
    IF meta.magic
    THEN [meta EXCEPT !.sequence = @ + 1, !.next_partition = u.partition,
                      !.next_size = u.written, !.next_crc32 = u.crc32,
                      !.next_state = IF verify_signature THEN "pending" ELSE "new"]
    ELSE [magic |-> TRUE, sequence |-> 1, active_partition |-> 0,
          next_partition |-> u.partition, next_size |-> 0, next_crc32 |-> <<>>,
          next_state |-> "new"]

ota_end(h, verify_signature) ==
    /\ ota[h].open
    /\ meta.magic => meta.sequence < MaxSequence
    /\ \/ /\ meta' = Record(ota[h], verify_signature)
          /\ ota_mixed' = IF ota[h].alone THEN ota_mixed \ {ota[h].partition} ELSE ota_mixed
       \/ UNCHANGED <<meta, ota_mixed>>
    /\ ota' = [ota EXCEPT ![h] = Closed]
    /\ UNCHANGED image

ota_abort(h) ==
    /\ ota[h].open
    /\ ota' = [ota EXCEPT ![h] = Closed]
    /\ UNCHANGED <<image, meta, ota_mixed>>

OtaInit ==
    /\ ota = [h \in Handles |-> Closed]
    /\ image = [p \in Partitions |-> <<>>]
    /\ meta = NoMeta
    /\ ota_mixed = {}

OtaNext ==
    \E h \in Handles :
      \/ \E p \in Partitions, n \in ImageSizes : ota_begin(h, p, n)
      \/ \E c \in Chunks : ota_write(h, c)
      \/ \E v \in BOOLEAN : ota_end(h, v)
      \/ ota_abort(h)

OtaSpec == OtaInit /\ [][OtaNext]_otaVars

-----------------------------------------------------------------------------
\* The partition the metadata names holds the image whose size and checksum it
\* records, through failed writes, retries and updates of the other partition,
\* until an update of the partition itself begins (ota_write, ota_end).
RecordDescribesImage ==
    meta.magic /\ meta.next_partition \notin ota_mixed
        => SubSeq(image[meta.next_partition], 1, meta.next_size) = meta.next_crc32

=============================================================================
