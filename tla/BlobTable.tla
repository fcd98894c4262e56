------------------------------ MODULE BlobTable ------------------------------
(***************************************************************************)
(* The blobs of an engine (ecsvm.c): slots that are used again, handles    *)
(* that are the places of slots, and every call on them with any of its    *)
(* allocations failing.  The host calls; managed code only moves handles   *)
(* from row to row.                                                        *)
(***************************************************************************)
EXTENDS Naturals, Sequences

CONSTANTS MaxBlobs, Sizes, Bytes, Texts, Garbage  \* as in BlobMap

ASSUME BlobTableAssumption ==
  /\ MaxBlobs \in Nat /\ Sizes \subseteq Nat /\ Garbage \notin Bytes \cup {0}
  /\ Texts \subseteq Seq(Bytes)

VARIABLES
  slots,      \* engine->blobs, up to blob_count
  blobReply   \* what the last call returned: a status, and a value if there is one

blobVars == <<slots, blobReply>>

Handles == 0 .. MaxBlobs + 1
Offsets == Handles
Writes == {<<>>} \cup {<<b>> : b \in Bytes} \cup {<<b, c>> : b, c \in Bytes}

\* memset and free: nothing is left of a destroyed blob.
FreeSlot == [inUse |-> FALSE, isString |-> FALSE, data |-> <<>>]

BlobInit == slots = <<>> /\ blobReply = [status |-> "OK", value |-> <<>>]

\* Faulty: the slot of a destroyed blob is still found.
FaultyIsLive(ss, h) == h # 0 /\ h <= Len(ss)
\* ecsvm_blob_slot_mutable and ecsvm_blob_slot_const find a slot.
IsLive(ss, h) == h # 0 /\ h <= Len(ss) /\ ss[h].inUse

\* The place for the next blob: the first free slot, or a new one at the end.
NextSlot(ss) ==
  LET free == {i \in DOMAIN ss : ~ss[i].inUse}
  IN  IF free = {} THEN Len(ss) + 1 ELSE CHOOSE i \in free : \A j \in free : i <= j

\* A blob of that size is there afterwards; malloc does not clear it.
Created(ss, size) ==
  LET slot == [inUse |-> TRUE, isString |-> FALSE, data |-> [i \in 1 .. size |-> Garbage]]
  IN  [i \in DOMAIN ss \cup {NextSlot(ss)} |-> IF i = NextSlot(ss) THEN slot ELSE ss[i]]

\* offset > size or length > size - offset, without an overflow.
Fits(slot, offset, bytes) ==
  offset <= Len(slot.data) /\ Len(bytes) <= Len(slot.data) - offset

Written(ss, h, offset, bytes) ==
  [ss EXCEPT ![h].data =
     [i \in DOMAIN @ |-> IF i \in offset + 1 .. offset + Len(bytes) THEN bytes[i - offset]
                         ELSE @[i]]]

Destroyed(ss, h) == [ss EXCEPT ![h] = FreeSlot]

Replies(status, value) == blobReply' = [status |-> status, value |-> value]

\* A handle that names nothing.
NotFound(h) ==
  /\ ~IsLive(slots, h)
  /\ Replies("NOT_FOUND", <<>>)
  /\ UNCHANGED slots

\* Reserving a slot or the data of the blob fails.
OutOfMemory == Replies("MEMORY", <<>>) /\ UNCHANGED slots

BlobCreate(size) ==
  /\ NextSlot(slots) <= MaxBlobs
  /\ slots' = Created(slots, size)
  /\ Replies("OK", <<NextSlot(slots)>>)

BlobWrite(h, offset, bytes) ==
  /\ IsLive(slots, h)
  /\ IF Fits(slots[h], offset, bytes)
     THEN slots' = Written(slots, h, offset, bytes) /\ Replies("OK", <<>>)
     ELSE UNCHANGED slots /\ Replies("ARGUMENT", <<>>)

\* ecsvm_blob_data, ecsvm_blob_size and ecsvm_blob_is_string: nothing, 0 and 0
\* of a blob that is not there.
BlobRead(h) ==
  /\ Replies("OK", IF IsLive(slots, h) THEN <<slots[h].data, slots[h].isString>> ELSE <<>>)
  /\ UNCHANGED slots

BlobDestroy(h) ==
  /\ IsLive(slots, h)
  /\ slots' = Destroyed(slots, h)
  /\ Replies("OK", <<>>)

\* A blob with room for the text and its end, written, then marked.
StringCreate(text) ==
  /\ NextSlot(slots) <= MaxBlobs
  /\ LET h == NextSlot(slots)
         bytes == Append(text, 0)
     IN  /\ slots' = [Written(Created(slots, Len(bytes)), h, 0, bytes) EXCEPT ![h].isString = TRUE]
         /\ Replies("OK", <<h>>)

BlobNext ==
  \/ OutOfMemory
  \/ \E size \in Sizes : BlobCreate(size)
  \/ \E text \in Texts : StringCreate(text)
  \/ \E h \in Handles :
       \/ NotFound(h)
       \/ BlobRead(h)
       \/ BlobDestroy(h)
       \/ \E offset \in Offsets, bytes \in Writes : BlobWrite(h, offset, bytes)

BlobSpec == BlobInit /\ [][BlobNext]_blobVars

\* A slot in use is the blob its place names.
Blobs ==
  [h \in {i \in DOMAIN slots : slots[i].inUse} |->
     [data |-> slots[h].data, isString |-> slots[h].isString]]

Abstract == INSTANCE BlobMap WITH blobs <- Blobs, reply <- blobReply

\* The blob table keeps the promises of BlobMap through creation, reuse,
\* writes within and beyond the bounds, destruction and failing allocations
\* (ecsvm.c 532-565 and 1141-1324).
ImplementsBlobMap == Abstract!Spec
=============================================================================
