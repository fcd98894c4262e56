------------------------------- MODULE BlobMap -------------------------------
(***************************************************************************)
(* What the engine promises about blobs: a handle is unlike that of every  *)
(* other blob as long as its own lives, and reads back what was written    *)
(* through it.  It may be given out again once the blob is destroyed.      *)
(***************************************************************************)
EXTENDS Naturals, Sequences

CONSTANTS
  MaxBlobs,  \* bound: blobs alive at once
  Sizes,     \* bound: sizes the host asks for
  Bytes,     \* what the host writes; 0, the end of a text, is not one of them
  Texts,     \* bound: the texts the host makes strings of
  Garbage    \* a byte nobody wrote

VARIABLES
  blobs,  \* what the handles name: bytes, and whether they are a string
  reply   \* what the last call returned

vars == <<blobs, reply>>

Handles == 0 .. MaxBlobs + 1
Writes == {<<>>} \cup {<<b>> : b \in Bytes} \cup {<<b, c>> : b, c \in Bytes}
Patched(data, offset, bytes) ==
  [i \in DOMAIN data |-> IF i - offset \in DOMAIN bytes THEN bytes[i - offset] ELSE data[i]]

Replies(status, value) == reply' = [status |-> status, value |-> value]

Init == blobs = <<>> /\ reply = [status |-> "OK", value |-> <<>>]

\* A new blob behind a handle that names none.
Make(data, isString) ==
  \E h \in 1 .. MaxBlobs :
    /\ h \notin DOMAIN blobs
    /\ blobs' = [g \in DOMAIN blobs \cup {h} |->
                   IF g = h THEN [data |-> data, isString |-> isString] ELSE blobs[g]]
    /\ Replies("OK", <<h>>)

Refuse(status) == Replies(status, <<>>) /\ UNCHANGED blobs

Write(h, offset, bytes) ==
  /\ h \in DOMAIN blobs
  /\ offset + Len(bytes) <= Len(blobs[h].data)
  /\ blobs' = [blobs EXCEPT ![h].data = Patched(@, offset, bytes)]
  /\ Replies("OK", <<>>)

Read(h) ==
  /\ Replies("OK", IF h \in DOMAIN blobs THEN <<blobs[h].data, blobs[h].isString>> ELSE <<>>)
  /\ UNCHANGED blobs

Destroy(h) ==
  /\ h \in DOMAIN blobs
  /\ blobs' = [g \in DOMAIN blobs \ {h} |-> blobs[g]]
  /\ Replies("OK", <<>>)

Next ==
  \/ \E size \in Sizes : Make([i \in 1 .. size |-> Garbage], FALSE)
  \/ \E text \in Texts : Make(Append(text, 0), TRUE)
  \/ Refuse("MEMORY")
  \/ \E h \in Handles \ DOMAIN blobs : Refuse("NOT_FOUND")
  \/ \E h \in DOMAIN blobs, offset \in Handles, bytes \in Writes :
       \/ Write(h, offset, bytes)
       \/ offset + Len(bytes) > Len(blobs[h].data) /\ Refuse("ARGUMENT")
  \/ \E h \in Handles : Read(h)
  \/ \E h \in DOMAIN blobs : Destroy(h)

Spec == Init /\ [][Next]_vars
=============================================================================
