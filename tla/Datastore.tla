------------------------------ MODULE Datastore ----------------------------
(***************************************************************************)
(* libsigrok/datastore.c: the samples of a device, in a list of chunks of  *)
(* one size.  The chunks are one sequence of bytes here; a byte is the set *)
(* of its bits.                                                            *)
(***************************************************************************)
EXTENDS Integers, Sequences

CONSTANT ChunkSize      \* DATASTORE_CHUNKSIZE, in bytes

DatastoreAssumption == ChunkSize \in Nat \ {0}

NoStore == [unitsize |-> 0, num_units |-> 0, chunks |-> <<>>]

\* sr_datastore_new() refuses a unitsize that is not positive.
New(unitsize) == [NoStore EXCEPT !.unitsize = unitsize]

\* The memory of the chunks, with one allocated before the first bytes.
Capacity(ds) == IF ds.chunks = <<>> THEN ChunkSize ELSE Len(ds.chunks)

BytesFree(ds) == Capacity(ds) - ds.unitsize * ds.num_units

\* Where in the last chunk the next byte goes.
ChunkOffset(ds) == ChunkSize - BytesFree(ds)

\* The chunks allocated while length bytes are copied.
NewChunks(ds, length) ==
    IF length <= BytesFree(ds) THEN 0
    ELSE (length - BytesFree(ds) + ChunkSize - 1) \div ChunkSize

\* sr_datastore_put(): the bytes follow the whole units stored so far. What
\* is left of a unit cut off at the end of the data is not counted.
Put(ds, data) ==
    LET at == ds.unitsize * ds.num_units
        size == Capacity(ds) + ChunkSize * NewChunks(ds, Len(data))
    IN  [ds EXCEPT
            !.num_units = @ + Len(data) \div ds.unitsize,
            !.chunks = [i \in 1 .. size |->
                           IF i \in at + 1 .. at + Len(data) THEN data[i - at]
                           ELSE IF i \in DOMAIN @ THEN @[i] ELSE {}]]

\* The bytes sr_session_save() dumps.
Contents(ds) == SubSeq(ds.chunks, 1, ds.num_units * ds.unitsize)
=============================================================================
