----------------------------- MODULE RingBuffer -----------------------------
(***************************************************************************)
(* The ring buffer of components/drivers/src/ringbuffer.c: a read and a    *)
(* write index with a mirror bit each, which tell a full buffer from an    *)
(* empty one when the indices are equal.                                   *)
(***************************************************************************)
EXTENDS Integers, Sequences

CONSTANT buffer_size

\* A ring buffer: the indices, their mirror bits, and the bytes.
RingType(Byte) == [ read_index   : 0 .. buffer_size - 1,
                    read_mirror  : BOOLEAN,
                    write_index  : 0 .. buffer_size - 1,
                    write_mirror : BOOLEAN,
                    buffer       : [0 .. buffer_size - 1 -> Byte] ]

rt_ringbuffer_init(byte) ==
  [ read_index |-> 0, read_mirror |-> FALSE,
    write_index |-> 0, write_mirror |-> FALSE,
    buffer |-> [i \in 0 .. buffer_size - 1 |-> byte] ]

rt_ringbuffer_data_len(rb) ==
  IF rb.read_index = rb.write_index
  THEN IF rb.read_mirror = rb.write_mirror THEN 0 ELSE buffer_size
  ELSE IF rb.write_index > rb.read_index THEN rb.write_index - rb.read_index
  ELSE buffer_size - (rb.read_index - rb.write_index)

rt_ringbuffer_space_len(rb) == buffer_size - rt_ringbuffer_data_len(rb)

\* The number of bytes of a request that can be moved.
AtMost(length, size) == IF size < length THEN size ELSE length

\* The bytes of a ring buffer, in the order they are read.
Bytes(rb) == [i \in 1 .. rt_ringbuffer_data_len(rb) |->
                rb.buffer[(rb.read_index + i - 1) % buffer_size]]

\* bytes copied into the buffer from index on, in two parts if they reach
\* beyond its end.
CopiedIn(rb, bytes, length) ==
  [i \in 0 .. buffer_size - 1 |->
     LET place == (i - rb.write_index) % buffer_size
     IN  IF place < length THEN bytes[place + 1] ELSE rb.buffer[i]]

\* Faulty variant: the other side of the mirror is one byte late.
PutFlipsLate(rb, bytes) ==
  LET length == AtMost(Len(bytes), rt_ringbuffer_space_len(rb))
      stays == buffer_size - rb.write_index >= length
  IN  [rb EXCEPT !.buffer = CopiedIn(rb, bytes, length),
                 !.write_index = (@ + length) % buffer_size,
                 !.write_mirror = IF stays THEN @ ELSE ~@]

\* rt_ringbuffer_put (rt_ringbuffer_putchar for one byte): the mirror bit
\* flips when the index goes round.
rt_ringbuffer_put(rb, bytes) ==
  LET length == AtMost(Len(bytes), rt_ringbuffer_space_len(rb))
      stays == buffer_size - rb.write_index > length
  IN  [rb EXCEPT !.buffer = CopiedIn(rb, bytes, length),
                 !.write_index = IF stays THEN @ + length
                                 ELSE length - (buffer_size - @),
                 !.write_mirror = IF stays THEN @ ELSE ~@]

\* rt_ringbuffer_get (rt_ringbuffer_getchar for one byte), the bytes it
\* returns and the buffer it leaves.
Got(rb, length) == SubSeq(Bytes(rb), 1, length)

rt_ringbuffer_get(rb, size) ==
  LET length == AtMost(size, rt_ringbuffer_data_len(rb))
      stays == buffer_size - rb.read_index > length
  IN  [rb EXCEPT !.read_index = IF stays THEN @ + length
                                ELSE length - (buffer_size - @),
                 !.read_mirror = IF stays THEN @ ELSE ~@]
=============================================================================
