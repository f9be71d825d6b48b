----------------------------- MODULE ByteStream -----------------------------
(***************************************************************************)
(* What a pipe promises (rt_pipe_write, rt_pipe_read in pipe.c) without    *)
(* its ring buffer and its waiting threads: what is read is what was       *)
(* written, each byte once and in order, whatever the lengths.  A write    *)
(* drops what does not fit, a read returns what there is.                  *)
(***************************************************************************)
EXTENDS Integers, Sequences

CONSTANTS Chunk,  \* the sequences of bytes that are written
          Room    \* how many bytes fit

VARIABLES stream,  \* bytes written and not read
          read     \* the bytes the last read returned

bytevars == <<stream, read>>

StreamInit == stream = << >> /\ read = << >>

StreamWrite(bytes) ==
  /\ Len(stream) < Room
  /\ LET all == stream \o bytes
     IN  stream' = SubSeq(all, 1, IF Len(all) < Room THEN Len(all) ELSE Room)
  /\ UNCHANGED read

StreamRead(n) ==
  /\ stream # << >>
  /\ read' = SubSeq(stream, 1, n)
  /\ stream' = SubSeq(stream, n + 1, Len(stream))

StreamNext == \/ \E bytes \in Chunk : StreamWrite(bytes)
              \/ \E n \in 1 .. Len(stream) : StreamRead(n)

StreamSpec == StreamInit /\ [][StreamNext]_bytevars
=============================================================================
