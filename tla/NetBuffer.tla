------------------------------ MODULE NetBuffer --------------------------------
(***************************************************************************)
(* The buffers of net.c: a ring of chunks with a position to read from and *)
(* one to write to.  Chunks are added in front of the chunk that is read,  *)
(* never taken out while the connection lasts.  Memory for them is never   *)
(* short.                                                                  *)
(***************************************************************************)
EXTENDS Integers, SequencesExt, FiniteSetsExt

CONSTANTS
  buffer_chunk_size,
  MINIMUM_IOVECS,      \* readv gets at least that many chunks
  NUMBER_OF_IOVECS     \* and at most that many

ASSUME NetBufferAssumption ==
  /\ buffer_chunk_size \in Nat \ {0}
  /\ MINIMUM_IOVECS \in Nat \ {0} /\ NUMBER_OF_IOVECS \in Nat
  /\ MINIMUM_IOVECS <= NUMBER_OF_IOVECS

EmptyChunk == [i \in 1 .. buffer_chunk_size |-> 0]

(* The ring is a sequence that starts with read_chunk; write_chunk is the  *)
(* place of that chunk in it.  Bytes that were read are 0.                 *)
reset_buffer ==
  [chunks |-> <<>>, write_chunk |-> 1, read_position |-> 0, write_position |-> 0, bytes_in_buffer |-> 0]
init_buffer(b) == IF b.chunks = <<>> THEN [b EXCEPT !.chunks = <<EmptyChunk>>] ELSE b

(* Mutant: the chunk that is read is written over.                         *)
NextWriteChunkOverRead(b) == [b EXCEPT !.write_chunk = (@ % Len(b.chunks)) + 1, !.write_position = 0]
(* The chunk after write_chunk, a new one if that is read_chunk.           *)
NextWriteChunk(b) ==
  [b EXCEPT !.chunks = IF b.write_chunk = Len(@) THEN Append(@, EmptyChunk) ELSE @,
            !.write_chunk = @ + 1, !.write_position = 0]
InWriteChunk(b, byte) ==
  [b EXCEPT !.chunks[b.write_chunk][b.write_position + 1] = byte,
            !.write_position = @ + 1, !.bytes_in_buffer = @ + 1]
WriteByte(b, byte) ==
  InWriteChunk(IF b.write_position = buffer_chunk_size THEN NextWriteChunk(b) ELSE b, byte)

copy_to_buffer(b, bytes) == FoldLeft(WriteByte, init_buffer(b), bytes)

(* read_to_buffer: the vectors for readv start in the first chunk with     *)
(* space; the last chunk before read_chunk gets none.                      *)
FirstVector(b) == b.write_chunk + IF b.write_position = buffer_chunk_size THEN 1 ELSE 0
WithVectors(b) ==
  [b EXCEPT !.chunks = @ \o [i \in 1 .. Max({FirstVector(b) + MINIMUM_IOVECS - Len(@), 0}) |-> EmptyChunk]]
VectorSpace(b) ==
  Min({Len(b.chunks) - FirstVector(b), NUMBER_OF_IOVECS}) * buffer_chunk_size
    - IF b.write_position = buffer_chunk_size THEN 0 ELSE b.write_position

(* bytes are in the socket; what is left of them stays there.  The chunks  *)
(* are there even if readv finds nothing.                                  *)
RECURSIVE read_to_buffer(_, _, _)
ReadVectors(b, bytes, n, wanted_bytes) ==
  IF bytes = <<>> THEN [buffer |-> b, left |-> <<>>]
  ELSE read_to_buffer(FoldLeft(WriteByte, b, SubSeq(bytes, 1, n)), SubSeq(bytes, n + 1, Len(bytes)),
                      wanted_bytes)
read_to_buffer(b, bytes, wanted_bytes) ==
  IF b.bytes_in_buffer >= wanted_bytes THEN [buffer |-> b, left |-> bytes]
  ELSE LET v == WithVectors(init_buffer(b)) IN
       ReadVectors(v, bytes, Min({VectorSpace(v), Len(bytes)}), wanted_bytes)

(* Reading goes on in the next chunk; the one that was read stays.         *)
NextReadChunk(b) ==
  [b EXCEPT !.chunks = Tail(@) \o <<Head(@)>>, !.read_position = 0,
            !.write_chunk = IF @ = 1 THEN Len(b.chunks) ELSE @ - 1]
InReadChunk(b, bytes) ==
  [buffer |-> [b EXCEPT !.chunks[1][b.read_position + 1] = 0,
                        !.read_position = @ + 1, !.bytes_in_buffer = @ - 1],
   bytes |-> Append(bytes, b.chunks[1][b.read_position + 1])]
RECURSIVE TakeBytes(_, _, _)
TakeBytes(b, n, bytes) ==
  IF n = 0 THEN [buffer |-> b, bytes |-> bytes]
  ELSE LET r == InReadChunk(IF b.read_position = buffer_chunk_size THEN NextReadChunk(b) ELSE b, bytes) IN
       TakeBytes(r.buffer, n - 1, r.bytes)

copy_from_buffer(b, n) == TakeBytes(b, n, <<>>)

(* What writev takes of the buffer when the socket has room for n bytes.   *)
write_from_buffer(b, n) == TakeBytes(b, Min({n, b.bytes_in_buffer}), <<>>)

(* The bytes that were written and not read.                               *)
BytesIn(b) == TakeBytes(b, b.bytes_in_buffer, <<>>).bytes
================================================================================
