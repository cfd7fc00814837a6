------------------------------- MODULE Buffer -------------------------------
(***************************************************************************)
(* green_turtle/buffer.h: a growing byte array with a read and a write     *)
(* offset.  A buffer is a record of the class's four fields; array_ is a   *)
(* function on 1 .. size_ and the offsets count the bytes before them, so  *)
(* the readable bytes are array[read + 1] .. array[write].                 *)
(***************************************************************************)
EXTENDS Integers, Sequences

CONSTANT Garbage   \* the contents of memory that malloc or realloc returns

NewBuffer(init_size) ==
    [array |-> [i \in 1 .. init_size |-> Garbage],
     write |-> 0, read |-> 0, size |-> init_size]

Capacity(b) == b.size
WritableLength(b) == b.size - b.write
ReadableLength(b) == b.write - b.read

(* The bytes from BeginRead() on.                                          *)
Readable(b) == SubSeq(b.array, b.read + 1, b.write)

(* What writing data through BeginWrite() leaves in the array.             *)
Filled(b, data) ==
    [b EXCEPT !.array = [i \in DOMAIN b.array |->
        IF i > b.write /\ i <= b.write + Len(data) THEN data[i - b.write] ELSE b.array[i]]]

HasWritten(b, n) == [b EXCEPT !.write = @ + n]
HasRead(b, n) == [b EXCEPT !.read = @ + n]

(* The array grows by exactly what is missing.                             *)
Grown(b, n) ==
    LET need == n - WritableLength(b)
    IN  IF need > 0
           THEN [b EXCEPT !.array = @ \o [i \in 1 .. need |-> Garbage], !.size = @ + need]
           ELSE b
AppendData(b, data) == HasWritten(Filled(Grown(b, Len(data)), data), Len(data))

(* memmove of the readable bytes to the front; what lies behind them stays.*)
Retrieve(b) ==
    LET len == ReadableLength(b)
    IN  [b EXCEPT
            !.array = [i \in DOMAIN b.array |-> IF i <= len THEN b.array[b.read + i] ELSE b.array[i]],
            !.read = 0, !.write = len]

(* Offsets in order and inside the allocated array.                        *)
BufferOK(b) ==
    /\ b.read \in 0 .. b.write /\ b.write \in 0 .. b.size
    /\ DOMAIN b.array = 1 .. b.size
=============================================================================
