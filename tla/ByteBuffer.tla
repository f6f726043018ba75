----------------------------- MODULE ByteBuffer -----------------------------
(***************************************************************************)
(* The buffer every message is built in and read from                      *)
(* (src/akasha-lib/src/library/byte-buffer.ts): a view of some memory with *)
(* an offset.  A writer grows its memory as it goes; toArray is what is    *)
(* sent; the reader's view lies somewhere in a larger memory, as a server's*)
(* message does in Node's pool.                                            *)
(*                                                                         *)
(* Base is 256 there.  Floats, dates and UUIDs are numbers and rows of     *)
(* bytes of their width; text is its UTF-8 bytes.                          *)
(***************************************************************************)
EXTENDS Integers, Sequences, SequencesExt

CONSTANTS
  Base,      \* the values of a byte are 0 .. Base - 1
  Items,     \* what is written: [type, width, signed, value], value in Seq(Int)
  Lengths,   \* lengths a buffer is created with
  Starts,    \* where a reader's view can begin
  NullValue, \* the value that stands for null where the caller names one
  MaxItems   \* bound: items of a message

(***************************************************************************)
(* Items are what the code's types allow: numbers in the range of their    *)
(* width, lengths in the range of writeLength's four bytes.                *)
(***************************************************************************)
Byte == 0 .. Base - 1

\* n divided by Base, 0 .. width times
Quotients(n, width) ==
  LET q[i \in 0 .. width] == IF i = 0 THEN n ELSE q[i - 1] \div Base IN q

\* what the bytes above a number's last one would hold: 0, or its sign
Sign(digit, signed) == IF signed /\ 2 * digit >= Base THEN -1 ELSE 0

Fits(n, width, signed) ==
  LET q == Quotients(n, width) IN q[width] = Sign(q[width - 1] % Base, signed)

FitsAll(value, item) ==
  \A i \in 1 .. Len(value) : Fits(value[i], item.width, item.signed)

WellFormed(item) ==
  /\ item.width \in Nat /\ item.signed \in BOOLEAN /\ item.value \in Seq(Int)
  /\ item.type # "string" => item.width > 0
  /\ \/ item.type = "number" /\ Len(item.value) = 1 /\ FitsAll(item.value, item)
     \/ item.type = "bytes" /\ Len(item.value) = item.width /\ item.value \in Seq(Byte)
     \/ item.type = "string" /\ Fits(Len(item.value), 4, FALSE) /\ item.value \in Seq(Byte)
     \/ item.type = "array" /\ Fits(Len(item.value), 4, FALSE) /\ FitsAll(item.value, item)
     \/ item.type = "nullable" /\ Len(item.value) <= 1 /\ FitsAll(item.value, item)
     \/ /\ item.type = "sentinel" /\ Len(item.value) <= 1
        /\ FitsAll(item.value, item) /\ FitsAll(<<NullValue>>, item)

ASSUME BufferAssumption == /\ Base \in Nat /\ Base > 1 /\ Base % 2 = 0
                           /\ Lengths \subseteq Nat /\ Starts \subseteq Nat
                           /\ NullValue \in Int
                           /\ \A item \in Items : WellFormed(item)

VARIABLES
  buffer, \* [memory : Seq(byte), start, view, offset : Nat]; start, view: the DataView
  endian, \* TRUE: little
  items,  \* what was written
  found,  \* what was read of it
  mode    \* "write", "read", "thrown": the read threw ByteBufferUnderflowError

bufferVars == <<buffer, endian, items, found, mode>>

ByteRow(n) == [i \in 1 .. n |-> 0]

BufferInit ==
  /\ \E length \in Lengths :
       buffer = [memory |-> ByteRow(length), start |-> 0, view |-> length, offset |-> 0]
  /\ endian \in BOOLEAN
  /\ items = <<>>
  /\ found = <<>>
  /\ mode = "write"

(***************************************************************************)
(* The accessors of a DataView (external): two's complement.               *)
(***************************************************************************)
Ordered(row) == IF endian THEN row ELSE Reverse(row)

ToBytes(n, width) ==
  LET q == Quotients(n, width) IN Ordered([i \in 1 .. width |-> q[i - 1] % Base])

FromBytes(row, signed) ==
  LET little == Ordered(row)
      sum[i \in 0 .. Len(row)] ==
        IF i = 0 THEN Sign(little[Len(row)], signed)
        ELSE Base * sum[i - 1] + little[Len(row) - i + 1]
  IN  sum[Len(row)]

(***************************************************************************)
(* Writing.                                                                *)
(***************************************************************************)

\* Mutant of LengthRows: the escape value itself is written as a length.
LengthRowsEscape(n) ==
  IF n > Base - 1 THEN <<ToBytes(Base - 1, 1), ToBytes(n, 4)>> ELSE <<ToBytes(n, 1)>>

\* writeLength: one byte, or the escape value and four
LengthRows(n) ==
  IF n >= Base - 1 THEN <<ToBytes(Base - 1, 1), ToBytes(n, 4)>> ELSE <<ToBytes(n, 1)>>

\* the rows of bytes that are written for an item, one after the other
Rows(item) ==
  LET Each(row) == [i \in 1 .. Len(row) |-> ToBytes(row[i], item.width)]
  IN  CASE item.type = "number" -> Each(item.value)
        [] item.type = "bytes"  -> <<item.value>>
        [] item.type = "string" -> LengthRows(Len(item.value)) \o <<item.value>>
        [] item.type = "array"  -> LengthRows(Len(item.value)) \o Each(item.value)
        [] item.type = "nullable" -> <<ToBytes(Len(item.value), 1)>> \o Each(item.value)
        [] item.type = "sentinel" ->
             Each(IF item.value = <<>> THEN <<NullValue>> ELSE item.value)

\* toArray: what was written
ToArray(b) == SubSeq(b.memory, b.start + 1, b.start + b.offset)

\* Mutant of Reserve: only the view gets longer.
ReserveView(b, length) == IF b.view < length THEN [b EXCEPT !.view = length] ELSE b

\* reserve: new memory for the bytes before the offset, or a longer view
Reserve(b, length) ==
  LET size == IF 2 * Len(b.memory) > length THEN 2 * Len(b.memory) ELSE length
      kept == ToArray(b)
  IN  CASE Len(b.memory) < length ->
             [b EXCEPT !.memory = kept \o ByteRow(size - Len(kept)), !.start = 0, !.view = size]
        [] Len(b.memory) >= length /\ b.view < length -> [b EXCEPT !.view = length]
        [] OTHER -> b

PutBytes(b, row) ==
  LET r  == Reserve(b, b.offset + Len(row))
      at == r.start + r.offset
  IN  [r EXCEPT !.offset = @ + Len(row),
                !.memory = [i \in 1 .. Len(@) |->
                              IF i - at \in 1 .. Len(row) THEN row[i - at] ELSE @[i]]]

PutRows(b, rows) ==
  LET put[i \in 0 .. Len(rows)] == IF i = 0 THEN b ELSE PutBytes(put[i - 1], rows[i])
  IN  put[Len(rows)]

WriteItem(item) ==
  /\ mode = "write" /\ Len(items) < MaxItems
  /\ items' = Append(items, item)
  /\ buffer' = PutRows(buffer, Rows(item))
  /\ UNCHANGED <<endian, found, mode>>

\* shirink: the view ends at the offset
Shrink ==
  /\ mode = "write"
  /\ buffer' = [buffer EXCEPT !.view = buffer.offset]
  /\ UNCHANGED <<endian, items, found, mode>>

\* toArray, and from on the other side, in a memory that goes on after it
Transfer(start) ==
  /\ mode = "write"
  /\ LET sent == ToArray(buffer)
         pool == [i \in 1 .. start + 1 |-> Base - 1]
     IN  buffer' = [memory |-> Tail(pool) \o sent \o pool, start |-> start,
                    view |-> Len(sent), offset |-> 0]
  /\ mode' = "read"
  /\ UNCHANGED <<endian, items, found>>

(***************************************************************************)
(* Reading: what is read from an offset, and the offset after it.          *)
(***************************************************************************)
Underflow == [value |-> <<>>, at |-> -1]

\* read: assertUnderflow, then the bytes
GetBytes(at, n) ==
  IF at < 0 \/ buffer.view < at + n THEN Underflow
  ELSE [value |-> SubSeq(buffer.memory, buffer.start + at + 1, buffer.start + at + n),
        at |-> at + n]

GetNumber(at, width, signed) ==
  LET got == GetBytes(at, width)
  IN  IF got = Underflow THEN got ELSE [got EXCEPT !.value = <<FromBytes(@, signed)>>]

\* readLength
GetLength(at) ==
  LET one == GetNumber(at, 1, FALSE)
  IN  IF one.value = <<Base - 1>> THEN GetNumber(one.at, 4, FALSE) ELSE one

\* readArray, count times the element's reader
GetNumbers(at, count, width, signed) ==
  LET got[i \in 0 .. count] ==
        IF i = 0 THEN [value |-> <<>>, at |-> at]
        ELSE LET next == GetNumber(got[i - 1].at, width, signed)
             IN  IF next = Underflow THEN next ELSE [next EXCEPT !.value = got[i - 1].value \o @]
  IN  got[count]

\* the reader for items of item's shape
Get(at, item) ==
  LET length == GetLength(at)
      flag   == GetNumber(at, 1, FALSE)
      number == GetNumber(at, item.width, item.signed)
  IN  CASE item.type = "number" -> number
        [] item.type = "bytes"  -> GetBytes(at, item.width)
        [] item.type = "string" -> IF length = Underflow THEN length
                                   ELSE GetBytes(length.at, length.value[1])
        [] item.type = "array"  -> IF length = Underflow THEN length
                                   ELSE GetNumbers(length.at, length.value[1],
                                                   item.width, item.signed)
        [] item.type = "nullable" ->
             IF flag.value = <<0>> THEN [flag EXCEPT !.value = <<>>]
             ELSE GetNumber(flag.at, item.width, item.signed)
        [] item.type = "sentinel" ->
             IF number.value = <<NullValue>> THEN [number EXCEPT !.value = <<>>] ELSE number

\* the next item, of the shape that was written, or any more when all were read
ReadItem(item) ==
  /\ mode = "read"
  /\ Len(found) < Len(items) => item = items[Len(found) + 1]
  /\ LET got == Get(buffer.offset, item) IN
       IF got = Underflow
       THEN mode' = "thrown" /\ UNCHANGED <<buffer, found>>
       ELSE /\ found' = Append(found, got.value)
            /\ buffer' = [buffer EXCEPT !.offset = got.at]
            /\ mode' = mode
  /\ UNCHANGED <<endian, items>>

\* seek back to the first byte; past the view it throws
Rewind ==
  /\ mode = "read"
  /\ buffer' = [buffer EXCEPT !.offset = 0]
  /\ found' = <<>>
  /\ UNCHANGED <<endian, items, mode>>

BufferNext ==
  \/ \E item \in Items : WriteItem(item) \/ ReadItem(item)
  \/ Shrink \/ Rewind
  \/ \E start \in Starts : Transfer(start)

BufferSpec == BufferInit /\ [][BufferNext]_bufferVars
-----------------------------------------------------------------------------
(***************************************************************************)
(* Properties.                                                             *)
(***************************************************************************)

\* Every variable has its type, and the offset and the view stay in the memory.
BufferTypeOK ==
  /\ \A i \in 1 .. Len(buffer.memory) : buffer.memory[i] \in Byte
  /\ buffer.start \in Nat /\ buffer.offset \in 0 .. buffer.view
  /\ buffer.start + buffer.view <= Len(buffer.memory)
  /\ endian \in BOOLEAN
  /\ items \in Seq(Items)
  /\ mode \in {"write", "read", "thrown"}

\* What was written is read back, whatever the lengths, the growth of the memory
\* and the place of the view, and up to the last byte; reading more throws, and
\* nothing but that does.  A value equal to the one that stands for null is
\* read as null.
ReadsBack ==
  /\ Len(found) <= Len(items)
  /\ \A i \in 1 .. Len(found) :
       found[i] = IF items[i].type = "sentinel" /\ items[i].value = <<NullValue>>
                  THEN <<>> ELSE items[i].value
  /\ mode = "thrown" => Len(found) = Len(items)
  /\ mode = "read" /\ found # <<>> /\ Len(found) = Len(items) => buffer.offset = buffer.view

=============================================================================
