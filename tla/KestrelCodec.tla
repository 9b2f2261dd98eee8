----------------------------- MODULE KestrelCodec -----------------------------
(***************************************************************************)
(* The binary codec of src/src/codec.rs, and the position sections that    *)
(* src/src/storage.rs writes with it: how integers become bytes, how the   *)
(* bytes are guarded by a checksum, and what the readers make of bytes     *)
(* that were damaged, cut, extended, or written by somebody else.          *)
(*                                                                         *)
(* A behaviour is one section: the writer packs its values, a step for     *)
(* each turn of its loops; the section is stored; the reader checks the    *)
(* checksum and unpacks.  Three kinds of section are told apart:           *)
(*   "plain"      put_packed_u32s    read_packed_u32s    (frequencies)     *)
(*   "deltas"     put_packed_deltas  read_packed_deltas  (documents)       *)
(*   "positions"  put_var_u32        read_var_u32        (positions)       *)
(*                                                                         *)
(* Bits are sequences of 0 and 1, lowest first; the 64-bit buffer of the   *)
(* packing loops is such a sequence, and its length is `buffered`.  Bytes, *)
(* words, blocks and the polynomial are as small as the constants make     *)
(* them.                                                                   *)
(***************************************************************************)
EXTENDS Integers, Sequences, SequencesExt

CONSTANTS
  ByteBits,    \* 8
  WordBits,    \* 32, the bits of the integers
  BufferBits,  \* 64, the bits of the buffer
  BlockMax,    \* 128, the values of one block
  CrcBits,     \* 32
  Polynomial,  \* the bits of 0x82f63b78
  Values,      \* integers that are written
  MaxLen,      \* bound: values in a section
  MaxForeign   \* bound: bytes of a section that this writer did not write

ASSUME WidthAssumption ==
  /\ ByteBits \in Nat \ {0, 1} /\ WordBits \in Nat \ {0} /\ BufferBits \in Nat
  /\ WordBits + ByteBits - 1 <= BufferBits
  /\ WordBits < 2^ByteBits
ASSUME BlockAssumption == BlockMax \in 1..(2^ByteBits - 1)
ASSUME CrcAssumption ==
  /\ CrcBits \in Nat /\ CrcBits >= ByteBits
  /\ Polynomial \subseteq 0..(CrcBits - 1) /\ CrcBits - 1 \in Polynomial
ASSUME InputAssumption ==
  Values \subseteq 0..(2^WordBits - 1) /\ MaxLen \in Nat /\ MaxForeign \in Nat

VARIABLES
  job,      \* the kind of section
  values,   \* what the writer was given
  expected, \* how many values the reader asks for
  stage,    \* where writer or reader is
  todo,     \* the integers that are still to be packed
  block,    \* values left in the block at hand
  width,    \* bits of each of them
  queue,    \* the buffer
  bytes,    \* the section
  stored,   \* its checksum, as the frame has it
  damage,   \* what happened to the section
  at,       \* the byte that the reader looks at next
  end,      \* the first byte behind the block at hand
  out       \* what the reader has returned so far

inputs == <<job, values, expected>>
writing == <<todo, block, width, queue>>
reading == <<at, end, out>>
vars == <<inputs, stage, writing, bytes, stored, damage, reading>>

Byte == 0..(2^ByteBits - 1)
Word == 0..(2^WordBits - 1)

Bits(n, k) == [i \in 1..k |-> (n \div 2^(i - 1)) % 2]

Number(bits) ==
  LET upTo[i \in 0..Len(bits)] ==
        IF i = 0 THEN 0 ELSE upTo[i - 1] + bits[i] * 2^(i - 1)
  IN upTo[Len(bits)]

Behind(bits, k) == SubSeq(bits, k + 1, Len(bits))

-----------------------------------------------------------------------------
(* The checksum, CRC32C: a remainder is the set of its bits.               *)

Difference(S, T) == (S \ T) \cup (T \ S)
ShiftRight(S, k) == {b - k : b \in {c \in S : c >= k}}
BitSet(n) == {b \in 0..(ByteBits - 1) : (n \div 2^b) % 2 = 1}

\* Seeded fault: the polynomial is left out.
ShiftOnly(S) == ShiftRight(S, 1)

\* One bit of the division.
Divide(S) ==
  IF 0 \in S THEN Difference(Polynomial, ShiftRight(S, 1)) ELSE ShiftRight(S, 1)

CrcTable ==
  LET divided[k \in 0..ByteBits] ==
        IF k = 0 THEN [S \in SUBSET (0..(ByteBits - 1)) |-> S]
        ELSE [S \in SUBSET (0..(ByteBits - 1)) |-> Divide(divided[k - 1][S])]
  IN divided[ByteBits]

CrcStep(crc, byte) ==
  LET low == crc \cap (0..(ByteBits - 1))
  IN Difference(CrcTable[Difference(low, BitSet(byte))], ShiftRight(crc, ByteBits))

Ones == 0..(CrcBits - 1)

Checksum(data) == Ones \ FoldLeft(CrcStep, Ones, data)

-----------------------------------------------------------------------------
(* What is packed.                                                         *)

\* Seeded fault: the first value of a block is not a difference.
DeltasPerBlock(s) ==
  [i \in DOMAIN s |-> IF i % BlockMax = 1 % BlockMax THEN s[i] ELSE s[i] - s[i - 1]]

\* The first value, then differences, across the borders of blocks.
Deltas(s) == [i \in DOMAIN s |-> IF i = 1 THEN s[i] ELSE s[i] - s[i - 1]]

Integers(kind, s) == IF kind = "plain" THEN s ELSE Deltas(s)

Ascending(s) == \A i, j \in DOMAIN s : i < j => s[i] < s[j]

\* Documents and positions ascend; a posting has a position.
Sections ==
  {[kind |-> k, values |-> s] :
     k \in {"plain", "deltas", "positions"},
     s \in UNION {[1..n -> Values] : n \in 0..MaxLen}}

Writable(section) ==
  /\ section.kind # "plain" => Ascending(section.values)
  /\ section.kind = "positions" => section.values # <<>>

Foreign ==
  [kind : {"plain", "deltas", "positions"}, expected : 0..MaxLen,
   bytes : UNION {[1..n -> Byte] : n \in 0..MaxForeign}]

StartOf(kind) == IF kind = "positions" THEN "groups" ELSE "header"

Init ==
  /\ block = 0 /\ width = 0 /\ queue = <<>>
  /\ stored = {} /\ at = 1 /\ end = 1 /\ out = <<>>
  /\ \/ \E s \in {t \in Sections : Writable(t)} :
          /\ job = s.kind /\ values = s.values /\ expected = Len(s.values)
          /\ todo = Integers(s.kind, s.values)
          /\ bytes = <<>>
          /\ stage = "write" /\ damage = "none"
     \/ \E f \in Foreign :
          /\ f.kind = "positions" => f.expected > 0
          /\ job = f.kind /\ expected = f.expected /\ bytes = f.bytes
          /\ values = <<>> /\ todo = <<>>
          /\ stage = StartOf(f.kind) /\ damage = "foreign"

-----------------------------------------------------------------------------
(* The writer.                                                             *)

\* u32::BITS - leading_zeros of the largest value.
WidthOf(s) ==
  CHOOSE k \in 0..WordBits :
    /\ \A i \in DOMAIN s : s[i] < 2^k
    /\ k = 0 \/ \E i \in DOMAIN s : s[i] >= 2^(k - 1)

\* put_packed_block: the header.
StartBlock ==
  LET chunk == SubSeq(todo, 1, IF Len(todo) < BlockMax THEN Len(todo) ELSE BlockMax)
  IN /\ stage = "write" /\ job # "positions"
     /\ block = 0 /\ queue = <<>> /\ todo # <<>>
     /\ block' = Len(chunk) /\ width' = WidthOf(chunk)
     /\ bytes' = bytes \o <<block', width'>>
     /\ UNCHANGED <<inputs, stage, todo, queue, stored, damage, reading>>

\* Seeded fault: full bytes are not taken out of the buffer at once.
PackWithoutDraining ==
  /\ stage = "write" /\ block > 0
  /\ queue' = queue \o Bits(Head(todo), width)
  /\ todo' = Tail(todo) /\ block' = block - 1
  /\ UNCHANGED <<inputs, stage, width, bytes, stored, damage, reading>>

\* A value goes into the buffer, which has less than a byte.
PackValue ==
  /\ stage = "write" /\ block > 0 /\ Len(queue) < ByteBits
  /\ queue' = queue \o Bits(Head(todo), width)
  /\ todo' = Tail(todo) /\ block' = block - 1
  /\ UNCHANGED <<inputs, stage, width, bytes, stored, damage, reading>>

\* A full byte leaves the buffer; the last one is filled up with zeros.
PutByte ==
  /\ stage = "write"
  /\ Len(queue) >= ByteBits \/ (block = 0 /\ queue # <<>>)
  /\ LET taken == IF Len(queue) < ByteBits THEN Len(queue) ELSE ByteBits
     IN /\ bytes' = Append(bytes, Number(SubSeq(queue, 1, taken)))
        /\ queue' = Behind(queue, taken)
  /\ UNCHANGED <<inputs, stage, todo, block, width, stored, damage, reading>>

HalfByte == 2^(ByteBits - 1)

\* put_var_u32.
VarBytes[n \in Word] ==
  IF n < HalfByte THEN <<n>>
  ELSE <<(n % HalfByte) + HalfByte>> \o VarBytes[n \div HalfByte]

PutVariable ==
  /\ stage = "write" /\ job = "positions" /\ todo # <<>>
  /\ bytes' = bytes \o VarBytes[Head(todo)]
  /\ todo' = Tail(todo)
  /\ UNCHANGED <<inputs, stage, block, width, queue, stored, damage, reading>>

\* encode_frame.
Store ==
  /\ stage = "write" /\ todo = <<>> /\ queue = <<>>
  /\ stage' = "stored"
  /\ stored' = Checksum(bytes)
  /\ UNCHANGED <<inputs, writing, bytes, damage, reading>>

-----------------------------------------------------------------------------
(* The medium.                                                             *)

AllBits(data) ==
  [i \in 1..(Len(data) * ByteBits) |->
     Bits(data[((i - 1) \div ByteBits) + 1], ByteBits)[((i - 1) % ByteBits) + 1]]

\* Some bits are inverted, not further apart than the checksum is long.
Bursts(data) ==
  LET bits == AllBits(data)
      flipped(S) == [i \in DOMAIN bits |-> IF i \in S THEN 1 - bits[i] ELSE bits[i]]
      near == UNION {{S \cup {i} : S \in SUBSET ((i + 1)..(i + CrcBits - 1) \cap DOMAIN bits)} :
                       i \in DOMAIN bits}
  IN {[k \in DOMAIN data |->
         Number(SubSeq(flipped(S), (k - 1) * ByteBits + 1, k * ByteBits))] : S \in near}

\* The section reaches the reader, unchanged or damaged.
Fetch ==
  /\ stage = "stored"
  /\ \/ damage' = "none" /\ bytes' = bytes
     \/ damage' = "burst" /\ bytes' \in Bursts(bytes)
  /\ stage' = "check"
  /\ UNCHANGED <<inputs, writing, stored, reading>>

\* The section has another length than the one that was written, and the
\* checksum does not tell.
Misplace ==
  /\ stage = "stored"
  /\ \/ \E n \in 0..(Len(bytes) - 1) : damage' = "cut" /\ bytes' = SubSeq(bytes, 1, n)
     \/ \E b \in Byte : damage' = "extended" /\ bytes' = Append(bytes, b)
  /\ stage' = StartOf(job)
  /\ UNCHANGED <<inputs, writing, stored, reading>>

-----------------------------------------------------------------------------
(* The reader.                                                             *)

Reject ==
  /\ stage' = "rejected"
  /\ UNCHANGED <<inputs, writing, bytes, stored, damage, reading>>

CheckSum ==
  /\ stage = "check"
  /\ Checksum(bytes) = stored
  /\ stage' = StartOf(job)
  /\ UNCHANGED <<inputs, writing, bytes, stored, damage, reading>>

CheckFails ==
  /\ stage = "check"
  /\ Checksum(bytes) # stored
  /\ Reject

\* Seeded fault: the last, partial byte of a block is forgotten.
ByteLengthDown(count, bits) == (count * bits) \div ByteBits

ByteLength(count, bits) == (count * bits + ByteBits - 1) \div ByteBits

\* read_packed_u32s: what its loop accepts as a block.
GoodHeader ==
  /\ at + 1 <= Len(bytes)
  /\ bytes[at] \in 1..BlockMax
  /\ bytes[at] <= expected - Len(out)
  /\ bytes[at + 1] <= WordBits
  /\ at + 1 + ByteLength(bytes[at], bytes[at + 1]) <= Len(bytes)

ReadHeader ==
  /\ stage = "header" /\ Len(out) < expected
  /\ GoodHeader
  /\ stage' = "unpack"
  /\ block' = bytes[at] /\ width' = bytes[at + 1] /\ queue' = <<>>
  /\ at' = at + 2
  /\ end' = at + 2 + ByteLength(bytes[at], bytes[at + 1])
  /\ UNCHANGED <<inputs, todo, bytes, stored, damage, out>>

HeaderFails ==
  /\ stage = "header" /\ Len(out) < expected
  /\ ~GoodHeader
  /\ Reject

LoadByte ==
  /\ stage = "unpack" /\ block > 0 /\ Len(queue) < width
  /\ queue' = queue \o Bits(bytes[at], ByteBits)
  /\ at' = at + 1
  /\ UNCHANGED <<inputs, stage, todo, block, width, bytes, stored, damage, end, out>>

TakeValue ==
  /\ stage = "unpack" /\ block > 0 /\ Len(queue) >= width
  /\ out' = Append(out, Number(SubSeq(queue, 1, width)))
  /\ queue' = Behind(queue, width)
  /\ block' = block - 1
  /\ UNCHANGED <<inputs, stage, todo, width, bytes, stored, damage, at, end>>

BlockEnds ==
  /\ stage = "unpack" /\ block = 0
  /\ stage' = "header" /\ at' = end
  /\ UNCHANGED <<inputs, writing, bytes, stored, damage, end, out>>

\* Seeded fault: bytes behind the last value are ignored.
AnyRest == TRUE

\* input.is_empty(), or the reader fails.
NothingLeft == at > Len(bytes)

Sums(s) ==
  LET upTo[i \in 0..Len(s)] == IF i = 0 THEN 0 ELSE upTo[i - 1] + s[i]
  IN [i \in DOMAIN s |-> upTo[i]]

\* Seeded fault: a difference of zero passes.
SummableWithZeros(s) == \A i \in DOMAIN s : Sums(s)[i] \in Word

\* No difference behind the first is zero, and no sum exceeds a word.
Summable(s) ==
  \A i \in DOMAIN s : (i > 1 => s[i] > 0) /\ Sums(s)[i] \in Word

\* All values are there; read_packed_deltas adds them up.
ReadEnds ==
  /\ stage = "header" /\ Len(out) = expected
  /\ NothingLeft
  /\ job = "deltas" => Summable(out)
  /\ stage' = "done"
  /\ out' = IF job = "deltas" THEN Sums(out) ELSE out
  /\ UNCHANGED <<inputs, writing, bytes, stored, damage, at, end>>

EndFails ==
  /\ stage = "header" /\ Len(out) = expected
  /\ ~NothingLeft \/ (job = "deltas" /\ ~Summable(out))
  /\ Reject

\* The shift of the last group that a word can have, and its largest value.
LastShift == ((WordBits - 1) \div (ByteBits - 1)) * (ByteBits - 1)
LastGroup == 2^(WordBits - LastShift) - 1

Truncated == at > Len(bytes)
TooLarge == Len(queue) = LastShift /\ bytes[at] > LastGroup

\* read_var_u32: a group that is not the last of its integer.
ReadGroup ==
  /\ stage = "groups" /\ Len(out) < expected
  /\ ~Truncated /\ ~TooLarge
  /\ bytes[at] >= HalfByte
  /\ queue' = queue \o Bits(bytes[at] - HalfByte, ByteBits - 1)
  /\ at' = at + 1
  /\ UNCHANGED <<inputs, stage, todo, block, width, bytes, stored, damage, end, out>>

\* The integer that ends at this byte, and the position it leads to.
Integer == Number(queue \o Bits(bytes[at], ByteBits - 1))
Position == IF out = <<>> THEN Integer ELSE out[Len(out)] + Integer
GoodPosition == (out # <<>> => Integer > 0) /\ Position \in Word

\* decode_snapshot adds a position.
ReadPosition ==
  /\ stage = "groups" /\ Len(out) < expected
  /\ ~Truncated /\ ~TooLarge
  /\ bytes[at] < HalfByte
  /\ GoodPosition
  /\ out' = Append(out, Position)
  /\ queue' = <<>> /\ at' = at + 1
  /\ UNCHANGED <<inputs, stage, todo, block, width, bytes, stored, damage, end>>

GroupFails ==
  /\ stage = "groups" /\ Len(out) < expected
  /\ \/ Truncated
     \/ ~Truncated /\ TooLarge
     \/ ~Truncated /\ ~TooLarge /\ bytes[at] < HalfByte /\ ~GoodPosition
  /\ Reject

PositionsEnd ==
  /\ stage = "groups" /\ Len(out) = expected
  /\ NothingLeft
  /\ stage' = "done"
  /\ UNCHANGED <<inputs, writing, bytes, stored, damage, reading>>

PositionsFail ==
  /\ stage = "groups" /\ Len(out) = expected
  /\ ~NothingLeft
  /\ Reject

-----------------------------------------------------------------------------
Write == StartBlock \/ PackValue \/ PutByte \/ PutVariable \/ Store

Unpack ==
  \/ CheckSum \/ CheckFails
  \/ ReadHeader \/ HeaderFails \/ LoadByte \/ TakeValue \/ BlockEnds
  \/ ReadEnds \/ EndFails

ReadVariable == ReadGroup \/ ReadPosition \/ GroupFails \/ PositionsEnd \/ PositionsFail

Next == Write \/ Fetch \/ Misplace \/ Unpack \/ ReadVariable

Spec == Init /\ [][Next]_vars

-----------------------------------------------------------------------------
(* Properties.                                                             *)

Stages == {"write", "stored", "check", "header", "unpack", "groups", "done",
           "rejected"}

\* The type invariant.  What is in the buffer fits into it: the shifts of the
\* packing loops lose no bit.
TypeOK ==
  /\ stage \in Stages
  /\ bytes \in Seq(Byte)
  /\ out \in Seq(Word)
  /\ todo \in Seq(Word)
  /\ queue \in Seq({0, 1}) /\ Len(queue) <= BufferBits
  /\ at \in 1..(Len(bytes) + 1)

\* What was written and not damaged is read, and read as it was written.
RoundTrip ==
  damage = "none" =>
    /\ stage # "rejected"
    /\ stage = "done" => out = values

\* A reader that is given a section of another length, which the format
\* keeps in a field of its own, never takes it for a whole one.
WrongLengthIsRejected == damage \in {"cut", "extended"} => stage # "done"

\* The checksum notices any damage that is not wider than itself: what read_wal
\* and read_checkpoint rely on to tell damage from data.
BurstsAreNoticed == damage = "burst" => stage \in {"check", "rejected"}

\* Whatever the bytes are, what a reader returns is as long as it was asked
\* to be, and documents and positions ascend; the index relies on that when
\* it searches them (index.rs:148).
DecodedIsWellFormed ==
  stage = "done" => Len(out) = expected /\ (job # "plain" => Ascending(out))

\* The unpacking loop never indexes behind its block, whatever the header
\* says: encoded[byte_index] does not panic.
InBounds ==
  stage = "unpack" =>
    /\ end <= Len(bytes) + 1
    /\ block > 0 /\ Len(queue) < width => at < end

=============================================================================
