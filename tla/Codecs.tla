------------------------------- MODULE Codecs -------------------------------
(***************************************************************************)
(* Bytes as text (src/akasha-lib/src/library): base32.ts, hex.ts, and the  *)
(* counter's bytes of otp.ts.  A letter of base 32 and a hexadecimal digit *)
(* are their indices; where the code combines bits with |, the bits are    *)
(* disjoint and it is + here.                                              *)
(***************************************************************************)
EXTENDS Integers, Sequences

CONSTANTS
  SampleBytes, \* bytes that are appended
  MaxBytes     \* bound: bytes of an array

ASSUME CodecsAssumption == SampleBytes \subseteq 0 .. 255

VARIABLES bytes

\* 2 ^ k: what a shift by k bits multiplies or divides by
Power(k) == <<1, 2, 4, 8, 16, 32, 64, 128, 256>>[k + 1]

(***************************************************************************)
(* base32.ts.                                                              *)
(***************************************************************************)
LowFive(n) == n % 32

\* one turn of encodeBase32's loop
EncodeByte(s, data) ==
  LET first == Append(s.letters, LowFive(s.carry + data \div Power(s.shift)))
      two   == s.shift > 5
      shift == IF two THEN s.shift - 5 ELSE s.shift
  IN  [letters |-> IF two THEN Append(first, LowFive(data \div Power(s.shift - 5))) ELSE first,
       carry |-> data * Power(5 - shift),
       shift |-> shift + 3]

\* after the loop
EncodeBytes(arr) ==
  LET s[i \in 0 .. Len(arr)] ==
        IF i = 0 THEN [letters |-> <<>>, carry |-> 0, shift |-> 3] ELSE EncodeByte(s[i - 1], arr[i])
  IN  s[Len(arr)]

\* Mutant of EncodeBase32: what is left after the last byte is dropped.
EncodeBase32Cut(arr) == EncodeBytes(arr).letters

EncodeBase32(arr) ==
  LET s == EncodeBytes(arr)
  IN  IF s.shift # 3 THEN Append(s.letters, LowFive(s.carry)) ELSE s.letters

\* one turn of decodeBase32's loop
DecodeLetter(s, value) ==
  CASE s.shift > 5 ->
         [s EXCEPT !.carry = @ + value * Power(s.shift - 5), !.shift = @ - 5]
    [] s.shift < 5 ->
         [result |-> Append(s.result, s.carry + value \div Power(5 - s.shift)),
          carry |-> (value * Power(s.shift + 3)) % 256,
          shift |-> s.shift + 3]
    [] s.shift = 5 -> [result |-> Append(s.result, s.carry + value), carry |-> 0, shift |-> 8]

DecodeLetters(letters) ==
  LET s[i \in 0 .. Len(letters)] ==
        IF i = 0 THEN [result |-> <<>>, carry |-> 0, shift |-> 8]
        ELSE DecodeLetter(s[i - 1], letters[i])
  IN  s[Len(letters)]

DecodeBase32(letters) ==
  LET s == DecodeLetters(letters)
  IN  IF s.shift # 8 /\ s.carry # 0 THEN Append(s.result, s.carry) ELSE s.result

(***************************************************************************)
(* hex.ts.                                                                 *)
(***************************************************************************)
\* toString(16), padStart(2, "0")
HexDigits(b) == IF b < 16 THEN <<0, b>> ELSE <<b \div 16, b % 16>>

ToHex(arr) ==
  LET digits[i \in 0 .. Len(arr)] ==
        IF i = 0 THEN <<>> ELSE digits[i - 1] \o HexDigits(arr[i])
  IN  digits[Len(arr)]

FromHex(digits) ==
  [i \in 1 .. Len(digits) \div 2 |-> 16 * digits[2 * i - 1] + digits[2 * i]]

(***************************************************************************)
(* otp.ts: the moving factor in eight bytes, from the last to the first.   *)
(* It is shifted as a 32-bit integer: the model keeps it below 2 ^ 31.     *)
(***************************************************************************)
FactorBytes(movingFactor) ==
  LET rest[i \in 0 .. 8] == IF i = 0 THEN movingFactor ELSE rest[i - 1] \div 256
  IN  [i \in 1 .. 8 |-> rest[8 - i] % 256]

CodecsInit == bytes = <<>>

AppendByte == Len(bytes) < MaxBytes /\ \E b \in SampleBytes : bytes' = Append(bytes, b)

CodecsNext == AppendByte

CodecsSpec == CodecsInit /\ [][CodecsNext]_bytes
-----------------------------------------------------------------------------
(***************************************************************************)
(* Properties.                                                             *)
(***************************************************************************)

\* bit j of the bytes, 0 behind the last
Bit(j) == IF j > 8 * Len(bytes) THEN 0
          ELSE (bytes[(j - 1) \div 8 + 1] \div Power(7 - ((j - 1) % 8))) % 2

\* RFC 4648: each letter is the next five bits
Base32Reference ==
  [i \in 1 .. (8 * Len(bytes) + 4) \div 5 |->
     16 * Bit(5 * i - 4) + 8 * Bit(5 * i - 3) + 4 * Bit(5 * i - 2) + 2 * Bit(5 * i - 1) + Bit(5 * i)]

\* the number the bytes are, the first the highest
BigEndian(row) ==
  LET sum[i \in 0 .. Len(row)] == IF i = 0 THEN 0 ELSE 256 * sum[i - 1] + row[i]
  IN  sum[Len(row)]

\* The base32 text of any bytes is the RFC's, without padding, and decoding
\* gives the bytes back, leading and trailing zeros included, however they lie
\* in the groups of five; so does hexadecimal; and the counter's eight bytes are
\* its big-endian number (of the first three bytes here).
CodecsExact ==
  /\ EncodeBase32(bytes) = Base32Reference
  /\ DecodeBase32(EncodeBase32(bytes)) = bytes
  /\ FromHex(ToHex(bytes)) = bytes
  /\ Len(bytes) <= 3 =>
       FactorBytes(BigEndian(bytes)) = [i \in 1 .. 8 - Len(bytes) |-> 0] \o bytes

=============================================================================
