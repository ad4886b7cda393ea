--------------------------------- MODULE Crc ---------------------------------
(***************************************************************************)
(* The checksum of AvrLib.c: a program computes it over a whole array with *)
(* ComputeCrc, or byte by byte with ComputeNextCrc.  Here the bytes of a   *)
(* message come one after the other.                                       *)
(***************************************************************************)
EXTENDS Integers, Sequences, SequencesExt

CONSTANTS InitialCrcs,   (* values that a computation begins with             *)
          LaterBytes,    (* bytes of a message behind the first, which is any *)
          MaxLength      (* bytes of a message                                *)

ASSUME InitialCrcsAssumption == InitialCrcs \subseteq 0..255
ASSUME LaterBytesAssumption == LaterBytes \subseteq 0..255
ASSUME MaxLengthAssumption == MaxLength \in 0..255

VARIABLES message,       (* the bytes so far                                  *)
          initialCrc,    (* the value that the computation began with         *)
          crc            (* what ComputeNextCrc has returned last             *)

crcVars == <<message, initialCrc, crc>>

crc_table == <<
  0, 141, 151, 26, 163, 46, 52, 185, 203, 70, 92, 209, 104, 229, 255, 114, 27, 150, 140, 1, 184,
  53, 47, 162, 208, 93, 71, 202, 115, 254, 228, 105, 54, 187, 161, 44, 149, 24, 2, 143, 253,
  112, 106, 231, 94, 211, 201, 68, 45, 160, 186, 55, 142, 3, 25, 148, 230, 107, 113, 252, 69,
  200, 210, 95, 108, 225, 251, 118, 207, 66, 88, 213, 167, 42, 48, 189, 4, 137, 147, 30, 119,
  250, 224, 109, 212, 89, 67, 206, 188, 49, 43, 166, 31, 146, 136, 5, 90, 215, 205, 64, 249,
  116, 110, 227, 145, 28, 6, 139, 50, 191, 165, 40, 65, 204, 214, 91, 226, 111, 117, 248, 138,
  7, 29, 144, 41, 164, 190, 51, 216, 85, 79, 194, 123, 246, 236, 97, 19, 158, 132, 9, 176, 61,
  39, 170, 195, 78, 84, 217, 96, 237, 247, 122, 8, 133, 159, 18, 171, 38, 60, 177, 238, 99, 121,
  244, 77, 192, 218, 87, 37, 168, 178, 63, 134, 11, 17, 156, 245, 120, 98, 239, 86, 219, 193,
  76, 62, 179, 169, 36, 157, 16, 10, 135, 180, 57, 35, 174, 23, 154, 128, 13, 127, 242, 232,
  101, 220, 81, 75, 198, 175, 34, 56, 181, 12, 129, 155, 22, 100, 233, 243, 126, 199, 74, 80,
  221, 130, 15, 21, 152, 33, 172, 182, 59, 73, 196, 222, 83, 234, 103, 125, 240, 153, 20, 14,
  131, 58, 183, 173, 32, 82, 223, 197, 72, 241, 124, 102, 235 >>

(* The exclusive or of two bytes has the bits in which they differ.         *)
Xor(a, b) ==
  LET Bit(byte, weight) == (byte \div weight) % 2
      Differ(weight) == weight * ((Bit(a, weight) + Bit(b, weight)) % 2)
  IN  Differ(1) + Differ(2) + Differ(4) + Differ(8)
        + Differ(16) + Differ(32) + Differ(64) + Differ(128)

(* The sum in the table for data and the previous sum.  (Mutant: the        *)
(* previous sum is forgotten.)                                              *)
MutantForgets(data, previous) == crc_table[data + 1]
Lookup(data, previous) == crc_table[Xor(data, previous) + 1]

ComputeNextCrc(data, previous) == Lookup(data, previous)
ComputeCrc(data, initial) == FoldLeft(LAMBDA sum, byte : Lookup(byte, sum), initial, data)

CrcInit ==
  /\ message = <<>>
  /\ initialCrc \in InitialCrcs
  /\ crc = initialCrc

NextByte(byte) ==
  /\ Len(message) < MaxLength
  /\ message' = Append(message, byte)
  /\ crc' = ComputeNextCrc(byte, crc)
  /\ UNCHANGED initialCrc

CrcNext == \E byte \in (IF message = <<>> THEN 0..255 ELSE LaterBytes) : NextByte(byte)

-----------------------------------------------------------------------------

(* Division, bit by bit, by x^8 + x^7 + x^3 + x^2 + 1: the remainder of a   *)
(* byte with eight zero bits behind it, and that of a message.              *)
Polynomial == 141
Shift(r) == IF r < 128 THEN 2 * r ELSE Xor(2 * r - 256, Polynomial)
DivideByte(byte) == Shift(Shift(Shift(Shift(Shift(Shift(Shift(Shift(byte))))))))
Remainder(data, initial) == FoldLeft(LAMBDA sum, byte : DivideByte(Xor(sum, byte)), initial, data)

(* Both functions compute the remainder of the division, for every message: *)
(* each of the 256 constants of the table is right.                         *)
CrcIsRemainder ==
  /\ crc = Remainder(message, initialCrc)
  /\ ComputeCrc(message, initialCrc) = crc

=============================================================================
