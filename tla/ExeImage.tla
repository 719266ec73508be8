------------------------------ MODULE ExeImage ------------------------------
(***************************************************************************)
(* The executable image that image_gen writes and the bootloader loads,    *)
(* stores and starts: a header of four words (signature, base address,     *)
(* size in bytes, complement of the sum of the data words) and the data.   *)
(* Words have NB bytes of 2^BITS values; the code has 4 bytes of 256.      *)
(***************************************************************************)
EXTENDS Integers, Sequences, SequencesExt

CONSTANTS NB, BITS, BIN_SIGNATURE

ASSUME WidthAssumption == NB \in Nat \ {0} /\ BITS \in Nat \ {0}

\* b to the n-th.
Power(b, n) == LET p[k \in 0..n] == IF k = 0 THEN 1 ELSE b * p[k - 1] IN p[n]

BYTE == Power(2, BITS)
WORD == Power(BYTE, NB)

\* Neither memory that is all zeros nor an erased flash begins with it.
ASSUME SignatureAssumption == BIN_SIGNATURE \in 1..(WORD - 2)

BIN_OFFSET_DATA == 4 * NB

\* Digits of numbers to base b, the least one first.
Digit(b, w, k) == (w \div Power(b, k)) % b
Value(b, ds)   == SumFunction([k \in DOMAIN ds |-> ds[k] * Power(b, k - 1)])

ByteOf(w, k) == Digit(BYTE, w, k)

\* Little-endian, as read32 and write32.
WordOf(bs) == Value(BYTE, bs)
Bytes(ws) == [n \in 1..(NB * Len(ws)) |-> ByteOf(ws[((n - 1) \div NB) + 1], (n - 1) % NB)]
Words(bs) == [n \in 1..(Len(bs) \div NB) |-> WordOf(SubSeq(bs, NB * (n - 1) + 1, NB * n))]

Add(a, b) == (a + b) % WORD
Complement(a) == WORD - 1 - a
Sum(ws) == FoldSeq(Add, 0, ws)

\* image_gen: the file is padded with zeros to whole words.
Padded(file) == file \o [k \in 1..((-Len(file)) % NB) |-> 0]

Image(file, base) ==
    LET data == Words(Padded(file))
    IN  <<BIN_SIGNATURE, base, NB * Len(data), Complement(Sum(data))>> \o data
=============================================================================
