----------------------------- MODULE MessageWire -----------------------------
(***************************************************************************)
(* What the Python 3 (src/lang/python3/message.py) and Python 2            *)
(* (src/python/message.py) Message classes share: the type codes, the      *)
(* little-endian integer conversions of struct and array, and the readers  *)
(* Unflatten is built from.  A byte is an integer 0..255.                  *)
(***************************************************************************)
EXTENDS Integers, Sequences, SequencesExt, FiniteSets

-----------------------------------------------------------------------------
(* Type codes, as in the modules' constants.                                *)

B_ANY_TYPE     == 1095653716
B_BOOL_TYPE    == 1112493900
B_INT64_TYPE   == 1280069191
B_INT32_TYPE   == 1280265799
B_INT16_TYPE   == 1397248596
B_INT8_TYPE    == 1113150533
B_MESSAGE_TYPE == 1297303367
B_STRING_TYPE  == 1129534546
B_RAW_TYPE     == 1380013908
CURRENT_PROTOCOL_VERSION == 1347235888

\* The array.array item size each numeric type is flattened with.
NumericTypes == {B_BOOL_TYPE, B_INT8_TYPE, B_INT16_TYPE, B_INT32_TYPE, B_INT64_TYPE}
ItemSize(t) == CASE t \in {B_BOOL_TYPE, B_INT8_TYPE} -> 1
                 [] t = B_INT16_TYPE -> 2
                 [] t = B_INT32_TYPE -> 4
                 [] t = B_INT64_TYPE -> 8

-----------------------------------------------------------------------------
(* Byte-level conversions.                                                 *)

MinOf(a, b) == IF a < b THEN a ELSE b

\* n little-endian bytes of v, two's complement for v < 0 (% and \div floor).
RECURSIVE LEBytes(_, _)
LEBytes(v, n) == IF n = 0 THEN <<>> ELSE <<v % 256>> \o LEBytes(v \div 256, n - 1)

U32(v) == LEBytes(v, 4)

\* struct.unpack("<L"): unsigned.
RECURSIVE FromLEU(_)
FromLEU(b) == IF b = <<>> THEN 0 ELSE Head(b) + 256 * FromLEU(Tail(b))

\* array.frombytes for 'b', 'h', 'i', 'q': signed, top byte carries the sign.
RECURSIVE FromLES(_)
FromLES(b) == IF Len(b) = 1 THEN (IF b[1] >= 128 THEN b[1] - 256 ELSE b[1])
              ELSE Head(b) + 256 * FromLES(Tail(b))

-----------------------------------------------------------------------------
(* Readers over buffer b at position p.  inFile.read(k) returns what is    *)
(* left when fewer than k bytes remain (all of it for k < 0); struct.unpack *)
(* raises on a short read, array.frombytes (fromstring in Python 2) on a   *)
(* length that is not a multiple of the item size.  A reader returns       *)
(* [ok, p] and its value v.                                                *)

Read(b, p, k) == SubSeq(b, p, IF k < 0 THEN Len(b) ELSE MinOf(p + k - 1, Len(b)))

Fail(p) == [ok |-> FALSE, p |-> p]

\* struct.unpack("<L", inFile.read(4))[0]
ReadU32(b, p) ==
    IF Len(b) - p + 1 >= 4 THEN [ok |-> TRUE, v |-> FromLEU(SubSeq(b, p, p + 3)), p |-> p + 4]
    ELSE Fail(Len(b) + 1)

\* array.array(code).frombytes(inFile.read(n))
ReadArray(b, p, t, n) ==
    LET d == Read(b, p, n)
        w == ItemSize(t)
    IN IF Len(d) % w # 0 THEN Fail(p + Len(d))
       ELSE [ok |-> TRUE, p |-> p + Len(d),
             v |-> [i \in 1..(Len(d) \div w) |-> [int |-> FromLES(SubSeq(d, (i - 1) * w + 1, i * w))]]]

=============================================================================
