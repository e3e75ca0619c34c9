--------------------------- MODULE MessageCodecPy2 ---------------------------
(***************************************************************************)
(* The Python 2 Message class (src/python/message.py): a `what` code and a *)
(* plain dict from field name to (type code, items), and its flattened     *)
(* form over real bytes.                                                   *)
(*                                                                         *)
(* Where it differs from the Python 3 class (module MessageCodec):         *)
(*   - names and CSTR items are byte strings, written as they are;        *)
(*   - the dict keeps no insertion order: keys() lists the names in the   *)
(*     order of their hash slots, the constant HashOrder;                 *)
(*   - an INT64 field is read with array('l') when a C long is 8 bytes    *)
(*     (_longIs64Bits), else with struct.unpack("<q") item by item.       *)
(*                                                                         *)
(* Data: an item is [int |-> i] (numeric types), [str |-> bytes] (CSTR and *)
(* every type Flatten does not know) or [msg |-> m]; a Message is          *)
(* [what |-> w, fields |-> f], f a function from the names present to      *)
(* [type, items].  Floating-point types are left out.                      *)
(***************************************************************************)
EXTENDS MessageWire

CONSTANTS
    Whats,        \* what codes given to Message(what)
    Names,        \* field names (byte strings)
    PutInputs,    \* [type |-> t, list |-> items] or [type |-> t, item |-> x]
    HashOrder,    \* the order dict.keys() lists Names in
    LongIs64Bits  \* array.array('l').itemsize > 4 on this build

VARIABLE msg

-----------------------------------------------------------------------------
(* The field dict.                                                         *)

EmptyMessage(w) == [what |-> w, fields |-> [n \in {} |-> {}]]

\* self.__fields.keys()
GetFieldNames(m) == SelectSeq(HashOrder, LAMBDA n : n \in DOMAIN m.fields)

\* self.__fields[fieldName] = (fieldTypeCode, fieldContents)
PutFieldContents(m, name, t, items) ==
    [m EXCEPT !.fields = (name :> [type |-> t, items |-> items]) @@ @]

\* GetFieldContents(name, type): {contents}, or {} for None (no such field,
\* or one of another type unless type is B_ANY_TYPE).
GetFieldContents(m, name, t) ==
    IF name \in DOMAIN m.fields /\ (t = B_ANY_TYPE \/ t = m.fields[name].type)
    THEN {m.fields[name].items} ELSE {}

\* GetFieldItem(name, type, index): None also when index is out of range;
\* a negative index counts from the end.
GetFieldItem(m, name, t, index) ==
    { c[IF index < 0 THEN Len(c) + index + 1 ELSE index + 1] :
        c \in {x \in GetFieldContents(m, name, t) : -Len(x) <= index /\ index < Len(x)} }

-----------------------------------------------------------------------------
(* FlattenedSize and Flatten.  len() of a byte string counts bytes.        *)

RECURSIVE FlattenedSize(_), GetFieldContentsLength(_, _), Flatten(_), FieldData(_, _)

\* Mutant: the num_bufs word of the else branch left uncounted.
GetFieldContentsLengthNoCount(t, items) ==
    CASE t \in NumericTypes -> Len(items) * ItemSize(t)
      [] t = B_MESSAGE_TYPE ->
            Len(items) * 4 + SumFunction([i \in DOMAIN items |-> FlattenedSize(items[i].msg)])
      [] t = B_STRING_TYPE -> 4 + SumFunction([i \in DOMAIN items |-> 4 + Len(items[i].str) + 1])
      [] OTHER -> SumFunction([i \in DOMAIN items |-> 4 + Len(items[i].str)])

GetFieldContentsLength(t, items) ==
    CASE t \in NumericTypes -> Len(items) * ItemSize(t)
      [] t = B_MESSAGE_TYPE ->
            Len(items) * 4 + SumFunction([i \in DOMAIN items |-> FlattenedSize(items[i].msg)])
      [] t = B_STRING_TYPE -> 4 + SumFunction([i \in DOMAIN items |-> 4 + Len(items[i].str) + 1])
      [] OTHER -> 4 + SumFunction([i \in DOMAIN items |-> 4 + Len(items[i].str)])

FlattenedSize(m) ==
    12 + SumFunction([n \in DOMAIN m.fields |->
            4 + Len(n) + 1 + 4 + 4 + GetFieldContentsLength(m.fields[n].type, m.fields[n].items)])

\* A field's items after its (type, length) header.  A numeric list is
\* written through array.array(code, list).tostring(); an INT64 list on a
\* build with 4-byte longs through struct.pack("<q") per item: the same
\* little-endian bytes.
FieldData(t, items) ==
    CASE t \in NumericTypes ->
            FlattenSeq([i \in DOMAIN items |-> LEBytes(items[i].int, ItemSize(t))])
      [] t = B_MESSAGE_TYPE ->
            FlattenSeq([i \in DOMAIN items |->
                U32(FlattenedSize(items[i].msg)) \o Flatten(items[i].msg)])
      [] t = B_STRING_TYPE ->
            U32(Len(items)) \o FlattenSeq([i \in DOMAIN items |->
                U32(Len(items[i].str) + 1) \o items[i].str \o <<0>>])
      [] OTHER ->
            U32(Len(items)) \o FlattenSeq([i \in DOMAIN items |->
                U32(Len(items[i].str)) \o items[i].str])

Flatten(m) ==
    LET names == GetFieldNames(m)
    IN U32(CURRENT_PROTOCOL_VERSION) \o U32(m.what) \o U32(Len(names))
       \o FlattenSeq([i \in DOMAIN names |->
            LET f == m.fields[names[i]]
            IN U32(Len(names[i]) + 1) \o names[i] \o <<0>> \o U32(f.type)
               \o U32(GetFieldContentsLength(f.type, f.items)) \o FieldData(f.type, f.items)])

GetFlattenedBuffer(m) == Flatten(m)

-----------------------------------------------------------------------------
(* Unflatten, reading buffer b from position p (readers of MessageWire).   *)
(* A string is read as it is: no decoding can fail.                        *)

\* Mutant: the string read with its NUL, inFile.read(n).
ReadCStringWithNul(b, p, n) ==
    LET u == Read(b, p, n)
    IN [ok |-> TRUE, v |-> u, p |-> p + Len(u)]

\* inFile.read(n - 1); inFile.read(1): a name or a CSTR item.
ReadCString(b, p, n) ==
    LET u == Read(b, p, n - 1)
    IN [ok |-> TRUE, v |-> u, p |-> MinOf(p + Len(u) + 1, Len(b) + 1)]

StringItem(b, p) ==
    LET n == ReadU32(b, p)
    IN IF ~n.ok THEN n ELSE [ReadCString(b, n.p, n.v) EXCEPT !.v = [str |-> @]]

\* inFile.read(struct.unpack("<L", inFile.read(4))[0]): an item of a type
\* Flatten does not know.
BufferItem(b, p) ==
    LET n == ReadU32(b, p)
    IN IF ~n.ok THEN n
       ELSE LET d == Read(b, n.p, n.v) IN [ok |-> TRUE, v |-> [str |-> d], p |-> n.p + Len(d)]

\* k more items of a CSTR field (kind "str") or of the else branch.
RECURSIVE ReadItems(_, _, _, _, _)
ReadItems(kind, b, p, k, acc) ==
    IF k = 0 THEN [ok |-> TRUE, v |-> acc, p |-> p]
    ELSE LET r == IF kind = "str" THEN StringItem(b, p) ELSE BufferItem(b, p)
         IN IF r.ok THEN ReadItems(kind, b, r.p, k - 1, Append(acc, r.v)) ELSE Fail(r.p)

CountedItems(kind, b, p) ==
    LET n == ReadU32(b, p)
    IN IF n.ok THEN ReadItems(kind, b, n.p, n.v, <<>>) ELSE n

\* _longIs64Bits == 0: fieldDataLength/8 times struct.unpack("<q", read(8)).
RECURSIVE Int64Items(_, _, _, _)
Int64Items(b, p, k, acc) ==
    IF k = 0 THEN [ok |-> TRUE, v |-> acc, p |-> p]
    ELSE IF Len(b) - p + 1 < 8 THEN Fail(Len(b) + 1)
    ELSE Int64Items(b, p + 8, k - 1, Append(acc, [int |-> FromLES(SubSeq(b, p, p + 7))]))

RECURSIVE Unflatten(_, _), SubMessages(_, _, _, _), SubMessage(_, _, _, _, _),
          FieldContents(_, _, _, _), ReadField(_, _), ReadFields(_, _, _, _),
          NextField(_, _, _, _)

\* One sub-Message of n bytes has been read: fieldDataLength -= n + 4.
SubMessage(b, len, n, acc, sub) ==
    IF ~sub.ok THEN Fail(sub.p)
    ELSE SubMessages(b, sub.p, len - (n + 4), Append(acc, [msg |-> sub.m]))

\* The MSGG branch: while fieldDataLength > 0, a length then a sub-Message.
SubMessages(b, p, len, acc) ==
    IF len <= 0 THEN [ok |-> TRUE, v |-> acc, p |-> p]
    ELSE LET n == ReadU32(b, p)
         IN IF ~n.ok THEN n ELSE SubMessage(b, len, n.v, acc, Unflatten(b, n.p))

\* The if/elif chain on fieldTypeCode.
FieldContents(b, p, t, len) ==
    CASE t \in NumericTypes \ {B_INT64_TYPE} -> ReadArray(b, p, t, len)
      [] t = B_INT64_TYPE ->
            IF LongIs64Bits THEN ReadArray(b, p, t, len) ELSE Int64Items(b, p, len \div 8, <<>>)
      [] t = B_MESSAGE_TYPE -> SubMessages(b, p, len, <<>>)
      [] t = B_STRING_TYPE  -> CountedItems("str", b, p)
      [] OTHER              -> CountedItems("buf", b, p)

\* The contents c of a field named name of type t have been read.
FieldRead(name, t, c) ==
    IF ~c.ok THEN c ELSE [ok |-> TRUE, p |-> c.p, name |-> name, type |-> t, items |-> c.v]

\* One iteration of the field loop: name, NUL, type and length, contents.
ReadField(b, p) ==
    LET n == ReadU32(b, p)
        name == ReadCString(b, n.p, n.v)
        hdr == Read(b, name.p, 8)
    IN CASE ~n.ok -> n
         [] Len(hdr) < 8 -> Fail(Len(b) + 1)
         [] OTHER -> FieldRead(name.v, FromLEU(SubSeq(hdr, 1, 4)),
                               FieldContents(b, name.p + 8, FromLEU(SubSeq(hdr, 1, 4)),
                                             FromLEU(SubSeq(hdr, 5, 8))))

\* Field f has been read (or failed); self.PutFieldContents, then the next.
NextField(b, k, m, f) ==
    IF f.ok THEN ReadFields(b, f.p, k - 1, PutFieldContents(m, f.name, f.type, f.items))
    ELSE [ok |-> FALSE, m |-> m, p |-> f.p]

ReadFields(b, p, k, m) ==
    IF k = 0 THEN [ok |-> TRUE, m |-> m, p |-> p] ELSE NextField(b, k, m, ReadField(b, p))

\* Clear(); the header (self.what is assigned by the unpack, before the
\* version is checked; the three-argument raise then raises TypeError, as
\* an int is no traceback); then numFields fields.
Unflatten(b, p) ==
    LET h == Read(b, p, 12)
        m == EmptyMessage(FromLEU(SubSeq(h, 5, 8)))
    IN CASE Len(h) < 12 -> [ok |-> FALSE, m |-> EmptyMessage(0), p |-> Len(b) + 1]
         [] FromLEU(SubSeq(h, 1, 4)) # CURRENT_PROTOCOL_VERSION -> [ok |-> FALSE, m |-> m, p |-> p + 12]
         [] OTHER -> ReadFields(b, p + 12, FromLEU(SubSeq(h, 9, 12)), m)

-----------------------------------------------------------------------------
(* Operations on one Message object.                                       *)

\* Message(what)
Init == \E w \in Whats : msg = EmptyMessage(w)

New(w) == msg' = EmptyMessage(w)

Clear == msg' = EmptyMessage(0)

\* PutFieldContents and its Put<Type> wrappers: a list is stored as given,
\* anything else as a one-item list.
Put(name, in) ==
    msg' = PutFieldContents(msg, name, in.type,
                            IF "list" \in DOMAIN in THEN in.list ELSE <<in.item>>)

\* if self.__fields.has_key(fieldName): del self.__fields[fieldName]
RemoveName(name) ==
    /\ name \in DOMAIN msg.fields
    /\ msg' = [msg EXCEPT !.fields = [n \in DOMAIN @ \ {name} |-> @[n]]]

\* SetFromFlattenedBuffer(buf), buf being the first k bytes of what this
\* Message flattens to.  When Unflatten raises, the Message keeps the
\* fields read before.
SetFromFlattenedBuffer(k) ==
    msg' = Unflatten(SubSeq(GetFlattenedBuffer(msg), 1, k), 1).m

MessageNext ==
    \/ \E w \in Whats : New(w)
    \/ Clear
    \/ \E name \in Names, in \in PutInputs : Put(name, in)
    \/ \E name \in Names : RemoveName(name)
    \/ \E k \in 0..Len(GetFlattenedBuffer(msg)) : SetFromFlattenedBuffer(k)

-----------------------------------------------------------------------------
(* Properties.                                                             *)

\* Spec 4.2.3: FlattenedSize() equals the number of bytes Flatten() writes.
\* A byte-string name or item has len() equal to the bytes written, so the
\* Python 3 class's miscount of non-ASCII text cannot happen here.
SizeMatches == FlattenedSize(msg) = Len(Flatten(msg))

\* Spec 8.1, up to field order: Unflatten(Flatten(m)) gives back the what
\* code and a dict with the same names, types and items, on either build
\* of INT64 reading and through nested MSGG fields.
RoundTrip == LET r == Unflatten(Flatten(msg), 1) IN r.ok /\ r.m = msg

=============================================================================
