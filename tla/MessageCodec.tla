---------------------------- MODULE MessageCodec ----------------------------
(***************************************************************************)
(* The Python 3 Message class (src/lang/python3/message.py): a `what` code *)
(* and an insertion-ordered dict from field name to (type code, items),    *)
(* and its flattened form.  Flatten and Unflatten work on real bytes       *)
(* (integers 0..255), little-endian as on the hosts the code runs on       *)
(* (_dataNeedsSwap is False).                                              *)
(*                                                                         *)
(* Data:                                                                   *)
(*   a str is the sequence of its code points;                            *)
(*   an item is [int |-> i] (numeric types), [str |-> s], [msg |-> m]      *)
(*   (a nested Message) or [raw |-> bytes] (a bytes object);               *)
(*   a Message is [what |-> w, fields |-> <<[name, type, items], ...>>],   *)
(*   the field sequence in dict order.                                     *)
(* Floating-point types (FLOT, DBLE, BPNT, RECT) are left out.             *)
(***************************************************************************)
EXTENDS MessageWire

CONSTANTS
    Whats,      \* what codes given to Message(what)
    Names,      \* field names (sequences of code points)
    PutInputs   \* [type |-> t, list |-> items] or [type |-> t, item |-> x]

VARIABLE msg

-----------------------------------------------------------------------------
(* Text: Python 3 names and CSTR items are str, written as UTF-8.        *)

\* str.encode(): UTF-8 of each code point (the model's code points are
\* below 0x10000, so 1..3 bytes each).
Utf8Char(c) == CASE c < 128  -> <<c>>
                 [] c < 2048 -> <<192 + c \div 64, 128 + (c % 64)>>
                 [] OTHER    -> <<224 + c \div 4096, 128 + ((c \div 64) % 64), 128 + (c % 64)>>
Encode(s) == FlattenSeq([i \in DOMAIN s |-> Utf8Char(s[i])])

\* bytes.decode(): fails on a lead byte without its continuation bytes,
\* which is what a cut inside a character gives.
RECURSIVE Decode(_)
Decode(b) ==
    IF b = <<>> THEN [ok |-> TRUE, s |-> <<>>]
    ELSE LET n == CASE b[1] < 128 -> 1 [] b[1] \in 192..223 -> 2
                    [] b[1] \in 224..239 -> 3 [] OTHER -> 0
             wellFormed == n > 0 /\ n <= Len(b) /\ \A i \in 2..n : b[i] \in 128..191
             c == CASE n = 1 -> b[1]
                    [] n = 2 -> (b[1] - 192) * 64 + (b[2] - 128)
                    [] OTHER -> (b[1] - 224) * 4096 + (b[2] - 128) * 64 + (b[3] - 128)
             rest == Decode(SubSeq(b, n + 1, Len(b)))
         IN IF ~wellFormed THEN [ok |-> FALSE, s |-> <<>>]
            ELSE IF rest.ok THEN [ok |-> TRUE, s |-> <<c>> \o rest.s] ELSE rest

-----------------------------------------------------------------------------
(* The field dict.                                                         *)

EmptyMessage(w) == [what |-> w, fields |-> <<>>]

GetFieldNames(m) == [i \in DOMAIN m.fields |-> m.fields[i].name]

FieldIndex(m, name) == SelectInSeq(m.fields, LAMBDA f : f.name = name)

\* Assigning an existing key of a dict keeps its place; a new key goes last.
PutFieldContents(m, name, t, items) ==
    LET f == [name |-> name, type |-> t, items |-> items]
        i == FieldIndex(m, name)
    IN IF i = 0 THEN [m EXCEPT !.fields = Append(@, f)]
       ELSE [m EXCEPT !.fields[i] = f]

GetFieldContents(m, name) == m.fields[FieldIndex(m, name)].items
GetFieldType(m, name) == m.fields[FieldIndex(m, name)].type

\* GetFieldItem (lines 109-133) through GetFieldContents with a type filter
\* (lines 100-107): the index'th item, a negative index counting from the
\* end, or defaultValue when the name is absent, its type is neither t nor
\* t is B_ANY_TYPE, or the index is out of range.
GetFieldItem(m, name, t, defaultValue, index) ==
    LET i   == FieldIndex(m, name)
        fc  == m.fields[i].items
        num == Len(fc)
    IN IF i = 0 \/ (t # B_ANY_TYPE /\ t # m.fields[i].type) THEN defaultValue
       ELSE IF index < -num \/ index >= num THEN defaultValue
       ELSE fc[IF index < 0 THEN num + index + 1 ELSE index + 1]

\* PutFlat (lines 383-399) of objects whose TypeCode() is tc and whose
\* Flatten() wrote the byte strings blobs: a list puts them all under tc,
\* an empty list puts nothing; a single object is put as one bytes item
\* (PutFieldContents wraps it in a list).
PutFlat(m, name, tc, blobs) ==
    IF blobs = <<>> THEN m
    ELSE PutFieldContents(m, name, tc, [i \in DOMAIN blobs |-> [raw |-> blobs[i]]])

-----------------------------------------------------------------------------
(* FlattenedSize and Flatten.  Python's len(str) counts code points.       *)

ItemLen(x) == IF "str" \in DOMAIN x THEN Len(x.str) ELSE Len(x.raw)

WriteUtf8StringWithHeader(s) == LET u == Encode(s) IN U32(Len(u) + 1) \o u \o <<0>>

RECURSIVE FlattenedSize(_), GetFieldContentsLength(_, _), Flatten(_), FieldData(_, _)

\* Mutant: a CSTR item counted without its NUL byte.
GetFieldContentsLengthNoNul(t, items) ==
    CASE t \in NumericTypes -> Len(items) * ItemSize(t)
      [] t = B_MESSAGE_TYPE ->
            Len(items) * 4 + SumFunction([i \in DOMAIN items |-> FlattenedSize(items[i].msg)])
      [] t = B_STRING_TYPE ->
            4 + SumFunction([i \in DOMAIN items |-> 4 + Len(Encode(items[i].str))])
      [] OTHER -> 4 + SumFunction([i \in DOMAIN items |-> 4 + ItemLen(items[i])])

GetFieldContentsLength(t, items) ==
    CASE t \in NumericTypes -> Len(items) * ItemSize(t)
      [] t = B_MESSAGE_TYPE ->
            Len(items) * 4 + SumFunction([i \in DOMAIN items |-> FlattenedSize(items[i].msg)])
      [] t = B_STRING_TYPE ->
            4 + SumFunction([i \in DOMAIN items |-> 4 + Len(Encode(items[i].str)) + 1])
      [] OTHER -> 4 + SumFunction([i \in DOMAIN items |-> 4 + ItemLen(items[i])])

FlattenedSize(m) ==
    12 + SumFunction([i \in DOMAIN m.fields |->
            LET f == m.fields[i]
            IN 4 + Len(f.name) + 1 + 4 + 4 + GetFieldContentsLength(f.type, f.items)])

\* What Flatten writes for a field's items after the (type, length) header.
FieldData(t, items) ==
    CASE t \in NumericTypes ->
            FlattenSeq([i \in DOMAIN items |-> LEBytes(items[i].int, ItemSize(t))])
      [] t = B_MESSAGE_TYPE ->
            FlattenSeq([i \in DOMAIN items |->
                U32(FlattenedSize(items[i].msg)) \o Flatten(items[i].msg)])
      [] t = B_STRING_TYPE ->
            U32(Len(items)) \o FlattenSeq([i \in DOMAIN items |->
                WriteUtf8StringWithHeader(items[i].str)])
      [] OTHER ->
            U32(Len(items)) \o FlattenSeq([i \in DOMAIN items |->
                IF "str" \in DOMAIN items[i]
                THEN WriteUtf8StringWithHeader(items[i].str)
                ELSE U32(Len(items[i].raw)) \o items[i].raw])

Flatten(m) ==
    U32(CURRENT_PROTOCOL_VERSION) \o U32(m.what) \o U32(Len(m.fields))
    \o FlattenSeq([i \in DOMAIN m.fields |->
          LET name == GetFieldNames(m)[i]
              t == GetFieldType(m, name)
              items == GetFieldContents(m, name)
          IN WriteUtf8StringWithHeader(name) \o U32(t)
             \o U32(GetFieldContentsLength(t, items)) \o FieldData(t, items)])

GetFlattenedBuffer(m) == Flatten(m)

-----------------------------------------------------------------------------
(* Unflatten, reading buffer b from position p.  inFile.read(k) returns    *)
(* what is left when fewer than k bytes remain (all of it for k < 0);      *)
(* struct.unpack raises on a short read, array.frombytes on a length that  *)
(* is not a multiple of the item size, decode() on bad UTF-8.  Every       *)
(* reader returns [ok, p] and its value; on a raise, the Message being     *)
(* built keeps what was put into it so far.                                *)

\* inFile.read(n - 1).decode(); inFile.read(1): a name or CSTR item.
ReadUtf8(b, p, n) ==
    LET u == Read(b, p, n - 1)
        d == Decode(u)
        q == p + Len(u)
    IN IF d.ok THEN [ok |-> TRUE, v |-> d.s, p |-> MinOf(q + 1, Len(b) + 1)]
       ELSE Fail(q)

StringItem(b, p) ==
    LET n == ReadU32(b, p)
    IN IF ~n.ok THEN n
       ELSE LET r == ReadUtf8(b, n.p, n.v) IN IF r.ok THEN [r EXCEPT !.v = [str |-> @]] ELSE r

RawItem(b, p) ==
    LET n == ReadU32(b, p)
    IN IF ~n.ok THEN n
       ELSE LET d == Read(b, n.p, n.v) IN [ok |-> TRUE, v |-> [raw |-> d], p |-> n.p + Len(d)]

\* k more items of a CSTR field (str) or of the else branch (raw).
RECURSIVE ReadItems(_, _, _, _, _)
ReadItems(kind, b, p, k, acc) ==
    IF k = 0 THEN [ok |-> TRUE, v |-> acc, p |-> p]
    ELSE LET r == IF kind = "str" THEN StringItem(b, p) ELSE RawItem(b, p)
         IN IF r.ok THEN ReadItems(kind, b, r.p, k - 1, Append(acc, r.v)) ELSE Fail(r.p)

\* numItems = struct.unpack("<L", ...); then numItems items.
CountedItems(kind, b, p) ==
    LET n == ReadU32(b, p)
    IN IF n.ok THEN ReadItems(kind, b, n.p, n.v, <<>>) ELSE n

RECURSIVE Unflatten(_, _), SubMessages(_, _, _, _), SubMessage(_, _, _, _, _),
          FieldContents(_, _, _, _), ReadField(_, _), ReadFields(_, _, _, _),
          NextField(_, _, _, _)

\* Mutant: the sub-Message's length word not subtracted from the field length.
SubMessageNoLengthWord(b, len, n, acc, sub) ==
    IF ~sub.ok THEN Fail(sub.p)
    ELSE SubMessages(b, sub.p, len - n, Append(acc, [msg |-> sub.m]))

\* One sub-Message of n bytes has been read: fieldDataLength -= n + 4.
SubMessage(b, len, n, acc, sub) ==
    IF ~sub.ok THEN Fail(sub.p)
    ELSE SubMessages(b, sub.p, len - (n + 4), Append(acc, [msg |-> sub.m]))

\* The MSGG branch: while fieldDataLength > 0, a length then a sub-Message.
SubMessages(b, p, len, acc) ==
    IF len <= 0 THEN [ok |-> TRUE, v |-> acc, p |-> p]
    ELSE LET n == ReadU32(b, p)
         IN IF ~n.ok THEN n ELSE SubMessage(b, len, n.v, acc, Unflatten(b, n.p))

\* The if/elif chain on fieldTypeCode.
FieldContents(b, p, t, len) ==
    CASE t \in NumericTypes   -> ReadArray(b, p, t, len)
      [] t = B_MESSAGE_TYPE -> SubMessages(b, p, len, <<>>)
      [] t = B_STRING_TYPE  -> CountedItems("str", b, p)
      [] OTHER              -> CountedItems("raw", b, p)

\* The contents c of a field named name of type t have been read.
FieldRead(name, t, c) ==
    IF ~c.ok THEN c ELSE [ok |-> TRUE, p |-> c.p, name |-> name, type |-> t, items |-> c.v]

\* One iteration of the field loop: name, NUL, type and length, contents.
ReadField(b, p) ==
    LET n == ReadU32(b, p)
        name == ReadUtf8(b, n.p, n.v)
        hdr == Read(b, name.p, 8)
    IN CASE ~n.ok -> n
         [] ~name.ok -> name
         [] Len(hdr) < 8 -> Fail(Len(b) + 1)
         [] OTHER -> FieldRead(name.v, FromLEU(SubSeq(hdr, 1, 4)),
                               FieldContents(b, name.p + 8, FromLEU(SubSeq(hdr, 1, 4)),
                                             FromLEU(SubSeq(hdr, 5, 8))))

\* Field f has been read (or failed); self.setFieldContents, then the next one.
NextField(b, k, m, f) ==
    IF f.ok THEN ReadFields(b, f.p, k - 1, PutFieldContents(m, f.name, f.type, f.items))
    ELSE [ok |-> FALSE, m |-> m, p |-> f.p]

ReadFields(b, p, k, m) ==
    IF k = 0 THEN [ok |-> TRUE, m |-> m, p |-> p] ELSE NextField(b, k, m, ReadField(b, p))

\* Clear(); the header (self.what is assigned only when unpack succeeds,
\* and before the version is checked); then numFields fields.
Unflatten(b, p) ==
    LET h == Read(b, p, 12)
        m == EmptyMessage(FromLEU(SubSeq(h, 5, 8)))
    IN CASE Len(h) < 12 -> [ok |-> FALSE, m |-> EmptyMessage(0), p |-> Len(b) + 1]
         [] FromLEU(SubSeq(h, 1, 4)) # CURRENT_PROTOCOL_VERSION -> [ok |-> FALSE, m |-> m, p |-> p + 12]
         [] OTHER -> ReadFields(b, p + 12, FromLEU(SubSeq(h, 9, 12)), m)

-----------------------------------------------------------------------------
(* Operations on one Message object.                                       *)

\* Message(what)
Init == \E w \in Whats : msg = EmptyMessage(w)

New(w) == msg' = EmptyMessage(w)

Clear == msg' = EmptyMessage(0)

\* PutFieldContents and its Put<Type> wrappers: a list is stored as given,
\* anything else as a one-item list.
Put(name, in) ==
    msg' = PutFieldContents(msg, name, in.type,
                            IF "list" \in DOMAIN in THEN in.list ELSE <<in.item>>)

RemoveName(name) ==
    /\ FieldIndex(msg, name) # 0
    /\ msg' = [msg EXCEPT !.fields = RemoveAt(@, FieldIndex(msg, name))]

\* SetFromFlattenedBuffer(buf), buf being the first k bytes of what this
\* Message flattens to: the whole buffer, or one cut short in transit.
\* When Unflatten raises, the Message keeps the fields read before.
SetFromFlattenedBuffer(k) ==
    msg' = Unflatten(SubSeq(GetFlattenedBuffer(msg), 1, k), 1).m

Next ==
    \/ \E w \in Whats : New(w)
    \/ Clear
    \/ \E name \in Names, in \in PutInputs : Put(name, in)
    \/ \E name \in Names : RemoveName(name)
    \/ \E k \in 0..Len(GetFlattenedBuffer(msg)) : SetFromFlattenedBuffer(k)

Spec == Init /\ [][Next]_msg

-----------------------------------------------------------------------------
(* Properties.                                                             *)

\* Spec 4.2.3 and 8.2: FlattenedSize() equals the number of bytes Flatten() writes
\* (the transceiver and a nested MSGG field announce a Message's length with
\* it before writing the bytes).
SizeMatches == FlattenedSize(msg) = Len(Flatten(msg))

\* Spec 8.1: Unflatten(Flatten(m)) gives m back: the what code, the fields in
\* insertion order, their types and items.
RoundTrip == LET r == Unflatten(Flatten(msg), 1) IN r.ok /\ r.m = msg

\* Spec 4.2.2: a buffer that ends before the Message it announces is complete
\* is rejected (TruncatedStream); Unflatten never accepts a proper prefix.
TruncationDetected ==
    LET b == Flatten(msg)
    IN \A k \in 0..(Len(b) - 1) : ~Unflatten(SubSeq(b, 1, k), 1).ok

=============================================================================
