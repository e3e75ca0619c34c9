----------------------------- MODULE ZlibEnvelope -----------------------------
(***************************************************************************)
(* DeflateMessage and InflateMessage (src/python/zlib_utility_functions.py) *)
(* applied to a Python 2 Message variable, as the module's test does:      *)
(* msg = DeflateMessage(msg); msg = InflateMessage(msg).                   *)
(*                                                                         *)
(* The zlib stream is modelled at compressionLevel 0, where zlib's output  *)
(* is fixed: the two header bytes, the data as one stored block, and the   *)
(* empty stored block Z_SYNC_FLUSH appends.  Inflation decodes stored      *)
(* blocks; a cut stream gives the bytes it carries so far, as a            *)
(* decompressobj does.  Huffman-coded levels are not modelled.             *)
(***************************************************************************)
EXTENDS MessageCodecPy2

ZLIB_CODEC_HEADER_INDEPENDENT == 2053925219
MUSCLE_ZLIB_FIELD_NAME_STRING == <<95, 122, 108, 105, 98>>   \* "_zlib"
MUSCLE_ZLIB_HEADER_SIZE == 8

\* cobj = zlib.compressobj(0); cobj.compress(d) + cobj.flush(Z_SYNC_FLUSH):
\* CMF 0x78, FLG 0x01; a stored block (BFINAL 0) with LEN and NLEN = ~LEN;
\* then the empty stored block 00 00 00 FF FF.
Compressed(d) ==
    <<120, 1, 0>> \o LEBytes(Len(d), 2) \o LEBytes(65535 - Len(d), 2) \o d
    \o <<0, 0, 0, 255, 255>>

\* Inflating the blocks of z from position p: [ok, out].  A stored block
\* whose NLEN is not ~LEN is zlib.error; a cut block yields what has
\* arrived; what follows a final block is unused data.
RECURSIVE StoredBlocks(_, _)
StoredBlocks(z, p) ==
    IF Len(z) - p < 4 THEN [ok |-> p > Len(z) \/ z[p] \in {0, 1}, out |-> <<>>]
    ELSE LET n == FromLEU(SubSeq(z, p + 1, p + 2))
             d == Read(z, p + 5, n)
         IN CASE z[p] \notin {0, 1} -> [ok |-> FALSE, out |-> <<>>]
              [] FromLEU(SubSeq(z, p + 3, p + 4)) # 65535 - n -> [ok |-> FALSE, out |-> <<>>]
              [] z[p] = 1 \/ Len(d) < n -> [ok |-> TRUE, out |-> d]
              [] OTHER -> LET rest == StoredBlocks(z, p + 5 + n)
                          IN [ok |-> rest.ok, out |-> d \o rest.out]

\* Mutant: the zlib header taken for the first block.
DecompressNoHeader(z) == StoredBlocks(z, 1)

\* dobj.decompress(z, rawLen) + dobj.flush(): a header that is not zlib's is
\* zlib.error.  rawLen is the size Deflate recorded, never below the output.
Decompress(z) ==
    IF Len(z) < 2 THEN [ok |-> TRUE, out |-> <<>>]
    ELSE IF z[1] % 16 # 8 \/ (z[1] * 256 + z[2]) % 31 # 0 THEN [ok |-> FALSE, out |-> <<>>]
    ELSE StoredBlocks(z, 3)

ZlibItem(m) == GetFieldItem(m, MUSCLE_ZLIB_FIELD_NAME_STRING, B_RAW_TYPE, 0)

\* DeflateMessage(msg, 0, force): a Message already carrying a _zlib RAWT
\* item is returned as it is; else a Message with msg's what code and one
\* field, the header (magic, FlattenedSize) and the stream of Flatten(msg);
\* unless force is 0 and that is not smaller than msg.
DeflateMessage(m, force) ==
    IF ZlibItem(m) # {} THEN m
    ELSE LET defMsg == PutFieldContents(EmptyMessage(m.what), MUSCLE_ZLIB_FIELD_NAME_STRING,
                          B_RAW_TYPE, <<[str |-> U32(ZLIB_CODEC_HEADER_INDEPENDENT)
                                         \o U32(FlattenedSize(m)) \o Compressed(Flatten(m))]>>)
         IN IF force = 1 \/ FlattenedSize(defMsg) < FlattenedSize(m) THEN defMsg ELSE m

\* InflateMessage(msg): [ok, m].  A _zlib RAWT item of 8 bytes or more
\* starting with the magic is decompressed and unflattened into a new
\* Message; zlib.error or a raise in Unflatten propagates (ok FALSE).
\* Any other Message is returned as it is.
InflateMessage(m) ==
    LET c == ZlibItem(m)
        s == (CHOOSE x \in c : TRUE).str
        z == Decompress(SubSeq(s, MUSCLE_ZLIB_HEADER_SIZE + 1, Len(s)))
        r == Unflatten(z.out, 1)
    IN CASE c = {} -> [ok |-> TRUE, m |-> m]
         [] Len(s) < MUSCLE_ZLIB_HEADER_SIZE -> [ok |-> TRUE, m |-> m]
         [] FromLEU(SubSeq(s, 1, 4)) # ZLIB_CODEC_HEADER_INDEPENDENT -> [ok |-> TRUE, m |-> m]
         [] ~z.ok \/ ~r.ok -> [ok |-> FALSE, m |-> m]
         [] OTHER -> [ok |-> TRUE, m |-> r.m]

\* msg = DeflateMessage(msg, 0, force)
Deflate(force) == msg' = DeflateMessage(msg, force)

\* msg = InflateMessage(msg): when it raises, msg keeps its old value.
Inflate ==
    /\ InflateMessage(msg).ok
    /\ msg' = InflateMessage(msg).m

Next ==
    \/ MessageNext
    \/ \E force \in {0, 1} : Deflate(force)
    \/ Inflate

Spec == Init /\ [][Next]_msg

-----------------------------------------------------------------------------
(* Properties.                                                             *)

\* Spec 4.3 and scenario S2: for a Message without a _zlib RAWT item,
\* InflateMessage(DeflateMessage(m, force)) gives m back, for either force:
\* the envelope header, the stream framing and the inner Flatten/Unflatten
\* all have to agree, for Messages the user built, read back from a cut
\* buffer, or got from an earlier Inflate.
EnvelopeRoundTrip ==
    ZlibItem(msg) = {} =>
        \A force \in {0, 1} : InflateMessage(DeflateMessage(msg, force)) = [ok |-> TRUE, m |-> msg]

=============================================================================
