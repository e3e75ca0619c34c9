---------------------------- MODULE MCCodecInputs ----------------------------
(* Small inputs for the two Message classes: two or three field names and  *)
(* one input per kind of field.  Python 3 names are code-point sequences   *)
(* ("a" = <<97>>, "e-acute" = <<233>>, two UTF-8 bytes); Python 2 names    *)
(* are byte strings.                                                       *)
EXTENDS MessageWire

MCWhats == {0, 7}

MCNames == {<<97>>, <<98>>}
MCNamesNonAscii == {<<97>>, <<233>>}

\* A sub-Message for MSGG fields: what 5, one INT32 field "b" = [-2].
MCSub == [what |-> 5, fields |-> <<[name |-> <<98>>, type |-> B_INT32_TYPE,
                                    items |-> <<[int |-> -2]>>]>>]

MCPutInputs ==
    { [type |-> B_INT32_TYPE, list |-> <<[int |-> -1], [int |-> 300]>>],
      [type |-> B_INT8_TYPE, item |-> [int |-> -1]],
      [type |-> B_STRING_TYPE, item |-> [str |-> <<97, 233>>]],
      [type |-> B_MESSAGE_TYPE, item |-> [msg |-> MCSub]],
      [type |-> B_RAW_TYPE, list |-> <<[raw |-> <<0, 255>>]>>] }

\* The test stub's PutFieldContents("data", 555, [str, ...]): str items
\* under a type code Flatten does not know.
MCPutInputsStrData ==
    MCPutInputs \cup {[type |-> 555, list |-> <<[str |-> <<97>>]>>]}

\* A BitChord(40) carried by PutFlat / GetFlat: bit 39 lies in the second
\* word, which a cut buffer loses first; a list of two BitChords puts two
\* items, so a cut can keep the first whole and shorten the second; an
\* INT32 item under the same name is a type GetFlat must not take.
MCFlatBits      == 40
MCFlatIndices   == {39}
MCFlatNames     == {<<97>>}
MCFlatPutInputs == {[type |-> B_INT32_TYPE, item |-> [int |-> -1]]}
MCFlatCounts    == 0..2
\* The first, last, and one past the last item of a one-item field.
MCGetIndices    == {0, -1, 1}

-----------------------------------------------------------------------------
(* Python 2.  "a", "_zlib" and "b" hash to slots 0, 1 and 3 of a dict's    *)
(* first 8-slot table (64-bit string hash), so keys() lists them in that   *)
(* order whatever the order they were put in.                              *)

MC2Whats == {7}

MC2Names == {<<97>>, <<95, 122, 108, 105, 98>>}
MC2HashOrder == <<<<97>>, <<95, 122, 108, 105, 98>>, <<98>>>>

\* A sub-Message: what 5, one INT64 field "b" = [-2].
MC2Sub == [what |-> 5, fields |-> (<<98>> :> [type |-> B_INT64_TYPE,
                                              items |-> <<[int |-> -2]>>])]

\* INT64 (sign and carry), a nested Message, and a RAWT byte string (under
\* "_zlib" it is a user's field the envelope code takes for a compressed
\* one).  CSTR items are left to the Python 3 side, for the run's size.
MC2PutInputs ==
    { [type |-> B_INT64_TYPE, list |-> <<[int |-> -1], [int |-> 300]>>],
      [type |-> B_MESSAGE_TYPE, item |-> [msg |-> MC2Sub]],
      [type |-> B_RAW_TYPE, item |-> [str |-> <<0, 255>>]] }
=============================================================================
