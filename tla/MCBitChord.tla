----------------------------- MODULE MCBitChord -----------------------------
(* BitChord(40): two words, the second with 24 unused tail bits.            *)
EXTENDS BitChord

MCNumBits == 40
\* First and last bit of each word.
MCIndices == {0, 31, 32, 39}
\* A bit index in the unused tail of the last word.
MCIndicesTail == MCIndices \cup {45}
MCWordInputs == {<<0, {0, 31}>>, <<1, {7}>>, <<1, {}>>}
\* A word value with a bit above NumBits.
MCWordInputsTail == MCWordInputs \cup {<<1, {31}>>}
\* Encodings of the same size, a larger one whose second word has a bit in
\* our tail, and a smaller one.
MCEncodings ==
    { [nb |-> 40, words |-> <<{5}, {0, 7}>>],
      [nb |-> 96, words |-> <<{31}, {3, 20}, {1}>>],
      [nb |-> 8,  words |-> <<{2}>>] }
\* ... and the larger one cut short after its second word.
MCEncodingsTruncated ==
    MCEncodings \cup {[nb |-> 96, words |-> <<{31}, {3, 20}>>]}
====
