------------------------------ MODULE MCValues ------------------------------
EXTENDS Values

\* both ends of every row of the table of well-formed sequences, and their neighbours
MCBytes == {65, 128, 143, 144, 159, 160, 191, 192, 193, 194, 223, 224, 225, 237, 238,
            240, 241, 244, 245}
MCByteStrings == BoundedSeq(MCBytes, 3) \cup {s \in [1 .. 4 -> MCBytes] : s[1] >= 240}

MCChars == {"a", "b", " ", "-", "0", "1", "2", "3", "9"}
MCWhite == {" "}
Short == BoundedSeq({"a", "b"}, 2)
MCCalls ==
  {Call("replace", s, 0, 0, o, n) : s \in BoundedSeq({"a", "b"}, 5), o \in Short,
                                    n \in Short \cup {<< "a", "b", "a" >>}}
  \cup {Call("slice", s, i, j, << >>, << >>) : s \in {SubSeq(<< "a", "b", " ", "a" >>, 1, n) : n \in 0 .. 4},
                                               i \in -2 .. 6, j \in -2 .. 6}
  \cup {Call("split_by_whitespace", s, 0, 0, << >>, << >>) : s \in BoundedSeq({"a", " "}, 6)}

MCIntegerTexts == BoundedSeq({"-", "0", "1", "2", "3", "9", "a"}, 4)
=============================================================================
