---------------------------- MODULE MCSplitText ----------------------------
(***************************************************************************)
(* All texts of a few characters, and small instances of the answering and *)
(* the vector service, for TLC.                                            *)
(***************************************************************************)
EXTENDS TextAndSearch

CONSTANTS MaxLength, p1, p2, p3, p4, p5

ShortTexts == BoundedSeq(Kinds, MaxLength)

\* Of two organizations, indexed or not, with a stop word and without.
Row(org, doc, words, indexed) == [org |-> org, doc |-> doc, words |-> words, indexed |-> indexed]
SmallLibrary ==
    {Row("o1", "d1", {"x", "the"}, TRUE), Row("o1", "d2", {"x"}, TRUE), Row("o1", "d3", {"x"}, FALSE),
     Row("o2", "d4", {"x"}, TRUE), Row("o1", "d2", {"the"}, TRUE)}

\* Tokens with a whole citation, parts of one, and none.
SomeContents == {<<"w">>, <<"[">>, <<"2", "]">>, <<"[", "1", "]">>}

Filters == {{p1, p2, p4}, {p1, p3, p4, p5}}
=============================================================================
