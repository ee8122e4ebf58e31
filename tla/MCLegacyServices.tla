-------------------------- MODULE MCLegacyServices --------------------------
(***************************************************************************)
(* An instance of LegacyServices for TLC.                                  *)
(***************************************************************************)
EXTENDS LegacyServices, TLC

CONSTANTS d1, e1, e2, m1, m2, k1, k2

\* Two consumers of one message, and two messages of one consumer.
SomeScenes == {[letters |-> {m1}, readers |-> Readers], [letters |-> Letters, readers |-> {k1}]}

TwoParts == [d \in Docs |-> 2]

\* Two pages and more, with an empty one, a scanned one, noise, blanks of every
\* kind and sentences of different lengths.
Written1 == [written |-> <<"letter", "stop", "blank", "blank", "letter", "noise">>, scan |-> FALSE]
Written2 == [written |-> <<"line", "line", "line", "letter", "blank", "line", "letter">>, scan |-> FALSE]
Blank    == [written |-> <<"blank", "noise">>, scan |-> FALSE]
Scanned  == [written |-> <<"letter", "line">>, scan |-> TRUE]

SomeFiles == {<<Written1, Written2>>, <<Scanned, Written1>>, <<Blank, Written2, Blank, Scanned>>, <<>>}
=============================================================================
