---------------------------- MODULE MCBrowseFlow ----------------------------
(* Calls meet only in the snapshot, which Reload changes at any time: one call *)
(* sees all that two would do to each other.                                   *)
EXTENDS BrowseFlow

CONSTANT c1

Calls == {c1}

\* "0", "7", "13", "31", "00", "007", "32" (which wraps to 0), "45" (to 13), "",
\* "x" and "1x".
Texts == {<<0>>, <<7>>, <<1, 3>>, <<3, 1>>, <<0, 0>>, <<0, 0, 7>>, <<3, 2>>, <<4, 5>>, <<>>,
          <<NonDigit>>, <<1, NonDigit>>}
Items == {1, 12, 20}
Settings == {0, 1, 2, 3, Unusable}
=============================================================================
