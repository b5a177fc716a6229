---------------------------- MODULE MCStreamRead ----------------------------
EXTENDS StreamRead
(* An answer that grows, and a candidate that is not its continuation. *)
CandidateTexts == {<<>>, <<"a">>, <<"a", "b">>, <<"b">>}
=============================================================================
