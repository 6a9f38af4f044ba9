--------------------------- MODULE MCStreamParser ---------------------------
(***************************************************************************)
(* The parsers for TLC: messages with and without a body, with a malformed *)
(* and a folded header, with a length that is too short, without one, with *)
(* two, and with a bad start line.                                         *)
(***************************************************************************)
EXTENDS StreamParser

MCMessages == {
  <<"start", "L0", "header", "">>,
  <<"start", "nocolon", "cont", "L1", "", "body">>,
  <<"start", "L1", "", "body", "body">>,
  <<"start", "header", "", "body">>,
  <<"start", "L0", "L0", "">>,
  <<"bad", "L1", "", "body">> }
=============================================================================
