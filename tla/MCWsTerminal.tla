---------------------------- MODULE MCWsTerminal ----------------------------
(* Instances of WsTerminal for TLC.                                         *)
EXTENDS WsTerminal

\* One of the texts starts with a brace.
SecondKey == {2}
=============================================================================
