--------------------------- MODULE MCNetTransport ---------------------------
(* Rings of two bytes, an output buffer of three that a doubled byte does  *)
(* not always fit, and reads of one to three bytes of streams that hold    *)
(* every Telnet element, whole, cut off and nested, and more data than the *)
(* input ring takes: every element is cut at every place.  A call that was *)
(* dialled offers again, or breaks, once, at any place.                    *)
EXTENDS NetTransport

MCByte == {"x", "IAC", "WILL", "WONT", "DO", "DONT", "SB", "SE", "CMD", "BINARY"}
MCGuestByte == {"x", "IAC"}

MCStreams == {
  <<"x", "IAC", "IAC", "SB", "SE", "x">>,
  <<"IAC", "WILL", "BINARY", "IAC", "WONT", "x">>,
  <<"IAC", "DO", "BINARY", "IAC", "DONT", "BINARY">>,
  <<"IAC", "WILL", "IAC", "IAC", "DO", "x">>,
  <<"IAC", "SB", "IAC", "IAC", "SE", "IAC", "SE", "x">>,
  <<"IAC", "SB", "IAC", "x", "SE", "IAC", "SE">>,
  <<"IAC", "CMD", "x", "IAC", "IAC", "x">>}
=============================================================================
