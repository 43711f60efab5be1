--------------------------- MODULE MCFrameStream ---------------------------
(* Bytes are bits and the length prefix has two of them: payloads of up to  *)
(* three bits can be announced, of up to two can be sent. A first, empty,   *)
(* payload and one that ends like a header exercise the alignment.          *)
EXTENDS FrameStream

Payloads == [empty |-> <<>>, short |-> <<1>>, full |-> <<0, 1>>, huge |-> <<1, 0, 1>>]
MCMessage == DOMAIN Payloads
MCPayloadOf(m) == Payloads[m]

\* A frame whose payload no message has, and a header beyond MaxFrameSize.
Frames == [unknown |-> <<1, 0, 1, 1>>, oversized |-> <<1, 1>>]
MCForeign == DOMAIN Frames
MCBytesOf(f) == Frames[f]
=============================================================================
