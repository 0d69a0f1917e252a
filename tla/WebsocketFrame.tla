-------------------------- MODULE WebsocketFrame --------------------------
(***************************************************************************)
(* The frames of websocket.hpp.  A frame is its header and its payload; a   *)
(* byte of the header is a number, a byte of the payload a pair of its       *)
(* position in the message and the index of the masking key's byte it is    *)
(* combined with.                                                           *)
(***************************************************************************)
EXTENDS Naturals, SequencesExt

Plain == 4      \* not combined with a byte of the key, whose bytes are 0 .. 3
Garbled == 5    \* combined with two different ones

\* A byte combined twice with one byte of the key is what it was.
Xor(byte, k) == [byte EXCEPT ![2] = CASE @ = Plain -> k [] @ = k -> Plain [] OTHER -> Garbled]

Message(n) == [i \in 1 .. n |-> <<i, Plain>>]

\* What a browser sends: a masked text frame with its length in network order.
ClientFrame(message) ==
    LET n == Len(message)
        size == IF n <= 125 THEN <<128 + n>> ELSE <<128 + 126, n \div 256, n % 256>>
        masked == [i \in 1 .. n |-> Xor(message[i], (i - 1) % 4)]
    IN [header |-> <<129>> \o size, mask |-> TRUE, payload |-> masked]

\* Mutant: one byte more is taken for a short length.
FrameSizeOffByOne(n) ==
    CASE n <= 126 -> <<n>>
      [] n > 126 /\ n <= 65535 -> <<126, (n \div 256) % 256, n % 256>>
      [] OTHER -> <<>>

\* The length in the header of the server's frames: network order in two bytes,
\* and above 65535 none at all.
FrameSize(n) ==
    CASE n <= 125 -> <<n>>
      [] n > 125 /\ n <= 65535 -> <<126, (n \div 256) % 256, n % 256>>
      [] OTHER -> <<>>

\* Websocket::create_frame: an unmasked text frame.
CreateFrame(message) ==
    [header |-> <<129>> \o FrameSize(Len(message)), mask |-> FALSE, payload |-> message]

\* Websocket::parse_frame: the bytes after the header, at most as many as were
\* read, without the mask.  A two byte length is read in the host's order, low
\* byte first; of an eight byte length only the first two bytes are read.
ParseFrame(frame) ==
    LET len == frame.header[2] % 128
        declared == CASE len = 126 -> frame.header[3] + 256 * frame.header[4]
                      [] len = 127 -> frame.header[3] + 256 * frame.header[4]
                      [] OTHER -> len
        available == Len(frame.payload)
        n == IF declared < available THEN declared ELSE available
    IN [i \in 1 .. n |-> IF frame.mask THEN Xor(frame.payload[i], (i - 1) % 4) ELSE frame.payload[i]]

\* What a browser makes of a frame of the server.
BrowserReads(frame) ==
    LET len == frame.header[2]
        whole == IF len = 126
                 THEN Len(frame.header) = 4 /\ Len(frame.payload) = 256 * frame.header[3] + frame.header[4]
                 ELSE len < 126 /\ Len(frame.payload) = len
    IN IF whole THEN frame.payload ELSE <<>>
=============================================================================
