------------------------------ MODULE WsFrames ------------------------------
(***************************************************************************)
(* Web socket frames (modules/websock/websock.cpp): the headers that the   *)
(* two sends() put before a message, and what decodeframe makes of the     *)
(* bytes of one recv.  Told and Arrival are the other side, as RFC 6455    *)
(* has it.  A header is a sequence of bytes; a payload is its length and   *)
(* the place of its first zero byte.  The specification tries messages and *)
(* arrivals one by one.                                                    *)
(***************************************************************************)
EXTENDS Integers, Sequences

CONSTANTS
  Lens,   \* the lengths that are tried
  NoFrame \* nothing has been read

\* A length has 32 bits.
ASSUME LensAssumption == \A n \in Lens : n \in Nat /\ n \div 65536 < 65536

VARIABLES
  len, \* the length of a message that is sent
  got  \* what one recv has read
frameVars == <<len, got>>

-----------------------------------------------------------------------------
(* websock::sends                                                          *)

\* static_cast<unsigned char>
Byte(n) == n % 256

\* Mutant of TextLimit: the marker of longer messages is taken for a length.
TextLimitPast == 126

TextLimit == 125

\* const char*: the length of a text.
TextHead(n) ==
  IF n <= TextLimit THEN <<129, Byte(n)>> ELSE <<129, 126, Byte(n \div 256), Byte(n)>>

WordLimit == 65535

\* unsigned char*, size_t
BinaryHead(n) ==
  IF n <= 126 THEN <<130, Byte(n)>>
  ELSE IF n < WordLimit THEN <<130, 126, Byte(n \div 256), Byte(n)>>
  ELSE <<130, 127, 0, 0, 0, 0, Byte(n \div 16777216), Byte(n \div 65536), Byte(n \div 256), Byte(n)>>

\* The client's reading of a header: the length of what follows, or -1 when it
\* takes the header to be longer or shorter than it is.
Word(head, k) == head[k] * 256 + head[k + 1]
Told(head) ==
  IF head[2] <= 125 /\ Len(head) = 2 THEN head[2]
  ELSE IF head[2] = 126 /\ Len(head) = 4 THEN Word(head, 3)
  ELSE IF head[2] = 127 /\ Len(head) = 10 THEN Word(head, 7) * 65536 + Word(head, 9)
  ELSE -1

-----------------------------------------------------------------------------
(* websock::decodeframe                                                    *)

Opcodes == {"text", "binary", "ping", "pong", "close", "other"}

\* A frame as a client forms it, and how much of its payload one recv has read
\* (what follows the frame is not looked at).  zero: the place of the first zero
\* byte, or the length.
Arrivals == [fin : BOOLEAN, mask : BOOLEAN, opcode : Opcodes, size : Lens, have : Lens,
             zero : Lens]
Possible(f) == f.have <= f.size /\ f.zero <= f.size

Len7(f)  == IF f.size <= 125 THEN f.size ELSE IF f.size < 65536 THEN 126 ELSE 127
Len16(f) == f.size

\* ret; the tests of the extension bits and of the length are overwritten.
Error(f) ==
  \/ f.opcode = "other"
  \/ f.opcode # "close" /\ (~f.fin \/ ~f.mask)
  \/ f.opcode = "text" /\ Len7(f) = 127

\* Mutant of PayloadLength: the marker 126 is taken for the length.
MarkerTaken(f) == IF f.opcode = "text" THEN Len7(f) ELSE 0

PayloadLength(f) ==
  IF f.opcode # "text" THEN 0 ELSE IF Len7(f) = 126 THEN Len16(f) ELSE Len7(f)

\* outMessage: its length, and whether it is made of bytes that have arrived.  The
\* assignment of a char* ends at a zero byte; bytes that are missing are zeros
\* under the mask, so that the message goes on into them.
Nothing == [size |-> 0, real |-> TRUE]
OutMessage(f) ==
  IF Error(f) \/ PayloadLength(f) = 0 THEN Nothing
  ELSE IF f.zero < f.have THEN [size |-> f.zero, real |-> TRUE]
  ELSE [size |-> PayloadLength(f), real |-> f.have >= PayloadLength(f)]

-----------------------------------------------------------------------------
FramesInit == len \in Lens /\ got = NoFrame

Sends   == len' \in Lens /\ UNCHANGED got
Receive == got = NoFrame /\ got' \in {f \in Arrivals : Possible(f)} /\ UNCHANGED len
Passed  == got # NoFrame /\ got' = NoFrame /\ UNCHANGED len

FramesNext == Sends \/ Receive \/ Passed
FramesSpec == FramesInit /\ [][FramesNext]_frameVars

-----------------------------------------------------------------------------
(* Properties                                                              *)

FramesTypeOK == len \in Lens /\ got \in {f \in Arrivals : Possible(f)} \cup {NoFrame}

\* A client reads the length of a text out of its header exactly when the text
\* is shorter than 65536 bytes: longer ones get the low 16 bits of their length
\* (websock.cpp:273).
TextTold == len < 65536 <=> Told(TextHead(len)) = len

\* The same for binary messages, with one exception: 126 bytes are announced by
\* the marker of the 16-bit form without the 16 bits (websock.cpp:289).
BinaryTold == len # 126 <=> Told(BinaryHead(len)) = len

\* A message reaches the script as it was sent exactly when it is the text of one
\* final, masked frame shorter than 65536 bytes, without a zero byte, that one
\* recv has read to its end.
Understood ==
  got # NoFrame /\ got.size > 0 =>
    (OutMessage(got) = [size |-> got.size, real |-> TRUE]
     <=> /\ got.opcode = "text" /\ got.fin /\ got.mask /\ got.size < 65536
         /\ got.have = got.size /\ got.zero = got.size)

\* What is not in a frame reaches the script only when a text is cut by recv.
MadeUp ==
  got # NoFrame /\ ~OutMessage(got).real => got.opcode = "text" /\ got.have < got.size

\* Every client is told the length of what it is sent, but for those exceptions.
LengthsTold == TextTold /\ BinaryTold

\* The decoder passes on whole short texts and loses or garbles the rest, as said.
Decoded == Understood /\ MadeUp
=============================================================================
