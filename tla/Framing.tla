------------------------------ MODULE Framing ------------------------------
(***************************************************************************)
(* The wire format: how a frame is laid out in bytes, and how complete     *)
(* frames are taken off the front of a buffer (protocol.py).               *)
(***************************************************************************)
EXTENDS Integers, SequencesExt

Magic == 252

Byte == 0..255

\* A sequence number of two bytes, an address of six, and the payload.
RawFrame == [seq : Seq(Byte), mac : Seq(Byte), payload : Seq(Byte)]

\* Python's s[i:j].
Slice(s, i, j) == SubSeq(s, i + 1, IF j < Len(s) THEN j ELSE Len(s))

\* Exclusive or of two bytes: each bit is the parity of its two.
Xor(x, y) ==
  LET bit(w) == w * ((x \div w + y \div w) % 2)
  IN  bit(1) + bit(2) + bit(4) + bit(8) + bit(16) + bit(32) + bit(64) + bit(128)

\* Mutant: the checksum is a sum.
ChecksumSum(s) ==
  LET upTo[i \in 0..Len(s)] == IF i = 0 THEN 0 ELSE upTo[i - 1] + s[i]
  IN  upTo[Len(s)]

Checksum(s) ==
  LET upTo[i \in 0..Len(s)] == IF i = 0 THEN 0 ELSE Xor(upTo[i - 1], s[i])
  IN  upTo[Len(s)]

Encode(f) ==
  LET body == f.seq \o f.mac \o f.payload
      tail == <<Len(body) \div 256, Len(body) % 256>> \o body
  IN  <<Magic>> \o tail \o <<Checksum(tail)>>

\* The length field leaves out the magic, itself and the checksum.
Total(buf) == buf[2] * 256 + buf[3] + 4

\* Mutant: the checksum is taken for a byte of the payload.
DecodeLong(raw) ==
  [seq |-> Slice(raw, 3, 5), mac |-> Slice(raw, 5, 11), payload |-> Slice(raw, 11, Len(raw))]

Decode(raw) ==
  [seq |-> Slice(raw, 3, 5), mac |-> Slice(raw, 5, 11), payload |-> Slice(raw, 11, Len(raw) - 1)]

\* Bytes in which no frame starts.
Quiet(s) == ~Contains(s, Magic)

\* A buffer out of step: everything before the next magic is skipped.
Resync(buf) ==
  LET at == SelectInSeq(buf, LAMBDA b : b = Magic)
  IN  IF at = 0 THEN <<>> ELSE SubSeq(buf, at, Len(buf))

Complete(buf) == Len(buf) >= 3 /\ Len(buf) >= Total(buf)

\* The frame at the front of a buffer, and what follows it.
First(buf) == Decode(SubSeq(buf, 1, Total(buf)))

Rest(buf) == SubSeq(buf, Total(buf) + 1, Len(buf))

\* Frame.parse, called until it returns no frame: the bytes it skipped for none
\* stay in the buffer.
Drained[buf \in Seq(Byte)] ==
  LET from == Resync(buf)
      after == Drained[Rest(from)]
  IN  IF Complete(from)
      THEN [frames |-> <<First(from)>> \o after.frames, left |-> after.left]
      ELSE [frames |-> <<>>, left |-> buf]

\* Mutant: the rest of an incomplete frame is forgotten.
IterFramesForgetful(buf) == [Drained[buf] EXCEPT !.left = <<>>]

\* Every complete frame of a buffer, and the buffer as it is left.
IterFrames(buf) == Drained[buf]

=============================================================================
