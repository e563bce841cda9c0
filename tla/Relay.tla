------------------------------- MODULE Relay -------------------------------
(***************************************************************************)
(* The bytes of one proxied connection, from the cloud to the device.  The *)
(* cloud writes frames, TCP hands the bytes over in chunks of its own      *)
(* making, and the pump writes each chunk on before it parses a copy of    *)
(* it.  Between its steps the pump of the other direction observes what    *)
(* the device reports, and the dashboard injects frames of its own into    *)
(* the stream to the device.  What is observed and injected is captured:   *)
(* in the global dump, in the file of a device that is identified, and     *)
(* once more where its handler does not know the command.                  *)
(***************************************************************************)
EXTENDS Framing

CONSTANTS
  Message,      \* the frames the cloud sends
  Command,      \* the frames the dashboard injects
  Report,       \* the frames the device sends
  KnownCommands, \* the command ids the device's handler decodes
  Noise,        \* byte strings the cloud may send between two frames
  MostFrames,   \* bound: frames of the cloud
  MostNoise,    \* bound: byte strings sent that are no frames
  MostReports,  \* bound: frames of the device
  MostCommands  \* bound: frames of the dashboard

\* What Frame.encode can lay out: the parts have their widths, and the length
\* fits its field.
Sendable == {f \in RawFrame : Len(f.seq) = 2 /\ Len(f.mac) = 6 /\ Len(f.payload) < 65528}

\* The commands can be told from what the cloud sends.
ASSUME FrameAssumption ==
  /\ Message \subseteq Sendable /\ Command \subseteq Sendable
  /\ Command \cap Message = {}
  /\ Report \subseteq RawFrame /\ Noise \subseteq Seq(Byte)
  /\ MostNoise \in Nat

\* Bytes between two frames that cannot be taken for the start of one.
NoiseHasNoMagic == \A bytes \in Noise : Quiet(bytes)

VARIABLES
  sent,      \* the frames of the cloud (history)
  noises,    \* how often the cloud sent something else
  wire,      \* bytes of the cloud that were not read
  chunk,     \* bytes read and written on, not yet parsed
  heard,     \* bytes of the cloud that were parsed (history)
  buffer,    \* what the pump keeps for its next turn
  frames,    \* the frames it has observed (history)
  delivered, \* bytes written to the device
  known,     \* whether the device is identified
  dump,      \* what write_capture recorded
  file,      \* what capture_device recorded
  unhandled, \* what capture_unhandled recorded
  spliced    \* whether a command was injected inside a frame (history)

cloudVars == <<sent, noises, wire>>
pumpVars == <<chunk, heard, buffer, frames>>
captureVars == <<dump, file, unhandled>>
vars == <<cloudVars, pumpVars, captureVars, delivered, known, spliced>>

Entry == [from : {"cloud", "device", "dashboard"}, frame : RawFrame]

TypeOK ==
  /\ sent \in Seq(Message)
  /\ noises \in 0..MostNoise
  /\ \A bytes \in {wire, chunk, heard, buffer, delivered} : bytes \in Seq(Byte)
  /\ frames \in Seq(RawFrame)
  /\ \A entries \in {dump, file, unhandled} : entries \in Seq(Entry)
  /\ known \in BOOLEAN /\ spliced \in BOOLEAN

Init ==
  /\ sent = <<>> /\ noises = 0 /\ wire = <<>>
  /\ chunk = <<>> /\ heard = <<>> /\ buffer = <<>> /\ frames = <<>>
  /\ dump = <<>> /\ file = <<>> /\ unhandled = <<>>
  /\ delivered = <<>> /\ known = FALSE /\ spliced = FALSE

\* The elements of a sequence that belong to a set.
Only(s, keep) ==
  LET upTo[i \in 0..Len(s)] ==
        IF i = 0 THEN <<>>
        ELSE IF s[i] \in keep THEN Append(upTo[i - 1], s[i]) ELSE upTo[i - 1]
  IN  upTo[Len(s)]

Captured(who, fs) == [i \in DOMAIN fs |-> [from |-> who, frame |-> fs[i]]]

\* DeviceHandler.is_unhandled, by the command of a frame; a handler that names no
\* commands decodes them all.
IsUnhandled(f) == KnownCommands # {} /\ Slice(f.payload, 2, 4) \notin KnownCommands

Unhandled(es) == Only(es, {e \in Entry : IsUnhandled(e.frame)})

CapturedFrom(who) == Only(dump, {e \in Entry : e.from = who})

-----------------------------------------------------------------------------

CloudSends(f) ==
  /\ Len(sent) < MostFrames
  /\ sent' = Append(sent, f)
  /\ wire' = wire \o Encode(f)
  /\ UNCHANGED <<noises, pumpVars, captureVars, delivered, known, spliced>>

CloudStrays(bytes) ==
  /\ noises < MostNoise
  /\ noises' = noises + 1
  /\ wire' = wire \o bytes
  /\ UNCHANGED <<sent, pumpVars, captureVars, delivered, known, spliced>>

\* Mutant: what is written on is the buffer, with what it held already.
ForwardBuffer(n) ==
  /\ chunk = <<>>
  /\ chunk' = SubSeq(wire, 1, n)
  /\ wire' = SubSeq(wire, n + 1, Len(wire))
  /\ delivered' = delivered \o buffer \o chunk'
  /\ UNCHANGED <<sent, noises, heard, buffer, frames, captureVars, known, spliced>>

\* The pump reads n bytes, writes them on and waits for the device to take them.
Forward(n) ==
  /\ chunk = <<>>
  /\ chunk' = SubSeq(wire, 1, n)
  /\ wire' = SubSeq(wire, n + 1, Len(wire))
  /\ delivered' = delivered \o chunk'
  /\ UNCHANGED <<sent, noises, heard, buffer, frames, captureVars, known, spliced>>

\* The files of a device that is identified.
CaptureDevice(es) ==
  /\ file' = file \o es
  /\ unhandled' = unhandled \o Unhandled(es)

\* Mutant: nothing is captured of a device that is not identified.
CaptureKnown(es) ==
  \/ known /\ dump' = dump \o es /\ CaptureDevice(es)
  \/ ~known /\ UNCHANGED captureVars

\* ProxySession.observe: the dump has every frame, the files what follows the
\* identification.
Capture(es) ==
  /\ dump' = dump \o es
  /\ \/ known' /\ CaptureDevice(es)
     \/ ~known' /\ UNCHANGED <<file, unhandled>>

\* Then it parses its copy, and observes every frame that is complete.
ObserveChunk ==
  LET drained == IterFrames(buffer \o chunk)
  IN  /\ chunk # <<>>
      /\ chunk' = <<>>
      /\ heard' = heard \o chunk
      /\ buffer' = drained.left
      /\ frames' = frames \o drained.frames
      /\ UNCHANGED <<cloudVars, delivered, known, spliced>>
      /\ Capture(Captured("cloud", drained.frames))

\* The other pump observes a frame of the device; the first one identifies it.
ObserveReport(f) ==
  /\ Len(CapturedFrom("device")) < MostReports
  /\ known' = TRUE
  /\ Capture(Captured("device", <<f>>))
  /\ UNCHANGED <<cloudVars, pumpVars, delivered, spliced>>

\* Whether what was written to the device ends inside a frame.
InsideFrame == Resync(IterFrames(delivered).left) # <<>>

\* ProxySession.send: a command of the dashboard goes into the stream where it
\* stands, and is captured at once; the handler knows it.
Inject(f) ==
  /\ known
  /\ Len(CapturedFrom("dashboard")) < MostCommands
  /\ delivered' = delivered \o Encode(f)
  /\ dump' = dump \o Captured("dashboard", <<f>>)
  /\ file' = file \o Captured("dashboard", <<f>>)
  /\ spliced' = (spliced \/ InsideFrame)
  /\ UNCHANGED <<cloudVars, pumpVars, unhandled, known>>

Next ==
  \/ \E f \in Message : CloudSends(f)
  \/ \E bytes \in Noise : CloudStrays(bytes)
  \/ \E n \in 1..Len(wire) : Forward(n)
  \/ ObserveChunk
  \/ \E f \in Report : ObserveReport(f)
  \/ \E f \in Command : Inject(f)

Spec == Init /\ [][Next]_vars

-----------------------------------------------------------------------------

\* How TCP cuts the stream makes no difference (protocol.py:69-94, 145-156): what
\* was observed and what is kept is what one pass over all bytes gives.
ChunkingInvisible == [frames |-> frames, left |-> buffer] = IterFrames(heard)

\* Frames are observed in the order they were sent, unharmed, each once it is
\* complete, also behind bytes that are no frame (protocol.py:69-102, 145-156).
FramesInOrder ==
  /\ IsPrefix(frames, sent)
  /\ wire = <<>> /\ chunk = <<>> => frames = sent

\* The frames a device finds in what was written to it.
Received == IterFrames(delivered).frames

\* What the device can read of the stream: the cloud's frames in their order, and
\* the commands besides.
DeviceReadsFrames ==
  LET fromCloud == Only(Received, RawFrame \ Command)
      injected == Only(Received, Command)
  IN  /\ IsPrefix(fromCloud, sent)
      /\ wire = <<>> => fromCloud = sent
      /\ Captured("dashboard", injected) = CapturedFrom("dashboard")

\* Two writers share the stream to the device (proxy.py:74-76, 160): unless a
\* command fell inside a frame, the device reads all that the cloud and the
\* dashboard wrote, whole and once.
SharedStreamReadable == spliced \/ DeviceReadsFrames

\* Where a device's file begins: with the frame that identified it.
Since(d) ==
  LET first == SelectInSeq(d, LAMBDA e : e.from = "device")
  IN  IF first = 0 THEN <<>> ELSE SubSeq(d, first, Len(d))

\* What belongs into the focused list: frames of others than the dashboard whose
\* command the handler does not know.
Focused == {e \in Entry : e.from # "dashboard" /\ IsUnhandled(e.frame)}

\* The captures are complete (proxy.py:77-82, 111-142): the dump holds what was
\* observed and injected, also before the device was identified, the file of the
\* device all of it since, and the focused list what of it the handler does not
\* know and no more.  How often the list has a frame is left open: it is called
\* deduplicated (src/README.md:90), and is not.
CaptureIsComplete ==
  /\ CapturedFrom("cloud") = Captured("cloud", IterFrames(heard).frames)
  /\ file = Since(dump)
  /\ ToSet(unhandled) = ToSet(file) \cap Focused

\* What the code does to be so: it appends every such frame, also one that the list
\* has already (hub.py:99-142).
CapturesAgree ==
  /\ CapturedFrom("cloud") = Captured("cloud", IterFrames(heard).frames)
  /\ file = Since(dump)
  /\ unhandled = Only(file, Focused)

\* The cloud's stream as far as it was sent holds its frames.
StreamHoldsSent ==
  LET all == IterFrames(heard \o chunk \o wire)
  IN  all.frames = sent /\ Quiet(all.left)

\* The stream to the device holds them too, part of them still to be written, and
\* between them the commands.
StreamIsShared ==
  LET now == IterFrames(delivered)
      coming == IterFrames(now.left \o wire)
  IN  /\ Only(now.frames, RawFrame \ Command) \o coming.frames = sent
      /\ Quiet(coming.left)
      /\ Captured("dashboard", Only(now.frames, Command)) = CapturedFrom("dashboard")

KnownOnceSeen == known <=> \E i \in DOMAIN dump : dump[i].from = "device"

\* The inductive invariant (proxy.py:74-82, 111-165): what was parsed, what is on
\* its way and what was captured belong to one stream.
IInv ==
  /\ TypeOK
  /\ ChunkingInvisible
  /\ StreamHoldsSent
  /\ spliced \/ StreamIsShared
  /\ KnownOnceSeen
  /\ CapturesAgree

=============================================================================
