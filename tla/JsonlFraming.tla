------------------------------ MODULE JsonlFraming ------------------------------
(***************************************************************************)
(* JSON Lines over a byte stream: the writers end each frame with a        *)
(* newline (ipc/transport/jsonl.ts), the readers gather chunks and split   *)
(* them (daemon/server/JsonlParser.ts, daemon/ipcServer.ts and the client's *)
(* JSONLBuffer).                                                           *)
(*                                                                         *)
(* Text is given by its bytes: "E1" and "E2" are the halves of a character *)
(* of two bytes, "n" is the newline, "?" the replacement character.        *)
(* Decoding is then a matter of each byte and its neighbours.  The parsing *)
(* of a line's JSON is not modelled: a replaced character inside a JSON    *)
(* string does not make the line invalid.                                  *)
(***************************************************************************)
EXTENDS Text, FiniteSets

CONSTANTS
    Plain,          \* characters of one byte
    Frames,         \* what may be written
    MaxFrames       \* bound: frames written to one stream

Byte == Plain \cup {"E1", "E2", "?"}

\* A frame is JSON.stringify's: not empty, no newline, whole characters.
ASSUME FramesAssumption ==
    /\ MaxFrames \in Nat
    /\ {"E1", "E2", "?", "n"} \cap Plain = {}
    /\ \A f \in Frames :
          /\ f \in Seq(Byte) \ {<<>>}
          /\ \A i \in DOMAIN f : f[i] = "E1" => i < Len(f) /\ f[i + 1] = "E2"
          /\ \A i \in DOMAIN f : f[i] = "E2" => i > 1 /\ f[i - 1] = "E1"

VARIABLES
    decoder,        \* how the reader makes text of chunks, see Decode
    written,        \* the frames written, each with the position it ends at
    stream,         \* their bytes
    arrived,        \* how many bytes have reached the reader
    boundaries,     \* where the chunks ended that brought them
    held,           \* the half character a stream decoder keeps
    buffer,         \* the reader's incomplete line
    messages        \* the lines it has delivered

framingVars == <<decoder, written, stream, arrived, boundaries, held, buffer, messages>>

FramingInit ==
    /\ decoder \in {"chunk", "stream"}
    /\ written = <<>> /\ stream = <<>> /\ arrived = 0 /\ boundaries = {}
    /\ held = <<>> /\ buffer = <<>> /\ messages = <<>>

ToJSONLFrame(frame) == Append(frame, "n")

Write(frame) ==
    /\ Len(written) < MaxFrames
    /\ stream' = stream \o ToJSONLFrame(frame)
    /\ written' = Append(written, [text |-> frame, end |-> Len(stream')])
    /\ UNCHANGED <<decoder, arrived, boundaries, held, buffer, messages>>

\* A half without its other half beside it.
Alone(bytes, i) ==
    \/ bytes[i] = "E1" /\ ~(i < Len(bytes) /\ bytes[i + 1] = "E2")
    \/ bytes[i] = "E2" /\ ~(i > 1 /\ bytes[i - 1] = "E1")

\* chunk.toString('utf-8')
ChunkToString(bytes) == [i \in DOMAIN bytes |-> IF Alone(bytes, i) THEN "?" ELSE bytes[i]]

\* The reader of a socket with setEncoding('utf8') keeps a half character at the
\* end of a chunk for the next one; the others decode every chunk by itself.
Unfinished(bytes) == IF decoder = "stream" /\ Last(bytes) = "E1" THEN 1 ELSE 0

Decode(chunk) ==
    LET bytes == held \o chunk
        n     == Len(bytes) - Unfinished(bytes)
    IN  [text |-> ChunkToString(SubSeq(bytes, 1, n)), rest |-> SubSeq(bytes, n + 1, Len(bytes))]

\* The lines that are not blank.
NotBlank(lines) == Keep(lines, {i \in DOMAIN lines : lines[i] # <<>>})

\* Mutant: the incomplete last line is not kept for the next chunk.
TakeForget(text) ==
    /\ buffer' = <<>>
    /\ messages' = messages \o NotBlank(Front(Split(buffer \o text, "n")))

\* Add to the buffer, split on newlines, keep the last part, skip blank lines.
TakeText(text) ==
    LET lines == Split(buffer \o text, "n")
    IN  /\ buffer' = Last(lines)
        /\ messages' = messages \o NotBlank(Front(lines))

\* The handler of 'data', for a chunk of any length.
OnData(n) ==
    /\ arrived' = arrived + n
    /\ boundaries' = boundaries \cup {arrived'}
    /\ LET decoded == Decode(SubSeq(stream, arrived + 1, arrived'))
       IN  held' = decoded.rest /\ TakeText(decoded.text)
    /\ UNCHANGED <<decoder, written, stream>>

FramingNext ==
    \/ \E frame \in Frames : Write(frame)
    \/ \E n \in 1 .. Len(stream) - arrived : OnData(n)

FramingSpec == FramingInit /\ [][FramingNext]_framingVars

(***************************************************************************)
(* Properties.                                                             *)
(***************************************************************************)
\* Where a frame's bytes begin, less one: the end of the frame before.
End(k) == IF k = 0 THEN 0 ELSE written[k].end

\* A chunk ended inside the character this byte is half of.
Torn(p) ==
    \/ stream[p] = "E1" /\ p \in boundaries
    \/ stream[p] = "E2" /\ p - 1 \in boundaries

\* What becomes of a byte of the stream.
Reading(p) == IF decoder = "chunk" /\ Torn(p) THEN "?" ELSE stream[p]

\* However the stream is cut, and however much of it has arrived, the reader has
\* delivered the frames that are complete, in order, none joined or split, and
\* holds the rest: the client's reader byte for byte, the daemon's and the
\* worker's but for the characters that a chunk ended in.
FramesReassembled ==
    /\ Len(messages) = Cardinality({k \in DOMAIN written : written[k].end <= arrived})
    /\ \A k \in DOMAIN messages :
          messages[k] = [j \in DOMAIN written[k].text |-> Reading(End(k - 1) + j)]
    /\ decoder = "stream" => \A k \in DOMAIN messages : messages[k] = written[k].text
    /\ arrived = Len(stream) => buffer = <<>> /\ held = <<>>
=============================================================================
