---------------------------- MODULE MessageFraming ----------------------------
(***************************************************************************)
(* How a connection cuts the bytes of its socket into messages:            *)
(* dataHandler and processMessage, lib/connection/connection.js:360-581.   *)
(*                                                                         *)
(* A byte is named by its place in the stream, so that the property can    *)
(* tell which bytes a message was made of.  One turn of the loop of        *)
(* dataHandler is one action; nothing else runs before the loop ends.      *)
(***************************************************************************)
EXTENDS Integers, Sequences, FiniteSets, SequencesExt

CONSTANTS
  Messages,      \* how many messages the server sends: they are 1, 2, ...
  Sizes,         \* sizes of well-formed messages, in bytes
  MaxSize,       \* maxBsonMessageSize
  Kinds,         \* what the messages are, among the kinds below
  SplitHeaders   \* whether a chunk may end in a header that an earlier one began

MessageKinds == {"plain", "compressed", "corrupt", "undersized", "oversized"}

(* A message larger than its header, and smaller than the limit: one that  *)
(* is exactly as large is cut short (the last branch of the loop).         *)
ASSUME FramingAssumption ==
  /\ Messages \in Nat /\ MaxSize \in Nat
  /\ Sizes \subseteq 5..(MaxSize - 1)
  /\ Kinds \subseteq MessageKinds
  /\ SplitHeaders \in BOOLEAN

VARIABLES
  sent,       \* the messages of the stream: their kinds and sizes
  received,   \* how many bytes of it have arrived
  data,       \* the bytes of the chunk that dataHandler has yet to handle
  buffer,     \* conn.buffer, as far as conn.bytesRead
  size,       \* conn.sizeOfMessage
  stub,       \* conn.stubBuffer
  unpacking,  \* messages that are being decompressed
  emitted,    \* messages that were emitted, in that order
  failed      \* the connection has emitted error or parseError

parser == <<buffer, size, stub>>
framingVars == <<sent, received, data, parser, unpacking, emitted, failed>>

-------------------------------------------------------------------------------
Header == 4

(* The bytes of the message m, and all that were sent. *)
End[m \in 0..Messages] == IF m = 0 THEN 0 ELSE End[m - 1] + sent[m].size
Bytes(m) == [k \in 1..sent[m].size |-> End[m - 1] + k]
Total == End[Messages]

(* The length a header states; an unreadable one may state any.            *)
Stated(m) ==
  CASE sent[m].kind = "undersized" -> Header
    [] sent[m].kind = "oversized" -> MaxSize + 1
    [] OTHER -> sent[m].size

StatedSizes(bytes) ==
  LET head == SubSeq(bytes, 1, Header)
      begun == {m \in 1..Messages : head = SubSeq(Bytes(m), 1, Header)}
  IN IF begun = {} THEN {-1} \cup Sizes ELSE {Stated(m) : m \in begun}

(* Which message the bytes are, 0 for none. *)
Recognized(bytes) ==
  IF \E m \in 1..Messages : bytes = Bytes(m)
  THEN CHOOSE m \in 1..Messages : bytes = Bytes(m) ELSE 0

Compressed(m) == m # 0 /\ sent[m].kind \in {"compressed", "corrupt"}

Cleared == buffer' = <<>> /\ size' = 0 /\ stub' = <<>>

-------------------------------------------------------------------------------
(* processMessage: a message is emitted, at once or when decompressed; one *)
(* compressed by the no-op compressor counts as plain.                     *)
ProcessMessage(bytes) ==
  LET m == Recognized(bytes) IN
  IF Compressed(m)
  THEN unpacking' = unpacking \cup {m} /\ UNCHANGED emitted
  ELSE emitted' = Append(emitted, m) /\ UNCHANGED unpacking

(* The socket delivers a chunk. *)
Receive(n) ==
  /\ data = <<>> /\ ~failed
  /\ received + n <= Total
  /\ SplitHeaders \/ stub = <<>> \/ Len(stub) + n > Header
  /\ data' = [k \in 1..n |-> received + k]
  /\ received' = received + n
  /\ UNCHANGED <<sent, parser, unpacking, emitted, failed>>

(* The chunk does not complete the message that is being read. *)
Continue ==
  /\ Len(buffer) > 0 /\ size > 0
  /\ size - Len(buffer) > Len(data)
  /\ buffer' = buffer \o data
  /\ data' = <<>>
  /\ UNCHANGED <<sent, received, size, stub, unpacking, emitted, failed>>

(* Mutant: what follows the message in the chunk is dropped.               *)
MutantOverflowDropped ==
  LET missing == size - Len(buffer) IN
  /\ Len(buffer) > 0 /\ size > 0 /\ missing <= Len(data)
  /\ data' = <<>>
  /\ Cleared
  /\ ProcessMessage(buffer \o SubSeq(data, 1, missing))
  /\ UNCHANGED <<sent, received, failed>>

(* The chunk completes it. *)
Complete ==
  LET missing == size - Len(buffer) IN
  /\ Len(buffer) > 0 /\ size > 0 /\ missing <= Len(data)
  /\ data' = SubSeq(data, missing + 1, Len(data))
  /\ Cleared
  /\ ProcessMessage(buffer \o SubSeq(data, 1, missing))
  /\ UNCHANGED <<sent, received, failed>>

(* The start of a header was kept: with more than a header it is read      *)
(* again together with the chunk.                                          *)
Unstub ==
  /\ size = 0 /\ stub # <<>> /\ Len(stub) + Len(data) > Header
  /\ data' = stub \o data
  /\ Cleared
  /\ UNCHANGED <<sent, received, unpacking, emitted, failed>>

(* Bytes that follow a stub are copied to a buffer that nothing keeps. *)
KeptStub == IF stub = <<>> THEN data ELSE stub

(* With less, the chunk is kept, or lost. *)
TooShort ==
  /\ size = 0 /\ Len(stub) + Len(data) <= Header
  /\ stub' = KeptStub
  /\ data' = <<>>
  /\ UNCHANGED <<sent, received, buffer, size, unpacking, emitted, failed>>

(* A message starts in the chunk and states its length. *)
Begin(stated) ==
  LET framed == stated > Header /\ stated < MaxSize IN
  /\ size = 0 /\ stub = <<>> /\ Len(data) > Header
  /\ stated \in StatedSizes(data)
  /\ \/ /\ stated < 0 \/ stated > MaxSize
        /\ failed' = TRUE
        /\ data' = <<>>
        /\ UNCHANGED <<parser, unpacking, emitted>>
     \/ /\ framed /\ stated > Len(data)
        /\ buffer' = data /\ size' = stated /\ stub' = <<>>
        /\ data' = <<>>
        /\ UNCHANGED <<unpacking, emitted, failed>>
     \/ /\ framed /\ stated = Len(data)
        /\ Cleared
        /\ data' = <<>>
        /\ ProcessMessage(data)
        /\ UNCHANGED failed
     \/ /\ 0 <= stated /\ stated <= Header
        /\ failed' = TRUE
        /\ Cleared
        /\ data' = <<>>
        /\ UNCHANGED <<unpacking, emitted>>
     \/ /\ Header < stated /\ stated <= MaxSize
        /\ ~framed \/ stated < Len(data)
        /\ Cleared
        /\ data' = SubSeq(data, stated + 1, Len(data))
        /\ ProcessMessage(SubSeq(data, 1, stated))
        /\ UNCHANGED failed
  /\ UNCHANGED <<sent, received>>

(* One turn of the loop of dataHandler. *)
Handle ==
  /\ data # <<>>
  /\ \/ Continue \/ Complete
     \/ Unstub \/ TooShort
     \/ \E stated \in -1..(MaxSize + 1) : Begin(stated)

(* Decompression ends, in any order, and for a corrupt message in an error. *)
Decompressed(m) ==
  /\ data = <<>>
  /\ m \in unpacking
  /\ unpacking' = unpacking \ {m}
  /\ IF sent[m].kind = "corrupt"
     THEN failed' = TRUE /\ UNCHANGED emitted
     ELSE emitted' = Append(emitted, m) /\ UNCHANGED failed
  /\ UNCHANGED <<sent, received, data, parser>>

FramingInit ==
  /\ sent \in [1..Messages -> [kind : Kinds, size : Sizes]]
  /\ received = 0
  /\ data = <<>> /\ buffer = <<>> /\ size = 0 /\ stub = <<>>
  /\ unpacking = {} /\ emitted = <<>> /\ failed = FALSE

-------------------------------------------------------------------------------
(* However the stream is cut into chunks, when a chunk has been handled    *)
(* the messages that are entirely there, and they alone, have been cut     *)
(* out, each once: every byte counts ("Add the the bytes to the stub       *)
(* buffer", lib/connection/connection.js:472).                             *)
Whole == {m \in 1..Messages : End[m] <= received}
EveryByteCounts ==
  /\ 0 \notin Range(emitted)
  /\ Cardinality(Range(emitted)) = Len(emitted)
  /\ Range(emitted) \cap unpacking = {}
  /\ data = <<>> /\ ~failed => Range(emitted) \cup unpacking = Whole
===============================================================================
