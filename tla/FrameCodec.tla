----------------------------- MODULE FrameCodec -----------------------------
(***************************************************************************)
(* The two binary framings: session socket frames (climon-proto frame.rs)  *)
(* and the remote link's mux frames (mux.rs).  A frame is its length, its  *)
(* type and its payload; a byte stream may be read in chunks of any size.  *)
(*                                                                         *)
(* Every symbol is a number; the four bytes of the length are one symbol.  *)
(* Of a control payload only whether it parses matters.                    *)
(***************************************************************************)
EXTENDS Naturals, Sequences, SequencesExt

CONSTANTS
  MaxFrames,  \* bound: frames sent
  MaxPayload, \* MAX_MUX_PAYLOAD
  MaxId       \* longest session id a data frame can carry: 255

ASSUME CodecAssumption ==
  MaxFrames \in Nat /\ MaxPayload \in Nat \ {0} /\ MaxId \in Nat \ {0}

VARIABLES
  decoder,   \* FrameDecoder, or the mux's push or push_frames
  sent,      \* history: the frames the stream is made of
  stream,    \* the byte stream
  got,       \* how much of it has been read
  buffer,    \* FrameDecoder.buffer, MuxDecoder.buffer
  delivered, \* what the decoder has returned
  closed     \* an error made the caller tear the connection down

codecVars == <<decoder, sent, stream, got, buffer, delivered, closed>>

HeaderSize == 2
ControlType == 1
DataType == 2
UnknownType == 7
Parses == 5   \* a control payload that is valid JSON of a known message
Garbled == 6

(* FrameType::from_u8, and the mux's type byte: others are skipped.        *)
KnownType(t) == t \in {ControlType, DataType}

(* encode_frame, envelope.                                                 *)
Envelope(frame) == <<Len(frame.payload), frame.type>> \o frame.payload

(* encode_data: refuses a session id that its length byte cannot hold.     *)
EncodesData(id) == Len(id) <= MaxId
DataPayload(id, data) == <<Len(id)>> \o id \o data

(* What a peer sends: session ids and data, control messages, types of a   *)
(* later release, and from a faulty peer an empty data frame, an id length *)
(* beyond the payload, garbled JSON, or a frame that is too large.         *)
Frames ==
  [type : {ControlType}, payload : {<<Parses>>, <<Garbled>>}]
  \cup [type : {DataType}, payload :
          {DataPayload(x[1], x[2]) :
             x \in {y \in {<<>>, <<8>>, <<8, 9>>} \X {<<>>, <<3>>} :
                      EncodesData(y[1])}} \cup {<<>>, <<4, 8>>}]
  \cup [type : {UnknownType}, payload : {<<>>, <<3>>}]
  \cup [type : {ControlType, UnknownType}, payload :
          {[i \in 1..n |-> 3] : n \in {MaxPayload, MaxPayload + 1}}]

-----------------------------------------------------------------------------
(* Decoding.                                                               *)

\* Mutant of TooLarge: the limit itself is refused.
TooLargeEarly(frame) == frame.size >= MaxPayload

\* Mutant of TooLarge: one byte too many is let through.
TooLargeLate(frame) == frame.size > MaxPayload + 1

(* A declared length beyond the limit.                                     *)
TooLarge(frame) == frame.size > MaxPayload

(* The frame at the head of the bytes, as far as it is there.              *)
HeadFrame(bytes) ==
  LET total == HeaderSize + bytes[1]
  IN [size |-> bytes[1], type |-> bytes[2], whole |-> Len(bytes) >= total,
      payload |-> SubSeq(bytes, HeaderSize + 1,
                         IF Len(bytes) >= total THEN total ELSE Len(bytes))]

(* RawFrame of a mux frame: an id length beyond the payload is clamped.    *)
RawFrame(frame) ==
  IF frame.type = ControlType
  THEN [type |-> ControlType, id |-> <<>>, data |-> frame.payload]
  ELSE LET end == IF 1 + frame.payload[1] < Len(frame.payload)
                  THEN 1 + frame.payload[1] ELSE Len(frame.payload)
       IN [type |-> DataType, id |-> SubSeq(frame.payload, 2, end),
           data |-> SubSeq(frame.payload, end + 1, Len(frame.payload))]
DecodedFrame(frame) ==
  [type |-> frame.type, id |-> <<>>, data |-> frame.payload]

(* What a decoder's loop has made of its bytes so far.                     *)
Begin(bytes) == [rest |-> bytes, out |-> <<>>, failed |-> FALSE]

(* One turn of it takes the frame at the head; unknown types are skipped.  *)
TakeFrame(r, frame, item) ==
  [rest |-> SubSeq(r.rest, HeaderSize + frame.size + 1, Len(r.rest)),
   out |-> IF KnownType(frame.type) THEN Append(r.out, item) ELSE r.out,
   failed |-> FALSE]

(* A turn of FrameDecoder::push: as long as a whole frame is there.        *)
FrameTurn(r, turn) ==
  LET f == HeadFrame(r.rest)
  IN IF Len(r.rest) >= HeaderSize /\ f.whole THEN TakeFrame(r, f, DecodedFrame(f))
     ELSE r

(* A turn of MuxDecoder::push_frames: a length above the limit is refused  *)
(* as soon as it is seen, a data frame without an id length when whole.    *)
MuxTurn(r, turn) ==
  LET f == HeadFrame(r.rest)
  IN IF r.failed \/ Len(r.rest) < HeaderSize THEN r
     ELSE IF TooLarge(f) \/ (f.whole /\ f.type = DataType /\ f.payload = <<>>)
          THEN [rest |-> r.rest, out |-> r.out, failed |-> TRUE]
          ELSE IF f.whole THEN TakeFrame(r, f, RawFrame(f)) ELSE r

(* The loops: each frame has a header, so there are no more turns.         *)
Turns(bytes) == [i \in 1 .. Len(bytes) \div HeaderSize |-> i]
PushFrames(bytes) == FoldLeft(FrameTurn, Begin(bytes), Turns(bytes))

(* An error returns nothing, not even the frames before it; one of the     *)
(* loop leaves the buffer as it is.                                        *)
Rejected(rest) == [rest |-> rest, out |-> <<>>, failed |-> TRUE]
PushMux(bytes) ==
  LET r == FoldLeft(MuxTurn, Begin(bytes), Turns(bytes))
  IN IF r.failed THEN Rejected(bytes) ELSE r

(* MuxDecoder::push: control payloads must parse as well.                  *)
IsGarbled(raw) == raw.type = ControlType /\ raw.data # <<Parses>>
PushStrict(bytes) ==
  LET raw == PushMux(bytes)
  IN IF \E i \in DOMAIN raw.out : IsGarbled(raw.out[i])
     THEN Rejected(raw.rest) ELSE raw

Push(bytes) ==
  CASE decoder = "frame" -> PushFrames(bytes)
    [] decoder = "mux" -> PushStrict(bytes)
    [] OTHER -> PushMux(bytes)

-----------------------------------------------------------------------------
CodecInit ==
  /\ decoder \in {"frame", "mux", "raw"}
  /\ sent \in BoundedSeq(Frames, MaxFrames)
  /\ stream = FlattenSeq([i \in DOMAIN sent |-> Envelope(sent[i])])
  /\ got = 0 /\ buffer = <<>> /\ delivered = <<>> /\ closed = FALSE

\* Mutant of DrainBuffer: the incomplete frame is dropped too.
ClearBuffer(bytes, rest) == <<>>

(* The bytes of the frames that were decoded leave the buffer.             *)
DrainBuffer(bytes, rest) == rest

(* The caller reads a chunk up to byte n and hands it to the decoder; an   *)
(* error ends the connection.                                              *)
ReadBytes(n) ==
  /\ ~closed /\ got < n /\ n <= Len(stream)
  /\ LET bytes == buffer \o SubSeq(stream, got + 1, n)
         result == Push(bytes)
     IN /\ buffer' = DrainBuffer(bytes, result.rest)
        /\ delivered' = delivered \o result.out
        /\ closed' = result.failed
  /\ got' = n
  /\ UNCHANGED <<decoder, sent, stream>>

CodecNext == \E n \in 1..Len(stream) : ReadBytes(n)
CodecSpec == CodecInit /\ [][CodecNext]_codecVars

-----------------------------------------------------------------------------
(* The number of frames wholly contained in the first n bytes.             *)
Bytes(k) == Len(FlattenSeq([i \in 1..k |-> Envelope(sent[i])]))
Whole(n) == CHOOSE k \in 0..Len(sent) :
              /\ Bytes(k) <= n
              /\ k = Len(sent) \/ Bytes(k + 1) > n

(* What the peer meant by its first k frames, those of known types.        *)
Meant(k) ==
  LET Said(f) == IF decoder = "frame" THEN DecodedFrame(f) ELSE RawFrame(f)
  IN FlattenSeq([i \in 1..k |-> IF KnownType(sent[i].type) THEN <<Said(sent[i])>> ELSE <<>>])

Acceptable(f) ==
  decoder = "frame" \/
    /\ Len(f.payload) <= MaxPayload
    /\ ~(f.type = DataType /\ f.payload = <<>>)
    /\ ~(decoder = "mux" /\ f.type = ControlType /\ f.payload # <<Parses>>)

(* However the stream is cut, each frame is returned once, in order, as    *)
(* soon as its last byte was read, and frames of unknown types do not      *)
(* disturb the rest; a decoder that gave up has returned a part of what    *)
(* the acceptable frames before the bad one say (FrameDecoder::push,       *)
(* MuxDecoder::push, push_frames).                                         *)
FramesDelivered ==
  IF ~closed THEN delivered = Meant(Whole(got))
  ELSE \E k \in 0..Len(sent) :
         /\ IsPrefix(delivered, Meant(k))
         /\ \A i \in 1..k : Acceptable(sent[i])

(* The connection is torn down because of a frame the peer sent, and no    *)
(* acceptable stream is ever torn down.                                    *)
ClosedForCause == closed => \E i \in DOMAIN sent : ~Acceptable(sent[i])

(* A mux decoder never holds a whole frame, nor more than one frame of the *)
(* permitted size can need, whatever length a peer declares (mux.rs:       *)
(* "rather than buffer unbounded memory").                                 *)
BufferBounded ==
  decoder # "frame" /\ ~closed => Len(buffer) < HeaderSize + MaxPayload

(* The stream is read once, and what is buffered is the part of it that    *)
(* was read last.                                                          *)
CodecTypeOK ==
  /\ got \in 0..Len(stream)
  /\ Len(buffer) <= got
  /\ buffer = SubSeq(stream, got - Len(buffer) + 1, got)
  /\ closed \in BOOLEAN

\* However a stream is cut, decoding it delivers each frame once and in time, gives
\* up only for cause and holds a bounded buffer (the parts above; frame.rs, mux.rs).
CodecInv ==
    /\ CodecTypeOK
    /\ FramesDelivered
    /\ ClosedForCause
    /\ BufferBounded
=============================================================================
