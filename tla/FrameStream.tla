---------------------------- MODULE FrameStream ----------------------------
(***************************************************************************)
(* The wire format of src/src/protocol (a big-endian length, then the      *)
(* payload) over a byte stream: one side encodes messages, the stream      *)
(* arrives in chunks of any size, and the other side decodes frame after   *)
(* frame from its read buffer, as process_connection_read does.            *)
(*                                                                         *)
(* Bytes are the numbers below Base (256 in the code) and the length field *)
(* has HeaderLen of them (4), so a length is less than Base^HeaderLen: the *)
(* wrap-around of the 32-bit length is kept at a size TLC can explore.     *)
(***************************************************************************)
EXTENDS Naturals, Sequences, SequencesExt

CONSTANTS
    Base,        \* values of a byte
    HeaderLen,   \* k_frame_length_field_bytes
    Limits,      \* values of max_payload_bytes
    Payloads,    \* bound: the payloads that are sent
    MaxMessages  \* bound: messages sent in one behaviour

ASSUME FrameAssumption ==
    /\ Base \in Nat \ {0, 1} /\ HeaderLen \in Nat \ {0}
    /\ Limits \subseteq Nat /\ MaxMessages \in Nat
    /\ Payloads \subseteq Seq(0..(Base - 1))

(***************************************************************************)
(* The codec.                                                              *)
(***************************************************************************)
(* What a shift to the right by k bytes divides by. *)
ByteShift[k \in 0..HeaderLen] == IF k = 0 THEN 1 ELSE Base * ByteShift[k - 1]

(* The largest length the field can carry: UINT32_MAX. *)
LengthLimit == ByteShift[HeaderLen] - 1

(* Fault: the configured maximum is not capped by the width of the field. *)
UncappedMaxPayload(max) == max

EffectiveMaxPayload(max) == IF max < LengthLimit THEN max ELSE LengthLimit

(* Fault: the bytes of the length are not masked. *)
PushUnmasked(n) == [i \in 1..HeaderLen |-> n \div ByteShift[HeaderLen - i]]

(* push_be32: the digits of the length, most significant first, truncated  *)
(* to the width of the field.                                              *)
PushBe(n) == [i \in 1..HeaderLen |-> (n \div ByteShift[HeaderLen - i]) % Base]

(* Fault: no byte swap on a little-endian machine. *)
ReadLe(buffer) ==
    LET value[i \in 0..HeaderLen] ==
            IF i = 0 THEN 0 ELSE value[i - 1] * Base + buffer[HeaderLen + 1 - i]
    IN  value[HeaderLen]

(* read_u32_be. *)
ReadBe(buffer) ==
    LET value[i \in 0..HeaderLen] ==
            IF i = 0 THEN 0 ELSE value[i - 1] * Base + buffer[i]
    IN  value[HeaderLen]

Incomplete == [status |-> "Incomplete", consumed_bytes |-> 0, payload |-> <<>>]
OversizedLength == [status |-> "OversizedLength", consumed_bytes |-> 0, payload |-> <<>>]

(* Fault: only the width of the field limits a length. *)
DecodeIgnoresMaximum(buffer, max) ==
    LET len == ReadBe(buffer)
        total == HeaderLen + len
    IN  IF Len(buffer) < HeaderLen THEN Incomplete
        ELSE IF len > LengthLimit THEN OversizedLength
        ELSE IF Len(buffer) < total THEN Incomplete
        ELSE [status |-> "Complete", consumed_bytes |-> total,
              payload |-> SubSeq(buffer, HeaderLen + 1, total)]

TryDecodeFrame(buffer, max) ==
    LET len == ReadBe(buffer)
        total == HeaderLen + len
    IN  IF Len(buffer) < HeaderLen THEN Incomplete
        ELSE IF len > EffectiveMaxPayload(max) THEN OversizedLength
        ELSE IF Len(buffer) < total THEN Incomplete
        ELSE [status |-> "Complete", consumed_bytes |-> total,
              payload |-> SubSeq(buffer, HeaderLen + 1, total)]

CanEncode(payload, max) == Len(payload) <= EffectiveMaxPayload(max)

(* append_encoded_frame, when it does not report PayloadTooLarge. *)
AppendEncodedFrame(out, payload) == out \o PushBe(Len(payload)) \o payload

(***************************************************************************)
(* The stream.                                                             *)
(***************************************************************************)
VARIABLES
    send_max,   \* max_payload_bytes of the encoding side
    recv_max,   \* max_payload_bytes of the decoding side
    sent,       \* history: the messages that were encoded
    wire,       \* bytes the sender has encoded and the receiver not received
    read_buf,   \* Connection::read_buf_ of the receiver
    decoded,    \* payloads handed to the dispatcher
    failed      \* the receiver gave the connection up

vars == <<send_max, recv_max, sent, wire, read_buf, decoded, failed>>

Bytes == 0..(Base - 1)

TypeOK ==
    /\ send_max \in Limits /\ recv_max \in Limits
    /\ sent \in Seq(Payloads) /\ decoded \in Seq(Seq(Bytes))
    /\ wire \in Seq(Bytes) /\ read_buf \in Seq(Bytes)
    /\ failed \in BOOLEAN

Init ==
    /\ send_max \in Limits /\ recv_max \in Limits
    /\ sent = <<>> /\ wire = <<>> /\ read_buf = <<>> /\ decoded = <<>>
    /\ failed = FALSE

(* A payload that is too large is refused and changes nothing. *)
SendMessage(payload) ==
    /\ Len(sent) < MaxMessages
    /\ CanEncode(payload, send_max)
    /\ wire' = AppendEncodedFrame(wire, payload)
    /\ sent' = Append(sent, payload)
    /\ UNCHANGED <<send_max, recv_max, read_buf, decoded, failed>>

Decoding == TryDecodeFrame(read_buf, recv_max)

(* receive_nonblocking got a chunk; only when no more frame can be decoded. *)
Receive(n) ==
    /\ ~failed
    /\ Decoding.status = "Incomplete"
    /\ read_buf' = read_buf \o SubSeq(wire, 1, n)
    /\ wire' = SubSeq(wire, n + 1, Len(wire))
    /\ UNCHANGED <<send_max, recv_max, sent, decoded, failed>>

(* Fault: the whole read buffer is consumed with the first frame. *)
DecodeDropsRest ==
    /\ ~failed
    /\ Decoding.status = "Complete"
    /\ decoded' = Append(decoded, Decoding.payload)
    /\ read_buf' = <<>>
    /\ UNCHANGED <<send_max, recv_max, sent, wire, failed>>

(* A frame is handed on and consume_read(consumed_bytes) drops it. *)
DecodeComplete ==
    /\ ~failed
    /\ Decoding.status = "Complete"
    /\ decoded' = Append(decoded, Decoding.payload)
    /\ read_buf' = SubSeq(read_buf, Decoding.consumed_bytes + 1, Len(read_buf))
    /\ UNCHANGED <<send_max, recv_max, sent, wire, failed>>

(* What the header asks of a caller: "treat the connection as failed and   *)
(* discard buffered input"; the integration test's caller asserts instead  *)
(* that it never happens.                                                  *)
DecodeOversized ==
    /\ ~failed
    /\ Decoding.status = "OversizedLength"
    /\ failed' = TRUE
    /\ read_buf' = <<>>
    /\ UNCHANGED <<send_max, recv_max, sent, wire, decoded>>

Next ==
    \/ \E payload \in Payloads : SendMessage(payload)
    \/ \E n \in 1..Len(wire) : Receive(n)
    \/ DecodeComplete \/ DecodeOversized

Spec == Init /\ [][Next]_vars

-----------------------------------------------------------------------------
(* Messages encoded one after the other. *)
Encoding(messages) ==
    LET encoded[k \in 0..Len(messages)] ==
            IF k = 0 THEN <<>> ELSE AppendEncodedFrame(encoded[k - 1], messages[k])
    IN  encoded[Len(messages)]

(* Whatever the chunks, the dispatcher sees the messages that were sent,   *)
(* complete, unchanged and in order.                                       *)
IntactInOrder == IsPrefix(decoded, sent)

(* Frame boundaries are never lost: what is buffered and still on the wire *)
(* is exactly the encoding of the messages not decoded yet.                *)
StreamIsTheRest ==
    ~failed => read_buf \o wire = Encoding(SubSeq(sent, Len(decoded) + 1, Len(sent)))

(* No message waits for bytes that will not come: when everything sent has *)
(* arrived and the decoder reports Incomplete, everything was decoded.     *)
NoFrameWaits ==
    ~failed /\ wire = <<>> /\ Decoding.status = "Incomplete" => decoded = sent

(* The receiver's limit is exact: no payload beyond it is handed on, and a *)
(* connection is given up only for a message beyond it, never for one of   *)
(* exactly the limit, after everything before it was decoded.              *)
LimitIsExact ==
    /\ \A k \in 1..Len(decoded) : Len(decoded[k]) <= recv_max
    /\ failed => /\ Len(decoded) < Len(sent)
                 /\ Len(sent[Len(decoded) + 1]) > recv_max

=============================================================================
