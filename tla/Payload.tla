------------------------------- MODULE Payload -------------------------------
(***************************************************************************)
(* What happens to a payload between a socket and a handler of             *)
(* moonlight-bridge-server: the frame header and the settings of the       *)
(* handshake (protocol lib.rs), compression (compression.rs), the parsing  *)
(* of a request and the fitting and compressing of what goes out.          *)
(*                                                                         *)
(* Bytes are counted, never looked at.  A payload is its length and how     *)
(* zstd can shrink it; the payload of a request is as long as it is on the *)
(* wire and decompresses to some length, or to none if it is corrupt.      *)
(***************************************************************************)
EXTENDS Metadata

CONSTANTS MinPayload, MinSavings, MaxRatio,  \* CompressionPolicy
          ErrorLen                           \* an error code and its message

HeaderLen == 24

-----------------------------------------------------------------------------
(* Settings and headers                                                    *)

\* PeerSettingsV2::decode: no limit is zero, and the codec "none" is there.
\* The two stream limits are negotiated alike and read nowhere else.
DecodeSettings(s) ==
  /\ s.max_body > 0 /\ s.max_decoded > 0 /\ s.max_metadata > 0
  /\ s.max_in_flight > 0
  /\ s.none

\* The handshake takes the smaller limit and the common capabilities.
Lower(x, y) == IF x < y THEN x ELSE y

\* Mutant: the number of requests in flight is the client's.
Negotiate_ClientFlight(client, server) ==
  [max_body      |-> Lower(client.max_body, server.max_body),
   max_decoded   |-> Lower(client.max_decoded, server.max_decoded),
   max_metadata  |-> Lower(client.max_metadata, server.max_metadata),
   max_in_flight |-> client.max_in_flight,
   none |-> TRUE, zstd |-> client.zstd /\ server.zstd, events |-> client.events /\ server.events]

Negotiate(client, server) ==
  [max_body      |-> Lower(client.max_body, server.max_body),
   max_decoded   |-> Lower(client.max_decoded, server.max_decoded),
   max_metadata  |-> Lower(client.max_metadata, server.max_metadata),
   max_in_flight |-> Lower(client.max_in_flight, server.max_in_flight),
   none          |-> client.none /\ server.none,
   zstd          |-> client.zstd /\ server.zstd,
   events        |-> client.events /\ server.events]

\* The bytes of a request body: metadata prefix and block, then the payload.
BlockLen(frame) ==
  IF frame.block = Nothing THEN 0
  ELSE PrefixLen + End(frame.block.entries, Len(frame.block.entries))

BodyLen(frame) == BlockLen(frame) + frame.payload.len

\* Frame::decode_header: a frame is "known" when its magic, version, kind and
\* flags are.
DecodeHeader(frame, max_body) == frame.known /\ BodyLen(frame) <= max_body

-----------------------------------------------------------------------------
(* Compression                                                             *)

\* zstd at level 1.  The result of compressing something "regular" still has
\* repetitions that a second pass finds; "zeros" shrink beyond any ratio.
Zstd(data) ==
  CASE data.zip = "dense"   -> [len |-> data.len + 3, zip |-> "dense"]
    [] data.zip = "sparse"  -> [len |-> data.len \div 2, zip |-> "dense"]
    [] data.zip = "regular" -> [len |-> data.len \div 2, zip |-> "sparse"]
    [] data.zip = "zeros"   -> [len |-> 1 + data.len \div 32, zip |-> "dense"]

\* Mutant: the expansion ratio is not looked at when compressing.
EncodePayload_AnyRatio(data, max_decoded) ==
  IF data.len > max_decoded THEN Nothing
  ELSE IF data.len < MinPayload \/ Zstd(data).len + MinSavings > data.len THEN data
  ELSE Zstd(data)

\* CompressionPolicy::encode: what is sent, or Nothing for an error.
EncodePayload(data, max_decoded) ==
  IF data.len > max_decoded THEN Nothing
  ELSE IF \/ data.len < MinPayload
          \/ Zstd(data).len + MinSavings > data.len
          \/ data.len > Zstd(data).len * MaxRatio
  THEN data
  ELSE Zstd(data)

\* CompressionPolicy::decode_with_reservation, up to and after the byte budget.
MayDecode(len, original, max_decoded) ==
  original <= max_decoded /\ original <= len * MaxRatio

\* DecodedByteBudget::try_reserve
TryReserve(used, capacity, requested) == requested <= capacity - used

-----------------------------------------------------------------------------
(* Requests                                                                *)

Rejected(code) == [ok |-> FALSE, code |-> code, reserve |-> 0]

\* request_payload: what the metadata of a request asks for, and whether it
\* is served.  Decompression keeps "reserve" bytes of the decoded budget.
RequestPayload(frame, settings, used, capacity) ==
  LET block    == frame.block
      deadline == Reserved(block, DeadlineMillis)
      trace    == Reserved(block, TraceContext)
      codec    == Reserved(block, CompressionCodec)
      original == Reserved(block, OriginalLength)
      accepted(reserve) == [ok |-> TRUE, code |-> "", reserve |-> reserve]
  IN  IF block = Nothing THEN accepted(0)
      ELSE IF ~Validate(block, BodyLen(frame) - PrefixLen, settings.max_metadata)
      THEN Rejected("InvalidRequest")
      ELSE IF \/ deadline # Nothing /\ (deadline.len # 4 \/ deadline.value = 0)
              \/ trace # Nothing /\ (trace.len # 25 \/ trace.value \notin {0, 1})
      THEN Rejected("InvalidRequest")
      ELSE IF codec = Nothing /\ original = Nothing THEN accepted(0)
      ELSE IF \/ codec = Nothing \/ original = Nothing
              \/ codec.len # 1 \/ original.len # 4
              \/ codec.value # 1 \/ ~settings.zstd
              \/ ~MayDecode(frame.payload.len, original.value, settings.max_decoded)
              \/ ~TryReserve(used, capacity, original.value)
              \/ frame.payload.decoded # original.value
      THEN Rejected("CompressionFailure")
      ELSE accepted(original.value)

HasDeadline(frame) ==
  frame.block # Nothing /\ Reserved(frame.block, DeadlineMillis) # Nothing

-----------------------------------------------------------------------------
(* What goes out                                                           *)

\* A frame on its way out: the payload it was made for, the bytes that stand
\* for it in the body, and the metadata block in front of them.
Frame(kind, id, payload) ==
  [kind |-> kind, id |-> id, payload |-> payload, data |-> payload, zstd |-> FALSE]

\* error_frame, and the frame with the id of another that replaces it.
ErrorFrame(id, len) == Frame("ERROR", id, [len |-> len, zip |-> "dense"])

\* The metadata of a compressed frame; the server gives its frames no other.
CompressionBlock(original) ==
  EncodePrefix({[id |-> CompressionCodec, name |-> 0, len |-> 1, value |-> 1],
                [id |-> OriginalLength, name |-> 0, len |-> 4, value |-> original]})

CompressionLen == CompressionBlock(0).announced

OutLen(frame) ==
  frame.data.len + IF frame.zstd THEN PrefixLen + CompressionLen ELSE 0

\* fit_outbound_frame
FitOutbound(frame, max_len) ==
  IF OutLen(frame) <= max_len THEN frame
  ELSE ErrorFrame(frame.id, IF max_len >= 2 THEN 2 ELSE 0)

\* compress_outbound_frame.  A frame that is compressed already has both
\* metadata keys: compressing it again conflicts with them.
CompressOutbound(frame, settings) ==
  LET data == EncodePayload(frame.data, settings.max_decoded)
  IN  IF ~settings.zstd \/ frame.kind \notin {"RESPONSE", "EVENT", "STREAM_ITEM"}
      THEN frame
      ELSE IF data = frame.data THEN frame
      ELSE IF \/ data = Nothing \/ frame.zstd
              \/ CompressionLen > settings.max_metadata
      THEN ErrorFrame(frame.id, ErrorLen)
      ELSE [frame EXCEPT !.data = data, !.zstd = TRUE]

\* What the writer makes of a frame it takes.
Outbound(frame, settings) ==
  FitOutbound(CompressOutbound(FitOutbound(frame, settings.max_decoded), settings),
              settings.max_body)

=============================================================================
