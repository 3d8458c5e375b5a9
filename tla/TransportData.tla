--------------------------- MODULE TransportData ---------------------------
(***************************************************************************)
(* Sizes and offsets on the way between a client and a Worker: the bounds   *)
(* the two gRPC directions are configured with and the messages that must   *)
(* fit them, the conversion of a rejection, and the layout of the shared    *)
(* memory that both sides compute for themselves.  Numbers of up to 64 bits *)
(* are given by their bit lengths.                                          *)
(***************************************************************************)
EXTENDS Integers, FiniteSets, FiniteSetsExt

CONSTANTS
    Configs,          \* WorkerEndpointConfigs: tokens, hidden, top_k, element, experts
    Slots,            \* slot counts of a shared-memory session
    Margin,           \* _PROTOBUF_SAFETY_MARGIN_BYTES
    MaxDiagnostic,    \* MAX_DIAGNOSTIC_BYTES
    ControlBytes,     \* SHM_CONTROL_MESSAGE_BYTES
    CacheLine, Page   \* alignments of a field and of a slot

TransportAssumption ==
    /\ {Margin, MaxDiagnostic, ControlBytes} \subseteq Nat
    /\ {CacheLine, Page} \subseteq Nat \ {0}

VARIABLES
    config,   \* the Worker's WorkerEndpointConfig
    wire,     \* the message on its way
    got       \* what the receiver made of it, and the slots it admits

vars == <<config, wire, got>>

Codes == {"busy", "draining", "stale_topology", "expert_not_ready", "invalid_request",
          "unsupported"}
NoMessage == [kind |-> "none", bytes |-> 0]
Nothing == [is |-> "nothing", slots |-> 0]

Init == config \in Configs /\ wire = NoMessage /\ got = Nothing

-----------------------------------------------------------------------------
(* Protobuf sizes. *)

BitLength[n \in Nat] == IF n = 0 THEN 0 ELSE 1 + BitLength[n \div 2]

(* _varint_size of a number of that many bits. *)
VarintSize(bits) == IF bits = 0 THEN 1 ELSE (bits + 6) \div 7

(* A scalar field (the tag of fields 1 to 15 has one byte; zero is not sent), and a
   bytes field. *)
Scalar(bits) == IF bits = 0 THEN 0 ELSE 1 + VarintSize(bits)
BytesField(n) == 1 + VarintSize(BitLength[n]) + n

HiddenBytes(c, n) == n * c.hidden * c.element
RoutingBytes(c, n) == n * c.top_k * 4
Larger(a, b) == IF a > b THEN a ELSE b

(* calculate_message_limits. *)
RequestLimit(c) ==
    11 + 6 + 11 + (1 + VarintSize(BitLength[c.tokens])) + (1 + VarintSize(BitLength[c.hidden]))
    + (1 + VarintSize(BitLength[c.top_k])) + 2
    + BytesField(HiddenBytes(c, c.tokens)) + 2 * BytesField(RoutingBytes(c, c.tokens)) + Margin

(* Variant: a rejection is taken to be smaller than a result. *)
ResponseLimitOfResult(c) == BytesField(HiddenBytes(c, c.tokens)) + Margin

ResponseLimit(c) ==
    LET error == 2 + 2 + 11 + 11 + BytesField(c.tokens * c.top_k * 5) + BytesField(MaxDiagnostic)
    IN Larger(BytesField(HiddenBytes(c, c.tokens)), BytesField(error)) + Margin

-----------------------------------------------------------------------------
(* Messages. *)

(* _serialize_host_request: bit lengths of instance, layer and version. *)
SendRequest ==
    \E n \in 1 .. config.tokens, instance \in {1, 64}, layer \in {0, 32}, version \in {1, 64} :
        wire' = [kind |-> "request", tokens |-> n,
                 bytes |-> Scalar(instance) + Scalar(layer) + Scalar(version)
                           + Scalar(BitLength[n]) + Scalar(BitLength[config.hidden])
                           + Scalar(BitLength[config.top_k]) + Scalar(2)
                           + BytesField(HiddenBytes(config, n))
                           + 2 * BytesField(RoutingBytes(config, n))]

SendResult ==
    \E n \in 1 .. config.tokens :
        wire' = [kind |-> "result", tokens |-> n, bytes |-> BytesField(HiddenBytes(config, n))]

(* _bounded_diagnostic: bytes of a text of equally wide characters; a character that
   is cut is dropped. *)
Diagnostic(characters, width) ==
    IF characters * width <= MaxDiagnostic THEN characters * width
    ELSE (MaxDiagnostic \div width) * width

(* encode_compute_error, for the Worker's rejections of one batch. *)
ErrorBytes(e) ==
    Scalar(3) + Scalar(IF e.retryable THEN 1 ELSE 0)
    + Cardinality(e.versions) * (1 + VarintSize(64))
    + (IF e.unavailable = 0 THEN 0
       ELSE BytesField(e.unavailable * VarintSize(BitLength[config.experts - 1])))
    + (IF e.diagnostic = 0 THEN 0 ELSE BytesField(e.diagnostic))

MostUnavailable ==
    IF config.tokens * config.top_k < config.experts THEN config.tokens * config.top_k
    ELSE config.experts

SendError(kind) ==
    \E code \in Codes, retryable \in BOOLEAN, versions \in SUBSET {"observed", "min"},
       unavailable \in {0, 1, MostUnavailable}, characters \in {0, 1, MaxDiagnostic},
       width \in {1, 3} :
       LET error == [code |-> code, retryable |-> retryable, versions |-> versions,
                     unavailable |-> unavailable, diagnostic |-> Diagnostic(characters, width)]
       IN wire' = [kind |-> kind, error |-> error, bytes |-> BytesField(ErrorBytes(error))]

-----------------------------------------------------------------------------
(* SharedMemoryLayout. *)

Align(n, to) == ((n + to - 1) \div to) * to

Field(name, start, bytes) == [name |-> name, start |-> start, end |-> start + bytes]

(* The fields of a slot, relative to it. *)
Fields(c) ==
    LET ids == Align(HiddenBytes(c, c.tokens), CacheLine)
        weights == Align(ids + RoutingBytes(c, c.tokens), CacheLine)
        output == Align(weights + RoutingBytes(c, c.tokens), CacheLine)
    IN {Field("hidden", 0, HiddenBytes(c, c.tokens)), Field("ids", ids, RoutingBytes(c, c.tokens)),
        Field("weights", weights, RoutingBytes(c, c.tokens)),
        Field("output", output, HiddenBytes(c, c.tokens))}

SlotStride(c) == Align(Max({f.end : f \in Fields(c)}), Page)
SegmentSize(c, slots) == slots * SlotStride(c)

(* SharedMemoryRegion.slot, of all slots. *)
Regions(c, slots) ==
    {[slot |-> s, name |-> f.name, start |-> s * SlotStride(c) + f.start,
      end |-> s * SlotStride(c) + f.end] : s \in 0 .. slots - 1, f \in Fields(c)}

(* encode_open_request of a client that has its configuration from the topology. *)
SendOpen ==
    \E client \in Configs, slots \in Slots :
        wire' = [kind |-> "open", client |-> client, slots |-> slots,
                 size |-> SegmentSize(client, slots), bytes |-> 0]

(* decode_open_request at a Worker that admits that many. *)
OpenMatches(slots) ==
    /\ wire.slots = slots
    /\ wire.client.tokens = config.tokens /\ wire.client.hidden = config.hidden
    /\ wire.client.top_k = config.top_k /\ wire.client.element = config.element
    /\ wire.size = SegmentSize(wire.client, wire.slots)

-----------------------------------------------------------------------------
(* decode_request_with_size, decode_response, decode_compute_error,
   decode_execute_response, decode_open_request. *)
Limit == CASE wire.kind = "request" -> RequestLimit(config)
           [] wire.kind \in {"result", "error"} -> ResponseLimit(config)
           [] wire.kind \in {"shm_error", "open"} -> ControlBytes

ErrorAccepted(e) ==
    /\ e.code \in Codes /\ e.diagnostic <= MaxDiagnostic
    /\ e.unavailable <= config.tokens * config.top_k

Accepted(slots) ==
    /\ wire.bytes <= Limit
    /\ wire.kind \in {"request", "result"} => wire.tokens \in 1 .. config.tokens
    /\ wire.kind \in {"error", "shm_error"} => ErrorAccepted(wire.error)
    /\ wire.kind = "open" => OpenMatches(slots)

Send ==
    /\ wire = NoMessage
    /\ SendRequest \/ SendResult \/ SendError("error") \/ SendError("shm_error") \/ SendOpen
    /\ UNCHANGED <<config, got>>

Receive ==
    /\ wire # NoMessage /\ got = Nothing
    /\ \E slots \in Slots :
         got' = [is |-> IF Accepted(slots) THEN "taken" ELSE "refused", slots |-> slots]
    /\ UNCHANGED <<config, wire>>

Next == Send \/ Receive

Spec == Init /\ [][Next]_vars

-----------------------------------------------------------------------------
TypeOK ==
    /\ config \in Configs /\ wire.bytes \in Nat
    /\ wire.kind \in {"request", "result"} => wire.tokens \in 1 .. config.tokens
    /\ got.is \in {"nothing", "taken", "refused"} /\ got.slots \in Slots \cup {0}

(* No message a side may send is over the limit of its direction, at the boundaries
   of the variable-length encoding too: the "exceeds its calculated gRPC limit"
   errors of codec.py never happen, and neither gRPC nor a decoder refuses one. *)
MessagesFit == wire # NoMessage => wire.bytes <= Limit

(* A rejection that a Worker encodes, whose text and whose list of experts lie on either
   side of what is kept of them, is decoded by the client, which does not take the Worker
   to violate the protocol. *)
RejectionsArrive == wire.kind \in {"error", "shm_error"} => got.is # "refused"

(* No two Tensors of a segment, of one slot or of two, share a byte; every one is
   aligned and inside the segment that was made. *)
TensorsApart ==
    wire = NoMessage => \A slots \in Slots :
        LET regions == Regions(config, slots) IN
        /\ \A r \in regions : r.start % CacheLine = 0 /\ r.end <= SegmentSize(config, slots)
        /\ \A r, q \in regions : r # q => r.end <= q.start \/ q.end <= r.start

(* A client and a Worker that open a session find every Tensor at the same place,
   although each computes the layout from its own configuration and different
   layouts may need segments of the same size. *)
LayoutsAgree ==
    wire.kind = "open" /\ got.is = "taken" =>
        Regions(wire.client, wire.slots) = Regions(config, got.slots)
=============================================================================
