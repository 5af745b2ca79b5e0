----------------------------- MODULE RelayCodec -----------------------------
(***************************************************************************)
(* The relay binary protocol codec, src/relay/lora_relay_protocol.c.       *)
(*                                                                         *)
(* Packets are records with one field per member of uplink_packet_t,      *)
(* downlink_packet_t and event_packet_t; "kind" names the struct type.     *)
(* A uint32 member (frequency, count_us) is kept as the four bytes of its  *)
(* value, most significant first, so that the byte swap of host_to_be32   *)
(* is a permutation and no value exceeds TLC's integers.                   *)
(*                                                                         *)
(* pack_* returns NULL or a byte sequence; unpack_* returns FAIL or a     *)
(* record.  A small state machine feeds the codec: a struct is built,     *)
(* packed and unpacked again, or a byte string arrives and is unpacked.   *)
(***************************************************************************)
EXTENDS Integers, Sequences

LOCAL Seqs == INSTANCE SequencesExt

CONSTANTS
    HostBigEndian,   \* is_big_endian() on the host the relay runs on
    Packets,         \* structs handed to pack_*
    Wires,           \* byte strings handed to unpack_*
    NULL, FAIL       \* pack_* returned NULL, unpack_* returned false

MAX_PHY_PAYLOAD_LEN == 245
MAX_EVENT_PAYLOAD_LEN == 240

LORAWAN_TYPE == 7
UPLINK_TYPE == 0
DOWNLINK_TYPE == 1
EVENT_TYPE == 3

Kinds == {"uplink", "downlink", "event"}
PayloadType == [uplink |-> UPLINK_TYPE, downlink |-> DOWNLINK_TYPE,
                event |-> EVENT_TYPE]
PayloadCap == [uplink |-> MAX_PHY_PAYLOAD_LEN,
               downlink |-> MAX_PHY_PAYLOAD_LEN,
               event |-> MAX_EVENT_PAYLOAD_LEN]
(* Bytes before the payload: MHDR plus the META block (plus count_us).     *)
HeaderLen == [uplink |-> 6, downlink |-> 12, event |-> 4]

-----------------------------------------------------------------------------
(* Integer conversions of C.                                               *)
U8(x) == x % 256                              \* (uint8_t)x
I8(b) == IF b >= 128 THEN b - 256 ELSE b      \* (int8_t)b
Lo4(x) == x % 16                              \* x & 0x0F

(* be_to_host32 / host_to_be32: identity on a big-endian host, a byte      *)
(* swap otherwise.  A uint32 is <<b3, b2, b1, b0>>.                        *)
be_to_host32(v) == IF HostBigEndian THEN v ELSE Seqs!Reverse(v)
host_to_be32(v) == be_to_host32(v)

build_mhdr(meta, ptype, hop) ==
    ((meta % 8) * 32) + ((ptype % 4) * 8) + (hop % 8)

parse_mhdr(b) ==
    [meta |-> (b \div 32) % 8, ptype |-> (b \div 8) % 4, hop |-> b % 8]

(* A slip: the payload cap compared with >= instead of >.                *)
PackRejects_cap_off_by_one(p) ==
    \/ Len(p.payload) >= PayloadCap[p.kind]
    \/ p.ptype # PayloadType[p.kind]
    \/ p.meta # LORAWAN_TYPE

(* The common guard of pack_*: payload cap, payload_type and meta_type.    *)
PackRejects(p) ==
    \/ Len(p.payload) > PayloadCap[p.kind]
    \/ p.ptype # PayloadType[p.kind]
    \/ p.meta # LORAWAN_TYPE

(* id (12 bits) and data_rate (4 bits) in two bytes.                       *)
IdDrBytes(id, dr) == <<(id \div 16) % 256, U8((id % 16) * 16 + Lo4(dr))>>

pack_uplink_packet(p) ==
    IF PackRejects(p) THEN NULL
    ELSE <<build_mhdr(p.meta, p.ptype, p.hop)>>
         \o IdDrBytes(p.id, p.dr)
         \o <<U8(p.rssi), U8(p.snr), p.channel>>
         \o p.payload

(* (v >> 24) & 0xFF, ..., v & 0xFF of a uint32 are its bytes, most        *)
(* significant first: the tuple itself.                                    *)
pack_downlink_packet(p) ==
    IF PackRejects(p) THEN NULL
    ELSE <<build_mhdr(p.meta, p.ptype, p.hop)>>
         \o IdDrBytes(p.id, p.dr)
         \o host_to_be32(p.freq)
         \o <<U8(Lo4(p.txpow) * 16 + Lo4(p.delay))>>
         \o host_to_be32(p.count)
         \o p.payload

pack_event_packet(p) ==
    IF PackRejects(p) THEN NULL
    ELSE <<build_mhdr(p.meta, p.ptype, p.hop)>>
         \o <<(p.event_id \div 256) % 256, p.event_id % 256>>
         \o <<U8(p.event_type)>>
         \o p.payload

-----------------------------------------------------------------------------
(* unpack_*: the length check, then parse_mhdr and the discriminators,     *)
(* the META block, then payload_len = len - index against the cap.         *)
UnpackRejects(kind, w) ==
    \/ Len(w) < HeaderLen[kind]
    \/ parse_mhdr(w[1]).ptype # PayloadType[kind]
    \/ parse_mhdr(w[1]).meta # LORAWAN_TYPE

(* A slip: the low nibble of the id taken from the wrong half of the byte. *)
IdOf_wrong_nibble(w, i) == (w[i] * 16) + (w[i + 1] % 16)

(* A slip: the SNR upper bound taken as inclusive of 32.                   *)
SnrInRange_off_by_one(snr) == snr >= -32 /\ snr <= 32

(* packet->snr < -32 || packet->snr > 31 rejects the packet.               *)
SnrInRange(snr) == snr >= -32 /\ snr <= 31

(* (data[i] << 4) | ((data[i+1] >> 4) & 0x0F) and data[i+1] & 0x0F.        *)
IdOf(w, i) == (w[i] * 16) + ((w[i + 1] \div 16) % 16)
DrOf(w, i) == w[i + 1] % 16

Payload(w, kind) == SubSeq(w, HeaderLen[kind] + 1, Len(w))

unpack_uplink_packet(w) ==
    IF UnpackRejects("uplink", w) \/ ~SnrInRange(I8(w[5]))
       \/ Len(w) - 6 > MAX_PHY_PAYLOAD_LEN
    THEN FAIL
    ELSE [kind |-> "uplink", meta |-> parse_mhdr(w[1]).meta,
          ptype |-> parse_mhdr(w[1]).ptype, hop |-> parse_mhdr(w[1]).hop,
          id |-> IdOf(w, 2), dr |-> DrOf(w, 2), rssi |-> I8(w[4]),
          snr |-> I8(w[5]), channel |-> w[6], payload |-> Payload(w, "uplink")]

unpack_downlink_packet(w) ==
    IF UnpackRejects("downlink", w) \/ Len(w) - 12 > MAX_PHY_PAYLOAD_LEN
    THEN FAIL
    ELSE [kind |-> "downlink", meta |-> parse_mhdr(w[1]).meta,
          ptype |-> parse_mhdr(w[1]).ptype, hop |-> parse_mhdr(w[1]).hop,
          id |-> IdOf(w, 2), dr |-> DrOf(w, 2),
          freq |-> be_to_host32(SubSeq(w, 4, 7)),
          txpow |-> (w[8] \div 16) % 16, delay |-> w[8] % 16,
          count |-> be_to_host32(SubSeq(w, 9, 12)),
          payload |-> Payload(w, "downlink")]

(* event_type is stored as read: unpack does not check it is a known type. *)
unpack_event_packet(w) ==
    IF UnpackRejects("event", w) \/ Len(w) - 4 > MAX_EVENT_PAYLOAD_LEN
    THEN FAIL
    ELSE [kind |-> "event", meta |-> parse_mhdr(w[1]).meta,
          ptype |-> parse_mhdr(w[1]).ptype, hop |-> parse_mhdr(w[1]).hop,
          event_id |-> w[2] * 256 + w[3], event_type |-> w[4],
          payload |-> Payload(w, "event")]

Pack(p) ==
    CASE p.kind = "uplink"   -> pack_uplink_packet(p)
      [] p.kind = "downlink" -> pack_downlink_packet(p)
      [] p.kind = "event"    -> pack_event_packet(p)

Unpack(kind, w) ==
    CASE kind = "uplink"   -> unpack_uplink_packet(w)
      [] kind = "downlink" -> unpack_downlink_packet(w)
      [] kind = "event"    -> unpack_event_packet(w)

-----------------------------------------------------------------------------
(* The protocol as spec.md section 4.1 states it, written independently   *)
(* of the code: the MHDR and META fields are concatenated as bit strings   *)
(* of their widths, most significant bit first, multi-byte integers big   *)
(* endian, and the payload follows.                                        *)
RECURSIVE BitsOf(_, _)
BitsOf(v, width) ==
    IF width = 0 THEN <<>> ELSE BitsOf(v \div 2, width - 1) \o <<v % 2>>

RECURSIVE BitsToBytes(_)
BitsToBytes(bs) ==
    IF bs = <<>> THEN <<>>
    ELSE <<Seqs!FoldLeft(LAMBDA acc, b : 2 * acc + b, 0, SubSeq(bs, 1, 8))>>
         \o BitsToBytes(SubSeq(bs, 9, Len(bs)))

(* A field list <<value, width>>, ... as bytes.                            *)
Serialize(fields) ==
    BitsToBytes(Seqs!FoldLeft(LAMBDA acc, f : acc \o BitsOf(f[1], f[2]),
                              <<>>, fields))

U32Fields(v) == [i \in 1 .. 4 |-> <<v[i], 8>>]

SpecFields(p) ==
    <<<<LORAWAN_TYPE, 3>>, <<PayloadType[p.kind], 2>>, <<p.hop, 3>>>>
    \o CASE p.kind = "uplink" ->
              <<<<p.id, 12>>, <<p.dr, 4>>, <<p.rssi % 256, 8>>,
                <<p.snr % 256, 8>>, <<p.channel, 8>>>>
         [] p.kind = "downlink" ->
              <<<<p.id, 12>>, <<p.dr, 4>>>> \o U32Fields(p.freq)
              \o <<<<p.txpow, 4>>, <<p.delay, 4>>>> \o U32Fields(p.count)
         [] p.kind = "event" ->
              <<<<p.event_id, 16>>, <<p.event_type, 8>>>>

SpecEncode(p) == Serialize(SpecFields(p)) \o p.payload

Byte == 0 .. 255
U32 == [1 .. 4 -> Byte]

(* A valid packet: every field within the range the protocol gives it.     *)
Valid(p) ==
    /\ p.meta = LORAWAN_TYPE
    /\ p.ptype = PayloadType[p.kind]
    /\ p.hop \in 0 .. 7
    /\ Len(p.payload) <= PayloadCap[p.kind]
    /\ p.kind \in {"uplink", "downlink"} =>
          /\ p.id \in 0 .. 4095 /\ p.dr \in 0 .. 15
    /\ p.kind = "uplink" =>
          /\ p.rssi \in -128 .. 127 /\ p.snr \in -32 .. 31
          /\ p.channel \in Byte
    /\ p.kind = "downlink" =>
          /\ p.freq \in U32 /\ p.count \in U32
          /\ p.txpow \in 0 .. 15 /\ p.delay \in 0 .. 15
    /\ p.kind = "event" =>
          /\ p.event_id \in 0 .. 65535 /\ p.event_type \in Byte

-----------------------------------------------------------------------------
(* How the relay builds structs.  generate_uplink_id masks a rand() value  *)
(* r (0 .. RAND_MAX; srand is seeded once from the time) to 12 bits, and   *)
(* generate_dwlink_id reuses it.                                           *)
generate_uplink_id(r) == r % 4096
generate_dwlink_id(r) == generate_uplink_id(r)

(* init_*_packet: memset to 0, then the LoRaWAN meta type and the struct's *)
(* payload type.                                                           *)
init_uplink_packet ==
    [kind |-> "uplink", meta |-> LORAWAN_TYPE, ptype |-> UPLINK_TYPE,
     hop |-> 0, id |-> 0, dr |-> 0, rssi |-> 0, snr |-> 0, channel |-> 0,
     payload |-> <<>>]

init_downlink_packet ==
    [kind |-> "downlink", meta |-> LORAWAN_TYPE, ptype |-> DOWNLINK_TYPE,
     hop |-> 0, id |-> 0, dr |-> 0, freq |-> <<0, 0, 0, 0>>, txpow |-> 0,
     delay |-> 0, count |-> <<0, 0, 0, 0>>, payload |-> <<>>]

(* create_*_packet_with_params: an initialised struct with a generated id  *)
(* and the arguments stored as passed (count_us of a downlink stays 0).    *)
create_uplink_packet_with_params(r, dr, rssi, snr, channel) ==
    [init_uplink_packet EXCEPT !.id = generate_uplink_id(r), !.dr = dr,
                               !.rssi = rssi, !.snr = snr, !.channel = channel]

create_downlink_packet_with_params(r, dr, freq, txpow, delay) ==
    [init_downlink_packet EXCEPT !.id = generate_dwlink_id(r), !.dr = dr,
                                 !.freq = freq, !.txpow = txpow, !.delay = delay]

-----------------------------------------------------------------------------
(* A relay builds a struct and packs it, and its peer unpacks the bytes;   *)
(* or bytes arrive from the air and are unpacked.  Then the next packet.   *)
VARIABLES stage, pkt, wire, out

vars == <<stage, pkt, wire, out>>

(* The choice of the next input: a struct to pack, or bytes to unpack.    *)
NewInput(st, p, w, o) ==
    \/ /\ st = "built" /\ p \in Packets
       /\ w = NULL /\ o = NULL
    \/ /\ st = "received" /\ p = NULL
       /\ w \in Wires /\ o = NULL

Init == NewInput(stage, pkt, wire, out)

PackPacket ==
    /\ stage = "built"
    /\ wire' = Pack(pkt)
    /\ stage' = "packed"
    /\ UNCHANGED <<pkt, out>>

UnpackPacked ==
    /\ stage = "packed"
    /\ wire # NULL
    /\ out' = Unpack(pkt.kind, wire)
    /\ stage' = "unpacked"
    /\ UNCHANGED <<pkt, wire>>

UnpackReceived ==
    /\ stage = "received"
    /\ \E kind \in Kinds : out' = Unpack(kind, wire)
    /\ stage' = "unpacked"
    /\ UNCHANGED <<pkt, wire>>

NextPacket ==
    /\ \/ stage = "unpacked"
       \/ stage = "packed" /\ wire = NULL
    /\ NewInput(stage', pkt', wire', out')

Next == PackPacket \/ UnpackPacked \/ UnpackReceived \/ NextPacket

Spec == Init /\ [][Next]_vars

-----------------------------------------------------------------------------
TypeOK ==
    /\ stage \in {"built", "packed", "received", "unpacked"}
    /\ pkt \in Packets \cup {NULL}
    /\ wire \in Seq(Byte) \cup {NULL}
    /\ out = NULL \/ out = FAIL \/ out.kind \in Kinds

(* decode(encode(P)) = P for every valid packet P: unpack_* of the bytes   *)
(* written by pack_* gives back every member of the struct.               *)
RoundTrip ==
    (stage = "unpacked" /\ pkt # NULL /\ Valid(pkt)) => out = pkt

(* pack_* accepts every valid packet (payload lengths 0 to the cap         *)
(* included) and writes exactly the bytes section 4.1 prescribes, with    *)
(* frequency and count_us big endian.                                      *)
WireMatchesSpec ==
    (stage = "packed" /\ Valid(pkt)) => wire = SpecEncode(pkt)

(* unpack_* accepts only the encoding of a valid packet: a struct it       *)
(* returns is in range (SNR in -32..31, payload within the cap) and        *)
(* encodes back to the bytes it came from.                                 *)
DecodeSound ==
    (stage = "unpacked" /\ out # FAIL) =>
        /\ Valid(out)
        /\ SpecEncode(out) = wire

=============================================================================
