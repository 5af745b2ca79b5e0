---------------------------- MODULE MC_RelayCodec ----------------------------
(***************************************************************************)
(* Inputs for RelayCodec: structs around every boundary the codec checks  *)
(* (payload lengths 0, 2, the cap and the cap plus one; SNR -33, -32, 31,  *)
(* 32; wrong meta_type and payload_type; the largest ids), and byte        *)
(* strings of every length around the header and payload limits.         *)
(***************************************************************************)
EXTENDS Integers, Sequences

CONSTANTS HostBigEndian, NULL, FAIL

VARIABLES stage, pkt, wire, out

PayloadOfLen(n) == [i \in 1 .. n |-> IF i % 2 = 1 THEN 222 ELSE 173]
Payloads(cap) == {PayloadOfLen(n) : n \in {0, 2, cap, cap + 1}}

Uplinks ==
    [kind : {"uplink"}, meta : {7, 6}, ptype : {0, 1}, hop : {2, 7},
     id : {2748, 4095}, dr : {5, 15}, rssi : {-128, -80},
     snr : {-33, -32, 7, 31, 32}, channel : {3}, payload : Payloads(245)]

Downlinks ==
    [kind : {"downlink"}, meta : {7, 6}, ptype : {1, 3}, hop : {2},
     id : {2748}, dr : {5, 15},
     freq : {<<51, 190, 39, 160>>, <<0, 0, 0, 1>>}, txpow : {0, 15},
     delay : {3}, count : {<<0, 0, 1, 0>>, <<255, 255, 255, 0>>},
     payload : Payloads(245)]

Events ==
    [kind : {"event"}, meta : {7, 6}, ptype : {3, 0}, hop : {2, 7},
     event_id : {258, 65535}, event_type : {1, 4}, payload : Payloads(240)]

(* Structs as the relay builds them, from rand() values at the 12-bit    *)
(* boundary and RAND_MAX, with a payload attached.                        *)
RandVals == {4095, 4096 + 2748, 2147483647}
Build == INSTANCE RelayCodec WITH Packets <- {}, Wires <- {}
Created ==
    {[p EXCEPT !.payload = PayloadOfLen(2)] :
        p \in {Build!create_uplink_packet_with_params(r, 15, -80, -32, 255) :
                 r \in RandVals}
          \cup {Build!create_downlink_packet_with_params(r, 5, <<51, 190, 39, 160>>,
                                                  15, 0) : r \in RandVals}}
      \cup {Build!init_uplink_packet, Build!init_downlink_packet}

MC_Packets == Uplinks \cup Downlinks \cup Events \cup Created

(* MHDR bytes: uplink, downlink and event of LoRaWAN meta type, a wrong   *)
(* meta type, the unused payload type 2.                                  *)
Mhdrs == {226, 234, 250, 232, 98, 242}
(* The fifth byte is the SNR of an uplink: -33, -32, 31, 32.               *)
WireBody(s) ==
    <<171, 197, 176, s, 3, 51, 190, 39, 160, 241, 0>> \o PayloadOfLen(246)
WireLens == {0, 2, 3, 4, 5, 10, 11, 248, 249, 250, 251, 256, 257}

MC_Wires ==
    {<<m>> \o SubSeq(WireBody(s), 1, l) :
        m \in Mhdrs, s \in {223, 224, 31, 32}, l \in WireLens}

INSTANCE RelayCodec WITH Packets <- MC_Packets, Wires <- MC_Wires

(* Example 5 of spec.md: the uplink hop=2, uplink_id=0xABC, dr=5,          *)
(* rssi=-80, snr=7, channel=3, payload DE AD is E2 AB C5 B0 07 03 DE AD.   *)
SpecExample ==
    [kind |-> "uplink", meta |-> 7, ptype |-> 0, hop |-> 2, id |-> 2748,
     dr |-> 5, rssi |-> -80, snr |-> 7, channel |-> 3, payload |-> <<222, 173>>]
ASSUME SpecEncode(SpecExample) = <<226, 171, 197, 176, 7, 3, 222, 173>>

=============================================================================
