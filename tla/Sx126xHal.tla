----------------------------- MODULE Sx126xHal -----------------------------
(***************************************************************************)
(* The SX126x concentrator HAL of the OneHub gateway:                      *)
(*   src/onehub/libhub/lorahub_hal.c        start, stop, receive, send,   *)
(*                                           status                        *)
(*   src/liblora/onehub/lorahub/lorahub_hal_rx.c                           *)
(*                                           DIO1 ISR, IRQ flags, get_pkt  *)
(*                                                                         *)
(* Three actors run concurrently:                                          *)
(*   - the caller: whichever forwarder thread holds the concentrator      *)
(*     mutex and calls one HAL entry point (receive, send, start, stop,    *)
(*     setconf).  The mutex serialises the calls, so one program counter   *)
(*     pc describes it;                                                    *)
(*   - the GPIO interrupt thread, which runs radio_on_dio_irq in two       *)
(*     steps (set irq_fired, then read the counter into irq_count_us);     *)
(*   - the radio itself, which raises IRQ bits and the DIO1 line.          *)
(*                                                                         *)
(* The board HAL (sx126x_hal.c) never reports an SPI failure: a failed   *)
(* transfer still returns SX126X_HAL_STATUS_OK and a read yields whatever *)
(* the uninitialised data_in held.  So the ASSERT_RAL_RC error paths are  *)
(* reached only by parameter checks (configure_tx), and an IRQ status read *)
(* may return garbage; the groups named in Faults may do so.              *)
(***************************************************************************)
EXTENDS Integers, FiniteSets

CONSTANTS
    MaxPkts,      \* number of packets the air delivers in a behaviour
    Faults,       \* RAL call groups that may fail, a subset of FaultCalls
    TxEnable,     \* rxrf_conf.tx_enable
    CntBits,      \* width of the microsecond counter in the model
    PollWait,     \* wait_ms(100) of the send wait loop, in counter units
    TcxoUs,       \* tcxo_startup_time_us, in counter units
    TxOffsets,    \* how far ahead of now a downlink's count_us is
    Freqs,        \* rxrf_conf.freq_hz values a caller may configure, in kHz
    Bandwidths,   \* rxif_conf.bandwidth values a caller may pass
    Coderates,    \* rxif_conf.coderate values a caller may pass
    Datarates     \* rxif_conf.datarate[0] values a caller may pass

FaultCalls == {"configure_tx", "spi_read"}

ASSUME /\ MaxPkts \in Nat \ {0}
       /\ Faults \subseteq FaultCalls
       /\ TxEnable \in BOOLEAN
       /\ CntBits \in Nat \ {0}
       /\ PollWait \in Nat \ {0}
       /\ TcxoUs \in Nat
       /\ TxOffsets \subseteq Nat
       /\ Freqs \subseteq Nat /\ Bandwidths \subseteq Nat
       /\ Coderates \subseteq Nat /\ Datarates \subseteq Nat

CntMod == 2 ^ CntBits

(* Packet identities: a packet is named by the order it arrived in.        *)
NoPkt == 0
PktIds == 1 .. MaxPkts

(* Reports of one packet are counted up to ReportCap: two tell a repeat.  *)
ReportCap == 2

RxIrqs == {"RX_DONE", "CRC_ERROR", "TIMEOUT"}
Irqs == RxIrqs \cup {"TX_DONE"}

(* The modulation codes of basic_hal.h and the checks made on them.       *)
BW_125KHZ == 4
BW_250KHZ == 5
BW_500KHZ == 6
BW_400KHZ == 14
BW_800KHZ == 15
IS_LORA_BW(bw) ==
    bw \in {BW_125KHZ, BW_250KHZ, BW_500KHZ, BW_400KHZ, BW_800KHZ}
IS_LORA_DR(dr) == dr \in 5 .. 12
IS_LORA_CR(cr) == cr \in 1 .. 4

(* rxif_conf is a zeroed static: BW, CR and DR UNDEFINED until set.        *)
Unset == [bw |-> 0, cr |-> 0, dr |-> 0]
Confs == [bw : Bandwidths, cr : Coderates, dr : Datarates]

(* sx126x_check_lora_mod_params: only the sub-GHz band and the sub-GHz     *)
(* bandwidths, although IS_LORA_BW also admits the 2.4 GHz ones.  The     *)
(* frequency is in kHz (TLC's integers are 32-bit signed, freq_hz a       *)
(* uint32); the band limits are whole kHz, so the comparison is the same.  *)
sx126x_check_lora_mod_params(freq_hz, bw, cr) ==
    /\ freq_hz >= 150000 /\ freq_hz <= 960000
    /\ bw \in {BW_125KHZ, BW_250KHZ, BW_500KHZ}
    /\ cr \in 1 .. 4

(* sx126x_radio_configure_rx succeeds when the parameters pass the check;  *)
(* its RAL calls cannot fail with this board HAL.                          *)
sx126x_radio_configure_rx(freq_hz, conf) ==
    sx126x_check_lora_mod_params(freq_hz, conf.bw, conf.cr)

(* The converters of lorahub_aux.c return -1 for a value they do not       *)
(* support.  A RAL enum member is stood for by the HAL's number for it     *)
(* (SF, kHz, coding-rate denominator).                                     *)
RalError == -1
sx126x_convert_hal_to_ral_sf(sf) == IF sf \in 5 .. 12 THEN sf ELSE RalError
sx126x_convert_hal_to_ral_bw(bw) ==
    CASE bw = BW_125KHZ -> 125
      [] bw = BW_250KHZ -> 250
      [] bw = BW_500KHZ -> 500
      [] OTHER          -> RalError
sx126x_convert_hal_to_ral_cr(cr) == IF cr \in 1 .. 4 THEN cr + 4 ELSE RalError

(* LPWAN_NETWORK_TYPE is PUBLIC: 0x21 at 2.4 GHz, 0x34 below it from SF7,  *)
(* and the private 0x12 for SF5 and SF6.                                   *)
sx126x_get_lora_sync_word(freq_hz, sf) ==
    IF freq_hz >= 2400000 THEN 33
    ELSE IF sf >= 7 THEN 52 ELSE 18

(* What configure_rx loads into the radio after its check: the converted   *)
(* modulation, the preamble (HDR_LORA_PREAMBLE below SF7, else             *)
(* STD_LORA_PREAMBLE), the sync word and the RF frequency.  radio_setup    *)
(* (ral_reset and ral_init) leaves none loaded; configure_tx loads the     *)
(* downlink's.                                                             *)
RxRadioCfg(freq_hz, conf) ==
    [use |-> "rx", freq |-> freq_hz,
     sf |-> sx126x_convert_hal_to_ral_sf(conf.dr),
     bw |-> sx126x_convert_hal_to_ral_bw(conf.bw),
     cr |-> sx126x_convert_hal_to_ral_cr(conf.cr),
     preamble |-> IF conf.dr < 7 THEN 12 ELSE 8,
     sync |-> sx126x_get_lora_sync_word(freq_hz, conf.dr)]
NoCfg == [use |-> "none"]
TxCfg == [use |-> "tx"]

RxStatuses == {"RX_STATUS_UNKNOWN", "RX_OFF", "RX_ON", "RX_SUSPENDED"}
TxStatuses == {"TX_STATUS_UNKNOWN", "TX_OFF", "TX_FREE", "TX_SCHEDULED",
               "TX_EMITTING"}

VARIABLES
    \* lorahub_hal.c private state
    is_started, rx_status, tx_status,
    rf_conf,        \* rxrf_conf.freq_hz, in kHz
    if_conf,        \* rxif_conf: bandwidth, coderate, datarate[0]
    \* lorahub_hal_rx.c private state
    irq_fired, irq_count_us, flag_rx_done, flag_rx_crc_error, flag_rx_timeout,
    \* the caller holding the concentrator mutex
    pc, target,
    \* the GPIO interrupt thread running radio_on_dio_irq
    isr_pc,
    \* the radio
    mode, irq_reg, buffer, edge,
    radio_cfg,      \* the modulation, packet and RF parameters loaded
    \* time: the counter read by sx126x_get_instcnt, and the number of
    \* packets that arrived so far
    now, arrived,
    \* history: how often each packet was handed to the caller, the
    \* counter value it was stamped with, and when TX was started
    reports, stamps, tx_at

hal == <<is_started, rx_status, tx_status, rf_conf, if_conf>>
rx == <<irq_fired, irq_count_us, flag_rx_done, flag_rx_crc_error,
        flag_rx_timeout>>
radio == <<mode, irq_reg, buffer, edge, radio_cfg>>
history == <<reports, stamps, tx_at>>
vars == <<hal, rx, pc, target, isr_pc, radio, now, arrived, history>>

(* The outcomes a call of group c can have: spi_transfer ignores the       *)
(* result of spi_device_transmit, so "spi_read" FALSE is a read whose      *)
(* bytes are garbage; "configure_tx" FALSE is a downlink whose parameters  *)
(* configure_tx refuses.                                                   *)
Ok(c) == IF c \in Faults THEN BOOLEAN ELSE {TRUE}

(* (int32_t)(a - b) on the model's counter width.                          *)
SignedDiff(a, b) ==
    LET d == (a - b) % CntMod
    IN  IF d >= CntMod \div 2 THEN d - CntMod ELSE d

-----------------------------------------------------------------------------
(* Radio commands, as done by the RAL when the call succeeds.              *)

(* sx126x_radio_set_rx: set the RX IRQ mask, clear all IRQs, enter single  *)
(* RX.                                                                     *)
sx126x_radio_set_rx ==
    /\ mode' = "rx"
    /\ irq_reg' = {}

(* sx126x_radio_setup: reset and init the radio (standby, no IRQ), set   *)
(* the fallback mode and install the DIO1 handler.                         *)
sx126x_radio_setup ==
    /\ mode' = "standby"
    /\ irq_reg' = {}

(* An IRQ bit raised by the radio: DIO1 rises when the masked IRQ status   *)
(* goes from empty to non empty, and the GPIO layer queues an edge.        *)
RaiseIrq(bits) ==
    /\ irq_reg' = irq_reg \cup bits
    /\ edge' = (edge \/ irq_reg = {})

-----------------------------------------------------------------------------
Init ==
    /\ is_started = FALSE
    /\ rx_status = "RX_STATUS_UNKNOWN"
    /\ tx_status = "TX_STATUS_UNKNOWN"
    /\ rf_conf = 0
    /\ if_conf = Unset
    /\ irq_fired = FALSE
    /\ irq_count_us = 0
    /\ flag_rx_done = FALSE
    /\ flag_rx_crc_error = FALSE
    /\ flag_rx_timeout = FALSE
    /\ pc = "idle"
    /\ target = 0
    /\ isr_pc = "wait"
    /\ mode = "standby"
    /\ irq_reg = {}
    /\ buffer = NoPkt
    /\ edge = FALSE
    /\ radio_cfg = NoCfg
    /\ now = 0
    /\ arrived = 0
    /\ reports = [p \in PktIds |-> 0]
    /\ stamps = {}
    /\ tx_at = 0

-----------------------------------------------------------------------------
(* The radio.  In single RX mode with fallback STDBY_RC the radio returns  *)
(* to standby after a packet or an RX timeout, and after a TX.             *)

(* A packet ends on air: RX_DONE (with CRC_ERROR when the CRC failed), the *)
(* payload overwrites the buffer.                                          *)
PacketArrives ==
    /\ mode = "rx"
    /\ arrived < MaxPkts
    /\ \E crc \in BOOLEAN :
          RaiseIrq({"RX_DONE"} \cup (IF crc THEN {"CRC_ERROR"} ELSE {}))
    /\ arrived' = arrived + 1
    /\ buffer' = arrived + 1
    /\ mode' = "standby"
    /\ UNCHANGED <<hal, rx, pc, target, isr_pc, radio_cfg, now, history>>

(* No preamble within RX_TIMEOUT_MS.                                        *)
RxTimeout ==
    /\ mode = "rx"
    /\ RaiseIrq({"TIMEOUT"})
    /\ mode' = "standby"
    /\ UNCHANGED <<hal, rx, pc, target, isr_pc, buffer, radio_cfg, now, arrived,
                   history>>

TxDone ==
    /\ mode = "tx"
    /\ RaiseIrq({"TX_DONE"})
    /\ mode' = "standby"
    /\ UNCHANGED <<hal, rx, pc, target, isr_pc, buffer, radio_cfg, now, arrived,
                   history>>

-----------------------------------------------------------------------------
(* radio_on_dio_irq, run by the GPIO interrupt thread for a DIO1 edge:     *)
(*     irq_fired = true;                                                   *)
(*     sx126x_get_instcnt( &irq_count_us );                                *)
(* The counter it reads is abstracted to the number of packets that have  *)
(* arrived: it orders the stamps of packets as the microsecond counter     *)
(* does.                                                                   *)
(* sx126x_get_instcnt: gettimeofday in microseconds, cast to uint32.  The  *)
(* GPIO thread's reading is abstracted to the number of packets arrived.  *)
sx126x_get_instcnt == arrived

radio_on_dio_irq_fire ==
    /\ isr_pc = "wait"
    /\ edge
    /\ edge' = FALSE
    /\ irq_fired' = TRUE
    /\ isr_pc' = "stamp"
    /\ UNCHANGED <<hal, irq_count_us, flag_rx_done, flag_rx_crc_error,
                   flag_rx_timeout, pc, target, mode, irq_reg, buffer,
                   radio_cfg, now, arrived, history>>

radio_on_dio_irq_stamp ==
    /\ isr_pc = "stamp"
    /\ irq_count_us' = sx126x_get_instcnt
    /\ isr_pc' = "wait"
    /\ UNCHANGED <<hal, irq_fired, flag_rx_done, flag_rx_crc_error,
                   flag_rx_timeout, pc, target, radio, now, arrived, history>>

-----------------------------------------------------------------------------
(* Configuration, refused while the concentrator runs.  rxrf_setconf       *)
(* copies any configuration (start later refuses freq_hz = 0); rxif_setconf *)
(* rejects an invalid one and leaves the old one in place.                 *)
sx126x_rxrf_setconf ==
    /\ pc = "idle"
    /\ ~is_started
    /\ \E f \in Freqs : rf_conf' = f
    /\ UNCHANGED <<is_started, rx_status, tx_status, if_conf, rx, pc, target,
                   isr_pc, radio, now, arrived, history>>

sx126x_rxif_setconf ==
    /\ pc = "idle"
    /\ ~is_started
    /\ \E conf \in Confs :
         if_conf' = IF IS_LORA_DR(conf.dr) /\ IS_LORA_BW(conf.bw) /\ IS_LORA_CR(conf.cr)
                    THEN conf ELSE if_conf
    /\ UNCHANGED <<is_started, rx_status, tx_status, rf_conf, rx, pc, target,
                   isr_pc, radio, now, arrived, history>>

(* sx126x_start (also a restart when already started).  radio_setup       *)
(* resets the radio; configure_rx refuses parameters outside the sub-GHz   *)
(* check, and then the radio stays in standby with RX_OFF.                 *)
sx126x_start ==
    /\ pc = "idle"
    /\ rf_conf # 0 /\ if_conf.bw # 0 /\ if_conf.cr # 0 /\ if_conf.dr # 0
    /\ LET ok_cfg == sx126x_radio_configure_rx(rf_conf, if_conf) IN
          /\ rx_status' = IF ok_cfg THEN "RX_ON" ELSE "RX_OFF"
          /\ IF ok_cfg THEN sx126x_radio_set_rx ELSE sx126x_radio_setup
          /\ radio_cfg' = IF ok_cfg THEN RxRadioCfg(rf_conf, if_conf) ELSE NoCfg
          /\ tx_status' = IF ~ok_cfg THEN tx_status
                          ELSE IF TxEnable THEN "TX_FREE" ELSE "TX_OFF"
          /\ is_started' = (is_started \/ ok_cfg)
    /\ UNCHANGED <<rf_conf, if_conf>>
    /\ UNCHANGED <<rx, pc, target, isr_pc, buffer, edge, now, arrived, history>>

sx126x_stop ==
    /\ pc = "idle"
    /\ is_started
    /\ is_started' = FALSE
    /\ UNCHANGED <<rx_status, tx_status, rf_conf, if_conf, rx, pc, target,
                   isr_pc, radio, now, arrived, history>>

-----------------------------------------------------------------------------
(* sx126x_receive with sx126x_radio_get_pkt and radio_irq_process inlined. *)
(* One call is one step: the GPIO thread is the only other writer of the   *)
(* state it reads, and its two steps interleave before or after the call.  *)

(* ral_get_and_clear_irq_status: the status read over SPI (garbage when   *)
(* the transfer failed silently), then the bits read are cleared.         *)
IrqRegsRead(ok, garbage) == IF ok THEN irq_reg ELSE garbage

(* A slip: only a packet re-arms RX, an RX timeout does not.             *)
irq_received_pkt_only(pkt, tmo) == pkt

(* *irq_received: a packet, a CRC error or an RX timeout was taken.        *)
irq_received(pkt, tmo) == pkt \/ tmo

(* flag_rx_done and flag_rx_crc_error are cleared only once the packet has *)
(* been read by sx126x_radio_get_pkt.                                      *)
RxFlagAfter(flag, delivered) == flag /\ ~delivered

sx126x_receive ==
    /\ pc = "idle"
    /\ is_started
    /\ \E ok_irq \in Ok("spi_read"), garbage \in SUBSET RxIrqs :
       LET regs == IF irq_fired THEN IrqRegsRead(ok_irq, garbage) ELSE {}
           left == irq_reg \ regs
           done == flag_rx_done \/ "RX_DONE" \in regs
           crc  == flag_rx_crc_error \/ "CRC_ERROR" \in regs
           tmo  == flag_rx_timeout \/ "TIMEOUT" \in regs
           pkt  == done \/ crc
           delivered == pkt
       IN  /\ irq_fired' = FALSE
           /\ flag_rx_done' = RxFlagAfter(done, delivered)
           /\ flag_rx_crc_error' = RxFlagAfter(crc, delivered)
           \* the timeout flag is cleared only when no packet was pending
           /\ flag_rx_timeout' = (tmo /\ pkt)
           /\ reports' = IF delivered /\ buffer \in PktIds
                         THEN [reports EXCEPT ![buffer] = IF @ < ReportCap THEN @ + 1
                                                                          ELSE @]
                         ELSE reports
           /\ stamps' = IF delivered THEN stamps \cup {<<buffer, irq_count_us>>}
                        ELSE stamps
           /\ IF irq_received(pkt, tmo)
              THEN sx126x_radio_set_rx
              ELSE irq_reg' = left /\ UNCHANGED mode
    /\ UNCHANGED <<hal, irq_count_us, pc, target, isr_pc, buffer, edge,
                   radio_cfg, now, arrived, tx_at>>

-----------------------------------------------------------------------------
(* sx126x_send, in the steps between which the radio and the GPIO thread  *)
(* act: configure, the wait loop, ral_set_tx, and the TX_DONE loop.        *)

(* Lines 383-394: rx_status is set to RX_SUSPENDED, then configure_tx.    *)
(* sx126x_radio_configure_tx (lorahub_hal_tx.c, not among the sources) is  *)
(* taken to put the radio in standby with the TX IRQ mask and cleared IRQs, *)
(* and to load the downlink payload into the radio buffer.                 *)
(* It refuses the downlink's parameters (Ok FALSE); then the radio goes   *)
(* back to RX and the call returns an error.                               *)
sx126x_send_configure(off) ==
    /\ pc = "idle"
    /\ is_started
    /\ off \in TxOffsets
    /\ target' = (now + off) % CntMod
    /\ rx_status' = "RX_SUSPENDED"
    /\ \E ok_tx \in Ok("configure_tx") :
          IF ok_tx
          THEN /\ tx_status' = "TX_SCHEDULED"
               /\ mode' = "standby" /\ irq_reg' = {}
               /\ radio_cfg' = TxCfg
               /\ buffer' = NoPkt
               /\ pc' = "tx_wait"
          ELSE /\ radio_cfg' = RxRadioCfg(rf_conf, if_conf)
               /\ sx126x_radio_set_rx
               /\ UNCHANGED <<tx_status, buffer, pc>>
    /\ UNCHANGED <<is_started, rf_conf, if_conf, rx, isr_pc, edge, now,
                   arrived, history>>

(* One iteration of                                                        *)
(*   do { get_instcnt(&count_us_now); wait_ms(100); }                      *)
(*   while ((int32_t)(pkt_data->count_us - count_us_now) > tcxo_startup);  *)
(* count_us_now is read before the wait, so the test is on the old now.    *)
NextNow(t) == (t + PollWait) % CntMod

(* A slip: the difference is taken unsigned, without the (int32_t) cast.   *)
sx126x_send_wait_unsigned ==
    /\ pc = "tx_wait"
    /\ now' = NextNow(now)
    /\ pc' = IF (target - now) % CntMod > TcxoUs THEN "tx_wait" ELSE "tx_set"
    /\ UNCHANGED <<hal, rx, target, isr_pc, radio, arrived, history>>

sx126x_send_wait ==
    /\ pc = "tx_wait"
    /\ now' = NextNow(now)
    /\ pc' = IF SignedDiff(target, now) > TcxoUs THEN "tx_wait" ELSE "tx_set"
    /\ UNCHANGED <<hal, rx, target, isr_pc, radio, arrived, history>>

(* ral_set_tx, then tx_status = TX_EMITTING.                              *)
sx126x_send_set_tx ==
    /\ pc = "tx_set"
    /\ mode' = "tx"
    /\ tx_status' = "TX_EMITTING"
    /\ tx_at' = now
    /\ pc' = "tx_emit"
    /\ UNCHANGED <<is_started, rx_status, rf_conf, if_conf, rx, target, isr_pc,
                   irq_reg, buffer, edge, radio_cfg, now, arrived, reports,
                   stamps>>

(* A slip: back to RX without configure_rx, on the downlink's parameters. *)
sx126x_send_finish_no_reconf ==
    /\ tx_status' = "TX_FREE"
    /\ UNCHANGED radio_cfg
    /\ sx126x_radio_set_rx
    /\ rx_status' = "RX_ON"
    /\ pc' = "idle"

(* Lines 447-458, once TX_DONE or TIMEOUT was seen: tx_status = TX_FREE,  *)
(* configure_rx and set_rx with their results ignored, rx_status = RX_ON.  *)
sx126x_send_finish ==
    /\ tx_status' = "TX_FREE"
    /\ radio_cfg' = RxRadioCfg(rf_conf, if_conf)
    /\ sx126x_radio_set_rx
    /\ rx_status' = "RX_ON"
    /\ pc' = "idle"

(* A slip: the loop body run once, its exit test taken as passed.         *)
sx126x_send_poll_irq_once ==
    /\ pc = "tx_emit"
    /\ \E ok \in Ok("spi_read"), garbage \in SUBSET Irqs :
          LET regs == IrqRegsRead(ok, garbage) IN
          /\ irq_reg' = irq_reg \ regs
          /\ sx126x_send_finish
    /\ UNCHANGED <<is_started, rf_conf, if_conf, rx, target, isr_pc, buffer,
                   edge, now, arrived, history>>

(* One iteration of the TX_DONE loop: get_and_clear_irq_status, which     *)
(* may read garbage, then finish on TX_DONE or TIMEOUT.                    *)
sx126x_send_poll_irq ==
    /\ pc = "tx_emit"
    /\ \E ok \in Ok("spi_read"), garbage \in SUBSET Irqs :
          LET regs == IrqRegsRead(ok, garbage) IN
          IF regs \cap {"TX_DONE", "TIMEOUT"} # {}
          THEN sx126x_send_finish
          ELSE /\ irq_reg' = irq_reg \ regs
               /\ UNCHANGED <<rx_status, tx_status, mode, radio_cfg, pc>>
    /\ UNCHANGED <<is_started, rf_conf, if_conf, rx, target, isr_pc, buffer,
                   edge, now, arrived, history>>

-----------------------------------------------------------------------------
(* sx126x_status: what the HAL reports for TX_STATUS and RX_STATUS.        *)
sx126x_status_tx == IF ~is_started THEN "TX_OFF" ELSE tx_status
sx126x_status_rx == IF ~is_started THEN "RX_OFF" ELSE rx_status

-----------------------------------------------------------------------------
Next ==
    \/ PacketArrives
    \/ RxTimeout
    \/ TxDone
    \/ radio_on_dio_irq_fire
    \/ radio_on_dio_irq_stamp
    \/ sx126x_rxrf_setconf
    \/ sx126x_rxif_setconf
    \/ sx126x_start
    \/ sx126x_stop
    \/ sx126x_receive
    \/ \E off \in TxOffsets : sx126x_send_configure(off)
    \/ sx126x_send_wait
    \/ sx126x_send_set_tx
    \/ sx126x_send_poll_irq

(* The GPIO thread is woken by every edge, the radio finishes a TX, a send *)
(* in progress runs to its end, and the RX thread, which polls every few   *)
(* milliseconds and releases the concentrator mutex between calls, gets   *)
(* the mutex again whenever it keeps being free (strong fairness).         *)
Fairness ==
    /\ WF_vars(radio_on_dio_irq_fire)
    /\ WF_vars(radio_on_dio_irq_stamp)
    /\ WF_vars(TxDone)
    /\ WF_vars(sx126x_send_wait)
    /\ WF_vars(sx126x_send_set_tx)
    /\ WF_vars(sx126x_send_poll_irq)
    /\ SF_vars(sx126x_receive)

Spec == Init /\ [][Next]_vars /\ Fairness

-----------------------------------------------------------------------------
TypeOK ==
    /\ is_started \in BOOLEAN
    /\ rx_status \in RxStatuses
    /\ tx_status \in TxStatuses
    /\ rf_conf \in Freqs \cup {0} /\ if_conf \in Confs \cup {Unset}
    /\ irq_fired \in BOOLEAN
    /\ irq_count_us \in 0 .. MaxPkts
    /\ flag_rx_done \in BOOLEAN
    /\ flag_rx_crc_error \in BOOLEAN
    /\ flag_rx_timeout \in BOOLEAN
    /\ pc \in {"idle", "tx_wait", "tx_set", "tx_emit"}
    /\ target \in 0 .. CntMod - 1
    /\ isr_pc \in {"wait", "stamp"}
    /\ mode \in {"standby", "rx", "tx"}
    /\ irq_reg \subseteq Irqs
    /\ buffer \in {NoPkt} \cup PktIds
    /\ edge \in BOOLEAN
    /\ radio_cfg \in {NoCfg, TxCfg} \cup {RxRadioCfg(f, c) : f \in Freqs, c \in Confs}
    /\ now \in 0 .. CntMod - 1
    /\ arrived \in 0 .. MaxPkts
    /\ reports \in [PktIds -> 0 .. ReportCap]
    /\ stamps \subseteq ({NoPkt} \cup PktIds) \X (0 .. MaxPkts)
    /\ tx_at \in 0 .. CntMod - 1

(* No packet is handed to the caller twice by sx126x_receive, whatever the *)
(* order of the DIO1 interrupt thread, the RX re-arm and the IRQ flags    *)
(* kept across calls by radio_irq_process and sx126x_radio_get_pkt.        *)
NoDuplicateReport == \A p \in PktIds : reports[p] <= 1

(* While a started concentrator's radio is in RX, it listens with the     *)
(* parameters configure_rx derives from the configuration start checked:  *)
(* every way back to RX (start, the re-arm of sx126x_receive, the two     *)
(* returns of sx126x_send) has the RX modulation, preamble, sync word and  *)
(* frequency loaded, none of them a converter's -1, and none left over    *)
(* from a downlink.                                                        *)
RxListensAsConfigured ==
    (is_started /\ mode = "rx") =>
        /\ radio_cfg = RxRadioCfg(rf_conf, if_conf)
        /\ RalError \notin {radio_cfg.sf, radio_cfg.bw, radio_cfg.cr}

(* sx126x_send returns only once the radio has ended the downlink: the    *)
(* step that leaves its TX_DONE loop, configure_rx and set_rx included,    *)
(* is never taken while the radio is still transmitting, which would cut  *)
(* the downlink short.                                                     *)
TxEndsBeforeReturn ==
    [][(pc = "tx_emit" /\ pc' = "idle") => mode # "tx"]_vars

(* While the concentrator is started, the radio always gets back to RX:   *)
(* every RX_DONE, RX timeout or TX is followed by a re-arm by              *)
(* sx126x_receive or sx126x_send.                                          *)
RadioEventuallyListens == is_started ~> (mode = "rx" \/ ~is_started)

(* A packet the radio has received while the concentrator runs (RX_DONE   *)
(* raised, its payload in the buffer) is eventually handed out by          *)
(* sx126x_receive, unless a later packet arrives or the concentrator is   *)
(* stopped: no HAL call, sx126x_send included, drops it unread.            *)
PacketEventuallyReported ==
    \A p \in PktIds :
        (buffer = p /\ "RX_DONE" \in irq_reg /\ is_started)
            ~> (reports[p] > 0 \/ arrived > p \/ ~is_started)

(* A packet handed out by sx126x_receive carries the counter value read    *)
(* by radio_on_dio_irq for its own RX_DONE, never that of an earlier IRQ.  *)
RxStampNotBeforePacket ==
    \A s \in stamps : s[1] \in PktIds => s[2] >= s[1]

(* sx126x_send in timestamp mode starts TX tcxo_startup_time_us before    *)
(* count_us, so that the preamble starts when the counter reaches count_us *)
(* (lorahub_hal.h, sx126x_send).                                           *)
TxPreambleAtTarget ==
    pc = "tx_emit" => (tx_at + TcxoUs) % CntMod = target

=============================================================================
