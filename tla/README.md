# TLA+ models of dragino-basicfwd

This directory holds TLA+ models of the LoRa packet forwarder in `src/` and
the TLC configurations that check them. `PROJECT.json` holds the machine-readable
inventory: components, runs, mutants, the map from definitions to source lines,
findings and hazards.

## The system and its parts

| Part | Source | Role | Model |
|---|---|---|---|
| SX126x concentrator HAL | `onehub/libhub/lorahub_hal.c`, `liblora/onehub/lorahub/lorahub_hal_rx.c` | `sx126x_start/stop/receive/send/status`, configuration checks, the RX IRQ bookkeeping | `Sx126xHal` (partly) |
| Relay protocol codec | `relay/lora_relay_protocol.c` | id generation, struct constructors, packing and unpacking of relay uplink, downlink and event frames | `RelayCodec`, `MC_RelayCodec` (partly) |
| GPIO API | `onehub/radio_drivers/sx126x_driver/gpio_api.c` | libgpiod line requests, the interrupt thread, callbacks | `GpioApi` (partly) |
| SX126x board HAL | `.../sx126x_driver/src/sx126x_hal.c`, `sx126x_connect` in `onehub/libhub/lorahub_hal.c` | line requests, reset, wakeup, BUSY wait, NSS framing of commands | `Sx126xBoardHal`, refining `Sx126xBus`; its silent SPI failure is the `spi_read` fault of `Sx126xHal` |
| Timing and RAL helpers | `onehub/libhub/lorahub_aux.c` | `sx126x_check_lora_mod_params`, the HAL-to-RAL converters and `sx126x_get_lora_sync_word` are modelled in `Sx126xHal`; `wait_ms`, `timeout_check` are not | partly |
| Logger | `fwd/logger.c`, `inc/zhelpers.h` | ZeroMQ log-pull thread | not modelled |
| Configuration | `inc/gwcfg.h` | types and macros | no behaviour |

The specification also describes a JIT queue, RX ingest, a service runtime,
a filter, statistics and a coordinator (C2–C7). Their code is not in this tree, so
they are not modelled.

How the parts meet: the HAL drives the radio through the RAL and the board HAL
(`sx126x_hal.c`), which talks SPI and toggles chip select through the GPIO API;
the DIO1 interrupt reaches the HAL through a GPIO callback run on an interrupt
thread. The relay codec is independent: it turns relay structs into frames.

### How the HAL's actors interact

- **Caller thread.** The forwarder calls the HAL one call at a time; the
  concentrator mutex serialises the calls. The variable `pc` is this thread's
  position inside `sx126x_send`, which is split into steps because the send
  sleeps and polls.
- **GPIO interrupt thread.** It runs `radio_on_dio_irq` when DIO1 rises. The
  callback has two statements, `irq_fired = true` and then `sx126x_get_instcnt(&irq_count_us)`.
  They are two actions, `radio_on_dio_irq_fire` and `radio_on_dio_irq_stamp`,
  with `isr_pc` between them.
- **Radio.** The SX126x is an environment: `PacketArrives` (RX_DONE, maybe
  with CRC_ERROR, ends single RX), `RxTimeout`, `TxDone`; `edge` is the DIO1
  rising edge the GPIO thread waits for.
- **Faults.** The board HAL never reports an error: `spi_rw_byte` ignores
  `spi_device_transmit`'s result and `spi_transfer` returns its uninitialised
  `data_in`, so `sx126x_hal_read/write` always return OK. Every
  `ASSERT_RAL_RC` around an SPI call is therefore unreachable in this build.
  What remains, and what `Faults` enables (`Ok(c)`):
  - `"spi_read"`: an IRQ status read returns garbage bits (`IrqRegsRead`),
    and `get_and_clear` then clears the bits it read;
  - `"configure_tx"`: `sx126x_radio_configure_tx` refuses the downlink's
    parameters and `sx126x_send` takes its "back to RX" path.
  Parameter checks of the RX side are modelled from the code, not as faults:
  `sx126x_start` refuses (RX_OFF, radio in standby) a frequency or bandwidth
  that `sx126x_check_lora_mod_params` rejects, although `rxrf_setconf` and
  `rxif_setconf` (which admits the 2.4 GHz bandwidths of `IS_LORA_BW`) accepted it.

### How the GPIO API's actors interact

- **Client threads** (`Clients`) call the API. Each call first checks
  `line_num < max_lines` without the mutex (`CheckLine`), then runs its body
  under `gpio_api_mutex` (one step, guarded by `Free(c)`). `get_line` rechecks
  `chip` and `max_lines` and creates the line object on first use.
  `gpio_cleanup` is two steps: it takes the mutex and clears
  `intr_thread_running` (`gpio_cleanup_stop`), then joins the thread and frees
  everything (`gpio_cleanup_free`), the mutex held throughout.
  `gpio_wait_for_interrupt` is two steps too: it polls with the mutex held.
- **The interrupt thread** (`thr`) is started by `gpio_set_callback` through
  `start_intr_thread` (whose `pthread_create` may fail). At start it collects
  one descriptor per line with a callback and a line object (`pfds`, fd -1 for
  a line without an edge request), once; it then delivers edges on those
  descriptors and leaves its loop when the flag is cleared or no line was
  watched, without clearing the flag.
- **The kernel** raises edges (`RaiseEdge`) on lines requested for edges and
  may give a re-requested line a new descriptor number (`FdNums`).

## Modules

### `Sx126xHal.tla`

**State.** HAL statics (`is_started`, `rx_status`, `tx_status`, `rf_conf` in
kHz, `if_conf`); the RX statics of `lorahub_hal_rx.c` (`irq_fired`,
`irq_count_us`, `flag_rx_*`); the radio (`mode`, `irq_reg`, `buffer`, `edge`, and `radio_cfg`, the
parameters loaded into it: none after `sx126x_radio_setup`, the downlink's
after `configure_tx`, or `RxRadioCfg` after `configure_rx`);
the counter `now` modulo `2^CntBits` (`SignedDiff` is the int32 cast of the
code); and history variables the properties read: `reports` (how often each
packet was returned), `stamps` (packet and count_us pairs), `tx_at`.

**Actions.** One per HAL call: `sx126x_rxrf_setconf`, `sx126x_rxif_setconf`,
`sx126x_start` (with `sx126x_radio_setup` and `sx126x_radio_configure_rx`),
`sx126x_stop`, `sx126x_receive` (one atomic step covering `radio_irq_process`,
`sx126x_radio_get_pkt` and the re-arm), and `sx126x_send` as the code's phases:
`_configure` (status update and `configure_tx`, which clears the IRQs and
loads the downlink into the radio buffer, with its back-to-RX path),
`_wait` (one iteration of the counter loop), `_set_tx`, `_poll_irq` (one
iteration of the TX_DONE loop) and `_finish`. A packet is abstracted to its
arrival number; `sx126x_get_instcnt` as read by the GPIO thread is the number
of packets arrived, which orders stamps as the microsecond counter does.
`RxRadioCfg` is what `sx126x_radio_configure_rx` loads after its check: the
spreading factor, bandwidth and coding rate through the converters of
`lorahub_aux.c` (each -1 on a value it does not support), the preamble
(12 symbols below SF7, else 8) and the sync word of
`sx126x_get_lora_sync_word` (public network: 0x21 at 2.4 GHz, 0x34 from SF7,
0x12 below). A RAL enum member is written as the HAL's number for it.

### `RelayCodec.tla` and `MC_RelayCodec.tla`

Frames are byte sequences; u32 fields are 4-byte tuples in host order.
`pack_*_packet` and `unpack_*_packet` translate the C functions field by field
(masks, shifts, int8 casts, length and cap checks, discriminators).
`be_to_host32`/`host_to_be32` are the identity when `HostBigEndian` is TRUE
and reverse the four bytes otherwise, as the C does on a little-endian host.
`generate_uplink_id` masks a `rand()` value to 12 bits; `init_*_packet` and
`create_*_packet_with_params` build structs as the relay does. `SpecEncode` is
an independent encoder written from spec §4.1 (fields flattened MSB-first into
bits with `RECURSIVE BitsOf`, regrouped into bytes with `BitsToBytes` and
`FoldLeft`). The state machine takes either a struct (packed, then unpacked)
or a raw frame (unpacked as each kind). `MC_RelayCodec` supplies the inputs:
SNR −33, −32, 31, 32; payload lengths 0, the cap and the cap + 1; ids with
every nibble set; counters whose bytes tell the byte order apart; truncated
frames; and structs made by the constructors from `rand()` values 4095, 6844
and RAND_MAX. An ASSUME checks the worked example of spec §4.1.

### `Sx126xBus.tla` and `Sx126xBoardHal.tla`

`Sx126xBus` is the abstract command interface of the SX126x as the driver
above `sx126x_hal.c` relies on it: the radio is in `reset`, `busy` or
`ready`; a command issued is `owed` until the radio executes it, which it
does only when ready, going busy. `Issue`, `Exec`, `Ready`, `ResetLow` and
`ResetHigh` are its steps; weak fairness on `Ready` and `Exec`.

`Sx126xBoardHal` composes the driver thread, the GPIO lines and the radio.
**State.** `req` per line (BUSY, NSS, NRESET, DIO1: unrequested or the
direction `sx126x_connect` asks for), `level` of NSS and NRESET, the radio's
`radio_busy`, the driver's `pc`, `gpio_state` (the local of
`sx126x_hal_wait_on_busy`) and `accepted` (the radio took the bytes of the
current transfer). **Actions.** `sx126x_connect` (each request may fail for a
line in `FlakyLines`; a granted output request drives the pin low, so NRESET
goes low), `sx126x_hal_reset`/`_high`, `sx126x_hal_wakeup`/`_high`,
`sx126x_hal_write` and `sx126x_hal_read` (entry, with `gpio_state` any value
the stack holds), one iteration of `sx126x_hal_wait_on_busy`,
`sx126x_hal_xfer` (NSS low and the bytes), `sx126x_hal_deselect` (NSS high;
the radio executes what it took) and the radio's `RadioReady`.
`gpio_set_level` and `gpio_get_level` fail, leaving the pin or `gpio_state`,
on a line that is not requested, as libgpiod does. The refinement mapping
reads the radio state off the pins and makes a command owed from the HAL call
until NSS rises; `BusSpec == Bus!Spec` is checked as a property. The
liveness property `HalCallReturns` says every reset, wakeup, write or read
call returns once NRESET was granted.

### `GpioApi.tla`

**State.** `chip`, `max_lines`, `alloc` (which of `lines`, `callbacks`,
`debounce_info` are non-NULL), per line `line_obj`, `req` (none, input,
output, edge), `fd` (0 for -1), `callbacks`, `pending` (an unread edge); the
thread (`intr_thread_running`, `thr`, `pfds`, `active_lines`); the mutex
owner; per client `pc`, `op`, `arg`.

**Actions.** `gpio_init` (success, or a calloc failure at a point named in
`InitFaults`, after which `max_lines` keeps the chip's count),
`gpio_cleanup_stop`, `gpio_cleanup_free`, `CheckLine`, `gpio_set_direction`
and `gpio_set_intr_type` (release and re-request, `Rerequest`),
`gpio_set_debounce`, `gpio_set_callback` with `start_intr_thread`,
`gpio_get_direction`, `gpio_set_level`, `gpio_get_level` (`LineIo`),
`gpio_wait_for_interrupt_lock/_poll`, `intr_thread_start`,
`intr_thread_deliver`, `intr_thread_exit`, `RaiseEdge`. A write through a
NULL array moves the client to `pc = "segv"`.

## Runs

| Run | cfg | Expect | What it shows |
|---|---|---|---|
| hal_nominal | MC_Sx126xHal_nominal | pass | With configurations start accepts or refuses and downlinks `configure_tx` accepts or refuses, the radio in RX always holds the RX parameters derived from the configuration (never a converter's -1, never the downlink's), `sx126x_send` never returns while the radio still transmits, and the radio always gets back to RX (the send wait loop leaves, across the counter's wrap, through the int32 cast). |
| hal_stale_stamp | MC_Sx126xHal_stale_stamp | violation | A packet is stamped with the previous interrupt's counter. |
| hal_tx_late | MC_Sx126xHal_tx_late | violation | The wait loop tests the counter read before its 100 ms sleep: TX starts between one and two poll periods after `count_us`, never on time. |
| hal_rx_dropped | MC_Sx126xHal_rx_dropped | violation | A packet whose RX_DONE is pending when `sx126x_send` starts is never reported: `configure_tx` clears it and overwrites the buffer, and the TX_DONE loop's `ral_get_and_clear_irq_status` and the back-to-RX `set_rx` would clear it anyway. |
| hal_irq_garbage | MC_Sx126xHal_irq_garbage | violation | A silently failed SPI read of the IRQ status reports an old packet again. |
| codec_be | MC_RelayCodec_be | pass | Round trip, spec-conformant bytes and sound decoding on a big-endian host. |
| codec_le_wire | MC_RelayCodec_le_wire | violation | On a little-endian host the downlink u32 fields are not big-endian on the wire. |
| gpio_nominal | MC_GpioApi_nominal | pass | With one client, `gpio_cleanup`'s join under the mutex always returns: the interrupt thread leaves its loop on the flag alone. |
| gpio_null_deref | MC_GpioApi_null_deref | violation | `gpio_set_debounce`/`gpio_set_callback` write a NULL array after a concurrent cleanup or a failed init. |
| gpio_lost_edge | MC_GpioApi_lost_edge | violation | An edge on a line whose callback was registered before its edge request never reaches the callback. |
| board_nominal | MC_Sx126xBoardHal_nominal | pass | With BUSY and NSS granted and NRESET and DIO1 requests free to fail, the pin-level HAL implements `Sx126xBus`: no command meets a busy or reset radio, none is lost, each is executed; and every HAL call returns once NRESET was granted. |
| board_busy_lost | MC_Sx126xBoardHal_busy_lost | violation | A failed BUSY request, ignored by `sx126x_connect`, leaves `wait_on_busy` testing an uninitialised local: a command is clocked into a booting radio and lost. |

Every property of a passing run has a mutant in `PROJECT.json`: a plausible
slip in a mapped definition, defined just before it, which TLC must catch
(the send wait loop's difference taken without the int32 cast; an RX
timeout that does not re-arm; the wrong id nibble; the payload cap compared
with `>=`; the SNR bound off by one; a thread loop that ignores the flag; a
connect that leaves DIO1 requested as input; a BUSY wait that reads once;
`sx126x_send` back to RX without `configure_rx`; a reset pulse that ends
by writing 0 again; a TX_DONE loop that exits after one read).

### Bounds

- **HAL.** `MaxPkts = 2` (one packet can be stale relative to another);
  `CntBits = 3` (the counter wraps within a run); `PollWait = 2` with
  `TcxoUs = 0` (the wait loop can overshoot); `TxOffsets = {1, 3}` (odd
  targets the counter, stepping by 2, steps over, so only the signed test
  leaves the loop, some of them across the wrap); `ReportCap = 2` (the smallest count that shows a
  duplicate). `configure_tx` may refuse a downlink in the nominal run. It
  offers 868.1 MHz and 2.4 GHz and bandwidth codes
  4, 13 and 14, so `rxif_setconf` both refuses (13) and accepts a code that
  start then refuses (14); coderate has one valid value; datarates SF6 and
  SF7 are both offered, since the preamble and the sync word change at SF7.
- **Codec.** The input sets cover every boundary the code tests; each field
  is handled independently, so the full byte range is not needed.
- **GPIO.** Two lines (a second line is what a stale `pfds` misses), three
  descriptor numbers (a re-request can get the old number or a new one), one
  client for the nominal run (592,692 states in about 20 s) and two for the
  TOCTOU between a call and `gpio_cleanup`.
- **Board HAL.** No numeric bound: the state space is finite (120 states).
  The power-on levels of NSS and NRESET and the radio's power-on state are
  free, and every connect may fail any subset of `FlakyLines`, so reconnects
  with a line lost after being granted are included.

### Fairness

- **HAL.** Weak fairness on the GPIO thread (blocked, woken by an edge), on
  the radio's `TxDone` (an SX126x ends a TX in finite time) and on the steps of
  `sx126x_send` (the call runs to completion). Strong fairness on
  `sx126x_receive`: the RX thread polls it in a loop, but it is enabled only
  while the caller is idle. No fairness on RX events, start, stop or send.
  The counterexample of `hal_rx_dropped` respects all of this: after the
  send, `sx126x_receive` keeps being taken and finds an empty IRQ status.
- **GPIO.** Weak fairness on the interrupt thread's steps (it polls with a
  100 ms timeout and so rechecks its condition), on `gpio_cleanup_free` (the
  join returns once the thread ended) and on the return of
  `gpio_wait_for_interrupt`'s poll. No fairness on client calls or edges.
- **Board HAL.** Weak fairness on the steps inside a HAL call (the driver
  thread runs the call to its end) and on `RadioReady` (the radio finishes
  booting and processing). No fairness on making a call: the driver may stop.
  `HalCallReturns` needs only these: once the reset pulse released the radio,
  `RadioReady` drops BUSY and nothing raises it again before the wait ends.

## Not modelled, and why

- **Board HAL bytes.** A transaction's bytes are one step, and SPI device
  errors are not repeated in `Sx126xBoardHal` (they are the fault model of
  `Sx126xHal`). The 1 ms and 5 ms sleeps are not timed. The antenna-switch
  and LED lines of `sx126x_connect` do not reach the radio's command path.
  A radio held in reset by an NRESET line that failed its request while low
  hangs `wait_on_busy`; the command interface allows this, and
  `HalCallReturns` is stated only for a granted NRESET, so it is a hazard.
- **`tx_enable`.** `sx126x_send` never tests `tx_enable` or `tx_status`, so a
  chain configured with TX off (status `TX_OFF`, which `basic_hal.h` documents
  as ignoring commands) still transmits; this is plain in the model's send
  path and is listed as a hazard rather than given a run.
- **Other RX parameters.** LDRO, the header type, CRC, IQ, the image
  calibration range and the symbol timeout of `configure_rx` are constants
  or functions of the fields modelled, and are left out of `RxRadioCfg`.
- **A refused downlink's status.** The refusal path of `sx126x_send` re-arms
  RX but leaves `rx_status` at RX_SUSPENDED (`hal_nominal` includes it); no
  run states a property about the reported status, and the hazard is
  recorded in `PROJECT.json`.
- **A garbage TX_DONE.** `TxEndsBeforeReturn` holds in `hal_nominal`; with
  the `spi_read` fault of `MC_Sx126xHal_irq_garbage.cfg` TLC finds it
  violated (a failed IRQ read that shows TX_DONE ends the loop mid-downlink).
  This is recorded as a hazard, not as a separate run.
- **`gpio_wait_for_interrupt` with no timeout.** It holds the mutex across
  `poll`; it is modelled, but nothing in this tree calls it, so a stall of
  the other GPIO calls behind it has no caller and is not listed.
- **Logger and timing helpers.** `log_pull_thread` and `EXIT_SIGNAL` are not
  wired into this tree, and `timeout_check` is not called, so their hazards
  (a log thread that never sees the exit flag; a backward wall-clock step
  that wraps `timeout_check`'s uint32) cannot happen here and are not listed.
- **Unreachable error paths.** `sx126x_hal_reset`, `_wakeup`, `_write` and
  `_read` return `SX126X_HAL_STATUS_OK` unconditionally, so the
  `ASSERT_RAL_RC` early returns of `sx126x_radio_get_pkt` and of `ral_set_tx`
  in `sx126x_send` cannot fire with this board HAL. A failed SPI transfer
  shows up as garbage data instead (the `spi_read` fault). No callback
  registered in this tree calls back into the GPIO API, so the deadlock of
  such a callback against `gpio_cleanup` is not listed either.
- **Wall clock.** `sx126x_get_instcnt` reads `gettimeofday`; the models'
  counter only moves forward.
- **Packet metadata and timestamp correction.** RSSI, SNR, modulation
  parameters, time on air and `sx126x_radio_timestamp_correction` are
  arithmetic no property depends on.
- **GPIO bulk calls, `gpio_set_pull`, `gpio_error_string`.** The bulk calls
  are loops of the single calls; the other two change no state.
