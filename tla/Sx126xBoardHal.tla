--------------------------- MODULE Sx126xBoardHal ---------------------------
(***************************************************************************)
(* The board side of the SX126x radio: sx126x_connect (lorahub_hal.c)      *)
(* requesting the BUSY, NSS and NRESET lines through gpio_api.c, and the   *)
(* HAL of sx126x_hal.c driving them: reset pulses NRESET, wakeup pulses    *)
(* NSS, and write/read wait for BUSY low, pull NSS low, clock the bytes    *)
(* and raise NSS.  One driver thread makes these calls, in the order       *)
(* lgw_start makes them: connect, then reset, then any commands; a later   *)
(* lgw_start connects again.                                               *)
(*                                                                         *)
(* The radio answers the lines: NRESET low holds it in reset with BUSY     *)
(* high; on release it boots (BUSY high) and becomes ready; it executes a  *)
(* command clocked in under NSS low only when ready, and is busy after.   *)
(*                                                                         *)
(* Every return value of the GPIO calls is ignored by this code.  A line   *)
(* request of gpio_set_direction may fail (the line held by another        *)
(* consumer, or the chip not opened); the line is then left released, its *)
(* pin keeps its level, and gpio_set_level / gpio_get_level on it fail.    *)
(* FlakyLines are the lines whose request may fail on a connect.          *)
(***************************************************************************)
EXTENDS Naturals

CONSTANT FlakyLines   \* subset of Lines

Lines == {"busy", "nss", "rst", "dio1"}
\* How sx126x_connect requests each line; DIO1 ends with gpio_set_intr_type
\* re-requesting it for rising-edge events.
Dir == [busy |-> "input", nss |-> "output", rst |-> "output", dio1 |-> "edge"]

VARIABLES
    req,         \* per line: "none" or the direction it is requested with
    level,       \* pin level of NSS and NRESET
    radio_busy,  \* the radio is booting or processing a command
    pc,          \* the driver thread
    gpio_state,  \* the local of sx126x_hal_wait_on_busy
    accepted     \* the radio took the bytes of the current transfer

vars == <<req, level, radio_busy, pc, gpio_state, accepted>>

PCs == {"disconnected", "connected", "rst_high", "idle", "wake_high",
        "wait", "xfer", "deselect"}

RstLow == level["rst"] = 0
BusyPin == IF RstLow \/ radio_busy THEN 1 ELSE 0
RadioState == IF RstLow THEN "reset" ELSE IF radio_busy THEN "busy" ELSE "ready"

TypeOK ==
    /\ req \in [Lines -> {"none", "input", "output", "edge"}]
    /\ \A l \in Lines : req[l] \in {"none", Dir[l]}
    /\ level \in [{"nss", "rst"} -> {0, 1}]
    /\ radio_busy \in BOOLEAN
    /\ pc \in PCs
    /\ gpio_state \in {0, 1}
    /\ accepted \in BOOLEAN

\* Power-on: no line requested; NSS and NRESET at whatever level the board
\* leaves an unrequested pin.
Init ==
    /\ req = [l \in Lines |-> "none"]
    /\ level \in [{"nss", "rst"} -> {0, 1}]
    /\ radio_busy \in BOOLEAN
    /\ pc = "disconnected"
    /\ gpio_state = 0
    /\ accepted = FALSE

\* gpio_set_level: fails, and leaves the pin, on a line not requested.
gpio_set_level(l, v) ==
    level' = IF req[l] = "output" THEN [level EXCEPT ![l] = v] ELSE level

\* gpio_get_level into gpio_state: fails, and leaves it, on a line not
\* requested.
gpio_get_level(l) ==
    IF req[l] = "input" THEN BusyPin ELSE gpio_state

\* A pin going low holds the radio in reset; it boots once released.
ResetFollows == radio_busy' = (radio_busy \/ level'["rst"] = 0)

\* A connect whose failed edge request on DIO1 leaves the input request of
\* gpio_set_direction in place.
sx126x_connect_keep_input ==
    /\ pc \in {"disconnected", "idle"}
    /\ \E bad \in SUBSET FlakyLines :
         /\ req' = [l \in Lines |-> IF l \in bad
                                     THEN IF l = "dio1" THEN "input" ELSE "none"
                                     ELSE Dir[l]]
         /\ level' = [l \in {"nss", "rst"} |->
                        IF l \in bad THEN level[l] ELSE IF l = "nss" THEN 1 ELSE 0]
    /\ ResetFollows
    /\ pc' = "connected"
    /\ UNCHANGED <<gpio_state, accepted>>

(* sx126x_connect: gpio_reset_pin and gpio_set_direction for each line,   *)
(* then NSS set high.  A successful output request drives the line low    *)
(* (gpiod_line_request_output with default 0), so NRESET goes low.  The   *)
(* DIO1 request that counts is the last, of gpio_set_intr_type, which     *)
(* releases the line first.  The antenna-switch and LED lines do not      *)
(* touch the radio and are left out.                                      *)
sx126x_connect ==
    /\ pc \in {"disconnected", "idle"}
    /\ \E bad \in SUBSET FlakyLines :
         /\ req' = [l \in Lines |-> IF l \in bad THEN "none" ELSE Dir[l]]
         /\ level' = [l \in {"nss", "rst"} |->
                        IF l \in bad THEN level[l] ELSE IF l = "nss" THEN 1 ELSE 0]
    /\ ResetFollows
    /\ pc' = "connected"
    /\ UNCHANGED <<gpio_state, accepted>>

sx126x_hal_reset ==
    /\ pc \in {"connected", "idle"}
    /\ gpio_set_level("rst", 0)
    /\ ResetFollows
    /\ pc' = "rst_high"
    /\ UNCHANGED <<req, gpio_state, accepted>>

\* A slip: the end of the reset pulse writes 0 again.
sx126x_hal_reset_high_stuck ==
    /\ pc = "rst_high"
    /\ gpio_set_level("rst", 0)
    /\ pc' = "idle"
    /\ UNCHANGED <<req, radio_busy, gpio_state, accepted>>

sx126x_hal_reset_high ==
    /\ pc = "rst_high"
    /\ gpio_set_level("rst", 1)
    /\ pc' = "idle"
    /\ UNCHANGED <<req, radio_busy, gpio_state, accepted>>

sx126x_hal_wakeup ==
    /\ pc = "idle"
    /\ gpio_set_level("nss", 0)
    /\ pc' = "wake_high"
    /\ UNCHANGED <<req, radio_busy, gpio_state, accepted>>

sx126x_hal_wakeup_high ==
    /\ pc = "wake_high"
    /\ gpio_set_level("nss", 1)
    /\ pc' = "idle"
    /\ UNCHANGED <<req, radio_busy, gpio_state, accepted>>

(* Entry of sx126x_hal_write and sx126x_hal_read: the frame of            *)
(* sx126x_hal_wait_on_busy begins with gpio_state uninitialised, any      *)
(* value the stack holds (0 stands for every value other than 1).         *)
HalCommand ==
    /\ pc = "idle"
    /\ pc' = "wait"
    /\ gpio_state' \in {0, 1}
    /\ UNCHANGED <<req, level, radio_busy, accepted>>

sx126x_hal_write == HalCommand
sx126x_hal_read == HalCommand

\* A wait that reads BUSY once and goes on whatever it read.
wait_on_busy_once ==
    /\ pc = "wait"
    /\ gpio_state' = gpio_get_level("busy")
    /\ pc' = "xfer"
    /\ UNCHANGED <<req, level, radio_busy, accepted>>

\* One iteration of the do-while loop on gpio_state == 1.
sx126x_hal_wait_on_busy ==
    /\ pc = "wait"
    /\ gpio_state' = gpio_get_level("busy")
    /\ pc' = IF gpio_state' = 1 THEN "wait" ELSE "xfer"
    /\ UNCHANGED <<req, level, radio_busy, accepted>>

\* NSS low and the command and data bytes clocked out, one spi_transfer per
\* byte; the radio takes them only when it is ready.
sx126x_hal_xfer ==
    /\ pc = "xfer"
    /\ gpio_set_level("nss", 0)
    /\ accepted' = (level'["nss"] = 0 /\ RadioState = "ready")
    /\ pc' = "deselect"
    /\ UNCHANGED <<req, radio_busy, gpio_state>>

\* NSS high: the radio executes the command it took and raises BUSY.
sx126x_hal_deselect ==
    /\ pc = "deselect"
    /\ gpio_set_level("nss", 1)
    /\ radio_busy' = (radio_busy \/ accepted)
    /\ pc' = "idle"
    /\ UNCHANGED <<req, gpio_state, accepted>>

\* The radio finishes booting or processing and drops BUSY.
RadioReady ==
    /\ radio_busy
    /\ ~RstLow
    /\ radio_busy' = FALSE
    /\ UNCHANGED <<req, level, pc, gpio_state, accepted>>

Next ==
    \/ sx126x_connect \/ sx126x_hal_reset \/ sx126x_hal_reset_high
    \/ sx126x_hal_wakeup \/ sx126x_hal_wakeup_high
    \/ sx126x_hal_write \/ sx126x_hal_read \/ sx126x_hal_wait_on_busy
    \/ sx126x_hal_xfer \/ sx126x_hal_deselect \/ RadioReady

\* The driver thread is scheduled while inside a HAL call, and the radio
\* finishes its work; the driver is never obliged to make a new call.
Fairness ==
    /\ WF_vars(sx126x_hal_reset_high) /\ WF_vars(sx126x_hal_wakeup_high)
    /\ WF_vars(sx126x_hal_wait_on_busy) /\ WF_vars(sx126x_hal_xfer)
    /\ WF_vars(sx126x_hal_deselect) /\ WF_vars(RadioReady)

Spec == Init /\ [][Next]_vars /\ Fairness

\* The driver is inside a HAL call: reset, wakeup, or write/read.
InCall == pc \in {"rst_high", "wake_high", "wait", "xfer", "deselect"}

(* Every call of sx126x_hal_reset, _wakeup, _write and _read returns once  *)
(* NRESET was requested: the do-while of sx126x_hal_wait_on_busy ends      *)
(* because the reset pulse released the radio, which then drops BUSY.      *)
(* (With the NRESET request failed, the pin may stay low from power-on and *)
(* the loop spin for ever.)                                               *)
HalCallReturns == (InCall /\ req["rst"] = "output") ~> (pc = "idle")

-----------------------------------------------------------------------------
(* Refinement: the radio state is read off the pins; a command is owed    *)
(* from the HAL call until NSS rises on bytes the radio took.             *)
Bus == INSTANCE Sx126xBus WITH
         radio <- RadioState,
         owed <- pc \in {"wait", "xfer", "deselect"}

\* Every behaviour of the board HAL is one of the command interface: no
\* command is clocked in while the radio is busy or in reset, none is lost,
\* and each owed command is executed once the radio is ready.
BusSpec == Bus!Spec

=============================================================================
