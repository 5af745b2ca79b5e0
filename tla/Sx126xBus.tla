----------------------------- MODULE Sx126xBus -----------------------------
(***************************************************************************)
(* What the board HAL of sx126x_hal.c promises the SX126x driver above it, *)
(* stated without GPIO lines or SPI: the radio is held in reset, busy or   *)
(* ready; a command the driver issues is owed to the radio until the radio *)
(* executes it, and the radio executes a command only when it is ready,    *)
(* after which it is busy until it has processed it.  The driver issues    *)
(* one command at a time and resets the radio only with no command owed.   *)
(***************************************************************************)

VARIABLES
    radio,   \* "reset", "busy" or "ready"
    owed     \* a command issued and not yet executed

vars == <<radio, owed>>

RadioStates == {"reset", "busy", "ready"}

TypeOK ==
    /\ radio \in RadioStates
    /\ owed \in BOOLEAN

\* At power-on the radio is in any state, and nothing is owed.
Init ==
    /\ radio \in RadioStates
    /\ ~owed

Issue ==
    /\ ~owed
    /\ owed' = TRUE
    /\ UNCHANGED radio

Exec ==
    /\ owed
    /\ radio = "ready"
    /\ radio' = "busy"
    /\ owed' = FALSE

Ready ==
    /\ radio = "busy"
    /\ radio' = "ready"
    /\ UNCHANGED owed

ResetLow ==
    /\ ~owed
    /\ radio' = "reset"
    /\ UNCHANGED owed

ResetHigh ==
    /\ radio = "reset"
    /\ radio' = "busy"
    /\ UNCHANGED owed

Next == Issue \/ Exec \/ Ready \/ ResetLow \/ ResetHigh

\* A busy radio finishes its work, and an owed command reaching a ready
\* radio is executed.
Spec == Init /\ [][Next]_vars /\ WF_vars(Ready) /\ WF_vars(Exec)

=============================================================================
