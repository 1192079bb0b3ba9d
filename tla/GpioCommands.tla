----------------------------- MODULE GpioCommands -----------------------------
(***************************************************************************)
(* The commands AT+GPIOC, AT+GPIOR and AT+GPIOW of                         *)
(* main/at_command_manager.cpp over the GPIO driver of ESP-IDF.  The AT    *)
(* task runs one command after the other, so a command is one action.      *)
(* A pull or level of AT+GPIOC that is left out, or is not a number, is    *)
(* Omitted; other parameters that are not numbers are like those out of    *)
(* range.                                                                  *)
(***************************************************************************)
EXTENDS Integers, Sequences

CONSTANTS
    Pins,           \* pin parameters of the commands
    Omitted

NumMax == 40        \* GPIO_NUM_MAX
LongBits == 32      \* width of unsigned long, which BIT() shifts

VARIABLES
    gpioConfiguration,  \* gpioConfiguration_, by pin
    hw, level,          \* driver: what each pin is configured as, and its output
    result              \* result code of the last command

vars == <<gpioConfiguration, hw, level, result>>

-------------------------------------------------------------------------------
(* The GPIO driver *)

\* GPIO_IS_VALID_GPIO(), GPIO_IS_VALID_OUTPUT_GPIO(): the ESP32 does not have some
\* of the pins, and the last ones are inputs.
Valid(pin) == pin \in (0 .. NumMax - 1) \ ({24} \cup 28 .. 31)
ValidOutput(pin) == Valid(pin) /\ pin < 34

Outputs == {"INPUT_OUTPUT", "INPUT_OUTPUT_OD"}

\* gpio_config() refuses a mask with a pin that cannot be what it is to be.
Configurable(c) ==
    /\ c.mask # {}
    /\ c.mode \in Outputs => \A p \in c.mask : p < 34

-------------------------------------------------------------------------------
(* The handlers *)

\* BIT(pin): a shift by more bits than there are is undefined; the instruction of
\* the Xtensa core takes the shift modulo 32.
Bit(pin) == {pin % LongBits}

\* gpioMapAtModeToEspMode(), gpioMapAtPullToEspPull()
EspMode == [m \in 0 .. 3 |-> <<"DISABLE", "INPUT", "INPUT_OUTPUT", "INPUT_OUTPUT_OD">>[m + 1]]
EspPull == [m \in 0 .. 2 |-> <<"none", "down", "up">>[m + 1]]

Return(code) == result' = code
Refuse == Return("ERROR") /\ UNCHANGED <<gpioConfiguration, hw, level>>

Unconfigured == [mask |-> {}, mode |-> "DISABLE", pull |-> "none"]
Config(pin, mode, pull) ==
    [mask |-> Bit(pin), mode |-> EspMode[mode],
     pull |-> IF pull = Omitted THEN "none" ELSE EspPull[pull]]

\* AT+GPIOC=<pin>,<mode>[,<pull>][,<default>]
Accepted(pin, mode, pull, val) ==
    /\ Valid(pin)
    /\ mode \in DOMAIN EspMode
    /\ pull = Omitted \/ pull \in DOMAIN EspPull
    /\ val = Omitted \/ val \in {0, 1}

Configure(pin, mode, pull, val) ==
    LET conf == Config(pin, mode, pull)
    IN  /\ Accepted(pin, mode, pull, val)
        /\ Configurable(conf)
        /\ hw' = [p \in DOMAIN hw |-> IF p \in conf.mask
                                        THEN [mode |-> conf.mode, pull |-> conf.pull]
                                        ELSE hw[p]]
        /\ gpioConfiguration' = [gpioConfiguration EXCEPT ![pin] = conf]
        /\ level' = IF val # Omitted /\ ValidOutput(pin) THEN [level EXCEPT ![pin] = val]
                    ELSE level
        /\ Return("OK")

ConfigureFails(pin, mode, pull, val) ==
    /\ ~(Accepted(pin, mode, pull, val) /\ Configurable(Config(pin, mode, pull)))
    /\ Refuse

\* AT+GPIOR=<pin>
Readable(pin) ==
    /\ Valid(pin)
    /\ gpioConfiguration[pin].mask # {}
    /\ gpioConfiguration[pin].mode # "DISABLE"

Read(pin) ==
    /\ Return(IF Readable(pin) THEN "OK" ELSE "ERROR")
    /\ UNCHANGED <<gpioConfiguration, hw, level>>

\* AT+GPIOW=<pin>,<level>
Writable(pin) ==
    /\ ValidOutput(pin)
    /\ gpioConfiguration[pin].mask # {}
    /\ gpioConfiguration[pin].mode \notin {"DISABLE", "INPUT"}

Write(pin, val) ==
    \/ /\ Writable(pin) /\ val \in {0, 1}
       /\ level' = [level EXCEPT ![pin] = val]
       /\ Return("OK")
       /\ UNCHANGED <<gpioConfiguration, hw>>
    \/ ~(Writable(pin) /\ val \in {0, 1}) /\ Refuse

\* AT+GPIOC?: the configuration that is reported for a pin.
Reported == {p \in DOMAIN gpioConfiguration : gpioConfiguration[p].mask # {}}
ReportedConfig(p) ==
    [mode |-> gpioConfiguration[p].mode, pull |-> gpioConfiguration[p].pull]

Init ==
    /\ gpioConfiguration = [p \in 0 .. NumMax - 1 |-> Unconfigured]
    /\ hw = [p \in 0 .. NumMax - 1 |-> [mode |-> "DISABLE", pull |-> "none"]]
    /\ level = [p \in 0 .. NumMax - 1 |-> 0]
    /\ result = "none"

\* One value more than is valid.
Next ==
    \/ \E pin \in Pins, mode \in 0 .. 4 :
       \E pull \in {Omitted} \cup 0 .. 3, val \in {Omitted} \cup 0 .. 2 :
          Configure(pin, mode, pull, val) \/ ConfigureFails(pin, mode, pull, val)
    \/ \E pin \in Pins : Read(pin)
    \/ \E pin \in Pins, val \in 0 .. 2 : Write(pin, val)

Spec == Init /\ [][Next]_vars

-------------------------------------------------------------------------------
(* Property *)

\* "Retrieves the current GPIO configuration for each pin" (README, AT+GPIOC?): what
\* is reported of a pin is what the driver was told about that pin.
ReportedIsConfigured == \A p \in Reported : hw[p] = ReportedConfig(p)
===============================================================================
