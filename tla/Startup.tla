------------------------------ MODULE Startup -------------------------------
(***************************************************************************)
(* main.c around its three blocks: the options, the check of what they ask *)
(* for together, the directories, the serial port, and which block is run. *)
(* The conditions of the check and those of the blocks are written out     *)
(* separately in main, and separately here.  The blocks of the unit test   *)
(* and of the capture are in Recording, the live block is Engine.          *)
(***************************************************************************)
EXTENDS Naturals

CONSTANT Lives_Max   \* how often main is started in a behaviour

ASSUME StartupAssumption == Lives_Max \in Nat

Options == {"DEBUG_DUMP", "UNIT_TEST", "CAPTURE", "TARGET", "LOW_LATENCY",
            "ACTIVE_MODE"}

\* What getopt returns; "u!" is -u with an index behind the last test file
Letters == {"c", "d", "h", "p", "s", "u", "u!", "?"}

VARIABLES
  options,
  announced,   \* the mode the check has printed
  at,          \* where main is
  exit_value,  \* how the latest process ended
  rpi,         \* uname names the target; the machine stays the same
  dirs,        \* the directories that exist
  lives        \* starts that are left

startVars == <<options, announced, at, exit_value, rpi, dirs, lives>>

BlocksAt == {"unit test", "replaying", "capture", "capturing", "live"}

StartupInit ==
  /\ options = {} /\ announced = "none"
  /\ at = "ended" /\ exit_value = "none"
  /\ rpi \in BOOLEAN
  /\ dirs = {}
  /\ lives = Lives_Max

\* With the process its options are gone.
Stop(value) ==
  /\ at' = "ended" /\ exit_value' = value
  /\ options' = {} /\ announced' = "none"
  /\ UNCHANGED <<rpi, lives>>

End(value) == Stop(value) /\ UNCHANGED dirs

\* The target loses its ramdisk when it is booted between two lives.
Start ==
  /\ at = "ended" /\ lives > 0 /\ lives' = lives - 1
  /\ at' = "options" /\ exit_value' = "none"
  /\ options' = {"ACTIVE_MODE", "LOW_LATENCY"}
  /\ dirs' \in {dirs, dirs \ {"ram"}}
  /\ UNCHANGED <<announced, rpi>>

-----------------------------------------------------------------------------
(* Options *)

WithOption(letter) ==
  CASE letter = "c" -> (options \cup {"CAPTURE"}) \ {"ACTIVE_MODE"}
    [] letter = "d" -> options \cup {"DEBUG_DUMP"}
    [] letter = "p" -> options \ {"ACTIVE_MODE"}
    [] letter = "s" -> options \ {"LOW_LATENCY"}
    [] letter = "u" -> options \cup {"UNIT_TEST"}

TakeOption(letter) ==
  /\ at = "options"
  /\ \/ letter = "h" /\ End("success")
     \/ letter \in {"u!", "?"} /\ End("failure")
     \/ /\ letter \in {"c", "d", "p", "s", "u"}
        /\ options' = WithOption(letter)
        /\ UNCHANGED <<announced, at, exit_value, rpi, dirs, lives>>

Announced(opts) ==
  CASE opts \cap {"UNIT_TEST", "CAPTURE"} = {} /\ "ACTIVE_MODE" \in opts ->
         "interactive"
    [] /\ opts \cap {"UNIT_TEST", "CAPTURE", "ACTIVE_MODE"} = {}
       /\ "DEBUG_DUMP" \in opts -> "passive dump"
    [] /\ {"UNIT_TEST", "DEBUG_DUMP"} \subseteq opts
       /\ opts \cap {"CAPTURE", "ACTIVE_MODE"} = {} -> "unit test"
    [] "CAPTURE" \in opts /\ opts \cap {"UNIT_TEST", "LOW_LATENCY"} = {} -> "capture"
    [] OTHER -> "none"

\* The sanity check, when getopt has no more options
Check ==
  /\ at = "options"
  /\ IF Announced(options) = "none" THEN End("failure")
     ELSE /\ announced' = Announced(options)
          /\ at' = "directories"
          /\ UNCHANGED <<options, exit_value, rpi, dirs, lives>>

-----------------------------------------------------------------------------
(* Directories and port *)

Needed == IF rpi THEN {"disk", "ram"} ELSE {"disk"}

\* popen of uname, then for each directory that is missing a mkdir, the disk
\* directory first; the first failure ends the process.
Directories ==
  /\ at = "directories"
  /\ \/ End("failure")
     \/ rpi /\ "ram" \notin dirs /\ dirs' = dirs \cup {"disk"} /\ Stop("failure")
     \/ /\ dirs' = dirs \cup Needed
        /\ at' = "port"
        /\ options' = IF rpi THEN options \cup {"TARGET"} ELSE options
        /\ UNCHANGED <<announced, exit_value, rpi, lives>>

\* Mutant: the block of the live line is run in passive mode too
Block_Live(opts) ==
  CASE /\ {"UNIT_TEST", "DEBUG_DUMP"} \subseteq opts
       /\ opts \cap {"CAPTURE", "ACTIVE_MODE"} = {} -> "unit test"
    [] "CAPTURE" \in opts /\ opts \cap {"UNIT_TEST", "LOW_LATENCY"} = {} -> "capture"
    [] opts \cap {"UNIT_TEST", "CAPTURE"} = {} -> "live"
    [] OTHER -> "no block"

\* The conditions of the three blocks
Block(opts) ==
  CASE /\ {"UNIT_TEST", "DEBUG_DUMP"} \subseteq opts
       /\ opts \cap {"CAPTURE", "ACTIVE_MODE"} = {} -> "unit test"
    [] "CAPTURE" \in opts /\ opts \cap {"UNIT_TEST", "LOW_LATENCY"} = {} -> "capture"
    [] opts \cap {"UNIT_TEST", "CAPTURE"} = {} /\ "ACTIVE_MODE" \in opts -> "live"
    [] OTHER -> "no block"

\* serial_port_open, parse_open.  A unit test opens the port of the line too.
OpenPort ==
  /\ at = "port"
  /\ \/ End("failure")
     \/ /\ at' = Block(options)
        /\ UNCHANGED <<options, announced, exit_value, rpi, dirs, lives>>

\* The live block ends with the exit of the engine, or at once if its queue
\* could not be made; no block at all ends with parse_close.
LiveOrNoBlock ==
  \/ at = "live" /\ (End("success") \/ End("failure"))
  \/ at = "no block" /\ End("success")

-----------------------------------------------------------------------------
StartupTypeOK ==
  /\ options \subseteq Options
  /\ announced \in {"none", "interactive", "passive dump", "unit test", "capture"}
  /\ at \in BlocksAt \cup {"ended", "options", "directories", "port", "no block"}
  /\ exit_value \in {"none", "success", "failure", "killed", "null", "overrun"}
  /\ at # "ended" => exit_value = "none"
  /\ rpi \in BOOLEAN
  /\ dirs \subseteq {"disk", "ram"}
  /\ lives \in 0..Lives_Max
=============================================================================
