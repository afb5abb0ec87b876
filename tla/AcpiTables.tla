----------------------------- MODULE AcpiTables -----------------------------
(***************************************************************************)
(* The SSDTs of EFI/OC/ACPI/src on a firmware they were written for.  The  *)
(* boot loader (OpenCore) renames a method of the firmware and then adds   *)
(* the tables in the order of config.plist; the operating system runs      *)
(* \_INI, asks each device for its _STA and evaluates _PRW methods, which  *)
(* call GPRW.                                                              *)
(***************************************************************************)
EXTENDS Integers, FiniteSets, Sequences

CONSTANTS
    Systems,     \* the operating systems: "Darwin" and others
    Firmwares,   \* "switch": STAS selects RTC or AWAC; "awac": there is no RTC
    Gpes,        \* the event numbers of the firmware's _PRW methods
    Sleeps,      \* the sleep states they can wake from
    Null

ASSUME AcpiAssumption ==
    /\ Firmwares \subseteq {"switch", "awac"}
    /\ Gpes \subseteq Nat /\ Sleeps \subseteq Nat \ {0}
    /\ Null \notin Nat

VARIABLES
    os,       \* what answers to _OSI
    firmware,
    names,    \* the objects of the name space that matter here
    clashes,  \* objects that were defined although they existed
    step,     \* what the boot has come to
    stas,     \* the variable STAS
    prw       \* the last _PRW that was evaluated, and its result

avars == <<os, firmware, names, clashes, step, stas, prw>>

Darwin == os = "Darwin"

\* The clocks as the firmware declares them, and its GPRW.
FirmwareNames(f) ==
    IF f = "switch" THEN {"STAS", "RTC", "AWAC", "GPRW"} ELSE {"AWAC", "GPRW"}

\* The tables of the Add list of config.plist.
Tables == <<"PLUG", "EC-USBX", "PMC", "AWAC", "GPRW", "SBUS-MCHC">>

AcpiInit ==
    /\ os \in Systems
    /\ firmware \in Firmwares
    /\ names = FirmwareNames(firmware)
    /\ clashes = {}
    /\ step = 0
    /\ stas = IF firmware = "switch" THEN 0 ELSE Null
    /\ prw = Null

\* The patch GPRW -> XPRW with Count 0, every occurrence of the declaration.
Rename ==
    /\ step = 0
    /\ names' = {IF n = "GPRW" THEN "XPRW" ELSE n : n \in names}
    /\ step' = 1
    /\ UNCHANGED <<os, firmware, clashes, stas, prw>>

\* What each table defines when it is loaded: the If statements outside of any
\* method are evaluated then.
SSDT_PLUG == IF Darwin THEN {"PR00._DSM"} ELSE {}
SSDT_EC_USBX == {"EC", "USBX"}
SSDT_PMC == {"PMCR"}
SSDT_GPRW == {"GPRW"}
SSDT_SBUS_MCHC == {"MCHC", "BUS0", "DVL0", "BUS1"}

\* Variant: the condition on STAS is forgotten.
SSDT_AWACAlways == {"_INI", "RTC0"}

SSDT_AWAC == {"_INI"} \cup (IF "STAS" \in names THEN {} ELSE {"RTC0"})

Defines(table) ==
    CASE table = "PLUG" -> SSDT_PLUG
      [] table = "EC-USBX" -> SSDT_EC_USBX
      [] table = "PMC" -> SSDT_PMC
      [] table = "AWAC" -> SSDT_AWAC
      [] table = "GPRW" -> SSDT_GPRW
      [] table = "SBUS-MCHC" -> SSDT_SBUS_MCHC

LoadTable ==
    /\ step \in DOMAIN Tables
    /\ clashes' = clashes \cup (Defines(Tables[step]) \cap names)
    /\ names' = names \cup Defines(Tables[step])
    /\ step' = step + 1
    /\ UNCHANGED <<os, firmware, stas, prw>>

Running == step > Len(Tables) + 1

\* Variant: \_INI leaves STAS as it is.
InitialiseKeepsStas ==
    /\ step = Len(Tables) + 1
    /\ step' = step + 1
    /\ UNCHANGED <<os, firmware, names, clashes, stas, prw>>

\* \_INI, once every table is loaded.
Initialise ==
    /\ step = Len(Tables) + 1
    /\ stas' = IF "STAS" \in names THEN 1 ELSE stas
    /\ step' = step + 1
    /\ UNCHANGED <<os, firmware, names, clashes, prw>>

-----------------------------------------------------------------------------
(* Devices *)

\* Variant: the added clock has no _STA.
DarwinOnlyButClock == {"EC", "USBX", "MCHC"}

\* The methods that answer 0x0F on Darwin and zero elsewhere.
DarwinOnly == {"RTC0", "EC", "USBX", "MCHC"}

\* _STA; a device without one is present.  A driver attaches to a device that
\* is present and enabled, whether or not it is shown (0x0F, 0x0B).
Sta(device) ==
    CASE device \in DarwinOnly -> IF Darwin THEN 15 ELSE 0
      [] device = "PMCR" -> IF Darwin THEN 11 ELSE 0
      [] device = "RTC" -> IF stas = 1 THEN 15 ELSE 0
      [] device = "AWAC" -> IF stas = 1 THEN 0 ELSE 15
      [] OTHER -> 15

Devices == {"RTC", "AWAC", "RTC0", "EC", "USBX", "PMCR", "MCHC", "BUS0", "DVL0", "BUS1"}

Enabled == {d \in Devices \cap names : Sta(d) # 0}

\* The enabled devices that are called PNP0B00.
Clocks == Enabled \cap {"RTC", "RTC0"}

-----------------------------------------------------------------------------
(* Wake events *)

\* The firmware's method: the event, and the deepest state it wakes from.
XPRW(arg0, arg1) == <<arg0, arg1>>

GPRW(arg0, arg1) ==
    IF Darwin /\ arg1 = 109 THEN <<arg0, 0>> ELSE XPRW(arg0, arg1)

\* A _PRW method of the firmware: Return (GPRW (gpe, sleep)).
EvaluatePrw(gpe, sleep) ==
    /\ Running
    /\ prw' = [gpe |-> gpe, sleep |-> sleep, result |-> GPRW(gpe, sleep)]
    /\ UNCHANGED <<os, firmware, names, clashes, step, stas>>

AcpiNext ==
    \/ Rename
    \/ LoadTable
    \/ Initialise
    \/ \E gpe \in Gpes, sleep \in Sleeps : EvaluatePrw(gpe, sleep)

AcpiSpec == AcpiInit /\ [][AcpiNext]_avars

-----------------------------------------------------------------------------
(* Safety *)

\* The replacement of a firmware method never meets the original, and the
\* clock table never adds a second clock: on Darwin exactly one device that
\* drivers know as a clock is enabled, whether or not the firmware has STAS.
OneClock ==
    /\ clashes = {}
    /\ Darwin /\ Running => Cardinality(Clocks) = 1

\* SSDT-AWAC.dsl's \_INI turns STAS under every system, so that another system may
\* get the RTC where the firmware would have given it the AWAC; but of the two, and
\* the one that may be added for Darwin, it always finds exactly one.
OthersHaveOneClock ==
    ~ Darwin /\ Running => Cardinality(Enabled \cap {"RTC", "AWAC", "RTC0"}) = 1

\* SSDT-SBUS-MCHC.dsl, lines 19 and 20: "The _STA methods check for Darwin (macOS)
\* to avoid interfering with other operating systems".  Another system is shown
\* none of the devices of that table.
SbusAvoidsOthers ==
    ~ Darwin /\ Running => Enabled \cap SSDT_SBUS_MCHC = {}

\* SSDT-GPRW.dsl, lines 4 and 5: it "Fixes instant wake (sleep/wake loop)
\* caused by GPRW returning GPE 0x6D for USB and LAN wake events".  On Darwin
\* that event wakes the machine from no sleep state.
Gpe6DNeverWakes ==
    Darwin /\ prw # Null /\ prw.result[1] = 109 => prw.result[2] = 0
=============================================================================
