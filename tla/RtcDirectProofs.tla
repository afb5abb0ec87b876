--------------------------- MODULE RtcDirectProofs ---------------------------
(***************************************************************************)
(* The clock and who uses it, for any system and any number of threads.    *)
(* First the tables: the boot leaves Darwin one clock on either firmware,  *)
(* and other systems one of theirs.  Then readDirect() and writeDirect():  *)
(* every reference is given back once.                                     *)
(***************************************************************************)
EXTENDS RtcDirect, FiniteSetTheorems, TLAPS

(* The strengthening of the invariants *)

\* What a table comes to define on this firmware and this system.
Additions(table) ==
    IF table = "AWAC" THEN {"_INI"} \cup (IF firmware = "switch" THEN {} ELSE {"RTC0"})
                      ELSE Defines(table)

\* The name space when the first k - 1 tables are loaded, the method renamed.
NamesAt(k) ==
    (FirmwareNames(firmware) \ {"GPRW"}) \cup {"XPRW"}
        \cup UNION {Additions(Tables[j]) : j \in {i \in DOMAIN Tables : i < k}}

\* The name space, STAS and the last _PRW follow from what the boot has come to.
BootedSoFar ==
    /\ firmware \in {"switch", "awac"}
    /\ step \in Nat
    /\ clashes = {}
    /\ names = IF step = 0 THEN FirmwareNames(firmware) ELSE NamesAt(step)
    /\ IF firmware = "switch" THEN Running => stas = 1 ELSE stas = Null
    /\ \/ prw = Null
       \/ \E gpe \in Gpes, sleep \in Sleeps :
             prw = [gpe |-> gpe, sleep |-> sleep, result |-> GPRW(gpe, sleep)]

-----------------------------------------------------------------------------
(* The tables *)

\* The Add list, position by position.
LEMMA TheTables ==
    /\ DOMAIN Tables = 1 .. 6 /\ Len(Tables) = 6
    /\ Tables[1] = "PLUG" /\ Tables[2] = "EC-USBX" /\ Tables[3] = "PMC"
    /\ Tables[4] = "AWAC" /\ Tables[5] = "GPRW" /\ Tables[6] = "SBUS-MCHC"
BY DEF Tables

\* Where a name comes from: 0 is the firmware, otherwise the table's position.
Home(n) ==
    CASE n \in {"STAS", "RTC", "AWAC", "XPRW"} -> 0
      [] n = "PR00._DSM" -> 1
      [] n \in {"EC", "USBX"} -> 2
      [] n = "PMCR" -> 3
      [] n \in {"_INI", "RTC0"} -> 4
      [] n = "GPRW" -> 5
      [] n \in {"MCHC", "BUS0", "DVL0", "BUS1"} -> 6

\* No two tables define the same name.
LEMMA TablesApart ==
    ASSUME NEW k \in DOMAIN Tables, NEW n \in Additions(Tables[k])
    PROVE  Home(n) = k
<1>0. k \in 1 .. 6
  BY TheTables
<1> USE DEF Additions, Defines, Home
<1>1. CASE k = 1
  BY <1>1, TheTables DEF SSDT_PLUG
<1>2. CASE k = 2
  BY <1>2, TheTables DEF SSDT_EC_USBX
<1>3. CASE k = 3
  BY <1>3, TheTables DEF SSDT_PMC
<1>4. CASE k = 4
  BY <1>4, TheTables
<1>5. CASE k = 5
  BY <1>5, TheTables DEF SSDT_GPRW
<1>6. CASE k = 6
  BY <1>6, TheTables DEF SSDT_SBUS_MCHC
<1> HIDE DEF Additions, Defines, Home
<1> QED
  BY <1>0, <1>1, <1>2, <1>3, <1>4, <1>5, <1>6

\* Nor do they define one that the renamed firmware has.
LEMMA FirmwareApart ==
    ASSUME firmware \in {"switch", "awac"},
           NEW n \in (FirmwareNames(firmware) \ {"GPRW"}) \cup {"XPRW"}
    PROVE  Home(n) = 0
BY DEF FirmwareNames, Home

\* The tables leave STAS to the firmware: it is there where that declares it.
LEMMA StasIsFirmware ==
    ASSUME BootedSoFar, step # 0
    PROVE  "STAS" \in names <=> firmware = "switch"
<1>1. names = NamesAt(step) /\ firmware \in {"switch", "awac"}
  BY DEF BootedSoFar
<1>2. Home("STAS") = 0
  BY DEF Home
<1>3. \A j \in DOMAIN Tables : "STAS" \notin Additions(Tables[j])
  BY <1>2, TablesApart, TheTables
<1>4. "STAS" \in FirmwareNames(firmware) <=> firmware = "switch"
  BY <1>1 DEF FirmwareNames
<1> QED
  BY <1>1, <1>3, <1>4 DEF NamesAt

\* While the tables are loaded, SSDT-AWAC.dsl finds STAS exactly where the firmware
\* declares it, whatever was added in the meantime.
LEMMA AdditionsAreDefined ==
    ASSUME BootedSoFar, step # 0, NEW k \in DOMAIN Tables
    PROVE  Defines(Tables[k]) = Additions(Tables[k])
<1>1. Defines("AWAC") = Additions("AWAC")
  BY StasIsFirmware DEF Additions, Defines, SSDT_AWAC
<1>2. \A table : table # "AWAC" => Defines(table) = Additions(table)
  BY DEF Additions
<1> QED
  BY <1>1, <1>2

\* Loading a table meets no name that is there already.
LEMMA LoadTableKeeps ==
    ASSUME BootedSoFar, LoadTable
    PROVE  clashes' = {} /\ names' = NamesAt(step)'
<1>1. /\ step \in 1 .. 6 /\ step \in DOMAIN Tables /\ step' = step + 1
      /\ names = NamesAt(step) /\ firmware' = firmware /\ os' = os
      /\ firmware \in {"switch", "awac"} /\ clashes = {}
  BY TheTables DEF LoadTable, BootedSoFar
<1>2. /\ clashes' = Additions(Tables[step]) \cap names
      /\ names' = names \cup Additions(Tables[step])
  BY <1>1, AdditionsAreDefined DEF LoadTable
<1>3. ASSUME NEW n \in Additions(Tables[step]) PROVE n \notin names
  <2>1. Home(n) = step
    BY <1>1, TablesApart
  <2>2. \A j \in DOMAIN Tables : j < step => n \notin Additions(Tables[j])
    BY <1>1, <2>1, TablesApart, TheTables
  <2>3. n \notin (FirmwareNames(firmware) \ {"GPRW"}) \cup {"XPRW"}
    BY <1>1, <2>1, FirmwareApart
  <2> QED
    BY <1>1, <2>2, <2>3 DEF NamesAt
<1>4. clashes' = {}
  BY <1>2, <1>3
<1>5. \A j : Additions(Tables[j])' = Additions(Tables[j])
  BY <1>1 DEF Additions, Defines, SSDT_PLUG, SSDT_AWAC, Darwin, SSDT_EC_USBX, SSDT_PMC, SSDT_GPRW, SSDT_SBUS_MCHC
<1>6. FirmwareNames(firmware)' = FirmwareNames(firmware)
  BY <1>1 DEF FirmwareNames
<1>7. {i \in DOMAIN Tables : i < step'} = {i \in DOMAIN Tables : i < step} \cup {step}
  BY <1>1, TheTables
<1>8. NamesAt(step)' = NamesAt(step) \cup Additions(Tables[step])
  BY <1>5, <1>6, <1>7 DEF NamesAt
<1> QED
  BY <1>1, <1>2, <1>4, <1>8
\* NamesAt depends on the firmware and the system alone.
LEMMA NamesAtStays ==
    ASSUME os' = os, firmware' = firmware
    PROVE  \A k : NamesAt(k)' = NamesAt(k)
<1>1. \A t : Additions(t)' = Additions(t)
  BY DEF Additions, Defines, SSDT_PLUG, SSDT_AWAC, Darwin, SSDT_EC_USBX, SSDT_PMC, SSDT_GPRW, SSDT_SBUS_MCHC
<1> QED
  BY <1>1 DEF NamesAt, FirmwareNames

\* Before the first table is loaded, and after the last, the next step adds nothing.
LEMMA NamesAtEnds ==
    /\ NamesAt(1) = (FirmwareNames(firmware) \ {"GPRW"}) \cup {"XPRW"}
    /\ NamesAt(8) = NamesAt(7)
BY TheTables DEF NamesAt

\* GPRW's answer depends on the system alone.
LEMMA GPRWStays ==
    ASSUME os' = os
    PROVE  \A g, s : GPRW(g, s)' = GPRW(g, s)
BY DEF GPRW, XPRW, Darwin

\* The rename takes the method of the firmware out of the way of SSDT-GPRW.dsl.
LEMMA RenameKeeps ==
    ASSUME BootedSoFar, Rename
    PROVE  BootedSoFar'
<1> USE DEF BootedSoFar
<1>1. step' = 1 /\ step = 0 /\ os' = os /\ firmware' = firmware /\ names = FirmwareNames(firmware)
  BY DEF Rename
<1>2. names' = (FirmwareNames(firmware) \ {"GPRW"}) \cup {"XPRW"}
  BY <1>1 DEF Rename, FirmwareNames
<1>3. names' = NamesAt(step)'
  BY <1>1, <1>2, NamesAtEnds, NamesAtStays
<1> QED
  BY <1>1, <1>3, TheTables, GPRWStays DEF Rename, Running

\* Every step of the boot, and every _PRW that is evaluated after it, keeps it.
LEMMA BootKeeps ==
    ASSUME BootedSoFar, AcpiNext \/ UNCHANGED avars
    PROVE  BootedSoFar'
<1>1. CASE Rename
  BY <1>1, RenameKeeps
<1>2. CASE LoadTable
  <2>1. clashes' = {} /\ names' = NamesAt(step)' /\ step' # 0 /\ step' \in Nat /\ step' <= 7
    BY <1>2, LoadTableKeeps, TheTables DEF LoadTable, BootedSoFar
  <2> QED
    BY <1>2, <2>1, TheTables, GPRWStays DEF LoadTable, BootedSoFar, Running
<1>3. CASE Initialise
  <2>1. step = 7 /\ step' = 8 /\ os' = os /\ firmware' = firmware /\ names' = names /\ clashes' = clashes /\ prw' = prw
    BY <1>3, TheTables DEF Initialise
  <2>2. NamesAt(step)' = NamesAt(7)
    BY <2>1, NamesAtEnds, NamesAtStays
  <2>3. "STAS" \in names <=> firmware = "switch"
    BY <2>1, StasIsFirmware
  <2> QED
    BY <1>3, <2>1, <2>2, <2>3, GPRWStays DEF Initialise, BootedSoFar
<1>4. ASSUME NEW gpe \in Gpes, NEW sleep \in Sleeps, EvaluatePrw(gpe, sleep) PROVE BootedSoFar'
  BY <1>4, NamesAtStays, GPRWStays DEF EvaluatePrw, BootedSoFar, Running, FirmwareNames
<1>5. CASE UNCHANGED avars
  BY <1>5, NamesAtStays, GPRWStays DEF avars, BootedSoFar, Running, FirmwareNames
<1> QED
  BY <1>1, <1>2, <1>3, <1>4, <1>5 DEF AcpiNext

\* What the firmware's name space and the tables come to, whoever uses the clock.
LEMMA BootedAlways == Spec => []BootedSoFar
<1>1. Init => BootedSoFar
  <2> SUFFICES ASSUME AcpiInit PROVE BootedSoFar
    BY DEF Init
  <2>1. firmware \in {"switch", "awac"} /\ step = 0 /\ clashes = {} /\ prw = Null
    BY AcpiAssumption DEF AcpiInit
  <2>2. ~ Running
    BY <2>1, TheTables DEF Running
  <2> QED
    BY <2>1, <2>2 DEF AcpiInit, BootedSoFar
<1>2. BootedSoFar /\ [Next]_vars => BootedSoFar'
  <2> SUFFICES ASSUME BootedSoFar, [Next]_vars PROVE BootedSoFar'
    OBVIOUS
  <2>1. AcpiNext \/ UNCHANGED avars
    BY DEF Next, AcpiNext, ThreadStep, ThreadGoesOn, Call, Refuse, Match, MatchFails,
           WaitForService, WaitForServiceFails, Retain, WaitForMatchingService,
           WaitForMatchingServiceFails, ReleaseMatching, CastSucceeds, CastFails, Access, vars
  <2> QED
    BY <2>1, BootKeeps
<1> QED
  BY <1>1, <1>2, PTL DEF Spec

-----------------------------------------------------------------------------
(* The clock that Darwin finds, and what other systems find *)

\* When the machine is running, a table's name is there, and no other table's.
LEMMA NamesWhenRunning ==
    ASSUME BootedSoFar, Running
    PROVE  /\ "RTC" \in names <=> firmware = "switch"
           /\ "RTC0" \in names <=> firmware = "awac"
           /\ "AWAC" \in names
           /\ stas = 1 <=> firmware = "switch"
<1>1. /\ names = NamesAt(step) /\ step \in Nat /\ step > 7 /\ firmware \in {"switch", "awac"}
      /\ stas = 1 <=> firmware = "switch"
  BY TheTables, AcpiAssumption DEF BootedSoFar, Running
<1>2. \A n : n \in names <=> \/ n \in (FirmwareNames(firmware) \ {"GPRW"}) \cup {"XPRW"}
                             \/ \E j \in DOMAIN Tables : n \in Additions(Tables[j])
  BY <1>1, TheTables DEF NamesAt
<1>3. \A j \in DOMAIN Tables : \A n \in Additions(Tables[j]) : Home(n) = j
  BY TablesApart
<1>4. "RTC" \in names <=> firmware = "switch"
  BY <1>1, <1>2, <1>3, TheTables DEF Home, FirmwareNames
<1>5. "RTC0" \in names <=> firmware = "awac"
  <2>1. Additions(Tables[4]) = {"_INI"} \cup (IF firmware = "switch" THEN {} ELSE {"RTC0"})
    BY TheTables DEF Additions
  <2>2. Home("RTC0") = 4
    BY DEF Home
  <2>3. "RTC0" \notin (FirmwareNames(firmware) \ {"GPRW"}) \cup {"XPRW"}
    BY <1>1 DEF FirmwareNames
  <2> QED
    BY <1>1, <1>2, <1>3, <2>1, <2>2, <2>3, TheTables
<1>6. "AWAC" \in names
  BY <1>1, <1>2 DEF FirmwareNames
<1> QED
  BY <1>1, <1>4, <1>5, <1>6

\* On either firmware the tables leave Darwin exactly one enabled clock, and none of
\* them replaces a name that is there.
THEOREM OneClockAlways == Spec => []OneClock
<1>1. BootedSoFar => OneClock
  <2> SUFFICES ASSUME BootedSoFar PROVE OneClock
    OBVIOUS
  <2>1. clashes = {}
    BY DEF BootedSoFar
  <2>2. ASSUME Darwin, Running PROVE Cardinality(Clocks) = 1
    <3>1. firmware \in {"switch", "awac"}
      BY DEF BootedSoFar
    <3>2. "RTC" \in Clocks <=> firmware = "switch"
      BY <2>2, <3>1, NamesWhenRunning DEF Clocks, Enabled, Devices, Sta, DarwinOnly
    <3>3. "RTC0" \in Clocks <=> firmware = "awac"
      BY <2>2, <3>1, NamesWhenRunning DEF Clocks, Enabled, Devices, Sta, DarwinOnly
    <3>4. Clocks = {"RTC"} \/ Clocks = {"RTC0"}
      BY <3>1, <3>2, <3>3 DEF Clocks
    <3> QED
      BY <3>4, FS_Singleton
  <2> QED
    BY <2>1, <2>2 DEF OneClock
<1> QED
  BY <1>1, BootedAlways, PTL

\* A system other than Darwin finds exactly one of the firmware's clock, its alarm
\* counter and the added clock, although \_INI changes STAS under every system.
THEOREM OthersAlwaysHaveOneClock == Spec => []OthersHaveOneClock
<1>1. BootedSoFar => OthersHaveOneClock
  <2> DEFINE Seen == Enabled \cap {"RTC", "AWAC", "RTC0"}
  <2> SUFFICES ASSUME BootedSoFar, ~ Darwin, Running
               PROVE  Cardinality(Seen) = 1
    BY DEF OthersHaveOneClock
  <2>1. firmware \in {"switch", "awac"}
    BY DEF BootedSoFar
  <2>2. "RTC" \in Seen <=> firmware = "switch"
    BY <2>1, NamesWhenRunning DEF Enabled, Devices, Sta, DarwinOnly
  <2>3. "AWAC" \in Seen <=> firmware = "awac"
    BY <2>1, NamesWhenRunning DEF Enabled, Devices, Sta, DarwinOnly
  <2>4. "RTC0" \notin Seen
    BY DEF Enabled, Sta, DarwinOnly
  <2>5. Seen = {"RTC"} \/ Seen = {"AWAC"}
    BY <2>1, <2>2, <2>3, <2>4
  <2> QED
    BY <2>5, FS_Singleton
<1> QED
  BY <1>1, BootedAlways, PTL

-----------------------------------------------------------------------------
(* readDirect() and writeDirect() *)

\* A step of a call leads to one of the labels.
LEMMA ThreadMoves ==
    ASSUME TypeOK, NEW t \in Threads, ThreadStep(t)
    PROVE  TypeOK'
<1>1. \E label \in Labels :
          /\ pc' = [pc EXCEPT ![t] = label]
          /\ \/ req' = req
             \/ req' = [req EXCEPT ![t] = [off |-> 0, size |-> 0]]
  BY DEF Labels, TypeOK, ThreadStep, ThreadGoesOn, Refuse, Match, MatchFails, WaitForService,
         WaitForServiceFails, Retain, WaitForMatchingService, WaitForMatchingServiceFails,
         ReleaseMatching, CastSucceeds, CastFails, Access, Return, Goto
<1> QED
  BY <1>1 DEF TypeOK

\* The control state of the threads and what they ask for keep their types.
LEMMA TypeCorrect == Spec => []TypeOK
<1>1. Init => TypeOK
  BY DEF Init, RtcInit, TypeOK, Labels
<1>2. TypeOK /\ [Next]_vars => TypeOK'
  <2> SUFFICES ASSUME TypeOK, [Next]_vars PROVE TypeOK'
    OBVIOUS
  <2>1. CASE UNCHANGED rvars
    BY <2>1 DEF rvars, TypeOK
  <2>2. ASSUME NEW t \in Threads, NEW off \in 0 .. (2 * Bank - 1), NEW size \in Sizes,
               Call(t, off, size)
        PROVE  TypeOK'
    <3>1. off \in Nat /\ size \in Nat
      BY RtcAssumption
    <3> QED
      BY <2>2, <3>1 DEF Call, Goto, TypeOK, Labels
  <2> QED
    BY <2>1, <2>2, ThreadMoves DEF Next, vars
<1> QED
  BY <1>1, <1>2, PTL DEF Spec

-----------------------------------------------------------------------------
(* References *)

\* The threads at some labels are finitely many.
LEMMA CountType ==
    ASSUME NEW labels
    PROVE  /\ IsFiniteSet({t \in Threads : pc[t] \in labels})
           /\ Count(labels) \in Nat
<1>1. IsFiniteSet({t \in Threads : pc[t] \in labels})
  BY RtcAssumption, FS_Subset
<1> QED
  BY <1>1, FS_CardinalityType DEF Count

\* A thread that goes from one label to another is counted there and no longer here.
LEMMA CountMoves ==
    ASSUME TypeOK, NEW t \in Threads, NEW label, pc' = [pc EXCEPT ![t] = label], NEW labels
    PROVE  /\ label \in labels /\ pc[t] \notin labels => Count(labels)' = Count(labels) + 1
           /\ label \notin labels /\ pc[t] \in labels => Count(labels)' = Count(labels) - 1
           /\ (label \in labels <=> pc[t] \in labels) => Count(labels)' = Count(labels)
<1> DEFINE S == {u \in Threads : pc[u] \in labels}
           T == {u \in Threads : pc'[u] \in labels}
<1>1. IsFiniteSet(S)
  BY CountType
<1>2. Count(labels) = Cardinality(S) /\ Count(labels)' = Cardinality(T)
  BY DEF Count
<1>3. \A u \in Threads \ {t} : u \in T <=> u \in S
  BY DEF TypeOK
<1>4. (t \in S <=> pc[t] \in labels) /\ (t \in T <=> label \in labels)
  BY DEF TypeOK
<1>5. CASE label \in labels /\ pc[t] \notin labels
  <2>1. T = S \cup {t} /\ t \notin S
    BY <1>3, <1>4, <1>5
  <2> QED
    BY <1>1, <1>2, <1>5, <2>1, FS_AddElement
<1>6. CASE label \notin labels /\ pc[t] \in labels
  <2>1. T = S \ {t} /\ t \in S
    BY <1>3, <1>4, <1>6
  <2> QED
    BY <1>1, <1>2, <1>6, <2>1, FS_RemoveElement
<1>7. CASE label \in labels <=> pc[t] \in labels
  <2>1. T = S
    BY <1>3, <1>4, <1>7
  <2> QED
    BY <1>2, <1>7, <2>1
<1> QED
  BY <1>5, <1>6, <1>7

\* Every step of a call takes and gives references as its next label has it.
LEMMA ThreadBalances ==
    ASSUME TypeOK, RefsBalanced, NEW t \in Threads, ThreadStep(t)
    PROVE  RefsBalanced'
<1> DEFINE dev == {"release", "cast", "access"}
           dict == {"wait", "release", "releaseNull"}
<1>1. Count(dev) \in Nat /\ Count(dict) \in Nat /\ devRefs = Count(dev) /\ dictRefs = Count(dict)
  BY CountType DEF RefsBalanced
<1>2. SUFFICES devRefs' = Count(dev)' /\ dictRefs' = Count(dict)'
  BY DEF RefsBalanced
<1>3. ASSUME NEW label, Goto(t, label), NEW labels
      PROVE  /\ label \in labels /\ pc[t] \notin labels => Count(labels)' = Count(labels) + 1
             /\ label \notin labels /\ pc[t] \in labels => Count(labels)' = Count(labels) - 1
             /\ (label \in labels <=> pc[t] \in labels) => Count(labels)' = Count(labels)
  BY <1>3, CountMoves DEF Goto
<1>4. CASE Refuse(t) \/ MatchFails(t)
  BY <1>1, <1>3, <1>4 DEF Refuse, MatchFails, Return
<1>5. CASE Match(t)
  BY <1>1, <1>3, <1>5 DEF Match
<1>6. CASE WaitForService(t)
  BY <1>1, <1>3, <1>6 DEF WaitForService
<1>7. CASE Retain(t)
  BY <1>1, <1>3, <1>7 DEF Retain
<1>8. CASE WaitForMatchingService(t)
  BY <1>1, <1>3, <1>8 DEF WaitForMatchingService
<1>9. CASE ReleaseMatching(t)
  BY <1>1, <1>3, <1>9 DEF ReleaseMatching, Return
<1>10. CASE CastSucceeds(t)
  BY <1>1, <1>3, <1>10 DEF CastSucceeds
<1>11. CASE CastFails(t) \/ Access(t)
  BY <1>1, <1>3, <1>11 DEF CastFails, Access, Return
<1>12. CASE WaitForServiceFails(t)
  BY <1>1, <1>3, <1>12 DEF WaitForServiceFails, Return
<1>13. CASE WaitForMatchingServiceFails(t)
  BY <1>1, <1>3, <1>13 DEF WaitForMatchingServiceFails
<1> QED
  BY <1>4, <1>5, <1>6, <1>7, <1>8, <1>9, <1>10, <1>11, <1>12, <1>13 DEF ThreadStep, ThreadGoesOn

\* With both ways of waiting for the device, whether they find it or not, and on every
\* path out, the references to
\* the device and to the dictionary are those of the calls under way.
THEOREM RefsAreBalanced == Spec => []RefsBalanced
<1>1. Init => RefsBalanced
  <2> SUFFICES ASSUME Init PROVE RefsBalanced
    OBVIOUS
  <2>1. \A t \in Threads : pc[t] = "idle"
    BY DEF Init, RtcInit
  <2>2. /\ {t \in Threads : pc[t] \in {"release", "cast", "access"}} = {}
        /\ {t \in Threads : pc[t] \in {"wait", "release", "releaseNull"}} = {}
    BY <2>1
  <2> QED
    BY <2>2, FS_EmptySet DEF RefsBalanced, Count, Init, RtcInit
<1>2. TypeOK /\ RefsBalanced /\ [Next]_vars => RefsBalanced'
  <2> SUFFICES ASSUME TypeOK, RefsBalanced, [Next]_vars PROVE RefsBalanced'
    OBVIOUS
  <2>1. CASE UNCHANGED rvars
    BY <2>1 DEF rvars, RefsBalanced, Count
  <2>2. ASSUME NEW t \in Threads, NEW off \in 0 .. (2 * Bank - 1), NEW size \in Sizes,
               Call(t, off, size)
        PROVE  RefsBalanced'
    <3>1. /\ pc' = [pc EXCEPT ![t] = "check"] /\ pc[t] = "idle"
          /\ devRefs' = devRefs /\ dictRefs' = dictRefs
      BY <2>2 DEF Call, Goto
    <3>2. ASSUME NEW labels, "idle" \notin labels, "check" \notin labels
          PROVE  Count(labels)' = Count(labels)
      BY <3>1, <3>2, CountMoves
    <3> QED
      BY <3>1, <3>2 DEF RefsBalanced
  <2> QED
    BY <2>1, <2>2, ThreadBalances DEF Next, vars
<1> QED
  BY <1>1, <1>2, TypeCorrect, PTL DEF Spec

=============================================================================
