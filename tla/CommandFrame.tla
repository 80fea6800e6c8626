---------------------------- MODULE CommandFrame ----------------------------
(***************************************************************************)
(* What Client::execute sends for a command: the header, the command's     *)
(* code and the packed arguments.  A frame is a record of its kind (P or   *)
(* S), the length in its header, its code and its fields; a field is the   *)
(* width the code means it to have, the size it gets and the number in it. *)
(***************************************************************************)
EXTENDS CommandInput

RawCommands ==
    [GetProtocolID |-> "PI", GetCurrentTime |-> "T",
     GetTotalGenerated |-> "ET", GetYearGenerated |-> "EY",
     GetMonthGenerated |-> "EM", GetDayGenerated |-> "ED",
     GetSerialNumber |-> "ID", GetCPUVersion |-> "VFW",
     GetRatedInformation |-> "PIRI", GetGeneralStatus |-> "GS",
     GetWorkingMode |-> "MOD", GetFaultsAndWarnings |-> "FWS",
     GetFlagsAndStatuses |-> "FLAG", GetRatedDefaults |-> "DI",
     GetAllowedChargeCurrents |-> "MCHGCR",
     GetAllowedACChargeCurrents |-> "MUCHGCR",
     GetParallelRatedInformation |-> "PRI",
     GetParallelGeneralStatus |-> "PGS",
     GetACChargeTimeBucket |-> "ACCT", GetACSupplyTimeBucket |-> "ACLT",
     SetACSupply |-> "LON", SetFlag |-> "P", SetDefaults |-> "PF",
     SetBatteryMaxChargeCurrent |-> "MCHGC",
     SetBatteryMaxACChargeCurrent |-> "MUCHGC",
     SetACOutputFreq |-> "F", SetBatteryMaxChargeVoltage |-> "MCHGV",
     SetACOutputVoltage |-> "V", SetOutputSourcePriority |-> "POP",
     SetBatteryChargeThresholds |-> "BUCD", SetChargeSourcePriority |-> "PCP",
     SetSolarPowerPriority |-> "PSP", SetACInputVoltageRange |-> "PGR",
     SetBatteryType |-> "PBT", SetOutputMode |-> "POPM",
     SetBatteryCutOffVoltage |-> "PSDV", SetSolarConfig |-> "ID",
     ClearGenerated |-> "CLE", SetDateTime |-> "DAT",
     SetACChargeTimeBucket |-> "ACCT", SetACSupplyTimeBucket |-> "ACLT"]

-----------------------------------------------------------------------------
(* Fields. *)

\* std::setw(w) with setfill('0'): padded to w characters, never cut.
Wide(w, n) == [width |-> w, size |-> Max({w, Width(n)}), value |-> n]
\* The text as it was given.
Raw(w, t) == [width |-> w, size |-> t.size, value |-> t.value]
Comma == [width |-> 1, size |-> 1, value |-> 0]

\* What (int) makes of NaN is undefined: the build yields INT_MIN, eleven
\* characters, or 0.
Junk == {[width |-> 3, size |-> 11, value |-> NaN], Wide(3, 0)}
\* Mutant of Tenths: cut instead of rounded.
TenthsCut(t, junk) == IF t.volts = NaN THEN junk ELSE Wide(3, t.volts \div 10)
\* (int)round(volts * 10).
Tenths(t, junk) == IF t.volts = NaN THEN junk
                   ELSE Wide(3, (t.volts + 5) \div 10)

\* Mutant of Serial: no zeros.
SerialAsGiven(t) == <<Wide(2, t.size), Raw(20, t)>>
\* The number of a solar configuration, with its length before it and zeros
\* after it.
Serial(t) == <<Wide(2, t.size), [Raw(20, t) EXCEPT !.size = Max({20, t.size})]>>

-----------------------------------------------------------------------------
\* The arguments that std::stoi reads, which throws when one does not fit.
IntegerArguments(c, a) ==
    CASE c \in {"GetMonthGenerated", "GetDayGenerated"} -> 2..Len(a)
      [] c \in {"SetBatteryMaxChargeCurrent",
                "SetBatteryMaxACChargeCurrent"} -> {2}
      [] c \in {"GetParallelGeneralStatus", "GetParallelRatedInformation",
                "SetACOutputFreq", "SetACOutputVoltage"} -> {1}
      [] c \in {"SetDateTime", "SetACChargeTimeBucket",
                "SetACSupplyTimeBucket"} -> DOMAIN a
      [] OTHER -> {}

Packs(c, a) == \A i \in IntegerArguments(c, a) : a[i].wraps = 0

PackArguments(c, a, junk) ==
    CASE c = "GetYearGenerated" -> <<Raw(4, a[1])>>
      [] c \in {"SetOutputSourcePriority", "SetSolarPowerPriority",
                "SetACInputVoltageRange", "SetBatteryType", "SetACSupply"} ->
            <<Raw(1, a[1])>>
      [] c \in {"GetMonthGenerated", "GetDayGenerated"} ->
            [i \in DOMAIN a |-> IF i = 1 THEN Raw(4, a[1])
                                ELSE Wide(2, a[i].value)]
      [] c \in {"GetParallelGeneralStatus", "GetParallelRatedInformation"} ->
            <<Wide(1, a[1].value)>>
      [] c = "SetFlag" -> <<Wide(1, a[2].value), Raw(1, a[1])>>
      [] c \in {"SetBatteryMaxChargeCurrent",
                "SetBatteryMaxACChargeCurrent"} ->
            <<Raw(1, a[1]), Comma, Wide(3, a[2].value)>>
      [] c = "SetACOutputFreq" -> <<Wide(2, a[1].value)>>
      [] c \in {"SetBatteryMaxChargeVoltage", "SetBatteryChargeThresholds"} ->
            <<Tenths(a[1], junk), Comma, Tenths(a[2], junk)>>
      [] c = "SetACOutputVoltage" -> <<Wide(4, 10 * a[1].value)>>
      [] c \in {"SetChargeSourcePriority", "SetOutputMode"} ->
            <<Raw(1, a[1]), Comma, Raw(1, a[2])>>
      [] c = "SetBatteryCutOffVoltage" -> <<Tenths(a[1], junk)>>
      [] c = "SetSolarConfig" -> Serial(a[1])
      [] c = "SetDateTime" ->
            [i \in 1..6 |-> Wide(2, IF i = 1 THEN a[1].value - 2000
                                    ELSE a[i].value)]
      [] c \in {"SetACChargeTimeBucket", "SetACSupplyTimeBucket"} ->
            <<Wide(2, a[1].value), Wide(2, a[2].value), Comma,
              Wide(2, a[3].value), Wide(2, a[4].value)>>
      [] OTHER -> <<>>

Total(sizes) == FoldFunction(+, 0, sizes)

\* The length in the header counts the code, the arguments, the CRC and the
\* carriage return.
Frame(c, a, junk) ==
    LET fields == PackArguments(c, a, junk)
        code == RawCommands[c]
    IN [kind |-> IF c \in SetCommands THEN "S" ELSE "P",
        length |-> 2 + 1 + Len(code)
                     + Total([i \in DOMAIN fields |-> fields[i].size]),
        code |-> code,
        fields |-> fields]
=============================================================================
