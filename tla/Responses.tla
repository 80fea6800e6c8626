----------------------------- MODULE Responses -----------------------------
(***************************************************************************)
(* How an answer of the inverter is read and shown: validate, unpack and   *)
(* format of the response classes, and the texts of the enumerations.      *)
(* Operators only; Programs applies them.                                  *)
(*                                                                         *)
(* An answer to a get command is a record: `declared`, the length it gives *)
(* itself in "^Dxxx", and `items`, its data between commas.  An item has a *)
(* size and, as its value, the number its first eight characters make, or  *)
(* Letters when std::stoul finds none; no class reads more of a number.    *)
(* An answer that is not data at all (^0) is NoData.  An answer to a set   *)
(* command is the sequence of its bytes.                                   *)
(***************************************************************************)
EXTENDS Integers, Sequences, FiniteSetsExt, SequencesExt

Letters == -1
NoData == [declared |-> Letters, items |-> <<>>]

Item(size, value) == [size |-> size, value |-> value]

Sizes(items) == [i \in DOMAIN items |-> items[i].size]
\* The size of the first n items, with the comma behind each.
Extent(sizes, n) ==
    FoldFunctionOnSet(LAMBDA size, sum : sum + size + 1, 0, sizes, 1..n)
\* What getDataSize returns.
DataSize(answer) ==
    Max({0, Extent(Sizes(answer.items), Len(answer.items)) - 1})

-----------------------------------------------------------------------------
(* Layouts: what a class reads of the data.  A list has one set of         *)
(* admissible sizes per item (none: any list), of which `least` must be    *)
(* there; the rest reads characters at fixed places.  Items in `texts` are *)
(* not read as numbers, and `enums` gives the items of an enumeration.      *)

NoEnums == [enum \in {} |-> {}]
List(sizes, enums) == [form |-> "list", sizes |-> sizes, least |-> Len(sizes),
                       texts |-> {}, enums |-> enums]
Places(chunks) == [form |-> "places", sizes |-> chunks, least |-> 1,
                   texts |-> {}, enums |-> NoEnums]
Times(n, size) == [i \in 1..n |-> {size}]

ProtocolID == Places(<<2>>)
CurrentTime == Places(<<4, 2, 2, 2, 2, 2>>)
TotalGenerated == Places(<<8>>)
\* Two digits give the length of the number behind them.
SerialNumber == [Places(<<2>>) EXCEPT !.form = "counted"]
\* Mutant of CPUVersion: the first version is read at its place.
CPUVersionAtPlace == Places(<<5>>)
CPUVersion == [List(Times(3, 5), NoEnums) EXCEPT !.texts = 1..3]

RatedInformation ==
    [List(<<{4}, {3}, {4}, {3}, {3}, {4}, {4}>> \o Times(6, 3)
              \o <<{1}, 2..3, {3}>> \o Times(9, 1),
          [BatteryType |-> {14}, InputVoltageRange |-> {17},
           OutputSourcePriority |-> {18}, ChargeSourcePriority |-> {19},
           MachineType |-> {21}, Topology |-> {22}, OutputMode |-> {23},
           SolarPowerPriority |-> {24}])
     EXCEPT !.texts = {25}]

\* The lines of the table that show what set commands change: the item of
\* the answer, and whether it is in tenths or of an enumeration.
RatedLines ==
    [ac_output_rating_voltage |-> <<3, "tenths">>,
     ac_output_rating_freq |-> <<4, "tenths">>,
     battery_recharge_voltage |-> <<9, "tenths">>,
     battery_redischarge_voltage |-> <<10, "tenths">>,
     battery_under_voltage |-> <<11, "tenths">>,
     battery_bulk_voltage |-> <<12, "tenths">>,
     battery_float_voltage |-> <<13, "tenths">>,
     battery_type |-> <<14, "BatteryType">>,
     max_ac_charge_current |-> <<15, "units">>,
     max_charge_current |-> <<16, "units">>,
     input_voltage_range |-> <<17, "InputVoltageRange">>,
     output_source_priority |-> <<18, "OutputSourcePriority">>,
     charge_source_priority |-> <<19, "ChargeSourcePriority">>,
     output_mode |-> <<23, "OutputMode">>,
     solar_power_priority |-> <<24, "SolarPowerPriority">>]

GeneralStatus ==
    List(<<{4}, {3}, {4}, {3}, {4}, {4}>> \o Times(10, 3) \o Times(4, 4)
             \o Times(8, 1),
         [ConfigurationStatus |-> {21}, MPPTChargerStatus |-> 22..23,
          LoadConnectionStatus |-> {24}, BatteryPowerDirection |-> {25},
          DC_AC_PowerDirection |-> {26}, LinePowerDirection |-> {27}])

WorkingMode == [Places(<<2>>) EXCEPT !.enums = [WorkingMode |-> {1}]]
FaultsAndWarnings == List(<<{2}>> \o Times(16, 1), NoEnums)
FlagsAndStatuses == [List(Times(9, 1), NoEnums) EXCEPT !.texts = {9}]
\* The lines of the table, in the order of the items.
FlagLines == <<"buzzer", "overload_bypass",
    "escape_to_default_screen_after_1min_timeout", "overload_restart",
    "over_temp_restart", "backlight_on",
    "alarm_on_on_primary_source_interrupt", "fault_code_record">>

RatedDefaults ==
    List(<<{4}, {3}, {1}>> \o Times(6, 3) \o <<{2}>> \o Times(14, 1),
         [InputVoltageRange |-> {3}, BatteryType |-> {11},
          OutputSourcePriority |-> {12}, ChargeSourcePriority |-> {13},
          SolarPowerPriority |-> {14}, MachineType |-> {15},
          OutputMode |-> {16}])

AllowedChargeCurrents == List(<<>>, NoEnums)

ParallelRatedInformation ==
    [List(<<{1}, {2}, {20}, {1}, {3}, 2..3, {1}>>,
          [ParallelConnectionStatus |-> {1}, ChargeSourcePriority |-> {4},
           OutputMode |-> {7}])
     EXCEPT !.texts = {3}]

\* The last item may be missing.
ParallelGeneralStatus ==
    [List(<<{1}, {1}, {2}, {4}, {3}, {4}, {3}, {4}, {4}, {5}, {5}>>
              \o Times(7, 3) \o Times(4, 4) \o Times(6, 1) \o <<{3}>>,
          [ParallelConnectionStatus |-> {1}, WorkingMode |-> {2},
           MPPTChargerStatus |-> 23..24, LoadConnectionStatus |-> {25},
           BatteryPowerDirection |-> {26}, DC_AC_PowerDirection |-> {27},
           LinePowerDirection |-> {28}])
     EXCEPT !.least = 28]

ACChargeTimeBucket == List(Times(2, 4), NoEnums)

\* Client::execute's RESPONSE_CASEs.
Layouts ==
    [GetProtocolID |-> ProtocolID, GetCurrentTime |-> CurrentTime,
     GetTotalGenerated |-> TotalGenerated, GetYearGenerated |-> TotalGenerated,
     GetMonthGenerated |-> TotalGenerated, GetDayGenerated |-> TotalGenerated,
     GetSerialNumber |-> SerialNumber, GetCPUVersion |-> CPUVersion,
     GetRatedInformation |-> RatedInformation,
     GetGeneralStatus |-> GeneralStatus, GetWorkingMode |-> WorkingMode,
     GetFaultsAndWarnings |-> FaultsAndWarnings,
     GetFlagsAndStatuses |-> FlagsAndStatuses,
     GetRatedDefaults |-> RatedDefaults,
     GetAllowedChargeCurrents |-> AllowedChargeCurrents,
     GetAllowedACChargeCurrents |-> AllowedChargeCurrents,
     GetParallelRatedInformation |-> ParallelRatedInformation,
     GetParallelGeneralStatus |-> ParallelGeneralStatus,
     GetACChargeTimeBucket |-> ACChargeTimeBucket,
     GetACSupplyTimeBucket |-> ACChargeTimeBucket]

-----------------------------------------------------------------------------
(* Enumerations: the declared values, from 0 on (types.h), and the text    *)
(* that operator<< has for each (defines.cc).                              *)

Enumerators ==
    [BatteryType |-> <<"AGM", "Flooded", "User">>,
     InputVoltageRange |-> <<"Appliance", "USP">>,
     OutputSourcePriority |-> <<"SolarUtilityBattery", "SolarBatteryUtility">>,
     ChargeSourcePriority |-> <<"SolarFirst", "SolarAndUtility", "SolarOnly">>,
     MachineType |-> <<"OffGridTie", "GridTie">>,
     Topology |-> <<"TransformerLess", "Transformer">>,
     OutputMode |-> <<"SingleOutput", "ParallelOutput", "Phase_1_of_3",
                      "Phase_2_of_3", "Phase_3_of_3">>,
     SolarPowerPriority |-> <<"BatteryLoadUtility", "LoadBatteryUtility">>,
     MPPTChargerStatus |-> <<"Abnormal", "NotCharging", "Charging">>,
     BatteryPowerDirection |-> <<"DoNothing", "Charge", "Discharge">>,
     DC_AC_PowerDirection |-> <<"DoNothing", "AC_DC", "DC_AC">>,
     LinePowerDirection |-> <<"DoNothing", "Input", "Output">>,
     WorkingMode |-> <<"PowerOnMode", "StandbyMode", "BypassMode",
                       "BatteryMode", "FaultMode", "HybridMode">>,
     ParallelConnectionStatus |-> <<"NotExistent", "Existent">>,
     LoadConnectionStatus |-> <<"Disconnected", "Connected">>,
     ConfigurationStatus |-> <<"Default", "Changed">>]

Texts ==
    [BatteryType |-> [AGM |-> "AGM", Flooded |-> "Flooded", User |-> "User"],
     InputVoltageRange |-> [Appliance |-> "Appliance", USP |-> "USP"],
     OutputSourcePriority |->
        [SolarUtilityBattery |-> "Solar-Utility-Battery",
         SolarBatteryUtility |-> "Solar-Battery-Utility"],
     ChargeSourcePriority |->
        [SolarFirst |-> "Solar-First", SolarAndUtility |-> "Solar-and-Utility",
         SolarOnly |-> "Solar-only"],
     MachineType |-> [OffGridTie |-> "Off-Grid-Tie", GridTie |-> "Grid-Tie"],
     Topology |-> [TransformerLess |-> "Transformer-less",
                   Transformer |-> "Transformer"],
     OutputMode |->
        [SingleOutput |-> "Single output", ParallelOutput |-> "Parallel output",
         Phase_1_of_3 |-> "Phase 1 of 3-phase output",
         Phase_2_of_3 |-> "Phase 2 of 3-phase output",
         Phase_3_of_3 |-> "Phase 3 of 3-phase"],
     SolarPowerPriority |-> [BatteryLoadUtility |-> "Battery-Load-Utility",
                             LoadBatteryUtility |-> "Load-Battery-Utility"],
     MPPTChargerStatus |-> [Abnormal |-> "Abnormal", Charging |-> "Charging",
                            NotCharging |-> "Not charging"],
     BatteryPowerDirection |-> [DoNothing |-> "Do nothing",
                                Charge |-> "Charge", Discharge |-> "Discharge"],
     DC_AC_PowerDirection |-> [DoNothing |-> "Do nothing",
                               AC_DC |-> "AC/DC", DC_AC |-> "DC/AC"],
     LinePowerDirection |-> [DoNothing |-> "Do nothing",
                             Input |-> "Input", Output |-> "Output"],
     WorkingMode |->
        [PowerOnMode |-> "Power on mode", StandbyMode |-> "Standby mode",
         BypassMode |-> "Bypass mode", BatteryMode |-> "Battery mode",
         FaultMode |-> "Fault mode", HybridMode |-> "Hybrid mode"],
     ParallelConnectionStatus |-> [NotExistent |-> "Non-existent",
                                   Existent |-> "Existent"],
     LoadConnectionStatus |-> [Disconnected |-> "Disconnected",
                               Connected |-> "Connected"],
     ConfigurationStatus |-> [Default |-> "Default", Changed |-> "Changed"]]

\* An enumeration's operator<< ends for the values it has a text for; for any
\* other, ENUM_STR_DEFAULT calls the operator itself again.
HasText(enum, value) ==
    /\ value + 1 \in DOMAIN Enumerators[enum]
    /\ Enumerators[enum][value + 1] \in DOMAIN Texts[enum]
TextOf(enum, value) == Texts[enum][Enumerators[enum][value + 1]]

-----------------------------------------------------------------------------
(* validate. *)

\* The subtraction is of size_t: a length under 5 becomes huge.
ValidateGet(answer) ==
    IF answer = NoData THEN "refused"
    ELSE IF answer.declared = Letters THEN "invalid_argument"
    ELSE IF /\ answer.declared >= 5
            /\ 5 + DataSize(answer) >= answer.declared - 5
         THEN "valid" ELSE "refused"

Caret == 94
ValidateSet(bytes) ==
    IF /\ Len(bytes) >= 2 /\ bytes[1] = Caret
       /\ bytes[2] \in {48, 49}
    THEN "valid" ELSE "refused"
Accepted(bytes) == bytes[2] = 49

-----------------------------------------------------------------------------
(* unpack. *)

\* Mutant of GetList: the sizes are not looked at.
GetListAnySize(layout, items) == Len(items) >= layout.least
\* getList: enough items, and each that is expected of an expected size.
GetList(layout, items) ==
    layout.sizes # <<>> =>
        /\ Len(items) >= layout.least
        /\ \A i \in DOMAIN items \cap DOMAIN layout.sizes :
                items[i].size \in layout.sizes[i]

\* The items of a list that are read as numbers.
Numbers(layout, items) ==
    (IF layout.sizes = <<>> THEN DOMAIN items
     ELSE DOMAIN items \cap DOMAIN layout.sizes) \ layout.texts

\* The number that the first n characters of an item begin with.
Leading(item, n) == IF item.size <= n THEN item.value
                    ELSE item.value \div 10^(Min({item.size, 8}) - n)

\* The character at place p of the data begins a number: it is not a comma
\* and not a letter.
Begins(items, p) ==
    \E i \in DOMAIN items :
        LET first == Extent(Sizes(items), i - 1) + 1
        IN p \in first..(first + items[i].size - 1) /\ items[i].value # Letters

PlaceOf(chunks, i) == 1 + FoldFunctionOnSet(+, 0, chunks, 1..(i - 1))

\* How much of the data a class with fixed places reads.
Reads(layout, items) ==
    LET places == PlaceOf(layout.sizes, Len(layout.sizes) + 1) - 1
    IN IF layout.form = "counted" /\ Begins(items, 1)
       THEN places + Leading(items[1], 2) ELSE places

Unpack(layout, answer) ==
    IF layout.form = "list"
    THEN IF ~ GetList(layout, answer.items) THEN "refused"
         ELSE IF \E i \in Numbers(layout, answer.items) :
                    answer.items[i].value = Letters
              THEN "invalid_argument" ELSE "unpacked"
    ELSE IF Reads(layout, answer.items) > DataSize(answer) THEN "outside"
         ELSE IF \A i \in DOMAIN layout.sizes :
                    Begins(answer.items, PlaceOf(layout.sizes, i))
              THEN "unpacked" ELSE "invalid_argument"

-----------------------------------------------------------------------------
(* format and operator<<. *)

Formats == {"table", "simple-table", "json", "simple-json"}

\* The value of an item that is shown.
Value(layout, items, i) ==
    IF layout.form = "list" THEN items[i].value
    ELSE Leading(items[i], layout.sizes[i])

\* simple-json writes the number of an enumeration, the others its text.
WritesText(format) == format # "simple-json"

Displays(layout, items, format) ==
    WritesText(format) =>
        \A enum \in DOMAIN layout.enums : \A i \in layout.enums[enum] :
            HasText(enum, Value(layout, items, i))

\* An answer that is let through, unpacked and shown in every format.
Readable(layout, answer) ==
    /\ ValidateGet(answer) = "valid" /\ Unpack(layout, answer) = "unpacked"
    /\ \A format \in Formats : Displays(layout, answer.items, format)

\* What a line of get-rated shows: a text, or a number in hundredths.
RatedShown(line, items) ==
    LET value == items[RatedLines[line][1]].value
        unit == RatedLines[line][2]
    IN CASE unit = "tenths" -> 10 * value
         [] unit = "units" -> 100 * value
         [] OTHER -> TextOf(unit, value)

FlagShown(line, items) ==
    items[SelectInSeq(FlagLines, LAMBDA l : l = line)].value > 0
=============================================================================
