---------------------------- MODULE CommandInput ----------------------------
(***************************************************************************)
(* What a command line or an `exec` request may ask: p18::validate_input,  *)
(* which checks the arguments of a command and rewrites some of them.      *)
(* Operators only; Programs applies them.                                  *)
(*                                                                         *)
(* An argument is a text, described by what the code asks of it:           *)
(*   word     the text itself, when it is not a number (ANumber otherwise) *)
(*   size     its length                                                   *)
(*   digits   is_numeric: digits only, of which there is one               *)
(*   whole    what std::stoul finds: a number, nothing, or too much        *)
(*   value    the low 32 bits of that number; wraps says how many times    *)
(*            2^32 is in it                                                *)
(*   real     what std::stof finds, and volts that number in hundredths    *)
(*   clock    its two parts, when ':' splits it into two                   *)
(***************************************************************************)
EXTENDS Integers, Sequences, FiniteSetsExt, Functions

NaN == -1                       \* volts of the text "nan"
ANumber == "a number"

Tens == {10, 100, 1000, 10000, 100000, 1000000, 10000000, 100000000,
         1000000000}
Width(n) == 1 + Cardinality({ten \in Tens : n >= ten})

\* What std::stoul and std::stof find in a text.
Finds == {"number", "nothing", "too much"}
IsPart(t) ==
    /\ t.size \in Nat /\ t.digits \in BOOLEAN /\ t.whole \in Finds
    /\ t.value \in Nat /\ t.wraps \in Nat /\ t.real \in Finds /\ t.volts \in Int
    /\ t.digits => t.size > 0 /\ Width(t.value) <= t.size
IsText(t) ==
    /\ IsPart(t)
    /\ t.clock # <<>> => \A i \in 1..2 : IsPart(t.clock[i])

Word(w) == [word |-> w, size |-> 0, digits |-> FALSE, whole |-> "nothing",
            value |-> 0, wraps |-> 0, real |-> "nothing", volts |-> 0,
            clock |-> <<>>]
\* std::to_string(n); a text equals it exactly when it is written like it.
Numeral(n) == [Word(ANumber) EXCEPT !.size = Width(n), !.digits = TRUE,
                               !.whole = "number", !.value = n,
                               !.real = "number", !.volts = 100 * n]

GetCommands == {"GetProtocolID", "GetCurrentTime", "GetTotalGenerated",
    "GetYearGenerated", "GetMonthGenerated", "GetDayGenerated",
    "GetSerialNumber", "GetCPUVersion", "GetRatedInformation",
    "GetGeneralStatus", "GetWorkingMode", "GetFaultsAndWarnings",
    "GetFlagsAndStatuses", "GetRatedDefaults", "GetAllowedChargeCurrents",
    "GetAllowedACChargeCurrents", "GetParallelRatedInformation",
    "GetParallelGeneralStatus", "GetACChargeTimeBucket",
    "GetACSupplyTimeBucket"}

SetCommands == {"SetACSupply", "SetFlag", "SetDefaults",
    "SetBatteryMaxChargeCurrent", "SetBatteryMaxACChargeCurrent",
    "SetACOutputFreq", "SetBatteryMaxChargeVoltage", "SetACOutputVoltage",
    "SetOutputSourcePriority", "SetBatteryChargeThresholds",
    "SetChargeSourcePriority", "SetSolarPowerPriority",
    "SetACInputVoltageRange", "SetBatteryType", "SetOutputMode",
    "SetBatteryCutOffVoltage", "SetSolarConfig", "ClearGenerated",
    "SetDateTime", "SetACChargeTimeBucket", "SetACSupplyTimeBucket"}

Commands == GetCommands \union SetCommands

\* How many arguments GET_ARGS takes for each command.
ArgumentCount(c) ==
    CASE c \in {"GetYearGenerated", "GetParallelRatedInformation",
                "GetParallelGeneralStatus", "SetACSupply", "SetACOutputFreq",
                "SetACOutputVoltage", "SetOutputSourcePriority",
                "SetSolarPowerPriority", "SetACInputVoltageRange",
                "SetBatteryType", "SetBatteryCutOffVoltage",
                "SetSolarConfig"} -> 1
      [] c \in {"GetMonthGenerated", "SetFlag", "SetBatteryMaxChargeCurrent",
                "SetBatteryMaxACChargeCurrent", "SetBatteryMaxChargeVoltage",
                "SetBatteryChargeThresholds", "SetChargeSourcePriority",
                "SetOutputMode", "SetACChargeTimeBucket",
                "SetACSupplyTimeBucket"} -> 2
      [] c = "GetDayGenerated" -> 3
      [] c = "SetDateTime" -> 6
      [] OTHER -> 0

-----------------------------------------------------------------------------
(* Verdicts.  A check lets an argument through, throws                     *)
(* std::invalid_argument ("refused") or std::out_of_range ("thrown"); the  *)
(* first that does not let it through decides.                             *)

Verdicts == {"accepted", "refused", "thrown"}

Require(b) == IF b THEN "accepted" ELSE "refused"
Found(what) == CASE what = "number" -> "accepted"
                 [] what = "nothing" -> "refused"
                 [] what = "too much" -> "thrown"

FirstOf(checks) ==
    LET failing == {i \in DOMAIN checks : checks[i] # "accepted"}
    IN IF failing = {} THEN "accepted" ELSE checks[Min(failing)]

(* Dates and times. *)

\* Mutant of ValidDate: every month has 31 days.
ValidDateMonthsOf31(y, m, d) ==
    /\ y \in 2000..2099 /\ d \in 1..31 /\ m \in 1..12
    /\ m = 2 => d <= 29
ValidDate(y, m, d) ==
    /\ y \in 2000..2099 /\ d \in 1..31 /\ m \in 1..12
    /\ m \in {4, 6, 9, 11} => d # 31
    /\ m = 2 => \/ y % 4 # 0 /\ d <= 28
                \/ y % 4 = 0 /\ d <= 29

TwoDigits(t, range) == t.digits /\ t.size <= 2 /\ t.value \in range

\* Mutant of DateArgs: the three are never looked at together.
DateArgsEachAlone(a) ==
    /\ a[1].digits /\ a[1].size = 4
    /\ Len(a) > 1 => TwoDigits(a[2], 1..12)
    /\ Len(a) > 2 => TwoDigits(a[3], 1..31)
DateArgs(a) ==
    /\ a[1].digits /\ a[1].size = 4 /\ a[1].value \in 2000..2099
    /\ Len(a) > 1 => TwoDigits(a[2], 1..12)
    /\ Len(a) > 2 => /\ TwoDigits(a[3], 1..31)
                     /\ ValidDate(a[1].value, a[2].value, a[3].value)

TimeArgs(a) == /\ TwoDigits(a[1], 0..23)
               /\ TwoDigits(a[2], 0..59)
               /\ TwoDigits(a[3], 0..59)

(* Numbers: converted first, then compared. *)

ValidParallelId(t) == t.value \in 0..6

\* A float compared with a double: 58.4f is a little more than 58.4.  No
\* comparison with NaN is true.
OutOfRange(t, low, high) == t.volts # NaN /\ (t.volts < low \/ t.volts > high)
ChargeVoltage(t) == Require(~ OutOfRange(t, 4800, 5839))

OutputVoltages == {202, 208, 220, 230, 240}
Steps(from, step, n) == {from + step * i : i \in 0..(n - 1)}
RechargeVoltages ==
    {1100, 1130, 1150, 1180, 1200, 1230, 1250, 1280}
        \union Steps(2200, 50, 8) \union Steps(4400, 100, 8)
RedischargeVoltages ==
    {0, 1200, 1230, 1250, 1280, 1300, 1330, 1350, 1380, 1400, 1430, 1450}
        \union Steps(2400, 50, 11) \union Steps(4800, 100, 11)

\* One end of a time bucket: both numbers are read, cast to unsigned short
\* and compared before the other end is looked at.
BucketTime(t) ==
    FirstOf(<<Found(t.clock[1].whole), Found(t.clock[2].whole),
              Require(/\ t.clock[1].value % 65536 <= 23
                      /\ t.clock[2].value % 65536 <= 59)>>)

(* Wordings: the index of the word is what is sent. *)

Flags == <<"BUZZ", "OLBP", "LCDE", "OLRS", "OTRS",
           "BLON", "ALRM", "FTCR", "MTYP">>

Wordings(c) ==
    CASE c = "SetOutputSourcePriority" -> <<Word("SUB"), Word("SBU")>>
      [] c = "SetChargeSourcePriority" -> <<Word("SF"), Word("SU"), Word("S")>>
      [] c = "SetSolarPowerPriority" -> <<Word("BLU"), Word("LBU")>>
      [] c = "SetACInputVoltageRange" -> <<Word("APPLIANCE"), Word("UPS")>>
      [] c = "SetBatteryType" -> <<Word("AGM"), Word("FLOODED"), Word("USER")>>
      [] c = "SetOutputMode" -> <<Word("S"), Word("P"), Numeral(1), Numeral(2),
                                  Numeral(3)>>
      [] OTHER -> <<>>

\* Mutant of IndexOf: counted from one.
IndexFromOne(list, t) == CHOOSE i \in DOMAIN list : list[i] = t
IndexOf(list, t) == (CHOOSE i \in DOMAIN list : list[i] = t) - 1
OneOf(t, list) == Require(t \in Range(list))
ZeroOrOne(t) == Require(t \in {Numeral(0), Numeral(1)})

-----------------------------------------------------------------------------
\* The checks of validate_input for command c, in their order.
Checks(c, a) ==
    CASE c \in {"GetYearGenerated", "GetMonthGenerated", "GetDayGenerated"} ->
            <<Require(DateArgs(a))>>
      [] c \in {"GetParallelRatedInformation", "GetParallelGeneralStatus"} ->
            <<Require(a[1].digits /\ a[1].size <= 1)>>
      [] c = "SetACSupply" -> <<ZeroOrOne(a[1])>>
      [] c = "SetFlag" ->
            <<Require(a[1].word \in Range(Flags)), ZeroOrOne(a[2])>>
      [] c \in {"SetBatteryMaxChargeCurrent",
                "SetBatteryMaxACChargeCurrent"} ->
            <<Found(a[1].whole), Found(a[2].whole),
              Require(ValidParallelId(a[1])), Require(a[2].value <= 999)>>
      [] c = "SetACOutputFreq" ->
            <<Require(a[1] \in {Numeral(50), Numeral(60)})>>
      [] c = "SetBatteryMaxChargeVoltage" ->
            <<Found(a[1].real), Found(a[2].real),
              ChargeVoltage(a[1]), ChargeVoltage(a[2])>>
      [] c = "SetACOutputVoltage" ->
            <<Found(a[1].whole), Require(a[1].value \in OutputVoltages)>>
      [] c \in {"SetOutputSourcePriority", "SetSolarPowerPriority",
                "SetACInputVoltageRange", "SetBatteryType"} ->
            <<OneOf(a[1], Wordings(c))>>
      [] c = "SetBatteryChargeThresholds" ->
            <<Found(a[1].real), Found(a[2].real),
              Require(a[1].volts \in RechargeVoltages),
              Require(a[2].volts \in RedischargeVoltages)>>
      [] c \in {"SetChargeSourcePriority", "SetOutputMode"} ->
            <<Found(a[1].whole), Require(ValidParallelId(a[1])),
              OneOf(a[2], Wordings(c))>>
      [] c = "SetBatteryCutOffVoltage" ->
            <<Found(a[1].real), Require(~ OutOfRange(a[1], 4000, 4800))>>
      [] c = "SetSolarConfig" -> <<Require(a[1].digits /\ a[1].size <= 20)>>
      [] c = "SetDateTime" ->
            <<Require(DateArgs(SubSeq(a, 1, 3))),
              Require(TimeArgs(SubSeq(a, 4, 6)))>>
      [] c \in {"SetACChargeTimeBucket", "SetACSupplyTimeBucket"} ->
            IF a[1].clock = <<>> \/ a[2].clock = <<>>
            THEN <<"refused">>
            ELSE <<BucketTime(a[1]), BucketTime(a[2])>>
      [] OTHER -> <<>>

\* What validate_input leaves in `arguments`.
Rewritten(c, a) ==
    CASE c = "SetFlag" ->
            <<Numeral(IndexOf(Flags, a[1].word)), a[2]>>
      [] c \in {"SetOutputSourcePriority", "SetSolarPowerPriority",
                "SetACInputVoltageRange", "SetBatteryType"} ->
            <<Numeral(IndexOf(Wordings(c), a[1]))>>
      [] c \in {"SetChargeSourcePriority", "SetOutputMode"} ->
            <<a[1], Numeral(IndexOf(Wordings(c), a[2]))>>
      [] c \in {"SetACChargeTimeBucket", "SetACSupplyTimeBucket"} ->
            [i \in 1..4 |->
                LET end == a[(i + 1) \div 2]
                IN Numeral(end.clock[1 + ((i + 1) % 2)].value % 65536)]
      [] OTHER -> a

\* get_args of inverterctl takes words until there are enough or one begins
\* with '-', and main refuses what is left; that of inverterd ignores it.
ValidateInput(program, c, words) ==
    LET n == ArgumentCount(c)
        taken == SubSeq(words, 1, n)
    IN IF Len(words) < n THEN "refused"
       ELSE FirstOf(Checks(c, taken)
                \o (IF program = "inverterctl"
                    THEN <<Require(Len(words) = n)>> ELSE <<>>))
=============================================================================
