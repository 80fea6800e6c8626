----------------------------- MODULE MCPrograms -----------------------------
(***************************************************************************)
(* Programs on the command lines, requests and answers of Programs.cfg.    *)
(***************************************************************************)
EXTENDS Programs

\* Texts.
Digits(size, n) == [Numeral(n) EXCEPT !.size = size]
Volts(v) == [Word(ANumber) EXCEPT !.size = 4, !.real = "number", !.volts = v,
                             !.whole = "number", !.value = v \div 100]
NotANumber == [Word("nan") EXCEPT !.size = 3, !.real = "number", !.volts = NaN]
FiftyX == [Volts(5000) EXCEPT !.word = "50x", !.size = 3]
FiveX == [Word("5x") EXCEPT !.size = 2, !.whole = "number", !.value = 5,
                            !.real = "number", !.volts = 500]
TooMuch == [Word(ANumber) EXCEPT !.size = 40, !.digits = TRUE, !.whole = "too much",
                            !.real = "too much"]
Wraps(n) == [Numeral(n) EXCEPT !.size = 10, !.wraps = 1]
Colon(h, m) == [Word(ANumber) EXCEPT !.size = 5, !.whole = h.whole, !.value = h.value,
                                !.real = h.real, !.volts = h.volts,
                                !.clock = <<h, m>>]

Line(program, options, words) ==
    [program |-> program, options |-> options, words |-> words]
Option(name, argument) == [name |-> name, argument |-> argument]
Words(names) == [i \in DOMAIN names |-> Word(names[i])]

\* Options: each with what it accepts, refuses and throws for.
Given == [name : {"format"}, argument : {Word(f) : f \in Formats \union {"xml"}}]
    \union [name : {"device"}, argument : {Word(d) : d \in DeviceTypes \union {"tty"}}]
    \union [name : {"raw"}, argument : {Word("^P005PI"), Digits(129, 1)}]
    \union [name : {"timeout"}, argument : {Numeral(0), Word("x"), TooMuch}]
    \union [name : {"serial-baud-rate"},
            argument : {Numeral(9600), Numeral(9601), TooMuch}]
    \union [name : {"serial-data-bits"}, argument : {Numeral(7), Numeral(8),
                                                     Numeral(9)}]
    \union [name : {"serial-stop-bits"}, argument : {Word("2"), Word("3")}]
    \union [name : {"serial-parity"}, argument : {Word("odd"), Word("any")}]
    \union [name : {"usb-vendor-id"}, argument : {Digits(4, 665), Digits(3, 665)}]
    \union [name : {"port"}, argument : {Numeral(70000), Word("x"), Wraps(1)}]
    \union [name : {"help", "verbose", "unknown"}, argument : {Word("")}]

First == {Option("device", Word("serial")), Option("raw", Word("^P005PI")),
          Option("help", Word("")), Option("format", Word("json"))}
OptionLines ==
    {Line(p, o, w) : p \in {"inverterctl", "inverterd"},
        o \in {<<>>} \union [1..1 -> Given] \union (First \X Given),
        w \in {<<>>, Words(<<"GetProtocolID">>)}}

\* Arguments.
Years == {1999, 2000, 2023, 2024, 2099, 2100}
Months == {Digits(2, m) : m \in 0..13} \union {Digits(1, 2), Digits(3, 2)}
Days == {Digits(2, d) : d \in {0, 1, 28, 29, 30, 31, 32}} \union {Digits(1, 1)}
Dates == {<<Numeral(y), m, d>> : y \in Years, m \in Months, d \in Days}
Clocks == {<<Digits(2, 0), Digits(2, 0)>>, <<Digits(3, 7), Numeral(5)>>,
           <<Numeral(23), Numeral(59)>>, <<Numeral(24), Digits(2, 0)>>,
           <<Digits(2, 1), Numeral(60)>>, <<Wraps(1), Numeral(5)>>,
           <<Numeral(65543), FiveX>>, <<Numeral(0), TooMuch>>}
Ends2 == {Colon(k[1], k[2]) : k \in Clocks} \union {Word("noon")}
Ids == {Numeral(0), Numeral(6), Numeral(7), Numeral(9), Numeral(10),
        Digits(2, 5), FiveX, Wraps(1), TooMuch, Word("one")}
Amps == {Numeral(2), Numeral(999), Numeral(1000), Wraps(30), Digits(3, 60)}
Limits == {Volts(v) : v \in {4799, 4800, 5404, 5655, 5839, 5840}}
              \union {NotANumber, FiftyX, TooMuch, Word("high")}
Said(c) == Range(Wordings(c)) \union {Word("NONE"), Numeral(4)}

Arguments(c) ==
    CASE c = "GetYearGenerated" ->
            {<<Numeral(y)>> : y \in Years} \union {<<Word("now")>>}
      [] c = "GetMonthGenerated" ->
            {<<Numeral(y), m>> : y \in Years, m \in Months}
      [] c = "GetDayGenerated" -> Dates
      [] c \in {"GetParallelRatedInformation", "GetParallelGeneralStatus"} ->
            {<<i>> : i \in Ids}
      [] c = "SetACSupply" -> {<<Numeral(0)>>, <<Numeral(1)>>, <<Numeral(2)>>}
      [] c = "SetFlag" -> {<<Word(f), n>> : f \in Range(Flags) \union {"NONE"},
                                            n \in {Numeral(i) : i \in 0..2}}
      [] c \in {"SetBatteryMaxChargeCurrent", "SetBatteryMaxACChargeCurrent"} ->
            Ids \X Amps
      [] c = "SetACOutputFreq" -> {<<Numeral(50)>>, <<Numeral(55)>>}
      [] c = "SetBatteryMaxChargeVoltage" -> Limits \X Limits
      [] c = "SetACOutputVoltage" -> {<<Numeral(202)>>, <<Numeral(240)>>,
                                      <<Numeral(250)>>, <<Wraps(240)>>}
      [] c \in {"SetOutputSourcePriority", "SetSolarPowerPriority",
                "SetACInputVoltageRange", "SetBatteryType"} ->
            {<<t>> : t \in Said(c)}
      [] c \in {"SetChargeSourcePriority", "SetOutputMode"} -> Ids \X Said(c)
      [] c = "SetBatteryChargeThresholds" ->
            {<<Volts(l), Volts(h)>> : l \in {1150, 4400, 5200},
                                      h \in {0, 1450, 5800, 5900}}
      [] c = "SetBatteryCutOffVoltage" ->
            {<<Volts(v)>> : v \in {3999, 4000, 4236, 4800, 4801}}
                \union {<<NotANumber>>}
      [] c = "SetSolarConfig" -> {<<Digits(n, 7)>> : n \in {1, 14, 20, 21}}
                                     \union {<<Word("A7")>>}
      [] c = "SetDateTime" ->
            {d \o <<Digits(2, h), Digits(2, 7), s>> :
                d \in {e \in Dates : e[2].value \in {2, 6} /\ e[3].value > 27},
                h \in {23, 24}, s \in {Digits(2, 0), Digits(1, 0), Numeral(60)}}
      [] c \in {"SetACChargeTimeBucket", "SetACSupplyTimeBucket"} -> Ends2 \X Ends2
      [] OTHER -> {<<>>, <<Word("more")>>}

Asked(c) == {<<Word(c)>> \o a : a \in Arguments(c)}
ArgumentLines == {Line("inverterctl", <<>>, w) : w \in UNION {Asked(c) : c \in Commands}}

FormatLines ==
    {Line("inverterctl",
          <<Option("format", Word(f)), Option("device", Word(d))>>,
          <<Word(c)>> \o [i \in 1..ArgumentCount(c) |->
                            IF i = 1 /\ ArgumentCount(c) > 1 THEN Numeral(2024)
                            ELSE IF c = "GetYearGenerated" THEN Numeral(2024)
                            ELSE Numeral(1)]) :
        f \in Formats, d \in {"usb", "pseudo"}, c \in GetCommands}

AllLines == OptionLines \union ArgumentLines \union FormatLines

AllRequests ==
    {Words(<<c>>) : c \in GetCommands \union {"SetDefaults", "NoSuchCommand"}}
        \union {<<Word("SetFlag"), Word("BUZZ"), Numeral(0)>>,
                <<Word("SetFlag"), Word("BUZZ"), Numeral(2)>>,
                <<Word("SetACOutputVoltage"), Numeral(240), Word("more")>>,
                <<Word("SetACOutputVoltage"), TooMuch>>,
                <<Word("GetParallelGeneralStatus"), Wraps(1)>>,
                <<Word("SetBatteryMaxChargeCurrent"), Numeral(0), Wraps(30)>>,
                <<Word("SetBatteryType"), Word("USER")>>}

-----------------------------------------------------------------------------
(* Answers. *)

\* From size, number, size, number, ...
Items(list) == [i \in 1..(Len(list) \div 2) |-> Item(list[2*i - 1], list[2*i])]
Honest(items) == LET data == [declared |-> 0, items |-> items]
                 IN [data EXCEPT !.declared = DataSize(data) + 3]
Number1(size, n) == Honest(<<Item(size, n)>>)
Digit(n, d) == [i \in 1..n |-> Item(1, d)]

\* The samples of pseudo_device.cc.
SampleGS == Honest(
    Items(<<4,0, 3,0, 4,2300, 3,500, 4,115, 4,18, 3,2, 3,500, 3,0, 3,0, 3,0,
            3,0, 3,78, 3,19, 3,0, 3,0, 4,0, 4,0, 4,0, 4,0>>)
      \o Items(<<1,0, 1,0, 1,0, 1,1, 1,2, 1,2, 1,0, 1,0>>))
SampleRated == Honest(
    Items(<<4,2300, 3,217, 4,2300, 3,500, 3,217, 4,5000, 4,5000, 3,480, 3,500,
            3,570, 3,420, 3,576, 3,540, 1,2, 2,30, 3,60, 1,0, 1,1, 1,1, 1,6,
            1,0, 1,0, 1,0, 1,1, 1,2, 2,0>>))
SampleDefaults == Honest(
    Items(<<4,2300, 3,500, 1,0, 3,408, 3,540, 3,564, 3,460, 3,540, 3,60, 2,30,
            1,0, 1,0, 1,1, 1,0, 1,0, 1,0, 1,1, 1,0, 1,0, 1,1, 1,1, 1,0, 1,1,
            1,1>>))
PGS(n) == Honest(SubSeq(
    Items(<<1,1, 1,3, 2,0, 4,2300, 3,500, 4,2300, 3,500, 4,115, 4,18, 5,115,
            5,18, 3,2, 3,2, 3,500, 3,0, 3,0, 3,0, 3,78, 4,0, 4,0, 4,0, 4,0,
            1,0, 1,2, 1,1, 1,2, 1,2, 1,0, 3,19>>), 1, n))

Showing ==
    [GetRatedInformation |-> SampleRated,
     GetFlagsAndStatuses |-> Honest(Digit(9, 0)),
     GetACChargeTimeBucket |-> Honest(Items(<<4, 0, 4, 0>>)),
     GetACSupplyTimeBucket |-> Honest(Items(<<4, 600, 4, 2300>>))]

Own ==
    [GetProtocolID |-> {Number1(2, 18)},
     GetCurrentTime |-> {Number1(14, 20240229)},
     GetTotalGenerated |-> {Number1(8, 12345)},
     GetYearGenerated |-> {Number1(8, 0)}, GetMonthGenerated |-> {Number1(8, 0)},
     GetDayGenerated |-> {Number1(8, 99999999)},
     GetSerialNumber |-> {Number1(22, 14920000), Number1(22, 20920000)},
     GetCPUVersion |-> {Honest(Items(<<5, 24, 5, 0, 5, Letters>>))},
     GetGeneralStatus |-> {SampleGS},
     GetWorkingMode |-> {Number1(2, m) : m \in 0..5},
     GetFaultsAndWarnings |-> {Honest(<<Item(2, 8)>> \o Digit(16, 1))},
     GetRatedDefaults |-> {SampleDefaults},
     GetAllowedChargeCurrents |-> {Honest(Items(<<3, 10, 3, 20, 3, 80>>))},
     GetAllowedACChargeCurrents |-> {Honest(Items(<<3, 2, 3, 10>>))},
     GetParallelRatedInformation |->
        {Honest(Items(<<1,1, 2,0, 20,9292000, 1,s, n,30, 3,60, 1,m>>)) :
            s \in 0..2, n \in {3}, m \in {0, 4}},
     GetParallelGeneralStatus |-> {PGS(28), PGS(29)},
     PseudoDevice |-> {SampleGS}]

\* What another command's answer may be: one of each, "^0", data that says it is
\* shorter than its own header, no data, and an enumeration's undeclared value.
Other ==
    {Data(c, CHOOSE a \in Own[c] : TRUE) : c \in DOMAIN Own \ {"PseudoDevice"}}
        \union {Data(c, Showing[c]) : c \in Settings}
        \union {Data("garbled", NoData),
                Data("garbled", [declared |-> 3, items |-> <<Item(0, Letters)>>]),
                Data("garbled", [declared |-> 5, items |-> <<Item(0, Letters)>>]),
                Data("garbled", Number1(2, 7)),
                Data("garbled", Honest(Set(SampleGS.items, 24, 9)))}

AllBytes == 0..255
NoisySet == {"ClearGenerated"}
=============================================================================
