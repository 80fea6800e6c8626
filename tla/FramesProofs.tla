---------------------------- MODULE FramesProofs ----------------------------
(***************************************************************************)
(* That the fields of a frame are in their places, that the command lines  *)
(* inverterctl takes are the documented ones, and that a setting which the *)
(* inverter has taken is shown: for any words that validate_input sees.    *)
(***************************************************************************)
EXTENDS AnswersProofs

----------------------------------------------------------------------------
(* Widths *)

\* How many digits a number of some size has.
LEMMA WidthBounds ==
    ASSUME NEW n \in Int
    PROVE  /\ n < 10 => Width(n) <= 1
           /\ n < 100 => Width(n) <= 2
           /\ n < 1000 => Width(n) <= 3
           /\ n < 10000 => Width(n) <= 4
  <1> DEFINE below == {ten \in Tens : n >= ten}
  <1>1. Width(n) = 1 + Cardinality(below)
    BY DEF Width
  <1>2. IsFiniteSet({}) /\ Cardinality({}) = 0
    BY FS_EmptySet
  <1>3. IsFiniteSet({10}) /\ Cardinality({10}) = 1
    BY FS_Singleton
  <1>4. IsFiniteSet({10, 100}) /\ Cardinality({10, 100}) = 2
    <2>1. {10, 100} = {10} \union {100} /\ 100 \notin {10}
      BY SMT
    <2> QED
      BY <1>3, <2>1, FS_AddElement
  <1>5. IsFiniteSet({10, 100, 1000}) /\ Cardinality({10, 100, 1000}) = 3
    <2>1. {10, 100, 1000} = {10, 100} \union {1000} /\ 1000 \notin {10, 100}
      BY SMT
    <2> QED
      BY <1>4, <2>1, FS_AddElement
  <1>6. /\ n < 10 => below \subseteq {}
        /\ n < 100 => below \subseteq {10}
        /\ n < 1000 => below \subseteq {10, 100}
        /\ n < 10000 => below \subseteq {10, 100, 1000}
    BY SMT DEF Tens
  <1> HIDE DEF below
  <1>7. \A S : IsFiniteSet(S) /\ below \subseteq S
                  => Cardinality(below) \in Nat /\ Cardinality(below) <= Cardinality(S)
    BY FS_Subset, FS_CardinalityType
  <1> QED
    BY <1>1, <1>2, <1>3, <1>4, <1>5, <1>6, <1>7

----------------------------------------------------------------------------
(* Fields *)

\* A field is as wide as its place, and all of them are.
Fits(field) == field.size = field.width
AllFit(fields) == \A i \in DOMAIN fields : Fits(fields[i])

LEMMA MaxIs == \A w, n \in Nat : n <= w => Max({w, n}) = w
  BY SMT DEF Max

LEMMA FieldsFit ==
    /\ \A w \in Nat : \A n : Width(n) <= w => Fits(Wide(w, n))
    /\ \A w, t : t.size = w => Fits(Raw(w, t))
    /\ Fits(Comma)
  <1>1. \A w \in Nat : \A n : Width(n) <= w => Max({w, Width(n)}) = w
    BY WidthType, MaxIs
  <1> QED
    BY <1>1 DEF Fits, Wide, Raw, Comma

\* Tenths of at most 99.9 volts have three digits.
LEMMA TenthsFit ==
    ASSUME NEW t, NEW junk, t.volts \in Int, t.volts # NaN, t.volts < 9990
    PROVE  Fits(Tenths(t, junk))
  <1>1. (t.volts + 5) \div 10 \in Int /\ (t.volts + 5) \div 10 < 1000
    BY SMT
  <1>2. Width((t.volts + 5) \div 10) <= 3
    BY <1>1, WidthBounds
  <1>3. Fits(Wide(3, (t.volts + 5) \div 10))
    BY <1>2, FieldsFit
  <1> QED
    BY <1>3 DEF Tenths

LEMMA FitTuples ==
    ASSUME NEW u, NEW v, NEW w, NEW x, NEW y,
           Fits(u), Fits(v), Fits(w), Fits(x), Fits(y)
    PROVE  /\ AllFit(<<u>>) /\ AllFit(<<u, v>>) /\ AllFit(<<u, v, w>>)
           /\ AllFit(<<u, v, w, x, y>>)
  BY DEF AllFit

----------------------------------------------------------------------------
(* What the checks leave of sizes and numbers *)

\* A number that is printed is as long as it is wide.
LEMMA NumeralSize ==
    ASSUME NEW n \in Nat, n < 10
    PROVE  Numeral(n).size = 1 /\ Numeral(n).value = n
  <1>1. Width(n) = 1
    BY WidthBounds, WidthType
  <1> QED
    BY <1>1, NumeralType DEF NumeralFacts

\* Dates: the day and the month are numbers of two digits, the year a text of four.
LEMMA DatesMean ==
    ASSUME NEW b, DateArgs(b)
    PROVE  /\ b[1].size = 4 /\ b[1].value \in 2000 .. 2099
           /\ Len(b) > 1 => b[2].value \in 1 .. 12
           /\ Len(b) > 2 => b[3].value \in 1 .. 31
  BY DEF DateArgs, TwoDigits

LEMMA NotAbove ==
    /\ \A n \in 0 .. 31 : Width(n) <= 2
    /\ \A n \in 0 .. 99 : Width(n) <= 2
    /\ \A n \in Nat : n <= 999 => Width(n) <= 3
  BY WidthBounds
----------------------------------------------------------------------------
(* The frames of the commands *)

LEMMA DatesFit ==
    ASSUME NEW c \in {"GetYearGenerated", "GetMonthGenerated", "GetDayGenerated"},
           NEW a \in Seq(Text), NEW args, From(a, c, args), NEW junk
    PROVE  AllFit(PackArguments(c, args, junk))
  <1>1. args = a
    BY SMT DEF From, Rewritten
  <1>2. Checks(c, a) = <<Require(DateArgs(a))>>
    BY SMT DEF Checks
  <1>3. DateArgs(a)
    <2>1. Require(DateArgs(a)) = "accepted"
      BY <1>2 DEF From, Passed
    <2> QED
      BY <2>1 DEF Require
  <1>4. Len(a) \in 1 .. 3
    BY SMT DEF From, ArgumentCount
  <1>5. Fits(Raw(4, a[1]))
    BY <1>3, DatesMean, FieldsFit
  <1>6. CASE c = "GetYearGenerated"
    <2>1. PackArguments(c, args, junk) = <<Raw(4, a[1])>>
      BY <1>1, <1>6, SMT DEF PackArguments
    <2> QED
      BY <1>5, <2>1 DEF AllFit
  <1>7. CASE c # "GetYearGenerated"
    <2>1. PackArguments(c, args, junk) =
             [i \in DOMAIN a |-> IF i = 1 THEN Raw(4, a[1])
                                 ELSE Wide(2, a[i].value)]
      BY <1>1, <1>7, SMT DEF PackArguments
    <2>2. DOMAIN a = 1 .. Len(a)
      BY LenProperties
    <2>3. ASSUME NEW i \in DOMAIN a, i # 1 PROVE Fits(Wide(2, a[i].value))
      <3>1. (i = 2 /\ Len(a) > 1) \/ (i = 3 /\ Len(a) > 2)
        BY <1>4, <2>2, <2>3
      <3>2. a[i].value \in 0 .. 31
        <4>1. a[i].value \in 1 .. 12 \/ a[i].value \in 1 .. 31
          BY <1>3, <3>1, DatesMean
        <4> QED
          BY <4>1
      <3> QED
        BY <3>2, NotAbove, FieldsFit
    <2> QED
      BY <1>5, <2>1, <2>3 DEF AllFit
  <1> QED
    BY <1>6, <1>7

\* A machine's ID of at most one digit.
LEMMA ParallelFits ==
    ASSUME NEW c \in {"GetParallelRatedInformation", "GetParallelGeneralStatus"},
           NEW a \in Seq(Text), NEW args, From(a, c, args), NEW junk
    PROVE  AllFit(PackArguments(c, args, junk))
  <1>1. args = a
    BY SMT DEF From, Rewritten
  <1>2. Len(a) = 1
    BY SMT DEF From, ArgumentCount
  <1>3. Checks(c, a) = <<Require(a[1].digits /\ a[1].size <= 1)>>
    BY SMT DEF Checks
  <1>4. a[1].digits /\ a[1].size <= 1
    <2>1. Require(a[1].digits /\ a[1].size <= 1) = "accepted"
      BY <1>3 DEF From, Passed
    <2> QED
      BY <2>1 DEF Require
  <1>5. a[1].size \in Nat /\ Width(a[1].value) <= a[1].size
    BY <1>2, <1>4, TextType DEF IsText, IsPart
  <1>6. Width(a[1].value) <= 1
    BY <1>4, <1>5, WidthType
  <1>7. PackArguments(c, args, junk) = <<Wide(1, a[1].value)>>
    BY <1>1, SMT DEF PackArguments
  <1> QED
    BY <1>6, <1>7, FieldsFit, FitTuples

\* The index of a word in its table has one digit.
LEMMA IndexFits ==
    /\ \A c \in Worded1 \union Worded2 : \A t \in Range(Wordings(c)) :
          Numeral(IndexOf(Wordings(c), t)).size = 1
    /\ \A t \in Range(Flags) : Numeral(IndexOf(Flags, t)).size = 1
  <1>1. ASSUME NEW c \in Worded1 \union Worded2, NEW t \in Range(Wordings(c))
        PROVE  Numeral(IndexOf(Wordings(c), t)).size = 1
    <2>1. IsList(Wordings(c)) /\ Len(Wordings(c)) <= 5
      <3>1. Wordy(c) <= 5
        BY SMT DEF Wordy, Worded1, Worded2
      <3> QED
        BY <3>1, ListsOfWords
    <2>2. /\ IndexOf(Wordings(c), t) \in Nat
          /\ IndexOf(Wordings(c), t) < Len(Wordings(c))
      BY <2>1, IndexInList DEF IsList
    <2>3. IndexOf(Wordings(c), t) < 10
      BY <2>1, <2>2 DEF IsList
    <2> QED
      BY <2>2, <2>3, NumeralSize
  <1>2. ASSUME NEW t \in Range(Flags)
        PROVE  Numeral(IndexOf(Flags, t)).size = 1
    <2>1. IndexOf(Flags, t) \in Nat /\ IndexOf(Flags, t) < 9
      BY ListsOfWords, IndexInList DEF IsList
    <2> QED
      BY <2>1, NumeralSize
  <1> QED
    BY <1>1, <1>2

LEMMA WordFits ==
    ASSUME NEW c \in Worded1, NEW a \in Seq(Text), NEW args, From(a, c, args),
           NEW junk
    PROVE  AllFit(PackArguments(c, args, junk))
  <1>1. args = <<Numeral(IndexOf(Wordings(c), a[1]))>>
    BY SMT DEF From, Rewritten, Worded1
  <1>2. Checks(c, a) = <<OneOf(a[1], Wordings(c))>>
    BY SMT DEF Checks, Worded1
  <1>3. a[1] \in Range(Wordings(c))
    <2>1. OneOf(a[1], Wordings(c)) = "accepted"
      BY <1>2 DEF From, Passed
    <2> QED
      BY <2>1, OneOfMeans
  <1>4. args[1].size = 1
    BY <1>1, <1>3, IndexFits
  <1>5. PackArguments(c, args, junk) = <<Raw(1, args[1])>>
    BY SMT DEF PackArguments, Worded1
  <1> QED
    BY <1>4, <1>5, FieldsFit, FitTuples

\* The text of 0 or 1 is one character.
LEMMA ZeroOrOneFits ==
    ASSUME NEW t, ZeroOrOne(t) = "accepted"
    PROVE  t.size = 1 /\ t.value \in 0 .. 1
  <1>1. t \in {Numeral(0), Numeral(1)}
    BY DEF ZeroOrOne, Require
  <1> QED
    BY <1>1, NumeralSize

LEMMA SwitchFits ==
    ASSUME NEW a \in Seq(Text), NEW args, From(a, "SetACSupply", args), NEW junk
    PROVE  AllFit(PackArguments("SetACSupply", args, junk))
  <1>1. args = a
    BY SMT DEF From, Rewritten
  <1>2. Checks("SetACSupply", a) = <<ZeroOrOne(a[1])>>
    BY SMT DEF Checks
  <1>3. a[1].size = 1
    BY <1>2, ZeroOrOneFits DEF From, Passed
  <1>4. PackArguments("SetACSupply", args, junk) = <<Raw(1, a[1])>>
    BY <1>1, SMT DEF PackArguments
  <1> QED
    BY <1>3, <1>4, FieldsFit, FitTuples

LEMMA FlagFits ==
    ASSUME NEW a \in Seq(Text), NEW args, From(a, "SetFlag", args), NEW junk
    PROVE  AllFit(PackArguments("SetFlag", args, junk))
  <1>1. args = <<Numeral(IndexOf(Flags, a[1].word)), a[2]>>
    BY SMT DEF From, Rewritten
  <1>2. Checks("SetFlag", a) = <<Require(a[1].word \in Range(Flags)),
                                 ZeroOrOne(a[2])>>
    BY SMT DEF Checks
  <1>3. a[1].word \in Range(Flags)
    <2>1. Require(a[1].word \in Range(Flags)) = "accepted"
      BY <1>2 DEF From, Passed
    <2> QED
      BY <2>1 DEF Require
  <1>4. ZeroOrOne(a[2]) = "accepted"
    BY <1>2 DEF From, Passed
  <1>5. Width(args[2].value) <= 1
    BY <1>1, <1>4, ZeroOrOneFits, WidthBounds
  <1>6. args[1].size = 1
    BY <1>1, <1>3, IndexFits
  <1>7. PackArguments("SetFlag", args, junk) =
           <<Wide(1, args[2].value), Raw(1, args[1])>>
    BY SMT DEF PackArguments
  <1> QED
    BY <1>5, <1>6, <1>7, FieldsFit, FitTuples

LEMMA FrequencyFits ==
    ASSUME NEW a \in Seq(Text), NEW args, From(a, "SetACOutputFreq", args), NEW junk
    PROVE  AllFit(PackArguments("SetACOutputFreq", args, junk))
  <1>1. args = a
    BY SMT DEF From, Rewritten
  <1>2. Checks("SetACOutputFreq", a) =
           <<Require(a[1] \in {Numeral(50), Numeral(60)})>>
    BY SMT DEF Checks
  <1>3. a[1] \in {Numeral(50), Numeral(60)}
    <2>1. Require(a[1] \in {Numeral(50), Numeral(60)}) = "accepted"
      BY <1>2 DEF From, Passed
    <2> QED
      BY <2>1 DEF Require
  <1>4. a[1].value \in 0 .. 99
    <2>1. Numeral(50).value = 50 /\ Numeral(60).value = 60
      BY NumeralType DEF NumeralFacts
    <2>2. a[1].value = 50 \/ a[1].value = 60
      BY <1>3, <2>1
    <2> QED
      BY <2>2
  <1>5. PackArguments("SetACOutputFreq", args, junk) = <<Wide(2, a[1].value)>>
    BY <1>1, SMT DEF PackArguments
  <1>6. Fits(Wide(2, a[1].value))
    BY <1>4, NotAbove, FieldsFit
  <1> QED
    BY <1>5, <1>6, FitTuples

\* The currents have three digits; the machine's ID is sent as it was given.
LEMMA CurrentFits ==
    ASSUME NEW c \in {"SetBatteryMaxChargeCurrent", "SetBatteryMaxACChargeCurrent"},
           NEW a \in Seq(Text), NEW args, From(a, c, args), args[1].size = 1,
           NEW junk
    PROVE  AllFit(PackArguments(c, args, junk))
  <1>1. args = a
    BY SMT DEF From, Rewritten
  <1>2. Len(a) = 2
    BY SMT DEF From, ArgumentCount
  <1>3. Checks(c, a) = <<Found(a[1].whole), Found(a[2].whole),
                         Require(ValidParallelId(a[1])), Require(a[2].value <= 999)>>
    BY SMT DEF Checks
  <1>4. a[2].value <= 999
    <2>1. Require(a[2].value <= 999) = "accepted"
      BY <1>3 DEF From, Passed
    <2> QED
      BY <2>1 DEF Require
  <1>5. a[2].value \in Nat
    BY <1>2, TextType DEF IsText, IsPart
  <1>6. Fits(Wide(3, a[2].value))
    BY <1>4, <1>5, NotAbove, FieldsFit
  <1>7. PackArguments(c, args, junk) = <<Raw(1, a[1]), Comma, Wide(3, a[2].value)>>
    BY <1>1, SMT DEF PackArguments
  <1>8. Fits(Raw(1, a[1]))
    BY <1>1, FieldsFit
  <1> QED
    BY <1>6, <1>7, <1>8, FieldsFit, FitTuples

LEMMA ChoiceFits ==
    ASSUME NEW c \in Worded2, NEW a \in Seq(Text), NEW args, From(a, c, args),
           args[1].size = 1, NEW junk
    PROVE  AllFit(PackArguments(c, args, junk))
  <1>1. args = <<a[1], Numeral(IndexOf(Wordings(c), a[2]))>>
    BY SMT DEF From, Rewritten, Worded2
  <1>2. Checks(c, a) = <<Found(a[1].whole), Require(ValidParallelId(a[1])),
                         OneOf(a[2], Wordings(c))>>
    BY SMT DEF Checks, Worded2
  <1>3. a[2] \in Range(Wordings(c))
    <2>1. OneOf(a[2], Wordings(c)) = "accepted"
      BY <1>2 DEF From, Passed
    <2> QED
      BY <2>1, OneOfMeans
  <1>4. args[2].size = 1
    BY <1>1, <1>3, IndexFits
  <1>5. PackArguments(c, args, junk) = <<Raw(1, args[1]), Comma, Raw(1, args[2])>>
    BY SMT DEF PackArguments, Worded2
  <1> QED
    BY <1>4, <1>5, FieldsFit, FitTuples
LEMMA StepsBelow ==
    /\ \A x \in Steps(2200, 50, 8) : x < 9990
    /\ \A x \in Steps(4400, 100, 8) : x < 9990
    /\ \A x \in Steps(2400, 50, 11) : x < 9990
    /\ \A x \in Steps(4800, 100, 11) : x < 9990
  BY SMT DEF Steps

\* Voltages that are let through are below 99.9, unless they are NaN.
LEMMA VoltagesBelow ==
    ASSUME NEW c \in Voltages, NEW a \in Seq(Text), Len(a) = ArgumentCount(c),
           Passed(Checks(c, a)), \A i \in DOMAIN a : a[i].volts # NaN
    PROVE  \A i \in DOMAIN a : a[i].volts \in Int /\ a[i].volts < 9990
  <1>1. \A i \in DOMAIN a : a[i].volts \in Int
    BY TextType DEF IsText, IsPart
  <1>2. DOMAIN a = 1 .. Len(a)
    BY LenProperties
  <1>3. \A t, low : \A high \in Nat :
           t.volts \in Int /\ t.volts # NaN /\ high < 9990
             /\ Require(~ OutOfRange(t, low, high)) = "accepted"
              => t.volts < 9990
    BY SMT DEF Require, OutOfRange
  <1>4. CASE c = "SetBatteryMaxChargeVoltage"
    <2>1. Len(a) = 2
      BY <1>4, SMT DEF ArgumentCount
    <2>2. Checks(c, a) = <<Found(a[1].real), Found(a[2].real),
                           ChargeVoltage(a[1]), ChargeVoltage(a[2])>>
      BY <1>4, SMT DEF Checks
    <2>3. \A i \in 1 .. 2 : ChargeVoltage(a[i]) = "accepted"
      BY <2>2 DEF Passed
    <2> QED
      BY <1>1, <1>2, <1>3, <2>1, <2>3 DEF ChargeVoltage
  <1>5. CASE c = "SetBatteryCutOffVoltage"
    <2>1. Len(a) = 1
      BY <1>5, SMT DEF ArgumentCount
    <2>2. Checks(c, a) = <<Found(a[1].real),
                           Require(~ OutOfRange(a[1], 4000, 4800))>>
      BY <1>5, SMT DEF Checks
    <2>3. Require(~ OutOfRange(a[1], 4000, 4800)) = "accepted"
      BY <2>2 DEF Passed
    <2> QED
      BY <1>1, <1>2, <1>3, <2>1, <2>3
  <1>6. CASE c = "SetBatteryChargeThresholds"
    <2>1. Len(a) = 2
      BY <1>6, SMT DEF ArgumentCount
    <2>2. Checks(c, a) = <<Found(a[1].real), Found(a[2].real),
                           Require(a[1].volts \in RechargeVoltages),
                           Require(a[2].volts \in RedischargeVoltages)>>
      BY <1>6, SMT DEF Checks
    <2>3. a[1].volts \in RechargeVoltages /\ a[2].volts \in RedischargeVoltages
      BY <2>2 DEF Passed, Require
    <2>4. \A x \in RechargeVoltages : x < 9990
      BY StepsBelow, SMT DEF RechargeVoltages
    <2>5. \A x \in RedischargeVoltages : x < 9990
      BY StepsBelow, SMT DEF RedischargeVoltages
    <2> QED
      BY <1>1, <1>2, <2>1, <2>3, <2>4, <2>5
  <1> QED
    BY <1>4, <1>5, <1>6 DEF Voltages

LEMMA VoltageFits ==
    ASSUME NEW c \in Voltages, NEW a \in Seq(Text), NEW args, From(a, c, args),
           NEW junk, \A i \in DOMAIN args : args[i].volts # NaN
    PROVE  AllFit(PackArguments(c, args, junk))
  <1>1. args = a
    BY SMT DEF From, Rewritten, Voltages
  <1>2. ASSUME NEW i \in DOMAIN a PROVE Fits(Tenths(a[i], junk))
    <2>1. a[i].volts \in Int /\ a[i].volts < 9990 /\ a[i].volts # NaN
      BY <1>1, VoltagesBelow DEF From
    <2> QED
      BY <2>1, TenthsFit
  <1>3. DOMAIN a = 1 .. Len(a)
    BY LenProperties
  <1>4. CASE c \in {"SetBatteryMaxChargeVoltage", "SetBatteryChargeThresholds"}
    <2>1. Len(a) = 2
      BY <1>4, SMT DEF From, ArgumentCount
    <2>2. PackArguments(c, args, junk) =
             <<Tenths(a[1], junk), Comma, Tenths(a[2], junk)>>
      BY <1>1, <1>4, SMT DEF PackArguments
    <2>3. Fits(Tenths(a[1], junk)) /\ Fits(Tenths(a[2], junk))
      BY <1>2, <1>3, <2>1
    <2> QED
      BY <2>2, <2>3, FieldsFit, FitTuples
  <1>5. CASE c = "SetBatteryCutOffVoltage"
    <2>1. Len(a) = 1
      BY <1>5, SMT DEF From, ArgumentCount
    <2>2. PackArguments(c, args, junk) = <<Tenths(a[1], junk)>>
      BY <1>1, <1>5, SMT DEF PackArguments
    <2>3. Fits(Tenths(a[1], junk))
      BY <1>2, <1>3, <2>1
    <2> QED
      BY <2>2, <2>3, FitTuples
  <1> QED
    BY <1>4, <1>5 DEF Voltages

LEMMA OutputVoltageFits ==
    ASSUME NEW a \in Seq(Text), NEW args, From(a, "SetACOutputVoltage", args),
           NEW junk
    PROVE  AllFit(PackArguments("SetACOutputVoltage", args, junk))
  <1>1. args = a
    BY SMT DEF From, Rewritten
  <1>2. Checks("SetACOutputVoltage", a) =
           <<Found(a[1].whole), Require(a[1].value \in OutputVoltages)>>
    BY SMT DEF Checks
  <1>3. a[1].value \in OutputVoltages
    <2>1. Require(a[1].value \in OutputVoltages) = "accepted"
      BY <1>2 DEF From, Passed
    <2> QED
      BY <2>1 DEF Require
  <1>4. 10 * a[1].value \in Int /\ 10 * a[1].value < 10000
    BY <1>3, SMT DEF OutputVoltages
  <1>5. PackArguments("SetACOutputVoltage", args, junk) =
           <<Wide(4, 10 * a[1].value)>>
    BY <1>1, SMT DEF PackArguments
  <1>6. Fits(Wide(4, 10 * a[1].value))
    BY <1>4, WidthBounds, FieldsFit
  <1> QED
    BY <1>5, <1>6, FitTuples

\* The number of a solar configuration and its length.
LEMMA SolarFits ==
    ASSUME NEW a \in Seq(Text), NEW args, From(a, "SetSolarConfig", args), NEW junk
    PROVE  AllFit(PackArguments("SetSolarConfig", args, junk))
  <1>1. args = a
    BY SMT DEF From, Rewritten
  <1>2. Len(a) = 1
    BY SMT DEF From, ArgumentCount
  <1>3. Checks("SetSolarConfig", a) = <<Require(a[1].digits /\ a[1].size <= 20)>>
    BY SMT DEF Checks
  <1>4. a[1].size <= 20
    <2>1. Require(a[1].digits /\ a[1].size <= 20) = "accepted"
      BY <1>3 DEF From, Passed
    <2> QED
      BY <2>1 DEF Require
  <1>5. a[1].size \in Nat
    BY <1>2, TextType DEF IsText, IsPart
  <1> DEFINE x == [Raw(20, a[1]) EXCEPT !.size = Max({20, a[1].size})]
  <1>6. Fits(x)
    <2>1. Max({20, a[1].size}) = 20
      BY <1>4, <1>5, MaxIs
    <2> QED
      BY <2>1 DEF Fits, Raw
  <1>7. Fits(Wide(2, a[1].size))
    BY <1>4, <1>5, WidthBounds, FieldsFit
  <1>8. PackArguments("SetSolarConfig", args, junk) = <<Wide(2, a[1].size), x>>
    BY <1>1, SMT DEF PackArguments, Serial
  <1> HIDE DEF x
  <1> QED
    BY <1>6, <1>7, <1>8, FitTuples

LEMMA DateTimeFits ==
    ASSUME NEW a \in Seq(Text), NEW args, From(a, "SetDateTime", args), NEW junk
    PROVE  AllFit(PackArguments("SetDateTime", args, junk))
  <1>1. args = a
    BY SMT DEF From, Rewritten
  <1>2. Len(a) = 6
    BY SMT DEF From, ArgumentCount
  <1> DEFINE date == SubSeq(a, 1, 3)
             time == SubSeq(a, 4, 6)
  <1>3. Checks("SetDateTime", a) = <<Require(DateArgs(date)), Require(TimeArgs(time))>>
    BY SMT DEF Checks
  <1>4. /\ Len(date) = 3 /\ date[1] = a[1] /\ date[2] = a[2] /\ date[3] = a[3]
        /\ time[1] = a[4] /\ time[2] = a[5] /\ time[3] = a[6]
    BY <1>2
  <1> HIDE DEF date, time
  <1>5. DateArgs(date) /\ TimeArgs(time)
    <2>1. Require(DateArgs(date)) = "accepted" /\ Require(TimeArgs(time)) = "accepted"
      BY <1>3 DEF From, Passed
    <2> QED
      BY <2>1 DEF Require
  <1>6. /\ a[1].value \in 2000 .. 2099
        /\ a[2].value \in 1 .. 12 /\ a[3].value \in 1 .. 31
    <2>1. Len(date) > 1 /\ Len(date) > 2
      BY <1>4
    <2>2. /\ date[1].value \in 2000 .. 2099
          /\ date[2].value \in 1 .. 12 /\ date[3].value \in 1 .. 31
      BY <1>5, <2>1, DatesMean
    <2> QED
      BY <1>4, <2>2
  <1>7. a[4].value \in 0 .. 23 /\ a[5].value \in 0 .. 59 /\ a[6].value \in 0 .. 59
    BY <1>4, <1>5 DEF TimeArgs, TwoDigits
  <1> DEFINE n(i) == IF i = 1 THEN a[1].value - 2000 ELSE a[i].value
  <1>8. ASSUME NEW i \in 1 .. 6 PROVE n(i) \in 0 .. 99
    <2>1. CASE i = 1
      BY <1>6, <2>1
    <2>2. CASE i = 2
      BY <1>6, <2>2
    <2>3. CASE i = 3
      BY <1>6, <2>3
    <2>4. CASE i = 4
      BY <1>7, <2>4
    <2>5. CASE i \in 5 .. 6
      BY <1>7, <2>5
    <2> QED
      BY <2>1, <2>2, <2>3, <2>4, <2>5
  <1>9. PackArguments("SetDateTime", args, junk) = [i \in 1 .. 6 |-> Wide(2, n(i))]
    BY <1>1, SMT DEF PackArguments
  <1> HIDE DEF n
  <1>10. \A i \in 1 .. 6 : Fits(Wide(2, n(i)))
    BY <1>8, NotAbove, FieldsFit
  <1> QED
    BY <1>9, <1>10 DEF AllFit

\* An end of a time bucket that is let through is on the clock, as it is sent.
LEMMA BucketTimeMeans ==
    ASSUME NEW t, BucketTime(t) = "accepted"
    PROVE  t.clock[1].value % 65536 <= 23 /\ t.clock[2].value % 65536 <= 59
  <1> DEFINE h == Found(t.clock[1].whole)
             m == Found(t.clock[2].whole)
             onTheClock == /\ t.clock[1].value % 65536 <= 23
                           /\ t.clock[2].value % 65536 <= 59
             v == Require(onTheClock)
             checks == <<h, m, v>>
  <1>1. FirstOf(checks) = "accepted"
    BY DEF BucketTime
  <1>2. v = "accepted" => onTheClock
    BY DEF Require
  <1> HIDE DEF onTheClock
  <1> HIDE DEF h, m, v
  <1>3. checks \in Seq({h, m, v})
    OBVIOUS
  <1>4. v = checks[3] /\ 3 \in DOMAIN checks
    OBVIOUS
  <1> HIDE DEF checks
  <1>5. v = "accepted"
    BY <1>1, <1>3, <1>4, FirstOfMeans
  <1> QED
    BY <1>2, <1>5 DEF onTheClock
LEMMA BucketFits ==
    ASSUME NEW c \in Buckets, NEW a \in Seq(Text), NEW args, From(a, c, args),
           NEW junk
    PROVE  AllFit(PackArguments(c, args, junk))
  <1>1. args = [i \in 1 .. 4 |->
                  LET bound == a[(i + 1) \div 2]
                  IN Numeral(bound.clock[1 + ((i + 1) % 2)].value % 65536)]
    BY SMT DEF From, Rewritten, Buckets
  <1>2. Checks(c, a) = IF a[1].clock = <<>> \/ a[2].clock = <<>>
                       THEN <<"refused">>
                       ELSE <<BucketTime(a[1]), BucketTime(a[2])>>
    BY SMT DEF Checks, Buckets
  <1>3. a[1].clock # <<>> /\ a[2].clock # <<>>
    BY <1>2 DEF From, Passed
  <1>4. BucketTime(a[1]) = "accepted" /\ BucketTime(a[2]) = "accepted"
    BY <1>2, <1>3 DEF From, Passed
  <1>5. a[1] \in Text /\ a[2] \in Text
    <2>1. Len(a) = 2
      BY SMT DEF From, ArgumentCount, Buckets
    <2>2. DOMAIN a = 1 .. 2
      BY <2>1, LenProperties
    <2>3. 1 \in DOMAIN a /\ 2 \in DOMAIN a
      BY <2>2
    <2> QED
      BY <2>3, ElementOfSeq, LenProperties
  <1>6. \A i \in 1 .. 2 : \A k \in 1 .. 2 : a[i].clock[k].value \in Nat
    <2>1. \A t \in Text : t.clock # <<>> =>
             \A k \in 1 .. 2 : t.clock[k].value \in Nat
      BY TextType DEF IsText, IsPart
    <2>2. ASSUME NEW i \in 1 .. 2
          PROVE  a[i] \in Text /\ a[i].clock # <<>>
      BY <1>3, <1>5
    <2> QED
      BY <2>1, <2>2
  <1>7. \A i \in 1 .. 2 : /\ a[i].clock[1].value % 65536 <= 59
                          /\ a[i].clock[2].value % 65536 <= 59
    <2>1. ASSUME NEW t, BucketTime(t) = "accepted",
                 t.clock[1].value \in Nat, t.clock[2].value \in Nat
          PROVE  /\ t.clock[1].value % 65536 <= 59
                 /\ t.clock[2].value % 65536 <= 59
      <3>1. t.clock[1].value % 65536 <= 23 /\ t.clock[2].value % 65536 <= 59
        BY <2>1, BucketTimeMeans
      <3>2. t.clock[1].value % 65536 \in Nat
        BY <2>1, SMT
      <3> QED
        BY <3>1, <3>2
    <2>2. ASSUME NEW i \in 1 .. 2
          PROVE  /\ BucketTime(a[i]) = "accepted"
                 /\ a[i].clock[1].value \in Nat /\ a[i].clock[2].value \in Nat
      BY <1>4, <1>6
    <2> QED
      BY <2>1, <2>2
  <1>8. ASSUME NEW i \in 1 .. 4
        PROVE  Fits(Wide(2, args[i].value))
    <2>1. (i + 1) \div 2 \in 1 .. 2 /\ 1 + ((i + 1) % 2) \in 1 .. 2
      BY SMT
    <2> DEFINE n == a[(i + 1) \div 2].clock[1 + ((i + 1) % 2)].value
    <2>2. args[i] = Numeral(n % 65536)
      BY <1>1
    <2>3. n \in Nat
      BY <1>6, <2>1
    <2>4. n % 65536 <= 59
      <3>1. 1 + ((i + 1) % 2) = 1 \/ 1 + ((i + 1) % 2) = 2
        BY <2>1
      <3> QED
        BY <1>7, <2>1, <3>1
    <2> HIDE DEF n
    <2>5. PICK m \in Nat : m = n % 65536
      BY <2>3, SMT
    <2>6. m <= 59
      BY <2>4, <2>5, SMT
    <2>7. Numeral(m).value = m
      BY NumeralType DEF NumeralFacts
    <2>8. args[i].value = m
      BY <2>2, <2>5, <2>7, SMT
    <2>9. m \in 0 .. 99
      BY <2>6
    <2> QED
      BY <2>8, <2>9, NotAbove, FieldsFit
  <1>9. PackArguments(c, args, junk) =
           <<Wide(2, args[1].value), Wide(2, args[2].value), Comma,
             Wide(2, args[3].value), Wide(2, args[4].value)>>
    BY SMT DEF PackArguments, Buckets
  <1>10. /\ Fits(Wide(2, args[1].value)) /\ Fits(Wide(2, args[2].value))
         /\ Fits(Wide(2, args[3].value)) /\ Fits(Wide(2, args[4].value))
    BY <1>8
  <1> QED
    BY <1>9, <1>10, FieldsFit, FitTuples

----------------------------------------------------------------------------
(* Any command *)

\* What is not in its place is NaN or a machine's ID that is not one digit.
Displaced(c, args) ==
    \/ \E t \in Range(args) : t.volts = NaN
    \/ c \in TakesId /\ args[1].size # 1

LEMMA FieldsInPlace ==
    ASSUME NEW c \in Commands, NEW a \in Seq(Text), NEW args, From(a, c, args),
           NEW junk, ~ Displaced(c, args)
    PROVE  AllFit(PackArguments(c, args, junk))
  <1>1. c \in TakesId => args[1].size = 1
    BY DEF Displaced
  <1>2. \A i \in DOMAIN args : args[i].volts # NaN
    BY DEF Displaced, Range
  <1>3. CASE c \in {"GetYearGenerated", "GetMonthGenerated", "GetDayGenerated"}
    BY <1>3, DatesFit
  <1>4. CASE c \in {"GetParallelRatedInformation", "GetParallelGeneralStatus"}
    BY <1>4, ParallelFits
  <1>5. CASE c \in Worded1
    BY <1>5, WordFits
  <1>6. CASE c \in Worded2
    <2>1. c \in TakesId
      BY <1>6 DEF Worded2, TakesId
    <2> QED
      BY <1>1, <1>6, <2>1, ChoiceFits
  <1>7. CASE c \in {"SetBatteryMaxChargeCurrent", "SetBatteryMaxACChargeCurrent"}
    <2>1. c \in TakesId
      BY <1>7 DEF TakesId
    <2> QED
      BY <1>1, <1>7, <2>1, CurrentFits
  <1>8. CASE c \in Voltages
    BY <1>2, <1>8, VoltageFits
  <1>9. CASE c \in Buckets
    BY <1>9, BucketFits
  <1>10. CASE c \in {"SetACSupply", "SetFlag", "SetACOutputFreq",
                     "SetACOutputVoltage", "SetSolarConfig", "SetDateTime"}
    BY <1>10, SwitchFits, FlagFits, FrequencyFits, OutputVoltageFits, SolarFits,
       DateTimeFits
  <1>11. CASE c \notin {"GetYearGenerated", "GetMonthGenerated", "GetDayGenerated",
                        "GetParallelRatedInformation", "GetParallelGeneralStatus",
                        "SetBatteryMaxChargeCurrent",
                        "SetBatteryMaxACChargeCurrent",
                        "SetACSupply", "SetFlag", "SetACOutputFreq",
                        "SetACOutputVoltage", "SetSolarConfig", "SetDateTime"}
                       \union Worded1 \union Worded2 \union Voltages
                       \union Buckets
    <2>1. PackArguments(c, args, junk) = <<>>
      BY <1>11, SMT DEF PackArguments, Worded1, Worded2, Voltages, Buckets
    <2> QED
      BY <2>1 DEF AllFit
  <1> QED
    BY <1>3, <1>4, <1>5, <1>6, <1>7, <1>8, <1>9, <1>10, <1>11

\* The length in the header is then the one of the places.
LEMMA FrameFits ==
    ASSUME NEW c, NEW args, NEW junk, AllFit(PackArguments(c, args, junk))
    PROVE  LET f == Frame(c, args, junk)
           IN /\ InPlace(f)
              /\ f.length = 3 + Len(f.code)
                               + Total([i \in DOMAIN f.fields |->
                                           f.fields[i].width])
  <1> DEFINE fields == PackArguments(c, args, junk)
             f == Frame(c, args, junk)
  <1>1. /\ f.fields = fields /\ f.code = RawCommands[c]
        /\ f.length = 2 + 1 + Len(f.code)
                        + Total([i \in DOMAIN fields |-> fields[i].size])
    BY DEF Frame
  <1> HIDE DEF fields, f
  <1>2. [i \in DOMAIN fields |-> fields[i].size] =
           [i \in DOMAIN fields |-> fields[i].width]
    BY DEF AllFit, Fits, fields
  <1>3. InPlace(f)
    BY <1>1 DEF InPlace, AllFit, Fits, fields
  <1>4. 2 + 1 = 3
    BY SMT
  <1> QED
    BY <1>1, <1>2, <1>3, <1>4 DEF f

----------------------------------------------------------------------------
(* The frame of a request, for as long as it is kept *)

FrameOfRequest ==
    frame # NoFrame =>
        /\ command \in Commands
        /\ \E junk \in Junk : frame = Frame(command, arguments, junk)

LEMMA NextKeepsFrame ==
    IInv /\ FrameOfRequest /\ [Next]_vars => FrameOfRequest'
  <1> SUFFICES ASSUME IInv, FrameOfRequest, [Next]_vars PROVE FrameOfRequest'
    OBVIOUS
  <1>1. CASE UNCHANGED <<command, arguments, frame>>
    BY <1>1 DEF FrameOfRequest
  <1>2. ASSUME NEW words, Take(words) PROVE FrameOfRequest'
    BY <1>2 DEF Take, FrameOfRequest
  <1>3. CASE TakeWords
    BY <1>1, <1>2, <1>3 DEF TakeWords, request
  <1>4. ASSUME NEW words, Execute(words) PROVE FrameOfRequest'
    BY <1>2, <1>4 DEF Execute
  <1>5. CASE Send
    <2>1. UNCHANGED <<command, arguments>>
            /\ \/ frame' = frame
               \/ config.action # "raw"
                    /\ \E junk \in Junk : frame' = Frame(command, arguments, junk)
      BY <1>5 DEF Send
    <2>2. config.action # "raw" => command \in Commands
      BY <1>5 DEF IInv, Order, Send
    <2> QED
      BY <2>1, <2>2 DEF FrameOfRequest
  <1>6. CASE Answer
    BY <1>1, <1>6 DEF Answer
  <1>7. CASE TakeOption
    <2>1. UNCHANGED request
      BY <1>7 DEF TakeOption, Return, Abort
    <2> QED
      BY <1>1, <2>1 DEF request
  <1>8. CASE OpenDevice \/ Start \/ ShutDown
    <2>1. OpenDevice => UNCHANGED request
      BY DEF OpenDevice
    <2>2. Start => UNCHANGED request
      BY SMT DEF Start
    <2>3. ShutDown => UNCHANGED request
      BY DEF ShutDown
    <2> QED
      BY <1>1, <1>8, <2>1, <2>2, <2>3 DEF request
  <1>9. CASE DeviceFails \/ AnswerRaw \/ Read
    <2>1. UNCHANGED request
      BY <1>9 DEF DeviceFails, AnswerRaw, Read
    <2> QED
      BY <1>1, <2>1 DEF request
  <1>10. CASE Ended \/ UNCHANGED vars
    BY <1>1, <1>10 DEF Ended, vars
  <1> QED
    BY <1>3, <1>4, <1>5, <1>6, <1>7, <1>8, <1>9, <1>10 DEF Next

LEMMA FrameIsPlaced == IInv /\ FrameOfRequest => FrameInPlace
  <1> SUFFICES ASSUME IInv, FrameOfRequest, frame # NoFrame,
                      ~ Displaced(command, arguments)
               PROVE  /\ InPlace(frame)
                      /\ frame.length = 3 + Len(frame.code)
                           + Total([i \in DOMAIN frame.fields |->
                                       frame.fields[i].width])
    BY DEF FrameInPlace, Displaced
  <1>1. command \in Commands
    BY DEF FrameOfRequest
  <1>2. PICK a \in Seq(Text) : From(a, command, arguments)
    BY <1>1 DEF IInv, Asked, Kept
  <1>3. PICK junk \in Junk : frame = Frame(command, arguments, junk)
    BY DEF FrameOfRequest
  <1>4. AllFit(PackArguments(command, arguments, junk))
    BY <1>1, <1>2, FieldsInPlace
  <1> QED
    BY <1>3, <1>4, FrameFits

----------------------------------------------------------------------------
(* Theorem *)

\* Whatever words validate_input lets through, packArguments gives every field
\* the width of its place and Client::execute the length of the whole: but for
\* "nan" and a machine's ID that is not one digit.
THEOREM FieldsAreInPlace == Spec => []FrameInPlace
  <1>1. Init => FrameOfRequest
    BY DEF Init, FrameOfRequest
  <1> QED
    BY <1>1, Invariance, NextKeepsFrame, FrameIsPlaced, PTL DEF Spec

----------------------------------------------------------------------------
(* What inverterctl makes of its command line *)

\* One more check lets a line through when the others and it do.
LEMMA AllOfThem ==
    ASSUME NEW p \in Seq(Verdicts), NEW w \in Verdicts
    PROVE  FirstOf(p \o <<w>>) = "accepted" <=> Passed(p) /\ w = "accepted"
  <1> DEFINE s == p \o <<w>>
             l == <<w>>
  <1>1. l \in Seq(Verdicts) /\ Len(l) = 1 /\ l[1] = w
    OBVIOUS
  <1>2. Len(p) \in Nat /\ DOMAIN p = 1 .. Len(p)
    BY LenProperties
  <1>3. s = p \o l
    OBVIOUS
  <1> HIDE DEF l, s
  <1>4. /\ s \in Seq(Verdicts) /\ Len(s) = Len(p) + 1
        /\ \A i \in 1 .. Len(s) : s[i] = IF i <= Len(p) THEN p[i] ELSE l[i - Len(p)]
    <2>1. /\ p \o l \in Seq(Verdicts) /\ Len(p \o l) = Len(p) + Len(l)
          /\ \A i \in 1 .. Len(p) + Len(l) :
                (p \o l)[i] = IF i <= Len(p) THEN p[i] ELSE l[i - Len(p)]
      BY <1>1, ConcatProperties
    <2> QED
      BY <1>1, <1>3, <2>1
  <1>5. DOMAIN s = 1 .. Len(p) + 1
    BY <1>4, LenProperties
  <1>6. \A i \in DOMAIN p : i \in DOMAIN s /\ s[i] = p[i]
    BY <1>2, <1>4, <1>5
  <1>7. Len(p) + 1 \in DOMAIN s /\ s[Len(p) + 1] = w
    BY <1>1, <1>2, <1>4, <1>5
  <1>8. \A i \in DOMAIN s : i \in DOMAIN p \/ i = Len(p) + 1
    BY <1>2, <1>5
  <1>9. FirstOf(s) = "accepted" <=> \A i \in DOMAIN s : s[i] = "accepted"
    BY <1>4, FirstOfMeans
  <1>10. FirstOf(s) = "accepted" <=> Passed(p) /\ w = "accepted"
    BY <1>6, <1>7, <1>8, <1>9 DEF Passed
  <1> QED
    BY <1>10 DEF s, l

\* Every word after the command is an argument, and each check lets them through.
LEMMA WholeLine ==
    ASSUME NEW c, NEW words \in Seq(Text)
    PROVE  ValidateInput("inverterctl", c, words) = "accepted"
              <=> Len(words) = ArgumentCount(c) /\ Passed(Checks(c, words))
  <1> DEFINE n == ArgumentCount(c)
             a == SubSeq(words, 1, n)
             w == Require(Len(words) = n)
             p == Checks(c, a)
  <1>1. n \in Nat /\ Len(words) \in Nat /\ DOMAIN words = 1 .. Len(words)
    BY LenProperties, SMT DEF ArgumentCount
  <1>2. CASE Len(words) < n
    BY <1>1, <1>2 DEF ValidateInput
  <1>3. CASE ~ (Len(words) < n)
    <2>1. ValidateInput("inverterctl", c, words) = FirstOf(p \o <<w>>)
      BY <1>3 DEF ValidateInput
    <2>2. n <= Len(words)
      BY <1>1, <1>3
    <2>3. a \in Seq(Text) /\ Len(a) = n /\ \A k \in 1 .. n : a[k] = words[k]
      BY <1>1, <2>2, SubSeqProperties
    <2>4. p \in Seq(Verdicts)
      BY <2>3, ChecksAreFine DEF AllFine
    <2>5. w \in Verdicts /\ (w = "accepted" <=> Len(words) = n)
      BY DEF Require, Verdicts
    <2>6. Len(words) = n => a = words
      <3> SUFFICES ASSUME Len(words) = n PROVE a = words
        OBVIOUS
      <3> HIDE DEF a, n
      <3>1. DOMAIN a = DOMAIN words /\ \A k \in DOMAIN words : a[k] = words[k]
        BY <1>1, <2>3, LenProperties
      <3> QED
        BY <2>3, <3>1, SeqEqual
    <2> HIDE DEF w, p
    <2>7. FirstOf(p \o <<w>>) = "accepted" <=> Passed(p) /\ w = "accepted"
      BY <2>4, <2>5, AllOfThem
    <2>8. ValidateInput("inverterctl", c, words) = "accepted"
              <=> Passed(p) /\ Len(words) = n
      BY <2>1, <2>5, <2>7
    <2>9. Len(words) = n => p = Checks(c, words)
      BY <2>6 DEF p
    <2> QED
      BY <2>8, <2>9
  <1> QED
    BY <1>2, <1>3

\* The verdict of Take on the words that inverterctl is given.
Verdict(words) ==
    IF words[1].word \notin Commands THEN "refused"
    ELSE ValidateInput("inverterctl", words[1].word, Tail(words))

\* A command that inverterctl goes on with is the first word of its line, with the
\* arguments that the others make; and without options it goes on with it exactly
\* when they are accepted.
CommandOfLine ==
    Ctl =>
      /\ command \in Commands =>
            /\ line.words # <<>> /\ command = line.words[1].word
            /\ From(Tail(line.words), command, arguments)
      /\ line.options = <<>> =>
            /\ config.action = "command"
            /\ (stage \notin {"options", "words"} /\ line.words # <<>>) =>
                  command = IF Verdict(line.words) = "accepted"
                            THEN line.words[1].word ELSE None

LEMMA InitCommandOfLine == Init => CommandOfLine
  BY NoneIsNoCommand DEF Init, CommandOfLine, Defaults

\* When options are left, they are taken for the command.
LEMMA RestIsLine ==
    ASSUME Order
    PROVE  /\ at > Len(line.options) => Rest = line.words
           /\ ~ (at > Len(line.options)) =>
                 Rest # <<>> /\ Rest[1].word = "--option"
  <1> DEFINE n == Len(line.options) - at + 1
             o == [i \in 1 .. n |-> Word("--option")]
             w == line.words
  <1>1. w \in Seq(AllTexts) /\ line.options \in Seq(AllOptions)
    BY WordsAssumption DEF Order
  <1>2. Len(line.options) \in Nat /\ at \in 1 .. (Len(line.options) + 1)
    BY <1>1, LenProperties DEF Order
  <1>3. Rest = o \o w
    BY DEF Rest
  <1>4. CASE at > Len(line.options)
    <2>1. n = 0
      BY <1>2, <1>4
    <2>2. o = <<>>
      <3> HIDE DEF n
      <3>1. 1 .. n = {}
        BY <2>1
      <3> QED
        BY <3>1
    <2> HIDE DEF o, w
    <2>3. Rest = w
      BY <1>1, <1>3, <2>2, ConcatEmptySeq
    <2> QED
      BY <1>4, <2>3 DEF w
  <1>5. CASE ~ (at > Len(line.options))
    <2>1. n \in Nat /\ 1 <= n
      BY <1>2, <1>5
    <2>2. o \in Seq({Word("--option")}) /\ Len(o) = n /\ o[1] = Word("--option")
      <3> HIDE DEF n
      <3> QED
        BY <2>1
    <2> DEFINE T == AllTexts \union {Word("--option")}
    <2>3. o \in Seq(T) /\ w \in Seq(T)
      <3>1. w \in Seq(T)
        <4>1. \A i \in 1 .. Len(w) : w[i] \in T
          BY <1>1
        <4>2. w = [i \in 1 .. Len(w) |-> w[i]] /\ Len(w) \in Nat
          BY <1>1
        <4> HIDE DEF w, T
        <4> QED
          BY <4>1, <4>2
      <3>2. o \in Seq(T)
        <4>1. Word("--option") \in T
          OBVIOUS
        <4> HIDE DEF n, T
        <4> QED
          BY <2>1, <4>1
      <3> QED
        BY <3>1, <3>2
    <2> HIDE DEF o, w, T, n
    <2>4. /\ Len(o \o w) = Len(o) + Len(w)
          /\ \A i \in 1 .. Len(o) + Len(w) :
                (o \o w)[i] = IF i <= Len(o) THEN o[i] ELSE w[i - Len(o)]
          /\ o \o w \in Seq(T)
      BY <2>3, ConcatProperties
    <2>5. Len(w) \in Nat
      BY <2>3, LenProperties
    <2>6. 1 \in 1 .. Len(o) + Len(w) /\ 1 <= Len(o)
      BY <2>1, <2>2, <2>5
    <2>7. Rest[1] = Word("--option")
      BY <1>3, <2>2, <2>4, <2>6
    <2>8. Rest # <<>>
      <3>1. Len(Rest) # 0 /\ Rest \in Seq(T)
        BY <1>3, <2>1, <2>2, <2>4, <2>5
      <3> QED
        BY <3>1, EmptySeq
    <2> QED
      BY <1>5, <2>7, <2>8, WordType
  <1> QED
    BY <1>4, <1>5

\* All of what is left is taken.
LEMMA AllTaken ==
    ASSUME NEW words \in Seq(Text)
    PROVE  SubSeq(words, 1, Len(words)) = words
  <1> DEFINE n == Len(words)
             a == SubSeq(words, 1, n)
  <1>1. n \in Nat /\ DOMAIN words = 1 .. n
    BY LenProperties
  <1>2. a \in Seq(Text) /\ Len(a) = n /\ \A k \in 1 .. n : a[k] = words[k]
    BY <1>1, SubSeqProperties
  <1> HIDE DEF a
  <1>3. DOMAIN a = DOMAIN words /\ \A k \in DOMAIN words : a[k] = words[k]
    BY <1>1, <1>2, LenProperties
  <1>4. a = words
    BY <1>2, <1>3, SeqEqual
  <1> QED
    BY <1>4 DEF a

LEMMA TakeOfLine ==
    ASSUME IInv, Ctl, Rest # <<>>, Take(Rest), UNCHANGED <<line, at, config>>,
           line.options = <<>> => config.action = "command"
    PROVE  CommandOfLine'
  <1> DEFINE w == line.words
             c == w[1].word
  <1>1. Order
    BY DEF IInv
  <1>2. CASE ~ (at > Len(line.options))
    <2>1. Rest[1].word = "--option"
      BY <1>1, <1>2, RestIsLine
    <2>2. "--option" \notin Commands
      BY DEF Commands, GetCommands, SetCommands
    <2>3. command' = None
      BY <2>1, <2>2 DEF Take
    <2>4. line.options # <<>>
      <3>1. at \in 1 .. Len(line.options) + 1
        BY <1>1 DEF Order
      <3> QED
        BY <1>2, <3>1
    <2> QED
      BY <2>3, <2>4, NoneIsNoCommand DEF CommandOfLine
  <1>3. CASE at > Len(line.options)
    <2>1. Rest = w
      BY <1>1, <1>3, RestIsLine
    <2>2. w \in Seq(Text) /\ w # <<>>
      BY <1>1, <2>1, RestIsWords
    <2>3. Tail(w) \in Seq(Text)
      BY <2>2, TailOfWords
    <2>4. command' = IF Verdict(w) = "accepted" THEN c ELSE None
      BY <2>1 DEF Take, Verdict, Ctl
    <2>5. Verdict(w) = "accepted" =>
            /\ c \in Commands
            /\ arguments' = Rewritten(c, SubSeq(Tail(w), 1, ArgumentCount(c)))
            /\ ValidateInput("inverterctl", c, Tail(w)) = "accepted"
      BY <2>1 DEF Take, Verdict, Ctl
    <2> HIDE DEF w, c
    <2>6. Verdict(w) = "accepted" => From(Tail(w), c, arguments')
      <3> SUFFICES ASSUME Verdict(w) = "accepted"
                   PROVE  From(Tail(w), c, arguments')
        OBVIOUS
      <3>1. Len(Tail(w)) = ArgumentCount(c) /\ Passed(Checks(c, Tail(w)))
        BY <2>3, <2>5, WholeLine
      <3>2. SubSeq(Tail(w), 1, ArgumentCount(c)) = Tail(w)
        BY <2>3, <3>1, AllTaken
      <3> QED
        BY <2>5, <3>1, <3>2 DEF From
    <2> QED
      BY <2>2, <2>4, <2>5, <2>6, NoneIsNoCommand DEF CommandOfLine, w, c
  <1> QED
    BY <1>2, <1>3

\* What is kept as long as no words are taken.
LEMMA LineIsKept ==
    ASSUME CommandOfLine, UNCHANGED <<line, config, command, arguments>>,
           stage \in {"options", "words"} <=> stage' \in {"options", "words"}
    PROVE  CommandOfLine'
  BY DEF CommandOfLine, Ctl

\* Every step keeps it: only TakeWords makes a command, and it looks at the words alone.
LEMMA NextKeepsCommand ==
    IInv /\ CommandOfLine /\ [Next]_vars => CommandOfLine'
  <1> SUFFICES ASSUME IInv, CommandOfLine, [Next]_vars PROVE CommandOfLine'
    OBVIOUS
  <1>1. Order
    BY DEF IInv
  <1>2. CASE ~ Ctl /\ UNCHANGED line
    BY <1>2 DEF CommandOfLine, Ctl
  <1>3. CASE UNCHANGED vars \/ Ended
    BY <1>3, LineIsKept DEF Ended, vars
  <1>4. CASE TakeOption
    <2>1. UNCHANGED <<line, command, arguments>> /\ at <= Len(line.options)
      BY <1>4 DEF TakeOption, request
    <2>2. line.options # <<>>
      <3>1. at \in 1 .. Len(line.options) + 1
        BY <1>1 DEF Order
      <3> QED
        BY <2>1, <3>1
    <2> QED
      BY <2>1, <2>2 DEF CommandOfLine, Ctl
  <1>5. CASE TakeWords
    <2>1. UNCHANGED <<line, at, config>>
      BY <1>5 DEF TakeWords
    <2>2. CASE Ctl /\ Rest # <<>> /\ Take(Rest)
      BY <2>1, <2>2, TakeOfLine DEF CommandOfLine
    <2>3. CASE ~ (Ctl /\ Rest # <<>> /\ Take(Rest))
      <3>1. UNCHANGED <<command, arguments>>
        BY <1>5, <2>3 DEF TakeWords, request
      <3>2. Ctl /\ line.options = <<>> => config.action = "command"
        BY DEF CommandOfLine
      <3>3. Ctl /\ line.options = <<>> => line.words = <<>>
        <4> SUFFICES ASSUME Ctl, line.options = <<>> PROVE line.words = <<>>
          OBVIOUS
        <4>1. at > Len(line.options)
          <5>1. at \in 1 .. Len(line.options) + 1
            BY <1>1 DEF Order
          <5> QED
            BY <5>1
        <4>2. Rest = line.words
          BY <1>1, <4>1, RestIsLine
        <4>3. Rest = <<>>
          BY <1>5, <2>3, <3>2 DEF TakeWords
        <4> QED
          BY <4>2, <4>3
      <3> QED
        BY <2>1, <3>1, <3>3 DEF CommandOfLine, Ctl
    <2> QED
      BY <2>2, <2>3
  <1>6. CASE OpenDevice
    <2>1. UNCHANGED <<line, config, command, arguments>>
          /\ stage = "open" /\ stage' \in {"execute", "start", "exit"}
      BY <1>6 DEF OpenDevice, request, Return
    <2> QED
      BY <2>1, LineIsKept
  <1>7. CASE Start
    <2>1. UNCHANGED line /\ stage = "start"
      BY <1>7 DEF Start
    <2> QED
      BY <1>1, <1>2, <2>1 DEF Order
  <1>8. ASSUME NEW words, Execute(words) PROVE CommandOfLine'
    <2>1. UNCHANGED line /\ stage = "serve"
      BY <1>8 DEF Execute
    <2> QED
      BY <1>1, <1>2, <2>1 DEF Order
  <1>9. CASE ShutDown
    <2>1. UNCHANGED line /\ stage = "serve"
      BY <1>9 DEF ShutDown
    <2> QED
      BY <1>1, <1>2, <2>1 DEF Order
  <1>10. ASSUME NEW e, EndsWith(e) PROVE stage' \in {"exit", "serve"}
    BY <1>10 DEF EndsWith, Return, Abort
  <1>11. CASE Send
    <2>1. UNCHANGED <<line, config, command, arguments>>
          /\ stage = "execute"
          /\ (stage' = "answer" \/ EndsWith("out of range"))
      BY <1>11 DEF Send
    <2> QED
      BY <1>10, <2>1, LineIsKept
  <1>12. CASE DeviceFails \/ AnswerRaw \/ Read
    <2>1. UNCHANGED <<line, config, command, arguments>>
          /\ stage \in {"answer", "read"} /\ (\E e : EndsWith(e))
      BY <1>12 DEF DeviceFails, AnswerRaw, Read, request
    <2> QED
      BY <1>10, <2>1, LineIsKept
  <1>13. CASE Answer
    <2>1. UNCHANGED <<line, config, command, arguments>>
          /\ stage = "answer" /\ stage' = "read"
      BY <1>13 DEF Answer
    <2> QED
      BY <2>1, LineIsKept
  <1> QED
    BY <1>3, <1>4, <1>5, <1>6, <1>7, <1>8, <1>9, <1>11, <1>12, <1>13 DEF Next

LEMMA WordsOfLine ==
    ASSUME IInv, line.words # <<>>
    PROVE  Tail(line.words) \in Seq(Text)
  <1>1. line.words \in Seq(AllTexts)
    BY WordsAssumption DEF IInv, Order
  <1>2. \A i \in 1 .. Len(line.words) : line.words[i] \in Text
    BY <1>1 DEF Text
  <1>3. line.words = [i \in 1 .. Len(line.words) |-> line.words[i]]
          /\ Len(line.words) \in Nat
    BY <1>1
  <1>4. line.words \in Seq(Text)
    BY <1>2, <1>3
  <1> QED
    BY <1>4, TailOfWords

----------------------------------------------------------------------------
(* The checks of validate_input and the usage text *)

\* Checks in a row are passed when each of them is.
LEMMA PassedOne == \A u : Passed(<<u>>) <=> u = "accepted"
  BY DEF Passed
LEMMA PassedTwo ==
    \A u, v : Passed(<<u, v>>) <=> u = "accepted" /\ v = "accepted"
  BY DEF Passed
LEMMA PassedFour ==
    \A u, v, w, x : Passed(<<u, v, w, x>>) <=>
        u = "accepted" /\ v = "accepted" /\ w = "accepted" /\ x = "accepted"
  BY DEF Passed

\* From 2000 to 2099 every fourth year is a leap year.
LEMMA LeapYears ==
    ASSUME NEW y \in 2000 .. 2099
    PROVE  Leap(y) <=> y % 4 = 0
  <1>1. y % 100 = 0 => y = 2000
    OBVIOUS
  <1> QED
    BY <1>1 DEF Leap

Century == 2000 .. 2099
Months == 1 .. 12
LetThrough(y, m, d) == d \in 1 .. 31 /\ ValidDate(y, m, d)
InMonth(y, m, d) == d \in 1 .. DaysOf(y, m)

\* The table of days and the leap years of the century.
LEMMA DaysOfMonths ==
    ASSUME NEW y \in Century, NEW m \in Months, NEW d \in Nat
    PROVE  LetThrough(y, m, d) <=> InMonth(y, m, d)
  <1> USE DEF Century, Months, LetThrough, InMonth
  <1>1. CASE m = 2
    <2>1. DaysOf(y, m) = IF y % 4 = 0 THEN 29 ELSE 28
      BY <1>1, LeapYears DEF DaysOf
    <2> QED
      BY <1>1, <2>1 DEF ValidDate
  <1>2. CASE m \in {4, 6, 9, 11}
    <2>1. DaysOf(y, m) = 30
      BY <1>2 DEF DaysOf
    <2> QED
      BY <1>2, <2>1 DEF ValidDate
  <1>3. CASE m \notin {2, 4, 6, 9, 11}
    <2>1. DaysOf(y, m) = 31
      BY <1>3 DEF DaysOf
    <2> QED
      BY <1>3, <2>1 DEF ValidDate
  <1> QED
    BY <1>1, <1>2, <1>3

\* The dates that are let through are those of the calendar in this century.
LEMMA DatesOfCalendar ==
    ASSUME NEW b, Len(b) \in 1 .. 3,
           \A i \in 1 .. Len(b) : b[i].value \in Nat
    PROVE  DateArgs(b) <=> Calendar(b) /\ b[1].value \in Century
  <1>1. Len(b) > 1 =>
           (TwoDigits(b[2], 1 .. 12) <=> Short(b[2]) /\ b[2].value \in 1 .. 12)
    BY DEF TwoDigits, Short
  <1>2. Len(b) > 2 =>
           (TwoDigits(b[3], 1 .. 31) <=> Short(b[3]) /\ b[3].value \in 1 .. 31)
    BY DEF TwoDigits, Short
  <1>3. ASSUME Len(b) > 2, b[1].value \in 2000 .. 2099, b[2].value \in 1 .. 12
        PROVE  /\ b[3].value \in 1 .. 31
               /\ ValidDate(b[1].value, b[2].value, b[3].value)
               <=> b[3].value \in 1 .. DaysOf(b[1].value, b[2].value)
    <2> DEFINE y == b[1].value
               m == b[2].value
               d == b[3].value
    <2>1. y \in Century /\ m \in Months /\ d \in Nat
      BY <1>3 DEF Century, Months
    <2> HIDE DEF y, m, d
    <2>2. LetThrough(y, m, d) <=> InMonth(y, m, d)
      BY <2>1, DaysOfMonths
    <2> QED
      BY <2>2 DEF y, m, d, LetThrough, InMonth
  <1>4. Len(b) > 2 => Len(b) > 1
    OBVIOUS
  <1> QED
    BY <1>1, <1>2, <1>3, <1>4 DEF DateArgs, Calendar, Century

\* The arguments are texts.
LEMMA ArgumentsAre ==
    ASSUME NEW a \in Seq(Text)
    PROVE  /\ Len(a) \in Nat /\ DOMAIN a = 1 .. Len(a)
           /\ Range(a) = {a[i] : i \in 1 .. Len(a)}
           /\ \A i \in 1 .. Len(a) : IsText(a[i]) /\ IsPart(a[i])
  <1>1. Len(a) \in Nat /\ DOMAIN a = 1 .. Len(a)
    BY LenProperties
  <1>2. \A i \in 1 .. Len(a) : a[i] \in Text
    OBVIOUS
  <1> QED
    BY <1>1, <1>2, TextType DEF Range, IsText

\* What is documented and refused: a year, or the upper end of a range.
LEMMA RefusedIs ==
    ASSUME NEW c \in WithUsage, NEW a
    PROVE  /\ c \in Dated => (Refused(c, a) <=> a[1].value \notin Century)
           /\ c = "SetBatteryMaxChargeVoltage" =>
                (Refused(c, a) <=> \E t \in Range(a) : t.volts = 5840)
           /\ c \notin Dated \union {"SetBatteryMaxChargeVoltage"} => ~ Refused(c, a)
  BY DEF Refused, Dated, GetsOfDate, Century

\* validate_date_args lets through the dates of the calendar, of one, two or three
\* parts.
LEMMA DatesAsDocumented ==
    ASSUME NEW c \in {"GetYearGenerated", "GetMonthGenerated", "GetDayGenerated"},
           NEW a \in Seq(Text), Len(a) = ArgumentCount(c)
    PROVE  Passed(Checks(c, a)) <=> Tolerated(c, a) /\ a[1].value \in Century
  <1>1. Len(a) \in 1 .. 3
    BY SMT DEF ArgumentCount
  <1>2. Checks(c, a) = <<Require(DateArgs(a))>>
    BY SMT DEF Checks
  <1>3. Tolerated(c, a) <=> Calendar(a)
    BY SMT DEF Tolerated, GetsOfDate, Buckets
  <1>4. DateArgs(a) <=> Calendar(a) /\ a[1].value \in Century
    BY <1>1, ArgumentsAre, DatesOfCalendar DEF IsPart
  <1>5. Passed(Checks(c, a)) <=> Require(DateArgs(a)) = "accepted"
    BY <1>2, PassedOne
  <1> QED
    BY <1>3, <1>4, <1>5 DEF Require

LEMMA DateTimeAsDocumented ==
    ASSUME NEW a \in Seq(Text), Len(a) = 6
    PROVE  Passed(Checks("SetDateTime", a))
              <=> Tolerated("SetDateTime", a) /\ a[1].value \in Century
  <1> DEFINE date == SubSeq(a, 1, 3)
             time == SubSeq(a, 4, 6)
  <1>1. Checks("SetDateTime", a) = <<Require(DateArgs(date)), Require(TimeArgs(time))>>
    BY SMT DEF Checks
  <1>2. /\ Len(date) = 3 /\ date[1] = a[1] /\ date[2] = a[2] /\ date[3] = a[3]
        /\ time[1] = a[4] /\ time[2] = a[5] /\ time[3] = a[6]
    OBVIOUS
  <1>3. Tolerated("SetDateTime", a) <=>
           /\ Calendar(date)
           /\ \A i \in 4 .. 6 : Short(a[i])
           /\ OnTheClock(a[4], a[5]) /\ OnTheClock(a[4], a[6])
    BY SMT DEF Tolerated, GetsOfDate, Buckets
  <1> HIDE DEF date, time
  <1>4. \A i \in 1 .. 6 : a[i].value \in Nat
    BY ArgumentsAre DEF IsPart
  <1>5. DateArgs(date) <=> Calendar(date) /\ a[1].value \in Century
    <2>1. \A i \in 1 .. Len(date) : date[i].value \in Nat
      <3>1. \A i \in 1 .. 3 : date[i] = a[i]
        BY <1>2
      <3> QED
        BY <1>2, <1>4, <3>1
    <2> QED
      BY <1>2, <2>1, DatesOfCalendar
  <1>6. TimeArgs(time) <=>
           /\ \A i \in 4 .. 6 : Short(a[i])
           /\ OnTheClock(a[4], a[5]) /\ OnTheClock(a[4], a[6])
    <2>1. a[4].value \in Nat /\ a[5].value \in Nat /\ a[6].value \in Nat
      BY <1>4
    <2>2. TimeArgs(time) <=> /\ TwoDigits(a[4], 0 .. 23)
                             /\ TwoDigits(a[5], 0 .. 59)
                             /\ TwoDigits(a[6], 0 .. 59)
      BY <1>2 DEF TimeArgs
    <2>3. (\A i \in 4 .. 6 : Short(a[i])) <=> Short(a[4]) /\ Short(a[5]) /\ Short(a[6])
      BY SMT
    <2>4. /\ TwoDigits(a[4], 0 .. 23) <=> Short(a[4]) /\ a[4].value < 24
          /\ TwoDigits(a[5], 0 .. 59) <=> Short(a[5]) /\ a[5].value < 60
          /\ TwoDigits(a[6], 0 .. 59) <=> Short(a[6]) /\ a[6].value < 60
      <3>1. \A n \in Nat : /\ n \in 0 .. 23 <=> n < 24
                           /\ n \in 0 .. 59 <=> n < 60
        OBVIOUS
      <3>2. /\ a[4].value \in 0 .. 23 <=> a[4].value < 24
            /\ a[5].value \in 0 .. 59 <=> a[5].value < 60
            /\ a[6].value \in 0 .. 59 <=> a[6].value < 60
        BY <2>1, <3>1, Zenon
      <3> QED
        BY <3>2, Zenon DEF TwoDigits, Short
    <2>5. \A t : Short(t) => t.digits
      BY DEF Short
    <2>6. /\ OnTheClock(a[4], a[5]) <=> /\ a[4].digits /\ a[5].digits
                                       /\ a[4].value < 24 /\ a[5].value < 60
          /\ OnTheClock(a[4], a[6]) <=> /\ a[4].digits /\ a[6].digits
                                       /\ a[4].value < 24 /\ a[6].value < 60
      BY DEF OnTheClock
    <2> QED
      BY <2>2, <2>3, <2>4, <2>5, <2>6, Zenon
  <1>7. Passed(Checks("SetDateTime", a)) <=>
           /\ Require(DateArgs(date)) = "accepted"
           /\ Require(TimeArgs(time)) = "accepted"
    BY <1>1, PassedTwo
  <1> QED
    BY <1>3, <1>5, <1>6, <1>7 DEF Require

\* Settings of 0 or 1, and flags.
LEMMA SwitchesAsDocumented ==
    ASSUME NEW c \in {"SetACSupply", "SetFlag"},
           NEW a \in Seq(Text), Len(a) = ArgumentCount(c)
    PROVE  Passed(Checks(c, a)) <=> Tolerated(c, a)
  <1>1. CASE c = "SetACSupply"
    <2>1. Checks(c, a) = <<ZeroOrOne(a[1])>>
      BY <1>1, SMT DEF Checks
    <2>2. Tolerated(c, a) <=> a[1] \in {Numeral(0), Numeral(1)}
      BY <1>1, SMT DEF Tolerated, GetsOfDate, Buckets
    <2>3. Passed(Checks(c, a)) <=> ZeroOrOne(a[1]) = "accepted"
      BY <2>1, PassedOne
    <2> QED
      BY <2>2, <2>3 DEF ZeroOrOne, Require
  <1>2. CASE c = "SetFlag"
    <2>1. Checks(c, a) = <<Require(a[1].word \in Range(Flags)), ZeroOrOne(a[2])>>
      BY <1>2, SMT DEF Checks
    <2>2. Tolerated(c, a) <=>
             /\ a[1].word \in DOMAIN UsageOfFlags \union {"MTYP"}
             /\ a[2] \in {Numeral(0), Numeral(1)}
      BY <1>2, SMT DEF Tolerated, GetsOfDate, Buckets
    <2>3. Range(Flags) = DOMAIN UsageOfFlags \union {"MTYP"}
      <3>1. Range(Flags) = {"BUZZ", "OLBP", "LCDE", "OLRS", "OTRS",
                            "BLON", "ALRM", "FTCR", "MTYP"}
        BY SMT DEF Range, Flags
      <3>2. DOMAIN UsageOfFlags = {"BUZZ", "OLBP", "LCDE", "OLRS", "OTRS",
                                   "BLON", "FTCR", "ALRM"}
        BY DEF UsageOfFlags
      <3> QED
        BY <3>1, <3>2
    <2> DEFINE known == Require(a[1].word \in Range(Flags))
    <2>4. known = "accepted" <=> a[1].word \in Range(Flags)
      BY DEF Require
    <2>5. Checks(c, a) = <<known, ZeroOrOne(a[2])>>
      BY <2>1
    <2> HIDE DEF known
    <2>6. Passed(Checks(c, a)) <=> known = "accepted" /\ ZeroOrOne(a[2]) = "accepted"
      BY <2>5, PassedTwo
    <2>7. ZeroOrOne(a[2]) = "accepted" <=> a[2] \in {Numeral(0), Numeral(1)}
      BY DEF ZeroOrOne, Require
    <2> QED
      BY <2>2, <2>3, <2>4, <2>6, <2>7
  <1> QED
    BY <1>1, <1>2

\* A voltage that is a number is let through in the range of the usage text, but
\* for 58.4 V, and "nan" is.
LEMMA RealIsFound ==
    ASSUME NEW t, IsText(t)
    PROVE  Found(t.real) = "accepted" <=> t.real = "number"
  <1>1. t.real \in Finds
    BY DEF IsText, IsPart
  <1> QED
    BY <1>1 DEF Found, Finds

ChargeRange == 4800 .. 5840 \union {NaN}
CutOffRange == 4000 .. 4800 \union {NaN}

LEMMA VoltageInRange ==
    ASSUME NEW t, IsText(t)
    PROVE  /\ ~ OutOfRange(t, 4800, 5839) <=> t.volts \in ChargeRange /\ t.volts # 5840
           /\ ~ OutOfRange(t, 4000, 4800) <=> t.volts \in CutOffRange
  <1>1. PICK v \in Int : t.volts = v
    BY DEF IsText, IsPart
  <1>2. ~ OutOfRange(t, 4800, 5839) <=> v = NaN \/ ~ (v < 4800 \/ v > 5839)
    BY <1>1 DEF OutOfRange
  <1>3. ~ OutOfRange(t, 4000, 4800) <=> v = NaN \/ ~ (v < 4000 \/ v > 4800)
    BY <1>1 DEF OutOfRange
  <1>4. /\ v \in ChargeRange /\ v # 5840 <=> v = NaN \/ ~ (v < 4800 \/ v > 5839)
        /\ v \in CutOffRange <=> v = NaN \/ ~ (v < 4000 \/ v > 4800)
    BY DEF ChargeRange, CutOffRange, NaN
  <1> QED
    BY <1>1, <1>2, <1>3, <1>4

\* A frequency, and voltages between their limits.
LEMMA VoltagesAsDocumented ==
    ASSUME NEW c \in {"SetACOutputFreq", "SetBatteryMaxChargeVoltage",
                      "SetBatteryCutOffVoltage"},
           NEW a \in Seq(Text), Len(a) = ArgumentCount(c)
    PROVE  Passed(Checks(c, a)) <=>
              /\ Tolerated(c, a)
              /\ c = "SetBatteryMaxChargeVoltage" =>
                    \A t \in Range(a) : t.volts # 5840
  <1>1. CASE c = "SetACOutputFreq"
    <2>1. Checks(c, a) = <<Require(a[1] \in {Numeral(50), Numeral(60)})>>
      BY <1>1, SMT DEF Checks
    <2>2. Tolerated(c, a) <=> a[1] \in {Numeral(50), Numeral(60)}
      BY <1>1, SMT DEF Tolerated, GetsOfDate, Buckets
    <2> QED
      BY <1>1, <2>1, <2>2, PassedOne DEF Require
  <1>2. \A i \in 1 .. Len(a) : IsText(a[i])
    BY ArgumentsAre
  <1>3. CASE c = "SetBatteryMaxChargeVoltage"
    <2>1. Checks(c, a) = <<Found(a[1].real), Found(a[2].real),
                           ChargeVoltage(a[1]), ChargeVoltage(a[2])>>
      BY <1>3, SMT DEF Checks
    <2>2. Tolerated(c, a) <=>
             \A t \in Range(a) : t.real = "number" /\ t.volts \in ChargeRange
      BY <1>3, SMT DEF Tolerated, GetsOfDate, Buckets, ChargeRange
    <2>3. Len(a) = 2
      BY <1>3, SMT DEF ArgumentCount
    <2>4. Range(a) = {a[1], a[2]}
      BY <2>3, ArgumentsAre
    <2>5. ASSUME NEW i \in 1 .. 2
          PROVE  /\ Found(a[i].real) = "accepted" <=> a[i].real = "number"
                 /\ ChargeVoltage(a[i]) = "accepted" <=>
                       a[i].volts \in ChargeRange /\ a[i].volts # 5840
      <3> DEFINE t == a[i]
                 inside == ~ OutOfRange(t, 4800, 5839)
      <3>1. IsText(t)
        BY <1>2, <2>3
      <3> HIDE DEF t
      <3>2. Found(t.real) = "accepted" <=> t.real = "number"
        BY <3>1, RealIsFound
      <3>3. inside <=> t.volts \in ChargeRange /\ t.volts # 5840
        BY <3>1, VoltageInRange
      <3>4. ChargeVoltage(t) = "accepted" <=> inside
        BY DEF ChargeVoltage, Require
      <3> QED
        BY <3>2, <3>3, <3>4 DEF t
    <2>6. 1 \in 1 .. 2 /\ 2 \in 1 .. 2
      OBVIOUS
    <2>7. Passed(Checks(c, a)) <=>
             /\ Found(a[1].real) = "accepted" /\ Found(a[2].real) = "accepted"
             /\ ChargeVoltage(a[1]) = "accepted" /\ ChargeVoltage(a[2]) = "accepted"
      BY <2>1, PassedFour
    <2>8. Tolerated(c, a) <=>
             /\ a[1].real = "number" /\ a[1].volts \in ChargeRange
             /\ a[2].real = "number" /\ a[2].volts \in ChargeRange
      BY <2>2, <2>4
    <2>9. (\A t \in Range(a) : t.volts # 5840)
             <=> a[1].volts # 5840 /\ a[2].volts # 5840
      BY <2>4
    <2> QED
      BY <1>3, <2>5, <2>6, <2>7, <2>8, <2>9
  <1>4. CASE c = "SetBatteryCutOffVoltage"
    <2> DEFINE t == a[1]
               inside == ~ OutOfRange(t, 4000, 4800)
               w == Require(inside)
               inRange == t.volts \in CutOffRange
    <2>1. Checks(c, a) = <<Found(t.real), w>>
      BY <1>4, SMT DEF Checks
    <2>2. Tolerated(c, a) <=> t.real = "number" /\ inRange
      BY <1>4, SMT DEF Tolerated, GetsOfDate, Buckets, CutOffRange
    <2>3. Len(a) = 1
      BY <1>4, SMT DEF ArgumentCount
    <2>4. IsText(t)
      BY <1>2, <2>3
    <2>5. w = "accepted" <=> inside
      BY DEF Require
    <2> HIDE DEF w, t
    <2>6. Passed(Checks(c, a)) <=> Found(t.real) = "accepted" /\ w = "accepted"
      BY <2>1, PassedTwo
    <2>7. Found(t.real) = "accepted" <=> t.real = "number"
      BY <2>4, RealIsFound
    <2>8. inside <=> inRange
      BY <2>4, VoltageInRange
    <2> HIDE DEF inside, inRange
    <2>9. c # "SetBatteryMaxChargeVoltage"
      BY <1>4
    <2> QED
      BY <2>2, <2>5, <2>6, <2>7, <2>8, <2>9, Zenon
  <1> QED
    BY <1>1, <1>3, <1>4

OnTime(h, m) == h.value % 65536 <= 23 /\ m.value % 65536 <= 59

\* An end of a time bucket whose parts are digits is let through when it is on
\* the clock.
LEMMA TimesOfClock ==
    ASSUME NEW t, IsText(t), t.clock # <<>>, \A i \in 1 .. 2 : Plain(t.clock[i])
    PROVE  BucketTime(t) = "accepted" <=> OnTheClock(t.clock[1], t.clock[2])
  <1> DEFINE h == t.clock[1]
             m == t.clock[2]
             v == Require(/\ t.clock[1].value % 65536 <= 23
                          /\ t.clock[2].value % 65536 <= 59)
             checks == <<Found(h.whole), Found(m.whole), v>>
  <1>1. BucketTime(t) = FirstOf(checks)
    <2>1. BucketTime(t) = FirstOf(<<Found(t.clock[1].whole),
                                    Found(t.clock[2].whole), v>>)
      BY DEF BucketTime
    <2> QED
      BY <2>1
  <1>2. /\ h.digits /\ h.whole = "number" /\ h.value \in Nat /\ h.value < 65536
        /\ m.digits /\ m.whole = "number" /\ m.value \in Nat /\ m.value < 65536
    <2>1. \A i \in 1 .. 2 : Plain(t.clock[i]) /\ IsPart(t.clock[i])
      BY DEF IsText
    <2>2. 1 \in 1 .. 2 /\ 2 \in 1 .. 2
      OBVIOUS
    <2>3. Plain(h) /\ IsPart(h) /\ Plain(m) /\ IsPart(m)
      BY <2>1, <2>2
    <2> HIDE DEF h, m
    <2> QED
      BY <2>3, SMT DEF Plain, IsPart
  <1>3. v = "accepted" <=> OnTheClock(h, m)
    <2>0. v = "accepted" <=> OnTime(t.clock[1], t.clock[2])
      BY DEF Require, OnTime
    <2> HIDE DEF v
    <2>3. v = "accepted" <=> OnTime(h, m)
      BY <2>0
    <2> HIDE DEF h, m
    <2>1. h.value % 65536 = h.value /\ m.value % 65536 = m.value
      BY <1>2, SMT
    <2>2. OnTime(h, m) <=> OnTheClock(h, m)
      <3>1. OnTheClock(h, m) <=> h.value < 24 /\ m.value < 60
        BY <1>2 DEF OnTheClock
      <3>2. PICK x \in Nat, y \in Nat : x = h.value /\ y = m.value
        BY <1>2
      <3> QED
        BY <2>1, <3>1, <3>2, SMT DEF OnTime
    <2> QED
      BY <2>2, <2>3, Zenon
  <1>4. Found(h.whole) = "accepted" /\ Found(m.whole) = "accepted"
    BY <1>2 DEF Found
  <1> HIDE DEF v, h, m
  <1>5. checks \in Seq({Found(h.whole), Found(m.whole), v})
    OBVIOUS
  <1>6. /\ FirstOf(checks) = "accepted" => \A i \in DOMAIN checks : checks[i] = "accepted"
        /\ FirstOf(checks) # "accepted" => \E i \in DOMAIN checks : checks[i] = FirstOf(checks)
    BY <1>5, FirstOfMeans
  <1>7. (\A i \in DOMAIN checks : checks[i] = "accepted") <=> v = "accepted"
    BY <1>4
  <1>8. FirstOf(checks) = "accepted" <=> v = "accepted"
    <2> HIDE DEF checks
    <2> QED
      BY <1>6, <1>7
  <1> QED
    BY <1>1, <1>3, <1>8 DEF h, m

PlainParts(t) == \A i \in 1 .. 2 : Plain(t.clock[i])

\* Plain parts of a time are taken when they are an hour and a minute; others are
\* tolerated.
LEMMA TimesAsDocumented ==
    ASSUME NEW c \in Buckets, NEW a \in Seq(Text), Len(a) = ArgumentCount(c)
    PROVE  /\ Passed(Checks(c, a)) => Tolerated(c, a)
           /\ Documented(c, a) => Passed(Checks(c, a))
  <1>1. Len(a) = 2
    BY SMT DEF ArgumentCount, Buckets
  <1>2. Checks(c, a) = IF a[1].clock = <<>> \/ a[2].clock = <<>>
                       THEN <<"refused">>
                       ELSE <<BucketTime(a[1]), BucketTime(a[2])>>
    BY SMT DEF Checks, Buckets
  <1>3. Tolerated(c, a) <=>
           \A t \in Range(a) :
              /\ t.clock # <<>>
              /\ PlainParts(t) => OnTheClock(t.clock[1], t.clock[2])
    BY SMT DEF Tolerated, GetsOfDate, Buckets, PlainParts
  <1>4. Range(a) = {a[1], a[2]} /\ IsText(a[1]) /\ IsText(a[2])
    BY <1>1, ArgumentsAre
  <1>5. Documented(c, a) => PlainParts(a[1]) /\ PlainParts(a[2])
    <2>1. AsWritten(c, a) => \A t \in Range(a) : PlainParts(t)
      BY DEF AsWritten, PlainParts
    <2> QED
      BY <1>4, <2>1 DEF Documented
  <1>6. Tolerated(c, a) <=>
           /\ a[1].clock # <<>>
           /\ PlainParts(a[1]) => OnTheClock(a[1].clock[1], a[1].clock[2])
           /\ a[2].clock # <<>>
           /\ PlainParts(a[2]) => OnTheClock(a[2].clock[1], a[2].clock[2])
    BY <1>3, <1>4
  <1>7. CASE a[1].clock = <<>> \/ a[2].clock = <<>>
    <2>1. ~ Passed(Checks(c, a))
      <3>1. Checks(c, a) = <<"refused">> /\ "refused" # "accepted"
        BY <1>2, <1>7
      <3> QED
        BY <3>1, PassedOne
    <2> QED
      BY <1>6, <1>7, <2>1 DEF Documented
  <1>8. CASE a[1].clock # <<>> /\ a[2].clock # <<>>
    <2>1. Passed(Checks(c, a)) <=> /\ BucketTime(a[1]) = "accepted"
                                   /\ BucketTime(a[2]) = "accepted"
      BY <1>2, <1>8, PassedTwo
    <2>2. ASSUME NEW t \in {a[1], a[2]}, PlainParts(t)
          PROVE  BucketTime(t) = "accepted" <=> OnTheClock(t.clock[1], t.clock[2])
      BY <1>4, <1>8, <2>2, TimesOfClock DEF PlainParts
    <2> QED
      BY <1>5, <1>6, <1>8, <2>1, <2>2 DEF Documented
  <1> QED
    BY <1>7, <1>8

\* Settings of one word of a table, which the usage text lists.
LEMMA WordsAsDocumented ==
    ASSUME NEW c \in Worded1, NEW a \in Seq(Text), Len(a) = ArgumentCount(c)
    PROVE  Passed(Checks(c, a)) <=> Tolerated(c, a)
  <1>1. Len(a) = 1
    BY SMT DEF ArgumentCount, Worded1
  <1>2. Checks(c, a) = <<OneOf(a[1], Wordings(c))>>
    BY SMT DEF Checks, Worded1
  <1>3. Tolerated(c, a) <=> a[1] \in {Word(w) : w \in DOMAIN Usage[c]}
    BY <1>1, SMT DEF Tolerated, GetsOfDate, Buckets, Worded1
  <1>4. Range(Wordings(c)) = {Word(w) : w \in DOMAIN Usage[c]}
    <2>1. CASE c = "SetOutputSourcePriority"
      <3>1. DOMAIN Usage[c] = {"SUB", "SBU"}
        BY <2>1, SMT DEF Usage
      <3>2. Range(Wordings(c)) = {Word("SUB"), Word("SBU")}
        BY <2>1 DEF Wordings, Range
      <3> QED
        BY <3>1, <3>2
    <2>2. CASE c = "SetSolarPowerPriority"
      <3>1. DOMAIN Usage[c] = {"BLU", "LBU"}
        BY <2>2, SMT DEF Usage
      <3>2. Range(Wordings(c)) = {Word("BLU"), Word("LBU")}
        BY <2>2 DEF Wordings, Range
      <3> QED
        BY <3>1, <3>2
    <2>3. CASE c = "SetACInputVoltageRange"
      <3>1. DOMAIN Usage[c] = {"APPLIANCE", "UPS"}
        BY <2>3, SMT DEF Usage
      <3>2. Range(Wordings(c)) = {Word("APPLIANCE"), Word("UPS")}
        BY <2>3 DEF Wordings, Range
      <3> QED
        BY <3>1, <3>2
    <2>4. CASE c = "SetBatteryType"
      <3>1. DOMAIN Usage[c] = {"AGM", "FLOODED", "USER"}
        BY <2>4, SMT DEF Usage
      <3>2. Range(Wordings(c)) = {Word("AGM"), Word("FLOODED"), Word("USER")}
        BY <2>4 DEF Wordings, Range
      <3> QED
        BY <3>1, <3>2
    <2> QED
      BY <2>1, <2>2, <2>3, <2>4 DEF Worded1
  <1>5. Passed(Checks(c, a)) <=> OneOf(a[1], Wordings(c)) = "accepted"
    BY <1>2, PassedOne
  <1> QED
    BY <1>3, <1>4, <1>5 DEF OneOf, Require

LEMMA WithUsageIs ==
    /\ WithUsage = {"GetYearGenerated", "GetMonthGenerated", "GetDayGenerated",
          "SetDateTime", "SetACSupply", "SetFlag", "SetBatteryMaxChargeVoltage",
          "SetACOutputFreq", "SetBatteryCutOffVoltage"} \union Buckets \union Worded1
    /\ WithUsage \subseteq Commands
  <1>1. DOMAIN Usage \ TakesId = Worded1
    BY DEF Usage, TakesId, Worded1
  <1>2. WithUsage = {"GetYearGenerated", "GetMonthGenerated", "GetDayGenerated",
          "SetDateTime", "SetACSupply", "SetFlag", "SetBatteryMaxChargeVoltage",
          "SetACOutputFreq", "SetBatteryCutOffVoltage"} \union Buckets \union Worded1
    BY <1>1 DEF WithUsage, Buckets
  <1> QED
    BY <1>2 DEF Buckets, Worded1, Commands, GetCommands, SetCommands

\* Any command with a usage text.
LEMMA ChecksAsDocumented ==
    ASSUME NEW c \in WithUsage, NEW a \in Seq(Text), Len(a) = ArgumentCount(c)
    PROVE  /\ Passed(Checks(c, a)) => Tolerated(c, a) /\ ~ Refused(c, a)
           /\ Documented(c, a) /\ ~ Refused(c, a) => Passed(Checks(c, a))
  <1>1. ArgumentCount("SetDateTime") = 6
    BY SMT DEF ArgumentCount
  <1>2. CASE c \in Dated
    <2>1. Passed(Checks(c, a)) <=> Tolerated(c, a) /\ a[1].value \in Century
      BY <1>1, <1>2, DatesAsDocumented, DateTimeAsDocumented DEF Dated, GetsOfDate
    <2> QED
      BY <1>2, <2>1, RefusedIs DEF Documented
  <1>3. CASE c \in Buckets
    <2>1. ~ Refused(c, a)
      BY <1>3, RefusedIs DEF Buckets, Dated, GetsOfDate
    <2> QED
      BY <1>3, <2>1, TimesAsDocumented
  <1>4. CASE c \in {"SetACOutputFreq", "SetBatteryMaxChargeVoltage",
                    "SetBatteryCutOffVoltage"}
    <2>1. Refused(c, a) <=> /\ c = "SetBatteryMaxChargeVoltage"
                            /\ \E t \in Range(a) : t.volts = 5840
      BY <1>4, RefusedIs DEF Dated, GetsOfDate
    <2> QED
      BY <1>4, <2>1, VoltagesAsDocumented DEF Documented
  <1>5. CASE c \in {"SetACSupply", "SetFlag"} \union Worded1
    <2>1. Passed(Checks(c, a)) <=> Tolerated(c, a)
      BY <1>5, SwitchesAsDocumented, WordsAsDocumented
    <2>2. ~ Refused(c, a)
      BY <1>5, RefusedIs DEF Worded1, Dated, GetsOfDate
    <2> QED
      BY <2>1, <2>2 DEF Documented
  <1> QED
    BY <1>2, <1>3, <1>4, <1>5, WithUsageIs DEF Dated, GetsOfDate

\* The command goes on exactly when its check passes.
LEMMA LineIsDocumented == IInv /\ CommandOfLine => AcceptsDocumented
  <1> DEFINE c == line.words[1].word
             a == Tail(line.words)
  <1> SUFFICES ASSUME IInv, CommandOfLine, Ctl, line.options = <<>>,
                      stage \notin {"options", "words"}, line.words # <<>>,
                      c \in WithUsage
               PROVE  /\ (/\ Len(a) = ArgumentCount(c) /\ Documented(c, a)
                          /\ ~ Refused(c, a)) => command = c
                      /\ command = c => /\ Len(a) = ArgumentCount(c)
                                         /\ Tolerated(c, a) /\ ~ Refused(c, a)
    BY DEF AcceptsDocumented
  <1>1. c \in Commands /\ c # None
    BY WithUsageIs, NoneIsNoCommand
  <1>2. command = c <=> Verdict(line.words) = "accepted"
    BY <1>1 DEF CommandOfLine
  <1>3. Verdict(line.words) = ValidateInput("inverterctl", c, a)
    BY <1>1 DEF Verdict
  <1>4. a \in Seq(Text)
    BY WordsOfLine
  <1> HIDE DEF a, c
  <1>5. Verdict(line.words) = "accepted"
           <=> Len(a) = ArgumentCount(c) /\ Passed(Checks(c, a))
    BY <1>3, <1>4, WholeLine
  <1> QED
    BY <1>2, <1>4, <1>5, ChecksAsDocumented

----------------------------------------------------------------------------
(* A setting that the inverter takes is shown *)

\* The rated information has a place for each number that is sent to it.
LEMMA SlotPlaces ==
    \A code \in DOMAIN Slots : \A slot \in Slots[code] :
        /\ slot[2] \in 1 .. 25
        /\ \A other \in Slots[code] : other[2] = slot[2] => other = slot
  BY SlotsAre

\* A frequency is sent in Hz and shown in tenths.
Tenfold(f) == IF f.code = "F" THEN 10 ELSE 1

\* It is the field that packArguments has it in.
LEMMA RatedNumber ==
    ASSUME InverterOK(inverter), NEW f, f.code \in DOMAIN Slots,
           NEW slot \in Slots[f.code]
    PROVE  Applied(f).GetRatedInformation.items[slot[2]].value =
              Tenfold(f) * f.fields[slot[1]].value
  <1> DEFINE a == inverter["GetRatedInformation"]
             s == RatedApplied(a.items, f)
             x == Tenfold(f) * f.fields[slot[1]].value
             i == slot[2]
  <1>1. Applied(f) = [inverter EXCEPT !["GetRatedInformation"] =
                         [a EXCEPT !.items = s]]
    <2>1. f.code \notin {"P", "ACCT", "ACLT"}
      BY SlotsAre
    <2>2. Applied(f) = [inverter EXCEPT !.GetRatedInformation.items =
                           RatedApplied(@, f)]
      BY <2>1 DEF Applied, RatedApplied
    <2> QED
      BY <2>2
  <1>2. "GetRatedInformation" \in DOMAIN inverter /\ a \in Answers
          /\ Readable(RatedInformation, a)
    BY SettingsLayouts DEF InverterOK, Settings
  <1>3. i \in DOMAIN a.items
    <2>1. GetList(RatedInformation, a.items)
      BY <1>2, ListsOfSettings DEF Readable, Unpack
    <2>2. Len(a.items) >= 25
      BY <2>1, RatedInformationIs DEF GetList
    <2>3. DOMAIN a.items = 1 .. Len(a.items) /\ Len(a.items) \in Nat
      BY <1>2, LenProperties DEF Answers
    <2>4. i \in 1 .. 25
      BY SlotPlaces
    <2> HIDE DEF a, i
    <2> QED
      BY <2>2, <2>3, <2>4
  <1>4. Sent(f, i) = {x}
    <2>1. {other \in Slots[f.code] : other[2] = i} = {slot}
      BY SlotPlaces
    <2>2. Sent(f, i) = {Tenfold(f) * f.fields[other[1]].value :
                           other \in {other \in Slots[f.code] : other[2] = i}}
      BY DEF Sent, Tenfold
    <2> QED
      BY <2>1, <2>2
  <1>5. Applied(f).GetRatedInformation.items = s
    <2>1. "items" \in DOMAIN a
      BY <1>2 DEF Answers
    <2> HIDE DEF a, s
    <2> QED
      BY <1>1, <1>2, <2>1
  <1>6. s[i] = Item(a.items[i].size, CHOOSE value \in {x} : TRUE)
    <2> HIDE DEF a, i, x
    <2> QED
      BY <1>3, <1>4 DEF RatedApplied
  <1>7. s[i].value = x
    <2> HIDE DEF x, s
    <2>1. (CHOOSE value \in {x} : TRUE) = x
      OBVIOUS
    <2> QED
      BY <1>6, <2>1 DEF Item
  <1> HIDE DEF s, x
  <1> QED
    BY <1>5, <1>7 DEF x

\* The lines of the table that show a number.
LEMMA LinesAre ==
    ASSUME NEW items
    PROVE  /\ RatedShown("ac_output_rating_voltage", items) = 10 * items[3].value
           /\ RatedShown("ac_output_rating_freq", items) = 10 * items[4].value
           /\ RatedShown("battery_recharge_voltage", items) = 10 * items[9].value
           /\ RatedShown("battery_redischarge_voltage", items) = 10 * items[10].value
           /\ RatedShown("battery_under_voltage", items) = 10 * items[11].value
           /\ RatedShown("battery_bulk_voltage", items) = 10 * items[12].value
           /\ RatedShown("battery_float_voltage", items) = 10 * items[13].value
           /\ RatedShown("max_ac_charge_current", items) = 100 * items[15].value
           /\ RatedShown("max_charge_current", items) = 100 * items[16].value
  BY SMT DEF RatedShown, RatedLines

\* The place of a number in the answer that the table shows it from.
Lands(f, i, j) ==
    Applied(f).GetRatedInformation.items[j].value =
        Tenfold(f) * f.fields[i].value

LEMMA FieldsLand ==
    ASSUME InverterOK(inverter), NEW f
    PROVE  /\ f.code = "F" => Lands(f, 1, 4)
           /\ f.code = "V" => Lands(f, 1, 3)
           /\ f.code = "POP" => Lands(f, 1, 18)
           /\ f.code = "PCP" => Lands(f, 3, 19)
           /\ f.code = "PSP" => Lands(f, 1, 24)
           /\ f.code = "PGR" => Lands(f, 1, 17)
           /\ f.code = "PBT" => Lands(f, 1, 14)
           /\ f.code = "POPM" => Lands(f, 3, 23)
           /\ f.code = "MCHGC" => Lands(f, 3, 16)
           /\ f.code = "MUCHGC" => Lands(f, 3, 15)
           /\ f.code = "MCHGV" => Lands(f, 1, 12) /\ Lands(f, 3, 13)
           /\ f.code = "BUCD" => Lands(f, 1, 9) /\ Lands(f, 3, 10)
           /\ f.code = "PSDV" => Lands(f, 1, 11)
  <1>1. ASSUME NEW i, NEW j, f.code \in DOMAIN Slots, <<i, j>> \in Slots[f.code]
        PROVE  Lands(f, i, j)
    <2>1. PICK slot \in Slots[f.code] : slot = <<i, j>>
      BY <1>1
    <2>2. slot[1] = i /\ slot[2] = j
      BY <2>1
    <2> QED
      BY <1>1, <2>2, RatedNumber DEF Lands
  <1>2. \A code \in {"F", "V", "POP", "PCP", "PSP", "PGR", "PBT", "POPM",
                     "MCHGC", "MUCHGC", "MCHGV", "BUCD", "PSDV"} :
           code \in DOMAIN Slots
    BY SlotsAre
  <1>3. /\ <<1, 4>> \in Slots["F"] /\ <<1, 3>> \in Slots["V"]
        /\ <<1, 18>> \in Slots["POP"] /\ <<3, 19>> \in Slots["PCP"]
        /\ <<1, 24>> \in Slots["PSP"] /\ <<1, 17>> \in Slots["PGR"]
        /\ <<1, 14>> \in Slots["PBT"] /\ <<3, 23>> \in Slots["POPM"]
        /\ <<3, 16>> \in Slots["MCHGC"] /\ <<3, 15>> \in Slots["MUCHGC"]
        /\ <<1, 12>> \in Slots["MCHGV"] /\ <<3, 13>> \in Slots["MCHGV"]
        /\ <<1, 9>> \in Slots["BUCD"] /\ <<3, 10>> \in Slots["BUCD"]
        /\ <<1, 11>> \in Slots["PSDV"]
    BY SlotsAre
  <1> QED
    BY <1>1, <1>2, <1>3, Zenon

\* A voltage is sent in tenths, rounded.
LEMMA TenthsAreNear ==
    ASSUME NEW t, IsText(t), ~ Odd(t), NEW junk
    PROVE  Tenths(t, junk).value \in Int
             /\ Near(10 * Tenths(t, junk).value, t.volts)
  <1>1. PICK v \in Int : t.volts = v /\ v # NaN
    BY DEF IsText, IsPart, Odd
  <1>2. Tenths(t, junk).value = (v + 5) \div 10
    BY <1>1 DEF Tenths, Wide
  <1>3. PICK q \in Int, r \in 0 .. 9 : v + 5 = 10 * q + r /\ q = (v + 5) \div 10
    <2>1. (v + 5) \div 10 \in Int /\ (v + 5) % 10 \in 0 .. 9
            /\ v + 5 = (10 * ((v + 5) \div 10)) + ((v + 5) % 10)
      BY SMT
    <2> QED
      BY <2>1
  <1> QED
    BY <1>1, <1>2, <1>3 DEF Near

LEMMA SameIsNear == \A x \in Int : Near(x, x)
  BY DEF Near

Rated(f) == Applied(f).GetRatedInformation.items

\* What is asked for is within half a tenth of what is shown.
IsShown(c, a, items) ==
    \A m \in Meant(c, a) : Near(RatedShown(m[1], items), m[2])

LEMMA ArgumentsOf ==
    ASSUME NEW a \in Seq(Text), \A t \in Range(a) : ~ Odd(t)
    PROVE  \A i \in 1 .. Len(a) :
              IsText(a[i]) /\ ~ Odd(a[i]) /\ a[i].value \in Nat
  BY ArgumentsAre DEF IsPart

\* Voltages, which packArguments rounds to tenths.
LEMMA VoltagesAreShown ==
    ASSUME InverterOK(inverter), NEW c \in Voltages,
           NEW a \in Seq(Text), NEW args, From(a, c, args),
           \A t \in Range(a) : ~ Odd(t), NEW junk,
           NEW f, f.code = RawCommands[c], f.fields = PackArguments(c, args, junk)
    PROVE  IsShown(c, a, Rated(f))
  <1> DEFINE items == Rated(f)
  <1>1. args = a
    BY SMT DEF From, Rewritten, Voltages
  <1>2. Len(a) = ArgumentCount(c)
    BY DEF From
  <1>3. \A i \in 1 .. Len(a) : Tenths(a[i], junk).value \in Int
                               /\ Near(10 * Tenths(a[i], junk).value, a[i].volts)
    BY ArgumentsOf, TenthsAreNear
  <1>4. ASSUME c \in {"SetBatteryMaxChargeVoltage", "SetBatteryChargeThresholds"}
        PROVE  /\ f.fields[1] = Tenths(a[1], junk) /\ f.fields[3] = Tenths(a[2], junk)
               /\ Near(10 * f.fields[1].value, a[1].volts)
               /\ Near(10 * f.fields[3].value, a[2].volts)
               /\ f.fields[1].value \in Int /\ f.fields[3].value \in Int
    <2>1. Len(a) = 2
      BY <1>2, <1>4, SMT DEF ArgumentCount
    <2>2. f.fields = <<Tenths(a[1], junk), Comma, Tenths(a[2], junk)>>
      BY <1>1, <1>4, SMT DEF PackArguments
    <2>3. f.fields[1] = Tenths(a[1], junk) /\ f.fields[3] = Tenths(a[2], junk)
      BY <2>2
    <2>4. 1 \in 1 .. Len(a) /\ 2 \in 1 .. Len(a)
      BY <2>1
    <2> QED
      BY <1>3, <2>3, <2>4
  <1>5. CASE c = "SetBatteryMaxChargeVoltage"
    <2>1. f.code = "MCHGV" /\ Tenfold(f) = 1
      BY <1>5, CodesAre DEF Tenfold
    <2>2. Lands(f, 1, 12) /\ Lands(f, 3, 13)
      BY <2>1, FieldsLand
    <2>3. items[12].value = f.fields[1].value /\ items[13].value = f.fields[3].value
      BY <1>4, <1>5, <2>1, <2>2 DEF Lands, Rated
    <2> HIDE DEF items
    <2>4. Near(RatedShown("battery_bulk_voltage", items), a[1].volts)
            /\ Near(RatedShown("battery_float_voltage", items), a[2].volts)
      BY <1>4, <1>5, <2>3, LinesAre
    <2>5. Meant(c, a) = {<<"battery_bulk_voltage", a[1].volts>>,
                         <<"battery_float_voltage", a[2].volts>>}
      BY <1>5, SMT DEF Meant
    <2>6. IsShown(c, a, items)
      BY <2>4, <2>5 DEF IsShown
    <2> QED
      BY <2>6 DEF items
  <1>6. CASE c = "SetBatteryChargeThresholds"
    <2>1. f.code = "BUCD" /\ Tenfold(f) = 1
      BY <1>6, CodesAre DEF Tenfold
    <2>2. Lands(f, 1, 9) /\ Lands(f, 3, 10)
      BY <2>1, FieldsLand
    <2>3. items[9].value = f.fields[1].value /\ items[10].value = f.fields[3].value
      BY <1>4, <1>6, <2>1, <2>2 DEF Lands, Rated
    <2> HIDE DEF items
    <2>4. Near(RatedShown("battery_recharge_voltage", items), a[1].volts)
            /\ Near(RatedShown("battery_redischarge_voltage", items), a[2].volts)
      BY <1>4, <1>6, <2>3, LinesAre
    <2>5. Meant(c, a) = {<<"battery_recharge_voltage", a[1].volts>>,
                         <<"battery_redischarge_voltage", a[2].volts>>}
      BY <1>6, SMT DEF Meant
    <2>6. IsShown(c, a, items)
      BY <2>4, <2>5 DEF IsShown
    <2> QED
      BY <2>6 DEF items
  <1>7. CASE c = "SetBatteryCutOffVoltage"
    <2>1. f.code = "PSDV" /\ Tenfold(f) = 1 /\ Len(a) = 1
      BY <1>2, <1>7, CodesAre, SMT DEF Tenfold, ArgumentCount
    <2>2. Lands(f, 1, 11)
      BY <2>1, FieldsLand
    <2>3. f.fields = <<Tenths(a[1], junk)>>
      BY <1>1, <1>7, SMT DEF PackArguments
    <2>4. f.fields[1] = Tenths(a[1], junk)
      BY <2>3
    <2>5. Near(10 * f.fields[1].value, a[1].volts) /\ f.fields[1].value \in Int
      BY <1>3, <2>1, <2>4
    <2>6. items[11].value = f.fields[1].value
      BY <2>1, <2>2, <2>5 DEF Lands, Rated
    <2> HIDE DEF items
    <2>7. Near(RatedShown("battery_under_voltage", items), a[1].volts)
      BY <2>5, <2>6, LinesAre
    <2>8. Meant(c, a) = {<<"battery_under_voltage", a[1].volts>>}
      BY <1>7, SMT DEF Meant
    <2>9. IsShown(c, a, items)
      BY <2>7, <2>8 DEF IsShown
    <2> QED
      BY <2>9 DEF items
  <1> QED
    BY <1>5, <1>6, <1>7 DEF Voltages

Counted == {"SetACOutputFreq", "SetACOutputVoltage",
            "SetBatteryMaxChargeCurrent", "SetBatteryMaxACChargeCurrent"}

\* Frequencies, voltages and currents that are sent as they are.
LEMMA NumbersAreShown ==
    ASSUME InverterOK(inverter), NEW c \in Counted,
           NEW a \in Seq(Text), NEW args, From(a, c, args),
           \A t \in Range(a) : ~ Odd(t), NEW junk,
           NEW f, f.code = RawCommands[c], f.fields = PackArguments(c, args, junk)
    PROVE  IsShown(c, a, Rated(f))
  <1> DEFINE items == Rated(f)
  <1>1. args = a
    BY SMT DEF From, Rewritten, Counted
  <1>2. Len(a) = ArgumentCount(c)
    BY DEF From
  <1>3. \A i \in 1 .. Len(a) : a[i].value \in Nat
    BY ArgumentsOf
  <1>4. CASE c = "SetACOutputFreq"
    <2>1. f.code = "F" /\ Tenfold(f) = 10 /\ Len(a) = 1
      BY <1>2, <1>4, CodesAre, SMT DEF Tenfold, ArgumentCount
    <2>2. PICK n \in Nat : n = a[1].value
      BY <1>3, <2>1
    <2>3. Lands(f, 1, 4)
      BY <2>1, FieldsLand
    <2>4. f.fields = <<Wide(2, a[1].value)>>
      BY <1>1, <1>4, SMT DEF PackArguments
    <2>5. f.fields[1].value = n
      BY <2>2, <2>4 DEF Wide
    <2>6. items[4].value = 10 * n
      BY <2>1, <2>3, <2>5 DEF Lands, Rated
    <2> HIDE DEF items
    <2>7. RatedShown("ac_output_rating_freq", items) = 100 * n
      BY <2>6, LinesAre
    <2>8. Near(RatedShown("ac_output_rating_freq", items), 100 * n)
      BY <2>7, SameIsNear
    <2>9. Meant(c, a) = {<<"ac_output_rating_freq", 100 * n>>}
      BY <1>4, <2>2, SMT DEF Meant
    <2>10. IsShown(c, a, items)
      BY <2>8, <2>9 DEF IsShown
    <2> QED
      BY <2>10 DEF items
  <1>5. CASE c = "SetACOutputVoltage"
    <2>1. f.code = "V" /\ Tenfold(f) = 1 /\ Len(a) = 1
      BY <1>2, <1>5, CodesAre, SMT DEF Tenfold, ArgumentCount
    <2>2. PICK n \in Nat : n = a[1].value
      BY <1>3, <2>1
    <2>3. Lands(f, 1, 3)
      BY <2>1, FieldsLand
    <2>4. f.fields = <<Wide(4, 10 * a[1].value)>>
      BY <1>1, <1>5, SMT DEF PackArguments
    <2>5. f.fields[1].value = 10 * n
      BY <2>2, <2>4 DEF Wide
    <2>6. items[3].value = 10 * n
      BY <2>1, <2>3, <2>5 DEF Lands, Rated
    <2> HIDE DEF items
    <2>7. RatedShown("ac_output_rating_voltage", items) = 100 * n
      BY <2>6, LinesAre
    <2>8. Near(RatedShown("ac_output_rating_voltage", items), 100 * n)
      BY <2>7, SameIsNear
    <2>9. Meant(c, a) = {<<"ac_output_rating_voltage", 100 * n>>}
      BY <1>5, <2>2, SMT DEF Meant
    <2>10. IsShown(c, a, items)
      BY <2>8, <2>9 DEF IsShown
    <2> QED
      BY <2>10 DEF items
  <1>6. ASSUME c \in {"SetBatteryMaxChargeCurrent", "SetBatteryMaxACChargeCurrent"}
        PROVE  a[2].value \in Nat /\ f.fields[3].value = a[2].value
    <2>1. Len(a) = 2
      BY <1>2, <1>6, SMT DEF ArgumentCount
    <2>2. f.fields = <<Raw(1, a[1]), Comma, Wide(3, a[2].value)>>
      BY <1>1, <1>6, SMT DEF PackArguments
    <2> QED
      BY <1>3, <2>1, <2>2 DEF Wide
  <1>7. CASE c = "SetBatteryMaxChargeCurrent"
    <2>1. f.code = "MCHGC" /\ Tenfold(f) = 1
      BY <1>7, CodesAre DEF Tenfold
    <2>2. PICK n \in Nat : n = a[2].value /\ f.fields[3].value = n
      BY <1>6, <1>7
    <2>3. Lands(f, 3, 16)
      BY <2>1, FieldsLand
    <2>4. items[16].value = n
      BY <2>1, <2>2, <2>3 DEF Lands, Rated
    <2> HIDE DEF items
    <2>5. RatedShown("max_charge_current", items) = 100 * n
      BY <2>4, LinesAre
    <2>6. Near(RatedShown("max_charge_current", items), 100 * n)
      BY <2>5, SameIsNear
    <2>7. Meant(c, a) = {<<"max_charge_current", 100 * n>>}
      BY <1>7, <2>2, SMT DEF Meant
    <2>8. IsShown(c, a, items)
      BY <2>6, <2>7 DEF IsShown
    <2> QED
      BY <2>8 DEF items
  <1>8. CASE c = "SetBatteryMaxACChargeCurrent"
    <2>1. f.code = "MUCHGC" /\ Tenfold(f) = 1
      BY <1>8, CodesAre DEF Tenfold
    <2>2. PICK n \in Nat : n = a[2].value /\ f.fields[3].value = n
      BY <1>6, <1>8
    <2>3. Lands(f, 3, 15)
      BY <2>1, FieldsLand
    <2>4. items[15].value = n
      BY <2>1, <2>2, <2>3 DEF Lands, Rated
    <2> HIDE DEF items
    <2>5. RatedShown("max_ac_charge_current", items) = 100 * n
      BY <2>4, LinesAre
    <2>6. Near(RatedShown("max_ac_charge_current", items), 100 * n)
      BY <2>5, SameIsNear
    <2>7. Meant(c, a) = {<<"max_ac_charge_current", 100 * n>>}
      BY <1>8, <2>2, SMT DEF Meant
    <2>8. IsShown(c, a, items)
      BY <2>6, <2>7 DEF IsShown
    <2> QED
      BY <2>8 DEF items
  <1> QED
    BY <1>4, <1>5, <1>7, <1>8 DEF Counted

LEMMA OthersMeanNothing ==
    \A c, a : c \notin Voltages \union Counted => Meant(c, a) = {}
  BY SMT DEF Meant, Voltages, Counted

LEMMA UniqueIndex ==
    ASSUME NEW list, NEW i \in DOMAIN list,
           \A j \in DOMAIN list : list[j] = list[i] => j = i
    PROVE  IndexOf(list, list[i]) = i - 1
  <1>1. (CHOOSE j \in DOMAIN list : list[j] = list[i]) = i
    OBVIOUS
  <1> QED
    BY <1>1 DEF IndexOf

LEMMA WordsDiffer ==
    /\ \A w : Word(w).word = w /\ ~ Word(w).digits
    /\ \A n \in Nat : /\ Numeral(n).value = n /\ Numeral(n).digits
                      /\ \A w : Word(w) # Numeral(n)
  <1>1. \A w : Word(w).word = w /\ ~ Word(w).digits
    BY DEF Word
  <1>2. \A n \in Nat : Numeral(n).value = n /\ Numeral(n).digits
    BY NumeralType DEF NumeralFacts
  <1> QED
    BY <1>1, <1>2

\* The index of a word of each table, and the word of the usage text for it.
Listed(c, n, w) == IndexOf(Wordings(c), Word(w)) = n

LEMMA TwoWords ==
    ASSUME NEW c, NEW v, NEW w, v # w, Wordings(c) = <<Word(v), Word(w)>>
    PROVE  Listed(c, 0, v) /\ Listed(c, 1, w)
  <1> DEFINE list == <<Word(v), Word(w)>>
  <1>1. Word(v) # Word(w)
    BY WordsDiffer
  <1>2. DOMAIN list = {1, 2} /\ list[1] = Word(v) /\ list[2] = Word(w)
    OBVIOUS
  <1> HIDE DEF list
  <1>3. IndexOf(list, list[1]) = 1 - 1 /\ IndexOf(list, list[2]) = 2 - 1
    BY <1>1, <1>2, UniqueIndex
  <1> QED
    BY <1>2, <1>3 DEF Listed, list

LEMMA ThreeWords ==
    ASSUME NEW c, NEW u, NEW v, NEW w, u # v, v # w, u # w,
           Wordings(c) = <<Word(u), Word(v), Word(w)>>
    PROVE  Listed(c, 0, u) /\ Listed(c, 1, v) /\ Listed(c, 2, w)
  <1> DEFINE list == <<Word(u), Word(v), Word(w)>>
  <1>1. Word(u) # Word(v) /\ Word(v) # Word(w) /\ Word(u) # Word(w)
    BY WordsDiffer
  <1>2. /\ DOMAIN list = {1, 2, 3}
        /\ list[1] = Word(u) /\ list[2] = Word(v) /\ list[3] = Word(w)
    OBVIOUS
  <1> HIDE DEF list
  <1>3. /\ IndexOf(list, list[1]) = 1 - 1 /\ IndexOf(list, list[2]) = 2 - 1
        /\ IndexOf(list, list[3]) = 3 - 1
    BY <1>1, <1>2, UniqueIndex
  <1> QED
    BY <1>2, <1>3 DEF Listed, list

LEMMA FiveModes ==
    /\ Listed("SetOutputMode", 0, "S") /\ Listed("SetOutputMode", 1, "P")
    /\ \A n \in 1 .. 3 : IndexOf(Wordings("SetOutputMode"), Numeral(n)) = n + 1
  <1> DEFINE list == <<Word("S"), Word("P"), Numeral(1), Numeral(2), Numeral(3)>>
  <1>1. Wordings("SetOutputMode") = list
    BY SMT DEF Wordings
  <1>2. /\ Word("S") # Word("P")
        /\ \A n \in 1 .. 3 : Word("S") # Numeral(n) /\ Word("P") # Numeral(n)
        /\ \A n, m \in 1 .. 3 : Numeral(n) = Numeral(m) => n = m
    <2>1. "S" # "P" /\ \A n \in 1 .. 3 : n \in Nat
      OBVIOUS
    <2> QED
      BY <2>1, WordsDiffer
  <1>3. /\ DOMAIN list = 1 .. 5 /\ list[1] = Word("S") /\ list[2] = Word("P")
        /\ list[3] = Numeral(1) /\ list[4] = Numeral(2) /\ list[5] = Numeral(3)
    OBVIOUS
  <1> HIDE DEF list
  <1>4. \A n \in 1 .. 3 : n + 2 \in DOMAIN list /\ list[n + 2] = Numeral(n)
    <2> TAKE n \in 1 .. 3
    <2>1. n = 1 \/ n = 2 \/ n = 3
      OBVIOUS
    <2> QED
      BY <1>3, <2>1
  <1>5. \A i, j \in DOMAIN list : list[i] = list[j] => i = j
    <2>1. \A i \in DOMAIN list : i = 1 \/ i = 2 \/ \E n \in 1 .. 3 : i = n + 2
      <3> TAKE i \in DOMAIN list
      <3>1. i \in 1 .. 5
        BY <1>3
      <3>2. i = 1 \/ i = 2 \/ i - 2 \in 1 .. 3
        BY <3>1
      <3>3. i - 2 \in 1 .. 3 => i = (i - 2) + 2
        BY <3>1
      <3> QED
        BY <3>2, <3>3
    <2> QED
      BY <1>2, <1>3, <1>4, <2>1
  <1>6. \A i \in DOMAIN list : IndexOf(list, list[i]) = i - 1
    BY <1>5, UniqueIndex
  <1>7. /\ IndexOf(list, Word("S")) = 0 /\ IndexOf(list, Word("P")) = 1
        /\ \A n \in 1 .. 3 : IndexOf(list, Numeral(n)) = n + 1
    <2>1. IndexOf(list, list[1]) = 1 - 1 /\ IndexOf(list, list[2]) = 2 - 1
      BY <1>3, <1>6
    <2>2. ASSUME NEW n \in 1 .. 3 PROVE IndexOf(list, Numeral(n)) = n + 1
      <3>1. IndexOf(list, Numeral(n)) = (n + 2) - 1
        BY <1>4, <1>6
      <3> QED
        BY <3>1
    <2> QED
      BY <1>3, <2>1, <2>2
  <1> QED
    BY <1>1, <1>7 DEF Listed

\* What the table shows for each value.
LEMMA TextsAre ==
    /\ TextOf("BatteryType", 0) = "AGM" /\ TextOf("BatteryType", 1) = "Flooded"
    /\ TextOf("BatteryType", 2) = "User"
    /\ TextOf("InputVoltageRange", 0) = "Appliance"
    /\ TextOf("InputVoltageRange", 1) = "USP"
    /\ TextOf("OutputSourcePriority", 0) = "Solar-Utility-Battery"
    /\ TextOf("OutputSourcePriority", 1) = "Solar-Battery-Utility"
    /\ TextOf("ChargeSourcePriority", 0) = "Solar-First"
    /\ TextOf("ChargeSourcePriority", 1) = "Solar-and-Utility"
    /\ TextOf("ChargeSourcePriority", 2) = "Solar-only"
    /\ TextOf("SolarPowerPriority", 0) = "Battery-Load-Utility"
    /\ TextOf("SolarPowerPriority", 1) = "Load-Battery-Utility"
  <1>1. /\ Enumerators["BatteryType"] = <<"AGM", "Flooded", "User">>
        /\ Texts["BatteryType"].AGM = "AGM"
        /\ Texts["BatteryType"].Flooded = "Flooded"
        /\ Texts["BatteryType"].User = "User"
    BY SMT DEF Enumerators, Texts
  <1>2. /\ Enumerators["InputVoltageRange"] = <<"Appliance", "USP">>
        /\ Texts["InputVoltageRange"].Appliance = "Appliance"
        /\ Texts["InputVoltageRange"].USP = "USP"
    BY SMT DEF Enumerators, Texts
  <1>3. /\ Enumerators["OutputSourcePriority"] =
              <<"SolarUtilityBattery", "SolarBatteryUtility">>
        /\ Texts["OutputSourcePriority"].SolarUtilityBattery = "Solar-Utility-Battery"
        /\ Texts["OutputSourcePriority"].SolarBatteryUtility = "Solar-Battery-Utility"
    BY SMT DEF Enumerators, Texts
  <1>4. /\ Enumerators["ChargeSourcePriority"] =
              <<"SolarFirst", "SolarAndUtility", "SolarOnly">>
        /\ Texts["ChargeSourcePriority"].SolarFirst = "Solar-First"
        /\ Texts["ChargeSourcePriority"].SolarAndUtility = "Solar-and-Utility"
        /\ Texts["ChargeSourcePriority"].SolarOnly = "Solar-only"
    BY SMT DEF Enumerators, Texts
  <1>5. /\ Enumerators["SolarPowerPriority"] =
              <<"BatteryLoadUtility", "LoadBatteryUtility">>
        /\ Texts["SolarPowerPriority"].BatteryLoadUtility = "Battery-Load-Utility"
        /\ Texts["SolarPowerPriority"].LoadBatteryUtility = "Load-Battery-Utility"
    BY SMT DEF Enumerators, Texts
  <1>6. 0 + 1 = 1 /\ 1 + 1 = 2 /\ 2 + 1 = 3
    BY SMT
  <1>7. /\ Enumerators["BatteryType"][1] = "AGM"
        /\ Enumerators["BatteryType"][2] = "Flooded"
        /\ Enumerators["BatteryType"][3] = "User"
        /\ Enumerators["InputVoltageRange"][1] = "Appliance"
        /\ Enumerators["InputVoltageRange"][2] = "USP"
        /\ Enumerators["OutputSourcePriority"][1] = "SolarUtilityBattery"
        /\ Enumerators["OutputSourcePriority"][2] = "SolarBatteryUtility"
        /\ Enumerators["ChargeSourcePriority"][1] = "SolarFirst"
        /\ Enumerators["ChargeSourcePriority"][2] = "SolarAndUtility"
        /\ Enumerators["ChargeSourcePriority"][3] = "SolarOnly"
        /\ Enumerators["SolarPowerPriority"][1] = "BatteryLoadUtility"
        /\ Enumerators["SolarPowerPriority"][2] = "LoadBatteryUtility"
    BY <1>1, <1>2, <1>3, <1>4, <1>5
  <1> QED
    BY <1>1, <1>2, <1>3, <1>4, <1>5, <1>6, <1>7 DEF TextOf

LEMMA ModesAre ==
    /\ TextOf("OutputMode", 0) = "Single output"
    /\ TextOf("OutputMode", 1) = "Parallel output"
    /\ \A n \in 1 .. 3 : TextOf("OutputMode", n + 1) = OutputPhase[n]
  <1> DEFINE e == Enumerators["OutputMode"]
             t == Texts["OutputMode"]
  <1>1. e = <<"SingleOutput", "ParallelOutput", "Phase_1_of_3",
              "Phase_2_of_3", "Phase_3_of_3">>
    BY SMT DEF Enumerators
  <1>2. /\ t.SingleOutput = "Single output" /\ t.ParallelOutput = "Parallel output"
        /\ t.Phase_1_of_3 = "Phase 1 of 3-phase output"
        /\ t.Phase_2_of_3 = "Phase 2 of 3-phase output"
        /\ t.Phase_3_of_3 = "Phase 3 of 3-phase"
    <2>1. t = [SingleOutput |-> "Single output", ParallelOutput |-> "Parallel output",
               Phase_1_of_3 |-> "Phase 1 of 3-phase output",
               Phase_2_of_3 |-> "Phase 2 of 3-phase output",
               Phase_3_of_3 |-> "Phase 3 of 3-phase"]
      BY SMT DEF Texts
    <2> HIDE DEF t
    <2> QED
      BY <2>1
  <1>3. \A n : TextOf("OutputMode", n) = t[e[n + 1]]
    BY DEF TextOf
  <1> HIDE DEF e, t
  <1>4. /\ e[1] = "SingleOutput" /\ e[2] = "ParallelOutput"
        /\ e[3] = "Phase_1_of_3" /\ e[4] = "Phase_2_of_3" /\ e[5] = "Phase_3_of_3"
    BY <1>1
  <1>5. /\ OutputPhase[1] = "Phase 1 of 3-phase output"
        /\ OutputPhase[2] = "Phase 2 of 3-phase output"
        /\ OutputPhase[3] = "Phase 3 of 3-phase"
    BY DEF OutputPhase
  <1>6. /\ TextOf("OutputMode", 0) = "Single output"
        /\ TextOf("OutputMode", 1) = "Parallel output"
        /\ TextOf("OutputMode", 2) = OutputPhase[1]
        /\ TextOf("OutputMode", 3) = OutputPhase[2]
        /\ TextOf("OutputMode", 4) = OutputPhase[3]
    <2>1. 0 + 1 = 1 /\ 1 + 1 = 2 /\ 2 + 1 = 3 /\ 3 + 1 = 4 /\ 4 + 1 = 5
      BY SMT
    <2> QED
      BY <1>2, <1>3, <1>4, <1>5, <2>1
  <1>7. ASSUME NEW n \in 1 .. 3 PROVE TextOf("OutputMode", n + 1) = OutputPhase[n]
    <2>1. n = 1 \/ n = 2 \/ n = 3
      OBVIOUS
    <2>2. 1 + 1 = 2 /\ 2 + 1 = 3 /\ 3 + 1 = 4
      BY SMT
    <2> QED
      BY <1>6, <2>1, <2>2
  <1> QED
    BY <1>6, <1>7

EnumOf(c) == RatedLines[LineOf[c]][2]
ChoiceCommands == Worded1 \union Worded2

LEMMA ChoiceLines ==
    /\ DOMAIN LineOf = ChoiceCommands
    /\ EnumOf("SetOutputSourcePriority") = "OutputSourcePriority"
    /\ EnumOf("SetChargeSourcePriority") = "ChargeSourcePriority"
    /\ EnumOf("SetSolarPowerPriority") = "SolarPowerPriority"
    /\ EnumOf("SetACInputVoltageRange") = "InputVoltageRange"
    /\ EnumOf("SetBatteryType") = "BatteryType"
    /\ EnumOf("SetOutputMode") = "OutputMode"
    /\ RatedLines[LineOf["SetOutputSourcePriority"]][1] = 18
    /\ RatedLines[LineOf["SetChargeSourcePriority"]][1] = 19
    /\ RatedLines[LineOf["SetSolarPowerPriority"]][1] = 24
    /\ RatedLines[LineOf["SetACInputVoltageRange"]][1] = 17
    /\ RatedLines[LineOf["SetBatteryType"]][1] = 14
    /\ RatedLines[LineOf["SetOutputMode"]][1] = 23
  <1>1. DOMAIN LineOf = ChoiceCommands
    BY DEF LineOf, ChoiceCommands, Worded1, Worded2
  <1>2. /\ LineOf["SetOutputSourcePriority"] = "output_source_priority"
        /\ LineOf["SetChargeSourcePriority"] = "charge_source_priority"
        /\ LineOf["SetSolarPowerPriority"] = "solar_power_priority"
        /\ LineOf["SetACInputVoltageRange"] = "input_voltage_range"
        /\ LineOf["SetBatteryType"] = "battery_type"
        /\ LineOf["SetOutputMode"] = "output_mode"
    BY DEF LineOf
  <1>3. /\ RatedLines["output_source_priority"] = <<18, "OutputSourcePriority">>
        /\ RatedLines["charge_source_priority"] = <<19, "ChargeSourcePriority">>
        /\ RatedLines["solar_power_priority"] = <<24, "SolarPowerPriority">>
        /\ RatedLines["input_voltage_range"] = <<17, "InputVoltageRange">>
        /\ RatedLines["battery_type"] = <<14, "BatteryType">>
        /\ RatedLines["output_mode"] = <<23, "OutputMode">>
    BY SMT DEF RatedLines
  <1> QED
    BY <1>1, <1>2, <1>3, SMT DEF EnumOf

\* The index that is sent for a word is the number that is shown with the text
\* that usage() has for it.
ShowsChoice(c, t) ==
    TextOf(EnumOf(c), IndexOf(Wordings(c), t)) = ChoiceMeant(c, t)

LEMMA WordIsShown ==
    ASSUME NEW c, NEW n, NEW w, Listed(c, n, w), TextOf(EnumOf(c), n) = Usage[c][w]
    PROVE  ShowsChoice(c, Word(w))
  BY WordsDiffer DEF Listed, ShowsChoice, ChoiceMeant

\* The other settings are words: the index that was sent has the text that was asked for.
LEMMA ChoicesAreShown ==
    ASSUME NEW c \in ChoiceCommands, NEW t \in Range(Wordings(c))
    PROVE  ShowsChoice(c, t)
  <1>1. CASE c = "SetOutputSourcePriority"
    <2>1. Wordings(c) = <<Word("SUB"), Word("SBU")>>
      BY <1>1, SMT DEF Wordings
    <2>2. Usage[c].SUB = "Solar-Utility-Battery" /\ Usage[c].SBU = "Solar-Battery-Utility"
      BY <1>1, SMT DEF Usage
    <2>3. Listed(c, 0, "SUB") /\ Listed(c, 1, "SBU")
      BY <2>1, TwoWords
    <2>4. ShowsChoice(c, Word("SUB")) /\ ShowsChoice(c, Word("SBU"))
      BY <1>1, <2>2, <2>3, TextsAre, ChoiceLines, WordIsShown
    <2>5. t \in {Word("SUB"), Word("SBU")}
      BY <2>1 DEF Range
    <2> QED
      BY <2>4, <2>5
  <1>2. CASE c = "SetSolarPowerPriority"
    <2>1. Wordings(c) = <<Word("BLU"), Word("LBU")>>
      BY <1>2, SMT DEF Wordings
    <2>2. Usage[c].BLU = "Battery-Load-Utility" /\ Usage[c].LBU = "Load-Battery-Utility"
      BY <1>2, SMT DEF Usage
    <2>3. Listed(c, 0, "BLU") /\ Listed(c, 1, "LBU")
      BY <2>1, TwoWords
    <2>4. ShowsChoice(c, Word("BLU")) /\ ShowsChoice(c, Word("LBU"))
      BY <1>2, <2>2, <2>3, TextsAre, ChoiceLines, WordIsShown
    <2>5. t \in {Word("BLU"), Word("LBU")}
      BY <2>1 DEF Range
    <2> QED
      BY <2>4, <2>5
  <1>3. CASE c = "SetACInputVoltageRange"
    <2>1. Wordings(c) = <<Word("APPLIANCE"), Word("UPS")>>
      BY <1>3, SMT DEF Wordings
    <2>2. Usage[c].APPLIANCE = "Appliance" /\ Usage[c].UPS = "USP"
      BY <1>3, SMT DEF Usage
    <2>3. Listed(c, 0, "APPLIANCE") /\ Listed(c, 1, "UPS")
      BY <2>1, TwoWords
    <2>4. ShowsChoice(c, Word("APPLIANCE")) /\ ShowsChoice(c, Word("UPS"))
      BY <1>3, <2>2, <2>3, TextsAre, ChoiceLines, WordIsShown
    <2>5. t \in {Word("APPLIANCE"), Word("UPS")}
      BY <2>1 DEF Range
    <2> QED
      BY <2>4, <2>5
  <1>4. CASE c = "SetBatteryType"
    <2>1. Wordings(c) = <<Word("AGM"), Word("FLOODED"), Word("USER")>>
      BY <1>4, SMT DEF Wordings
    <2>2. Usage[c].AGM = "AGM" /\ Usage[c].FLOODED = "Flooded" /\ Usage[c].USER = "User"
      BY <1>4, SMT DEF Usage
    <2>3. Listed(c, 0, "AGM") /\ Listed(c, 1, "FLOODED") /\ Listed(c, 2, "USER")
      BY <2>1, ThreeWords
    <2>4. /\ ShowsChoice(c, Word("AGM")) /\ ShowsChoice(c, Word("FLOODED"))
          /\ ShowsChoice(c, Word("USER"))
      BY <1>4, <2>2, <2>3, TextsAre, ChoiceLines, WordIsShown
    <2>5. t \in {Word("AGM"), Word("FLOODED"), Word("USER")}
      BY <2>1 DEF Range
    <2> QED
      BY <2>4, <2>5
  <1>5. CASE c = "SetChargeSourcePriority"
    <2>1. Wordings(c) = <<Word("SF"), Word("SU"), Word("S")>>
      BY <1>5, SMT DEF Wordings
    <2>2. Usage[c].SF = "Solar-First" /\ Usage[c].SU = "Solar-and-Utility"
            /\ Usage[c].S = "Solar-only"
      BY <1>5, SMT DEF Usage
    <2>3. Listed(c, 0, "SF") /\ Listed(c, 1, "SU") /\ Listed(c, 2, "S")
      BY <2>1, ThreeWords
    <2>4. /\ ShowsChoice(c, Word("SF")) /\ ShowsChoice(c, Word("SU"))
          /\ ShowsChoice(c, Word("S"))
      BY <1>5, <2>2, <2>3, TextsAre, ChoiceLines, WordIsShown
    <2>5. t \in {Word("SF"), Word("SU"), Word("S")}
      BY <2>1 DEF Range
    <2> QED
      BY <2>4, <2>5
  <1>6. CASE c = "SetOutputMode"
    <2>1. Wordings(c) = <<Word("S"), Word("P"), Numeral(1), Numeral(2), Numeral(3)>>
      BY <1>6, SMT DEF Wordings
    <2>2. Usage[c].S = "Single output" /\ Usage[c].P = "Parallel output"
      <3> DEFINE u == Usage["SetOutputMode"]
      <3>1. u = [S |-> "Single output", P |-> "Parallel output"]
        BY SMT DEF Usage
      <3> HIDE DEF u
      <3>2. u.S = "Single output" /\ u.P = "Parallel output"
        BY <3>1
      <3> QED
        BY <1>6, <3>2 DEF u
    <2>3. ShowsChoice(c, Word("S")) /\ ShowsChoice(c, Word("P"))
      BY <1>6, <2>2, FiveModes, ModesAre, ChoiceLines, WordIsShown
    <2>4. ASSUME NEW n \in 1 .. 3 PROVE ShowsChoice(c, Numeral(n))
      <3>1. IndexOf(Wordings(c), Numeral(n)) = n + 1
        BY <1>6, FiveModes
      <3>2. TextOf(EnumOf(c), n + 1) = OutputPhase[n]
        BY <1>6, ModesAre, ChoiceLines
      <3>3. ChoiceMeant(c, Numeral(n)) = OutputPhase[n]
        <4>1. n \in Nat
          OBVIOUS
        <4>2. Numeral(n).value = n /\ Numeral(n).digits
          BY <4>1, WordsDiffer
        <4> QED
          BY <4>2 DEF ChoiceMeant
      <3> QED
        BY <3>1, <3>2, <3>3 DEF ShowsChoice
    <2>5. t \in {Word("S"), Word("P")} \/ \E n \in 1 .. 3 : t = Numeral(n)
      BY <2>1 DEF Range
    <2> QED
      BY <2>3, <2>4, <2>5
  <1> QED
    BY <1>1, <1>2, <1>3, <1>4, <1>5, <1>6 DEF ChoiceCommands, Worded1, Worded2

\* The index that was sent is shown from its place.
LEMMA IndexIsShown ==
    ASSUME InverterOK(inverter), NEW c \in ChoiceCommands,
           NEW a \in Seq(Text), NEW args, From(a, c, args), NEW junk,
           NEW f, f.code = RawCommands[c], f.fields = PackArguments(c, args, junk)
    PROVE  /\ a[Len(a)] \in Range(Wordings(c))
           /\ Rated(f)[RatedLines[LineOf[c]][1]].value =
                 IndexOf(Wordings(c), a[Len(a)])
  <1>1. \A t \in Range(Wordings(c)) :
           Numeral(IndexOf(Wordings(c), t)).value = IndexOf(Wordings(c), t)
             /\ IndexOf(Wordings(c), t) \in Nat
    <2> TAKE t \in Range(Wordings(c))
    <2>1. IsList(Wordings(c))
      BY ListsOfWords DEF ChoiceCommands
    <2>2. IndexOf(Wordings(c), t) \in Nat
      BY <2>1, IndexInList DEF IsList
    <2> QED
      BY <2>2, WordsDiffer
  <1>2. CASE c \in Worded1
    <2>1. Len(a) = 1
      BY <1>2, SMT DEF From, ArgumentCount, Worded1
    <2>2. args = <<Numeral(IndexOf(Wordings(c), a[1]))>>
      BY <1>2, SMT DEF From, Rewritten, Worded1
    <2>3. Checks(c, a) = <<OneOf(a[1], Wordings(c))>>
      BY <1>2, SMT DEF Checks, Worded1
    <2>4. OneOf(a[1], Wordings(c)) = "accepted"
      BY <2>3, PassedOne DEF From
    <2>5. a[1] \in Range(Wordings(c))
      BY <2>4, OneOfMeans
    <2>6. f.fields = <<Raw(1, args[1])>>
      BY <1>2, SMT DEF PackArguments, Worded1
    <2>7. f.fields[1].value = IndexOf(Wordings(c), a[1])
      BY <1>1, <2>2, <2>5, <2>6 DEF Raw
    <2>8. IndexOf(Wordings(c), a[1]) \in Nat
      BY <1>1, <2>5
    <2> DEFINE x == IndexOf(Wordings(c), a[1])
               j == RatedLines[LineOf[c]][1]
    <2>9. Lands(f, 1, j) /\ f.code # "F"
      <3>1. CASE c = "SetOutputSourcePriority"
        BY <3>1, CodesAre, FieldsLand, ChoiceLines
      <3>2. CASE c = "SetSolarPowerPriority"
        BY <3>2, CodesAre, FieldsLand, ChoiceLines
      <3>3. CASE c = "SetACInputVoltageRange"
        BY <3>3, CodesAre, FieldsLand, ChoiceLines
      <3>4. CASE c = "SetBatteryType"
        BY <3>4, CodesAre, FieldsLand, ChoiceLines
      <3> QED
        BY <1>2, <3>1, <3>2, <3>3, <3>4 DEF Worded1
    <2>10. Rated(f)[j].value = 1 * x
      BY <2>7, <2>9 DEF Lands, Rated, Tenfold
    <2> HIDE DEF j
    <2>11. Rated(f)[j].value = x
      BY <2>8, <2>10
    <2> QED
      BY <2>1, <2>5, <2>11 DEF j
  <1>3. CASE c \in Worded2
    <2>1. Len(a) = 2
      BY <1>3, SMT DEF From, ArgumentCount, Worded2
    <2>2. args = <<a[1], Numeral(IndexOf(Wordings(c), a[2]))>>
      BY <1>3, SMT DEF From, Rewritten, Worded2
    <2>3. Checks(c, a) = <<Found(a[1].whole), Require(ValidParallelId(a[1])),
                           OneOf(a[2], Wordings(c))>>
      BY <1>3, SMT DEF Checks, Worded2
    <2>4. OneOf(a[2], Wordings(c)) = "accepted"
      BY <2>3 DEF From, Passed
    <2>5. a[2] \in Range(Wordings(c))
      BY <2>4, OneOfMeans
    <2>6. f.fields = <<Raw(1, args[1]), Comma, Raw(1, args[2])>>
      BY <1>3, SMT DEF PackArguments, Worded2
    <2>7. f.fields[3].value = IndexOf(Wordings(c), a[2])
      BY <1>1, <2>2, <2>5, <2>6 DEF Raw
    <2>8. IndexOf(Wordings(c), a[2]) \in Nat
      BY <1>1, <2>5
    <2> DEFINE x == IndexOf(Wordings(c), a[2])
               j == RatedLines[LineOf[c]][1]
    <2>9. Lands(f, 3, j) /\ f.code # "F"
      <3>1. CASE c = "SetChargeSourcePriority"
        BY <3>1, CodesAre, FieldsLand, ChoiceLines
      <3>2. CASE c = "SetOutputMode"
        BY <3>2, CodesAre, FieldsLand, ChoiceLines
      <3> QED
        BY <1>3, <3>1, <3>2 DEF Worded2
    <2>10. Rated(f)[j].value = 1 * x
      BY <2>7, <2>9 DEF Lands, Rated, Tenfold
    <2> HIDE DEF j
    <2>11. Rated(f)[j].value = x
      BY <2>8, <2>10
    <2> QED
      BY <2>1, <2>5, <2>11 DEF j
  <1> QED
    BY <1>2, <1>3 DEF ChoiceCommands

LEMMA ChoiceIsShown ==
    ASSUME InverterOK(inverter), NEW c \in ChoiceCommands,
           NEW a \in Seq(Text), NEW args, From(a, c, args), NEW junk,
           NEW f, f.code = RawCommands[c], f.fields = PackArguments(c, args, junk)
    PROVE  RatedShown(LineOf[c], Rated(f)) = ChoiceMeant(c, a[Len(a)])
  <1> DEFINE t == a[Len(a)]
             j == RatedLines[LineOf[c]][1]
  <1>1. t \in Range(Wordings(c)) /\ Rated(f)[j].value = IndexOf(Wordings(c), t)
    BY IndexIsShown
  <1>2. TextOf(EnumOf(c), IndexOf(Wordings(c), t)) = ChoiceMeant(c, t)
    BY <1>1, ChoicesAreShown DEF ShowsChoice
  <1>3. EnumOf(c) \notin {"tenths", "units"}
    BY ChoiceLines DEF ChoiceCommands, Worded1, Worded2
  <1>4. \A items : RatedShown(LineOf[c], items) = TextOf(EnumOf(c), items[j].value)
    BY <1>3, SMT DEF RatedShown, EnumOf
  <1> HIDE DEF j, t
  <1> QED
    BY <1>1, <1>2, <1>4 DEF t

----------------------------------------------------------------------------
(* The flags *)

LEMMA MinOfOne == \A i \in Int : Min({i}) = i
  BY DEF Min

\* The place of a line in the table.
LEMMA LineAtPlace ==
    ASSUME NEW i \in DOMAIN FlagLines
    PROVE  SelectInSeq(FlagLines, LAMBDA l : l = FlagLines[i]) = i
  <1> DEFINE I == {j \in 1 .. Len(FlagLines) : FlagLines[j] = FlagLines[i]}
  <1>1. DOMAIN FlagLines = 1 .. 8 /\ Len(FlagLines) = 8
    BY DEF FlagLines
  <1>2. \A j, k \in 1 .. 8 : FlagLines[j] = FlagLines[k] => j = k
    BY SMT DEF FlagLines
  <1>3. I = {i}
    BY <1>1, <1>2
  <1>4. SelectInSeq(FlagLines, LAMBDA l : l = FlagLines[i]) = Min(I)
    BY <1>3 DEF SelectInSeq
  <1> QED
    BY <1>1, <1>3, <1>4, MinOfOne

\* The flags and the times have their items.
LEMMA ItemsOfSettings ==
    ASSUME InverterOK(inverter)
    PROVE  /\ \A s \in Settings : /\ inverter[s] \in Answers
                                  /\ inverter[s].items \in Seq(AnItem)
           /\ 1 .. 9 \subseteq DOMAIN inverter["GetFlagsAndStatuses"].items
           /\ \A s \in {"GetACChargeTimeBucket", "GetACSupplyTimeBucket"} :
                 \A i \in 1 .. 2 : /\ i \in DOMAIN inverter[s].items
                                   /\ inverter[s].items[i].size = 4
  <1>1. \A s \in Settings : inverter[s] \in Answers /\ Readable(Layouts[s], inverter[s])
    BY DEF InverterOK
  <1>2. \A s \in Settings : inverter[s].items \in Seq(AnItem)
    BY <1>1, AnswerItems
  <1>3. \A s \in Settings :
           /\ DOMAIN inverter[s].items = 1 .. Len(inverter[s].items)
           /\ Len(inverter[s].items) \in Nat
    BY <1>2, LenProperties
  <1>4. \A s \in Settings : Layouts[s].form = "list" =>
           GetList(Layouts[s], inverter[s].items)
    BY <1>1 DEF Readable, Unpack
  <1>5. /\ FlagsAndStatuses.sizes # <<>> /\ FlagsAndStatuses.least = 9
        /\ ACChargeTimeBucket.sizes = Times(2, 4)
        /\ ACChargeTimeBucket.least = 2
    <2>1. /\ Times(9, 1) \in Seq(SUBSET Nat) /\ Len(Times(9, 1)) = 9
          /\ Times(2, 4) \in Seq(SUBSET Nat) /\ Len(Times(2, 4)) = 2
      BY TimesIs
    <2>2. FlagsAndStatuses.sizes = Times(9, 1)
            /\ FlagsAndStatuses.least = Len(Times(9, 1))
            /\ ACChargeTimeBucket.sizes = Times(2, 4)
            /\ ACChargeTimeBucket.least = Len(Times(2, 4))
      BY DEF FlagsAndStatuses, ACChargeTimeBucket, List
    <2>3. Times(9, 1) # <<>>
      BY <2>1, EmptySeq
    <2> QED
      BY <2>1, <2>2, <2>3
  <1>6. 1 .. 9 \subseteq DOMAIN inverter["GetFlagsAndStatuses"].items
    <2>1. GetList(FlagsAndStatuses, inverter["GetFlagsAndStatuses"].items)
      BY <1>4, SettingsLayouts, ListsOfSettings DEF Settings
    <2>2. Len(inverter["GetFlagsAndStatuses"].items) >= 9
      BY <1>5, <2>1 DEF GetList
    <2> QED
      BY <1>3, <2>2 DEF Settings
  <1>7. ASSUME NEW s \in {"GetACChargeTimeBucket", "GetACSupplyTimeBucket"},
               NEW i \in 1 .. 2
        PROVE  i \in DOMAIN inverter[s].items /\ inverter[s].items[i].size = 4
    <2> DEFINE items == inverter[s].items
    <2>1. s \in Settings /\ Layouts[s] = ACChargeTimeBucket
      BY SettingsLayouts DEF Settings
    <2>2. GetList(ACChargeTimeBucket, items)
      BY <1>4, <2>1, ListsOfSettings
    <2>3. DOMAIN Times(2, 4) = 1 .. 2 /\ Times(2, 4)[i] = {4} /\ Times(2, 4) # <<>>
      BY DEF Times
    <2>4. Len(items) >= 2
      BY <1>5, <2>2, <2>3 DEF GetList
    <2>5. i \in DOMAIN items
      BY <1>3, <2>1, <2>4
    <2> HIDE DEF items
    <2>6. items[i].size \in Times(2, 4)[i]
      BY <1>5, <2>2, <2>3, <2>5 DEF GetList
    <2> QED
      BY <2>3, <2>5, <2>6 DEF items
  <1> QED
    BY <1>1, <1>2, <1>6, <1>7

\* set-flags uses the order of the flags of the table.
LEMMA FlagsOfTable ==
    ASSUME NEW w \in DOMAIN UsageOfFlags
    PROVE  \E i \in 1 .. 8 : /\ IndexOf(Flags, w) = i - 1
                             /\ UsageOfFlags[w] = FlagLines[i]
  <1>1. /\ DOMAIN Flags = 1 .. 9
        /\ Flags[1] = "BUZZ" /\ Flags[2] = "OLBP" /\ Flags[3] = "LCDE"
        /\ Flags[4] = "OLRS" /\ Flags[5] = "OTRS" /\ Flags[6] = "BLON"
        /\ Flags[7] = "ALRM" /\ Flags[8] = "FTCR" /\ Flags[9] = "MTYP"
    BY DEF Flags
  <1>2. \A i \in DOMAIN Flags : IndexOf(Flags, Flags[i]) = i - 1
    <2>1. \A i, j \in DOMAIN Flags : Flags[i] = Flags[j] => i = j
      BY <1>1, SMT
    <2> QED
      BY <2>1, UniqueIndex
  <1>3. /\ FlagLines[1] = UsageOfFlags["BUZZ"] /\ FlagLines[2] = UsageOfFlags["OLBP"]
        /\ FlagLines[3] = UsageOfFlags["LCDE"] /\ FlagLines[4] = UsageOfFlags["OLRS"]
        /\ FlagLines[5] = UsageOfFlags["OTRS"] /\ FlagLines[6] = UsageOfFlags["BLON"]
        /\ FlagLines[7] = UsageOfFlags["ALRM"] /\ FlagLines[8] = UsageOfFlags["FTCR"]
    BY SMT DEF FlagLines, UsageOfFlags
  <1>4. \E i \in 1 .. 8 : w = Flags[i]
    <2>1. DOMAIN UsageOfFlags = {"BUZZ", "OLBP", "LCDE", "OLRS", "OTRS",
                                 "BLON", "FTCR", "ALRM"}
      BY DEF UsageOfFlags
    <2> QED
      BY <1>1, <2>1
  <1>5. PICK i \in 1 .. 8 : w = Flags[i]
    BY <1>4
  <1>6. FlagLines[i] = UsageOfFlags[w]
    <2>1. i = 1 \/ i = 2 \/ i = 3 \/ i = 4 \/ i = 5 \/ i = 6 \/ i = 7 \/ i = 8
      OBVIOUS
    <2> QED
      BY <1>1, <1>3, <1>5, <2>1
  <1>7. i \in DOMAIN Flags
    BY <1>1
  <1> QED
    BY <1>2, <1>5, <1>6, <1>7

\* A flag that is switched on or off is listed, or not, at its place.
LEMMA FlagIsShown ==
    ASSUME InverterOK(inverter), NEW a \in Seq(Text), NEW args,
           From(a, "SetFlag", args), NEW junk,
           NEW f, f.code = RawCommands["SetFlag"],
           f.fields = PackArguments("SetFlag", args, junk),
           a[1].word \in DOMAIN UsageOfFlags
    PROVE  FlagShown(UsageOfFlags[a[1].word], Applied(f).GetFlagsAndStatuses.items)
             <=> a[2].value = 1
  <1> DEFINE b == inverter["GetFlagsAndStatuses"]
             n == f.fields[2].value + 1
             v == f.fields[1].value
             s == Set(b.items, n, v)
  <1>1. args = <<Numeral(IndexOf(Flags, a[1].word)), a[2]>>
    BY SMT DEF From, Rewritten
  <1>2. f.fields = <<Wide(1, args[2].value), Raw(1, args[1])>>
    BY SMT DEF PackArguments
  <1>3. Checks("SetFlag", a) = <<Require(a[1].word \in Range(Flags)),
                                 ZeroOrOne(a[2])>>
    BY SMT DEF Checks
  <1>4. v = a[2].value /\ v \in 0 .. 1
    <2>1. ZeroOrOne(a[2]) = "accepted"
      BY <1>3 DEF From, Passed
    <2>2. a[2].value \in 0 .. 1
      BY <2>1, ZeroOrOneFits
    <2> QED
      BY <1>1, <1>2, <2>2 DEF Wide
  <1>5. PICK i \in 1 .. 8 : /\ IndexOf(Flags, a[1].word) = i - 1
                            /\ UsageOfFlags[a[1].word] = FlagLines[i]
    BY FlagsOfTable
  <1>6. n = i
    <2>1. i - 1 \in Nat
      OBVIOUS
    <2>2. Numeral(i - 1).value = i - 1
      BY <2>1, WordsDiffer
    <2>3. f.fields[2].value = i - 1
      BY <1>1, <1>2, <1>5, <2>2 DEF Raw
    <2> QED
      BY <2>3
  <1>7. Applied(f) = [inverter EXCEPT !["GetFlagsAndStatuses"] = [b EXCEPT !.items = s]]
    <2>1. f.code = "P" /\ "P" \notin DOMAIN Slots
      BY CodesAre, SlotsAre
    <2> QED
      BY <2>1, SMT DEF Applied
  <1>8. "GetFlagsAndStatuses" \in DOMAIN inverter /\ "items" \in DOMAIN b
    <2>1. inverter \in [Settings -> Answers]
      BY DEF InverterOK
    <2> QED
      BY <2>1 DEF Settings, Answers
  <1>9. Applied(f).GetFlagsAndStatuses.items = s
    <2> HIDE DEF b, s
    <2> QED
      BY <1>7, <1>8
  <1>10. s[i].value = v
    <2>1. i \in DOMAIN b.items /\ "value" \in DOMAIN b.items[i]
      <3>1. b.items \in Seq(AnItem) /\ i \in DOMAIN b.items
        <4>1. i \in 1 .. 9 /\ "GetFlagsAndStatuses" \in Settings
          BY DEF Settings
        <4> QED
          BY <4>1, ItemsOfSettings
      <3>2. b.items[i] \in AnItem
        BY <3>1, ElementOfSeq, LenProperties
      <3> QED
        BY <3>1, <3>2 DEF AnItem
    <2>2. s = Set(b.items, i, v)
      BY <1>6
    <2> HIDE DEF b, v, s
    <2> QED
      BY <2>1, <2>2 DEF Set
  <1>11. SelectInSeq(FlagLines, LAMBDA l : l = FlagLines[i]) = i
    <2>1. i \in DOMAIN FlagLines
      BY DEF FlagLines
    <2> QED
      BY <2>1, LineAtPlace
  <1>12. \A items : FlagShown(FlagLines[i], items) <=> items[i].value > 0
    BY <1>11 DEF FlagShown
  <1>13. FlagShown(FlagLines[i], s) <=> v > 0
    BY <1>10, <1>12
  <1> HIDE DEF s, v, n, b
  <1> QED
    BY <1>4, <1>5, <1>9, <1>13

----------------------------------------------------------------------------
(* The times *)

\* The settings that the two commands change.
BucketOf(c) == IF c = "SetACChargeTimeBucket" THEN "GetACChargeTimeBucket"
                                              ELSE "GetACSupplyTimeBucket"
AsItem(t) == Item(4, 100 * t.clock[1].value + t.clock[2].value)

\* The hours and minutes of both times are fields of the frame.
LEMMA TimesAreSent ==
    ASSUME NEW c \in Buckets, NEW a \in Seq(Text), NEW args, From(a, c, args),
           \A t \in Range(a) : ~ Odd(t), NEW junk,
           NEW f, f.fields = PackArguments(c, args, junk)
    PROVE  /\ \A i \in 1 .. 2 : \A k \in 1 .. 2 : a[i].clock[k].value \in Nat
           /\ f.fields[1].value = a[1].clock[1].value
           /\ f.fields[2].value = a[1].clock[2].value
           /\ f.fields[4].value = a[2].clock[1].value
           /\ f.fields[5].value = a[2].clock[2].value
  <1>1. args = [i \in 1 .. 4 |->
                  LET bound == a[(i + 1) \div 2]
                  IN Numeral(bound.clock[1 + ((i + 1) % 2)].value % 65536)]
    BY SMT DEF From, Rewritten, Buckets
  <1>2. Checks(c, a) = IF a[1].clock = <<>> \/ a[2].clock = <<>>
                       THEN <<"refused">>
                       ELSE <<BucketTime(a[1]), BucketTime(a[2])>>
    BY SMT DEF Checks, Buckets
  <1>3. a[1].clock # <<>> /\ a[2].clock # <<>>
    BY <1>2 DEF From, Passed
  <1>4. Len(a) = 2
    BY SMT DEF From, ArgumentCount, Buckets
  <1>5. \A i \in 1 .. 2 : IsText(a[i]) /\ ~ Odd(a[i])
    BY <1>4, ArgumentsOf
  <1>6. ASSUME NEW i \in 1 .. 2, NEW k \in 1 .. 2
        PROVE  a[i].clock[k].value \in Nat /\ a[i].clock[k].value < 65536
    <2>1. a[i].clock # <<>>
      BY <1>3
    <2>2. Plain(a[i].clock[k]) /\ IsPart(a[i].clock[k])
      BY <1>5, <2>1 DEF Odd, IsText
    <2> DEFINE part == a[i].clock[k]
    <2>3. Plain(part) /\ IsPart(part)
      BY <2>2
    <2> HIDE DEF part
    <2>4. part.value \in Nat /\ part.value < 65536
      BY <2>3, SMT DEF Plain, IsPart
    <2> QED
      BY <2>4 DEF part
  <1>7. \A n \in Nat : n < 65536 => Numeral(n % 65536).value = n
    <2> TAKE n \in Nat
    <2>1. n < 65536 => n % 65536 = n
      BY SMT
    <2> QED
      BY <2>1, WordsDiffer
  <1>8. /\ args[1].value = a[1].clock[1].value /\ args[2].value = a[1].clock[2].value
        /\ args[3].value = a[2].clock[1].value /\ args[4].value = a[2].clock[2].value
    <2>1. /\ (1 + 1) \div 2 = 1 /\ 1 + ((1 + 1) % 2) = 1
          /\ (2 + 1) \div 2 = 1 /\ 1 + ((2 + 1) % 2) = 2
          /\ (3 + 1) \div 2 = 2 /\ 1 + ((3 + 1) % 2) = 1
          /\ (4 + 1) \div 2 = 2 /\ 1 + ((4 + 1) % 2) = 2
      BY SMT
    <2>2. /\ args[1] = Numeral(a[1].clock[1].value % 65536)
          /\ args[2] = Numeral(a[1].clock[2].value % 65536)
          /\ args[3] = Numeral(a[2].clock[1].value % 65536)
          /\ args[4] = Numeral(a[2].clock[2].value % 65536)
      <3> DEFINE part(i) == a[(i + 1) \div 2].clock[1 + ((i + 1) % 2)].value
      <3>1. args = [i \in 1 .. 4 |-> Numeral(part(i) % 65536)]
        BY <1>1
      <3>2. /\ part(1) = a[1].clock[1].value /\ part(2) = a[1].clock[2].value
            /\ part(3) = a[2].clock[1].value /\ part(4) = a[2].clock[2].value
        BY <2>1
      <3> HIDE DEF part
      <3>3. \A i \in 1 .. 4 : args[i] = Numeral(part(i) % 65536)
        BY <3>1
      <3> QED
        BY <3>2, <3>3
    <2>3. ASSUME NEW i \in 1 .. 2, NEW k \in 1 .. 2
          PROVE  Numeral(a[i].clock[k].value % 65536).value = a[i].clock[k].value
      <3> DEFINE n == a[i].clock[k].value
      <3>1. n \in Nat /\ n < 65536
        BY <1>6
      <3> HIDE DEF n
      <3>2. Numeral(n % 65536).value = n
        BY <1>7, <3>1
      <3> QED
        BY <3>2 DEF n
    <2> DEFINE kept(n) == Numeral(n % 65536).value = n
    <2>4. \A i \in 1 .. 2 : \A k \in 1 .. 2 : kept(a[i].clock[k].value)
      BY <2>3
    <2> HIDE DEF kept
    <2>5. /\ kept(a[1].clock[1].value) /\ kept(a[1].clock[2].value)
          /\ kept(a[2].clock[1].value) /\ kept(a[2].clock[2].value)
      BY <2>4
    <2> DEFINE p == a[1].clock[1].value
               q == a[1].clock[2].value
               r == a[2].clock[1].value
               s == a[2].clock[2].value
    <2>6. /\ args[1] = Numeral(p % 65536) /\ args[2] = Numeral(q % 65536)
          /\ args[3] = Numeral(r % 65536) /\ args[4] = Numeral(s % 65536)
          /\ kept(p) /\ kept(q) /\ kept(r) /\ kept(s)
      BY <2>2, <2>5
    <2> HIDE DEF p, q, r, s
    <2>7. /\ args[1].value = p /\ args[2].value = q
          /\ args[3].value = r /\ args[4].value = s
      BY <2>6 DEF kept
    <2> QED
      BY <2>7 DEF p, q, r, s
  <1>9. f.fields = <<Wide(2, args[1].value), Wide(2, args[2].value), Comma,
                     Wide(2, args[3].value), Wide(2, args[4].value)>>
    BY SMT DEF PackArguments, Buckets
  <1>10. /\ f.fields[1].value = args[1].value /\ f.fields[2].value = args[2].value
         /\ f.fields[4].value = args[3].value /\ f.fields[5].value = args[4].value
    BY <1>9 DEF Wide
  <1> QED
    BY <1>6, <1>8, <1>10

\* Both times of a bucket come back as they were given.
LEMMA TimesAreShown ==
    ASSUME InverterOK(inverter), NEW c \in Buckets,
           NEW a \in Seq(Text), NEW args, From(a, c, args),
           \A t \in Range(a) : ~ Odd(t), NEW junk,
           NEW f, f.code = RawCommands[c], f.fields = PackArguments(c, args, junk)
    PROVE  \A i \in 1 .. 2 : Applied(f)[BucketOf(c)].items[i] = AsItem(a[i])
  <1> DEFINE g == BucketOf(c)
             b == inverter[g]
             x == Clock(f, 1)
             y == Clock(f, 4)
             s == Set(b.items, 1, x)
             d == Set(s, 2, y)
  <1>1. x = 100 * a[1].clock[1].value + a[1].clock[2].value
          /\ y = 100 * a[2].clock[1].value + a[2].clock[2].value
    <2>1. x = 100 * f.fields[1].value + f.fields[2].value
            /\ y = 100 * f.fields[4].value + f.fields[5].value
      BY DEF Clock
    <2>2. /\ f.fields[1].value = a[1].clock[1].value
          /\ f.fields[2].value = a[1].clock[2].value
          /\ f.fields[4].value = a[2].clock[1].value
          /\ f.fields[5].value = a[2].clock[2].value
      BY TimesAreSent
    <2> HIDE DEF x, y
    <2> QED
      BY <2>1, <2>2, Zenon
  <1>2. g \in {"GetACChargeTimeBucket", "GetACSupplyTimeBucket"} /\ g \in Settings
    BY DEF BucketOf, Settings
  <1>3. Applied(f) = [inverter EXCEPT ![g] = [b EXCEPT !.items = d]]
    <2>1. CASE c = "SetACChargeTimeBucket"
      <3>1. f.code = "ACCT" /\ "ACCT" \notin DOMAIN Slots
        BY <2>1, CodesAre, SlotsAre
      <3> QED
        BY <2>1, <3>1, SMT DEF Applied, BucketOf
    <2>2. CASE c = "SetACSupplyTimeBucket"
      <3>1. f.code = "ACLT" /\ "ACLT" \notin DOMAIN Slots
        BY <2>2, CodesAre, SlotsAre
      <3> QED
        BY <2>2, <3>1, SMT DEF Applied, BucketOf
    <2> QED
      BY <2>1, <2>2 DEF Buckets
  <1>4. Applied(f)[g].items = d
    <2>1. inverter \in [Settings -> Answers] /\ "items" \in DOMAIN b
      BY <1>2 DEF InverterOK, Answers
    <2> HIDE DEF b, d, g
    <2> QED
      BY <1>2, <1>3, <2>1
  <1>5. /\ 1 \in DOMAIN b.items /\ b.items[1] \in AnItem /\ b.items[1].size = 4
        /\ 2 \in DOMAIN b.items /\ b.items[2] \in AnItem /\ b.items[2].size = 4
    <2> DEFINE q == b.items
    <2>1. q \in Seq(AnItem) /\ \A i \in 1 .. 2 : i \in DOMAIN q /\ q[i].size = 4
      BY <1>2, ItemsOfSettings
    <2> HIDE DEF q
    <2>2. 1 \in DOMAIN q /\ q[1].size = 4 /\ 2 \in DOMAIN q /\ q[2].size = 4
      BY <2>1
    <2> QED
      BY <2>1, <2>2, ElementOfSeq, LenProperties DEF q
  <1> HIDE DEF x, y
  <1>6. \A item \in AnItem : \A value :
           item.size = 4 => [item EXCEPT !.value = value] = Item(4, value)
    BY DEF AnItem, Item
  <1>7. d[1] = Item(4, x) /\ d[2] = Item(4, y)
    <2> DEFINE q == b.items
    <2>1. q[1] \in AnItem /\ q[1].size = 4 /\ q[2] \in AnItem /\ q[2].size = 4
            /\ 1 \in DOMAIN q /\ 2 \in DOMAIN q
      BY <1>5
    <2>2. d = [[q EXCEPT ![1].value = x] EXCEPT ![2].value = y]
      BY DEF Set
    <2> HIDE DEF q
    <2>3. d[1] = [q[1] EXCEPT !.value = x] /\ d[2] = [q[2] EXCEPT !.value = y]
      BY <2>1, <2>2
    <2> QED
      BY <1>6, <2>1, <2>3
  <1>8. d[1] = AsItem(a[1]) /\ d[2] = AsItem(a[2])
    BY <1>1, <1>7 DEF AsItem
  <1> HIDE DEF d, g
  <1>9. \A i \in 1 .. 2 : d[i] = AsItem(a[i])
    BY <1>8
  <1> QED
    BY <1>4, <1>9 DEF g

LEMMA MeaningsOfCommands ==
    /\ ChoiceCommands \subseteq SetCommands /\ Buckets \subseteq SetCommands
    /\ Voltages \subseteq SetCommands /\ Counted \subseteq SetCommands
    /\ "SetFlag" \in SetCommands /\ SetCommands \cap GetCommands = {}
    /\ NoAnswer.said # Yes
  BY DEF ChoiceCommands, Worded1, Worded2, Buckets, Voltages, Counted, SetCommands,
         GetCommands, NoAnswer, Yes

\* What SettingIsShown says of an inverter.
Settled(c, a, inv) ==
    /\ IsShown(c, a, inv.GetRatedInformation.items)
    /\ c \in ChoiceCommands =>
          RatedShown(LineOf[c], inv.GetRatedInformation.items) =
              ChoiceMeant(c, a[Len(a)])
    /\ (c = "SetFlag" /\ a[1].word \in DOMAIN UsageOfFlags) =>
          (FlagShown(UsageOfFlags[a[1].word], inv.GetFlagsAndStatuses.items)
              <=> a[2].value = 1)
    /\ c \in Buckets =>
          \A i \in 1 .. 2 : inv[BucketOf(c)].items[i] = AsItem(a[i])

LEMMA SettledIsShown ==
    SettingIsShown <=>
        ((Ctl /\ answer.said = Yes /\ \A t \in Range(Tail(line.words)) : ~ Odd(t))
            => Settled(command, Tail(line.words), inverter))
  BY ChoiceLines DEF SettingIsShown, Settled, IsShown, BucketOf, AsItem, Buckets

\* It depends on no other variable.
LEMMA SettledAfter ==
    (SettingIsShown <=>
        ((Ctl /\ answer.said = Yes /\ \A t \in Range(Tail(line.words)) : ~ Odd(t))
            => Settled(command, Tail(line.words), inverter)))'
  BY ChoiceLines DEF SettingIsShown, Settled, IsShown, BucketOf, AsItem, Buckets

\* A get command asks for no setting.
LEMMA NothingAsked ==
    \A c, a, inv : c \notin SetCommands => Settled(c, a, inv)
  <1> SUFFICES ASSUME NEW c, NEW a, NEW inv, c \notin SetCommands
               PROVE  Settled(c, a, inv)
    OBVIOUS
  <1>1. c \notin Voltages \union Counted /\ c \notin ChoiceCommands /\ c \notin Buckets
           /\ c # "SetFlag"
    BY MeaningsOfCommands
  <1>2. Meant(c, a) = {}
    BY <1>1, OthersMeanNothing
  <1> QED
    BY <1>1, <1>2 DEF Settled, IsShown

LEMMA AppliedSettles ==
    ASSUME InverterOK(inverter), NEW c \in SetCommands,
           NEW a \in Seq(Text), NEW args, From(a, c, args),
           \A t \in Range(a) : ~ Odd(t), NEW junk,
           NEW f, f.code = RawCommands[c], f.fields = PackArguments(c, args, junk)
    PROVE  Settled(c, a, Applied(f))
  <1>1. IsShown(c, a, Applied(f).GetRatedInformation.items)
    <2>1. CASE c \in Voltages
      BY <2>1, VoltagesAreShown DEF Rated
    <2>2. CASE c \in Counted
      BY <2>2, NumbersAreShown DEF Rated
    <2>3. CASE c \notin Voltages \union Counted
      BY <2>3, OthersMeanNothing DEF IsShown
    <2> QED
      BY <2>1, <2>2, <2>3
  <1>2. c \in ChoiceCommands =>
          RatedShown(LineOf[c], Applied(f).GetRatedInformation.items) =
              ChoiceMeant(c, a[Len(a)])
    BY ChoiceIsShown DEF Rated
  <1>3. (c = "SetFlag" /\ a[1].word \in DOMAIN UsageOfFlags) =>
          (FlagShown(UsageOfFlags[a[1].word], Applied(f).GetFlagsAndStatuses.items)
              <=> a[2].value = 1)
    BY FlagIsShown
  <1>4. c \in Buckets =>
          \A i \in 1 .. 2 : Applied(f)[BucketOf(c)].items[i] = AsItem(a[i])
    BY TimesAreShown
  <1> QED
    BY <1>1, <1>2, <1>3, <1>4 DEF Settled

\* The inverter that says yes has taken the frame of the command line.
LEMMA AnswerSettles ==
    ASSUME IInv, CommandOfLine, Answer
    PROVE  SettingIsShown'
  <1> DEFINE a == Tail(line.words)
  <1>1. UNCHANGED <<line, command>>
    BY DEF Answer
  <1> SUFFICES ASSUME Ctl, answer'.said = Yes, \A t \in Range(a) : ~ Odd(t)
               PROVE  Settled(command, a, inverter')
    BY <1>1, SettledAfter DEF Ctl
  <1>2. CASE command \notin SetCommands
    BY <1>2, NothingAsked
  <1>3. CASE command \in SetCommands
    <2>1. CASE inverter' = Applied(frame)
      <3>1. command \in Commands /\ config.action # "raw" /\ stage = "answer"
        BY <1>3 DEF Answer, Commands
      <3>2. PICK junk \in Junk : frame = Frame(command, arguments, junk)
        BY <3>1 DEF IInv, FrameInv
      <3>3. /\ frame.code = RawCommands[command]
            /\ frame.fields = PackArguments(command, arguments, junk)
        BY <3>2, FrameIs
      <3>4. line.words # <<>> /\ From(a, command, arguments)
        BY <3>1 DEF CommandOfLine
      <3>5. a \in Seq(Text)
        BY <3>1, <3>4, WordsOfLine
      <3>6. InverterOK(inverter)
        BY DEF IInv
      <3> HIDE DEF a
      <3> QED
        BY <1>3, <2>1, <3>3, <3>4, <3>5, <3>6, AppliedSettles
    <2>2. CASE inverter' # Applied(frame)
      <3>1. command \notin GetCommands
        BY <1>3, MeaningsOfCommands
      <3>2. \A x, y : [NoAnswer EXCEPT !.said = x, !.bytes = y].said = x
        BY DEF NoAnswer
      <3>3. \A c, d, y : [Data(c, d) EXCEPT !.bytes = y].said = NoAnswer.said
        BY DEF NoAnswer, Data
      <3>4. CASE config.device = "pseudo"
        <4>1. PICK d : answer' = [Data("GetGeneralStatus", d) EXCEPT !.bytes = Reply(D)]
          BY <3>4 DEF Answer
        <4> QED
          BY <3>3, <4>1, MeaningsOfCommands
      <3>5. CASE config.device # "pseudo"
        <4>1. PICK says, bytes :
                 /\ inverter' = IF says = Yes THEN Applied(frame) ELSE inverter
                 /\ answer' = [NoAnswer EXCEPT !.said = says, !.bytes = bytes]
          BY <3>1, <3>5 DEF Answer
        <4>2. says = Yes
          BY <3>2, <4>1
        <4> QED
          BY <2>2, <4>1, <4>2
      <3> QED
        BY <3>4, <3>5
    <2> QED
      BY <2>1, <2>2
  <1> QED
    BY <1>2, <1>3

LEMMA SettingIsKept ==
    ASSUME SettingIsShown, UNCHANGED <<line, command, answer, inverter>>
    PROVE  SettingIsShown'
  BY SettledIsShown, SettledAfter DEF Ctl

\* Every step keeps it; it becomes true with the answer that said yes.
LEMMA NextKeepsSetting ==
    IInv /\ CommandOfLine /\ SettingIsShown /\ [Next]_vars => SettingIsShown'
  <1> SUFFICES ASSUME IInv, CommandOfLine, SettingIsShown, [Next]_vars
               PROVE  SettingIsShown'
    OBVIOUS
  <1>1. CASE UNCHANGED <<line, command, answer, inverter>>
    BY <1>1, SettingIsKept
  <1>2. ASSUME NEW words, Take(words) PROVE SettingIsShown'
    BY <1>2, SettledAfter, MeaningsOfCommands DEF Take
  <1>3. CASE TakeWords
    BY <1>1, <1>2, <1>3 DEF TakeWords, request
  <1>4. ASSUME NEW words, Execute(words) PROVE SettingIsShown'
    BY <1>2, <1>4 DEF Execute
  <1>5. CASE Send
    BY <1>1, <1>5 DEF Send
  <1>6. CASE Answer
    BY <1>6, AnswerSettles
  <1>7. CASE TakeOption
    <2>1. UNCHANGED <<line, request, inverter>>
      BY <1>7 DEF TakeOption, Return, Abort
    <2> QED
      BY <1>1, <2>1 DEF request
  <1>8. CASE OpenDevice \/ Start \/ ShutDown
    <2>1. OpenDevice => UNCHANGED <<line, request, inverter>>
      BY DEF OpenDevice
    <2>2. Start => UNCHANGED <<line, request, inverter>>
      BY SMT DEF Start
    <2>3. ShutDown => UNCHANGED <<line, request, inverter>>
      BY DEF ShutDown
    <2> QED
      BY <1>1, <1>8, <2>1, <2>2, <2>3 DEF request
  <1>9. CASE DeviceFails \/ AnswerRaw \/ Read
    <2>1. UNCHANGED <<line, request, inverter>>
      BY <1>9 DEF DeviceFails, AnswerRaw, Read
    <2> QED
      BY <1>1, <2>1 DEF request
  <1>10. CASE Ended \/ UNCHANGED vars
    BY <1>1, <1>10 DEF Ended, vars
  <1> QED
    BY <1>3, <1>4, <1>5, <1>6, <1>7, <1>8, <1>9, <1>10 DEF Next

LEMMA InitSetting == Init => SettingIsShown
  BY SettledIsShown, MeaningsOfCommands DEF Init

\* main() and validate_input go on with a command when the arguments on its line
\* are what the usage text asks for, except at 58.4 V and for years outside of
\* 2000 to 2099, and with nothing but such arguments, whose numbers may be written
\* in the ways that Tolerated names; for command lines of any words.
THEOREM LinesAreDocumented == Spec => []AcceptsDocumented
  <1> QED
    BY InitCommandOfLine, Invariance, NextKeepsCommand, LineIsDocumented, PTL
    DEF Spec

\* When the inverter takes a setting, get-rated, get-flags and the time buckets
\* then show what the words of the command line meant: validate_input, the
\* marshalling of the client and the response classes agree, for any command
\* line and whatever the inverter was set to before.
THEOREM SettingsAreShown == Spec => []SettingIsShown
  <1> QED
    BY InitCommandOfLine, InitSetting, Invariance, NextKeepsCommand,
       NextKeepsSetting, PTL DEF Spec
==============================================================================
