---------------------------- MODULE AnswersProofs ----------------------------
(***************************************************************************)
(* What a request to the inverter may be and how it may end, for any       *)
(* command lines, requests and answers.                                    *)
(***************************************************************************)
EXTENDS Programs, SequenceTheorems, FiniteSetTheorems, WellFoundedInduction,
        TLAPS

----------------------------------------------------------------------------
(* Texts *)

LEMMA TensFinite == IsFiniteSet(Tens)
  <1>1. \A ten \in Tens : ten \in Nat
    BY SMT DEF Tens
  <1>2. \A ten \in Tens : ten <= 1000000000
    BY SMT DEF Tens
  <1>3. \E n \in Nat : \A ten \in Tens : ten <= n
    BY <1>2, SMT
  <1> QED
    BY <1>1, <1>3, FS_BoundedSetOfNaturals

LEMMA WidthType == \A n : Width(n) \in Nat /\ Width(n) > 0
  <1> TAKE n
  <1> DEFINE below == {ten \in Tens : n >= ten}
  <1>1. below \subseteq Tens
    OBVIOUS
  <1>2. IsFiniteSet(below)
    BY <1>1, TensFinite, FS_Subset
  <1>3. Cardinality(below) \in Nat
    BY <1>2, FS_CardinalityType
  <1> QED
    BY <1>3 DEF Width

\* The texts of a command line or a request, what stands for its options among
\* the words, and the numbers that validate_input prints.
Text == AllTexts \union {Word("--option")} \union {Numeral(n) : n \in Nat}

\* The number n as it is printed.
NumeralFacts(n) ==
    /\ IsText(Numeral(n))
    /\ Numeral(n).value = n /\ Numeral(n).wraps = 0
    /\ Numeral(n).size = Width(n) /\ Numeral(n).volts = 100 * n
    /\ Numeral(n).digits /\ Numeral(n).clock = <<>>
    /\ Numeral(n).whole = "number" /\ Numeral(n).real = "number"

LEMMA NumeralType == \A n \in Nat : NumeralFacts(n)
  <1> TAKE n \in Nat
  <1>1. PICK w \in Nat : Width(n) = w /\ w > 0
    BY WidthType
  <1>2. /\ Numeral(n).value = n /\ Numeral(n).wraps = 0
        /\ Numeral(n).size = w /\ Numeral(n).volts = 100 * n
        /\ Numeral(n).clock = <<>>
        /\ Numeral(n).whole = "number" /\ Numeral(n).real = "number"
    BY <1>1 DEF Numeral, Word
  <1>3. Numeral(n).digits
    BY DEF Numeral, Word
  <1>4. IsPart(Numeral(n))
    BY <1>1, <1>2, <1>3 DEF IsPart, Finds
  <1> QED
    BY <1>1, <1>2, <1>3, <1>4 DEF NumeralFacts, IsText

LEMMA WordType == \A w : IsText(Word(w)) /\ Word(w).word = w
                            /\ Word(w).wraps = 0 /\ Word(w).clock = <<>>
                            /\ Word(w).whole = "nothing" /\ Word(w).real = "nothing"
  <1> TAKE w
  <1>1. /\ Word(w).value = 0 /\ Word(w).wraps = 0
        /\ Word(w).size = 0 /\ Word(w).volts = 0
        /\ Word(w).clock = <<>> /\ Word(w).word = w
        /\ Word(w).whole = "nothing" /\ Word(w).real = "nothing"
    BY DEF Word
  <1>2. Word(w).digits \in BOOLEAN /\ ~ Word(w).digits
    BY DEF Word
  <1>3. IsPart(Word(w))
    BY <1>1, <1>2 DEF IsPart, Finds
  <1> QED
    BY <1>1, <1>3 DEF IsText

LEMMA TextType == \A t \in Text : IsText(t)
  <1>1. \A n \in Nat : IsText(Numeral(n))
    BY NumeralType DEF NumeralFacts
  <1> QED
    BY <1>1, WordType, WordsAssumption DEF Text

----------------------------------------------------------------------------
(* Verdicts *)

\* A set of numbers that is not empty has a least one.
LEMMA Least ==
    ASSUME NEW T \in SUBSET Nat, T # {}
    PROVE  \E x \in T : \A y \in T : x <= y
  <1> DEFINE L == {p \in Nat \X Nat : p[1] < p[2]}
  <1>1. IsWellFoundedOn(OpToRel(<, Nat), Nat)
    BY NatLessThanWellFounded
  <1>2. OpToRel(<, Nat) = L
    BY DEF OpToRel
  <1>3. IsWellFoundedOn(L, Nat)
    BY <1>1, <1>2
  <1>4. \A x, y \in Nat : y < x => <<y, x>> \in L
    OBVIOUS
  <1> HIDE DEF L
  <1>5. PICK x \in T : \A y \in T : ~ (<<y, x>> \in L)
    BY <1>3, WFMin
  <1>6. ASSUME NEW y \in T PROVE x <= y
    <2>1. x \in Nat /\ y \in Nat
      OBVIOUS
    <2>2. y < x => <<y, x>> \in L
      BY <1>4, <2>1
    <2> QED
      BY <1>5, <2>1, <2>2
  <1> QED
    BY <1>6

\* The first check that does not let an argument through decides.
LEMMA FirstOfMeans ==
    ASSUME NEW S, NEW s \in Seq(S)
    PROVE  /\ FirstOf(s) = "accepted" => \A i \in DOMAIN s : s[i] = "accepted"
           /\ FirstOf(s) # "accepted" => \E i \in DOMAIN s : s[i] = FirstOf(s)
  <1> DEFINE failing == {i \in DOMAIN s : s[i] # "accepted"}
  <1>1. CASE failing = {}
    BY <1>1 DEF FirstOf
  <1>2. CASE failing # {}
    <2>1. failing \subseteq Nat
      BY LenProperties
    <2>2. \E n \in failing : \A m \in failing : n <= m
      BY <1>2, <2>1, Least
    <2>3. Min(failing) \in failing
      BY <2>2 DEF Min
    <2>4. FirstOf(s) = s[Min(failing)]
      BY <1>2 DEF FirstOf
    <2> QED
      BY <2>3, <2>4
  <1> QED
    BY <1>1, <1>2

----------------------------------------------------------------------------
(* Arguments *)

Passed(checks) == \A i \in DOMAIN checks : checks[i] = "accepted"

\* What validate_input may leave of the words of a request.
Validated(c, args) ==
    \E a \in Seq(Text) : /\ Len(a) = ArgumentCount(c)
                         /\ Passed(Checks(c, a))
                         /\ args = Rewritten(c, a)

Count(c) == IF c \in Buckets THEN 4 ELSE ArgumentCount(c)

\* The commands with a word of a table, and the commands with voltages.
Worded1 == {"SetOutputSourcePriority", "SetSolarPowerPriority",
            "SetACInputVoltageRange", "SetBatteryType"}
Worded2 == {"SetChargeSourcePriority", "SetOutputMode"}
Voltages == {"SetBatteryMaxChargeVoltage", "SetBatteryChargeThresholds",
             "SetBatteryCutOffVoltage"}

\* What packArguments finds in them: texts, the index of a word of the table,
\* voltages that are not negative and years of this century.
Packable(c, args) ==
    /\ args \in Seq(Text) /\ Len(args) = Count(c)
    /\ c \in Worded1 => args[1].value < Len(Wordings(c))
    /\ c \in Worded2 => args[2].value < Len(Wordings(c))
    /\ c = "SetFlag" => args[1].value < Len(Flags) /\ args[2].value \in 0 .. 1
    /\ c \in Voltages =>
          \A i \in 1 .. Count(c) : args[i].volts = NaN \/ args[i].volts >= 0
    /\ c = "SetDateTime" => args[1].value >= 2000

LEMMA IndexInList ==
    ASSUME NEW list, Len(list) \in Nat, DOMAIN list = 1 .. Len(list),
           NEW t \in Range(list)
    PROVE  IndexOf(list, t) \in Nat /\ IndexOf(list, t) < Len(list)
  <1>1. \E i \in DOMAIN list : list[i] = t
    BY DEF Range
  <1>2. (CHOOSE i \in DOMAIN list : list[i] = t) \in DOMAIN list
    BY <1>1
  <1> QED
    BY <1>2 DEF IndexOf

IsList(list) == Len(list) \in Nat /\ DOMAIN list = 1 .. Len(list)

\* How many words there are for each command.
Wordy(c) ==
    CASE c \in {"SetOutputSourcePriority", "SetSolarPowerPriority",
                "SetACInputVoltageRange"} -> 2
      [] c \in {"SetChargeSourcePriority", "SetBatteryType"} -> 3
      [] c = "SetOutputMode" -> 5

LEMMA ListsOfWords ==
    /\ \A c \in Worded1 \union Worded2 :
          IsList(Wordings(c)) /\ Len(Wordings(c)) = Wordy(c)
    /\ IsList(Flags) /\ Len(Flags) = 9
  <1>1. IsList(Flags) /\ Len(Flags) = 9
    BY SMT DEF Flags, IsList
  <1>2. ASSUME NEW c \in Worded1 \union Worded2
        PROVE  IsList(Wordings(c)) /\ Len(Wordings(c)) = Wordy(c)
    <2>1. CASE c = "SetOutputSourcePriority"
      BY <2>1 DEF Wordings, IsList, Wordy
    <2>2. CASE c = "SetSolarPowerPriority"
      BY <2>2 DEF Wordings, IsList, Wordy
    <2>3. CASE c = "SetACInputVoltageRange"
      BY <2>3 DEF Wordings, IsList, Wordy
    <2>4. CASE c = "SetBatteryType"
      BY <2>4 DEF Wordings, IsList, Wordy
    <2>5. CASE c = "SetChargeSourcePriority"
      BY <2>5 DEF Wordings, IsList, Wordy
    <2>6. CASE c = "SetOutputMode"
      BY <2>6 DEF Wordings, IsList, Wordy
    <2> QED
      BY <1>2, <2>1, <2>2, <2>3, <2>4, <2>5, <2>6 DEF Worded1, Worded2
  <1> QED
    BY <1>1, <1>2

LEMMA OneOfMeans ==
    ASSUME NEW t, NEW list, OneOf(t, list) = "accepted"
    PROVE  t \in Range(list)
  BY DEF OneOf, Require

LEMMA DateArgsMean ==
    ASSUME NEW b, DateArgs(b)
    PROVE  b[1].value >= 2000
  <1>1. b[1].value \in 2000 .. 2099
    BY DEF DateArgs
  <1> QED
    BY <1>1, SMT

InSteps(n) == n >= 0
LEMMA StepsMean ==
    ASSUME NEW from \in Nat, NEW step \in Nat, NEW n \in Nat,
           NEW x \in Steps(from, step, n)
    PROVE  InSteps(x)
  <1>1. PICK i \in 0 .. n - 1 : x = from + step * i
    BY DEF Steps
  <1>2. step * i \in Nat
    BY SMT
  <1> QED
    BY <1>1, <1>2 DEF InSteps

LEMMA VoltagesMean ==
    ASSUME NEW c \in Voltages, NEW a \in Seq(Text), Len(a) = ArgumentCount(c),
           Passed(Checks(c, a))
    PROVE  \A i \in 1 .. Count(c) : a[i].volts = NaN \/ a[i].volts >= 0
  <1>1. \A i \in 1 .. Len(a) : a[i].volts \in Int
    BY TextType DEF IsText, IsPart
  <1>2. \A t : \A low, high \in Nat :
           t.volts \in Int /\ Require(~ OutOfRange(t, low, high)) = "accepted"
              => t.volts = NaN \/ t.volts >= 0
    BY SMT DEF Require, OutOfRange
  <1>3. CASE c = "SetBatteryMaxChargeVoltage"
    <2>1. Len(a) = 2 /\ Count(c) = 2
      BY <1>3, SMT DEF ArgumentCount, Count, Buckets
    <2>2. Checks(c, a) = <<Found(a[1].real), Found(a[2].real),
                           ChargeVoltage(a[1]), ChargeVoltage(a[2])>>
      BY <1>3, SMT DEF Checks
    <2>3. \A i \in 1 .. 2 : ChargeVoltage(a[i]) = "accepted"
      BY <2>2 DEF Passed
    <2> QED
      BY <1>1, <1>2, <2>1, <2>3 DEF ChargeVoltage
  <1>4. CASE c = "SetBatteryCutOffVoltage"
    <2>1. Len(a) = 1 /\ Count(c) = 1
      BY <1>4, SMT DEF ArgumentCount, Count, Buckets
    <2>2. Checks(c, a) = <<Found(a[1].real),
                           Require(~ OutOfRange(a[1], 4000, 4800))>>
      BY <1>4, SMT DEF Checks
    <2>3. Require(~ OutOfRange(a[1], 4000, 4800)) = "accepted"
      BY <2>2 DEF Passed
    <2> QED
      BY <1>1, <1>2, <2>1, <2>3
  <1>5. CASE c = "SetBatteryChargeThresholds"
    <2>1. Len(a) = 2 /\ Count(c) = 2
      BY <1>5, SMT DEF ArgumentCount, Count, Buckets
    <2>2. Checks(c, a) = <<Found(a[1].real), Found(a[2].real),
                           Require(a[1].volts \in RechargeVoltages),
                           Require(a[2].volts \in RedischargeVoltages)>>
      BY <1>5, SMT DEF Checks
    <2>3. a[1].volts \in RechargeVoltages /\ a[2].volts \in RedischargeVoltages
      BY <2>2 DEF Passed, Require
    <2>4. \A x \in RechargeVoltages : x >= 0
      BY StepsMean, SMT DEF RechargeVoltages, InSteps
    <2>5. \A x \in RedischargeVoltages : x >= 0
      BY StepsMean, SMT DEF RedischargeVoltages, InSteps
    <2> QED
      BY <2>1, <2>3, <2>4, <2>5
  <1> QED
    BY <1>3, <1>4, <1>5 DEF Voltages

LEMMA ArgumentsPackable ==
    ASSUME NEW c \in Commands, NEW args, Validated(c, args)
    PROVE  Packable(c, args)
  <1>1. PICK a \in Seq(Text) : /\ Len(a) = ArgumentCount(c)
                               /\ Passed(Checks(c, a))
                               /\ args = Rewritten(c, a)
    BY DEF Validated
  <1>2. CASE c \in Worded1
    <2>1. ArgumentCount(c) = 1 /\ Count(c) = 1
      BY <1>2, SMT DEF ArgumentCount, Count, Worded1, Buckets
    <2>2. Checks(c, a) = <<OneOf(a[1], Wordings(c))>>
      BY <1>2, SMT DEF Checks, Worded1
    <2>3. a[1] \in Range(Wordings(c))
      <3>1. OneOf(a[1], Wordings(c)) = "accepted"
        BY <1>1, <2>2 DEF Passed
      <3> QED
        BY <3>1, OneOfMeans
    <2>4. args = <<Numeral(IndexOf(Wordings(c), a[1]))>>
      BY <1>1, <1>2, SMT DEF Rewritten, Worded1
    <2> DEFINE n == IndexOf(Wordings(c), a[1])
    <2>5. n \in Nat /\ n < Len(Wordings(c))
      BY <1>2, <2>3, ListsOfWords, IndexInList DEF IsList
    <2>6. Numeral(n) \in Text /\ Numeral(n).value = n
      BY <2>5, NumeralType DEF NumeralFacts, Text
    <2>7. c \notin Worded2 /\ c \notin Voltages /\ c # "SetFlag" /\ c # "SetDateTime"
      BY <1>2 DEF Worded1, Worded2, Voltages
    <2> HIDE DEF n
    <2> QED
      BY <1>2, <2>1, <2>4, <2>5, <2>6, <2>7 DEF Packable, n
  <1>3. CASE c \in Worded2
    <2>1. ArgumentCount(c) = 2 /\ Count(c) = 2
      BY <1>3, SMT DEF ArgumentCount, Count, Worded2, Buckets
    <2>2. Checks(c, a) = <<Found(a[1].whole), Require(ValidParallelId(a[1])),
                           OneOf(a[2], Wordings(c))>>
      BY <1>3, SMT DEF Checks, Worded2
    <2>3. a[2] \in Range(Wordings(c))
      <3>1. OneOf(a[2], Wordings(c)) = "accepted"
        BY <1>1, <2>2 DEF Passed
      <3> QED
        BY <3>1, OneOfMeans
    <2>4. args = <<a[1], Numeral(IndexOf(Wordings(c), a[2]))>>
      BY <1>1, <1>3, SMT DEF Rewritten, Worded2
    <2> DEFINE n == IndexOf(Wordings(c), a[2])
    <2>5. n \in Nat /\ n < Len(Wordings(c))
      BY <1>3, <2>3, ListsOfWords, IndexInList DEF IsList
    <2>6. Numeral(n) \in Text /\ Numeral(n).value = n
      BY <2>5, NumeralType DEF NumeralFacts, Text
    <2>7. c \notin Worded1 /\ c \notin Voltages /\ c # "SetFlag" /\ c # "SetDateTime"
      BY <1>3 DEF Worded1, Worded2, Voltages
    <2>8. a[1] \in Text
      BY <1>1, <2>1
    <2> HIDE DEF n
    <2> QED
      BY <1>3, <2>1, <2>4, <2>5, <2>6, <2>7, <2>8 DEF Packable, n
  <1>4. CASE c = "SetFlag"
    <2>1. ArgumentCount(c) = 2 /\ Count(c) = 2
      BY <1>4, SMT DEF ArgumentCount, Count, Buckets
    <2>2. Checks(c, a) = <<Require(a[1].word \in Range(Flags)), ZeroOrOne(a[2])>>
      BY <1>4, SMT DEF Checks
    <2>3. a[1].word \in Range(Flags)
      <3>1. Require(a[1].word \in Range(Flags)) = "accepted"
        BY <1>1, <2>2 DEF Passed
      <3> QED
        BY <3>1 DEF Require
    <2>4. args = <<Numeral(IndexOf(Flags, a[1].word)), a[2]>>
      BY <1>1, <1>4, SMT DEF Rewritten
    <2> DEFINE n == IndexOf(Flags, a[1].word)
    <2>5. n \in Nat /\ n < Len(Flags)
      BY <2>3, ListsOfWords, IndexInList DEF IsList
    <2>6. Numeral(n) \in Text /\ Numeral(n).value = n
      BY <2>5, NumeralType DEF NumeralFacts, Text
    <2>7. c \notin Worded1 /\ c \notin Worded2 /\ c \notin Voltages
            /\ c # "SetDateTime"
      BY <1>4 DEF Worded1, Worded2, Voltages
    <2>8. a[2] \in {Numeral(0), Numeral(1)}
      <3>1. ZeroOrOne(a[2]) = "accepted"
        BY <1>1, <2>2 DEF Passed
      <3> QED
        BY <3>1 DEF ZeroOrOne, Require
    <2>9. a[2] \in Text /\ a[2].value \in 0 .. 1
      BY <1>1, <2>1, <2>8, NumeralType DEF NumeralFacts
    <2> HIDE DEF n
    <2> QED
      BY <1>4, <2>1, <2>4, <2>5, <2>6, <2>7, <2>9 DEF Packable, n
  <1>5. CASE c \in Buckets
    <2>1. ArgumentCount(c) = 2 /\ Count(c) = 4
      BY <1>5, SMT DEF ArgumentCount, Count, Buckets
    <2>2. a[1].clock # <<>> /\ a[2].clock # <<>>
      <3>1. Checks(c, a) = IF a[1].clock = <<>> \/ a[2].clock = <<>>
                           THEN <<"refused">>
                           ELSE <<BucketTime(a[1]), BucketTime(a[2])>>
        BY <1>5, SMT DEF Checks, Buckets
      <3> QED
        BY <1>1, <3>1 DEF Passed
    <2>3. \A i \in 1 .. 2 : a[i] \in Text
      <3>1. a \in Seq(Text) /\ Len(a) = 2
        BY <1>1, <2>1
      <3> QED
        BY <3>1
    <2>4. \A i, k \in 1 .. 2 : a[i].clock[k].value \in Nat
      BY <2>2, <2>3, TextType DEF IsText, IsPart
    <2>5. args = [i \in 1 .. 4 |->
                    LET bound == a[(i + 1) \div 2]
                    IN Numeral(bound.clock[1 + ((i + 1) % 2)].value % 65536)]
      BY <1>1, <1>5, SMT DEF Rewritten, Buckets
    <2>6. \A n \in Nat : n % 65536 \in Nat
      BY SMT
    <2>7. \A i \in 1 .. 4 : (i + 1) \div 2 \in 1 .. 2 /\ 1 + ((i + 1) % 2) \in 1 .. 2
      BY SMT
    <2>8. ASSUME NEW i \in 1 .. 4 PROVE args[i] \in Text
      <3> DEFINE n == a[(i + 1) \div 2].clock[1 + ((i + 1) % 2)].value
      <3>1. args[i] = Numeral(n % 65536)
        BY <2>5
      <3>2. n \in Nat
        BY <2>4, <2>7
      <3> HIDE DEF n
      <3>3. n % 65536 \in Nat
        BY <2>6, <3>2
      <3> QED
        BY <3>1, <3>3 DEF Text
    <2>9. args \in Seq(Text) /\ Len(args) = 4
      BY <2>5, <2>8, SMT
    <2>10. c \notin Worded1 /\ c \notin Worded2 /\ c \notin Voltages
             /\ c # "SetDateTime" /\ c # "SetFlag"
      BY <1>5 DEF Worded1, Worded2, Voltages, Buckets
    <2> QED
      BY <2>1, <2>9, <2>10 DEF Packable
  <1>6. CASE c \in Voltages
    <2>1. Rewritten(c, a) = a
      BY <1>6, SMT DEF Rewritten, Voltages
    <2>2. ArgumentCount(c) = Count(c)
      BY <1>6, SMT DEF Count, Voltages, Buckets
    <2>3. c \notin Worded1 /\ c \notin Worded2 /\ c # "SetFlag" /\ c # "SetDateTime"
      BY <1>6 DEF Worded1, Worded2, Voltages
    <2>4. \A i \in 1 .. Count(c) : a[i].volts = NaN \/ a[i].volts >= 0
      BY <1>1, <1>6, VoltagesMean
    <2> QED
      BY <1>1, <1>6, <2>1, <2>2, <2>3, <2>4 DEF Packable
  <1>7. CASE c = "SetDateTime"
    <2>1. Rewritten(c, a) = a
      BY <1>7, SMT DEF Rewritten
    <2>2. ArgumentCount(c) = 6 /\ Count(c) = 6
      BY <1>7, SMT DEF Count, Buckets, ArgumentCount
    <2>3. c \notin Worded1 /\ c \notin Worded2 /\ c # "SetFlag" /\ c \notin Voltages
      BY <1>7 DEF Worded1, Worded2, Voltages
    <2>4. a[1].value >= 2000
      <3>1. Checks(c, a) = <<Require(DateArgs(SubSeq(a, 1, 3))),
                             Require(TimeArgs(SubSeq(a, 4, 6)))>>
        BY <1>7, SMT DEF Checks
      <3> DEFINE b == SubSeq(a, 1, 3)
      <3>2. b[1] = a[1]
        BY <1>1, <2>2
      <3>3. Require(DateArgs(b)) = "accepted"
        BY <1>1, <3>1 DEF Passed
      <3> HIDE DEF b
      <3>4. DateArgs(b)
        BY <3>3 DEF Require
      <3>5. b[1].value >= 2000
        BY <3>4, DateArgsMean
      <3> QED
        BY <3>2, <3>5
    <2> QED
      BY <1>1, <1>7, <2>1, <2>2, <2>3, <2>4 DEF Packable
  <1>8. CASE c \notin Worded1 \union Worded2 \union Buckets \union Voltages
                        \union {"SetFlag", "SetDateTime"}
    <2>1. Rewritten(c, a) = a
      BY <1>8, SMT DEF Rewritten, Worded1, Worded2, Buckets
    <2>2. ArgumentCount(c) = Count(c)
      BY <1>8 DEF Count
    <2> QED
      BY <1>1, <1>8, <2>1, <2>2 DEF Packable
  <1> QED
    BY <1>2, <1>3, <1>4, <1>5, <1>6, <1>7, <1>8

----------------------------------------------------------------------------
(* What is thrown *)

\* A verdict on the arguments a: a number too large is thrown for one of them.
Fine(v, a) == v \in Verdicts /\ (v = "thrown" => \E k \in DOMAIN a : Huge(a[k]))

AllFine(checks, a) ==
    checks \in Seq(Verdicts) /\ \A i \in DOMAIN checks : Fine(checks[i], a)

LEMMA RequireIsFine == \A b, a : Fine(Require(b), a)
  BY DEF Fine, Require, Verdicts

LEMMA FoundMeans ==
    ASSUME NEW what \in Finds
    PROVE  /\ Found(what) \in Verdicts
           /\ Found(what) = "thrown" => what = "too much"
           /\ Found(what) = "accepted" => what = "number"
  BY DEF Found, Finds, Verdicts

LEMMA FoundIsFine ==
    ASSUME NEW a \in Seq(Text), NEW k \in DOMAIN a
    PROVE  Fine(Found(a[k].whole), a) /\ Fine(Found(a[k].real), a)
  <1>1. IsPart(a[k])
    BY TextType DEF IsText
  <1>2. a[k].whole \in Finds /\ a[k].real \in Finds
    BY <1>1 DEF IsPart
  <1>3. Found(a[k].whole) = "thrown" \/ Found(a[k].real) = "thrown" => Huge(a[k])
    BY <1>2, FoundMeans DEF Huge
  <1> QED
    BY <1>2, <1>3, FoundMeans DEF Fine

LEMMA BucketTimeIs ==
    ASSUME NEW t
    PROVE  \E v \in {"accepted", "refused"} :
              BucketTime(t) = FirstOf(<<Found(t.clock[1].whole),
                                        Found(t.clock[2].whole), v>>)
  <1> DEFINE v == Require(/\ t.clock[1].value % 65536 <= 23
                          /\ t.clock[2].value % 65536 <= 59)
  <1>1. BucketTime(t) = FirstOf(<<Found(t.clock[1].whole),
                                  Found(t.clock[2].whole), v>>)
    BY DEF BucketTime
  <1>2. v \in {"accepted", "refused"}
    BY DEF Require
  <1> HIDE DEF v
  <1> QED
    BY <1>1, <1>2

LEMMA BucketIsFine ==
    ASSUME NEW a \in Seq(Text), NEW k \in DOMAIN a, a[k].clock # <<>>
    PROVE  Fine(BucketTime(a[k]), a)
  <1> DEFINE h == a[k].clock[1]
             m == a[k].clock[2]
  <1>0. PICK v \in {"accepted", "refused"} :
            BucketTime(a[k]) = FirstOf(<<Found(h.whole), Found(m.whole), v>>)
    BY BucketTimeIs
  <1> DEFINE s == <<Found(h.whole), Found(m.whole), v>>
  <1>1. h.whole \in Finds /\ m.whole \in Finds
    BY TextType DEF IsText, IsPart
  <1>2. BucketTime(a[k]) = FirstOf(s)
    BY <1>0
  <1>3. h.whole = "too much" \/ m.whole = "too much" => Huge(a[k])
    <2>1. ASSUME NEW i \in 1 .. 2, a[k].clock[i].whole = "too much"
          PROVE  Huge(a[k])
      BY <2>1 DEF Huge
    <2>2. 1 \in 1 .. 2 /\ 2 \in 1 .. 2
      OBVIOUS
    <2> QED
      BY <2>1, <2>2
  <1> HIDE DEF h, m
  <1>4. Fine(Found(h.whole), a) /\ Fine(Found(m.whole), a) /\ Fine(v, a)
    BY <1>1, <1>3, FoundMeans DEF Fine, Verdicts
  <1>5. s \in Seq(Verdicts) /\ \A i \in DOMAIN s : Fine(s[i], a)
    <2>1. Found(h.whole) \in Verdicts /\ Found(m.whole) \in Verdicts
            /\ v \in Verdicts
      BY <1>4 DEF Fine
    <2> QED
      BY <1>4, <2>1
  <1> HIDE DEF s
  <1>6. FirstOf(s) # "accepted" => \E i \in DOMAIN s : s[i] = FirstOf(s)
    BY <1>5, FirstOfMeans
  <1>7. Fine("accepted", a)
    BY DEF Fine, Verdicts
  <1> QED
    BY <1>2, <1>5, <1>6, <1>7

LEMMA FineTuples ==
    ASSUME NEW a, NEW u, NEW v, NEW w, NEW x,
           Fine(u, a), Fine(v, a), Fine(w, a), Fine(x, a)
    PROVE  /\ AllFine(<<u>>, a) /\ AllFine(<<u, v>>, a)
           /\ AllFine(<<u, v, w>>, a) /\ AllFine(<<u, v, w, x>>, a)
  <1>1. u \in Verdicts /\ v \in Verdicts /\ w \in Verdicts /\ x \in Verdicts
    BY DEF Fine
  <1>2. AllFine(<<u>>, a)
    BY <1>1 DEF AllFine
  <1>3. AllFine(<<u, v>>, a)
    BY <1>1 DEF AllFine
  <1>4. AllFine(<<u, v, w>>, a)
    BY <1>1 DEF AllFine
  <1>5. AllFine(<<u, v, w, x>>, a)
    BY <1>1 DEF AllFine
  <1> QED
    BY <1>2, <1>3, <1>4, <1>5

\* What validate_input throws, it throws because of an argument that is huge.
LEMMA ChecksAreFine ==
    ASSUME NEW c, NEW a \in Seq(Text), Len(a) = ArgumentCount(c)
    PROVE  AllFine(Checks(c, a), a)
  <1> USE RequireIsFine, FoundIsFine, FineTuples
  <1>1. CASE c \in {"GetYearGenerated", "GetMonthGenerated", "GetDayGenerated"}
    <2>1. Checks(c, a) = <<Require(DateArgs(a))>>
      BY <1>1, SMT DEF Checks, Worded1, Worded2
    <2> QED
      BY <2>1 DEF ZeroOrOne, OneOf, ChargeVoltage
  <1>2. CASE c \in {"GetParallelRatedInformation", "GetParallelGeneralStatus"}
    <2>1. Checks(c, a) = <<Require(a[1].digits /\ a[1].size <= 1)>>
      BY <1>2, SMT DEF Checks, Worded1, Worded2
    <2> QED
      BY <2>1 DEF ZeroOrOne, OneOf, ChargeVoltage
  <1>3. CASE c = "SetACSupply"
    <2>1. Checks(c, a) = <<ZeroOrOne(a[1])>>
      BY <1>3, SMT DEF Checks, Worded1, Worded2
    <2> QED
      BY <2>1 DEF ZeroOrOne, OneOf, ChargeVoltage
  <1>4. CASE c = "SetFlag"
    <2>1. Checks(c, a) = <<Require(a[1].word \in Range(Flags)),
                           ZeroOrOne(a[2])>>
      BY <1>4, SMT DEF Checks, Worded1, Worded2
    <2> QED
      BY <2>1 DEF ZeroOrOne, OneOf, ChargeVoltage
  <1>5. CASE c \in {"SetBatteryMaxChargeCurrent", "SetBatteryMaxACChargeCurrent"}
    <2>1. Checks(c, a) = <<Found(a[1].whole),
                           Found(a[2].whole),
                           Require(ValidParallelId(a[1])),
                           Require(a[2].value <= 999)>>
      BY <1>5, SMT DEF Checks, Worded1, Worded2
    <2>2. Len(a) = 2
      BY <1>5, SMT DEF ArgumentCount, Worded2
    <2>3. 1 \in DOMAIN a /\ 2 \in DOMAIN a
      BY <2>2
    <2> DEFINE v == Require(ValidParallelId(a[1]))
               w == Require(a[2].value <= 999)
    <2>4. Fine(Found(a[1].whole), a)
      BY <2>3
    <2>5. Fine(Found(a[2].whole), a)
      BY <2>3
    <2>6. Fine(v, a)
      OBVIOUS
    <2>7. Fine(w, a)
      OBVIOUS
    <2>8. Checks(c, a) = <<Found(a[1].whole), Found(a[2].whole), v, w>>
      BY <2>1
    <2> HIDE DEF v, w
    <2> QED
      BY <2>8, <2>4, <2>5, <2>6, <2>7
  <1>6. CASE c = "SetACOutputFreq"
    <2>1. Checks(c, a) = <<Require(a[1] \in {Numeral(50), Numeral(60)})>>
      BY <1>6, SMT DEF Checks, Worded1, Worded2
    <2> QED
      BY <2>1 DEF ZeroOrOne, OneOf, ChargeVoltage
  <1>7. CASE c = "SetBatteryMaxChargeVoltage"
    <2>1. Checks(c, a) = <<Found(a[1].real),
                           Found(a[2].real),
                           ChargeVoltage(a[1]),
                           ChargeVoltage(a[2])>>
      BY <1>7, SMT DEF Checks, Worded1, Worded2
    <2>2. Len(a) = 2
      BY <1>7, SMT DEF ArgumentCount, Worded2
    <2>3. 1 \in DOMAIN a /\ 2 \in DOMAIN a
      BY <2>2
    <2>4. Fine(Found(a[1].real), a)
      BY <2>3 DEF ChargeVoltage
    <2>5. Fine(Found(a[2].real), a)
      BY <2>3 DEF ChargeVoltage
    <2>6. Fine(ChargeVoltage(a[1]), a)
      BY <2>3 DEF ChargeVoltage
    <2>7. Fine(ChargeVoltage(a[2]), a)
      BY <2>3 DEF ChargeVoltage
    <2> QED
      BY <2>1, <2>4, <2>5, <2>6, <2>7
  <1>8. CASE c = "SetACOutputVoltage"
    <2>1. Checks(c, a) = <<Found(a[1].whole),
                           Require(a[1].value \in OutputVoltages)>>
      BY <1>8, SMT DEF Checks, Worded1, Worded2
    <2>2. Len(a) = 1
      BY <1>8, SMT DEF ArgumentCount, Worded2
    <2>3. 1 \in DOMAIN a
      BY <2>2
    <2> QED
      BY <2>1, <2>3 DEF ZeroOrOne, OneOf, ChargeVoltage
  <1>9. CASE c \in Worded1
    <2>1. Checks(c, a) = <<OneOf(a[1], Wordings(c))>>
      BY <1>9, SMT DEF Checks, Worded1, Worded2
    <2> QED
      BY <2>1 DEF ZeroOrOne, OneOf, ChargeVoltage
  <1>10. CASE c = "SetBatteryChargeThresholds"
    <2>1. Checks(c, a) = <<Found(a[1].real),
                           Found(a[2].real),
                           Require(a[1].volts \in RechargeVoltages),
                           Require(a[2].volts \in RedischargeVoltages)>>
      BY <1>10, SMT DEF Checks, Worded1, Worded2
    <2>2. Len(a) = 2
      BY <1>10, SMT DEF ArgumentCount, Worded2
    <2>3. 1 \in DOMAIN a /\ 2 \in DOMAIN a
      BY <2>2
    <2> QED
      BY <2>1, <2>3 DEF ZeroOrOne, OneOf, ChargeVoltage
  <1>11. CASE c \in Worded2
    <2>1. Checks(c, a) = <<Found(a[1].whole),
                           Require(ValidParallelId(a[1])),
                           OneOf(a[2], Wordings(c))>>
      BY <1>11, SMT DEF Checks, Worded1, Worded2
    <2>2. Len(a) = 2
      BY <1>11, SMT DEF ArgumentCount, Worded2
    <2>3. 1 \in DOMAIN a /\ 2 \in DOMAIN a
      BY <2>2
    <2> QED
      BY <2>1, <2>3 DEF ZeroOrOne, OneOf, ChargeVoltage
  <1>12. CASE c = "SetBatteryCutOffVoltage"
    <2>1. Checks(c, a) = <<Found(a[1].real),
                           Require(~ OutOfRange(a[1], 4000, 4800))>>
      BY <1>12, SMT DEF Checks, Worded1, Worded2
    <2>2. Len(a) = 1
      BY <1>12, SMT DEF ArgumentCount, Worded2
    <2>3. 1 \in DOMAIN a
      BY <2>2
    <2> DEFINE v == Require(~ OutOfRange(a[1], 4000, 4800))
    <2>4. Fine(Found(a[1].real), a)
      BY <2>3
    <2>5. Fine(v, a)
      OBVIOUS
    <2>6. Checks(c, a) = <<Found(a[1].real), v>>
      BY <2>1
    <2> HIDE DEF v
    <2> QED
      BY <2>4, <2>5, <2>6
  <1>13. CASE c = "SetSolarConfig"
    <2>1. Checks(c, a) = <<Require(a[1].digits /\ a[1].size <= 20)>>
      BY <1>13, SMT DEF Checks, Worded1, Worded2
    <2> QED
      BY <2>1 DEF ZeroOrOne, OneOf, ChargeVoltage
  <1>14. CASE c = "SetDateTime"
    <2>1. Checks(c, a) = <<Require(DateArgs(SubSeq(a, 1, 3))),
                           Require(TimeArgs(SubSeq(a, 4, 6)))>>
      BY <1>14, SMT DEF Checks, Worded1, Worded2
    <2> QED
      BY <2>1 DEF ZeroOrOne, OneOf, ChargeVoltage
  <1>15. CASE c \in Buckets
    <2>1. Checks(c, a) = IF a[1].clock = <<>> \/ a[2].clock = <<>>
                         THEN <<"refused">>
                         ELSE <<BucketTime(a[1]), BucketTime(a[2])>>
      BY <1>15, SMT DEF Checks, Buckets
    <2>2. Len(a) = 2
      BY <1>15, SMT DEF ArgumentCount, Buckets
    <2>3. 1 \in DOMAIN a /\ 2 \in DOMAIN a
      BY <2>2
    <2>4. CASE a[1].clock = <<>> \/ a[2].clock = <<>>
      <3>1. Fine("refused", a)
        BY DEF Fine, Verdicts
      <3> QED
        BY <2>1, <2>4, <3>1
    <2>5. CASE a[1].clock # <<>> /\ a[2].clock # <<>>
      <3>1. Fine(BucketTime(a[1]), a) /\ Fine(BucketTime(a[2]), a)
        BY <2>3, <2>5, BucketIsFine
      <3> QED
        BY <2>1, <2>5, <3>1
    <2> QED
      BY <2>4, <2>5
  <1>16. CASE Checks(c, a) = <<>>
    BY <1>16 DEF AllFine
  <1> QED
    BY <1>1, <1>2, <1>3, <1>4, <1>5, <1>6, <1>7, <1>8, <1>9, <1>10, <1>11, <1>12, <1>13, <1>14, <1>15, <1>16
    DEF Checks, Worded1, Worded2, Buckets

\* What validate_input says of the words of a request: what it lets through
\* passes every check, and what it throws it throws because of one of them.
LEMMA ValidateInputMeans ==
    ASSUME NEW program, NEW c, NEW words \in Seq(Text)
    PROVE  /\ ValidateInput(program, c, words) \in Verdicts
           /\ ValidateInput(program, c, words) = "accepted" =>
                 /\ SubSeq(words, 1, ArgumentCount(c)) \in Seq(Text)
                 /\ Len(SubSeq(words, 1, ArgumentCount(c))) = ArgumentCount(c)
                 /\ Passed(Checks(c, SubSeq(words, 1, ArgumentCount(c))))
           /\ ValidateInput(program, c, words) = "thrown" =>
                 \E k \in DOMAIN words : Huge(words[k])
  <1> DEFINE n == ArgumentCount(c)
             a == SubSeq(words, 1, n)
             last == IF program = "inverterctl"
                     THEN <<Require(Len(words) = n)>> ELSE <<>>
             s == Checks(c, a) \o last
  <1>1. n \in Nat
    BY SMT DEF ArgumentCount
  <1>2. CASE Len(words) < n
    BY <1>2 DEF ValidateInput, Verdicts
  <1>3. CASE ~ (Len(words) < n)
    <2>1. ValidateInput(program, c, words) = FirstOf(s)
      BY <1>3 DEF ValidateInput
    <2>2. n <= Len(words) /\ Len(words) \in Nat
      BY <1>1, <1>3
    <2>3. /\ a \in Seq(Text) /\ Len(a) = n
          /\ \A k \in 1 .. n : a[k] = words[k] /\ k \in DOMAIN words
      BY <1>1, <2>2, SubSeqProperties
    <2>4. AllFine(Checks(c, a), a)
      BY <2>3, ChecksAreFine
    <2> DEFINE w == Require(Len(words) = n)
    <2>5. w \in {"accepted", "refused"}
      BY DEF Require
    <2>6. last \in Seq(Verdicts) /\ \A i \in DOMAIN last : last[i] # "thrown"
      <3>1. last = IF program = "inverterctl" THEN <<w>> ELSE <<>>
        OBVIOUS
      <3> HIDE DEF w, last
      <3>2. CASE program = "inverterctl"
        <4>1. w \in Verdicts /\ w # "thrown"
          BY <2>5 DEF Verdicts
        <4>2. last = <<w>>
          BY <3>1, <3>2
        <4> QED
          BY <4>1, <4>2
      <3>3. CASE program # "inverterctl"
        BY <3>1, <3>3
      <3> QED
        BY <3>2, <3>3
    <2> HIDE DEF w, last, a, n
    <2>7. Checks(c, a) \in Seq(Verdicts)
      BY <2>4 DEF AllFine
    <2>8. /\ s \in Seq(Verdicts)
          /\ Len(s) = Len(Checks(c, a)) + Len(last)
          /\ \A i \in 1 .. Len(s) :
                s[i] = IF i <= Len(Checks(c, a)) THEN Checks(c, a)[i]
                       ELSE last[i - Len(Checks(c, a))]
      BY <2>6, <2>7, ConcatProperties
    <2> DEFINE p == Checks(c, a)
    <2>9. p \in Seq(Verdicts) /\ Len(p) \in Nat /\ Len(last) \in Nat
      BY <2>6, <2>7, LenProperties
    <2>10. /\ s \in Seq(Verdicts)
           /\ \A i \in 1 .. Len(p) : i \in DOMAIN s /\ s[i] = p[i]
           /\ \A i \in DOMAIN s : s[i] = "thrown" => i \in DOMAIN p /\ s[i] = p[i]
      <3>1. DOMAIN s = 1 .. Len(s) /\ DOMAIN p = 1 .. Len(p)
              /\ DOMAIN last = 1 .. Len(last)
        BY <2>6, <2>8, <2>9, LenProperties
      <3> HIDE DEF s, p
      <3>2. ASSUME NEW i \in 1 .. Len(p) PROVE i \in DOMAIN s /\ s[i] = p[i]
        BY <2>8, <2>9, <3>1 DEF p
      <3>3. ASSUME NEW i \in DOMAIN s, s[i] = "thrown"
            PROVE  i \in DOMAIN p /\ s[i] = p[i]
        <4>1. CASE i <= Len(p)
          BY <2>8, <2>9, <3>1, <4>1 DEF p
        <4>2. CASE ~ (i <= Len(p))
          <5>1. i - Len(p) \in DOMAIN last
            BY <2>8, <2>9, <3>1, <4>2 DEF p
          <5>2. s[i] = last[i - Len(p)]
            BY <2>8, <2>9, <3>1, <4>2 DEF p
          <5> QED
            BY <2>6, <3>3, <5>1, <5>2
        <4> QED
          BY <4>1, <4>2
      <3> QED
        BY <2>8, <3>2, <3>3
    <2> HIDE DEF s, p
    <2>11. FirstOf(s) \in Verdicts
      BY <2>10, FirstOfMeans DEF Verdicts
    <2>12. FirstOf(s) = "accepted" => Passed(p)
      BY <2>9, <2>10, FirstOfMeans DEF Passed
    <2>13. FirstOf(s) = "thrown" => \E k \in DOMAIN a : Huge(a[k])
      <3>1. SUFFICES ASSUME FirstOf(s) = "thrown"
                     PROVE  \E k \in DOMAIN a : Huge(a[k])
        OBVIOUS
      <3>2. PICK i \in DOMAIN s : s[i] = "thrown"
        BY <2>10, <3>1, FirstOfMeans
      <3>3. i \in DOMAIN p /\ p[i] = "thrown"
        BY <2>10, <3>2
      <3> QED
        BY <2>4, <3>3 DEF AllFine, Fine, p
    <2> QED
      BY <2>1, <2>3, <2>11, <2>12, <2>13 DEF p, a, n
  <1> QED
    BY <1>2, <1>3

----------------------------------------------------------------------------
(* Frames *)

\* args is what validate_input leaves of a.
From(a, c, args) ==
    Len(a) = ArgumentCount(c) /\ Passed(Checks(c, a)) /\ args = Rewritten(c, a)

\* std::stoi throws only for an argument that was too large as it was given.
LEMMA WrapsAreHuge ==
    ASSUME NEW c \in Commands, NEW args, NEW a \in Seq(Text), From(a, c, args),
           ~ Packs(c, args)
    PROVE  \E k \in DOMAIN a : Huge(a[k])
  <1>1. PICK i \in IntegerArguments(c, args) : args[i].wraps # 0
    BY DEF Packs
  <1>2. Packable(c, args)
    BY ArgumentsPackable DEF From, Validated
  <1>3. args \in Seq(Text) /\ Len(args) = Count(c) /\ DOMAIN args = 1 .. Len(args)
    BY <1>2 DEF Packable
  <1>4. CASE c \in Buckets
    <2>1. IntegerArguments(c, args) = DOMAIN args /\ Count(c) = 4
      BY <1>4, SMT DEF IntegerArguments, Buckets, Count
    <2>2. i \in 1 .. 4
      BY <1>1, <1>3, <2>1
    <2> DEFINE n == a[(i + 1) \div 2].clock[1 + ((i + 1) % 2)].value
    <2>3. args = [j \in 1 .. 4 |->
                    LET bound == a[(j + 1) \div 2]
                    IN Numeral(bound.clock[1 + ((j + 1) % 2)].value % 65536)]
      BY <1>4, SMT DEF From, Rewritten, Buckets
    <2>4. args[i] = Numeral(n % 65536)
      BY <2>2, <2>3
    <2>5. \A m : Numeral(m).wraps = 0
      BY DEF Numeral, Word
    <2> QED
      BY <1>1, <2>4, <2>5
  <1>5. CASE c \notin Buckets
    <2>1. i \in DOMAIN args /\ IntegerArguments(c, args) # {}
      <3>1. CASE c \in {"GetMonthGenerated", "GetDayGenerated"}
        <4>1. IntegerArguments(c, args) = 2 .. Len(args)
          BY <3>1, SMT DEF IntegerArguments
        <4> QED
          BY <1>1, <1>3, <4>1
      <3>2. CASE c \in {"SetBatteryMaxChargeCurrent",
                        "SetBatteryMaxACChargeCurrent"}
        <4>1. IntegerArguments(c, args) = {2} /\ Count(c) = 2
          BY <3>2, SMT DEF IntegerArguments, Count, Buckets, ArgumentCount
        <4> QED
          BY <1>1, <1>3, <4>1
      <3>3. CASE c \in {"GetParallelGeneralStatus", "GetParallelRatedInformation",
                        "SetACOutputFreq", "SetACOutputVoltage"}
        <4>1. IntegerArguments(c, args) = {1} /\ Count(c) = 1
          BY <3>3, SMT DEF IntegerArguments, Count, Buckets, ArgumentCount
        <4> QED
          BY <1>1, <1>3, <4>1
      <3>4. CASE c = "SetDateTime"
        <4>1. IntegerArguments(c, args) = DOMAIN args
          BY <3>4, SMT DEF IntegerArguments
        <4> QED
          BY <1>1, <4>1
      <3>5. CASE c \notin {"GetMonthGenerated", "GetDayGenerated", "SetDateTime",
                           "SetBatteryMaxChargeCurrent",
                           "SetBatteryMaxACChargeCurrent",
                           "GetParallelGeneralStatus",
                           "GetParallelRatedInformation",
                           "SetACOutputFreq", "SetACOutputVoltage"}
        BY <1>1, <1>5, <3>5, SMT DEF IntegerArguments, Buckets
      <3> QED
        BY <3>1, <3>2, <3>3, <3>4, <3>5
    <2>2. args = a
      BY <1>5, <2>1, SMT DEF From, Rewritten, IntegerArguments, Buckets
    <2>3. args[i] \in Text
      BY <1>3, <2>1
    <2>4. args[i].wraps \in Nat
      BY <2>3, TextType DEF IsText, IsPart
    <2> QED
      <3>1. args[i].wraps > 0
        BY <1>1, <2>4
      <3>2. Huge(args[i])
        BY <3>1 DEF Huge
      <3> QED
        BY <2>1, <2>2, <3>2
  <1> QED
    BY <1>4, <1>5

\* A field whose number can be sent, or what NaN becomes.
Good(field) == field.value \in Nat \/ field \in Junk

LEMMA FieldsAreGood ==
    /\ \A w, n : n \in Nat => Good(Wide(w, n)) /\ Wide(w, n).value = n
    /\ \A w : \A t \in Text : Good(Raw(w, t)) /\ Raw(w, t).value = t.value
    /\ Good(Comma)
    /\ \A t \in Text : \A junk \in Junk :
          t.volts = NaN \/ t.volts >= 0 => Good(Tenths(t, junk))
  <1>1. \A w, n : n \in Nat => Good(Wide(w, n)) /\ Wide(w, n).value = n
    BY DEF Good, Wide
  <1>2. ASSUME NEW w, NEW t \in Text
        PROVE  Good(Raw(w, t)) /\ Raw(w, t).value = t.value
    <2>1. t.value \in Nat
      BY TextType DEF IsText, IsPart
    <2> QED
      BY <2>1 DEF Good, Raw
  <1>3. Good(Comma)
    BY DEF Good, Comma
  <1>4. ASSUME NEW t \in Text, NEW junk \in Junk, t.volts = NaN \/ t.volts >= 0
        PROVE  Good(Tenths(t, junk))
    <2>1. t.volts \in Int
      BY TextType DEF IsText, IsPart
    <2>2. CASE t.volts = NaN
      BY <2>2 DEF Tenths, Good
    <2>3. CASE t.volts # NaN
      <3>1. (t.volts + 5) \div 10 \in Nat
        BY <1>4, <2>1, <2>3, SMT
      <3>2. Tenths(t, junk) = Wide(3, (t.volts + 5) \div 10)
        BY <2>3 DEF Tenths
      <3> QED
        BY <1>1, <3>1, <3>2
    <2> QED
      BY <2>2, <2>3
  <1> QED
    BY <1>1, <1>2, <1>3, <1>4

\* Every field of what packArguments makes of what validate_input leaves.
AllGood(fields) == \A i \in DOMAIN fields : Good(fields[i])

LEMMA GoodTuples ==
    ASSUME NEW u, NEW v, NEW w, NEW x, NEW y,
           Good(u), Good(v), Good(w), Good(x), Good(y)
    PROVE  /\ AllGood(<<u>>) /\ AllGood(<<u, v>>) /\ AllGood(<<u, v, w>>)
           /\ AllGood(<<u, v, w, x, y>>)
  BY DEF AllGood

LEMMA ArgumentsGood ==
    ASSUME NEW c \in Commands, NEW args, Packable(c, args), NEW junk \in Junk
    PROVE  AllGood(PackArguments(c, args, junk))
  <1> DEFINE fields == PackArguments(c, args, junk)
  <1>1. /\ args \in Seq(Text) /\ Len(args) = Count(c)
        /\ \A i \in 1 .. Len(args) : args[i] \in Text /\ args[i].value \in Nat
    BY TextType DEF Packable, IsText, IsPart
  <1>2. CASE c \in {"GetYearGenerated"} \union Worded1 \union {"SetACSupply"}
    <2>1. fields = <<Raw(IF c = "GetYearGenerated" THEN 4 ELSE 1, args[1])>>
      BY <1>2, SMT DEF PackArguments, Worded1
    <2>2. Count(c) = 1
      BY <1>2, SMT DEF Count, Buckets, ArgumentCount, Worded1
    <2>3. Good(Raw(IF c = "GetYearGenerated" THEN 4 ELSE 1, args[1]))
      <3>1. args[1] \in Text /\ args[1].value \in Nat
        BY <1>1, <2>2
      <3> QED
        BY <3>1, FieldsAreGood
    <2> QED
      BY <2>1, <2>3, FieldsAreGood, GoodTuples
  <1>3. CASE c \in {"GetMonthGenerated", "GetDayGenerated"}
    <2>1. fields = [i \in DOMAIN args |->
                      IF i = 1 THEN Raw(4, args[1]) ELSE Wide(2, args[i].value)]
      BY <1>3, SMT DEF PackArguments
    <2> QED
      BY <1>1, <2>1, FieldsAreGood DEF AllGood
  <1>4. CASE c \in {"GetParallelGeneralStatus", "GetParallelRatedInformation",
                    "SetACOutputFreq"}
    <2>1. fields = <<Wide(IF c = "SetACOutputFreq" THEN 2 ELSE 1, args[1].value)>>
      BY <1>4, SMT DEF PackArguments
    <2>2. Count(c) = 1
      BY <1>4, SMT DEF Count, Buckets, ArgumentCount
    <2>3. Good(Wide(IF c = "SetACOutputFreq" THEN 2 ELSE 1, args[1].value))
      <3>1. args[1] \in Text /\ args[1].value \in Nat
        BY <1>1, <2>2
      <3> QED
        BY <3>1, FieldsAreGood
    <2> QED
      BY <2>1, <2>3, FieldsAreGood, GoodTuples
  <1>5. CASE c = "SetFlag"
    <2>1. fields = <<Wide(1, args[2].value), Raw(1, args[1])>>
      BY <1>5, SMT DEF PackArguments
    <2>2. Count(c) = 2
      BY <1>5, SMT DEF Count, Buckets, ArgumentCount
    <2>3. Good(Wide(1, args[2].value))
      <3>1. args[2] \in Text /\ args[2].value \in Nat
        BY <1>1, <2>2
      <3> QED
        BY <3>1, FieldsAreGood
    <2>4. Good(Raw(1, args[1]))
      <3>1. args[1] \in Text /\ args[1].value \in Nat
        BY <1>1, <2>2
      <3> QED
        BY <3>1, FieldsAreGood
    <2> QED
      BY <2>1, <2>3, <2>4, FieldsAreGood, GoodTuples
  <1>6. CASE c \in {"SetBatteryMaxChargeCurrent", "SetBatteryMaxACChargeCurrent"}
    <2>1. fields = <<Raw(1, args[1]), Comma, Wide(3, args[2].value)>>
      BY <1>6, SMT DEF PackArguments
    <2>2. Count(c) = 2
      BY <1>6, SMT DEF Count, Buckets, ArgumentCount
    <2>3. Good(Raw(1, args[1]))
      <3>1. args[1] \in Text /\ args[1].value \in Nat
        BY <1>1, <2>2
      <3> QED
        BY <3>1, FieldsAreGood
    <2>4. Good(Wide(3, args[2].value))
      <3>1. args[2] \in Text /\ args[2].value \in Nat
        BY <1>1, <2>2
      <3> QED
        BY <3>1, FieldsAreGood
    <2> QED
      BY <2>1, <2>3, <2>4, FieldsAreGood, GoodTuples
  <1>7. CASE c \in {"SetBatteryMaxChargeVoltage", "SetBatteryChargeThresholds"}
    <2>1. fields = <<Tenths(args[1], junk), Comma, Tenths(args[2], junk)>>
      BY <1>7, SMT DEF PackArguments
    <2>2. Count(c) = 2 /\ c \in Voltages
      BY <1>7, SMT DEF Count, Buckets, ArgumentCount, Voltages
    <2>3. \A i \in 1 .. 2 : args[i].volts = NaN \/ args[i].volts >= 0
      BY <2>2 DEF Packable
    <2>4. ASSUME NEW i \in 1 .. 2 PROVE Good(Tenths(args[i], junk))
      <3>1. args[i] \in Text /\ (args[i].volts = NaN \/ args[i].volts >= 0)
        BY <1>1, <2>2, <2>3
      <3> QED
        BY <3>1, FieldsAreGood
    <2>5. Good(Tenths(args[1], junk)) /\ Good(Tenths(args[2], junk))
      BY <2>4
    <2> QED
      BY <2>1, <2>5, FieldsAreGood, GoodTuples
  <1>8. CASE c = "SetBatteryCutOffVoltage"
    <2>1. fields = <<Tenths(args[1], junk)>>
      BY <1>8, SMT DEF PackArguments
    <2>2. Count(c) = 1 /\ c \in Voltages
      BY <1>8, SMT DEF Count, Buckets, ArgumentCount, Voltages
    <2>3. args[1].volts = NaN \/ args[1].volts >= 0
      BY <2>2 DEF Packable
    <2>4. Good(Tenths(args[1], junk))
      BY <1>1, <2>2, <2>3, FieldsAreGood
    <2> QED
      BY <2>1, <2>4, GoodTuples
  <1>9. CASE c = "SetACOutputVoltage"
    <2>1. fields = <<Wide(4, 10 * args[1].value)>>
      BY <1>9, SMT DEF PackArguments
    <2>2. Count(c) = 1
      BY <1>9, SMT DEF Count, Buckets, ArgumentCount
    <2>3. 10 * args[1].value \in Nat
      BY <1>1, <2>2
    <2> QED
      BY <2>1, <2>3, FieldsAreGood, GoodTuples
  <1>10. CASE c \in Worded2
    <2>1. fields = <<Raw(1, args[1]), Comma, Raw(1, args[2])>>
      BY <1>10, SMT DEF PackArguments, Worded2
    <2>2. Count(c) = 2
      BY <1>10, SMT DEF Count, Buckets, ArgumentCount, Worded2
    <2>3. Good(Raw(1, args[1]))
      <3>1. args[1] \in Text /\ args[1].value \in Nat
        BY <1>1, <2>2
      <3> QED
        BY <3>1, FieldsAreGood
    <2>4. Good(Raw(1, args[2]))
      <3>1. args[2] \in Text /\ args[2].value \in Nat
        BY <1>1, <2>2
      <3> QED
        BY <3>1, FieldsAreGood
    <2> QED
      BY <2>1, <2>3, <2>4, FieldsAreGood, GoodTuples
  <1>11. CASE c = "SetSolarConfig"
    <2>1. fields = <<Wide(2, args[1].size),
                     [Raw(20, args[1]) EXCEPT !.size = Max({20, args[1].size})]>>
      BY <1>11, SMT DEF PackArguments, Serial
    <2>2. Count(c) = 1
      BY <1>11, SMT DEF Count, Buckets, ArgumentCount
    <2>3. args[1].size \in Nat /\ args[1].value \in Nat
      BY <1>1, <2>2, TextType DEF IsText, IsPart
    <2> DEFINE x == [Raw(20, args[1]) EXCEPT !.size = Max({20, args[1].size})]
    <2>4. x.value = args[1].value
      BY DEF Raw
    <2>5. Good(x)
      BY <2>3, <2>4 DEF Good
    <2> HIDE DEF x
    <2> QED
      BY <2>1, <2>3, <2>5, FieldsAreGood, GoodTuples DEF x
  <1>12. CASE c = "SetDateTime"
    <2>1. fields = [i \in 1 .. 6 |-> Wide(2, IF i = 1 THEN args[1].value - 2000
                                             ELSE args[i].value)]
      BY <1>12, SMT DEF PackArguments
    <2>2. Count(c) = 6
      BY <1>12, SMT DEF Count, Buckets, ArgumentCount
    <2>3. args[1].value - 2000 \in Nat
      BY <1>1, <1>12, <2>2, SMT DEF Packable
    <2> QED
      BY <1>1, <2>1, <2>2, <2>3, FieldsAreGood DEF AllGood
  <1>13. CASE c \in Buckets
    <2>1. fields = <<Wide(2, args[1].value), Wide(2, args[2].value), Comma,
                     Wide(2, args[3].value), Wide(2, args[4].value)>>
      BY <1>13, SMT DEF PackArguments, Buckets
    <2>2. Count(c) = 4
      BY <1>13, SMT DEF Count
    <2>3. Good(Wide(2, args[1].value))
      <3>1. args[1] \in Text /\ args[1].value \in Nat
        BY <1>1, <2>2
      <3> QED
        BY <3>1, FieldsAreGood
    <2>4. Good(Wide(2, args[2].value))
      <3>1. args[2] \in Text /\ args[2].value \in Nat
        BY <1>1, <2>2
      <3> QED
        BY <3>1, FieldsAreGood
    <2>5. Good(Wide(2, args[3].value))
      <3>1. args[3] \in Text /\ args[3].value \in Nat
        BY <1>1, <2>2
      <3> QED
        BY <3>1, FieldsAreGood
    <2>6. Good(Wide(2, args[4].value))
      <3>1. args[4] \in Text /\ args[4].value \in Nat
        BY <1>1, <2>2
      <3> QED
        BY <3>1, FieldsAreGood
    <2> QED
      BY <2>1, <2>3, <2>4, <2>5, <2>6, FieldsAreGood, GoodTuples
  <1>14. CASE fields = <<>>
    BY <1>14 DEF AllGood
  <1> QED
    BY <1>2, <1>3, <1>4, <1>5, <1>6, <1>7, <1>8, <1>9, <1>10, <1>11, <1>12,
       <1>13, <1>14 DEF PackArguments, Worded1, Worded2, Buckets

LEMMA FrameIs ==
    ASSUME NEW c, NEW args, NEW junk
    PROVE  /\ Frame(c, args, junk).code = RawCommands[c]
           /\ Frame(c, args, junk).fields = PackArguments(c, args, junk)
           /\ Frame(c, args, junk).kind \in {"P", "S"}
  BY DEF Frame

----------------------------------------------------------------------------
(* Options *)

LEMMA FirstOfIsFine ==
    ASSUME NEW checks, NEW a, AllFine(checks, a)
    PROVE  Fine(FirstOf(checks), a)
  <1>1. checks \in Seq(Verdicts) /\ \A i \in DOMAIN checks : Fine(checks[i], a)
    BY DEF AllFine
  <1>2. FirstOf(checks) # "accepted"
           => \E i \in DOMAIN checks : checks[i] = FirstOf(checks)
    BY <1>1, FirstOfMeans
  <1>3. Fine("accepted", a)
    BY DEF Fine, Verdicts
  <1> QED
    BY <1>1, <1>2, <1>3

LEMMA FirstOfTwoChecks ==
    ASSUME NEW a, NEW u, NEW v, Fine(u, a), Fine(v, a)
    PROVE  Fine(FirstOf(<<u, v>>), a)
  <1>1. AllFine(<<u, v>>, a)
    BY FineTuples
  <1> QED
    BY <1>1, FirstOfIsFine

\* What the check of an option says of its argument.
LEMMA OptionCheckMeans ==
    ASSUME NEW option, NEW t, IsText(t)
    PROVE  /\ OptionCheck(option, t) \in Verdicts
           /\ OptionCheck(option, t) = "thrown" => Huge(t)
           /\ (option = "format" /\ OptionCheck(option, t) = "accepted")
                 => t.word \in Formats
           /\ (option = "device" /\ OptionCheck(option, t) = "accepted")
                 => t.word \in DeviceTypes
  <1> DEFINE v == OptionCheck(option, t)
             a == <<t>>
  <1>0. t.whole \in Finds /\ t.wraps \in Nat /\ t.value \in Nat
    BY DEF IsText, IsPart
  <1>1. a[1] = t /\ DOMAIN a = {1}
    OBVIOUS
  <1> HIDE DEF a
  <1>2. Fine(Found(t.whole), a)
    <2>1. t.whole = "too much" => Huge(t)
      BY DEF Huge
    <2> QED
      BY <1>0, <1>1, <2>1, FoundMeans DEF Fine
  <1>3. ASSUME Fine(v, a),
               option \notin {"format", "device"}
        PROVE  /\ v \in Verdicts /\ (v = "thrown" => Huge(t))
               /\ (option = "format" /\ v = "accepted") => t.word \in Formats
               /\ (option = "device" /\ v = "accepted") => t.word \in DeviceTypes
    <2>1. v \in Verdicts /\ (v = "thrown" => \E k \in DOMAIN a : Huge(a[k]))
      BY <1>3 DEF Fine
    <2> HIDE DEF v
    <2> QED
      BY <1>1, <1>3, <2>1
  <1>4. CASE option = "format"
    <2>1. v = Require(t.word \in Formats)
      BY <1>4 DEF OptionCheck
    <2> QED
      BY <1>4, <2>1 DEF Require, Verdicts
  <1>5. CASE option = "device"
    <2>1. v = Require(t.word \in DeviceTypes)
      BY <1>5 DEF OptionCheck
    <2> QED
      BY <1>5, <2>1 DEF Require, Verdicts
  <1>6. CASE option = "raw"
    <2>1. v = Require(t.size <= 128)
      BY <1>6 DEF OptionCheck
    <2> QED
      BY <1>3, <1>6, <2>1, RequireIsFine
  <1>7. CASE option \in {"timeout", "cache-timeout", "delay",
                         "device-error-limit"}
    <2>1. v = Found(t.whole)
      BY <1>7 DEF OptionCheck
    <2>2. Fine(v, a)
      BY <1>2, <2>1
    <2> QED
      BY <1>3, <1>7, <2>2
  <1>8. CASE option \in {"usb-vendor-id", "usb-device-id"}
    <2> DEFINE w == Require(t.size = 4 /\ (t.digits \/ t.word = "hex"))
    <2>1. v = w
      BY <1>8 DEF OptionCheck
    <2>2. Fine(w, a)
      BY RequireIsFine
    <2> HIDE DEF w
    <2> QED
      BY <1>3, <1>8, <2>1, <2>2
  <1>9. CASE option = "serial-baud-rate"
    <2> DEFINE w == Require(IsSerialBaudRateValid(t.value))
    <2>1. v = FirstOf(<<Found(t.whole), w>>)
      BY <1>9 DEF OptionCheck
    <2>2. Fine(w, a)
      BY RequireIsFine
    <2> HIDE DEF w
    <2>3. Fine(v, a)
      BY <1>2, <2>1, <2>2, FirstOfTwoChecks
    <2> QED
      BY <1>3, <1>9, <2>3
  <1>10. CASE option = "serial-data-bits"
    <2> DEFINE w == Require(~ IsSerialDataBitsValid(t.value))
    <2>1. v = FirstOf(<<Found(t.whole), w>>)
      BY <1>10 DEF OptionCheck
    <2>2. Fine(w, a)
      BY RequireIsFine
    <2> HIDE DEF w
    <2>3. Fine(v, a)
      BY <1>2, <2>1, <2>2, FirstOfTwoChecks
    <2> QED
      BY <1>3, <1>10, <2>3
  <1>11. CASE option = "serial-stop-bits"
    <2>1. v = Require(t.word \in StopBits)
      BY <1>11 DEF OptionCheck
    <2> QED
      BY <1>3, <1>11, <2>1, RequireIsFine
  <1>12. CASE option = "serial-parity"
    <2>1. v = Require(t.word \in Parities)
      BY <1>12 DEF OptionCheck
    <2> QED
      BY <1>3, <1>12, <2>1, RequireIsFine
  <1>13. CASE option = "port"
    <2> DEFINE fits == t.wraps = 0 /\ t.value <= MaxInt
               w == IF fits THEN "accepted" ELSE "thrown"
    <2>1. v = FirstOf(<<Found(t.whole), w>>)
      BY <1>13 DEF OptionCheck
    <2>2. Fine(w, a)
      <3>1. CASE fits
        BY <3>1 DEF Fine, Verdicts
      <3>2. CASE ~ fits
        <4>1. t.wraps > 0 \/ t.value > MaxInt
          BY <1>0, <3>2 DEF MaxInt
        <4>2. Huge(t)
          BY <4>1 DEF Huge
        <4> QED
          BY <1>1, <4>2, <3>2 DEF Fine, Verdicts
      <3> QED
        BY <3>1, <3>2
    <2> HIDE DEF w
    <2>3. Fine(v, a)
      BY <1>2, <2>1, <2>2, FirstOfTwoChecks
    <2> QED
      BY <1>3, <1>13, <2>3
  <1>14. CASE option \notin {"format", "device", "raw", "timeout",
                  "cache-timeout", "delay", "device-error-limit",
                  "usb-vendor-id", "usb-device-id", "serial-baud-rate",
                  "serial-data-bits", "serial-stop-bits", "serial-parity",
                  "port"}
    <2>1. v = "accepted"
      BY <1>14 DEF OptionCheck
    <2>2. Fine(v, a)
      BY <2>1 DEF Fine, Verdicts
    <2> QED
      BY <1>3, <1>14, <2>2
  <1> QED
    BY <1>4, <1>5, <1>6, <1>7, <1>8, <1>9, <1>10, <1>11, <1>12, <1>13, <1>14

\* The settings that an option may change are of their type.
ConfigOK(set) ==
    /\ DOMAIN set = DOMAIN Defaults
    /\ set.action \in {"command", "raw", "help"}
    /\ set.format \in Formats /\ set.device \in DeviceTypes

LEMMA OptionEffectOK ==
    ASSUME NEW option, NEW t, IsText(t), ConfigOK(config),
           OptionCheck(option, t) = "accepted"
    PROVE  ConfigOK(OptionEffect(option, t))
  <1> DEFINE e == OptionEffect(option, t)
  <1>0. DOMAIN config = {"action", "format", "formatChanged", "device", "baud",
                         "bits", "stop", "parity", "port"}
    BY DEF ConfigOK, Defaults
  <1>1. CASE option \in {"help", "raw"}
    <2>1. e = [config EXCEPT !.action = IF option = "help" THEN "help" ELSE "raw"]
      BY <1>1, SMT DEF OptionEffect
    <2> QED
      BY <1>0, <2>1 DEF ConfigOK
  <1>2. CASE option = "format"
    <2>1. e = [config EXCEPT !.format = t.word, !.formatChanged = TRUE]
      BY <1>2 DEF OptionEffect
    <2>2. t.word \in Formats
      BY <1>2, OptionCheckMeans
    <2>3. DOMAIN e = DOMAIN config /\ e.action = config.action
            /\ e.device = config.device /\ e.format = t.word
      BY <1>0, <2>1
    <2> QED
      BY <2>2, <2>3 DEF ConfigOK
  <1>3. CASE option = "device"
    <2>1. e = [config EXCEPT !.device = t.word]
      BY <1>3 DEF OptionEffect
    <2>2. t.word \in DeviceTypes
      BY <1>3, OptionCheckMeans
    <2> QED
      BY <1>0, <2>1, <2>2 DEF ConfigOK
  <1>4. CASE option \notin {"help", "raw", "format", "device"}
    <2>1. DOMAIN e = DOMAIN config /\ e.action = config.action
            /\ e.device = config.device /\ e.format = config.format
      BY <1>0, <1>4, SMT DEF OptionEffect
    <2> QED
      BY <2>1 DEF ConfigOK
  <1> QED
    BY <1>1, <1>2, <1>3, <1>4

----------------------------------------------------------------------------
(* What set commands make of the settings *)

InverterOK(inv) ==
    /\ inv \in [Settings -> Answers]
    /\ \A c \in Settings : Readable(Layouts[c], inv[c])

\* b is the answer a with other numbers, in which an enumeration that was
\* changed has a value with a text.
Rewrites(a, b, enums) ==
    /\ b \in Answers /\ b.declared = a.declared
    /\ DOMAIN b.items = DOMAIN a.items
    /\ \A i \in DOMAIN a.items : b.items[i].size = a.items[i].size
    /\ \A i \in DOMAIN a.items :
          b.items[i].value = a.items[i].value \/ b.items[i].value \in Nat
    /\ \A enum \in DOMAIN enums : \A i \in enums[enum] :
          b.items[i].value = a.items[i].value \/ HasText(enum, b.items[i].value)

LEMMA RewritesIsReadable ==
    ASSUME NEW layout, layout.form = "list", NEW a \in Answers, NEW b,
           Readable(layout, a), Rewrites(a, b, layout.enums)
    PROVE  Readable(layout, b)
  <1>1. Len(b.items) = Len(a.items) /\ DOMAIN b.items = DOMAIN a.items
    BY LenProperties DEF Rewrites, Answers
  <1>2. Sizes(b.items) = Sizes(a.items)
    BY DEF Rewrites, Sizes
  <1>3. DataSize(b) = DataSize(a)
    BY <1>1, <1>2 DEF DataSize
  <1>4. ValidateGet(b) = "valid"
    <2>1. ValidateGet(a) = "valid"
      BY DEF Readable
    <2>2. a.declared # Letters /\ a # NoData /\ b.declared = a.declared
      BY <2>1 DEF ValidateGet, Rewrites
    <2>3. b # NoData
      BY <2>2 DEF NoData
    <2> QED
      BY <1>3, <2>1, <2>2, <2>3 DEF ValidateGet
  <1>5. GetList(layout, a.items)
           /\ \A i \in Numbers(layout, a.items) : a.items[i].value # Letters
    <2>1. Unpack(layout, a) = "unpacked"
      BY DEF Readable
    <2> QED
      BY <2>1 DEF Unpack
  <1>6. GetList(layout, b.items)
    <2>1. \A i \in DOMAIN a.items : b.items[i].size = a.items[i].size
      BY DEF Rewrites
    <2> QED
      BY <1>1, <1>5, <2>1 DEF GetList
  <1>7. \A i \in Numbers(layout, b.items) : b.items[i].value # Letters
    <2>1. Numbers(layout, b.items) = Numbers(layout, a.items)
      BY <1>1 DEF Numbers
    <2>2. Numbers(layout, a.items) \subseteq DOMAIN a.items
      BY DEF Numbers
    <2>3. \A i \in DOMAIN a.items :
             b.items[i].value = a.items[i].value \/ b.items[i].value \in Nat
      BY DEF Rewrites
    <2>4. Letters \notin Nat
      BY DEF Letters
    <2> QED
      BY <1>5, <2>1, <2>2, <2>3, <2>4
  <1>8. Unpack(layout, b) = "unpacked"
    BY <1>6, <1>7 DEF Unpack
  <1>9. ASSUME NEW format \in Formats PROVE Displays(layout, b.items, format)
    <2>1. Displays(layout, a.items, format)
      BY DEF Readable
    <2>2. ASSUME NEW enum \in DOMAIN layout.enums, NEW i \in layout.enums[enum],
                 HasText(enum, a.items[i].value)
          PROVE  HasText(enum, b.items[i].value)
      BY <2>2 DEF Rewrites
    <2> QED
      BY <2>1, <2>2 DEF Displays, Value
  <1> QED
    BY <1>4, <1>8, <1>9 DEF Readable

LEMMA SettingsLayouts ==
    /\ Layouts["GetRatedInformation"] = RatedInformation
    /\ Layouts["GetFlagsAndStatuses"] = FlagsAndStatuses
    /\ Layouts["GetACChargeTimeBucket"] = ACChargeTimeBucket
    /\ Layouts["GetACSupplyTimeBucket"] = ACChargeTimeBucket
  BY SMT DEF Layouts

LEMMA ListsOfSettings ==
    /\ RatedInformation.form = "list" /\ FlagsAndStatuses.form = "list"
    /\ ACChargeTimeBucket.form = "list"
    /\ FlagsAndStatuses.enums = NoEnums /\ ACChargeTimeBucket.enums = NoEnums
  BY DEF RatedInformation, FlagsAndStatuses, ACChargeTimeBucket, List

LEMMA TimesIs ==
    ASSUME NEW n \in Nat, NEW size \in Nat
    PROVE  Times(n, size) \in Seq(SUBSET Nat) /\ Len(Times(n, size)) = n
  BY DEF Times

\* The rated information has 25 items, the enumerations among the last twelve.
LEMMA RatedInformationIs ==
    /\ RatedInformation.sizes # <<>> /\ RatedInformation.least = 25
    /\ \A enum \in DOMAIN RatedInformation.enums :
          RatedInformation.enums[enum] \subseteq 14 .. 24
    /\ RatedInformation.enums =
          [BatteryType |-> {14}, InputVoltageRange |-> {17},
           OutputSourcePriority |-> {18}, ChargeSourcePriority |-> {19},
           MachineType |-> {21}, Topology |-> {22}, OutputMode |-> {23},
           SolarPowerPriority |-> {24}]
  <1> DEFINE u == <<{4}, {3}, {4}, {3}, {3}, {4}, {4}>>
             v == <<{1}, 2..3, {3}>>
             s == u \o Times(6, 3) \o v \o Times(9, 1)
             e == [BatteryType |-> {14}, InputVoltageRange |-> {17},
                   OutputSourcePriority |-> {18}, ChargeSourcePriority |-> {19},
                   MachineType |-> {21}, Topology |-> {22}, OutputMode |-> {23},
                   SolarPowerPriority |-> {24}]
  <1>1. u \in Seq(SUBSET Nat) /\ Len(u) = 7 /\ v \in Seq(SUBSET Nat) /\ Len(v) = 3
    BY SMT
  <1>2. RatedInformation.sizes = s /\ RatedInformation.least = Len(s)
           /\ RatedInformation.enums = e
    BY DEF RatedInformation, List
  <1> DEFINE S == Seq(SUBSET Nat)
             p == Times(6, 3)
             q == Times(9, 1)
             x == u \o p
             y == x \o v
  <1>10. u \in S /\ v \in S
    BY <1>1
  <1>8. p \in S /\ Len(p) = 6 /\ q \in S /\ Len(q) = 9
    BY TimesIs
  <1> HIDE DEF u, v, p, q
  <1>9. ASSUME NEW a \in S, NEW b \in S
        PROVE  a \o b \in S /\ Len(a \o b) = Len(a) + Len(b)
    BY ConcatProperties
  <1> HIDE DEF S
  <1>3. x \in S /\ Len(x) = 13
    <2>1. x \in S /\ Len(x) = Len(u) + Len(p)
      BY <1>8, <1>9, <1>10
    <2> QED
      BY <1>1, <1>8, <2>1
  <1>4. y \in S /\ Len(y) = 16
    <2> HIDE DEF x
    <2>1. y \in S /\ Len(y) = Len(x) + Len(v)
      BY <1>3, <1>9, <1>10
    <2> QED
      BY <1>1, <1>3, <2>1
  <1>5. s \in S /\ Len(s) = 25
    <2>1. s = y \o q
      BY DEF p, q
    <2>2. y \o q \in S /\ Len(y \o q) = Len(y) + Len(q)
      <3> HIDE DEF y
      <3> QED
        BY <1>4, <1>8, <1>9
    <2> HIDE DEF s, y
    <2> QED
      BY <1>4, <1>8, <2>1, <2>2
  <1>6. s # <<>>
    <2> HIDE DEF s
    <2>1. Len(<<>>) = 0
      BY EmptySeq
    <2>2. Len(s) # 0
      BY <1>5
    <2>3. \A t : t = <<>> => Len(t) = 0
      BY <2>1, Zenon
    <2> QED
      BY <2>2, <2>3
  <1>7. \A enum \in DOMAIN e : e[enum] \subseteq 14 .. 24
    BY SMT
  <1> QED
    BY <1>2, <1>5, <1>6, <1>7

LEMMA RatedItems ==
    ASSUME NEW a \in Answers, Readable(RatedInformation, a)
    PROVE  14 .. 24 \subseteq DOMAIN a.items
  <1>1. Unpack(RatedInformation, a) = "unpacked"
    BY DEF Readable
  <1>2. GetList(RatedInformation, a.items)
    BY <1>1, ListsOfSettings DEF Unpack
  <1>3. Len(a.items) >= 25
    BY <1>2, RatedInformationIs DEF GetList
  <1>4. DOMAIN a.items = 1 .. Len(a.items) /\ Len(a.items) \in Nat
    BY LenProperties DEF Answers
  <1> QED
    BY <1>3, <1>4

LEMMA TextsOfEnumerations ==
    /\ \A n \in Nat : n < 3 => HasText("BatteryType", n)
    /\ \A n \in Nat : n < 2 => HasText("InputVoltageRange", n)
    /\ \A n \in Nat : n < 2 => HasText("OutputSourcePriority", n)
    /\ \A n \in Nat : n < 3 => HasText("ChargeSourcePriority", n)
    /\ \A n \in Nat : n < 5 => HasText("OutputMode", n)
    /\ \A n \in Nat : n < 2 => HasText("SolarPowerPriority", n)
  <1>1. \A n \in Nat : n < 3 => HasText("BatteryType", n)
    <2>1. Enumerators["BatteryType"] = <<"AGM", "Flooded", "User">>
      BY SMT DEF Enumerators
    <2>2. DOMAIN Texts["BatteryType"] = {"AGM", "Flooded", "User"}
      BY SMT DEF Texts
    <2> QED
      BY <2>1, <2>2, SMT DEF HasText
  <1>2. \A n \in Nat : n < 2 => HasText("InputVoltageRange", n)
    <2>1. Enumerators["InputVoltageRange"] = <<"Appliance", "USP">>
      BY SMT DEF Enumerators
    <2>2. DOMAIN Texts["InputVoltageRange"] = {"Appliance", "USP"}
      BY SMT DEF Texts
    <2> QED
      BY <2>1, <2>2, SMT DEF HasText
  <1>3. \A n \in Nat : n < 2 => HasText("OutputSourcePriority", n)
    <2>1. Enumerators["OutputSourcePriority"] =
            <<"SolarUtilityBattery", "SolarBatteryUtility">>
      BY SMT DEF Enumerators
    <2>2. DOMAIN Texts["OutputSourcePriority"] =
            {"SolarUtilityBattery", "SolarBatteryUtility"}
      BY SMT DEF Texts
    <2> QED
      BY <2>1, <2>2, SMT DEF HasText
  <1>4. \A n \in Nat : n < 3 => HasText("ChargeSourcePriority", n)
    <2>1. Enumerators["ChargeSourcePriority"] =
            <<"SolarFirst", "SolarAndUtility", "SolarOnly">>
      BY SMT DEF Enumerators
    <2>2. DOMAIN Texts["ChargeSourcePriority"] =
            {"SolarFirst", "SolarAndUtility", "SolarOnly"}
      BY SMT DEF Texts
    <2> QED
      BY <2>1, <2>2, SMT DEF HasText
  <1>5. \A n \in Nat : n < 5 => HasText("OutputMode", n)
    <2>1. Enumerators["OutputMode"] =
            <<"SingleOutput", "ParallelOutput", "Phase_1_of_3", "Phase_2_of_3",
              "Phase_3_of_3">>
      BY SMT DEF Enumerators
    <2>2. DOMAIN Texts["OutputMode"] =
            {"SingleOutput", "ParallelOutput", "Phase_1_of_3", "Phase_2_of_3",
             "Phase_3_of_3"}
      BY SMT DEF Texts
    <2> QED
      BY <2>1, <2>2, SMT DEF HasText
  <1>6. \A n \in Nat : n < 2 => HasText("SolarPowerPriority", n)
    <2>1. Enumerators["SolarPowerPriority"] =
            <<"BatteryLoadUtility", "LoadBatteryUtility">>
      BY SMT DEF Enumerators
    <2>2. DOMAIN Texts["SolarPowerPriority"] =
            {"BatteryLoadUtility", "LoadBatteryUtility"}
      BY SMT DEF Texts
    <2> QED
      BY <2>1, <2>2, SMT DEF HasText
  <1> QED
    BY <1>1, <1>2, <1>3, <1>4, <1>5, <1>6

\* The numbers in a frame whose fields are in place.
LEMMA InPlaceIsNat ==
    ASSUME NEW f, AllGood(f.fields), InPlace(f), NEW i \in DOMAIN f.fields
    PROVE  f.fields[i].value \in Nat
  <1> DEFINE field == f.fields[i]
  <1>1. Good(field) /\ field.size = field.width
    BY DEF AllGood, InPlace
  <1>2. field # [width |-> 3, size |-> 11, value |-> NaN]
    <2> HIDE DEF field
    <2>1. ASSUME field = [width |-> 3, size |-> 11, value |-> NaN] PROVE FALSE
      <3>1. field.size = 11 /\ field.width = 3
        BY <2>1
      <3>2. field.size = field.width
        BY <1>1
      <3>3. 11 # 3
        OBVIOUS
      <3> QED
        BY <3>1, <3>2, <3>3, Zenon
    <2> QED
      BY <2>1
  <1>3. Wide(3, 0).value \in Nat
    BY DEF Wide
  <1> HIDE DEF field
  <1>4. field.value \in Nat
    BY <1>1, <1>2, <1>3 DEF Good, Junk
  <1> QED
    BY <1>4 DEF field

\* What a field of a frame says of an item of the rated information.
SlotFine(f, slot) ==
    /\ slot[1] \in DOMAIN f.fields
    /\ \A enum \in DOMAIN RatedInformation.enums :
          slot[2] \in RatedInformation.enums[enum] =>
             f.code # "F" /\ HasText(enum, f.fields[slot[1]].value)

NotOfEnum(i) == i \notin {14, 17, 18, 19, 21, 22, 23, 24}

LEMMA EnumsOfRated ==
    /\ \A i : NotOfEnum(i) => \A enum \in DOMAIN RatedInformation.enums :
                 i \notin RatedInformation.enums[enum]
    /\ \A enum \in DOMAIN RatedInformation.enums :
          /\ 14 \in RatedInformation.enums[enum] => enum = "BatteryType"
          /\ 17 \in RatedInformation.enums[enum] => enum = "InputVoltageRange"
          /\ 18 \in RatedInformation.enums[enum] => enum = "OutputSourcePriority"
          /\ 19 \in RatedInformation.enums[enum] => enum = "ChargeSourcePriority"
          /\ 23 \in RatedInformation.enums[enum] => enum = "OutputMode"
          /\ 24 \in RatedInformation.enums[enum] => enum = "SolarPowerPriority"
  BY RatedInformationIs, SMT DEF NotOfEnum

\* Where the set commands send their numbers.
LEMMA SlotsAre ==
    /\ Slots["F"] = {<<1, 4>>} /\ Slots["V"] = {<<1, 3>>}
    /\ Slots["POP"] = {<<1, 18>>} /\ Slots["PCP"] = {<<3, 19>>}
    /\ Slots["PSP"] = {<<1, 24>>} /\ Slots["PGR"] = {<<1, 17>>}
    /\ Slots["PBT"] = {<<1, 14>>} /\ Slots["POPM"] = {<<3, 23>>}
    /\ Slots["MCHGC"] = {<<3, 16>>} /\ Slots["MUCHGC"] = {<<3, 15>>}
    /\ Slots["MCHGV"] = {<<1, 12>>, <<3, 13>>}
    /\ Slots["BUCD"] = {<<1, 9>>, <<3, 10>>} /\ Slots["PSDV"] = {<<1, 11>>}
    /\ DOMAIN Slots = {"F", "V", "POP", "PCP", "PSP", "PGR", "PBT", "POPM",
                       "MCHGC", "MUCHGC", "MCHGV", "BUCD", "PSDV"}
  BY SMT DEF Slots

LEMMA CodesAre ==
    /\ RawCommands["SetACSupply"] = "LON" /\ RawCommands["SetFlag"] = "P"
    /\ RawCommands["SetDefaults"] = "PF"
    /\ RawCommands["SetBatteryMaxChargeCurrent"] = "MCHGC"
    /\ RawCommands["SetBatteryMaxACChargeCurrent"] = "MUCHGC"
    /\ RawCommands["SetACOutputFreq"] = "F"
    /\ RawCommands["SetBatteryMaxChargeVoltage"] = "MCHGV"
    /\ RawCommands["SetACOutputVoltage"] = "V"
    /\ RawCommands["SetOutputSourcePriority"] = "POP"
    /\ RawCommands["SetBatteryChargeThresholds"] = "BUCD"
    /\ RawCommands["SetChargeSourcePriority"] = "PCP"
    /\ RawCommands["SetSolarPowerPriority"] = "PSP"
    /\ RawCommands["SetACInputVoltageRange"] = "PGR"
    /\ RawCommands["SetBatteryType"] = "PBT"
    /\ RawCommands["SetOutputMode"] = "POPM"
    /\ RawCommands["SetBatteryCutOffVoltage"] = "PSDV"
    /\ RawCommands["SetSolarConfig"] = "ID"
    /\ RawCommands["ClearGenerated"] = "CLE" /\ RawCommands["SetDateTime"] = "DAT"
    /\ RawCommands["SetACChargeTimeBucket"] = "ACCT"
    /\ RawCommands["SetACSupplyTimeBucket"] = "ACLT"
  BY SMT DEF RawCommands

LEMMA SlotsAreFine ==
    ASSUME NEW c \in SetCommands, NEW args, Packable(c, args), NEW junk,
           NEW f, f.code = RawCommands[c], f.fields = PackArguments(c, args, junk),
           f.code \in DOMAIN Slots
    PROVE  \A slot \in Slots[f.code] : SlotFine(f, slot)
  <1> USE SlotsAre, CodesAre
  <1>0. /\ Len(args) = Count(c) /\ c \in Commands
        /\ \A i \in 1 .. Len(args) : args[i] \in Text /\ args[i].value \in Nat
    BY TextType DEF Packable, IsText, IsPart, Commands
  <1>1. CASE c \in Worded1
    <2>1. f.fields = <<Raw(1, args[1])>>
      BY <1>1, SMT DEF PackArguments, Worded1
    <2>2. Count(c) = 1
      BY <1>1, SMT DEF Count, Buckets, ArgumentCount, Worded1
    <2>3. args[1].value \in Nat /\ args[1].value < Wordy(c)
      BY <1>0, <1>1, <2>2, ListsOfWords DEF Packable
    <2>4. f.fields[1].value = args[1].value /\ 1 \in DOMAIN f.fields
      BY <2>1 DEF Raw
    <2>5. CASE c = "SetOutputSourcePriority"
      <3>1. Slots[f.code] = {<<1, 18>>} /\ f.code # "F" /\ Wordy(c) = 2
        BY <2>5 DEF Wordy
      <3>2. HasText("OutputSourcePriority", f.fields[1].value)
        BY <2>3, <2>4, <3>1, TextsOfEnumerations
      <3> QED
        BY <2>4, <3>1, <3>2, EnumsOfRated DEF SlotFine
    <2>6. CASE c = "SetSolarPowerPriority"
      <3>1. Slots[f.code] = {<<1, 24>>} /\ f.code # "F" /\ Wordy(c) = 2
        BY <2>6 DEF Wordy
      <3>2. HasText("SolarPowerPriority", f.fields[1].value)
        BY <2>3, <2>4, <3>1, TextsOfEnumerations
      <3> QED
        BY <2>4, <3>1, <3>2, EnumsOfRated DEF SlotFine
    <2>7. CASE c = "SetACInputVoltageRange"
      <3>1. Slots[f.code] = {<<1, 17>>} /\ f.code # "F" /\ Wordy(c) = 2
        BY <2>7 DEF Wordy
      <3>2. HasText("InputVoltageRange", f.fields[1].value)
        BY <2>3, <2>4, <3>1, TextsOfEnumerations
      <3> QED
        BY <2>4, <3>1, <3>2, EnumsOfRated DEF SlotFine
    <2>8. CASE c = "SetBatteryType"
      <3>1. Slots[f.code] = {<<1, 14>>} /\ f.code # "F" /\ Wordy(c) = 3
        BY <2>8 DEF Wordy
      <3>2. HasText("BatteryType", f.fields[1].value)
        BY <2>3, <2>4, <3>1, TextsOfEnumerations
      <3> QED
        BY <2>4, <3>1, <3>2, EnumsOfRated DEF SlotFine
    <2> QED
      BY <1>1, <2>5, <2>6, <2>7, <2>8 DEF Worded1
  <1>2. CASE c \in Worded2
    <2>1. f.fields = <<Raw(1, args[1]), Comma, Raw(1, args[2])>>
      BY <1>2, SMT DEF PackArguments, Worded2
    <2>2. Count(c) = 2
      BY <1>2, SMT DEF Count, Buckets, ArgumentCount, Worded2
    <2>3. args[2].value \in Nat /\ args[2].value < Wordy(c)
      BY <1>0, <1>2, <2>2, ListsOfWords DEF Packable
    <2>4. f.fields[3].value = args[2].value /\ 3 \in DOMAIN f.fields
      BY <2>1 DEF Raw
    <2>5. CASE c = "SetChargeSourcePriority"
      <3>1. Slots[f.code] = {<<3, 19>>} /\ f.code # "F" /\ Wordy(c) = 3
        BY <2>5 DEF Wordy
      <3>2. HasText("ChargeSourcePriority", f.fields[3].value)
        BY <2>3, <2>4, <3>1, TextsOfEnumerations
      <3> QED
        BY <2>4, <3>1, <3>2, EnumsOfRated DEF SlotFine
    <2>6. CASE c = "SetOutputMode"
      <3>1. Slots[f.code] = {<<3, 23>>} /\ f.code # "F" /\ Wordy(c) = 5
        BY <2>6 DEF Wordy
      <3>2. HasText("OutputMode", f.fields[3].value)
        BY <2>3, <2>4, <3>1, TextsOfEnumerations
      <3> QED
        BY <2>4, <3>1, <3>2, EnumsOfRated DEF SlotFine
    <2> QED
      BY <1>2, <2>5, <2>6 DEF Worded2
  <1>3. CASE c \in {"SetACOutputFreq", "SetACOutputVoltage",
                    "SetBatteryCutOffVoltage"}
    <2>1. 1 \in DOMAIN f.fields
      BY <1>3, SMT DEF PackArguments
    <2>2. \A slot \in Slots[f.code] : slot[1] = 1 /\ NotOfEnum(slot[2])
      BY <1>3, SMT DEF NotOfEnum
    <2> QED
      BY <2>1, <2>2, EnumsOfRated DEF SlotFine
  <1>4. CASE c \in {"SetBatteryMaxChargeCurrent", "SetBatteryMaxACChargeCurrent",
                    "SetBatteryMaxChargeVoltage", "SetBatteryChargeThresholds"}
    <2>1. 1 \in DOMAIN f.fields /\ 3 \in DOMAIN f.fields
      <3>1. CASE c \in {"SetBatteryMaxChargeCurrent",
                        "SetBatteryMaxACChargeCurrent"}
        <4>1. f.fields = <<Raw(1, args[1]), Comma, Wide(3, args[2].value)>>
          BY <3>1, SMT DEF PackArguments
        <4> QED
          BY <4>1
      <3>2. CASE c \in {"SetBatteryMaxChargeVoltage",
                        "SetBatteryChargeThresholds"}
        <4>1. f.fields = <<Tenths(args[1], junk), Comma, Tenths(args[2], junk)>>
          BY <3>2, SMT DEF PackArguments
        <4> QED
          BY <4>1
      <3> QED
        BY <1>4, <3>1, <3>2
    <2>2. \A slot \in Slots[f.code] : slot[1] \in {1, 3} /\ NotOfEnum(slot[2])
      BY <1>4, SMT DEF NotOfEnum
    <2> QED
      BY <2>1, <2>2, EnumsOfRated DEF SlotFine
  <1>5. CASE c \in {"SetACSupply", "SetFlag", "SetDefaults", "SetSolarConfig",
                    "ClearGenerated", "SetDateTime", "SetACChargeTimeBucket",
                    "SetACSupplyTimeBucket"}
    BY <1>5
  <1> QED
    BY <1>1, <1>2, <1>3, <1>4, <1>5 DEF SetCommands, Worded1, Worded2

\* One number of an answer replaced, when the item is there.
AnItem == [size : Nat, value : Int]

LEMMA SetIs ==
    ASSUME NEW s \in Seq(AnItem), NEW i, NEW value \in Nat
    PROVE  /\ Set(s, i, value) \in Seq(AnItem)
           /\ DOMAIN Set(s, i, value) = DOMAIN s
           /\ \A j \in DOMAIN s :
                 /\ Set(s, i, value)[j].size = s[j].size
                 /\ \/ Set(s, i, value)[j].value = s[j].value
                    \/ Set(s, i, value)[j].value \in Nat
  <1> DEFINE t == Set(s, i, value)
  <1>1. DOMAIN t = DOMAIN s
    BY DEF Set
  <1>2. ASSUME NEW j \in DOMAIN s
        PROVE  /\ t[j] \in AnItem /\ t[j].size = s[j].size
               /\ t[j].value = s[j].value \/ t[j].value \in Nat
    <2>1. s[j] \in AnItem
      OBVIOUS
    <2>2. CASE j = i
      <3>1. t[j] = [s[j] EXCEPT !.value = value]
        BY <2>2 DEF Set
      <3> HIDE DEF t
      <3> QED
        BY <2>1, <3>1 DEF AnItem
    <2>3. CASE j # i
      <3>1. t[j] = s[j]
        BY <2>3 DEF Set
      <3> QED
        BY <2>1, <3>1
    <2> QED
      BY <2>2, <2>3
  <1>3. t = [j \in DOMAIN s |-> t[j]] /\ DOMAIN s = 1 .. Len(s) /\ Len(s) \in Nat
    BY DEF Set
  <1> HIDE DEF t
  <1>4. t \in Seq(AnItem)
    BY <1>2, <1>3
  <1> QED
    BY <1>1, <1>2, <1>4 DEF t

LEMMA AnswerItems == \A a \in Answers : a.items \in Seq(AnItem)
  BY DEF Answers, AnItem

LEMMA AnswerFields ==
    ASSUME NEW a \in Answers, NEW s \in Seq(AnItem)
    PROVE  /\ [a EXCEPT !.items = s] \in Answers
           /\ [a EXCEPT !.items = s].declared = a.declared
           /\ [a EXCEPT !.items = s].items = s
  BY DEF Answers, AnItem

LEMMA SetRewrites ==
    ASSUME NEW a \in Answers, NEW i, NEW value \in Nat
    PROVE  Rewrites(a, [a EXCEPT !.items = Set(a.items, i, value)], NoEnums)
  <1> DEFINE s == Set(a.items, i, value)
             b == [a EXCEPT !.items = s]
  <1>0. a.items \in Seq(AnItem)
    BY AnswerItems
  <1>1. /\ s \in Seq(AnItem) /\ DOMAIN s = DOMAIN a.items
        /\ \A j \in DOMAIN a.items :
              /\ s[j].size = a.items[j].size
              /\ s[j].value = a.items[j].value \/ s[j].value \in Nat
    BY <1>0, SetIs
  <1> HIDE DEF s
  <1>2. b \in Answers /\ b.declared = a.declared /\ b.items = s
    BY <1>1, AnswerFields
  <1>3. DOMAIN NoEnums = {}
    BY DEF NoEnums
  <1> HIDE DEF b
  <1>4. Rewrites(a, b, NoEnums)
    BY <1>1, <1>2, <1>3 DEF Rewrites
  <1> QED
    BY <1>4 DEF b, s

LEMMA InverterSet ==
    ASSUME InverterOK(inverter), NEW c \in Settings, NEW b,
           Rewrites(inverter[c], b, Layouts[c].enums)
    PROVE  InverterOK([inverter EXCEPT ![c] = b])
  <1>1. inverter[c] \in Answers /\ Readable(Layouts[c], inverter[c])
    BY DEF InverterOK
  <1>2. Layouts[c].form = "list"
    BY SettingsLayouts, ListsOfSettings DEF Settings
  <1>3. b \in Answers /\ Readable(Layouts[c], b)
    <2>1. b \in Answers
      BY DEF Rewrites
    <2> QED
      BY <1>1, <1>2, <2>1, RewritesIsReadable
  <1>4. [inverter EXCEPT ![c] = b] \in [Settings -> Answers]
    BY <1>3 DEF InverterOK
  <1>5. \A d \in Settings : [inverter EXCEPT ![c] = b][d] =
                               IF d = c THEN b ELSE inverter[d]
    BY DEF InverterOK
  <1> QED
    BY <1>3, <1>4, <1>5 DEF InverterOK

\* The numbers of f in the rated information.
RatedApplied(items, f) ==
    [i \in DOMAIN items |->
        IF Sent(f, i) = {} THEN items[i]
        ELSE Item(items[i].size, CHOOSE value \in Sent(f, i) : TRUE)]

LEMMA RatedAppliedRewrites ==
    ASSUME NEW a \in Answers, Readable(RatedInformation, a),
           NEW f, AllGood(f.fields), InPlace(f),
           \A slot \in Slots[f.code] : SlotFine(f, slot)
    PROVE  Rewrites(a, [a EXCEPT !.items = RatedApplied(a.items, f)],
                    RatedInformation.enums)
  <1> DEFINE s == RatedApplied(a.items, f)
             b == [a EXCEPT !.items = s]
             Picked(i) == CHOOSE value \in Sent(f, i) : TRUE
  <1>1. a.items \in Seq(AnItem)
    BY AnswerItems
  <1>2. ASSUME NEW i, Sent(f, i) # {}
        PROVE  /\ Picked(i) \in Nat
               /\ \A enum \in DOMAIN RatedInformation.enums :
                     i \in RatedInformation.enums[enum]
                        => HasText(enum, Picked(i))
    <2>1. Picked(i) \in Sent(f, i)
      BY <1>2
    <2> DEFINE tenfold == IF f.code = "F" THEN 10 ELSE 1
    <2>2. PICK slot \in Slots[f.code] :
              slot[2] = i /\ Picked(i) = tenfold * f.fields[slot[1]].value
      BY <2>1 DEF Sent
    <2>3. SlotFine(f, slot)
      OBVIOUS
    <2>4. f.fields[slot[1]].value \in Nat
      BY <2>3, InPlaceIsNat DEF SlotFine
    <2>5. tenfold \in Nat
      OBVIOUS
    <2>6. Picked(i) \in Nat
      <3> DEFINE n == f.fields[slot[1]].value
      <3>1. n \in Nat /\ Picked(i) = tenfold * n
        BY <2>2, <2>4
      <3> HIDE DEF n, tenfold, Picked
      <3> QED
        BY <2>5, <3>1
    <2>7. ASSUME NEW enum \in DOMAIN RatedInformation.enums,
                 i \in RatedInformation.enums[enum]
          PROVE  HasText(enum, Picked(i))
      <3>1. f.code # "F" /\ HasText(enum, f.fields[slot[1]].value)
        BY <2>2, <2>3, <2>7 DEF SlotFine
      <3>2. tenfold = 1
        BY <3>1
      <3>3. Picked(i) = f.fields[slot[1]].value
        <4> DEFINE n == f.fields[slot[1]].value
        <4>1. n \in Nat /\ Picked(i) = tenfold * n
          BY <2>2, <2>4
        <4> HIDE DEF n, tenfold, Picked
        <4>2. Picked(i) = n
          BY <3>2, <4>1
        <4> QED
          BY <4>2 DEF n
      <3> QED
        BY <3>1, <3>3
    <2> QED
      BY <2>6, <2>7
  <1>3. DOMAIN s = DOMAIN a.items
    BY DEF RatedApplied
  <1>4. \A i \in DOMAIN a.items :
           s[i] = IF Sent(f, i) = {} THEN a.items[i]
                  ELSE Item(a.items[i].size, Picked(i))
    BY DEF RatedApplied
  <1> HIDE DEF s, Picked
  <1>5. ASSUME NEW i \in DOMAIN a.items
        PROVE  /\ s[i] \in AnItem /\ s[i].size = a.items[i].size
               /\ s[i].value = a.items[i].value \/ s[i].value \in Nat
               /\ \A enum \in DOMAIN RatedInformation.enums :
                     i \in RatedInformation.enums[enum] =>
                        \/ s[i].value = a.items[i].value
                        \/ HasText(enum, s[i].value)
    <2>1. a.items[i] \in AnItem
      BY <1>1
    <2>2. CASE Sent(f, i) = {}
      <3>1. s[i] = a.items[i]
        BY <1>4, <2>2
      <3> QED
        BY <2>1, <3>1
    <2>3. CASE Sent(f, i) # {}
      <3>1. s[i] = Item(a.items[i].size, Picked(i))
        BY <1>4, <2>3
      <3>2. s[i].size = a.items[i].size /\ s[i].value = Picked(i)
        BY <3>1 DEF Item
      <3>3. Picked(i) \in Nat
        BY <1>2, <2>3
      <3>4. s[i] \in AnItem
        <4>1. a.items[i].size \in Nat
          BY <2>1 DEF AnItem
        <4> QED
          BY <3>1, <3>3, <4>1 DEF Item, AnItem
      <3> QED
        BY <1>2, <2>3, <3>2, <3>3, <3>4
    <2> QED
      BY <2>2, <2>3
  <1>6. s \in Seq(AnItem)
    <2>1. s = [j \in DOMAIN a.items |-> s[j]] /\ DOMAIN a.items = 1 .. Len(a.items)
            /\ Len(a.items) \in Nat
      BY <1>1, <1>3, LenProperties DEF s, RatedApplied
    <2> QED
      BY <1>5, <2>1
  <1>7. b \in Answers /\ b.declared = a.declared /\ b.items = s
    BY <1>6, AnswerFields
  <1> HIDE DEF b
  <1>8. \A enum \in DOMAIN RatedInformation.enums :
           RatedInformation.enums[enum] \subseteq DOMAIN a.items
    BY RatedItems, RatedInformationIs
  <1>9. Rewrites(a, b, RatedInformation.enums)
    BY <1>3, <1>5, <1>7, <1>8 DEF Rewrites
  <1> QED
    BY <1>9 DEF b, s

LEMMA TwoSetsRewrite ==
    ASSUME NEW a \in Answers, NEW i, NEW j, NEW v \in Nat, NEW w \in Nat
    PROVE  Rewrites(a, [a EXCEPT !.items = Set(Set(a.items, i, v), j, w)], NoEnums)
  <1> DEFINE b == [a EXCEPT !.items = Set(a.items, i, v)]
             s == Set(a.items, i, v)
             t == Set(s, j, w)
             d == [a EXCEPT !.items = t]
  <1>0. a.items \in Seq(AnItem)
    BY AnswerItems
  <1>1. /\ s \in Seq(AnItem) /\ DOMAIN s = DOMAIN a.items
        /\ \A k \in DOMAIN a.items :
              /\ s[k].size = a.items[k].size
              /\ s[k].value = a.items[k].value \/ s[k].value \in Nat
    BY <1>0, SetIs
  <1> HIDE DEF s
  <1>2. /\ t \in Seq(AnItem) /\ DOMAIN t = DOMAIN s
        /\ \A k \in DOMAIN s :
              /\ t[k].size = s[k].size
              /\ t[k].value = s[k].value \/ t[k].value \in Nat
    BY <1>1, SetIs
  <1> HIDE DEF t
  <1>3. d \in Answers /\ d.declared = a.declared /\ d.items = t
    BY <1>2, AnswerFields
  <1>4. DOMAIN NoEnums = {}
    BY DEF NoEnums
  <1>5. \A k \in DOMAIN a.items :
           /\ t[k].size = a.items[k].size
           /\ t[k].value = a.items[k].value \/ t[k].value \in Nat
    <2> TAKE k \in DOMAIN a.items
    <2>1. /\ t[k].size = s[k].size
          /\ t[k].value = s[k].value \/ t[k].value \in Nat
      BY <1>1, <1>2
    <2>2. /\ s[k].size = a.items[k].size
          /\ s[k].value = a.items[k].value \/ s[k].value \in Nat
      BY <1>1
    <2> QED
      BY <2>1, <2>2
  <1> HIDE DEF d
  <1>6. Rewrites(a, d, NoEnums)
    BY <1>1, <1>2, <1>3, <1>4, <1>5 DEF Rewrites
  <1> QED
    BY <1>6 DEF d, t, s

\* Whatever the inverter takes of a set command, its answers stay readable.
LEMMA AppliedOK ==
    ASSUME InverterOK(inverter), NEW c \in SetCommands, NEW args,
           Packable(c, args), NEW junk \in Junk,
           NEW f, f.code = RawCommands[c], f.fields = PackArguments(c, args, junk),
           InPlace(f)
    PROVE  InverterOK(Applied(f))
  <1> DEFINE Put(s, b) == [inverter EXCEPT ![s] = b]
  <1>1. /\ Len(args) = Count(c) /\ c \in Commands /\ AllGood(f.fields)
        /\ \A i \in 1 .. Len(args) : args[i] \in Text /\ args[i].value \in Nat
    BY ArgumentsGood, TextType DEF Packable, IsText, IsPart, Commands
  <1>2. \A i \in DOMAIN f.fields : f.fields[i].value \in Nat
    BY <1>1, InPlaceIsNat
  <1>3. \A s \in Settings : inverter[s] \in Answers /\ Readable(Layouts[s], inverter[s])
    BY DEF InverterOK
  <1>4. CASE f.code \in DOMAIN Slots
    <2> DEFINE a == inverter["GetRatedInformation"]
               b == [a EXCEPT !.items = RatedApplied(a.items, f)]
    <2>1. Applied(f) = Put("GetRatedInformation", b)
      <3>1. f.code \notin {"P", "ACCT", "ACLT"}
        BY <1>4, SlotsAre
      <3>2. Applied(f) = [inverter EXCEPT !.GetRatedInformation.items =
                             RatedApplied(@, f)]
        BY <1>4, <3>1 DEF Applied, RatedApplied
      <3> QED
        BY <3>2
    <2>2. \A slot \in Slots[f.code] : SlotFine(f, slot)
      BY <1>4, SlotsAreFine
    <2>3. a \in Answers /\ Readable(RatedInformation, a)
      BY <1>3, SettingsLayouts DEF Settings
    <2> HIDE DEF a
    <2>4. Rewrites(a, b, RatedInformation.enums)
      BY <1>1, <2>2, <2>3, RatedAppliedRewrites
    <2> HIDE DEF b
    <2>5. InverterOK(Put("GetRatedInformation", b))
      <3>1. Rewrites(inverter["GetRatedInformation"], b,
                     Layouts["GetRatedInformation"].enums)
        BY <2>4, SettingsLayouts DEF a
      <3>2. "GetRatedInformation" \in Settings
        BY DEF Settings
      <3> QED
        BY <3>1, <3>2, InverterSet
    <2> QED
      BY <2>1, <2>5
  <1>5. CASE c = "SetFlag"
    <2> DEFINE a == inverter["GetFlagsAndStatuses"]
               n == f.fields[2].value + 1
               v == f.fields[1].value
               b == [a EXCEPT !.items = Set(a.items, n, v)]
    <2>1. f.code = "P" /\ "P" \notin DOMAIN Slots
      BY <1>5, CodesAre, SlotsAre
    <2>2. Applied(f) = Put("GetFlagsAndStatuses", b)
      BY <2>1, SMT DEF Applied
    <2>3. f.fields = <<Wide(1, args[2].value), Raw(1, args[1])>>
      BY <1>5, SMT DEF PackArguments
    <2>4. v \in Nat
      <3>1. 1 \in DOMAIN f.fields
        BY <2>3
      <3> QED
        BY <1>2, <3>1
    <2>5. a \in Answers
      BY <1>3 DEF Settings
    <2> HIDE DEF a, v, n
    <2>6. Rewrites(a, b, NoEnums)
      BY <2>4, <2>5, SetRewrites
    <2> HIDE DEF b
    <2>7. InverterOK(Put("GetFlagsAndStatuses", b))
      <3>1. Rewrites(inverter["GetFlagsAndStatuses"], b,
                     Layouts["GetFlagsAndStatuses"].enums)
        BY <2>6, SettingsLayouts, ListsOfSettings DEF a
      <3>2. "GetFlagsAndStatuses" \in Settings
        BY DEF Settings
      <3> QED
        BY <3>1, <3>2, InverterSet
    <2> QED
      BY <2>2, <2>7
  <1>6. ASSUME c \in Buckets, NEW s \in Settings,
               NEW b, b = [inverter[s] EXCEPT
                             !.items = Set(Set(inverter[s].items, 1, Clock(f, 1)),
                                           2, Clock(f, 4))],
               Layouts[s] = ACChargeTimeBucket
        PROVE  InverterOK(Put(s, b))
    <2>1. f.fields = <<Wide(2, args[1].value), Wide(2, args[2].value), Comma,
                       Wide(2, args[3].value), Wide(2, args[4].value)>>
      BY <1>6, SMT DEF PackArguments, Buckets
    <2>2. DOMAIN f.fields = 1 .. 5
      BY <2>1
    <2>3. \A i \in {1, 4} : Clock(f, i) \in Nat
      <3> TAKE i \in {1, 4}
      <3> DEFINE h == f.fields[i].value
                 m == f.fields[i + 1].value
      <3>1. i \in DOMAIN f.fields /\ i + 1 \in DOMAIN f.fields
        BY <2>2
      <3>2. h \in Nat /\ m \in Nat
        BY <1>2, <3>1
      <3>3. Clock(f, i) = 100 * h + m
        BY DEF Clock
      <3> HIDE DEF h, m
      <3> QED
        BY <3>2, <3>3
    <2>4. Clock(f, 1) \in Nat /\ Clock(f, 4) \in Nat
      BY <2>3
    <2>5. Rewrites(inverter[s], b, NoEnums)
      BY <1>3, <1>6, <2>4, TwoSetsRewrite
    <2> QED
      BY <1>6, <2>5, ListsOfSettings, InverterSet
  <1>7. CASE c = "SetACChargeTimeBucket"
    <2> DEFINE a == inverter["GetACChargeTimeBucket"]
               b == [a EXCEPT !.items = Set(Set(a.items, 1, Clock(f, 1)),
                                            2, Clock(f, 4))]
    <2>1. f.code = "ACCT" /\ "ACCT" \notin DOMAIN Slots
      BY <1>7, CodesAre, SlotsAre
    <2>2. Applied(f) = Put("GetACChargeTimeBucket", b)
      BY <2>1, SMT DEF Applied
    <2>3. "GetACChargeTimeBucket" \in Settings /\ c \in Buckets
      BY <1>7 DEF Settings, Buckets
    <2>4. b = [inverter["GetACChargeTimeBucket"] EXCEPT
                  !.items = Set(Set(inverter["GetACChargeTimeBucket"].items, 1,
                                    Clock(f, 1)), 2, Clock(f, 4))]
      OBVIOUS
    <2> HIDE DEF b
    <2>5. InverterOK(Put("GetACChargeTimeBucket", b))
      BY <1>6, <2>3, <2>4, SettingsLayouts
    <2> QED
      BY <2>2, <2>5
  <1>8. CASE c = "SetACSupplyTimeBucket"
    <2> DEFINE a == inverter["GetACSupplyTimeBucket"]
               b == [a EXCEPT !.items = Set(Set(a.items, 1, Clock(f, 1)),
                                            2, Clock(f, 4))]
    <2>1. f.code = "ACLT" /\ "ACLT" \notin DOMAIN Slots
      BY <1>8, CodesAre, SlotsAre
    <2>2. Applied(f) = Put("GetACSupplyTimeBucket", b)
      BY <2>1, SMT DEF Applied
    <2>3. "GetACSupplyTimeBucket" \in Settings /\ c \in Buckets
      BY <1>8 DEF Settings, Buckets
    <2>4. b = [inverter["GetACSupplyTimeBucket"] EXCEPT
                  !.items = Set(Set(inverter["GetACSupplyTimeBucket"].items, 1,
                                    Clock(f, 1)), 2, Clock(f, 4))]
      OBVIOUS
    <2> HIDE DEF b
    <2>5. InverterOK(Put("GetACSupplyTimeBucket", b))
      BY <1>6, <2>3, <2>4, SettingsLayouts
    <2> QED
      BY <2>2, <2>5
  <1>9. CASE c \in {"SetACSupply", "SetDefaults", "SetSolarConfig",
                    "ClearGenerated", "SetDateTime"}
    <2>1. f.code \in {"LON", "PF", "ID", "CLE", "DAT"}
      BY <1>9, CodesAre
    <2>2. Applied(f) = inverter
      BY <2>1, SlotsAre, SMT DEF Applied
    <2> QED
      BY <2>2
  <1>10. c \notin Buckets \union {"SetFlag", "SetACSupply", "SetDefaults",
              "SetSolarConfig", "ClearGenerated", "SetDateTime"}
            => f.code \in DOMAIN Slots
    BY CodesAre, SlotsAre DEF SetCommands, Buckets
  <1> QED
    BY <1>4, <1>5, <1>7, <1>8, <1>9, <1>10 DEF Buckets

----------------------------------------------------------------------------
(* The order of a request *)

Stages == {"options", "words", "open", "start", "serve", "execute", "answer",
           "read", "exit"}

\* What a stage says of the locals: a process that goes on has not returned,
\* only inverterd serves, a request that goes on has not ended, what is sent is
\* a command or raw, and there is no answer before one is read.
Order ==
    /\ line \in CommandLines /\ at \in 1 .. (Len(line.options) + 1)
    /\ ConfigOK(config)
    /\ stage \in Stages /\ exit \in {0, 1, Aborted, Running}
    /\ stage # "exit" => exit = Running
    /\ served \in 0 .. MaxRequests
    /\ stage \in {"options", "words", "open", "start"} => served = 0
    /\ stage \in {"start", "serve"} => ~ Ctl
    /\ end \in Ends \union Verdicts \union {None}
    /\ end # None => stage \in {"serve", "exit"}
    /\ command \in Commands \union {None}
    /\ stage \in {"execute", "answer"} \/ (stage = "open" /\ Ctl)
          => config.action = "raw" \/ command \in Commands
    /\ stage = "read" => command \in Commands
    /\ stage \in {"options", "words", "open", "start", "execute", "answer"}
          => answer = NoAnswer

LEMMA EndsWithMeans ==
    ASSUME NEW e \in Ends, EndsWith(e)
    PROVE  /\ end' = e
           /\ \/ stage' = "exit" /\ exit' \in {0, 1, Aborted}
                    /\ (exit' = Aborted => e \in Fatal)
              \/ ~ Ctl /\ stage' = "serve" /\ exit' = exit
  BY DEF EndsWith, Return, Abort, Aborted

\* Every ending is one of those that there are.
LEMMA EndsKnown ==
    /\ \A e \in {"device error", "timeout", "invalid data", "shown",
                 "out of range", "overflow", "not UTF-8", "invalid argument",
                 "invalid response", "succeeded", "declined", "endless"} : e \in Ends
    /\ \A bytes : ReadSet(bytes) \in {"timeout", "invalid data",
                      "invalid response", "succeeded", "declined"}
    /\ \A data, format : ReadGet(data, format) \subseteq
                 {"invalid response", "invalid argument", "shown", "endless",
                  "not UTF-8"}
  <1>1. \A e \in {"device error", "timeout", "invalid data", "shown",
                  "out of range", "overflow", "not UTF-8", "invalid argument",
                  "invalid response", "succeeded", "declined", "endless"} : e \in Ends
    BY DEF Ends, Shown, Caught
  <1>2. ASSUME NEW bytes
        PROVE  ReadSet(bytes) \in {"timeout", "invalid data",
                   "invalid response", "succeeded", "declined"}
    BY DEF ReadSet
  <1>3. ASSUME NEW data, NEW format
        PROVE  ReadGet(data, format) \subseteq
                 {"invalid response", "invalid argument", "shown", "endless",
                  "not UTF-8"}
    <2>1. Unpack(Layouts[command], data) \in {"refused", "invalid_argument",
                                              "outside", "unpacked"}
      BY DEF Unpack
    <2> QED
      BY <2>1 DEF ReadGet, ReadBehind
  <1> QED
    BY <1>1, <1>2, <1>3

LEMMA InitOrder == Init => Order
  <1> SUFFICES ASSUME Init PROVE Order
    OBVIOUS
  <1>1. line \in CommandLines /\ at \in 1 .. (Len(line.options) + 1)
    <2>1. line.options \in Seq(AllOptions)
      BY WordsAssumption DEF Init
    <2>2. Len(line.options) \in Nat
      BY <2>1, LenProperties
    <2> QED
      BY <2>2 DEF Init
  <1>2. ConfigOK(config)
    BY DEF Init, Defaults, ConfigOK, Formats, DeviceTypes
  <1>3. served \in 0 .. MaxRequests
    BY WordsAssumption DEF Init
  <1> QED
    BY <1>1, <1>2, <1>3 DEF Init, Order, Stages, Running

LEMMA OptionIsText ==
    ASSUME NEW l \in CommandLines, NEW i \in 1 .. Len(l.options)
    PROVE  IsText(l.options[i].argument)
  <1>1. l.options \in Seq(AllOptions)
    BY WordsAssumption
  <1>2. l.options[i] \in AllOptions
    BY <1>1
  <1> QED
    BY <1>2, WordsAssumption

LEMMA TakeOptionOrder ==
    ASSUME Order, TakeOption
    PROVE  /\ Order'
           /\ exit' = Aborted =>
                 \E i \in DOMAIN line.options : Huge(line.options[i].argument)
  <1> DEFINE option == line.options[at].name
             t == line.options[at].argument
             verdict == OptionCheck(option, t)
  <1>1. /\ line \in CommandLines /\ at \in 1 .. Len(line.options)
        /\ stage = "options" /\ at' = at + 1
        /\ UNCHANGED <<line, command, answer, end, served>>
    BY DEF TakeOption, Order, request
  <1>2. Len(line.options) \in Nat /\ DOMAIN line.options = 1 .. Len(line.options)
    BY <1>1, WordsAssumption, LenProperties
  <1>3. IsText(t)
    BY <1>1, OptionIsText
  <1>4. at' \in 1 .. (Len(line'.options) + 1)
    BY <1>1, <1>2
  <1>5. \/ stage' = "words" /\ UNCHANGED <<config, exit>>
        \/ stage' = "exit" /\ exit' = 1 /\ UNCHANGED config
        \/ UNCHANGED <<stage, exit>> /\ verdict = "accepted"
              /\ config' = OptionEffect(option, t)
        \/ verdict = "thrown" /\ stage' = "exit" /\ exit' = Aborted
              /\ UNCHANGED config
    BY DEF TakeOption, Return, Abort
  <1> HIDE DEF option, t, verdict
  <1>6. ConfigOK(config')
    <2>1. ConfigOK(config)
      BY DEF Order
    <2>2. verdict = "accepted" => ConfigOK(OptionEffect(option, t))
      BY <1>3, <2>1, OptionEffectOK DEF verdict
    <2> QED
      BY <1>5, <2>1, <2>2
  <1>7. exit = Running /\ end = None /\ served = 0 /\ answer = NoAnswer
    BY <1>1, SMT DEF Order
  <1>8. /\ stage' \in {"words", "exit", "options"}
        /\ exit' \in {0, 1, Aborted, Running}
        /\ stage' # "exit" => exit' = Running
    BY <1>1, <1>5, <1>7
  <1>9. Order'
    BY <1>1, <1>4, <1>6, <1>7, <1>8 DEF Order, Stages
  <1>10. exit' = Aborted => Huge(t)
    <2>1. verdict = "thrown" => Huge(t)
      BY <1>3, OptionCheckMeans DEF verdict
    <2>2. exit' = Aborted => verdict = "thrown"
      BY <1>5, <1>7 DEF Aborted, Running
    <2> QED
      BY <2>1, <2>2
  <1> QED
    BY <1>1, <1>2, <1>9, <1>10 DEF t

\* The words that are left are texts.
LEMMA RestIsWords ==
    ASSUME Order
    PROVE  /\ Rest \in Seq(Text)
           /\ Range(Rest) \subseteq Range(line.words) \union {Word("--option")}
  <1> DEFINE n == Len(line.options) - at + 1
             o == [i \in 1 .. n |-> Word("--option")]
             w == line.words
  <1>1. w \in Seq(Text)
    <2>1. line \in CommandLines
      BY DEF Order
    <2>2. w \in Seq(AllTexts)
      BY <2>1, WordsAssumption
    <2>3. \A i \in 1 .. Len(w) : w[i] \in Text
      BY <2>2 DEF Text
    <2>4. w = [i \in 1 .. Len(w) |-> w[i]] /\ Len(w) \in Nat
      BY <2>2
    <2> HIDE DEF w
    <2> QED
      BY <2>3, <2>4
  <1>2. n \in Nat
    <2>1. line.options \in Seq(AllOptions) /\ at \in 1 .. (Len(line.options) + 1)
      BY WordsAssumption DEF Order
    <2> QED
      BY <2>1, LenProperties
  <1>3. o \in Seq(Text) /\ Len(o) = n /\ \A i \in 1 .. n : o[i] = Word("--option")
    <2>1. Word("--option") \in Text
      BY DEF Text
    <2> HIDE DEF n
    <2> QED
      BY <1>2, <2>1
  <1>4. Rest = o \o w
    BY DEF Rest
  <1> HIDE DEF o, w, n
  <1>5. /\ Rest \in Seq(Text) /\ Len(Rest) = Len(o) + Len(w)
        /\ \A i \in 1 .. Len(Rest) : Rest[i] = IF i <= Len(o) THEN o[i]
                                               ELSE w[i - Len(o)]
    BY <1>1, <1>3, <1>4, ConcatProperties
  <1>6. ASSUME NEW i \in DOMAIN Rest
        PROVE  Rest[i] \in Range(w) \union {Word("--option")}
    <2>1. i \in 1 .. Len(Rest) /\ Len(w) \in Nat /\ DOMAIN w = 1 .. Len(w)
      BY <1>1, <1>5, LenProperties
    <2>2. CASE i <= n
      <3>1. Rest[i] = o[i] /\ i \in 1 .. n
        BY <1>2, <1>3, <1>5, <2>1, <2>2
      <3> QED
        BY <1>3, <3>1
    <2>3. CASE ~ (i <= n)
      <3>1. Rest[i] = w[i - n] /\ i - n \in DOMAIN w
        BY <1>2, <1>3, <1>5, <2>1, <2>3
      <3> QED
        BY <3>1 DEF Range
    <2> QED
      BY <2>2, <2>3
  <1> QED
    BY <1>5, <1>6 DEF Range, w

\* The command and the arguments that are kept are what validate_input makes of
\* some of the words; inverterctl is given them on its command line.
Kept(words) ==
    command \in Commands =>
        \E a \in Seq(Text) : /\ From(a, command, arguments)
                             /\ Range(a) \subseteq words
KeptWords == IF Ctl THEN Range(line.words) \union {Word("--option")} ELSE Text
Asked == Kept(KeptWords)

\* What Take leaves of the words, when it accepts them.
TakenFrom(words) ==
    /\ command' \in Commands /\ end' = None /\ exit' = exit
    /\ stage' = IF Ctl THEN "open" ELSE "execute"
    /\ \E a \in Seq(Text) : /\ From(a, command', arguments')
                            /\ Range(a) \subseteq Range(words)
\* And when it does not.
NotTaken(words) ==
    /\ command' = None /\ end' \in {"refused", "thrown"}
    /\ \/ /\ Ctl /\ stage' = "exit" /\ exit' \in {1, Aborted}
          /\ exit' = Aborted => \E t \in Range(words) : Huge(t)
       \/ ~ Ctl /\ stage' = stage /\ exit' = exit

LEMMA TailOfWords ==
    ASSUME NEW words \in Seq(Text), words # <<>>
    PROVE  /\ Tail(words) \in Seq(Text)
           /\ \A k \in DOMAIN Tail(words) : Tail(words)[k] \in Range(words)
  <1>1. Len(words) \in Nat \ {0} /\ DOMAIN words = 1 .. Len(words)
    BY EmptySeq, LenProperties
  <1>2. /\ Tail(words) \in Seq(Text) /\ Len(Tail(words)) = Len(words) - 1
        /\ \A i \in 1 .. Len(Tail(words)) : Tail(words)[i] = words[i + 1]
    BY HeadTailProperties
  <1>3. DOMAIN Tail(words) = 1 .. Len(Tail(words))
    BY <1>2, LenProperties
  <1>4. ASSUME NEW k \in DOMAIN Tail(words)
        PROVE  Tail(words)[k] \in Range(words)
    <2> DEFINE s == Tail(words)
    <2> HIDE DEF s
    <2>1. k + 1 \in DOMAIN words /\ s[k] = words[k + 1]
      BY <1>1, <1>2, <1>3, <1>4 DEF s
    <2> QED
      BY <2>1 DEF Range, s
  <1> QED
    BY <1>2, <1>4

LEMMA TakeMeans ==
    ASSUME NEW words \in Seq(Text), words # <<>>, Take(words)
    PROVE  /\ frame' = NoFrame /\ answer' = NoAnswer
           /\ TakenFrom(words) \/ NotTaken(words)
  <1> DEFINE c == words[1].word
             tail == Tail(words)
             a == SubSeq(tail, 1, ArgumentCount(c))
             verdict == IF c \notin Commands THEN "refused"
                        ELSE ValidateInput(line.program, c, tail)
  <1>1. tail \in Seq(Text) /\ \A k \in DOMAIN tail : tail[k] \in Range(words)
    BY TailOfWords
  <1>2. frame' = NoFrame /\ answer' = NoAnswer
    BY DEF Take
  <1>3. \/ /\ verdict = "accepted"
           /\ command' = c /\ arguments' = Rewritten(c, a)
           /\ stage' = (IF Ctl THEN "open" ELSE "execute")
           /\ end' = None /\ exit' = exit
        \/ /\ verdict # "accepted"
           /\ command' = None /\ end' = verdict
           /\ \/ Ctl /\ verdict = "refused" /\ stage' = "exit" /\ exit' = 1
              \/ Ctl /\ verdict = "thrown" /\ stage' = "exit" /\ exit' = Aborted
              \/ ~ Ctl /\ stage' = stage /\ exit' = exit
    BY DEF Take, Return, Abort
  <1> HIDE DEF tail, c
  <1>4. /\ verdict \in Verdicts
        /\ verdict = "thrown" => \E k \in DOMAIN tail : Huge(tail[k])
        /\ verdict = "accepted" =>
              c \in Commands /\ a \in Seq(Text) /\ Len(a) = ArgumentCount(c)
                /\ Passed(Checks(c, a))
    <2>1. CASE c \notin Commands
      BY <2>1 DEF Verdicts
    <2>2. CASE c \in Commands
      <3>1. verdict = ValidateInput(line.program, c, tail)
        BY <2>2
      <3> HIDE DEF verdict
      <3> QED
        BY <1>1, <2>2, <3>1, ValidateInputMeans
    <2> QED
      BY <2>1, <2>2
  <1>5. CASE verdict = "accepted"
    <2>1. /\ command' = c /\ arguments' = Rewritten(c, a)
          /\ stage' = (IF Ctl THEN "open" ELSE "execute")
          /\ end' = None /\ exit' = exit
      BY <1>3, <1>5
    <2>2. a \in Seq(Text) /\ From(a, c, arguments') /\ c \in Commands
      BY <1>4, <1>5, <2>1 DEF From
    <2>3. Range(a) \subseteq Range(words)
      <3>1. Len(tail) >= ArgumentCount(c)
        <4>1. ValidateInput(line.program, c, tail) = "accepted"
          BY <1>4, <1>5
        <4>2. ~ (Len(tail) < ArgumentCount(c))
          BY <4>1 DEF ValidateInput
        <4>3. ArgumentCount(c) \in Nat /\ Len(tail) \in Nat
          BY <1>1, LenProperties, SMT DEF ArgumentCount
        <4> QED
          BY <4>2, <4>3
      <3>2. ArgumentCount(c) \in Nat /\ Len(tail) \in Nat
              /\ DOMAIN tail = 1 .. Len(tail)
        BY <1>1, LenProperties, SMT DEF ArgumentCount
      <3> DEFINE n == ArgumentCount(c)
      <3> HIDE DEF n
      <3>3. \A k \in 1 .. n : a[k] = tail[k] /\ k \in DOMAIN tail
        BY <1>1, <3>1, <3>2, SubSeqProperties DEF n
      <3>4. DOMAIN a = 1 .. n
        BY <1>1, <2>2, <3>2, LenProperties DEF From, n
      <3> HIDE DEF a
      <3> QED
        BY <1>1, <3>3, <3>4 DEF Range
    <2> HIDE DEF a
    <2> QED
      BY <1>2, <2>1, <2>2, <2>3 DEF TakenFrom
  <1>6. CASE verdict # "accepted"
    <2>1. /\ command' = None /\ end' = verdict
          /\ \/ Ctl /\ verdict = "refused" /\ stage' = "exit" /\ exit' = 1
             \/ Ctl /\ verdict = "thrown" /\ stage' = "exit" /\ exit' = Aborted
             \/ ~ Ctl /\ stage' = stage /\ exit' = exit
      BY <1>3, <1>6
    <2>2. verdict = "thrown" => \E t \in Range(words) : Huge(t)
      <3> HIDE DEF verdict
      <3> QED
        BY <1>1, <1>4
    <2>3. verdict \in {"refused", "thrown"}
      BY <1>4, <1>6 DEF Verdicts
    <2> HIDE DEF verdict
    <2> QED
      BY <1>2, <2>1, <2>2, <2>3 DEF NotTaken, Aborted
  <1> QED
    BY <1>5, <1>6

----------------------------------------------------------------------------
(* The inductive invariant: beside the order of the stages, the arguments are  *)
(* those of the words, the frame is made of them, an answer that is read is    *)
(* the inverter's and the inverter's own answers can be read.                  *)

FrameInv ==
    /\ AllGood(frame.fields) /\ frame.kind \in {"P", "S", None}
    /\ (stage = "answer" /\ config.action # "raw") =>
          \E junk \in Junk : frame = Frame(command, arguments, junk)

AnswerInv ==
    (stage = "read" /\ command \in GetCommands) =>
        /\ answer.of # None
        /\ answer.of = command => Readable(Layouts[command], answer.data)

IInv == /\ Order /\ Asked /\ FrameInv /\ AnswerInv /\ InverterOK(inverter)
        /\ CrashesKnown /\ OwnAnswersShown

LEMMA NoneIsNoCommand == None \notin Commands /\ NoAnswer.of = None
  BY DEF None, Commands, GetCommands, SetCommands, NoAnswer

LEMMA InitIInv == Init => IInv
  <1> SUFFICES ASSUME Init PROVE IInv
    OBVIOUS
  <1>1. Order
    BY InitOrder
  <1>2. command = None /\ end = None /\ exit = Running /\ stage = "options"
          /\ frame = NoFrame /\ inverter = PowerOn
    BY DEF Init
  <1>3. Asked /\ AnswerInv /\ OwnAnswersShown /\ CrashesKnown
    BY <1>2, NoneIsNoCommand DEF Asked, Kept, AnswerInv, OwnAnswersShown,
       CrashesKnown, Running, Aborted, Commands
  <1>4. FrameInv
    BY <1>2 DEF FrameInv, NoFrame, AllGood
  <1>5. InverterOK(inverter)
    BY <1>2, AnswersAssumption DEF InverterOK
  <1> QED
    BY <1>1, <1>3, <1>4, <1>5 DEF IInv

\* A step that sends and reads nothing.
LEMMA Quiet ==
    ASSUME IInv, UNCHANGED <<line, request, inverter>>,
           stage' \notin {"answer", "read"}, end' = end \/ answer = NoAnswer
    PROVE  Asked' /\ FrameInv' /\ AnswerInv' /\ InverterOK(inverter')
             /\ OwnAnswersShown'
  <1>1. UNCHANGED <<line, command, arguments, frame, answer, inverter>>
    BY DEF request
  <1>2. Asked'
    BY <1>1 DEF IInv, Asked, Kept, KeptWords, Ctl
  <1>3. FrameInv' /\ AnswerInv'
    BY <1>1 DEF IInv, FrameInv, AnswerInv
  <1>4. InverterOK(inverter')
    BY <1>1 DEF IInv
  <1>5. OwnAnswersShown'
    BY <1>1, NoneIsNoCommand DEF IInv, OwnAnswersShown, Commands
  <1> QED
    BY <1>2, <1>3, <1>4, <1>5

LEMMA TakeOptionKeeps == IInv /\ TakeOption => IInv'
  <1> SUFFICES ASSUME IInv, TakeOption PROVE IInv'
    OBVIOUS
  <1>1. /\ Order'
        /\ exit' = Aborted =>
              \E i \in DOMAIN line.options : Huge(line.options[i].argument)
    BY TakeOptionOrder DEF IInv
  <1>2. UNCHANGED <<line, request, inverter, end>>
          /\ stage' \in {"options", "words", "exit"}
    BY DEF TakeOption, Return, Abort
  <1>3. CrashesKnown'
    BY <1>1, <1>2 DEF CrashesKnown
  <1> QED
    BY <1>1, <1>2, <1>3, Quiet DEF IInv

LEMMA OpenDeviceKeeps == IInv /\ OpenDevice => IInv'
  <1> SUFFICES ASSUME IInv, OpenDevice PROVE IInv'
    OBVIOUS
  <1>1. /\ UNCHANGED <<line, at, config, request, inverter, served>>
        /\ stage = "open"
        /\ \/ /\ stage' = (IF Ctl THEN "execute" ELSE "start")
              /\ UNCHANGED <<end, exit>>
           \/ end' = "device error" /\ stage' = "exit" /\ exit' \in {0, 1}
    BY DEF OpenDevice, Return
  <1>2. /\ exit = Running /\ end = None /\ answer = NoAnswer /\ served = 0
        /\ Ctl => config.action = "raw" \/ command \in Commands
    <2>1. exit = Running /\ end = None /\ answer = NoAnswer /\ served = 0
      <3>1. stage = "open" /\ Order
        BY <1>1 DEF IInv
      <3>2. exit = Running
        BY <3>1 DEF Order
      <3>3. end = None
        BY <3>1 DEF Order
      <3>4. answer = NoAnswer
        BY <3>1 DEF Order
      <3>5. served = 0
        BY <3>1 DEF Order
      <3> QED
        BY <3>2, <3>3, <3>4, <3>5
    <2>2. Ctl => config.action = "raw" \/ command \in Commands
      BY <1>1 DEF IInv, Order
    <2> QED
      BY <2>1, <2>2
  <1>3. "device error" \in Ends
    BY EndsKnown
  <1>4. Order'
    <2>1. Order /\ UNCHANGED <<command, answer>> /\ Ctl' = Ctl
      BY <1>1 DEF IInv, request, Ctl
    <2> QED
      BY <1>1, <1>2, <1>3, <2>1 DEF Order, Stages
  <1>5. CrashesKnown'
    <2>1. exit' \in {Running, 0, 1}
      BY <1>1, <1>2
    <2>2. Aborted \notin {Running, 0, 1}
      BY DEF Aborted, Running
    <2> QED
      BY <2>1, <2>2 DEF CrashesKnown
  <1> QED
    BY <1>1, <1>2, <1>4, <1>5, Quiet DEF IInv

LEMMA StartKeeps == IInv /\ Start => IInv'
  <1> SUFFICES ASSUME IInv, Start PROVE IInv'
    OBVIOUS
  <1>1. /\ UNCHANGED <<line, at, request, inverter, end, served>>
        /\ stage = "start"
        /\ \/ /\ config' = [config EXCEPT !.port = @ % 65536]
              /\ stage' = "serve" /\ exit' = exit
           \/ stage' = "exit" /\ exit' = Aborted /\ config' = config
    BY DEF Start, Abort
  <1>2. /\ exit = Running /\ end = None /\ served = 0 /\ ~ Ctl
        /\ ConfigOK(config)
    BY <1>1, SMT DEF IInv, Order
  <1>3. ConfigOK(config')
    <2>1. CASE config' = config
      BY <1>2, <2>1
    <2>2. CASE config' # config
      <3>1. DOMAIN config = {"action", "format", "formatChanged", "device",
                             "baud", "bits", "stop", "parity", "port"}
        BY <1>2 DEF ConfigOK, Defaults
      <3>2. config' = [config EXCEPT !.port = @ % 65536]
        BY <1>1, <2>2
      <3>3. /\ DOMAIN config' = DOMAIN config /\ config'.action = config.action
            /\ config'.format = config.format /\ config'.device = config.device
        BY <3>1, <3>2
      <3> QED
        BY <1>2, <3>3 DEF ConfigOK
    <2> QED
      BY <2>1, <2>2
  <1>4. Order'
    <2>1. Order /\ UNCHANGED <<command, answer>> /\ Ctl' = Ctl
      BY <1>1 DEF IInv, request, Ctl
    <2> QED
      BY <1>1, <1>2, <1>3, <2>1 DEF Order, Stages
  <1>5. CrashesKnown'
    <2>1. Ctl' = Ctl /\ served' = 0
      BY <1>1, <1>2 DEF Ctl
    <2> QED
      BY <1>2, <2>1 DEF CrashesKnown
  <1> QED
    BY <1>1, <1>4, <1>5, Quiet DEF IInv

LEMMA ShutDownKeeps == IInv /\ ShutDown => IInv'
  <1> SUFFICES ASSUME IInv, ShutDown PROVE IInv'
    OBVIOUS
  <1>1. /\ UNCHANGED <<line, at, config, request, inverter, end, served>>
        /\ stage = "serve" /\ stage' = "exit" /\ exit' = 0
    BY DEF ShutDown, Return
  <1>2. Order'
    <2>1. Order /\ UNCHANGED <<command, answer>> /\ Ctl' = Ctl
      BY <1>1 DEF IInv, request, Ctl
    <2> QED
      BY <1>1, <2>1 DEF Order, Stages
  <1>3. CrashesKnown'
    BY <1>1 DEF CrashesKnown, Aborted
  <1> QED
    BY <1>1, <1>2, <1>3, Quiet DEF IInv

LEMMA OptionIsNotHuge == ~ Huge(Word("--option"))
  <1>1. \A w : Word(w).clock = <<>> /\ Word(w).wraps = 0
          /\ Word(w).whole = "nothing" /\ Word(w).real = "nothing"
    BY WordType
  <1> DEFINE o == Word("--option")
  <1>2. o.clock = <<>> /\ o.wraps = 0 /\ o.value = 0
          /\ o.whole = "nothing" /\ o.real = "nothing"
    BY <1>1 DEF Word
  <1> HIDE DEF o
  <1>3. ~ Huge(o)
    BY <1>2, SMT DEF Huge, MaxInt
  <1> QED
    BY <1>3 DEF o

\* What Take leaves is in order, if `given` are the words that Asked allows.
LEMMA TakeKeeps ==
    ASSUME IInv, NEW words \in Seq(Text), words # <<>>, Take(words),
           UNCHANGED <<line, at, config, inverter>>,
           Range(words) \subseteq KeptWords,
           stage \in IF Ctl THEN {"options", "words"} ELSE {"serve"},
           served' \in 0 .. MaxRequests, Ctl => served' = served
    PROVE  IInv'
  <1>1. /\ frame' = NoFrame /\ answer' = NoAnswer
        /\ TakenFrom(words) \/ NotTaken(words)
    BY TakeMeans
  <1>2. Ctl' = Ctl /\ Fatal' = Fatal /\ KeptWords' = KeptWords
    BY DEF Ctl, Fatal, KeptWords
  <1>3. exit = Running /\ stage # "exit" /\ (Ctl => served = 0)
    <2>1. Order /\ (Ctl => stage \in {"options", "words"})
            /\ (~ Ctl => stage = "serve")
      BY DEF IInv
    <2>2. stage # "exit"
      BY <2>1
    <2>3. exit = Running
      BY <2>1, <2>2 DEF Order
    <2>4. Ctl => served = 0
      BY <2>1 DEF Order
    <2> QED
      BY <2>2, <2>3, <2>4
  <1>4. FrameInv' /\ AnswerInv' /\ InverterOK(inverter') /\ OwnAnswersShown'
    <2>1. stage' \notin {"answer", "read"}
      BY <1>1, <1>3 DEF TakenFrom, NotTaken
    <2>2. FrameInv' /\ AnswerInv'
      BY <1>1, <2>1 DEF FrameInv, AnswerInv, NoFrame, AllGood
    <2>3. OwnAnswersShown'
      BY <1>1, NoneIsNoCommand DEF OwnAnswersShown, Commands
    <2> QED
      BY <2>2, <2>3 DEF IInv
  <1>5. line \in CommandLines /\ at \in 1 .. (Len(line.options) + 1)
          /\ ConfigOK(config)
    BY DEF IInv, Order
  <1>6. CASE TakenFrom(words)
    <2>1. /\ command' \in Commands /\ end' = None /\ exit' = exit
          /\ stage' = IF Ctl THEN "open" ELSE "execute"
          /\ \E a \in Seq(Text) : /\ From(a, command', arguments')
                                  /\ Range(a) \subseteq Range(words)
      BY <1>6 DEF TakenFrom
    <2>2. Asked'
      <3>1. PICK a \in Seq(Text) : /\ From(a, command', arguments')
                                   /\ Range(a) \subseteq Range(words)
        BY <2>1
      <3>2. Range(a) \subseteq KeptWords'
        BY <1>2, <3>1
      <3> QED
        BY <3>1, <3>2 DEF Asked, Kept
    <2>3. Order'
      BY <1>1, <1>2, <1>3, <1>5, <2>1 DEF Order, Stages
    <2>4. CrashesKnown'
      <3>1. exit' # Aborted
        BY <1>3, <2>1 DEF Running, Aborted
      <3> QED
        BY <3>1 DEF CrashesKnown
    <2> QED
      BY <1>4, <2>2, <2>3, <2>4 DEF IInv
  <1>7. CASE NotTaken(words)
    <2>1. /\ command' = None /\ end' \in {"refused", "thrown"}
          /\ \/ /\ Ctl /\ stage' = "exit" /\ exit' \in {1, Aborted}
                /\ exit' = Aborted => \E t \in Range(words) : Huge(t)
             \/ ~ Ctl /\ stage' = stage /\ exit' = exit
      BY <1>7 DEF NotTaken
    <2>2. Asked'
      BY <2>1, NoneIsNoCommand DEF Asked, Kept
    <2>3. stage' \in {"exit", "serve"} /\ (stage' = "serve" => ~ Ctl)
            /\ exit' \in {0, 1, Aborted, Running}
            /\ (stage' # "exit" => exit' = Running)
      <3>1. CASE Ctl
        BY <2>1, <3>1
      <3>2. CASE ~ Ctl
        <4>1. stage = "serve"
          BY <3>2
        <4> QED
          BY <1>3, <2>1, <3>2, <4>1
      <3> QED
        BY <3>1, <3>2
    <2>4. Order'
      <3>1. end' \in Ends \union Verdicts \union {None}
        BY <2>1 DEF Verdicts
      <3> QED
        BY <1>1, <1>2, <1>5, <2>1, <2>3, <3>1 DEF Order, Stages
    <2>5. CrashesKnown'
      <3>1. CASE exit' = Aborted
        <4>1. Running # Aborted
          BY DEF Running, Aborted
        <4>2. Ctl /\ \E t \in Range(words) : Huge(t)
          BY <1>3, <2>1, <3>1, <4>1
        <4>3. PICK t \in Range(words) : Huge(t)
          BY <4>2
        <4>4. t # Word("--option")
          BY <4>3, OptionIsNotHuge
        <4>5. t \in Range(line.words)
          BY <4>2, <4>3, <4>4 DEF KeptWords
        <4> QED
          BY <4>3, <4>5 DEF CrashesKnown
      <3>2. CASE exit' # Aborted
        BY <3>2 DEF CrashesKnown
      <3> QED
        BY <3>1, <3>2
    <2> QED
      BY <1>4, <2>2, <2>4, <2>5 DEF IInv
  <1> QED
    BY <1>1, <1>6, <1>7

LEMMA TakeWordsKeeps == IInv /\ TakeWords => IInv'
  <1> SUFFICES ASSUME IInv, TakeWords PROVE IInv'
    OBVIOUS
  <1>1. stage \in {"options", "words"} /\ UNCHANGED <<line, at, config, inverter, served>>
    BY DEF TakeWords
  <1>2. exit = Running /\ end = None /\ answer = NoAnswer /\ served = 0
    <2>1. Order
      BY DEF IInv
    <2> QED
      BY <1>1, <2>1 DEF Order
  <1>3. \/ Ctl /\ Rest # <<>> /\ Take(Rest)
        \/ stage' = "exit" /\ exit' = 1 /\ UNCHANGED <<request, end>>
        \/ /\ config.action = "raw" \/ ~ Ctl
           /\ stage' = "open" /\ UNCHANGED <<request, end, exit>>
    BY DEF TakeWords, Return
  <1>4. CASE Ctl /\ Rest # <<>> /\ Take(Rest)
    <2>1. Rest \in Seq(Text) /\ Range(Rest) \subseteq KeptWords
      BY <1>4, RestIsWords DEF IInv, KeptWords
    <2>2. served' \in 0 .. MaxRequests
      BY <1>1 DEF IInv, Order
    <2> QED
      BY <1>1, <1>4, <2>1, <2>2, TakeKeeps
  <1>5. CASE \/ stage' = "exit" /\ exit' = 1 /\ UNCHANGED <<request, end>>
             \/ /\ config.action = "raw" \/ ~ Ctl
                /\ stage' = "open" /\ UNCHANGED <<request, end, exit>>
    <2>1. Order /\ UNCHANGED <<command, answer>> /\ Ctl' = Ctl
            /\ UNCHANGED <<line, request, inverter, end>>
      BY <1>1, <1>5 DEF IInv, request, Ctl
    <2>2. stage' \in {"exit", "open"} /\ exit' \in {1, Running}
            /\ (stage' = "open" => exit' = Running)
            /\ (stage' = "open" => config.action = "raw" \/ ~ Ctl)
      BY <1>2, <1>5
    <2>3. Order'
      BY <1>1, <1>2, <2>1, <2>2 DEF Order, Stages
    <2>4. CrashesKnown'
      <3>1. exit' # Aborted
        BY <2>2 DEF Running, Aborted
      <3> QED
        BY <3>1 DEF CrashesKnown
    <2> QED
      BY <2>1, <2>2, <2>3, <2>4, Quiet DEF IInv
  <1> QED
    BY <1>3, <1>4, <1>5

LEMMA ExecuteKeeps ==
    ASSUME IInv, NEW words \in Requests, Execute(words)
    PROVE  IInv'
  <1>1. /\ stage = "serve" /\ served < MaxRequests /\ served' = served + 1
        /\ Take(words) /\ UNCHANGED <<line, at, config, inverter>>
    BY DEF Execute
  <1>2. ~ Ctl /\ served \in 0 .. MaxRequests
    BY <1>1 DEF IInv, Order
  <1>3. words \in Seq(Text) /\ words # <<>>
    <2>1. words \in Seq(AllTexts) /\ words # <<>>
      BY WordsAssumption
    <2>2. \A i \in 1 .. Len(words) : words[i] \in Text
      BY <2>1 DEF Text
    <2>3. words = [i \in 1 .. Len(words) |-> words[i]] /\ Len(words) \in Nat
      BY <2>1
    <2> QED
      BY <2>1, <2>2, <2>3
  <1>4. Range(words) \subseteq KeptWords
    BY <1>2, <1>3 DEF KeptWords, Range
  <1>5. served' \in 0 .. MaxRequests
    BY <1>1, <1>2, WordsAssumption
  <1> QED
    BY <1>1, <1>2, <1>3, <1>4, <1>5, TakeKeeps

\* The ways a request ends when nothing else changes but its end.
LEMMA EndKeeps ==
    ASSUME IInv, NEW e \in Ends, EndsWith(e),
           UNCHANGED <<line, at, config, request, inverter, served>>,
           stage \in {"execute", "answer", "read"}
    PROVE  /\ Order'
           /\ Asked' /\ FrameInv' /\ AnswerInv' /\ InverterOK(inverter')
           /\ exit' = Aborted => e \in Fatal
           /\ end' = e
  <1>1. /\ end' = e
        /\ \/ stage' = "exit" /\ exit' \in {0, 1, Aborted}
                 /\ (exit' = Aborted => e \in Fatal)
           \/ ~ Ctl /\ stage' = "serve" /\ exit' = exit
    BY EndsWithMeans
  <1>2. exit = Running
    <2>1. Order /\ stage # "exit"
      BY DEF IInv
    <2> QED
      BY <2>1 DEF Order
  <1>3. stage' \in {"exit", "serve"} /\ (stage' = "serve" => ~ Ctl)
          /\ exit' \in {0, 1, Aborted, Running}
          /\ (stage' # "exit" => exit' = Running)
          /\ (exit' = Aborted => e \in Fatal)
    BY <1>1, <1>2 DEF Running, Aborted
  <1>4. Order'
    <2>1. Order /\ UNCHANGED <<command, answer>> /\ Ctl' = Ctl
      BY DEF IInv, request, Ctl
    <2> QED
      BY <1>1, <1>3, <2>1 DEF Order, Stages
  <1>5. Asked'
    BY DEF IInv, Asked, Kept, KeptWords, Ctl, request
  <1>6. FrameInv' /\ AnswerInv' /\ InverterOK(inverter')
    BY <1>3 DEF IInv, FrameInv, AnswerInv, request
  <1> QED
    BY <1>1, <1>3, <1>4, <1>5, <1>6

LEMMA SendKeeps == IInv /\ Send => IInv'
  <1> SUFFICES ASSUME IInv, Send PROVE IInv'
    OBVIOUS
  <1>1. /\ stage = "execute"
        /\ UNCHANGED <<line, at, config, command, arguments, answer, inverter,
                       served>>
        /\ \/ /\ config.action = "raw"
              /\ stage' = "answer" /\ UNCHANGED <<frame, end, exit>>
           \/ /\ config.action # "raw"
              /\ \E junk \in Junk : frame' = Frame(command, arguments, junk)
              /\ stage' = "answer" /\ UNCHANGED <<end, exit>>
           \/ /\ config.action # "raw" /\ ~ Packs(command, arguments)
              /\ EndsWith("out of range") /\ UNCHANGED frame
    BY DEF Send
  <1>2. /\ exit = Running /\ end = None /\ answer = NoAnswer
        /\ config.action = "raw" \/ command \in Commands
    <2>1. Order
      BY DEF IInv
    <2>2. exit = Running /\ end = None /\ answer = NoAnswer
      BY <1>1, <2>1 DEF Order
    <2>3. config.action = "raw" \/ command \in Commands
      BY <1>1, <2>1 DEF Order
    <2> QED
      BY <2>2, <2>3
  <1>3. Asked'
    BY <1>1 DEF IInv, Asked, Kept, KeptWords, Ctl
  <1>4. ASSUME config.action # "raw"
        PROVE  /\ command \in Commands /\ Packable(command, arguments)
               /\ \E a \in Seq(Text) : /\ From(a, command, arguments)
                                       /\ Range(a) \subseteq KeptWords
    <2>1. command \in Commands
      BY <1>2, <1>4
    <2>2. PICK a \in Seq(Text) : /\ From(a, command, arguments)
                                 /\ Range(a) \subseteq KeptWords
      BY <2>1 DEF IInv, Asked, Kept
    <2>3. Packable(command, arguments)
      BY <2>1, <2>2, ArgumentsPackable DEF From, Validated
    <2> QED
      BY <2>1, <2>2, <2>3
  <1>5. CASE stage' = "answer" /\ UNCHANGED <<end, exit>>
               /\ FrameInv'
    <2>1. Order'
      <3>1. Order /\ Ctl' = Ctl
        BY <1>1 DEF IInv, Ctl
      <3> QED
        BY <1>1, <1>2, <1>5, <3>1 DEF Order, Stages
    <2>2. AnswerInv' /\ InverterOK(inverter') /\ OwnAnswersShown'
      BY <1>1, <1>2, <1>5 DEF IInv, AnswerInv, OwnAnswersShown
    <2>3. CrashesKnown'
      <3>1. exit' # Aborted
        BY <1>2, <1>5 DEF Running, Aborted
      <3> QED
        BY <3>1 DEF CrashesKnown
    <2> QED
      BY <1>3, <1>5, <2>1, <2>2, <2>3 DEF IInv
  <1>6. CASE config.action = "raw" /\ stage' = "answer"
               /\ UNCHANGED <<frame, end, exit>>
    <2>1. FrameInv'
      BY <1>1, <1>6 DEF IInv, FrameInv
    <2> QED
      BY <1>5, <1>6, <2>1
  <1>7. CASE /\ config.action # "raw"
             /\ \E junk \in Junk : frame' = Frame(command, arguments, junk)
             /\ stage' = "answer" /\ UNCHANGED <<end, exit>>
    <2>1. PICK junk \in Junk : frame' = Frame(command, arguments, junk)
      BY <1>7
    <2>2. frame'.fields = PackArguments(command, arguments, junk)
            /\ frame'.kind \in {"P", "S"}
      BY <2>1, FrameIs
    <2>3. AllGood(PackArguments(command, arguments, junk))
      BY <1>4, <1>7, ArgumentsGood
    <2>4. \E x \in Junk : frame' = Frame(command', arguments', x)
      BY <1>1, <2>1
    <2>5. FrameInv'
      BY <2>2, <2>3, <2>4 DEF FrameInv
    <2> QED
      BY <1>5, <1>7, <2>5
  <1>8. CASE /\ config.action # "raw" /\ ~ Packs(command, arguments)
             /\ EndsWith("out of range") /\ UNCHANGED frame
    <2>1. UNCHANGED <<line, at, config, request, inverter, served>>
            /\ "out of range" \in Ends
      BY <1>1, <1>8, EndsKnown DEF request
    <2>2. /\ Order' /\ Asked' /\ FrameInv' /\ AnswerInv' /\ InverterOK(inverter')
          /\ exit' = Aborted => "out of range" \in Fatal
      BY <1>1, <1>8, <2>1, EndKeeps
    <2>3. OwnAnswersShown'
      BY <1>1, <1>2, NoneIsNoCommand DEF OwnAnswersShown, Commands
    <2>4. CrashesKnown'
      <3>1. CASE exit' # Aborted
        BY <3>1 DEF CrashesKnown
      <3>2. CASE exit' = Aborted
        <4>1. Ctl
          BY <2>2, <3>2 DEF Fatal
        <4>2. PICK a \in Seq(Text) : /\ From(a, command, arguments)
                                     /\ Range(a) \subseteq KeptWords
          BY <1>4, <1>8
        <4>3. PICK k \in DOMAIN a : Huge(a[k])
          BY <1>4, <1>8, <4>2, WrapsAreHuge
        <4>4. a[k] \in Range(line.words) \union {Word("--option")}
          BY <4>1, <4>2, <4>3 DEF KeptWords, Range
        <4>5. a[k] \in Range(line'.words)
          BY <1>1, <4>3, <4>4, OptionIsNotHuge
        <4> QED
          BY <4>3, <4>5 DEF CrashesKnown
      <3> QED
        BY <3>1, <3>2
    <2> QED
      BY <2>2, <2>3, <2>4 DEF IInv
  <1> QED
    BY <1>1, <1>6, <1>7, <1>8

LEMMA NotFatal ==
    \A e \in {"device error", "timeout", "invalid data", "shown",
              "invalid response", "succeeded", "declined"} : e \notin Fatal
  BY DEF Fatal, Ends, Shown, Caught

LEMMA DeviceFailsKeeps == IInv /\ DeviceFails => IInv'
  <1> SUFFICES ASSUME IInv, DeviceFails PROVE IInv'
    OBVIOUS
  <1>1. PICK e \in {"device error", "timeout", "invalid data", "overflow"} :
           EndsWith(e)
    BY DEF DeviceFails
  <1>2. stage = "answer" /\ UNCHANGED <<line, at, config, request, inverter, served>>
    BY DEF DeviceFails
  <1>3. /\ e \in Ends
        /\ e \in Fatal => Ctl /\ e = "overflow"
    BY <1>1, EndsKnown, NotFatal DEF Fatal
  <1>4. /\ Order' /\ Asked' /\ FrameInv' /\ AnswerInv' /\ InverterOK(inverter')
        /\ exit' = Aborted => e \in Fatal
        /\ end' = e
    BY <1>1, <1>2, <1>3, EndKeeps
  <1>5. OwnAnswersShown'
    <2>1. Order
      BY DEF IInv
    <2>2. answer = NoAnswer
      BY <1>2, <2>1 DEF Order
    <2> QED
      BY <1>2, <2>2, NoneIsNoCommand DEF OwnAnswersShown, Commands, request
  <1>6. CrashesKnown'
    BY <1>2, <1>3, <1>4 DEF CrashesKnown, Ctl
  <1> QED
    BY <1>4, <1>5, <1>6 DEF IInv

LEMMA AnswerRawKeeps == IInv /\ AnswerRaw => IInv'
  <1> SUFFICES ASSUME IInv, AnswerRaw PROVE IInv'
    OBVIOUS
  <1>1. /\ EndsWith("shown") /\ stage = "answer"
        /\ UNCHANGED <<line, at, config, request, inverter, served>>
    BY DEF AnswerRaw
  <1>2. "shown" \in Ends /\ "shown" \notin Fatal
    BY EndsKnown, NotFatal
  <1>3. /\ Order' /\ Asked' /\ FrameInv' /\ AnswerInv' /\ InverterOK(inverter')
        /\ exit' = Aborted => "shown" \in Fatal
        /\ end' = "shown"
    BY <1>1, <1>2, EndKeeps
  <1>4. OwnAnswersShown' /\ CrashesKnown'
    BY <1>2, <1>3 DEF OwnAnswersShown, CrashesKnown
  <1> QED
    BY <1>3, <1>4 DEF IInv

LEMMA DataIs ==
    \A c, data : Data(c, data).of = c /\ Data(c, data).data = data
  BY DEF Data, NoAnswer

\* The inverter's own answer to a get command.
LEMMA OwnAnswerReadable ==
    ASSUME InverterOK(inverter), NEW c \in GetCommands, NEW a \in OwnAnswer(c)
    PROVE  Readable(Layouts[c], a)
  <1>1. DOMAIN inverter = Settings
    BY DEF InverterOK
  <1>2. CASE c \in Settings
    BY <1>1, <1>2 DEF OwnAnswer, InverterOK
  <1>3. CASE c \notin Settings
    <2>1. a \in OwnAnswers[c]
      BY <1>1, <1>3 DEF OwnAnswer
    <2> QED
      BY <1>3, <2>1, AnswersAssumption
  <1> QED
    BY <1>2, <1>3

LEMMA AnswerKeeps == IInv /\ Answer => IInv'
  <1> SUFFICES ASSUME IInv, Answer PROVE IInv'
    OBVIOUS
  <1>1. /\ stage = "answer" /\ config.action # "raw" /\ stage' = "read"
        /\ UNCHANGED <<line, at, config, command, arguments, frame, end, exit,
                       served>>
    BY DEF Answer
  <1>2. exit = Running /\ end = None /\ command \in Commands
    <2>1. Order
      BY DEF IInv
    <2> QED
      BY <1>1, <2>1 DEF Order
  <1>3. Order'
    <2>1. Order /\ Ctl' = Ctl
      BY <1>1 DEF IInv, Ctl
    <2> QED
      BY <1>1, <1>2, <2>1 DEF Order, Stages
  <1>4. Asked' /\ FrameInv'
    BY <1>1 DEF IInv, Asked, Kept, KeptWords, Ctl, FrameInv
  <1>5. OwnAnswersShown' /\ CrashesKnown'
    <2>1. end' = None /\ exit' # Aborted
      BY <1>1, <1>2 DEF Running, Aborted
    <2> QED
      BY <2>1 DEF OwnAnswersShown, CrashesKnown
  <1>6. InverterOK(inverter)
    BY DEF IInv
  <1>7. CASE /\ UNCHANGED inverter
             /\ \E a \in OwnAnswers["PseudoDevice"] :
                   answer' = [Data("GetGeneralStatus", a)
                              EXCEPT !.bytes = Reply(D)]
    <2>1. PICK a \in OwnAnswers["PseudoDevice"] :
              answer' = [Data("GetGeneralStatus", a) EXCEPT !.bytes = Reply(D)]
      BY <1>7
    <2>2. answer'.of = "GetGeneralStatus" /\ answer'.data = a
      BY <2>1 DEF Data, NoAnswer
    <2>3. Readable(Layouts["GetGeneralStatus"], a)
      BY AnswersAssumption
    <2>4. "GetGeneralStatus" # None
      BY DEF None
    <2>5. AnswerInv'
      BY <1>1, <2>2, <2>3, <2>4 DEF AnswerInv
    <2> QED
      BY <1>3, <1>4, <1>5, <1>6, <1>7, <2>5 DEF IInv
  <1>8. CASE /\ UNCHANGED inverter /\ command \in GetCommands
             /\ answer' \in {Data(command, a) : a \in OwnAnswer(command)}
                              \union OtherAnswers
    <2>1. ASSUME answer' \in OtherAnswers PROVE AnswerInv'
      <3>1. answer'.of # None
        BY <2>1, AnswersAssumption
      <3>2. answer'.of \in GetCommands
              => Readable(Layouts[answer'.of], answer'.data)
        BY <2>1, AnswersAssumption
      <3> QED
        BY <1>1, <1>8, <3>1, <3>2 DEF AnswerInv
    <2>2. ASSUME answer' \notin OtherAnswers PROVE AnswerInv'
      <3>1. PICK a \in OwnAnswer(command) : answer' = Data(command, a)
        BY <1>8, <2>2
      <3>2. Readable(Layouts[command], a)
        BY <1>6, <1>8, OwnAnswerReadable
      <3>3. answer'.of = command /\ answer'.data = a
        BY <3>1, DataIs
      <3>4. command # None
        BY <1>2, NoneIsNoCommand
      <3> QED
        BY <1>1, <3>2, <3>3, <3>4 DEF AnswerInv
    <2>3. AnswerInv'
      BY <2>1, <2>2
    <2> QED
      BY <1>3, <1>4, <1>5, <1>6, <1>8, <2>3 DEF IInv
  <1>9. CASE /\ command \in SetCommands
             /\ \/ inverter' = inverter
                \/ InPlace(frame) /\ inverter' = Applied(frame)
    <2>1. AnswerInv'
      <3>1. GetCommands \cap SetCommands = {}
        BY SMT DEF GetCommands, SetCommands
      <3> QED
        BY <1>1, <1>9, <3>1 DEF AnswerInv
    <2>2. InverterOK(inverter')
      <3>1. CASE inverter' = inverter
        BY <1>6, <3>1
      <3>2. CASE InPlace(frame) /\ inverter' = Applied(frame)
        <4>1. PICK junk \in Junk : frame = Frame(command, arguments, junk)
          BY <1>1 DEF IInv, FrameInv
        <4>2. PICK a \in Seq(Text) : From(a, command, arguments)
          BY <1>2 DEF IInv, Asked, Kept
        <4>3. Packable(command, arguments)
          BY <1>2, <4>2, ArgumentsPackable DEF From, Validated
        <4>4. /\ frame.code = RawCommands[command]
              /\ frame.fields = PackArguments(command, arguments, junk)
          BY <4>1, FrameIs
        <4>5. InverterOK(Applied(frame))
          BY <1>6, <1>9, <3>2, <4>3, <4>4, AppliedOK
        <4> QED
          BY <3>2, <4>5
      <3> QED
        BY <1>9, <3>1, <3>2
    <2> QED
      BY <1>3, <1>4, <1>5, <2>1, <2>2 DEF IInv
  <1> QED
    BY <1>7, <1>8, <1>9 DEF Answer

\* An answer that can be read is shown.
LEMMA ReadableIsShown ==
    ASSUME NEW data, Readable(Layouts[command], data), NEW format \in Formats,
           NEW e \in ReadGet(data, format)
    PROVE  e = "shown"
  <1>1. /\ ValidateGet(data) = "valid"
        /\ Unpack(Layouts[command], data) = "unpacked"
        /\ Displays(Layouts[command], data.items, format)
    BY DEF Readable
  <1>2. ReadGet(data, format) = {"shown"}
    BY <1>1 DEF ReadGet
  <1> QED
    BY <1>2

LEMMA ReadKeeps == IInv /\ Read => IInv'
  <1> SUFFICES ASSUME IInv, Read PROVE IInv'
    OBVIOUS
  <1>1. /\ stage = "read"
        /\ UNCHANGED <<line, at, config, request, inverter, served>>
    BY DEF Read
  <1>2. UNCHANGED <<command, answer>> /\ Fatal' = Fatal
    BY <1>1 DEF request, Fatal, Ctl
  <1>3. ASSUME NEW e \in Ends, EndsWith(e),
               e \in Fatal => answer.of \notin {None, command},
               command \in GetCommands /\ answer.of = command => e = "shown"
        PROVE  IInv'
    <2>1. /\ Order' /\ Asked' /\ FrameInv' /\ AnswerInv' /\ InverterOK(inverter')
          /\ exit' = Aborted => e \in Fatal
          /\ end' = e
      BY <1>1, <1>3, EndKeeps
    <2>2. OwnAnswersShown' /\ CrashesKnown'
      BY <1>2, <1>3, <2>1 DEF OwnAnswersShown, CrashesKnown
    <2> QED
      BY <2>1, <2>2 DEF IInv
  <1>4. CASE command \in SetCommands /\ EndsWith(ReadSet(answer.bytes))
    <2> DEFINE e == ReadSet(answer.bytes)
    <2>1. e \in {"timeout", "invalid data", "invalid response", "succeeded",
                 "declined"}
      BY EndsKnown
    <2>2. e \in Ends /\ e \notin Fatal
      <3> HIDE DEF e
      <3> QED
        BY <2>1, EndsKnown, NotFatal
    <2>3. command \notin GetCommands
      <3>1. GetCommands \cap SetCommands = {}
        BY SMT DEF GetCommands, SetCommands
      <3> QED
        BY <1>4, <3>1
    <2> QED
      BY <1>3, <1>4, <2>2, <2>3
  <1>5. CASE /\ command \in GetCommands
             /\ \E format \in IF Ctl THEN {config.format} ELSE Formats :
                   \E e \in ReadGet(answer.data, format) : EndsWith(e)
    <2>1. PICK format \in IF Ctl THEN {config.format} ELSE Formats :
              \E e \in ReadGet(answer.data, format) : EndsWith(e)
      BY <1>5
    <2>2. PICK e \in ReadGet(answer.data, format) : EndsWith(e)
      BY <2>1
    <2>3. format \in Formats
      BY <2>1 DEF IInv, Order, ConfigOK
    <2>4. e \in Ends
      BY EndsKnown
    <2>5. answer.of = command => e = "shown"
      <3>1. answer.of = command => Readable(Layouts[command], answer.data)
        BY <1>1, <1>5 DEF IInv, AnswerInv
      <3> QED
        BY <2>3, <3>1, ReadableIsShown
    <2>6. e \in Fatal => answer.of \notin {None, command}
      <3>1. answer.of # None
        BY <1>1, <1>5 DEF IInv, AnswerInv
      <3>2. "shown" \notin Fatal
        BY NotFatal
      <3> QED
        BY <2>5, <3>1, <3>2
    <2> QED
      BY <1>3, <2>2, <2>4, <2>5, <2>6
  <1> QED
    BY <1>4, <1>5 DEF Read

LEMMA NextKeeps == IInv /\ [Next]_vars => IInv'
  <1> SUFFICES ASSUME IInv, [Next]_vars PROVE IInv'
    OBVIOUS
  <1>1. CASE TakeOption
    BY <1>1, TakeOptionKeeps
  <1>2. CASE TakeWords
    BY <1>2, TakeWordsKeeps
  <1>3. CASE OpenDevice
    BY <1>3, OpenDeviceKeeps
  <1>4. CASE Start
    BY <1>4, StartKeeps
  <1>5. ASSUME NEW words \in Requests, Execute(words) PROVE IInv'
    BY <1>5, ExecuteKeeps
  <1>6. CASE ShutDown
    BY <1>6, ShutDownKeeps
  <1>7. CASE Send
    BY <1>7, SendKeeps
  <1>8. CASE DeviceFails
    BY <1>8, DeviceFailsKeeps
  <1>9. CASE AnswerRaw
    BY <1>9, AnswerRawKeeps
  <1>10. CASE Answer
    BY <1>10, AnswerKeeps
  <1>11. CASE Read
    BY <1>11, ReadKeeps
  <1>12. CASE Ended \/ UNCHANGED vars
    <2>1. UNCHANGED vars
      BY <1>12 DEF Ended
    <2>2. UNCHANGED <<line, at, config, stage, command, arguments, frame, answer,
                      inverter, end, exit, served>>
      BY <2>1 DEF vars
    <2>3. Order' /\ Asked' /\ FrameInv'
      BY <2>2 DEF IInv, Order, Ctl, Asked, Kept, KeptWords, FrameInv
    <2>4. AnswerInv' /\ InverterOK(inverter') /\ OwnAnswersShown'
      BY <2>2 DEF IInv, AnswerInv, OwnAnswersShown
    <2>5. CrashesKnown'
      BY <2>2 DEF IInv, CrashesKnown, Ctl, Fatal
    <2> QED
      BY <2>3, <2>4, <2>5 DEF IInv
  <1> QED
    BY <1>1, <1>2, <1>3, <1>4, <1>5, <1>6, <1>7, <1>8, <1>9, <1>10, <1>11,
       <1>12 DEF Next

LEMMA Invariance == Spec => []IInv
  BY InitIInv, NextKeeps, PTL DEF Spec

----------------------------------------------------------------------------
(* Theorems *)

LEMMA TypesFollow == IInv => TypeOK
  <1> SUFFICES ASSUME IInv PROVE TypeOK
    OBVIOUS
  <1>1. /\ line \in CommandLines /\ at \in 1 .. (Len(line.options) + 1)
        /\ ConfigOK(config)
        /\ stage \in Stages /\ exit \in {0, 1, Aborted, Running}
        /\ served \in 0 .. MaxRequests
        /\ end \in Ends \union Verdicts \union {None}
        /\ command \in Commands \union {None}
    BY DEF IInv, Order
  <1>2. line.program \in DOMAIN LongOptions
    BY <1>1, WordsAssumption DEF LongOptions
  <1>3. \A i \in DOMAIN frame.fields :
            frame.fields[i].value >= 0 \/ frame.fields[i] \in Junk
    BY DEF IInv, FrameInv, AllGood, Good
  <1>4. frame.kind \in {"P", "S", None}
    BY DEF IInv, FrameInv
  <1> QED
    BY <1>1, <1>2, <1>3, <1>4 DEF TypeOK, ConfigOK, Stages

\* Every local of the programs has a value of its kind at every step: in a frame
\* there is no negative number but the one that NaN may become.
THEOREM ProgramTypes == Spec => []TypeOK
  BY Invariance, TypesFollow, PTL

\* inverterctl aborts only because of a number too large or an answer that is not
\* the inverter's own, inverterd never because of the words of a request.
THEOREM CrashesAreKnown == Spec => []CrashesKnown
  <1>1. IInv => CrashesKnown
    BY DEF IInv
  <1> QED
    BY <1>1, Invariance, PTL

\* The inverter's own answer to a get command is shown in every format, whatever
\* set commands made of its settings before.
THEOREM OwnAnswersAreShown == Spec => []OwnAnswersShown
  <1>1. IInv => OwnAnswersShown
    BY DEF IInv
  <1> QED
    BY <1>1, Invariance, PTL
=============================================================================
