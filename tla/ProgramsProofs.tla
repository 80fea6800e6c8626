--------------------------- MODULE ProgramsProofs ---------------------------
(***************************************************************************)
(* What the port is opened with, the bytes of a CRC, and what becomes of   *)
(* an answer to another command: for any command lines, requests, answers  *)
(* and noise.                                                              *)
(***************************************************************************)
EXTENDS FramesProofs

----------------------------------------------------------------------------
(* The options and the port *)

Opened == {"start", "serve", "execute", "answer", "read"}

\* What the options leave: documented settings, except that a number of data
\* bits that was given is one no port has, and the device is opened only with
\* settings a port takes.
OptionsInv ==
    /\ DOMAIN config = DOMAIN Defaults
    /\ config.baud \in BaudRates
    /\ config.stop \in StopBits /\ config.parity \in Parities
    /\ config.bits = 8 \/ ~ IsSerialDataBitsValid(config.bits)
PortInv ==
    /\ OptionsInv
    /\ stage \in Opened \union {"options", "words", "open", "exit"}
    /\ (stage \in Opened /\ config.device = "serial")
        => Configurable(config.bits)

\* When two checks let an argument through, each does.
LEMMA FirstOfTwo ==
    ASSUME NEW a, NEW b, FirstOf(<<a, b>>) = "accepted"
    PROVE  a = "accepted" /\ b = "accepted"
  <1> DEFINE checks == <<a, b>>
             failing == {i \in DOMAIN checks : checks[i] # "accepted"}
  <1>1. SUFFICES ASSUME failing # {} PROVE FALSE
    OBVIOUS
  <1>2. \E i \in failing : \A j \in failing : i <= j
    <2>1. failing \subseteq {1, 2}
      OBVIOUS
    <2>2. CASE 1 \in failing
      BY <2>1, <2>2
    <2>3. CASE 1 \notin failing
      BY <1>1, <2>1, <2>3
    <2> QED
      BY <2>2, <2>3
  <1>3. Min(failing) \in failing
    BY <1>2 DEF Min
  <1>4. checks[Min(failing)] = "accepted"
    BY <1>1 DEF FirstOf
  <1> QED
    BY <1>3, <1>4

\* What the checks of the serial options let through.
LEMMA ChecksOfOptions ==
    ASSUME NEW option, NEW t, OptionCheck(option, t) = "accepted"
    PROVE  /\ option = "serial-baud-rate" => IsSerialBaudRateValid(t.value)
           /\ option = "serial-data-bits" => ~ IsSerialDataBitsValid(t.value)
           /\ option = "serial-stop-bits" => t.word \in StopBits
           /\ option = "serial-parity" => t.word \in Parities
  <1>1. CASE option = "serial-baud-rate"
    <2>1. FirstOf(<<Found(t.whole), Require(IsSerialBaudRateValid(t.value))>>)
            = "accepted"
      BY <1>1 DEF OptionCheck
    <2>2. Require(IsSerialBaudRateValid(t.value)) = "accepted"
      BY <2>1, FirstOfTwo
    <2> QED
      BY <1>1, <2>2 DEF Require
  <1>2. CASE option = "serial-data-bits"
    <2>1. FirstOf(<<Found(t.whole), Require(~ IsSerialDataBitsValid(t.value))>>)
            = "accepted"
      BY <1>2 DEF OptionCheck
    <2>2. Require(~ IsSerialDataBitsValid(t.value)) = "accepted"
      BY <2>1, FirstOfTwo
    <2> QED
      BY <1>2, <2>2 DEF Require
  <1>3. CASE option = "serial-stop-bits"
    BY <1>3 DEF OptionCheck, Require
  <1>4. CASE option = "serial-parity"
    BY <1>4 DEF OptionCheck, Require
  <1> QED
    BY <1>1, <1>2, <1>3, <1>4

\* An option changes the settings it is about and no other.
LEMMA EffectOfOption ==
    ASSUME OptionsInv, NEW option, NEW t,
           OptionCheck(option, t) = "accepted", config' = OptionEffect(option, t)
    PROVE  OptionsInv'
  <1> USE DEF OptionsInv, Defaults
  <1>1. CASE option = "serial-baud-rate"
    BY <1>1, ChecksOfOptions DEF OptionEffect, IsSerialBaudRateValid
  <1>2. CASE option = "serial-data-bits"
    BY <1>2, ChecksOfOptions DEF OptionEffect
  <1>3. CASE option = "serial-stop-bits"
    BY <1>3, ChecksOfOptions DEF OptionEffect
  <1>4. CASE option = "serial-parity"
    BY <1>4, ChecksOfOptions DEF OptionEffect
  <1>5. CASE option \notin {"serial-baud-rate", "serial-data-bits",
                            "serial-stop-bits", "serial-parity"}
    BY <1>5 DEF OptionEffect
  <1> QED
    BY <1>1, <1>2, <1>3, <1>4, <1>5

\* The programs start with 2400 baud, eight data bits, one stop bit and no
\* parity, and with the options.
LEMMA PortInit == Init => PortInv
  BY DEF Init, PortInv, OptionsInv, Defaults, Opened, BaudRates, StopBits,
         Parities

\* What is decided about the words only leads to the device or to the end, or
\* to a connection's command.
LEMMA TakeStep ==
    ASSUME PortInv, stage \in {"options", "words", "serve"}, NEW words,
           Take(words), stage # "serve" => Ctl, UNCHANGED config
    PROVE  PortInv'
  <1>1. OptionsInv'
    BY DEF PortInv, OptionsInv
  <1>2. stage' \in {"open", "exit"} \/ (stage = "serve" /\ stage' \in Opened)
    BY DEF Take, Return, Abort, Opened
  <1> QED
    BY <1>1, <1>2 DEF PortInv, Opened

\* The end of a request leads to the next one or to the end of the process.
LEMMA EndStep ==
    ASSUME PortInv, stage \in Opened, NEW e, EndsWith(e), UNCHANGED config
    PROVE  PortInv'
  <1>1. OptionsInv'
    BY DEF PortInv, OptionsInv
  <1>2. stage' \in {"serve", "exit"}
    BY DEF EndsWith, Return, Abort
  <1> QED
    BY <1>1, <1>2 DEF PortInv, Opened

\* Every step keeps the invariant.
LEMMA PortStep == PortInv /\ [Next]_vars => PortInv'
  <1> SUFFICES ASSUME PortInv, [Next]_vars PROVE PortInv'
    OBVIOUS
  <1>1. CASE UNCHANGED vars
    BY <1>1 DEF vars, PortInv, OptionsInv
  <1>2. CASE TakeOption
    <2>1. stage' \in {"options", "words", "exit"}
      BY <1>2 DEF TakeOption, Return, Abort
    <2>2. OptionsInv'
      <3> DEFINE option == line.options[at].name
                 t == line.options[at].argument
      <3>1. CASE UNCHANGED config
        BY <3>1 DEF PortInv, OptionsInv
      <3>2. CASE /\ OptionCheck(option, t) = "accepted"
                 /\ config' = OptionEffect(option, t)
        <4>1. OptionsInv
          BY DEF PortInv
        <4> HIDE DEF option, t
        <4> QED
          BY <3>2, <4>1, EffectOfOption
      <3> QED
        BY <1>2, <3>1, <3>2 DEF TakeOption
    <2> QED
      BY <2>1, <2>2 DEF PortInv, Opened
  <1>3. CASE TakeWords
    <2>1. stage \in {"options", "words"} /\ UNCHANGED config
      BY <1>3 DEF TakeWords
    <2>2. CASE Ctl /\ Take(Rest)
      BY <2>1, <2>2, TakeStep
    <2>3. CASE ~ (Ctl /\ Take(Rest))
      <3>1. stage' \in {"open", "exit"}
        BY <1>3, <2>3 DEF TakeWords, Return
      <3> QED
        BY <2>1, <3>1 DEF PortInv, OptionsInv, Opened
    <2> QED
      BY <2>2, <2>3
  <1>4. CASE OpenDevice
    BY <1>4 DEF OpenDevice, Return, PortInv, OptionsInv, Opened
  <1>5. CASE Start
    <2>1. OptionsInv'
      BY <1>5 DEF Start, PortInv, OptionsInv, Defaults
    <2>2. /\ stage = "start" /\ stage' \in {"serve", "exit"}
          /\ config'.bits = config.bits /\ config'.device = config.device
      BY <1>5 DEF Start, Abort, PortInv, OptionsInv, Defaults
    <2> QED
      BY <2>1, <2>2 DEF PortInv, Opened
  <1>6. ASSUME NEW words \in Requests, Execute(words) PROVE PortInv'
    <2>1. stage = "serve" /\ Take(words) /\ UNCHANGED config
      BY <1>6 DEF Execute
    <2> QED
      BY <2>1, TakeStep
  <1>7. CASE ShutDown
    BY <1>7 DEF ShutDown, Return, PortInv, OptionsInv, Opened
  <1>8. CASE Send
    <2>1. stage = "execute" /\ UNCHANGED config
      BY <1>8 DEF Send
    <2>2. stage' = "answer" \/ EndsWith("out of range")
      BY <1>8 DEF Send
    <2> QED
      BY <2>1, <2>2, EndStep DEF PortInv, OptionsInv, Opened
  <1>9. CASE DeviceFails
    BY <1>9, EndStep DEF DeviceFails, Opened
  <1>10. CASE AnswerRaw
    BY <1>10, EndStep DEF AnswerRaw, Opened
  <1>11. CASE Answer
    BY <1>11 DEF Answer, PortInv, OptionsInv, Opened
  <1>12. CASE Read
    <2>1. stage \in Opened /\ UNCHANGED config
      BY <1>12 DEF Read, Opened
    <2>2. PICK e : EndsWith(e)
      BY <1>12 DEF Read
    <2> QED
      BY <2>1, <2>2, EndStep
  <1>13. CASE Ended
    BY <1>13 DEF Ended, vars, PortInv, OptionsInv
  <1> QED
    BY <1>1, <1>2, <1>3, <1>4, <1>5, <1>6, <1>7, <1>8, <1>9, <1>10, <1>11,
       <1>12, <1>13 DEF Next

\* Whatever the options, a serial port that was opened has documented settings,
\* and eight data bits: is_serial_data_bits_valid is asked the wrong way round,
\* and setConfiguration refuses what comes through.
THEOREM OpenedPort == Spec => []PortAsDocumented
  <1>1. PortInv => PortAsDocumented
    BY DEF PortInv, OptionsInv, PortAsDocumented, Opened, BaudRates, StopBits,
           Parities, Configurable, IsSerialDataBitsValid
  <1> QED
    BY PortInit, PortStep, <1>1, PTL DEF Spec

-----------------------------------------------------------------------------
\* The two bytes that are sent for a number of sixteen bits.
LEMMA BytesOf ==
    ASSUME NEW high \in 0..255, NEW low \in 0..255
    PROVE  /\ (256 * high + low) \div 256 = high
           /\ (256 * high + low) % 256 = low
           /\ (256 * high + low) % 65536 = 256 * high + low
  OBVIOUS

\* The increments of crc_calculate do not carry from one byte to the other.
LEMMA Increments ==
    ASSUME NEW high \in 0..255, NEW low \in 0..255
    PROVE  CrcWrite(Unreserved(256 * high + low)) =
               <<IF high \in Reserved THEN high + 1 ELSE high,
                 IF low \in Reserved THEN low + 1 ELSE low>>
  <1> DEFINE h == IF high \in Reserved THEN high + 1 ELSE high
             l == IF low \in Reserved THEN low + 1 ELSE low
  <1>1. h \in 0..255 /\ l \in 0..255
    BY DEF Reserved
  <1>2. (IF (256 * high + low) % 256 \in Reserved
         THEN 256 * high + low + 1 ELSE 256 * high + low) = 256 * high + l
    BY BytesOf
  <1>3. (256 * high + l) \div 256 = high
    BY <1>1, BytesOf
  <1>4. (IF (256 * high + l) \div 256 \in Reserved
         THEN 256 * high + l + 256 ELSE 256 * high + l) = 256 * h + l
    BY <1>1, <1>3
  <1>5. Unreserved(256 * high + low) = (256 * h + l) % 65536
    BY <1>2, <1>4 DEF Unreserved
  <1>6. Unreserved(256 * high + low) = 256 * h + l
    BY <1>1, <1>5, BytesOf
  <1>7. /\ Unreserved(256 * high + low) \div 256 = h
        /\ Unreserved(256 * high + low) % 256 = l
    BY <1>1, <1>6, BytesOf
  <1> QED
    BY <1>7 DEF CrcWrite

\* Whatever the remainder, neither of the two bytes that are sent for it begins
\* a frame or ends one.
THEOREM NoReservedByte ==
    ASSUME NEW high \in 0..255, NEW low \in 0..255
    PROVE  Range(CrcWrite(Unreserved(256 * high + low))) \cap Reserved = {}
  <1> DEFINE h == IF high \in Reserved THEN high + 1 ELSE high
             l == IF low \in Reserved THEN low + 1 ELSE low
  <1>1. h \notin Reserved /\ l \notin Reserved
    BY DEF Reserved
  <1>2. Range(<<h, l>>) = {h, l}
    BY DEF Range
  <1>3. CrcWrite(Unreserved(256 * high + low)) = <<h, l>>
    BY Increments
  <1> HIDE DEF h, l
  <1> QED
    BY <1>1, <1>2, <1>3

----------------------------------------------------------------------------
(* An answer to another command *)

\* What a layout says of the sizes of its first items.
SizeSets == SUBSET Nat
Begin(s, u) == /\ s \in Seq(SizeSets) /\ Len(s) >= Len(u)
               /\ \A i \in 1 .. Len(u) : s[i] = u[i]

LEMMA BeginsItself ==
    ASSUME NEW u \in Seq(SizeSets) PROVE Begin(u, u)
  BY LenProperties DEF Begin

LEMMA BeginsLonger ==
    ASSUME NEW u \in Seq(SizeSets), NEW s, Begin(s, u), NEW r \in Seq(SizeSets)
    PROVE  Begin(s \o r, u)
  <1>1. s \in Seq(SizeSets) /\ Len(s) >= Len(u)
          /\ \A i \in 1 .. Len(u) : s[i] = u[i]
    BY DEF Begin
  <1>2. Len(s) \in Nat /\ Len(r) \in Nat /\ Len(u) \in Nat
    BY <1>1, LenProperties
  <1> DEFINE t == s \o r
  <1>3. /\ t \in Seq(SizeSets) /\ Len(t) = Len(s) + Len(r)
        /\ \A i \in 1 .. Len(s) : t[i] = s[i]
    <2>1. s \o r \in Seq(SizeSets) /\ Len(s \o r) = Len(s) + Len(r)
            /\ \A i \in 1 .. Len(s) + Len(r) :
                  (s \o r)[i] = IF i <= Len(s) THEN s[i] ELSE r[i - Len(s)]
      BY <1>1, ConcatProperties
    <2> HIDE DEF t
    <2>2. t \in Seq(SizeSets) /\ Len(t) = Len(s) + Len(r)
            /\ \A i \in 1 .. Len(s) + Len(r) :
                  t[i] = IF i <= Len(s) THEN s[i] ELSE r[i - Len(s)]
      BY <2>1 DEF t
    <2> QED
      BY <1>2, <2>2
  <1> HIDE DEF t
  <1>4. Begin(t, u)
    BY <1>1, <1>2, <1>3 DEF Begin
  <1> QED
    BY <1>4 DEF t

\* getList looks at the sizes that the layout begins with.
LEMMA HeadSizes ==
    ASSUME NEW layout, NEW u \in Seq(SizeSets), u # <<>>,
           Begin(layout.sizes, u), layout.least \in Nat, layout.least >= Len(u),
           NEW items \in Seq(AnItem), GetList(layout, items)
    PROVE  /\ Len(items) >= Len(u)
           /\ \A i \in 1 .. Len(u) : items[i].size \in u[i]
  <1>1. Len(u) \in Nat \ {0} /\ Len(items) \in Nat
    BY LenProperties, EmptySeq
  <1> DEFINE s == layout.sizes
  <1>2. /\ s \in Seq(SizeSets) /\ Len(s) >= Len(u)
        /\ \A i \in 1 .. Len(u) : s[i] = u[i]
    BY DEF Begin
  <1>3. Len(s) \in Nat /\ DOMAIN s = 1 .. Len(s) /\ DOMAIN items = 1 .. Len(items)
    BY <1>2, LenProperties
  <1>4. s # <<>>
    BY <1>1, <1>2, <1>3, EmptySeq
  <1>5. Len(items) >= layout.least
          /\ \A i \in DOMAIN items \cap DOMAIN s : items[i].size \in s[i]
    BY <1>4 DEF GetList
  <1>6. Len(items) >= Len(u)
    BY <1>1, <1>5
  <1> HIDE DEF s
  <1>7. ASSUME NEW i \in 1 .. Len(u) PROVE items[i].size \in u[i]
    <2>1. i \in DOMAIN items /\ i \in DOMAIN s
      BY <1>1, <1>2, <1>3, <1>6
    <2> QED
      BY <1>2, <1>5, <2>1
  <1> QED
    BY <1>6, <1>7

LEMMA TimesAre ==
    ASSUME NEW n \in Nat, NEW size \in Nat
    PROVE  /\ Times(n, size) \in Seq(SizeSets) /\ Len(Times(n, size)) = n
           /\ \A i \in 1 .. n : Times(n, size)[i] = {size}
           /\ Begin(Times(n, size), Times(n, size))
  <1>1. /\ Times(n, size) \in Seq(SizeSets) /\ Len(Times(n, size)) = n
        /\ \A i \in 1 .. n : Times(n, size)[i] = {size}
    BY DEF Times, SizeSets
  <1> QED
    BY <1>1, BeginsItself

\* A list of sizes that others follow.
LEMMA LongLists ==
    ASSUME NEW u \in Seq(SizeSets), NEW p \in Seq(SizeSets),
           NEW q \in Seq(SizeSets), NEW r \in Seq(SizeSets)
    PROVE  Begin(u \o p \o q \o r, u)
  <1> DEFINE s == u \o p
             t == s \o q
  <1>1. Begin(s, u)
    BY BeginsItself, BeginsLonger
  <1> HIDE DEF s
  <1>2. Begin(t, u)
    BY <1>1, BeginsLonger
  <1> HIDE DEF t
  <1>3. Begin(t \o r, u)
    BY <1>2, BeginsLonger
  <1> QED
    BY <1>3 DEF s, t

\* What getList sees of the sizes, for a layout of a class.
HeadIs(layout, u) == /\ u \in Seq(SizeSets) /\ u # <<>> /\ Begin(layout.sizes, u)
                   /\ layout.least \in Nat /\ layout.least >= Len(u)

LEMMA HeadOfList ==
    ASSUME NEW layout, NEW u \in Seq(SizeSets), u # <<>>,
           Begin(layout.sizes, u), layout.least = Len(layout.sizes)
    PROVE  HeadIs(layout, u)
  <1>1. Len(layout.sizes) \in Nat /\ Len(layout.sizes) >= Len(u)
    BY LenProperties DEF Begin
  <1> QED
    BY <1>1 DEF HeadIs

LEMMA ShortLayouts ==
    /\ HeadIs(CPUVersion, Times(3, 5)) /\ HeadIs(FlagsAndStatuses, Times(9, 1))
    /\ HeadIs(ACChargeTimeBucket, Times(2, 4))
  <1>1. ASSUME NEW n \in Nat \ {0}, NEW size \in Nat, NEW layout,
               layout.sizes = Times(n, size), layout.least = Len(Times(n, size))
        PROVE  HeadIs(layout, Times(n, size))
    <2>1. /\ Times(n, size) \in Seq(SizeSets) /\ Len(Times(n, size)) = n
          /\ Begin(Times(n, size), Times(n, size))
      BY TimesAre
    <2>2. Times(n, size) # <<>>
      BY <2>1, EmptySeq
    <2> QED
      BY <1>1, <2>1, <2>2, HeadOfList
  <1>2. /\ CPUVersion.sizes = Times(3, 5) /\ CPUVersion.least = Len(Times(3, 5))
        /\ FlagsAndStatuses.sizes = Times(9, 1)
        /\ FlagsAndStatuses.least = Len(Times(9, 1))
        /\ ACChargeTimeBucket.sizes = Times(2, 4)
        /\ ACChargeTimeBucket.least = Len(Times(2, 4))
    BY DEF CPUVersion, FlagsAndStatuses, ACChargeTimeBucket, List
  <1> QED
    BY <1>1, <1>2

\* How the layouts that have fixed sizes begin.
RatedHead == <<{4}, {3}, {4}, {3}, {3}, {4}, {4}>>
StatusHead == <<{4}, {3}, {4}, {3}, {4}, {4}>>
FaultsHead == <<{2}>>
DefaultsHead == <<{4}, {3}, {1}>>
ParallelRatedHead == <<{1}, {2}, {20}, {1}, {3}, 2..3, {1}>>
ParallelHead == <<{1}, {1}, {2}, {4}, {3}, {4}, {3}, {4}, {4}, {5}, {5}>>

LEMMA Heads ==
    /\ RatedHead \in Seq(SizeSets) /\ RatedHead # <<>>
    /\ StatusHead \in Seq(SizeSets) /\ StatusHead # <<>>
    /\ FaultsHead \in Seq(SizeSets) /\ FaultsHead # <<>>
    /\ DefaultsHead \in Seq(SizeSets) /\ DefaultsHead # <<>>
    /\ ParallelRatedHead \in Seq(SizeSets) /\ ParallelRatedHead # <<>>
    /\ ParallelHead \in Seq(SizeSets) /\ ParallelHead # <<>>
  <1>1. RatedHead \in Seq(SizeSets) /\ RatedHead # <<>>
    BY SMT DEF RatedHead, SizeSets
  <1>2. StatusHead \in Seq(SizeSets) /\ StatusHead # <<>>
    BY SMT DEF StatusHead, SizeSets
  <1>3. FaultsHead \in Seq(SizeSets) /\ FaultsHead # <<>>
    BY SMT DEF FaultsHead, SizeSets
  <1>4. DefaultsHead \in Seq(SizeSets) /\ DefaultsHead # <<>>
    BY SMT DEF DefaultsHead, SizeSets
  <1>5. ParallelRatedHead \in Seq(SizeSets) /\ ParallelRatedHead # <<>>
    BY SMT DEF ParallelRatedHead, SizeSets
  <1>6. ParallelHead \in Seq(SizeSets) /\ ParallelHead # <<>>
    BY SMT DEF ParallelHead, SizeSets
  <1> QED
    BY <1>1, <1>2, <1>3, <1>4, <1>5, <1>6

LEMMA LongLayouts ==
    /\ HeadIs(RatedInformation, RatedHead) /\ HeadIs(GeneralStatus, StatusHead)
    /\ HeadIs(FaultsAndWarnings, FaultsHead) /\ HeadIs(RatedDefaults, DefaultsHead)
    /\ HeadIs(ParallelRatedInformation, ParallelRatedHead)
    /\ HeadIs(ParallelGeneralStatus, ParallelHead)
  <1> USE Heads
  <1>1. HeadIs(RatedInformation, RatedHead)
    <2> DEFINE p == Times(6, 3)
               q == <<{1}, 2..3, {3}>>
               r == Times(9, 1)
    <2>1. RatedInformation.sizes = RatedHead \o p \o q \o r
            /\ RatedInformation.least = Len(RatedInformation.sizes)
      BY DEF RatedInformation, List, RatedHead
    <2>2. p \in Seq(SizeSets) /\ r \in Seq(SizeSets)
      BY TimesAre
    <2>3. q \in Seq(SizeSets)
      BY SMT DEF SizeSets
    <2> HIDE DEF p, q, r
    <2> QED
      BY <2>1, <2>2, <2>3, LongLists, HeadOfList
  <1>2. HeadIs(GeneralStatus, StatusHead)
    <2> DEFINE p == Times(10, 3)
               q == Times(4, 4)
               r == Times(8, 1)
    <2>1. GeneralStatus.sizes = StatusHead \o p \o q \o r
            /\ GeneralStatus.least = Len(GeneralStatus.sizes)
      BY DEF GeneralStatus, List, StatusHead
    <2>2. p \in Seq(SizeSets) /\ q \in Seq(SizeSets) /\ r \in Seq(SizeSets)
      BY TimesAre
    <2> HIDE DEF p, q, r
    <2> QED
      BY <2>1, <2>2, LongLists, HeadOfList
  <1>3. HeadIs(FaultsAndWarnings, FaultsHead)
    <2> DEFINE p == Times(16, 1)
    <2>1. FaultsAndWarnings.sizes = FaultsHead \o p
            /\ FaultsAndWarnings.least = Len(FaultsAndWarnings.sizes)
      BY DEF FaultsAndWarnings, List, FaultsHead
    <2>2. p \in Seq(SizeSets)
      BY TimesAre
    <2> HIDE DEF p
    <2> QED
      BY <2>1, <2>2, BeginsItself, BeginsLonger, HeadOfList
  <1>4. HeadIs(RatedDefaults, DefaultsHead)
    <2> DEFINE p == Times(6, 3)
               q == <<{2}>>
               r == Times(14, 1)
    <2>1. RatedDefaults.sizes = DefaultsHead \o p \o q \o r
            /\ RatedDefaults.least = Len(RatedDefaults.sizes)
      BY DEF RatedDefaults, List, DefaultsHead
    <2>2. p \in Seq(SizeSets) /\ r \in Seq(SizeSets)
      BY TimesAre
    <2>3. q \in Seq(SizeSets)
      BY SMT DEF SizeSets
    <2> HIDE DEF p, q, r
    <2> QED
      BY <2>1, <2>2, <2>3, LongLists, HeadOfList
  <1>5. HeadIs(ParallelRatedInformation, ParallelRatedHead)
    <2>1. ParallelRatedInformation.sizes = ParallelRatedHead
            /\ ParallelRatedInformation.least = Len(ParallelRatedInformation.sizes)
      BY DEF ParallelRatedInformation, List, ParallelRatedHead
    <2> QED
      BY <2>1, BeginsItself, HeadOfList
  <1>6. HeadIs(ParallelGeneralStatus, ParallelHead)
    <2> DEFINE p == Times(7, 3)
               q == Times(4, 4)
               r == Times(6, 1)
               v == <<{3}>>
    <2>1. ParallelGeneralStatus.sizes = ParallelHead \o p \o q \o r \o v
            /\ ParallelGeneralStatus.least = 28
      BY DEF ParallelGeneralStatus, List, ParallelHead
    <2>2. p \in Seq(SizeSets) /\ q \in Seq(SizeSets) /\ r \in Seq(SizeSets)
      BY TimesAre
    <2>3. v \in Seq(SizeSets)
      BY SMT DEF SizeSets
    <2>4. Len(ParallelHead) = 11
      BY DEF ParallelHead
    <2> HIDE DEF p, q, r, v
    <2>5. Begin(ParallelGeneralStatus.sizes, ParallelHead)
      BY <2>1, <2>2, <2>3, LongLists, BeginsLonger
    <2> QED
      BY <2>1, <2>4, <2>5 DEF HeadIs
  <1> QED
    BY <1>1, <1>2, <1>3, <1>4, <1>5, <1>6

\* The commands whose classes know the sizes of the items, and what the sizes
\* begin with in an answer that such a class takes.
SizedCommands == {"GetCPUVersion", "GetRatedInformation", "GetGeneralStatus",
    "GetFaultsAndWarnings", "GetFlagsAndStatuses", "GetRatedDefaults",
    "GetParallelRatedInformation", "GetParallelGeneralStatus"} \union Twins
Sized1(items, i) == items[1].size = i
Sized2(items, i, j) == Sized1(items, i) /\ items[2].size = j
Sized3(items, i, j, k) == Sized2(items, i, j) /\ items[3].size = k

\* How an answer that a class of known sizes takes begins.
Looks(c, items) ==
    /\ Len(items) >= 2
    /\ c = "GetCPUVersion" => Sized1(items, 5)
    /\ c = "GetRatedInformation" =>
          Sized3(items, 4, 3, 4) /\ items[4].size = 3 /\ items[5].size = 3
    /\ c = "GetGeneralStatus" =>
          Sized3(items, 4, 3, 4) /\ items[4].size = 3 /\ items[5].size = 4
    /\ c = "GetFaultsAndWarnings" => Sized1(items, 2)
    /\ c = "GetFlagsAndStatuses" => Sized3(items, 1, 1, 1)
    /\ c = "GetRatedDefaults" => Sized3(items, 4, 3, 1)
    /\ c = "GetParallelRatedInformation" => Sized2(items, 1, 2)
    /\ c = "GetParallelGeneralStatus" => Sized3(items, 1, 1, 2)
    /\ c \in Twins => Sized2(items, 4, 4)

\* Which command has which layout.
LEMMA LayoutsAre ==
    /\ \A c \in OneItem : Layouts[c].form # "list"
    /\ \A c \in Currents : Layouts[c].sizes = <<>>
    /\ Layouts["GetCPUVersion"] = CPUVersion
    /\ Layouts["GetRatedInformation"] = RatedInformation
    /\ Layouts["GetGeneralStatus"] = GeneralStatus
    /\ Layouts["GetFaultsAndWarnings"] = FaultsAndWarnings
    /\ Layouts["GetFlagsAndStatuses"] = FlagsAndStatuses
    /\ Layouts["GetRatedDefaults"] = RatedDefaults
    /\ Layouts["GetParallelRatedInformation"] = ParallelRatedInformation
    /\ Layouts["GetParallelGeneralStatus"] = ParallelGeneralStatus
    /\ \A c \in Twins : Layouts[c] = ACChargeTimeBucket
    /\ GetCommands = OneItem \union Currents \union SizedCommands
  <1>1. /\ ProtocolID.form # "list" /\ CurrentTime.form # "list"
        /\ TotalGenerated.form # "list" /\ SerialNumber.form # "list"
        /\ WorkingMode.form # "list" /\ AllowedChargeCurrents.sizes = <<>>
    BY DEF ProtocolID, CurrentTime, TotalGenerated, SerialNumber, WorkingMode,
           Places, AllowedChargeCurrents, List
  <1>2. /\ Layouts["GetProtocolID"] = ProtocolID
        /\ Layouts["GetCurrentTime"] = CurrentTime
        /\ Layouts["GetTotalGenerated"] = TotalGenerated
        /\ Layouts["GetYearGenerated"] = TotalGenerated
        /\ Layouts["GetMonthGenerated"] = TotalGenerated
        /\ Layouts["GetDayGenerated"] = TotalGenerated
        /\ Layouts["GetSerialNumber"] = SerialNumber
        /\ Layouts["GetWorkingMode"] = WorkingMode
        /\ Layouts["GetAllowedChargeCurrents"] = AllowedChargeCurrents
        /\ Layouts["GetAllowedACChargeCurrents"] = AllowedChargeCurrents
    BY SMT DEF Layouts
  <1>3. /\ Layouts["GetCPUVersion"] = CPUVersion
        /\ Layouts["GetRatedInformation"] = RatedInformation
        /\ Layouts["GetGeneralStatus"] = GeneralStatus
        /\ Layouts["GetFaultsAndWarnings"] = FaultsAndWarnings
        /\ Layouts["GetFlagsAndStatuses"] = FlagsAndStatuses
        /\ Layouts["GetRatedDefaults"] = RatedDefaults
        /\ Layouts["GetParallelRatedInformation"] = ParallelRatedInformation
        /\ Layouts["GetParallelGeneralStatus"] = ParallelGeneralStatus
    BY SMT DEF Layouts
  <1>4. \A c \in OneItem : Layouts[c].form # "list"
    BY <1>1, <1>2 DEF OneItem
  <1>5. \A c \in Currents : Layouts[c].sizes = <<>>
    BY <1>1, <1>2 DEF Currents
  <1>6. \A c \in Twins : Layouts[c] = ACChargeTimeBucket
    BY SettingsLayouts DEF Twins
  <1>7. GetCommands = OneItem \union Currents \union SizedCommands
    BY DEF GetCommands, OneItem, Currents, SizedCommands, Twins
  <1> QED
    BY <1>3, <1>4, <1>5, <1>6, <1>7

LEMMA FaultsAreMany == FaultsAndWarnings.least >= 2
  <1> DEFINE p == Times(16, 1)
  <1>1. FaultsAndWarnings.least = Len(FaultsHead \o p)
    BY DEF FaultsAndWarnings, List, FaultsHead
  <1>2. p \in Seq(SizeSets) /\ Len(p) = 16
    BY TimesAre
  <1>3. Len(FaultsHead) = 1
    BY DEF FaultsHead
  <1> HIDE DEF p
  <1>4. Len(FaultsHead \o p) = Len(FaultsHead) + Len(p)
    BY <1>2, Heads, ConcatProperties
  <1> QED
    BY <1>1, <1>2, <1>3, <1>4

\* An answer that is taken by its sizes looks like that.
LEMMA LooksAre ==
    ASSUME NEW c \in SizedCommands, NEW items \in Seq(AnItem),
           GetList(Layouts[c], items)
    PROVE  Looks(c, items)
  <1> USE LayoutsAre
  <1>0. ASSUME NEW layout, NEW u, HeadIs(layout, u), GetList(layout, items)
        PROVE  /\ Len(items) >= Len(u)
               /\ \A i \in 1 .. Len(u) : items[i].size \in u[i]
    BY <1>0, HeadSizes DEF HeadIs
  <1>1. CASE c = "GetCPUVersion"
    <2> DEFINE u == Times(3, 5)
    <2>1. /\ Len(items) >= Len(u)
          /\ \A i \in 1 .. Len(u) : items[i].size \in u[i]
      BY <1>0, <1>1, ShortLayouts
    <2>2. Len(u) = 3
      BY TimesAre
    <2>3. u[1] = {5}
      BY DEF Times
    <2> HIDE DEF u
    <2>4. items[1].size = 5
      BY <2>1, <2>2, <2>3
    <2>5. Len(items) >= 2
      BY <2>1, <2>2, LenProperties
    <2> QED
      BY <1>1, <2>4, <2>5 DEF Looks, Sized1, Sized2, Sized3, Twins
  <1>2. CASE c = "GetRatedInformation"
    <2> DEFINE u == RatedHead
    <2>1. /\ Len(items) >= Len(u)
          /\ \A i \in 1 .. Len(u) : items[i].size \in u[i]
      BY <1>0, <1>2, LongLayouts
    <2>2. Len(u) = 7
      BY DEF RatedHead
    <2>3. u[1] = {4} /\ u[2] = {3} /\ u[3] = {4} /\ u[4] = {3} /\ u[5] = {3}
      BY DEF RatedHead
    <2> HIDE DEF u
    <2>4. items[1].size = 4 /\ items[2].size = 3 /\ items[3].size = 4 /\ items[4].size = 3 /\ items[5].size = 3
      BY <2>1, <2>2, <2>3
    <2>5. Len(items) >= 2
      BY <2>1, <2>2, LenProperties
    <2> QED
      BY <1>2, <2>4, <2>5 DEF Looks, Sized1, Sized2, Sized3, Twins
  <1>3. CASE c = "GetGeneralStatus"
    <2> DEFINE u == StatusHead
    <2>1. /\ Len(items) >= Len(u)
          /\ \A i \in 1 .. Len(u) : items[i].size \in u[i]
      BY <1>0, <1>3, LongLayouts
    <2>2. Len(u) = 6
      BY DEF StatusHead
    <2>3. u[1] = {4} /\ u[2] = {3} /\ u[3] = {4} /\ u[4] = {3} /\ u[5] = {4}
      BY DEF StatusHead
    <2> HIDE DEF u
    <2>4. items[1].size = 4 /\ items[2].size = 3 /\ items[3].size = 4 /\ items[4].size = 3 /\ items[5].size = 4
      BY <2>1, <2>2, <2>3
    <2>5. Len(items) >= 2
      BY <2>1, <2>2, LenProperties
    <2> QED
      BY <1>3, <2>4, <2>5 DEF Looks, Sized1, Sized2, Sized3, Twins
  <1>4. CASE c = "GetFaultsAndWarnings"
    <2> DEFINE u == FaultsHead
    <2>1. /\ Len(items) >= Len(u)
          /\ \A i \in 1 .. Len(u) : items[i].size \in u[i]
      BY <1>0, <1>4, LongLayouts
    <2>2. Len(u) = 1
      BY DEF FaultsHead
    <2>3. u[1] = {2}
      BY DEF FaultsHead
    <2> HIDE DEF u
    <2>4. items[1].size = 2
      BY <2>1, <2>2, <2>3
    <2>5. Len(items) >= 2
      <3>1. Len(items) >= FaultsAndWarnings.least /\ Len(items) \in Nat
        <4>1. FaultsAndWarnings.sizes # <<>>
          <5>1. Begin(FaultsAndWarnings.sizes, FaultsHead)
            BY LongLayouts DEF HeadIs
          <5>2. Len(FaultsAndWarnings.sizes) >= 1
            BY <2>2, <5>1 DEF Begin, u
          <5> QED
            BY <5>2, EmptySeq
        <4> QED
          BY <1>4, <4>1, LenProperties DEF GetList
      <3> QED
        BY <3>1, FaultsAreMany, LongLayouts DEF HeadIs
    <2> QED
      BY <1>4, <2>4, <2>5 DEF Looks, Sized1, Twins
  <1>5. CASE c = "GetFlagsAndStatuses"
    <2> DEFINE u == Times(9, 1)
    <2>1. /\ Len(items) >= Len(u)
          /\ \A i \in 1 .. Len(u) : items[i].size \in u[i]
      BY <1>0, <1>5, ShortLayouts
    <2>2. Len(u) = 9
      BY TimesAre
    <2>3. u[1] = {1} /\ u[2] = {1} /\ u[3] = {1}
      BY DEF Times
    <2> HIDE DEF u
    <2>4. items[1].size = 1 /\ items[2].size = 1 /\ items[3].size = 1
      BY <2>1, <2>2, <2>3
    <2>5. Len(items) >= 2
      BY <2>1, <2>2, LenProperties
    <2> QED
      BY <1>5, <2>4, <2>5 DEF Looks, Sized1, Sized2, Sized3, Twins
  <1>6. CASE c = "GetRatedDefaults"
    <2> DEFINE u == DefaultsHead
    <2>1. /\ Len(items) >= Len(u)
          /\ \A i \in 1 .. Len(u) : items[i].size \in u[i]
      BY <1>0, <1>6, LongLayouts
    <2>2. Len(u) = 3
      BY DEF DefaultsHead
    <2>3. u[1] = {4} /\ u[2] = {3} /\ u[3] = {1}
      BY DEF DefaultsHead
    <2> HIDE DEF u
    <2>4. items[1].size = 4 /\ items[2].size = 3 /\ items[3].size = 1
      BY <2>1, <2>2, <2>3
    <2>5. Len(items) >= 2
      BY <2>1, <2>2, LenProperties
    <2> QED
      BY <1>6, <2>4, <2>5 DEF Looks, Sized1, Sized2, Sized3, Twins
  <1>7. CASE c = "GetParallelRatedInformation"
    <2> DEFINE u == ParallelRatedHead
    <2>1. /\ Len(items) >= Len(u)
          /\ \A i \in 1 .. Len(u) : items[i].size \in u[i]
      BY <1>0, <1>7, LongLayouts
    <2>2. Len(u) = 7
      BY DEF ParallelRatedHead
    <2>3. u[1] = {1} /\ u[2] = {2}
      BY DEF ParallelRatedHead
    <2> HIDE DEF u
    <2>4. items[1].size = 1 /\ items[2].size = 2
      BY <2>1, <2>2, <2>3
    <2>5. Len(items) >= 2
      BY <2>1, <2>2, LenProperties
    <2> QED
      BY <1>7, <2>4, <2>5 DEF Looks, Sized1, Sized2, Sized3, Twins
  <1>8. CASE c = "GetParallelGeneralStatus"
    <2> DEFINE u == ParallelHead
    <2>1. /\ Len(items) >= Len(u)
          /\ \A i \in 1 .. Len(u) : items[i].size \in u[i]
      BY <1>0, <1>8, LongLayouts
    <2>2. Len(u) = 11
      BY DEF ParallelHead
    <2>3. u[1] = {1} /\ u[2] = {1} /\ u[3] = {2}
      BY DEF ParallelHead
    <2> HIDE DEF u
    <2>4. items[1].size = 1 /\ items[2].size = 1 /\ items[3].size = 2
      BY <2>1, <2>2, <2>3
    <2>5. Len(items) >= 2
      BY <2>1, <2>2, LenProperties
    <2> QED
      BY <1>8, <2>4, <2>5 DEF Looks, Sized1, Sized2, Sized3, Twins
  <1>9. CASE c \in Twins
    <2> DEFINE u == Times(2, 4)
    <2>1. /\ Len(items) >= Len(u)
          /\ \A i \in 1 .. Len(u) : items[i].size \in u[i]
      BY <1>0, <1>9, ShortLayouts
    <2>2. Len(u) = 2
      BY TimesAre
    <2>3. u[1] = {4} /\ u[2] = {4}
      BY DEF Times
    <2> HIDE DEF u
    <2>4. items[1].size = 4 /\ items[2].size = 4
      BY <2>1, <2>2, <2>3
    <2>5. Len(items) >= 2
      BY <2>1, <2>2, LenProperties
    <2> QED
      BY <1>9, <2>4, <2>5 DEF Looks, Sized1, Sized2, Twins
  <1> QED
    BY <1>1, <1>2, <1>3, <1>4, <1>5, <1>6, <1>7, <1>8, <1>9 DEF SizedCommands

\* No two classes that know the sizes take one answer, but for the time buckets;
\* and none of them takes one item, or currents.
LEMMA LooksDiffer ==
    ASSUME NEW c \in SizedCommands, NEW o \in SizedCommands, c # o,
           NEW items, Looks(c, items), Looks(o, items)
    PROVE  {o, c} = Twins
  <1>1. {o, c} \subseteq Twins
    BY SMT DEF SizedCommands, Twins, Looks, Sized1, Sized2, Sized3
  <1> QED
    BY <1>1 DEF Twins

LEMMA OneIsFew ==
    ASSUME NEW c \in SizedCommands, NEW items, Looks(c, items), Len(items) = 1
    PROVE  FALSE
  BY DEF Looks

LEMMA CurrentsDiffer ==
    ASSUME NEW c \in SizedCommands, NEW items \in Seq(AnItem), Looks(c, items),
           \A i \in DOMAIN items : items[i].size = 3
    PROVE  FALSE
  <1>1. 1 \in DOMAIN items
    BY LenProperties DEF Looks
  <1>2. items[1].size = 3
    BY <1>1
  <1> QED
    BY <1>2, SMT DEF SizedCommands, Twins, Looks, Sized1, Sized2, Sized3

\* An answer to another command that is taken is a time bucket, read as the other one.
LEMMA OnlyTwinsAreMisread ==
    ASSUME NEW c \in SizedCommands, NEW o \in GetCommands, c # o,
           NEW data \in Answers, Readable(Layouts[o], data), Written(o, data.items),
           GetList(Layouts[c], data.items)
    PROVE  {o, c} = Twins
  <1> DEFINE items == data.items
  <1>1. items \in Seq(AnItem)
    BY AnswerItems
  <1>2. Looks(c, items)
    BY <1>1, LooksAre
  <1>3. CASE o \in OneItem
    <2>1. Len(items) = 1
      BY <1>3 DEF Written
    <2> QED
      BY <1>2, <2>1, OneIsFew
  <1>4. CASE o \in Currents
    <2>1. \A i \in DOMAIN items : items[i].size = 3
      BY <1>4 DEF Written
    <2> QED
      BY <1>1, <1>2, <2>1, CurrentsDiffer
  <1>5. CASE o \in SizedCommands
    <2>1. Layouts[o].form = "list"
      <3>1. /\ CPUVersion.form = "list" /\ RatedInformation.form = "list"
            /\ GeneralStatus.form = "list" /\ FaultsAndWarnings.form = "list"
            /\ FlagsAndStatuses.form = "list" /\ RatedDefaults.form = "list"
            /\ ParallelRatedInformation.form = "list"
            /\ ParallelGeneralStatus.form = "list"
            /\ ACChargeTimeBucket.form = "list"
        BY DEF CPUVersion, RatedInformation, GeneralStatus, FaultsAndWarnings,
               FlagsAndStatuses, RatedDefaults, ParallelRatedInformation,
               ParallelGeneralStatus, ACChargeTimeBucket, List
      <3> QED
        BY <1>5, <3>1, LayoutsAre DEF SizedCommands
    <2>2. GetList(Layouts[o], items)
      BY <2>1 DEF Readable, Unpack
    <2>3. Looks(o, items)
      BY <1>1, <1>5, <2>2, LooksAre
    <2> QED
      BY <1>2, <1>5, <2>3, LooksDiffer
  <1> QED
    BY <1>3, <1>4, <1>5, LayoutsAre

\* An answer can be read by the class of its own command; and when it is shown
\* as another's, that one's class took the sizes of its items.
AnswerIs ==
    answer.of \in GetCommands =>
        /\ Readable(Layouts[answer.of], answer.data)
        /\ answer.of # command =>
              answer.data \in Answers /\ Written(answer.of, answer.data.items)
        /\ end = "shown" =>
              /\ command \in GetCommands
              /\ Sized(command) => GetList(Layouts[command], answer.data.items)

LEMMA AnswerIsKept ==
    ASSUME AnswerIs, UNCHANGED <<command, answer>>,
           end' = "shown" => \/ end = "shown" \/ answer.of \notin GetCommands
    PROVE  AnswerIs'
  BY DEF AnswerIs

LEMMA EndIsKept ==
    ASSUME AnswerIs, NEW e, EndsWith(e), e # "shown", UNCHANGED <<command, answer>>
    PROVE  AnswerIs'
  BY AnswerIsKept DEF EndsWith

LEMMA NoAnswerIs ==
    ASSUME answer' = NoAnswer PROVE AnswerIs'
  BY NoneIsNoCommand, MeaningsOfCommands DEF AnswerIs, Commands

LEMMA AnswerMakes ==
    ASSUME IInv, Answer PROVE AnswerIs'
  <1>1. UNCHANGED <<command, end>> /\ end # "shown"
    <2>1. stage = "answer" /\ UNCHANGED <<command, end>>
      BY DEF Answer
    <2>2. end = None
      BY <2>1 DEF IInv, Order
    <2> QED
      BY <2>1, <2>2 DEF None
  <1>2. CASE \E a \in OwnAnswers["PseudoDevice"] :
                answer' = [Data("GetGeneralStatus", a) EXCEPT !.bytes = Reply(D)]
    <2>1. PICK a \in OwnAnswers["PseudoDevice"] :
              answer' = [Data("GetGeneralStatus", a) EXCEPT !.bytes = Reply(D)]
      BY <1>2
    <2>2. answer'.of = "GetGeneralStatus" /\ answer'.data = a
      BY <2>1 DEF Data, NoAnswer
    <2>3. a \in Answers /\ Readable(Layouts["GetGeneralStatus"], a)
      BY AnswersAssumption
    <2>4. Written("GetGeneralStatus", a.items)
      BY DEF Written, OneItem, Currents
    <2> QED
      BY <1>1, <2>2, <2>3, <2>4 DEF AnswerIs
  <1>3. CASE command \in GetCommands /\ answer' \in OtherAnswers
    BY <1>1, <1>3, AnswersAssumption DEF AnswerIs
  <1>4. CASE /\ command \in GetCommands
             /\ \E a \in OwnAnswer(command) : answer' = Data(command, a)
    <2>1. PICK a \in OwnAnswer(command) : answer' = Data(command, a)
      BY <1>4
    <2>2. answer'.of = command /\ answer'.data = a
      BY <2>1, DataIs
    <2>3. Readable(Layouts[command], a)
      BY <1>4, OwnAnswerReadable DEF IInv
    <2> QED
      BY <1>1, <2>2, <2>3 DEF AnswerIs
  <1>5. CASE \E says, bytes :
                answer' = [NoAnswer EXCEPT !.said = says, !.bytes = bytes]
    <2>1. answer'.of = None
      BY <1>5 DEF NoAnswer
    <2> QED
      BY <2>1, NoneIsNoCommand DEF AnswerIs, Commands
  <1> QED
    BY <1>2, <1>3, <1>4, <1>5 DEF Answer

LEMMA ReadMakes ==
    ASSUME IInv, AnswerIs, Read PROVE AnswerIs'
  <1>1. UNCHANGED <<command, answer>>
    BY DEF Read, request
  <1>2. CASE command \in SetCommands /\ EndsWith(ReadSet(answer.bytes))
    <2>1. ReadSet(answer.bytes) # "shown"
      BY EndsKnown
    <2> QED
      BY <1>1, <1>2, <2>1, EndIsKept
  <1>3. CASE /\ command \in GetCommands
             /\ \E format \in IF Ctl THEN {config.format} ELSE Formats :
                   \E e \in ReadGet(answer.data, format) : EndsWith(e)
    <2>1. PICK format, e : e \in ReadGet(answer.data, format) /\ EndsWith(e)
      BY <1>3
    <2>2. CASE e # "shown"
      BY <1>1, <2>1, <2>2, EndIsKept
    <2>3. CASE e = "shown"
      <3>1. Sized(command) => GetList(Layouts[command], answer.data.items)
        <4> SUFFICES ASSUME Sized(command),
                            ~ GetList(Layouts[command], answer.data.items)
                     PROVE  FALSE
          OBVIOUS
        <4>1. Unpack(Layouts[command], answer.data) = "refused"
          BY DEF Sized, Unpack
        <4> QED
          BY <2>1, <2>3, <4>1 DEF ReadGet
      <3> QED
        BY <1>1, <1>3, <3>1 DEF AnswerIs
    <2> QED
      BY <2>2, <2>3
  <1> QED
    BY <1>2, <1>3 DEF Read

\* Every step keeps it.
LEMMA NextKeepsAnswer ==
    IInv /\ AnswerIs /\ [Next]_vars => AnswerIs'
  <1> SUFFICES ASSUME IInv, AnswerIs, [Next]_vars PROVE AnswerIs'
    OBVIOUS
  <1>0. Order
    BY DEF IInv
  <1>1. CASE UNCHANGED <<command, answer, end>>
    BY <1>1, AnswerIsKept
  <1>2. ASSUME NEW words, Take(words) PROVE AnswerIs'
    BY <1>2, NoAnswerIs DEF Take
  <1>3. CASE TakeWords
    BY <1>1, <1>2, <1>3 DEF TakeWords, request
  <1>4. ASSUME NEW words, Execute(words) PROVE AnswerIs'
    BY <1>2, <1>4 DEF Execute
  <1>5. CASE Send
    <2>1. answer = NoAnswer
      BY <1>0, <1>5 DEF Order, Send
    <2> QED
      BY <1>5, <2>1, NoAnswerIs DEF Send
  <1>6. CASE Answer
    BY <1>6, AnswerMakes
  <1>7. CASE TakeOption
    <2>1. answer = NoAnswer
      BY <1>0, <1>7 DEF Order, TakeOption
    <2>2. UNCHANGED request
      BY <1>7 DEF TakeOption, Return, Abort
    <2> QED
      BY <2>1, <2>2, NoAnswerIs DEF request
  <1>8. CASE OpenDevice \/ Start \/ ShutDown
    <2>1. OpenDevice => answer' = NoAnswer
      BY <1>0 DEF OpenDevice, Order, request
    <2>2. Start => UNCHANGED <<request, end>>
      BY SMT DEF Start
    <2>3. ShutDown => UNCHANGED <<request, end>>
      BY DEF ShutDown
    <2> QED
      BY <1>1, <1>8, <2>1, <2>2, <2>3, NoAnswerIs DEF request
  <1>9. CASE DeviceFails \/ AnswerRaw
    <2>1. stage = "answer" /\ UNCHANGED request
      BY <1>9 DEF DeviceFails, AnswerRaw
    <2>2. answer = NoAnswer
      BY <1>0, <2>1 DEF Order
    <2> QED
      BY <2>1, <2>2, NoAnswerIs DEF request
  <1>10. CASE Read
    BY <1>10, ReadMakes
  <1>11. CASE Ended \/ UNCHANGED vars
    BY <1>1, <1>11 DEF Ended, vars
  <1> QED
    BY <1>3, <1>4, <1>5, <1>6, <1>7, <1>8, <1>9, <1>10, <1>11 DEF Next

LEMMA InitAnswer == Init => AnswerIs
  BY NoneIsNoCommand DEF Init, AnswerIs, Commands

\* And so it tells which answers are shown as another one.
LEMMA MisreadFollows == AnswerIs => MisreadKnown
  <1> SUFFICES ASSUME AnswerIs, answer.of \in GetCommands \ {command},
                      end = "shown", Sized(command)
               PROVE  {answer.of, command} = Twins
    BY DEF MisreadKnown
  <1>1. command \in GetCommands /\ GetList(Layouts[command], answer.data.items)
    BY DEF AnswerIs
  <1>2. command \in SizedCommands
    BY <1>1, LayoutsAre DEF Sized
  <1>3. /\ answer.data \in Answers /\ Readable(Layouts[answer.of], answer.data)
        /\ Written(answer.of, answer.data.items)
    BY DEF AnswerIs
  <1> QED
    BY <1>1, <1>2, <1>3, OnlyTwinsAreMisread

----------------------------------------------------------------------------
(* What is read outside of an answer *)

\* A sum over one index: the recursion ends after one step.
LEMMA SumOfOne ==
    ASSUME NEW f, NEW k
    PROVE  FoldFunctionOnSet(+, 0, f, {k}) = f[k] + 0
  <1> DEFINE Sums(g) == g = [s \in SUBSET {k} |->
                               IF s = {} THEN 0
                               ELSE LET x == CHOOSE x \in s : TRUE
                                    IN  f[x] + g[s \ {x}]]
             iter == CHOOSE g : Sums(g)
             sum == [s \in SUBSET {k} |-> IF s = {} THEN 0 ELSE f[k] + 0]
  <1>1. \A s \in SUBSET {k} : s = {} \/ s = {k}
    OBVIOUS
  <1>2. (CHOOSE x \in {k} : TRUE) = k /\ {k} \ {k} = {}
    OBVIOUS
  <1>3. \A s \in SUBSET {k} :
           sum[s] = IF s = {} THEN 0
                    ELSE LET x == CHOOSE x \in s : TRUE
                         IN  f[x] + sum[s \ {x}]
    <2>1. sum[{}] = 0 /\ sum[{k}] = f[k] + 0
      OBVIOUS
    <2> QED
      BY <1>1, <1>2, <2>1
  <1>4. Sums(iter)
    <2>1. Sums(sum)
      BY <1>3
    <2> QED
      BY <2>1
  <1>5. FoldFunctionOnSet(+, 0, f, {k}) = iter[{k}]
    BY DEF FoldFunctionOnSet, MapThenFoldSet
  <1>6. iter[{k}] = f[k] + iter[{k} \ {k}] /\ iter[{}] = 0
    <2> HIDE DEF iter
    <2>1. {k} \in SUBSET {k} /\ {} \in SUBSET {k} /\ {k} # {}
      OBVIOUS
    <2>2. \A s \in SUBSET {k} : iter[s] = IF s = {} THEN 0
                        ELSE LET x == CHOOSE x \in s : TRUE
                             IN  f[x] + iter[s \ {x}]
      BY <1>4
    <2> QED
      BY <1>2, <2>1, <2>2
  <1> HIDE DEF iter
  <1> QED
    BY <1>2, <1>5, <1>6

\* A class of one field reads as much as the field has.
LEMMA ReadsOne ==
    ASSUME NEW layout, NEW n \in Nat, layout.form = "places",
           layout.sizes = <<n>>, NEW items
    PROVE  Reads(layout, items) = n
  <1>1. Len(layout.sizes) = 1 /\ layout.sizes[1] = n
    OBVIOUS
  <1>2. 1 .. ((1 + 1) - 1) = {1}
    OBVIOUS
  <1>3. PlaceOf(layout.sizes, 1 + 1) = 1 + (n + 0)
    BY <1>1, <1>2, SumOfOne DEF PlaceOf
  <1>4. PlaceOf(layout.sizes, Len(layout.sizes) + 1) - 1 = n
    BY <1>1, <1>3
  <1> QED
    BY <1>4 DEF Reads

\* An answer whose own class reads it, read by another one.
LEMMA ReadsFollow == AnswerIs => ReadsInside
  <1> DEFINE layout == Layouts[command]
  <1> SUFFICES ASSUME AnswerIs, command \in GetCommands,
                      Unpack(layout, answer.data) = "outside"
               PROVE  /\ answer.of # command
                      /\ \/ layout \in {CurrentTime, TotalGenerated, SerialNumber}
                         \/ /\ layout \in {ProtocolID, WorkingMode}
                            /\ DataSize(answer.data) < 2
    BY DEF ReadsInside
  <1>1. answer.of # command
    BY DEF AnswerIs, Readable
  <1>2. layout.form # "list"
    BY DEF Unpack
  <1>3. command \in OneItem
    <2>1. \A c \in Currents \union SizedCommands : Layouts[c].form = "list"
      <3>1. /\ CPUVersion.form = "list" /\ RatedInformation.form = "list"
            /\ GeneralStatus.form = "list" /\ FaultsAndWarnings.form = "list"
            /\ FlagsAndStatuses.form = "list" /\ RatedDefaults.form = "list"
            /\ ParallelRatedInformation.form = "list"
            /\ ParallelGeneralStatus.form = "list"
            /\ ACChargeTimeBucket.form = "list"
            /\ AllowedChargeCurrents.form = "list"
        BY DEF CPUVersion, RatedInformation, GeneralStatus, FaultsAndWarnings,
               FlagsAndStatuses, RatedDefaults, ParallelRatedInformation,
               ParallelGeneralStatus, ACChargeTimeBucket, AllowedChargeCurrents,
               List
      <3>2. \A c \in Currents : Layouts[c] = AllowedChargeCurrents
        <4>1. /\ Layouts["GetAllowedChargeCurrents"] = AllowedChargeCurrents
              /\ Layouts["GetAllowedACChargeCurrents"] = AllowedChargeCurrents
          BY SMT DEF Layouts
        <4> QED
          BY <4>1 DEF Currents
      <3> QED
        BY <3>1, <3>2, LayoutsAre DEF SizedCommands
    <2> QED
      BY <1>2, <2>1, LayoutsAre
  <1>4. layout \in {CurrentTime, TotalGenerated, SerialNumber, ProtocolID,
                    WorkingMode}
    <2>1. /\ Layouts["GetProtocolID"] = ProtocolID
          /\ Layouts["GetCurrentTime"] = CurrentTime
          /\ Layouts["GetTotalGenerated"] = TotalGenerated
          /\ Layouts["GetYearGenerated"] = TotalGenerated
          /\ Layouts["GetMonthGenerated"] = TotalGenerated
          /\ Layouts["GetDayGenerated"] = TotalGenerated
          /\ Layouts["GetSerialNumber"] = SerialNumber
          /\ Layouts["GetWorkingMode"] = WorkingMode
      BY SMT DEF Layouts
    <2> QED
      BY <1>3, <2>1 DEF OneItem
  <1>5. layout \in {ProtocolID, WorkingMode} => DataSize(answer.data) < 2
    <2>1. /\ ProtocolID.form = "places" /\ ProtocolID.sizes = <<2>>
          /\ WorkingMode.form = "places" /\ WorkingMode.sizes = <<2>>
      BY DEF ProtocolID, WorkingMode, Places
    <2>2. \A items : Reads(ProtocolID, items) = 2 /\ Reads(WorkingMode, items) = 2
      BY <2>1, ReadsOne
    <2>3. Reads(layout, answer.data.items) > DataSize(answer.data)
      BY <1>2 DEF Unpack
    <2> HIDE DEF layout
    <2> QED
      BY <2>2, <2>3
  <1> QED
    BY <1>1, <1>4, <1>5

\* The checks of validate() and unpack() refuse an answer of the inverter to
\* another command in every class that knows the sizes of its items, but for the
\* two time buckets, for any answers the protocol has.
THEOREM MisreadOnlyTwins == Spec => []MisreadKnown
  <1> QED
    BY InitAnswer, Invariance, NextKeepsAnswer, MisreadFollows, PTL DEF Spec

\* unpack() reads outside of a valid answer only when it is to another command
\* and its class takes fields at fixed places, for any answers and any noise.
THEOREM ReadsStayInside == Spec => []ReadsInside
  <1> QED
    BY InitAnswer, Invariance, NextKeepsAnswer, ReadsFollow, PTL DEF Spec
==============================================================================
