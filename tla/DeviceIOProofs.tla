--------------------------- MODULE DeviceIOProofs ---------------------------
(***************************************************************************)
(* DeviceIO's safety invariants, for reports, frames, answers and buffers  *)
(* of every size.                                                          *)
(***************************************************************************)
EXTENDS DeviceIO, SequenceTheorems, WellFoundedInduction, TLAPS

\* What the backend transfers as one: bytes come and go in multiples of it.
Unit == IF backend = "usb" THEN ReportSize ELSE 1
Whole(n) == \E m \in Nat : n = m * Unit

\* What the inverter answers, and what fills its last report up.
Answer(r, n) == [i \in 1 .. n |-> Byte(r, i, n)]
Sent(r, n) == Answer(r, n) \o Padding(r, Filled(n))

\* From a byte of a frame or an answer on, and as long as none is the last, the
\* bytes of s are those of this frame or answer, one after the other.
Chained(s) ==
    \A i, j \in 1 .. Len(s) :
        /\ i <= j /\ s[i].place # 0
        /\ \A l \in i .. j - 1 : ~s[l].last
        => s[j].run = s[i].run /\ s[j].place = s[i].place + (j - i)

\* s does not stop in the middle of an answer.
Complete(s) == s # <<>> => s[Len(s)].last \/ s[Len(s)].place = 0

\* Every unit begins with a byte of an answer: padding comes after one.
Aligned(s) ==
    /\ Whole(Len(s))
    /\ \A m \in Nat : m * Unit + 1 <= Len(s) => s[m * Unit + 1].place # 0

LineInv == Chained(line) /\ Complete(line) /\ Aligned(line)

\* While writeLoop runs, what is written is the frame up to data.
WriteInv ==
    stage = "writing" =>
        /\ data < FrameSize /\ bytesLeft = FrameSize - data
        /\ Whole(data)
        /\ written = SubSeq(Frame(run), 1, data)
        /\ got = <<>>
        /\ bufSize = BufSize

\* What a run has read is a piece of one answer; while readLoop goes on, the
\* line goes on with the same one.
GotInv == AnswersApart /\ \A i \in 1 .. Len(got) : got[i].place # 0
ReadInv ==
    stage = "reading" =>
        /\ \A i \in 1 .. Len(got) : ~got[i].last
        /\ Whole(Len(got))
        /\ got # <<>> => /\ line # <<>>
                         /\ line[1].run = got[Len(got)].run
                         /\ line[1].place = got[Len(got)].place + 1

\* Before the first exception the link carries nothing but the exchange that is
\* under way.
CleanInv ==
    ~left =>
        /\ result \in {"none", "answer"}
        /\ stage = "idle" =>
              /\ wire = <<>> /\ line = <<>>
              /\ got = <<>> \/ \E n \in AnswerSizes : got = Answer(run, n)
        /\ stage = "writing" => wire = written /\ line = <<>>
        /\ stage = "reading" =>
              \/ wire \in {written, <<>>} /\ line = <<>> /\ got = <<>>
              \/ /\ wire = <<>>
                 /\ \E n \in AnswerSizes :
                       got \o line = Sent(run, n)

IInv ==
    /\ TypeOK /\ WriteInv /\ FrameInOrder
    /\ LineInv /\ GotInv /\ ReadInv /\ CleanInv

----------------------------------------------------------------------------
(* Arithmetic of reports *)

\* Multiples of R that differ by less than R are the same.
LEMMA MultiplesApart ==
    ASSUME NEW R \in Nat \ {0}, NEW i \in Nat, NEW j \in Nat, i < j
    PROVE  i * R + R <= j * R
  OBVIOUS

LEMMA SumOfMultiples ==
    ASSUME NEW R \in Nat, NEW i \in Nat, NEW j \in Nat
    PROVE  i * R + j * R = (i + j) * R
  OBVIOUS

LEMMA UnitType == Unit \in Nat \ {0}
  BY SizesAssumption DEF Unit

\* Whole sums and differences.
LEMMA WholeSum ==
    ASSUME NEW a \in Nat, NEW b \in Nat, Whole(a), Whole(b)
    PROVE  Whole(a + b)
  <1>1. PICK i \in Nat, j \in Nat : a = i * Unit /\ b = j * Unit
    BY DEF Whole
  <1>2. a + b = (i + j) * Unit
    BY <1>1, UnitType, SumOfMultiples
  <1> QED
    BY <1>2 DEF Whole

LEMMA WholeDifference ==
    ASSUME NEW a \in Nat, NEW b \in Nat, b <= a, Whole(a), Whole(b)
    PROVE  Whole(a - b)
  <1>1. PICK i \in Nat, j \in Nat : a = i * Unit /\ b = j * Unit
    BY DEF Whole
  <1>2. CASE j > i
    <2>1. i * Unit + Unit <= j * Unit
      BY <1>2, UnitType, MultiplesApart
    <2> QED
      BY <1>1, <2>1, UnitType
  <1>3. CASE j <= i
    <2>1. i - j \in Nat /\ (i - j) + j = i
      BY <1>3
    <2>2. (i - j) * Unit + j * Unit = i * Unit
      BY <2>1, UnitType, SumOfMultiples
    <2>3. (i - j) * Unit \in Int
      BY <2>1, UnitType
    <2>4. a - b = (i - j) * Unit
      BY <1>1, <2>2, <2>3
    <2> QED
      BY <2>1, <2>4 DEF Whole
  <1> QED
    BY <1>2, <1>3

\* A whole number below one unit is 0, below two units at most one.
LEMMA WholeBelowUnit ==
    ASSUME NEW a \in Nat, Whole(a)
    PROVE  /\ a < Unit => a = 0
           /\ a < Unit + Unit => a = 0 \/ a = Unit
  <1>1. PICK i \in Nat : a = i * Unit
    BY DEF Whole
  <1>2. i = 0 => a = 0
    BY <1>1, UnitType
  <1>3. i = 1 => a = Unit
    BY <1>1, UnitType
  <1>4. ASSUME i > 1 PROVE a >= Unit + Unit
    <2>1. 1 * Unit + Unit <= i * Unit
      BY <1>4, UnitType, MultiplesApart
    <2> QED
      BY <1>1, <2>1, UnitType
  <1> QED
    BY <1>2, <1>3, <1>4, UnitType

\* Filled is the least number of bytes that makes n whole ...
LEMMA FilledType ==
    ASSUME NEW n \in Nat, backend \in {"usb", "serial"}
    PROVE  Filled(n) \in Nat /\ Filled(n) < Unit /\ Whole(n + Filled(n))
  <1>1. CASE backend = "usb"
    <2> DEFINE R == ReportSize
               q == n \div R
               r == n % R
    <2>1. R \in Nat /\ R > 0 /\ Unit = R
      BY <1>1, SizesAssumption DEF Unit
    <2>2. q \in Nat /\ r \in Nat /\ r < R
      BY <2>1
    <2>3. n = R * q + r
      <3>1. r = n - R * q
        BY <2>1, SMTT(30)
      <3>2. R * q \in Int
        BY <2>1, <2>2
      <3> QED
        BY <3>1, <3>2
    <2>4. Filled(n) = (R - r) % R
      BY <1>1 DEF Filled
    <2> HIDE DEF R, q, r
    <2>5. CASE r = 0
      <3>1. Filled(n) = 0
        BY <2>1, <2>4, <2>5
      <3>2. n + Filled(n) = q * R
        BY <2>1, <2>2, <2>3, <2>5, <3>1
      <3> QED
        BY <2>1, <2>2, <3>1, <3>2 DEF Whole
    <2>6. CASE r > 0
      <3>1. R - r \in Nat /\ R - r < R
        BY <2>1, <2>2, <2>6
      <3>2. Filled(n) = R - r
        BY <2>1, <2>4, <3>1
      <3>3. q * R + R = (q + 1) * R
        BY <2>1, <2>2
      <3>4. n + Filled(n) = (q + 1) * R
        BY <2>1, <2>2, <2>3, <3>2, <3>3
      <3>5. Whole(n + Filled(n))
        <4>1. q + 1 \in Nat /\ n + Filled(n) = (q + 1) * Unit
          BY <2>1, <2>2, <3>4
        <4> HIDE DEF Filled
        <4> QED
          BY <4>1 DEF Whole
      <3> QED
        BY <2>1, <3>1, <3>2, <3>5
    <2> QED
      BY <2>2, <2>5, <2>6
  <1>2. CASE backend = "serial"
    <2>1. Filled(n) = 0 /\ Unit = 1
      BY <1>2 DEF Filled, Unit
    <2> QED
      BY <2>1 DEF Whole
  <1> QED
    BY <1>1, <1>2

\* ... and the only one below a unit.
LEMMA FilledUnique ==
    ASSUME NEW n \in Nat, backend \in {"usb", "serial"},
           NEW f \in Nat, f < Unit, Whole(n + f)
    PROVE  f = Filled(n)
  <1>1. Filled(n) \in Nat /\ Filled(n) < Unit /\ Whole(n + Filled(n))
    BY FilledType
  <1>2. CASE f <= Filled(n)
    <2>1. Whole((n + Filled(n)) - (n + f))
      BY <1>1, <1>2, WholeDifference
    <2>2. (n + Filled(n)) - (n + f) \in Nat /\ (n + Filled(n)) - (n + f) < Unit
      BY <1>1, <1>2, UnitType
    <2>3. (n + Filled(n)) - (n + f) = 0
      BY <2>1, <2>2, WholeBelowUnit
    <2> QED
      BY <1>1, <2>3
  <1>3. CASE f > Filled(n)
    <2>1. Whole((n + f) - (n + Filled(n)))
      BY <1>1, <1>3, WholeDifference
    <2>2. (n + f) - (n + Filled(n)) \in Nat /\ (n + f) - (n + Filled(n)) < Unit
      BY <1>1, <1>3, UnitType
    <2>3. (n + f) - (n + Filled(n)) = 0
      BY <2>1, <2>2, WholeBelowUnit
    <2> QED
      BY <1>1, <2>3
  <1> QED
    BY <1>1, <1>2, <1>3

----------------------------------------------------------------------------
(* Frames, answers, padding *)

LEMMA ByteType ==
    ASSUME NEW r \in Nat, NEW i \in Nat, NEW n \in Nat
    PROVE  /\ Byte(r, i, n) \in FrameByte
           /\ Byte(r, i, n).run = r /\ Byte(r, i, n).place = i
           /\ Byte(r, i, n).last <=> i = n
  BY DEF Byte, FrameByte

LEMMA FrameFacts ==
    ASSUME NEW r \in Nat
    PROVE  /\ Frame(r) \in Seq(FrameByte) /\ Len(Frame(r)) = FrameSize
           /\ \A i \in 1 .. FrameSize : Frame(r)[i] = Byte(r, i, FrameSize)
  <1>1. \A i \in 1 .. FrameSize : Byte(r, i, FrameSize) \in FrameByte
    BY ByteType, SizesAssumption
  <1> QED
    BY <1>1, SizesAssumption DEF Frame

LEMMA AnswerFacts ==
    ASSUME NEW r \in Nat, NEW n \in Nat
    PROVE  /\ Answer(r, n) \in Seq(FrameByte) /\ Len(Answer(r, n)) = n
           /\ \A i \in 1 .. n : Answer(r, n)[i] = Byte(r, i, n)
  <1>1. \A i \in 1 .. n : Byte(r, i, n) \in FrameByte
    BY ByteType
  <1> QED
    BY <1>1 DEF Answer

LEMMA PaddingFacts ==
    ASSUME NEW r \in Nat, NEW n \in Nat
    PROVE  /\ Padding(r, n) \in Seq(FrameByte) /\ Len(Padding(r, n)) = n
           /\ \A i \in 1 .. n : Padding(r, n)[i] = Byte(r, 0, 1)
  <1>1. \A i \in 1 .. n : Byte(r, 0, 1) \in FrameByte
    BY ByteType
  <1> QED
    BY <1>1 DEF Padding

----------------------------------------------------------------------------
(* writeLoop *)

\* A call of write that takes the next k bytes returns k, or fills the last
\* report up.
Takes(k, n) ==
    /\ k \in 0 .. bytesLeft
    /\ n = IF k = bytesLeft THEN k + Filled(FrameSize) ELSE k
    /\ k < bytesLeft => Whole(data + k)

LEMMA WriteCases ==
    ASSUME TypeOK, WriteInv, WriteReport \/ WriteBytes
    PROVE  \E k, n \in Nat : Takes(k, n) /\ Write(k, n)
  <1>1. /\ stage = "writing" /\ data \in Nat /\ data < FrameSize
        /\ bytesLeft = FrameSize - data /\ Whole(data)
        /\ backend \in {"usb", "serial"} /\ FrameSize \in Nat
    BY BackendsAssumption, SizesAssumption
    DEF WriteReport, WriteBytes, Write, WriteInv, TypeOK
  <1>2. Filled(FrameSize) \in Nat
    BY <1>1, FilledType
  <1>3. CASE WriteReport
    <2>1. /\ Unit = ReportSize /\ ReportSize \in Nat \ {0}
          /\ Write(Smaller(bytesLeft, ReportSize), ReportSize)
      BY <1>3, SizesAssumption DEF WriteReport, Unit
    <2>2. CASE bytesLeft <= ReportSize
      <3>1. Smaller(bytesLeft, ReportSize) = bytesLeft
        BY <1>1, <2>1, <2>2 DEF Smaller
      <3>2. Whole(data + ReportSize)
        <4>1. Whole(ReportSize)
          BY <2>1 DEF Whole
        <4> QED
          BY <1>1, <2>1, <4>1, WholeSum
      <3>3. ReportSize - bytesLeft = Filled(FrameSize)
        <4> DEFINE f == ReportSize - bytesLeft
        <4>1. f \in Nat /\ f < Unit /\ FrameSize + f = data + ReportSize
          BY <1>1, <2>1, <2>2
        <4> HIDE DEF f
        <4>2. Whole(FrameSize + f)
          BY <3>2, <4>1
        <4>3. f = Filled(FrameSize)
          BY <1>1, <4>1, <4>2, FilledUnique
        <4> QED
          BY <4>3 DEF f
      <3>4. Takes(bytesLeft, ReportSize)
        BY <1>1, <1>2, <2>1, <3>3 DEF Takes
      <3> QED
        BY <1>1, <2>1, <3>1, <3>4
    <2>3. CASE bytesLeft > ReportSize
      <3>1. Smaller(bytesLeft, ReportSize) = ReportSize
        BY <1>1, <2>1, <2>3 DEF Smaller
      <3>2. Whole(data + ReportSize)
        <4>1. Whole(ReportSize)
          BY <2>1 DEF Whole
        <4> QED
          BY <1>1, <2>1, <4>1, WholeSum
      <3>3. Takes(ReportSize, ReportSize)
        BY <1>1, <2>1, <2>3, <3>2 DEF Takes
      <3> QED
        BY <1>1, <2>1, <3>1, <3>3
    <2> QED
      BY <1>1, <2>1, <2>2, <2>3
  <1>4. CASE WriteBytes
    <2>1. Unit = 1 /\ Filled(FrameSize) = 0
      BY <1>4 DEF WriteBytes, Unit, Filled
    <2>2. PICK k \in 0 .. bytesLeft : Write(k, k)
      BY <1>4 DEF WriteBytes
    <2>3. k \in Nat /\ data + k \in Nat
      BY <1>1
    <2>4. Whole(data + k)
      BY <2>1, <2>3 DEF Whole
    <2>5. Takes(k, k)
      BY <1>1, <2>1, <2>2, <2>3, <2>4 DEF Takes
    <2> QED
      BY <2>2, <2>3, <2>5
  <1> QED
    BY <1>3, <1>4

\* What such a call adds to what was written.
Taken(r, d, k, f) == SubSeq(Frame(r), d + 1, d + k) \o Padding(r, f)
GoesOn(r, d, k, f) ==
    /\ Taken(r, d, k, f) \in Seq(FrameByte)
    /\ SubSeq(Frame(r), 1, d) \o Taken(r, d, k, f)
          = SubSeq(Frame(r), 1, d + k) \o Padding(r, f)
LEMMA TakenBytes ==
    ASSUME NEW r \in Nat, NEW d \in Nat, NEW k \in Nat, NEW f \in Nat,
           d + k <= FrameSize
    PROVE  GoesOn(r, d, k, f)
  <1> DEFINE start == SubSeq(Frame(r), 1, d)
             next == SubSeq(Frame(r), d + 1, d + k)
             pad == Padding(r, f)
  <1>1. /\ Frame(r) \in Seq(FrameByte) /\ Len(Frame(r)) = FrameSize
        /\ pad \in Seq(FrameByte) /\ FrameSize \in Nat
    BY FrameFacts, PaddingFacts, SizesAssumption
  <1>2. \A i \in 1 .. FrameSize : Frame(r)[i] \in FrameByte
    BY <1>1, ElementOfSeq
  <1>3. start \in Seq(FrameByte)
    <2>1. \A i \in 1 .. d : Frame(r)[i] \in FrameByte
      BY <1>1, <1>2
    <2> QED
      BY <2>1, SubSeqProperties
  <1>4. next \in Seq(FrameByte)
    <2>1. \A i \in d + 1 .. d + k : Frame(r)[i] \in FrameByte
      BY <1>1, <1>2
    <2> QED
      BY <2>1, SubSeqProperties
  <1>5. start \o next = SubSeq(Frame(r), 1, d + k)
    <2>1. /\ 1 \in 1 .. FrameSize + 1 /\ d \in 1 - 1 .. FrameSize
          /\ d + k \in d .. FrameSize
      BY <1>1
    <2> QED
      BY <1>1, <2>1, ConcatAdjacentSubSeq
  <1> HIDE DEF start, next, pad
  <1>6. start \o (next \o pad) = (start \o next) \o pad
    BY <1>1, <1>3, <1>4, ConcatAssociative, SMTT(30)
  <1>7. next \o pad \in Seq(FrameByte)
    BY <1>1, <1>4, ConcatProperties
  <1> QED
    BY <1>5, <1>6, <1>7 DEF GoesOn, Taken, start, next, pad

\* writeLoop keeps to the frame, wherever write stops.
LEMMA WriteStep == IInv /\ (WriteReport \/ WriteBytes) => IInv'
  <1> SUFFICES ASSUME IInv, WriteReport \/ WriteBytes PROVE IInv'
    OBVIOUS
  <1>1. TypeOK /\ WriteInv /\ LineInv /\ GotInv /\ CleanInv
    BY DEF IInv
  <1>2. PICK k \in Nat, n \in Nat : Takes(k, n) /\ Write(k, n)
    BY <1>1, WriteCases
  <1>3. /\ stage = "writing" /\ data \in Nat /\ data < FrameSize
        /\ bytesLeft = FrameSize - data /\ Whole(data)
        /\ written = SubSeq(Frame(run), 1, data)
        /\ got = <<>> /\ bufSize = BufSize
        /\ run \in Nat /\ FrameSize \in Nat
        /\ wire \in Seq(FrameByte) /\ written \in Seq(FrameByte)
        /\ backend \in {"usb", "serial"}
        /\ k \in Nat /\ n \in Nat
    BY <1>1, <1>2, BackendsAssumption, SizesAssumption
    DEF Write, WriteInv, TypeOK
  <1> DEFINE taken == SubSeq(Frame(run), data + 1, data + k) \o Padding(run, n - k)
  <1>4. /\ written' = written \o taken /\ wire' = wire \o taken
        /\ bytesLeft' = bytesLeft - n
        /\ expired' \in {expired, Timed}
        /\ backend' = backend /\ run' = run /\ bufSize' = bufSize
        /\ line' = line /\ got' = got
    BY <1>2 DEF Write, TimePasses
  <1>5. \/ /\ stage' = "idle" /\ result' = "TimeoutError" /\ left' = TRUE
           /\ data' \in Nat
        \/ /\ bytesLeft' <= 0 /\ stage' = "reading" /\ result' = result
           /\ left' = left /\ data' = data
        \/ /\ bytesLeft' > 0 /\ stage' = "writing" /\ result' = result
           /\ left' = left /\ data' = data + n
    <2>1. bytesLeft' \in Int
      BY <1>3, <1>4
    <2>2. CASE bytesLeft' <= 0
      BY <1>2, <1>3, <2>2 DEF Write, Abandon
    <2>3. CASE ~(bytesLeft' <= 0)
      BY <1>2, <1>3, <2>1, <2>3 DEF Write, Abandon, Advance
    <2> QED
      BY <2>2, <2>3
  <1>6. /\ bytesLeft' \in Int /\ k <= bytesLeft /\ n >= k /\ n - k \in Nat
        /\ k = bytesLeft => n - k = Filled(FrameSize) /\ bytesLeft' <= 0
        /\ k < bytesLeft => n = k /\ Whole(data + k) /\ bytesLeft' > 0
    <2>1. Filled(FrameSize) \in Nat
      BY <1>3, FilledType
    <2>2. /\ k <= bytesLeft
          /\ k < bytesLeft => Whole(data + k)
          /\ n = IF k = bytesLeft THEN k + Filled(FrameSize) ELSE k
      BY <1>2, <1>3 DEF Takes
    <2>3. CASE k = bytesLeft
      BY <1>3, <1>4, <2>1, <2>2, <2>3
    <2>4. CASE k # bytesLeft
      <3>1. k < bytesLeft /\ n = k /\ n \in Nat /\ bytesLeft \in Int
        BY <1>3, <2>2, <2>4
      <3>2. bytesLeft' = bytesLeft - n
        BY <1>4
      <3> QED
        BY <2>2, <2>4, <3>1, <3>2
    <2> QED
      BY <2>3, <2>4
  <1>7. /\ taken \in Seq(FrameByte)
        /\ written' = SubSeq(Frame(run), 1, data + k) \o Padding(run, n - k)
    <2> DEFINE f == n - k
    <2>1. data + k <= FrameSize /\ f \in Nat
      BY <1>3, <1>6
    <2>2. taken = Taken(run, data, k, f)
      BY DEF Taken
    <2> HIDE DEF f, taken
    <2>3. run \in Nat /\ data \in Nat /\ k \in Nat
      BY <1>3
    <2>4. GoesOn(run, data, k, f)
      BY <2>1, <2>3, TakenBytes
    <2> QED
      BY <1>3, <1>4, <2>2, <2>4 DEF f, GoesOn
  <1> HIDE DEF taken
  <1>8. bytesLeft' <= 0 =>
          written' = Frame(run) \o Padding(run, Filled(FrameSize))
    <2> SUFFICES ASSUME bytesLeft' <= 0
                 PROVE  written' = Frame(run) \o Padding(run, Filled(FrameSize))
      OBVIOUS
    <2>0. k = bytesLeft
      BY <1>3, <1>6
    <2>1. data + k = FrameSize
      BY <1>3, <2>0
    <2>2. SubSeq(Frame(run), 1, FrameSize) = Frame(run)
      BY <1>3, FrameFacts, SubSeqFull
    <2> QED
      BY <1>6, <1>7, <2>0, <2>1, <2>2
  <1>9. bytesLeft' > 0 =>
          /\ written' = SubSeq(Frame(run), 1, data + n)
          /\ Whole(data + n) /\ data + n < FrameSize
          /\ bytesLeft' = FrameSize - (data + n)
    <2> SUFFICES ASSUME bytesLeft' > 0
                 PROVE  /\ written' = SubSeq(Frame(run), 1, data + n)
                        /\ Whole(data + n) /\ data + n < FrameSize
                        /\ bytesLeft' = FrameSize - (data + n)
      OBVIOUS
    <2>0. k < bytesLeft
      BY <1>3, <1>6
    <2>1. n = k /\ n - k = 0 /\ data + n < FrameSize
          /\ bytesLeft' = FrameSize - (data + n)
      BY <1>3, <1>4, <1>6, <2>0
    <2>2. Padding(run, 0) = <<>>
      BY DEF Padding
    <2>3. SubSeq(Frame(run), 1, data + n) \in Seq(FrameByte)
      <3>1. \A i \in 1 .. data + n : Frame(run)[i] \in FrameByte
        BY <1>3, <2>1, FrameFacts, ElementOfSeq
      <3> QED
        BY <1>3, <3>1, SubSeqProperties
    <2> QED
      BY <1>6, <1>7, <2>0, <2>1, <2>2, <2>3, ConcatEmptySeq
  <1>10. TypeOK'
    <2>1. wire' \in Seq(FrameByte) /\ written' \in Seq(FrameByte)
      BY <1>3, <1>4, <1>7, ConcatProperties
    <2>2. data' \in Nat /\ bytesLeft' \in Int
      BY <1>3, <1>5, <1>6
    <2>6. left' \in BOOLEAN
      BY <1>1, <1>5 DEF TypeOK
    <2>3. expired' \in BOOLEAN
      BY <1>1, <1>4, BackendsAssumption DEF TypeOK
    <2>4. bufSize' \in 0 .. BufSize /\ bufSize' > 0
      BY <1>3, <1>4, SizesAssumption
    <2>5. /\ stage' \in {"idle", "writing", "reading", "undefined"}
          /\ result' \in {"none", "answer", "InvalidDataError", "TimeoutError",
                            "DeviceError", "overflow_error"}
      BY <1>1, <1>5 DEF TypeOK
    <2> QED
      BY <1>1, <1>4, <2>1, <2>2, <2>3, <2>4, <2>5, <2>6 DEF TypeOK
  <1>11. WriteInv'
    BY <1>3, <1>4, <1>5, <1>9 DEF WriteInv, Whole, Unit, Frame
  <1>12. FrameInOrder'
    BY <1>4, <1>5, <1>8 DEF FrameInOrder, Frame, Padding, Filled
  <1>13. LineInv' /\ GotInv'
    BY <1>1, <1>4
    DEF LineInv, GotInv, Chained, Complete, Aligned, AnswersApart, Whole, Unit
  <1>14. ReadInv'
    BY <1>3, <1>4, UnitType DEF ReadInv, Whole, Unit
  <1>15. CleanInv'
    <2>1. ~left => wire' = written' /\ line' = <<>> /\ result \in {"none", "answer"}
      BY <1>1, <1>3, <1>4 DEF CleanInv
    <2>2. CASE left'
      BY <2>2 DEF CleanInv
    <2>3. CASE ~left'
      <3>1. ~left /\ stage' \in {"writing", "reading"} /\ result' = result
        BY <1>5, <2>3
      <3>2. got' = <<>>
        BY <1>3, <1>4
      <3> QED
        BY <2>1, <3>1, <3>2 DEF CleanInv
    <2> QED
      BY <2>2, <2>3
  <1> QED
    BY <1>10, <1>11, <1>12, <1>13, <1>14, <1>15 DEF IInv

----------------------------------------------------------------------------
(* Pieces of the line *)

\* Every nonempty set of numbers has a least one.
LEMMA Least ==
    ASSUME NEW T \in SUBSET Nat, T # {}
    PROVE  \E x \in T : \A y \in T : x <= y
  <1> DEFINE L == {ss \in Nat \X Nat : ss[1] < ss[2]}
  <1>1. IsWellFoundedOn(OpToRel(<, Nat), Nat)
    BY NatLessThanWellFounded
  <1>2. OpToRel(<, Nat) = L
    BY DEF OpToRel
  <1>3. IsWellFoundedOn(L, Nat)
    BY <1>1, <1>2
  <1>4. \A x, y \in Nat : y < x => <<y, x>> \in L
    OBVIOUS
  <1> HIDE DEF L
  <1>5. PICK x \in T : \A y \in T : ~(<<y, x>> \in L)
    BY <1>3, WFMin
  <1>6. ASSUME NEW y \in T PROVE x <= y
    <2>1. x \in Nat /\ y \in Nat
      OBVIOUS
    <2>2. y < x => <<y, x>> \in L
      BY <1>4, <2>1
    <2>3. ~(y < x)
      BY <1>5, <2>2
    <2> QED
      BY <2>1, <2>3
  <1> QED
    BY <1>6

\* A sequence and what is left of it behind its first n bytes.
Rest(s, n) == SubSeq(s, n + 1, Len(s))
Splits(s, n) ==
    /\ Len(s) \in Nat
    /\ SubSeq(s, 1, n) \in Seq(FrameByte) /\ Len(SubSeq(s, 1, n)) = n
    /\ \A i \in 1 .. n : SubSeq(s, 1, n)[i] = s[i]
    /\ Rest(s, n) \in Seq(FrameByte) /\ Len(Rest(s, n)) = Len(s) - n
    /\ \A i \in 1 .. Len(s) - n : Rest(s, n)[i] = s[n + i]
    /\ SubSeq(s, 1, n) \o Rest(s, n) = s

LEMMA Split ==
    ASSUME NEW s \in Seq(FrameByte), NEW n \in 0 .. Len(s)
    PROVE  Splits(s, n)
  <1>1. Len(s) \in Nat /\ n \in Nat /\ n <= Len(s)
    BY LenProperties
  <1>2. \A i \in 1 .. Len(s) : s[i] \in FrameByte
    BY ElementOfSeq
  <1>3. /\ SubSeq(s, 1, n) \in Seq(FrameByte) /\ Len(SubSeq(s, 1, n)) = n
        /\ \A i \in 1 .. n : SubSeq(s, 1, n)[i] = s[i]
    <2>1. \A i \in 1 .. n : s[i] \in FrameByte
      BY <1>1, <1>2
    <2> QED
      BY <1>1, <2>1, SubSeqProperties
  <1>4. /\ Rest(s, n) \in Seq(FrameByte) /\ Len(Rest(s, n)) = Len(s) - n
        /\ \A i \in 1 .. Len(s) - n : Rest(s, n)[i] = s[n + i]
    <2>1. \A i \in n + 1 .. Len(s) : s[i] \in FrameByte
      BY <1>1, <1>2
    <2>2. n + 1 \in Int /\ Len(s) \in Int
      BY <1>1
    <2>3. /\ Rest(s, n) \in Seq(FrameByte)
          /\ Len(Rest(s, n)) = IF n + 1 <= Len(s) THEN Len(s) - (n + 1) + 1 ELSE 0
          /\ \A i \in 1 .. Len(s) - (n + 1) + 1 : Rest(s, n)[i] = s[n + 1 + i - 1]
      BY <2>1, <2>2, SubSeqProperties DEF Rest
    <2> QED
      BY <1>1, <2>3
  <1>5. SubSeq(s, 1, n) \o Rest(s, n) = s
    <2>1. 1 \in 1 .. Len(s) + 1 /\ n \in 1 - 1 .. Len(s) /\ Len(s) \in n .. Len(s)
      BY <1>1
    <2>2. SubSeq(s, 1, n) \o Rest(s, n) = SubSeq(s, 1, Len(s))
      BY <2>1, ConcatAdjacentSubSeq DEF Rest
    <2> QED
      BY <2>2, SubSeqFull
  <1> QED
    BY <1>1, <1>3, <1>4, <1>5 DEF Splits

\* What is left of a good line after a whole number of units is a good line.
LEMMA RestOfLine ==
    ASSUME NEW s \in Seq(FrameByte), NEW n \in 0 .. Len(s), Whole(n),
           Chained(s), Complete(s), Aligned(s)
    PROVE  Chained(Rest(s, n)) /\ Complete(Rest(s, n)) /\ Aligned(Rest(s, n))
  <1> DEFINE t == Rest(s, n)
  <1>1. /\ Len(s) \in Nat /\ n \in Nat /\ n <= Len(s)
        /\ t \in Seq(FrameByte) /\ Len(t) = Len(s) - n
        /\ \A i \in 1 .. Len(t) : n + i \in 1 .. Len(s) /\ t[i] = s[n + i]
    BY Split, LenProperties DEF Splits
  <1> HIDE DEF t
  <1>2. Chained(t)
    <2> SUFFICES ASSUME NEW i \in 1 .. Len(t), NEW j \in 1 .. Len(t),
                        i <= j, t[i].place # 0, \A l \in i .. j - 1 : ~t[l].last
                 PROVE  t[j].run = t[i].run /\ t[j].place = t[i].place + (j - i)
      BY DEF Chained
    <2>1. /\ n + i \in 1 .. Len(s) /\ n + j \in 1 .. Len(s) /\ n + i <= n + j
          /\ t[i] = s[n + i] /\ t[j] = s[n + j] /\ (n + j) - (n + i) = j - i
      BY <1>1
    <2>2. ASSUME NEW l \in n + i .. (n + j) - 1 PROVE ~s[l].last
      <3>1. l - n \in i .. j - 1 /\ l - n \in 1 .. Len(t) /\ n + (l - n) = l
        BY <1>1, <2>2
      <3> QED
        BY <1>1, <3>1
    <2>3. s[n + j].run = s[n + i].run /\ s[n + j].place = s[n + i].place + ((n + j) - (n + i))
      BY <2>1, <2>2 DEF Chained
    <2> QED
      BY <2>1, <2>3
  <1>3. Complete(t)
    <2> SUFFICES ASSUME t # <<>> PROVE t[Len(t)].last \/ t[Len(t)].place = 0
      BY DEF Complete
    <2>1. Len(t) \in Nat \ {0}
      BY <1>1, EmptySeq
    <2>2. Len(t) \in 1 .. Len(t) /\ n + Len(t) = Len(s) /\ s # <<>>
      BY <1>1, <2>1
    <2> QED
      BY <1>1, <2>2 DEF Complete
  <1>4. Aligned(t)
    <2>1. PICK k \in Nat : n = k * Unit
      BY DEF Whole
    <2>2. Whole(Len(t))
      BY <1>1, WholeDifference DEF Aligned
    <2>3. ASSUME NEW m \in Nat, m * Unit + 1 <= Len(t)
          PROVE  t[m * Unit + 1].place # 0
      <3> DEFINE p == m * Unit
                 q == (k + m) * Unit
      <3>1. p \in Nat /\ n + p = q /\ k + m \in Nat /\ p + 1 <= Len(t)
        BY <2>1, <2>3, UnitType, SumOfMultiples
      <3> HIDE DEF p, q
      <3>2. t[p + 1] = s[q + 1] /\ q + 1 <= Len(s)
        <4>1. p + 1 \in 1 .. Len(t) /\ n + (p + 1) = q + 1
          BY <1>1, <3>1
        <4> QED
          BY <1>1, <4>1
      <3>3. s[q + 1].place # 0
        BY <3>1, <3>2 DEF Aligned, q
      <3> QED
        BY <3>2, <3>3 DEF p
    <2> QED
      BY <2>2, <2>3 DEF Aligned
  <1> QED
    BY <1>2, <1>3, <1>4 DEF t

----------------------------------------------------------------------------
(* readLoop *)

\* A call of read takes whole units off the line and returns them, or as much
\* of them as there is room for.
Returns(k, n) ==
    /\ n \in 0 .. Len(line) /\ k \in 0 .. n /\ k <= bufSize
    /\ k < n => k = bufSize
    /\ Whole(n)

LEMMA ReadCases ==
    ASSUME TypeOK, LineInv, ReadReport \/ ReadBytes
    PROVE  \E k, n \in Nat : Returns(k, n) /\ Read(k, n)
  <1>1. /\ Len(line) \in Nat /\ bufSize \in Nat /\ bufSize > 0
        /\ line # <<>> => Len(line) > 0
    <2>1. stage = "reading"
      BY DEF ReadReport, ReadBytes, Read
    <2> QED
      BY <2>1, SizesAssumption, LenProperties, EmptySeq DEF TypeOK
  <1>2. Whole(0) /\ Whole(Len(line))
    BY UnitType DEF Whole, LineInv, Aligned
  <1>3. ASSUME Read(0, 0) PROVE \E k, n \in Nat : Returns(k, n) /\ Read(k, n)
    <2>1. Returns(0, 0)
      BY <1>1, <1>2 DEF Returns
    <2> QED
      BY <1>3, <2>1
  <1>4. CASE /\ backend = "usb" /\ line # <<>>
             /\ Read(Smaller(ReportSize, bufSize), ReportSize)
    <2>1. Unit = ReportSize /\ ReportSize \in Nat \ {0}
      BY <1>4, SizesAssumption DEF Unit
    <2>2. ReportSize <= Len(line)
      BY <1>1, <1>2, <1>4, <2>1, WholeBelowUnit
    <2>3. Whole(ReportSize)
      BY <2>1 DEF Whole
    <2>4. Smaller(ReportSize, bufSize) \in Nat
      BY <1>1, <2>1 DEF Smaller
    <2>5. Returns(Smaller(ReportSize, bufSize), ReportSize)
      BY <1>1, <2>1, <2>2, <2>3 DEF Returns, Smaller
    <2> QED
      BY <1>4, <2>1, <2>4, <2>5
  <1>5. CASE backend = "serial" /\ \E k \in 1 .. Smaller(Len(line), bufSize) : Read(k, k)
    <2>1. PICK k \in 1 .. Smaller(Len(line), bufSize) : Read(k, k)
      BY <1>5
    <2>2. k \in Nat /\ k <= Len(line) /\ k <= bufSize
      BY <1>1, <2>1 DEF Smaller
    <2>3. Whole(k)
      BY <1>5, <2>2 DEF Whole, Unit
    <2>4. Returns(k, k)
      BY <1>1, <2>2, <2>3 DEF Returns
    <2> QED
      BY <2>1, <2>2, <2>4
  <1> QED
    BY <1>3, <1>4, <1>5 DEF ReadReport, ReadBytes

\* readLoop looks at p bytes of the line, none before the last of them a '\r'.
Looks(p) == p \in 0 .. Len(line) /\ \A j \in 1 .. p - 1 : ~line[j].last
Gotten(p) == got \o SubSeq(line, 1, p)

\* Such bytes are of one answer and without gaps ...
LEMMA OnePiece ==
    ASSUME TypeOK, LineInv, NEW p \in Nat, Looks(p), NEW j \in 1 .. p
    PROVE  /\ line[j] \in FrameByte /\ line[j].place # 0
           /\ line[j].run = line[1].run
           /\ line[j].place = line[1].place + (j - 1)
  <1>1. Len(line) \in Nat /\ 1 \in 1 .. Len(line) /\ j \in 1 .. Len(line) /\ 1 <= j
    BY LenProperties DEF TypeOK, Looks
  <1>2. line[1] \in FrameByte /\ line[j] \in FrameByte
    BY <1>1, ElementOfSeq DEF TypeOK
  <1>3. line[1].place # 0
    <2>1. 0 * Unit + 1 = 1
      BY UnitType
    <2> QED
      BY <1>1, <2>1 DEF LineInv, Aligned
  <1>4. \A l \in 1 .. j - 1 : ~line[l].last
    BY <1>1 DEF Looks
  <1>5. line[j].run = line[1].run /\ line[j].place = line[1].place + (j - 1)
    BY <1>1, <1>3, <1>4 DEF LineInv, Chained
  <1> QED
    BY <1>1, <1>2, <1>3, <1>5 DEF FrameByte

\* ... and go on where those before them ended.
LEMMA Grows ==
    ASSUME TypeOK, LineInv, GotInv, ReadInv, stage = "reading",
           NEW p \in Nat, Looks(p), NEW g, g = Gotten(p)
    PROVE  /\ g \in Seq(FrameByte) /\ Len(g) = Len(got) + p
           /\ \A i \in 1 .. Len(got) : g[i] = got[i]
           /\ \A i \in 1 .. p : g[Len(got) + i] = line[i]
           /\ \A i \in 1 .. Len(g) : g[i].place # 0
           /\ \A i \in 1 .. Len(g) - 1 : /\ g[i + 1].run = g[i].run
                                        /\ g[i + 1].place = g[i].place + 1
  <1> DEFINE n == Len(got)
             t == SubSeq(line, 1, p)
  <1>1. /\ got \in Seq(FrameByte) /\ line \in Seq(FrameByte)
        /\ Len(got) \in Nat /\ Len(line) \in Nat /\ p \in 0 .. Len(line)
    BY LenProperties DEF TypeOK, Looks
  <1>2. t \in Seq(FrameByte) /\ Len(t) = p /\ \A i \in 1 .. p : t[i] = line[i]
    BY <1>1, Split DEF Splits
  <1>3. g = got \o t
    BY DEF Gotten
  <1> HIDE DEF t
  <1>4. /\ g \in Seq(FrameByte) /\ Len(g) = n + p
        /\ \A i \in 1 .. n + p : g[i] = IF i <= n THEN got[i] ELSE t[i - n]
    BY <1>1, <1>2, <1>3, ConcatProperties
  <1> HIDE DEF n
  <1>5. n \in Nat /\ n = Len(got)
    BY <1>1 DEF n
  <1>6. \A i \in 1 .. n : g[i] = got[i]
    BY <1>4, <1>5
  <1>7. ASSUME NEW i \in 1 .. p PROVE g[n + i] = line[i]
    <2>1. n + i \in 1 .. n + p /\ ~(n + i <= n) /\ (n + i) - n = i
      BY <1>5
    <2> QED
      BY <1>2, <1>4, <2>1
  <1>8. ASSUME NEW i \in 1 .. n + p PROVE g[i].place # 0
    <2>1. CASE i <= n
      BY <1>5, <1>6, <2>1 DEF GotInv
    <2>2. CASE i > n
      <3>1. i - n \in 1 .. p /\ n + (i - n) = i
        BY <1>5, <2>2
      <3>2. g[i] = line[i - n]
        BY <1>7, <3>1
      <3> QED
        BY <3>1, <3>2, OnePiece
    <2> QED
      BY <1>5, <2>1, <2>2
  <1>9. ASSUME NEW i \in 1 .. (n + p) - 1
        PROVE  g[i + 1].run = g[i].run /\ g[i + 1].place = g[i].place + 1
    <2>1. CASE i < n
      <3>1. i \in 1 .. Len(got) - 1 /\ i \in 1 .. n /\ i + 1 \in 1 .. n
        BY <1>5, <2>1
      <3> QED
        BY <1>6, <3>1 DEF GotInv, AnswersApart
    <2>2. CASE i = n
      <3>1. n \in 1 .. n /\ 1 \in 1 .. p /\ got # <<>>
        BY <1>1, <1>5, <2>2, EmptySeq
      <3>2. g[n] = got[n] /\ g[n + 1] = line[1]
        BY <1>6, <1>7, <3>1
      <3> QED
        BY <1>5, <2>2, <3>1, <3>2 DEF ReadInv
    <2>3. CASE i > n
      <3> DEFINE j == i - n
      <3>1. j \in 1 .. p /\ j + 1 \in 1 .. p /\ n + j = i /\ n + (j + 1) = i + 1
        BY <1>5, <2>3
      <3> HIDE DEF j
      <3>2. g[i] = line[j] /\ g[i + 1] = line[j + 1]
        BY <1>7, <3>1
      <3>3. /\ line[j].run = line[1].run /\ line[j + 1].run = line[1].run
            /\ line[j].place = line[1].place + (j - 1)
            /\ line[j + 1].place = line[1].place + ((j + 1) - 1)
        BY <3>1, OnePiece
      <3>4. line[1].place \in Nat
        <4>1. line[1] \in FrameByte
          BY <1>1, <3>1, ElementOfSeq
        <4> QED
          BY <4>1 DEF FrameByte
      <3> QED
        BY <3>1, <3>2, <3>3, <3>4
    <2> QED
      BY <1>5, <2>1, <2>2, <2>3
  <1> QED
    BY <1>4, <1>5, <1>6, <1>7, <1>8, <1>9

\* What a call of read ends in: the first '\r' ends the run, or there is none
\* and the run goes on with whole units taken, or gives up.
Finds(i) ==
    /\ Looks(i) /\ line[i].last /\ got' = Gotten(i)
    /\ bufSize' = bufSize - i + 1
    /\ stage' = "idle" /\ left' = left
    /\ result' = IF IsAnswer(got') THEN "answer" ELSE "InvalidDataError"
FindsNone(k) ==
    /\ \A j \in 1 .. k : ~line[j].last
    /\ got' = Gotten(k) /\ bufSize' = bufSize - k
    /\ \/ /\ stage' = "idle" /\ left' = TRUE
          /\ result' \in {"TimeoutError", "overflow_error"}
       \/ /\ stage' = stage /\ left' = left /\ result' = result
          /\ bufSize' > 0

LEMMA ReadEffect ==
    ASSUME TypeOK, NEW k \in Nat, NEW n \in Nat, Returns(k, n), Read(k, n)
    PROVE  (\E i \in 1 .. k : Finds(i)) \/ FindsNone(k)
  <1> DEFINE chunk == SubSeq(line, 1, k)
             end == FirstLast(chunk)
  <1>1. /\ line \in Seq(FrameByte) /\ Len(line) \in Nat /\ k \in 0 .. Len(line)
        /\ bufSize \in Nat
    BY LenProperties, SizesAssumption DEF TypeOK, Returns
  <1>2. /\ chunk \in Seq(FrameByte) /\ Len(chunk) = k
        /\ \A i \in 1 .. k : chunk[i] = line[i]
    BY <1>1, Split DEF Splits
  <1>3. IF end # {}
        THEN \E i \in end :
                /\ got' = got \o SubSeq(chunk, 1, i)
                /\ bufSize' = bufSize - i + 1
                /\ stage' = "idle"
                /\ result' = IF IsAnswer(got') THEN "answer" ELSE "InvalidDataError"
                /\ left' = left
        ELSE /\ got' = got \o chunk
             /\ bufSize' = bufSize - k
             /\ IF expired' THEN Abandon("TimeoutError")
                ELSE IF OutOfRoom(bufSize') THEN Abandon("overflow_error")
                ELSE stage' = stage /\ result' = result /\ left' = left
    BY DEF Read
  <1>4. CASE end # {}
    <2>1. PICK i \in end :
            /\ got' = got \o SubSeq(chunk, 1, i)
            /\ bufSize' = bufSize - i + 1
            /\ stage' = "idle"
            /\ result' = IF IsAnswer(got') THEN "answer" ELSE "InvalidDataError"
            /\ left' = left
      BY <1>3, <1>4
    <2>2. i \in 1 .. k /\ chunk[i].last /\ \A j \in 1 .. i - 1 : ~chunk[j].last
      BY <1>2, <2>1 DEF FirstLast
    <2> HIDE DEF end, chunk
    <2>3. Looks(i) /\ line[i].last
      <3>1. i \in 0 .. Len(line) /\ \A j \in 1 .. i - 1 : j \in 1 .. k
        BY <1>1, <2>2
      <3> QED
        BY <1>2, <2>2, <3>1 DEF Looks
    <2>4. SubSeq(chunk, 1, i) = SubSeq(line, 1, i)
      <3>1. i \in 0 .. Len(chunk) /\ i \in 0 .. Len(line)
            /\ \A j \in 1 .. i : j \in 1 .. k
        BY <1>1, <1>2, <2>2
      <3>2. /\ SubSeq(chunk, 1, i) \in Seq(FrameByte) /\ Len(SubSeq(chunk, 1, i)) = i
            /\ \A j \in 1 .. i : SubSeq(chunk, 1, i)[j] = chunk[j]
        BY <1>2, <3>1, Split DEF Splits
      <3>3. /\ SubSeq(line, 1, i) \in Seq(FrameByte) /\ Len(SubSeq(line, 1, i)) = i
            /\ \A j \in 1 .. i : SubSeq(line, 1, i)[j] = line[j]
        BY <1>1, <3>1, Split DEF Splits
      <3> QED
        BY <1>2, <3>1, <3>2, <3>3, SeqEqual
    <2> QED
      BY <2>1, <2>2, <2>3, <2>4 DEF Finds, Gotten
  <1>5. CASE end = {}
    <2>1. ASSUME NEW i \in 1 .. k, line[i].last PROVE FALSE
      <3> DEFINE T == {j \in 1 .. k : chunk[j].last}
      <3>1. T \in SUBSET Nat /\ i \in T
        BY <1>1, <1>2, <2>1
      <3>2. PICK j \in T : \A l \in T : j <= l
        BY <3>1, Least
      <3>3. j \in 1 .. k /\ chunk[j].last
        BY <3>2
      <3>4. ASSUME NEW l \in 1 .. j - 1 PROVE ~chunk[l].last
        <4>1. l \in 1 .. k /\ ~(j <= l)
          BY <1>1, <3>3, <3>4
        <4> QED
          BY <3>2, <4>1
      <3>5. j \in end
        BY <1>2, <3>3, <3>4 DEF FirstLast
      <3> QED
        BY <1>5, <3>5
    <2>2. /\ got' = got \o chunk /\ bufSize' = bufSize - k
          /\ IF expired' THEN Abandon("TimeoutError")
             ELSE IF OutOfRoom(bufSize') THEN Abandon("overflow_error")
             ELSE stage' = stage /\ result' = result /\ left' = left
      BY <1>3, <1>5
    <2> HIDE DEF end
    <2>3. bufSize' \in Int
      BY <1>1, <2>2
    <2>4. \/ /\ stage' = "idle" /\ left' = TRUE
             /\ result' \in {"TimeoutError", "overflow_error"}
          \/ /\ stage' = stage /\ left' = left /\ result' = result
             /\ bufSize' > 0
      <3>1. CASE expired'
        BY <2>2, <3>1 DEF Abandon
      <3>2. CASE ~expired' /\ bufSize' <= 0
        BY <2>2, <3>2 DEF Abandon, OutOfRoom
      <3>3. CASE ~expired' /\ ~(bufSize' <= 0)
        BY <2>2, <2>3, <3>3 DEF OutOfRoom
      <3> QED
        BY <3>1, <3>2, <3>3
    <2> QED
      BY <2>1, <2>2, <2>4 DEF FindsNone, Gotten
  <1> QED
    BY <1>4, <1>5

LEMMA Regroup ==
    ASSUME NEW s \in Seq(FrameByte), NEW t \in Seq(FrameByte), NEW u \in Seq(FrameByte)
    PROVE  (s \o t) \o u = s \o (t \o u)
  BY ConcatAssociative, SMTT(30)

\* A sequence made of two.
Joins(s, t, g) ==
    /\ g \in Seq(FrameByte) /\ Len(g) = Len(s) + Len(t)
    /\ \A i \in 1 .. Len(s) : g[i] = s[i]
    /\ \A i \in 1 .. Len(t) : g[Len(s) + i] = t[i]

LEMMA Join ==
    ASSUME NEW s \in Seq(FrameByte), NEW t \in Seq(FrameByte)
    PROVE  Joins(s, t, s \o t)
  <1>1. /\ s \o t \in Seq(FrameByte) /\ Len(s \o t) = Len(s) + Len(t)
        /\ \A i \in 1 .. Len(s) + Len(t) :
              (s \o t)[i] = IF i <= Len(s) THEN s[i] ELSE t[i - Len(s)]
    BY ConcatProperties
  <1>2. Len(s) \in Nat /\ Len(t) \in Nat
    BY LenProperties
  <1> DEFINE g == s \o t
             n == Len(s)
  <1>3. /\ n \in Nat
        /\ \A i \in 1 .. n + Len(t) : g[i] = IF i <= n THEN s[i] ELSE t[i - n]
    BY <1>1, <1>2
  <1> HIDE DEF g, n
  <1>4. \A i \in 1 .. n : g[i] = s[i]
    BY <1>2, <1>3
  <1>5. ASSUME NEW i \in 1 .. Len(t) PROVE g[n + i] = t[i]
    <2>1. n + i \in 1 .. n + Len(t) /\ ~(n + i <= n) /\ (n + i) - n = i
      BY <1>2, <1>3
    <2> QED
      BY <1>3, <2>1
  <1> QED
    BY <1>1, <1>4, <1>5 DEF Joins, g, n

\* An answer with what fills its last report up, byte by byte.
SentBytes(r, n, s) ==
    /\ s \in Seq(FrameByte) /\ Len(s) = n + Filled(n)
    /\ \A i \in 1 .. n : s[i] = Byte(r, i, n)
    /\ \A i \in 1 .. n : s[i].run = r /\ s[i].place = i /\ (s[i].last <=> i = n)
    /\ \A i \in n + 1 .. n + Filled(n) : s[i].place = 0 /\ ~s[i].last

LEMMA AnswerBytes ==
    ASSUME NEW r \in Nat, NEW n \in Nat, backend \in {"usb", "serial"}
    PROVE  SentBytes(r, n, Sent(r, n))
  <1> DEFINE a == Answer(r, n)
             f == Filled(n)
             p == Padding(r, f)
             s == Sent(r, n)
  <1>1. f \in Nat
    BY FilledType
  <1>2. /\ a \in Seq(FrameByte) /\ Len(a) = n
        /\ \A i \in 1 .. n : a[i] = Byte(r, i, n)
    BY AnswerFacts
  <1> HIDE DEF f
  <1>3. /\ p \in Seq(FrameByte) /\ Len(p) = f
        /\ \A i \in 1 .. f : p[i] = Byte(r, 0, 1)
    BY <1>1, PaddingFacts
  <1>4. s = a \o p
    BY DEF Sent, f
  <1> HIDE DEF a, p, s
  <1>5. Joins(a, p, s)
    BY <1>2, <1>3, <1>4, Join
  <1>6. /\ s \in Seq(FrameByte) /\ Len(s) = n + f
        /\ \A i \in 1 .. n : s[i] = Byte(r, i, n)
        /\ \A i \in 1 .. f : s[n + i] = Byte(r, 0, 1)
    BY <1>2, <1>3, <1>5 DEF Joins
  <1>7. ASSUME NEW i \in 1 .. n
        PROVE  s[i].run = r /\ s[i].place = i /\ (s[i].last <=> i = n)
    <2>1. s[i] = Byte(r, i, n) /\ i \in Nat
      BY <1>6
    <2> QED
      BY <2>1, ByteType
  <1>8. ASSUME NEW i \in n + 1 .. n + f PROVE s[i].place = 0 /\ ~s[i].last
    <2>1. i - n \in 1 .. f /\ n + (i - n) = i
      BY <1>1
    <2>2. s[i] = Byte(r, 0, 1)
      BY <1>6, <2>1
    <2> QED
      BY <2>2, ByteType
  <1> QED
    BY <1>6, <1>7, <1>8 DEF SentBytes, s, f

\* If the link carries one answer, its '\r' is where it ends, and the read that
\* found it took the rest.
LEMMA WholeAnswer ==
    ASSUME TypeOK, LineInv,
           NEW m \in AnswerSizes, got \o line = Sent(run, m),
           NEW k \in Nat, NEW n \in Nat, Returns(k, n),
           NEW i \in 1 .. k, line[i].last
    PROVE  Gotten(i) = Answer(run, m) /\ Rest(line, n) = <<>>
  <1> DEFINE all == Sent(run, m)
             g == Len(got)
             f == Filled(m)
             piece == SubSeq(line, 1, i)
  <1>1. /\ got \in Seq(FrameByte) /\ line \in Seq(FrameByte) /\ run \in Nat
        /\ g \in Nat /\ Len(line) \in Nat
        /\ m \in Nat /\ backend \in {"usb", "serial"}
        /\ n <= Len(line) /\ k <= n /\ Whole(n) /\ i \in 1 .. Len(line)
        /\ Whole(Len(line))
    BY SizesAssumption, BackendsAssumption, LenProperties
    DEF TypeOK, Returns, LineInv, Aligned
  <1>2. f \in Nat /\ f < Unit
    BY <1>1, FilledType
  <1>3. SentBytes(run, m, all)
    BY <1>1, AnswerBytes
  <1>4. Joins(got, line, all)
    BY <1>1, Join
  <1>5. /\ piece \in Seq(FrameByte) /\ Len(piece) = i
        /\ \A j \in 1 .. i : piece[j] = line[j]
    <2>1. i \in 0 .. Len(line)
      BY <1>1
    <2> QED
      BY <1>1, <2>1, Split DEF Splits
  <1>6. Joins(got, piece, Gotten(i))
    BY <1>1, <1>5, Join DEF Gotten
  <1> HIDE DEF all, piece
  <1>7. /\ Len(all) = m + f /\ Len(all) = g + Len(line)
        /\ \A j \in 1 .. m : all[j] = Byte(run, j, m)
        /\ \A j \in 1 .. m : all[j].last => j = m
        /\ \A j \in m + 1 .. m + f : ~all[j].last
        /\ \A j \in 1 .. g : all[j] = got[j]
        /\ \A j \in 1 .. Len(line) : all[g + j] = line[j]
    BY <1>3, <1>4 DEF SentBytes, Joins
  <1>8. /\ Gotten(i) \in Seq(FrameByte) /\ Len(Gotten(i)) = g + i
        /\ \A j \in 1 .. g : Gotten(i)[j] = got[j]
        /\ \A j \in 1 .. i : Gotten(i)[g + j] = line[j]
    BY <1>5, <1>6 DEF Joins
  <1> HIDE DEF g, f
  <1>9. g + i = m
    <2>1. /\ g + i \in 1 .. m + f
          /\ g + i \in 1 .. m \/ g + i \in m + 1 .. m + f
      BY <1>1, <1>2, <1>7
    <2>2. all[g + i].last
      BY <1>1, <1>7
    <2> QED
      BY <1>7, <2>1, <2>2
  <1>10. Gotten(i) = Answer(run, m)
    <2>1. /\ Answer(run, m) \in Seq(FrameByte) /\ Len(Answer(run, m)) = m
          /\ \A j \in 1 .. m : Answer(run, m)[j] = Byte(run, j, m)
      BY <1>1, AnswerFacts
    <2>2. ASSUME NEW j \in 1 .. m PROVE Gotten(i)[j] = all[j]
      <3>1. CASE j <= g
        <4>1. j \in 1 .. g
          BY <1>1, <3>1
        <4> QED
          BY <1>7, <1>8, <4>1
      <3>2. CASE j > g
        <4>1. j - g \in 1 .. i /\ j - g \in 1 .. Len(line) /\ g + (j - g) = j
          BY <1>1, <1>9, <3>2
        <4> QED
          BY <1>7, <1>8, <4>1
      <3> QED
        BY <1>1, <3>1, <3>2
    <2> QED
      BY <1>7, <1>8, <1>9, <2>1, <2>2, SeqEqual
  <1>11. Len(line) = n
    <2> DEFINE d == Len(line) - n
    <2>1. d \in Nat /\ d < Unit
      BY <1>1, <1>2, <1>7, <1>9, UnitType
    <2>2. Whole(d)
      BY <1>1, WholeDifference
    <2> HIDE DEF d
    <2>3. d = 0
      BY <2>1, <2>2, WholeBelowUnit
    <2> QED
      BY <1>1, <2>3 DEF d
  <1>12. Rest(line, n) = <<>>
    <2>1. n + 1 \in Int /\ Len(line) \in Int /\ Len(line) < n + 1
      BY <1>1, <1>11
    <2> QED
      BY <2>1, SubSeqEmpty DEF Rest
  <1> QED
    BY <1>10, <1>12

\* recv takes a whole answer for one.
LEMMA AnswerIsOne ==
    ASSUME NEW r \in Nat, NEW n \in Nat
    PROVE  IsAnswer(Answer(r, n))
  <1>1. /\ Len(Answer(r, n)) = n
        /\ \A i \in 1 .. n : Answer(r, n)[i] = Byte(r, i, n)
    BY AnswerFacts
  <1>2. ASSUME NEW i \in 1 .. n
        PROVE  Answer(r, n)[i].place = i /\ Answer(r, n)[i].run = r
    <2>1. Answer(r, n)[i] = Byte(r, i, n) /\ i \in Nat
      BY <1>1
    <2> QED
      BY <2>1, ByteType
  <1>3. ASSUME NEW i \in 1 .. n PROVE 1 \in 1 .. n
    OBVIOUS
  <1> QED
    BY <1>1, <1>2, <1>3 DEF IsAnswer

\* readLoop keeps to one answer, wherever read stops.
LEMMA ReadStep == IInv /\ (ReadReport \/ ReadBytes) => IInv'
  <1> SUFFICES ASSUME IInv, ReadReport \/ ReadBytes PROVE IInv'
    OBVIOUS
  <1>1. TypeOK /\ LineInv /\ GotInv /\ ReadInv /\ FrameInOrder /\ CleanInv
    BY DEF IInv
  <1>2. PICK k \in Nat, n \in Nat : Returns(k, n) /\ Read(k, n)
    BY <1>1, ReadCases
  <1>3. /\ stage = "reading" /\ line' = Rest(line, n)
        /\ expired' \in {expired, Timed}
        /\ backend' = backend /\ run' = run /\ data' = data
        /\ bytesLeft' = bytesLeft /\ wire' = wire /\ written' = written
    BY <1>2 DEF Read, TimePasses, Rest
  <1>4. /\ line \in Seq(FrameByte) /\ got \in Seq(FrameByte) /\ run \in Nat
        /\ Len(line) \in Nat /\ Len(got) \in Nat
        /\ k \in Nat /\ n \in Nat /\ k <= n /\ n <= Len(line)
        /\ k <= bufSize /\ (k < n => k = bufSize) /\ Whole(n)
        /\ bufSize \in 0 .. BufSize /\ bufSize \in Nat /\ bufSize > 0
        /\ BufSize \in Nat
    BY <1>1, <1>2, <1>3, LenProperties, SizesAssumption DEF TypeOK, Returns
  <1>5. (\E i \in 1 .. k : Finds(i)) \/ FindsNone(k)
    BY <1>1, <1>2, ReadEffect
  <1>6. /\ line' \in Seq(FrameByte) /\ Len(line') = Len(line) - n
        /\ \A i \in 1 .. Len(line) - n : line'[i] = line[n + i]
    <2>1. n \in 0 .. Len(line)
      BY <1>4
    <2>2. Splits(line, n)
      BY <1>4, <2>1, Split
    <2> QED
      BY <1>3, <2>2 DEF Splits
  <1>7. LineInv'
    <2>1. n \in 0 .. Len(line)
      BY <1>4
    <2>2. Chained(line') /\ Complete(line') /\ Aligned(line')
      BY <1>1, <1>3, <1>4, <2>1, RestOfLine DEF LineInv
    <2> QED
      BY <1>3, <2>2 DEF LineInv, Chained, Complete, Aligned, Whole, Unit
  <1>8. /\ \E p \in 0 .. k : Looks(p) /\ got' = Gotten(p)
        /\ FindsNone(k) => Looks(k)
    <2>1. FindsNone(k) => Looks(k)
      BY <1>4 DEF FindsNone, Looks
    <2>2. CASE FindsNone(k)
      BY <1>4, <2>1, <2>2 DEF FindsNone
    <2>3. CASE \E i \in 1 .. k : Finds(i)
      BY <1>4, <2>1, <2>3 DEF Finds
    <2> QED
      BY <1>5, <2>1, <2>2, <2>3
  <1>9. got' \in Seq(FrameByte) /\ GotInv'
    <2>1. PICK p \in 0 .. k : Looks(p) /\ got' = Gotten(p)
      BY <1>8
    <2>2. p \in Nat
      BY <1>4
    <2>3. /\ got' \in Seq(FrameByte)
          /\ \A i \in 1 .. Len(got') : got'[i].place # 0
          /\ \A i \in 1 .. Len(got') - 1 : /\ got'[i + 1].run = got'[i].run
                                           /\ got'[i + 1].place = got'[i].place + 1
      BY <1>1, <1>3, <2>1, <2>2, Grows
    <2> QED
      BY <2>3 DEF GotInv, AnswersApart
  <1>10. TypeOK'
    <2>1. /\ bufSize' \in 0 .. BufSize /\ (stage' = "reading" => bufSize' > 0)
          /\ stage' \in {"idle", "reading"}
          /\ result' \in {"none", "answer", "InvalidDataError", "TimeoutError",
                            "DeviceError", "overflow_error"}
      <3>1. CASE \E i \in 1 .. k : Finds(i)
        <4>1. PICK i \in 1 .. k : Finds(i)
          BY <3>1
        <4> QED
          BY <1>4, <4>1 DEF Finds
      <3>2. CASE FindsNone(k)
        BY <1>1, <1>3, <1>4, <3>2 DEF FindsNone, TypeOK
      <3> QED
        BY <1>5, <3>1, <3>2
    <2>2. expired' \in BOOLEAN
      BY <1>1, <1>3, BackendsAssumption DEF TypeOK
    <2>3. left' \in BOOLEAN
      <3>1. left' = left \/ left' = TRUE
        BY <1>5 DEF Finds, FindsNone
      <3> QED
        BY <1>1, <3>1 DEF TypeOK
    <2> QED
      BY <1>1, <1>3, <1>6, <1>9, <2>1, <2>2, <2>3 DEF TypeOK
  <1>11. WriteInv' /\ FrameInOrder'
    <2>1. stage' # "writing"
      BY <1>3, <1>5 DEF Finds, FindsNone
    <2> QED
      BY <1>1, <1>3, <2>1 DEF WriteInv, FrameInOrder, Frame, Padding, Filled
  <1>12. ReadInv'
    <2> SUFFICES ASSUME stage' = "reading"
                 PROVE  /\ \A i \in 1 .. Len(got') : ~got'[i].last
                        /\ Whole(Len(got))'
                        /\ got' # <<>> => /\ line' # <<>>
                                          /\ line'[1].run = got'[Len(got')].run
                                          /\ line'[1].place = got'[Len(got')].place + 1
      BY DEF ReadInv
    <2>1. /\ FindsNone(k) /\ bufSize' > 0 /\ bufSize' = bufSize - k
          /\ got' = Gotten(k) /\ \A j \in 1 .. k : ~line[j].last
      BY <1>5 DEF Finds, FindsNone
    <2>2. k = n
      BY <1>4, <2>1
    <2>3. Looks(k)
      BY <1>8, <2>1
    <2>4. /\ Len(got') = Len(got) + k
          /\ \A i \in 1 .. Len(got) : got'[i] = got[i]
          /\ \A i \in 1 .. k : got'[Len(got) + i] = line[i]
      BY <1>1, <1>3, <2>1, <2>3, Grows
    <2>5. ASSUME NEW i \in 1 .. Len(got') PROVE ~got'[i].last
      <3>1. CASE i <= Len(got)
        BY <1>1, <1>3, <1>4, <2>4, <3>1 DEF ReadInv
      <3>2. CASE i > Len(got)
        <4> DEFINE j == i - Len(got)
        <4>1. j \in 1 .. k /\ Len(got) + j = i
          BY <1>4, <2>4, <3>2
        <4> HIDE DEF j
        <4> QED
          BY <2>1, <2>4, <4>1
      <3> QED
        BY <1>4, <2>4, <3>1, <3>2
    <2>6. Whole(Len(got))'
      <3>1. Whole(Len(got) + n)
        BY <1>1, <1>3, <1>4, WholeSum DEF ReadInv
      <3> QED
        BY <1>3, <2>2, <2>4, <3>1 DEF Whole, Unit
    <2>7. CASE n = 0
      <3>1. got' = got
        <4>1. SubSeq(line, 1, 0) = <<>>
          BY SubSeqEmpty
        <4> QED
          BY <1>4, <2>1, <2>2, <2>7, <4>1, ConcatEmptySeq DEF Gotten
      <3>2. line' = line
        BY <1>3, <1>4, <2>7, SubSeqFull DEF Rest
      <3> QED
        BY <1>1, <1>3, <2>5, <2>6, <3>1, <3>2 DEF ReadInv
    <2>8. CASE n > 0
      <3>1. /\ n \in 1 .. k /\ n \in 1 .. Len(line)
            /\ line[n] \in FrameByte /\ line[n].place # 0 /\ ~line[n].last
        <4>1. n \in 1 .. k
          BY <1>4, <2>2, <2>8
        <4> QED
          BY <1>1, <1>4, <2>1, <2>3, <4>1, OnePiece
      <3>2. n < Len(line)
        <4>1. line # <<>>
          BY <1>4, <3>1, EmptySeq
        <4>2. n # Len(line)
          BY <1>1, <3>1, <4>1 DEF LineInv, Complete
        <4> QED
          BY <1>4, <4>2
      <3>3. /\ line[n + 1].run = line[n].run
            /\ line[n + 1].place = line[n].place + 1
        <4>1. /\ n + 1 \in 1 .. Len(line) /\ n <= n + 1 /\ (n + 1) - n = 1
              /\ \A l \in n .. (n + 1) - 1 : l = n
          BY <1>4, <3>1, <3>2
        <4> QED
          BY <1>1, <3>1, <4>1 DEF LineInv, Chained
      <3>4. line' # <<>> /\ line'[1] = line[n + 1]
        <4>1. Len(line') > 0 /\ 1 \in 1 .. Len(line) - n
          BY <1>4, <1>6, <3>2
        <4> QED
          BY <1>6, <4>1, EmptySeq
      <3>5. got'[Len(got')] = line[n]
        BY <2>2, <2>4, <3>1
      <3> QED
        BY <2>5, <2>6, <3>3, <3>4, <3>5
    <2> QED
      BY <1>4, <2>7, <2>8
  <1>13. CleanInv'
    <2> SUFFICES ASSUME ~left' PROVE CleanInv'
      BY DEF CleanInv
    <2>1. ~left /\ \/ \E i \in 1 .. k : Finds(i)
                   \/ FindsNone(k) /\ stage' = stage /\ result' = result
                                   /\ bufSize' = bufSize - k /\ bufSize' > 0
                                   /\ got' = Gotten(k)
      BY <1>5 DEF Finds, FindsNone
    <2>2. /\ result \in {"none", "answer"}
          /\ \/ wire \in {written, <<>>} /\ line = <<>> /\ got = <<>>
             \/ wire = <<>> /\ \E m \in AnswerSizes : got \o line = Sent(run, m)
      BY <1>1, <1>3, <2>1 DEF CleanInv
    <2>3. CASE \E i \in 1 .. k : Finds(i)
      <3>1. PICK i \in 1 .. k : Finds(i)
        BY <2>3
      <3>2. line # <<>>
        BY <1>4, <3>1, EmptySeq
      <3>3. wire = <<>> /\ \E m \in AnswerSizes : got \o line = Sent(run, m)
        BY <2>2, <3>2
      <3>4. PICK m \in AnswerSizes : got \o line = Sent(run, m)
        BY <3>3
      <3>5. line[i].last /\ got' = Gotten(i) /\ stage' = "idle"
            /\ result' = IF IsAnswer(got') THEN "answer" ELSE "InvalidDataError"
        BY <3>1 DEF Finds
      <3>6. Gotten(i) = Answer(run, m) /\ Rest(line, n) = <<>>
        BY <1>1, <1>2, <3>4, <3>5, WholeAnswer
      <3>7. m \in Nat
        BY SizesAssumption
      <3>8. result' = "answer"
        BY <1>4, <3>5, <3>6, <3>7, AnswerIsOne
      <3> QED
        BY <1>3, <3>3, <3>5, <3>6, <3>8 DEF CleanInv, Answer
    <2>4. CASE FindsNone(k) /\ stage' = stage /\ result' = result
               /\ bufSize' = bufSize - k /\ bufSize' > 0 /\ got' = Gotten(k)
      <3>1. k = n /\ stage' = "reading" /\ got' = got \o SubSeq(line, 1, n)
        <4>1. ~(k < n)
          BY <1>4, <2>4
        <4>2. k = n
          BY <1>4, <4>1
        <4> QED
          BY <1>3, <2>4, <4>2 DEF Gotten
      <3>2. CASE wire \in {written, <<>>} /\ line = <<>> /\ got = <<>>
        <4>1. n = 0 /\ SubSeq(<<>>, 1, 0) = <<>>
          BY <1>4, <3>2, EmptySeq, SubSeqEmpty
        <4>2. got' = <<>>
          BY <3>1, <3>2, <4>1, EmptySeq, ConcatEmptySeq
        <4>3. line' = <<>>
          BY <1>3, <1>4, <3>2, <4>1, SubSeqFull DEF Rest
        <4> QED
          BY <1>3, <2>2, <2>4, <3>1, <3>2, <4>2, <4>3 DEF CleanInv
      <3>3. CASE wire = <<>> /\ \E m \in AnswerSizes : got \o line = Sent(run, m)
        <4> DEFINE t == SubSeq(line, 1, n)
                   u == Rest(line, n)
        <4>1. t \in Seq(FrameByte) /\ u \in Seq(FrameByte) /\ t \o u = line
          <5>1. n \in 0 .. Len(line)
            BY <1>4
          <5>2. Splits(line, n)
            BY <1>4, <5>1, Split
          <5> QED
            BY <5>2 DEF Splits
        <4>2. got' = got \o t /\ line' = u
          BY <1>3, <3>1
        <4> HIDE DEF t, u
        <4>3. got' \o line' = got \o line
          <5>1. got \in Seq(FrameByte)
            BY <1>4
          <5>2. (got \o t) \o u = got \o (t \o u)
            BY <4>1, <5>1, Regroup
          <5> QED
            BY <4>1, <4>2, <5>2
        <4>4. \E m \in AnswerSizes : got' \o line' = Sent(run, m)'
          BY <1>3, <3>3, <4>3 DEF Sent, Answer, Padding, Filled
        <4> QED
          BY <1>3, <2>2, <2>4, <3>1, <3>3, <4>4 DEF CleanInv
      <3> QED
        BY <2>2, <3>2, <3>3
    <2> QED
      BY <2>1, <2>3, <2>4
  <1> QED
    BY <1>7, <1>9, <1>10, <1>11, <1>12, <1>13 DEF IInv

----------------------------------------------------------------------------
(* The inverter *)

GoodLine(s) == Chained(s) /\ Complete(s) /\ Aligned(s)

\* Behind a good line another one may follow ...
LEMMA LinesJoin ==
    ASSUME NEW s \in Seq(FrameByte), NEW t \in Seq(FrameByte), GoodLine(s), GoodLine(t)
    PROVE  GoodLine(s \o t)
  <1> DEFINE n == Len(s)
             g == s \o t
  <1>1. Joins(s, t, g)
    BY Join
  <1> HIDE DEF g
  <1>2. /\ n \in Nat /\ Len(t) \in Nat
        /\ g \in Seq(FrameByte) /\ Len(g) = n + Len(t)
        /\ \A i \in 1 .. n : g[i] = s[i]
        /\ \A i \in 1 .. Len(t) : g[n + i] = t[i]
        /\ Whole(n) /\ Whole(Len(t))
    BY <1>1, LenProperties DEF Joins, GoodLine, Aligned
  <1>3. \A i \in 1 .. n : s[i] \in FrameByte
    BY ElementOfSeq
  <1>4. Chained(s) /\ Chained(t) /\ Complete(s) /\ Complete(t) /\ Aligned(s) /\ Aligned(t)
    BY DEF GoodLine
  <1>5. n # 0 => s # <<>>
    BY EmptySeq
  <1>6. Chained(s) => \A i \in 1 .. n : \A j \in 1 .. n :
          /\ i <= j /\ s[i].place # 0
          /\ \A l \in i .. j - 1 : ~s[l].last
          => s[j].run = s[i].run /\ s[j].place = s[i].place + (j - i)
    BY DEF Chained
  <1>7. n # 0 => s[n].last \/ s[n].place = 0
    BY <1>4, <1>5 DEF Complete
  <1>8. \A m \in Nat : m * Unit + 1 <= n => s[m * Unit + 1].place # 0
    BY <1>4 DEF Aligned
  <1> HIDE DEF n
  <1>9. Chained(g)
    <2> SUFFICES ASSUME NEW i \in 1 .. Len(g), NEW j \in 1 .. Len(g),
                        i <= j, g[i].place # 0, \A l \in i .. j - 1 : ~g[l].last
                 PROVE  g[j].run = g[i].run /\ g[j].place = g[i].place + (j - i)
      BY DEF Chained
    <2>1. CASE j <= n
      <3>1. i \in 1 .. n /\ j \in 1 .. n /\ g[i] = s[i] /\ g[j] = s[j]
        BY <1>2, <2>1
      <3>2. ASSUME NEW l \in i .. j - 1 PROVE ~s[l].last
        <4>1. l \in 1 .. n
          BY <1>2, <2>1, <3>1
        <4> QED
          BY <1>2, <4>1
      <3> QED
        BY <1>4, <1>6, <3>1, <3>2
    <2>2. CASE i > n
      <3> DEFINE a == i - n
                 b == j - n
      <3>1. /\ a \in 1 .. Len(t) /\ b \in 1 .. Len(t) /\ a <= b
            /\ n + a = i /\ n + b = j /\ b - a = j - i
        BY <1>2, <2>2
      <3> HIDE DEF a, b
      <3>2. g[i] = t[a] /\ g[j] = t[b]
        BY <1>2, <3>1
      <3>3. ASSUME NEW l \in a .. b - 1 PROVE ~t[l].last
        <4>1. l \in 1 .. Len(t) /\ n + l \in i .. j - 1
          BY <1>2, <3>1
        <4> QED
          BY <1>2, <4>1
      <3>4. t[b].run = t[a].run /\ t[b].place = t[a].place + (b - a)
        BY <1>4, <3>1, <3>2, <3>3 DEF Chained
      <3> QED
        BY <3>1, <3>2, <3>4
    <2>3. CASE i <= n /\ j > n
      <3>1. /\ i \in 1 .. n /\ n \in 1 .. n /\ n # 0 /\ n \in i .. j - 1 /\ i <= n
            /\ g[i] = s[i] /\ g[n] = s[n]
        BY <1>2, <2>3
      <3>2. ASSUME NEW l \in i .. n - 1 PROVE ~s[l].last
        <4>1. l \in 1 .. n /\ l \in i .. j - 1
          BY <1>2, <2>3, <3>1
        <4> QED
          BY <1>2, <4>1
      <3>3. s[n].place = s[i].place + (n - i)
        BY <1>4, <1>6, <3>1, <3>2
      <3>4. s[i].place \in Nat /\ s[i].place # 0
        BY <1>3, <3>1 DEF FrameByte
      <3>5. s[n].place # 0
        BY <1>2, <3>1, <3>3, <3>4
      <3>6. ~s[n].last
        BY <3>1
      <3> QED
        BY <1>7, <3>1, <3>5, <3>6
    <2> QED
      BY <1>2, <2>1, <2>2, <2>3
  <1>10. Complete(g)
    <2>1. CASE t = <<>>
      BY <1>4, <2>1, ConcatEmptySeq DEF g
    <2>2. CASE t # <<>>
      <3>1. Len(t) \in 1 .. Len(t)
        BY <1>2, <2>2, EmptySeq
      <3>2. g[Len(g)] = t[Len(t)]
        BY <1>2, <3>1
      <3> QED
        BY <1>4, <2>2, <3>2 DEF Complete
    <2> QED
      BY <2>1, <2>2
  <1>11. Aligned(g)
    <2>1. Whole(Len(g))
      BY <1>2, WholeSum
    <2>2. ASSUME NEW m \in Nat, m * Unit + 1 <= Len(g)
          PROVE  g[m * Unit + 1].place # 0
      <3>1. m * Unit \in Nat
        BY UnitType
      <3>2. CASE m * Unit + 1 <= n
        <4>1. m * Unit + 1 \in 1 .. n
          BY <1>2, <3>1, <3>2
        <4> QED
          BY <1>2, <1>8, <3>2, <4>1
      <3>3. CASE m * Unit + 1 > n
        <4>1. PICK k \in Nat : n = k * Unit
          BY <1>2 DEF Whole
        <4>2. k <= m
          <5>1. CASE m < k
            <6>1. m * Unit + Unit <= k * Unit
              BY <5>1, UnitType, MultiplesApart
            <6> QED
              BY <1>2, <3>1, <3>3, <4>1, <6>1, UnitType
          <5> QED
            BY <5>1
        <4> DEFINE q == m - k
                   p == q * Unit
        <4>3. q \in Nat /\ k + q = m
          BY <4>2
        <4>4. p \in Nat /\ n + p = m * Unit
          BY <4>1, <4>3, UnitType, SumOfMultiples
        <4>5. p + 1 <= Len(t) => t[p + 1].place # 0
          BY <1>4, <4>3 DEF Aligned
        <4> HIDE DEF p, q
        <4>6. p + 1 \in 1 .. Len(t) /\ n + (p + 1) = m * Unit + 1
          BY <1>2, <2>2, <3>1, <4>4
        <4>7. g[m * Unit + 1] = t[p + 1]
          BY <1>2, <4>6
        <4> QED
          BY <4>5, <4>6, <4>7
      <3> QED
        BY <1>2, <3>1, <3>2, <3>3
    <2> QED
      BY <2>1, <2>2 DEF Aligned
  <1> QED
    BY <1>9, <1>10, <1>11 DEF GoodLine, g

\* ... and what the inverter sends is one.
LEMMA SentLine ==
    ASSUME NEW r \in Nat, NEW n \in Nat \ {0}, backend \in {"usb", "serial"}
    PROVE  GoodLine(Sent(r, n))
  <1> DEFINE s == Sent(r, n)
             f == Filled(n)
  <1>1. f \in Nat /\ f < Unit /\ Whole(n + f)
    BY FilledType
  <1>2. SentBytes(r, n, s)
    BY AnswerBytes
  <1> HIDE DEF s
  <1>3. /\ s \in Seq(FrameByte) /\ Len(s) = n + f
        /\ \A i \in 1 .. n : s[i].run = r /\ s[i].place = i /\ (s[i].last <=> i = n)
        /\ \A i \in n + 1 .. n + f : s[i].place = 0 /\ ~s[i].last
    BY <1>2 DEF SentBytes
  <1> HIDE DEF f
  <1>4. Chained(s)
    <2> SUFFICES ASSUME NEW i \in 1 .. Len(s), NEW j \in 1 .. Len(s),
                        i <= j, s[i].place # 0, \A l \in i .. j - 1 : ~s[l].last
                 PROVE  s[j].run = s[i].run /\ s[j].place = s[i].place + (j - i)
      BY DEF Chained
    <2>1. i <= n
      <3>1. i \in 1 .. n \/ i \in n + 1 .. n + f
        BY <1>1, <1>3
      <3> QED
        BY <1>3, <3>1
    <2>2. j <= n
      <3>1. CASE j > n
        <4>1. n \in i .. j - 1 /\ n \in 1 .. n
          BY <2>1, <3>1
        <4>2. s[n].last
          BY <1>3, <4>1
        <4> QED
          BY <4>1, <4>2
      <3> QED
        BY <1>1, <1>3, <3>1
    <2>3. i \in 1 .. n /\ j \in 1 .. n /\ j = i + (j - i)
      BY <2>1, <2>2
    <2> QED
      BY <1>3, <2>3
  <1>5. Complete(s)
    <2>1. CASE f = 0
      <3>1. Len(s) = n /\ n \in 1 .. n
        BY <1>3, <2>1
      <3> QED
        BY <1>3, <3>1 DEF Complete
    <2>2. CASE f > 0
      <3>1. Len(s) \in n + 1 .. n + f
        BY <1>1, <1>3, <2>2
      <3> QED
        BY <1>3, <3>1 DEF Complete
    <2> QED
      BY <1>1, <2>1, <2>2
  <1>6. Aligned(s)
    <2>1. ASSUME NEW m \in Nat, m * Unit + 1 <= Len(s)
          PROVE  s[m * Unit + 1].place # 0
      <3>1. PICK q \in Nat : n + f = q * Unit
        BY <1>1 DEF Whole
      <3>2. m * Unit \in Nat /\ q * Unit \in Nat
        BY UnitType
      <3>3. m < q
        <4>1. CASE m = q
          BY <1>3, <2>1, <3>1, <3>2, <4>1
        <4>2. CASE q < m
          <5>1. q * Unit + Unit <= m * Unit
            BY <4>2, UnitType, MultiplesApart
          <5> QED
            BY <1>3, <2>1, <3>1, <3>2, <5>1, UnitType
        <4> QED
          BY <4>1, <4>2
      <3>4. m * Unit + Unit <= q * Unit
        BY <3>3, UnitType, MultiplesApart
      <3>5. m * Unit + 1 \in 1 .. n
        BY <1>1, <3>1, <3>2, <3>4, UnitType
      <3> QED
        BY <1>3, <3>2, <3>5
    <2> QED
      BY <1>1, <1>3, <2>1 DEF Aligned
  <1> QED
    BY <1>4, <1>5, <1>6 DEF GoodLine, s

\* A taken frame is off the wire with its padding.  What is answered follows all
\* that is still on the line.
LEMMA TakesStep == IInv /\ InverterTakes => IInv'
  <1> SUFFICES ASSUME IInv, InverterTakes PROVE IInv'
    OBVIOUS
  <1>1. TypeOK /\ WriteInv /\ FrameInOrder /\ LineInv /\ GotInv /\ ReadInv /\ CleanInv
    BY DEF IInv
  <1>2. PICK i \in 1 .. Len(wire) :
          /\ wire[i].last
          /\ wire' = SubSeq(wire, i + 1 + Filled(FrameSize), Len(wire))
          /\ \/ line' = line
             \/ \E n \in AnswerSizes :
                   line' = line
                      \o [j \in 1 .. n |-> Byte(wire[i].run, j, n)]
                      \o Padding(wire[i].run, Filled(n))
    BY DEF InverterTakes
  <1> DEFINE r == wire[i].run
  <1>3. /\ backend' = backend /\ stage' = stage /\ run' = run /\ expired' = expired
        /\ data' = data /\ bytesLeft' = bytesLeft /\ bufSize' = bufSize
        /\ result' = result /\ written' = written /\ got' = got /\ left' = left
    BY DEF InverterTakes
  <1>4. /\ wire \in Seq(FrameByte) /\ line \in Seq(FrameByte)
        /\ Len(wire) \in Nat /\ i \in 1 .. Len(wire)
        /\ FrameSize \in Nat /\ FrameSize > 0 /\ Filled(FrameSize) \in Nat
        /\ backend \in {"usb", "serial"} /\ run \in Nat
    <2>1. /\ wire \in Seq(FrameByte) /\ line \in Seq(FrameByte) /\ run \in Nat
          /\ backend \in {"usb", "serial"}
      BY <1>1, BackendsAssumption DEF TypeOK
    <2>2. FrameSize \in Nat /\ FrameSize > 0
      BY SizesAssumption
    <2> QED
      BY <2>1, <2>2, LenProperties, FilledType
  <1>5. r \in Nat
    <2>1. wire[i] \in FrameByte
      BY <1>4, ElementOfSeq
    <2> QED
      BY <2>1 DEF FrameByte
  <1>6. wire' \in Seq(FrameByte)
    <2> DEFINE m == i + 1 + Filled(FrameSize)
    <2>1. m \in Nat /\ m > 0
      BY <1>4
    <2>2. wire' = SubSeq(wire, m, Len(wire))
      BY <1>2
    <2> HIDE DEF m
    <2>3. \A j \in m .. Len(wire) : wire[j] \in FrameByte
      <3>1. \A j \in m .. Len(wire) : j \in 1 .. Len(wire)
        BY <1>4, <2>1
      <3> QED
        BY <1>4, <3>1, ElementOfSeq
    <2> QED
      BY <1>4, <2>1, <2>2, <2>3, SubSeqProperties
  <1>7. \/ line' = line
        \/ \E n \in AnswerSizes : line' = line \o Sent(r, n)
    <2>1. CASE line' = line
      BY <2>1
    <2>2. CASE \E n \in AnswerSizes :
                   line' = line
                      \o [j \in 1 .. n |-> Byte(wire[i].run, j, n)]
                      \o Padding(wire[i].run, Filled(n))
      <3>1. PICK n \in AnswerSizes :
                   line' = line
                      \o [j \in 1 .. n |-> Byte(wire[i].run, j, n)]
                      \o Padding(wire[i].run, Filled(n))
        BY <2>2
      <3> DEFINE a == Answer(r, n)
                 p == Padding(r, Filled(n))
      <3>2. line' = (line \o a) \o p
        BY <3>1 DEF Answer
      <3>3. n \in Nat /\ Filled(n) \in Nat
        BY <1>4, FilledType, SizesAssumption
      <3>4. a \in Seq(FrameByte) /\ p \in Seq(FrameByte)
        BY <1>5, <3>3, AnswerFacts, PaddingFacts
      <3>5. Sent(r, n) = a \o p
        BY DEF Sent
      <3> HIDE DEF a, p, r
      <3>6. line \in Seq(FrameByte)
        BY <1>4
      <3>7. (line \o a) \o p = line \o (a \o p)
        BY <3>4, <3>6, Regroup
      <3> QED
        BY <3>2, <3>5, <3>7
    <2> QED
      BY <1>2, <2>1, <2>2
  <1> HIDE DEF r
  <1>8. ASSUME NEW n \in AnswerSizes
        PROVE  Sent(r, n) \in Seq(FrameByte) /\ GoodLine(Sent(r, n))
    <2>1. n \in Nat \ {0}
      BY SizesAssumption
    <2>2. SentBytes(r, n, Sent(r, n))
      BY <1>4, <1>5, <2>1, AnswerBytes
    <2> QED
      BY <1>4, <1>5, <2>1, <2>2, SentLine DEF SentBytes
  <1>9. line' \in Seq(FrameByte) /\ GoodLine(line')
    <2>1. GoodLine(line)
      BY <1>1 DEF LineInv, GoodLine
    <2>2. CASE line' = line
      BY <1>4, <2>1, <2>2
    <2>3. CASE \E n \in AnswerSizes : line' = line \o Sent(r, n)
      <3>1. PICK n \in AnswerSizes : line' = line \o Sent(r, n)
        BY <2>3
      <3> DEFINE t == Sent(r, n)
      <3>2. t \in Seq(FrameByte) /\ GoodLine(t) /\ line' = line \o t
        BY <1>8, <3>1
      <3> HIDE DEF t
      <3> QED
        BY <1>4, <2>1, <3>2, LinesJoin, ConcatProperties
    <2> QED
      BY <1>7, <2>2, <2>3
  <1>10. line # <<>> => line' # <<>> /\ line'[1] = line[1]
    <2> SUFFICES ASSUME line # <<>> PROVE line' # <<>> /\ line'[1] = line[1]
      OBVIOUS
    <2>1. CASE line' = line
      BY <2>1
    <2>2. CASE \E n \in AnswerSizes : line' = line \o Sent(r, n)
      <3>1. PICK n \in AnswerSizes : line' = line \o Sent(r, n)
        BY <2>2
      <3> DEFINE t == Sent(r, n)
      <3>2. Joins(line, t, line')
        BY <1>4, <1>8, <3>1, Join
      <3> HIDE DEF t
      <3>3. Len(line) \in Nat \ {0} /\ 1 \in 1 .. Len(line) /\ Len(t) \in Nat
        <4>1. t \in Seq(FrameByte)
          BY <1>8 DEF t
        <4> QED
          BY <1>4, <4>1, EmptySeq, LenProperties
      <3>4. line'[1] = line[1] /\ Len(line') > 0
        BY <3>2, <3>3 DEF Joins
      <3> QED
        BY <3>4, EmptySeq
    <2> QED
      BY <1>7, <2>1, <2>2
  <1>11. TypeOK'
    BY <1>1, <1>3, <1>6, <1>9 DEF TypeOK
  <1>12. LineInv'
    BY <1>3, <1>9 DEF LineInv, GoodLine, Chained, Complete, Aligned, Whole, Unit
  <1>13. WriteInv' /\ FrameInOrder' /\ GotInv'
    BY <1>1, <1>3
    DEF WriteInv, FrameInOrder, GotInv, AnswersApart, Frame, Padding, Filled, Whole, Unit
  <1>14. ReadInv'
    <2> SUFFICES ASSUME stage = "reading" PROVE ReadInv'
      BY <1>3 DEF ReadInv
    <2>1. Whole(Len(got))'
      BY <1>1, <1>3 DEF ReadInv, Whole, Unit
    <2>2. /\ \A j \in 1 .. Len(got) : ~got[j].last
          /\ got # <<>> => /\ line # <<>>
                           /\ line[1].run = got[Len(got)].run
                           /\ line[1].place = got[Len(got)].place + 1
      BY <1>1 DEF ReadInv
    <2>3. got # <<>> => /\ line' # <<>>
                        /\ line'[1].run = got[Len(got)].run
                        /\ line'[1].place = got[Len(got)].place + 1
      BY <1>10, <2>2
    <2> QED
      BY <1>3, <2>1, <2>2, <2>3 DEF ReadInv
  <1>15. CleanInv'
    <2> SUFFICES ASSUME ~left PROVE CleanInv'
      BY <1>3 DEF CleanInv
    <2>0. wire # <<>>
      BY <1>4, EmptySeq
    <2>1. stage # "idle"
      BY <1>1, <2>0 DEF CleanInv
    <2>2. stage # "writing"
      <3> SUFFICES ASSUME stage = "writing" PROVE FALSE
        OBVIOUS
      <3>1. wire = SubSeq(Frame(run), 1, data) /\ data \in Nat /\ data < FrameSize
        BY <1>1 DEF CleanInv, WriteInv, TypeOK
      <3>2. /\ Frame(run) \in Seq(FrameByte) /\ Len(Frame(run)) = FrameSize
            /\ \A j \in 1 .. FrameSize : Frame(run)[j] = Byte(run, j, FrameSize)
        BY <1>4, FrameFacts
      <3>3. Splits(Frame(run), data)
        <4>1. data \in 0 .. Len(Frame(run))
          BY <1>4, <3>1, <3>2
        <4> QED
          BY <3>2, <4>1, Split
      <3>4. Len(wire) = data /\ \A j \in 1 .. data : wire[j] = Frame(run)[j]
        BY <3>1, <3>3 DEF Splits
      <3>5. i \in 1 .. data /\ i \in 1 .. FrameSize /\ i # FrameSize /\ i \in Nat
        BY <1>4, <3>1, <3>4
      <3>6. wire[i] = Byte(run, i, FrameSize)
        BY <3>2, <3>4, <3>5
      <3>7. ~Byte(run, i, FrameSize).last
        BY <3>5 DEF Byte
      <3>8. wire[i].last
        BY <1>2
      <3> QED
        BY <3>5, <3>6, <3>7, <3>8
    <2>3. CASE stage = "reading"
      <3>1. wire = written /\ line = <<>> /\ got = <<>> /\ result \in {"none", "answer"}
        BY <1>1, <2>0, <2>3 DEF CleanInv
      <3>2. wire = Sent(run, FrameSize)
        BY <1>1, <2>3, <3>1 DEF FrameInOrder, Sent, Answer, Frame
      <3> DEFINE f == Filled(FrameSize)
                 n == FrameSize
      <3>3. /\ Len(wire) = n + f
            /\ \A j \in 1 .. n : wire[j].run = run
            /\ \A j \in 1 .. n : wire[j].last => j = n
            /\ \A j \in n + 1 .. n + f : ~wire[j].last
        <4>1. SentBytes(run, FrameSize, Sent(run, FrameSize))
          BY <1>4, AnswerBytes
        <4>2. SentBytes(run, n, wire)
          BY <3>2, <4>1
        <4> QED
          BY <4>2 DEF SentBytes
      <3>4. n \in Nat /\ f \in Nat
        BY <1>4
      <3>5. wire' = SubSeq(wire, i + 1 + f, Len(wire))
        BY <1>2
      <3> HIDE DEF f, n
      <3>6. i = n
        <4>1. i \in 1 .. n \/ i \in n + 1 .. n + f
          BY <1>4, <3>3, <3>4
        <4> QED
          BY <1>2, <3>3, <4>1
      <3>7. r = run
        <4>1. i \in 1 .. n
          BY <1>4, <3>6
        <4> QED
          BY <3>3, <4>1 DEF r
      <3>8. wire' = <<>>
        <4> DEFINE b == i + 1 + f
                   e == Len(wire)
        <4>1. b \in Int /\ e \in Int /\ e < b
          BY <3>3, <3>4, <3>6
        <4>2. wire' = SubSeq(wire, b, e)
          BY <3>5
        <4> HIDE DEF b, e
        <4> QED
          BY <4>1, <4>2, SubSeqEmpty
      <3>9. CASE line' = line
        BY <1>3, <2>3, <3>1, <3>8, <3>9 DEF CleanInv
      <3>10. CASE \E m \in AnswerSizes : line' = line \o Sent(r, m)
        <4>1. PICK m \in AnswerSizes : line' = line \o Sent(r, m)
          BY <3>10
        <4>2. Sent(r, m) \in Seq(FrameByte)
          BY <1>8
        <4>3. got' \o line' = Sent(run, m)
          BY <1>3, <3>1, <3>7, <4>1, <4>2, ConcatEmptySeq
        <4>4. \E l \in AnswerSizes : got' \o line' = Sent(run, l)'
          BY <1>3, <4>3 DEF Sent, Answer, Padding, Filled
        <4> QED
          BY <1>3, <2>3, <3>1, <3>8, <4>4 DEF CleanInv
      <3> QED
        BY <1>7, <3>9, <3>10
    <2>4. CASE stage = "undefined"
      BY <1>1, <1>3, <2>4 DEF CleanInv
    <2> QED
      BY <1>1, <2>1, <2>2, <2>3, <2>4 DEF TypeOK
  <1> QED
    BY <1>11, <1>12, <1>13, <1>14, <1>15 DEF IInv

----------------------------------------------------------------------------
(* The other steps, and the theorems *)

LEMMA InitStep == Init => IInv
  <1> SUFFICES ASSUME Init PROVE IInv
    OBVIOUS
  <1>1. /\ backend \in Backends /\ stage = "idle" /\ wire = <<>> /\ line = <<>>
        /\ written = <<>> /\ got = <<>> /\ result = "none" /\ left = FALSE
        /\ Len(<<>>) = 0 /\ <<>> \in Seq(FrameByte)
    BY EmptySeq DEF Init
  <1>2. TypeOK
    <2>1. /\ left \in BOOLEAN /\ expired \in BOOLEAN
          /\ run = 0 /\ data = 0 /\ bytesLeft = 0 /\ bufSize = 0
      BY DEF Init
    <2>2. bufSize \in 0 .. BufSize
      BY <2>1, SizesAssumption
    <2> QED
      BY <1>1, <2>1, <2>2 DEF TypeOK
  <1>3. LineInv
    <2>1. Whole(0)
      BY UnitType DEF Whole
    <2>2. \A m \in Nat : m * Unit \in Nat
      BY UnitType
    <2>3. Aligned(<<>>)
      BY <1>1, <2>1, <2>2 DEF Aligned
    <2> QED
      BY <1>1, <2>3 DEF LineInv, Chained, Complete
  <1>4. GotInv
    BY <1>1 DEF GotInv, AnswersApart
  <1> QED
    BY <1>1, <1>2, <1>3, <1>4 DEF IInv, WriteInv, FrameInOrder, ReadInv, CleanInv

LEMMA RunStep == IInv /\ Run => IInv'
  <1> SUFFICES ASSUME IInv, Run PROVE IInv'
    OBVIOUS
  <1>1. TypeOK /\ LineInv /\ CleanInv
    BY DEF IInv
  <1>2. /\ stage = "idle" /\ stage' = "writing" /\ run' = run + 1 /\ expired' = FALSE
        /\ data' = 0 /\ bytesLeft' = FrameSize /\ bufSize' = BufSize
        /\ written' = <<>> /\ got' = <<>>
        /\ backend' = backend /\ result' = result
        /\ wire' = wire /\ line' = line /\ left' = left
    BY DEF Run, link
  <1>3. Len(<<>>) = 0 /\ <<>> \in Seq(FrameByte)
    BY EmptySeq
  <1>4. TypeOK'
    <2>1. expired' \in BOOLEAN /\ left' \in BOOLEAN
      BY <1>1, <1>2 DEF TypeOK
    <2>2. /\ bufSize' \in 0 .. BufSize /\ run' \in Nat /\ data' \in Nat
          /\ bytesLeft' \in Int
      BY <1>1, <1>2, SizesAssumption DEF TypeOK
    <2> QED
      BY <1>1, <1>2, <1>3, <2>1, <2>2 DEF TypeOK
  <1>5. WriteInv'
    <2>1. Whole(0)'
      <3>1. Whole(0)
        BY UnitType DEF Whole
      <3> QED
        BY <1>2, <3>1 DEF Whole, Unit
    <2>2. SubSeq(Frame(run'), 1, 0) = <<>>
      BY SubSeqEmpty
    <2>3. data' < FrameSize /\ bytesLeft' = FrameSize - data'
      BY <1>2, SizesAssumption
    <2> QED
      BY <1>2, <2>1, <2>2, <2>3 DEF WriteInv
  <1>6. LineInv' /\ GotInv'
    <2>1. LineInv'
      BY <1>1, <1>2 DEF LineInv, Chained, Complete, Aligned, Whole, Unit
    <2>2. GotInv'
      BY <1>2, <1>3 DEF GotInv, AnswersApart
    <2> QED
      BY <2>1, <2>2
  <1>7. CleanInv'
    BY <1>1, <1>2 DEF CleanInv
  <1> QED
    BY <1>2, <1>4, <1>5, <1>6, <1>7 DEF IInv, FrameInOrder, ReadInv

LEMMA FailStep == IInv /\ Fail => IInv'
  <1> SUFFICES ASSUME IInv, Fail PROVE IInv'
    OBVIOUS
  <1>1. TypeOK /\ LineInv /\ GotInv /\ CleanInv
    BY DEF IInv
  <1>2. /\ backend' = backend /\ run' = run /\ expired' = expired /\ data' = data
        /\ bytesLeft' = bytesLeft /\ bufSize' = bufSize
        /\ wire' = wire /\ line' = line /\ written' = written /\ got' = got
    BY DEF Fail, link
  <1>3. \/ stage' = "idle" /\ result' = "DeviceError" /\ left' = TRUE
        \/ stage' = "undefined" /\ result' = result /\ left' = left
    BY DEF Fail, Abandon
  <1>4. left' \in BOOLEAN
    BY <1>1, <1>3 DEF TypeOK
  <1>5. TypeOK'
    BY <1>1, <1>2, <1>3, <1>4 DEF TypeOK
  <1>6. LineInv' /\ GotInv'
    BY <1>1, <1>2
    DEF LineInv, GotInv, Chained, Complete, Aligned, AnswersApart, Whole, Unit
  <1>7. CleanInv'
    BY <1>1, <1>3 DEF CleanInv
  <1> QED
    BY <1>3, <1>5, <1>6, <1>7 DEF IInv, WriteInv, FrameInOrder, ReadInv

LEMMA StutterStep == IInv /\ UNCHANGED vars => IInv'
  <1> SUFFICES ASSUME IInv, UNCHANGED vars PROVE IInv'
    OBVIOUS
  <1>1. TypeOK /\ WriteInv /\ FrameInOrder /\ LineInv /\ GotInv /\ ReadInv /\ CleanInv
    BY DEF IInv
  <1>2. /\ backend' = backend /\ stage' = stage /\ run' = run /\ expired' = expired
        /\ data' = data /\ bytesLeft' = bytesLeft /\ bufSize' = bufSize
        /\ result' = result /\ wire' = wire /\ line' = line
        /\ written' = written /\ got' = got /\ left' = left
    BY DEF vars, link
  <1>3. TypeOK'
    BY <1>1, <1>2 DEF TypeOK
  <1>4. WriteInv' /\ FrameInOrder'
    BY <1>1, <1>2 DEF WriteInv, FrameInOrder, Frame, Padding, Filled, Whole, Unit
  <1>5. LineInv' /\ GotInv'
    BY <1>1, <1>2
    DEF LineInv, GotInv, Chained, Complete, Aligned, AnswersApart, Whole, Unit
  <1>6. ReadInv'
    BY <1>1, <1>2 DEF ReadInv, Whole, Unit
  <1>7. CleanInv'
    BY <1>1, <1>2 DEF CleanInv, Sent, Answer, Padding, Filled
  <1> QED
    BY <1>3, <1>4, <1>5, <1>6, <1>7 DEF IInv

\* The inductive invariant holds throughout.
THEOREM DeviceInvariant == Spec => []IInv
  <1>1. IInv /\ [Next]_vars => IInv'
    BY WriteStep, ReadStep, TakesStep, RunStep, FailStep, StutterStep DEF Next, Ended
  <1> QED
    BY <1>1, InitStep, PTL DEF Spec

\* For reports, frames, answers and buffers of every size: every variable keeps
\* its type, and readLoop (device.cc) calls read only with room left in the
\* buffer.
THEOREM DeviceTypes == Spec => []TypeOK
  BY DeviceInvariant, PTL DEF IInv

\* However many calls of write it takes, writeLoop has given the backend the whole
\* frame, in order and once, before recv starts.
THEOREM FrameWritten == Spec => []FrameInOrder
  BY DeviceInvariant, PTL DEF IInv

\* However the reads fall, and whatever was left on the line, readLoop never puts
\* together bytes of two answers.
THEOREM AnswersKeptApart == Spec => []AnswersApart
  <1>1. IInv => AnswersApart
    BY DEF IInv, GotInv
  <1> QED
    BY <1>1, DeviceInvariant, PTL

\* As long as no run has failed, each returns the whole answer to its own frame
\* and leaves nothing on the link for the next.
THEOREM CleanExchanges == Spec => []CleanExchange
  <1>1. IInv => CleanExchange
    <2> SUFFICES ASSUME TypeOK, CleanInv, stage = "idle", ~left PROVE CleanExchange
      BY DEF IInv, CleanExchange
    <2>1. /\ wire = <<>> /\ line = <<>> /\ result \in {"none", "answer"}
          /\ got = <<>> \/ \E n \in AnswerSizes : got = Answer(run, n)
      BY DEF CleanInv
    <2>2. got # <<>> => got[1].run = run /\ IsAnswer(got) /\ got[Len(got)].last
      <3> SUFFICES ASSUME NEW n \in AnswerSizes, got = Answer(run, n)
                   PROVE  got[1].run = run /\ IsAnswer(got) /\ got[Len(got)].last
        BY <2>1
      <3>1. n \in Nat /\ n > 0 /\ run \in Nat
        BY SizesAssumption DEF TypeOK
      <3>2. Len(got) = n /\ got[1] = Byte(run, 1, n) /\ got[n] = Byte(run, n, n)
        BY <3>1, AnswerFacts
      <3>3. Byte(run, 1, n).run = run /\ Byte(run, n, n).last
        BY <3>1, ByteType
      <3>4. IsAnswer(got)
        BY <3>1, AnswerIsOne
      <3>5. got[1].run = run
        BY <3>2, <3>3
      <3>6. got[Len(got)].last
        BY <3>2, <3>3
      <3> QED
        BY <3>4, <3>5, <3>6
    <2> QED
      BY <2>1, <2>2 DEF CleanExchange, link
  <1> QED
    BY <1>1, DeviceInvariant, PTL

=============================================================================
