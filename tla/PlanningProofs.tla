--------------------------- MODULE PlanningProofs ---------------------------
(***************************************************************************)
(* The decisions about one file fit together, for every header and every   *)
(* probe: what inspection offers a conversion accepts, and an output made  *)
(* as planned passes its validation, up to lengths the probe does not tell. *)
(***************************************************************************)
EXTENDS Planning, WellFoundedInduction, FiniteSetTheorems, TLAPS

-----------------------------------------------------------------------------
(* Numbers and sequences *)

\* A set of numbers that is not empty has a least one.
LEMMA LeastNumber ==
    ASSUME NEW S \in SUBSET Nat, S # {}
    PROVE  Min(S) \in S /\ \A n \in S : Min(S) <= n
<1> DEFINE less == {p \in Nat \X Nat : p[1] < p[2]}
<1>1. IsWellFoundedOn(less, Nat)
  BY NatLessThanWellFounded DEF OpToRel
<1>2. PICK x \in S : \A y \in S : <<y, x>> \notin less
  BY <1>1, WFMin
<1>3. ASSUME NEW y \in S PROVE x <= y
  <2>1. x \in Nat /\ y \in Nat
    OBVIOUS
  <2>2. <<y, x>> \notin less
    BY <1>2
  <2>3. ~ (y < x)
    BY <2>1, <2>2
  <2> QED
    BY <2>1, <2>3
<1> QED
  BY <1>3 DEF Min

\* Induction over a set of numbers.
LEMMA SetInduction ==
    ASSUME NEW S, 0 \in S, \A n \in Nat : n \in S => n + 1 \in S
    PROVE  Nat \subseteq S
<1> DEFINE T == Nat \ S
<1> SUFFICES ASSUME T # {} PROVE FALSE
  OBVIOUS
<1>1. Min(T) \in T /\ \A n \in T : Min(T) <= n
  BY LeastNumber
<1>2. Min(T) # 0 /\ Min(T) - 1 \in Nat
  BY <1>1
<1>3. Min(T) - 1 \in S
  BY <1>1, <1>2
<1> QED
  BY <1>1, <1>2, <1>3

\* The first element that passes a test, on the sequence of the streams.
LEMMA SelectedVideo ==
    ASSUME NEW probe \in Probe, SelectStreams(probe).video # 0
    PROVE  /\ SelectStreams(probe).video \in DOMAIN probe.streams
           /\ UsableVideo(probe.streams[SelectStreams(probe).video])
<1> DEFINE usable == {i \in 1 .. Len(probe.streams) : UsableVideo(probe.streams[i])}
<1>1. SelectStreams(probe).video = IF usable # {} THEN Min(usable) ELSE 0
  BY DEF SelectStreams, SelectInSeq
<1>2. probe.streams \in Seq(Stream) /\ usable \in SUBSET Nat
  BY DEF Probe
<1>3. usable # {} => Min(usable) \in usable
  BY <1>2, LeastNumber
<1> HIDE DEF usable
<1>4. SelectStreams(probe).video \in usable
  BY <1>1, <1>3
<1> QED
  BY <1>2, <1>4 DEF usable

\* The first audio stream whose codec is supported.
LEMMA SelectedAudio ==
    ASSUME NEW probe \in Probe, SelectStreams(probe).audio # 0
    PROVE  /\ SelectStreams(probe).audio \in DOMAIN probe.streams
           /\ UsableAudio(probe.streams[SelectStreams(probe).audio])
<1> DEFINE usable == {i \in 1 .. Len(probe.streams) : UsableAudio(probe.streams[i])}
<1>1. SelectStreams(probe).audio = IF usable # {} THEN Min(usable) ELSE 0
  BY DEF SelectStreams, SelectInSeq
<1>2. probe.streams \in Seq(Stream) /\ usable \in SUBSET Nat
  BY DEF Probe
<1>3. usable # {} => Min(usable) \in usable
  BY <1>2, LeastNumber
<1> HIDE DEF usable
<1>4. SelectStreams(probe).audio \in usable
  BY <1>1, <1>3
<1> QED
  BY <1>2, <1>4 DEF usable

\* A chain of checks passes exactly if none of them fires.
LEMMA ChecksPass ==
    ASSUME NEW checks, Len(checks) \in Nat
    PROVE  /\ (\A i \in 1 .. Len(checks) : ~checks[i][1]) => FirstOf(checks) = "none"
           /\ /\ FirstOf(checks) = "none"
              /\ \A i \in 1 .. Len(checks) : checks[i][1] => checks[i][2] # "none"
              => \A i \in 1 .. Len(checks) : ~checks[i][1]
<1> DEFINE fired == {i \in 1 .. Len(checks) : checks[i][1]}
<1> DEFINE first == IF fired # {} THEN Min(fired) ELSE 0
<1>1. FirstOf(checks) = IF first = 0 THEN "none" ELSE checks[first][2]
  BY DEF FirstOf, SelectInSeq
<1>2. fired # {} => Min(fired) \in fired
  <2>1. fired \in SUBSET Nat
    OBVIOUS
  <2> QED
    BY <2>1, LeastNumber
<1>3. fired # {} => first \in fired /\ first # 0
  BY <1>2
<1> QED
  BY <1>1, <1>3

-----------------------------------------------------------------------------
(* The registry *)

ImageOperation == {"compatible_photo", "email_photo", "smaller_photo", "lossless_image"}
VideoOperation == {"compatible_video", "smaller_video"}
AudioOperation == {"extract_audio", "compatible_audio", "lossless_audio"}

\* The registry names every operation once.
LEMMA RegistryEntries ==
    /\ Len(Registry) = 9 /\ DOMAIN Registry = 1 .. 9
    /\ Operations = ImageOperation \cup VideoOperation \cup AudioOperation
<1>1. Len(Registry) = 9 /\ DOMAIN Registry = 1 .. 9
  BY DEF Registry
<1>2. /\ Registry[1].operation = "compatible_photo" /\ Registry[2].operation = "email_photo"
      /\ Registry[3].operation = "smaller_photo" /\ Registry[4].operation = "lossless_image"
      /\ Registry[5].operation = "compatible_video" /\ Registry[6].operation = "smaller_video"
      /\ Registry[7].operation = "extract_audio" /\ Registry[8].operation = "compatible_audio"
      /\ Registry[9].operation = "lossless_audio"
  BY DEF Registry, SpecOf
<1>3. Operations = {Registry[i].operation : i \in 1 .. 9}
  BY <1>1 DEF Operations, ToSet
<1>4. 1 .. 9 = {1, 2, 3, 4, 5, 6, 7, 8, 9}
  OBVIOUS
<1>5. Operations \subseteq ImageOperation \cup VideoOperation \cup AudioOperation
  BY <1>2, <1>3, <1>4 DEF ImageOperation, VideoOperation, AudioOperation
<1>6. ImageOperation \cup VideoOperation \cup AudioOperation \subseteq Operations
  BY <1>2, <1>3, <1>4 DEF ImageOperation, VideoOperation, AudioOperation
<1> QED
  BY <1>1, <1>5, <1>6

\* Lookup finds the entry of an operation.
LEMMA LookupFinds ==
    ASSUME NEW k \in 1 .. 9
    PROVE  Lookup(Registry[k].operation) = Registry[k]
<1> DEFINE found == {i \in 1 .. Len(Registry) : Registry[i].operation = Registry[k].operation}
<1>1. found = {k}
  BY RegistryEntries DEF Registry, SpecOf
<1>2. Min(found) = k
  BY <1>1 DEF Min
<1> QED
  BY <1>1, <1>2 DEF Lookup, SelectInSeq

\* What the entries say of images.
LEMMA ImageEntries ==
    /\ \A operation \in Operations :
          "image" \in Lookup(operation).accepts => operation \in ImageOperation
    /\ \A operation \in ImageOperation :
          Lookup(operation).container =
              CASE operation \in JPEGPhoto -> "jpeg"
                [] operation = "smaller_photo" -> "webp"
                [] operation = "lossless_image" -> "png"
<1>1. \A k \in 1 .. 9 : Lookup(Registry[k].operation) = Registry[k]
  BY LookupFinds
<1> QED
  BY <1>1, RegistryEntries
  DEF Registry, SpecOf, ImageOperation, VideoOperation, AudioOperation, JPEGPhoto

\* What they say of audio and video.
LEMMA MediaEntries ==
    ASSUME NEW operation \in Operations, NEW kind \in {"video", "audio"},
           kind \in Lookup(operation).accepts
    PROVE  operation \in VideoOperation \cup AudioOperation
<1>1. \A k \in 1 .. 9 : Lookup(Registry[k].operation) = Registry[k]
  BY LookupFinds
<1> QED
  BY <1>1, RegistryEntries
  DEF Registry, SpecOf, ImageOperation, VideoOperation, AudioOperation

\* The first of some operations in presentation order is one of them.
LEMMA FirstPresentedIn ==
    ASSUME NEW operations \in SUBSET Operations, operations # {}
    PROVE  FirstPresented(operations) \in operations
<1> DEFINE found == {i \in 1 .. Len(Registry) : Registry[i].operation \in operations}
<1>1. found \in SUBSET Nat /\ found # {}
  BY RegistryEntries DEF Operations, ToSet
<1>2. Min(found) \in found
  BY <1>1, LeastNumber
<1> QED
  BY <1>1, <1>2 DEF FirstPresented, SelectInSeq

-----------------------------------------------------------------------------
(* Scaling *)

\* Integer division, bounded from both sides.
LEMMA Quotient ==
    ASSUME NEW a \in Nat, NEW b \in Nat \ {0}
    PROVE  /\ a \div b \in Nat
           /\ (a \div b) * b <= a /\ a < (a \div b) * b + b
  OBVIOUS

\* A product is at least as large as its factors are.
LEMMA Grows ==
    ASSUME NEW a \in Nat, NEW b \in Nat, NEW c \in Nat, a <= b
    PROVE  a * c <= b * c
  OBVIOUS

\* nearestEven is even, at least 2, and off by less than two units of den.
LEMMA NearestEvenIs ==
    ASSUME NEW num \in Nat, NEW den \in Nat \ {0}
    PROVE  /\ NearestEven(num, den) \in Nat
           /\ NearestEven(num, den) >= 2
           /\ NearestEven(num, den) % 2 = 0
           /\ NearestEven(num, den) * den - num \in -den .. 2 * den
<1> DEFINE q == (num + den) \div (2 * den)
<1>1. q \in Nat /\ q * (2 * den) <= num + den /\ num + den < q * (2 * den) + 2 * den
  <2>1. num + den \in Nat /\ 2 * den \in Nat \ {0}
    OBVIOUS
  <2> QED
    BY <2>1, Quotient, Zenon
<1>2. NearestEven(num, den) = IF 2 * q < 2 THEN 2 ELSE 2 * q
  BY DEF NearestEven
<1> HIDE DEF q
<1>3. CASE q = 0
  BY <1>1, <1>2, <1>3
<1>4. CASE q # 0
  <2>1. (2 * q) * den = q * (2 * den)
    BY <1>1
  <2> QED
    BY <1>1, <1>2, <1>4, <2>1
<1> QED
  BY <1>3, <1>4

\* nearestEven of what does not exceed an even bound does not exceed it either.
LEMMA NearestEvenFits ==
    ASSUME NEW num \in Nat, NEW den \in Nat \ {0}, NEW half \in Nat \ {0}, num <= 2 * half * den
    PROVE  NearestEven(num, den) <= 2 * half
<1> DEFINE q == (num + den) \div (2 * den)
<1>1. q \in Nat /\ q * (2 * den) <= num + den
  <2>1. num + den \in Nat /\ 2 * den \in Nat \ {0}
    OBVIOUS
  <2> QED
    BY <2>1, Quotient, Zenon
<1>2. NearestEven(num, den) = IF 2 * q < 2 THEN 2 ELSE 2 * q
  BY DEF NearestEven
<1> HIDE DEF q
<1>3. q <= half
  <2> SUFFICES ASSUME q >= half + 1 PROVE FALSE
    BY <1>1
  <2>1. (half + 1) * (2 * den) <= q * (2 * den)
    BY <1>1, Grows
  <2>2. (half + 1) * (2 * den) = 2 * half * den + 2 * den
    OBVIOUS
  <2> QED
    BY <1>1, <2>1, <2>2
<1> QED
  BY <1>1, <1>2, <1>3

\* A size that keeps the shape of a frame, up to the rounding of both sides.
KeepsShape(size, width, height) ==
    /\ size[1] * height - size[2] * width \in -(2 * (width + height)) .. 2 * (width + height)
    /\ size[1] % 2 = 0 /\ size[2] % 2 = 0

\* evenFloor drops at most one, or adds one to a single pixel.
LEMMA EvenFloorKeepsShape ==
    ASSUME NEW width \in Nat \ {0}, NEW height \in Nat \ {0}
    PROVE  KeepsShape(<<EvenFloor(width), EvenFloor(height)>>, width, height)
<1>1. \A n \in Nat \ {0} : EvenFloor(n) \in Nat /\ EvenFloor(n) % 2 = 0 /\ EvenFloor(n) - n \in -1 .. 1
  BY DEF EvenFloor
<1> DEFINE a == EvenFloor(width) - width
           b == EvenFloor(height) - height
<1>2. a \in {-1, 0, 1} /\ b \in {-1, 0, 1}
  BY <1>1
<1>3. EvenFloor(width) = width + a /\ EvenFloor(height) = height + b
  BY <1>1
<1> HIDE DEF a, b
<1>4. (width + a) * height - (height + b) * width = a * height - b * width
  BY <1>2
<1>5. a * height - b * width \in -(2 * (width + height)) .. 2 * (width + height)
  BY <1>2
<1> QED
  BY <1>1, <1>3, <1>4, <1>5 DEF KeepsShape

\* fitDimensions keeps the shape of the frame and fits the profile: the side that
\* limits the scale becomes the limit, the other one is rounded.
LEMMA FitKeepsShape ==
    ASSUME NEW width \in Nat \ {0}, NEW height \in Nat \ {0}
    PROVE  /\ KeepsShape(FitDimensions(<<width, height>>), width, height)
           /\ FitDimensions(<<width, height>>)[1] <= MaxWidth
           /\ FitDimensions(<<width, height>>)[2] <= MaxHeight
<1>1. NearestEven(MaxWidth, 1) = 1280 /\ NearestEven(MaxHeight, 1) = 720
  BY DEF NearestEven, MaxWidth, MaxHeight
<1>2. CASE width <= MaxWidth /\ height <= MaxHeight
  <2> DEFINE a == NearestEven(width, 1) - width
             b == NearestEven(height, 1) - height
  <2>1. \A n \in Nat \ {0} : /\ NearestEven(n, 1) \in Nat /\ NearestEven(n, 1) % 2 = 0
                              /\ NearestEven(n, 1) - n \in -1 .. 1
    BY DEF NearestEven
  <2>2. a \in {-1, 0, 1} /\ b \in {-1, 0, 1}
    BY <2>1
  <2>3. NearestEven(width, 1) = width + a /\ NearestEven(height, 1) = height + b
    BY <2>1
  <2> HIDE DEF a, b
  <2>4. (width + a) * height - (height + b) * width = a * height - b * width
    BY <2>2
  <2>5. a * height - b * width \in -(2 * (width + height)) .. 2 * (width + height)
    BY <2>2
  <2>6. KeepsShape(<<NearestEven(width, 1), NearestEven(height, 1)>>, width, height)
    BY <2>1, <2>3, <2>4, <2>5 DEF KeepsShape
  <2>7. NearestEven(width, 1) <= MaxWidth /\ NearestEven(height, 1) <= MaxHeight
    BY <1>2 DEF NearestEven, MaxWidth, MaxHeight
  <2> QED
    BY <1>2, <2>6, <2>7 DEF FitDimensions
<1>3. CASE ~(width <= MaxWidth /\ height <= MaxHeight) /\ MaxWidth * height <= MaxHeight * width
  <2> DEFINE e == NearestEven(height * MaxWidth, width)
  <2>1. height * MaxWidth \in Nat /\ height * MaxWidth = 1280 * height
    BY DEF MaxWidth
  <2>2. /\ e \in Nat /\ e % 2 = 0
        /\ e * width - height * MaxWidth \in -width .. 2 * width
    <3> DEFINE num == height * MaxWidth
    <3>1. num \in Nat
      BY <2>1
    <3> HIDE DEF num
    <3>2. /\ NearestEven(num, width) \in Nat /\ NearestEven(num, width) % 2 = 0
          /\ NearestEven(num, width) * width - num \in -width .. 2 * width
      BY <3>1, NearestEvenIs
    <3> QED
      BY <3>2 DEF num
  <2>3. e <= 720
    <3>1. height * MaxWidth <= 2 * 360 * width
      BY <1>3, <2>1 DEF MaxWidth, MaxHeight
    <3> QED
      BY <2>1, <3>1, NearestEvenFits
  <2> HIDE DEF e
  <2>4. 1280 * height - e * width \in -(2 * (width + height)) .. 2 * (width + height)
    BY <2>1, <2>2
  <2>5. FitDimensions(<<width, height>>) = <<1280, e>>
    BY <1>1, <1>3 DEF FitDimensions, e
  <2> QED
    BY <2>2, <2>3, <2>4, <2>5 DEF KeepsShape, MaxWidth, MaxHeight
<1>4. CASE ~(width <= MaxWidth /\ height <= MaxHeight) /\ ~(MaxWidth * height <= MaxHeight * width)
  <2> DEFINE e == NearestEven(width * MaxHeight, height)
  <2>1. width * MaxHeight \in Nat /\ width * MaxHeight = 720 * width
    BY DEF MaxHeight
  <2>2. /\ e \in Nat /\ e % 2 = 0
        /\ e * height - width * MaxHeight \in -height .. 2 * height
    <3> DEFINE num == width * MaxHeight
    <3>1. num \in Nat
      BY <2>1
    <3> HIDE DEF num
    <3>2. /\ NearestEven(num, height) \in Nat /\ NearestEven(num, height) % 2 = 0
          /\ NearestEven(num, height) * height - num \in -height .. 2 * height
      BY <3>1, NearestEvenIs
    <3> QED
      BY <3>2 DEF num
  <2>3. e <= 1280
    <3>1. width * MaxHeight <= 2 * 640 * height
      BY <1>4, <2>1 DEF MaxWidth, MaxHeight
    <3> QED
      BY <2>1, <3>1, NearestEvenFits
  <2> HIDE DEF e
  <2>4. e * height - 720 * width \in -(2 * (width + height)) .. 2 * (width + height)
    BY <2>1, <2>2
  <2>5. FitDimensions(<<width, height>>) = <<e, 720>>
    BY <1>1, <1>4 DEF FitDimensions, e
  <2> QED
    BY <2>2, <2>3, <2>4, <2>5 DEF KeepsShape, MaxWidth, MaxHeight
<1> QED
  BY <1>2, <1>3, <1>4

-----------------------------------------------------------------------------
(* Lengths *)

\* A bounded set of lengths has a longest one.
LEMMA LongestIs ==
    ASSUME NEW S \in SUBSET Nat, S # {}, NEW bound \in Nat, \A n \in S : n <= bound
    PROVE  Longest(S) \in S /\ \A n \in S : n <= Longest(S)
<1> DEFINE above == {m \in Nat : \A n \in S : n <= m}
<1>1. above \in SUBSET Nat /\ above # {}
  OBVIOUS
<1>2. Min(above) \in above /\ \A m \in above : Min(above) <= m
  BY <1>1, LeastNumber
<1>3. Min(above) \in S
  <2> SUFFICES ASSUME Min(above) \notin S PROVE FALSE
    OBVIOUS
  <2>1. Min(above) # 0 /\ Min(above) \in Nat
    <3>1. Min(above) \in Nat /\ \A n \in S : n <= Min(above)
      BY <1>2
    <3>2. PICK n \in S : TRUE
      OBVIOUS
    <3>3. n \in Nat /\ n <= Min(above) /\ n # Min(above)
      BY <3>1, <3>2
    <3> QED
      BY <3>1, <3>3
  <2>2. \A n \in S : n <= Min(above) - 1
    BY <1>2, <2>1
  <2>3. Min(above) - 1 \in above
    BY <2>1, <2>2
  <2> QED
    BY <1>2, <2>1, <2>3
<1> QED
  BY <1>2, <1>3 DEF Longest

\* The lengths of the streams are numbers.
LEMMA LengthType ==
    ASSUME NEW probe \in Probe, NEW i \in DOMAIN probe.streams
    PROVE  probe.streams[i] \in Stream /\ probe.streams[i].length \in Nat
<1>1. probe.streams \in Seq(Stream)
  BY DEF Probe
<1>2. probe.streams[i] \in Stream
  BY <1>1
<1> QED
  BY <1>2 DEF Stream

\* The streams of a file have a longest one.
LEMMA StreamsAreBounded ==
    ASSUME NEW probe \in Probe
    PROVE  \E bound \in Nat : \A i \in DOMAIN probe.streams : probe.streams[i].length <= bound
<1> DEFINE dom == DOMAIN probe.streams
           len == [i \in dom |-> probe.streams[i].length]
           Bounds(c, n) == \A i \in dom : i <= n => len[i] <= c
           bounded == {n \in Nat : \E c \in Nat : Bounds(c, n)}
<1>1. dom = 1 .. Len(probe.streams) /\ Len(probe.streams) \in Nat
  BY DEF Probe
<1>2. \A i \in dom : len[i] \in Nat
  BY LengthType
<1>3. dom \subseteq Nat \ {0}
  BY <1>1
<1> HIDE DEF dom, len
<1>4. 0 \in bounded
  BY <1>3
<1>5. ASSUME NEW n \in Nat, n \in bounded PROVE n + 1 \in bounded
  <2>1. PICK c \in Nat : Bounds(c, n)
    BY <1>5
  <2>2. CASE n + 1 \notin dom
    <3>1. Bounds(c, n + 1)
      BY <1>3, <2>1, <2>2
    <3> QED
      BY <3>1
  <2>3. CASE n + 1 \in dom
    <3> DEFINE d == c + len[n + 1]
    <3>1. d \in Nat /\ c <= d /\ len[n + 1] <= d
      BY <1>2, <2>3
    <3> HIDE DEF d
    <3>2. Bounds(d, n + 1)
      BY <1>2, <1>3, <2>1, <3>1
    <3> QED
      BY <3>1, <3>2
  <2> QED
    BY <2>2, <2>3
<1>6. Nat \subseteq bounded
  <2> HIDE DEF bounded
  <2> QED
    BY <1>4, <1>5, SetInduction
<1>7. PICK c \in Nat : Bounds(c, Len(probe.streams))
  BY <1>1, <1>6
<1>8. \A i \in dom : len[i] <= c
  BY <1>1, <1>7
<1> QED
  BY <1>8 DEF dom, len

\* The length of a file with one or two kept streams is the one expected of it exactly if
\* the probe tells it.
LEMMA DurationHolds ==
    ASSUME NEW probe \in Probe,
           NEW a \in DOMAIN probe.streams, NEW b \in DOMAIN probe.streams,
           NEW kept, kept = {a, b},
           NEW expected, expected.length = ExpectedLength(probe, kept)
    PROVE  LengthIsTold(probe, kept) <=>
             ~DurationIssue(expected, Longest({1} \cup {probe.streams[i].length : i \in kept}))
<1> DEFINE la == probe.streams[a].length
           lb == probe.streams[b].length
           stated == {k \in kept : probe.streams[k].stated}
           lengths == {probe.streams[i].length : i \in stated}
           written == Longest({1} \cup {probe.streams[i].length : i \in kept})
<1>1. la \in Nat /\ lb \in Nat
  BY LengthType
<1>2. {probe.streams[i].length : i \in kept} = {la, lb}
  OBVIOUS
<1>3. /\ written \in {1, la, lb} /\ 1 <= written /\ la <= written /\ lb <= written
  <2>1. {1, la, lb} \in SUBSET Nat /\ 1 + la + lb \in Nat /\ \A n \in {1, la, lb} : n <= 1 + la + lb
    BY <1>1
  <2>2. {1} \cup {probe.streams[i].length : i \in kept} = {1, la, lb}
    BY <1>2
  <2> HIDE DEF la, lb
  <2> QED
    BY <2>1, <2>2, LongestIs
<1>4. expected.length = IF lengths # {} THEN Longest(lengths)
                        ELSE IF probe.stated THEN ContainerLength(probe) ELSE UnknownLength
  BY DEF ExpectedLength
<1>5. CASE stated # {}
  <2>1. lengths # {} /\ lengths \subseteq {la, lb}
    BY <1>5
  <2>2. LengthIsTold(probe, kept) <=> \A l \in {la, lb} : \E n \in lengths : l - n <= 2
    BY <1>2, <1>5 DEF LengthIsTold, DefaultDurationTolerance
  <2> DEFINE longest == Longest(lengths)
  <2> HIDE DEF la, lb, lengths, stated
  <2>3. lengths \in SUBSET Nat /\ la + lb \in Nat /\ \A n \in lengths : n <= la + lb
    BY <1>1, <2>1
  <2>4. longest \in lengths /\ \A n \in lengths : n <= longest
    BY <2>1, <2>3, LongestIs
  <2>5. longest \in Nat /\ longest \in {la, lb}
    BY <2>1, <2>3, <2>4
  <2>6. expected.length = longest
    BY <1>4, <2>1
  <2> HIDE DEF longest, written
  <2>7. LengthIsTold(probe, kept) <=> la <= longest + 2 /\ lb <= longest + 2
    <3>1. \A l \in Nat : (\E n \in lengths : l - n <= 2) <=> l <= longest + 2
      BY <2>3, <2>4, <2>5
    <3> QED
      BY <1>1, <2>2, <3>1
  <2> QED
    BY <1>1, <1>3, <2>5, <2>6, <2>7
    DEF DurationIssue, DefaultDurationTolerance, UnknownLength, written
<1>6. CASE stated = {} /\ probe.stated
  <2> DEFINE all == {probe.streams[i].length : i \in DOMAIN probe.streams}
  <2>1. expected.length = Longest(all)
    BY <1>4, <1>6 DEF ContainerLength
  <2>2. all \in SUBSET Nat /\ la \in all /\ lb \in all
    BY LengthType
  <2>3. LengthIsTold(probe, kept) <=> \A n \in all : \E k \in {1, la, lb} : n - k <= 2
    BY <1>2, <1>6 DEF LengthIsTold, DefaultDurationTolerance
  <2>4. PICK bound \in Nat : \A n \in all : n <= bound
    BY StreamsAreBounded
  <2> HIDE DEF la, lb, written, all, stated, lengths
  <2>5. Longest(all) \in all /\ \A n \in all : n <= Longest(all)
    BY <2>2, <2>4, LongestIs
  <2>6. /\ expected.length \in Nat /\ expected.length \in all
        /\ la <= expected.length /\ lb <= expected.length
    BY <2>1, <2>2, <2>5
  <2>7. LengthIsTold(probe, kept) <=> expected.length <= written + 2
    <3>1. \A n \in Nat : (\E k \in {1, la, lb} : n - k <= 2) <=> n <= written + 2
      BY <1>1, <1>3
    <3>2. LengthIsTold(probe, kept) <=> \A n \in all : n <= written + 2
      BY <2>2, <2>3, <3>1
    <3> QED
      BY <1>1, <1>3, <2>1, <2>2, <2>5, <2>6, <3>2
  <2> QED
    BY <1>1, <1>3, <2>6, <2>7
    DEF DurationIssue, DefaultDurationTolerance, UnknownLength, written
<1>7. CASE stated = {} /\ ~probe.stated
  <2>1. expected.length = UnknownLength
    BY <1>4, <1>7
  <2>2. LengthIsTold(probe, kept)
    BY <1>7 DEF LengthIsTold
  <2> HIDE DEF la, lb, written
  <2> QED
    BY <1>1, <1>3, <2>1, <2>2 DEF DurationIssue, written
<1> QED
  BY <1>5, <1>6, <1>7

-----------------------------------------------------------------------------
(* Audio and video *)

\* A set with one element has one.
LEMMA OneElement ==
    ASSUME NEW x
    PROVE  Cardinality({x}) = 1
  BY FS_Singleton

\* The validator reports nothing, but perhaps the length, if every other check passes.
LEMMA NoIssues ==
    ASSUME NEW expected, NEW output,
           output.metadata = FALSE, output.container = expected.container, output.other = {},
           Cardinality(output.video) = IF expected.vcodec = Unstated THEN 0 ELSE 1,
           Cardinality(output.audio) = IF expected.acodec = Unstated THEN 0 ELSE 1,
           \A video \in output.video : VideoIssues(expected, video) = {},
           \A audio \in output.audio : AudioIssues(expected, audio) = {},
           output.faststart = expected.faststart
    PROVE  MediaIssues(expected, output) = Issue("duration", DurationIssue(expected, output.length))
  BY DEF MediaIssues, Issue

\* The audio has what is asked of it.
AudioAsked(asked, audio) ==
    /\ asked.channels = audio.channels /\ asked.rate = audio.rate
    /\ asked.layout \in {Unstated, audio.layout}

\* The arguments keep one audio stream, and the contract was made for them.
AudioContract(probe, a, args, expected) ==
    /\ args.maps = {a} /\ args.keepsMetadata = FALSE
    /\ expected.container = args.format /\ expected.faststart = args.faststart
    /\ expected.vcodec = Unstated /\ expected.acodec # Unstated
    /\ expected.acodec = CodecOf(args.acodec)
    /\ AudioAsked(expected.audio, EncodedAudio(probe.streams[a], args))
    /\ expected.length = ExpectedLength(probe, {a})

\* An output passes, but for its length exactly if the probe does not tell it.
Passes(probe, args, expected) ==
    LET issues == MediaIssues(expected, Encode(probe, args))
    IN  issues \subseteq {"duration"} /\ (issues = {} <=> LengthIsTold(probe, args.maps))

\* An output of one audio stream passes.
LEMMA AudioPasses ==
    ASSUME NEW probe \in Probe,
           NEW a \in DOMAIN probe.streams, probe.streams[a].type = "audio",
           NEW args, NEW expected, AudioContract(probe, a, args, expected)
    PROVE  Passes(probe, args, expected)
<1> USE DEF AudioContract
<1> DEFINE output == Encode(probe, args)
           audio == EncodedAudio(probe.streams[a], args)
<1>1. /\ output.container = args.format /\ output.faststart = args.faststart
      /\ output.metadata = FALSE /\ output.other = {}
      /\ output.video = {} /\ output.audio = {audio}
      /\ output.length = Longest({1} \cup {probe.streams[i].length : i \in {a}})
  BY DEF Encode
<1>2. LengthIsTold(probe, args.maps) <=> ~DurationIssue(expected, output.length)
  BY <1>1, DurationHolds
<1>3. Cardinality(output.video) = 0 /\ Cardinality(output.audio) = 1
  <2> HIDE DEF output, audio
  <2>1. Cardinality({audio}) = 1
    BY OneElement
  <2> QED
    BY <1>1, <2>1, FS_EmptySet
<1>4. AudioIssues(expected, audio) = {}
  <2>1. audio.codec = expected.acodec
    BY DEF EncodedAudio
  <2> QED
    BY <2>1 DEF AudioIssues, AudioAsked, Issue
<1> HIDE DEF output, audio
<1>5. MediaIssues(expected, output) = Issue("duration", DurationIssue(expected, output.length))
  BY <1>1, <1>3, <1>4, NoIssues
<1> QED
  BY <1>2, <1>5 DEF output, Issue, Passes

\* The arguments keep the video stream v and the audio stream a, or no audio if a = 0,
\* and the contract was made for them.
MapsVideo(probe, v, a, args) ==
    /\ v \in DOMAIN probe.streams /\ probe.streams[v].type = "video"
    /\ a # 0 => a \in DOMAIN probe.streams /\ probe.streams[a].type = "audio"
    /\ args.maps = {v, a} \ {0}

VideoEncoding(video, args, expected) ==
    /\ args.hwDecode => video.rotation = 0
    /\ CodecOf(args.vcodec) = "h264" /\ args.pixelFormat \in {"yuv420p", "nv12"}
    /\ args.color \in {SDR, NoColor}
    /\ expected.vcodec = "h264" /\ expected.pixelFormat = "yuv420p"
    /\ expected.size = args.size /\ expected.color = args.color

AudioEncoding(a, args, expected) ==
    /\ args.acodec = (IF a = 0 THEN Unstated ELSE "aac") /\ args.audio = Stereo
    /\ expected.acodec = args.acodec
    /\ a # 0 => expected.audio = Stereo

\* The video stream of such an output passes its checks.
LEMMA VideoStreamPasses ==
    ASSUME NEW video, NEW args, NEW expected, VideoEncoding(video, args, expected)
    PROVE  VideoIssues(expected, EncodedVideo(video, args)) = {}
<1> DEFINE encoded == EncodedVideo(video, args)
<1>1. /\ encoded.codec = "h264" /\ encoded.size = args.size /\ encoded.pixelFormat = "yuv420p"
      /\ encoded.rotation = 0
  BY DEF EncodedVideo, VideoEncoding
<1>2. args.color # NoColor => encoded.color = args.color
  BY DEF EncodedVideo
<1>3. \A c \in DOMAIN NoColor : NoColor[c] = Unstated
  BY DEF NoColor
<1>4. ~ \E c \in DOMAIN NoColor :
            expected.color[c] # Unstated /\ encoded.color[c] # expected.color[c]
  BY <1>2, <1>3 DEF VideoEncoding
<1> HIDE DEF encoded
<1>5. VideoIssues(expected, encoded) = {}
  BY <1>1, <1>4 DEF VideoIssues, Issue, VideoEncoding
<1> QED
  BY <1>5 DEF encoded

\* So does its audio stream, if there is one.
LEMMA AudioStreamPasses ==
    ASSUME NEW audio, NEW a, a # 0, NEW args, NEW expected, AudioEncoding(a, args, expected)
    PROVE  AudioIssues(expected, EncodedAudio(audio, args)) = {}
<1>1. /\ args.audio = Stereo /\ args.audio # AsSource /\ Stereo.layout # Unstated
      /\ CodecOf(args.acodec) = expected.acodec /\ expected.audio = Stereo
  <2>1. /\ args.audio = Stereo /\ expected.audio = Stereo
        /\ args.acodec = "aac" /\ expected.acodec = "aac"
    BY DEF AudioEncoding
  <2>2. Stereo.channels = 2 /\ AsSource.channels = 0
    BY DEF Stereo, AsSource
  <2>3. Stereo.layout # Unstated
    BY DEF Stereo, Unstated
  <2>4. CodecOf("aac") = "aac"
    BY DEF CodecOf
  <2> QED
    BY <2>1, <2>2, <2>3, <2>4
<1>2. /\ EncodedAudio(audio, args).codec = expected.acodec
      /\ EncodedAudio(audio, args).channels = Stereo.channels
      /\ EncodedAudio(audio, args).rate = Stereo.rate
      /\ EncodedAudio(audio, args).layout = Stereo.layout
  BY <1>1 DEF EncodedAudio
<1> QED
  BY <1>1, <1>2 DEF AudioIssues, Issue

\* An output of one video stream and at most one audio stream passes.
LEMMA VideoPasses ==
    ASSUME NEW probe \in Probe, NEW v, NEW a, NEW args, NEW expected,
           MapsVideo(probe, v, a, args), VideoEncoding(probe.streams[v], args, expected),
           AudioEncoding(a, args, expected), args.keepsMetadata = FALSE,
           expected.container = args.format, expected.faststart = args.faststart,
           expected.length = ExpectedLength(probe, args.maps)
    PROVE  Passes(probe, args, expected)
<1> DEFINE output == Encode(probe, args)
           video == EncodedVideo(probe.streams[v], args)
           audio == EncodedAudio(probe.streams[a], args)
           b == IF a = 0 THEN v ELSE a
<1>1. v # 0 /\ {v, b} \subseteq DOMAIN probe.streams /\ args.maps = {v, b}
  BY DEF Probe, MapsVideo
<1>2. /\ output.container = expected.container /\ output.faststart = expected.faststart
      /\ output.metadata = FALSE
      /\ output.length = Longest({1} \cup {probe.streams[i].length : i \in args.maps})
  BY DEF Encode
<1>3. output.video = {video}
  BY <1>1 DEF Encode, MapsVideo
<1>4. output.other = {}
  BY <1>1 DEF Encode, MapsVideo
<1>5. output.audio = IF a = 0 THEN {} ELSE {audio}
  BY <1>1 DEF Encode, MapsVideo
<1>6. LengthIsTold(probe, args.maps) <=> ~DurationIssue(expected, output.length)
  BY <1>1, <1>2, DurationHolds
<1>7. VideoIssues(expected, video) = {}
  BY VideoStreamPasses
<1>8. a # 0 => AudioIssues(expected, audio) = {}
  BY AudioStreamPasses
<1>9. expected.vcodec # Unstated /\ (expected.acodec = Unstated <=> a = 0)
  <2>1. "h264" # Unstated /\ "aac" # Unstated
    BY DEF Unstated
  <2>2. expected.vcodec = "h264" /\ expected.acodec = IF a = 0 THEN Unstated ELSE "aac"
    BY DEF VideoEncoding, AudioEncoding
  <2> QED
    BY <2>1, <2>2, Zenon
<1> HIDE DEF output, audio, video, b
<1>10. Cardinality({video}) = 1 /\ Cardinality({audio}) = 1
  BY OneElement
<1>11. /\ Cardinality(output.video) = IF expected.vcodec = Unstated THEN 0 ELSE 1
       /\ Cardinality(output.audio) = IF expected.acodec = Unstated THEN 0 ELSE 1
  BY <1>3, <1>5, <1>9, <1>10, FS_EmptySet
<1>12. /\ \A x \in output.audio : AudioIssues(expected, x) = {}
       /\ \A x \in output.video : VideoIssues(expected, x) = {}
  BY <1>3, <1>5, <1>7, <1>8
<1>13. MediaIssues(expected, output) = Issue("duration", DurationIssue(expected, output.length))
  BY <1>2, <1>4, <1>11, <1>12, NoIssues
<1> QED
  BY <1>6, <1>13 DEF output, Issue, Passes

\* The refusals of a plan for video, and what it runs: the software arguments, or the
\* hardware arguments, both under the contract of the software plan.
LEMMA VideoPlanned ==
    ASSUME NEW probe, NEW selection, NEW smaller, NEW mode \in Modes, NEW readiness,
           NEW built, built = BuildVideoPlan(probe, selection, smaller, mode, readiness),
           built.refusal = "none"
    PROVE  /\ selection.video # 0
           /\ built.plan.expected = VideoPlan(probe, selection, smaller).expected
           /\ built.plan.cpuArgs = VideoArgs(probe, selection, smaller)
           /\ \/ built.plan.args = VideoArgs(probe, selection, smaller)
              \/ built.plan.args =
                    VAAPIArgs(probe, selection, smaller,
                              HardwareDecode(probe.streams[selection.video], readiness))
<1> DEFINE plan == VideoPlan(probe, selection, smaller)
           fast == Accelerated(plan, probe, selection, smaller, readiness)
<1>1. /\ plan.args = VideoArgs(probe, selection, smaller) /\ plan.cpuArgs = plan.args
      /\ DOMAIN plan = {"args", "cpuArgs", "expected"}
  BY DEF VideoPlan, CPUPlan
<1>2. /\ fast.expected = plan.expected /\ fast.cpuArgs = plan.args
      /\ fast.args = VAAPIArgs(probe, selection, smaller,
                                HardwareDecode(probe.streams[selection.video], readiness))
  BY DEF Accelerated, VideoPlan, CPUPlan
<1>3. selection.video # 0
  BY DEF BuildVideoPlan, Refused
<1>4. built = Planned(plan) \/ built = Planned(fast)
  BY <1>3 DEF BuildVideoPlan, Refused
<1> HIDE DEF plan, fast
<1>5. built.plan = plan \/ built.plan = fast
  BY <1>4 DEF Planned
<1> QED
  BY <1>1, <1>2, <1>3, <1>5 DEF plan

\* What the two kinds of arguments have in common.
VideoArgsFit(args, selection, stream, smaller, hwDecode) ==
    /\ args.maps = KeptStreams(selection) /\ args.keepsMetadata = FALSE
    /\ args.size = OutputDimensions(stream, smaller)
    /\ args.acodec = (IF selection.audio = 0 THEN Unstated ELSE "aac")
    /\ args.audio = Stereo /\ args.format = "mp4" /\ args.faststart = TRUE
    /\ args.color = IF IsHDR(stream) THEN SDR ELSE NoColor
    /\ args.hwDecode => hwDecode
    /\ args.vcodec \in {"libx264", "h264_vaapi"} /\ args.pixelFormat \in {"yuv420p", "nv12"}

\* Hardware decoding changes the decoder and the encoder, and nothing of the contract.
LEMMA ArgsAgree ==
    ASSUME NEW probe, NEW selection, NEW smaller, NEW hwDecode \in BOOLEAN
    PROVE  LET stream == probe.streams[selection.video]
           IN  /\ VideoArgsFit(VideoArgs(probe, selection, smaller), selection, stream, smaller, hwDecode)
               /\ VideoArgsFit(VAAPIArgs(probe, selection, smaller, hwDecode), selection, stream,
                               smaller, hwDecode)
<1> DEFINE cpu == VideoArgs(probe, selection, smaller)
           gpu == VAAPIArgs(probe, selection, smaller, hwDecode)
<1>1. /\ VideoArgsFit(cpu, selection, probe.streams[selection.video], smaller, hwDecode)
      /\ DOMAIN cpu = DOMAIN Args({}, "", "", "")
  BY DEF VideoArgs, Args, VideoArgsFit
<1>2. VideoArgsFit(gpu, selection, probe.streams[selection.video], smaller, hwDecode)
  BY <1>1 DEF VAAPIArgs, Args, VideoArgsFit
<1> QED
  BY <1>1, <1>2

\* The contract of a video, made for the software arguments.
VideoContract(expected, probe, selection, stream, smaller) ==
    /\ expected.container = "mp4" /\ expected.faststart = TRUE /\ expected.vcodec = "h264"
    /\ expected.acodec = (IF selection.audio = 0 THEN Unstated ELSE "aac")
    /\ expected.size = OutputDimensions(stream, smaller)
    /\ expected.pixelFormat = "yuv420p"
    /\ expected.color = (IF IsHDR(stream) THEN SDR ELSE NoColor)
    /\ selection.audio # 0 => expected.audio = Stereo
    /\ expected.length = ExpectedLength(probe, KeptStreams(selection))

\* buildVideo states that contract.
LEMMA VideoExpected ==
    ASSUME NEW probe, NEW selection, NEW smaller
    PROVE  VideoContract(VideoPlan(probe, selection, smaller).expected, probe, selection,
                         probe.streams[selection.video], smaller)
<1> DEFINE cpu == VideoArgs(probe, selection, smaller)
           stream == probe.streams[selection.video]
           audio == IF selection.audio = 0 THEN AsSource ELSE Stereo
           expected == VideoPlan(probe, selection, smaller).expected
<1>1. VideoArgsFit(cpu, selection, stream, smaller, FALSE)
  BY ArgsAgree
<1>2. expected = Expectation(probe, cpu, "h264", cpu.acodec, audio)
  BY DEF VideoPlan, CPUPlan
<1>3. selection.audio # 0 => audio = Stereo
  OBVIOUS
<1>4. "h264" # Unstated
  BY DEF Unstated
<1> HIDE DEF cpu, stream, audio, expected
<1>5. VideoContract(expected, probe, selection, stream, smaller)
  BY <1>1, <1>2, <1>3, <1>4 DEF Expectation, VideoArgsFit, VideoContract
<1> QED
  BY <1>5 DEF stream, expected

\* The selected video stream, with the size of its frame.
LEMMA UsableVideoIs ==
    ASSUME NEW stream \in Stream, UsableVideo(stream)
    PROVE  stream.width \in Nat \ {0} /\ stream.height \in Nat \ {0}
  BY DEF Stream, UsableVideo

\* A planned video passes its validation, keeps its shape and fits the profile, whether
\* the hardware or the software arguments have run.
LEMMA VideoKept ==
    ASSUME file.data \in Probe, chosen \in VideoOperation,
           NEW mode \in Modes, NEW readiness,
           NEW built, built = BuildMediaPlan(chosen, file.data, mode, readiness),
           built.refusal = "none", NEW args \in {built.plan.args, built.plan.cpuArgs}
    PROVE  /\ Passes(file.data, args, built.plan.expected)
           /\ ShapeKept(args) /\ Exact(args)
<1> DEFINE selection == SelectStreams(file.data)
           smaller == chosen = "smaller_video"
           v == selection.video
           a == selection.audio
           stream == file.data.streams[v]
           expected == built.plan.expected
           hwDecode == HardwareDecode(stream, readiness)
<1>1. built = BuildVideoPlan(file.data, selection, smaller, mode, readiness)
  BY DEF BuildMediaPlan, VideoOperation
<1>2. /\ v # 0 /\ expected = VideoPlan(file.data, selection, smaller).expected
      /\ \/ args = VideoArgs(file.data, selection, smaller)
         \/ args = VAAPIArgs(file.data, selection, smaller, hwDecode)
  <2> HIDE DEF selection, smaller, hwDecode
  <2> QED
    BY <1>1, VideoPlanned DEF hwDecode
<1>3. v \in DOMAIN file.data.streams /\ UsableVideo(stream) /\ stream \in Stream
  BY <1>2, SelectedVideo, LengthType
<1>4. a # 0 => a \in DOMAIN file.data.streams /\ file.data.streams[a].type = "audio"
  BY SelectedAudio DEF UsableAudio
<1>5. hwDecode \in BOOLEAN /\ (hwDecode => stream.rotation = 0)
  BY DEF HardwareDecode
<1> HIDE DEF smaller, selection, hwDecode, expected
<1>6. VideoArgsFit(args, selection, stream, smaller, hwDecode)
  BY <1>2, <1>5, ArgsAgree
<1>7. VideoContract(expected, file.data, selection, stream, smaller)
  BY <1>2, VideoExpected
<1>8. Passes(file.data, args, expected)
  <2>1. MapsVideo(file.data, v, a, args)
    BY <1>3, <1>4, <1>6 DEF MapsVideo, UsableVideo, VideoArgsFit, KeptStreams
  <2>2. VideoEncoding(stream, args, expected)
    BY <1>5, <1>6, <1>7 DEF VideoEncoding, CodecOf, VideoArgsFit, VideoContract
  <2>3. AudioEncoding(a, args, expected)
    BY <1>6, <1>7 DEF AudioEncoding, VideoArgsFit, VideoContract
  <2>4. /\ args.keepsMetadata = FALSE /\ expected.container = args.format
        /\ expected.faststart = args.faststart
        /\ expected.length = ExpectedLength(file.data, args.maps)
    <3>1. args.maps = KeptStreams(selection)
      BY <1>6 DEF VideoArgsFit
    <3>2. expected.length = ExpectedLength(file.data, KeptStreams(selection))
      BY <1>7 DEF VideoContract
    <3>3. args.keepsMetadata = FALSE /\ args.format = "mp4" /\ args.faststart = TRUE
      BY <1>6 DEF VideoArgsFit
    <3>4. expected.container = "mp4" /\ expected.faststart = TRUE
      BY <1>7 DEF VideoContract
    <3> QED
      BY <3>1, <3>2, <3>3, <3>4, Zenon
  <2> HIDE DEF v, a
  <2> QED
    BY <2>1, <2>2, <2>3, <2>4, VideoPasses
<1>9. ShapeKept(args)
  <2> SUFFICES ASSUME NEW i \in args.maps, file.data.streams[i].type = "video"
               PROVE  LET upright == IF file.data.streams[i].rotation \in {90, 270}
                                     THEN <<file.data.streams[i].height, file.data.streams[i].width>>
                                     ELSE <<file.data.streams[i].width, file.data.streams[i].height>>
                      IN  /\ KeepsShape(args.size, upright[1], upright[2])
                          /\ chosen = "smaller_video" =>
                                args.size[1] <= MaxWidth /\ args.size[2] <= MaxHeight
    BY DEF ShapeKept, KeepsShape
  <2>1. i = v
    BY <1>4, <1>6 DEF VideoArgsFit, KeptStreams
  <2>2. stream.width \in Nat \ {0} /\ stream.height \in Nat \ {0}
    BY <1>3, UsableVideoIs
  <2> DEFINE upright == DisplayedDimensions(stream)
  <2>3. /\ upright = IF stream.rotation \in {90, 270} THEN <<stream.height, stream.width>>
                     ELSE <<stream.width, stream.height>>
        /\ upright[1] \in Nat \ {0} /\ upright[2] \in Nat \ {0}
        /\ upright = <<upright[1], upright[2]>>
    BY <2>2 DEF DisplayedDimensions
  <2>4. args.size = IF smaller THEN FitDimensions(upright)
                    ELSE <<EvenFloor(upright[1]), EvenFloor(upright[2])>>
    BY <1>6 DEF OutputDimensions, VideoArgsFit
  <2> HIDE DEF upright
  <2>5. KeepsShape(args.size, upright[1], upright[2])
    BY <2>3, <2>4, EvenFloorKeepsShape, FitKeepsShape
  <2>6. smaller => args.size[1] <= MaxWidth /\ args.size[2] <= MaxHeight
    BY <2>3, <2>4, FitKeepsShape
  <2> QED
    BY <2>1, <2>3, <2>5, <2>6 DEF stream, smaller
<1>10. Exact(args)
  BY DEF Exact, VideoOperation
<1> QED
  BY <1>8, <1>9, <1>10 DEF expected

\* The three plans for audio come with their contract.
LEMMA AudioPlansFit ==
    ASSUME NEW probe, NEW selection,
           NEW plan \in {AACPlan(probe, selection), MP3Plan(probe, selection),
                        FLACPlan(probe, selection)}
    PROVE  /\ plan.cpuArgs = plan.args
           /\ AudioContract(probe, selection.audio, plan.args, plan.expected)
<1> DEFINE Fits(args, acodec, codec, audio) ==
              /\ args.maps = {selection.audio} /\ args.keepsMetadata = FALSE
              /\ args.acodec = acodec /\ CodecOf(acodec) = codec /\ codec # Unstated
              /\ AudioAsked(audio, EncodedAudio(probe.streams[selection.audio], args))
<1>1. ASSUME NEW args, NEW acodec, NEW codec, NEW audio, Fits(args, acodec, codec, audio),
             plan = CPUPlan(args, Expectation(probe, args, Unstated, codec, audio))
      PROVE  /\ plan.cpuArgs = plan.args
             /\ AudioContract(probe, selection.audio, plan.args, plan.expected)
  <2> DEFINE expected == Expectation(probe, args, Unstated, codec, audio)
  <2>1. /\ expected.container = args.format /\ expected.faststart = args.faststart
        /\ expected.vcodec = Unstated /\ expected.acodec = codec
        /\ expected.audio = audio
        /\ expected.length = ExpectedLength(probe, args.maps)
    BY DEF Expectation
  <2>2. plan.args = args /\ plan.cpuArgs = args /\ plan.expected = expected
    BY <1>1 DEF CPUPlan
  <2> HIDE DEF expected
  <2>3. AudioContract(probe, selection.audio, args, expected)
    BY <1>1, <2>1 DEF AudioContract
  <2> QED
    BY <2>2, <2>3
<1>2. /\ CodecOf("aac") = "aac" /\ CodecOf("libmp3lame") = "mp3" /\ CodecOf("flac") = "flac"
      /\ "aac" # Unstated /\ "mp3" # Unstated /\ "flac" # Unstated
  BY DEF CodecOf, Unstated
<1>3. CASE plan = AACPlan(probe, selection)
  <2> DEFINE args == [AudioArgs(selection, "aac", "mp4") EXCEPT !.faststart = TRUE]
  <2>1. Fits(args, "aac", "aac", Stereo)
    BY <1>2 DEF AudioArgs, Args, EncodedAudio, Stereo, AsSource, AudioAsked
  <2>2. plan = CPUPlan(args, Expectation(probe, args, Unstated, "aac", Stereo))
    BY <1>3 DEF AACPlan
  <2> HIDE DEF args, Fits
  <2> QED
    BY <1>1, <2>1, <2>2
<1>4. CASE plan = MP3Plan(probe, selection)
  <2> DEFINE args == AudioArgs(selection, "libmp3lame", "mp3")
  <2>1. Fits(args, "libmp3lame", "mp3", Stereo)
    BY <1>2 DEF AudioArgs, Args, EncodedAudio, Stereo, AsSource, AudioAsked
  <2>2. plan = CPUPlan(args, Expectation(probe, args, Unstated, "mp3", Stereo))
    BY <1>4 DEF MP3Plan
  <2> HIDE DEF args, Fits
  <2> QED
    BY <1>1, <2>1, <2>2
<1>5. CASE plan = FLACPlan(probe, selection)
  <2> DEFINE args == [AudioArgs(selection, "flac", "flac") EXCEPT !.audio = AsSource]
             source == probe.streams[selection.audio]
             audio == [channels |-> source.channels, rate |-> source.rate, layout |-> source.layout]
  <2>1. Fits(args, "flac", "flac", audio)
    BY <1>2 DEF AudioArgs, Args, EncodedAudio, Stereo, AsSource, AudioAsked
  <2>2. plan = CPUPlan(args, Expectation(probe, args, Unstated, "flac", audio))
    BY <1>5 DEF FLACPlan
  <2> HIDE DEF args, Fits
  <2> QED
    BY <1>1, <2>1, <2>2
<1> QED
  BY <1>3, <1>4, <1>5

\* A planned extraction or conversion of audio passes its validation, and what becomes
\* FLAC fits into its integers.
LEMMA AudioKept ==
    ASSUME file.data \in Probe, chosen \in AudioOperation,
           NEW mode \in Modes, NEW readiness,
           NEW built, built = BuildMediaPlan(chosen, file.data, mode, readiness),
           built.refusal = "none", NEW args \in {built.plan.args, built.plan.cpuArgs}
    PROVE  /\ Passes(file.data, args, built.plan.expected)
           /\ ShapeKept(args) /\ Exact(args)
<1> DEFINE selection == SelectStreams(file.data)
           a == selection.audio
           stream == file.data.streams[a]
           expected == built.plan.expected
<1>1. a # 0
  BY DEF BuildMediaPlan, AudioOperation, Refused
<1>2. /\ a \in DOMAIN file.data.streams /\ stream.type = "audio"
      /\ stream.codec \in SupportedAudioCodec /\ stream \in Stream
  BY <1>1, SelectedAudio, LengthType DEF UsableAudio
<1>3. \/ chosen = "extract_audio" /\ built = Planned(AACPlan(file.data, selection))
      \/ chosen = "compatible_audio" /\ built = Planned(MP3Plan(file.data, selection))
      \/ /\ chosen = "lossless_audio" /\ ~LossyFLACSource(stream)
         /\ built = Planned(FLACPlan(file.data, selection))
  BY <1>1 DEF BuildMediaPlan, AudioOperation, Refused
<1> HIDE DEF selection
<1>4. built.plan \in {AACPlan(file.data, selection), MP3Plan(file.data, selection),
                     FLACPlan(file.data, selection)}
  BY <1>3 DEF Planned
<1>5. AudioContract(file.data, a, args, expected)
  BY <1>4, AudioPlansFit
<1> HIDE DEF expected, a
<1>6. Passes(file.data, args, expected)
  BY <1>2, <1>5, AudioPasses
<1>7. ShapeKept(args)
  BY <1>2, <1>5 DEF ShapeKept, AudioContract
<1>8. Exact(args)
  <2>1. chosen = "lossless_audio" => ~LossyFLACSource(stream)
    BY <1>3
  <2>2. stream.bits \in Nat
    BY <1>2 DEF Stream
  <2> QED
    BY <1>5, <2>1, <2>2 DEF Exact, LossyFLACSource, AudioContract
<1> QED
  BY <1>6, <1>7, <1>8 DEF expected

-----------------------------------------------------------------------------
(* Images: what is accepted *)

\* Sequences written out.
LEMMA TwoOf ==
    ASSUME NEW S, NEW a \in S, NEW b \in S
    PROVE  /\ <<a, b>> \in Seq(S) /\ Len(<<a, b>>) = 2
           /\ <<a, b>>[1] = a /\ <<a, b>>[2] = b
OBVIOUS

LEMMA SevenOf ==
    ASSUME NEW S, NEW a \in S, NEW b \in S, NEW c \in S, NEW d \in S, NEW e \in S, NEW f \in S,
           NEW g \in S
    PROVE  /\ <<a, b, c, d, e, f, g>> \in Seq(S) /\ Len(<<a, b, c, d, e, f, g>>) = 7
           /\ <<a, b, c, d, e, f, g>>[2] = b /\ <<a, b, c, d, e, f, g>>[4] = d
           /\ <<a, b, c, d, e, f, g>>[5] = e /\ <<a, b, c, d, e, f, g>>[7] = g
OBVIOUS

\* A chain of checks in two parts that passes has parts that pass.
LEMMA ChecksInParts ==
    ASSUME NEW S, NEW s \in Seq(S), NEW t \in Seq(S), \A check \in S : check[2] # "none",
           FirstOf(s \o t) = "none"
    PROVE  FirstOf(s) = "none" /\ FirstOf(t) = "none"
<1> DEFINE u == s \o t
<1>1. /\ u \in Seq(S) /\ Len(u) = Len(s) + Len(t) /\ Len(u) \in Nat
      /\ \A i \in 1 .. Len(s) : i \in 1 .. Len(u) /\ u[i] = s[i]
      /\ \A i \in 1 .. Len(t) : Len(s) + i \in 1 .. Len(u) /\ u[Len(s) + i] = t[i]
      /\ Len(s) \in Nat /\ Len(t) \in Nat /\ FirstOf(u) = "none"
  OBVIOUS
<1> HIDE DEF u
<1>2. \A i \in 1 .. Len(u) : u[i][2] # "none"
  BY <1>1
<1>3. \A i \in 1 .. Len(u) : ~u[i][1]
  BY <1>1, <1>2, ChecksPass
<1> QED
  BY <1>1, <1>3, ChecksPass

\* What BuildPlan has made sure of when it returns a plan.
Accepted(info, operation) ==
    /\ SupportedCICP(info.cicp)
    /\ info.interpretation = "cmyk" => info.icc
    /\ info.bandFormat \in {"uchar", "ushort"}
    /\ info.interpretation \in Perceptual \cup Grey \cup RGB \cup {"cmyk"}
    /\ ~(HasAlpha(info) /\ info.interpretation \in Perceptual)
    /\ ~AlphaLost(info, operation)

\* The checks of an image plan.
LEMMA AcceptedImages ==
    ASSUME NEW info, NEW operation, ImagePlanRefusal(info, operation) = "none"
    PROVE  Accepted(info, operation)
<1> DEFINE p1 == SignalChecks(info)[1]
           p2 == SignalChecks(info)[2]
           c(i) == ColorChecks(info)[i]
           o1 == <<operation = "smaller_photo" /\ LongestOf(info.width, info.height) > MaxWebPDimension,
                   "decoded-dimensions-exceeded">>
           o2 == <<AlphaLost(info, operation), "alpha-preservation-unsupported">>
           S == {p1, p2, c(1), c(2), c(3), c(4), c(5), c(6), c(7), o1, o2}
<1>1. /\ SignalChecks(info) = <<p1, p2>>
      /\ ColorChecks(info) = <<c(1), c(2), c(3), c(4), c(5), c(6), c(7)>>
      /\ ImagePlanRefusal(info, operation)
            = FirstOf(SignalChecks(info) \o ColorChecks(info) \o <<o1, o2>>)
  BY DEF SignalChecks, ColorChecks, ImagePlanRefusal
<1>2. p1[2] # "none" /\ p2[2] # "none" /\ o1[2] # "none" /\ o2[2] # "none"
  BY DEF SignalChecks
<1>3. /\ c(1)[2] # "none" /\ c(2)[2] # "none" /\ c(3)[2] # "none" /\ c(4)[2] # "none"
      /\ c(5)[2] # "none" /\ c(6)[2] # "none" /\ c(7)[2] # "none"
  BY DEF ColorChecks
<1>4. /\ p2[1] <=> ~SupportedCICP(info.cicp)
      /\ o2[1] <=> AlphaLost(info, operation)
  BY DEF SignalChecks
<1>5. /\ c(2)[1] <=> (info.interpretation = "cmyk" /\ ~info.icc)
      /\ c(4)[1] <=> info.bandFormat \notin {"uchar", "ushort"}
      /\ c(5)[1] <=> info.interpretation \notin Perceptual \cup Grey \cup RGB \cup {"cmyk"}
      /\ c(7)[1] <=> (HasAlpha(info) /\ info.interpretation \in Perceptual)
  BY DEF ColorChecks
<1> HIDE DEF p1, p2, c, o1, o2
<1>6. \A check \in S : check[2] # "none"
  BY <1>2, <1>3
<1>7. /\ SignalChecks(info) \in Seq(S) /\ Len(SignalChecks(info)) = 2
      /\ SignalChecks(info)[2] = p2
  <2>1. p1 \in S /\ p2 \in S
    OBVIOUS
  <2> QED
    BY <2>1, <1>1, TwoOf
<1>8. /\ ColorChecks(info) \in Seq(S) /\ Len(ColorChecks(info)) = 7
      /\ ColorChecks(info)[2] = c(2) /\ ColorChecks(info)[4] = c(4)
      /\ ColorChecks(info)[5] = c(5) /\ ColorChecks(info)[7] = c(7)
  <2>1. /\ c(1) \in S /\ c(2) \in S /\ c(3) \in S /\ c(4) \in S /\ c(5) \in S /\ c(6) \in S
        /\ c(7) \in S
    OBVIOUS
  <2> QED
    BY <2>1, <1>1, SevenOf
<1>9. <<o1, o2>> \in Seq(S) /\ Len(<<o1, o2>>) = 2 /\ <<o1, o2>>[2] = o2
  <2>1. o1 \in S /\ o2 \in S
    OBVIOUS
  <2> QED
    BY <2>1, TwoOf
<1> HIDE DEF S
<1>10. FirstOf(SignalChecks(info) \o ColorChecks(info)) = "none" /\ FirstOf(<<o1, o2>>) = "none"
  <2>1. SignalChecks(info) \o ColorChecks(info) \in Seq(S)
    BY <1>7, <1>8
  <2> QED
    BY <1>1, <1>6, <1>9, <2>1, ChecksInParts
<1>11. FirstOf(SignalChecks(info)) = "none" /\ FirstOf(ColorChecks(info)) = "none"
  BY <1>6, <1>7, <1>8, <1>10, ChecksInParts
<1>12. ASSUME NEW s \in Seq(S), FirstOf(s) = "none" PROVE \A i \in 1 .. Len(s) : ~s[i][1]
  <2>1. \A i \in 1 .. Len(s) : s[i][2] # "none"
    BY <1>6
  <2> QED
    BY <2>1, <1>12, ChecksPass
<1>13. ~p2[1]
  <2>1. \A i \in 1 .. 2 : ~SignalChecks(info)[i][1]
    BY <1>7, <1>11, <1>12
  <2> QED
    BY <2>1, <1>7
<1>14. ~o2[1]
  <2>1. \A i \in 1 .. 2 : ~<<o1, o2>>[i][1]
    BY <1>9, <1>10, <1>12
  <2>2. ~<<o1, o2>>[2][1]
    BY <2>1
  <2> QED
    BY <2>2, <1>9
<1>15. ~c(2)[1] /\ ~c(4)[1] /\ ~c(5)[1] /\ ~c(7)[1]
  BY <1>8, <1>11, <1>12
<1> QED
  BY <1>4, <1>5, <1>13, <1>14, <1>15 DEF Accepted

-----------------------------------------------------------------------------
(* Images: the commands one after the other *)

\* One step of a rendering, given the pictures so far.
NextPicture(pictures, info, commands, i) ==
    IF i = 0 THEN Picture(info) ELSE Apply(pictures[i - 1], info, commands[i])

Solves(g, info, commands, n) ==
    g = [i \in 0 .. n |-> NextPicture(g, info, commands, i)]

\* The recursion has a solution.
LEMMA RenderingExists ==
    ASSUME NEW info, NEW commands, NEW n \in Nat
    PROVE  \E g : Solves(g, info, commands, n)
<1> DEFINE S == {m \in Nat : \E g : Solves(g, info, commands, m)}
<1>1. 0 \in S
  <2> DEFINE g == [i \in 0 .. 0 |-> Picture(info)]
  <2>1. Solves(g, info, commands, 0)
    BY DEF NextPicture, Solves
  <2> QED
    BY <2>1
<1>2. ASSUME NEW m \in Nat, m \in S PROVE m + 1 \in S
  <2>1. PICK g : Solves(g, info, commands, m)
    BY <1>2
  <2> DEFINE h == [i \in 0 .. m + 1 |->
                    IF i = m + 1 THEN Apply(g[m], info, commands[m + 1]) ELSE g[i]]
  <2>2. ASSUME NEW i \in 0 .. m + 1 PROVE h[i] = NextPicture(h, info, commands, i)
    <3>1. CASE i = 0
      <4>1. h[0] = g[0] /\ 0 \in 0 .. m /\ 0 \in 0 .. m + 1
        OBVIOUS
      <4>2. g[0] = NextPicture(g, info, commands, 0)
        BY <2>1, <4>1 DEF Solves
      <4> QED
        BY <3>1, <4>1, <4>2 DEF NextPicture
    <3>2. CASE i = m + 1
      <4>1. h[m] = g[m] /\ i # 0 /\ i - 1 = m /\ h[i] = Apply(g[m], info, commands[m + 1])
        BY <3>2
      <4> HIDE DEF h
      <4> QED
        BY <3>2, <4>1 DEF NextPicture
    <3>3. CASE i # 0 /\ i # m + 1
      <4>1. i \in 0 .. m /\ h[i] = g[i] /\ h[i - 1] = g[i - 1]
        BY <3>3
      <4>2. g[i] = NextPicture(g, info, commands, i)
        BY <2>1, <4>1 DEF Solves
      <4> HIDE DEF h
      <4> QED
        BY <3>3, <4>1, <4>2 DEF NextPicture
    <3> QED
      BY <3>1, <3>2, <3>3
  <2>3. Solves(h, info, commands, m + 1)
    <3> DEFINE k == [i \in 0 .. m + 1 |-> NextPicture(h, info, commands, i)]
    <3>1. DOMAIN h = 0 .. m + 1 /\ h = [i \in DOMAIN h |-> h[i]]
      OBVIOUS
    <3> HIDE DEF h
    <3> QED
      BY <2>2, <3>1 DEF Solves
  <2> HIDE DEF h
  <2> QED
    BY <2>3
<1>3. Nat \subseteq S
  <2> HIDE DEF S
  <2> QED
    BY <1>1, <1>2, SetInduction
<1> QED
  BY <1>3

\* The picture after each command is made from the one before it.
LEMMA RenderingSteps ==
    ASSUME NEW info, NEW commands, NEW n \in Nat, NEW i \in 0 .. n
    PROVE  Rendering(info, commands, n)[i]
              = NextPicture(Rendering(info, commands, n), info, commands, i)
<1> DEFINE R == Rendering(info, commands, n)
<1>1. R = CHOOSE g : Solves(g, info, commands, n)
  BY DEF Rendering, NextPicture, Solves
<1>2. \E g : Solves(g, info, commands, n)
  BY RenderingExists
<1>3. Solves(R, info, commands, n)
  <2> HIDE DEF R
  <2> QED
    BY <1>1, <1>2, Zenon
<1> HIDE DEF R
<1>4. R[i] = NextPicture(R, info, commands, i)
  BY <1>3 DEF Solves
<1> QED
  BY <1>4 DEF R

\* The first pictures of a rendering depend on the first commands only.
LEMMA RenderingPrefix ==
    ASSUME NEW info, NEW s, NEW t, NEW n \in Nat, NEW m \in Nat, n <= m,
           \A i \in 1 .. n : s[i] = t[i]
    PROVE  \A i \in 0 .. n : Rendering(info, s, n)[i] = Rendering(info, t, m)[i]
<1> DEFINE R == Rendering(info, s, n)
           Q == Rendering(info, t, m)
           S == {i \in Nat : i <= n => R[i] = Q[i]}
<1>1. /\ \A i \in 0 .. n : R[i] = NextPicture(R, info, s, i)
      /\ \A i \in 0 .. m : Q[i] = NextPicture(Q, info, t, i)
  BY RenderingSteps
<1> HIDE DEF R, Q
<1>2. 0 \in S
  BY <1>1 DEF NextPicture
<1>3. ASSUME NEW i \in Nat, i \in S PROVE i + 1 \in S
  <2> SUFFICES ASSUME i + 1 <= n PROVE R[i + 1] = Q[i + 1]
    OBVIOUS
  <2>1. i + 1 \in 0 .. n /\ i + 1 \in 0 .. m /\ i + 1 \in 1 .. n /\ i + 1 # 0 /\ i + 1 - 1 = i
    OBVIOUS
  <2>2. R[i] = Q[i] /\ s[i + 1] = t[i + 1]
    BY <1>3, <2>1
  <2>3. R[i + 1] = Apply(R[i], info, s[i + 1]) /\ Q[i + 1] = Apply(Q[i], info, t[i + 1])
    BY <1>1, <2>1 DEF NextPicture
  <2> QED
    BY <2>2, <2>3
<1>4. Nat \subseteq S
  <2> HIDE DEF S
  <2> QED
    BY <1>2, <1>3, SetInduction
<1>5. \A i \in 0 .. n : R[i] = Q[i]
  BY <1>4
<1> QED
  BY <1>5 DEF R, Q

\* The picture a sequence of commands ends with.
Run(info, s) == Rendering(info, s, Len(s))[Len(s)]

LEMMA RunNone ==
    ASSUME NEW info PROVE Run(info, <<>>) = Picture(info)
<1>1. Rendering(info, <<>>, 0)[0] = NextPicture(Rendering(info, <<>>, 0), info, <<>>, 0)
  BY RenderingSteps
<1> QED
  BY <1>1 DEF Run, NextPicture

\* One more command.
LEMMA RunOneMore ==
    ASSUME NEW info, NEW S, NEW s \in Seq(S), NEW c \in S
    PROVE  s \o <<c>> \in Seq(S) /\ Run(info, s \o <<c>>) = Apply(Run(info, s), info, c)
<1> DEFINE t == s \o <<c>>
           n == Len(s)
<1>1. /\ t \in Seq(S) /\ n \in Nat /\ Len(t) = n + 1 /\ t[n + 1] = c
      /\ \A i \in 1 .. n : s[i] = t[i]
  OBVIOUS
<1> HIDE DEF t, n
<1>2. n + 1 \in Nat /\ n + 1 \in 0 .. n + 1 /\ n <= n + 1 /\ n + 1 # 0 /\ n + 1 - 1 = n
      /\ n \in 0 .. n
  BY <1>1
<1>3. Rendering(info, t, n + 1)[n + 1]
        = NextPicture(Rendering(info, t, n + 1), info, t, n + 1)
  BY <1>2, RenderingSteps
<1>4. Rendering(info, s, n)[n] = Rendering(info, t, n + 1)[n]
  BY <1>1, <1>2, RenderingPrefix
<1>5. Run(info, t) = Apply(Run(info, s), info, c)
  BY <1>1, <1>2, <1>3, <1>4 DEF Run, NextPicture, n
<1> QED
  BY <1>1, <1>5 DEF t

\* A command that a plan has or leaves out.
LEMMA RunOptional ==
    ASSUME NEW info, NEW S, NEW s \in Seq(S), NEW stage, NEW c, NEW wanted \in BOOLEAN,
           stage = IF wanted THEN <<c>> ELSE <<>>, wanted => c \in S
    PROVE  /\ s \o stage \in Seq(S)
           /\ Run(info, s \o stage) = IF wanted THEN Apply(Run(info, s), info, c) ELSE Run(info, s)
<1>1. CASE wanted
  BY <1>1, RunOneMore
<1>2. CASE ~wanted
  <2>1. s \o <<>> = s
    OBVIOUS
  <2> QED
    BY <1>2, <2>1
<1> QED
  BY <1>1, <1>2

-----------------------------------------------------------------------------
(* Images: what each command does *)

Fields ==
    {"size", "orientation", "interpretation", "bandFormat", "alpha", "onWhite", "icc", "exif",
     "gps", "captureDate", "cicp", "format"}

\* q is p but for some of its fields.
SameBut(p, q, changed) ==
    DOMAIN q = Fields /\ \A field \in Fields \ changed : q[field] = p[field]

LEMMA LoadedPicture ==
    ASSUME NEW info PROVE DOMAIN Picture(info) = Fields
BY DEF Picture, Fields

LEMMA Autorotated ==
    ASSUME NEW p, DOMAIN p = Fields, NEW info
    PROVE  LET q == Apply(p, info, [cmd |-> "autorot"])
           IN  /\ SameBut(p, q, {"size", "orientation"})
               /\ q.size = IF p.orientation \in 5 .. 8 THEN <<p.size[2], p.size[1]>> ELSE p.size
               /\ q.orientation = 1
BY DEF Apply, SameBut, Fields

LEMMA Flattened ==
    ASSUME NEW p, DOMAIN p = Fields, NEW info, NEW c, c.cmd = "flatten"
    PROVE  LET q == Apply(p, info, c)
           IN  /\ SameBut(p, q, {"alpha", "onWhite"})
               /\ q.alpha = FALSE
               /\ c.background = White(p) /\ AlphaScale(p, c) = FullScale(p) => q.onWhite
BY DEF Apply, SameBut, Fields

LEMMA Transformed ==
    ASSUME NEW p, DOMAIN p = Fields, NEW info, NEW c, c.cmd = "icc_transform"
    PROVE  LET q == Apply(p, info, c)
           IN  /\ SameBut(p, q, {"icc", "interpretation", "bandFormat"})
               /\ q.icc = TRUE
               /\ q.bandFormat = IF c.depth = 16 THEN "ushort" ELSE "uchar"
BY DEF Apply, SameBut, Fields

LEMMA Converted ==
    ASSUME NEW p, DOMAIN p = Fields, NEW info, NEW c, c.cmd = "colourspace"
    PROVE  LET q == Apply(p, info, c)
           IN  /\ SameBut(p, q, {"interpretation", "bandFormat"})
               /\ q.bandFormat = "uchar"
BY DEF Apply, SameBut, Fields

LEMMA Resized ==
    ASSUME NEW p, DOMAIN p = Fields, NEW info, NEW c, c.cmd = "resize"
    PROVE  LET q == Apply(p, info, c)
           IN  SameBut(p, q, {"size"}) /\ q.size = c.size
BY DEF Apply, SameBut, Fields

\* What saving does: the format, and the bands and metadata it leaves.
SavedAs(p, q, info, c) ==
    /\ SameBut(p, q, {"format", "bandFormat", "alpha", "icc", "exif", "gps", "captureDate"})
    /\ q.format = c.format
    /\ c.format = "png" => q.bandFormat = p.bandFormat
    /\ q.alpha = (p.alpha /\ c.format # "jpeg" /\ (c.format = "webp" => info.transparent))
    /\ q.icc = (p.icc /\ "icc" \in c.keep)
    /\ q.exif = (p.exif /\ "exif" \in c.keep)
    /\ q.gps = (p.gps /\ "exif" \in c.keep)
    /\ q.captureDate = (p.captureDate /\ "exif" \in c.keep)

LEMMA Saved ==
    ASSUME NEW p, DOMAIN p = Fields, NEW info, NEW c, c.cmd = "save"
    PROVE  SavedAs(p, Apply(p, info, c), info, c)
BY DEF Apply, SameBut, Fields, SavedAs

-----------------------------------------------------------------------------
(* Images: the size *)

\* The edge that is scaled by its own length becomes the limit.
LEMMA ScaledLongest ==
    ASSUME NEW longest \in Nat, longest > 1920
    PROVE  Scaled(longest * 1920, longest) = 1920
<1> DEFINE a == 2 * (longest * 1920) + longest
           b == 2 * longest
           q == a \div b
<1>1. a = 3841 * longest /\ a \in Nat /\ b \in Nat \ {0}
  OBVIOUS
<1> HIDE DEF a, b
<1>2. q \in Nat /\ q * b <= a /\ a < q * b + b
  BY <1>1, Quotient
<1> HIDE DEF q
<1>3. q * b = (2 * q) * longest /\ b = 2 * longest
  BY <1>2 DEF b
<1>4. q <= 1920
  <2> SUFFICES ASSUME q >= 1921 PROVE FALSE
    BY <1>2
  <2>1. 3842 * longest <= (2 * q) * longest
    BY <1>2, Grows
  <2> QED
    BY <1>1, <1>2, <1>3, <2>1
<1>5. q >= 1920
  <2> SUFFICES ASSUME q <= 1919 PROVE FALSE
    BY <1>2
  <2>1. (2 * q) * longest <= 3838 * longest
    BY <1>2, Grows
  <2> QED
    BY <1>1, <1>2, <1>3, <2>1
<1>6. q = 1920
  BY <1>2, <1>4, <1>5
<1> QED
  BY <1>6 DEF Scaled, LongestOf, q, a, b

\* The other edge is scaled to within one unit of the longest.
LEMMA ScaledOther ==
    ASSUME NEW longest \in Nat, longest > 1920, NEW other \in Nat \ {0}, other <= longest
    PROVE  LET s == Scaled(other * 1920, longest)
           IN  s \in Nat /\ s <= 1920 /\ 1920 * other - s * longest \in -longest .. longest
<1> DEFINE a == 2 * (other * 1920) + longest
           b == 2 * longest
           q == a \div b
           s == Scaled(other * 1920, longest)
<1>1. a = 3840 * other + longest /\ a \in Nat /\ b \in Nat \ {0}
  OBVIOUS
<1>2. s = IF 1 > q THEN 1 ELSE q
  BY DEF Scaled, LongestOf
<1> HIDE DEF a, b, s
<1>3. q \in Nat /\ q * b <= a /\ a < q * b + b
  BY <1>1, Quotient
<1> HIDE DEF q
<1>4. q * b = 2 * (q * longest) /\ b = 2 * longest /\ q * longest \in Nat
  BY <1>3 DEF b
<1>5. q <= 1920
  <2> SUFFICES ASSUME q >= 1921 PROVE FALSE
    BY <1>3
  <2>1. 1921 * longest <= q * longest
    BY <1>3, Grows
  <2> QED
    BY <1>1, <1>3, <1>4, <2>1
<1>6. CASE q = 0
  <2>1. s = 1 /\ q * longest = 0 /\ s * longest = longest
    BY <1>2, <1>6
  <2> QED
    BY <1>1, <1>3, <1>4, <2>1 DEF s
<1>7. CASE q # 0
  <2>1. s = q
    BY <1>3, <1>2, <1>7
  <2>2. 1920 * other - q * longest \in -longest .. longest
    <3> DEFINE z == q * longest
    <3>1. 2 * z <= 3840 * other + longest /\ 3840 * other + longest < 2 * z + 2 * longest /\ z \in Nat
      BY <1>1, <1>3, <1>4
    <3> HIDE DEF z
    <3>2. 1920 * other - z \in -longest .. longest
      BY <3>1
    <3> QED
      BY <3>2 DEF z
  <2> QED
    BY <1>3, <1>5, <2>1, <2>2 DEF s
<1> QED
  BY <1>6, <1>7, <1>3

\* fitWithinLongestEdge keeps the shape, up to rounding.
LEMMA EdgeKeepsShape ==
    ASSUME NEW width \in Nat \ {0}, NEW height \in Nat \ {0}
    PROVE  LET fitted == FitWithinLongestEdge(<<width, height>>)
               longest == LongestOf(width, height)
           IN  /\ fitted[1] * height - fitted[2] * width \in -longest .. longest
               /\ fitted[1] <= 1920 /\ fitted[2] <= 1920
<1> DEFINE fitted == FitWithinLongestEdge(<<width, height>>)
           longest == LongestOf(width, height)
<1>1. longest \in Nat /\ width <= longest /\ height <= longest /\ longest \in {width, height}
  BY DEF LongestOf
<1>2. fitted = IF longest <= 1920 THEN <<width, height>>
               ELSE <<Scaled(width * 1920, longest), Scaled(height * 1920, longest)>>
  BY DEF FitWithinLongestEdge, MaxEmailPhotoDimension
<1> HIDE DEF fitted, longest
<1>3. CASE longest <= 1920
  <2>1. fitted[1] = width /\ fitted[2] = height
    BY <1>2, <1>3
  <2>2. width * height - height * width = 0
    OBVIOUS
  <2> QED
    BY <1>1, <1>3, <2>1, <2>2 DEF fitted, longest
<1>4. CASE longest > 1920
  <2>1. fitted[1] = Scaled(width * 1920, longest) /\ fitted[2] = Scaled(height * 1920, longest)
    BY <1>1, <1>2, <1>4
  <2>2. CASE width = longest
    <3>1. fitted[1] = 1920
      BY <1>4, <2>1, <2>2, ScaledLongest
    <3>2. /\ fitted[2] \in Nat /\ fitted[2] <= 1920
          /\ 1920 * height - fitted[2] * longest \in -longest .. longest
      BY <1>1, <1>4, <2>1, ScaledOther
    <3> QED
      BY <2>2, <3>1, <3>2 DEF fitted, longest
  <2>3. CASE height = longest
    <3>1. fitted[2] = 1920
      BY <1>4, <2>1, <2>3, ScaledLongest
    <3>2. /\ fitted[1] \in Nat /\ fitted[1] <= 1920
          /\ 1920 * width - fitted[1] * longest \in -longest .. longest
      BY <1>1, <1>4, <2>1, ScaledOther
    <3>3. fitted[1] * longest - 1920 * width \in -longest .. longest
      <4> DEFINE z == fitted[1] * longest
      <4>1. z \in Nat /\ 1920 * width - z \in -longest .. longest
        BY <1>1, <3>2
      <4> HIDE DEF z
      <4>2. z - 1920 * width \in -longest .. longest
        BY <1>1, <4>1
      <4> QED
        BY <4>2 DEF z
    <3> QED
      BY <2>3, <3>1, <3>2, <3>3 DEF fitted, longest
  <2> QED
    BY <1>1, <2>2, <2>3
<1> QED
  BY <1>1, <1>3, <1>4

-----------------------------------------------------------------------------
(* Images: the plan *)

ColourCommand(info, operation) ==
    IF info.interpretation \in Perceptual THEN [cmd |-> "colourspace"]
    ELSE [cmd |-> "icc_transform", depth |-> ICCDepth(info, operation)]

LastFlatten(info) == [cmd |-> "flatten", background |-> FlattenBackground(info), maxAlpha |-> 0]

Fitted(info) == FitWithinLongestEdge(OrientedDimensions(info))
Resizes(info, operation) == operation = "email_photo" /\ Fitted(info) # OrientedDimensions(info)

\* The picture after each stage of a plan.
Upright(info) == Apply(Picture(info), info, [cmd |-> "autorot"])

Opaque(info, operation) ==
    IF FlattenFirst(info, operation)
    THEN Apply(Upright(info), info, PreNormalizationFlatten(info)) ELSE Upright(info)

Coloured(info, operation) ==
    IF NeedsColorNormalization(info)
    THEN Apply(Opaque(info, operation), info, ColourCommand(info, operation))
    ELSE Opaque(info, operation)

Whitened(info, operation) ==
    IF FlattenLast(info, operation)
    THEN Apply(Coloured(info, operation), info, LastFlatten(info)) ELSE Coloured(info, operation)

Sized(info, operation) ==
    IF Resizes(info, operation)
    THEN Apply(Whitened(info, operation), info, [cmd |-> "resize", size |-> Fitted(info)])
    ELSE Whitened(info, operation)

\* The commands of a plan are its stages.
LEMMA RenderedInStages ==
    ASSUME NEW info, NEW operation, NEW policy
    PROVE  Rendered(info, BuildImagePlan(info, operation, policy).plan)
              = Apply(Sized(info, operation), info, SaveCommand(info, operation, policy))
<1> DEFINE c1 == [cmd |-> "autorot"]
           c2 == PreNormalizationFlatten(info)
           c3 == ColourCommand(info, operation)
           c4 == LastFlatten(info)
           c5 == [cmd |-> "resize", size |-> Fitted(info)]
           c6 == SaveCommand(info, operation, policy)
           w2 == FlattenFirst(info, operation)
           w3 == NeedsColorNormalization(info)
           w4 == FlattenLast(info, operation)
           w5 == Resizes(info, operation)
           t2 == IF w2 THEN <<c2>> ELSE <<>>
           t3 == IF w3 THEN <<c3>> ELSE <<>>
           t4 == IF w4 THEN <<c4>> ELSE <<>>
           t5 == IF w5 THEN <<c5>> ELSE <<>>
           S == {c1, c2, c3, c4, c5, c6}
<1>1. w2 \in BOOLEAN /\ w3 \in BOOLEAN /\ w4 \in BOOLEAN /\ w5 \in BOOLEAN
  BY DEF FlattenFirst, NeedsColorNormalization, FlattenLast, Resizes
<1>2. ColorCommands(info, operation) = t3
  <2>1. info.interpretation \in Perceptual => w3
    BY DEF NeedsColorNormalization
  <2> QED
    BY <2>1 DEF ColorCommands, ColourCommand
<1>3. ResizeCommands(info, operation) = t5
  BY DEF ResizeCommands, Resizes, Fitted
<1>4. Commands(info, operation, policy) = <<c1>> \o t2 \o t3 \o t4 \o t5 \o <<c6>>
  BY <1>2, <1>3, Zenon DEF Commands, LastFlatten
<1>5. c1 \in S /\ c2 \in S /\ c3 \in S /\ c4 \in S /\ c5 \in S /\ c6 \in S
  OBVIOUS
<1>6. Opaque(info, operation) = IF w2 THEN Apply(Upright(info), info, c2) ELSE Upright(info)
  BY DEF Opaque
<1>7. Coloured(info, operation) = IF w3 THEN Apply(Opaque(info, operation), info, c3)
                                  ELSE Opaque(info, operation)
  BY DEF Coloured
<1>8. Whitened(info, operation) = IF w4 THEN Apply(Coloured(info, operation), info, c4)
                                ELSE Coloured(info, operation)
  BY DEF Whitened
<1>9. Sized(info, operation) = IF w5 THEN Apply(Whitened(info, operation), info, c5)
                               ELSE Whitened(info, operation)
  BY DEF Sized
<1>10. Upright(info) = Apply(Picture(info), info, c1)
  BY DEF Upright
<1> DEFINE s1 == <<c1>>
           s2 == s1 \o t2
           s3 == s2 \o t3
           s4 == s3 \o t4
           s5 == s4 \o t5
<1> HIDE DEF S, c1, c2, c3, c4, c5, c6, w2, w3, w4, w5
<1>11. s1 \in Seq(S) /\ Run(info, s1) = Upright(info)
  <2>1. <<>> \in Seq(S) /\ <<>> \o <<c1>> = <<c1>>
    OBVIOUS
  <2>2. <<>> \o <<c1>> \in Seq(S) /\ Run(info, <<>> \o <<c1>>) = Apply(Run(info, <<>>), info, c1)
    BY <1>5, <2>1, RunOneMore
  <2> QED
    BY <1>10, <2>1, <2>2, RunNone
<1>12. t2 = (IF w2 THEN <<c2>> ELSE <<>>) /\ t3 = (IF w3 THEN <<c3>> ELSE <<>>)
       /\ t4 = (IF w4 THEN <<c4>> ELSE <<>>) /\ t5 = (IF w5 THEN <<c5>> ELSE <<>>)
  OBVIOUS
<1> HIDE DEF s1, t2, t3, t4, t5
<1>13. s2 \in Seq(S) /\ Run(info, s2) = Opaque(info, operation)
  BY <1>1, <1>5, <1>6, <1>11, <1>12, RunOptional
<1> HIDE DEF s2
<1>14. s3 \in Seq(S) /\ Run(info, s3) = Coloured(info, operation)
  BY <1>1, <1>5, <1>7, <1>12, <1>13, RunOptional
<1> HIDE DEF s3
<1>15. s4 \in Seq(S) /\ Run(info, s4) = Whitened(info, operation)
  BY <1>1, <1>5, <1>8, <1>12, <1>14, RunOptional
<1> HIDE DEF s4
<1>16. s5 \in Seq(S) /\ Run(info, s5) = Sized(info, operation)
  BY <1>1, <1>5, <1>9, <1>12, <1>15, RunOptional
<1> HIDE DEF s5
<1>17. Run(info, s5 \o <<c6>>) = Apply(Sized(info, operation), info, c6)
  BY <1>5, <1>16, RunOneMore
<1>18. Commands(info, operation, policy) = s5 \o <<c6>>
  BY <1>4 DEF s1, s2, s3, s4, s5
<1>19. Rendered(info, BuildImagePlan(info, operation, policy).plan)
          = Run(info, Commands(info, operation, policy))
  BY DEF Rendered, BuildImagePlan, Run
<1> QED
  BY <1>17, <1>18, <1>19 DEF c6

-----------------------------------------------------------------------------
(* Images: the picture after each stage *)

\* What no stage before the last changes.
Carries(p, info) ==
    /\ DOMAIN p = Fields /\ p.orientation = 1 /\ p.cicp = info.cicp
    /\ p.exif = info.exif /\ p.gps = info.gps /\ p.captureDate = info.captureDate

\* A change of other fields keeps it.
LEMMA CarriedOn ==
    ASSUME NEW p, NEW q, NEW info, NEW changed, Carries(p, info), SameBut(p, q, changed),
           changed \cap {"orientation", "cicp", "exif", "gps", "captureDate"} = {}
    PROVE  Carries(q, info)
<1>1. {"orientation", "cicp", "exif", "gps", "captureDate"} \subseteq Fields \ changed
  BY DEF Fields
<1> QED
  BY <1>1 DEF Carries, SameBut

LEMMA UprightPicture ==
    ASSUME NEW info \in Header
    PROVE  LET p == Upright(info)
           IN  /\ Carries(p, info) /\ p.size = OrientedDimensions(info)
               /\ p.interpretation = info.interpretation /\ p.bandFormat = info.bandFormat
               /\ p.alpha = HasAlpha(info) /\ p.onWhite /\ p.icc = info.icc
<1> DEFINE o == Picture(info)
           p == Upright(info)
<1>1. /\ DOMAIN o = Fields /\ o.size = <<info.width, info.height>>
      /\ o.orientation = info.orientation /\ o.interpretation = info.interpretation
      /\ o.bandFormat = info.bandFormat /\ o.alpha = HasAlpha(info) /\ o.onWhite = TRUE
      /\ o.icc = info.icc /\ o.exif = info.exif /\ o.gps = info.gps
      /\ o.captureDate = info.captureDate /\ o.cicp = info.cicp
  BY LoadedPicture DEF Picture
<1> HIDE DEF o
<1>2. /\ SameBut(o, p, {"size", "orientation"})
      /\ p.size = IF o.orientation \in 5 .. 8 THEN <<o.size[2], o.size[1]>> ELSE o.size
      /\ p.orientation = 1
  BY <1>1, Autorotated DEF Upright, o
<1> HIDE DEF p
<1>3. /\ p.interpretation = o.interpretation /\ p.bandFormat = o.bandFormat /\ p.alpha = o.alpha
      /\ p.onWhite = o.onWhite /\ p.icc = o.icc /\ p.exif = o.exif /\ p.gps = o.gps
      /\ p.captureDate = o.captureDate /\ p.cicp = o.cicp /\ DOMAIN p = Fields
  BY <1>2 DEF SameBut, Fields
<1>4. p.size = OrientedDimensions(info)
  BY <1>1, <1>2 DEF OrientedDimensions
<1> QED
  BY <1>1, <1>2, <1>3, <1>4 DEF Carries, p

\* Flattened before the colours are converted: onto white, at the full scale of alpha.
LEMMA OpaquePicture ==
    ASSUME NEW info \in Header, NEW operation, Accepted(info, operation)
    PROVE  LET p == Opaque(info, operation)
           IN  /\ Carries(p, info) /\ p.size = OrientedDimensions(info)
               /\ p.interpretation = info.interpretation /\ p.bandFormat = info.bandFormat
               /\ p.alpha = (HasAlpha(info) /\ ~FlattenFirst(info, operation))
               /\ p.onWhite /\ p.icc = info.icc
<1> DEFINE u == Upright(info)
           c == PreNormalizationFlatten(info)
           p == Opaque(info, operation)
<1>1. /\ Carries(u, info) /\ u.size = OrientedDimensions(info)
      /\ u.interpretation = info.interpretation /\ u.bandFormat = info.bandFormat
      /\ u.alpha = HasAlpha(info) /\ u.onWhite /\ u.icc = info.icc
  BY UprightPicture
<1> HIDE DEF u
<1>2. CASE ~FlattenFirst(info, operation)
  <2>1. Opaque(info, operation) = u /\ HasAlpha(info) \in BOOLEAN
    BY <1>2 DEF Opaque, u, HasAlpha
  <2> QED
    BY <1>1, <1>2, <2>1
<1>3. CASE FlattenFirst(info, operation)
  <2>1. p = Apply(u, info, c) /\ c.cmd = "flatten" /\ DOMAIN u = Fields
    BY <1>1, <1>3 DEF Opaque, u, PreNormalizationFlatten, Carries
  <2>2. CanFlattenFirst(info) /\ info.interpretation \in Grey \cup {"cmyk"}
    BY <1>3 DEF FlattenFirst, Accepted, AlphaLost, NeedsColorNormalization
  <2>3. c.background = White(u)
    BY <1>1, <2>2 DEF PreNormalizationFlatten, White, Wide, Grey
  <2>4. AlphaScale(u, c) = FullScale(u)
    BY <1>1, <2>2 DEF PreNormalizationFlatten, AlphaScale, FullScale, CanFlattenFirst, Wide, Grey
  <2> HIDE DEF c, p
  <2>5. SameBut(u, p, {"alpha", "onWhite"}) /\ p.alpha = FALSE /\ p.onWhite
    BY <2>1, <2>3, <2>4, Flattened
  <2>6. /\ p.size = u.size /\ p.interpretation = u.interpretation
        /\ p.bandFormat = u.bandFormat /\ p.icc = u.icc
    BY <2>5 DEF SameBut, Fields
  <2>7. Carries(p, info)
    BY <1>1, <2>5, CarriedOn
  <2> QED
    BY <1>1, <1>3, <2>5, <2>6, <2>7 DEF p
<1> QED
  BY <1>2, <1>3

\* Colours are converted at the depth the expectation asks for, with a profile for the output.
LEMMA ColouredPicture ==
    ASSUME NEW info \in Header, AsLoaded(info), NEW operation, Accepted(info, operation)
    PROVE  LET p == Coloured(info, operation)
           IN  /\ Carries(p, info) /\ p.size = OrientedDimensions(info)
               /\ p.alpha = (HasAlpha(info) /\ ~FlattenFirst(info, operation))
               /\ p.onWhite
               /\ OutputICC(info) => p.icc
               /\ operation = "lossless_image" => p.bandFormat = info.bandFormat
               /\ ~NeedsColorNormalization(info) =>
                     p.interpretation = info.interpretation /\ p.bandFormat = info.bandFormat
<1> DEFINE o == Opaque(info, operation)
           c == ColourCommand(info, operation)
           p == Coloured(info, operation)
<1>1. /\ Carries(o, info) /\ o.size = OrientedDimensions(info)
      /\ o.interpretation = info.interpretation /\ o.bandFormat = info.bandFormat
      /\ o.alpha = (HasAlpha(info) /\ ~FlattenFirst(info, operation))
      /\ o.onWhite /\ o.icc = info.icc
  BY OpaquePicture
<1>2. p = IF NeedsColorNormalization(info) THEN Apply(o, info, c) ELSE o
  BY DEF Coloured
<1>3. DOMAIN o = Fields
  BY <1>1 DEF Carries
<1> HIDE DEF o, p
<1>4. CASE ~NeedsColorNormalization(info)
  <2>1. p = o
    BY <1>2, <1>4
  <2>2. OutputICC(info) => info.icc
    BY <1>4 DEF OutputICC, NeedsColorNormalization
  <2> QED
    BY <1>1, <2>1, <2>2 DEF p
<1>5. CASE NeedsColorNormalization(info) /\ info.interpretation \in Perceptual
  <2>1. p = Apply(o, info, c) /\ c.cmd = "colourspace"
    BY <1>2, <1>5 DEF ColourCommand
  <2>2. SameBut(o, p, {"interpretation", "bandFormat"}) /\ p.bandFormat = "uchar"
    BY <1>3, <2>1, Converted
  <2>3. p.size = o.size /\ p.alpha = o.alpha /\ p.onWhite = o.onWhite
    BY <2>2 DEF SameBut, Fields
  <2>4. Carries(p, info)
    BY <1>1, <2>2, CarriedOn
  <2>5. info.bandFormat = "uchar"
    BY <1>5 DEF AsLoaded, Accepted, Perceptual, Wide
  <2>6. ~OutputICC(info)
    BY <1>5 DEF OutputICC, Perceptual
  <2> QED
    BY <1>1, <1>5, <2>2, <2>3, <2>4, <2>5, <2>6 DEF p
<1>6. CASE NeedsColorNormalization(info) /\ info.interpretation \notin Perceptual
  <2>1. /\ p = Apply(o, info, c) /\ c.cmd = "icc_transform"
        /\ c.depth = ICCDepth(info, operation)
    BY <1>2, <1>6 DEF ColourCommand
  <2> HIDE DEF c
  <2>2. /\ SameBut(o, p, {"icc", "interpretation", "bandFormat"}) /\ p.icc = TRUE
        /\ p.bandFormat = IF c.depth = 16 THEN "ushort" ELSE "uchar"
    BY <1>3, <2>1, Transformed
  <2>3. p.size = o.size /\ p.alpha = o.alpha /\ p.onWhite = o.onWhite
    BY <2>2 DEF SameBut, Fields
  <2>4. Carries(p, info)
    BY <1>1, <2>2, CarriedOn
  <2>5. operation = "lossless_image" => p.bandFormat = info.bandFormat
    BY <2>1, <2>2 DEF ICCDepth, Accepted
  <2> QED
    BY <1>1, <1>6, <2>2, <2>3, <2>4, <2>5 DEF p
<1> QED
  BY <1>4, <1>5, <1>6

\* Flattened last: the colours are still the image's own, and so are white and alpha's scale.
LEMMA WhitenedPicture ==
    ASSUME NEW info \in Header, AsLoaded(info), NEW operation, Accepted(info, operation)
    PROVE  LET p == Whitened(info, operation)
           IN  /\ Carries(p, info) /\ p.size = OrientedDimensions(info)
               /\ p.alpha = (HasAlpha(info) /\ operation \notin JPEGPhoto)
               /\ p.onWhite
               /\ OutputICC(info) => p.icc
               /\ operation = "lossless_image" => p.bandFormat = info.bandFormat
<1> DEFINE o == Coloured(info, operation)
           c == LastFlatten(info)
           p == Whitened(info, operation)
<1>1. /\ Carries(o, info) /\ o.size = OrientedDimensions(info)
      /\ o.alpha = (HasAlpha(info) /\ ~FlattenFirst(info, operation))
      /\ o.onWhite
      /\ OutputICC(info) => o.icc
      /\ operation = "lossless_image" => o.bandFormat = info.bandFormat
      /\ ~NeedsColorNormalization(info) =>
            o.interpretation = info.interpretation /\ o.bandFormat = info.bandFormat
  BY ColouredPicture
<1>2. p = IF FlattenLast(info, operation) THEN Apply(o, info, c) ELSE o
  BY DEF Whitened
<1>3. DOMAIN o = Fields
  BY <1>1 DEF Carries
<1> HIDE DEF o, p
<1>4. CASE ~FlattenLast(info, operation)
  <2>1. p = o
    BY <1>2, <1>4
  <2>2. (HasAlpha(info) /\ ~FlattenFirst(info, operation))
            = (HasAlpha(info) /\ operation \notin JPEGPhoto)
    BY <1>4 DEF FlattenFirst, FlattenLast
  <2> QED
    BY <1>1, <2>1, <2>2 DEF p
<1>5. CASE FlattenLast(info, operation)
  <2>1. p = Apply(o, info, c) /\ c.cmd = "flatten"
    BY <1>2, <1>5 DEF LastFlatten
  <2>2. /\ ~NeedsColorNormalization(info) /\ operation \in JPEGPhoto
        /\ info.interpretation \in Grey \cup RGB /\ info.interpretation # "cmyk"
    BY <1>5 DEF FlattenLast, NeedsColorNormalization, Accepted, Perceptual, Grey, RGB
  <2>3. info.bandFormat = "ushort" <=> info.interpretation \in Wide
    BY <2>2 DEF AsLoaded, Accepted
  <2>4. c.background = White(o)
    BY <1>1, <2>2 DEF LastFlatten, FlattenBackground, White, Wide
  <2>5. AlphaScale(o, c) = FullScale(o)
    BY <1>1, <2>2, <2>3 DEF LastFlatten, AlphaScale, FullScale
  <2> HIDE DEF c
  <2>6. SameBut(o, p, {"alpha", "onWhite"}) /\ p.alpha = FALSE /\ p.onWhite
    BY <1>3, <2>1, <2>4, <2>5, Flattened
  <2>7. p.size = o.size /\ p.bandFormat = o.bandFormat /\ p.icc = o.icc
    BY <2>6 DEF SameBut, Fields
  <2>8. Carries(p, info)
    BY <1>1, <2>6, CarriedOn
  <2>9. (HasAlpha(info) /\ operation \notin JPEGPhoto) = FALSE
    BY <2>2
  <2> QED
    BY <1>1, <2>6, <2>7, <2>8, <2>9 DEF p
<1> QED
  BY <1>4, <1>5

LEMMA SizedPicture ==
    ASSUME NEW info \in Header, AsLoaded(info), NEW operation, Accepted(info, operation)
    PROVE  LET p == Sized(info, operation)
           IN  /\ Carries(p, info)
               /\ p.size = IF operation = "email_photo" THEN Fitted(info)
                           ELSE OrientedDimensions(info)
               /\ p.alpha = (HasAlpha(info) /\ operation \notin JPEGPhoto)
               /\ p.onWhite
               /\ OutputICC(info) => p.icc
               /\ operation = "lossless_image" => p.bandFormat = info.bandFormat
<1> DEFINE o == Whitened(info, operation)
           c == [cmd |-> "resize", size |-> Fitted(info)]
           p == Sized(info, operation)
<1>1. /\ Carries(o, info) /\ o.size = OrientedDimensions(info)
      /\ o.alpha = (HasAlpha(info) /\ operation \notin JPEGPhoto)
      /\ o.onWhite
      /\ OutputICC(info) => o.icc
      /\ operation = "lossless_image" => o.bandFormat = info.bandFormat
  BY WhitenedPicture
<1>2. p = IF Resizes(info, operation) THEN Apply(o, info, c) ELSE o
  BY DEF Sized
<1>3. DOMAIN o = Fields /\ c.cmd = "resize" /\ c.size = Fitted(info)
  BY <1>1 DEF Carries
<1> HIDE DEF o, p, c
<1>4. CASE ~Resizes(info, operation)
  <2>1. p = o
    BY <1>2, <1>4
  <2>2. operation = "email_photo" => Fitted(info) = OrientedDimensions(info)
    BY <1>4 DEF Resizes
  <2> QED
    BY <1>1, <2>1, <2>2 DEF p
<1>5. CASE Resizes(info, operation)
  <2>1. SameBut(o, p, {"size"}) /\ p.size = c.size
    BY <1>2, <1>3, <1>5, Resized
  <2>2. /\ p.alpha = o.alpha /\ p.onWhite = o.onWhite /\ p.bandFormat = o.bandFormat
        /\ p.icc = o.icc
    BY <2>1 DEF SameBut, Fields
  <2>3. Carries(p, info)
    BY <1>1, <2>1, CarriedOn
  <2>4. operation = "email_photo"
    BY <1>5 DEF Resizes
  <2> QED
    BY <1>1, <1>3, <2>1, <2>2, <2>3, <2>4 DEF p
<1> QED
  BY <1>4, <1>5

\* A planned image passes its validation, transparency is flattened onto white, and a photo
\* keeps its shape.
LEMMA ImageKept ==
    ASSUME NEW info \in Header, AsLoaded(info), NEW operation \in ImageOperation,
           NEW policy, ImagePlanRefusal(info, operation) = "none",
           NEW plan, plan = BuildImagePlan(info, operation, policy).plan
    PROVE  LET output == Rendered(info, plan)
           IN  /\ ImageIssue(plan.expected, output) = "none" /\ output.onWhite
               /\ output.size = IF operation = "email_photo" THEN Fitted(info)
                                ELSE OrientedDimensions(info)
<1> DEFINE p == Sized(info, operation)
           c == SaveCommand(info, operation, policy)
           q == Rendered(info, plan)
           e == plan.expected
           keeps == KeepsCaptureDate(info, policy)
<1>1. Accepted(info, operation)
  BY AcceptedImages
<1>2. /\ Carries(p, info)
      /\ p.size = IF operation = "email_photo" THEN Fitted(info) ELSE OrientedDimensions(info)
      /\ p.alpha = (HasAlpha(info) /\ operation \notin JPEGPhoto)
      /\ p.onWhite
      /\ OutputICC(info) => p.icc
      /\ operation = "lossless_image" => p.bandFormat = info.bandFormat
  BY <1>1, SizedPicture
<1>3. q = Apply(p, info, c)
  BY RenderedInStages
<1>4. /\ c.cmd = "save" /\ c.format = Lookup(operation).container
      /\ c.keep = MetadataKeep(info, policy)
  BY DEF SaveCommand
<1>5. c.format = IF operation \in JPEGPhoto THEN "jpeg"
                 ELSE IF operation = "smaller_photo" THEN "webp" ELSE "png"
  BY <1>4, ImageEntries DEF ImageOperation, JPEGPhoto
<1>6. ("icc" \in c.keep <=> OutputICC(info)) /\ ("exif" \in c.keep <=> keeps)
  BY <1>4 DEF MetadataKeep
<1>7. e = ImageExpectation(info, operation, policy)
  BY DEF BuildImagePlan
<1>8. /\ e.format = c.format
      /\ e.size = IF operation = "email_photo" THEN Fitted(info) ELSE OrientedDimensions(info)
      /\ e.bandFormat = IF operation = "lossless_image" THEN info.bandFormat ELSE "any"
      /\ e.icc = OutputICC(info) /\ e.captureDate = keeps
  BY <1>4, <1>7 DEF ImageExpectation, Fitted
<1>9. e.alpha = IF operation \in JPEGPhoto THEN FALSE
                ELSE IF operation = "smaller_photo" THEN HasAlpha(info) /\ info.transparent
                ELSE HasAlpha(info)
  <2> DEFINE a == CASE operation \in JPEGPhoto -> FALSE
                    [] operation = "smaller_photo" -> HasAlpha(info) /\ info.transparent
                    [] operation = "lossless_image" -> HasAlpha(info)
             f == Lookup(operation).container
             s == IF operation = "email_photo" THEN FitWithinLongestEdge(OrientedDimensions(info))
                  ELSE OrientedDimensions(info)
             b == IF operation = "lossless_image" THEN info.bandFormat ELSE "any"
  <2>1. e.alpha = a
    <3>1. e = [format |-> f, size |-> s, alpha |-> a, bandFormat |-> b, icc |-> OutputICC(info),
               captureDate |-> keeps]
      BY <1>7, Zenon DEF ImageExpectation
    <3> HIDE DEF e, a, f, s, b, keeps
    <3> QED
      BY <3>1
  <2> HIDE DEF e
  <2>2. CASE operation \in JPEGPhoto
    BY <2>1, <2>2 DEF JPEGPhoto
  <2>3. CASE operation = "smaller_photo"
    BY <2>1, <2>3 DEF JPEGPhoto
  <2>4. CASE operation = "lossless_image"
    BY <2>1, <2>4 DEF JPEGPhoto
  <2> QED
    BY <2>2, <2>3, <2>4 DEF ImageOperation, JPEGPhoto
<1>10. DOMAIN p = Fields
  BY <1>2 DEF Carries
<1> HIDE DEF p, c, q, e, keeps
<1>11. SavedAs(p, q, info, c)
  BY <1>3, <1>4, <1>10, Saved
<1>12. /\ q.size = p.size /\ q.orientation = p.orientation /\ q.onWhite = p.onWhite
       /\ q.cicp = p.cicp
  BY <1>11 DEF SavedAs, SameBut, Fields
<1>13. q.format = e.format /\ q.size = e.size /\ q.orientation = 1 /\ SupportedCICP(q.cicp)
  BY <1>1, <1>2, <1>8, <1>11, <1>12 DEF SavedAs, Carries, Accepted
<1>14. q.alpha = e.alpha
  <2>1. HasAlpha(info) \in BOOLEAN /\ info.transparent \in BOOLEAN
    BY DEF HasAlpha, Header
  <2>2. CASE operation \in JPEGPhoto
    BY <1>2, <1>5, <1>9, <1>11, <2>2 DEF SavedAs
  <2>3. CASE operation \notin JPEGPhoto /\ operation = "smaller_photo"
    BY <1>2, <1>5, <1>9, <1>11, <2>1, <2>3 DEF SavedAs
  <2>4. CASE operation \notin JPEGPhoto /\ operation # "smaller_photo"
    BY <1>2, <1>5, <1>9, <1>11, <2>1, <2>4 DEF SavedAs
  <2> QED
    BY <2>2, <2>3, <2>4
<1>15. e.bandFormat = "any" \/ q.bandFormat = e.bandFormat
  BY <1>2, <1>5, <1>8, <1>11 DEF SavedAs, JPEGPhoto
<1>16. q.icc = e.icc
  <2>1. OutputICC(info) \in BOOLEAN
    BY DEF OutputICC, Header
  <2> QED
    BY <1>2, <1>6, <1>8, <1>11, <2>1 DEF SavedAs
<1>17. keeps => info.captureDate /\ info.exif /\ ~info.gps
  BY DEF keeps, KeepsCaptureDate, AsLoaded
<1>18. keeps \in BOOLEAN
  BY DEF keeps, KeepsCaptureDate
<1>19. ~q.gps /\ q.exif = e.captureDate /\ q.captureDate = e.captureDate
  BY <1>2, <1>6, <1>8, <1>11, <1>17, <1>18 DEF SavedAs, Carries
<1> DEFINE checks == <<
        <<q.format # e.format, "invalid-output-format">>,
        <<q.size # e.size, "invalid-output-dimensions">>,
        <<q.orientation # 1, "invalid-output-orientation">>,
        <<q.alpha # e.alpha, "invalid-output-alpha">>,
        <<e.bandFormat # "any" /\ q.bandFormat # e.bandFormat, "invalid-output-precision">>,
        <<~SupportedCICP(q.cicp), "invalid-output-color">>,
        <<\/ q.gps \/ q.icc # e.icc
          \/ q.exif # e.captureDate
          \/ q.captureDate # e.captureDate, "invalid-output-metadata">>>>
<1>20. ImageIssue(e, q) = FirstOf(checks)
  BY DEF ImageIssue
<1>21. /\ Len(checks) = 7 /\ Len(checks) \in Nat
       /\ ~checks[1][1] /\ ~checks[2][1] /\ ~checks[3][1] /\ ~checks[4][1]
       /\ ~checks[5][1] /\ ~checks[6][1] /\ ~checks[7][1]
  BY <1>13, <1>14, <1>15, <1>16, <1>19
<1> HIDE DEF checks
<1>22. \A i \in 1 .. Len(checks) : ~checks[i][1]
  BY <1>21
<1>23. ImageIssue(e, q) = "none"
  BY <1>20, <1>21, <1>22, ChecksPass
<1> QED
  BY <1>2, <1>12, <1>23 DEF e, q

-----------------------------------------------------------------------------
(* Validation before the conversion *)

\* An accepted image: its plan is not refused.
LEMMA ImageValid ==
    ASSUME NEW f, f.engine = "image", NEW operation \in Operations,
           ValidateOperation(operation, f) = "none"
    PROVE  operation \in ImageOperation /\ ImagePlanRefusal(f.data, operation) = "none"
<1> DEFINE content == ValidateContent(f.data)
           refusal == ImagePlanRefusal(f.data, operation)
           c1 == <<content # "none", content>>
           c2 == <<refusal # "none", refusal>>
           checks == <<c1, c2>>
<1>1. KindOf(f) = "image"
  BY DEF KindOf
<1>2. KindOf(f) \in Lookup(operation).accepts /\ FirstOf(checks) = "none"
  BY DEF ValidateOperation
<1>3. operation \in ImageOperation
  BY <1>1, <1>2, ImageEntries
<1>4. /\ (c1[1] => c1[2] # "none") /\ (c2[1] => c2[2] # "none")
      /\ (c2[1] <=> refusal # "none")
  OBVIOUS
<1> HIDE DEF c1, c2, refusal
<1>5. Len(checks) = 2 /\ checks[1] = c1 /\ checks[2] = c2
  OBVIOUS
<1> HIDE DEF checks
<1>6. \A i \in 1 .. Len(checks) : checks[i][1] => checks[i][2] # "none"
  BY <1>4, <1>5
<1>7. \A i \in 1 .. Len(checks) : ~checks[i][1]
  BY <1>2, <1>5, <1>6, ChecksPass
<1>8. ~c2[1]
  BY <1>5, <1>7
<1> QED
  BY <1>3, <1>4, <1>8 DEF refusal

\* An accepted file of audio or video: only missing hardware may refuse its plan.
LEMMA MediaValid ==
    ASSUME NEW f, f.engine = "media", KindOf(f) # "none", NEW operation \in Operations,
           ValidateOperation(operation, f) = "none", NEW mode, NEW readiness
    PROVE  /\ operation \in VideoOperation \cup AudioOperation
           /\ BuildMediaPlan(operation, f.data, mode, readiness).refusal
                 \in {"none", "acceleration_unavailable"}
<1>1. KindOf(f) \in {"video", "audio"}
  BY DEF KindOf, MediaKind
<1>2. /\ KindOf(f) \in Lookup(operation).accepts
      /\ BuildMediaPlan(operation, f.data, "cpu", NotReady).refusal = "none"
  BY DEF ValidateOperation
<1>3. operation \in VideoOperation \cup AudioOperation
  BY <1>1, <1>2, MediaEntries
<1>4. CASE operation \in VideoOperation
  <2> DEFINE selection == SelectStreams(f.data)
             smaller == operation = "smaller_video"
  <2>1. \A m, r : BuildMediaPlan(operation, f.data, m, r)
                    = BuildVideoPlan(f.data, selection, smaller, m, r)
    BY <1>4 DEF BuildMediaPlan, VideoOperation
  <2> HIDE DEF selection, smaller
  <2>2. BuildVideoPlan(f.data, selection, smaller, "cpu", NotReady).refusal = "none"
    BY <1>2, <2>1
  <2>3. BuildVideoPlan(f.data, selection, smaller, mode, readiness).refusal
            \in {"none", "acceleration_unavailable"}
    BY <2>2 DEF BuildVideoPlan, Refused, Planned
  <2> QED
    BY <1>3, <2>1, <2>3
<1>5. CASE operation \in AudioOperation
  <2>1. BuildMediaPlan(operation, f.data, mode, readiness)
            = BuildMediaPlan(operation, f.data, "cpu", NotReady)
    BY <1>5 DEF BuildMediaPlan, AudioOperation
  <2> QED
    BY <1>2, <1>3, <2>1
<1> QED
  BY <1>3, <1>4, <1>5

\* What an inspection offers.
LEMMA Offers ==
    ASSUME NEW f
    PROVE  LET made == InspectDetected(f)
           IN  /\ \A operation \in Operations :
                     operation \in made.compatible <=> ValidateOperation(operation, f) = "none"
               /\ made.compatible \subseteq Operations
               /\ made.compatible = {} => made = NoOffer
               /\ made.compatible # {} => made.recommended \in made.compatible
<1> DEFINE kind == KindOf(f)
           valid == {operation \in Compatible(kind) : ValidateOperation(operation, f) = "none"}
           best == IF valid = {} THEN "none"
                   ELSE IF Recommended(kind) \in valid THEN Recommended(kind)
                   ELSE FirstPresented(valid)
           made == InspectDetected(f)
<1>1. made = [compatible |-> valid, recommended |-> best]
  BY DEF InspectDetected
<1>2. \A operation \in Operations : ValidateOperation(operation, f) = "none" =>
            kind \in Lookup(operation).accepts
  BY DEF ValidateOperation
<1>3. /\ \A operation \in Operations :
            operation \in valid <=> ValidateOperation(operation, f) = "none"
      /\ valid \subseteq Operations
  BY <1>2 DEF Compatible
<1>4. valid # {} => best \in valid
  BY <1>3, FirstPresentedIn
<1>5. valid = {} => best = "none"
  OBVIOUS
<1> HIDE DEF valid, best, made
<1> QED
  BY <1>1, <1>3, <1>4, <1>5 DEF made, NoOffer

-----------------------------------------------------------------------------
(* The inductive invariant *)

FileType == [engine : {"image"}, data : ImageFile] \cup [engine : {"media"}, data : MediaFile]

\* An offer is what the inspection of this file makes.
OfferMade == offer # NoOffer => KindOf(file) # "none" /\ offer = InspectDetected(file)

\* A plan is one of this file and of an operation that was offered.
PlannedAs ==
    result.stage = "planned" =>
        /\ chosen \in offer.compatible
        /\ file.engine = "image" =>
             \E policy \in {"strip", "preserve_when_safe"} :
                result.plan = BuildImagePlan(file.data, chosen, policy).plan
        /\ file.engine = "media" =>
             \E mode \in Modes, readiness \in Readiness :
                /\ BuildMediaPlan(chosen, file.data, mode, readiness).refusal = "none"
                /\ result.plan = BuildMediaPlan(chosen, file.data, mode, readiness).plan

PlanInv ==
    file \in FileType /\ OfferMade /\ PlannedAs /\ PlanKeepsItsPromise /\ OfferIsHonest

LEMMA PlanInit == Init => PlanInv
BY DEF Init, PlanInv, FileType, OfferMade, PlannedAs, PlanKeepsItsPromise, OfferIsHonest, NoResult

LEMMA InspectStep ==
    ASSUME PlanInv, Inspect
    PROVE  PlanInv'
<1> DEFINE made == InspectDetected(file)
<1>1. /\ (offer' # NoOffer => KindOf(file) # "none" /\ offer' = made)
      /\ file' = file /\ chosen' = chosen
      /\ result'.stage \in {"rejected", "none"}
  BY DEF Inspect, NoResult
<1>2. OfferMade'
  BY <1>1 DEF OfferMade, KindOf, MediaKind, InspectDetected
<1>3. offer' # NoOffer => offer'.recommended \in offer'.compatible
  BY <1>1, Offers
<1> QED
  BY <1>1, <1>2, <1>3 DEF PlanInv, PlannedAs, PlanKeepsItsPromise, OfferIsHonest

\* The conversion of an operation that was validated again, whatever becomes of it: nothing
\* but the result and the choice changes, and an offered operation is the valid one.
LEMMA Chosen ==
    ASSUME PlanInv, NEW operation \in Operations, NEW engine, Choose(operation, engine)
    PROVE  /\ file' = file /\ offer' = offer /\ chosen' = operation /\ file.engine = engine
           /\ KindOf(file) # "none"
           /\ offer.recommended \in offer.compatible
           /\ operation \in offer.compatible <=> ValidateOperation(operation, file) = "none"
           /\ (file \in FileType /\ OfferMade)'
<1>1. /\ file' = file /\ offer' = offer /\ chosen' = operation /\ file.engine = engine
      /\ offer # NoOffer
  BY DEF Choose
<1>2. KindOf(file) # "none" /\ offer = InspectDetected(file)
  BY <1>1 DEF PlanInv, OfferMade
<1>3. operation \in offer.compatible <=> ValidateOperation(operation, file) = "none"
  BY <1>2, Offers
<1>4. offer.recommended \in offer.compatible
  BY <1>1 DEF PlanInv, OfferIsHonest
<1>5. file' \in FileType
  BY <1>1 DEF PlanInv
<1>6. OfferMade'
  BY <1>1, <1>2 DEF OfferMade, KindOf, MediaKind, InspectDetected
<1> QED
  BY <1>1, <1>2, <1>3, <1>4, <1>5, <1>6

\* A refusal keeps the invariant if it is for want of tools or of an invalid operation.
LEMMA RefusalKeeps ==
    ASSUME PlanInv, NEW operation \in Operations, NEW engine, Choose(operation, engine),
           NEW code, Refuse(code),
           code \in RuntimeRefusal \/ ValidateOperation(operation, file) # "none"
    PROVE  PlanInv'
<1>1. /\ file' = file /\ offer' = offer /\ chosen' = operation
      /\ offer.recommended \in offer.compatible
      /\ operation \in offer.compatible <=> ValidateOperation(operation, file) = "none"
      /\ (file \in FileType /\ OfferMade)'
  BY Chosen
<1>2. result'.stage = "refused" /\ result'.code = code
  BY DEF Refuse
<1> QED
  BY <1>1, <1>2 DEF PlanInv, PlannedAs, PlanKeepsItsPromise, OfferIsHonest

LEMMA PlanImageStep ==
    ASSUME PlanInv, PlanImage
    PROVE  PlanInv'
<1>1. PICK operation \in Operations, policy \in {"strip", "preserve_when_safe"} :
        /\ Choose(operation, "image")
        /\ IF ValidateOperation(operation, file) # "none"
           THEN Refuse(ValidateOperation(operation, file))
           ELSE \/ PlanOrRefuse(BuildImagePlan(file.data, operation, policy))
                \/ file.data.format \in {"heif", "avif"} /\ Refuse("decoder_unavailable")
  BY DEF PlanImage
<1>2. /\ file' = file /\ offer' = offer /\ chosen' = operation /\ file.engine = "image"
      /\ offer.recommended \in offer.compatible
      /\ operation \in offer.compatible <=> ValidateOperation(operation, file) = "none"
      /\ (file \in FileType /\ OfferMade)'
  BY <1>1, Chosen
<1>3. CASE ValidateOperation(operation, file) # "none"
  BY <1>1, <1>3, RefusalKeeps
<1>4. CASE Refuse("decoder_unavailable")
  BY <1>1, <1>4, RefusalKeeps DEF RuntimeRefusal
<1>5. CASE /\ ValidateOperation(operation, file) = "none"
           /\ PlanOrRefuse(BuildImagePlan(file.data, operation, policy))
  <2> DEFINE built == BuildImagePlan(file.data, operation, policy)
  <2>1. built.refusal = "none"
    BY <1>2, <1>5, ImageValid DEF BuildImagePlan
  <2> HIDE DEF built
  <2>2. result' = [stage |-> "planned", plan |-> built.plan]
    BY <1>5, <2>1 DEF PlanOrRefuse, Proceed, built
  <2>3. result'.stage = "planned" /\ result'.plan = built.plan
    BY <2>2
  <2>4. PlannedAs'
    BY <1>2, <1>5, <2>3 DEF PlannedAs, built
  <2> QED
    BY <1>2, <1>5, <2>3, <2>4 DEF PlanInv, PlanKeepsItsPromise, OfferIsHonest
<1> QED
  BY <1>1, <1>3, <1>4, <1>5

LEMMA PlanMediaStep ==
    ASSUME PlanInv, PlanMedia
    PROVE  PlanInv'
<1>1. PICK operation \in Operations, mode \in Modes, readiness \in Readiness :
        /\ Choose(operation, "media")
        /\ LET built == BuildMediaPlan(operation, file.data, mode, readiness)
           IN  IF ValidateOperation(operation, file) # "none"
               THEN Refuse(ValidateOperation(operation, file))
               ELSE \/ PlanOrRefuse(built)
                    \/ ToneMaps(built) /\ Refuse("filters_unavailable")
  BY DEF PlanMedia
<1> DEFINE built == BuildMediaPlan(operation, file.data, mode, readiness)
<1>2. /\ file' = file /\ offer' = offer /\ chosen' = operation /\ file.engine = "media"
      /\ offer.recommended \in offer.compatible /\ KindOf(file) # "none"
      /\ operation \in offer.compatible <=> ValidateOperation(operation, file) = "none"
      /\ (file \in FileType /\ OfferMade)'
  BY <1>1, Chosen
<1>3. CASE ValidateOperation(operation, file) # "none"
  BY <1>1, <1>3, RefusalKeeps
<1>4. CASE Refuse("filters_unavailable")
  BY <1>1, <1>4, RefusalKeeps DEF RuntimeRefusal
<1>5. CASE ValidateOperation(operation, file) = "none" /\ PlanOrRefuse(built)
  <2>1. built.refusal \in {"none", "acceleration_unavailable"}
    BY <1>2, <1>5, MediaValid
  <2>2. CASE built.refusal = "acceleration_unavailable"
    <3>1. Refuse("acceleration_unavailable")
      BY <1>5, <2>2 DEF PlanOrRefuse
    <3> QED
      BY <1>1, <3>1, RefusalKeeps DEF RuntimeRefusal
  <2>3. CASE built.refusal = "none"
    <3>1. result' = [stage |-> "planned", plan |-> built.plan]
      BY <1>5, <2>3 DEF PlanOrRefuse, Proceed
    <3>2. result'.stage = "planned" /\ result'.plan = built.plan
      BY <3>1
    <3>3. PlannedAs'
      BY <1>2, <1>5, <2>3, <3>2 DEF PlannedAs
    <3> QED
      BY <1>2, <1>5, <3>2, <3>3 DEF PlanInv, PlanKeepsItsPromise, OfferIsHonest
  <2> QED
    BY <2>1, <2>2, <2>3
<1> QED
  BY <1>1, <1>3, <1>4, <1>5

\* A plan is of an operation that is valid for the file.
LEMMA PlannedIsValid ==
    ASSUME PlanInv, result.stage = "planned"
    PROVE  /\ chosen \in Operations /\ KindOf(file) # "none"
           /\ ValidateOperation(chosen, file) = "none"
<1>1. chosen \in offer.compatible
  BY DEF PlanInv, PlannedAs
<1>2. offer # NoOffer
  BY <1>1 DEF NoOffer
<1>3. offer = InspectDetected(file) /\ KindOf(file) # "none"
  BY <1>2 DEF PlanInv, OfferMade
<1> QED
  BY <1>1, <1>3, Offers

LEMMA RunImageStep ==
    ASSUME PlanInv, RunImage
    PROVE  PlanInv'
<1> DEFINE info == file.data
           picture == Rendered(info, result.plan)
<1>1. /\ result.stage = "planned" /\ file.engine = "image"
      /\ file' = file /\ offer' = offer /\ chosen' = chosen
      /\ result' = [stage |-> "validated", code |-> ImageIssue(result.plan.expected, picture),
                    output |-> picture]
  BY DEF RunImage
<1>2. info \in Header /\ AsLoaded(info)
  BY <1>1, ImageFileAssumption DEF PlanInv, FileType
<1>3. PICK policy : result.plan = BuildImagePlan(info, chosen, policy).plan
  BY <1>1 DEF PlanInv, PlannedAs
<1>4. chosen \in ImageOperation /\ ImagePlanRefusal(info, chosen) = "none"
  BY <1>1, PlannedIsValid, ImageValid
<1>5. /\ ImageIssue(result.plan.expected, picture) = "none" /\ picture.onWhite
      /\ picture.size = IF chosen = "email_photo" THEN Fitted(info) ELSE OrientedDimensions(info)
  BY <1>2, <1>3, <1>4, ImageKept
<1> HIDE DEF picture
<1>6. PhotoKept(picture)
  <2> DEFINE upright == OrientedDimensions(info)
  <2>1. info.width \in Nat \ {0} /\ info.height \in Nat \ {0}
    BY <1>2 DEF Header
  <2>2. PICK w \in Nat \ {0}, h \in Nat \ {0} : upright = <<w, h>>
    BY <2>1 DEF OrientedDimensions
  <2> DEFINE longest == LongestOf(w, h)
  <2>3. /\ Fitted(info)[1] * h - Fitted(info)[2] * w \in -longest .. longest
        /\ Fitted(info)[1] <= 1920 /\ Fitted(info)[2] <= 1920
    BY <2>2, EdgeKeepsShape DEF Fitted
  <2>4. w * h - h * w = 0 /\ 0 \in -longest .. longest
    BY DEF LongestOf
  <2> HIDE DEF longest, upright
  <2>5. upright[1] = w /\ upright[2] = h
    BY <2>2
  <2>6. picture.size[1] * h - picture.size[2] * w \in -longest .. longest
    BY <1>5, <2>3, <2>4, <2>5 DEF upright
  <2>7. chosen = "email_photo" => picture.size[1] <= 1920 /\ picture.size[2] <= 1920
    BY <1>5, <2>3
  <2>8. upright = IF info.orientation \in 5 .. 8 THEN <<info.height, info.width>>
                  ELSE <<info.width, info.height>>
    BY DEF upright, OrientedDimensions
  <2> QED
    BY <2>5, <2>6, <2>7, <2>8 DEF PhotoKept, longest, MaxEmailPhotoDimension
<1>7. result'.stage = "validated" /\ result'.code = "none" /\ result'.output = picture
  BY <1>1, <1>5
<1>8. PlanKeepsItsPromise'
  BY <1>1, <1>5, <1>6, <1>7 DEF PlanKeepsItsPromise, PhotoKept
<1>9. OfferMade' /\ file' \in FileType
  BY <1>1 DEF PlanInv, OfferMade, KindOf, MediaKind, InspectDetected
<1> QED
  BY <1>1, <1>7, <1>8, <1>9 DEF PlanInv, PlannedAs, OfferIsHonest

LEMMA RunMediaStep ==
    ASSUME PlanInv, RunMedia
    PROVE  PlanInv'
<1>1. /\ result.stage = "planned" /\ file.engine = "media"
      /\ file' = file /\ offer' = offer /\ chosen' = chosen
  BY DEF RunMedia
<1>2. PICK args \in {result.plan.args, result.plan.cpuArgs} :
        result' = [stage |-> "validated", args |-> args,
                   issues |-> MediaIssues(result.plan.expected, Encode(file.data, args))]
  BY DEF RunMedia
<1>3. file.data \in Probe
  BY <1>1, MediaFileAssumption DEF PlanInv, FileType
<1>4. PICK mode \in Modes, readiness \in Readiness :
        /\ BuildMediaPlan(chosen, file.data, mode, readiness).refusal = "none"
        /\ result.plan = BuildMediaPlan(chosen, file.data, mode, readiness).plan
  BY <1>1 DEF PlanInv, PlannedAs
<1>5. chosen \in VideoOperation \cup AudioOperation
  BY <1>1, PlannedIsValid, MediaValid
<1>6. /\ Passes(file.data, args, result.plan.expected)
      /\ ShapeKept(args) /\ Exact(args)
  BY <1>2, <1>3, <1>4, <1>5, VideoKept, AudioKept
<1>7. /\ result'.stage = "validated" /\ result'.args = args
      /\ result'.issues \subseteq {"duration"}
      /\ result'.issues = {} <=> LengthIsTold(file.data, result'.args.maps)
  BY <1>2, <1>6 DEF Passes
<1>8. PlanKeepsItsPromise'
  BY <1>1, <1>6, <1>7 DEF PlanKeepsItsPromise, ShapeKept, Exact
<1>9. OfferMade' /\ file' \in FileType
  BY <1>1 DEF PlanInv, OfferMade, KindOf, MediaKind, InspectDetected
<1> QED
  BY <1>1, <1>7, <1>8, <1>9 DEF PlanInv, PlannedAs, OfferIsHonest

LEMMA PlanStuttering ==
    ASSUME PlanInv, UNCHANGED vars
    PROVE  PlanInv'
<1>1. file' = file /\ offer' = offer /\ chosen' = chosen /\ result' = result
  BY DEF vars
<1>2. OfferMade' /\ file' \in FileType
  BY <1>1 DEF PlanInv, OfferMade, KindOf, MediaKind, InspectDetected
<1>3. PlannedAs'
  BY <1>1 DEF PlanInv, PlannedAs
<1>4. PlanKeepsItsPromise'
  BY <1>1 DEF PlanInv, PlanKeepsItsPromise, ShapeKept, Exact, PhotoKept
<1>5. OfferIsHonest'
  BY <1>1 DEF PlanInv, OfferIsHonest
<1> QED
  BY <1>2, <1>3, <1>4, <1>5 DEF PlanInv

\* The inductive invariant: the offer is what inspection makes of this very file, and a plan
\* is one the planner builds for this file and an offered operation.
THEOREM PlanInvariance == Spec => []PlanInv
<1>1. PlanInv /\ [Next]_vars => PlanInv'
  BY InspectStep, PlanImageStep, PlanMediaStep, RunImageStep, RunMediaStep, PlanStuttering DEF Next
<1> QED
  BY <1>1, PlanInit, PTL DEF Spec

\* For every image header and every media probe, in every mode and with any hardware, on the
\* planned path and after the fallback, what the planned commands make passes the plan's own
\* validation (its length exactly if the probe tells that of the kept streams), is flattened
\* onto white, keeps its shape, and fits into FLAC's integers.
THEOREM PlansKeepTheirPromise == Spec => []PlanKeepsItsPromise
<1>1. PlanInv => PlanKeepsItsPromise
  BY DEF PlanInv
<1> QED
  BY <1>1, PlanInvariance, PTL

\* For every file, the inspection recommends something it offers, a conversion refuses an
\* offered operation only for want of tools, and plans nothing that was not offered.
THEOREM OffersAreHonest == Spec => []OfferIsHonest
<1>1. PlanInv => OfferIsHonest
  BY DEF PlanInv
<1> QED
  BY <1>1, PlanInvariance, PTL

=============================================================================
