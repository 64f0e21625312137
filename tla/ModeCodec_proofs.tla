-------------------------- MODULE ModeCodec_proofs --------------------------
(***************************************************************************)
(* Proofs about ModeCodec: decoding inverts encoding, and only what was    *)
(* encoded to its end is taken for a file, for files of any length, over   *)
(* any bytes, and however they are cut into chunks.                        *)
(*                                                                         *)
(* A decoder is a loop over frames, and the invariant is about frames, not *)
(* about what a decoder computes: there is a set of cuts, each a position  *)
(* on the wire and the position in the file that belongs to it, such that  *)
(* a frame leads from each cut to another one or to the end.  An encoder   *)
(* adds a cut in each step, and a decoder goes from one to the next.       *)
(***************************************************************************)
EXTENDS ModeCodec, SequenceTheorems, WellFoundedInduction, TLAPS

Octets == 0 .. 255
Words == {n \in Nat : n <= 65535}
High(n) == n \div 256
Low(n) == n % 256
Word(x, y) == 256 * x + y

\* k bytes of the wire s, after the first w, that stand for n bytes of the file,
\* after the first d
Block(s, w, d, n, flags) ==
    /\ s[w + 1] = flags /\ Word(s[w + 2], s[w + 3]) = n
    /\ \A i \in 1 .. n : s[w + 3 + i] = data[d + i]
LiteralAt(s, w, d, n) ==
    n >= 1 /\ n <= 127 /\ s[w + 1] = n /\ \A i \in 1 .. n : s[w + 1 + i] = data[d + i]
RunAt(s, w, d, n) ==
    n >= 2 /\ n <= 63 /\ s[w + 1] = 128 + n /\ \A i \in 1 .. n : data[d + i] = s[w + 2]
FillerAt(s, w, d, n) ==
    n >= 2 /\ n <= 63 /\ s[w + 1] = 192 + n /\ \A i \in 1 .. n : data[d + i] = Filler

Frame(s, w, d, k, n) ==
    /\ w + k <= Len(s) /\ d + n <= Len(data)
    /\ \/ mode = "B" /\ Block(s, w, d, n, 0) /\ k = 3 + n
       \/ mode = "C" /\ LiteralAt(s, w, d, n) /\ k = 1 + n
       \/ mode = "C" /\ RunAt(s, w, d, n) /\ k = 2
       \/ mode = "C" /\ FillerAt(s, w, d, n) /\ k = 1

LastFrame(s, w, d) ==
    \/ mode = "B" /\ \E n \in Nat : /\ Block(s, w, d, n, EofFlag)
                                    /\ w + 3 + n = Len(s) /\ d + n = Len(data)
    \/ /\ mode = "C" /\ s[w + 1] = 0 /\ s[w + 2] = EofFlag
       /\ w + 2 = Len(s) /\ d = Len(data)

Cuts(s, C) == C \subseteq (0 .. Len(s)) \X (0 .. Len(data)) /\ <<0, 0>> \in C
Goes(s, C, w, d) == \E k, n \in Nat : Frame(s, w, d, k, n) /\ <<w + k, d + n>> \in C

\* The wire s stands for the first d0 bytes of the file; it stands for the file
Partly(s, C, d0) ==
    /\ Cuts(s, C) /\ <<Len(s), d0>> \in C
    /\ \A w, d \in Nat : <<w, d>> \in C => (w = Len(s) /\ d = d0) \/ Goes(s, C, w, d)
Whole(s, C) ==
    /\ Cuts(s, C)
    /\ \A w, d \in Nat : <<w, d>> \in C => LastFrame(s, w, d) \/ Goes(s, C, w, d)

-----------------------------------------------------------------------------
(* The inductive invariant *)

TypeOK ==
    /\ mode \in {"S", "B", "C"} /\ type \in {"A", "I"}
    /\ data \in Seq(Octets) /\ batch \in Seq(Octets) /\ wire \in Seq(Octets)
    /\ decoded \in Seq(Octets)
    /\ encoded \in 0 .. Len(data) /\ pulled \in encoded .. Len(data)
    /\ used \in 0 .. Len(wire)
    /\ fate \in {"whole", "cut", "extended", "changed"}
    /\ stage \in {"encoding", "sent", "decoding", "done", "error"}

Fresh == used = 0 /\ decoded = <<>>

EncodingInv == stage = "encoding" =>
    /\ Fresh /\ fate = "whole"
    /\ mode = "S" => batch = <<>> /\ wire = SubSeq(data, 1, encoded)
    /\ mode # "S" => \E C : Partly(wire \o batch, C, encoded)

SentInv == stage = "sent" =>
    /\ Fresh /\ fate = "whole"
    /\ mode = "S" => wire = data
    /\ mode # "S" => \E C : Whole(wire, C)

\* What has become of the wire s
Received(s) ==
    /\ \A i \in 1 .. Len(wire) : i <= Len(s) => wire[i] = s[i]
    /\ fate = "whole" => Len(wire) = Len(s)
    /\ fate = "cut" => Len(wire) < Len(s)
    /\ fate = "extended" => Len(wire) = Len(s) + 1

Progress(C) ==
    /\ Len(decoded) <= Len(data) /\ \A i \in 1 .. Len(decoded) : decoded[i] = data[i]
    /\ stage = "decoding" => <<used, Len(decoded)>> \in C
    /\ stage = "done" => fate = "whole" /\ Len(decoded) = Len(data)
    /\ stage = "error" => fate # "whole"

DecodingInv == stage \notin {"encoding", "sent"} =>
    /\ stage = "done" => used = Len(wire)
    /\ mode = "S" => /\ stage # "error" /\ (fate = "whole" => wire = data)
                     /\ stage = "decoding" => Fresh
                     /\ stage = "done" => decoded = wire
    /\ mode # "S" /\ fate # "changed" =>
          \E s \in Seq(Octets) : \E C : Whole(s, C) /\ Received(s) /\ Progress(C)

IInv == TypeOK /\ EncodingInv /\ SentInv /\ DecodingInv

-----------------------------------------------------------------------------
(* Numbers and sequences *)

LEMMA Sizes ==
    /\ BlockSize \in Nat /\ BlockSize >= 1 /\ BlockSize <= 65535
    /\ WireChunk \in Nat /\ WireChunk >= 1
    /\ MaxLiteral \in Nat /\ MaxLiteral >= 1 /\ MaxLiteral <= 127
    /\ MaxRun \in Nat /\ MaxRun >= 2 /\ MaxRun <= 63
    /\ Bytes \subseteq Octets /\ Strays \subseteq Octets /\ MaxLen \in Nat
<1>1. Bytes \cup Strays \subseteq Octets
  BY BytesAssumption DEF Octets
<1> QED
  BY <1>1, SizesAssumption

LEMMA LessThan == \A x, y \in Nat : x < y => <<x, y>> \in OpToRel(<, Nat)
BY Zenon DEF OpToRel

LEMMA LeastElement ==
    ASSUME NEW T, T \subseteq Nat, T # {}
    PROVE  \E x \in T : \A y \in T : x <= y
<1>1. PICK x \in T : \A y \in T : <<y, x>> \notin OpToRel(<, Nat)
  BY NatLessThanWellFounded, WFMin, Zenon
<1>2. \A y \in T : ~(y < x)
  BY <1>1, LessThan
<1> QED
  BY <1>2

\* Min and Max of FiniteSetsExt
LEMMA MinProperties ==
    ASSUME NEW T, T \subseteq Nat, T # {}
    PROVE  Min(T) \in T /\ \A y \in T : Min(T) <= y
BY LeastElement DEF Min

LEMMA MaxProperties ==
    ASSUME NEW K \in Nat, NEW T, T \subseteq 0 .. K, T # {}
    PROVE  Max(T) \in T /\ \A y \in T : y <= Max(T)
<1> DEFINE M == {K - x : x \in T}
<1>1. M \subseteq Nat /\ M # {}
  <2>1. \A x \in T : K - x \in Nat
    OBVIOUS
  <2> QED
    BY <2>1
<1>2. PICK m \in M : \A y \in M : m <= y
  BY <1>1, LeastElement
<1>3. PICK x \in T : m = K - x
  OBVIOUS
<1>4. \A y \in T : y <= x
  <2> TAKE y \in T
  <2>1. m <= K - y
    BY <1>2
  <2> QED
    BY <1>3, <2>1
<1> QED
  BY <1>4 DEF Max

LEMMA HighAndLow ==
    ASSUME NEW n \in Words
    PROVE  High(n) \in Octets /\ Low(n) \in Octets /\ Word(High(n), Low(n)) = n
BY DEF Octets, Words, High, Low, Word

LEMMA WordType ==
    ASSUME NEW x \in Octets, NEW y \in Octets
    PROVE  Word(x, y) \in Nat /\ 3 + 256 * x + y = 3 + Word(x, y)
BY DEF Octets, Word

LEMMA Flags == ~HasEof(0) /\ HasEof(EofFlag)
BY DEF HasEof, EofFlag

LEMMA Concatenation ==
    ASSUME NEW s \in Seq(Octets), NEW a \in Seq(Octets)
    PROVE  /\ s \o a \in Seq(Octets) /\ Len(s \o a) = Len(s) + Len(a)
           /\ \A i \in 1 .. Len(s) : (s \o a)[i] = s[i]
           /\ \A i \in 1 .. Len(a) : (s \o a)[Len(s) + i] = a[i]
OBVIOUS

LEMMA Regrouped ==
    ASSUME NEW s \in Seq(Octets), NEW a \in Seq(Octets), NEW n \in 0 .. Len(a)
    PROVE  (s \o SubSeq(a, 1, n)) \o SubSeq(a, n + 1, Len(a)) = s \o a
<1> DEFINE b == SubSeq(a, 1, n)
           c == SubSeq(a, n + 1, Len(a))
<1>1. b \in Seq(Octets) /\ c \in Seq(Octets)
  OBVIOUS
<1>2. b \o c = a
  <2>1. 1 \in 1 .. Len(a) + 1 /\ n \in 1 - 1 .. Len(a) /\ Len(a) \in n .. Len(a)
    OBVIOUS
  <2>2. b \o c = SubSeq(a, 1, Len(a))
    BY <2>1, ConcatAdjacentSubSeq, Zenon
  <2> QED
    BY <2>2, SubSeqFull
<1> HIDE DEF b, c
<1>3. (s \o b) \o c = s \o (b \o c)
  BY <1>1, ConcatAssociative
<1> QED
  BY <1>2, <1>3 DEF b, c

-----------------------------------------------------------------------------
(* Frames and cuts *)

\* What goes on the wire later changes no frame
LEMMA FrameKept ==
    ASSUME NEW s \in Seq(Octets), NEW t \in Seq(Octets), Len(s) <= Len(t),
           \A i \in 1 .. Len(s) : t[i] = s[i],
           NEW w \in Nat, NEW d \in Nat, NEW k \in Nat, NEW n \in Nat, Frame(s, w, d, k, n)
    PROVE  Frame(t, w, d, k, n)
<1>1. w + k <= Len(t) /\ d + n <= Len(data)
  BY DEF Frame
<1>2. \A i \in 1 .. k : t[w + i] = s[w + i]
  BY DEF Frame
<1>3. CASE mode = "B" /\ Block(s, w, d, n, 0) /\ k = 3 + n
  <2>1. t[w + 1] = s[w + 1] /\ t[w + 2] = s[w + 2] /\ t[w + 3] = s[w + 3]
    BY <1>2, <1>3
  <2>2. \A i \in 1 .. n : t[w + 3 + i] = s[w + 3 + i]
    <3> TAKE i \in 1 .. n
    <3>1. 3 + i \in 1 .. k /\ w + (3 + i) = w + 3 + i
      BY <1>3
    <3> QED
      BY <1>2, <3>1
  <2>3. Block(t, w, d, n, 0)
    BY <1>3, <2>1, <2>2 DEF Block
  <2> QED
    BY <1>1, <1>3, <2>3 DEF Frame
<1>4. CASE mode = "C" /\ LiteralAt(s, w, d, n) /\ k = 1 + n
  <2>1. t[w + 1] = s[w + 1]
    BY <1>2, <1>4
  <2>2. \A i \in 1 .. n : t[w + 1 + i] = s[w + 1 + i]
    <3> TAKE i \in 1 .. n
    <3>1. 1 + i \in 1 .. k /\ w + (1 + i) = w + 1 + i
      BY <1>4
    <3> QED
      BY <1>2, <3>1
  <2> QED
    BY <1>1, <1>4, <2>1, <2>2 DEF Frame, LiteralAt
<1>5. CASE mode = "C" /\ RunAt(s, w, d, n) /\ k = 2
  <2>1. t[w + 1] = s[w + 1] /\ t[w + 2] = s[w + 2]
    BY <1>2, <1>5
  <2> QED
    BY <1>1, <1>5, <2>1 DEF Frame, RunAt
<1>6. CASE mode = "C" /\ FillerAt(s, w, d, n) /\ k = 1
  <2>1. t[w + 1] = s[w + 1]
    BY <1>2, <1>6
  <2> QED
    BY <1>1, <1>6, <2>1 DEF Frame, FillerAt
<1> QED
  BY <1>3, <1>4, <1>5, <1>6 DEF Frame

LEMMA CutsAreNumbers ==
    ASSUME NEW s \in Seq(Octets), NEW C, Cuts(s, C), data \in Seq(Octets),
           NEW w \in Nat, NEW d \in Nat, <<w, d>> \in C
    PROVE  w <= Len(s) /\ d <= Len(data)
BY DEF Cuts

\* An encoder emits a frame
LEMMA AddFrame ==
    ASSUME NEW s \in Seq(Octets), NEW a \in Seq(Octets), NEW C, NEW d0 \in Nat, NEW n \in Nat,
           data \in Seq(Octets), Partly(s, C, d0), Frame(s \o a, Len(s), d0, Len(a), n)
    PROVE  Partly(s \o a, C \cup {<<Len(s \o a), d0 + n>>}, d0 + n)
<1> DEFINE t == s \o a
           e == <<Len(t), d0 + n>>
           D == C \cup {e}
<1>1. t \in Seq(Octets) /\ Len(t) = Len(s) + Len(a) /\ \A i \in 1 .. Len(s) : t[i] = s[i]
  BY Concatenation
<1>2. Len(s) \in Nat /\ Len(a) \in Nat /\ Len(t) \in Nat /\ Len(data) \in Nat
      /\ Len(s) <= Len(t)
  BY <1>1
<1>3. d0 + n \in 0 .. Len(data)
  BY <1>2 DEF Frame
<1> HIDE DEF t
<1>4. Cuts(t, D)
  BY <1>1, <1>2, <1>3 DEF Partly, Cuts
<1>5. ASSUME NEW w \in Nat, NEW d \in Nat, <<w, d>> \in D
      PROVE  (w = Len(t) /\ d = d0 + n) \/ Goes(t, D, w, d)
  <2>1. CASE <<w, d>> = e
    BY <2>1
  <2>2. CASE <<w, d>> \in C /\ w = Len(s) /\ d = d0
    <3>1. Frame(t, w, d, Len(a), n) /\ <<w + Len(a), d + n>> \in D
      BY <1>1, <2>2 DEF t
    <3> QED
      BY <1>2, <3>1 DEF Goes
  <2>3. CASE <<w, d>> \in C /\ Goes(s, C, w, d)
    <3>1. PICK k \in Nat, m \in Nat : Frame(s, w, d, k, m) /\ <<w + k, d + m>> \in C
      BY <2>3 DEF Goes
    <3>2. Frame(t, w, d, k, m)
      BY <1>1, <1>2, <3>1, FrameKept
    <3> QED
      BY <3>1, <3>2 DEF Goes
  <2> QED
    BY <1>5, <2>1, <2>2, <2>3 DEF Partly
<1> QED
  BY <1>4, <1>5 DEF Partly, t

\* An encoder ends the file
LEMMA AddLastFrame ==
    ASSUME NEW s \in Seq(Octets), NEW a \in Seq(Octets), NEW C, NEW d0 \in Nat,
           data \in Seq(Octets), Partly(s, C, d0), LastFrame(s \o a, Len(s), d0)
    PROVE  Whole(s \o a, C)
<1> DEFINE t == s \o a
<1>1. t \in Seq(Octets) /\ Len(t) = Len(s) + Len(a) /\ \A i \in 1 .. Len(s) : t[i] = s[i]
  BY Concatenation
<1>2. Len(s) \in Nat /\ Len(a) \in Nat /\ Len(t) \in Nat /\ Len(s) <= Len(t)
  BY <1>1
<1> HIDE DEF t
<1>3. Cuts(t, C)
  BY <1>1, <1>2 DEF Partly, Cuts
<1>4. ASSUME NEW w \in Nat, NEW d \in Nat, <<w, d>> \in C
      PROVE  LastFrame(t, w, d) \/ Goes(t, C, w, d)
  <2>1. CASE w = Len(s) /\ d = d0
    BY <2>1 DEF t
  <2>2. CASE Goes(s, C, w, d)
    <3>1. PICK k \in Nat, m \in Nat : Frame(s, w, d, k, m) /\ <<w + k, d + m>> \in C
      BY <2>2 DEF Goes
    <3>2. Frame(t, w, d, k, m)
      BY <1>1, <1>2, <3>1, FrameKept
    <3> QED
      BY <3>1, <3>2 DEF Goes
  <2> QED
    BY <1>4, <2>1, <2>2 DEF Partly
<1> QED
  BY <1>3, <1>4 DEF Whole, t

LEMMA SameFile ==
    ASSUME mode' = mode, type' = type, data' = data
    PROVE  /\ \A s, C, d0 : Partly(s, C, d0)' <=> Partly(s, C, d0)
           /\ \A s, C : Whole(s, C)' <=> Whole(s, C)
<1>1. \A s, w, d, k, n : Frame(s, w, d, k, n)' <=> Frame(s, w, d, k, n)
  BY DEF Frame, Block, LiteralAt, RunAt, FillerAt, Filler
<1>2. \A s, w, d : LastFrame(s, w, d)' <=> LastFrame(s, w, d)
  BY DEF LastFrame, Block
<1>3. \A s, C, w, d : Goes(s, C, w, d)' <=> Goes(s, C, w, d)
  BY <1>1 DEF Goes
<1>4. \A s, C : Cuts(s, C)' <=> Cuts(s, C)
  BY DEF Cuts
<1> QED
  BY <1>2, <1>3, <1>4 DEF Partly, Whole

-----------------------------------------------------------------------------
(* Encoding *)

LEMMA EmitStep ==
    ASSUME TypeOK, NEW a \in Seq(Octets), NEW last \in BOOLEAN, Emit(a, last)
    PROVE  /\ wire' \in Seq(Octets) /\ batch' \in Seq(Octets)
           /\ wire' \o batch' = (wire \o batch) \o a
           /\ last => batch' = <<>>
<1> DEFINE bytes == batch \o a
           n == HandOver(bytes, last)
<1>1. bytes \in Seq(Octets) /\ Len(bytes) \in Nat
  BY DEF TypeOK
<1>2. n \in 0 .. Len(bytes) /\ (last => n = Len(bytes))
  BY <1>1, Sizes DEF HandOver
<1>3. wire' = wire \o SubSeq(bytes, 1, n) /\ batch' = SubSeq(bytes, n + 1, Len(bytes))
  BY DEF Emit
<1> HIDE DEF bytes, n
<1>4. SubSeq(bytes, 1, n) \in Seq(Octets) /\ SubSeq(bytes, n + 1, Len(bytes)) \in Seq(Octets)
  BY <1>1, <1>2
<1>5. wire' \o batch' = wire \o bytes
  BY <1>1, <1>2, <1>3, Regrouped DEF TypeOK
<1>6. wire \o bytes = (wire \o batch) \o a
  <2>1. wire \in Seq(Octets) /\ batch \in Seq(Octets)
    BY DEF TypeOK
  <2> QED
    BY <2>1, ConcatAssociative DEF bytes
<1>7. last => batch' = <<>>
  BY <1>1, <1>2, <1>3, SubSeqEmpty
<1> QED
  BY <1>3, <1>4, <1>5, <1>6, <1>7, Concatenation DEF TypeOK

LEMMA FillStep ==
    ASSUME TypeOK, NEW got \in encoded .. Len(data), NEW needed \in Nat, NEW upTo \in Fill(got, needed)
    PROVE  /\ upTo \in got .. Len(data)
           /\ upTo - encoded >= needed \/ upTo = Len(data)
<1>1. Len(data) \in Nat /\ encoded \in Nat
  BY DEF TypeOK
<1> QED
  BY <1>1 DEF Fill

LEMMA RunStep ==
    ASSUME TypeOK, NEW upTo \in encoded + 1 .. Len(data)
    PROVE  /\ Run(upTo) \in 1 .. MaxRun /\ Run(upTo) <= upTo - encoded
           /\ \A i \in 1 .. Run(upTo) : data[encoded + i] = data[encoded + 1]
<1> DEFINE K == Min({MaxRun, upTo - encoded})
           T == {n \in 1 .. K : \A i \in 1 .. n : data[encoded + i] = data[encoded + 1]}
<1>1. MaxRun \in Nat /\ MaxRun >= 1 /\ upTo - encoded \in Nat /\ upTo - encoded >= 1
  BY Sizes DEF TypeOK
<1>2. K \in {MaxRun, upTo - encoded} /\ K <= MaxRun /\ K <= upTo - encoded
  <2>1. {MaxRun, upTo - encoded} \subseteq Nat /\ {MaxRun, upTo - encoded} # {}
    BY <1>1
  <2> QED
    BY <2>1, MinProperties
<1> HIDE DEF K
<1>3. T \subseteq 0 .. K /\ 1 \in T
  BY <1>1, <1>2
<1>4. Run(upTo) \in T
  BY <1>1, <1>2, <1>3, MaxProperties DEF Run, K
<1> QED
  BY <1>1, <1>2, <1>4

LEMMA LookAheadStep ==
    ASSUME TypeOK, encoded < Len(data), NEW upTo \in LookAhead
    PROVE  upTo \in pulled .. Len(data) /\ upTo > encoded
<1>1. Len(data) \in Nat /\ encoded \in Nat /\ pulled \in Nat /\ pulled \in encoded .. Len(data)
  BY DEF TypeOK
<1>2. PICK seen \in Fill(pulled, 1) :
        upTo \in IF Run(seen) < MaxRun /\ Run(seen) = seen - encoded
                   THEN Fill(seen, Run(seen) + 1) ELSE {seen}
  BY DEF LookAhead
<1>3. seen \in pulled .. Len(data) /\ seen > encoded
  BY <1>1, FillStep
<1>4. Run(seen) + 1 \in Nat
  BY <1>1, <1>3, RunStep, Sizes
<1>5. seen \in encoded .. Len(data)
  BY <1>1, <1>3
<1>6. CASE upTo \in Fill(seen, Run(seen) + 1)
  <2>1. upTo \in seen .. Len(data)
    BY <1>4, <1>5, <1>6, FillStep
  <2> QED
    BY <1>1, <1>3, <2>1
<1>7. CASE upTo = seen
  BY <1>3, <1>7
<1> QED
  BY <1>2, <1>6, <1>7

LEMMA LiteralStep ==
    ASSUME TypeOK, NEW upTo \in encoded + 1 .. Len(data)
    PROVE  Literal(upTo) \in 1 .. MaxLiteral /\ Literal(upTo) <= upTo - encoded
<1> DEFINE T == {n \in 1 .. MaxLiteral :
                   \/ n = MaxLiteral \/ n + 1 >= upTo - encoded
                   \/ data[encoded + n + 1] = data[encoded + n + 2]}
<1>1. MaxLiteral \in Nat /\ MaxLiteral >= 1 /\ upTo - encoded \in Nat /\ upTo - encoded >= 1
  BY Sizes DEF TypeOK
<1>2. T \subseteq Nat /\ MaxLiteral \in T
  BY <1>1
<1>3. Literal(upTo) \in T /\ \A m \in T : Literal(upTo) <= m
  BY <1>2, MinProperties DEF Literal
<1>4. upTo - encoded <= MaxLiteral => upTo - encoded \in T
  BY <1>1
<1> QED
  BY <1>1, <1>3, <1>4

\* The file's bytes that go into a frame
LEMMA Slice ==
    ASSUME TypeOK, NEW n \in Nat, encoded + n <= Len(data)
    PROVE  /\ SubSeq(data, encoded + 1, encoded + n) \in Seq(Octets)
           /\ Len(SubSeq(data, encoded + 1, encoded + n)) = n
           /\ \A i \in 1 .. n : SubSeq(data, encoded + 1, encoded + n)[i] = data[encoded + i]
<1>1. encoded \in Nat /\ Len(data) \in Nat /\ data \in Seq(Octets)
  BY DEF TypeOK
<1>2. \A i \in encoded + 1 .. encoded + n : data[i] \in Octets
  BY <1>1
<1> DEFINE b == SubSeq(data, encoded + 1, encoded + n)
<1>3. /\ b \in Seq(Octets)
      /\ Len(b) = IF encoded + 1 <= encoded + n THEN encoded + n - (encoded + 1) + 1 ELSE 0
      /\ \A i \in 1 .. encoded + n - (encoded + 1) + 1 : b[i] = data[encoded + 1 + i - 1]
  BY <1>1, <1>2, SubSeqProperties
<1> HIDE DEF b
<1>4. Len(b) = n
  BY <1>1, <1>3
<1>5. \A i \in 1 .. n : b[i] = data[encoded + i]
  <2> TAKE i \in 1 .. n
  <2>1. i \in 1 .. encoded + n - (encoded + 1) + 1 /\ encoded + 1 + i - 1 = encoded + i
    BY <1>1
  <2> QED
    BY <1>3, <2>1
<1> QED
  BY <1>3, <1>4, <1>5 DEF b

LEMMA StreamType == ASSUME TypeOK PROVE wire \o batch \in Seq(Octets)
BY Concatenation DEF TypeOK

\* A step that emits the frame a for the next n bytes of the file, or the last frame
LEMMA EmitFrame ==
    ASSUME TypeOK, EncodingInv, stage = "encoding", mode # "S",
           NEW s \in Seq(Octets), s = wire \o batch,
           NEW a \in Seq(Octets), NEW last \in BOOLEAN, Emit(a, last),
           NEW n \in Nat, NEW upTo \in pulled .. Len(data), encoded + n <= upTo, Encode(n, upTo),
           UNCHANGED <<mode, type, data, fate, used, decoded>>,
           \/ stage' = "encoding" /\ Frame(s \o a, Len(s), encoded, Len(a), n)
           \/ stage' = "sent" /\ last /\ LastFrame(s \o a, Len(s), encoded)
    PROVE  IInv'
<1>1. s \in Seq(Octets) /\ encoded \in Nat /\ data \in Seq(Octets) /\ Len(data) \in Nat
  BY DEF TypeOK
<1>2. /\ wire' \in Seq(Octets) /\ batch' \in Seq(Octets) /\ wire' \o batch' = s \o a
      /\ last => batch' = <<>>
  BY EmitStep
<1>3. PICK C : Partly(s, C, encoded)
  BY DEF EncodingInv
<1>4. TypeOK' /\ Fresh' /\ fate' = "whole"
  <2>1. encoded' \in 0 .. Len(data') /\ pulled' \in encoded' .. Len(data')
    BY <1>1 DEF Encode, TypeOK
  <2>2. used' = 0 /\ decoded' = <<>> /\ fate' = "whole"
    BY DEF EncodingInv, Fresh
  <2> QED
    BY <1>2, <2>1, <2>2 DEF TypeOK, Fresh
<1>5. CASE stage' = "encoding" /\ Frame(s \o a, Len(s), encoded, Len(a), n)
  <2>1. \E D : Partly(s \o a, D, encoded + n)
    BY <1>1, <1>3, <1>5, AddFrame
  <2>2. PICK D : Partly(s \o a, D, encoded + n)
    BY <2>1
  <2>3. \A t, e : t = s \o a /\ e = encoded + n => Partly(t, D, e)'
    BY <2>2, SameFile
  <2>4. Partly(wire \o batch, D, encoded)'
    BY <1>2, <2>3 DEF Encode
  <2> QED
    BY <1>4, <1>5, <2>4 DEF IInv, EncodingInv, SentInv, DecodingInv
<1>6. CASE stage' = "sent" /\ last /\ LastFrame(s \o a, Len(s), encoded)
  <2>1. Whole(s \o a, C)
    BY <1>1, <1>3, <1>6, AddLastFrame
  <2>2. wire' = s \o a
    BY <1>2, <1>6, ConcatEmptySeq
  <2>3. \A t : t = s \o a => Whole(t, C)'
    BY <2>1, SameFile
  <2>4. Whole(wire, C)'
    BY <2>2, <2>3, Zenon
  <2> QED
    BY <1>4, <1>6, <2>4 DEF IInv, EncodingInv, SentInv, DecodingInv
<1> QED
  BY <1>5, <1>6

\* The bytes of a block
LEMMA BlockBytes ==
    ASSUME TypeOK, NEW x \in Octets, NEW y \in Octets, NEW flags \in Octets,
           NEW n \in Nat, Word(x, y) = n, encoded + n <= Len(data), NEW s \in Seq(Octets)
    PROVE  LET a == <<flags, x, y>> \o SubSeq(data, encoded + 1, encoded + n)
           IN  /\ a \in Seq(Octets) /\ Len(a) = 3 + n
               /\ Len(s \o a) = Len(s) + 3 + n
               /\ Block(s \o a, Len(s), encoded, n, flags)
<1> DEFINE h == <<flags, x, y>>
           b == SubSeq(data, encoded + 1, encoded + n)
           a == h \o b
           t == s \o a
<1>1. b \in Seq(Octets) /\ Len(b) = n /\ \A i \in 1 .. n : b[i] = data[encoded + i]
  BY Slice
<1>2. h \in Seq(Octets) /\ Len(h) = 3 /\ h[1] = flags /\ h[2] = x /\ h[3] = y
  OBVIOUS
<1> HIDE DEF h, b
<1>3. /\ a \in Seq(Octets) /\ Len(a) = Len(h) + Len(b)
      /\ \A i \in 1 .. Len(h) : a[i] = h[i]
      /\ \A i \in 1 .. Len(b) : a[Len(h) + i] = b[i]
  BY <1>1, <1>2, Concatenation
<1> HIDE DEF a
<1>4. a[1] = flags /\ a[2] = x /\ a[3] = y
  BY <1>2, <1>3
<1>5. Len(a) = 3 + n /\ \A i \in 1 .. n : a[3 + i] = data[encoded + i]
  BY <1>1, <1>2, <1>3
<1>6. Len(t) = Len(s) + Len(a) /\ \A i \in 1 .. Len(a) : t[Len(s) + i] = a[i]
  BY <1>3, Concatenation
<1> HIDE DEF t
<1>7. t[Len(s) + 1] = flags /\ t[Len(s) + 2] = x /\ t[Len(s) + 3] = y
  BY <1>4, <1>5, <1>6
<1>8. \A i \in 1 .. n : t[Len(s) + 3 + i] = data[encoded + i]
  <2> TAKE i \in 1 .. n
  <2>1. 3 + i \in 1 .. 3 + n /\ Len(s) + (3 + i) = Len(s) + 3 + i
    OBVIOUS
  <2>2. t[Len(s) + (3 + i)] = a[3 + i]
    BY <1>5, <1>6, <2>1
  <2> QED
    BY <1>5, <2>1, <2>2
<1>9. Block(t, Len(s), encoded, n, flags)
  BY <1>7, <1>8 DEF Block
<1>10. a \in Seq(Octets) /\ Len(a) = 3 + n /\ Len(t) = Len(s) + 3 + n
  <2>1. Len(s) \in Nat
    OBVIOUS
  <2> QED
    BY <1>3, <1>5, <1>6, <2>1
<1> QED
  BY <1>9, <1>10 DEF t, a, h, b

\* The header of a block in two bytes
LEMMA BlockFrame ==
    ASSUME TypeOK, NEW n \in Words, encoded + n <= Len(data),
           NEW flags \in Octets, NEW s \in Seq(Octets)
    PROVE  LET a == <<flags, High(n), Low(n)>> \o SubSeq(data, encoded + 1, encoded + n)
           IN  /\ a \in Seq(Octets) /\ Len(a) = 3 + n
               /\ Len(s \o a) = Len(s) + 3 + n
               /\ Block(s \o a, Len(s), encoded, n, flags)
<1>1. n \in Nat
  BY DEF Words
<1> QED
  BY <1>1, HighAndLow, BlockBytes, Zenon

LEMMA BlockStep == ASSUME TypeOK, EncodingInv, EncodeBlock PROVE IInv'
<1> DEFINE Body(flags, n) ==
        <<flags, High(n), Low(n)>> \o SubSeq(data, encoded + 1, encoded + n)
<1>1. /\ BlockSize \in Nat /\ 0 .. BlockSize \subseteq Words
      /\ encoded \in Nat /\ pulled \in encoded .. Len(data) /\ Len(data) \in Nat
  <2>1. BlockSize \in Nat /\ \A n \in 0 .. BlockSize : n \in Words
    <3>1. BlockSize \in Nat /\ BlockSize <= 65535
      BY Sizes
    <3>2. ASSUME NEW n \in 0 .. BlockSize PROVE n \in Words
      BY <3>1 DEF Words
    <3> QED
      BY <3>1, <3>2
  <2> QED
    BY <2>1 DEF TypeOK
<1>2. PICK upTo \in Fill(pulled, BlockSize + 1) :
        LET last == upTo - encoded <= BlockSize
            n == IF last THEN upTo - encoded ELSE BlockSize
        IN  /\ Emit(Body(IF last THEN EofFlag ELSE 0, n), last) /\ Encode(n, upTo)
            /\ stage' = IF last THEN "sent" ELSE stage
  BY Zenon DEF EncodeBlock, High, Low
<1> HIDE DEF Body
<1>3. upTo \in pulled .. Len(data) /\ (upTo - encoded >= BlockSize + 1 \/ upTo = Len(data))
  BY <1>1, FillStep
<1>4. PICK s \in Seq(Octets) : s = wire \o batch
  BY StreamType
<1>5. stage = "encoding" /\ mode = "B" /\ UNCHANGED <<mode, type, data, fate, used, decoded>>
  BY DEF EncodeBlock, decoder
<1>6. EofFlag \in Octets /\ 0 \in Octets
  BY DEF EofFlag, Octets
<1>7. ASSUME NEW n \in Words, encoded + n <= Len(data), NEW flags \in Octets
      PROVE  /\ Body(flags, n) \in Seq(Octets) /\ Len(Body(flags, n)) = 3 + n
             /\ Len(s \o Body(flags, n)) = Len(s) + 3 + n
             /\ Block(s \o Body(flags, n), Len(s), encoded, n, flags)
  BY <1>7, BlockFrame, Zenon DEF Body
<1>8. CASE upTo - encoded <= BlockSize
  <2>1. PICK n \in Words : n = upTo - encoded
    BY <1>1, <1>3, <1>8
  <2>2. n \in Nat /\ encoded + n <= upTo /\ encoded + n = Len(data) /\ encoded + n <= Len(data)
    BY <1>1, <1>3, <1>8, <2>1
  <2>3. PICK a \in Seq(Octets) :
          /\ a = Body(EofFlag, n) /\ Len(s \o a) = Len(s) + 3 + n
          /\ Block(s \o a, Len(s), encoded, n, EofFlag)
    BY <1>6, <1>7, <2>2
  <2>4. Emit(a, TRUE) /\ Encode(n, upTo) /\ stage' = "sent"
    BY <1>2, <1>8, <2>1, <2>3
  <2>5. LastFrame(s \o a, Len(s), encoded)
    BY <1>5, <2>2, <2>3 DEF LastFrame
  <2> QED
    BY <1>3, <1>4, <1>5, <2>2, <2>4, <2>5, EmitFrame, Zenon
<1>9. CASE ~(upTo - encoded <= BlockSize)
  <2>1. PICK n \in Words : n = BlockSize
    BY <1>1
  <2>2. n \in Nat /\ encoded + n <= upTo /\ encoded + n <= Len(data)
    BY <1>1, <1>3, <1>9, <2>1
  <2>3. PICK a \in Seq(Octets) :
          /\ a = Body(0, n) /\ Len(a) = 3 + n /\ Len(s \o a) = Len(s) + 3 + n
          /\ Block(s \o a, Len(s), encoded, n, 0)
    BY <1>6, <1>7, <2>2
  <2>4. Emit(a, FALSE) /\ Encode(n, upTo) /\ stage' = "encoding"
    <3>1. (upTo - encoded <= BlockSize) = FALSE
      BY <1>1, <1>3, <1>9
    <3> QED
      BY <1>2, <1>5, <2>1, <2>3, <3>1
  <2>5. Frame(s \o a, Len(s), encoded, Len(a), n)
    BY <1>5, <2>2, <2>3 DEF Frame
  <2> QED
    BY <1>3, <1>4, <1>5, <2>2, <2>4, <2>5, EmitFrame, Zenon
<1> QED
  BY <1>8, <1>9

\* The frames of Compressed mode
LEMMA LiteralFrame ==
    ASSUME TypeOK, mode = "C", NEW n \in Nat, n >= 1, n <= 127, encoded + n <= Len(data), NEW s \in Seq(Octets)
    PROVE  LET a == <<n>> \o SubSeq(data, encoded + 1, encoded + n)
           IN  a \in Seq(Octets) /\ Frame(s \o a, Len(s), encoded, Len(a), n)
<1> DEFINE h == <<n>>
           b == SubSeq(data, encoded + 1, encoded + n)
           a == h \o b
           t == s \o a
<1>1. b \in Seq(Octets) /\ Len(b) = n /\ \A i \in 1 .. n : b[i] = data[encoded + i]
  BY Slice
<1>2. h \in Seq(Octets) /\ Len(h) = 1 /\ h[1] = n
  BY DEF Octets
<1> HIDE DEF h, b
<1>3. /\ a \in Seq(Octets) /\ Len(a) = Len(h) + Len(b)
      /\ \A i \in 1 .. Len(h) : a[i] = h[i]
      /\ \A i \in 1 .. Len(b) : a[Len(h) + i] = b[i]
  BY <1>1, <1>2, Concatenation
<1> HIDE DEF a
<1>4. /\ Len(a) = 1 + n /\ a[1] = n
      /\ \A i \in 1 .. n : a[1 + i] = data[encoded + i]
  BY <1>1, <1>2, <1>3
<1>5. Len(t) = Len(s) + Len(a) /\ \A i \in 1 .. Len(a) : t[Len(s) + i] = a[i]
  BY <1>3, Concatenation
<1> HIDE DEF t
<1>6. t[Len(s) + 1] = n
  BY <1>4, <1>5
<1>7. \A i \in 1 .. n : t[Len(s) + 1 + i] = data[encoded + i]
  <2> TAKE i \in 1 .. n
  <2>1. 1 + i \in 1 .. 1 + n /\ Len(s) + (1 + i) = Len(s) + 1 + i
    OBVIOUS
  <2>2. t[Len(s) + (1 + i)] = a[1 + i]
    BY <1>4, <1>5, <2>1
  <2> QED
    BY <1>4, <2>1, <2>2
<1>8. LiteralAt(t, Len(s), encoded, n)
  BY <1>6, <1>7 DEF LiteralAt
<1>9. Frame(t, Len(s), encoded, Len(a), n)
  BY <1>4, <1>5, <1>8 DEF Frame
<1> QED
  BY <1>3, <1>9 DEF t, a, h, b

RunCode(n, byte) == IF byte = Filler THEN <<192 + n>> ELSE <<128 + n, byte>>

LEMMA RunFrame ==
    ASSUME TypeOK, mode = "C", NEW n \in Nat, n >= 2, n <= 63, encoded + n <= Len(data), NEW byte \in Octets,
           \A i \in 1 .. n : data[encoded + i] = byte, NEW s \in Seq(Octets)
    PROVE  /\ RunCode(n, byte) \in Seq(Octets)
           /\ Frame(s \o RunCode(n, byte), Len(s), encoded, Len(RunCode(n, byte)), n)
<1>1. CASE byte = Filler
  <2> DEFINE a == <<192 + n>>
             t == s \o a
  <2>1. a \in Seq(Octets) /\ Len(a) = 1 /\ a[1] = 192 + n
    BY DEF Octets
  <2> HIDE DEF a
  <2>2. Len(t) = Len(s) + Len(a) /\ \A i \in 1 .. Len(a) : t[Len(s) + i] = a[i]
    BY <2>1, Concatenation
  <2> HIDE DEF t
  <2>3. FillerAt(t, Len(s), encoded, n)
    BY <1>1, <2>1, <2>2 DEF FillerAt
  <2>4. Frame(t, Len(s), encoded, Len(a), n)
    BY <2>1, <2>2, <2>3 DEF Frame
  <2> QED
    BY <1>1, <2>1, <2>4 DEF t, a, RunCode
<1>2. CASE byte # Filler
  <2> DEFINE a == <<128 + n, byte>>
             t == s \o a
  <2>1. a \in Seq(Octets) /\ Len(a) = 2 /\ a[1] = 128 + n /\ a[2] = byte
    BY DEF Octets
  <2> HIDE DEF a
  <2>2. Len(t) = Len(s) + Len(a) /\ \A i \in 1 .. Len(a) : t[Len(s) + i] = a[i]
    BY <2>1, Concatenation
  <2> HIDE DEF t
  <2>3. RunAt(t, Len(s), encoded, n)
    BY <2>1, <2>2 DEF RunAt
  <2>4. Frame(t, Len(s), encoded, Len(a), n)
    BY <2>1, <2>2, <2>3 DEF Frame
  <2> QED
    BY <1>2, <2>1, <2>4 DEF t, a, RunCode
<1> QED
  BY <1>1, <1>2

LEMMA RunIsEncoded == ASSUME TypeOK, EncodingInv, EncodeRun PROVE IInv'
<1>1. PICK upTo \in LookAhead :
        /\ Run(upTo) >= 2
        /\ Emit(IF data[encoded + 1] = Filler THEN <<192 + Run(upTo)>>
                ELSE <<128 + Run(upTo), data[encoded + 1]>>, FALSE)
        /\ Encode(Run(upTo), upTo)
  BY Zenon DEF EncodeRun
<1>2. /\ stage = "encoding" /\ mode = "C" /\ encoded < Len(data)
      /\ UNCHANGED <<mode, type, data, fate, used, decoded>> /\ stage' = "encoding"
  BY DEF EncodeRun, decoder
<1>3. encoded \in Nat /\ pulled \in Nat /\ encoded <= pulled /\ Len(data) \in Nat
  BY DEF TypeOK
<1>4. upTo \in pulled .. Len(data) /\ upTo \in encoded + 1 .. Len(data)
  BY <1>2, <1>3, LookAheadStep
<1>5. PICK n \in Nat :
        /\ n >= 2 /\ n <= 63 /\ n = Run(upTo) /\ encoded + n <= upTo
        /\ \A i \in 1 .. n : data[encoded + i] = data[encoded + 1]
  <2>1. MaxRun \in Nat /\ MaxRun <= 63
    BY Sizes
  <2>2. /\ Run(upTo) \in 1 .. MaxRun /\ Run(upTo) <= upTo - encoded
        /\ \A i \in 1 .. Run(upTo) : data[encoded + i] = data[encoded + 1]
    BY <1>4, RunStep
  <2>3. Run(upTo) \in Nat /\ Run(upTo) <= 63 /\ encoded + Run(upTo) <= upTo
    BY <1>3, <1>4, <2>1, <2>2
  <2> QED
    BY <1>1, <2>2, <2>3
<1>6. PICK byte \in Octets : byte = data[encoded + 1]
  BY <1>2, <1>3 DEF TypeOK
<1>7. PICK s \in Seq(Octets) : s = wire \o batch
  BY StreamType
<1>8. encoded + n <= Len(data) /\ n \in Nat
  BY <1>3, <1>4, <1>5
<1>9. PICK a : a = RunCode(n, byte)
  OBVIOUS
<1>10. a \in Seq(Octets) /\ Frame(s \o a, Len(s), encoded, Len(a), n)
  <2>1. n >= 2 /\ n <= 63 /\ \A i \in 1 .. n : data[encoded + i] = byte
    BY <1>5, <1>6
  <2> QED
    BY <1>2, <1>8, <1>9, <2>1, RunFrame
<1>11. Emit(a, FALSE) /\ Encode(n, upTo)
  BY <1>1, <1>5, <1>6, <1>9 DEF RunCode
<1> QED
  BY <1>2, <1>4, <1>5, <1>7, <1>8, <1>10, <1>11, EmitFrame, Zenon

LEMMA LiteralIsEncoded == ASSUME TypeOK, EncodingInv, EncodeLiteral PROVE IInv'
<1>1. PICK seen \in LookAhead : \E upTo \in Fill(seen, MaxLiteral + 2) :
        /\ Emit(<<Literal(upTo)>>
                    \o SubSeq(data, encoded + 1, encoded + Literal(upTo)), FALSE)
        /\ Encode(Literal(upTo), upTo)
  BY Zenon DEF EncodeLiteral
<1>2. PICK upTo \in Fill(seen, MaxLiteral + 2) :
        /\ Emit(<<Literal(upTo)>>
                    \o SubSeq(data, encoded + 1, encoded + Literal(upTo)), FALSE)
        /\ Encode(Literal(upTo), upTo)
  BY <1>1
<1>3. /\ stage = "encoding" /\ mode = "C" /\ encoded < Len(data)
      /\ UNCHANGED <<mode, type, data, fate, used, decoded>> /\ stage' = "encoding"
  BY DEF EncodeLiteral, decoder
<1>4. encoded \in Nat /\ pulled \in Nat /\ encoded <= pulled /\ Len(data) \in Nat
  BY DEF TypeOK
<1>5. seen \in pulled .. Len(data) /\ seen > encoded /\ seen \in encoded .. Len(data)
  BY <1>3, <1>4, LookAheadStep
<1>6. upTo \in pulled .. Len(data) /\ upTo \in encoded + 1 .. Len(data)
  <2>1. MaxLiteral + 2 \in Nat
    BY Sizes
  <2>2. upTo \in seen .. Len(data)
    BY <1>5, <2>1, FillStep
  <2> QED
    BY <1>4, <1>5, <2>2
<1>7. PICK n \in Nat : n >= 1 /\ n <= 127 /\ n = Literal(upTo) /\ encoded + n <= upTo
  <2>1. MaxLiteral \in Nat /\ MaxLiteral <= 127
    BY Sizes
  <2>2. Literal(upTo) \in 1 .. MaxLiteral /\ Literal(upTo) <= upTo - encoded
    BY <1>6, LiteralStep
  <2> QED
    BY <1>4, <1>6, <2>1, <2>2
<1>8. PICK s \in Seq(Octets) : s = wire \o batch
  BY StreamType
<1>9. encoded + n <= Len(data) /\ n \in Nat
  BY <1>4, <1>6, <1>7
<1>10. PICK a : a = <<n>> \o SubSeq(data, encoded + 1, encoded + n)
  OBVIOUS
<1>11. a \in Seq(Octets) /\ Frame(s \o a, Len(s), encoded, Len(a), n)
  BY <1>3, <1>7, <1>9, <1>10, LiteralFrame
<1>12. Emit(a, FALSE) /\ Encode(n, upTo)
  BY <1>2, <1>7, <1>10
<1> QED
  BY <1>3, <1>6, <1>7, <1>8, <1>9, <1>11, <1>12, EmitFrame, Zenon

LEMMA StreamIsEncoded == ASSUME TypeOK, EncodingInv, EncodeStream PROVE IInv'
<1>1. PICK upTo \in Fill(pulled, 1) :
        /\ wire' = wire \o SubSeq(data, encoded + 1, upTo)
        /\ Encode(upTo - encoded, upTo)
  BY DEF EncodeStream
<1>2. /\ stage = "encoding" /\ stage' = "encoding" /\ mode = "S" /\ encoded < Len(data)
      /\ UNCHANGED <<mode, type, data, batch, fate, used, decoded>>
  BY DEF EncodeStream, decoder
<1>3. /\ encoded \in Nat /\ pulled \in encoded .. Len(data) /\ Len(data) \in Nat
      /\ data \in Seq(Octets) /\ wire \in Seq(Octets)
  BY DEF TypeOK
<1>4. upTo \in pulled .. Len(data) /\ upTo \in Nat /\ encoded <= upTo /\ upTo <= Len(data)
  BY <1>3, FillStep
<1>5. encoded' = upTo /\ pulled' = upTo
  BY <1>1, <1>3, <1>4 DEF Encode
<1>6. wire' = SubSeq(data, 1, upTo)
  <2>1. wire = SubSeq(data, 1, encoded)
    BY <1>2 DEF EncodingInv
  <2>2. 1 \in 1 .. Len(data) + 1 /\ encoded \in 1 - 1 .. Len(data) /\ upTo \in encoded .. Len(data)
    BY <1>3, <1>4
  <2>3. SubSeq(data, 1, encoded) \o SubSeq(data, encoded + 1, upTo) = SubSeq(data, 1, upTo)
    BY <1>3, <2>2, ConcatAdjacentSubSeq, Zenon
  <2> QED
    BY <1>1, <2>1, <2>3
<1>7. wire' \in Seq(Octets)
  BY <1>3, <1>4, <1>6
<1>8. TypeOK'
  BY <1>2, <1>3, <1>4, <1>5, <1>7, EmptySeq DEF TypeOK, EncodingInv, Fresh
<1>9. Fresh' /\ fate' = "whole" /\ batch' = <<>>
  BY <1>2 DEF EncodingInv, Fresh
<1> QED
  BY <1>2, <1>5, <1>6, <1>8, <1>9 DEF IInv, EncodingInv, SentInv, DecodingInv

LEMMA EndIsEncoded == ASSUME TypeOK, EncodingInv, EncodeEnd PROVE IInv'
<1>1. /\ stage = "encoding" /\ stage' = "sent" /\ encoded = Len(data)
      /\ mode = "S" \/ mode = "C"
      /\ UNCHANGED <<mode, type, data, encoded, pulled, fate, used, decoded>>
  BY DEF EncodeEnd, decoder
<1>2. /\ encoded \in Nat /\ pulled \in encoded .. Len(data) /\ Len(data) \in Nat
      /\ data \in Seq(Octets) /\ wire \in Seq(Octets) /\ batch \in Seq(Octets)
  BY DEF TypeOK
<1>3. CASE mode = "S"
  <2>1. Emit(<<>>, TRUE)
    BY <1>3 DEF EncodeEnd
  <2>2. <<>> \in Seq(Octets) /\ TRUE \in BOOLEAN
    OBVIOUS
  <2>3. /\ wire' \in Seq(Octets) /\ batch' \in Seq(Octets) /\ batch' = <<>>
        /\ wire' \o batch' = (wire \o batch) \o <<>>
    BY <2>1, <2>2, EmitStep
  <2>4. wire = data /\ batch = <<>>
    BY <1>1, <1>2, <1>3, SubSeqFull DEF EncodingInv
  <2>5. wire' = wire
    BY <1>2, <2>3, <2>4, ConcatEmptySeq
  <2>6. Fresh' /\ fate' = "whole"
    BY <1>1 DEF EncodingInv, Fresh
  <2>7. TypeOK'
    BY <1>1, <2>3 DEF TypeOK
  <2> QED
    BY <1>1, <1>3, <2>4, <2>5, <2>6, <2>7 DEF IInv, EncodingInv, SentInv, DecodingInv
<1>4. CASE mode = "C"
  <2>1. PICK a \in Seq(Octets) : a = <<0, EofFlag>> /\ Len(a) = 2 /\ a[1] = 0 /\ a[2] = EofFlag
    <3>1. 0 \in Octets /\ EofFlag \in Octets
      BY DEF EofFlag, Octets
    <3>2. <<0, EofFlag>> \in Seq(Octets) /\ Len(<<0, EofFlag>>) = 2
      BY <3>1
    <3> QED
      BY <3>2
  <2>2. Emit(a, TRUE)
    BY <1>4, <2>1 DEF EncodeEnd
  <2>3. PICK s \in Seq(Octets) : s = wire \o batch
    BY StreamType
  <2>4. Len(s \o a) = Len(s) + Len(a) /\ \A i \in 1 .. Len(a) : (s \o a)[Len(s) + i] = a[i]
    BY Concatenation
  <2>5. LastFrame(s \o a, Len(s), encoded)
    BY <1>1, <1>4, <2>1, <2>4 DEF LastFrame
  <2>6. 0 \in Nat /\ pulled \in pulled .. Len(data) /\ encoded + 0 <= pulled
    BY <1>2
  <2>7. Encode(0, pulled)
    BY <1>1, <1>2 DEF Encode
  <2> QED
    BY <1>1, <1>4, <2>2, <2>3, <2>5, <2>6, <2>7, EmitFrame, Zenon
<1> QED
  BY <1>1, <1>3, <1>4

-----------------------------------------------------------------------------
(* The wire *)

LEMMA ReceiveStep == ASSUME TypeOK, SentInv, Receive PROVE IInv'
<1>1. /\ stage = "sent" /\ stage' = "decoding" /\ encoded' = 0 /\ pulled' = 0 /\ batch' = <<>>
      /\ UNCHANGED <<mode, type, data, used, decoded>>
  BY DEF Receive, decoder
<1>2. PICK s \in Seq(Octets) : s = wire /\ Len(s) \in Nat
  BY DEF TypeOK
<1>3. used = 0 /\ decoded = <<>> /\ fate = "whole"
  BY <1>1 DEF SentInv, Fresh
<1>4. /\ wire' \in Seq(Octets)
      /\ \/ fate' = "whole" /\ wire' = s
         \/ fate' = "cut" /\ Len(wire') < Len(s) /\ \A i \in 1 .. Len(wire') : wire'[i] = s[i]
         \/ fate' = "extended" /\ Len(wire') = Len(s) + 1 /\ \A i \in 1 .. Len(s) : wire'[i] = s[i]
         \/ fate' = "changed"
  <2>1. Strays \subseteq Octets
    BY Sizes
  <2>2. CASE wire' = wire /\ fate' = fate
    BY <1>2, <1>3, <2>2
  <2>3. ASSUME fate' = "cut", NEW n \in 0 .. Len(s) - 1, wire' = SubSeq(s, 1, n)
        PROVE  /\ wire' \in Seq(Octets) /\ Len(wire') < Len(s)
               /\ \A i \in 1 .. Len(wire') : wire'[i] = s[i]
    BY <1>2, <2>3
  <2>4. ASSUME fate' = "extended", NEW byte \in Strays, wire' = Append(s, byte)
        PROVE  /\ wire' \in Seq(Octets) /\ Len(wire') = Len(s) + 1
               /\ \A i \in 1 .. Len(s) : wire'[i] = s[i]
    BY <2>1, <2>4, AppendProperties
  <2>5. ASSUME fate' = "changed", NEW i \in DOMAIN s, NEW byte \in Strays,
               wire' = [s EXCEPT ![i] = byte]
        PROVE  wire' \in Seq(Octets)
    BY <2>1, <2>5, ExceptSeq
  <2> QED
    BY <1>2, <2>2, <2>3, <2>4, <2>5 DEF Receive
<1>5. TypeOK'
  <2>1. Len(wire') \in Nat /\ Len(data) \in Nat
    BY <1>4 DEF TypeOK
  <2> QED
    BY <1>1, <1>3, <1>4, <2>1, EmptySeq DEF TypeOK
<1>6. Fresh'
  BY <1>1, <1>3 DEF Fresh
<1>7. mode = "S" => (fate' = "whole" => wire' = data')
  BY <1>1, <1>2, <1>4 DEF SentInv
<1>8. mode # "S" /\ fate' # "changed" =>
        \E C : Whole(s, C)' /\ Received(s)' /\ Progress(C)'
  <2> SUFFICES ASSUME mode # "S", fate' # "changed"
               PROVE  \E C : Whole(s, C)' /\ Received(s)' /\ Progress(C)'
    OBVIOUS
  <2>1. PICK C : Whole(s, C)
    BY <1>1, <1>2 DEF SentInv
  <2>2. Whole(s, C)'
    BY <1>1, <2>1, SameFile
  <2>3. Received(s)'
    BY <1>2, <1>4 DEF Received
  <2>4. Progress(C)'
    <3>1. <<0, 0>> \in C /\ Len(data) \in Nat
      BY <2>1 DEF Whole, Cuts, TypeOK
    <3>2. used' = 0 /\ decoded' = <<>> /\ Len(decoded') = 0
      BY <1>1, <1>3
    <3> QED
      BY <1>1, <3>1, <3>2 DEF Progress
  <2> QED
    BY <2>2, <2>3, <2>4
<1>9. DecodingInv'
  BY <1>1, <1>6, <1>7, <1>8 DEF DecodingInv
<1> QED
  BY <1>1, <1>5, <1>9 DEF IInv, EncodingInv, SentInv

-----------------------------------------------------------------------------
(* Decoding *)

\* Bytes of the wire
LEMMA WireSlice ==
    ASSUME TypeOK, NEW lo \in Nat, NEW n \in Nat, lo >= 1, lo + n <= Len(wire) + 1,
           NEW hi, hi = lo + n - 1
    PROVE  /\ SubSeq(wire, lo, hi) \in Seq(Octets) /\ Len(SubSeq(wire, lo, hi)) = n
           /\ \A i \in 1 .. n : SubSeq(wire, lo, hi)[i] = wire[lo + i - 1]
<1>1. wire \in Seq(Octets) /\ Len(wire) \in Nat /\ hi \in Int
  BY DEF TypeOK
<1>2. \A i \in lo .. hi : wire[i] \in Octets
  BY <1>1
<1> DEFINE b == SubSeq(wire, lo, hi)
<1>3. /\ b \in Seq(Octets) /\ Len(b) = IF lo <= hi THEN hi - lo + 1 ELSE 0
      /\ \A i \in 1 .. hi - lo + 1 : b[i] = wire[lo + i - 1]
  BY <1>1, <1>2, SubSeqProperties
<1> HIDE DEF b
<1>4. hi - lo + 1 = n
  BY <1>1
<1> QED
  BY <1>1, <1>3, <1>4 DEF b

\* A decoder takes k bytes and yields the text
LEMMA DecodeType ==
    ASSUME TypeOK, NEW k \in Nat, used + k <= Len(wire), NEW text \in Seq(Octets), Decode(k, text),
           stage' \in {"decoding", "done", "error"},
           UNCHANGED <<mode, type, data, encoder, wire, fate>>
    PROVE  TypeOK'
<1>1. used \in Nat /\ Len(wire) \in Nat /\ decoded \in Seq(Octets)
  BY DEF TypeOK
<1>2. used' \in 0 .. Len(wire) /\ decoded' \in Seq(Octets)
  BY <1>1, Concatenation DEF Decode
<1> QED
  BY <1>2 DEF TypeOK, encoder

\* As long as the decoder is in the file, its next frame is one of the file's
LEMMA NextFrame ==
    ASSUME TypeOK, NEW s \in Seq(Octets), NEW C, Whole(s, C), Progress(C), stage = "decoding"
    PROVE  /\ used <= Len(s) /\ Len(decoded) \in Nat /\ used \in Nat
           /\ \/ LastFrame(s, used, Len(decoded))
              \/ \E k, n \in Nat : /\ Frame(s, used, Len(decoded), k, n)
                                   /\ <<used + k, Len(decoded) + n>> \in C
<1>1. used \in Nat /\ Len(decoded) \in Nat /\ data \in Seq(Octets)
  BY DEF TypeOK
<1>2. <<used, Len(decoded)>> \in C
  BY DEF Progress
<1>3. used <= Len(s)
  BY <1>1, <1>2, CutsAreNumbers DEF Whole
<1> QED
  BY <1>1, <1>2, <1>3 DEF Whole, Goes

\* The text of a frame, after what was decoded, is the file's
LEMMA TextDecoded ==
    ASSUME TypeOK, NEW C, Progress(C), data' = data, NEW k \in Nat, NEW n \in Nat,
           Len(decoded) + n <= Len(data), NEW text \in Seq(Octets), Decode(k, text),
           Len(text) = n, \A i \in 1 .. n : text[i] = data[Len(decoded) + i]
    PROVE  /\ used' = used + k /\ Len(decoded') = Len(decoded) + n /\ Len(decoded') <= Len(data)
           /\ \A i \in 1 .. Len(decoded') : decoded'[i] = data[i]
<1>1. decoded \in Seq(Octets) /\ Len(decoded) \in Nat /\ Len(data) \in Nat
  BY DEF TypeOK
<1>2. /\ decoded' = decoded \o text /\ used' = used + k /\ Len(decoded') = Len(decoded) + n
      /\ \A i \in 1 .. Len(decoded) : decoded'[i] = decoded[i]
      /\ \A i \in 1 .. n : decoded'[Len(decoded) + i] = text[i]
  BY <1>1, Concatenation DEF Decode
<1>3. ASSUME NEW i \in 1 .. Len(decoded') PROVE decoded'[i] = data[i]
  <2>1. CASE i <= Len(decoded)
    BY <1>1, <1>2, <2>1 DEF Progress
  <2>2. CASE i > Len(decoded)
    <3>1. i - Len(decoded) \in 1 .. n /\ Len(decoded) + (i - Len(decoded)) = i
      BY <1>1, <1>2, <2>2
    <3> QED
      BY <1>2, <3>1
  <2> QED
    BY <1>1, <1>2, <2>1, <2>2
<1> QED
  BY <1>2, <1>3

\* A decoder that takes a frame comes to the next cut
LEMMA FrameDecoded ==
    ASSUME TypeOK, NEW C, Progress(C), stage = "decoding", stage' = "decoding", data' = data,
           NEW k \in Nat, NEW n \in Nat, <<used + k, Len(decoded) + n>> \in C,
           Len(decoded) + n <= Len(data), NEW text \in Seq(Octets), Decode(k, text),
           Len(text) = n, \A i \in 1 .. n : text[i] = data[Len(decoded) + i]
    PROVE  Progress(C)'
<1>1. /\ used' = used + k /\ Len(decoded') = Len(decoded) + n /\ Len(decoded') <= Len(data)
      /\ \A i \in 1 .. Len(decoded') : decoded'[i] = data[i]
  BY TextDecoded
<1> QED
  BY <1>1 DEF Progress

\* A decoder that takes the last frame has the file, and knows whether more follows
LEMMA LastDecoded ==
    ASSUME TypeOK, NEW s \in Seq(Octets), NEW C, Received(s), Progress(C), fate # "changed",
           UNCHANGED <<data, fate>>, NEW k \in Nat, NEW n \in Nat,
           used + k = Len(s), used + k <= Len(wire), Len(decoded) + n = Len(data),
           NEW text \in Seq(Octets), Decode(k, text),
           Len(text) = n, \A i \in 1 .. n : text[i] = data[Len(decoded) + i],
           stage' = IF Len(wire) - used = k THEN "done" ELSE "error"
    PROVE  Progress(C)'
<1>1. used \in Nat /\ Len(wire) \in Nat /\ Len(decoded) \in Nat /\ Len(data) \in Nat
  BY DEF TypeOK
<1>0. data' = data
  OBVIOUS
<1>2. /\ used' = used + k /\ Len(decoded') = Len(decoded) + n /\ Len(decoded') <= Len(data)
      /\ \A i \in 1 .. Len(decoded') : decoded'[i] = data[i]
  BY <1>0, <1>1, TextDecoded
<1>3. (fate = "whole" /\ Len(wire) - used = k) \/ (fate = "extended" /\ Len(wire) - used # k)
  BY <1>1 DEF TypeOK, Received
<1> QED
  BY <1>2, <1>3 DEF Progress

\* What is the same for every step of a decoder in Block or Compressed mode
LEMMA DecodingStep ==
    ASSUME TypeOK', stage' \in {"decoding", "done", "error"}, stage = "decoding",
           mode # "S", DecodingInv, UNCHANGED <<mode, type, data, encoder, wire, fate>>,
           stage' = "done" => used' = Len(wire),
           \A s \in Seq(Octets) : \A C :
               Whole(s, C) /\ Received(s) /\ Progress(C) /\ fate # "changed" => Progress(C)'
    PROVE  IInv'
<1>1. mode' # "S" /\ fate' # "changed" =>
        \E s \in Seq(Octets) : \E C : Whole(s, C)' /\ Received(s)' /\ Progress(C)'
  <2> SUFFICES ASSUME mode # "S", fate # "changed"
               PROVE  \E s \in Seq(Octets) : \E C : Whole(s, C)' /\ Received(s)' /\ Progress(C)'
    OBVIOUS
  <2>1. PICK s \in Seq(Octets) : \E C : Whole(s, C) /\ Received(s) /\ Progress(C)
    BY DEF DecodingInv
  <2>2. PICK C : Whole(s, C) /\ Received(s) /\ Progress(C)
    BY <2>1
  <2>3. Progress(C)'
    BY <2>2
  <2>4. Whole(s, C)'
    BY <2>2, SameFile
  <2>5. Received(s)'
    BY <2>2 DEF Received
  <2> QED
    BY <2>3, <2>4, <2>5
<1>2. DecodingInv'
  BY <1>1 DEF DecodingInv
<1> QED
  BY <1>2 DEF IInv, EncodingInv, SentInv

LEMMA StreamIsDecoded == ASSUME TypeOK, DecodingInv, DecodeStream PROVE IInv'
<1>1. /\ stage = "decoding" /\ stage' = "done" /\ mode = "S"
      /\ UNCHANGED <<mode, type, data, encoder, wire, fate>>
      /\ Decode(Len(wire) - used, SubSeq(wire, used + 1, Len(wire)))
  BY DEF DecodeStream, Left
<1>2. used = 0 /\ decoded = <<>> /\ wire \in Seq(Octets) /\ Len(wire) \in Nat
  BY <1>1 DEF DecodingInv, Fresh, TypeOK
<1>3. SubSeq(wire, used + 1, Len(wire)) = wire
  BY <1>2, SubSeqFull
<1>4. used' = Len(wire) /\ decoded' = wire
  BY <1>1, <1>2, <1>3, ConcatEmptySeq DEF Decode
<1>5. TypeOK'
  BY <1>1, <1>2, <1>4 DEF TypeOK, encoder
<1> QED
  BY <1>1, <1>4, <1>5 DEF IInv, EncodingInv, SentInv, DecodingInv

\* What a frame of Compressed mode begins with
LEMMA LastOfCoded ==
    ASSUME mode = "C", NEW s, NEW w, NEW d, LastFrame(s, w, d)
    PROVE  s[w + 1] = 0 /\ s[w + 2] = EofFlag /\ w + 2 = Len(s) /\ d = Len(data)
BY DEF LastFrame

LEMMA FrameOfCoded ==
    ASSUME mode = "C", NEW s, NEW w, NEW d, NEW k, NEW n, Frame(s, w, d, k, n)
    PROVE  /\ w + k <= Len(s) /\ d + n <= Len(data)
           /\ \/ LiteralAt(s, w, d, n) /\ k = 1 + n
              \/ RunAt(s, w, d, n) /\ k = 2
              \/ FillerAt(s, w, d, n) /\ k = 1
BY DEF Frame

LEMMA CodedFrame ==
    ASSUME TypeOK, mode = "C", stage = "decoding", used + 1 <= Len(wire), wire[used + 1] # 0,
           NEW s \in Seq(Octets), NEW C, Whole(s, C), Received(s), Progress(C)
    PROVE  /\ \A i \in Nat : i >= 1 /\ i <= Len(wire) /\ i <= Len(s) => wire[i] = s[i]
           /\ wire[used + 1] = s[used + 1] /\ Len(s) \in Nat
           /\ \E k, m \in Nat :
                /\ <<used + k, Len(decoded) + m>> \in C
                /\ used + k <= Len(s) /\ Len(decoded) + m <= Len(data)
                /\ \/ LiteralAt(s, used, Len(decoded), m) /\ k = 1 + m
                   \/ RunAt(s, used, Len(decoded), m) /\ k = 2
                   \/ FillerAt(s, used, Len(decoded), m) /\ k = 1
<1>1. /\ used \in Nat /\ Len(wire) \in Nat /\ wire \in Seq(Octets)
      /\ Len(decoded) \in Nat /\ Len(s) \in Nat
  BY DEF TypeOK
<1>2. \A i \in Nat : i >= 1 /\ i <= Len(wire) /\ i <= Len(s) => wire[i] = s[i]
  BY <1>1 DEF Received
<1>3. used + 1 <= Len(s) => wire[used + 1] = s[used + 1]
  BY <1>1, <1>2
<1>4. ~LastFrame(s, used, Len(decoded))
  <2> SUFFICES ASSUME LastFrame(s, used, Len(decoded)) PROVE FALSE
    OBVIOUS
  <2>1. s[used + 1] = 0 /\ used + 2 = Len(s)
    BY LastOfCoded
  <2>2. used + 1 <= Len(s)
    BY <1>1, <2>1
  <2> QED
    BY <1>3, <2>1, <2>2
<1>5. PICK k \in Nat, m \in Nat : /\ Frame(s, used, Len(decoded), k, m)
                                  /\ <<used + k, Len(decoded) + m>> \in C
  BY <1>4, NextFrame
<1>6. /\ used + k <= Len(s) /\ Len(decoded) + m <= Len(data)
      /\ \/ LiteralAt(s, used, Len(decoded), m) /\ k = 1 + m
         \/ RunAt(s, used, Len(decoded), m) /\ k = 2
         \/ FillerAt(s, used, Len(decoded), m) /\ k = 1
  BY <1>5, FrameOfCoded
<1>7. used + 1 <= Len(s)
  <2>1. k >= 1
    BY <1>6
  <2> QED
    BY <1>1, <1>6, <2>1
<1> QED
  BY <1>1, <1>2, <1>3, <1>5, <1>6, <1>7

LEMMA LiteralIsDecoded == ASSUME TypeOK, DecodingInv, DecodeLiteral PROVE IInv'
<1>1. /\ stage = "decoding" /\ stage' = "decoding" /\ mode = "C" /\ IsLiteral
      /\ UNCHANGED <<mode, type, data, encoder, wire, fate>>
  BY DEF DecodeLiteral
<1>2. used \in Nat /\ Len(wire) \in Nat /\ wire \in Seq(Octets) /\ Len(decoded) \in Nat
  BY DEF TypeOK
<1>3. PICK n \in Nat : /\ n >= 1 /\ n <= 127 /\ n = wire[used + 1]
                       /\ used + 1 + n <= Len(wire)
  <2>1. Byte(1) \in Nat /\ Byte(1) >= 1 /\ Byte(1) <= 127
    BY <1>1 DEF IsLiteral
  <2>2. Len(wire) - used > Byte(1)
    BY <1>1 DEF IsLiteral, Left
  <2>3. used + 1 + Byte(1) <= Len(wire)
    BY <1>2, <2>1, <2>2
  <2> QED
    BY <2>1, <2>3 DEF Byte
<1>4. PICK text : text = SubSeq(wire, used + 2, used + 1 + n)
  OBVIOUS
<1>5. Decode(1 + n, text)
  BY <1>3, <1>4, Zenon DEF DecodeLiteral, Byte
<1>6. /\ text \in Seq(Octets) /\ Len(text) = n
      /\ \A i \in 1 .. n : text[i] = wire[used + 2 + i - 1]
  <2>1. /\ used + 2 \in Nat /\ used + 2 >= 1 /\ used + 2 + n <= Len(wire) + 1
        /\ used + 1 + n = used + 2 + n - 1
    BY <1>2, <1>3
  <2> QED
    BY <1>4, <2>1, WireSlice
<1>7. TypeOK'
  <2>1. 1 + n \in Nat /\ used + (1 + n) <= Len(wire)
    BY <1>2, <1>3
  <2> QED
    BY <1>1, <1>5, <1>6, <2>1, DecodeType
<1>8. ASSUME NEW s \in Seq(Octets), NEW C, Whole(s, C), Received(s), Progress(C)
      PROVE  Progress(C)'
  <2>0. used + 1 <= Len(wire) /\ wire[used + 1] # 0
    BY <1>2, <1>3
  <2>1. /\ \A i \in Nat : i >= 1 /\ i <= Len(wire) /\ i <= Len(s) => wire[i] = s[i]
        /\ wire[used + 1] = s[used + 1] /\ Len(s) \in Nat
    BY <1>1, <1>8, <2>0, CodedFrame
  <2>2. PICK k \in Nat, m \in Nat :
              /\ <<used + k, Len(decoded) + m>> \in C
              /\ used + k <= Len(s) /\ Len(decoded) + m <= Len(data)
              /\ \/ LiteralAt(s, used, Len(decoded), m) /\ k = 1 + m
                 \/ RunAt(s, used, Len(decoded), m) /\ k = 2
                 \/ FillerAt(s, used, Len(decoded), m) /\ k = 1
    BY <1>1, <1>8, <2>0, CodedFrame
  <2>3. LiteralAt(s, used, Len(decoded), m) /\ k = 1 + m /\ m = n
    <3>1. ~RunAt(s, used, Len(decoded), m)
      BY <1>3, <2>1 DEF RunAt
    <3>2. ~FillerAt(s, used, Len(decoded), m)
      BY <1>3, <2>1 DEF FillerAt
    <3> QED
      BY <1>3, <2>1, <2>2, <3>1, <3>2 DEF LiteralAt
  <2>4. \A i \in 1 .. m : text[i] = data[Len(decoded) + i]
    <3> TAKE i \in 1 .. m
    <3>1. i \in Nat /\ i >= 1 /\ i <= n
      BY <2>3
    <3>2. used + 2 + i - 1 = used + 1 + i /\ used + 1 + i <= Len(wire)
      BY <1>2, <1>3, <3>1
    <3>3. used + 1 + i <= Len(s)
      <4>1. used + (1 + n) <= Len(s)
        BY <2>2, <2>3
      <4> QED
        BY <1>2, <2>1, <3>1, <4>1
    <3>4. used + 1 + i \in Nat /\ used + 1 + i >= 1
      BY <1>2, <3>1
    <3>5. wire[used + 1 + i] = s[used + 1 + i]
      BY <2>1, <3>2, <3>3, <3>4
    <3>6. s[used + 1 + i] = data[Len(decoded) + i]
      BY <2>3 DEF LiteralAt
    <3>7. text[i] = wire[used + 1 + i]
      BY <1>6, <2>3, <3>2
    <3> QED
      BY <3>5, <3>6, <3>7
  <2> QED
    BY <1>1, <1>5, <1>6, <1>8, <2>2, <2>3, <2>4, FrameDecoded
<1> QED
  BY <1>1, <1>7, <1>8, DecodingStep

LEMMA RunIsDecoded == ASSUME TypeOK, DecodingInv, DecodeRun PROVE IInv'
<1>1. /\ stage = "decoding" /\ stage' = "decoding" /\ mode = "C" /\ IsRun
      /\ UNCHANGED <<mode, type, data, encoder, wire, fate>>
  BY DEF DecodeRun
<1>2. used \in Nat /\ Len(wire) \in Nat /\ wire \in Seq(Octets) /\ Len(decoded) \in Nat
  BY DEF TypeOK
<1>3. PICK n \in Nat : n <= 63 /\ n >= 1 /\ wire[used + 1] = 128 + n /\ n = Byte(1) % 64
  <2>1. Byte(1) \in Nat /\ Byte(1) >= 129 /\ Byte(1) <= 191
    BY <1>1 DEF IsRun
  <2>2. Byte(1) % 64 = Byte(1) - 128
    BY <2>1
  <2> QED
    BY <2>1, <2>2 DEF Byte
<1>4. used + 2 <= Len(wire) /\ wire[used + 2] \in Octets
  <2>1. used + 2 <= Len(wire)
    BY <1>1, <1>2 DEF IsRun, Left
  <2> QED
    BY <1>2, <2>1
<1>5. PICK text : text = [i \in 1 .. n |-> wire[used + 2]]
  OBVIOUS
<1>6. Decode(2, text)
  BY <1>3, <1>5, Zenon DEF DecodeRun, Byte
<1>7. text \in Seq(Octets) /\ Len(text) = n /\ \A i \in 1 .. n : text[i] = wire[used + 2]
  BY <1>4, <1>5
<1>8. TypeOK'
  BY <1>1, <1>2, <1>4, <1>6, <1>7, DecodeType
<1>9. ASSUME NEW s \in Seq(Octets), NEW C, Whole(s, C), Received(s), Progress(C)
      PROVE  Progress(C)'
  <2>0. used + 1 <= Len(wire) /\ wire[used + 1] # 0
    BY <1>2, <1>3, <1>4
  <2>1. /\ \A i \in Nat : i >= 1 /\ i <= Len(wire) /\ i <= Len(s) => wire[i] = s[i]
        /\ wire[used + 1] = s[used + 1] /\ Len(s) \in Nat
    BY <1>1, <1>9, <2>0, CodedFrame
  <2>2. PICK k \in Nat, m \in Nat :
              /\ <<used + k, Len(decoded) + m>> \in C
              /\ used + k <= Len(s) /\ Len(decoded) + m <= Len(data)
              /\ \/ LiteralAt(s, used, Len(decoded), m) /\ k = 1 + m
                 \/ RunAt(s, used, Len(decoded), m) /\ k = 2
                 \/ FillerAt(s, used, Len(decoded), m) /\ k = 1
    BY <1>1, <1>9, <2>0, CodedFrame
  <2>3. RunAt(s, used, Len(decoded), m) /\ k = 2 /\ m = n
    <3>1. ~LiteralAt(s, used, Len(decoded), m)
      BY <1>3, <2>1 DEF LiteralAt
    <3>2. ~FillerAt(s, used, Len(decoded), m)
      BY <1>3, <2>1 DEF FillerAt
    <3> QED
      BY <1>3, <2>1, <2>2, <3>1, <3>2 DEF RunAt
  <2>4. wire[used + 2] = s[used + 2]
    BY <1>2, <1>4, <2>1, <2>2, <2>3
  <2>5. \A i \in 1 .. m : text[i] = data[Len(decoded) + i]
    BY <1>7, <2>3, <2>4 DEF RunAt
  <2> QED
    BY <1>1, <1>6, <1>7, <1>9, <2>2, <2>3, <2>5, FrameDecoded
<1> QED
  BY <1>1, <1>8, <1>9, DecodingStep

LEMMA FillerIsDecoded == ASSUME TypeOK, DecodingInv, DecodeFiller PROVE IInv'
<1>1. /\ stage = "decoding" /\ stage' = "decoding" /\ mode = "C" /\ IsFiller
      /\ UNCHANGED <<mode, type, data, encoder, wire, fate>>
  BY DEF DecodeFiller
<1>2. used \in Nat /\ Len(wire) \in Nat /\ wire \in Seq(Octets) /\ Len(decoded) \in Nat
  BY DEF TypeOK
<1>3. PICK n \in Nat : n <= 63 /\ n >= 1 /\ wire[used + 1] = 192 + n /\ n = Byte(1) % 64
  <2>1. Byte(1) \in Nat /\ Byte(1) >= 193 /\ Byte(1) <= 255
    BY <1>1 DEF IsFiller
  <2>2. Byte(1) % 64 = Byte(1) - 192
    BY <2>1
  <2> QED
    BY <2>1, <2>2 DEF Byte
<1>4. used + 1 <= Len(wire)
  BY <1>1, <1>2 DEF IsFiller, Left
<1>5. PICK text : text = [i \in 1 .. n |-> Filler]
  OBVIOUS
<1>6. Decode(1, text)
  BY <1>3, <1>5, Zenon DEF DecodeFiller
<1>7. text \in Seq(Octets) /\ Len(text) = n /\ \A i \in 1 .. n : text[i] = Filler
  <2>1. Filler \in Octets
    BY DEF Filler, Octets
  <2> QED
    BY <1>5, <2>1
<1>8. TypeOK'
  BY <1>1, <1>2, <1>4, <1>6, <1>7, DecodeType
<1>9. ASSUME NEW s \in Seq(Octets), NEW C, Whole(s, C), Received(s), Progress(C)
      PROVE  Progress(C)'
  <2>0. used + 1 <= Len(wire) /\ wire[used + 1] # 0
    BY <1>2, <1>3, <1>4
  <2>1. /\ \A i \in Nat : i >= 1 /\ i <= Len(wire) /\ i <= Len(s) => wire[i] = s[i]
        /\ wire[used + 1] = s[used + 1] /\ Len(s) \in Nat
    BY <1>1, <1>9, <2>0, CodedFrame
  <2>2. PICK k \in Nat, m \in Nat :
              /\ <<used + k, Len(decoded) + m>> \in C
              /\ used + k <= Len(s) /\ Len(decoded) + m <= Len(data)
              /\ \/ LiteralAt(s, used, Len(decoded), m) /\ k = 1 + m
                 \/ RunAt(s, used, Len(decoded), m) /\ k = 2
                 \/ FillerAt(s, used, Len(decoded), m) /\ k = 1
    BY <1>1, <1>9, <2>0, CodedFrame
  <2>3. FillerAt(s, used, Len(decoded), m) /\ k = 1 /\ m = n
    <3>1. ~LiteralAt(s, used, Len(decoded), m)
      BY <1>3, <2>1 DEF LiteralAt
    <3>2. ~RunAt(s, used, Len(decoded), m)
      <4> SUFFICES ASSUME RunAt(s, used, Len(decoded), m) PROVE FALSE
        OBVIOUS
      <4>1. s[used + 1] = 128 + m /\ m <= 63
        BY DEF RunAt
      <4> QED
        BY <1>3, <2>1, <4>1
    <3> QED
      BY <1>3, <2>1, <2>2, <3>1, <3>2 DEF FillerAt
  <2>4. \A i \in 1 .. m : text[i] = data[Len(decoded) + i]
    <3>1. \A i \in 1 .. m : data[Len(decoded) + i] = Filler
      BY <2>3 DEF FillerAt
    <3> QED
      BY <1>7, <2>3, <3>1, Zenon
  <2> QED
    BY <1>1, <1>6, <1>7, <1>9, <2>2, <2>3, <2>4, FrameDecoded
<1> QED
  BY <1>1, <1>8, <1>9, DecodingStep

\* Where a frame with these flags, of n bytes, leaves the decoder
LEMMA AfterFrame ==
    ASSUME TypeOK, NEW flags, NEW n
    PROVE  /\ After(flags, n) \in {"decoding", "done", "error"}
           /\ After(flags, n) = "done" => Len(wire) - used = n
           /\ ~HasEof(flags) => After(flags, n) = "decoding"
           /\ HasEof(flags) =>
                After(flags, n) = IF Len(wire) - used = n THEN "done" ELSE "error"
BY DEF After, AtEnd, Left

LEMMA EscapeIsDecoded == ASSUME TypeOK, DecodingInv, DecodeEscape PROVE IInv'
<1>1. /\ stage = "decoding" /\ mode = "C" /\ stage' = After(wire[used + 2], 2)
      /\ wire[used + 1] = 0 /\ Decode(2, <<>>)
      /\ UNCHANGED <<mode, type, data, encoder, wire, fate>>
  BY DEF DecodeEscape, IsEscape, Byte
<1>2. used \in Nat /\ Len(wire) \in Nat /\ Len(decoded) \in Nat
  BY DEF TypeOK
<1>3. used + 2 <= Len(wire)
  BY <1>2 DEF DecodeEscape, IsEscape, Left
<1>4. <<>> \in Seq(Octets) /\ Len(<<>>) = 0
  OBVIOUS
<1>5. stage' \in {"decoding", "done", "error"}
  BY <1>1, AfterFrame
<1>6. TypeOK'
  BY <1>1, <1>3, <1>4, <1>5, DecodeType
<1>7. stage' = "done" => used' = Len(wire)
  <2>1. stage' = "done" => Len(wire) - used = 2
    BY <1>1, AfterFrame
  <2> QED
    BY <1>1, <1>2, <2>1 DEF Decode
<1>8. ASSUME NEW s \in Seq(Octets), NEW C, Whole(s, C), Received(s), Progress(C),
             fate # "changed"
      PROVE  Progress(C)'
  <2>1. \A i \in Nat : i >= 1 /\ i <= Len(wire) /\ i <= Len(s) => wire[i] = s[i]
    BY <1>2, <1>8 DEF Received
  <2>2. ASSUME NEW k \in Nat, NEW m \in Nat, Frame(s, used, Len(decoded), k, m)
        PROVE  FALSE
    <3>1. /\ used + k <= Len(s)
          /\ \/ LiteralAt(s, used, Len(decoded), m) /\ k = 1 + m
             \/ RunAt(s, used, Len(decoded), m) /\ k = 2
             \/ FillerAt(s, used, Len(decoded), m) /\ k = 1
      BY <1>1, <2>2, FrameOfCoded
    <3>2. k >= 1 /\ s[used + 1] # 0
      BY <3>1 DEF LiteralAt, RunAt, FillerAt
    <3>3. Len(s) \in Nat
      OBVIOUS
    <3>4. used + 1 \in Nat /\ used + 1 >= 1 /\ used + 1 <= Len(s) /\ used + 1 <= Len(wire)
      BY <1>2, <1>3, <3>1, <3>2, <3>3
    <3> QED
      BY <1>1, <2>1, <3>2, <3>4
  <2>3. LastFrame(s, used, Len(decoded))
    BY <1>1, <1>8, <2>2, NextFrame
  <2>4. s[used + 2] = EofFlag /\ used + 2 = Len(s) /\ Len(decoded) = Len(data)
    BY <1>1, <2>3, LastOfCoded
  <2>5. wire[used + 2] = EofFlag
    BY <1>2, <1>3, <2>1, <2>4
  <2>6. stage' = IF Len(wire) - used = 2 THEN "done" ELSE "error"
    BY <1>1, <2>5, AfterFrame, Flags
  <2>7. Len(decoded) + 0 = Len(data) /\ 0 \in Nat
    BY <1>2, <2>4
  <2>8. UNCHANGED <<data, fate>>
    BY <1>1
  <2>9. \A i \in 1 .. 0 : <<>>[i] = data[Len(decoded) + i]
    OBVIOUS
  <2> QED
    BY <1>1, <1>3, <1>4, <1>8, <2>4, <2>6, <2>7, <2>8, <2>9, LastDecoded
<1> QED
  BY <1>1, <1>5, <1>6, <1>7, <1>8, DecodingStep

\* What a frame of Block mode consists of
LEMMA BlockFields ==
    ASSUME TypeOK, mode = "B", stage = "decoding",
           NEW s \in Seq(Octets), NEW C, Whole(s, C), Received(s), Progress(C)
    PROVE  /\ used \in Nat /\ Len(wire) \in Nat /\ Len(s) \in Nat
           /\ \A i \in Nat : i >= 1 /\ i <= Len(wire) /\ i <= Len(s) => wire[i] = s[i]
           /\ \E m \in Nat :
                /\ used + 3 + m <= Len(s) /\ Len(decoded) + m <= Len(data)
                /\ \/ /\ Block(s, used, Len(decoded), m, 0)
                      /\ <<used + (3 + m), Len(decoded) + m>> \in C
                   \/ /\ Block(s, used, Len(decoded), m, EofFlag)
                      /\ used + 3 + m = Len(s) /\ Len(decoded) + m = Len(data)
<1>1. /\ used \in Nat /\ Len(wire) \in Nat /\ Len(decoded) \in Nat /\ Len(data) \in Nat
      /\ Len(s) \in Nat
  BY DEF TypeOK
<1>2. \A i \in Nat : i >= 1 /\ i <= Len(wire) /\ i <= Len(s) => wire[i] = s[i]
  BY <1>1 DEF Received
<1>3. ASSUME LastFrame(s, used, Len(decoded))
      PROVE  \E m \in Nat : /\ Block(s, used, Len(decoded), m, EofFlag)
                            /\ used + 3 + m = Len(s) /\ Len(decoded) + m = Len(data)
  BY <1>3 DEF LastFrame
<1>4. ASSUME NEW k \in Nat, NEW m \in Nat, Frame(s, used, Len(decoded), k, m),
             <<used + k, Len(decoded) + m>> \in C
      PROVE  /\ used + 3 + m <= Len(s) /\ Len(decoded) + m <= Len(data)
             /\ Block(s, used, Len(decoded), m, 0)
             /\ <<used + (3 + m), Len(decoded) + m>> \in C
  BY <1>1, <1>4 DEF Frame
<1>5. CASE LastFrame(s, used, Len(decoded))
  <2>1. PICK m \in Nat : /\ Block(s, used, Len(decoded), m, EofFlag)
                         /\ used + 3 + m = Len(s) /\ Len(decoded) + m = Len(data)
    BY <1>3, <1>5
  <2>2. used + 3 + m <= Len(s) /\ Len(decoded) + m <= Len(data)
    BY <1>1, <2>1
  <2> QED
    BY <1>1, <1>2, <2>1, <2>2
<1> QED
  BY <1>1, <1>2, <1>4, <1>5, NextFrame

LEMMA BlockIsDecoded == ASSUME TypeOK, DecodingInv, DecodeBlock PROVE IInv'
<1>1. /\ stage = "decoding" /\ mode = "B" /\ WholeBlock
      /\ UNCHANGED <<mode, type, data, encoder, wire, fate>>
  BY DEF DecodeBlock
<1>2. used \in Nat /\ Len(wire) \in Nat /\ wire \in Seq(Octets) /\ Len(decoded) \in Nat
  BY DEF TypeOK
<1>3. PICK n : n = Word(wire[used + 2], wire[used + 3])
  OBVIOUS
<1>4. n \in Nat /\ used + 3 + n <= Len(wire)
  <2>1. used + 3 <= Len(wire)
    BY <1>1, <1>2 DEF WholeBlock, Left
  <2>2. wire[used + 2] \in Octets /\ wire[used + 3] \in Octets
    BY <1>2, <2>1
  <2>3. n \in Nat
    BY <1>3, <2>2, WordType
  <2>4. Len(wire) - used >= 3 + 256 * wire[used + 2] + wire[used + 3]
    BY <1>1 DEF WholeBlock, Left, Byte
  <2>5. 3 + 256 * wire[used + 2] + wire[used + 3] = 3 + n
    BY <1>3, <2>2, WordType
  <2> QED
    BY <1>2, <2>3, <2>4, <2>5
<1>5. 3 + 256 * Byte(2) + Byte(3) = 3 + n
  <2>1. wire[used + 2] \in Octets /\ wire[used + 3] \in Octets
    BY <1>2, <1>4
  <2> QED
    BY <1>3, <2>1, WordType DEF Byte
<1>6. PICK text : text = SubSeq(wire, used + 4, used + (3 + n))
  OBVIOUS
<1>7. Decode(3 + n, text) /\ stage' = After(wire[used + 1], 3 + n)
  BY <1>5, <1>6, Zenon DEF DecodeBlock, Byte
<1>8. /\ text \in Seq(Octets) /\ Len(text) = n
      /\ \A i \in 1 .. n : text[i] = wire[used + 4 + i - 1]
  <2>1. /\ used + 4 \in Nat /\ used + 4 >= 1 /\ used + 4 + n <= Len(wire) + 1
        /\ used + (3 + n) = used + 4 + n - 1
    BY <1>2, <1>4
  <2> QED
    BY <1>4, <1>6, <2>1, WireSlice
<1>9. stage' \in {"decoding", "done", "error"}
  BY <1>7, AfterFrame
<1>10. 3 + n \in Nat /\ used + (3 + n) <= Len(wire)
  BY <1>2, <1>4
<1>11. TypeOK'
  BY <1>1, <1>7, <1>8, <1>9, <1>10, DecodeType
<1>12. stage' = "done" => used' = Len(wire)
  <2>1. stage' = "done" => Len(wire) - used = 3 + n
    BY <1>7, AfterFrame
  <2> QED
    BY <1>2, <1>7, <1>10, <2>1 DEF Decode
<1>13. ASSUME NEW s \in Seq(Octets), NEW C, Whole(s, C), Received(s), Progress(C),
              fate # "changed"
       PROVE  Progress(C)'
  <2>1. /\ Len(s) \in Nat
        /\ \A i \in Nat : i >= 1 /\ i <= Len(wire) /\ i <= Len(s) => wire[i] = s[i]
    BY <1>1, <1>13, BlockFields
  <2>2. PICK m \in Nat :
           /\ used + 3 + m <= Len(s) /\ Len(decoded) + m <= Len(data)
           /\ \/ /\ Block(s, used, Len(decoded), m, 0)
                 /\ <<used + (3 + m), Len(decoded) + m>> \in C
              \/ /\ Block(s, used, Len(decoded), m, EofFlag)
                 /\ used + 3 + m = Len(s) /\ Len(decoded) + m = Len(data)
    BY <1>1, <1>13, BlockFields
  <2>3. /\ wire[used + 1] = s[used + 1] /\ wire[used + 2] = s[used + 2]
        /\ wire[used + 3] = s[used + 3]
    <3>1. /\ used + 1 \in Nat /\ used + 2 \in Nat /\ used + 3 \in Nat
          /\ used + 1 >= 1 /\ used + 2 >= 1 /\ used + 3 >= 1
          /\ used + 1 <= Len(s) /\ used + 2 <= Len(s) /\ used + 3 <= Len(s)
          /\ used + 1 <= Len(wire) /\ used + 2 <= Len(wire) /\ used + 3 <= Len(wire)
      BY <1>2, <1>4, <2>1, <2>2
    <3> QED
      BY <2>1, <3>1
  <2>4. m = n
    BY <1>3, <2>2, <2>3 DEF Block
  <2>5. \A i \in 1 .. n : text[i] = data[Len(decoded) + i]
    <3> TAKE i \in 1 .. n
    <3>1. i \in Nat /\ i >= 1 /\ i <= n
      BY <1>4
    <3>2. used + 4 + i - 1 = used + 3 + i /\ used + 3 + i <= Len(wire)
      BY <1>2, <1>4, <3>1
    <3>3. used + 3 + i <= Len(s)
      BY <1>2, <1>4, <2>1, <2>2, <2>4, <3>1
    <3>4. used + 3 + i \in Nat /\ used + 3 + i >= 1
      BY <1>2, <3>1
    <3>5. wire[used + 3 + i] = s[used + 3 + i]
      BY <2>1, <3>2, <3>3, <3>4
    <3>6. s[used + 3 + i] = data[Len(decoded) + i]
      BY <2>2, <2>4 DEF Block
    <3>7. text[i] = wire[used + 3 + i]
      BY <1>8, <3>2
    <3> QED
      BY <3>5, <3>6, <3>7
  <2>6. CASE Block(s, used, Len(decoded), m, 0) /\ <<used + (3 + m), Len(decoded) + m>> \in C
    <3>1. wire[used + 1] = 0
      BY <2>3, <2>6 DEF Block
    <3>2. stage' = "decoding"
      BY <1>7, <3>1, AfterFrame, Flags
    <3> QED
      BY <1>1, <1>4, <1>7, <1>8, <1>10, <1>13, <2>2, <2>4, <2>5, <2>6, <3>2, FrameDecoded
  <2>7. CASE /\ Block(s, used, Len(decoded), m, EofFlag)
             /\ used + 3 + m = Len(s) /\ Len(decoded) + m = Len(data)
    <3>1. wire[used + 1] = EofFlag
      BY <2>3, <2>7 DEF Block
    <3>2. stage' = IF Len(wire) - used = 3 + n THEN "done" ELSE "error"
      BY <1>7, <3>1, AfterFrame, Flags
    <3>3. used + (3 + n) = Len(s) /\ Len(decoded) + n = Len(data)
      BY <1>2, <1>4, <2>4, <2>7
    <3>4. UNCHANGED <<data, fate>>
      BY <1>1
    <3> QED
      BY <1>4, <1>7, <1>8, <1>10, <1>13, <2>5, <3>2, <3>3, <3>4, LastDecoded
  <2> QED
    BY <2>2, <2>6, <2>7
<1> QED
  BY <1>1, <1>9, <1>11, <1>12, <1>13, DecodingStep

\* Nothing that was sent is malformed
LEMMA MalformedStep == ASSUME TypeOK, DecodingInv, Malformed PROVE IInv'
<1>1. /\ stage = "decoding" /\ stage' = "error" /\ mode # "S"
      /\ UNCHANGED <<mode, type, data, encoder, wire, fate, decoder>>
  BY DEF Malformed
<1>2. used \in Nat /\ Len(wire) \in Nat /\ wire \in Seq(Octets) /\ Len(decoded) \in Nat
  BY DEF TypeOK
<1>3. TypeOK'
  BY <1>1 DEF TypeOK, encoder, decoder
<1>4. UNCHANGED <<used, decoded>>
  BY <1>1 DEF decoder
<1>5. ASSUME NEW s \in Seq(Octets), NEW C, Whole(s, C), Received(s), Progress(C)
      PROVE  Progress(C)'
  <2>1. ASSUME fate = "whole" PROVE FALSE
    <3>1. Len(wire) = Len(s) /\ \A i \in 1 .. Len(wire) : wire[i] = s[i]
      BY <1>2, <1>5, <2>1 DEF Received
    <3>2. wire = s
      BY <1>2, <3>1, SeqEqual
    <3>3. CASE mode = "B"
      <4>1. PICK m \in Nat : /\ used + 3 + m <= Len(wire)
                             /\ Word(wire[used + 2], wire[used + 3]) = m
        BY <1>1, <1>5, <3>2, <3>3, BlockFields DEF Block
      <4>2. wire[used + 2] \in Octets /\ wire[used + 3] \in Octets
        BY <1>2, <4>1
      <4>3. 3 + 256 * Byte(2) + Byte(3) = 3 + m
        BY <4>1, <4>2, WordType DEF Byte
      <4>4. Len(wire) - used >= 3 /\ Len(wire) - used >= 3 + m
        BY <1>2, <4>1
      <4> QED
        BY <3>3, <4>3, <4>4 DEF Malformed, WholeBlock, Left
    <3>4. CASE mode = "C" /\ LastFrame(wire, used, Len(decoded))
      <4>1. wire[used + 1] = 0 /\ wire[used + 2] = EofFlag /\ used + 2 = Len(wire)
        BY <3>4, LastOfCoded
      <4>2. Len(wire) - used >= 2 /\ EofFlag # 0 /\ EofFlag % 16 = 0
        BY <1>2, <4>1 DEF EofFlag
      <4>3. IsEscape
        BY <4>1, <4>2 DEF IsEscape, Left, Byte
      <4> QED
        BY <3>4, <4>3 DEF Malformed
    <3>5. ASSUME mode = "C", NEW k \in Nat, NEW m \in Nat,
                 Frame(wire, used, Len(decoded), k, m)
          PROVE  FALSE
      <4>1. /\ used + k <= Len(wire)
            /\ \/ LiteralAt(wire, used, Len(decoded), m) /\ k = 1 + m
               \/ RunAt(wire, used, Len(decoded), m) /\ k = 2
               \/ FillerAt(wire, used, Len(decoded), m) /\ k = 1
        BY <3>5, FrameOfCoded
      <4>2. Len(wire) - used >= k
        BY <1>2, <4>1
      <4>3. CASE LiteralAt(wire, used, Len(decoded), m) /\ k = 1 + m
        <5>1. m >= 1 /\ m <= 127 /\ Byte(1) = m
          BY <4>3 DEF LiteralAt, Byte
        <5>2. m \in 1 .. 127 /\ Len(wire) - used >= k
          BY <4>2, <5>1
        <5>3. k >= 2 /\ Len(wire) - used > m
          BY <1>2, <4>2, <4>3, <5>1
        <5>4. IsLiteral
          <6>1. Left >= 1 /\ Left > Byte(1)
            BY <1>2, <5>1, <5>2, <5>3 DEF Left
          <6>2. Byte(1) \in 1 .. 127
            BY <5>1, <5>2, Zenon
          <6> QED
            BY <6>1, <6>2, Zenon DEF IsLiteral
        <5> QED
          BY <3>5, <5>4 DEF Malformed
      <4>4. CASE RunAt(wire, used, Len(decoded), m) /\ k = 2
        <5>1. m >= 2 /\ m <= 63 /\ Byte(1) = 128 + m
          BY <4>4 DEF RunAt, Byte
        <5>2. 128 + m \in 129 .. 191 /\ Len(wire) - used >= k
          BY <4>2, <5>1
        <5>3. k >= 2
          BY <1>2, <4>2, <4>4, <5>1
        <5>4. IsRun
          <6>1. Left >= 2
            BY <1>2, <5>1, <5>2, <5>3 DEF Left
          <6>2. Byte(1) \in 129 .. 191
            BY <5>1, <5>2, Zenon
          <6> QED
            BY <6>1, <6>2, Zenon DEF IsRun
        <5> QED
          BY <3>5, <5>4 DEF Malformed
      <4>5. CASE FillerAt(wire, used, Len(decoded), m) /\ k = 1
        <5>1. m >= 2 /\ m <= 63 /\ Byte(1) = 192 + m
          BY <4>5 DEF FillerAt, Byte
        <5>2. 192 + m \in 193 .. 255 /\ Len(wire) - used >= k
          BY <4>2, <5>1
        <5>3. k >= 1
          BY <1>2, <4>2, <4>5, <5>1
        <5>4. IsFiller
          <6>1. Left >= 1
            BY <1>2, <5>1, <5>2, <5>3 DEF Left
          <6>2. Byte(1) \in 193 .. 255
            BY <5>1, <5>2, Zenon
          <6> QED
            BY <6>1, <6>2, Zenon DEF IsFiller
        <5> QED
          BY <3>5, <5>4 DEF Malformed
      <4> QED
        BY <4>1, <4>3, <4>4, <4>5
    <3>6. mode = "B" \/ mode = "C"
      BY <1>1 DEF TypeOK
    <3> QED
      BY <1>1, <1>5, <3>2, <3>3, <3>4, <3>5, <3>6, NextFrame
  <2> QED
    BY <1>1, <1>4, <1>5, <2>1 DEF Progress
<1> QED
  BY <1>1, <1>3, <1>5, DecodingStep

-----------------------------------------------------------------------------
(* The invariant *)

LEMMA InitInv == ASSUME Init PROVE IInv
<1>1. /\ mode \in {"S", "B", "C"} /\ type \in {"A", "I"} /\ encoded = 0 /\ pulled = 0
      /\ batch = <<>> /\ wire = <<>> /\ fate = "whole" /\ used = 0 /\ decoded = <<>>
      /\ stage = "encoding"
  BY DEF Init
<1>2. data \in Seq(Octets) /\ Len(data) \in Nat
  <2>1. PICK n \in Nat : data \in [1 .. n -> Bytes]
    BY Sizes DEF Init
  <2>2. Bytes \subseteq Octets
    BY Sizes
  <2>3. data \in [1 .. n -> Octets]
    BY <2>1, <2>2
  <2> QED
    BY <2>3
<1>3. <<>> \in Seq(Octets) /\ Len(<<>>) = 0 /\ SubSeq(data, 1, 0) = <<>> /\ <<>> \o <<>> = <<>>
  BY <1>2, SubSeqEmpty
<1>4. TypeOK
  BY <1>1, <1>2, <1>3 DEF TypeOK
<1>5. Partly(<<>>, {<<0, 0>>}, 0)
  BY <1>2, <1>3 DEF Partly, Cuts
<1>6. \E C : Partly(wire \o batch, C, encoded)
  BY <1>1, <1>3, <1>5
<1>7. EncodingInv
  BY <1>1, <1>3, <1>6 DEF EncodingInv, Fresh
<1> QED
  BY <1>1, <1>4, <1>7 DEF IInv, SentInv, DecodingInv

LEMMA StutterStep == ASSUME IInv, UNCHANGED vars PROVE IInv'
<1>1. UNCHANGED <<mode, type, data, encoded, pulled, batch, wire, fate, used, decoded, stage>>
  BY DEF vars, encoder, decoder
<1>2. TypeOK'
  BY <1>1 DEF IInv, TypeOK
<1>3. \A s, C, d0 : Partly(s, C, d0)' <=> Partly(s, C, d0)
  BY <1>1, SameFile
<1>4. \A s, C : Whole(s, C)' <=> Whole(s, C)
  BY <1>1, SameFile
<1>5. EncodingInv'
  BY <1>1, <1>3 DEF IInv, EncodingInv, Fresh
<1>6. SentInv'
  BY <1>1, <1>4 DEF IInv, SentInv, Fresh
<1>7. DecodingInv'
  BY <1>1, <1>4 DEF IInv, DecodingInv, Fresh, Received, Progress
<1> QED
  BY <1>2, <1>5, <1>6, <1>7 DEF IInv

LEMMA NextInv == ASSUME IInv, [Next]_vars PROVE IInv'
<1> USE DEF IInv
<1>1. CASE EncodeStream
  BY <1>1, StreamIsEncoded
<1>2. CASE EncodeBlock
  BY <1>2, BlockStep
<1>3. CASE EncodeRun
  BY <1>3, RunIsEncoded
<1>4. CASE EncodeLiteral
  BY <1>4, LiteralIsEncoded
<1>5. CASE EncodeEnd
  BY <1>5, EndIsEncoded
<1>6. CASE Receive
  BY <1>6, ReceiveStep
<1>7. CASE DecodeStream
  BY <1>7, StreamIsDecoded
<1>8. CASE DecodeBlock
  BY <1>8, BlockIsDecoded
<1>9. CASE DecodeLiteral
  BY <1>9, LiteralIsDecoded
<1>10. CASE DecodeRun
  BY <1>10, RunIsDecoded
<1>11. CASE DecodeFiller
  BY <1>11, FillerIsDecoded
<1>12. CASE DecodeEscape
  BY <1>12, EscapeIsDecoded
<1>13. CASE Malformed
  BY <1>13, MalformedStep
<1>14. CASE UNCHANGED vars
  BY <1>14, StutterStep
<1> QED
  BY <1>1, <1>2, <1>3, <1>4, <1>5, <1>6, <1>7, <1>8, <1>9, <1>10, <1>11, <1>12, <1>13, <1>14
  DEF Next, Ended

\* Whatever the file and its chunks, the wire consists of frames that follow one
\* another through the file to its end, and a decoder stands between two of them.
THEOREM Invariance == Spec => []IInv
<1>1. Init => IInv
  BY InitInv
<1>2. IInv /\ [Next]_vars => IInv'
  BY NextInv
<1> QED
  BY <1>1, <1>2, PTL DEF Spec

\* The state of the two generators, and what goes between them, has its type: every
\* byte fits in eight bits, and no generator runs past the end of its input.
THEOREM TypeCorrect == Spec => []TypeOK
<1>1. IInv => TypeOK
  BY DEF IInv
<1> QED
  BY <1>1, Invariance, PTL

-----------------------------------------------------------------------------
(* What the runs check *)

LEMMA DecodedFile ==
    ASSUME IInv, mode # "S", fate # "changed", stage \notin {"encoding", "sent"}
    PROVE  \E C : Progress(C)
BY DEF IInv, DecodingInv

\* What was encoded and arrives as it was sent is decoded to the same file, in
\* every mode and type, for every file and every way to cut it into chunks.
THEOREM RoundTripTheorem == Spec => []RoundTrip
<1>1. ASSUME IInv PROVE RoundTrip
  <2> SUFFICES ASSUME fate = "whole" PROVE stage # "error" /\ (stage = "done" => decoded = data)
    BY DEF RoundTrip
  <2>1. CASE stage \in {"encoding", "sent"}
    BY <2>1
  <2>2. CASE stage \notin {"encoding", "sent"} /\ mode = "S"
    BY <1>1, <2>2 DEF IInv, DecodingInv
  <2>3. CASE stage \notin {"encoding", "sent"} /\ mode # "S"
    <3>1. PICK C : Progress(C)
      BY <1>1, <2>3, DecodedFile
    <3>2. stage # "error"
      BY <3>1 DEF Progress
    <3>3. ASSUME stage = "done" PROVE decoded = data
      <4>1. Len(decoded) = Len(data) /\ \A i \in 1 .. Len(decoded) : decoded[i] = data[i]
        BY <3>1, <3>3 DEF Progress
      <4>2. decoded \in Seq(Octets) /\ data \in Seq(Octets)
        BY <1>1 DEF IInv, TypeOK
      <4> QED
        BY <4>1, <4>2, SeqEqual
    <3> QED
      BY <3>2, <3>3
  <2> QED
    BY <2>1, <2>2, <2>3
<1> QED
  BY <1>1, Invariance, PTL

\* In Block and Compressed mode a decoder yields, byte by byte, only what the file
\* begins with, also when the wire was cut or goes on after its end.
THEOREM DecodesPrefixTheorem == Spec => []DecodesPrefix
<1>1. ASSUME IInv PROVE DecodesPrefix
  <2> SUFFICES ASSUME mode # "S", fate # "changed" PROVE IsPrefix(decoded, data)
    BY DEF DecodesPrefix
  <2>1. decoded \in Seq(Octets) /\ data \in Seq(Octets)
    BY <1>1 DEF IInv, TypeOK
  <2>2. Len(decoded) <= Len(data) /\ \A i \in 1 .. Len(decoded) : decoded[i] = data[i]
    <3>1. CASE stage \in {"encoding", "sent"}
      <4>1. decoded = <<>>
        BY <1>1, <3>1 DEF IInv, EncodingInv, SentInv, Fresh
      <4> QED
        BY <2>1, <4>1
    <3>2. CASE stage \notin {"encoding", "sent"}
      BY <1>1, <3>2, DecodedFile DEF Progress
    <3> QED
      BY <3>1, <3>2
  <2>3. SubSeq(decoded, 1, Len(decoded)) = SubSeq(data, 1, Len(decoded))
    BY <2>1, <2>2
  <2> QED
    BY <2>1, <2>2, <2>3 DEF IsPrefix
<1> QED
  BY <1>1, Invariance, PTL

\* A wire that was cut anywhere, or that goes on after the end of the file, is never
\* taken for a file, and a decoder that takes one has used all of the wire.
THEOREM EndIsExplicitTheorem == Spec => []EndIsExplicit
<1>1. ASSUME IInv PROVE EndIsExplicit
  <2> SUFFICES ASSUME mode # "S", stage = "done"
               PROVE  fate \notin {"cut", "extended"} /\ used = Len(wire)
    BY DEF EndIsExplicit
  <2>1. used = Len(wire)
    BY <1>1 DEF IInv, DecodingInv
  <2>2. fate # "changed" => fate = "whole"
    BY <1>1, DecodedFile DEF Progress
  <2> QED
    BY <2>1, <2>2
<1> QED
  BY <1>1, Invariance, PTL
=============================================================================
