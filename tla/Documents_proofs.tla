--------------------------- MODULE Documents_proofs ---------------------------
(***************************************************************************)
(* What the parsers of documents do, for every set of documents: that of   *)
(* ini files, and rules_parse() with the buffer it writes to.              *)
(*                                                                         *)
(* Positions are found with Min and Max: the least element of a set of     *)
(* naturals is the one well-foundedness gives.                             *)
(***************************************************************************)
EXTENDS IniFile, RulesText, SequenceTheorems, FiniteSetTheorems, WellFoundedInduction, TLAPS

-----------------------------------------------------------------------------
(* The first and the last of some positions *)

LEMMA LeastElement ==
    ASSUME NEW T \in SUBSET Nat, T # {}
    PROVE  Min(T) \in T /\ \A k \in T : Min(T) <= k
<1> DEFINE R == {p \in Nat \X Nat : p[1] < p[2]}
<1>1. IsWellFoundedOn(R, Nat)
  BY NatLessThanWellFounded DEF OpToRel
<1>2. T \subseteq Nat
  OBVIOUS
<1>3. PICK x \in T : \A y \in T : ~(<<y, x>> \in R)
  BY <1>1, <1>2, WFMin
<1>4. ASSUME NEW y \in T PROVE x <= y
  <2>1. x \in Nat /\ y \in Nat /\ ~(<<y, x>> \in R)
    BY <1>2, <1>3
  <2>2. ~(y < x)
    BY <2>1
  <2> QED
    BY <2>1, <2>2
<1> QED
  BY <1>4 DEF Min

LEMMA GreatestElement ==
    ASSUME NEW T \in SUBSET Nat, T # {}, NEW b \in Nat, \A k \in T : k <= b
    PROVE  Max(T) \in T /\ \A k \in T : k <= Max(T)
<1> DEFINE D == {b - k : k \in T}
<1>1. D \in SUBSET Nat /\ D # {}
  <2>1. \A k \in T : b - k \in Nat
    OBVIOUS
  <2> QED
    BY <2>1
<1>2. PICK d \in D : \A e \in D : d <= e
  BY <1>1, LeastElement
<1>3. PICK x \in T : d = b - x
  BY <1>2
<1>4. \A k \in T : x >= k
  <2> TAKE k \in T
  <2>1. b - k \in D
    OBVIOUS
  <2>2. b - x <= b - k /\ x \in Nat /\ k \in Nat
    BY <1>2, <1>3, <2>1
  <2> QED
    BY <2>2
<1>5. Max(T) \in T /\ \A k \in T : Max(T) >= k
  BY <1>4 DEF Max
<1> QED
  BY <1>5

\* The first of some positions of a text, or the one after the last.
LEMMA FirstOfIs ==
    ASSUME NEW s, Len(s) \in Nat, NEW P \in SUBSET (1 .. Len(s))
    PROVE  /\ FirstOf(P, s) \in 1 .. Len(s) + 1
           /\ FirstOf(P, s) <= Len(s) => FirstOf(P, s) \in P
           /\ \A k \in P : FirstOf(P, s) <= k
<1>1. CASE P = {}
  <2>1. FirstOf(P, s) = Len(s) + 1
    BY <1>1 DEF FirstOf
  <2> QED
    BY <1>1, <2>1
<1>2. CASE P # {}
  <2>1. P \in SUBSET Nat
    OBVIOUS
  <2>2. Min(P) \in P /\ \A k \in P : Min(P) <= k
    BY <1>2, <2>1, LeastElement
  <2>3. FirstOf(P, s) = Min(P)
    BY <1>2 DEF FirstOf
  <2> DEFINE m == FirstOf(P, s)
  <2>4. m \in P /\ \A k \in P : m <= k
    BY <2>2, <2>3
  <2> HIDE DEF m
  <2>5. m \in 1 .. Len(s)
    BY <2>4
  <2> QED
    BY <2>4, <2>5 DEF m
<1> QED
  BY <1>1, <1>2

LEMMA LeastIs ==
    ASSUME NEW T \in SUBSET Nat, NEW m \in T, \A k \in T : m <= k
    PROVE  Min(T) = m
<1>1. Min(T) \in T /\ \A k \in T : Min(T) <= k
  BY LeastElement
<1>2. Min(T) <= m /\ m <= Min(T) /\ Min(T) \in Nat /\ m \in Nat
  BY <1>1
<1> QED
  BY <1>2

LEMMA GreatestIs ==
    ASSUME NEW T \in SUBSET Nat, NEW m \in T, \A k \in T : k <= m
    PROVE  Max(T) = m
<1>1. m \in Nat
  OBVIOUS
<1>2. Max(T) \in T /\ \A k \in T : k <= Max(T)
  BY <1>1, GreatestElement
<1>3. Max(T) <= m /\ m <= Max(T) /\ Max(T) \in Nat
  BY <1>2
<1> QED
  BY <1>1, <1>3

LEMMA FirstIs ==
    ASSUME NEW s, Len(s) \in Nat, NEW P \in SUBSET (1 .. Len(s)),
           NEW m \in 1 .. Len(s) + 1, m <= Len(s) => m \in P, \A k \in P : m <= k
    PROVE  FirstOf(P, s) = m
<1> DEFINE f == FirstOf(P, s)
<1>1. f \in 1 .. Len(s) + 1 /\ (f <= Len(s) => f \in P) /\ \A k \in P : f <= k
  BY FirstOfIs
<1> HIDE DEF f
<1>2. CASE f <= Len(s)
  <2>1. m <= f
    BY <1>1, <1>2
  <2>2. m <= Len(s)
    BY <1>1, <1>2, <2>1
  <2> QED
    BY <1>1, <2>1, <2>2 DEF f
<1>3. CASE ~(f <= Len(s))
  <2>1. f = Len(s) + 1
    BY <1>1, <1>3
  <2>2. CASE m <= Len(s)
    <3>1. f <= m
      BY <1>1, <2>2
    <3> QED
      BY <2>1, <2>2, <3>1
  <2> QED
    BY <2>1, <2>2 DEF f
<1> QED
  BY <1>2, <1>3

-----------------------------------------------------------------------------
(* Pieces of a text *)

LEMMA PieceIn ==
    ASSUME NEW C, NEW T \in Seq(C), NEW f \in 1 .. Len(T) + 1, NEW t \in f - 1 .. Len(T)
    PROVE  /\ SubSeq(T, f, t) \in Seq(C)
           /\ Len(SubSeq(T, f, t)) = t - f + 1
           /\ DOMAIN SubSeq(T, f, t) = 1 .. t - f + 1
           /\ \A i \in 1 .. t - f + 1 : SubSeq(T, f, t)[i] = T[f + i - 1]
<1>1. Len(T) \in Nat /\ f \in Int /\ t \in Int /\ f >= 1 /\ t >= f - 1
  OBVIOUS
<1>2. \A i \in f .. t : T[i] \in C
  BY <1>1
<1>3. /\ SubSeq(T, f, t) \in Seq(C)
      /\ Len(SubSeq(T, f, t)) = IF f <= t THEN t - f + 1 ELSE 0
      /\ \A i \in 1 .. t - f + 1 : SubSeq(T, f, t)[i] = T[f + i - 1]
  BY <1>1, <1>2, SubSeqProperties
<1>4. Len(SubSeq(T, f, t)) = t - f + 1
  BY <1>1, <1>3
<1> QED
  BY <1>3, <1>4

LEMMA Piece ==
    ASSUME NEW T \in Seq(STRING), NEW f \in 1 .. Len(T) + 1, NEW t \in f - 1 .. Len(T)
    PROVE  /\ SubSeq(T, f, t) \in Seq(STRING)
           /\ Len(SubSeq(T, f, t)) = t - f + 1
           /\ DOMAIN SubSeq(T, f, t) = 1 .. t - f + 1
           /\ \A i \in 1 .. t - f + 1 : SubSeq(T, f, t)[i] = T[f + i - 1]
BY PieceIn

LEMMA PieceOfPiece ==
    ASSUME NEW T \in Seq(STRING), NEW f \in 1 .. Len(T) + 1, NEW t \in f - 1 .. Len(T),
           NEW m \in 1 .. t - f + 2, NEW n \in m - 1 .. t - f + 1
    PROVE  SubSeq(SubSeq(T, f, t), m, n) = SubSeq(T, f + m - 1, f + n - 1)
<1> DEFINE P == SubSeq(T, f, t)
           a == SubSeq(P, m, n)
           b == SubSeq(T, f + m - 1, f + n - 1)
<1>0. Len(T) \in Nat /\ f \in Int /\ t \in Int /\ m \in Int /\ n \in Int
      /\ f >= 1 /\ m >= 1 /\ t <= Len(T) /\ n <= t - f + 1 /\ m <= t - f + 2 /\ n >= m - 1
  OBVIOUS
<1>1. /\ P \in Seq(STRING) /\ Len(P) = t - f + 1
      /\ \A i \in 1 .. t - f + 1 : P[i] = T[f + i - 1]
  BY Piece
<1> HIDE DEF P
<1>2. m \in 1 .. Len(P) + 1 /\ n \in m - 1 .. Len(P)
  BY <1>0, <1>1
<1>3. /\ a \in Seq(STRING) /\ Len(a) = n - m + 1
      /\ \A i \in 1 .. n - m + 1 : a[i] = P[m + i - 1]
  BY <1>1, <1>2, Piece
<1>4. f + m - 1 \in 1 .. Len(T) + 1 /\ f + n - 1 \in (f + m - 1) - 1 .. Len(T)
  BY <1>0
<1>5. (f + n - 1) - (f + m - 1) + 1 = n - m + 1
  BY <1>0
<1>6. /\ b \in Seq(STRING) /\ Len(b) = n - m + 1
      /\ \A i \in 1 .. n - m + 1 : b[i] = T[(f + m - 1) + i - 1]
  BY <1>4, <1>5, Piece
<1> HIDE DEF a, b
<1>7. ASSUME NEW i \in 1 .. n - m + 1 PROVE a[i] = b[i]
  <2>1. m + i - 1 \in 1 .. t - f + 1 /\ f + (m + i - 1) - 1 = (f + m - 1) + i - 1
    BY <1>0
  <2> QED
    BY <1>1, <1>3, <1>6, <2>1
<1>8. Len(a) = Len(b) /\ \A i \in 1 .. Len(a) : a[i] = b[i]
  BY <1>3, <1>6, <1>7
<1>9. a = b
  BY <1>3, <1>6, <1>8, SeqEqual
<1> QED
  BY <1>9 DEF a, b, P

\* The positions of a piece that hold no blank.
SolidOf(T, f, t) == {i \in f .. t : T[i] \notin Blanks}

LEMMA SolidOfFacts ==
    ASSUME NEW T \in Seq(STRING), NEW f \in 1 .. Len(T) + 1, NEW t \in f - 1 .. Len(T),
           SolidOf(T, f, t) # {}
    PROVE  LET S == SolidOf(T, f, t) IN
           /\ Min(S) \in S /\ Max(S) \in S /\ Min(S) \in f .. t /\ Max(S) \in f .. t
           /\ \A i \in S : Min(S) <= i /\ i <= Max(S)
           /\ Min(S) <= Max(S)
<1> DEFINE S == SolidOf(T, f, t)
<1>1. t \in Nat /\ S \in SUBSET Nat /\ S # {} /\ \A k \in S : k <= t /\ k \in f .. t
  BY DEF SolidOf
<1> HIDE DEF S
<1>2. Min(S) \in S /\ \A k \in S : Min(S) <= k
  BY <1>1, LeastElement
<1>3. Max(S) \in S /\ \A k \in S : k <= Max(S)
  BY <1>1, GreatestElement
<1>4. Min(S) \in f .. t /\ Max(S) \in f .. t /\ Min(S) <= Max(S)
  BY <1>1, <1>2, <1>3
<1> QED
  BY <1>2, <1>3, <1>4 DEF S

LEMMA TrimPiece ==
    ASSUME NEW T \in Seq(STRING), NEW f \in 1 .. Len(T) + 1, NEW t \in f - 1 .. Len(T)
    PROVE  Trim(SubSeq(T, f, t)) =
              IF SolidOf(T, f, t) = {} THEN <<>>
              ELSE SubSeq(T, Min(SolidOf(T, f, t)), Max(SolidOf(T, f, t)))
<1> DEFINE P == SubSeq(T, f, t)
           S == SolidOf(T, f, t)
<1>0. Len(T) \in Nat /\ f \in Int /\ t \in Int /\ f >= 1 /\ t >= f - 1
  OBVIOUS
<1>1. DOMAIN P = 1 .. t - f + 1 /\ \A i \in 1 .. t - f + 1 : P[i] = T[f + i - 1]
  BY Piece
<1> HIDE DEF P
<1>2. \A i \in Solid(P) : i \in 1 .. t - f + 1 /\ f + i - 1 \in S
  BY <1>0, <1>1 DEF Solid, SolidOf
<1>3. ASSUME NEW j \in S PROVE j - f + 1 \in Solid(P) /\ j \in f .. t
  <2>1. j \in f .. t /\ T[j] \notin Blanks
    BY DEF SolidOf
  <2>2. j - f + 1 \in 1 .. t - f + 1 /\ f + (j - f + 1) - 1 = j
    BY <1>0, <2>1
  <2>3. P[j - f + 1] = T[j]
    BY <1>1, <2>2
  <2> QED
    BY <1>1, <2>1, <2>2, <2>3 DEF Solid
<1>4. CASE S = {}
  <2>1. Solid(P) = {}
    BY <1>2, <1>4
  <2> QED
    BY <1>4, <2>1 DEF Trim, P
<1>5. CASE S # {}
  <2> DEFINE a == Min(S)
             b == Max(S)
  <2>1. a \in S /\ b \in S /\ a \in f .. t /\ b \in f .. t /\ \A i \in S : a <= i /\ i <= b
        /\ a <= b
    BY <1>5, SolidOfFacts
  <2> HIDE DEF a, b, S
  <2>2. a - f + 1 \in Solid(P) /\ b - f + 1 \in Solid(P)
    BY <1>3, <2>1
  <2>3. Solid(P) \in SUBSET Nat
    BY <1>2
  <2>4. ASSUME NEW k \in Solid(P) PROVE a - f + 1 <= k /\ k <= b - f + 1
    <3>1. f + k - 1 \in S /\ k \in Nat
      BY <1>2
    <3>2. a <= f + k - 1 /\ f + k - 1 <= b
      BY <2>1, <3>1
    <3> QED
      BY <1>0, <2>1, <3>1, <3>2
  <2>5. Min(Solid(P)) = a - f + 1
    BY <2>2, <2>3, <2>4, LeastIs
  <2>6. Max(Solid(P)) = b - f + 1
    BY <2>2, <2>3, <2>4, GreatestIs
  <2>7. Trim(P) = SubSeq(P, a - f + 1, b - f + 1)
    BY <2>2, <2>5, <2>6 DEF Trim
  <2>8. a - f + 1 \in 1 .. t - f + 2 /\ b - f + 1 \in (a - f + 1) - 1 .. t - f + 1
    BY <1>0, <2>1
  <2>9. SubSeq(P, a - f + 1, b - f + 1) = SubSeq(T, f + (a - f + 1) - 1, f + (b - f + 1) - 1)
    BY <2>8, PieceOfPiece DEF P
  <2>10. f + (a - f + 1) - 1 = a /\ f + (b - f + 1) - 1 = b
    BY <1>0, <2>1
  <2> QED
    BY <1>5, <2>7, <2>9, <2>10 DEF a, b, P, S
<1> QED
  BY <1>4, <1>5

-----------------------------------------------------------------------------
(* The reader of ini documents *)

\* What was not read yet is the end of the document.
LeftInv ==
    /\ iniText \in Seq(STRING) /\ left \in Seq(STRING)
    /\ Len(left) <= Len(iniText)
    /\ \A i \in 1 .. Len(left) : left[i] = iniText[Len(iniText) - Len(left) + i]

\* A line ends where the document says so, or fills the buffer.
LEMMA LineFacts ==
    ASSUME NEW s \in Seq(STRING)
    PROVE  LET n == LineLength(s) IN
           /\ n \in 0 .. Room /\ n <= Len(s)
           /\ \A i \in 1 .. n : s[i] \notin LineEnds
           /\ n < Room /\ n < Len(s) => s[n + 1] \in LineEnds
<1> DEFINE ends == {i \in DOMAIN s : s[i] \in LineEnds}
           f == FirstOf(ends, s)
           T == {Room, f - 1}
<1>1. Len(s) \in Nat /\ DOMAIN s = 1 .. Len(s)
  OBVIOUS
<1>2. ends \in SUBSET (1 .. Len(s))
  BY <1>1
<1> HIDE DEF ends
<1>3. f \in 1 .. Len(s) + 1 /\ (f <= Len(s) => f \in ends) /\ \A k \in ends : f <= k
  BY <1>1, <1>2, FirstOfIs
<1> HIDE DEF f
<1>4. Room \in Nat
  BY IniAssumption DEF Room
<1>5. T \in SUBSET Nat /\ T # {}
  BY <1>1, <1>3, <1>4
<1>6. Min(T) \in T /\ Min(T) <= Room /\ Min(T) <= f - 1
  <2>1. \A k \in T : Min(T) <= k
    BY <1>5, LeastElement
  <2>2. Min(T) \in T
    BY <1>5, LeastElement
  <2>3. Room \in T /\ f - 1 \in T
    OBVIOUS
  <2> QED
    BY <2>1, <2>2, <2>3
<1>7. LineLength(s) = Min(T)
  BY DEF LineLength, f, ends
<1> DEFINE n == LineLength(s)
<1>8. n \in {Room, f - 1} /\ n <= Room /\ n <= f - 1
  BY <1>6, <1>7
<1> HIDE DEF n
<1>9. \A i \in 1 .. n : s[i] \notin LineEnds
  <2>1. \A i \in 1 .. n : i \in DOMAIN s /\ i < f
    BY <1>1, <1>3, <1>4, <1>8
  <2>2. \A i \in 1 .. n : i \notin ends
    <3>1. \A i \in ends : i \in Nat
      BY <1>1, <1>2
    <3> QED
      BY <1>1, <1>3, <2>1, <3>1
  <2> QED
    BY <2>1, <2>2 DEF ends
<1>10. n < Room /\ n < Len(s) => s[n + 1] \in LineEnds
  <2> SUFFICES ASSUME n < Room, n < Len(s) PROVE s[n + 1] \in LineEnds
    OBVIOUS
  <2>1. n = f - 1 /\ f <= Len(s) /\ n + 1 = f
    BY <1>1, <1>3, <1>4, <1>8
  <2> QED
    BY <1>3, <2>1 DEF ends
<1>11. n \in 0 .. Room /\ n <= Len(s)
  BY <1>1, <1>3, <1>4, <1>8
<1> QED
  BY <1>9, <1>10, <1>11 DEF n

\* What is skipped after a line that did not fill the buffer are line ends.
LEMMA ConsumedFacts ==
    ASSUME NEW s \in Seq(STRING)
    PROVE  LET n == LineLength(s)
               c == Consumed(s) IN
           /\ c \in Nat /\ c >= 1
           /\ c < Len(s) /\ s[c] \notin LineEnds => n = Room /\ c = MaxLine
<1> DEFINE n == LineLength(s)
           c == Consumed(s)
<1>1. /\ n \in 0 .. Room /\ n <= Len(s) /\ Len(s) \in Nat
      /\ n < Room /\ n < Len(s) => s[n + 1] \in LineEnds
  BY LineFacts
<1>2. \/ c = n + 1
      \/ c = n + 2 /\ n < Room /\ n + 2 <= Len(s) /\ s[n + 2] = s[n + 1]
  BY DEF Consumed
<1> HIDE DEF n, c
<1>3. Room \in Nat /\ Room + 1 = MaxLine
  BY IniAssumption DEF Room
<1>4. c \in Nat /\ c >= 1
  BY <1>1, <1>2, <1>3
<1>5. ASSUME c < Len(s), s[c] \notin LineEnds
      PROVE  n = Room /\ c = MaxLine
  <2>1. CASE n < Room
    <3>1. n < Len(s)
      BY <1>1, <1>2, <1>3, <1>5
    <3> QED
      BY <1>1, <1>2, <1>5, <2>1, <3>1
  <2>2. CASE n = Room
    BY <1>1, <1>2, <1>3, <2>2
  <2> QED
    BY <1>1, <1>3, <2>1, <2>2
<1> QED
  BY <1>4, <1>5 DEF n, c

LEMMA LeftStep ==
    ASSUME LeftInv, Read
    PROVE  /\ LeftInv'
           /\ left' # <<>> => /\ Consumed(left) < Len(left)
                             /\ Len(left') = Len(left) - Consumed(left)
<1> DEFINE c == Consumed(left)
<1>1. c \in Nat /\ c >= 1
  BY ConsumedFacts DEF LeftInv
<1>2. left' = SubSeq(left, c + 1, Len(left)) /\ iniText' = iniText
  BY DEF Read, After
<1> HIDE DEF c
<1>3. /\ Len(left) \in Nat /\ Len(iniText) \in Nat /\ Len(left) <= Len(iniText)
      /\ left \in Seq(STRING) /\ iniText \in Seq(STRING)
  BY DEF LeftInv
<1>4. \A i \in c + 1 .. Len(left) : left[i] \in STRING
  BY <1>1, <1>3
<1>5. c + 1 \in Int /\ Len(left) \in Int
  BY <1>1, <1>3
<1>6. /\ left' \in Seq(STRING)
      /\ Len(left') = IF c + 1 <= Len(left) THEN Len(left) - (c + 1) + 1 ELSE 0
      /\ \A i \in 1 .. Len(left) - (c + 1) + 1 : left'[i] = left[(c + 1) + i - 1]
  BY <1>2, <1>4, <1>5, SubSeqProperties
<1>7. Len(left') \in Nat /\ Len(left') <= Len(iniText')
  BY <1>1, <1>2, <1>3, <1>6
<1>8. ASSUME NEW i \in 1 .. Len(left')
      PROVE  left'[i] = iniText[Len(iniText) - Len(left') + i]
  <2>1. c + 1 <= Len(left) /\ Len(left') = Len(left) - c /\ c + i \in 1 .. Len(left)
    BY <1>1, <1>3, <1>6
  <2>2. left'[i] = left[c + i]
    BY <1>1, <1>3, <1>6, <2>1
  <2>3. left[c + i] = iniText[Len(iniText) - Len(left) + (c + i)]
    BY <2>1 DEF LeftInv
  <2>4. Len(iniText) - Len(left) + (c + i) = Len(iniText) - Len(left') + i
    BY <1>1, <1>3, <2>1
  <2> QED
    BY <2>2, <2>3, <2>4
<1>9. left' # <<>> => c < Len(left) /\ Len(left') = Len(left) - c
  <2>1. left' # <<>> => Len(left') # 0
    BY <1>6
  <2> QED
    BY <1>1, <1>3, <1>6, <2>1
<1> QED
  BY <1>2, <1>3, <1>6, <1>7, <1>8, <1>9 DEF LeftInv, c

LEMMA LostStep ==
    ASSUME LeftInv, Read
    PROVE  LostAtTheBound'
<1> DEFINE at == Len(iniText) - Len(left)
           c == Consumed(left)
           p == Len(iniText) - Len(left')
<1> SUFFICES ASSUME left' # <<>>, p > 0, iniText[p] \notin LineEnds
             PROVE  \A i \in p - (MaxLine - 1) .. p - 1 :
                       i > 0 /\ iniText[i] \notin LineEnds
  BY DEF LostAtTheBound, Read
<1>1. /\ c \in Nat /\ c < Len(left) /\ Len(left') = Len(left) - c
      /\ left \in Seq(STRING) /\ Len(left) \in Nat /\ Len(iniText) \in Nat
      /\ Len(left) <= Len(iniText) /\ c >= 1
  BY LeftStep, ConsumedFacts DEF LeftInv
<1>2. \A i \in 1 .. Len(left) : left[i] = iniText[at + i]
  BY DEF LeftInv
<1>3. \A i \in 1 .. LineLength(left) : left[i] \notin LineEnds
  BY <1>1, LineFacts
<1>4. left[c] \notin LineEnds => LineLength(left) = Room /\ c = MaxLine
  BY <1>1, ConsumedFacts
<1>5. p = at + c /\ at \in Nat
  BY <1>1
<1> HIDE DEF at, c, p
<1>6. c \in 1 .. Len(left)
  BY <1>1
<1>7. left[c] \notin LineEnds
  BY <1>2, <1>5, <1>6
<1>8. c = MaxLine /\ LineLength(left) = MaxLine - 1 /\ MaxLine \in Nat
  BY <1>4, <1>7, IniAssumption DEF Room
<1> TAKE i \in p - (MaxLine - 1) .. p - 1
<1>9. i - at \in 1 .. MaxLine - 1 /\ i - at \in 1 .. Len(left) /\ at + (i - at) = i
  BY <1>1, <1>5, <1>8
<1>10. left[i - at] \notin LineEnds
  BY <1>3, <1>8, <1>9
<1> QED
  BY <1>2, <1>5, <1>9, <1>10

\* No other step reads.
LEMMA ReadOrNot ==
    ASSUME [IniNext]_iniVars
    PROVE  Read \/ UNCHANGED <<iniText, left>>
BY DEF IniNext, SkipLine, ContinueValue, OpenSection, DefinePair, Malformed, EndIni,
       iniVars

\* Only lines too long for the buffer lose characters, one after each fill of it.
THEOREM NothingElseLost == IniSpec => []LostAtTheBound
<1>1. IniInit => LeftInv /\ LostAtTheBound
  <2> SUFFICES ASSUME NEW text \in IniDocuments, IniStart(text)
               PROVE  LeftInv /\ LostAtTheBound
    BY DEF IniInit
  <2>1. iniText = text /\ left = text /\ text \in Seq(STRING)
    BY IniAssumption DEF IniStart
  <2>2. Len(text) \in Nat
    BY <2>1
  <2>3. LeftInv
    BY <2>1, <2>2 DEF LeftInv
  <2>4. ~(Len(iniText) - Len(left) > 0)
    BY <2>1, <2>2
  <2> QED
    BY <2>3, <2>4 DEF LostAtTheBound
<1>2. LeftInv /\ LostAtTheBound /\ [IniNext]_iniVars => LeftInv' /\ LostAtTheBound'
  BY ReadOrNot, LeftStep, LostStep DEF LeftInv, LostAtTheBound
<1> QED
  BY <1>1, <1>2, PTL DEF IniSpec

-----------------------------------------------------------------------------
(* The lines of an ini document *)

LEMMA TextFacts ==
    ASSUME iniText \in Seq(STRING), NEW p \in 0 .. Len(iniText)
    PROVE  \E e \in p + 1 .. Len(iniText) + 1 :
              /\ TextOf(p) = SubSeq(iniText, p + 1, e - 1)
              /\ e <= Len(iniText) => iniText[e] \in LineEnds
              /\ \A i \in p + 1 .. e - 1 : iniText[i] \notin LineEnds
<1> DEFINE T == iniText
           rest == SubSeq(T, p + 1, Len(T))
           P == {i \in DOMAIN rest : rest[i] \in LineEnds}
           f == FirstOf(P, rest)
           e == p + f
<1>0. Len(T) \in Nat /\ p \in Nat /\ p <= Len(T)
  OBVIOUS
<1>1. p + 1 \in 1 .. Len(T) + 1 /\ Len(T) \in (p + 1) - 1 .. Len(T)
      /\ Len(T) - (p + 1) + 1 = Len(T) - p
  BY <1>0
<1>2. /\ rest \in Seq(STRING) /\ Len(rest) = Len(T) - p
      /\ DOMAIN rest = 1 .. Len(T) - p
      /\ \A i \in 1 .. Len(T) - p : rest[i] = T[(p + 1) + i - 1]
  BY <1>1, Piece
<1> HIDE DEF rest
<1>3. P \in SUBSET (1 .. Len(rest)) /\ Len(rest) \in Nat
  BY <1>0, <1>2
<1>4. f \in 1 .. Len(rest) + 1 /\ (f <= Len(rest) => f \in P) /\ \A k \in P : f <= k
  BY <1>3, FirstOfIs
<1>5. TextOf(p) = SubSeq(rest, 1, f - 1)
  BY DEF TextOf, After, Before, rest
<1> HIDE DEF f
<1>6. e \in p + 1 .. Len(T) + 1
  BY <1>0, <1>2, <1>4
<1>7. SubSeq(rest, 1, f - 1) = SubSeq(T, p + 1, e - 1)
  <2>1. 1 \in 1 .. Len(T) - (p + 1) + 2 /\ f - 1 \in 1 - 1 .. Len(T) - (p + 1) + 1
    BY <1>0, <1>2, <1>4
  <2>2. SubSeq(rest, 1, f - 1) = SubSeq(T, (p + 1) + 1 - 1, (p + 1) + (f - 1) - 1)
    BY <1>1, <2>1, PieceOfPiece DEF rest
  <2>3. (p + 1) + 1 - 1 = p + 1 /\ (p + 1) + (f - 1) - 1 = e - 1
    BY <1>0, <1>4
  <2> QED
    BY <2>2, <2>3
<1>8. e <= Len(T) => T[e] \in LineEnds
  <2> SUFFICES ASSUME e <= Len(T) PROVE T[e] \in LineEnds
    OBVIOUS
  <2>1. f \in 1 .. Len(T) - p /\ (p + 1) + f - 1 = e /\ f <= Len(rest)
    BY <1>0, <1>2, <1>4
  <2> QED
    BY <1>2, <1>4, <2>1
<1>9. ASSUME NEW i \in p + 1 .. e - 1 PROVE T[i] \notin LineEnds
  <2>0. f \in Int /\ f <= Len(T) - p + 1 /\ i \in Int /\ p + 1 <= i /\ i <= p + f - 1
    BY <1>0, <1>2, <1>4
  <2>1. i - p \in 1 .. Len(T) - p /\ (p + 1) + (i - p) - 1 = i /\ ~(f <= i - p)
    BY <1>0, <2>0
  <2>2. rest[i - p] = T[i] /\ i - p \notin P
    BY <1>2, <1>4, <2>1
  <2> QED
    BY <1>2, <2>1, <2>2
<1> QED
  BY <1>5, <1>6, <1>7, <1>8, <1>9

LEMMA TrimNothing == Trim(<<>>) = <<>>
<1>1. Solid(<<>>) = {}
  BY DEF Solid
<1> QED
  BY <1>1 DEF Trim

\* A line says nothing when it ends where it begins.
LEMMA SaidFacts ==
    ASSUME iniText \in Seq(STRING), NEW p \in Said
    PROVE  /\ p \in Nat /\ p < Len(iniText)
           /\ p \in Lines
           /\ iniText[p + 1] \notin LineEnds
<1>1. Len(iniText) \in Nat /\ DOMAIN iniText = 1 .. Len(iniText)
  OBVIOUS
<1>2. p \in 0 .. Len(iniText) /\ p \in Lines
  BY <1>1 DEF Said, Lines
<1>3. PICK e \in p + 1 .. Len(iniText) + 1 :
        /\ TextOf(p) = SubSeq(iniText, p + 1, e - 1)
        /\ \A i \in p + 1 .. e - 1 : iniText[i] \notin LineEnds
  BY <1>2, TextFacts
<1>4. e # p + 1
  <2> SUFFICES ASSUME e = p + 1 PROVE FALSE
    OBVIOUS
  <2>1. TextOf(p) = <<>>
    <3>1. p + 1 \in 1 .. Len(iniText) + 1 /\ p \in (p + 1) - 1 .. Len(iniText)
          /\ p - (p + 1) + 1 = 0 /\ e - 1 = p
      BY <1>1, <1>2
    <3>2. TextOf(p) \in Seq(STRING) /\ Len(TextOf(p)) = 0
      BY <1>3, <3>1, Piece
    <3> QED
      BY <3>2
  <2>2. IsComment(Bare(p))
    BY <2>1, TrimNothing DEF Bare, IsComment
  <2> QED
    BY <2>2 DEF Said
<1>5. p + 1 \in p + 1 .. e - 1 /\ p < Len(iniText) /\ p \in Nat
  BY <1>1, <1>2, <1>3, <1>4
<1> QED
  BY <1>2, <1>3, <1>5

\* Where the next line begins, by the position before it.
At == Len(iniText) - Len(left)

\* Nothing is said between two positions but by the line at the first.
Reaches(p, q) ==
    /\ p \in Nat /\ q \in Nat /\ p < q /\ q <= Len(iniText)
    /\ \A r \in Said : r < q <=> r < p \/ r = p

\* The code reads the line the document has.
LEMMA ReadsLine ==
    ASSUME LeftInv, left # <<>>, At \in Lines, Fits
    PROVE  /\ Line = TextOf(At) /\ Start = Bare(At)
           /\ LineLength(left) + 1 <= Len(left) => left[LineLength(left) + 1] \in LineEnds
<1> DEFINE T == iniText
           n == LineLength(left)
           p == At
<1>1. /\ T \in Seq(STRING) /\ left \in Seq(STRING) /\ Len(left) \in Nat /\ Len(T) \in Nat
      /\ Len(left) <= Len(T) /\ Len(left) # 0
      /\ \A i \in 1 .. Len(left) : left[i] = T[Len(T) - Len(left) + i]
  BY EmptySeq DEF LeftInv
<1>2. p \in Nat /\ p < Len(T) /\ Len(left) = Len(T) - p /\ p \in 0 .. Len(T)
      /\ p + 1 \in 1 .. Len(T) + 1
      /\ Len(T) \in (p + 1) - 1 .. Len(T)
      /\ Len(T) - (p + 1) + 1 = Len(T) - p
  BY <1>1 DEF At
<1>3. \A i \in 1 .. Len(left) : left[i] = T[p + i]
  BY <1>1 DEF At
<1>4. /\ n \in 0 .. Room /\ n <= Len(left)
      /\ \A i \in 1 .. n : left[i] \notin LineEnds
      /\ n < Room /\ n < Len(left) => left[n + 1] \in LineEnds
  BY <1>1, LineFacts
<1>5. PICK e \in p + 1 .. Len(T) + 1 :
        /\ TextOf(p) = SubSeq(T, p + 1, e - 1)
        /\ e <= Len(T) => T[e] \in LineEnds
        /\ \A i \in p + 1 .. e - 1 : T[i] \notin LineEnds
  BY <1>1, <1>2, TextFacts
<1>6. Len(TextOf(p)) = e - 1 - p
  <2>1. e - 1 \in (p + 1) - 1 .. Len(T) /\ (e - 1) - (p + 1) + 1 = e - 1 - p
    BY <1>2
  <2> QED
    BY <1>1, <1>2, <1>5, <2>1, Piece
<1>7. e - 1 - p <= Room /\ Room \in Nat
  <2>1. Len(TextOf(p)) < MaxLine
    BY DEF Fits
  <2> QED
    BY <1>2, <1>6, <2>1, IniAssumption DEF Room
<1>8. left = SubSeq(T, p + 1, Len(T))
  <2> DEFINE s == SubSeq(T, p + 1, Len(T))
  <2>1. /\ s \in Seq(STRING) /\ Len(s) = Len(T) - p
        /\ \A i \in 1 .. Len(T) - p : s[i] = T[(p + 1) + i - 1]
    BY <1>1, <1>2, Piece
  <2> HIDE DEF s
  <2>2. ASSUME NEW i \in 1 .. Len(left) PROVE left[i] = s[i]
    <3>1. (p + 1) + i - 1 = p + i /\ i \in 1 .. Len(T) - p
      BY <1>2
    <3> QED
      BY <1>3, <2>1, <3>1
  <2>3. left = s
    BY <1>1, <1>2, <2>1, <2>2, SeqEqual
  <2> QED
    BY <2>3 DEF s
<1> HIDE DEF n, p
<1>9. n = e - 1 - p
  <2>1. ~(n < e - 1 - p)
    <3> SUFFICES ASSUME n < e - 1 - p PROVE FALSE
      OBVIOUS
    <3>1. n < Room /\ n < Len(left) /\ n + 1 \in 1 .. Len(left) /\ p + (n + 1) \in p + 1 .. e - 1
      BY <1>2, <1>4, <1>7
    <3> QED
      BY <1>3, <1>4, <1>5, <3>1
  <2>2. ~(e - 1 - p < n)
    <3> SUFFICES ASSUME e - 1 - p < n PROVE FALSE
      OBVIOUS
    <3>1. e <= Len(T) /\ e - p \in 1 .. n /\ e - p \in 1 .. Len(left) /\ p + (e - p) = e
      BY <1>2, <1>4, <1>7
    <3> QED
      BY <1>3, <1>4, <1>5, <3>1
  <2> QED
    BY <1>2, <1>4, <1>7, <2>1, <2>2
<1>10. Line = TextOf(p)
  <2>1. 1 \in 1 .. Len(T) - (p + 1) + 2 /\ n \in 1 - 1 .. Len(T) - (p + 1) + 1
    BY <1>2, <1>4
  <2>2. SubSeq(left, 1, n) = SubSeq(T, (p + 1) + 1 - 1, (p + 1) + n - 1)
    BY <1>1, <1>2, <1>8, <2>1, PieceOfPiece
  <2>3. (p + 1) + 1 - 1 = p + 1 /\ (p + 1) + n - 1 = e - 1
    BY <1>2, <1>9
  <2> QED
    BY <1>5, <2>2, <2>3 DEF Line, n
<1>11. n + 1 <= Len(left) => left[n + 1] \in LineEnds
  <2> SUFFICES ASSUME n + 1 <= Len(left) PROVE left[n + 1] \in LineEnds
    OBVIOUS
  <2>1. n + 1 \in 1 .. Len(left) /\ p + (n + 1) = e /\ e <= Len(T)
    BY <1>2, <1>4, <1>9
  <2> QED
    BY <1>3, <1>5, <2>1
<1> QED
  BY <1>10, <1>11 DEF Start, Bare, n, p

\* And then the next one that says something.
LEMMA ReachesNext ==
    ASSUME LeftInv, At \in Lines, Fits, Read
    PROVE  Reaches(At, At') /\ (left' # <<>> => At' \in Lines)
<1> DEFINE T == iniText
           c == Consumed(left)
           n == LineLength(left)
           p == At
           q == At'
<1>1. /\ T \in Seq(STRING) /\ left \in Seq(STRING) /\ Len(left) \in Nat /\ Len(T) \in Nat
      /\ Len(left) <= Len(T) /\ Len(left) # 0
      /\ \A i \in 1 .. Len(left) : left[i] = T[Len(T) - Len(left) + i]
  BY EmptySeq DEF LeftInv, Read
<1>2. p \in Nat /\ p < Len(T) /\ Len(left) = Len(T) - p
      /\ \A i \in 1 .. Len(left) : left[i] = T[p + i]
  BY <1>1 DEF At
<1>3. /\ n \in 0 .. Room /\ n <= Len(left)
      /\ \A i \in 1 .. n : left[i] \notin LineEnds
      /\ n + 1 <= Len(left) => left[n + 1] \in LineEnds
  BY <1>1, LineFacts, ReadsLine DEF Read
<1>4. \/ c = n + 1
      \/ c = n + 2 /\ n + 2 <= Len(left) /\ left[n + 2] = left[n + 1]
  BY DEF Consumed
<1>5. /\ left' # <<>> => c < Len(left) /\ Len(left') = Len(left) - c
      /\ LeftInv' /\ iniText' = T
  BY LeftStep DEF Read
<1>6. left' = <<>> => c >= Len(left)
  <2> SUFFICES ASSUME left' = <<>>, ~(c >= Len(left)) PROVE FALSE
    OBVIOUS
  <2>1. left' = SubSeq(left, c + 1, Len(left))
    BY DEF Read, After
  <2>2. c \in Nat /\ c >= 1
    BY <1>1, ConsumedFacts
  <2> HIDE DEF c
  <2>3. c + 1 \in 1 .. Len(left) + 1 /\ Len(left) \in (c + 1) - 1 .. Len(left)
        /\ Len(left) - (c + 1) + 1 # 0
    BY <1>1, <2>2
  <2>4. Len(SubSeq(left, c + 1, Len(left))) = Len(left) - (c + 1) + 1
    BY <1>1, <2>3, Piece
  <2>5. Len(left') # 0
    BY <2>1, <2>3, <2>4
  <2> QED
    BY <2>5
<1>7. q = IF left' = <<>> THEN Len(T) ELSE p + c
  <2>1. q = Len(T) - Len(left')
    BY <1>5 DEF At
  <2>2. Len(left') \in Nat
    BY <1>5 DEF LeftInv
  <2>3. CASE left' = <<>>
    BY <1>1, <2>1, <2>3
  <2>4. CASE left' # <<>>
    <3>1. c \in Nat
      BY <1>1, ConsumedFacts
    <3>2. Len(left') = (Len(T) - p) - c
      BY <1>2, <1>5, <2>4
    <3>3. q = p + c
      BY <1>1, <1>2, <2>1, <3>1, <3>2
    <3> QED
      BY <2>4, <3>3
  <2> QED
    BY <2>3, <2>4
<1>8. c \in Nat /\ c >= 1 /\ n \in Nat
  BY <1>1, <1>3, ConsumedFacts, IniAssumption DEF Room
<1> HIDE DEF c, n, p, q
<1>9. q \in Nat /\ p < q /\ q <= Len(T)
  BY <1>1, <1>2, <1>5, <1>7, <1>8
<1>10. ASSUME NEW r \in Said, p < r, r < q PROVE FALSE
  <2>1. r \in Nat /\ r < Len(T) /\ r \in Lines /\ T[r + 1] \notin LineEnds
    BY <1>1, SaidFacts
  <2>2. T[r] \in LineEnds
    BY <1>2, <1>10, <2>1 DEF Lines
  <2> DEFINE j == r - p
  <2>3. /\ j \in 1 .. Len(left) /\ j + 1 \in 1 .. Len(left) /\ j < c
        /\ p + j = r /\ p + (j + 1) = r + 1
    BY <1>1, <1>2, <1>5, <1>6, <1>7, <1>8, <1>10, <2>1
  <2> HIDE DEF j
  <2>4. left[j] \in LineEnds /\ left[j + 1] \notin LineEnds
    BY <1>2, <2>1, <2>2, <2>3
  <2>5. j \notin 1 .. n
    BY <1>3, <2>4
  <2>6. j = n + 1 /\ c = n + 2
    BY <1>4, <1>8, <2>3, <2>5
  <2>7. j + 1 = n + 2
    BY <1>8, <2>6
  <2> QED
    BY <1>4, <1>8, <2>4, <2>6, <2>7
<1>11. Reaches(p, q)
  <2>1. ASSUME NEW r \in Said PROVE r < q <=> r < p \/ r = p
    <3>1. r \in Nat
      BY <1>1, SaidFacts
    <3> QED
      BY <1>2, <1>9, <1>10, <3>1
  <2> QED
    BY <1>2, <1>9, <2>1 DEF Reaches
<1>12. ASSUME left' # <<>> PROVE T[q] \in LineEnds /\ q \in DOMAIN T
  <2>1. c \in 1 .. Len(left) /\ q = p + c
    BY <1>1, <1>5, <1>7, <1>8, <1>12
  <2>2. left[n + 1] \in LineEnds
    BY <1>1, <1>3, <1>4, <1>8, <2>1
  <2>3. left[c] \in LineEnds
    BY <1>4, <2>2
  <2>4. T[q] = left[c]
    BY <1>2, <2>1
  <2>5. q \in 1 .. Len(T)
    BY <1>1, <1>2, <2>1
  <2> QED
    BY <1>1, <2>3, <2>4, <2>5
<1>13. left' # <<>> => q \in Lines'
  BY <1>5, <1>12 DEF Lines
<1>14. Lines' = Lines
  BY <1>5 DEF Lines
<1> QED
  BY <1>11, <1>13, <1>14 DEF p, q

-----------------------------------------------------------------------------
(* What the parser takes from a line *)

LEMMA TrimType == ASSUME NEW s \in Seq(STRING) PROVE Trim(s) \in Seq(STRING)
<1>1. Len(s) \in Nat /\ DOMAIN s = 1 .. Len(s)
  OBVIOUS
<1>2. Solid(s) = SolidOf(s, 1, Len(s))
  BY <1>1 DEF Solid, SolidOf
<1>3. CASE Solid(s) = {}
  BY <1>3, EmptySeq DEF Trim
<1>4. CASE Solid(s) # {}
  <2> DEFINE a == Min(Solid(s))
             b == Max(Solid(s))
  <2>1. 1 \in 1 .. Len(s) + 1 /\ Len(s) \in 1 - 1 .. Len(s)
    BY <1>1
  <2>2. a \in 1 .. Len(s) /\ b \in 1 .. Len(s) /\ a <= b
    BY <1>2, <1>4, <2>1, SolidOfFacts
  <2> HIDE DEF a, b
  <2>3. a \in 1 .. Len(s) + 1 /\ b \in a - 1 .. Len(s)
    BY <1>1, <2>2
  <2>4. SubSeq(s, a, b) \in Seq(STRING)
    BY <2>3, Piece
  <2> QED
    BY <1>4, <2>4 DEF Trim, a, b
<1> QED
  BY <1>3, <1>4

LEMMA StopType ==
    ASSUME NEW s \in Seq(STRING), NEW chars
    PROVE  Stop(s, chars) \in 1 .. Len(s) + 1
<1> DEFINE P == {i \in DOMAIN s :
                    s[i] \in chars \/ (s[i] = ";" /\ i > 1 /\ s[i - 1] \in Blanks)}
<1>0. DOMAIN s = 1 .. Len(s) /\ Len(s) \in Nat
  BY LenProperties
<1>2. P \subseteq DOMAIN s
  BY Zenon
<1> HIDE DEF P
<1>1. P \in SUBSET (1 .. Len(s)) /\ Len(s) \in Nat
  BY <1>0, <1>2
<1>3. FirstOf(P, s) \in 1 .. Len(s) + 1
  BY <1>1, FirstOfIs
<1> QED
  BY <1>3 DEF Stop, P

LEMMA BareType ==
    ASSUME iniText \in Seq(STRING), NEW p \in 0 .. Len(iniText)
    PROVE  Bare(p) \in Seq(STRING)
<1>1. PICK e \in p + 1 .. Len(iniText) + 1 : TextOf(p) = SubSeq(iniText, p + 1, e - 1)
  BY TextFacts
<1>2. p + 1 \in 1 .. Len(iniText) + 1 /\ e - 1 \in (p + 1) - 1 .. Len(iniText)
  BY LenProperties
<1>3. TextOf(p) \in Seq(STRING)
  BY <1>1, <1>2, Piece
<1> QED
  BY <1>3, TrimType DEF Bare

LEMMA PairNameType == ASSUME NEW s \in Seq(STRING) PROVE PairName(s) \in Seq(STRING)
<1>1. NameEnd(s) \in 1 .. Len(s) + 1 /\ Len(s) \in Nat
  BY StopType DEF NameEnd
<1>2. 1 \in 1 .. Len(s) + 1 /\ NameEnd(s) - 1 \in 1 - 1 .. Len(s)
  BY <1>1
<1>3. SubSeq(s, 1, NameEnd(s) - 1) \in Seq(STRING)
  BY <1>2, Piece
<1> QED
  BY <1>3, TrimType DEF PairName, Before

LEMMA SectionNameType ==
    ASSUME NEW s \in Seq(STRING), IsSection(s)
    PROVE  SectionName(s) \in Seq(STRING)
<1>1. Len(s) \in Nat /\ Len(s) >= 1 /\ Tail(s) \in Seq(STRING) /\ Len(Tail(s)) = Len(s) - 1
  BY EmptySeq, HeadTailProperties DEF IsSection
<1>2. Stop(Tail(s), {"]"}) \in 1 .. Len(s)
  <2>1. Stop(Tail(s), {"]"}) \in 1 .. Len(Tail(s)) + 1
    BY <1>1, StopType
  <2>2. Len(Tail(s)) + 1 = Len(s)
    BY <1>1
  <2> QED
    BY <2>1, <2>2
<1> DEFINE e == SectionEnd(s)
<1>3. e \in 2 .. Len(s) + 1
  BY <1>1, <1>2 DEF SectionEnd
<1> HIDE DEF e
<1>4. 2 \in 1 .. Len(s) + 1 /\ e - 1 \in 2 - 1 .. Len(s)
  BY <1>1, <1>3
<1>5. SubSeq(s, 2, e - 1) \in Seq(STRING)
  BY <1>4, Piece
<1> QED
  BY <1>5 DEF SectionName, e

\* A name is cut, unless it fits.
LEMMA TruncatedIs ==
    ASSUME NEW s \in Seq(STRING)
    PROVE  /\ Truncated(s) \in Seq(STRING)
           /\ Len(s) < MaxName => Truncated(s) = s
<1> DEFINE T == {Len(s), MaxName - 1}
           m == Min(T)
<1>1. Len(s) \in Nat /\ MaxName - 1 \in Nat /\ MaxName \in Nat
  BY IniAssumption
<1>2. T \in SUBSET Nat /\ T # {}
  BY <1>1
<1>3. m \in T /\ \A k \in T : m <= k
  BY <1>2, LeastElement
<1> HIDE DEF m
<1>4. m \in Nat /\ m <= Len(s) /\ (Len(s) < MaxName => m = Len(s))
  BY <1>1, <1>3
<1>5. 1 \in 1 .. Len(s) + 1 /\ m \in 1 - 1 .. Len(s)
  BY <1>1, <1>4
<1>6. SubSeq(s, 1, m) \in Seq(STRING)
  BY <1>5, Piece
<1>7. SubSeq(s, 1, Len(s)) = s
  OBVIOUS
<1> QED
  BY <1>4, <1>6, <1>7 DEF Truncated, m

\* A name that is not empty stays so in its section.
LEMMA FullNameIs ==
    ASSUME NEW s \in Seq(STRING), NEW name \in Seq(STRING), name # <<>>
    PROVE  FullName(s, name) # <<>>
<1>1. CASE s = <<>>
  BY <1>1 DEF FullName
<1>2. CASE s # <<>>
  <2> DEFINE rest == NameDelimiter \o name
  <2>1. NameDelimiter \in Seq(STRING)
    BY IniAssumption
  <2>2. rest \in Seq(STRING) /\ Len(s) \in Nat /\ Len(s) # 0
    BY <1>2, <2>1, ConcatProperties, EmptySeq
  <2> DEFINE all == (s \o NameDelimiter) \o name
  <2>3. Len(s \o NameDelimiter) = Len(s) + Len(NameDelimiter) /\ s \o NameDelimiter \in Seq(STRING)
    BY <2>1, ConcatProperties
  <2>4. Len(all) = (Len(s) + Len(NameDelimiter)) + Len(name)
    BY <2>3, ConcatProperties
  <2>5. Len(NameDelimiter) \in Nat /\ Len(name) \in Nat
    BY <2>1
  <2> HIDE DEF all
  <2>6. Len(all) # 0
    BY <2>2, <2>4, <2>5
  <2>7. all # <<>>
    BY <2>6
  <2> QED
    BY <1>2, <2>7 DEF FullName, all
<1> QED
  BY <1>1, <1>2

-----------------------------------------------------------------------------
(* Values joined in their order *)

\* One position more.
WithValue(values, old, k) ==
    IF k - 1 \in DOMAIN values THEN Joined(old, values[k - 1]) ELSE old

\* What is joined at each of the positions up to n.
JoinedAs(values, n, g) ==
    g = [k \in 0 .. n |-> IF k = 0 THEN <<>> ELSE WithValue(values, g[k - 1], k)]

LEMMA JoinedExist == ASSUME NEW values, NEW n \in Nat PROVE \E g : JoinedAs(values, n, g)
<1> DEFINE D == {k \in Nat : ~\E g : JoinedAs(values, k, g)}
<1> SUFFICES ASSUME D # {} PROVE FALSE
  OBVIOUS
<1>1. Min(D) \in D /\ \A k \in D : Min(D) <= k
  BY LeastElement
<1> DEFINE m == Min(D)
<1>2. m \in Nat /\ ~\E g : JoinedAs(values, m, g)
  BY <1>1
<1> HIDE DEF m
<1>3. CASE m = 0
  <2> DEFINE g == [k \in 0 .. 0 |-> <<>>]
  <2>1. g = [k \in 0 .. 0 |-> IF k = 0 THEN <<>> ELSE WithValue(values, g[k - 1], k)]
    OBVIOUS
  <2> HIDE DEF g
  <2>2. JoinedAs(values, 0, g)
    BY <2>1 DEF JoinedAs
  <2> QED
    BY <1>2, <1>3, <2>2
<1>4. CASE m # 0
  <2>1. m - 1 \in Nat /\ m - 1 \notin D
    BY <1>1, <1>2, <1>4 DEF m
  <2>2. PICK g : JoinedAs(values, m - 1, g)
    BY <2>1
  <2>3. /\ g[0] = <<>>
        /\ \A k \in 1 .. m - 1 : g[k] = WithValue(values, g[k - 1], k)
    BY <2>1, <2>2 DEF JoinedAs
  <2> DEFINE h == [k \in 0 .. m |-> IF k = m THEN WithValue(values, g[m - 1], m) ELSE g[k]]
  <2>4. ASSUME NEW k \in 0 .. m
        PROVE  h[k] = IF k = 0 THEN <<>> ELSE WithValue(values, h[k - 1], k)
    <3>1. CASE k = 0
      BY <1>2, <1>4, <2>3, <3>1
    <3>2. CASE k # 0
      <4>1. k - 1 \in 0 .. m /\ k - 1 # m /\ h[k - 1] = g[k - 1]
        BY <1>2, <3>2
      <4>2. CASE k = m
        BY <3>2, <4>1, <4>2
      <4>3. CASE k # m
        <5>1. k \in 1 .. m - 1
          BY <1>2, <3>2, <4>3
        <5> QED
          BY <2>3, <3>2, <4>1, <4>3, <5>1
      <4> QED
        BY <4>2, <4>3
    <3> QED
      BY <3>1, <3>2
  <2>5. h = [k \in 0 .. m |-> IF k = 0 THEN <<>> ELSE WithValue(values, h[k - 1], k)]
    BY <2>4
  <2> HIDE DEF h
  <2>6. JoinedAs(values, m, h)
    BY <1>2, <2>5 DEF JoinedAs
  <2> QED
    BY <1>2, <2>6
<1> QED
  BY <1>3, <1>4

LEMMA JoinedIs ==
    ASSUME NEW values, NEW n \in Nat
    PROVE  \E g : JoinedAs(values, n, g) /\ JoinedBefore(values, n) = g[n]
<1>1. \E g : JoinedAs(values, n, g)
  BY JoinedExist
<1> DEFINE f == CHOOSE g : JoinedAs(values, n, g)
<1>2. JoinedAs(values, n, f)
  BY <1>1
<1>3. JoinedBefore(values, n) = f[n]
  BY DEF JoinedBefore, JoinedAs, WithValue
<1> QED
  BY <1>2, <1>3

LEMMA JoinedAgree ==
    ASSUME NEW values, NEW n \in Nat, NEW m \in Nat, n <= m,
           NEW g, NEW h, JoinedAs(values, n, g), JoinedAs(values, m, h)
    PROVE  g[n] = h[n]
<1> DEFINE D == {k \in 0 .. n : g[k] # h[k]}
<1> SUFFICES ASSUME D # {} PROVE FALSE
  OBVIOUS
<1>0. D \in SUBSET Nat
  OBVIOUS
<1> DEFINE k == Min(D)
<1>1. k \in D /\ \A j \in D : k <= j
  BY <1>0, LeastElement
<1> HIDE DEF k
<1>2. k \in 0 .. n /\ g[k] # h[k] /\ k \in 0 .. m
  BY <1>1
<1>3. /\ g[k] = IF k = 0 THEN <<>> ELSE WithValue(values, g[k - 1], k)
      /\ h[k] = IF k = 0 THEN <<>> ELSE WithValue(values, h[k - 1], k)
  BY <1>2 DEF JoinedAs
<1>4. k # 0
  BY <1>2, <1>3
<1>5. k - 1 \in 0 .. n /\ k - 1 \notin D
  BY <1>1, <1>2, <1>4
<1>6. g[k - 1] = h[k - 1]
  BY <1>5
<1> QED
  BY <1>2, <1>3, <1>4, <1>6

LEMMA JoinedNone == ASSUME NEW values PROVE JoinedBefore(values, 0) = <<>>
<1>1. PICK g : JoinedAs(values, 0, g) /\ JoinedBefore(values, 0) = g[0]
  BY JoinedIs
<1>2. g[0] = <<>>
  BY <1>1 DEF JoinedAs
<1> QED
  BY <1>1, <1>2

LEMMA JoinedStep ==
    ASSUME NEW values, NEW n \in Nat
    PROVE  JoinedBefore(values, n + 1) = WithValue(values, JoinedBefore(values, n), n + 1)
<1>1. PICK g : JoinedAs(values, n, g) /\ JoinedBefore(values, n) = g[n]
  BY JoinedIs
<1>2. PICK h : JoinedAs(values, n + 1, h) /\ JoinedBefore(values, n + 1) = h[n + 1]
  BY JoinedIs
<1>3. g[n] = h[n]
  BY <1>1, <1>2, JoinedAgree
<1>4. h[n + 1] = WithValue(values, h[(n + 1) - 1], n + 1)
  BY <1>2 DEF JoinedAs
<1> QED
  BY <1>1, <1>2, <1>3, <1>4

\* Positions without a value change nothing.
LEMMA JoinedPast ==
    ASSUME NEW values, NEW a \in Nat, NEW b \in Nat, a <= b,
           \A k \in a .. b - 1 : k \notin DOMAIN values
    PROVE  JoinedBefore(values, b) = JoinedBefore(values, a)
<1> DEFINE D == {k \in a .. b : JoinedBefore(values, k) # JoinedBefore(values, a)}
<1> SUFFICES ASSUME D # {} PROVE FALSE
  OBVIOUS
<1>0. D \in SUBSET Nat
  OBVIOUS
<1> DEFINE m == Min(D)
<1>1. m \in D /\ \A j \in D : m <= j
  BY <1>0, LeastElement
<1> HIDE DEF m
<1>2. m \in a .. b /\ JoinedBefore(values, m) # JoinedBefore(values, a)
  BY <1>1
<1>3. m # a
  BY <1>2
<1>4. m - 1 \in a .. b - 1 /\ m - 1 \in a .. b /\ m - 1 \in Nat /\ (m - 1) + 1 = m
      /\ ~(m <= m - 1)
  BY <1>2, <1>3
<1>5. JoinedBefore(values, m - 1) = JoinedBefore(values, a)
  BY <1>1, <1>4
<1>6. JoinedBefore(values, m) = WithValue(values, JoinedBefore(values, m - 1), m)
  BY <1>4, JoinedStep
<1>7. m - 1 \notin DOMAIN values
  BY <1>4
<1> QED
  BY <1>2, <1>5, <1>6, <1>7 DEF WithValue

-----------------------------------------------------------------------------
(* What a document says up to a position, and up to the next line *)

Opens(p) ==
    p \in Said /\ ~Indented(TextOf(p)) /\ IsSection(Bare(p)) /\ SectionClosed(Bare(p))

LastAbove(p) == Max(Above(p))

\* There was no line to continue: none at all, or a section has just begun.
NoneToContinue(p) ==
    /\ \A r \in Said : r < p => Above(p) # {} /\ r <= LastAbove(p)
    /\ Above(p) # {} => Opens(LastAbove(p))
PairAbove(p) ==
    Above(p) # {} /\ ~IsSection(Bare(LastAbove(p))) /\ IsPair(Bare(LastAbove(p)))

AmissAbove(p) == \E r \in Said : r < p /\ Amiss(r)

\* The variables of the lines above.
NamesAbove(p) == {NameOf(q) : q \in {r \in Defining : r < p}}
Gathered(p) == [n \in NamesAbove(p) |-> JoinedBefore(ValuesOf(n), p)]

LEMMA AboveFacts ==
    ASSUME iniText \in Seq(STRING), NEW p \in Nat
    PROVE  /\ Above(p) \in SUBSET Nat /\ \A r \in Above(p) : r < p /\ r \in Said
           /\ Above(p) # {} =>
                 LastAbove(p) \in Above(p) /\ \A r \in Above(p) : r <= LastAbove(p)
<1>1. \A r \in Said : r \in Nat
  BY SaidFacts
<1>2. Above(p) \in SUBSET Nat /\ \A r \in Above(p) : r < p /\ r \in Said /\ r <= p
  BY <1>1 DEF Above
<1>3. Above(p) # {} =>
         Max(Above(p)) \in Above(p) /\ \A r \in Above(p) : r <= Max(Above(p))
  BY <1>2, GreatestElement
<1> QED
  BY <1>2, <1>3 DEF LastAbove

\* A line that is not indented is the one above the next.
LEMMA AboveNext ==
    ASSUME iniText \in Seq(STRING), NEW p, NEW q, Reaches(p, q)
    PROVE  /\ p \notin Said \/ Indented(TextOf(p)) => Above(q) = Above(p)
           /\ p \in Said /\ ~Indented(TextOf(p)) =>
                 Above(q) = Above(p) \cup {p} /\ LastAbove(q) = p
<1>1. p \in Nat /\ q \in Nat /\ p < q
  BY DEF Reaches
<1>2. \A r \in Said : r < q <=> r < p \/ r = p
  BY DEF Reaches
<1>3. p \notin Said \/ Indented(TextOf(p)) => Above(q) = Above(p)
  BY <1>1, <1>2 DEF Above
<1>4. ASSUME p \in Said, ~Indented(TextOf(p))
      PROVE  Above(q) = Above(p) \cup {p} /\ LastAbove(q) = p
  <2>1. Above(q) = Above(p) \cup {p}
    BY <1>1, <1>2, <1>4 DEF Above
  <2>2. \A r \in Above(q) : r <= p /\ r \in Nat
    BY <1>1, <2>1, AboveFacts
  <2>3. Above(q) \in SUBSET Nat /\ p \in Above(q)
    BY <1>1, <2>1, <2>2
  <2>4. Max(Above(q)) = p
    BY <2>2, <2>3, GreatestIs
  <2> QED
    BY <2>1, <2>4 DEF LastAbove
<1> QED
  BY <1>3, <1>4

LEMMA SectionNext ==
    ASSUME iniText \in Seq(STRING), NEW p, NEW q, Reaches(p, q)
    PROVE  SectionOf(q) = IF Opens(p) THEN SectionName(Bare(p)) ELSE SectionOf(p)
<1>1. p \in Nat /\ q \in Nat /\ p < q
  BY DEF Reaches
<1>2. \A r : r \in SectionsAbove(q) <=> r \in Above(q) /\ Opens(r)
  BY DEF SectionsAbove, Above, Opens
<1>3. \A r : r \in SectionsAbove(p) <=> r \in Above(p) /\ Opens(r)
  BY DEF SectionsAbove, Above, Opens
<1>4. CASE Opens(p)
  <2>1. p \in Said /\ ~Indented(TextOf(p))
    BY <1>4 DEF Opens
  <2>2. Above(q) = Above(p) \cup {p}
    BY <2>1, AboveNext
  <2>3. p \in SectionsAbove(q)
    BY <1>2, <1>4, <2>2
  <2>4. \A r \in SectionsAbove(q) : r <= p /\ r \in Nat
    BY <1>1, <1>2, <2>2, AboveFacts
  <2>5. SectionsAbove(q) \in SUBSET Nat
    BY <2>4
  <2>6. Max(SectionsAbove(q)) = p
    BY <2>3, <2>4, <2>5, GreatestIs
  <2> QED
    BY <1>4, <2>3, <2>6 DEF SectionOf
<1>5. CASE ~Opens(p)
  <2>1. \A r : r \in Above(q) /\ Opens(r) <=> r \in Above(p) /\ Opens(r)
    BY <1>5, AboveNext
  <2>2. SectionsAbove(q) = SectionsAbove(p)
    BY <1>2, <1>3, <2>1
  <2> QED
    BY <1>5, <2>2 DEF SectionOf
<1> QED
  BY <1>4, <1>5

LEMMA AmissNext ==
    ASSUME NEW p, NEW q, Reaches(p, q)
    PROVE  AmissAbove(q) <=> AmissAbove(p) \/ (p \in Said /\ Amiss(p))
BY DEF Reaches, AmissAbove

LEMMA DefiningSaid == Defining \subseteq Said
BY DEF Defining

LEMMA ValuesAt ==
    ASSUME NEW n
    PROVE  /\ \A k : k \in DOMAIN ValuesOf(n) <=> k \in Defining /\ NameOf(k) = n
           /\ \A k \in DOMAIN ValuesOf(n) : ValuesOf(n)[k] = ValueOf(k)
<1>1. DOMAIN ValuesOf(n) = {q \in Defining : NameOf(q) = n}
  BY DEF ValuesOf
<1>2. \A k \in {q \in Defining : NameOf(q) = n} : ValuesOf(n)[k] = ValueOf(k)
  BY DEF ValuesOf
<1> QED
  BY <1>1, <1>2

\* Where no line has a value for a name, there is nothing to join.
LEMMA JoinedUpTo ==
    ASSUME NEW n, NEW p \in Nat, NEW q \in Nat, p <= q,
           \A k \in Defining : k \in Nat /\ p <= k /\ k < q => NameOf(k) # n
    PROVE  JoinedBefore(ValuesOf(n), q) = JoinedBefore(ValuesOf(n), p)
<1>1. ASSUME NEW k \in p .. q - 1 PROVE k \notin DOMAIN ValuesOf(n)
  <2>1. k \in Nat /\ p <= k /\ k < q
    OBVIOUS
  <2> QED
    BY <2>1, ValuesAt
<1> QED
  BY <1>1, JoinedPast

LEMMA GatheredSkip ==
    ASSUME iniText \in Seq(STRING), NEW p, NEW q, Reaches(p, q), p \notin Defining
    PROVE  Gathered(q) = Gathered(p)
<1>1. p \in Nat /\ q \in Nat /\ p < q /\ \A r \in Said : r < q <=> r < p \/ r = p
  BY DEF Reaches
<1>2. {r \in Defining : r < q} = {r \in Defining : r < p}
  BY <1>1, DefiningSaid
<1>3. NamesAbove(q) = NamesAbove(p)
  BY <1>2 DEF NamesAbove
<1>4. ASSUME NEW n PROVE JoinedBefore(ValuesOf(n), q) = JoinedBefore(ValuesOf(n), p)
  <2>1. ASSUME NEW k \in Defining, k \in Nat, p <= k, k < q PROVE FALSE
    BY <1>1, <2>1, DefiningSaid
  <2> QED
    BY <1>1, <2>1, JoinedUpTo
<1> QED
  BY <1>3, <1>4 DEF Gathered

\* What Define() makes of the variables, unless the name is empty.
Defined(e, full, value) ==
    [n \in DOMAIN e \cup {full} |->
        IF n # full THEN e[n]
        ELSE IF full \in DOMAIN e THEN Joined(e[full], value)
        ELSE value]

LEMMA GatheredOne ==
    ASSUME iniText \in Seq(STRING), NEW p, NEW q, Reaches(p, q), p \in Defining
    PROVE  Gathered(q) = Defined(Gathered(p), NameOf(p), ValueOf(p))
<1> DEFINE e == Gathered(p)
           full == NameOf(p)
           value == ValueOf(p)
<1>0. e = Gathered(p) /\ full = NameOf(p) /\ value = ValueOf(p)
  OBVIOUS
<1> HIDE DEF e, full, value
<1>1. p \in Nat /\ q \in Nat /\ p < q /\ \A r \in Said : r < q <=> r < p \/ r = p
  BY DEF Reaches
<1>2. {r \in Defining : r < q} = {r \in Defining : r < p} \cup {p}
  BY <1>1, DefiningSaid
<1>3. NamesAbove(q) = NamesAbove(p) \cup {full}
  BY <1>0, <1>2 DEF NamesAbove
<1>4. DOMAIN e = NamesAbove(p) /\ \A n \in NamesAbove(p) : e[n] = JoinedBefore(ValuesOf(n), p)
  BY <1>0 DEF Gathered
<1>5. ASSUME NEW k \in Defining, k \in Nat, p <= k, k < q PROVE k = p
  BY <1>1, <1>5, DefiningSaid
<1>6. ASSUME NEW n \in NamesAbove(q), n # full
      PROVE  JoinedBefore(ValuesOf(n), q) = e[n]
  <2>1. JoinedBefore(ValuesOf(n), q) = JoinedBefore(ValuesOf(n), p)
    BY <1>0, <1>1, <1>5, <1>6, JoinedUpTo
  <2> QED
    BY <1>3, <1>4, <1>6, <2>1
<1>7. JoinedBefore(ValuesOf(full), q) = Joined(JoinedBefore(ValuesOf(full), p), value)
  <2>1. JoinedBefore(ValuesOf(full), q) = JoinedBefore(ValuesOf(full), p + 1)
    <3>1. p + 1 \in Nat /\ p + 1 <= q
      BY <1>1
    <3>2. ASSUME NEW k \in Defining, k \in Nat, p + 1 <= k, k < q PROVE FALSE
      <4>1. k = p
        BY <1>1, <1>5, <3>2
      <4> QED
        BY <1>1, <3>2, <4>1
    <3> QED
      BY <1>1, <3>1, <3>2, JoinedUpTo
  <2>2. (p + 1) - 1 = p
    BY <1>1
  <2>3. p \in DOMAIN ValuesOf(full) /\ ValuesOf(full)[p] = value
    BY <1>0, ValuesAt
  <2>4. WithValue(ValuesOf(full), JoinedBefore(ValuesOf(full), p), p + 1)
           = Joined(JoinedBefore(ValuesOf(full), p), value)
    BY <2>2, <2>3 DEF WithValue
  <2> QED
    BY <1>1, <2>1, <2>4, JoinedStep
<1>8. full \notin NamesAbove(p) => JoinedBefore(ValuesOf(full), p) = <<>>
  <2> SUFFICES ASSUME full \notin NamesAbove(p)
               PROVE  JoinedBefore(ValuesOf(full), p) = <<>>
    OBVIOUS
  <2>1. \A k \in Defining : k \in Nat /\ 0 <= k /\ k < p => NameOf(k) # full
    BY DEF NamesAbove
  <2>2. JoinedBefore(ValuesOf(full), p) = JoinedBefore(ValuesOf(full), 0)
    BY <1>1, <2>1, JoinedUpTo
  <2> QED
    BY <2>2, JoinedNone
<1>9. Joined(<<>>, value) = value
  BY DEF Joined
<1> DEFINE f == [n \in DOMAIN e \cup {full} |->
                    IF n # full THEN e[n]
                    ELSE IF full \in DOMAIN e THEN Joined(e[full], value)
                    ELSE value]
<1>10. ASSUME NEW n \in NamesAbove(q) PROVE f[n] = JoinedBefore(ValuesOf(n), q)
  <2>1. n \in DOMAIN e \cup {full}
    BY <1>3, <1>4
  <2>2. CASE n # full
    <3>1. f[n] = e[n]
      BY <2>1, <2>2
    <3>2. JoinedBefore(ValuesOf(n), q) = e[n]
      BY <1>6, <2>2
    <3> QED
      BY <3>1, <3>2
  <2>3. CASE n = full /\ full \in DOMAIN e
    BY <1>4, <1>7, <2>1, <2>3
  <2>4. CASE n = full /\ full \notin DOMAIN e
    BY <1>4, <1>7, <1>8, <1>9, <2>1, <2>4
  <2> QED
    BY <2>2, <2>3, <2>4
<1>11. DOMAIN e \cup {full} = NamesAbove(q)
  BY <1>3, <1>4
<1>12. f = [n \in NamesAbove(q) |-> f[n]]
  BY <1>11
<1> HIDE DEF f
<1>13. f = Gathered(q)
  BY <1>10, <1>12 DEF Gathered
<1> QED
  BY <1>13 DEF f, Defined, e, full, value

\* At the end, all of the document was gathered.
LEMMA GatheredAll ==
    ASSUME iniText \in Seq(STRING)
    PROVE  /\ Gathered(Len(iniText)) = Meaning
           /\ AmissAbove(Len(iniText)) <=> \E p \in Said : Amiss(p)
           /\ Gathered(0) = <<>>
<1> DEFINE l == Len(iniText)
<1>1. l \in Nat /\ \A r \in Said : r \in Nat /\ r < l
  BY SaidFacts
<1> HIDE DEF l
<1>2. {r \in Defining : r < l} = Defining
  BY <1>1, DefiningSaid
<1>3. NamesAbove(l) = {NameOf(p) : p \in Defining}
  BY <1>2 DEF NamesAbove
<1>4. ASSUME NEW n PROVE JoinedBefore(ValuesOf(n), l + 1) = JoinedBefore(ValuesOf(n), l)
  <2>1. ASSUME NEW k \in Defining, k \in Nat, l <= k, k < l + 1 PROVE FALSE
    BY <1>1, <2>1, DefiningSaid
  <2>2. l + 1 \in Nat /\ l <= l + 1
    BY <1>1
  <2> QED
    BY <1>1, <2>1, <2>2, JoinedUpTo
<1>5. Gathered(l) = Meaning
  BY <1>3, <1>4 DEF Gathered, Meaning, l
<1>6. AmissAbove(l) <=> \E p \in Said : Amiss(p)
  BY <1>1 DEF AmissAbove
<1>7. NamesAbove(0) = {}
  <2>1. \A r \in Defining : ~(r < 0)
    BY <1>1, DefiningSaid
  <2> QED
    BY <2>1 DEF NamesAbove
<1>8. Gathered(0) = <<>>
  BY <1>7 DEF Gathered
<1> QED
  BY <1>5, <1>6, <1>8 DEF l

-----------------------------------------------------------------------------
(* The parser and the document *)

NameKept(p, name) ==
    /\ NoneToContinue(p) => name = <<>>
    /\ PairAbove(p) => name = PairName(Bare(LastAbove(p)))

\* What the parser holds is what the lines above say.
ReadSoFar ==
    \A p : p = At =>
        /\ left # <<>> => p \in Lines
        /\ section = SectionOf(p)
        /\ NameKept(p, prevName)
        /\ iniError <=> AmissAbove(p)
        /\ ~iniError => entries = Gathered(p)

IniInv ==
    /\ LeftInv
    /\ section \in Seq(STRING) /\ prevName \in Seq(STRING) /\ iniError \in BOOLEAN
    /\ Fits /\ WellLaid /\ iniEnd = "reading" => ReadSoFar
    /\ SaysWhatItMeans

LEMMA SameIni ==
    ASSUME iniText' = iniText
    PROVE  /\ Lines' = Lines /\ Said' = Said /\ Defining' = Defining /\ Meaning' = Meaning
           /\ Fits' <=> Fits
           /\ WellLaid' <=> WellLaid
           /\ \A p : /\ SectionOf(p)' = SectionOf(p) /\ NameOf(p)' = NameOf(p)
                     /\ Gathered(p)' = Gathered(p)
                     /\ Amiss(p)' <=> Amiss(p)
                     /\ AmissAbove(p)' <=> AmissAbove(p)
                     /\ NoneToContinue(p)' <=> NoneToContinue(p)
                     /\ PairAbove(p)' <=> PairAbove(p)
                     /\ Bare(p)' = Bare(p) /\ LastAbove(p)' = LastAbove(p)
<1>1. Lines' = Lines /\ \A p : TextOf(p)' = TextOf(p)
  BY DEF Lines, TextOf
<1>2. \A p : Bare(p)' = Bare(p)
  BY <1>1 DEF Bare
<1>3. Said' = Said
  BY <1>1, <1>2 DEF Said
<1>4. \A p : Above(p)' = Above(p)
  BY <1>1, <1>3 DEF Above
<1>5. \A p : SectionsAbove(p)' = SectionsAbove(p)
  BY <1>2, <1>4 DEF SectionsAbove
<1>6. \A p : SectionOf(p)' = SectionOf(p) /\ LastAbove(p)' = LastAbove(p)
  <2> TAKE p
  <2>1. SectionsAbove(p)' = SectionsAbove(p) /\ Above(p)' = Above(p)
    BY <1>4, <1>5
  <2>2. Max(SectionsAbove(p))' = Max(SectionsAbove(p)) /\ Max(Above(p))' = Max(Above(p))
    BY <2>1 DEF Max
  <2>3. LastAbove(p)' = LastAbove(p)
    BY <2>2 DEF LastAbove
  <2>4. SectionOf(p)' = SectionOf(p)
    BY <1>2, <2>1, <2>2 DEF SectionOf
  <2> QED
    BY <2>3, <2>4
<1>7. \A p : Continued(p)' <=> Continued(p)
  BY <1>1, <1>2, <1>4, <1>6 DEF Continued, LastAbove
<1>8. \A p : Amiss(p)' <=> Amiss(p)
  BY <1>2, <1>7 DEF Amiss
<1>9. Defining' = Defining
  BY <1>2, <1>3, <1>7 DEF Defining
<1>10. \A p : NameOf(p)' = NameOf(p) /\ ValueOf(p)' = ValueOf(p)
  BY <1>2, <1>6, <1>7 DEF NameOf, ValueOf, LastAbove
<1>11. \A n : ValuesOf(n)' = ValuesOf(n)
  BY <1>9, <1>10 DEF ValuesOf
<1>12. Meaning' = Meaning
  BY <1>9, <1>10, <1>11 DEF Meaning
<1>13. \A p : NamesAbove(p)' = NamesAbove(p)
  BY <1>9, <1>10 DEF NamesAbove
<1>14. \A p : Gathered(p)' = Gathered(p)
  BY <1>11, <1>13 DEF Gathered
<1>15. Fits' <=> Fits
  BY <1>1, <1>2, <1>3, <1>7 DEF Fits
<1>16. WellLaid' <=> WellLaid
  BY <1>1, <1>2, <1>3, <1>4, <1>6, <1>7 DEF WellLaid, LastAbove
<1>17. \A p : AmissAbove(p)' <=> AmissAbove(p)
  BY <1>3, <1>8 DEF AmissAbove
<1>18. \A p : Opens(p)' <=> Opens(p)
  BY <1>1, <1>2, <1>3 DEF Opens
<1>19. \A p : (NoneToContinue(p)' <=> NoneToContinue(p)) /\ (PairAbove(p)' <=> PairAbove(p))
  BY <1>2, <1>3, <1>4, <1>6, <1>18 DEF NoneToContinue, PairAbove
<1> QED
  BY <1>1, <1>2, <1>3, <1>6, <1>8, <1>9, <1>10, <1>12, <1>14, <1>15, <1>16, <1>17, <1>19

LEMMA NameNext ==
    ASSUME iniText \in Seq(STRING), NEW p, NEW q, Reaches(p, q), NEW old, NameKept(p, old),
           NEW new,
           p \notin Said \/ Continued(p) => new = old,
           Opens(p) => new = <<>>,
           p \in Said /\ ~Indented(TextOf(p)) /\ ~IsSection(Bare(p)) /\ IsPair(Bare(p)) =>
               new = PairName(Bare(p))
    PROVE  NameKept(q, new)
<1>1. p \in Nat /\ q \in Nat /\ p < q /\ \A r \in Said : r < q <=> r < p \/ r = p
  BY DEF Reaches
<1>2. CASE p \notin Said
  <2>1. Above(q) = Above(p) /\ LastAbove(q) = LastAbove(p)
    BY <1>2, AboveNext DEF LastAbove
  <2>2. NoneToContinue(q) => NoneToContinue(p)
    BY <1>1, <2>1 DEF NoneToContinue
  <2>3. PairAbove(q) => PairAbove(p)
    BY <2>1 DEF PairAbove
  <2> QED
    BY <1>2, <2>1, <2>2, <2>3 DEF NameKept
<1>3. CASE p \in Said /\ Indented(TextOf(p))
  <2>1. Above(q) = Above(p) /\ LastAbove(q) = LastAbove(p)
    BY <1>3, AboveNext DEF LastAbove
  <2>2. ~NoneToContinue(q)
    <3> SUFFICES ASSUME NoneToContinue(q) PROVE FALSE
      OBVIOUS
    <3>1. Above(p) # {} /\ p <= LastAbove(p)
      BY <1>1, <1>3, <2>1 DEF NoneToContinue
    <3>2. LastAbove(p) \in Nat /\ LastAbove(p) < p
      BY <1>1, <3>1, AboveFacts
    <3> QED
      BY <1>1, <3>1, <3>2
  <2>3. PairAbove(q) => PairAbove(p) /\ Continued(p)
    BY <1>3, <2>1 DEF PairAbove, Continued, LastAbove
  <2> QED
    BY <2>1, <2>2, <2>3 DEF NameKept
<1>4. CASE p \in Said /\ ~Indented(TextOf(p))
  <2>1. p \in Above(q) /\ LastAbove(q) = p
    BY <1>4, AboveNext
  <2>2. NoneToContinue(q) => Opens(p)
    BY <2>1 DEF NoneToContinue
  <2>3. PairAbove(q) => ~IsSection(Bare(p)) /\ IsPair(Bare(p))
    BY <2>1 DEF PairAbove
  <2> QED
    BY <1>4, <2>1, <2>2, <2>3 DEF NameKept
<1> QED
  BY <1>2, <1>3, <1>4

\* A line that says something, at which the parser is.
AtLine(p) ==
    /\ p = At /\ p \in Lines /\ Line = TextOf(p) /\ Start = Bare(p)
    /\ section = SectionOf(p)
    /\ NameKept(p, prevName)
    /\ iniError <=> AmissAbove(p)
    /\ ~iniError => entries = Gathered(p)

\* The code continues the lines that do, and others only once the document is
\* known to be malformed.
LEMMA Agrees ==
    ASSUME IniInv, WellLaid, NEW p, AtLine(p), p \in Said
    PROVE  /\ Continued(p) => Continues /\ prevName = PairName(Bare(LastAbove(p)))
           /\ Continues /\ ~Continued(p) => iniError
           /\ Indented(TextOf(p)) /\ ~Continued(p) => ~IsSection(Bare(p))
<1>1. p \in Nat
  BY SaidFacts DEF IniInv, LeftInv
<1>2. ASSUME Continued(p)
      PROVE  Continues /\ prevName = PairName(Bare(LastAbove(p)))
  <2>1. Indented(TextOf(p)) /\ Above(p) # {} /\ ~IsSection(Bare(LastAbove(p)))
    BY <1>2 DEF Continued, LastAbove
  <2>2. IsPair(Bare(LastAbove(p))) /\ PairName(Bare(LastAbove(p))) # <<>>
    BY <1>2, <2>1 DEF WellLaid, LastAbove
  <2>3. prevName = PairName(Bare(LastAbove(p)))
    BY <2>1, <2>2 DEF AtLine, NameKept, PairAbove
  <2>4. ~IsComment(Start)
    BY DEF AtLine, Said
  <2> QED
    BY <2>1, <2>2, <2>3, <2>4 DEF Continues, AtLine
<1>3. ASSUME Indented(TextOf(p)), ~Continued(p)
      PROVE  /\ ~IsSection(Bare(p))
             /\ \A r \in Said : r < p => Above(p) # {} /\ r <= LastAbove(p)
  BY <1>3 DEF WellLaid, LastAbove
<1>4. ASSUME Continues, ~Continued(p) PROVE iniError
  <2>1. Indented(TextOf(p)) /\ prevName # <<>>
    BY <1>4 DEF Continues, AtLine
  <2>2. ~NoneToContinue(p)
    BY <2>1 DEF AtLine, NameKept
  <2>3. Above(p) # {} /\ ~Opens(LastAbove(p))
    BY <1>3, <1>4, <2>1, <2>2 DEF NoneToContinue
  <2> DEFINE a == LastAbove(p)
  <2>4. a \in Above(p) /\ a < p /\ a \in Said
    BY <1>1, <2>3, AboveFacts DEF IniInv, LeftInv
  <2>5. IsSection(Bare(a))
    BY <1>4, <2>1, <2>3 DEF Continued, LastAbove
  <2>6. ~Indented(TextOf(a))
    BY <2>4 DEF Above
  <2>7. ~SectionClosed(Bare(a)) /\ ~Continued(a)
    BY <2>3, <2>4, <2>5, <2>6 DEF Opens, Continued
  <2>8. Amiss(a)
    BY <2>5, <2>7 DEF Amiss
  <2> QED
    BY <2>4, <2>8 DEF AmissAbove, AtLine
<1> QED
  BY <1>2, <1>3, <1>4

\* After a line, the parser holds what the lines say with that one.
LEMMA Onward ==
    ASSUME IniInv, Fits, Read, NEW p, AtLine(p), iniError' \in BOOLEAN,
           section' = IF Opens(p) THEN SectionName(Bare(p)) ELSE section,
           p \notin Said \/ Continued(p) => prevName' = prevName,
           Opens(p) => prevName' = <<>>,
           p \in Said /\ ~Indented(TextOf(p)) /\ ~IsSection(Bare(p)) /\ IsPair(Bare(p)) =>
               prevName' = PairName(Bare(p)),
           iniError' <=> iniError \/ (p \in Said /\ Amiss(p)),
           ~iniError' =>
               entries' = IF p \in Defining THEN Defined(entries, NameOf(p), ValueOf(p))
                          ELSE entries
    PROVE  ReadSoFar'
<1> SUFFICES ASSUME NEW q, q = At'
             PROVE  /\ left' # <<>> => q \in Lines'
                    /\ section' = SectionOf(q)'
                    /\ NoneToContinue(q)' => prevName' = <<>>
                    /\ PairAbove(q)' => prevName' = PairName(Bare(LastAbove(q)))'
                    /\ iniError' <=> AmissAbove(q)'
                    /\ ~iniError' => entries' = Gathered(q)'
  BY DEF ReadSoFar, NameKept
<1>1. iniText \in Seq(STRING) /\ iniText' = iniText
  BY DEF IniInv, LeftInv, Read
<1>2. Reaches(p, q) /\ (left' # <<>> => q \in Lines)
  BY ReachesNext DEF IniInv, AtLine
<1>3. section' = SectionOf(q)
  BY <1>1, <1>2, SectionNext DEF AtLine
<1>4. NameKept(q, prevName')
  BY <1>1, <1>2, NameNext DEF AtLine
<1>5. iniError' <=> AmissAbove(q)
  BY <1>2, AmissNext DEF AtLine
<1>6. ASSUME ~iniError' PROVE entries' = Gathered(q)
  <2>1. entries = Gathered(p)
    BY <1>6 DEF AtLine
  <2>2. CASE p \in Defining
    <3>1. Gathered(q) = Defined(entries, NameOf(p), ValueOf(p))
      BY <1>1, <1>2, <2>1, <2>2, GatheredOne
    <3> QED
      BY <1>6, <2>2, <3>1
  <2>3. CASE p \notin Defining
    BY <1>1, <1>2, <1>6, <2>1, <2>3, GatheredSkip
  <2> QED
    BY <2>2, <2>3
<1> QED
  BY <1>1, <1>2, <1>3, <1>4, <1>5, <1>6, SameIni DEF NameKept

LEMMA SkipStep ==
    ASSUME IniInv, Fits, WellLaid, NEW p, AtLine(p), SkipLine
    PROVE  ReadSoFar'
<1>1. p \notin Said
  BY DEF SkipLine, AtLine, Said
<1>2. p \notin Defining /\ ~Opens(p)
  BY <1>1 DEF Defining, Opens
<1>3. Read /\ UNCHANGED <<section, prevName, entries, iniError>>
  BY DEF SkipLine
<1> QED
  BY <1>1, <1>2, <1>3, Onward DEF IniInv

LEMMA SaysSomething ==
    ASSUME NEW p, AtLine(p), ~IsComment(Start)
    PROVE  p \in Said
BY DEF AtLine, Said

LEMMA ContinueStep ==
    ASSUME IniInv, Fits, WellLaid, NEW p, AtLine(p), ContinueValue
    PROVE  ReadSoFar'
<1>1. /\ Read /\ Continues /\ section' = section /\ prevName' = prevName
      /\ iniError' = iniError
      /\ Define(prevName, WithoutComment(Start))
  BY DEF ContinueValue
<1>2. p \in Said /\ Indented(TextOf(p)) /\ prevName # <<>>
  BY <1>1, SaysSomething DEF Continues, AtLine
<1>3. ~Opens(p)
  BY <1>2 DEF Opens
<1>4. iniError' <=> iniError \/ (p \in Said /\ Amiss(p))
  BY <1>1, <1>2, Agrees DEF Amiss
<1>5. entries' = Defined(entries, FullName(section, prevName), WithoutComment(Start))
  <2>1. FullName(section, prevName) # <<>>
    BY <1>2, FullNameIs DEF IniInv
  <2> QED
    BY <1>1, <2>1 DEF Define, Defined
<1>6. ASSUME ~iniError'
      PROVE  entries' = IF p \in Defining THEN Defined(entries, NameOf(p), ValueOf(p))
                        ELSE entries
  <2>1. Continued(p) /\ prevName = PairName(Bare(LastAbove(p)))
    BY <1>1, <1>2, <1>6, Agrees
  <2>2. p \in Defining
    BY <1>2, <2>1 DEF Defining
  <2>3. NameOf(p) = FullName(section, prevName) /\ ValueOf(p) = WithoutComment(Start)
    BY <2>1 DEF NameOf, ValueOf, LastAbove, AtLine
  <2> QED
    BY <1>5, <2>2, <2>3
<1> QED
  BY <1>1, <1>2, <1>3, <1>4, <1>6, Onward DEF IniInv

LEMMA SectionStep ==
    ASSUME IniInv, Fits, WellLaid, NEW p, AtLine(p), OpenSection
    PROVE  ReadSoFar'
<1>1. /\ Read /\ ~Continues /\ IsSection(Bare(p)) /\ SectionClosed(Bare(p))
      /\ section' = Truncated(SectionName(Bare(p))) /\ prevName' = <<>>
      /\ entries' = entries /\ iniError' = iniError
  BY DEF OpenSection, AtLine
<1>2. p \in Said
  BY SaysSomething DEF OpenSection
<1>3. ~Continued(p) /\ ~Indented(TextOf(p))
  BY <1>1, <1>2, Agrees
<1>4. Opens(p)
  BY <1>1, <1>2, <1>3 DEF Opens
<1>5. section' = SectionName(Bare(p))
  <2>1. Len(SectionName(Bare(p))) < MaxName
    BY <1>1, <1>2, <1>3 DEF Fits, AtLine
  <2>2. p \in 0 .. Len(iniText)
    BY <1>2, SaidFacts DEF IniInv, LeftInv
  <2>3. SectionName(Bare(p)) \in Seq(STRING)
    BY <1>1, <2>2, BareType, SectionNameType DEF IniInv, LeftInv
  <2> QED
    BY <1>1, <2>1, <2>3, TruncatedIs
<1>6. ~Amiss(p) /\ p \notin Defining
  BY <1>1, <1>3 DEF Amiss, Defining
<1> QED
  BY <1>1, <1>2, <1>3, <1>4, <1>5, <1>6, Onward DEF IniInv

LEMMA PairStep ==
    ASSUME IniInv, Fits, WellLaid, NEW p, AtLine(p), DefinePair
    PROVE  /\ iniEnd' # "aborted" => ReadSoFar'
           /\ iniEnd' = "aborted" /\ iniEnd = "reading" =>
                 p \in Defining /\ ~Amiss(p) /\ NameOf(p) = <<>>
           /\ iniEnd' \in {iniEnd, "aborted"}
<1>1. /\ Read /\ ~Continues /\ ~IsSection(Bare(p)) /\ IsPair(Bare(p))
      /\ prevName' = Truncated(PairName(Bare(p)))
      /\ Define(PairName(Bare(p)), PairValue(Bare(p)))
      /\ section' = section /\ iniError' = iniError
  BY DEF DefinePair, AtLine
<1>2. p \in Said
  BY SaysSomething DEF DefinePair
<1>3. ~Continued(p)
  BY <1>1, <1>2, Agrees
<1>4. ~Opens(p) /\ ~Amiss(p) /\ p \in Defining
  BY <1>1, <1>2, <1>3 DEF Opens, Amiss, Defining
<1>5. NameOf(p) = FullName(section, PairName(Bare(p))) /\ ValueOf(p) = PairValue(Bare(p))
  BY <1>3 DEF NameOf, ValueOf, AtLine
<1>6. CASE NameOf(p) = <<>>
  <2>1. iniEnd' = "aborted"
    BY <1>1, <1>5, <1>6 DEF Define
  <2> QED
    BY <1>4, <1>6, <2>1
<1>7. CASE NameOf(p) # <<>>
  <2>1. iniEnd' = iniEnd /\ entries' = Defined(entries, NameOf(p), ValueOf(p))
    BY <1>1, <1>5, <1>7 DEF Define, Defined
  <2>2. prevName' = PairName(Bare(p))
    <3>1. Len(PairName(Bare(p))) < MaxName
      BY <1>1, <1>2, <1>3 DEF Fits, AtLine
    <3>2. p \in 0 .. Len(iniText)
      BY <1>2, SaidFacts DEF IniInv, LeftInv
    <3>3. PairName(Bare(p)) \in Seq(STRING)
      BY <3>2, BareType, PairNameType DEF IniInv, LeftInv
    <3> QED
      BY <1>1, <3>1, <3>3, TruncatedIs
  <2>3. ReadSoFar'
    BY <1>1, <1>2, <1>3, <1>4, <2>1, <2>2, Onward DEF IniInv
  <2> QED
    BY <2>1, <2>3, <1>7, <1>4
<1> QED
  BY <1>6, <1>7

LEMMA MalformedStep ==
    ASSUME IniInv, Fits, WellLaid, NEW p, AtLine(p), Malformed
    PROVE  ReadSoFar'
<1>1. /\ Read /\ ~Continues
      /\ IF IsSection(Bare(p)) THEN ~SectionClosed(Bare(p)) ELSE ~IsPair(Bare(p))
      /\ iniError' = TRUE /\ section' = section /\ prevName' = prevName
  BY DEF Malformed, AtLine
<1>2. p \in Said
  BY SaysSomething DEF Malformed
<1>3. ~Continued(p)
  BY <1>1, <1>2, Agrees
<1>4. ~Opens(p) /\ Amiss(p)
  BY <1>1, <1>3 DEF Opens, Amiss
<1>5. ~(~IsSection(Bare(p)) /\ IsPair(Bare(p)))
  BY <1>1
<1> QED
  BY <1>1, <1>2, <1>3, <1>4, <1>5, Onward

LEMMA InitIni == IniInit => IniInv
<1> SUFFICES ASSUME NEW text \in IniDocuments, IniStart(text) PROVE IniInv
  BY DEF IniInit
<1>1. /\ iniText = text /\ left = text /\ section = <<>> /\ prevName = <<>>
      /\ entries = <<>> /\ iniError = FALSE /\ iniEnd = "reading" /\ text \in Seq(STRING)
  BY IniAssumption DEF IniStart
<1>2. Len(text) \in Nat
  BY <1>1
<1>3. LeftInv
  BY <1>1, <1>2 DEF LeftInv
<1>4. At = 0
  BY <1>1, <1>2 DEF At
<1>5. 0 \in Lines
  BY DEF Lines
<1>6. Above(0) = {} /\ \A r \in Said : ~(r < 0)
  <2>1. \A r \in Said : r \in Nat
    BY <1>1, SaidFacts
  <2> QED
    BY <2>1 DEF Above
<1>7. SectionOf(0) = <<>>
  BY <1>6 DEF SectionOf, SectionsAbove
<1>8. NameKept(0, <<>>)
  BY <1>6 DEF NameKept, PairAbove
<1>9. ~AmissAbove(0) /\ Gathered(0) = <<>>
  BY <1>1, <1>6, GatheredAll DEF AmissAbove
<1>10. ReadSoFar
  BY <1>1, <1>4, <1>5, <1>7, <1>8, <1>9 DEF ReadSoFar
<1>11. SaysWhatItMeans
  BY <1>1 DEF SaysWhatItMeans
<1>12. <<>> \in Seq(STRING)
  BY EmptySeq
<1> QED
  BY <1>1, <1>3, <1>10, <1>11, <1>12 DEF IniInv

\* What Line and Start are made of.
LEMMA StartType == ASSUME IniInv PROVE Start \in Seq(STRING)
<1> DEFINE n == LineLength(left)
<1>1. left \in Seq(STRING) /\ Len(left) \in Nat
  BY DEF IniInv, LeftInv
<1>2. n \in 0 .. Room /\ n <= Len(left)
  BY <1>1, LineFacts
<1> HIDE DEF n
<1>3. 1 \in 1 .. Len(left) + 1 /\ n \in 1 - 1 .. Len(left)
  BY <1>1, <1>2, IniAssumption DEF Room
<1>4. SubSeq(left, 1, n) \in Seq(STRING)
  BY <1>1, <1>3, Piece
<1> QED
  BY <1>4, TrimType DEF Start, Line, n

LEMMA NamesTyped ==
    ASSUME IniInv, [IniNext]_iniVars
    PROVE  section' \in Seq(STRING) /\ prevName' \in Seq(STRING) /\ iniError' \in BOOLEAN
<1>1. section \in Seq(STRING) /\ prevName \in Seq(STRING) /\ iniError \in BOOLEAN
      /\ Start \in Seq(STRING) /\ <<>> \in Seq(STRING)
  BY StartType, EmptySeq DEF IniInv
<1>2. CASE OpenSection
  <2>1. SectionName(Start) \in Seq(STRING)
    BY <1>1, <1>2, SectionNameType DEF OpenSection
  <2>2. Truncated(SectionName(Start)) \in Seq(STRING)
    BY <2>1, TruncatedIs
  <2> QED
    BY <1>1, <1>2, <2>2 DEF OpenSection
<1>3. CASE DefinePair
  <2>1. Truncated(PairName(Start)) \in Seq(STRING)
    BY <1>1, PairNameType, TruncatedIs
  <2> QED
    BY <1>1, <1>3, <2>1 DEF DefinePair
<1>4. CASE SkipLine \/ ContinueValue \/ Malformed \/ EndIni \/ UNCHANGED iniVars
  BY <1>1, <1>4 DEF SkipLine, ContinueValue, Malformed, EndIni, iniVars
<1> QED
  BY <1>2, <1>3, <1>4 DEF IniNext

LEMMA LineRead ==
    ASSUME IniInv, Fits, WellLaid, Read
    PROVE  \E p : AtLine(p)
<1>1. ReadSoFar /\ left # <<>> /\ LeftInv
  BY DEF IniInv, Read
<1> DEFINE p == At
<1>2. p \in Lines
  BY <1>1 DEF ReadSoFar
<1>3. Line = TextOf(p) /\ Start = Bare(p)
  BY <1>1, <1>2, ReadsLine
<1>4. AtLine(p)
  BY <1>1, <1>2, <1>3 DEF ReadSoFar, AtLine
<1> QED
  BY <1>4

\* What remains to be shown of a step that reads.
LEMMA ReadStep ==
    ASSUME IniInv, [IniNext]_iniVars, Read
    PROVE  /\ Fits' /\ WellLaid' /\ iniEnd' = "reading" => ReadSoFar'
           /\ SaysWhatItMeans'
<1>1. iniText' = iniText /\ iniEnd = "reading" /\ left # <<>>
  BY DEF Read
<1>2. (Fits' <=> Fits) /\ (WellLaid' <=> WellLaid)
  BY <1>1, SameIni
<1>3. CASE ~(Fits /\ WellLaid)
  BY <1>2, <1>3 DEF SaysWhatItMeans
<1>4. CASE Fits /\ WellLaid
  <2>1. PICK p : AtLine(p)
    BY <1>4, LineRead
  <2>2. CASE DefinePair
    <3>1. /\ iniEnd' # "aborted" => ReadSoFar'
          /\ iniEnd' = "aborted" => p \in Defining /\ ~Amiss(p) /\ NameOf(p) = <<>>
          /\ iniEnd' \in {"reading", "aborted"}
      BY <1>1, <1>4, <2>1, <2>2, PairStep
    <3>2. iniEnd' = "aborted" => p \in Defining' /\ ~Amiss(p)' /\ NameOf(p)' = <<>>
      BY <1>1, <3>1, SameIni
    <3> QED
      BY <3>1, <3>2 DEF SaysWhatItMeans
  <2>3. CASE SkipLine \/ OpenSection \/ Malformed
    <3>1. ReadSoFar'
      BY <1>4, <2>1, <2>3, SkipStep, SectionStep, MalformedStep
    <3>2. iniEnd' = "reading"
      BY <1>1, <2>3 DEF SkipLine, OpenSection, Malformed
    <3> QED
      BY <3>1, <3>2 DEF SaysWhatItMeans
  <2>4. CASE ContinueValue
    <3>1. ReadSoFar'
      BY <1>4, <2>1, <2>4, ContinueStep
    <3>2. iniEnd' = "reading"
      <4>1. prevName # <<>> /\ Define(prevName, WithoutComment(Start))
        BY <2>4 DEF ContinueValue, Continues
      <4>2. FullName(section, prevName) # <<>>
        BY <4>1, FullNameIs DEF IniInv
      <4> QED
        BY <1>1, <4>1, <4>2 DEF Define
    <3> QED
      BY <3>1, <3>2 DEF SaysWhatItMeans
  <2>5. ~EndIni /\ ~UNCHANGED iniVars
    <3>1. ~EndIni
      BY <1>1 DEF EndIni
    <3>2. left' # left
      <4> SUFFICES ASSUME left' = left PROVE FALSE
        OBVIOUS
      <4>1. Len(left') = Len(left) - Consumed(left)
        BY <1>1, LeftStep DEF IniInv
      <4>2. Consumed(left) \in Nat /\ Consumed(left) >= 1 /\ Len(left) \in Nat
        BY ConsumedFacts DEF IniInv, LeftInv
      <4> QED
        BY <4>1, <4>2
    <3> QED
      BY <3>1, <3>2 DEF iniVars
  <2> QED
    BY <2>2, <2>3, <2>4, <2>5 DEF IniNext
<1> QED
  BY <1>3, <1>4

LEMMA EndMeans == ASSUME IniInv, EndIni PROVE SaysWhatItMeans'
<1>1. /\ iniText' = iniText /\ iniEnd = "reading" /\ left = <<>>
      /\ iniEnd' = IF iniError THEN "rejected" ELSE "parsed"
      /\ entries' = IF iniError THEN <<>> ELSE entries
  BY DEF EndIni
<1>2. (Fits' <=> Fits) /\ (WellLaid' <=> WellLaid)
  BY <1>1, SameIni
<1>3. CASE ~(Fits /\ WellLaid)
  BY <1>2, <1>3 DEF SaysWhatItMeans
<1>4. CASE Fits /\ WellLaid
  <2>1. iniText \in Seq(STRING) /\ Len(iniText) \in Nat /\ ReadSoFar
    BY <1>1, <1>4 DEF IniInv, LeftInv
  <2> DEFINE l == Len(iniText)
  <2>2. At = l
    BY <1>1, <2>1 DEF At
  <2>3. (iniError <=> AmissAbove(l)) /\ (~iniError => entries = Gathered(l))
    BY <2>1, <2>2 DEF ReadSoFar
  <2>4. /\ iniError <=> \E p \in Said : Amiss(p)
        /\ ~iniError => entries = Meaning
    BY <2>1, <2>3, GatheredAll
  <2>5. CASE iniError
    <3>1. \E p \in Said' : Amiss(p)'
      BY <1>1, <2>4, <2>5, SameIni
    <3>2. iniEnd' = "rejected"
      BY <1>1, <2>5
    <3> QED
      BY <3>1, <3>2 DEF SaysWhatItMeans
  <2>6. CASE ~iniError
    <3>1. (\A p \in Said' : ~Amiss(p)') /\ entries' = Meaning'
      BY <1>1, <2>4, <2>6, SameIni
    <3>2. iniEnd' = "parsed"
      BY <1>1, <2>6
    <3> QED
      BY <3>1, <3>2 DEF SaysWhatItMeans
  <2> QED
    BY <2>5, <2>6
<1> QED
  BY <1>3, <1>4

LEMMA NextIni == IniInv /\ [IniNext]_iniVars => IniInv'
<1> SUFFICES ASSUME IniInv, [IniNext]_iniVars PROVE IniInv'
  OBVIOUS
<1>1. section' \in Seq(STRING) /\ prevName' \in Seq(STRING) /\ iniError' \in BOOLEAN
  BY NamesTyped
<1>2. LeftInv'
  BY ReadOrNot, LeftStep DEF IniInv, LeftInv
<1>3. CASE Read
  BY <1>1, <1>2, <1>3, ReadStep DEF IniInv
<1>4. CASE EndIni
  <2>1. iniEnd' # "reading"
    BY <1>4 DEF EndIni
  <2> QED
    BY <1>1, <1>2, <1>4, <2>1, EndMeans DEF IniInv
<1>5. CASE UNCHANGED iniVars
  <2>1. /\ iniText' = iniText /\ left' = left /\ section' = section /\ prevName' = prevName
        /\ entries' = entries /\ iniError' = iniError /\ iniEnd' = iniEnd
    BY <1>5 DEF iniVars
  <2>2. SaysWhatItMeans'
    BY <2>1, SameIni DEF SaysWhatItMeans, IniInv
  <2>3. Fits' /\ WellLaid' /\ iniEnd' = "reading" => ReadSoFar'
    <3> SUFFICES ASSUME Fits', WellLaid', iniEnd' = "reading" PROVE ReadSoFar'
      OBVIOUS
    <3>1. ReadSoFar /\ At' = At
      BY <2>1, SameIni DEF IniInv, At
    <3> QED
      BY <2>1, <3>1, SameIni DEF ReadSoFar, NameKept
  <2> QED
    BY <1>1, <1>2, <2>2, <2>3 DEF IniInv
<1>6. Read \/ EndIni \/ UNCHANGED iniVars
  BY DEF IniNext, SkipLine, ContinueValue, OpenSection, DefinePair, Malformed
<1> QED
  BY <1>3, <1>4, <1>5, <1>6

\* For any document whose lines and names fit their buffers and whose indented
\* lines have something to continue, the variables are those the document says,
\* and it is rejected, or the process stopped, for the reasons the document gives.
THEOREM VariablesAsSaid == IniSpec => []SaysWhatItMeans
<1>1. IniInv => SaysWhatItMeans
  BY DEF IniInv
<1> QED
  BY <1>1, InitIni, NextIni, PTL DEF IniSpec

-----------------------------------------------------------------------------
(* The buffer of rules_parse().  At every moment the buffer, with what is to *)
(* be put back put back in the order of the code, is the document.  Cutting  *)
(* a string keeps that whatever the position of the cut, since the           *)
(* characters saved last are put back first, and the NUL of the line last.   *)

BufferInv ==
    /\ rulesText \in Seq(STRING)
    /\ DOMAIN buf = DOMAIN rulesText
    /\ Restored = rulesText
    /\ rulesEnd \in {"lines", "line", "parsed", "rejected"} =>
           regexpCut = NoCut /\ valueCut = NoCut
    /\ rulesEnd \in {"lines", "parsed", "rejected"} => lineCut = NoCut /\ buf = rulesText

\* Nothing to put back leaves a document as it is: no position is 0.
LEMMA NothingToRestore ==
    ASSUME NEW b, b \in Seq(STRING)
    PROVE  PutBack(PutBack(PutBack(b, NoCut), NoCut), NoCut) = b
<1>1. \A i \in DOMAIN b : i # 0
  OBVIOUS
<1>2. b = [i \in DOMAIN b |-> b[i]]
  OBVIOUS
<1>3. PutBack(b, NoCut) = b
  BY <1>1, <1>2 DEF PutBack, NoCut
<1> QED BY <1>3

\* While a buffer is put back, so is the buffer the parser goes on with.
LEMMA LeavingLine ==
    ASSUME BufferInv,
           buf' = Restored, rulesText' = rulesText,
           lineCut' = NoCut, regexpCut' = NoCut, valueCut' = NoCut
    PROVE  BufferInv'
<1>1. buf' = rulesText
  BY DEF BufferInv
<1>2. Restored' = rulesText
  BY <1>1, NothingToRestore DEF Restored, BufferInv
<1> QED BY <1>1, <1>2 DEF BufferInv

LEMMA InitBuffer == RulesInit => BufferInv
<1> SUFFICES ASSUME NEW text \in RulesDocuments, RulesStart(text) PROVE BufferInv
  BY DEF RulesInit
<1>1. text \in Seq(STRING)
  BY RulesAssumption
<1>2. Restored = text
  BY <1>1, NothingToRestore DEF RulesStart, Restored
<1> QED BY <1>1, <1>2 DEF RulesStart, BufferInv

LEMMA NextBuffer == BufferInv /\ [RulesNext]_rulesVars => BufferInv'
<1> SUFFICES ASSUME BufferInv, [RulesNext]_rulesVars PROVE BufferInv'
  OBVIOUS
<1>1. CASE IsolateLine
  <2> DEFINE L == LineEnd
  <2>1. /\ rulesEnd = "lines" /\ buf' = WithNul({L}) /\ lineCut' = Saved(L)
        /\ rulesEnd' = "line" /\ rulesText' = rulesText
        /\ regexpCut' = NoCut /\ valueCut' = NoCut
    BY <1>1 DEF IsolateLine, BufferInv
  <2>2. buf = rulesText /\ rulesText \in Seq(STRING)
    BY <2>1 DEF BufferInv
  <2> HIDE DEF L
  <2>3. DOMAIN buf' = DOMAIN buf /\ \A i \in DOMAIN buf : buf'[i] = IF i = L THEN "NUL" ELSE buf[i]
    BY <2>1 DEF WithNul
  <2>4. \A i \in DOMAIN buf : i # 0
    BY <2>2
  <2>5. Restored' = [i \in DOMAIN buf |-> buf[i]]
    BY <2>1, <2>3, <2>4 DEF Restored, PutBack, Saved, Char, NoCut
  <2>6. Restored' = rulesText
    BY <2>2, <2>5
  <2> QED BY <2>1, <2>2, <2>3, <2>6 DEF BufferInv
<1>2. CASE SkipEmpty
  BY <1>2, LeavingLine DEF SkipEmpty, NextLine
<1>3. CASE NoRule
  BY <1>3, LeavingLine DEF NoRule, Fail
<1>4. CASE CutRule
  <2> DEFINE R == RegexpEnd
             V == ValueEnd
  <2>1. /\ rulesEnd = "line" /\ rulesEnd' = "rule" /\ rulesText' = rulesText
        /\ buf' = WithNul({R, V}) /\ lineCut' = lineCut
        /\ regexpCut' = Saved(R) /\ valueCut' = Saved(V)
    BY <1>4 DEF CutRule
  <2> HIDE DEF R, V
  <2>2. regexpCut = NoCut /\ valueCut = NoCut /\ Restored = rulesText /\ rulesText \in Seq(STRING)
    BY <2>1 DEF BufferInv
  <2>3. /\ DOMAIN buf' = DOMAIN buf
        /\ \A i \in DOMAIN buf : buf'[i] = IF i \in {R, V} THEN "NUL" ELSE buf[i]
    BY <2>1 DEF WithNul
  <2>4. \A i \in DOMAIN buf : i # 0
    BY <2>2 DEF BufferInv
  <2>5. Restored' = [i \in DOMAIN buf |-> IF i = lineCut.at THEN lineCut.char ELSE buf[i]]
    BY <2>1, <2>3 DEF Restored, PutBack, Saved, Char
  <2>6. Restored = [i \in DOMAIN buf |-> IF i = lineCut.at THEN lineCut.char ELSE buf[i]]
    BY <2>2, <2>4 DEF Restored, PutBack, NoCut
  <2>7. DOMAIN buf' = DOMAIN rulesText'
    BY <2>1, <2>3 DEF BufferInv
  <2> QED BY <2>1, <2>2, <2>5, <2>6, <2>7 DEF BufferInv
<1>5. CASE AddRule
  BY <1>5, LeavingLine DEF AddRule, NextLine
<1>6. CASE BadRegexp
  BY <1>6, LeavingLine DEF BadRegexp, Fail
<1>7. CASE EndRules
  BY <1>7 DEF EndRules, cuts, BufferInv, Restored, PutBack
<1>8. CASE UNCHANGED rulesVars
  BY <1>8 DEF rulesVars, cuts, BufferInv, Restored, PutBack
<1> QED BY <1>1, <1>2, <1>3, <1>4, <1>5, <1>6, <1>7, <1>8 DEF RulesNext

\* What rules_parse() wrote over in the buffer is put back between two lines and
\* when it returns, for every document.
THEOREM ContentsRestored == RulesSpec => []ContentsPutBack
<1>1. BufferInv => ContentsPutBack
  BY DEF BufferInv, ContentsPutBack
<1> QED BY <1>1, InitBuffer, NextBuffer, PTL DEF RulesSpec

-----------------------------------------------------------------------------
(* A line of a rules document, and what the code finds in it *)

\* Where the line that begins at a position ends.
EndFrom(f) == FirstOf({i \in f .. Len(rulesText) : rulesText[i] = "NL"}, rulesText)

LEMMA EndFacts ==
    ASSUME rulesText \in Seq(STRING), NEW f \in 1 .. Len(rulesText) + 1
    PROVE  /\ EndFrom(f) \in f .. Len(rulesText) + 1
           /\ EndFrom(f) <= Len(rulesText) => rulesText[EndFrom(f)] = "NL"
           /\ \A i \in f .. EndFrom(f) - 1 : rulesText[i] # "NL"
<1> DEFINE P == {i \in f .. Len(rulesText) : rulesText[i] = "NL"}
           e == EndFrom(f)
<1>1. Len(rulesText) \in Nat /\ P \in SUBSET (1 .. Len(rulesText))
  OBVIOUS
<1>2. e \in 1 .. Len(rulesText) + 1 /\ (e <= Len(rulesText) => e \in P)
      /\ \A k \in P : e <= k
  BY <1>1, FirstOfIs DEF EndFrom
<1> HIDE DEF e
<1>3. e \in f .. Len(rulesText) + 1
  BY <1>1, <1>2
<1>4. e <= Len(rulesText) => rulesText[e] = "NL"
  BY <1>2
<1>5. ASSUME NEW i \in f .. e - 1 PROVE rulesText[i] # "NL"
  <2>1. i \in f .. Len(rulesText) /\ ~(e <= i)
    BY <1>1, <1>3
  <2> QED
    BY <1>2, <2>1
<1> QED
  BY <1>3, <1>4, <1>5 DEF e

LEMMA WrittenIs ==
    ASSUME rulesText \in Seq(STRING), NEW p \in 0 .. Len(rulesText)
    PROVE  Written(p) = Trim(SubSeq(rulesText, p + 1, EndFrom(p + 1) - 1))
<1> DEFINE T == rulesText
           rest == SubSeq(T, p + 1, Len(T))
           e == EndFrom(p + 1)
           P == {i \in DOMAIN rest : rest[i] = "NL"}
<1>0. Len(T) \in Nat /\ p \in Nat /\ p <= Len(T)
  OBVIOUS
<1>1. p + 1 \in 1 .. Len(T) + 1 /\ Len(T) \in (p + 1) - 1 .. Len(T)
      /\ Len(T) - (p + 1) + 1 = Len(T) - p
  BY <1>0
<1>2. /\ rest \in Seq(STRING) /\ Len(rest) = Len(T) - p
      /\ DOMAIN rest = 1 .. Len(T) - p
      /\ \A i \in 1 .. Len(T) - p : rest[i] = T[(p + 1) + i - 1]
  BY <1>1, Piece
<1>3. /\ e \in p + 1 .. Len(T) + 1 /\ (e <= Len(T) => T[e] = "NL")
      /\ \A i \in p + 1 .. e - 1 : T[i] # "NL"
  BY <1>1, EndFacts
<1> HIDE DEF e, rest
<1>4. FirstOf(P, rest) = e - p
  <2>1. P \in SUBSET (1 .. Len(rest)) /\ Len(rest) \in Nat
    BY <1>0, <1>2
  <2>2. e - p \in 1 .. Len(rest) + 1
    BY <1>0, <1>2, <1>3
  <2>3. e - p <= Len(rest) => e - p \in P
    <3> SUFFICES ASSUME e - p <= Len(rest) PROVE e - p \in P
      OBVIOUS
    <3>1. e <= Len(T) /\ e - p \in 1 .. Len(T) - p /\ (p + 1) + (e - p) - 1 = e
      BY <1>0, <1>2, <1>3
    <3>2. rest[e - p] = T[e]
      BY <1>2, <3>1
    <3> QED
      BY <1>2, <1>3, <3>1, <3>2
  <2>4. ASSUME NEW k \in P PROVE e - p <= k
    <3>1. k \in 1 .. Len(T) - p /\ rest[k] = "NL"
      BY <1>2
    <3>2. T[p + k] = "NL"
      <4>1. (p + 1) + k - 1 = p + k
        BY <1>0, <3>1
      <4> QED
        BY <1>2, <3>1, <4>1
    <3>3. p + k \notin p + 1 .. e - 1
      BY <1>3, <3>2
    <3> QED
      BY <1>0, <1>3, <3>1, <3>3
  <2> HIDE DEF P
  <2> QED
    BY <2>1, <2>2, <2>3, <2>4, FirstIs
<1>5. Written(p) = Trim(SubSeq(rest, 1, (e - p) - 1))
  BY <1>4 DEF Written, After, Before, rest
<1>6. SubSeq(rest, 1, (e - p) - 1) = SubSeq(T, (p + 1) + 1 - 1, (p + 1) + ((e - p) - 1) - 1)
  <2>1. 1 \in 1 .. Len(T) - (p + 1) + 2 /\ (e - p) - 1 \in 1 - 1 .. Len(T) - (p + 1) + 1
    BY <1>0, <1>3
  <2> QED
    BY <1>1, <2>1, PieceOfPiece DEF rest
<1>7. (p + 1) + 1 - 1 = p + 1 /\ (p + 1) + ((e - p) - 1) - 1 = e - 1
  BY <1>0, <1>3
<1> QED
  BY <1>5, <1>6, <1>7 DEF e

\* The arrows between two positions.
ArrowsOf(T, a, b) == {i \in a .. b - 1 : T[i] = "-" /\ T[i + 1] = ">"}

\* A rule, by the positions of its line in the document.
LEMMA RulePiece ==
    ASSUME NEW T \in Seq(STRING), NEW a \in 1 .. Len(T), NEW b \in a .. Len(T)
    PROVE  LET s == SubSeq(T, a, b)
               A == ArrowsOf(T, a, b)
           IN  /\ A = {} => ArrowIn(s) = Len(s) + 1
               /\ A # {} =>
                    /\ Min(A) \in a .. b - 1 /\ \A i \in A : Min(A) <= i
                    /\ ArrowIn(s) = Min(A) - a + 1 /\ ArrowIn(s) # Len(s) + 1
                    /\ RuleOf(s) = [regexp |-> Trim(SubSeq(T, a, Min(A) - 1)),
                                    value |-> Trim(SubSeq(T, Min(A) + 2, b))]
<1> DEFINE s == SubSeq(T, a, b)
           A == ArrowsOf(T, a, b)
           P == {i \in 1 .. Len(s) - 1 : s[i] = "-" /\ s[i + 1] = ">"}
<1>0. Len(T) \in Nat /\ a \in Nat /\ b \in Nat /\ a >= 1 /\ a <= b /\ b <= Len(T)
      /\ a \in 1 .. Len(T) + 1 /\ b \in a - 1 .. Len(T)
  OBVIOUS
<1>1. /\ Len(s) = b - a + 1
      /\ \A i \in 1 .. b - a + 1 : s[i] = T[a + i - 1]
  BY <1>0, Piece
<1> HIDE DEF s
<1>2. ASSUME NEW i \in P PROVE a + i - 1 \in A /\ i \in Nat
  <2>1. i \in 1 .. b - a + 1 /\ i + 1 \in 1 .. b - a + 1 /\ a + i - 1 \in a .. b - 1
        /\ a + (i + 1) - 1 = (a + i - 1) + 1
    BY <1>0, <1>1
  <2>2. s[i] = T[a + i - 1] /\ s[i + 1] = T[a + (i + 1) - 1]
    BY <1>1, <2>1
  <2> QED
    BY <2>1, <2>2 DEF ArrowsOf
<1>3. ASSUME NEW j \in A PROVE j - a + 1 \in P /\ j \in a .. b - 1
  <2>1. j \in a .. b - 1 /\ T[j] = "-" /\ T[j + 1] = ">"
    BY DEF ArrowsOf
  <2>2. /\ j - a + 1 \in 1 .. Len(s) - 1 /\ j - a + 1 \in 1 .. b - a + 1
        /\ (j - a + 1) + 1 \in 1 .. b - a + 1
        /\ a + (j - a + 1) - 1 = j /\ a + ((j - a + 1) + 1) - 1 = j + 1
    BY <1>0, <1>1, <2>1
  <2>3. s[j - a + 1] = T[j] /\ s[(j - a + 1) + 1] = T[j + 1]
    BY <1>1, <2>2
  <2> QED
    BY <2>1, <2>2, <2>3
<1>4. ArrowIn(s) = FirstOf(P, s)
  BY DEF ArrowIn
<1>5. P \in SUBSET (1 .. Len(s)) /\ Len(s) \in Nat
  BY <1>0, <1>1
<1> HIDE DEF P, A
<1>6. CASE A = {}
  <2>1. P = {}
    BY <1>2, <1>6
  <2> QED
    BY <1>4, <1>6, <2>1 DEF FirstOf, s, A
<1>7. CASE A # {}
  <2> DEFINE w == Min(A)
  <2>1. A \in SUBSET Nat
    BY <1>0, <1>3
  <2>2. w \in A /\ (\A i \in A : w <= i)
    BY <1>7, <2>1, LeastElement
  <2> HIDE DEF w
  <2>3. w \in a .. b - 1 /\ w - a + 1 \in P
    BY <1>3, <2>2
  <2>4. \A k \in P : w - a + 1 <= k
    <3> TAKE k \in P
    <3>1. w <= a + k - 1 /\ k \in Nat
      BY <1>2, <2>2
    <3> QED
      BY <1>0, <2>3, <3>1
  <2>5. w - a + 1 \in 1 .. Len(s) + 1
    BY <1>0, <1>1, <2>3
  <2>6. ArrowIn(s) = w - a + 1
    BY <1>4, <1>5, <2>3, <2>4, <2>5, FirstIs
  <2>7. Before(s, ArrowIn(s)) = SubSeq(T, a, w - 1)
    <3>1. 1 \in 1 .. b - a + 2 /\ (w - a + 1) - 1 \in 1 - 1 .. b - a + 1
      BY <1>0, <2>3
    <3>2. SubSeq(s, 1, (w - a + 1) - 1) = SubSeq(T, a + 1 - 1, a + ((w - a + 1) - 1) - 1)
      BY <1>0, <3>1, PieceOfPiece DEF s
    <3>3. a + 1 - 1 = a /\ a + ((w - a + 1) - 1) - 1 = w - 1
      BY <1>0, <2>3
    <3> QED
      BY <2>6, <3>2, <3>3 DEF Before
  <2>8. After(s, ArrowIn(s) + 1) = SubSeq(T, w + 2, b)
    <3> DEFINE m == ((w - a + 1) + 1) + 1
    <3>1. m \in 1 .. b - a + 2 /\ b - a + 1 \in m - 1 .. b - a + 1
      BY <1>0, <2>3
    <3>2. SubSeq(s, m, b - a + 1) = SubSeq(T, a + m - 1, a + (b - a + 1) - 1)
      BY <1>0, <3>1, PieceOfPiece DEF s
    <3>3. a + m - 1 = w + 2 /\ a + (b - a + 1) - 1 = b
      BY <1>0, <2>3
    <3> QED
      BY <1>1, <2>6, <3>2, <3>3 DEF After
  <2>9. ArrowIn(s) # Len(s) + 1
    BY <1>0, <1>1, <2>3, <2>6
  <2> QED
    BY <1>7, <2>2, <2>3, <2>6, <2>7, <2>8, <2>9 DEF RuleOf, w, s, A
<1> QED
  BY <1>6, <1>7

-----------------------------------------------------------------------------
(* The line being parsed, while it is a string of its own *)

Ends == EndFrom(line)

\* The document, with NULs at some positions.
CutAt(positions) ==
    [i \in DOMAIN rulesText |-> IF i \in positions THEN "NUL" ELSE rulesText[i]]

\* A document without a NUL, and a line of it.
OnLine ==
    /\ rulesText \in Seq(STRING)
    /\ \A i \in DOMAIN rulesText : rulesText[i] # "NUL"
    /\ line \in 1 .. Len(rulesText)

LEMMA OnLineFacts ==
    ASSUME OnLine
    PROVE  /\ Len(rulesText) \in Nat /\ line \in Nat /\ line >= 1 /\ line <= Len(rulesText)
           /\ DOMAIN rulesText = 1 .. Len(rulesText)
           /\ Ends \in line .. Len(rulesText) + 1
           /\ \A i \in line .. Ends - 1 : rulesText[i] # "NL" /\ i \in DOMAIN rulesText
           /\ line \in 1 .. Len(rulesText) + 1 /\ Ends - 1 \in line - 1 .. Len(rulesText)
<1>1. Len(rulesText) \in Nat /\ line \in Nat /\ line >= 1 /\ line <= Len(rulesText)
      /\ DOMAIN rulesText = 1 .. Len(rulesText)
  BY DEF OnLine
<1>2. line \in 1 .. Len(rulesText) + 1
  BY <1>1
<1>3. Ends \in line .. Len(rulesText) + 1 /\ \A i \in line .. Ends - 1 : rulesText[i] # "NL"
  BY <1>2, EndFacts DEF OnLine, Ends
<1>4. \A i \in line .. Ends - 1 : i \in DOMAIN rulesText
  BY <1>1, <1>3
<1>5. Ends - 1 \in line - 1 .. Len(rulesText)
  BY <1>1, <1>3
<1> QED
  BY <1>1, <1>2, <1>3, <1>4, <1>5

\* Two documents of the same length.
LEMMA CutFacts ==
    ASSUME OnLine, NEW X, buf = CutAt(X)
    PROVE  /\ buf \in Seq(STRING \cup {"NUL"}) /\ Len(buf) = Len(rulesText)
           /\ DOMAIN buf = 1 .. Len(rulesText)
           /\ \A i \in DOMAIN rulesText : buf[i] = IF i \in X THEN "NUL" ELSE rulesText[i]
<1> DEFINE C == STRING \cup {"NUL"}
<1>1. DOMAIN rulesText = 1 .. Len(rulesText) /\ Len(rulesText) \in Nat
  BY DEF OnLine
<1>2. \A i \in DOMAIN rulesText : rulesText[i] \in C /\ "NUL" \in C
  BY DEF OnLine
<1> HIDE DEF C
<1>3. buf \in [1 .. Len(rulesText) -> C]
  BY <1>1, <1>2 DEF CutAt
<1>4. buf \in Seq(C) /\ Len(buf) = Len(rulesText)
  BY <1>1, <1>3
<1> QED
  BY <1>1, <1>3, <1>4 DEF CutAt, C

\* Where the code finds the end of the line, before it is cut and after.
LEMMA LineEndIs ==
    ASSUME OnLine, buf = CutAt({}) \/ buf = CutAt({Ends})
    PROVE  LineEnd = Ends
<1> DEFINE P == {i \in line .. Len(buf) : buf[i] \in {"NL", "NUL"}}
<1>1. PICK X \in {{}, {Ends}} : buf = CutAt(X)
  OBVIOUS
<1>2. /\ Len(buf) = Len(rulesText)
      /\ \A i \in DOMAIN rulesText : buf[i] = IF i \in X THEN "NUL" ELSE rulesText[i]
  BY <1>1, CutFacts
<1>3. /\ Len(rulesText) \in Nat /\ line \in Nat /\ line >= 1 /\ line <= Len(rulesText)
      /\ DOMAIN rulesText = 1 .. Len(rulesText)
      /\ Ends \in line .. Len(rulesText) + 1
      /\ \A i \in line .. Ends - 1 : rulesText[i] # "NL" /\ i \in DOMAIN rulesText
  BY OnLineFacts
<1>4. Ends <= Len(rulesText) => rulesText[Ends] = "NL"
  BY <1>3, EndFacts DEF OnLine, Ends
<1>5. P \in SUBSET (1 .. Len(buf)) /\ Len(buf) \in Nat
  BY <1>2, <1>3
<1>6. Ends \in 1 .. Len(buf) + 1
  BY <1>2, <1>3
<1>7. Ends <= Len(buf) => Ends \in P
  <2> SUFFICES ASSUME Ends <= Len(buf) PROVE Ends \in P
    OBVIOUS
  <2>1. Ends \in line .. Len(buf) /\ Ends \in DOMAIN rulesText
    BY <1>2, <1>3
  <2> QED
    BY <1>2, <1>4, <2>1
<1>8. ASSUME NEW k \in P PROVE Ends <= k
  <2>1. k \in line .. Len(buf) /\ buf[k] \in {"NL", "NUL"}
    OBVIOUS
  <2> SUFFICES ASSUME ~(Ends <= k) PROVE FALSE
    OBVIOUS
  <2>2. k \in line .. Ends - 1
    BY <1>2, <1>3, <2>1
  <2>3. k \in DOMAIN rulesText /\ rulesText[k] # "NL" /\ k # Ends
    BY <1>3, <2>2
  <2>4. buf[k] = rulesText[k] /\ rulesText[k] # "NUL"
    BY <1>2, <2>3 DEF OnLine
  <2> QED
    BY <2>1, <2>3, <2>4
<1> HIDE DEF P
<1>9. FirstOf(P, buf) = Ends
  BY <1>5, <1>6, <1>7, <1>8, FirstIs
<1> QED
  BY <1>9 DEF LineEnd, P

LEMMA SolidInIs ==
    ASSUME OnLine, buf = CutAt({Ends}), NEW f \in line .. Ends + 1, NEW t \in f - 1 .. Ends - 1
    PROVE  SolidIn(f, t) = SolidOf(rulesText, f, t)
<1>1. \A i \in f .. t : i \in line .. Ends - 1 /\ i # Ends
  BY OnLineFacts
<1>2. \A i \in DOMAIN rulesText : buf[i] = IF i \in {Ends} THEN "NUL" ELSE rulesText[i]
  BY CutFacts
<1>3. \A i \in f .. t : i \in DOMAIN rulesText
  BY <1>1, OnLineFacts
<1>4. \A i \in f .. t : buf[i] = rulesText[i]
  BY <1>1, <1>2, <1>3
<1> QED
  BY <1>4 DEF SolidIn, SolidOf

First1 == Min(SolidOf(rulesText, line, Ends - 1))
Last1 == Max(SolidOf(rulesText, line, Ends - 1))

\* What is written on the line goes from one character to another.
LEMMA LineWritten ==
    ASSUME OnLine, buf = CutAt({Ends})
    PROVE  /\ IsEmpty <=> Written(line - 1) = <<>>
           /\ ~IsEmpty => /\ Written(line - 1) = SubSeq(rulesText, First1, Last1)
                          /\ RegexpStart = First1
                          /\ First1 \in line .. Ends - 1 /\ Last1 \in First1 .. Ends - 1
                          /\ \A i \in SolidOf(rulesText, line, Ends - 1) : First1 <= i /\ i <= Last1
                          /\ rulesText[First1] \notin Blanks
<1> DEFINE T == rulesText
           S == SolidOf(T, line, Ends - 1)
<1>1. /\ Len(T) \in Nat /\ line \in Nat /\ line >= 1 /\ Ends \in line .. Len(T) + 1
      /\ line \in 1 .. Len(T) + 1 /\ Ends - 1 \in line - 1 .. Len(T) /\ line <= Len(T)
  BY OnLineFacts
<1>2. LineEnd = Ends
  BY LineEndIs
<1>3. SolidIn(line, LineEnd - 1) = S
  <2>1. line \in line .. Ends + 1 /\ Ends - 1 \in line - 1 .. Ends - 1
    BY <1>1
  <2> QED
    BY <1>2, <2>1, SolidInIs
<1>4. Written(line - 1) = Trim(SubSeq(T, line, Ends - 1))
  <2>1. line - 1 \in 0 .. Len(T) /\ (line - 1) + 1 = line
    BY <1>1
  <2> QED
    BY <2>1, WrittenIs DEF OnLine, Ends
<1>5. Trim(SubSeq(T, line, Ends - 1)) = IF S = {} THEN <<>> ELSE SubSeq(T, Min(S), Max(S))
  BY <1>1, TrimPiece DEF OnLine
<1>6. IsEmpty <=> S = {}
  BY <1>3 DEF IsEmpty
<1>7. CASE S = {}
  BY <1>4, <1>5, <1>6, <1>7
<1>8. CASE S # {}
  <2>1. /\ Min(S) \in S /\ Min(S) \in line .. Ends - 1 /\ Max(S) \in line .. Ends - 1
        /\ (\A i \in S : Min(S) <= i /\ i <= Max(S)) /\ Min(S) <= Max(S)
    BY <1>1, <1>8, SolidOfFacts DEF OnLine
  <2>2. Max(S) \in Min(S) .. Ends - 1
    BY <1>1, <2>1
  <2>3. Written(line - 1) = SubSeq(T, Min(S), Max(S))
    BY <1>4, <1>5, <1>8
  <2>4. T[Min(S)] \notin Blanks
    BY <2>1 DEF SolidOf
  <2>5. RegexpStart = Min(S)
    BY <1>3 DEF RegexpStart
  <2>6. Written(line - 1) # <<>>
    <3> DEFINE a == Min(S)
               b == Max(S)
    <3>1. a \in 1 .. Len(T) + 1 /\ b \in a - 1 .. Len(T) /\ b - a + 1 >= 1
      BY <1>1, <2>1
    <3> HIDE DEF a, b
    <3>2. Len(SubSeq(T, a, b)) = b - a + 1
      BY <3>1, Piece DEF OnLine
    <3>3. Written(line - 1) = SubSeq(T, a, b)
      BY <2>3 DEF a, b
    <3> QED
      BY <3>1, <3>2, <3>3
  <2> QED
    BY <1>6, <1>8, <2>1, <2>2, <2>3, <2>4, <2>5, <2>6 DEF First1, Last1
<1> QED
  BY <1>7, <1>8

\* The arrow the code finds is that of what is written.
LEMMA LineArrow ==
    ASSUME OnLine, buf = CutAt({Ends}), ~IsEmpty
    PROVE  /\ Arrows = ArrowsOf(rulesText, First1, Last1)
           /\ HasRegexp <=> ArrowIn(Written(line - 1)) \notin {1, Len(Written(line - 1)) + 1}
           /\ HasRegexp => /\ Arrow \in First1 + 1 .. Last1 - 1
                           /\ RuleOf(Written(line - 1)) =
                                [regexp |-> Trim(SubSeq(rulesText, First1, Arrow - 1)),
                                 value |-> Trim(SubSeq(rulesText, Arrow + 2, Last1))]
<1> DEFINE T == rulesText
           a == First1
           b == Last1
           A == ArrowsOf(T, a, b)
           s == Written(line - 1)
<1>1. /\ Len(T) \in Nat /\ line \in Nat /\ line >= 1 /\ Ends \in line .. Len(T) + 1
      /\ line <= Len(T) /\ DOMAIN T = 1 .. Len(T)
      /\ \A i \in line .. Ends - 1 : i \in DOMAIN T
  BY OnLineFacts
<1>2. /\ s = SubSeq(T, a, b) /\ RegexpStart = a
      /\ a \in line .. Ends - 1 /\ b \in a .. Ends - 1
      /\ \A i \in SolidOf(T, line, Ends - 1) : a <= i /\ i <= b
  BY LineWritten
<1>3. \A i \in DOMAIN T : buf[i] = IF i \in {Ends} THEN "NUL" ELSE T[i]
  BY CutFacts
<1>4. LineEnd = Ends
  BY LineEndIs
<1> HIDE DEF a, b, s
<1>5. Arrows = A
  <2>1. \A i \in a .. Ends - 2 : buf[i] = T[i] /\ buf[i + 1] = T[i + 1]
    <3> TAKE i \in a .. Ends - 2
    <3>1. i \in line .. Ends - 1 /\ i + 1 \in line .. Ends - 1 /\ i # Ends /\ i + 1 # Ends
      BY <1>1, <1>2
    <3> QED
      BY <1>1, <1>3, <3>1
  <2>2. ASSUME NEW i \in a .. Ends - 2, T[i + 1] = ">" PROVE i \in a .. b - 1
    <3>1. i + 1 \in line .. Ends - 1
      BY <1>1, <1>2
    <3>2. T[i + 1] \notin Blanks
      BY <2>2 DEF Blanks
    <3>3. i + 1 <= b
      BY <1>2, <3>1, <3>2 DEF SolidOf
    <3> QED
      BY <1>1, <1>2, <3>3
  <2>3. \A i \in a .. b - 1 : i \in a .. Ends - 2
    BY <1>1, <1>2
  <2>4. Arrows = {i \in a .. Ends - 2 : T[i] = "-" /\ T[i + 1] = ">"}
    BY <1>2, <1>4, <2>1 DEF Arrows
  <2>5. A = {i \in a .. b - 1 : T[i] = "-" /\ T[i + 1] = ">"}
    BY DEF ArrowsOf
  <2> QED
    BY <2>2, <2>3, <2>4, <2>5
<1>6. a \in 1 .. Len(T) /\ b \in a .. Len(T)
  BY <1>1, <1>2
<1>7. /\ A = {} => ArrowIn(s) = Len(s) + 1
      /\ A # {} =>
           /\ Min(A) \in a .. b - 1 /\ \A i \in A : Min(A) <= i
           /\ ArrowIn(s) = Min(A) - a + 1 /\ ArrowIn(s) # Len(s) + 1
           /\ RuleOf(s) = [regexp |-> Trim(SubSeq(T, a, Min(A) - 1)),
                           value |-> Trim(SubSeq(T, Min(A) + 2, b))]
  BY <1>2, <1>6, RulePiece DEF OnLine
<1> HIDE DEF A
<1>8. CASE A = {}
  BY <1>5, <1>7, <1>8 DEF HasRegexp, A, a, b, s
<1>9. CASE A # {}
  <2>1. Arrow = Min(A) /\ ArrowIn(s) = Arrow - a + 1 /\ ArrowIn(s) # Len(s) + 1
        /\ Arrow \in a .. b - 1
    BY <1>5, <1>7, <1>9 DEF Arrow
  <2>2. HasRegexp <=> Arrow # a
    BY <1>2, <1>5, <1>9 DEF HasRegexp
  <2>3. Arrow # a <=> ArrowIn(s) # 1
    BY <1>6, <2>1
  <2>4. Arrow # a => Arrow \in a + 1 .. b - 1
    BY <1>6, <2>1
  <2> QED
    BY <1>5, <1>7, <1>9, <2>1, <2>2, <2>3, <2>4 DEF A, a, b, s
<1> QED
  BY <1>8, <1>9

\* A string of the buffer ends at the first NUL.
LEMMA StringIs ==
    ASSUME OnLine, NEW X \in SUBSET (1 .. Len(rulesText) + 1), buf = CutAt(X),
           NEW f \in 1 .. Len(rulesText) + 1, NEW t \in f - 1 .. Len(rulesText),
           t + 1 \in X \cup {Len(rulesText) + 1}, X \cap (f .. t) = {}
    PROVE  StrAt(f) = SubSeq(rulesText, f, t)
<1> DEFINE T == rulesText
           P == {j \in f .. Len(buf) : buf[j] = "NUL"}
<1>1. /\ Len(T) \in Nat /\ DOMAIN T = 1 .. Len(T)
      /\ \A i \in DOMAIN T : T[i] # "NUL"
  BY DEF OnLine
<1>2. /\ buf \in Seq(STRING \cup {"NUL"}) /\ Len(buf) = Len(T)
      /\ \A i \in DOMAIN T : buf[i] = IF i \in X THEN "NUL" ELSE T[i]
  BY CutFacts
<1>3. f \in Nat /\ t \in Int /\ f >= 1 /\ t >= f - 1 /\ t <= Len(T)
  BY <1>1
<1>4. ASSUME NEW j \in P PROVE t + 1 <= j
  <2>1. j \in f .. Len(T) /\ buf[j] = "NUL" /\ j \in DOMAIN T
    BY <1>1, <1>2, <1>3
  <2>2. j \in X
    BY <1>1, <1>2, <2>1
  <2>3. j \notin f .. t
    BY <2>2
  <2> QED
    BY <1>3, <2>1, <2>3
<1>5. t + 1 <= Len(buf) => t + 1 \in P
  <2> SUFFICES ASSUME t + 1 <= Len(buf) PROVE t + 1 \in P
    OBVIOUS
  <2>1. t + 1 \in f .. Len(buf) /\ t + 1 \in DOMAIN T /\ t + 1 # Len(T) + 1
    BY <1>1, <1>2, <1>3
  <2>2. buf[t + 1] = "NUL"
    BY <1>2, <2>1
  <2> QED
    BY <2>1, <2>2
<1>6. P \in SUBSET (1 .. Len(buf)) /\ Len(buf) \in Nat /\ t + 1 \in 1 .. Len(buf) + 1
  BY <1>1, <1>2, <1>3
<1> HIDE DEF P
<1>7. FirstOf(P, buf) = t + 1
  BY <1>4, <1>5, <1>6, FirstIs
<1>8. StrAt(f) = SubSeq(buf, f, t)
  <2>1. StrAt(f) = SubSeq(buf, f, (t + 1) - 1)
    BY <1>7 DEF StrAt, P
  <2>2. (t + 1) - 1 = t
    BY <1>3
  <2> QED
    BY <2>1, <2>2
<1>9. SubSeq(buf, f, t) = SubSeq(T, f, t)
  <2> DEFINE C == STRING \cup {"NUL"}
             p == SubSeq(buf, f, t)
             q == SubSeq(T, f, t)
  <2>1. T \in Seq(C)
    <3>1. STRING \subseteq C
      OBVIOUS
    <3> HIDE DEF C
    <3> QED
      BY <3>1, SeqMonotonic DEF OnLine
  <2> HIDE DEF C
  <2>2. p \in Seq(C) /\ Len(p) = t - f + 1 /\ \A i \in 1 .. t - f + 1 : p[i] = buf[f + i - 1]
    BY <1>2, PieceIn DEF C
  <2>3. q \in Seq(C) /\ Len(q) = t - f + 1 /\ \A i \in 1 .. t - f + 1 : q[i] = T[f + i - 1]
    BY <2>1, PieceIn
  <2> HIDE DEF p, q
  <2>4. ASSUME NEW i \in 1 .. t - f + 1 PROVE p[i] = q[i]
    <3>1. f + i - 1 \in f .. t /\ f + i - 1 \in DOMAIN T
      BY <1>1, <1>3
    <3> QED
      BY <1>2, <2>2, <2>3, <3>1
  <2>5. Len(p) = Len(q) /\ \A i \in 1 .. Len(p) : p[i] = q[i]
    BY <2>2, <2>3, <2>4
  <2>6. p = q
    BY <2>2, <2>3, <2>5, SeqEqual
  <2> QED
    BY <2>6 DEF p, q
<1> QED
  BY <1>8, <1>9

\* Where the rule of the line is in the document, once it was cut at r and v.
RuleAt(regexp, r, value, v) ==
    /\ regexp \in line .. r /\ r \in regexp + 1 .. value - 1
    /\ value \in r + 1 .. v /\ v \in value .. Ends
    /\ RuleOf(Written(line - 1)) =
           [regexp |-> SubSeq(rulesText, regexp, r - 1), value |-> SubSeq(rulesText, value, v - 1)]

LEMMA CutFinds ==
    ASSUME OnLine, buf = CutAt({Ends}), ~IsEmpty, HasRegexp
    PROVE  /\ WithNul({RegexpEnd, ValueEnd}) = CutAt({Ends, RegexpEnd, ValueEnd})
           /\ RuleAt(RegexpStart, RegexpEnd, ValueStart, ValueEnd)
<1> DEFINE T == rulesText
           a == First1
           b == Last1
           w == Arrow
           R == SolidOf(T, a, w - 1)
           V == SolidOf(T, w + 2, b)
<1>1. /\ Len(T) \in Nat /\ line \in Nat /\ line >= 1 /\ Ends \in line .. Len(T) + 1
      /\ DOMAIN T = 1 .. Len(T)
  BY OnLineFacts
<1>2. /\ RegexpStart = a /\ a \in line .. Ends - 1 /\ b \in a .. Ends - 1
      /\ (\A i \in SolidOf(T, line, Ends - 1) : a <= i /\ i <= b) /\ T[a] \notin Blanks
  BY LineWritten
<1>3. /\ w \in a + 1 .. b - 1
      /\ RuleOf(Written(line - 1)) = [regexp |-> Trim(SubSeq(T, a, w - 1)),
                                      value |-> Trim(SubSeq(T, w + 2, b))]
  BY LineArrow
<1>4. LineEnd = Ends
  BY LineEndIs
<1> HIDE DEF a, b, w
<1>5. a \in 1 .. Len(T) + 1 /\ w - 1 \in a - 1 .. Len(T) /\ w + 2 \in 1 .. Len(T) + 1
      /\ b \in (w + 2) - 1 .. Len(T) /\ a \in Nat /\ b \in Nat /\ w \in Nat
  BY <1>1, <1>2, <1>3
<1>6. SolidIn(RegexpStart, Arrow - 1) = R
  <2>1. a \in line .. Ends + 1 /\ w - 1 \in a - 1 .. Ends - 1
    BY <1>1, <1>2, <1>3
  <2> QED
    BY <1>2, <2>1, SolidInIs DEF w
<1>7. ValueSolid = V
  <2>1. w + 2 \in line .. Ends + 1 /\ Ends - 1 \in (w + 2) - 1 .. Ends - 1
    BY <1>1, <1>2, <1>3
  <2>2. ValueSolid = SolidOf(T, w + 2, Ends - 1)
    BY <1>4, <2>1, SolidInIs DEF ValueSolid, w
  <2>3. ASSUME NEW i \in w + 2 .. Ends - 1, T[i] \notin Blanks PROVE i \in w + 2 .. b
    <3>1. i \in line .. Ends - 1
      BY <1>1, <1>2, <1>3
    <3>2. i <= b
      BY <1>2, <2>3, <3>1 DEF SolidOf
    <3> QED
      BY <1>5, <3>2
  <2>4. \A i \in w + 2 .. b : i \in w + 2 .. Ends - 1
    BY <1>1, <1>2, <1>3
  <2> QED
    BY <2>2, <2>3, <2>4 DEF SolidOf
<1>8. /\ R # {} /\ Min(R) = a /\ Max(R) \in a .. w - 1
      /\ Trim(SubSeq(T, a, w - 1)) = SubSeq(T, a, Max(R))
  <2>1. a \in R
    BY <1>2, <1>3, <1>5 DEF SolidOf
  <2>2. \A i \in R : i \in Nat /\ a <= i
    BY <1>5 DEF SolidOf
  <2>3. Min(R) = a
    <3>1. R \in SUBSET Nat
      BY <2>2
    <3> HIDE DEF R
    <3> QED
      BY <2>1, <2>2, <3>1, LeastIs
  <2>4. Max(R) \in a .. w - 1
    BY <1>5, <2>1, SolidOfFacts DEF OnLine
  <2>5. Trim(SubSeq(T, a, w - 1)) = SubSeq(T, Min(R), Max(R))
    BY <1>5, <2>1, TrimPiece DEF OnLine
  <2> QED
    BY <2>1, <2>3, <2>4, <2>5
<1>9. /\ ValueStart \in w + 2 .. ValueEnd /\ ValueEnd \in ValueStart .. Ends
      /\ Trim(SubSeq(T, w + 2, b)) = SubSeq(T, ValueStart, ValueEnd - 1)
  <2>1. Trim(SubSeq(T, w + 2, b)) = IF V = {} THEN <<>> ELSE SubSeq(T, Min(V), Max(V))
    BY <1>5, TrimPiece DEF OnLine
  <2>2. CASE V = {}
    <3>1. ValueStart = Ends /\ ValueEnd = Ends
      BY <1>4, <1>7, <2>2 DEF ValueStart, ValueEnd
    <3>2. Ends \in Int /\ Ends - 1 \in Int /\ Ends - 1 < Ends /\ w + 2 <= Ends
      BY <1>1, <1>2, <1>3
    <3>3. SubSeq(T, Ends, Ends - 1) = <<>>
      BY <3>2, SubSeqEmpty
    <3>4. Ends \in w + 2 .. Ends /\ Ends \in Ends .. Ends
      BY <1>5, <3>2
    <3>5. Trim(SubSeq(T, w + 2, b)) = SubSeq(T, Ends, Ends - 1)
      BY <2>1, <2>2, <3>3
    <3> QED
      BY <3>1, <3>4, <3>5
  <2>3. CASE V # {}
    <3>1. ValueStart = Min(V) /\ ValueEnd = Max(V) + 1
      BY <1>7, <2>3 DEF ValueStart, ValueEnd
    <3>2. Min(V) \in w + 2 .. b /\ Max(V) \in w + 2 .. b /\ Min(V) <= Max(V)
      BY <1>5, <2>3, SolidOfFacts DEF OnLine
    <3> HIDE DEF V
    <3>3. (Max(V) + 1) - 1 = Max(V) /\ Max(V) + 1 <= Ends
      BY <1>1, <1>2, <1>5, <3>2
    <3>4. Min(V) \in w + 2 .. Max(V) + 1 /\ Max(V) + 1 \in Min(V) .. Ends
      BY <1>1, <1>5, <3>2, <3>3
    <3>5. Trim(SubSeq(T, w + 2, b)) = SubSeq(T, Min(V), Max(V))
      BY <2>1, <2>3 DEF V
    <3> QED
      BY <3>1, <3>3, <3>4, <3>5
  <2> QED
    BY <2>2, <2>3
<1>10. RegexpEnd = Max(R) + 1
  BY <1>6 DEF RegexpEnd
<1>11. RuleAt(RegexpStart, RegexpEnd, ValueStart, ValueEnd)
  <2> DEFINE m == Max(R)
             x == ValueStart
             y == ValueEnd
  <2>1. m \in a .. w - 1 /\ x \in w + 2 .. y /\ y \in x .. Ends
    BY <1>8, <1>9
  <2> HIDE DEF m, x, y, R
  <2>2. /\ a \in line .. m + 1 /\ m + 1 \in a + 1 .. x - 1
        /\ x \in (m + 1) + 1 .. y /\ y \in x .. Ends /\ (m + 1) - 1 = m
    BY <1>1, <1>2, <1>5, <2>1
  <2>3. RegexpStart = a /\ RegexpEnd = m + 1
    BY <1>2, <1>10 DEF m
  <2>4. RuleOf(Written(line - 1)) = [regexp |-> SubSeq(T, a, m), value |-> SubSeq(T, x, y - 1)]
    BY <1>3, <1>8, <1>9 DEF m, x, y
  <2> QED
    BY <2>2, <2>3, <2>4 DEF RuleAt, x, y
<1>12. WithNul({RegexpEnd, ValueEnd}) = CutAt({Ends, RegexpEnd, ValueEnd})
  <2> DEFINE r == RegexpEnd
             v == ValueEnd
  <2>1. DOMAIN buf = DOMAIN T /\ \A i \in DOMAIN T : buf[i] = IF i \in {Ends} THEN "NUL" ELSE T[i]
    BY <1>1, CutFacts
  <2> HIDE DEF r, v
  <2>2. \A i \in DOMAIN T : (IF i \in {r, v} THEN "NUL" ELSE buf[i])
                            = IF i \in {Ends, r, v} THEN "NUL" ELSE T[i]
    BY <2>1
  <2>3. WithNul({r, v}) = CutAt({Ends, r, v})
    BY <2>1, <2>2 DEF WithNul, CutAt
  <2> QED
    BY <2>3 DEF r, v
<1> QED
  BY <1>11, <1>12

-----------------------------------------------------------------------------
(* The rules so far are those of the lines so far *)

Parsed == {p \in Ruling : p + 1 < line}

Collected ==
    /\ rules \in Seq({RuleOf(Written(p)) : p \in Ruling})
    /\ Len(rules) = Cardinality(Parsed)
    /\ \A p \in Parsed : rules[Place(p)] = RuleOf(Written(p)) /\ ~NoRuleIn(Written(p))

\* A line is being parsed: it was cut off at its end.
LineInv ==
    /\ line <= Len(rulesText) /\ line - 1 \in RuleLines
    /\ lineCut = [at |-> Ends, char |-> IF Ends <= Len(rulesText) THEN "NL" ELSE "NUL"]

\* The strings of its rule were cut too.
RuleInv ==
    /\ Written(line - 1) # <<>>
    /\ ArrowIn(Written(line - 1)) \notin {1, Len(Written(line - 1)) + 1}
    /\ \E r, v \in Nat : /\ buf = CutAt({Ends, r, v})
                         /\ RuleAt(starts.regexp, r, starts.value, v)

RulesInv ==
    /\ BufferInv
    /\ \A i \in DOMAIN rulesText : rulesText[i] # "NUL"
    /\ line \in 1 .. Len(rulesText) + 1
    /\ rulesEnd = "lines" => line - 1 \in RuleLines \/ line = Len(rulesText) + 1
    /\ rulesEnd \in {"line", "rule"} => LineInv
    /\ rulesEnd = "line" => buf = CutAt({Ends})
    /\ rulesEnd = "rule" => RuleInv
    /\ rulesEnd # "rejected" => Collected
    /\ RulesAsWritten

LEMMA RulingFacts ==
    ASSUME rulesText \in Seq(STRING)
    PROVE  /\ RuleLines \in SUBSET (0 .. Len(rulesText)) /\ Ruling \subseteq RuleLines
           /\ IsFiniteSet(Ruling)
           /\ \A p \in Ruling : p < Len(rulesText) /\ p \in Nat
<1>1. Len(rulesText) \in Nat /\ DOMAIN rulesText = 1 .. Len(rulesText)
  OBVIOUS
<1>2. RuleLines \in SUBSET (0 .. Len(rulesText)) /\ Ruling \subseteq RuleLines
  BY <1>1 DEF RuleLines, Ruling
<1>3. IsFiniteSet(0 .. Len(rulesText))
  BY <1>1, FS_Interval
<1>4. IsFiniteSet(Ruling)
  <2>1. Ruling \in SUBSET (0 .. Len(rulesText))
    BY <1>2
  <2> QED
    BY <1>3, <2>1, FS_Subset
<1>5. Written(Len(rulesText)) = <<>>
  <2> DEFINE l == Len(rulesText)
  <2>1. l \in 0 .. l /\ l + 1 \in 1 .. l + 1 /\ l \in (l + 1) - 1 .. l
    BY <1>1
  <2>2. EndFrom(l + 1) = l + 1
    <3>1. EndFrom(l + 1) \in l + 1 .. l + 1
      BY <2>1, EndFacts
    <3> QED
      BY <1>1, <3>1
  <2>3. Written(l) = Trim(SubSeq(rulesText, l + 1, EndFrom(l + 1) - 1))
    BY <2>1, WrittenIs
  <2>4. (l + 1) - 1 = l
    BY <1>1
  <2>5. SolidOf(rulesText, l + 1, l) = {}
    BY <1>1 DEF SolidOf
  <2>6. Trim(SubSeq(rulesText, l + 1, l)) = <<>>
    BY <2>1, <2>5, TrimPiece
  <2> QED
    BY <2>2, <2>3, <2>4, <2>6
<1>6. \A p \in Ruling : p < Len(rulesText) /\ p \in Nat
  BY <1>1, <1>2, <1>5 DEF Ruling
<1> QED
  BY <1>2, <1>4, <1>6

\* After the line, the lines so far are one more.
LEMMA Advance ==
    ASSUME OnLine, line - 1 \in RuleLines,
           NEW next, next = IF Ends <= Len(rulesText) THEN Ends + 1 ELSE Ends
    PROVE  /\ next \in 1 .. Len(rulesText) + 1
           /\ next - 1 \in RuleLines \/ next = Len(rulesText) + 1
           /\ Written(line - 1) = <<>> => {p \in Ruling : p + 1 < next} = Parsed
           /\ Written(line - 1) # <<>> =>
                 /\ {p \in Ruling : p + 1 < next} = Parsed \cup {line - 1}
                 /\ line - 1 \in Ruling
<1> DEFINE T == rulesText
           l == line - 1
<1>1. /\ Len(T) \in Nat /\ line \in Nat /\ line >= 1 /\ line <= Len(T)
      /\ DOMAIN T = 1 .. Len(T) /\ Ends \in line .. Len(T) + 1
      /\ \A i \in line .. Ends - 1 : T[i] # "NL"
  BY OnLineFacts
<1>2. Ends <= Len(T) => T[Ends] = "NL"
  BY <1>1, EndFacts DEF OnLine, Ends
<1>3. next \in line + 1 .. Len(T) + 1 /\ next <= Ends + 1 /\ next \in Nat
  BY <1>1
<1>4. next - 1 \in RuleLines \/ next = Len(T) + 1
  <2>1. CASE Ends <= Len(T)
    <3>1. Ends \in DOMAIN T /\ next - 1 = Ends
      BY <1>1, <2>1
    <3> QED
      BY <1>2, <2>1, <3>1 DEF RuleLines
  <2>2. CASE ~(Ends <= Len(T))
    BY <1>1, <2>2
  <2> QED
    BY <2>1, <2>2
<1>5. ASSUME NEW p \in Ruling
      PROVE  p + 1 < next <=> p + 1 < line \/ p = l
  <2>1. p \in Nat /\ p \in RuleLines
    BY RulingFacts DEF OnLine
  <2>2. ASSUME p + 1 < next, ~(p + 1 < line), p # l PROVE FALSE
    <3>1. p \in line .. Ends - 1
      BY <1>1, <1>3, <2>1, <2>2
    <3>2. p # 0
      BY <1>1, <3>1
    <3> QED
      BY <1>1, <2>1, <3>1, <3>2 DEF RuleLines
  <2>3. p + 1 < line \/ p = l => p + 1 < next
    BY <1>1, <1>3, <2>1
  <2> QED
    BY <2>2, <2>3
<1>6. Written(l) # <<>> => l \in Ruling
  BY DEF Ruling
<1>7. Written(l) = <<>> => l \notin Ruling
  BY DEF Ruling
<1> QED
  BY <1>1, <1>3, <1>4, <1>5, <1>6, <1>7 DEF Parsed

\* Which rule a line is.
LEMMA PlaceFacts ==
    ASSUME OnLine, line - 1 \in Ruling
    PROVE  /\ IsFiniteSet(Parsed) /\ Cardinality(Parsed) \in Nat /\ line - 1 \notin Parsed
           /\ Place(line - 1) = Cardinality(Parsed) + 1
           /\ \A p \in Parsed : Place(p) \in 1 .. Cardinality(Parsed)
<1>1. IsFiniteSet(Ruling) /\ \A p \in Ruling : p \in Nat
  BY RulingFacts DEF OnLine
<1>2. line \in Nat
  BY OnLineFacts
<1>3. Parsed \in SUBSET Ruling /\ line - 1 \notin Parsed
  BY <1>1, <1>2 DEF Parsed
<1>4. IsFiniteSet(Parsed) /\ Cardinality(Parsed) \in Nat
  BY <1>1, <1>3, FS_Subset, FS_CardinalityType
<1>5. {q \in Ruling : q <= line - 1} = Parsed \cup {line - 1}
  BY <1>1, <1>2 DEF Parsed
<1>6. Place(line - 1) = Cardinality(Parsed) + 1
  BY <1>3, <1>4, <1>5, FS_AddElement DEF Place
<1>7. ASSUME NEW p \in Parsed PROVE Place(p) \in 1 .. Cardinality(Parsed)
  <2> DEFINE B == {q \in Ruling : q <= p}
  <2>1. p \in B /\ p \in Nat
    BY <1>1, <1>3
  <2>2. B \in SUBSET Parsed
    <3>1. p + 1 < line
      BY DEF Parsed
    <3>2. ASSUME NEW q \in B PROVE q \in Parsed
      <4>1. q \in Ruling /\ q <= p /\ q \in Nat
        BY <1>1
      <4> QED
        BY <1>2, <2>1, <3>1, <4>1 DEF Parsed
    <3> QED
      BY <3>2
  <2>3. IsFiniteSet(B) /\ Cardinality(B) <= Cardinality(Parsed)
    BY <1>4, <2>2, FS_Subset
  <2>4. Cardinality(B) \in Nat /\ Cardinality(B) # 0
    BY <2>1, <2>3, FS_CardinalityType, FS_EmptySet
  <2>5. Place(p) = Cardinality(B)
    BY DEF Place
  <2> HIDE DEF B
  <2> QED
    BY <1>4, <2>3, <2>4, <2>5
<1> QED
  BY <1>3, <1>4, <1>6, <1>7

-----------------------------------------------------------------------------
(* Steps *)

LEMMA SameText ==
    ASSUME rulesText' = rulesText
    PROVE  /\ Ruling' = Ruling /\ RuleLines' = RuleLines
           /\ \A p : Place(p)' = Place(p) /\ Written(p)' = Written(p)
BY DEF Ruling, RuleLines, Place, Written

\* The next line is taken; the rules are those before, and that of the line if
\* it has one.
LEMMA LeaveLine ==
    ASSUME RulesInv, BufferInv', rulesEnd \in {"line", "rule"}, NextLine,
           \/ Written(line - 1) = <<>> /\ rules' = rules
           \/ /\ Written(line - 1) # <<>> /\ ~NoRuleIn(Written(line - 1))
              /\ rules' = Append(rules, RuleOf(Written(line - 1)))
    PROVE  RulesInv'
<1>1. OnLine /\ LineInv /\ Collected
  BY DEF RulesInv, BufferInv, OnLine, LineInv
<1>2. rulesText' = rulesText /\ rulesEnd' = "lines"
  BY DEF NextLine
<1>3. /\ Ruling' = Ruling /\ RuleLines' = RuleLines
      /\ \A p : Place(p)' = Place(p) /\ Written(p)' = Written(p)
  BY <1>2, SameText
<1>4. line' = IF Ends <= Len(rulesText) THEN Ends + 1 ELSE Ends
  BY <1>1 DEF LineInv, NextLine
<1>5. /\ line' \in 1 .. Len(rulesText) + 1
      /\ line' - 1 \in RuleLines \/ line' = Len(rulesText) + 1
      /\ Written(line - 1) = <<>> => Parsed' = Parsed
      /\ Written(line - 1) # <<>> => Parsed' = Parsed \cup {line - 1} /\ line - 1 \in Ruling
  <2> DEFINE next == line'
  <2>1. next = IF Ends <= Len(rulesText) THEN Ends + 1 ELSE Ends
    BY <1>4
  <2>2. Parsed' = {p \in Ruling : p + 1 < next}
    BY <1>3 DEF Parsed
  <2> HIDE DEF next
  <2>3. /\ next \in 1 .. Len(rulesText) + 1
        /\ next - 1 \in RuleLines \/ next = Len(rulesText) + 1
        /\ Written(line - 1) = <<>> => {p \in Ruling : p + 1 < next} = Parsed
        /\ Written(line - 1) # <<>> =>
              {p \in Ruling : p + 1 < next} = Parsed \cup {line - 1} /\ line - 1 \in Ruling
    BY <1>1, <2>1, Advance DEF LineInv
  <2> QED
    BY <2>2, <2>3 DEF next
<1>6. Collected'
  <2> DEFINE S == {RuleOf(Written(p)) : p \in Ruling}
  <2>1. /\ rules \in Seq(S) /\ Len(rules) = Cardinality(Parsed)
        /\ \A p \in Parsed : rules[Place(p)] = RuleOf(Written(p)) /\ ~NoRuleIn(Written(p))
    BY <1>1 DEF Collected
  <2>2. SUFFICES /\ rules' \in Seq(S) /\ Len(rules') = Cardinality(Parsed')
                 /\ \A p \in Parsed' : /\ rules'[Place(p)] = RuleOf(Written(p))
                                       /\ ~NoRuleIn(Written(p))
    BY <1>3 DEF Collected
  <2>3. CASE Written(line - 1) = <<>>
    BY <1>5, <2>1, <2>3
  <2>4. CASE Written(line - 1) # <<>>
    <3> DEFINE rule == RuleOf(Written(line - 1))
    <3>1. /\ Parsed' = Parsed \cup {line - 1} /\ line - 1 \in Ruling
          /\ ~NoRuleIn(Written(line - 1)) /\ rules' = Append(rules, rule)
      BY <1>5, <2>4
    <3>2. rule \in S
      BY <3>1
    <3>3. /\ IsFiniteSet(Parsed) /\ Cardinality(Parsed) \in Nat /\ line - 1 \notin Parsed
          /\ Place(line - 1) = Cardinality(Parsed) + 1
          /\ \A p \in Parsed : Place(p) \in 1 .. Cardinality(Parsed)
      BY <1>1, <3>1, PlaceFacts
    <3>4. Cardinality(Parsed') = Cardinality(Parsed) + 1
      BY <3>1, <3>3, FS_AddElement
    <3> HIDE DEF S, rule
    <3>5. /\ rules' \in Seq(S) /\ Len(rules') = Len(rules) + 1
          /\ \A i \in 1 .. Len(rules) : rules'[i] = rules[i]
          /\ rules'[Len(rules) + 1] = rule
      BY <2>1, <3>1, <3>2, AppendProperties
    <3>6. ASSUME NEW p \in Parsed'
          PROVE  rules'[Place(p)] = RuleOf(Written(p)) /\ ~NoRuleIn(Written(p))
      <4>1. CASE p \in Parsed
        <5>1. Place(p) \in 1 .. Len(rules)
          BY <2>1, <3>3, <4>1
        <5> QED
          BY <2>1, <3>5, <4>1, <5>1
      <4>2. CASE p = line - 1
        <5>1. Place(p) = Len(rules) + 1
          BY <2>1, <3>3, <4>2
        <5> QED
          BY <3>1, <3>5, <4>2, <5>1 DEF rule
      <4> QED
        BY <3>1, <4>1, <4>2
    <3> QED
      BY <2>1, <3>4, <3>5, <3>6
  <2> QED
    BY <2>3, <2>4
<1>7. (\A i \in DOMAIN rulesText : rulesText[i] # "NUL")'
  BY <1>2 DEF RulesInv
<1> QED
  BY <1>2, <1>3, <1>5, <1>6, <1>7 DEF RulesInv, RulesAsWritten

\* A line that is no rule, or a regexp that does not compile.
LEMMA FailLine ==
    ASSUME RulesInv, BufferInv', rulesEnd \in {"line", "rule"}, Fail,
           Written(line - 1) # <<>>, NoRuleIn(Written(line - 1))
    PROVE  RulesInv'
<1>1. LineInv /\ line \in 1 .. Len(rulesText) + 1
      /\ \A i \in DOMAIN rulesText : rulesText[i] # "NUL"
  BY DEF RulesInv
<1>2. rulesText' = rulesText /\ rulesEnd' = "rejected" /\ rules' = <<>> /\ line' = line
  BY DEF Fail
<1>3. Ruling' = Ruling /\ \A p : Written(p)' = Written(p)
  BY <1>2, SameText
<1>4. line - 1 \in Ruling
  BY <1>1 DEF LineInv, Ruling
<1>5. RulesAsWritten'
  BY <1>2, <1>3, <1>4 DEF RulesAsWritten
<1> QED
  BY <1>1, <1>2, <1>5 DEF RulesInv

LEMMA InitRules == RulesInit => RulesInv
<1> SUFFICES ASSUME NEW text \in RulesDocuments, RulesStart(text) PROVE RulesInv
  BY DEF RulesInit
<1>1. BufferInv
  BY InitBuffer DEF RulesInit
<1>2. /\ rulesText = text /\ line = 1 /\ rulesEnd = "lines" /\ rules = <<>>
      /\ text \in Seq(STRING) /\ \A i \in DOMAIN text : text[i] # "NUL"
  BY RulesAssumption DEF RulesStart
<1>3. Len(text) \in Nat
  BY <1>2
<1>4. 1 \in 1 .. Len(rulesText) + 1 /\ line - 1 \in RuleLines
  BY <1>2, <1>3 DEF RuleLines
<1>5. Parsed = {}
  <2>1. \A p \in Ruling : ~(p + 1 < 1)
    BY <1>2, RulingFacts
  <2> QED
    BY <1>2, <2>1 DEF Parsed
<1>6. Collected
  BY <1>2, <1>5, FS_EmptySet DEF Collected
<1> QED
  BY <1>1, <1>2, <1>4, <1>6 DEF RulesInv, RulesAsWritten

LEMMA IsolateStep ==
    ASSUME RulesInv, BufferInv', IsolateLine
    PROVE  RulesInv'
<1>1. /\ rulesEnd = "lines" /\ line <= Len(buf) /\ lineCut' = Saved(LineEnd)
      /\ buf' = WithNul({LineEnd}) /\ rulesEnd' = "line"
      /\ rulesText' = rulesText /\ line' = line /\ rules' = rules
  BY DEF IsolateLine
<1>2. /\ buf = rulesText /\ rulesText \in Seq(STRING) /\ line \in 1 .. Len(rulesText) + 1
      /\ \A i \in DOMAIN rulesText : rulesText[i] # "NUL"
      /\ Collected /\ (line - 1 \in RuleLines \/ line = Len(rulesText) + 1)
  BY <1>1 DEF RulesInv, BufferInv
<1>3. Len(rulesText) \in Nat /\ DOMAIN rulesText = 1 .. Len(rulesText)
  BY <1>2
<1>4. OnLine /\ line - 1 \in RuleLines /\ line <= Len(rulesText)
  BY <1>1, <1>2, <1>3 DEF OnLine
<1>5. buf = CutAt({})
  BY <1>2 DEF CutAt
<1>6. LineEnd = Ends
  BY <1>4, <1>5, LineEndIs
<1>7. Ends \in line .. Len(rulesText) + 1 /\ (Ends <= Len(rulesText) => rulesText[Ends] = "NL")
  BY <1>2, EndFacts DEF Ends
<1>8. Char(Ends) = IF Ends <= Len(rulesText) THEN "NL" ELSE "NUL"
  <2>1. Ends \in DOMAIN buf <=> Ends <= Len(rulesText)
    BY <1>2, <1>3, <1>7
  <2> QED
    BY <1>2, <1>7, <2>1 DEF Char
<1>9. buf' = CutAt({Ends})
  BY <1>1, <1>2, <1>6 DEF WithNul, CutAt
<1>10. /\ Ruling' = Ruling /\ RuleLines' = RuleLines
       /\ \A p : Place(p)' = Place(p) /\ Written(p)' = Written(p)
  BY <1>1, SameText
<1>11. Ends' = Ends
  BY <1>1 DEF Ends, EndFrom
<1>12. LineInv'
  BY <1>1, <1>4, <1>6, <1>8, <1>10, <1>11 DEF LineInv, Saved
<1>13. (buf = CutAt({Ends}))'
  BY <1>1, <1>9, <1>11 DEF CutAt
<1>14. Parsed' = Parsed
  BY <1>1, <1>10 DEF Parsed
<1>15. Collected'
  BY <1>1, <1>2, <1>10, <1>14 DEF Collected
<1>16. (\A i \in DOMAIN rulesText : rulesText[i] # "NUL")' /\ (line \in 1 .. Len(rulesText) + 1)'
  BY <1>1, <1>2
<1> QED
  BY <1>1, <1>12, <1>13, <1>15, <1>16 DEF RulesInv, RulesAsWritten

LEMMA CutStep ==
    ASSUME RulesInv, BufferInv', CutRule
    PROVE  RulesInv'
<1>1. /\ rulesEnd = "line" /\ ~IsEmpty /\ HasRegexp
      /\ buf' = WithNul({RegexpEnd, ValueEnd})
      /\ starts' = [regexp |-> RegexpStart, value |-> ValueStart]
      /\ rulesEnd' = "rule" /\ rulesText' = rulesText /\ line' = line
      /\ lineCut' = lineCut /\ rules' = rules
  BY DEF CutRule
<1>2. OnLine /\ LineInv /\ Collected /\ buf = CutAt({Ends})
  BY <1>1 DEF RulesInv, BufferInv, OnLine, LineInv
<1>3. /\ WithNul({RegexpEnd, ValueEnd}) = CutAt({Ends, RegexpEnd, ValueEnd})
      /\ RuleAt(RegexpStart, RegexpEnd, ValueStart, ValueEnd)
  BY <1>1, <1>2, CutFinds
<1>4. Written(line - 1) # <<>>
  BY <1>1, <1>2, LineWritten
<1>5. ArrowIn(Written(line - 1)) \notin {1, Len(Written(line - 1)) + 1}
  BY <1>1, <1>2, LineArrow
<1>6. /\ Ruling' = Ruling /\ RuleLines' = RuleLines
      /\ \A p : Place(p)' = Place(p) /\ Written(p)' = Written(p)
  BY <1>1, SameText
<1>7. Ends' = Ends
  BY <1>1 DEF Ends, EndFrom
<1>8. LineInv'
  BY <1>1, <1>2, <1>6, <1>7 DEF LineInv
<1>9. Collected'
  <2>1. Parsed' = Parsed
    BY <1>1, <1>6 DEF Parsed
  <2> QED
    BY <1>1, <1>2, <1>6, <2>1 DEF Collected
<1>10. RuleInv'
  <2>1. PICK a, r, x, v : a = RegexpStart /\ r = RegexpEnd /\ x = ValueStart /\ v = ValueEnd
    OBVIOUS
  <2>2. buf' = CutAt({Ends, r, v}) /\ RuleAt(a, r, x, v)
        /\ starts' = [regexp |-> a, value |-> x]
    BY <1>1, <1>3, <2>1
  <2>3. line \in Nat /\ Ends \in Nat
    BY <1>2, OnLineFacts
  <2>4. r \in Nat /\ v \in Nat
    BY <2>2, <2>3 DEF RuleAt
  <2>5. starts'.regexp = a /\ starts'.value = x
    BY <2>2
  <2>6. (buf = CutAt({Ends, r, v}))'
    BY <1>1, <1>7, <2>2 DEF CutAt
  <2>7. RuleAt(starts.regexp, r, starts.value, v)'
    BY <1>1, <1>6, <1>7, <2>2, <2>5 DEF RuleAt
  <2>8. (Written(line - 1) # <<>>)'
        /\ (ArrowIn(Written(line - 1)) \notin {1, Len(Written(line - 1)) + 1})'
    BY <1>1, <1>4, <1>5, <1>6
  <2> QED
    BY <2>4, <2>6, <2>7, <2>8 DEF RuleInv
<1>11. (\A i \in DOMAIN rulesText : rulesText[i] # "NUL")' /\ (line \in 1 .. Len(rulesText) + 1)'
  BY <1>1 DEF RulesInv
<1> QED
  BY <1>1, <1>8, <1>9, <1>10, <1>11 DEF RulesInv, RulesAsWritten

\* The strings the code reads are those of the rule.
LEMMA StringsAreRule ==
    ASSUME RulesInv, rulesEnd = "rule"
    PROVE  /\ Regexp = RuleOf(Written(line - 1)).regexp
           /\ Value = RuleOf(Written(line - 1)).value
           /\ RuleOf(Written(line - 1)) = [regexp |-> Regexp, value |-> Value]
<1> DEFINE T == rulesText
<1>1. OnLine /\ RuleInv
  BY DEF RulesInv, BufferInv, OnLine, LineInv
<1>2. PICK r, v \in Nat : buf = CutAt({Ends, r, v}) /\ RuleAt(starts.regexp, r, starts.value, v)
  BY <1>1 DEF RuleInv
<1> DEFINE a == starts.regexp
           x == starts.value
           X == {Ends, r, v}
<1>3. Len(T) \in Nat /\ line \in Nat /\ line >= 1 /\ Ends \in line .. Len(T) + 1
  BY <1>1, OnLineFacts
<1> HIDE DEF a, x
<1>4. /\ a \in line .. r /\ r \in a + 1 .. x - 1 /\ x \in r + 1 .. v /\ v \in x .. Ends
      /\ RuleOf(Written(line - 1)) = [regexp |-> SubSeq(T, a, r - 1), value |-> SubSeq(T, x, v - 1)]
  BY <1>2 DEF RuleAt, a, x
<1>5. a \in Nat /\ x \in Nat /\ a < r /\ r < x /\ x <= v /\ v <= Ends /\ Ends \in Nat
  BY <1>3, <1>4
<1>6. X \in SUBSET (1 .. Len(T) + 1)
  BY <1>3, <1>4, <1>5
<1>7. StrAt(a) = SubSeq(T, a, r - 1)
  <2>1. /\ a \in 1 .. Len(T) + 1 /\ r - 1 \in a - 1 .. Len(T)
        /\ (r - 1) + 1 \in X \cup {Len(T) + 1} /\ X \cap (a .. r - 1) = {}
    BY <1>3, <1>4, <1>5
  <2> HIDE DEF X
  <2> QED
    BY <1>1, <1>2, <1>6, <2>1, StringIs DEF X
<1>8. StrAt(x) = SubSeq(T, x, v - 1)
  <2>1. /\ x \in 1 .. Len(T) + 1 /\ v - 1 \in x - 1 .. Len(T)
        /\ (v - 1) + 1 \in X \cup {Len(T) + 1} /\ X \cap (x .. v - 1) = {}
    BY <1>3, <1>4, <1>5
  <2> HIDE DEF X
  <2> QED
    BY <1>1, <1>2, <1>6, <2>1, StringIs DEF X
<1> QED
  BY <1>4, <1>7, <1>8 DEF Regexp, Value, a, x

LEMMA NextRules == RulesInv /\ BufferInv' /\ [RulesNext]_rulesVars => RulesInv'
<1> SUFFICES ASSUME RulesInv, BufferInv', [RulesNext]_rulesVars PROVE RulesInv'
  OBVIOUS
<1>1. rulesEnd = "line" => OnLine /\ buf = CutAt({Ends})
  BY DEF RulesInv, BufferInv, OnLine, LineInv
<1>2. CASE IsolateLine
  BY <1>2, IsolateStep
<1>3. CASE SkipEmpty
  BY <1>1, <1>3, LeaveLine, LineWritten DEF SkipEmpty
<1>4. CASE NoRule
  <2>1. Written(line - 1) # <<>>
    BY <1>1, <1>4, LineWritten DEF NoRule
  <2>2. NoRuleIn(Written(line - 1))
    BY <1>1, <1>4, LineArrow DEF NoRule, NoRuleIn
  <2> QED
    BY <1>4, <2>1, <2>2, FailLine DEF NoRule
<1>5. CASE CutRule
  BY <1>5, CutStep
<1>6. ASSUME rulesEnd = "rule"
      PROVE  /\ Written(line - 1) # <<>>
             /\ NoRuleIn(Written(line - 1)) <=> ~Compiles(Regexp)
             /\ RuleOf(Written(line - 1)) = [regexp |-> Regexp, value |-> Value]
  BY <1>6, StringsAreRule DEF RulesInv, RuleInv, NoRuleIn
<1>7. CASE AddRule
  BY <1>6, <1>7, LeaveLine DEF AddRule
<1>8. CASE BadRegexp
  BY <1>6, <1>8, FailLine DEF BadRegexp
<1>9. CASE EndRules
  <2>1. /\ rulesEnd = "lines" /\ line > Len(buf) /\ rulesEnd' = "parsed"
        /\ rulesText' = rulesText /\ line' = line /\ rules' = rules
    BY <1>9 DEF EndRules
  <2>2. /\ buf = rulesText /\ rulesText \in Seq(STRING) /\ line \in 1 .. Len(rulesText) + 1
        /\ Collected /\ \A i \in DOMAIN rulesText : rulesText[i] # "NUL"
    BY <2>1 DEF RulesInv, BufferInv
  <2>3. line = Len(rulesText) + 1 /\ Len(rulesText) \in Nat
    BY <2>1, <2>2
  <2>4. Parsed = Ruling
    <3>1. \A p \in Ruling : p + 1 < line
      BY <2>2, <2>3, RulingFacts
    <3> QED
      BY <3>1 DEF Parsed
  <2>5. Ruling' = Ruling /\ \A p : Place(p)' = Place(p) /\ Written(p)' = Written(p)
    BY <2>1, SameText
  <2>6. Parsed' = Parsed
    BY <2>1, <2>5 DEF Parsed
  <2>7. Collected' /\ RulesAsWritten'
    BY <2>1, <2>2, <2>4, <2>5, <2>6 DEF Collected, RulesAsWritten
  <2> QED
    BY <2>1, <2>2, <2>7 DEF RulesInv
<1>10. CASE UNCHANGED rulesVars
  <2>1. UNCHANGED <<rulesText, buf, line, lineCut, starts, rules, rulesEnd>>
    BY <1>10 DEF rulesVars, cuts
  <2>2. Ruling' = Ruling /\ RuleLines' = RuleLines
        /\ \A p : Place(p)' = Place(p) /\ Written(p)' = Written(p)
    BY <2>1, SameText
  <2>3. Ends' = Ends /\ Parsed' = Parsed
    BY <2>1, <2>2 DEF Ends, EndFrom, Parsed
  <2>4. Collected => Collected'
    BY <2>1, <2>2, <2>3 DEF Collected
  <2>5. LineInv => LineInv'
    BY <2>1, <2>2, <2>3 DEF LineInv
  <2>6. \A Y : CutAt(Y)' = CutAt(Y)
    BY <2>1 DEF CutAt
  <2>7. RuleInv => RuleInv'
    BY <2>1, <2>2, <2>3, <2>6 DEF RuleInv, RuleAt, CutAt
  <2>8. RulesAsWritten => RulesAsWritten'
    BY <2>1, <2>2 DEF RulesAsWritten
  <2>9. (buf = CutAt({Ends})) => (buf = CutAt({Ends}))'
    BY <2>1, <2>3 DEF CutAt
  <2> QED
    BY <2>1, <2>2, <2>4, <2>5, <2>7, <2>8, <2>9 DEF RulesInv
<1> QED
  BY <1>2, <1>3, <1>4, <1>5, <1>7, <1>8, <1>9, <1>10 DEF RulesNext

\* The rules are those of the lines of the document, though their strings are cut
\* out of a buffer that is restored after each line; or there are none.
THEOREM RulesParsed == RulesSpec => []RulesAsWritten
<1>1. BufferInv /\ RulesInv /\ [RulesNext]_rulesVars => BufferInv' /\ RulesInv'
  BY NextBuffer, NextRules
<1>2. RulesInv => RulesAsWritten
  BY DEF RulesInv
<1> QED
  BY <1>1, <1>2, InitBuffer, InitRules, PTL DEF RulesSpec

=============================================================================
