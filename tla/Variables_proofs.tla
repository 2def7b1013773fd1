-------------------------- MODULE Variables_proofs --------------------------
(***************************************************************************)
(* What becomes of variables, for every environment, every room and every  *)
(* JSON document: a dump reads back as the variables it is made of, and a  *)
(* document gives one variable per scalar.                                 *)
(*                                                                         *)
(* A text is read, a string is printed, and a path is followed and named   *)
(* by functions defined by recursion over positions.  That such a function *)
(* exists and has one value is shown with the least position at which it   *)
(* would not; then what is appended to a text is read from where the text  *)
(* left the reader (ReadOn), a string that was printed adds itself to what *)
(* was read (QuotedReads), and so does a variable (VariableReads).         *)
(*                                                                         *)
(* A walk of a document is followed by its position in each object on the  *)
(* path to what it walks: that gives its stack (StackOf) and what it has   *)
(* still to find (Pending), and each step moves the position by one item   *)
(* (Descended, Passed, Ascended).                                          *)
(***************************************************************************)
EXTENDS EnvObject, JsonFile, SequenceTheorems, FiniteSetTheorems, WellFoundedInduction, TLAPS

\* Sets of naturals have a least element.
LEMMA LeastElement ==
    ASSUME NEW T \in SUBSET Nat, T # {}
    PROVE  \E x \in T : \A k \in T : x <= k
<1> DEFINE R == {p \in Nat \X Nat : p[1] < p[2]}
<1>1. IsWellFoundedOn(R, Nat)
  BY NatLessThanWellFounded DEF OpToRel
<1>2. T \subseteq Nat
  OBVIOUS
<1>3. PICK x \in T : \A y \in T : ~(<<y, x>> \in R)
  BY <1>1, <1>2, WFMin
<1>4. ASSUME NEW y \in T PROVE x <= y
  <2>1. x \in Nat /\ y \in Nat /\ ~(<<y, x>> \in R)
    BY <1>2, <1>3
  <2>2. ~(y < x)
    BY <2>1
  <2> QED
    BY <2>1, <2>2
<1> QED
  BY <1>4

-----------------------------------------------------------------------------
(* What a reader of JSON makes of a text, one character after the other *)

\* The reader after each of the first n characters.
ReadsAs(text, n, g) ==
    g = [i \in 0 .. n |-> IF i = 0 THEN NothingRead ELSE ReadChar(g[i - 1], text[i])]

LEMMA ReadsExist == ASSUME NEW text, NEW n \in Nat PROVE \E g : ReadsAs(text, n, g)
<1> DEFINE D == {k \in Nat : ~\E g : ReadsAs(text, k, g)}
<1> SUFFICES D = {}
  OBVIOUS
<1> SUFFICES ASSUME D # {} PROVE FALSE
  OBVIOUS
<1>1. PICK m \in D : \A k \in D : m <= k
  BY LeastElement
<1>2. m \in Nat /\ ~\E g : ReadsAs(text, m, g)
  OBVIOUS
<1>3. CASE m = 0
  <2> DEFINE g == [i \in 0 .. 0 |-> NothingRead]
  <2>1. g = [i \in 0 .. 0 |-> IF i = 0 THEN NothingRead ELSE ReadChar(g[i - 1], text[i])]
    OBVIOUS
  <2>2. ReadsAs(text, 0, g)
    BY <2>1 DEF ReadsAs
  <2> QED
    BY <1>2, <1>3, <2>2
<1>4. CASE m # 0
  <2>1. m - 1 \in Nat /\ m - 1 \notin D
    BY <1>1, <1>2, <1>4
  <2>2. PICK g : ReadsAs(text, m - 1, g)
    BY <2>1
  <2>3. /\ g[0] = NothingRead
        /\ \A i \in 1 .. m - 1 : g[i] = ReadChar(g[i - 1], text[i])
    BY <2>1, <2>2 DEF ReadsAs
  <2> DEFINE h == [i \in 0 .. m |-> IF i = m THEN ReadChar(g[m - 1], text[m]) ELSE g[i]]
  <2>4. ASSUME NEW i \in 0 .. m
        PROVE  h[i] = IF i = 0 THEN NothingRead ELSE ReadChar(h[i - 1], text[i])
    <3>1. CASE i = 0
      BY <1>2, <1>4, <2>3, <3>1
    <3>2. CASE i # 0
      <4>1. i - 1 \in 0 .. m /\ i - 1 # m /\ h[i - 1] = g[i - 1]
        BY <1>2, <3>2
      <4>2. CASE i = m
        BY <3>2, <4>1, <4>2
      <4>3. CASE i # m
        <5>1. i \in 1 .. m - 1
          BY <1>2, <3>2, <4>3
        <5> QED
          BY <2>3, <3>2, <4>1, <4>3, <5>1
      <4> QED
        BY <4>2, <4>3
    <3> QED
      BY <3>1, <3>2
  <2>5. h = [i \in 0 .. m |-> IF i = 0 THEN NothingRead ELSE ReadChar(h[i - 1], text[i])]
    BY <2>4
  <2> HIDE DEF h
  <2>6. ReadsAs(text, m, h)
    BY <2>5 DEF ReadsAs
  <2> QED
    BY <1>2, <2>6
<1> QED
  BY <1>3, <1>4

\* Texts that begin alike are read alike.
LEMMA ReadsAgree ==
    ASSUME NEW s, NEW t, NEW n \in Nat, NEW m \in Nat, n <= m,
           NEW g, NEW h, ReadsAs(s, n, g), ReadsAs(t, m, h), \A i \in 1 .. n : s[i] = t[i]
    PROVE  g[n] = h[n]
<1> DEFINE D == {k \in 0 .. n : g[k] # h[k]}
<1> SUFFICES ASSUME D # {} PROVE FALSE
  OBVIOUS
<1>0. D \in SUBSET Nat
  OBVIOUS
<1>1. PICK k \in D : \A j \in D : k <= j
  BY <1>0, LeastElement
<1>2. k \in 0 .. n /\ g[k] # h[k]
  OBVIOUS
<1>3. /\ g[k] = IF k = 0 THEN NothingRead ELSE ReadChar(g[k - 1], s[k])
      /\ h[k] = IF k = 0 THEN NothingRead ELSE ReadChar(h[k - 1], t[k])
  BY <1>2 DEF ReadsAs
<1>4. k # 0
  BY <1>2, <1>3
<1>5. k - 1 \in 0 .. n /\ k - 1 \notin D /\ k \in 1 .. n
  BY <1>1, <1>2, <1>4
<1>6. g[k - 1] = h[k - 1] /\ s[k] = t[k]
  BY <1>5
<1> QED
  BY <1>2, <1>3, <1>4, <1>6

LEMMA ReadingIs ==
    ASSUME NEW text, Len(text) \in Nat
    PROVE  \E g : ReadsAs(text, Len(text), g) /\ Reading(text) = g[Len(text)]
<1>1. \E g : ReadsAs(text, Len(text), g)
  BY ReadsExist
<1> DEFINE f == CHOOSE g : ReadsAs(text, Len(text), g)
<1>2. ReadsAs(text, Len(text), f)
  BY <1>1
<1>3. Reading(text) = f[Len(text)]
  BY DEF Reading, ReadsAs
<1> QED
  BY <1>2, <1>3

\* What follows a text is read from where the text has left the reader.
LEMMA ReadOn ==
    ASSUME NEW C, NEW t \in Seq(C), NEW u \in Seq(C)
    PROVE  \E g : /\ g[0] = Reading(t) /\ g[Len(u)] = Reading(t \o u)
                  /\ \A k \in 1 .. Len(u) : g[k] = ReadChar(g[k - 1], u[k])
<1> DEFINE w == t \o u
<1>1. /\ Len(t) \in Nat /\ Len(u) \in Nat /\ Len(w) = Len(t) + Len(u)
      /\ \A i \in 1 .. Len(t) : w[i] = t[i]
      /\ \A k \in 1 .. Len(u) : w[Len(t) + k] = u[k]
  BY ConcatProperties
<1> HIDE DEF w
<1>2. PICK a : ReadsAs(t, Len(t), a) /\ Reading(t) = a[Len(t)]
  BY <1>1, ReadingIs
<1>3. Len(w) \in Nat /\ Len(t) <= Len(w)
  BY <1>1
<1>4. PICK b : ReadsAs(w, Len(w), b) /\ Reading(w) = b[Len(w)]
  BY <1>3, ReadingIs
<1>5. a[Len(t)] = b[Len(t)]
  BY <1>1, <1>2, <1>3, <1>4, ReadsAgree
<1> DEFINE g == [k \in 0 .. Len(u) |-> b[Len(t) + k]]
<1>6. g[0] = Reading(t) /\ g[Len(u)] = Reading(w)
  BY <1>1, <1>2, <1>4, <1>5
<1>7. ASSUME NEW k \in 1 .. Len(u) PROVE g[k] = ReadChar(g[k - 1], u[k])
  <2>1. /\ g[k] = b[Len(t) + k] /\ g[k - 1] = b[(Len(t) + k) - 1]
        /\ Len(t) + k \in 0 .. Len(w) /\ Len(t) + k # 0
    BY <1>1
  <2>2. b[Len(t) + k] = ReadChar(b[(Len(t) + k) - 1], w[Len(t) + k])
    BY <1>4, <2>1 DEF ReadsAs
  <2> QED
    BY <1>1, <2>1, <2>2
<1> HIDE DEF g
<1> QED
  BY <1>6, <1>7 DEF w

LEMMA ReadNothing == Reading(<<>>) = NothingRead
<1>1. Len(<<>>) = 0
  OBVIOUS
<1>2. PICK g : ReadsAs(<<>>, 0, g) /\ Reading(<<>>) = g[0]
  BY <1>1, ReadingIs
<1> QED
  BY <1>2 DEF ReadsAs

\* One character.
LEMMA ReadOne ==
    ASSUME NEW C, NEW t \in Seq(C), NEW c \in C
    PROVE  Reading(t \o <<c>>) = ReadChar(Reading(t), c)
<1> DEFINE u == <<c>>
<1>1. u \in Seq(C) /\ Len(u) = 1 /\ u[1] = c
  OBVIOUS
<1> HIDE DEF u
<1>2. PICK g : /\ g[0] = Reading(t) /\ g[Len(u)] = Reading(t \o u)
               /\ \A k \in 1 .. Len(u) : g[k] = ReadChar(g[k - 1], u[k])
  BY <1>1, ReadOn
<1>3. g[1] = ReadChar(g[0], c)
  BY <1>1, <1>2
<1> QED
  BY <1>1, <1>2, <1>3 DEF u

-----------------------------------------------------------------------------
(* Strings as they are printed *)

\* The characters of a dump.
Chars == STRING \cup {"QUOTE", "BACKSLASH", "u", "0", "{", "}", ",", ":"}

\* A character goes to the last string.
LEMMA LastGrows ==
    ASSUME NEW C, NEW r \in Seq(Seq(C)), NEW s \in Seq(C), NEW c \in C
    PROVE  [Append(r, s) EXCEPT ![Len(Append(r, s))] = Append(@, c)] = Append(r, Append(s, c))
<1> DEFINE a == Append(r, s)
           x == [a EXCEPT ![Len(a)] = Append(@, c)]
           y == Append(r, Append(s, c))
           n == Len(r) + 1
<1>1. /\ a \in Seq(Seq(C)) /\ Len(a) = n /\ n \in Nat /\ a[n] = s
      /\ \A i \in 1 .. Len(r) : a[i] = r[i]
  BY AppendProperties
<1>2. /\ y \in Seq(Seq(C)) /\ Len(y) = n /\ y[n] = Append(s, c)
      /\ \A i \in 1 .. Len(r) : y[i] = r[i]
  BY AppendProperties
<1> HIDE DEF a, y
<1>3. x \in Seq(Seq(C)) /\ Len(x) = n /\ x[n] = Append(s, c)
      /\ \A i \in 1 .. Len(r) : x[i] = r[i]
  <2>1. DOMAIN a = 1 .. n
    BY <1>1
  <2>2. x = [i \in 1 .. n |-> IF i = n THEN Append(s, c) ELSE a[i]]
    BY <1>1, <2>1
  <2>3. \A i \in 1 .. n : (IF i = n THEN Append(s, c) ELSE a[i]) \in Seq(C)
    BY <1>1
  <2> HIDE DEF x
  <2>4. x \in Seq(Seq(C)) /\ Len(x) = n
    BY <1>1, <2>2, <2>3
  <2> QED
    BY <1>1, <2>2, <2>4
<1> HIDE DEF x
<1>4. ASSUME NEW i \in 1 .. n PROVE x[i] = y[i]
  <2>1. i \in 1 .. Len(r) \/ i = n
    OBVIOUS
  <2> QED
    BY <1>1, <1>2, <1>3, <2>1
<1>5. x = y
  BY <1>2, <1>3, <1>4, SeqEqual
<1> QED
  BY <1>5 DEF a, x, y

\* The steps of the reader.
Reader(m, r, l) == [mode |-> m, read |-> r, left |-> l]
Grown(r, c) == [r EXCEPT ![Len(r)] = Append(@, c)]

LEMMA ReadOutside ==
    ASSUME NEW r, NEW l
    PROVE  /\ ReadChar(Reader("out", r, l), "QUOTE") = Reader("in", Append(r, <<>>), l)
           /\ \A c : c # "QUOTE" => ReadChar(Reader("out", r, l), c) = Reader("out", r, l)
BY DEF ReadChar, Reader, Grown

LEMMA ReadInside ==
    ASSUME NEW r, NEW l
    PROVE  /\ ReadChar(Reader("in", r, l), "BACKSLASH") = Reader("escape", r, l)
           /\ ReadChar(Reader("in", r, l), "QUOTE") = Reader("out", r, l)
           /\ \A c : c \notin {"QUOTE", "BACKSLASH"} =>
                  ReadChar(Reader("in", r, l), c)
                      = Reader("in", Grown(r, c), l)
BY DEF ReadChar, Reader, Grown

LEMMA ReadEscaped ==
    ASSUME NEW r, NEW l
    PROVE  /\ ReadChar(Reader("escape", r, l), "u") = Reader("digits", r, 4)
           /\ \A c : c # "u" =>
                  ReadChar(Reader("escape", r, l), c)
                      = Reader("in", Grown(r, c), l)
BY DEF ReadChar, Reader, Grown

LEMMA ReadDigit ==
    ASSUME NEW r, NEW l \in Int, NEW c
    PROVE  ReadChar(Reader("digits", r, l), c) =
               IF l > 1 THEN Reader("digits", r, l - 1)
               ELSE Reader("in", Grown(r, c), l)
<1>1. CASE l > 1
  BY <1>1 DEF ReadChar, Reader
<1>2. CASE ~(l > 1)
  <2> DEFINE x == Reader("digits", r, l)
  <2>1. /\ x.mode = "digits" /\ x.read = r /\ x.left = l
        /\ x = [mode |-> x.mode, read |-> r, left |-> l]
    BY DEF Reader
  <2> HIDE DEF x
  <2>2. ReadChar(x, c) = [x EXCEPT !.mode = "in", !.read[Len(r)] = Append(@, c)]
    BY <1>2, <2>1 DEF ReadChar
  <2>3. ReadChar(x, c) = Reader("in", Grown(r, c), l)
    BY <2>1, <2>2 DEF Reader, Grown
  <2> QED
    BY <1>2, <2>3 DEF x
<1> QED
  BY <1>1, <1>2

\* One character of a string reads back as itself.
LEMMA EscapedReads ==
    ASSUME NEW t \in Seq(Chars), NEW r \in Seq(Seq(Chars)), NEW s \in Seq(Chars), NEW l \in Int,
           Reading(t) = Reader("in", Append(r, s), l), NEW c \in Chars
    PROVE  /\ Escaped(c) \in Seq(Chars)
           /\ \E m \in Int : Reading(t \o Escaped(c)) = Reader("in", Append(r, Append(s, c)), m)
<1> DEFINE e == Escaped(c)
           R == Append(r, s)
           Q == Append(r, Append(s, c))
<1>1. Grown(R, c) = Q
  BY LastGrows DEF Grown
<1>2. "QUOTE" \notin Letters /\ "BACKSLASH" \notin Letters
  BY EnvAssumption
<1>3. e \in Seq(Chars)
  <2>1. "BACKSLASH" \in Chars /\ "u" \in Chars /\ "0" \in Chars
    BY DEF Chars
  <2>2. /\ <<c>> \in Seq(Chars) /\ <<"BACKSLASH", c>> \in Seq(Chars)
        /\ <<"BACKSLASH", "u", "0", "0", c, c>> \in Seq(Chars)
    BY <2>1
  <2> QED
    BY <2>2 DEF Escaped
<1> HIDE DEF e, R, Q
<1>4. PICK g : /\ g[0] = Reading(t) /\ g[Len(e)] = Reading(t \o e)
               /\ \A k \in 1 .. Len(e) : g[k] = ReadChar(g[k - 1], e[k])
  BY <1>3, ReadOn
<1>5. g[0] = Reader("in", R, l)
  BY <1>4 DEF R
<1>6. ASSUME NEW m \in Int, g[Len(e)] = Reader("in", Q, m)
      PROVE  \E k \in Int : Reading(t \o e) = Reader("in", Append(r, Append(s, c)), k)
  BY <1>4, <1>6 DEF Q
<1>7. CASE c \in Letters
  <2>1. e = <<c>> /\ c \notin {"QUOTE", "BACKSLASH"}
    BY <1>2, <1>7 DEF e, Escaped
  <2>2. Len(e) = 1 /\ e[1] = c
    BY <2>1
  <2>3. g[1] = ReadChar(g[0], c)
    BY <1>4, <2>2
  <2>4. g[1] = Reader("in", Q, l)
    BY <1>1, <1>5, <2>1, <2>3, ReadInside
  <2> QED
    BY <1>3, <1>6, <2>2, <2>4 DEF e
<1>8. CASE c \notin Letters /\ c \in {"QUOTE", "BACKSLASH"}
  <2>1. e = <<"BACKSLASH", c>> /\ c # "u"
    BY <1>8 DEF e, Escaped
  <2>2. g[1] = ReadChar(g[0], "BACKSLASH") /\ g[2] = ReadChar(g[1], c) /\ Len(e) = 2
    BY <1>4, <2>1
  <2>3. g[1] = Reader("escape", R, l)
    BY <1>5, <2>2, ReadInside
  <2>4. g[2] = Reader("in", Q, l)
    BY <1>1, <2>1, <2>2, <2>3, ReadEscaped
  <2> QED
    BY <1>3, <1>6, <2>2, <2>4 DEF e
<1>9. CASE c \notin Letters /\ c \notin {"QUOTE", "BACKSLASH"}
  <2>1. e = <<"BACKSLASH", "u", "0", "0", c, c>>
    BY <1>9 DEF e, Escaped
  <2>2. /\ g[1] = ReadChar(g[0], "BACKSLASH") /\ g[2] = ReadChar(g[1], "u")
        /\ g[3] = ReadChar(g[2], "0") /\ g[4] = ReadChar(g[3], "0")
        /\ g[5] = ReadChar(g[4], c) /\ g[6] = ReadChar(g[5], c) /\ Len(e) = 6
    BY <1>4, <2>1
  <2>3. g[1] = Reader("escape", R, l)
    BY <1>5, <2>2, ReadInside
  <2>4. g[2] = Reader("digits", R, 4)
    BY <2>2, <2>3, ReadEscaped
  <2>5. g[3] = Reader("digits", R, 3)
    BY <2>2, <2>4, ReadDigit
  <2>6. g[4] = Reader("digits", R, 2)
    BY <2>2, <2>5, ReadDigit
  <2>7. g[5] = Reader("digits", R, 1)
    BY <2>2, <2>6, ReadDigit
  <2>8. g[6] = Reader("in", Q, 1)
    BY <1>1, <2>2, <2>7, ReadDigit
  <2> QED
    BY <1>3, <1>6, <2>2, <2>8 DEF e
<1> QED
  BY <1>3, <1>7, <1>8, <1>9 DEF e

Longer(u, c) == u \o Escaped(c)

\* The text of a string after each of its first n characters.
QuotesAs(s, n, g) ==
    g = [i \in 0 .. n |-> IF i = 0 THEN Mark ELSE Longer(g[i - 1], s[i])]

LEMMA QuotesExist == ASSUME NEW s, NEW n \in Nat PROVE \E g : QuotesAs(s, n, g)
<1> DEFINE D == {k \in Nat : ~\E g : QuotesAs(s, k, g)}
<1> SUFFICES D = {}
  OBVIOUS
<1> SUFFICES ASSUME D # {} PROVE FALSE
  OBVIOUS
<1>1. PICK m \in D : \A k \in D : m <= k
  BY LeastElement
<1>2. m \in Nat /\ ~\E g : QuotesAs(s, m, g)
  OBVIOUS
<1>3. CASE m = 0
  <2> DEFINE g == [i \in 0 .. 0 |-> Mark]
  <2>1. g = [i \in 0 .. 0 |-> IF i = 0 THEN Mark ELSE Longer(g[i - 1], s[i])]
    OBVIOUS
  <2>2. QuotesAs(s, 0, g)
    BY <2>1 DEF QuotesAs
  <2> QED
    BY <1>2, <1>3, <2>2
<1>4. CASE m # 0
  <2>1. m - 1 \in Nat /\ m - 1 \notin D
    BY <1>1, <1>2, <1>4
  <2>2. PICK g : QuotesAs(s, m - 1, g)
    BY <2>1
  <2>3. /\ g[0] = Mark
        /\ \A i \in 1 .. m - 1 : g[i] = Longer(g[i - 1], s[i])
    BY <2>1, <2>2 DEF QuotesAs
  <2> DEFINE h == [i \in 0 .. m |-> IF i = m THEN Longer(g[m - 1], s[m]) ELSE g[i]]
  <2>4. ASSUME NEW i \in 0 .. m
        PROVE  h[i] = IF i = 0 THEN Mark ELSE Longer(h[i - 1], s[i])
    <3>1. CASE i = 0
      BY <1>2, <1>4, <2>3, <3>1
    <3>2. CASE i # 0
      <4>1. i - 1 \in 0 .. m /\ i - 1 # m /\ h[i - 1] = g[i - 1]
        BY <1>2, <3>2
      <4>2. CASE i = m
        BY <3>2, <4>1, <4>2
      <4>3. CASE i # m
        <5>1. i \in 1 .. m - 1
          BY <1>2, <3>2, <4>3
        <5> QED
          BY <2>3, <3>2, <4>1, <4>3, <5>1
      <4> QED
        BY <4>2, <4>3
    <3> QED
      BY <3>1, <3>2
  <2>5. h = [i \in 0 .. m |-> IF i = 0 THEN Mark ELSE Longer(h[i - 1], s[i])]
    BY <2>4
  <2> HIDE DEF h
  <2>6. QuotesAs(s, m, h)
    BY <2>5 DEF QuotesAs
  <2> QED
    BY <1>2, <2>6
<1> QED
  BY <1>3, <1>4


\* A string that is printed reads back as itself, whatever marks are in it.
LEMMA QuotedReads ==
    ASSUME NEW t \in Seq(Chars), NEW r \in Seq(Seq(Chars)), NEW l \in Int,
           Reading(t) = Reader("out", r, l), NEW s \in Seq(STRING)
    PROVE  /\ Quoted(s) \in Seq(Chars)
           /\ \E m \in Int : Reading(t \o Quoted(s)) = Reader("out", Append(r, s), m)
<1>1. /\ Len(s) \in Nat /\ s \in Seq(Chars) /\ Mark \in Seq(Chars) /\ "QUOTE" \in Chars
      /\ \A i \in 1 .. Len(s) : s[i] \in Chars
  <2>1. STRING \subseteq Chars /\ "QUOTE" \in Chars
    BY DEF Chars
  <2>2. s \in Seq(Chars)
    BY <2>1, SeqMonotonic
  <2>3. Mark \in Seq(Chars)
    BY <2>1 DEF Mark
  <2> QED
    BY <2>1, <2>2, <2>3, LenProperties, ElementOfSeq
<1> DEFINE q == CHOOSE g : QuotesAs(s, Len(s), g)
<1>2. QuotesAs(s, Len(s), q)
  BY <1>1, QuotesExist
<1>3. Quoted(s) = q[Len(s)] \o Mark
  BY DEF Quoted, QuotesAs, Longer
<1> HIDE DEF q
<1>4. q[0] = Mark /\ \A i \in 1 .. Len(s) : q[i] = Longer(q[i - 1], s[i])
  BY <1>1, <1>2 DEF QuotesAs
<1> DEFINE G == {i \in 0 .. Len(s) :
                     /\ q[i] \in Seq(Chars)
                     /\ \E m \in Int :
                            Reading(t \o q[i]) = Reader("in", Append(r, SubSeq(s, 1, i)), m)}
<1>5. 0 \in G
  <2>1. Reading(t \o Mark) = Reader("in", Append(r, <<>>), l)
    BY <1>1, ReadOne, ReadOutside DEF Mark
  <2>2. SubSeq(s, 1, 0) = <<>>
    BY SubSeqEmpty
  <2>3. q[0] \in Seq(Chars) /\ 0 \in 0 .. Len(s)
    BY <1>1, <1>4
  <2>4. Reading(t \o q[0]) = Reader("in", Append(r, SubSeq(s, 1, 0)), l)
    BY <1>4, <2>1, <2>2
  <2> QED
    BY <2>3, <2>4
<1>6. ASSUME NEW i \in 1 .. Len(s), i - 1 \in G PROVE i \in G
  <2> DEFINE u == q[i - 1]
             p == SubSeq(s, 1, i - 1)
             e == Escaped(s[i])
  <2>1. PICK m \in Int : Reading(t \o u) = Reader("in", Append(r, p), m)
    BY <1>6
  <2>2. u \in Seq(Chars) /\ t \o u \in Seq(Chars) /\ p \in Seq(Chars) /\ s[i] \in Chars
    <3>1. u \in Seq(Chars)
      BY <1>6
    <3>2. t \o u \in Seq(Chars)
      BY <3>1, ConcatProperties
    <3>3. 1 \in Int /\ i - 1 \in Int /\ \A j \in 1 .. i - 1 : s[j] \in Chars
      BY <1>1
    <3>4. p \in Seq(Chars)
      BY <3>3, SubSeqProperties
    <3> QED
      BY <1>1, <3>1, <3>2, <3>4
  <2> HIDE DEF u, p
  <2>3. /\ e \in Seq(Chars)
        /\ \E k \in Int : Reading((t \o u) \o e) = Reader("in", Append(r, Append(p, s[i])), k)
    BY <2>1, <2>2, EscapedReads
  <2> HIDE DEF e
  <2>4. (t \o u) \o e = t \o (u \o e) /\ u \o e \in Seq(Chars)
    <3>1. e \in Seq(Chars) /\ u \in Seq(Chars)
      BY <2>2, <2>3
    <3>2. (t \o u) \o e = t \o (u \o e)
      BY <3>1, ConcatAssociative
    <3> QED
      BY <2>2, <3>1, <3>2, ConcatProperties
  <2>5. Append(p, s[i]) = SubSeq(s, 1, i)
    <3>1. 1 \in 1 .. Len(s) /\ i \in 1 .. Len(s)
      BY <1>1
    <3>2. SubSeq(s, 1, i) = p \o <<s[i]>>
      BY <1>1, <3>1, SubSeqRecursiveSecond DEF p
    <3> QED
      BY <2>2, <3>2, AppendIsConcat
  <2>6. q[i] = u \o e
    BY <1>4 DEF u, e, Longer
  <2>7. \E k \in Int : Reading(t \o q[i]) = Reader("in", Append(r, SubSeq(s, 1, i)), k)
    BY <2>3, <2>4, <2>5, <2>6
  <2>8. q[i] \in Seq(Chars) /\ i \in 0 .. Len(s)
    BY <1>1, <2>4, <2>6
  <2> QED
    BY <2>7, <2>8
<1> HIDE DEF G
<1>7. ASSUME (0 .. Len(s)) \ G # {} PROVE FALSE
  <2>1. (0 .. Len(s)) \ G \in SUBSET Nat
    BY <1>1
  <2>2. PICK i \in (0 .. Len(s)) \ G : \A j \in (0 .. Len(s)) \ G : i <= j
    BY <1>7, <2>1, LeastElement
  <2>3. i \in 0 .. Len(s) /\ i \notin G
    BY <2>2
  <2>4. i # 0
    BY <1>5, <2>3
  <2>5. i \in 1 .. Len(s) /\ i - 1 \in 0 .. Len(s)
    BY <1>1, <2>3, <2>4
  <2>6. i - 1 \in G
    BY <1>1, <2>2, <2>5
  <2> QED
    BY <1>6, <2>3, <2>5, <2>6
<1>8. Len(s) \in G
  BY <1>1, <1>7
<1>9. PICK m \in Int :
          /\ q[Len(s)] \in Seq(Chars)
          /\ Reading(t \o q[Len(s)]) = Reader("in", Append(r, s), m)
  <2>1. SubSeq(s, 1, Len(s)) = s
    BY SubSeqFull
  <2> QED
    BY <1>8, <2>1 DEF G
<1> DEFINE u == q[Len(s)]
<1> HIDE DEF u
<1>10. u \in Seq(Chars) /\ t \o u \in Seq(Chars)
  <2>1. u \in Seq(Chars)
    BY <1>9 DEF u
  <2> QED
    BY <2>1, ConcatProperties
<1>11. Reading((t \o u) \o Mark) = Reader("out", Append(r, s), m)
  <2>1. Reading((t \o u) \o Mark) = ReadChar(Reading(t \o u), "QUOTE")
    BY <1>1, <1>10, ReadOne DEF Mark
  <2>2. Reading(t \o u) = Reader("in", Append(r, s), m)
    BY <1>9 DEF u
  <2> QED
    BY <2>1, <2>2, ReadInside
<1>12. (t \o u) \o Mark = t \o (u \o Mark) /\ u \o Mark \in Seq(Chars)
  <2>1. Mark \in Seq(Chars)
    BY <1>1
  <2>2. u \o Mark \in Seq(Chars)
    BY <1>10, <2>1, ConcatProperties
  <2>3. (t \o u) \o Mark = t \o (u \o Mark)
    BY <1>10, <2>1, ConcatAssociative
  <2> QED
    BY <2>2, <2>3
<1> QED
  BY <1>3, <1>11, <1>12 DEF u

LEMMA OneChar ==
    ASSUME NEW c \in Chars, NEW t \in Seq(Chars)
    PROVE  <<c>> \in Seq(Chars) /\ t \o <<c>> \in Seq(Chars)
<1>1. <<c>> \in Seq(Chars)
  OBVIOUS
<1> QED
  BY <1>1, ConcatProperties

LEMMA TwoMore ==
    ASSUME NEW S, NEW s \in Seq(S), NEW a \in S, NEW b \in S
    PROVE  Len(s \o <<a, b>>) = Len(s) + 2
<1> DEFINE e == <<a, b>>
<1>1. e \in Seq(S) /\ Len(e) = 2
  OBVIOUS
<1> HIDE DEF e
<1>2. Len(s \o e) = Len(s) + Len(e)
  BY <1>1, ConcatProperties
<1>3. Len(s \o e) = Len(s) + 2
  BY <1>1, <1>2
<1> QED
  BY <1>3 DEF e

\* A variable: an optional comma, the name, a colon and the value.
LEMMA VariableReads ==
    ASSUME NEW t \in Seq(Chars), NEW r \in Seq(Seq(Chars)), NEW l \in Int,
           Reading(t) = Reader("out", r, l), NEW comma \in {<<>>, <<",">>},
           NEW n \in Seq(STRING), NEW v \in Seq(STRING)
    PROVE  LET text == t \o comma \o Quoted(n) \o <<":">> \o Quoted(v) IN
           /\ text \in Seq(Chars) /\ Append(Append(r, n), v) \in Seq(Seq(Chars))
           /\ \E m \in Int : Reading(text) = Reader("out", Append(Append(r, n), v), m)
<1>1. STRING \subseteq Chars /\ "," \in Chars /\ ":" \in Chars
  BY DEF Chars
<1>2. n \in Seq(Chars) /\ v \in Seq(Chars)
  BY <1>1, SeqMonotonic
<1>3. Append(r, n) \in Seq(Seq(Chars)) /\ Append(Append(r, n), v) \in Seq(Seq(Chars))
  BY <1>2, AppendProperties
<1> DEFINE a == t \o comma
           b == a \o Quoted(n)
           c == b \o <<":">>
           d == c \o Quoted(v)
<1>4. a \in Seq(Chars) /\ Reading(a) = Reader("out", r, l)
  <2>1. CASE comma = <<>>
    <3>1. a = t
      BY <2>1, ConcatEmptySeq
    <3> QED
      BY <3>1
  <2>2. CASE comma = <<",">>
    <3>1. a \in Seq(Chars)
      BY <1>1, <2>2, OneChar
    <3>2. Reading(a) = ReadChar(Reading(t), ",")
      BY <1>1, <2>2, ReadOne
    <3> QED
      BY <3>1, <3>2, ReadOutside
  <2> QED
    BY <2>1, <2>2
<1> HIDE DEF a
<1>5. Quoted(n) \in Seq(Chars) /\ \E m \in Int : Reading(b) = Reader("out", Append(r, n), m)
  BY <1>4, QuotedReads
<1>6. PICK m \in Int : Reading(b) = Reader("out", Append(r, n), m)
  BY <1>5
<1>7. b \in Seq(Chars)
  BY <1>4, <1>5, ConcatProperties
<1> HIDE DEF b
<1>8. c \in Seq(Chars)
  BY <1>1, <1>7, OneChar
<1>9. Reading(c) = Reader("out", Append(r, n), m)
  <2>1. Reading(c) = ReadChar(Reading(b), ":")
    BY <1>1, <1>7, ReadOne
  <2>2. ":" # "QUOTE"
    OBVIOUS
  <2> QED
    BY <1>6, <2>1, <2>2, ReadOutside
<1> HIDE DEF c
<1>10. /\ Quoted(v) \in Seq(Chars)
       /\ \E k \in Int : Reading(d) = Reader("out", Append(Append(r, n), v), k)
  BY <1>3, <1>8, <1>9, QuotedReads
<1>11. d \in Seq(Chars)
  BY <1>8, <1>10, ConcatProperties
<1> QED
  BY <1>3, <1>10, <1>11 DEF a, b, c

\* The first k pairs of some strings.
Pairs(r, k) == {<<r[2 * i - 1], r[2 * i]>> : i \in 1 .. k}

LEMMA OnePairMore ==
    ASSUME NEW S, NEW r \in Seq(S), NEW n \in S, NEW v \in S, NEW k \in Nat, Len(r) = 2 * k
    PROVE  LET q == Append(Append(r, n), v) IN
           Len(q) = 2 * (k + 1) /\ Pairs(q, k + 1) = Pairs(r, k) \cup {<<n, v>>}
<1> DEFINE a == Append(r, n)
           q == Append(a, v)
<1>1. /\ a \in Seq(S) /\ Len(a) = 2 * k + 1 /\ a[2 * k + 1] = n
      /\ \A i \in 1 .. 2 * k : a[i] = r[i]
  BY AppendProperties
<1> HIDE DEF a
<1>2. /\ Len(q) = 2 * k + 2 /\ q[2 * k + 2] = v
      /\ \A i \in 1 .. 2 * k + 1 : q[i] = a[i]
  BY <1>1, AppendProperties
<1> HIDE DEF q
<1>3. q[2 * k + 1] = n
  <2>1. 2 * k + 1 \in 1 .. 2 * k + 1
    OBVIOUS
  <2> QED
    BY <1>1, <1>2, <2>1
<1>4. ASSUME NEW i \in 1 .. k PROVE q[2 * i - 1] = r[2 * i - 1] /\ q[2 * i] = r[2 * i]
  <2>1. 2 * i - 1 \in 1 .. 2 * k /\ 2 * i \in 1 .. 2 * k
    OBVIOUS
  <2>2. 2 * i - 1 \in 1 .. 2 * k + 1 /\ 2 * i \in 1 .. 2 * k + 1
    OBVIOUS
  <2> QED
    BY <1>1, <1>2, <2>1, <2>2
<1>5. <<q[2 * (k + 1) - 1], q[2 * (k + 1)]>> = <<n, v>>
  <2>1. 2 * (k + 1) - 1 = 2 * k + 1 /\ 2 * (k + 1) = 2 * k + 2
    OBVIOUS
  <2> QED
    BY <1>2, <1>3, <2>1
<1>6. \A i : i \in 1 .. k + 1 <=> i \in 1 .. k \/ i = k + 1
  OBVIOUS
<1>7. Pairs(q, k + 1) = {<<q[2 * i - 1], q[2 * i]>> : i \in 1 .. k} \cup {<<n, v>>}
  BY <1>5, <1>6 DEF Pairs
<1>8. {<<q[2 * i - 1], q[2 * i]>> : i \in 1 .. k} = Pairs(r, k)
  BY <1>4 DEF Pairs
<1> QED
  BY <1>2, <1>7, <1>8 DEF q, a

-----------------------------------------------------------------------------
(* The invariant of an env object *)

Dumped == Chosen \ todo

EnvLoaded ==
    /\ environ \in Seq((Seq(STRING) \X Seq(STRING)) \cup {Nameless})
    /\ IsFiniteSet(DOMAIN env)
    /\ \A n \in DOMAIN env : n \in Seq(STRING) /\ env[n] \in Seq(STRING)

\* What was written reads back as the variables dumped so far, in some order.
ReadsBack ==
    /\ out \in Seq(Chars) /\ Strings \in Seq(Seq(Chars))
    /\ \E l \in Int : Reading(out) = Reader("out", Strings, l)
    /\ Len(Strings) = 2 * Cardinality(Dumped)
    /\ Pairs(Strings, Cardinality(Dumped)) = {<<n, env[n]>> : n \in Dumped}

EnvInv ==
    /\ EnvLoaded
    /\ room \in Nat
    /\ envEnd \in {"dumping", "dumped"} => todo \subseteq Chosen /\ ReadsBack
    /\ envEnd = "dumped" => todo = {}
    /\ DumpFitsOrFails

LEMMA InvSound == EnvInv => DumpSound
<1> SUFFICES ASSUME EnvInv PROVE DumpReadsBack
  BY DEF EnvInv, DumpSound
<1> SUFFICES ASSUME envEnd = "dumped"
             PROVE  /\ Len(Strings) = 2 * Cardinality(Chosen)
                    /\ {<<Strings[2 * i - 1], Strings[2 * i]>> : i \in 1 .. Cardinality(Chosen)}
                           = {<<n, env[n]>> : n \in Chosen}
  BY DEF DumpReadsBack
<1>1. ReadsBack /\ todo = {}
  BY DEF EnvInv
<1>2. Dumped = Chosen
  BY <1>1 DEF Dumped
<1> QED
  BY <1>1, <1>2 DEF ReadsBack, Pairs

LEMMA InitEnv == EnvInit => EnvInv
<1> SUFFICES ASSUME NEW strings \in Environments, EnvStart(strings) PROVE EnvInv
  BY DEF EnvInit
<1>1. environ = strings /\ env = <<>> /\ envEnd = "loading" /\ room = 0
  BY DEF EnvStart
<1>2. environ \in Seq((Seq(STRING) \X Seq(STRING)) \cup {Nameless})
  BY <1>1, EnvAssumption
<1>3. DOMAIN env = {}
  BY <1>1
<1>4. IsFiniteSet(DOMAIN env)
  BY <1>3, FS_EmptySet
<1> QED
  BY <1>1, <1>2, <1>3, <1>4 DEF EnvInv, EnvLoaded, DumpFitsOrFails

LEMMA LoadStep == ASSUME EnvInv, LoadVariable PROVE EnvInv'
<1> DEFINE P == Seq(STRING) \X Seq(STRING)
<1>1. /\ envEnd = "loading" /\ environ # <<>> /\ environ' = Tail(environ)
      /\ prefix' = prefix /\ room' = room /\ stream' = stream /\ out' = out /\ todo' = todo
      /\ EnvLoaded /\ room \in Nat
  BY DEF LoadVariable, dumpVars, EnvInv
<1>2. environ \in Seq(P \cup {Nameless})
  BY <1>1 DEF EnvLoaded
<1>3. Head(environ) \in P \cup {Nameless} /\ environ' \in Seq(P \cup {Nameless})
  BY <1>1, <1>2, HeadTailProperties
<1>4. envEnd' \in {"loading", "aborted"}
  BY <1>1 DEF LoadVariable
<1>5. /\ IsFiniteSet(DOMAIN env')
      /\ \A n \in DOMAIN env' : n \in Seq(STRING) /\ env'[n] \in Seq(STRING)
  <2> DEFINE h == Head(environ)
  <2>1. CASE env' = env
    BY <1>1, <2>1 DEF EnvLoaded
  <2>2. CASE env' # env
    <3>1. /\ h # Nameless
          /\ env' = [n \in DOMAIN env \cup {h[1]} |-> IF n = h[1] THEN h[2] ELSE env[n]]
      BY <2>2 DEF LoadVariable
    <3>2. h[1] \in Seq(STRING) /\ h[2] \in Seq(STRING)
      BY <1>3, <3>1
    <3> HIDE DEF h
    <3>3. DOMAIN env' = DOMAIN env \cup {h[1]}
      BY <3>1
    <3>4. IsFiniteSet(DOMAIN env')
      BY <1>1, <3>3, FS_AddElement DEF EnvLoaded
    <3>5. ASSUME NEW n \in DOMAIN env' PROVE n \in Seq(STRING) /\ env'[n] \in Seq(STRING)
      BY <1>1, <3>1, <3>2, <3>3 DEF EnvLoaded
    <3> QED
      BY <3>4, <3>5
  <2> QED
    BY <2>1, <2>2
<1> QED
  BY <1>1, <1>3, <1>4, <1>5 DEF EnvInv, EnvLoaded, DumpFitsOrFails

LEMMA BeginStep ==
    ASSUME EnvInv, NEW p \in DumpPrefixes, NEW bytes \in Rooms, NEW streamed \in BOOLEAN,
           BeginDump(p, bytes, streamed)
    PROVE  EnvInv'
<1>1. /\ prefix' = p /\ room' = bytes /\ stream' = streamed /\ out' = <<"{">>
      /\ todo' = {n \in DOMAIN env : IsPrefix(p, n)}
      /\ envEnd' = IF bytes = 0 THEN "failed" ELSE "dumping"
      /\ environ' = environ /\ env' = env
  BY DEF BeginDump
<1>2. EnvLoaded' /\ room' \in Nat
  BY <1>1, EnvAssumption DEF EnvInv, EnvLoaded
<1>3. todo' = Chosen' /\ Dumped' = {}
  BY <1>1 DEF Chosen, Dumped
<1>4. "{" \in Chars /\ "{" # "QUOTE"
  BY DEF Chars
<1>5. out' \in Seq(Chars) /\ Reading(out') = NothingRead
  <2>1. <<>> \in Seq(Chars)
    BY EmptySeq
  <2>2. <<>> \o <<"{">> = <<"{">> /\ <<"{">> \in Seq(Chars)
    BY <1>4, <2>1, OneChar, ConcatEmptySeq
  <2>3. Reading(<<>> \o <<"{">>) = ReadChar(NothingRead, "{")
    BY <1>4, <2>1, ReadOne, ReadNothing
  <2>4. NothingRead = Reader("out", <<>>, 0)
    BY DEF NothingRead, Reader
  <2>5. ReadChar(NothingRead, "{") = NothingRead
    BY <1>4, <2>4, ReadOutside
  <2> QED
    BY <1>1, <2>2, <2>3, <2>5
<1>6. Reading(out)' = NothingRead /\ Strings' = <<>>
  BY <1>5 DEF Strings, NothingRead
<1>7. ReadsBack'
  <2>1. Cardinality(Dumped') = 0
    BY <1>3, FS_EmptySet
  <2>2. <<>> \in Seq(Seq(Chars)) /\ Len(<<>>) = 0
    BY EmptySeq
  <2>3. Reading(out)' = Reader("out", <<>>, 0)
    BY <1>6 DEF NothingRead, Reader
  <2>4. Pairs(<<>>, 0) = {}
    BY DEF Pairs
  <2>5. {<<n, env'[n]>> : n \in Dumped'} = {}
    BY <1>3
  <2> QED
    BY <1>5, <1>6, <2>1, <2>2, <2>3, <2>4, <2>5 DEF ReadsBack
<1>8. DumpFitsOrFails'
  BY <1>1 DEF DumpFitsOrFails
<1> QED
  BY <1>1, <1>2, <1>3, <1>7, <1>8 DEF EnvInv

LEMMA VariableStep ==
    ASSUME EnvInv, NEW n \in todo, DumpVariable(n)
    PROVE  EnvInv'
<1> DEFINE comma == IF out = <<"{">> THEN <<>> ELSE <<",">>
           text == out \o comma \o Quoted(n) \o <<":">> \o Quoted(env[n])
           k == Cardinality(Dumped)
<1>1. /\ envEnd = "dumping" /\ out' = text
      /\ envEnd' = IF FitsRoom(text) THEN "dumping" ELSE "cut"
      /\ todo' = todo \ {n}
      /\ environ' = environ /\ env' = env /\ prefix' = prefix /\ room' = room /\ stream' = stream
  BY DEF DumpVariable
<1>2. EnvLoaded /\ room \in Nat /\ todo \subseteq Chosen /\ ReadsBack
  BY <1>1 DEF EnvInv
<1>3. n \in DOMAIN env /\ n \in Seq(STRING) /\ env[n] \in Seq(STRING)
  BY <1>2 DEF Chosen, EnvLoaded
<1>4. PICK l \in Int : Reading(out) = Reader("out", Strings, l)
  BY <1>2 DEF ReadsBack
<1>5. out \in Seq(Chars) /\ Strings \in Seq(Seq(Chars))
  BY <1>2 DEF ReadsBack
<1>6. comma \in {<<>>, <<",">>}
  OBVIOUS
<1> HIDE DEF comma
<1> DEFINE q == Append(Append(Strings, n), env[n])
<1>7. /\ text \in Seq(Chars) /\ q \in Seq(Seq(Chars))
      /\ \E m \in Int : Reading(text) = Reader("out", q, m)
  BY <1>3, <1>4, <1>5, <1>6, VariableReads
<1>8. Chosen' = Chosen /\ Dumped' = Dumped \cup {n} /\ n \notin Dumped /\ n \in Chosen
  BY <1>1, <1>2 DEF Chosen, Dumped
<1>9. IsFiniteSet(Dumped)
  <2>1. Dumped \subseteq DOMAIN env
    BY DEF Dumped, Chosen
  <2> QED
    BY <1>2, <2>1, FS_Subset DEF EnvLoaded
<1>10. k \in Nat /\ Cardinality(Dumped') = k + 1
  BY <1>8, <1>9, FS_CardinalityType, FS_AddElement
<1>11. Len(Strings) = 2 * k /\ Pairs(Strings, k) = {<<m, env[m]>> : m \in Dumped}
  BY <1>2 DEF ReadsBack
<1>12. n \in Seq(Chars) /\ env[n] \in Seq(Chars)
  <2>1. STRING \subseteq Chars
    BY DEF Chars
  <2> QED
    BY <1>3, <2>1, SeqMonotonic
<1> HIDE DEF k
<1>13. Len(q) = 2 * (k + 1) /\ Pairs(q, k + 1) = Pairs(Strings, k) \cup {<<n, env[n]>>}
  BY <1>5, <1>10, <1>11, <1>12, OnePairMore
<1>14. Reading(out)' = Reading(text)
  BY <1>1
<1> HIDE DEF text, q
<1>15. Strings' = q
  BY <1>7, <1>14 DEF Strings, Reader
<1>16. {<<m, env'[m]>> : m \in Dumped'} = {<<m, env[m]>> : m \in Dumped} \cup {<<n, env[n]>>}
  BY <1>1, <1>8
<1>17. ReadsBack'
  <2>1. out' \in Seq(Chars) /\ Strings' \in Seq(Seq(Chars))
    BY <1>1, <1>7, <1>15
  <2>2. \E m \in Int : Reading(out)' = Reader("out", Strings', m)
    BY <1>7, <1>14, <1>15
  <2>3. Len(Strings') = 2 * Cardinality(Dumped')
    BY <1>10, <1>13, <1>15
  <2>4. Pairs(Strings', Cardinality(Dumped')) = {<<m, env'[m]>> : m \in Dumped'}
    BY <1>10, <1>11, <1>13, <1>15, <1>16
  <2> QED
    BY <2>1, <2>2, <2>3, <2>4 DEF ReadsBack
<1>18. DumpFitsOrFails'
  <2>1. Len(text) \in Nat
    BY <1>7
  <2> QED
    BY <1>1, <1>2, <2>1 DEF DumpFitsOrFails, FitsRoom
<1>19. EnvLoaded'
  BY <1>1, <1>2 DEF EnvLoaded
<1>20. todo' \subseteq Chosen'
  BY <1>1, <1>2, <1>8
<1> QED
  BY <1>1, <1>2, <1>17, <1>18, <1>19, <1>20 DEF EnvInv

LEMMA EndStep == ASSUME EnvInv, EndDump PROVE EnvInv'
<1>1. /\ envEnd = "dumping" /\ todo = {} /\ out' = Append(out, "}")
      /\ envEnd' = IF ~FitsRoom(Append(out, "}")) THEN "cut"
                   ELSE IF ~FitsRoom(out \o <<"}", "NUL">>) THEN "overrun"
                   ELSE "dumped"
      /\ environ' = environ /\ env' = env /\ prefix' = prefix /\ room' = room
      /\ stream' = stream /\ todo' = todo
  BY DEF EndDump
<1>2. EnvLoaded /\ room \in Nat /\ todo \subseteq Chosen /\ ReadsBack
  BY <1>1 DEF EnvInv
<1>3. out \in Seq(Chars) /\ Strings \in Seq(Seq(Chars))
  BY <1>2 DEF ReadsBack
<1>4. PICK l \in Int : Reading(out) = Reader("out", Strings, l)
  BY <1>2 DEF ReadsBack
<1>5. "}" \in Chars /\ "}" # "QUOTE"
  BY DEF Chars
<1>6. out' = out \o <<"}">> /\ out' \in Seq(Chars) /\ Len(out') = Len(out) + 1 /\ Len(out) \in Nat
  BY <1>1, <1>3, <1>5, AppendIsConcat, AppendProperties, LenProperties
<1>7. Reading(out') = Reader("out", Strings, l)
  BY <1>3, <1>4, <1>5, <1>6, ReadOne, ReadOutside
<1>8. Strings' = Strings
  BY <1>7 DEF Strings, Reader
<1>9. Chosen' = Chosen /\ Dumped' = Dumped
  BY <1>1 DEF Chosen, Dumped
<1>10. ReadsBack'
  BY <1>1, <1>2, <1>6, <1>7, <1>8, <1>9 DEF ReadsBack
<1>11. Len(out \o <<"}", "NUL">>) = Len(out) + 2
  <2>1. out \in Seq(Chars \cup {"NUL"})
    BY <1>3, SeqMonotonic
  <2>2. "}" \in Chars \cup {"NUL"} /\ "NUL" \in Chars \cup {"NUL"}
    BY <1>5
  <2> QED
    BY <2>1, <2>2, TwoMore
<1>12. DumpFitsOrFails'
  <2> DEFINE L == Len(out)
  <2>1. FitsRoom(Append(out, "}")) <=> stream \/ L + 1 <= room
    BY <1>1, <1>6 DEF FitsRoom
  <2>2. FitsRoom(out \o <<"}", "NUL">>) <=> stream \/ L + 2 <= room
    BY <1>11 DEF FitsRoom
  <2>3. L \in Nat /\ Len(out') = L + 1
    BY <1>6
  <2>4. /\ envEnd' = "dumped" => stream \/ L + 2 <= room
        /\ envEnd' = "overrun" => ~stream /\ L + 1 <= room /\ ~(L + 2 <= room)
        /\ envEnd' = "cut" => ~stream /\ ~(L + 1 <= room)
        /\ envEnd' # "failed"
    BY <1>1, <2>1, <2>2
  <2>5. stream' = stream /\ room' = room /\ room \in Nat
    BY <1>1, <1>2
  <2> HIDE DEF L
  <2>6. /\ envEnd' = "dumped" => stream' \/ Len(out') < room'
        /\ envEnd' = "overrun" => ~stream' /\ Len(out') = room'
        /\ envEnd' = "cut" => ~stream' /\ Len(out') > room'
        /\ envEnd' # "failed"
    BY <2>3, <2>4, <2>5
  <2> QED
    BY <2>6 DEF DumpFitsOrFails
<1>13. EnvLoaded'
  BY <1>1, <1>2 DEF EnvLoaded
<1> QED
  BY <1>1, <1>2, <1>9, <1>10, <1>12, <1>13 DEF EnvInv

LEMMA NextEnv == EnvInv /\ [EnvNext]_envVars => EnvInv'
<1> SUFFICES ASSUME EnvInv, [EnvNext]_envVars PROVE EnvInv'
  OBVIOUS
<1>1. CASE LoadVariable
  BY <1>1, LoadStep
<1>2. CASE EndLoad
  BY <1>2 DEF EndLoad, dumpVars, EnvInv, EnvLoaded, DumpFitsOrFails
<1>3. ASSUME NEW p \in DumpPrefixes, NEW bytes \in Rooms, NEW streamed \in BOOLEAN,
             BeginDump(p, bytes, streamed)
      PROVE  EnvInv'
  BY <1>3, BeginStep
<1>4. ASSUME NEW n \in todo, DumpVariable(n) PROVE EnvInv'
  BY <1>4, VariableStep
<1>5. CASE EndDump
  BY <1>5, EndStep
<1>6. CASE UNCHANGED envVars
  <2>1. /\ environ' = environ /\ env' = env /\ envEnd' = envEnd /\ prefix' = prefix
        /\ room' = room /\ stream' = stream /\ out' = out /\ todo' = todo
    BY <1>6 DEF envVars, dumpVars
  <2>2. Chosen' = Chosen /\ Strings' = Strings /\ Reading(out)' = Reading(out)
    BY <2>1 DEF Chosen, Strings
  <2>3. Dumped' = Dumped
    BY <2>1, <2>2 DEF Dumped
  <2>4. ReadsBack => ReadsBack'
    BY <2>1, <2>2, <2>3 DEF ReadsBack
  <2> QED
    BY <2>1, <2>2, <2>4 DEF EnvInv, EnvLoaded, DumpFitsOrFails
<1> QED
  BY <1>1, <1>2, <1>3, <1>4, <1>5, <1>6 DEF EnvNext

\* A dump that is returned reads back as the variables chosen, and it fitted.
THEOREM DumpsSound == EnvSpec => []DumpSound
<1> QED
  BY InitEnv, NextEnv, InvSound, PTL DEF EnvSpec

-----------------------------------------------------------------------------
(* What a path leads to *)

\* The item after each of the first n positions of a path.
LeadsAs(d, path, n, g) ==
    g = [k \in 0 .. n |-> IF k = 0 THEN d ELSE ItemOf(g[k - 1], path[k])]

LEMMA LeadsExist == ASSUME NEW d, NEW path, NEW n \in Nat PROVE \E g : LeadsAs(d, path, n, g)
<1> DEFINE D == {k \in Nat : ~\E g : LeadsAs(d, path, k, g)}
<1> SUFFICES ASSUME D # {} PROVE FALSE
  OBVIOUS
<1>1. PICK m \in D : \A k \in D : m <= k
  BY LeastElement
<1>2. m \in Nat /\ ~\E g : LeadsAs(d, path, m, g)
  OBVIOUS
<1>3. CASE m = 0
  <2> DEFINE g == [k \in 0 .. 0 |-> d]
  <2>1. g = [k \in 0 .. 0 |-> IF k = 0 THEN d ELSE ItemOf(g[k - 1], path[k])]
    OBVIOUS
  <2>2. LeadsAs(d, path, 0, g)
    BY <2>1 DEF LeadsAs
  <2> QED
    BY <1>2, <1>3, <2>2
<1>4. CASE m # 0
  <2>1. m - 1 \in Nat /\ m - 1 \notin D
    BY <1>1, <1>2, <1>4
  <2>2. PICK g : LeadsAs(d, path, m - 1, g)
    BY <2>1
  <2>3. /\ g[0] = d
        /\ \A k \in 1 .. m - 1 : g[k] = ItemOf(g[k - 1], path[k])
    BY <2>1, <2>2 DEF LeadsAs
  <2> DEFINE h == [k \in 0 .. m |-> IF k = m THEN ItemOf(g[m - 1], path[m]) ELSE g[k]]
  <2>4. ASSUME NEW k \in 0 .. m
        PROVE  h[k] = IF k = 0 THEN d ELSE ItemOf(h[k - 1], path[k])
    <3>1. CASE k = 0
      BY <1>2, <1>4, <2>3, <3>1
    <3>2. CASE k # 0
      <4>1. k - 1 \in 0 .. m /\ k - 1 # m /\ h[k - 1] = g[k - 1]
        BY <1>2, <3>2
      <4>2. CASE k = m
        BY <3>2, <4>1, <4>2
      <4>3. CASE k # m
        <5>1. k \in 1 .. m - 1
          BY <1>2, <3>2, <4>3
        <5> QED
          BY <2>3, <3>2, <4>1, <4>3, <5>1
      <4> QED
        BY <4>2, <4>3
    <3> QED
      BY <3>1, <3>2
  <2>5. h = [k \in 0 .. m |-> IF k = 0 THEN d ELSE ItemOf(h[k - 1], path[k])]
    BY <2>4
  <2> HIDE DEF h
  <2>6. LeadsAs(d, path, m, h)
    BY <2>5 DEF LeadsAs
  <2> QED
    BY <1>2, <2>6
<1> QED
  BY <1>3, <1>4

\* Paths that begin alike lead through the same items.
LEMMA LeadsAgree ==
    ASSUME NEW d, NEW p, NEW q, NEW n \in Nat, NEW m \in Nat, n <= m,
           NEW g, NEW h, LeadsAs(d, p, n, g), LeadsAs(d, q, m, h), \A k \in 1 .. n : p[k] = q[k]
    PROVE  g[n] = h[n]
<1> DEFINE D == {k \in 0 .. n : g[k] # h[k]}
<1> SUFFICES ASSUME D # {} PROVE FALSE
  OBVIOUS
<1>0. D \in SUBSET Nat
  OBVIOUS
<1>1. PICK k \in D : \A j \in D : k <= j
  BY <1>0, LeastElement
<1>2. k \in 0 .. n /\ g[k] # h[k]
  OBVIOUS
<1>3. /\ g[k] = IF k = 0 THEN d ELSE ItemOf(g[k - 1], p[k])
      /\ h[k] = IF k = 0 THEN d ELSE ItemOf(h[k - 1], q[k])
  BY <1>2 DEF LeadsAs
<1>4. k # 0
  BY <1>2, <1>3
<1>5. k - 1 \in 0 .. n /\ k - 1 \notin D /\ k \in 1 .. n
  BY <1>1, <1>2, <1>4
<1>6. g[k - 1] = h[k - 1] /\ p[k] = q[k]
  BY <1>5
<1> QED
  BY <1>2, <1>3, <1>4, <1>6

LEMMA WithinIs ==
    ASSUME NEW d, NEW path, Len(path) \in Nat
    PROVE  \E g : LeadsAs(d, path, Len(path), g) /\ Within(d, path) = g[Len(path)]
<1>1. \E g : LeadsAs(d, path, Len(path), g)
  BY LeadsExist
<1> DEFINE f == CHOOSE g : LeadsAs(d, path, Len(path), g)
<1>2. LeadsAs(d, path, Len(path), f)
  BY <1>1
<1>3. Within(d, path) = f[Len(path)]
  BY DEF Within, LeadsAs
<1> QED
  BY <1>2, <1>3

\* One position more.
LEMMA WithinStep ==
    ASSUME NEW d, NEW p, NEW q, Len(p) \in Nat, Len(q) = Len(p) + 1,
           \A k \in 1 .. Len(p) : p[k] = q[k]
    PROVE  Within(d, q) = ItemOf(Within(d, p), q[Len(q)])
<1> DEFINE n == Len(p)
           m == Len(q)
<1>1. n \in Nat /\ m = n + 1 /\ m \in Nat
  OBVIOUS
<1>2. PICK g : LeadsAs(d, p, n, g) /\ Within(d, p) = g[n]
  BY WithinIs
<1>3. PICK h : LeadsAs(d, q, m, h) /\ Within(d, q) = h[m]
  BY <1>1, WithinIs
<1> HIDE DEF n, m
<1>4. g[n] = h[n]
  <2>1. n <= m /\ \A k \in 1 .. n : p[k] = q[k]
    BY <1>1 DEF n
  <2> QED
    BY <1>1, <1>2, <1>3, <2>1, LeadsAgree
<1>5. h[m] = ItemOf(h[m - 1], q[m])
  BY <1>1, <1>3 DEF LeadsAs
<1> QED
  BY <1>1, <1>2, <1>3, <1>4, <1>5 DEF n, m

LEMMA WithinNothing == ASSUME NEW d PROVE Within(d, <<>>) = d
<1>1. Len(<<>>) = 0
  OBVIOUS
<1>2. PICK g : LeadsAs(d, <<>>, 0, g) /\ Within(d, <<>>) = g[0]
  BY <1>1, WithinIs
<1> QED
  BY <1>2 DEF LeadsAs

-----------------------------------------------------------------------------
(* How a path is named *)

\* The prefix of the items of what a path leads to.
PrefixIn(d, path) == IF path = <<>> THEN <<>> ELSE NameIn(d, path) \o JsonDelimiter

Named(d, name, path, k) == (IF k = 1 THEN <<>> ELSE name \o JsonDelimiter) \o KeyIn(d, path, k)

\* The name after each of the first n positions of a path.
NamesAs(d, path, n, g) ==
    g = [k \in 0 .. n |-> IF k = 0 THEN <<>> ELSE Named(d, g[k - 1], path, k)]

LEMMA NamesExist == ASSUME NEW d, NEW path, NEW n \in Nat PROVE \E g : NamesAs(d, path, n, g)
<1> DEFINE D == {k \in Nat : ~\E g : NamesAs(d, path, k, g)}
<1> SUFFICES ASSUME D # {} PROVE FALSE
  OBVIOUS
<1>1. PICK m \in D : \A k \in D : m <= k
  BY LeastElement
<1>2. m \in Nat /\ ~\E g : NamesAs(d, path, m, g)
  OBVIOUS
<1>3. CASE m = 0
  <2> DEFINE g == [k \in 0 .. 0 |-> <<>>]
  <2>1. g = [k \in 0 .. 0 |-> IF k = 0 THEN <<>> ELSE Named(d, g[k - 1], path, k)]
    OBVIOUS
  <2>2. NamesAs(d, path, 0, g)
    BY <2>1 DEF NamesAs
  <2> QED
    BY <1>2, <1>3, <2>2
<1>4. CASE m # 0
  <2>1. m - 1 \in Nat /\ m - 1 \notin D
    BY <1>1, <1>2, <1>4
  <2>2. PICK g : NamesAs(d, path, m - 1, g)
    BY <2>1
  <2>3. /\ g[0] = <<>>
        /\ \A k \in 1 .. m - 1 : g[k] = Named(d, g[k - 1], path, k)
    BY <2>1, <2>2 DEF NamesAs
  <2> DEFINE h == [k \in 0 .. m |-> IF k = m THEN Named(d, g[m - 1], path, m) ELSE g[k]]
  <2>4. ASSUME NEW k \in 0 .. m
        PROVE  h[k] = IF k = 0 THEN <<>> ELSE Named(d, h[k - 1], path, k)
    <3>1. CASE k = 0
      BY <1>2, <1>4, <2>3, <3>1
    <3>2. CASE k # 0
      <4>1. k - 1 \in 0 .. m /\ k - 1 # m /\ h[k - 1] = g[k - 1]
        BY <1>2, <3>2
      <4>2. CASE k = m
        BY <3>2, <4>1, <4>2
      <4>3. CASE k # m
        <5>1. k \in 1 .. m - 1
          BY <1>2, <3>2, <4>3
        <5> QED
          BY <2>3, <3>2, <4>1, <4>3, <5>1
      <4> QED
        BY <4>2, <4>3
    <3> QED
      BY <3>1, <3>2
  <2>5. h = [k \in 0 .. m |-> IF k = 0 THEN <<>> ELSE Named(d, h[k - 1], path, k)]
    BY <2>4
  <2> HIDE DEF h
  <2>6. NamesAs(d, path, m, h)
    BY <2>5 DEF NamesAs
  <2> QED
    BY <1>2, <2>6
<1> QED
  BY <1>3, <1>4

LEMMA NamesAgree ==
    ASSUME NEW d, NEW p, NEW q, NEW n \in Nat, NEW m \in Nat, n <= m, NEW g, NEW h,
           NamesAs(d, p, n, g), NamesAs(d, q, m, h),
           \A k \in 1 .. n : KeyIn(d, p, k) = KeyIn(d, q, k)
    PROVE  g[n] = h[n]
<1> DEFINE D == {k \in 0 .. n : g[k] # h[k]}
<1> SUFFICES ASSUME D # {} PROVE FALSE
  OBVIOUS
<1>0. D \in SUBSET Nat
  OBVIOUS
<1>1. PICK k \in D : \A j \in D : k <= j
  BY <1>0, LeastElement
<1>2. k \in 0 .. n /\ g[k] # h[k]
  OBVIOUS
<1>3. /\ g[k] = IF k = 0 THEN <<>> ELSE Named(d, g[k - 1], p, k)
      /\ h[k] = IF k = 0 THEN <<>> ELSE Named(d, h[k - 1], q, k)
  BY <1>2 DEF NamesAs
<1>4. k # 0
  BY <1>2, <1>3
<1>5. k - 1 \in 0 .. n /\ k - 1 \notin D /\ k \in 1 .. n
  BY <1>1, <1>2, <1>4
<1>6. g[k - 1] = h[k - 1] /\ KeyIn(d, p, k) = KeyIn(d, q, k)
  BY <1>5
<1>7. Named(d, g[k - 1], p, k) = Named(d, h[k - 1], q, k)
  BY <1>6 DEF Named
<1> QED
  BY <1>2, <1>3, <1>4, <1>7

LEMMA NameIs ==
    ASSUME NEW d, NEW path, Len(path) \in Nat
    PROVE  \E g : NamesAs(d, path, Len(path), g) /\ NameIn(d, path) = g[Len(path)]
<1>1. \E g : NamesAs(d, path, Len(path), g)
  BY NamesExist
<1> DEFINE f == CHOOSE g : NamesAs(d, path, Len(path), g)
<1>2. NamesAs(d, path, Len(path), f)
  BY <1>1
<1>3. NameIn(d, path) = f[Len(path)]
  BY DEF NameIn, NamesAs, Named
<1> QED
  BY <1>2, <1>3

\* The path to an item of what a path leads to.
Extend(p, i) == Append(p, i)

LEMMA Extended ==
    ASSUME NEW p \in Seq(Nat), NEW i \in Nat
    PROVE  /\ Extend(p, i) \in Seq(Nat) /\ Extend(p, i) # <<>>
           /\ Len(Extend(p, i)) = Len(p) + 1
           /\ \A k \in 1 .. Len(p) : Extend(p, i)[k] = p[k]
           /\ Extend(p, i)[Len(p) + 1] = i
BY AppendProperties DEF Extend

LEMMA Unextended ==
    ASSUME NEW p \in Seq(Nat), p # <<>>
    PROVE  \E o \in Seq(Nat), i \in Nat : p = Extend(o, i)
BY SequenceEmptyOrAppend DEF Extend

\* Where it leads, and its name.
LEMMA OneStep ==
    ASSUME NEW d, NEW p \in Seq(Nat), NEW i \in Nat
    PROVE  /\ Within(d, Extend(p, i)) = ItemOf(Within(d, p), i)
           /\ NameIn(d, Extend(p, i)) = PrefixIn(d, p) \o Within(d, p).items[i][1]
<1> DEFINE q == Extend(p, i)
           n == Len(p)
           m == Len(q)
<1>1. /\ n \in Nat /\ q \in Seq(Nat) /\ m = n + 1 /\ m \in Nat /\ q[m] = i
      /\ \A k \in 1 .. n : p[k] = q[k]
  BY Extended, LenProperties
<1>2. SubSeq(q, 1, n) = p
  BY <1>1
<1> HIDE DEF q
<1>3. Within(d, q) = ItemOf(Within(d, p), i)
  BY <1>1, WithinStep
<1>21. (\A j \in 1 .. n : p[j] \in Nat) /\ \A j \in 1 .. m : q[j] \in Nat
  <2>1. (\A j \in 1 .. Len(p) : p[j] \in Nat) /\ \A j \in 1 .. Len(q) : q[j] \in Nat
    BY <1>1, ElementOfSeq
  <2> QED
    BY <2>1
<1> HIDE DEF n, m
<1>4. ASSUME NEW k \in 1 .. n PROVE KeyIn(d, p, k) = KeyIn(d, q, k)
  <2> DEFINE a == SubSeq(p, 1, k - 1)
             b == SubSeq(q, 1, k - 1)
  <2>0. k - 1 \in Int /\ \A j \in 1 .. k - 1 : j \in 1 .. n /\ j \in 1 .. m
    BY <1>1
  <2>1. /\ k - 1 \in Int /\ \A j \in 1 .. k - 1 : p[j] \in Nat
        /\ \A j \in 1 .. k - 1 : q[j] \in Nat /\ q[j] = p[j]
    BY <1>1, <1>21, <2>0
  <2>2. /\ a \in Seq(Nat) /\ b \in Seq(Nat) /\ Len(a) = Len(b)
        /\ \A j \in 1 .. k - 1 : a[j] = p[j] /\ b[j] = q[j]
    BY <2>1, SubSeqProperties
  <2>3. Len(a) = k - 1
    BY <2>1, SubSeqProperties
  <2> HIDE DEF a, b
  <2>4. a = b
    BY <2>1, <2>2, <2>3, SeqEqual
  <2>5. SubSeq(p, 1, k - 1) = SubSeq(q, 1, k - 1) /\ p[k] = q[k]
    BY <1>1, <2>4 DEF a, b
  <2> QED
    BY <2>5 DEF KeyIn
<1>5. PICK g : NamesAs(d, p, n, g) /\ NameIn(d, p) = g[n]
  BY <1>1, NameIs DEF n
<1>6. PICK h : NamesAs(d, q, m, h) /\ NameIn(d, q) = h[m]
  BY <1>1, NameIs DEF m
<1>7. g[n] = h[n]
  <2>1. n <= m
    BY <1>1
  <2> QED
    BY <1>1, <1>4, <1>5, <1>6, <2>1, NamesAgree
<1>8. NameIn(d, q) = Named(d, NameIn(d, p), q, m)
  <2>1. h[m] = Named(d, h[m - 1], q, m) /\ m - 1 = n
    BY <1>1, <1>6 DEF NamesAs
  <2> QED
    BY <1>5, <1>6, <1>7, <2>1
<1>9. KeyIn(d, q, m) = Within(d, p).items[i][1]
  <2>1. m - 1 = n
    BY <1>1
  <2> QED
    BY <1>1, <1>2, <2>1 DEF KeyIn
<1>10. m = 1 <=> p = <<>>
  BY <1>1, EmptySeq DEF n
<1> QED
  BY <1>3, <1>8, <1>9, <1>10 DEF Named, PrefixIn, q

-----------------------------------------------------------------------------
(* The stack of a walk, from the position in each object on the path to it *)

\* What is left of the object at a path after its first i items.
Left(d, o, i) ==
    [items |-> SubSeq(Within(d, o).items, i + 1, Len(Within(d, o).items)),
     prefix |-> PrefixIn(d, o)]
StackOf(d, pos) ==
    [j \in 1 .. Len(pos) |->
        Left(d, SubSeq(pos, 1, Len(pos) - j), pos[Len(pos) + 1 - j])]

LEMMA PrefixKept ==
    ASSUME NEW p \in Seq(Nat), NEW i \in Nat, NEW k \in 0 .. Len(p)
    PROVE  SubSeq(Extend(p, i), 1, k) = SubSeq(p, 1, k)
<1> DEFINE q == Extend(p, i)
<1>1. Len(p) \in Nat /\ q \in Seq(Nat) /\ \A j \in 1 .. Len(p) : p[j] \in Nat /\ q[j] = p[j]
  BY Extended, LenProperties
<1> HIDE DEF q
<1> DEFINE a == SubSeq(q, 1, k)
           b == SubSeq(p, 1, k)
<1>2. \A j \in 1 .. k : p[j] \in Nat /\ q[j] \in Nat
  BY <1>1
<1>3. a \in Seq(Nat) /\ Len(a) = k /\ \A j \in 1 .. k : a[j] = q[j]
  BY <1>1, <1>2, SubSeqProperties
<1>4. b \in Seq(Nat) /\ Len(b) = k /\ \A j \in 1 .. k : b[j] = p[j]
  BY <1>1, <1>2, SubSeqProperties
<1> HIDE DEF a, b
<1>5. ASSUME NEW j \in 1 .. k PROVE a[j] = b[j]
  <2>1. j \in 1 .. Len(p)
    BY <1>1
  <2> QED
    BY <1>1, <1>3, <1>4, <2>1
<1>6. a = b
  BY <1>3, <1>4, <1>5, SeqEqual
<1> QED
  BY <1>6 DEF a, b, q

LEMMA Whole == ASSUME NEW p \in Seq(Nat) PROVE SubSeq(p, 1, Len(p)) = p
OBVIOUS

LEMMA StackType ==
    ASSUME NEW d, NEW pos \in Seq(Nat)
    PROVE  StackOf(d, pos) \in Seq({Left(d, a, b) : a \in Seq(Nat), b \in Nat})
<1> DEFINE n == Len(pos)
           Y == {Left(d, a, b) : a \in Seq(Nat), b \in Nat}
<1>1. n \in Nat /\ \A k \in 1 .. n : pos[k] \in Nat
  BY LenProperties
<1>2. ASSUME NEW j \in 1 .. n PROVE Left(d, SubSeq(pos, 1, n - j), pos[n + 1 - j]) \in Y
  <2>1. n - j \in Int /\ \A k \in 1 .. n - j : pos[k] \in Nat
    BY <1>1
  <2> DEFINE a == SubSeq(pos, 1, n - j)
             b == pos[n + 1 - j]
  <2>2. a \in Seq(Nat) /\ b \in Nat
    BY <1>1, <2>1, SubSeqProperties
  <2> HIDE DEF a, b
  <2>3. Left(d, a, b) \in Y
    BY <2>2
  <2> QED
    BY <2>3 DEF a, b
<1> HIDE DEF Y
<1>3. StackOf(d, pos) \in Seq(Y)
  BY <1>1, <1>2 DEF StackOf
<1> QED
  BY <1>3 DEF Y

LEMMA Pushed ==
    ASSUME NEW d, NEW pos \in Seq(Nat), NEW i \in Nat
    PROVE  LET new == StackOf(d, Extend(pos, i))
           IN  /\ new # <<>> /\ Head(new) = Left(d, pos, i) /\ Tail(new) = StackOf(d, pos)
               /\ new = <<Left(d, pos, i)>> \o StackOf(d, pos)
               /\ Len(new) = Len(pos) + 1
<1> DEFINE q == Extend(pos, i)
           n == Len(pos)
           new == StackOf(d, q)
           old == StackOf(d, pos)
           top == Left(d, pos, i)
           Y == {Left(d, a, b) : a \in Seq(Nat), b \in Nat}
<1>1. /\ n \in Nat /\ Len(q) = n + 1 /\ q[n + 1] = i
      /\ \A k \in 1 .. n : q[k] = pos[k] /\ pos[k] \in Nat
  BY Extended, LenProperties
<1>2. old \in Seq(Y) /\ Len(old) = n
  <2>1. old \in Seq(Y)
    BY StackType
  <2>2. Len(old) = n
    BY <1>1 DEF StackOf
  <2> QED
    BY <2>1, <2>2
<1>3. top \in Y
  OBVIOUS
<1> DEFINE pushed == <<top>> \o old
<1> HIDE DEF Y, top, old
<1>4. /\ pushed \in Seq(Y) /\ Len(pushed) = n + 1
      /\ pushed[1] = top /\ \A j \in 1 .. n : pushed[j + 1] = old[j]
  BY <1>1, <1>2, <1>3
<1>5. ASSUME NEW j \in 1 .. n + 1
      PROVE  Left(d, SubSeq(q, 1, n + 1 - j), q[n + 2 - j]) = pushed[j]
  <2>1. n + 1 - j \in 0 .. n
    BY <1>1
  <2>2. SubSeq(q, 1, n + 1 - j) = SubSeq(pos, 1, n + 1 - j)
    <3> DEFINE k == n + 1 - j
    <3>1. k \in 0 .. Len(pos)
      BY <2>1
    <3> HIDE DEF k
    <3>2. SubSeq(Extend(pos, i), 1, k) = SubSeq(pos, 1, k)
      BY <3>1, PrefixKept
    <3> QED
      BY <3>2 DEF k
  <2>3. CASE j = 1
    <3>1. n + 1 - j = n /\ n + 2 - j = n + 1
      BY <1>1, <2>3
    <3>2. SubSeq(pos, 1, n) = pos
      BY Whole
    <3> QED
      BY <1>1, <1>4, <2>2, <2>3, <3>1, <3>2 DEF top
  <2>4. CASE j # 1
    <3>1. j - 1 \in 1 .. n /\ n + 1 - (j - 1) = n + 2 - j /\ n - (j - 1) = n + 1 - j
          /\ n + 2 - j \in 1 .. n /\ (j - 1) + 1 = j
      BY <1>1, <2>4
    <3>2. pushed[j] = old[j - 1] /\ q[n + 2 - j] = pos[n + 2 - j]
      BY <1>1, <1>4, <3>1
    <3>3. old[j - 1] = Left(d, SubSeq(pos, 1, n - (j - 1)), pos[n + 1 - (j - 1)])
      BY <3>1 DEF old, StackOf
    <3> QED
      BY <2>2, <3>1, <3>2, <3>3
  <2> QED
    BY <2>3, <2>4
<1>6. new = [j \in 1 .. n + 1 |-> Left(d, SubSeq(q, 1, n + 1 - j), q[n + 2 - j])]
  <2>1. Len(q) + 1 = n + 2
    BY <1>1
  <2> HIDE DEF q
  <2>2. new = [j \in 1 .. Len(q) |-> Left(d, SubSeq(q, 1, Len(q) - j), q[Len(q) + 1 - j])]
    BY DEF StackOf
  <2> QED
    BY <1>1, <2>1, <2>2
<1>7. new = pushed
  <2> DEFINE all == [j \in 1 .. n + 1 |-> pushed[j]]
  <2>1. new = all
    BY <1>5, <1>6
  <2>2. pushed = all
    BY <1>1, <1>4
  <2> QED
    BY <2>1, <2>2
<1> HIDE DEF new
<1>8. pushed # <<>> /\ Head(pushed) = top /\ Tail(pushed) = old
  BY <1>1, <1>2, <1>3
<1>9. new # <<>> /\ Head(new) = top /\ Tail(new) = old /\ new = <<top>> \o old /\ Len(new) = n + 1
  BY <1>4, <1>7, <1>8
<1> QED
  BY <1>9 DEF new, top, old, q, n

-----------------------------------------------------------------------------
(* What a walk has still to find *)

Begins(q, p) == Len(q) <= Len(p) /\ \A j \in 1 .. Len(q) : p[j] = q[j]

\* The scalars below a path, and those below the items after the first i of it.
Under(d, q) == {p \in ScalarPaths(d) : Begins(q, p)}
Beyond(d, o, i) ==
    {p \in ScalarPaths(d) : Begins(o, p) /\ Len(o) < Len(p) /\ p[Len(o) + 1] > i}

Pending(d, pos) ==
    {p \in ScalarPaths(d) : \E k \in 1 .. Len(pos) :
        Len(p) >= k /\ (\A j \in 1 .. k - 1 : p[j] = pos[j]) /\ p[k] > pos[k]}

LEMMA PathType ==
    /\ \A p \in Paths : p \in Seq(Nat) /\ p \in Seq(1 .. MaxItems) /\ Len(p) <= MaxDepth
                         /\ \A k \in 1 .. Len(p) : p[k] \in 1 .. MaxItems
    /\ \A p \in Seq(1 .. MaxItems) : Len(p) <= MaxDepth => p \in Paths
<1>1. MaxItems \in Nat /\ MaxDepth \in Nat
  BY JsonAssumption
<1>2. ASSUME NEW p \in Paths
      PROVE  /\ p \in Seq(Nat) /\ p \in Seq(1 .. MaxItems) /\ Len(p) <= MaxDepth
             /\ \A k \in 1 .. Len(p) : p[k] \in 1 .. MaxItems
  <2>1. PICK m \in 0 .. MaxDepth : p \in [1 .. m -> 1 .. MaxItems]
    BY DEF Paths, SeqOf
  <2>2. p \in Seq(1 .. MaxItems) /\ Len(p) = m
    BY <1>1, <2>1
  <2> QED
    BY <1>1, <2>1, <2>2
<1>3. ASSUME NEW p \in Seq(1 .. MaxItems), Len(p) <= MaxDepth PROVE p \in Paths
  <2>1. p \in [1 .. Len(p) -> 1 .. MaxItems] /\ Len(p) \in 0 .. MaxDepth
    BY <1>1, <1>3
  <2> QED
    BY <2>1 DEF Paths, SeqOf
<1> QED
  BY <1>2, <1>3

LEMMA ScalarType ==
    ASSUME NEW d, NEW p \in ScalarPaths(d)
    PROVE  /\ p \in Seq(Nat) /\ p # <<>> /\ Len(p) \in Nat /\ p \in Paths
           /\ \A k \in 1 .. Len(p) : p[k] \in 1 .. MaxItems /\ p[k] \in Nat
           /\ Within(d, p).kind \in ScalarKinds
<1>1. p \in Paths /\ p # <<>> /\ Within(d, p).kind \in ScalarKinds
  BY DEF ScalarPaths
<1>2. MaxItems \in Nat
  BY JsonAssumption
<1> QED
  BY <1>1, <1>2, PathType

\* Nothing is within what is no object.
LEMMA Beneath ==
    ASSUME NEW d, NEW p, NEW q, Len(p) \in Nat, Len(q) \in Nat, Begins(q, p), Len(q) < Len(p),
           Within(d, q).kind # "object"
    PROVE  Within(d, p) = Unparsed
<1> DEFINE n == Len(q)
           m == Len(p)
<1>0. n \in Nat /\ m \in Nat /\ n < m /\ \A j \in 1 .. n : q[j] = p[j]
  BY DEF Begins
<1>1. PICK g : LeadsAs(d, q, n, g) /\ Within(d, q) = g[n]
  BY WithinIs
<1>2. PICK h : LeadsAs(d, p, m, h) /\ Within(d, p) = h[m]
  BY WithinIs
<1> HIDE DEF n, m
<1>3. h[n].kind # "object"
  <2>1. n <= m
    BY <1>0
  <2>2. g[n] = h[n]
    BY <1>0, <1>1, <1>2, <2>1, LeadsAgree
  <2> QED
    BY <1>1, <2>2
<1>4. \A k \in n + 1 .. m : k - 1 \in n .. m - 1 /\ h[k] = ItemOf(h[k - 1], p[k])
  BY <1>0, <1>2 DEF LeadsAs
<1> DEFINE D == {k \in n + 1 .. m : h[k] # Unparsed}
<1>5. D = {}
  <2> SUFFICES ASSUME D # {} PROVE FALSE
    OBVIOUS
  <2>1. D \in SUBSET Nat
    BY <1>0
  <2>2. PICK k \in D : \A j \in D : k <= j
    BY <2>1, LeastElement
  <2>3. k \in n + 1 .. m /\ h[k] # Unparsed
    OBVIOUS
  <2>4. h[k] = ItemOf(h[k - 1], p[k])
    BY <1>4, <2>3
  <2>5. h[k - 1].kind # "object"
    <3>1. CASE k = n + 1
      BY <1>0, <1>3, <3>1
    <3>2. CASE k # n + 1
      <4>1. k - 1 \in n + 1 .. m /\ k - 1 \notin D
        BY <1>0, <2>2, <2>3, <3>2
      <4>2. h[k - 1] = Unparsed
        BY <4>1
      <4> QED
        BY <4>2 DEF Unparsed
    <3> QED
      BY <3>1, <3>2
  <2> QED
    BY <2>3, <2>4, <2>5 DEF ItemOf
<1>6. m \in n + 1 .. m
  BY <1>0
<1> QED
  BY <1>2, <1>5, <1>6

LEMMA UnderOther ==
    ASSUME NEW d, NEW q \in Seq(Nat), Within(d, q).kind # "object"
    PROVE  Under(d, q) = {q} \cap ScalarPaths(d)
<1>1. ASSUME NEW p \in ScalarPaths(d), Begins(q, p) PROVE p = q
  <2>1. p \in Seq(Nat) /\ Len(p) \in Nat /\ Len(q) \in Nat /\ Within(d, p).kind # "error"
    BY ScalarType DEF ScalarKinds
  <2>2. ~(Len(q) < Len(p))
    BY <1>1, <2>1, Beneath DEF Unparsed
  <2>3. Len(p) = Len(q) /\ \A j \in 1 .. Len(q) : p[j] = q[j]
    BY <1>1, <2>1, <2>2 DEF Begins
  <2> QED
    BY <2>1, <2>3, SeqEqual
<1>2. Begins(q, q)
  BY DEF Begins
<1> QED
  BY <1>1, <1>2 DEF Under

LEMMA UnderObject ==
    ASSUME NEW d, NEW q \in Seq(Nat), Within(d, q).kind = "object"
    PROVE  Under(d, q) = Beyond(d, q, 0)
<1>1. ASSUME NEW p \in ScalarPaths(d), Begins(q, p) PROVE Len(q) < Len(p) /\ p[Len(q) + 1] > 0
  <2>1. /\ p \in Seq(Nat) /\ Len(p) \in Nat /\ Len(q) \in Nat
        /\ \A k \in 1 .. Len(p) : p[k] \in 1 .. MaxItems
        /\ Within(d, p).kind # "object"
    BY ScalarType DEF ScalarKinds
  <2>2. Len(q) <= Len(p) /\ \A j \in 1 .. Len(q) : p[j] = q[j]
    BY <1>1 DEF Begins
  <2>3. Len(q) # Len(p)
    <3> SUFFICES ASSUME Len(q) = Len(p) PROVE FALSE
      OBVIOUS
    <3>1. p = q
      BY <2>1, <2>2, SeqEqual
    <3> QED
      BY <2>1, <3>1
  <2>4. Len(q) + 1 \in 1 .. Len(p)
    BY <2>1, <2>2, <2>3
  <2>5. MaxItems \in Nat
    BY JsonAssumption
  <2> QED
    BY <2>1, <2>2, <2>3, <2>4, <2>5
<1> QED
  BY <1>1 DEF Under, Beyond

LEMMA BeyondStep ==
    ASSUME NEW d, NEW o \in Seq(Nat), NEW i \in Nat
    PROVE  Beyond(d, o, i) = Beyond(d, o, i + 1) \cup Under(d, Extend(o, i + 1))
<1> DEFINE q == Extend(o, i + 1)
           n == Len(o)
<1>1. n \in Nat /\ Len(q) = n + 1 /\ q[n + 1] = i + 1 /\ \A k \in 1 .. n : q[k] = o[k]
  BY LenProperties DEF Extend
<1> HIDE DEF q
<1>2. ASSUME NEW p \in ScalarPaths(d)
      PROVE  p \in Beyond(d, o, i) <=> p \in Beyond(d, o, i + 1) \/ p \in Under(d, q)
  <2>1. Len(p) \in Nat /\ \A k \in 1 .. Len(p) : p[k] \in Nat
    BY ScalarType
  <2>2. p \in Beyond(d, o, i) <=> Begins(o, p) /\ n < Len(p) /\ p[n + 1] > i
    BY DEF Beyond
  <2>3. p \in Beyond(d, o, i + 1) <=> Begins(o, p) /\ n < Len(p) /\ p[n + 1] > i + 1
    BY DEF Beyond
  <2>4. p \in Under(d, q) <=> Begins(q, p)
    BY DEF Under
  <2>5. Begins(q, p) <=> Begins(o, p) /\ n < Len(p) /\ p[n + 1] = i + 1
    <3>1. ASSUME Begins(q, p) PROVE Begins(o, p) /\ n < Len(p) /\ p[n + 1] = i + 1
      BY <1>1, <2>1, <3>1 DEF Begins
    <3>2. ASSUME Begins(o, p), n < Len(p), p[n + 1] = i + 1 PROVE Begins(q, p)
      <4>1. Len(q) <= Len(p)
        BY <1>1, <2>1, <3>2
      <4>2. ASSUME NEW j \in 1 .. Len(q) PROVE p[j] = q[j]
        <5>1. CASE j = n + 1
          BY <1>1, <3>2, <5>1
        <5>2. CASE j # n + 1
          <6>1. j \in 1 .. n
            BY <1>1, <5>2
          <6> QED
            BY <1>1, <3>2, <6>1 DEF Begins
        <5> QED
          BY <5>1, <5>2
      <4> QED
        BY <4>1, <4>2 DEF Begins
    <3> QED
      BY <3>1, <3>2
  <2>6. n < Len(p) => p[n + 1] \in Nat
    BY <1>1, <2>1
  <2> HIDE DEF n
  <2> QED
    BY <2>2, <2>3, <2>4, <2>5, <2>6
<1>3. Beyond(d, o, i) \subseteq ScalarPaths(d) /\ Beyond(d, o, i + 1) \subseteq ScalarPaths(d)
      /\ Under(d, q) \subseteq ScalarPaths(d)
  BY DEF Beyond, Under
<1> QED
  BY <1>2, <1>3 DEF q

LEMMA BeyondEnd ==
    ASSUME NEW d, NEW o \in Seq(Nat), NEW i \in Nat, Within(d, o).kind = "object",
           \A j \in Nat : j > i => j \notin DOMAIN Within(d, o).items
    PROVE  Beyond(d, o, i) = {}
<1> SUFFICES ASSUME NEW p \in Beyond(d, o, i) PROVE FALSE
  OBVIOUS
<1> DEFINE n == Len(o)
<1>1. n \in Nat /\ p \in ScalarPaths(d) /\ Begins(o, p) /\ n < Len(p) /\ p[n + 1] > i
  BY DEF Beyond
<1>2. p \in Seq(Nat) /\ Len(p) \in Nat /\ Within(d, p).kind \in ScalarKinds
  BY <1>1, ScalarType
<1>3. p[n + 1] \in Nat
  <2>1. n + 1 \in 1 .. Len(p)
    BY <1>1, <1>2
  <2> QED
    BY <1>2, <2>1
<1> DEFINE c == p[n + 1]
           r == Extend(o, c)
<1>4. c \in Nat /\ c > i
  BY <1>1, <1>3
<1> HIDE DEF c
<1>5. r \in Seq(Nat) /\ Len(r) = n + 1 /\ r[n + 1] = c /\ \A k \in 1 .. n : r[k] = o[k]
  BY <1>1, <1>4, Extended
<1>6. Within(d, r) = Unparsed
  <2>1. Within(d, r) = ItemOf(Within(d, o), c)
    BY <1>4, OneStep
  <2> QED
    BY <1>4, <2>1 DEF ItemOf
<1> HIDE DEF r
<1>7. Begins(r, p)
  <2>1. ASSUME NEW j \in 1 .. n + 1 PROVE p[j] = r[j]
    <3>1. CASE j = n + 1
      BY <1>5, <3>1 DEF c
    <3>2. CASE j # n + 1
      <4>1. j \in 1 .. n
        BY <1>1, <3>2
      <4> QED
        BY <1>1, <1>5, <4>1 DEF Begins
    <3> QED
      BY <3>1, <3>2
  <2>2. n + 1 <= Len(p)
    BY <1>1, <1>2
  <2> QED
    BY <1>5, <2>1, <2>2 DEF Begins
<1>8. Under(d, r) = {r} \cap ScalarPaths(d)
  BY <1>5, <1>6, UnderOther DEF Unparsed
<1>9. p = r
  BY <1>1, <1>7, <1>8 DEF Under
<1> QED
  BY <1>2, <1>6, <1>9 DEF Unparsed, ScalarKinds

LEMMA PendingMore ==
    ASSUME NEW d, NEW o \in Seq(Nat), NEW i \in Nat
    PROVE  Pending(d, Extend(o, i)) = Pending(d, o) \cup Beyond(d, o, i)
<1> DEFINE q == Extend(o, i)
           n == Len(o)
           Ahead(p, s, k) == Len(p) >= k /\ (\A j \in 1 .. k - 1 : p[j] = s[j]) /\ p[k] > s[k]
<1>1. n \in Nat /\ Len(q) = n + 1 /\ q[n + 1] = i /\ \A k \in 1 .. n : q[k] = o[k]
  BY Extended, LenProperties
<1> HIDE DEF q
<1>2. ASSUME NEW p \in ScalarPaths(d)
      PROVE  p \in Pending(d, q) <=> p \in Pending(d, o) \/ p \in Beyond(d, o, i)
  <2>1. Len(p) \in Nat
    BY ScalarType
  <2>2. p \in Pending(d, q) <=> \E k \in 1 .. n + 1 : Ahead(p, q, k)
    BY <1>1 DEF Pending
  <2>3. p \in Pending(d, o) <=> \E k \in 1 .. n : Ahead(p, o, k)
    BY DEF Pending
  <2>4. p \in Beyond(d, o, i) <=> Begins(o, p) /\ n < Len(p) /\ p[n + 1] > i
    BY DEF Beyond
  <2>5. ASSUME NEW k \in 1 .. n PROVE Ahead(p, q, k) <=> Ahead(p, o, k)
    <3>1. q[k] = o[k] /\ \A j \in 1 .. k - 1 : q[j] = o[j]
      BY <1>1
    <3> QED
      BY <3>1
  <2>6. Ahead(p, q, n + 1) <=> Begins(o, p) /\ n < Len(p) /\ p[n + 1] > i
    <3>1. n + 1 - 1 = n
      BY <1>1
    <3>2. Ahead(p, q, n + 1) <=> Len(p) >= n + 1 /\ (\A j \in 1 .. n : p[j] = q[j]) /\ p[n + 1] > i
      BY <1>1, <3>1
    <3>3. Len(p) >= n + 1 <=> n < Len(p)
      BY <1>1, <2>1
    <3>4. n < Len(p) => n <= Len(p)
      BY <1>1, <2>1
    <3>5. Begins(o, p) <=> n <= Len(p) /\ \A j \in 1 .. n : p[j] = o[j]
      BY DEF Begins
    <3>6. (\A j \in 1 .. n : p[j] = o[j]) <=> (\A j \in 1 .. n : p[j] = q[j])
      BY <1>1
    <3> HIDE DEF n, Ahead
    <3> QED
      BY <3>2, <3>3, <3>4, <3>5, <3>6
  <2>7. (\E k \in 1 .. n + 1 : Ahead(p, q, k)) <=>
            (\E k \in 1 .. n : Ahead(p, o, k)) \/ Ahead(p, q, n + 1)
    <3>1. \A k \in 1 .. n + 1 : k \in 1 .. n \/ k = n + 1
      BY <1>1
    <3>2. n + 1 \in 1 .. n + 1 /\ \A k \in 1 .. n : k \in 1 .. n + 1
      BY <1>1
    <3> HIDE DEF n, Ahead
    <3> QED
      BY <2>5, <3>1, <3>2
  <2> HIDE DEF n, Ahead
  <2> QED
    BY <2>2, <2>3, <2>4, <2>6, <2>7
<1>3. /\ Beyond(d, o, i) \subseteq ScalarPaths(d) /\ Pending(d, o) \subseteq ScalarPaths(d)
      /\ Pending(d, q) \subseteq ScalarPaths(d)
  BY DEF Beyond, Pending
<1> QED
  BY <1>2, <1>3 DEF q

\* What a walk has passed, it does not find again.
LEMMA NotAgain ==
    ASSUME NEW d, NEW o \in Seq(Nat), NEW i \in Nat
    PROVE  Extend(o, i) \notin Pending(d, o) /\ Extend(o, i) \notin Beyond(d, o, i)
<1> DEFINE q == Extend(o, i)
           n == Len(o)
<1>1. /\ n \in Nat /\ Len(q) = n + 1 /\ q[n + 1] = i /\ i \in Nat
      /\ \A k \in 1 .. n : q[k] = o[k] /\ o[k] \in Nat
  BY Extended, LenProperties
<1> HIDE DEF q
<1>2. q \notin Pending(d, o)
  <2>1. ASSUME NEW k \in 1 .. n PROVE ~(q[k] > o[k])
    <3>1. q[k] = o[k] /\ o[k] \in Nat
      BY <1>1
    <3> QED
      BY <3>1
  <2> QED
    BY <2>1 DEF Pending
<1>3. q \notin Beyond(d, o, i)
  <2>1. ~(q[n + 1] > i)
    BY <1>1
  <2> QED
    BY <2>1 DEF Beyond
<1> QED
  BY <1>2, <1>3 DEF q

-----------------------------------------------------------------------------
(* A walk at a position of an object *)

\* Every position is one of an object on the path.
Walk(d, pos) ==
    \A k \in 1 .. Len(pos) :
        LET o == SubSeq(pos, 1, k - 1)
        IN  o \in Paths /\ Within(d, o).kind = "object" /\ pos[k] <= Len(Within(d, o).items)

\* The variables are those of some scalars, one for each.
Covered(d, f, P) ==
    /\ DOMAIN f = {NameIn(d, p) : p \in P}
    /\ \A p \in P : NameIn(d, p) # <<>> /\ f[NameIn(d, p)] = Printed(Within(d, p))
    /\ \A p, q \in P : NameIn(d, p) = NameIn(d, q) => p = q

LEMMA WalkMore ==
    ASSUME NEW d, NEW o \in Seq(Nat), NEW i \in Nat
    PROVE  Walk(d, Extend(o, i)) <=>
               /\ Walk(d, o)
               /\ o \in Paths /\ Within(d, o).kind = "object" /\ i <= Len(Within(d, o).items)
<1> DEFINE q == Extend(o, i)
           n == Len(o)
           Sound(r, j) ==
               r \in Paths /\ Within(d, r).kind = "object" /\ j <= Len(Within(d, r).items)
           Good(s, k) == Sound(SubSeq(s, 1, k - 1), s[k])
<1>1. n \in Nat /\ Len(q) = n + 1 /\ q[n + 1] = i /\ \A k \in 1 .. n : q[k] = o[k]
  BY Extended, LenProperties
<1>2. ASSUME NEW k \in 1 .. n PROVE Good(q, k) <=> Good(o, k)
  <2> DEFINE j == k - 1
  <2>1. j \in 0 .. Len(o)
    BY <1>1
  <2> HIDE DEF j
  <2>2. SubSeq(Extend(o, i), 1, j) = SubSeq(o, 1, j)
    BY <2>1, PrefixKept
  <2> QED
    BY <1>1, <2>2 DEF j
<1>3. Good(q, n + 1) <=> Sound(o, i)
  <2>1. n \in 0 .. Len(o) /\ n + 1 - 1 = n
    BY <1>1
  <2>2. SubSeq(Extend(o, i), 1, n) = SubSeq(o, 1, n)
    BY <2>1, PrefixKept
  <2>3. SubSeq(o, 1, n) = o
    BY Whole
  <2>4. SubSeq(q, 1, n + 1 - 1) = o
    BY <2>1, <2>2, <2>3
  <2>5. q[n + 1] = i
    BY <1>1
  <2> DEFINE r == SubSeq(q, 1, n + 1 - 1)
             j == q[n + 1]
  <2>6. Good(q, n + 1) <=> Sound(r, j)
    OBVIOUS
  <2>7. r = o /\ j = i
    BY <2>4, <2>5
  <2> HIDE DEF r, j, Good
  <2> QED
    BY <2>6, <2>7
<1>4. Walk(d, q) <=> \A k \in 1 .. n + 1 : Good(q, k)
  BY <1>1 DEF Walk
<1>5. Walk(d, o) <=> \A k \in 1 .. n : Good(o, k)
  BY DEF Walk
<1>6. /\ \A k \in 1 .. n + 1 : k \in 1 .. n \/ k = n + 1
      /\ n + 1 \in 1 .. n + 1 /\ \A k \in 1 .. n : k \in 1 .. n + 1
  BY <1>1
<1>7. Walk(d, q) <=> Walk(d, o) /\ Good(q, n + 1)
  <2> HIDE DEF Good, n, q
  <2> QED
    BY <1>2, <1>4, <1>5, <1>6
<1> QED
  BY <1>3, <1>7

LEMMA Replaced ==
    ASSUME NEW a, NEW b, NEW x
    PROVE  [[items |-> a, prefix |-> b] EXCEPT !.items = x] = [items |-> x, prefix |-> b]
OBVIOUS

\* The next item of the object that is walked, and the path to it.
LEMMA NextItem ==
    ASSUME NEW d \in JsonDocuments, NEW o \in Seq(Nat), NEW i \in Nat, Walk(d, Extend(o, i))
    PROVE  LET q == Extend(o, i + 1)
               left == Left(d, o, i)
               items == Within(d, o).items
           IN  /\ left.items = <<>> => Beyond(d, o, i) = {}
               /\ left.items # <<>> =>
                      /\ q \in Paths
                      /\ i + 1 <= Len(items)
                      /\ Within(d, q) = Head(left.items)[2]
                      /\ NameIn(d, q) = left.prefix \o Head(left.items)[1]
                      /\ [left EXCEPT !.items = Tail(@)] = Left(d, o, i + 1)
<1> DEFINE items == Within(d, o).items
           q == Extend(o, i + 1)
           left == Left(d, o, i)
           rest == SubSeq(items, i + 1, Len(items))
<1>1. o \in Paths /\ Within(d, o).kind = "object" /\ i <= Len(items)
  BY WalkMore
<1>2. /\ Len(o) < MaxDepth /\ items \in Seq(Range(items)) /\ Len(items) <= MaxItems
      /\ MaxItems \in Nat /\ MaxDepth \in Nat
  BY <1>1, JsonAssumption
<1>3. left.items = rest /\ left.prefix = PrefixIn(d, o)
      /\ left = [items |-> rest, prefix |-> PrefixIn(d, o)]
  BY DEF Left
<1>4. Len(items) \in Nat /\ DOMAIN items = 1 .. Len(items)
  BY <1>2, LenProperties
<1>5. ASSUME rest = <<>> PROVE Beyond(d, o, i) = {}
  <2>1. i = Len(items)
    <3> DEFINE its == items
    <3>1. its \in Seq(Range(items))
      BY <1>2
    <3> HIDE DEF its
    <3> SUFFICES ASSUME i # Len(items) PROVE FALSE
      OBVIOUS
    <3>2. i + 1 \in 1 .. Len(its) /\ i + 1 <= Len(its)
      BY <1>1, <1>4 DEF its
    <3>3. Len(its) \in Nat /\ \A k \in i + 1 .. Len(its) : its[k] \in Range(items)
      BY <1>1, <1>4, <3>1 DEF its
    <3>4. Len(SubSeq(its, i + 1, Len(its))) = Len(its) - (i + 1) + 1
      BY <3>2, <3>3, SubSeqProperties
    <3>5. Len(rest) # 0
      BY <3>2, <3>3, <3>4 DEF its
    <3> HIDE DEF rest
    <3> QED
      BY <1>5, <3>5
  <2>2. \A j \in Nat : j > i => j \notin DOMAIN items
    BY <1>4, <2>1
  <2> QED
    BY <1>1, <2>2, BeyondEnd
<1>6. ASSUME rest # <<>>
      PROVE  /\ q \in Paths /\ i + 1 <= Len(items)
             /\ Within(d, q) = Head(rest)[2]
             /\ NameIn(d, q) = PrefixIn(d, o) \o Head(rest)[1]
             /\ [left EXCEPT !.items = Tail(@)] = Left(d, o, i + 1)
  <2>1. i + 1 <= Len(items) /\ i + 1 \in 1 .. Len(items)
    <3> SUFFICES ASSUME ~(i + 1 <= Len(items)) PROVE FALSE
      BY <1>4
    <3> HIDE DEF items
    <3>1. Len(items) \in Int /\ i + 1 \in Int /\ Len(items) < i + 1
      BY <1>4
    <3> QED
      BY <1>6, <3>1, SubSeqEmpty
  <2>2. Head(rest) = items[i + 1] /\ Tail(rest) = SubSeq(items, i + 2, Len(items))
    <3>1. i + 1 \in 1 .. Len(items) /\ Len(items) \in i + 1 .. Len(items) /\ i + 1 + 1 = i + 2
      BY <1>4, <2>1
    <3> HIDE DEF items
    <3> DEFINE m == i + 1
    <3>2. m \in 1 .. Len(items) /\ Len(items) \in m .. Len(items)
      BY <3>1
    <3> HIDE DEF m
    <3>3. Head(SubSeq(items, m, Len(items))) = items[m]
          /\ Tail(SubSeq(items, m, Len(items))) = SubSeq(items, m + 1, Len(items))
      BY <1>2, <3>2, HeadTailOfSubSeq
    <3> QED
      BY <3>1, <3>3 DEF m
  <2>3. q \in Paths
    <3>1. o \in Seq(1 .. MaxItems) /\ Len(o) \in Nat
      BY <1>1, PathType
    <3>2. o \in Seq(1 .. MaxItems) /\ i + 1 \in 1 .. MaxItems
      BY <1>2, <1>4, <2>1, <3>1
    <3>3. q \in Seq(1 .. MaxItems) /\ Len(q) = Len(o) + 1
      BY <3>2, AppendProperties DEF Extend
    <3>4. Len(q) <= MaxDepth
      BY <1>2, <3>1, <3>3
    <3> HIDE DEF q
    <3> QED
      BY <3>3, <3>4, PathType
  <2>4. /\ Within(d, q) = ItemOf(Within(d, o), i + 1)
        /\ NameIn(d, q) = PrefixIn(d, o) \o Within(d, o).items[i + 1][1]
    <3> DEFINE j == i + 1
    <3>1. j \in Nat
      OBVIOUS
    <3> HIDE DEF j
    <3>2. /\ Within(d, Extend(o, j)) = ItemOf(Within(d, o), j)
          /\ NameIn(d, Extend(o, j)) = PrefixIn(d, o) \o Within(d, o).items[j][1]
      BY <3>1, OneStep
    <3> QED
      BY <3>2 DEF j
  <2>5. Within(d, q) = items[i + 1][2]
    BY <1>1, <1>4, <2>1, <2>4 DEF ItemOf
  <2>6. Left(d, o, i + 1) = [items |-> SubSeq(items, i + 2, Len(items)), prefix |-> PrefixIn(d, o)]
    <3>1. i + 1 + 1 = i + 2
      OBVIOUS
    <3> QED
      BY <3>1 DEF Left
  <2>7. [left EXCEPT !.items = Tail(@)] = [items |-> Tail(rest), prefix |-> PrefixIn(d, o)]
    <3> HIDE DEF left, rest
    <3> DEFINE pre == PrefixIn(d, o)
               next == Tail(rest)
    <3>1. left = [items |-> rest, prefix |-> pre] /\ left.items = rest
      BY <1>3
    <3> HIDE DEF pre, next
    <3>2. [[items |-> rest, prefix |-> pre] EXCEPT !.items = next]
              = [items |-> next, prefix |-> pre]
      BY Replaced
    <3>3. [left EXCEPT !.items = next] = [items |-> next, prefix |-> pre]
      BY <3>1, <3>2
    <3> QED
      BY <3>1, <3>3 DEF pre, next
  <2> QED
    BY <2>1, <2>2, <2>3, <2>4, <2>5, <2>6, <2>7
<1> QED
  BY <1>3, <1>5, <1>6

Put(f, name, value) == [n \in DOMAIN f \cup {name} |-> IF n = name THEN value ELSE f[n]]

\* One scalar more: its name is new, or two paths clash.
LEMMA CoverMore ==
    ASSUME NEW d, NEW f, NEW P \in SUBSET ScalarPaths(d),
           NEW q \in ScalarPaths(d), q \notin P, Covered(d, f, P)
    PROVE  IF NameIn(d, q) = <<>> \/ NameIn(d, q) \in DOMAIN f THEN NamesClash(d)
           ELSE Covered(d, Put(f, NameIn(d, q), Printed(Within(d, q))), P \cup {q})
<1> DEFINE name == NameIn(d, q)
           new == [n \in DOMAIN f \cup {name} |->
                      IF n = name THEN Printed(Within(d, q)) ELSE f[n]]
<1>1. /\ DOMAIN f = {NameIn(d, p) : p \in P}
      /\ \A p \in P : NameIn(d, p) # <<>> /\ f[NameIn(d, p)] = Printed(Within(d, p))
      /\ \A p, r \in P : NameIn(d, p) = NameIn(d, r) => p = r
  BY DEF Covered
<1>2. ASSUME name = <<>> PROVE NamesClash(d)
  BY <1>2 DEF NamesClash
<1>3. ASSUME name \in DOMAIN f PROVE NamesClash(d)
  <2>1. PICK p \in P : name = NameIn(d, p)
    BY <1>1, <1>3
  <2> QED
    BY <2>1 DEF NamesClash
<1>4. ASSUME name # <<>>, name \notin DOMAIN f PROVE Covered(d, new, P \cup {q})
  <2>1. \A p \in P : NameIn(d, p) # name
    BY <1>1, <1>4
  <2>2. DOMAIN new = {NameIn(d, p) : p \in P \cup {q}}
    BY <1>1
  <2>3. ASSUME NEW p \in P \cup {q}
        PROVE  NameIn(d, p) # <<>> /\ new[NameIn(d, p)] = Printed(Within(d, p))
    BY <1>1, <1>4, <2>1
  <2>4. ASSUME NEW p \in P \cup {q}, NEW r \in P \cup {q}, NameIn(d, p) = NameIn(d, r)
        PROVE  p = r
    BY <1>1, <2>1, <2>4
  <2> HIDE DEF new
  <2> QED
    BY <2>2, <2>3, <2>4 DEF Covered
<1> QED
  BY <1>2, <1>3, <1>4 DEF Put

-----------------------------------------------------------------------------
(* The walk *)

\* The scalars that a walk has passed.
Seen(d, pos) == ScalarPaths(d) \ Pending(d, pos)

\* A walk of a document has a position in each object on the path to what it
\* walks, and the variables are those of the scalars that it has passed.
Reached(d, st, f, pos) ==
    /\ Walk(d, pos) /\ st = StackOf(d, pos)
    /\ Covered(d, f, Seen(d, pos))

JsonInv ==
    /\ root \in JsonDocuments
    /\ jsonEnd \in {"walking", "parsed", "rejected", "aborted"}
    /\ jsonEnd = "walking" =>
           \/ stack = <<>> /\ root.kind # "object"
           \/ \E o \in Seq(Nat), i \in Nat : Reached(root, stack, found, Extend(o, i))
    /\ jsonEnd = "parsed" => Covered(root, found, ScalarPaths(root))
    /\ jsonEnd = "rejected" => root.kind # "object"
    /\ jsonEnd = "aborted" => NamesClash(root)

LEMMA NoneFound ==
    ASSUME NEW d
    PROVE  Pending(d, <<>>) = {} /\ StackOf(d, <<>>) = <<>> /\ Walk(d, <<>>) /\ <<>> \in Paths
<1>1. Len(<<>>) = 0 /\ \A k \in 1 .. 0 : FALSE
  OBVIOUS
<1>2. Pending(d, <<>>) = {} /\ Walk(d, <<>>)
  BY <1>1 DEF Pending, Walk
<1>3. StackOf(d, <<>>) = <<>>
  BY DEF StackOf
<1>4. <<>> \in Paths
  <2>1. MaxDepth \in Nat /\ <<>> \in Seq(1 .. MaxItems)
    BY JsonAssumption
  <2>2. Len(<<>>) <= MaxDepth
    BY <1>1, <2>1
  <2> QED
    BY <2>1, <2>2, PathType
<1> QED
  BY <1>2, <1>3, <1>4

LEMMA JsonInitInv == JsonInit => JsonInv
<1> SUFFICES ASSUME NEW d \in JsonDocuments, JsonStart(d) PROVE JsonInv
  BY DEF JsonInit
<1>1. root = d /\ found = <<>> /\ jsonEnd = "walking"
      /\ stack = IF d.kind = "object" THEN <<[items |-> d.items, prefix |-> <<>>]>> ELSE <<>>
  BY DEF JsonStart
<1>2. ASSUME d.kind = "object"
      PROVE  \E o \in Seq(Nat), i \in Nat : Reached(d, stack, found, Extend(o, i))
  <2>1. PICK none \in Seq(Nat) : /\ none \in Paths /\ Len(none) = 0
                                 /\ Within(d, none) = d /\ PrefixIn(d, none) = <<>>
                                 /\ Pending(d, none) = {} /\ StackOf(d, none) = <<>>
                                 /\ Walk(d, none)
    <3>1. <<>> \in Seq(Nat) /\ Len(<<>>) = 0
      OBVIOUS
    <3> QED
      BY <3>1, NoneFound, WithinNothing DEF PrefixIn
  <2>2. d.items \in Seq(Range(d.items)) /\ Len(d.items) \in Nat
    <3>1. d.items \in Seq(Range(d.items))
      BY <1>2, <2>1, JsonAssumption
    <3> QED
      BY <3>1, LenProperties
  <2> DEFINE zero == 0
             pos == Extend(none, zero)
  <2>3. zero \in Nat
    OBVIOUS
  <2>4. zero = 0
    OBVIOUS
  <2> HIDE DEF zero
  <2>5. Walk(d, pos)
    <3>1. zero <= Len(Within(d, none).items)
      BY <2>1, <2>2, <2>4
    <3> QED
      BY <1>2, <2>1, <2>3, <3>1, WalkMore
  <2>6. StackOf(d, pos) = stack
    <3>1. SubSeq(d.items, 1, Len(d.items)) = d.items
      BY <2>2
    <3>2. Left(d, none, zero) = [items |-> d.items, prefix |-> <<>>]
      BY <2>1, <2>4, <3>1 DEF Left
    <3>3. StackOf(d, pos) = <<Left(d, none, zero)>> \o StackOf(d, none)
      BY <2>3, Pushed
    <3> QED
      BY <1>1, <1>2, <2>1, <3>2, <3>3
  <2>7. Pending(d, pos) = ScalarPaths(d)
    <3>1. Pending(d, pos) = Beyond(d, none, 0)
      <4>1. Pending(d, pos) = Pending(d, none) \cup Beyond(d, none, zero)
        BY <2>3, PendingMore
      <4> QED
        BY <2>1, <2>4, <4>1
    <3>2. Under(d, none) = Beyond(d, none, 0)
      BY <1>2, <2>1, UnderObject
    <3>3. ASSUME NEW p \in ScalarPaths(d) PROVE Begins(none, p)
      BY <2>1, ScalarType DEF Begins
    <3> QED
      BY <3>1, <3>2, <3>3 DEF Under
  <2>8. Covered(d, found, Seen(d, pos))
    <3>1. Seen(d, pos) = {}
      BY <2>7 DEF Seen
    <3>2. DOMAIN found = {}
      BY <1>1
    <3> HIDE DEF pos
    <3> QED
      BY <3>1, <3>2 DEF Covered
  <2> QED
    BY <2>1, <2>3, <2>5, <2>6, <2>8 DEF Reached
<1> QED
  BY <1>1, <1>2 DEF JsonInv

\* What an action finds on the top of the stack.
NextOf(st) == Head(Head(st).items)[2]
NextKind(st) == NextOf(st).kind
NextName(st) == Head(st).prefix \o Head(Head(st).items)[1]
RestOf(st) == [Head(st) EXCEPT !.items = Tail(@)]
LeftOn(st) == Head(st).items
Advanced(st) == <<RestOf(st)>> \o Tail(st)

LEMMA AtTop ==
    ASSUME NEW d \in JsonDocuments, NEW f, NEW o \in Seq(Nat), NEW i \in Nat,
           NEW st, Reached(d, st, f, Extend(o, i)), LeftOn(st) # <<>>,
           NEW q, q = Extend(o, i + 1)
    PROVE  /\ q \in Paths /\ q \in Seq(Nat) /\ Walk(d, q)
           /\ NextOf(st) = Within(d, q) /\ NextName(st) = NameIn(d, q)
           /\ RestOf(st) = Left(d, o, i + 1)
           /\ Advanced(st) = StackOf(d, q)
           /\ Pending(d, Extend(o, i)) = Pending(d, q) \cup Under(d, q)
           /\ q \notin Pending(d, q)
<1> DEFINE left == Left(d, o, i)
           j == i + 1
<1>1. /\ Walk(d, Extend(o, i)) /\ st = StackOf(d, Extend(o, i))
  BY DEF Reached
<1>2. Head(st) = left /\ Tail(st) = StackOf(d, o)
  BY <1>1, Pushed
<1>3. /\ q \in Paths /\ i + 1 <= Len(Within(d, o).items)
      /\ Within(d, q) = Head(left.items)[2]
      /\ NameIn(d, q) = left.prefix \o Head(left.items)[1]
      /\ [left EXCEPT !.items = Tail(@)] = Left(d, o, i + 1)
  <2>1. left.items # <<>>
    BY <1>2 DEF LeftOn
  <2> QED
    BY <1>1, <2>1, NextItem
<1>4. j \in Nat /\ q = Extend(o, j)
  OBVIOUS
<1> HIDE DEF j
<1>5. q \in Seq(Nat)
  BY <1>4, Extended
<1>6. Walk(d, q)
  <2>1. j <= Len(Within(d, o).items)
    BY <1>3 DEF j
  <2> QED
    BY <1>1, <1>4, <2>1, WalkMore
<1>7. <<Left(d, o, i + 1)>> \o Tail(st) = StackOf(d, q)
  <2>1. StackOf(d, Extend(o, j)) = <<Left(d, o, j)>> \o StackOf(d, o)
    BY <1>4, Pushed
  <2> QED
    BY <1>2, <2>1 DEF j
<1>8. Pending(d, Extend(o, i)) = Pending(d, q) \cup Under(d, q) /\ q \notin Pending(d, q)
  <2>1. Pending(d, Extend(o, i)) = Pending(d, o) \cup Beyond(d, o, i)
    BY PendingMore
  <2>2. Pending(d, Extend(o, j)) = Pending(d, o) \cup Beyond(d, o, j)
    BY <1>4, PendingMore
  <2>3. Beyond(d, o, i) = Beyond(d, o, i + 1) \cup Under(d, q)
    BY BeyondStep
  <2>4. Extend(o, j) \notin Pending(d, o) /\ Extend(o, j) \notin Beyond(d, o, j)
    BY <1>4, NotAgain
  <2> QED
    BY <2>1, <2>2, <2>3, <2>4 DEF j
<1> HIDE DEF left
<1>9. NextOf(st) = Within(d, q) /\ NextName(st) = NameIn(d, q) /\ RestOf(st) = Left(d, o, i + 1)
  BY <1>2, <1>3 DEF NextOf, NextName, RestOf
<1>10. Advanced(st) = StackOf(d, q)
  BY <1>7, <1>9 DEF Advanced
<1> QED
  BY <1>3, <1>5, <1>6, <1>8, <1>9, <1>10

LEMMA PushTwo ==
    ASSUME NEW S, NEW a \in S, NEW b \in S, NEW t \in Seq(S)
    PROVE  <<a, b>> \o t = <<a>> \o (<<b>> \o t)
<1>1. <<a>> \in Seq(S) /\ <<b>> \in Seq(S)
  OBVIOUS
<1>2. (<<a>> \o <<b>>) \o t = <<a>> \o (<<b>> \o t)
  BY <1>1, ConcatAssociative
<1>3. <<a>> \o <<b>> = <<a, b>>
  <2> DEFINE s == <<a>>
             u == <<b>>
             w == <<a, b>>
  <2>1. /\ s \in Seq(S) /\ Len(s) = 1 /\ s[1] = a
        /\ u \in Seq(S) /\ Len(u) = 1 /\ u[1] = b
        /\ w \in Seq(S) /\ Len(w) = 2 /\ w[1] = a /\ w[2] = b
    OBVIOUS
  <2> HIDE DEF s, u, w
  <2>2. /\ s \o u \in Seq(S) /\ Len(s \o u) = Len(s) + Len(u)
        /\ \A i \in 1 .. Len(s) + Len(u) :
               (s \o u)[i] = IF i <= Len(s) THEN s[i] ELSE u[i - Len(s)]
    BY <2>1, ConcatProperties
  <2>3. Len(s \o u) = 2 /\ (s \o u)[1] = a /\ (s \o u)[2] = b
    BY <2>1, <2>2
  <2>4. \A i \in 1 .. 2 : (s \o u)[i] = w[i]
    <3>1. \A i \in 1 .. 2 : i = 1 \/ i = 2
      OBVIOUS
    <3> QED
      BY <2>1, <2>3, <3>1
  <2> DEFINE v == s \o u
  <2>5. v \in Seq(S) /\ Len(v) = Len(w) /\ \A i \in 1 .. Len(v) : v[i] = w[i]
    BY <2>1, <2>2, <2>3, <2>4
  <2> HIDE DEF v
  <2>6. v = w
    BY <2>1, <2>5, SeqEqual
  <2> QED
    BY <2>6 DEF s, u, v, w
<1> QED
  BY <1>2, <1>3

\* The items of an object within another are walked next.
LEMMA Descended ==
    ASSUME NEW d \in JsonDocuments, NEW f, NEW o \in Seq(Nat), NEW i \in Nat,
           NEW st, Reached(d, st, f, Extend(o, i)), LeftOn(st) # <<>>,
           NextOf(st).kind = "object"
    PROVE  LET top == [items |-> NextOf(st).items, prefix |-> NextName(st) \o JsonDelimiter]
           IN  Reached(d, <<top, RestOf(st)>> \o Tail(st), f, Extend(Extend(o, i + 1), 0))
<1> DEFINE outer == NextName(st) \o JsonDelimiter
           top == [items |-> NextOf(st).items, prefix |-> outer]
<1>1. PICK q : q = Extend(o, i + 1)
  OBVIOUS
<1>2. /\ q \in Paths /\ q \in Seq(Nat) /\ Walk(d, q)
      /\ NextOf(st) = Within(d, q) /\ NextName(st) = NameIn(d, q)
      /\ RestOf(st) = Left(d, o, i + 1)
      /\ Advanced(st) = StackOf(d, q)
      /\ Pending(d, Extend(o, i)) = Pending(d, q) \cup Under(d, q)
  BY <1>1, AtTop
<1>3. Within(d, q).kind = "object"
  BY <1>2
<1>4. Within(d, q).items \in Seq(Range(Within(d, q).items)) /\ Len(Within(d, q).items) \in Nat
  <2>1. Within(d, q).items \in Seq(Range(Within(d, q).items))
    BY <1>2, <1>3, JsonAssumption
  <2> QED
    BY <2>1, LenProperties
<1> DEFINE zero == 0
<1>5. zero \in Nat
  OBVIOUS
<1>6. zero = 0
  OBVIOUS
<1> HIDE DEF zero
<1> DEFINE pos == Extend(q, zero)
<1>7. Walk(d, pos)
  <2>1. zero <= Len(Within(d, q).items)
    BY <1>4, <1>6
  <2> QED
    BY <1>2, <1>3, <1>5, <2>1, WalkMore
<1>8. top = Left(d, q, zero)
  <2>1. q # <<>>
    BY <1>1, Extended
  <2>2. outer = PrefixIn(d, q)
    BY <1>2, <2>1 DEF PrefixIn
  <2>3. SubSeq(Within(d, q).items, 1, Len(Within(d, q).items)) = Within(d, q).items
    BY <1>4
  <2>4. Left(d, q, zero) = [items |-> Within(d, q).items, prefix |-> PrefixIn(d, q)]
    <3>1. zero + 1 = 1
      BY <1>6
    <3> QED
      BY <2>3, <3>1 DEF Left
  <2> QED
    BY <1>2, <2>2, <2>4
<1>9. <<top, RestOf(st)>> \o Tail(st) = StackOf(d, pos)
  <2> DEFINE Y == {Left(d, a, b) : a \in Seq(Nat), b \in Nat}
  <2> DEFINE t == Tail(st)
  <2>1. t = StackOf(d, o)
    BY Pushed DEF Reached
  <2> HIDE DEF t
  <2>2. t \in Seq(Y)
    <3>1. StackOf(d, o) \in Seq(Y)
      BY StackType
    <3> HIDE DEF Y
    <3> QED
      BY <2>1, <3>1
  <2>3. top \in Y /\ RestOf(st) \in Y
    <3>1. \A a \in Seq(Nat), b \in Nat : Left(d, a, b) \in Y
      OBVIOUS
    <3>2. i + 1 \in Nat
      OBVIOUS
    <3> HIDE DEF Y, top
    <3> QED
      BY <1>2, <1>5, <1>8, <3>1, <3>2
  <2>4. StackOf(d, pos) = <<top>> \o (<<RestOf(st)>> \o t)
    <3>1. StackOf(d, pos) = <<Left(d, q, zero)>> \o StackOf(d, q)
      BY <1>2, <1>5, Pushed
    <3>2. StackOf(d, q) = <<RestOf(st)>> \o t
      BY <1>2 DEF t, Advanced
    <3> HIDE DEF top
    <3> QED
      BY <1>8, <3>1, <3>2
  <2> HIDE DEF Y, top
  <2>5. <<top, RestOf(st)>> \o t = <<top>> \o (<<RestOf(st)>> \o t)
    BY <2>2, <2>3, PushTwo
  <2> QED
    BY <2>4, <2>5 DEF t
<1>10. Pending(d, pos) = Pending(d, Extend(o, i))
  <2>1. Pending(d, pos) = Pending(d, q) \cup Beyond(d, q, zero)
    BY <1>2, <1>5, PendingMore
  <2>2. Under(d, q) = Beyond(d, q, 0)
    BY <1>2, <1>3, UnderObject
  <2> QED
    BY <1>2, <1>6, <2>1, <2>2
<1>11. Covered(d, f, Seen(d, pos))
  <2>1. Covered(d, f, Seen(d, Extend(o, i)))
    BY DEF Reached
  <2> QED
    BY <1>10, <2>1 DEF Seen
<1> HIDE DEF top
<1>12. Reached(d, <<top, RestOf(st)>> \o Tail(st), f, pos)
  BY <1>7, <1>9, <1>11 DEF Reached
<1> QED
  BY <1>1, <1>6, <1>12 DEF top

\* An item that is no object is passed.
Passes(d, st, f, o, i, q) ==
    LET seen == Seen(d, Extend(o, i))
    IN  /\ Walk(d, q) /\ Advanced(st) = StackOf(d, q)
        /\ NextOf(st) = Within(d, q) /\ NextName(st) = NameIn(d, q)
        /\ Covered(d, f, seen)
        /\ NextKind(st) \in ScalarKinds =>
               q \in ScalarPaths(d) /\ q \notin seen /\ Seen(d, q) = seen \cup {q}
        /\ NextKind(st) \notin ScalarKinds => Seen(d, q) = seen

LEMMA Passed ==
    ASSUME NEW d \in JsonDocuments, NEW f, NEW o \in Seq(Nat), NEW i \in Nat,
           NEW st, Reached(d, st, f, Extend(o, i)), LeftOn(st) # <<>>,
           NextKind(st) # "object", NEW q, q = Extend(o, i + 1)
    PROVE  Passes(d, st, f, o, i, q)
<1>2. /\ q \in Paths /\ q \in Seq(Nat) /\ Walk(d, q)
      /\ NextOf(st) = Within(d, q) /\ NextName(st) = NameIn(d, q)
      /\ Advanced(st) = StackOf(d, q)
      /\ Pending(d, Extend(o, i)) = Pending(d, q) \cup Under(d, q)
      /\ q \notin Pending(d, q)
  BY AtTop
<1>3. Under(d, q) = {q} \cap ScalarPaths(d)
  BY <1>2, UnderOther DEF NextKind
<1>4. q # <<>>
  BY <1>2, Extended
<1>5. Covered(d, f, Seen(d, Extend(o, i)))
  BY DEF Reached
<1>6. q \in ScalarPaths(d) <=> NextKind(st) \in ScalarKinds
  BY <1>2, <1>4 DEF ScalarPaths, NextKind
<1>7. NextKind(st) \in ScalarKinds =>
          /\ q \in ScalarPaths(d) /\ q \notin Seen(d, Extend(o, i))
          /\ Seen(d, q) = Seen(d, Extend(o, i)) \cup {q}
  BY <1>2, <1>3, <1>6 DEF Seen
<1>8. NextKind(st) \notin ScalarKinds => Seen(d, q) = Seen(d, Extend(o, i))
  BY <1>2, <1>3, <1>6 DEF Seen
<1> QED
  BY <1>2, <1>5, <1>7, <1>8 DEF Passes

\* The walk of an object ends where it has passed all of it.
LEMMA Ascended ==
    ASSUME NEW d \in JsonDocuments, NEW f, NEW o \in Seq(Nat), NEW i \in Nat,
           NEW st, Reached(d, st, f, Extend(o, i)), LeftOn(st) = <<>>
    PROVE  /\ Len(st) = Len(o) + 1
           /\ o = <<>> => Covered(d, f, ScalarPaths(d))
           /\ Reached(d, Tail(st), f, o)
<1>1. /\ Walk(d, Extend(o, i)) /\ st = StackOf(d, Extend(o, i))
      /\ Covered(d, f, Seen(d, Extend(o, i)))
  BY DEF Reached
<1>2. Head(st) = Left(d, o, i) /\ Tail(st) = StackOf(d, o) /\ Len(st) = Len(o) + 1
  BY <1>1, Pushed
<1>3. Beyond(d, o, i) = {}
  <2>1. Left(d, o, i).items = <<>>
    BY <1>2 DEF LeftOn
  <2> QED
    BY <1>1, <2>1, NextItem
<1>4. Pending(d, Extend(o, i)) = Pending(d, o)
  <2>1. Pending(d, Extend(o, i)) = Pending(d, o) \cup Beyond(d, o, i)
    BY PendingMore
  <2> QED
    BY <1>3, <2>1
<1>5. Walk(d, o)
  BY <1>1, WalkMore
<1>6. Covered(d, f, Seen(d, o))
  BY <1>1, <1>4 DEF Seen
<1>7. o = <<>> => Covered(d, f, ScalarPaths(d))
  <2> SUFFICES ASSUME o = <<>> PROVE Covered(d, f, ScalarPaths(d))
    OBVIOUS
  <2>1. Pending(d, o) = {}
    BY NoneFound
  <2>2. Seen(d, o) = ScalarPaths(d)
    BY <2>1 DEF Seen
  <2> QED
    BY <1>6, <2>2
<1> QED
  BY <1>2, <1>5, <1>6, <1>7 DEF Reached

LEMMA JsonNextInv == JsonInv /\ [JsonNext]_jsonVars => JsonInv'
<1> SUFFICES ASSUME JsonInv, [JsonNext]_jsonVars PROVE JsonInv'
  OBVIOUS
<1>1. PICK d \in JsonDocuments : d = root
  BY DEF JsonInv
<1>2. ASSUME jsonEnd = "walking", stack # <<>>
      PROVE  \E o \in Seq(Nat), i \in Nat : Reached(d, stack, found, Extend(o, i))
  BY <1>1, <1>2 DEF JsonInv
<1>3. ASSUME Walking
      PROVE  /\ jsonEnd = "walking" /\ stack # <<>> /\ LeftOn(stack) # <<>>
             /\ Item = NextOf(stack) /\ Top.prefix \o Key = NextName(stack)
             /\ Rest = RestOf(stack) /\ <<Rest>> \o Tail(stack) = Advanced(stack)
  BY <1>3 DEF Walking, Top, Key, Item, Rest, LeftOn, NextOf, NextName, RestOf, Advanced
<1>4. CASE Descend
  <2>1. /\ Walking /\ Item.kind = "object" /\ root' = root /\ found' = found /\ jsonEnd' = jsonEnd
        /\ stack' = <<[items |-> Item.items, prefix |-> Prefix(Top.prefix, Key)], Rest>>
                        \o Tail(stack)
    BY <1>4 DEF Descend
  <2>2. PICK o \in Seq(Nat), i \in Nat : Reached(d, stack, found, Extend(o, i))
    BY <1>2, <1>3, <2>1
  <2>3. NextOf(stack).kind = "object" /\ LeftOn(stack) # <<>>
    BY <1>3, <2>1
  <2>4. Reached(d, <<[items |-> NextOf(stack).items, prefix |-> NextName(stack) \o JsonDelimiter],
                     RestOf(stack)>> \o Tail(stack),
                found, Extend(Extend(o, i + 1), 0))
    BY <2>2, <2>3, Descended
  <2>5. Prefix(Top.prefix, Key) = NextName(stack) \o JsonDelimiter
    BY <1>3, <2>1 DEF Prefix
  <2>6. Reached(d, stack', found', Extend(Extend(o, i + 1), 0))
    BY <1>3, <2>1, <2>4, <2>5
  <2>7. Extend(o, i + 1) \in Seq(Nat) /\ 0 \in Nat
    BY DEF Extend
  <2>8. jsonEnd' = "walking" /\ root' = d
    BY <1>1, <1>3, <2>1
  <2> QED
    BY <2>6, <2>7, <2>8 DEF JsonInv
<1>5. CASE Emit
  <2> DEFINE name == NextName(stack)
             new == Put(found, name, Printed(NextOf(stack)))
  <2>1. /\ Walking /\ NextOf(stack).kind \in ScalarKinds /\ root' = root
        /\ stack' = Advanced(stack)
        /\ IF name = <<>> \/ name \in DOMAIN found
           THEN jsonEnd' = "aborted" /\ found' = found
           ELSE found' = new /\ jsonEnd' = jsonEnd
    <3>1. Walking
      BY <1>5 DEF Emit
    <3> QED
      BY <1>3, <1>5, <3>1 DEF Emit, Put
  <2>2. PICK o \in Seq(Nat), i \in Nat : Reached(d, stack, found, Extend(o, i))
    BY <1>2, <1>3, <2>1
  <2>3. NextKind(stack) # "object" /\ NextKind(stack) \in ScalarKinds /\ LeftOn(stack) # <<>>
    BY <1>3, <2>1 DEF ScalarKinds, NextKind
  <2>4. PICK q : q = Extend(o, i + 1)
    OBVIOUS
  <2>5. /\ Walk(d, q) /\ Advanced(stack) = StackOf(d, q)
        /\ NextOf(stack) = Within(d, q) /\ name = NameIn(d, q)
        /\ Covered(d, found, Seen(d, Extend(o, i)))
        /\ q \in ScalarPaths(d) /\ q \notin Seen(d, Extend(o, i))
        /\ Seen(d, q) = Seen(d, Extend(o, i)) \cup {q}
    <3>1. Passes(d, stack, found, o, i, q)
      BY <2>2, <2>3, <2>4, Passed
    <3> QED
      BY <2>3, <3>1 DEF Passes
  <2>6. IF name = <<>> \/ name \in DOMAIN found THEN NamesClash(d)
        ELSE Covered(d, new, Seen(d, Extend(o, i)) \cup {q})
    <3>1. Seen(d, Extend(o, i)) \in SUBSET ScalarPaths(d)
      BY DEF Seen
    <3> QED
      BY <2>5, <3>1, CoverMore
  <2>7. jsonEnd = "walking" /\ root' = d
    BY <1>1, <1>3, <2>1
  <2>8. CASE name = <<>> \/ name \in DOMAIN found
    BY <2>1, <2>6, <2>7, <2>8 DEF JsonInv
  <2>9. CASE ~(name = <<>> \/ name \in DOMAIN found)
    <3>1. found' = new /\ jsonEnd' = "walking" /\ Covered(d, new, Seen(d, Extend(o, i)) \cup {q})
      BY <2>1, <2>6, <2>7, <2>9
    <3> HIDE DEF new
    <3>2. Reached(d, stack', found', q)
      BY <2>1, <2>5, <3>1 DEF Reached
    <3>3. i + 1 \in Nat
      OBVIOUS
    <3>4. \E a \in Seq(Nat), b \in Nat : Reached(root', stack', found', Extend(a, b))
      BY <2>4, <2>7, <3>2, <3>3
    <3> QED
      BY <2>7, <3>1, <3>4 DEF JsonInv
  <2> QED
    BY <2>8, <2>9
<1>6. CASE Ignore
  <2>1. /\ Walking /\ NextOf(stack).kind \in {"array", "null"} /\ root' = root
        /\ stack' = Advanced(stack) /\ found' = found /\ jsonEnd' = jsonEnd
    <3>1. Walking
      BY <1>6 DEF Ignore
    <3> QED
      BY <1>3, <1>6, <3>1 DEF Ignore
  <2>2. PICK o \in Seq(Nat), i \in Nat : Reached(d, stack, found, Extend(o, i))
    BY <1>2, <1>3, <2>1
  <2>3. NextKind(stack) # "object" /\ NextKind(stack) \notin ScalarKinds /\ LeftOn(stack) # <<>>
    BY <1>3, <2>1 DEF ScalarKinds, NextKind
  <2>4. PICK q : q = Extend(o, i + 1)
    OBVIOUS
  <2>5. /\ Walk(d, q) /\ Advanced(stack) = StackOf(d, q)
        /\ Covered(d, found, Seen(d, Extend(o, i))) /\ Seen(d, q) = Seen(d, Extend(o, i))
    <3>1. Passes(d, stack, found, o, i, q)
      BY <2>2, <2>3, <2>4, Passed
    <3> QED
      BY <2>3, <3>1 DEF Passes
  <2>6. Reached(d, stack', found', q)
    BY <2>1, <2>5 DEF Reached
  <2>7. i + 1 \in Nat
    OBVIOUS
  <2>8. jsonEnd' = "walking" /\ root' = d
    BY <1>1, <1>3, <2>1
  <2>9. \E a \in Seq(Nat), b \in Nat : Reached(root', stack', found', Extend(a, b))
    BY <2>4, <2>6, <2>7, <2>8
  <2> QED
    BY <2>8, <2>9 DEF JsonInv
<1>7. CASE Ascend
  <2>1. /\ jsonEnd = "walking" /\ stack # <<>> /\ LeftOn(stack) = <<>>
        /\ stack' = Tail(stack) /\ root' = root /\ found' = found
        /\ jsonEnd' = IF Len(stack) = 1 THEN "parsed" ELSE jsonEnd
    BY <1>7 DEF Ascend, Top, LeftOn
  <2>2. PICK o \in Seq(Nat), i \in Nat : Reached(d, stack, found, Extend(o, i))
    BY <1>2, <2>1
  <2>3. /\ Len(stack) = Len(o) + 1
        /\ o = <<>> => Covered(d, found, ScalarPaths(d))
        /\ Reached(d, Tail(stack), found, o)
    BY <2>1, <2>2, Ascended
  <2>4. root' = d
    BY <1>1, <2>1
  <2>5. CASE o = <<>>
    <3>1. Len(stack) = 1
      BY <2>3, <2>5
    <3>2. jsonEnd' = "parsed" /\ Covered(root', found', ScalarPaths(root'))
      BY <2>1, <2>3, <2>4, <2>5, <3>1
    <3> QED
      BY <2>4, <3>2 DEF JsonInv
  <2>6. CASE o # <<>>
    <3>1. Len(o) \in Nat /\ Len(o) # 0
      BY <2>6, LenProperties, EmptySeq
    <3>2. jsonEnd' = "walking"
      BY <2>1, <2>3, <3>1
    <3>3. PICK a \in Seq(Nat), b \in Nat : o = Extend(a, b)
      BY <2>6, Unextended
    <3>4. Reached(root', stack', found', Extend(a, b))
      BY <2>1, <2>3, <2>4, <3>3
    <3>5. \E p \in Seq(Nat), k \in Nat : Reached(root', stack', found', Extend(p, k))
      BY <3>4
    <3> QED
      BY <2>4, <3>2, <3>5 DEF JsonInv
  <2> QED
    BY <2>5, <2>6
<1>8. CASE Reject
  BY <1>8 DEF Reject, JsonInv
<1>9. CASE UNCHANGED jsonVars
  BY <1>9 DEF jsonVars, JsonInv
<1> QED
  BY <1>4, <1>5, <1>6, <1>7, <1>8, <1>9 DEF JsonNext

\* For every document: a document that file_parse_json() has walked gives one
\* variable per scalar, named by the keys on the path to it, and the process
\* stops on the assertions of file_parse_json_emit() only where two paths have
\* one name or a name is empty.
THEOREM VariablesPerScalar == JsonSpec => []VariablePerScalar
<1>1. JsonInv => VariablePerScalar
  <2> SUFFICES ASSUME JsonInv PROVE VariablePerScalar
    OBVIOUS
  <2>1. ASSUME Covered(root, found, ScalarPaths(root))
        PROVE  /\ ~NamesClash(root)
               /\ DOMAIN found = {NameIn(root, p) : p \in ScalarPaths(root)}
               /\ \A p \in ScalarPaths(root) : found[NameIn(root, p)] = Printed(Within(root, p))
    BY <2>1 DEF Covered, NamesClash
  <2> QED
    BY <2>1 DEF JsonInv, VariablePerScalar
<1> QED
  BY JsonInitInv, JsonNextInv, <1>1, PTL DEF JsonSpec

=============================================================================
