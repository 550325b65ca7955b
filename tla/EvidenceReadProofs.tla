------------------------- MODULE EvidenceReadProofs -------------------------
(***************************************************************************)
(* Proofs about EvidenceRead and the reads of SnapshotRead, for every      *)
(* size of a page, every limit and sources of any length.  The first part  *)
(* is about the excerpts: what read_file returned is what it returns again *)
(* at the place it named, however the byte limit has cut it.  The second   *)
(* part shows that IndInv is inductive: decisions, pages and excerpts.     *)
(***************************************************************************)
EXTENDS EvidenceRead, Induction, FiniteSetTheorems, SequenceTheorems

----------------------------------------------------------------------------
(* Sequences                                                               *)

LEMMA LeastOfTwo ==
    ASSUME NEW a \in Int, NEW b \in Int
    PROVE  Min({a, b}) = IF a <= b THEN a ELSE b
  <1>1. \E x \in {a, b} : \A y \in {a, b} : x <= y
    OBVIOUS
  <1>2. Min({a, b}) \in {a, b} /\ \A y \in {a, b} : Min({a, b}) <= y
    BY <1>1 DEF Min
  <1> QED BY <1>2

LEMMA Sequence ==
    ASSUME NEW S, NEW s \in Seq(S)
    PROVE  IsSequence(s) /\ Len(s) \in Nat /\ DOMAIN s = 1..Len(s) /\ Range(s) \subseteq S
           /\ \A i \in 1..Len(s) : s[i] \in S
  <1>1. Len(s) \in Nat /\ DOMAIN s = 1..Len(s) /\ \A i \in 1..Len(s) : s[i] \in S
    BY LenProperties
  <1>2. s \in [1..Len(s) -> Range(s)]
    BY <1>1, LenProperties DEF Range
  <1>3. s \in Seq(Range(s))
    BY <1>1, <1>2, SeqDef
  <1> QED BY <1>1, <1>3 DEF IsSequence, Range

(* The first n elements of a sequence.                                     *)
LEMMA FirstElements ==
    ASSUME NEW S, NEW s \in Seq(S), NEW n \in Int, n <= Len(s)
    PROVE  /\ SubSeq(s, 1, n) \in Seq(S)
           /\ Len(SubSeq(s, 1, n)) = IF n >= 0 THEN n ELSE 0
           /\ \A i \in 1..n : SubSeq(s, 1, n)[i] = s[i]
  <1>1. \A i \in 1..n : s[i] \in S
    BY LenProperties
  <1> QED BY <1>1, SubSeqProperties

----------------------------------------------------------------------------
(* "\n".join                                                               *)

(* f takes n to the first n of the lines, joined.                          *)
IsJoin(f, lines, k) ==
    f = [n \in 0..k |-> IF n = 0 THEN <<>>
                        ELSE IF n = 1 THEN lines[1]
                        ELSE f[n - 1] \o <<NewLine>> \o lines[n]]

LEMMA JoinIsThere == ASSUME NEW lines, NEW k \in Nat PROVE \E f : IsJoin(f, lines, k)
  <1> DEFINE S == {n \in Nat : \E f : IsJoin(f, lines, n)}
             Join(old, n) == IF n = 0 THEN <<>>
                             ELSE IF n = 1 THEN lines[1]
                             ELSE old \o <<NewLine>> \o lines[n]
  <1>1. 0 \in S
    <2>1. IsJoin([n \in 0..0 |-> <<>>], lines, 0)
      BY DEF IsJoin
    <2> QED BY <2>1
  <1>2. ASSUME NEW n \in S \cap Nat PROVE n + 1 \in S
    <2>1. PICK f : IsJoin(f, lines, n)
      BY <1>2
    <2> DEFINE g == [m \in 0..(n + 1) |-> IF m = n + 1 THEN Join(f[n], n + 1) ELSE f[m]]
    <2>2. ASSUME NEW m \in 0..(n + 1)
          PROVE  g[m] = Join(g[m - 1], m)
      <3>1. CASE m = n + 1
        BY <3>1
      <3>2. CASE m # n + 1 /\ m # 0
        <4>1. m \in 0..n /\ m - 1 \in 0..n /\ m - 1 # n + 1 /\ m - 1 \in 0..(n + 1)
          BY <3>2
        <4>2. f[m] = Join(f[m - 1], m)
          BY <2>1, <3>2, <4>1 DEF IsJoin
        <4> QED BY <3>2, <4>1, <4>2
      <3>3. CASE m = 0
        BY <2>1, <3>3 DEF IsJoin
      <3> QED BY <3>1, <3>2, <3>3
    <2>3. g = [m \in 0..(n + 1) |-> g[m]]
      OBVIOUS
    <2> HIDE DEF g
    <2>4. IsJoin(g, lines, n + 1)
      BY <2>2, <2>3 DEF IsJoin
    <2> QED BY <2>4
  <1> HIDE DEF S
  <1>3. Nat \subseteq S
    BY <1>1, <1>2, NatSetInduction
  <1> QED BY <1>3 DEF S

LEMMA JoinedIsJoin ==
    ASSUME NEW lines, Len(lines) \in Nat
    PROVE  \E f : IsJoin(f, lines, Len(lines)) /\ Joined(lines) = f[Len(lines)]
  <1> DEFINE f == CHOOSE g : IsJoin(g, lines, Len(lines))
  <1>1. IsJoin(f, lines, Len(lines))
    BY JoinIsThere
  <1>2. Joined(lines) = f[Len(lines)]
    BY DEF Joined, IsJoin
  <1> QED BY <1>1, <1>2

LEMMA JoinStep ==
    ASSUME NEW lines, NEW k \in Nat, NEW f, IsJoin(f, lines, k), NEW n \in 1..k
    PROVE  f[n] = IF n = 1 THEN lines[1] ELSE f[n - 1] \o <<NewLine>> \o lines[n]
  <1>1. n \in 0..k /\ n # 0
    OBVIOUS
  <1> QED BY <1>1 DEF IsJoin

LEMMA LaterStep ==
    ASSUME NEW lines, NEW k \in Nat, NEW f, IsJoin(f, lines, k), NEW n \in 2..k
    PROVE  f[n] = f[n - 1] \o <<NewLine>> \o lines[n]
  <1>1. n \in 0..k /\ ~(n = 0) /\ ~(n = 1)
    OBVIOUS
  <1> QED BY <1>1 DEF IsJoin

(* Lines that begin alike join alike, up to where they do.                 *)
LEMMA JoinsAgree ==
    ASSUME NEW lines, NEW more, NEW j \in Nat, NEW k \in Nat, j <= k,
           NEW f, NEW g, IsJoin(f, lines, j), IsJoin(g, more, k),
           \A i \in 1..j : lines[i] = more[i]
    PROVE  f[j] = g[j]
  <1> DEFINE S == {n \in Nat : n <= j => f[n] = g[n]}
  <1>1. 0 \in S
    BY DEF IsJoin
  <1>2. ASSUME NEW n \in S \cap Nat PROVE n + 1 \in S
    <2> SUFFICES ASSUME n + 1 <= j PROVE f[n + 1] = g[n + 1]
      OBVIOUS
    <2>1. f[n] = g[n] /\ lines[n + 1] = more[n + 1] /\ n + 1 \in 0..j /\ n + 1 \in 0..k
      BY <1>2
    <2>2. n + 1 \in 1..j /\ n + 1 \in 1..k /\ (n + 1) - 1 = n
      BY <2>1
    <2>3. f[n + 1] = IF n + 1 = 1 THEN lines[1] ELSE f[n] \o <<NewLine>> \o lines[n + 1]
      BY <2>2, JoinStep
    <2>4. g[n + 1] = IF n + 1 = 1 THEN more[1] ELSE g[n] \o <<NewLine>> \o more[n + 1]
      BY <2>2, JoinStep
    <2> QED BY <2>1, <2>3, <2>4
  <1> HIDE DEF S
  <1>3. Nat \subseteq S
    BY <1>1, <1>2, NatSetInduction
  <1> QED BY <1>3 DEF S

LEMMA LineAdded ==
    ASSUME NEW S, NewLine \in S, NEW text \in Seq(S), NEW line \in Seq(S)
    PROVE  LET more == text \o <<NewLine>> \o line IN
           /\ more \in Seq(S)
           /\ Len(text) < Len(more)
           /\ \A i \in 1..Len(text) : more[i] = text[i]
           /\ more[Len(text) + 1] = NewLine
  <1> DEFINE g == text \o <<NewLine>>
             more == g \o line
  <1>1. Len(text) \in Nat /\ Len(line) \in Nat
    BY LenProperties
  <1>2. <<NewLine>> \in Seq(S) /\ Len(<<NewLine>>) = 1 /\ <<NewLine>>[1] = NewLine
    OBVIOUS
  <1>3. /\ g \in Seq(S)
        /\ Len(g) = Len(text) + 1
        /\ \A i \in 1..(Len(text) + 1) :
             g[i] = IF i <= Len(text) THEN text[i] ELSE <<NewLine>>[i - Len(text)]
    BY <1>2, ConcatProperties
  <1>4. (Len(text) + 1) - Len(text) = 1 /\ Len(text) + 1 \in 1..(Len(text) + 1)
        /\ ~(Len(text) + 1 <= Len(text))
    BY <1>1
  <1>5. g[Len(text) + 1] = NewLine
    BY <1>2, <1>3, <1>4
  <1>6. \A i \in 1..Len(text) : g[i] = text[i]
    BY <1>1, <1>3
  <1> HIDE DEF g
  <1>7. /\ more \in Seq(S)
        /\ Len(more) = Len(g) + Len(line)
        /\ \A i \in 1..(Len(g) + Len(line)) :
             more[i] = IF i <= Len(g) THEN g[i] ELSE line[i - Len(g)]
    BY <1>3, ConcatProperties
  <1> HIDE DEF more
  <1>8. \A i \in 1..Len(g) : more[i] = g[i]
    BY <1>1, <1>3, <1>7
  <1>9. Len(text) < Len(more) /\ Len(text) + 1 \in 1..Len(g)
        /\ 1..Len(text) \subseteq 1..Len(g)
    BY <1>1, <1>3, <1>7
  <1>10. more[Len(text) + 1] = NewLine
    BY <1>5, <1>8, <1>9
  <1>11. \A i \in 1..Len(text) : more[i] = text[i]
    BY <1>6, <1>8, <1>9
  <1> QED BY <1>7, <1>9, <1>10, <1>11 DEF more, g

(* A line more makes a longer text, with a newline behind the old one.     *)
LEMMA JoinGrows ==
    ASSUME NEW S, NewLine \in S, NEW lines, NEW k \in Nat,
           \A i \in 1..k : lines[i] \in Seq(S), NEW f, IsJoin(f, lines, k)
    PROVE  /\ \A n \in 0..k : f[n] \in Seq(S)
           /\ \A n \in 2..k :
                /\ Len(f[n - 1]) < Len(f[n])
                /\ \A i \in 1..Len(f[n - 1]) : f[n][i] = f[n - 1][i]
                /\ f[n][Len(f[n - 1]) + 1] = NewLine
  <1> DEFINE T == {n \in Nat : n <= k => f[n] \in Seq(S)}
  <1>1. 0 \in T
    BY DEF IsJoin
  <1>2. ASSUME NEW n \in T \cap Nat PROVE n + 1 \in T
    <2> SUFFICES ASSUME n + 1 <= k PROVE f[n + 1] \in Seq(S)
      OBVIOUS
    <2>1. f[n] \in Seq(S) /\ n + 1 \in 1..k /\ (n + 1) - 1 = n
      BY <1>2
    <2>2. f[n + 1] = IF n + 1 = 1 THEN lines[1] ELSE f[n] \o <<NewLine>> \o lines[n + 1]
      BY <2>1, JoinStep
    <2>3. lines[n + 1] \in Seq(S) /\ (n + 1 = 1 => lines[1] \in Seq(S))
      BY <2>1
    <2>4. f[n] \o <<NewLine>> \o lines[n + 1] \in Seq(S)
      BY <2>1, <2>3, LineAdded
    <2> QED BY <2>2, <2>3, <2>4
  <1> HIDE DEF T
  <1>3. Nat \subseteq T
    BY <1>1, <1>2, NatSetInduction
  <1>4. \A n \in 0..k : f[n] \in Seq(S)
    BY <1>3 DEF T
  <1>5. ASSUME NEW n \in 2..k
        PROVE  /\ Len(f[n - 1]) < Len(f[n])
               /\ \A i \in 1..Len(f[n - 1]) : f[n][i] = f[n - 1][i]
               /\ f[n][Len(f[n - 1]) + 1] = NewLine
    <2>1. n \in 1..k /\ n - 1 \in 0..k
      OBVIOUS
    <2> DEFINE text == f[n - 1]
               line == lines[n]
    <2>2. f[n] = text \o <<NewLine>> \o line
      BY LaterStep, Zenon
    <2>3. text \in Seq(S) /\ line \in Seq(S)
      BY <1>4, <2>1
    <2> HIDE DEF text, line
    <2>4. /\ Len(text) < Len(f[n])
          /\ \A i \in 1..Len(text) : f[n][i] = text[i]
          /\ f[n][Len(text) + 1] = NewLine
      <3>1. LET more == text \o <<NewLine>> \o line IN
            /\ more \in Seq(S)
            /\ Len(text) < Len(more)
            /\ \A i \in 1..Len(text) : more[i] = text[i]
            /\ more[Len(text) + 1] = NewLine
        BY <2>3, LineAdded, Zenon
      <3> QED BY <2>2, <3>1, Zenon
    <2> QED BY <2>4 DEF text
  <1> QED BY <1>4, <1>5

(* A text of fewer lines is the beginning of one of more.                  *)
LEMMA JoinsBegin ==
    ASSUME NEW S, NewLine \in S, NEW lines, NEW k \in Nat,
           \A i \in 1..k : lines[i] \in Seq(S), NEW f, IsJoin(f, lines, k),
           NEW m \in 1..k, NEW n \in m..k
    PROVE  /\ Len(f[m]) <= Len(f[n])
           /\ m < n => Len(f[m]) < Len(f[n])
           /\ \A i \in 1..Len(f[m]) : f[n][i] = f[m][i]
  <1> DEFINE Begins(j) == /\ Len(f[m]) <= Len(f[j])
                          /\ m < j => Len(f[m]) < Len(f[j])
                          /\ \A i \in 1..Len(f[m]) : f[j][i] = f[m][i]
             T == {d \in Nat : m + d <= k => Begins(m + d)}
  <1>1. \A j \in 0..k : f[j] \in Seq(S) /\ Len(f[j]) \in Nat
    BY JoinGrows, LenProperties
  <1>2. 0 \in T
    <2>1. m + 0 = m /\ m \in 0..k
      OBVIOUS
    <2> QED BY <1>1, <2>1
  <1>3. ASSUME NEW j \in (m + 1)..k, Begins(j - 1) PROVE Begins(j)
    <2>1. j \in 2..k /\ j - 1 \in 0..k /\ m \in 0..k /\ j \in 0..k
      OBVIOUS
    <2>2. /\ Len(f[j - 1]) < Len(f[j])
          /\ \A i \in 1..Len(f[j - 1]) : f[j][i] = f[j - 1][i]
      BY <2>1, JoinGrows
    <2>3. Len(f[m]) \in Nat /\ Len(f[j - 1]) \in Nat /\ Len(f[j]) \in Nat
      BY <1>1, <2>1
    <2> QED BY <1>3, <2>2, <2>3
  <1>4. ASSUME NEW d \in T \cap Nat PROVE d + 1 \in T
    <2> SUFFICES ASSUME m + (d + 1) <= k PROVE Begins(m + (d + 1))
      OBVIOUS
    <2>1. m + (d + 1) \in (m + 1)..k /\ (m + (d + 1)) - 1 = m + d /\ m + d <= k
      OBVIOUS
    <2>2. Begins(m + d)
      BY <1>4, <2>1
    <2> HIDE DEF Begins
    <2> QED BY <1>3, <2>1, <2>2
  <1> HIDE DEF T
  <1>5. n - m \in T
    BY <1>2, <1>4, NatSetInduction
  <1>6. m + (n - m) = n /\ n <= k
    OBVIOUS
  <1> QED BY <1>5, <1>6 DEF T

Breaks(text) == {i \in DOMAIN text : text[i] = NewLine}

LEMMA BreaksAreCounted ==
    ASSUME NEW S, NEW text \in Seq(S)
    PROVE  IsFiniteSet(Breaks(text)) /\ NewLines(text) = Cardinality(Breaks(text))
           /\ NewLines(text) \in Nat
  <1>1. Breaks(text) \subseteq 1..Len(text) /\ Len(text) \in Nat
    BY LenProperties DEF Breaks
  <1>2. IsFiniteSet(Breaks(text))
    <2>1. IsFiniteSet(1..Len(text))
      BY <1>1, FS_Interval
    <2> QED BY <1>1, <2>1, FS_Subset
  <1> QED BY <1>2, FS_CardinalityType DEF Breaks, NewLines

(* A text has the breaks of any that it begins with, and its own.          *)
LEMMA LongerHasMoreBreaks ==
    ASSUME NEW S, NEW text \in Seq(S), NEW more \in Seq(S), Len(text) < Len(more),
           \A i \in 1..Len(text) : more[i] = text[i], more[Len(text) + 1] = NewLine
    PROVE  NewLines(more) >= NewLines(text) + 1
  <1> DEFINE Old == Breaks(text) \cup {Len(text) + 1}
  <1>1. /\ Len(text) \in Nat /\ DOMAIN text = 1..Len(text)
        /\ Len(more) \in Nat /\ DOMAIN more = 1..Len(more)
    BY LenProperties
  <1>2. Old \subseteq Breaks(more) /\ Len(text) + 1 \notin Breaks(text)
    BY <1>1 DEF Breaks
  <1>3. IsFiniteSet(Old) /\ Cardinality(Old) = NewLines(text) + 1
    BY <1>2, BreaksAreCounted, FS_AddElement
  <1>4. Cardinality(Old) <= NewLines(more)
    BY <1>2, BreaksAreCounted, FS_Subset
  <1> QED BY <1>3, <1>4, BreaksAreCounted, FS_CardinalityType

LEMMA JoinsHaveBreaks ==
    ASSUME NEW S, NewLine \in S, NEW lines, NEW k \in Nat,
           \A i \in 1..k : lines[i] \in Seq(S), NEW f, IsJoin(f, lines, k)
    PROVE  \A n \in 1..k : NewLines(f[n]) >= n - 1
  <1> DEFINE T == {n \in Nat : n \in 1..k => NewLines(f[n]) >= n - 1}
  <1>1. \A n \in 0..k : f[n] \in Seq(S)
    BY JoinGrows
  <1>2. \A n \in 0..k : NewLines(f[n]) \in Nat
    BY <1>1, BreaksAreCounted
  <1>3. 0 \in T
    OBVIOUS
  <1>4. ASSUME NEW n \in 2..k, NewLines(f[n - 1]) >= (n - 1) - 1
        PROVE  NewLines(f[n]) >= n - 1
    <2>1. f[n] \in Seq(S) /\ f[n - 1] \in Seq(S)
      BY <1>1
    <2>2. NewLines(f[n]) >= NewLines(f[n - 1]) + 1
      BY <2>1, JoinGrows, LongerHasMoreBreaks
    <2>3. NewLines(f[n]) \in Nat /\ NewLines(f[n - 1]) \in Nat
      BY <1>2
    <2> QED BY <1>4, <2>2, <2>3
  <1>5. ASSUME NEW n \in T \cap Nat PROVE n + 1 \in T
    <2> SUFFICES ASSUME n + 1 \in 1..k PROVE NewLines(f[n + 1]) >= (n + 1) - 1
      OBVIOUS
    <2>1. CASE n = 0
      BY <1>2, <2>1
    <2>2. CASE n # 0
      <3>1. n \in 1..k /\ n + 1 \in 2..k /\ (n + 1) - 1 = n
        BY <2>2
      <3>2. NewLines(f[n]) >= n - 1
        BY <1>5, <3>1
      <3> HIDE DEF T
      <3> QED BY <1>4, <3>1, <3>2
    <2> QED BY <2>1, <2>2
  <1> HIDE DEF T
  <1>6. Nat \subseteq T
    BY <1>3, <1>5, NatSetInduction
  <1> QED BY <1>6 DEF T

----------------------------------------------------------------------------
(* Excerpts                                                                *)

Chars(lines) == {NewLine} \cup UNION {Range(lines[i]) : i \in DOMAIN lines}

LEMMA LinesAreTyped ==
    ASSUME NEW lines, IsText(lines)
    PROVE  /\ Len(lines) \in Nat /\ DOMAIN lines = 1..Len(lines)
           /\ \A i \in 1..Len(lines) : lines[i] \in Seq(Chars(lines))
  <1>1. Len(lines) \in Nat /\ DOMAIN lines = 1..Len(lines)
    BY Sequence DEF IsText, IsSequence
  <1>2. ASSUME NEW i \in 1..Len(lines) PROVE lines[i] \in Seq(Chars(lines))
    <2>1. lines[i] \in Seq(Range(lines[i])) /\ Range(lines[i]) \subseteq Chars(lines)
      BY <1>1 DEF IsText, IsSequence, Chars
    <2> QED BY <2>1, SeqMonotonic
  <1> QED BY <1>1, <1>2

LEMMA WindowOfText ==
    ASSUME NEW lines, IsText(lines), NEW start \in Nat \ {0}, NEW end \in Nat,
           NEW stop, stop = IF end <= Len(lines) THEN end ELSE Len(lines)
    PROVE  /\ stop \in Nat
           /\ Len(Window(lines, start, end)) = IF start <= stop THEN stop - start + 1 ELSE 0
           /\ \A i \in 1..Len(Window(lines, start, end)) :
                Window(lines, start, end)[i] = lines[start + i - 1]
           /\ \A i \in 1..Len(Window(lines, start, end)) :
                Window(lines, start, end)[i] \in Seq(Chars(lines))
  <1> DEFINE T == Seq(Chars(lines))
             w == SubSeq(lines, start, stop)
  <1>1. Len(lines) \in Nat /\ \A i \in 1..Len(lines) : lines[i] \in T
    BY LinesAreTyped
  <1>2. Window(lines, start, end) = w /\ stop \in Nat
    <2>1. Min({end, Len(lines)}) = stop
      BY <1>1, LeastOfTwo
    <2> QED BY <1>1, <2>1 DEF Window
  <1>3. \A i \in start..stop : lines[i] \in T
    BY <1>1
  <1> HIDE DEF T
  <1>4. /\ w \in Seq(T)
        /\ Len(w) = IF start <= stop THEN stop - start + 1 ELSE 0
        /\ \A i \in 1..(stop - start + 1) : w[i] = lines[start + i - 1]
    BY <1>2, <1>3, SubSeqProperties
  <1> HIDE DEF w
  <1>5. \A i \in 1..Len(w) : w[i] \in T
    BY <1>4, LenProperties
  <1>6. \A i \in 1..Len(w) : w[i] = lines[start + i - 1]
    BY <1>2, <1>4
  <1> QED BY <1>2, <1>4, <1>5, <1>6 DEF T

LEMMA CutOfText ==
    ASSUME NEW S, NEW text \in Seq(S)
    PROVE  /\ Cut(text) \in Seq(S)
           /\ Len(Cut(text)) = IF Len(text) <= MaxReadBytes THEN Len(text) ELSE MaxReadBytes
           /\ \A i \in 1..Len(Cut(text)) : Cut(text)[i] = text[i]
  <1>1. Len(text) \in Nat /\ MaxReadBytes \in Nat
    BY LimitsArePositive, LenProperties
  <1> DEFINE n == IF Len(text) <= MaxReadBytes THEN Len(text) ELSE MaxReadBytes
  <1>2. Cut(text) = SubSeq(text, 1, n) /\ n \in Nat /\ n <= Len(text)
    BY <1>1, LeastOfTwo DEF Cut
  <1> HIDE DEF n
  <1>3. /\ Cut(text) \in Seq(S) /\ Len(Cut(text)) = n
        /\ \A i \in 1..n : Cut(text)[i] = text[i]
    BY <1>2, FirstElements
  <1> QED BY <1>3 DEF n

(* The window of a text, joined: the text of its lines, up to any of them. *)
LEMMA JoinOfWindow ==
    ASSUME NEW lines, IsText(lines), NEW start \in Nat \ {0}, NEW end \in Nat,
           NEW f, IsJoin(f, Window(lines, start, end), Len(Window(lines, start, end))),
           NEW last \in start..end, last <= Len(lines)
    PROVE  /\ last - start + 1 \in 1..Len(Window(lines, start, end))
           /\ Joined(Window(lines, start, last)) = f[last - start + 1]
  <1> DEFINE w == Window(lines, start, end)
             v == Window(lines, start, last)
             stop == IF end <= Len(lines) THEN end ELSE Len(lines)
  <1>1. Len(lines) \in Nat /\ last \in Nat
    BY LinesAreTyped
  <1>2. /\ Len(w) = IF start <= stop THEN stop - start + 1 ELSE 0
        /\ \A i \in 1..Len(w) : w[i] = lines[start + i - 1]
    BY WindowOfText
  <1>3. /\ Len(v) = last - start + 1
        /\ \A i \in 1..Len(v) : v[i] = lines[start + i - 1]
    <2>1. last = IF last <= Len(lines) THEN last ELSE Len(lines)
      OBVIOUS
    <2>2. /\ Len(v) = IF start <= last THEN last - start + 1 ELSE 0
          /\ \A i \in 1..Len(v) : v[i] = lines[start + i - 1]
      BY <1>1, <2>1, WindowOfText
    <2> QED BY <2>2
  <1> HIDE DEF w, v
  <1>4. Len(v) \in 1..Len(w) /\ Len(w) \in Nat /\ Len(v) \in Nat /\ Len(v) <= Len(w)
    BY <1>1, <1>2, <1>3
  <1>5. \A i \in 1..Len(v) : v[i] = w[i]
    BY <1>2, <1>3, <1>4
  <1>6. PICK g : IsJoin(g, v, Len(v)) /\ Joined(v) = g[Len(v)]
    BY <1>4, JoinedIsJoin
  <1>7. IsJoin(f, w, Len(w))
    BY DEF w
  <1>8. g[Len(v)] = f[Len(v)]
    BY <1>4, <1>5, <1>6, <1>7, JoinsAgree
  <1> QED BY <1>3, <1>4, <1>6, <1>8 DEF w, v

(* Equal lengths within the limit and equal beginnings: equal cuts.        *)
LEMMA CutsAgree ==
    ASSUME NEW S, NEW text \in Seq(S), NEW more \in Seq(S),
           Len(text) <= Len(more), \A i \in 1..Len(text) : more[i] = text[i],
           Len(text) = Len(more) \/ MaxReadBytes <= Len(text)
    PROVE  Cut(text) = Cut(more)
  <1>1. Len(text) \in Nat /\ Len(more) \in Nat /\ MaxReadBytes \in Nat
    BY LimitsArePositive, LenProperties
  <1>2. /\ Cut(text) \in Seq(S) /\ Cut(more) \in Seq(S)
        /\ Len(Cut(text)) = IF Len(text) <= MaxReadBytes THEN Len(text) ELSE MaxReadBytes
        /\ Len(Cut(more)) = IF Len(more) <= MaxReadBytes THEN Len(more) ELSE MaxReadBytes
        /\ \A i \in 1..Len(Cut(text)) : Cut(text)[i] = text[i]
        /\ \A i \in 1..Len(Cut(more)) : Cut(more)[i] = more[i]
    BY CutOfText
  <1>3. Len(Cut(text)) = Len(Cut(more)) /\ Len(Cut(text)) <= Len(text)
        /\ Len(Cut(text)) \in Nat
    BY <1>1, <1>2
  <1>4. \A i \in 1..Len(Cut(text)) : Cut(text)[i] = Cut(more)[i]
    BY <1>1, <1>2, <1>3
  <1> QED BY <1>2, <1>3, <1>4, SeqEqual

LEMMA LeastOfThree ==
    ASSUME NEW a \in Int, NEW b \in Int, NEW c \in Int, NEW least, least = Min({a, b, c})
    PROVE  least \in {a, b, c} /\ least <= a /\ least <= b /\ least <= c
  <1>1. \E x \in {a, b, c} : \A y \in {a, b, c} : x <= y
    OBVIOUS
  <1> QED BY <1>1 DEF Min

(* Lines as many as the newlines that the cut has left, and one more, hold *)
(* all that it has left.                                                   *)
LEMMA CutOfJoin ==
    ASSUME NEW S, NewLine \in S, NEW lines, NEW k \in Nat,
           \A i \in 1..k : lines[i] \in Seq(S), NEW f, IsJoin(f, lines, k),
           NEW m \in 1..k, m < k, NewLines(Cut(f[k])) < m
    PROVE  Cut(f[m]) = Cut(f[k])
  <1> DEFINE text == f[m]
             more == f[k]
             next == f[m + 1]
  <1>1. text \in Seq(S) /\ more \in Seq(S) /\ next \in Seq(S)
    <2>1. m \in 0..k /\ k \in 0..k /\ m + 1 \in 0..k
      OBVIOUS
    <2> QED BY <2>1, JoinGrows
  <1>2. Len(text) \in Nat /\ Len(more) \in Nat /\ Len(next) \in Nat /\ MaxReadBytes \in Nat
    BY <1>1, LenProperties, LimitsArePositive
  <1>3. Len(text) < Len(more) /\ \A i \in 1..Len(text) : more[i] = text[i]
    <2>1. k \in m..k
      OBVIOUS
    <2> QED BY <2>1, JoinsBegin
  <1>4. Len(text) < Len(next) /\ next[Len(text) + 1] = NewLine
    <2>1. m + 1 \in 2..k /\ (m + 1) - 1 = m
      OBVIOUS
    <2>2. Len(f[(m + 1) - 1]) < Len(next) /\ next[Len(f[(m + 1) - 1]) + 1] = NewLine
      BY <2>1, JoinGrows
    <2> QED BY <2>1, <2>2
  <1>5. \A i \in 1..Len(next) : more[i] = next[i]
    <2>1. m + 1 \in 1..k /\ k \in (m + 1)..k
      OBVIOUS
    <2> QED BY <2>1, JoinsBegin
  <1>6. NewLines(text) >= m - 1
    BY JoinsHaveBreaks
  <1> HIDE DEF text, more, next
  <1> DEFINE cut == Cut(more)
  <1>7. /\ cut \in Seq(S) /\ \A i \in 1..Len(cut) : cut[i] = more[i]
        /\ Len(cut) = IF Len(more) <= MaxReadBytes THEN Len(more) ELSE MaxReadBytes
    BY <1>1, CutOfText
  <1>8. NewLines(cut) \in Nat /\ NewLines(text) \in Nat /\ Len(cut) \in Nat
    BY <1>1, <1>7, BreaksAreCounted, LenProperties
  <1>9. NewLines(cut) < m
    BY DEF more
  <1> HIDE DEF cut
  <1>10. ~(Len(text) < Len(cut))
    <2> SUFFICES ASSUME Len(text) < Len(cut) PROVE FALSE
      OBVIOUS
    <2>1. Len(text) + 1 \in 1..Len(cut) /\ Len(text) + 1 \in 1..Len(next)
          /\ \A i \in 1..Len(text) : i \in 1..Len(cut)
      BY <1>2, <1>4, <1>8
    <2>2. cut[Len(text) + 1] = NewLine /\ \A i \in 1..Len(text) : cut[i] = text[i]
      BY <1>3, <1>4, <1>5, <1>7, <2>1
    <2>3. NewLines(cut) >= NewLines(text) + 1
      BY <1>1, <1>7, <2>2, LongerHasMoreBreaks
    <2> QED BY <1>6, <1>8, <1>9, <2>3
  <1>11. MaxReadBytes <= Len(text)
    BY <1>2, <1>3, <1>7, <1>8, <1>10
  <1>12. Cut(text) = Cut(more)
    BY <1>1, <1>2, <1>3, <1>11, CutsAgree
  <1> QED BY <1>12 DEF text, more

LEMMA EmptyWindow ==
    ASSUME NEW lines, Len(lines) = 0 PROVE Joined(lines) = <<>> /\ Cut(<<>>) = <<>>
  <1>0. Len(lines) \in Nat
    OBVIOUS
  <1>1. PICK f : IsJoin(f, lines, Len(lines)) /\ Joined(lines) = f[Len(lines)]
    BY <1>0, JoinedIsJoin
  <1>2. Joined(lines) = <<>>
    <2>1. IsJoin(f, lines, 0) /\ Joined(lines) = f[0]
      BY <1>1
    <2>2. f[0] = <<>>
      BY <2>1 DEF IsJoin
    <2> QED BY <2>1, <2>2
  <1>3. <<>> \in Seq({}) /\ Len(<<>>) = 0
    OBVIOUS
  <1>4. Cut(<<>>) \in Seq({}) /\ Len(Cut(<<>>)) = 0
    <2>1. /\ Cut(<<>>) \in Seq({})
          /\ Len(Cut(<<>>)) = IF Len(<<>>) <= MaxReadBytes THEN Len(<<>>) ELSE MaxReadBytes
      BY <1>3, CutOfText, Zenon
    <2> QED BY <1>3, <2>1, LimitsArePositive
  <1>5. Cut(<<>>) = <<>>
    BY <1>4, EmptySeq
  <1> QED BY <1>2, <1>5

(* read_file names the last line that the byte limit has left, and reading *)
(* up to there returns the same text: the newlines it counts are at least  *)
(* those between the lines it has kept.                                    *)
LEMMA ReadAgain ==
    ASSUME NEW lines, IsText(lines), NEW start \in Nat \ {0}, NEW end \in Nat, start <= end,
           NEW text, text = Cut(Joined(Window(lines, start, end))), text # <<>>,
           NEW last, last = Min({end, Len(lines), start + NewLines(text)})
    PROVE  last \in start..end /\ Cut(Joined(Window(lines, start, last))) = text
  <1> DEFINE w == Window(lines, start, end)
             stop == IF end <= Len(lines) THEN end ELSE Len(lines)
  <1>1. NewLine \in Chars(lines) /\ Len(lines) \in Nat
    <2>1. NewLine \in Chars(lines)
      BY DEF Chars
    <2> QED BY <2>1, LinesAreTyped
  <1>2. /\ Len(w) = IF start <= stop THEN stop - start + 1 ELSE 0
        /\ \A i \in 1..Len(w) : w[i] \in Seq(Chars(lines))
        /\ Len(w) \in Nat
    <2>1. /\ stop \in Nat
          /\ Len(w) = IF start <= stop THEN stop - start + 1 ELSE 0
          /\ \A i \in 1..Len(w) : w[i] \in Seq(Chars(lines))
      BY WindowOfText
    <2> HIDE DEF w, stop
    <2>2. Len(w) \in Nat
      BY <2>1
    <2> QED BY <2>1, <2>2
  <1> HIDE DEF w
  <1>3. PICK f : IsJoin(f, w, Len(w)) /\ Joined(w) = f[Len(w)]
    BY <1>2, JoinedIsJoin
  <1>4. start <= stop /\ start <= Len(lines)
    <2> SUFFICES ASSUME ~(start <= stop) PROVE FALSE
      BY <1>1
    <2>1. Len(w) = 0
      BY <1>2
    <2>2. text = Cut(Joined(w))
      BY DEF w
    <2> QED BY <2>1, <2>2, EmptyWindow
  <1>5. NewLines(text) \in Nat
    <2>1. Len(w) \in 0..Len(w)
      BY <1>2
    <2>2. f[Len(w)] \in Seq(Chars(lines))
      BY <1>1, <1>2, <1>3, <2>1, JoinGrows
    <2>3. text \in Seq(Chars(lines))
      BY <1>3, <2>2, CutOfText DEF w
    <2> QED BY <2>3, BreaksAreCounted
  <1>6. /\ last \in {end, Len(lines), start + NewLines(text)}
        /\ last <= end /\ last <= Len(lines) /\ last <= start + NewLines(text)
    <2>1. end \in Int /\ Len(lines) \in Int /\ start + NewLines(text) \in Int
      BY <1>1, <1>5
    <2> DEFINE third == start + NewLines(text)
    <2> HIDE DEF third
    <2>2. third \in Int /\ last = Min({end, Len(lines), third})
      BY <2>1 DEF third
    <2>3. last \in {end, Len(lines), third} /\ last <= end /\ last <= Len(lines) /\ last <= third
      BY <2>1, <2>2, LeastOfThree, Zenon
    <2> QED BY <2>3 DEF third
  <1>7. last \in start..end /\ last <= Len(lines)
    BY <1>1, <1>4, <1>5, <1>6
  <1> DEFINE m == last - start + 1
  <1>8. m \in 1..Len(w) /\ Joined(Window(lines, start, last)) = f[m]
    BY <1>3, <1>7, JoinOfWindow DEF w
  <1>9. m = Len(w) \/ (m < Len(w) /\ NewLines(text) < m)
    <2>1. start \in Nat /\ stop \in Nat /\ Len(w) = stop - start + 1
      BY <1>1, <1>2, <1>4
    <2>2. CASE last = stop
      BY <2>1, <2>2
    <2>3. CASE last # stop
      <3>1. last < stop /\ last = start + NewLines(text)
        BY <1>1, <1>6, <2>1, <2>3
      <3>2. m = NewLines(text) + 1
        BY <1>5, <2>1, <3>1
      <3>3. m < Len(w)
        BY <1>5, <2>1, <3>1, <3>2
      <3> QED BY <1>5, <3>2, <3>3
    <2> QED BY <2>2, <2>3
  <1>10. text = Cut(f[Len(w)])
    BY <1>3 DEF w
  <1> HIDE DEF m
  <1>11. Cut(f[m]) = Cut(f[Len(w)])
    BY <1>1, <1>2, <1>3, <1>8, <1>9, <1>10, CutOfJoin
  <1> QED BY <1>7, <1>8, <1>10, <1>11

(* A place that is not refused resolves to the text that is read there.    *)
LEMMA PlaceResolves ==
    ASSUME NEW files, NEW path \in DOMAIN files, NEW start \in Nat \ {0}, NEW end \in Nat,
           start <= end, end - start < MaxReadLines,
           NEW text, text # <<>>, text = Cut(Joined(Window(files[path], start, end)))
    PROVE  Resolves(files, [path |-> path, start |-> start, end |-> end], text)
  <1>1. ~Refused(files, path, start, end)
    <2>1. ~(start < 1) /\ ~(end < start) /\ ~(end - start >= MaxReadLines)
      BY LimitsArePositive
    <2> QED BY <2>1 DEF Refused
  <1>2. ReadFile(files, path, start, end).text = text
    BY DEF ReadFile
  <1> QED BY <1>1, <1>2 DEF Resolves

LEMMA ExcerptsResolve ==
    ASSUME \A p \in DOMAIN archive : IsText(archive[p]),
           NEW m \in Excerpts, m.text # <<>>, m.end - m.start < MaxReadLines
    PROVE  Resolves(archive, Place(m), m.text)
  <1>1. CASE \E r \in Reads(archive) :
               m = [path |-> r.path, start |-> r.start, end |-> r.end, text |-> r.text]
    <2>1. PICK w \in Windows(archive) :
            /\ ~Refused(archive, w.path, w.start, w.end)
            /\ LET r == ReadFile(archive, w.path, w.start, w.end) IN
               m = [path |-> r.path, start |-> r.start, end |-> r.end, text |-> r.text]
      BY <1>1 DEF Reads
    <2>2. /\ w.path \in DOMAIN archive /\ w.start \in Nat \ {0} /\ w.end \in Nat
          /\ w.start <= w.end
      <3>1. PICK p \in DOMAIN archive :
              w \in [path : {p}, start : 1..Len(archive[p]) + 2, end : 1..Len(archive[p]) + 2]
        BY DEF Windows
      <3>2. Len(archive[p]) \in Nat
        BY LinesAreTyped
      <3>3. w.path = p /\ w.start \in 1..Len(archive[p]) + 2 /\ w.end \in 1..Len(archive[p]) + 2
        BY <3>1
      <3>4. ~(w.end < w.start)
        BY <2>1 DEF Refused
      <3> QED BY <3>2, <3>3, <3>4
    <2> DEFINE lines == archive[w.path]
               text  == Cut(Joined(Window(lines, w.start, w.end)))
               last  == Min({w.end, Len(lines), w.start + NewLines(text)})
    <2>3. m.path = w.path /\ m.start = w.start /\ m.end = last /\ m.text = text
      BY <2>1 DEF ReadFile
    <2>4. IsText(lines)
      BY <2>2
    <2>5. last \in w.start..w.end /\ Cut(Joined(Window(lines, w.start, last))) = text
      <3> DEFINE from == w.start
                 to == w.end
      <3>1. /\ text # <<>>
            /\ text = Cut(Joined(Window(lines, from, to)))
            /\ last = Min({to, Len(lines), from + NewLines(text)})
            /\ from \in Nat \ {0} /\ to \in Nat /\ from <= to
        BY <2>2, <2>3
      <3> HIDE DEF text, last, from, to, lines
      <3>2. last \in from..to /\ Cut(Joined(Window(lines, from, last))) = text
        BY <2>4, <3>1, ReadAgain
      <3> QED BY <3>2 DEF from, to
    <2> HIDE DEF text, last
    <2>6. last \in Nat /\ w.start <= last
      BY <2>2, <2>5
    <2>7. Resolves(archive, [path |-> w.path, start |-> w.start, end |-> last], text)
      BY <2>2, <2>3, <2>5, <2>6, PlaceResolves
    <2> QED BY <2>3, <2>7 DEF Place
  <1>2. CASE m \in TextMatches(archive)
    <2>1. PICK p \in DOMAIN archive : \E n \in DOMAIN archive[p] : m = Locator(archive, p, n, n)
      BY <1>2 DEF TextMatches
    <2>2. PICK n \in DOMAIN archive[p] : m = Locator(archive, p, n, n)
      BY <2>1
    <2>3. n \in Nat \ {0} /\ n - n < MaxReadLines
      BY LinesAreTyped, LimitsArePositive
    <2>4. /\ Place(m) = [path |-> p, start |-> n, end |-> n]
          /\ m.text = Cut(Joined(Window(archive[p], n, n)))
      BY <2>2 DEF Locator, Place
    <2> QED BY <2>3, <2>4, PlaceResolves
  <1>3. CASE m \in StructureMatches(archive, Symbols)
    <2>1. PICK s \in Symbols : s.path \in DOMAIN archive
                               /\ m = Locator(archive, s.path, s.start, s.end)
      BY <1>3 DEF StructureMatches
    <2>2. /\ Place(m) = [path |-> s.path, start |-> s.start, end |-> s.end]
          /\ m.text = Cut(Joined(Window(archive[s.path], s.start, s.end)))
          /\ m.start = s.start /\ m.end = s.end
      BY <2>1 DEF Locator, Place
    <2> QED BY <2>1, <2>2, PlaceResolves, SymbolsArePlaces
  <1> QED BY <1>1, <1>2, <1>3 DEF Excerpts

(* Reading from the first line, without a mark, is reading it all.         *)
LEMMA UnmarkedReadIsWhole ==
    ASSUME \A p \in DOMAIN archive : IsText(archive[p]),
           NEW r \in Reads(archive), r.start = 1, ~r.truncated
    PROVE  r.text = Joined(archive[r.path])
  <1>1. PICK w \in Windows(archive) : r = ReadFile(archive, w.path, w.start, w.end)
    BY DEF Reads
  <1>2. PICK p \in DOMAIN archive :
          w \in [path : {p}, start : 1..Len(archive[p]) + 2, end : 1..Len(archive[p]) + 2]
    BY DEF Windows
  <1>3. w.path = p /\ w.end \in 1..Len(archive[p]) + 2
    BY <1>2
  <1> DEFINE full == Joined(Window(archive[p], w.start, w.end))
  <1>4. /\ r.path = p /\ w.start = 1 /\ r.text = Cut(full)
        /\ ~More(archive[p], w.end, Cut(full), full)
    BY <1>1, <1>3 DEF ReadFile
  <1>5. r.text = full /\ ~(Len(archive[p]) > w.end)
    BY <1>4 DEF More
  <1>6. Len(archive[p]) \in Nat /\ archive[p] \in Seq(Range(archive[p]))
    BY LinesAreTyped DEF IsText, IsSequence
  <1>7. Min({w.end, Len(archive[p])}) = Len(archive[p])
    <2>1. w.end \in Int /\ Len(archive[p]) \in Int /\ Len(archive[p]) <= w.end
      BY <1>3, <1>5, <1>6
    <2> QED BY <2>1, LeastOfTwo
  <1>8. SubSeq(archive[p], 1, Len(archive[p])) = archive[p]
    BY <1>6, SubSeqFull
  <1>9. Window(archive[p], w.start, w.end) = archive[p]
    BY <1>4, <1>7, <1>8 DEF Window
  <1> QED BY <1>4, <1>5, <1>9

----------------------------------------------------------------------------
(* Pages                                                                   *)

LEMMA NextBase == \A n, size \in Int : n * size = (n - 1) * size + size
  OBVIOUS

LEMMA FewerPages ==
    ASSUME NEW m \in Int, NEW n \in Int, m * PerPage <= n * PerPage
    PROVE  m <= n
  <1> SUFFICES ASSUME m >= n + 1 PROVE FALSE
    OBVIOUS
  <1>1. PerPage \in Nat /\ PerPage >= 1
    BY PagesFill
  <1>2. m * PerPage = n * PerPage + (m - n) * PerPage
    BY <1>1
  <1>3. (m - n) * PerPage >= PerPage
    BY <1>1
  <1> QED BY <1>1, <1>2, <1>3

LEMMA KeptPages ==
    \E pages \in Nat : Maximum = pages * PerPage /\ Maximum \div PerPage = pages
  <1>1. PICK pages \in 1..Maximum : Maximum = pages * PerPage
    BY FullPages
  <1>2. PerPage \in Nat \ {0} /\ pages \in Nat
    BY <1>1, PagesFill
  <1>3. (pages * PerPage) \div PerPage = pages
    BY <1>2
  <1> QED BY <1>1, <1>2, <1>3

(* The payload is the page of at most size items behind base of them.      *)
IsPage(payload, source, size, base) ==
    /\ payload \in Seq(Range(source))
    /\ Len(payload) = IF Len(source) <= base THEN 0
                      ELSE IF Len(source) <= base + size THEN Len(source) - base
                      ELSE size
    /\ \A i \in 1..Len(payload) : payload[i] = source[base + i]

LEMMA PageLemma ==
    ASSUME NEW source, IsSequence(source), NEW size \in Nat \ {0}, NEW number \in Nat \ {0},
           NEW base \in Nat, base = (number - 1) * size
    PROVE  IsPage(PageOf(source, size, number), source, size, base)
  <1> DEFINE stop == IF base + size <= Len(source) THEN base + size ELSE Len(source)
             payload == PageOf(source, size, number)
             S == Range(source)
  <1>0. source \in Seq(S)
    BY DEF IsSequence
  <1> HIDE DEF S
  <1>1. Len(source) \in Nat /\ \A i \in 1..Len(source) : source[i] \in S
    BY <1>0, LenProperties
  <1>2. number * size = base + size
    BY NextBase
  <1>3. stop \in Nat /\ stop <= Len(source)
    BY <1>1
  <1>4. payload = SubSeq(source, base + 1, stop)
    <2>1. Min({base + size, Len(source)}) = stop
      BY <1>1, LeastOfTwo
    <2> QED BY <1>2, <2>1 DEF PageOf
  <1>5. \A i \in (base + 1)..stop : source[i] \in S
    BY <1>1, <1>3
  <1>6. /\ payload \in Seq(S)
        /\ Len(payload) = IF base + 1 <= stop THEN stop - (base + 1) + 1 ELSE 0
        /\ \A i \in 1..(stop - (base + 1) + 1) : payload[i] = source[(base + 1) + i - 1]
    <2>1. base + 1 \in Int /\ stop \in Int
      BY <1>3
    <2> HIDE DEF stop
    <2> QED BY <1>4, <1>5, <2>1, SubSeqProperties
  <1>7. Len(payload) = IF Len(source) <= base THEN 0
                       ELSE IF Len(source) <= base + size THEN Len(source) - base
                       ELSE size
    <2> DEFINE n == Len(source)
    <2> HIDE DEF n
    <2>1. n \in Nat /\ stop = IF base + size <= n THEN base + size ELSE n
      BY <1>1 DEF n
    <2> DEFINE k == Len(payload)
    <2> HIDE DEF stop, k
    <2>2. k = IF base + 1 <= stop THEN stop - (base + 1) + 1 ELSE 0
      BY <1>6 DEF k
    <2>3. k = IF n <= base THEN 0 ELSE IF n <= base + size THEN n - base ELSE size
      BY <2>1, <2>2
    <2> QED BY <2>3 DEF n, k
  <1>8. \A i \in 1..Len(payload) : payload[i] = source[base + i]
    <2>1. \A i \in 1..Len(payload) : i \in 1..(stop - (base + 1) + 1)
                                     /\ (base + 1) + i - 1 = base + i
      BY <1>3, <1>6
    <2> QED BY <1>6, <2>1
  <1> QED BY <1>6, <1>7, <1>8 DEF IsPage, S

(* A payload that there is room for goes behind what is there.             *)
LEMMA ExtendedLemma ==
    ASSUME NEW S, items \in Seq(S), Remaining \in Nat,
           NEW payload \in Seq(S), Len(payload) <= Remaining
    PROVE  LET all == Extended(payload) IN
           /\ all \in Seq(S)
           /\ Len(all) = Len(items) + Len(payload)
           /\ \A i \in 1..Len(items) : all[i] = items[i]
           /\ \A i \in 1..Len(payload) : all[Len(items) + i] = payload[i]
  <1>1. Len(payload) \in Nat /\ Len(items) \in Nat
    BY LenProperties
  <1>2. Min({Len(payload), Remaining}) = Len(payload)
    BY <1>1, LeastOfTwo
  <1>3. Extended(payload) = items \o payload
    BY <1>2, SubSeqFull DEF Extended
  <1>4. /\ items \o payload \in Seq(S) /\ Len(items \o payload) = Len(items) + Len(payload)
        /\ \A i \in 1..(Len(items) + Len(payload)) :
             (items \o payload)[i] =
               IF i <= Len(items) THEN items[i] ELSE payload[i - Len(items)]
    BY ConcatProperties, Zenon
  <1> DEFINE all == items \o payload
  <1> HIDE DEF all
  <1>5. /\ all \in Seq(S) /\ Len(all) = Len(items) + Len(payload)
        /\ \A i \in 1..(Len(items) + Len(payload)) :
             all[i] = IF i <= Len(items) THEN items[i] ELSE payload[i - Len(items)]
    BY <1>4 DEF all
  <1>6. \A i \in 1..Len(items) : i \in 1..(Len(items) + Len(payload)) /\ i <= Len(items)
    BY <1>1
  <1>7. \A i \in 1..Len(payload) : /\ Len(items) + i \in 1..(Len(items) + Len(payload))
                                   /\ ~(Len(items) + i <= Len(items))
                                   /\ (Len(items) + i) - Len(items) = i
    BY <1>1
  <1>8. /\ \A i \in 1..Len(items) : all[i] = items[i]
        /\ \A i \in 1..Len(payload) : all[Len(items) + i] = payload[i]
    BY <1>5, <1>6, <1>7
  <1> QED BY <1>3, <1>5, <1>8 DEF all

(* A sequence that agrees with another up to its length begins it.         *)
LEMMA Beginning ==
    ASSUME NEW S, NEW first \in Seq(S), NEW T, NEW source \in Seq(T),
           NEW n \in Nat, Len(first) = n, n <= Len(source),
           \A i \in 1..n : first[i] = source[i]
    PROVE  first = SubSeq(source, 1, n)
  <1>1. /\ SubSeq(source, 1, n) \in Seq(T)
        /\ Len(SubSeq(source, 1, n)) = n
        /\ \A i \in 1..n : SubSeq(source, 1, n)[i] = source[i]
    BY FirstElements
  <1>2. first \in Seq(S \cup T) /\ SubSeq(source, 1, n) \in Seq(S \cup T)
    BY <1>1, SeqMonotonic
  <1> QED BY <1>1, <1>2, SeqEqual

PagesSoFar ==
    /\ page \in 1..(Maximum \div PerPage + 1)
    /\ IsSequence(items)
    /\ Len(items) <= Maximum /\ Len(items) = (page - 1) * PerPage

LEMMA PagesAreNumbers ==
    ASSUME PagesSoFar
    PROVE  /\ PerPage \in Nat \ {0} /\ Maximum \in Nat \ {0}
           /\ page \in Nat \ {0} /\ items \in Seq(Range(items)) /\ Len(items) \in Nat
           /\ Remaining \in Nat
  <1>1. PerPage \in Nat \ {0} /\ Maximum \in Nat \ {0}
    BY PagesFill
  <1>2. page \in Nat \ {0}
    <2>1. PICK pages \in Nat : Maximum \div PerPage = pages
      BY KeptPages
    <2> QED BY <2>1 DEF PagesSoFar
  <1>3. items \in Seq(Range(items)) /\ Len(items) \in Nat
    BY LenProperties DEF PagesSoFar, IsSequence
  <1> QED BY <1>1, <1>2, <1>3 DEF Remaining, PagesSoFar

(* Where there is room for an item there is room for a page.               *)
LEMMA RoomIsForPages ==
    ASSUME PagesSoFar, Remaining > 0 PROVE Remaining >= PerPage
  <1>1. PICK pages \in Nat : Maximum = pages * PerPage
    BY KeptPages
  <1>2. PerPage \in Nat \ {0} /\ page \in Nat \ {0} /\ Len(items) \in Nat
    BY PagesAreNumbers
  <1>3. Len(items) = (page - 1) * PerPage /\ Remaining = pages * PerPage - (page - 1) * PerPage
    BY <1>1 DEF Remaining, PagesSoFar
  <1>4. page <= pages
    <2> SUFFICES ASSUME pages <= page - 1 PROVE FALSE
      BY <1>2
    <2>1. pages * PerPage <= (page - 1) * PerPage
      BY <1>2
    <2> QED BY <1>2, <1>3, <2>1
  <1>5. page * PerPage = (page - 1) * PerPage + PerPage /\ page * PerPage <= pages * PerPage
    BY <1>2, <1>4
  <1>6. page * PerPage \in Int /\ pages * PerPage \in Int /\ (page - 1) * PerPage \in Int
    BY <1>2
  <1> QED BY <1>2, <1>3, <1>5, <1>6

(* A page that is not the last one is full, and what is kept stays a       *)
(* number of pages from the beginning of the source.                       *)
LEMMA PageStep ==
    ASSUME NEW source, IsSequence(source), PagesSoFar, NextPage(source)
    PROVE  /\ PagesSoFar'
           /\ StartsWith(source) =>
                Len(items') <= Len(source) /\ items' = SubSeq(source, 1, Len(items'))
  <1> DEFINE payload == PageOf(source, PerPage, page)
             base == Len(items)
             S == Range(items) \cup Range(source)
  <1>1. /\ PerPage \in Nat \ {0} /\ Maximum \in Nat \ {0}
        /\ page \in Nat \ {0} /\ items \in Seq(Range(items)) /\ base \in Nat
        /\ Remaining \in Nat /\ base = (page - 1) * PerPage
    BY PagesAreNumbers DEF PagesSoFar
  <1>2. items \in Seq(S) /\ source \in Seq(S) /\ Len(source) \in Nat
    <2>1. source \in Seq(Range(source)) /\ Len(source) \in Nat
      BY LenProperties DEF IsSequence
    <2> QED BY <1>1, <2>1, SeqMonotonic
  <1> HIDE DEF S
  <1>3. /\ payload \in Seq(S)
        /\ Len(payload) = IF Len(source) <= base THEN 0
                          ELSE IF Len(source) <= base + PerPage THEN Len(source) - base
                          ELSE PerPage
        /\ \A i \in 1..Len(payload) : payload[i] = source[base + i]
    <2>1. IsPage(payload, source, PerPage, base)
      BY <1>1, PageLemma, Zenon
    <2>2. Seq(Range(source)) \subseteq Seq(S)
      BY SeqMonotonic DEF S
    <2> HIDE DEF payload
    <2> QED BY <2>1, <2>2 DEF IsPage
  <1>4. /\ ~(Len(payload) < PerPage) /\ ~(Len(payload) > Remaining)
        /\ items' = Extended(payload) /\ page' = page + 1
    BY DEF NextPage, Returns, LastPage
  <1> HIDE DEF payload
  <1>5. Len(payload) = PerPage /\ base + PerPage <= Len(source) /\ PerPage <= Remaining
    BY <1>1, <1>2, <1>3, <1>4
  <1>6. /\ items' \in Seq(S)
        /\ Len(items') = base + PerPage
        /\ \A i \in 1..base : items'[i] = items[i]
        /\ \A i \in 1..PerPage : items'[base + i] = payload[i]
    <2> DEFINE all == Extended(payload)
    <2>1. Len(payload) <= Remaining
      BY <1>5
    <2>2. /\ all \in Seq(S)
          /\ Len(all) = base + Len(payload)
          /\ \A i \in 1..base : all[i] = items[i]
          /\ \A i \in 1..Len(payload) : all[base + i] = payload[i]
      BY <1>1, <1>2, <1>3, <2>1, ExtendedLemma, Zenon
    <2> HIDE DEF all
    <2>3. items' = all
      BY <1>4 DEF all
    <2> QED BY <1>5, <2>2, <2>3
  <1>7. Len(items') <= Maximum /\ Len(items') = (page' - 1) * PerPage
    <2>1. Maximum - base = Remaining /\ Maximum \in Nat
      BY PagesFill DEF Remaining
    <2>2. page * PerPage = (page - 1) * PerPage + PerPage /\ page' - 1 = page
      BY <1>1, <1>4
    <2> QED BY <1>1, <1>5, <1>6, <2>1, <2>2
  <1>8. page' \in 1..(Maximum \div PerPage + 1)
    <2>1. PICK pages \in Nat : Maximum = pages * PerPage /\ Maximum \div PerPage = pages
      BY KeptPages
    <2>2. page' - 1 = page /\ page * PerPage <= pages * PerPage
      BY <1>1, <1>4, <1>7, <2>1
    <2>3. page <= pages
      BY <1>1, <2>2, FewerPages
    <2> QED BY <1>1, <1>4, <2>1, <2>3
  <1>9. IsSequence(items')
    BY <1>6, Sequence
  <1>10. ASSUME StartsWith(source)
         PROVE  Len(items') <= Len(source) /\ items' = SubSeq(source, 1, Len(items'))
    <2>1. \A i \in 1..base : items[i] = source[i]
      <3>1. items = SubSeq(source, 1, base) /\ base <= Len(source)
        BY <1>10 DEF StartsWith
      <3>2. \A i \in 1..base : SubSeq(source, 1, base)[i] = source[i]
        BY <1>1, <1>2, <3>1, FirstElements
      <3> QED BY <3>1, <3>2
    <2>2. ASSUME NEW i \in 1..(base + PerPage) PROVE items'[i] = source[i]
      <3>1. CASE i \in 1..base
        BY <1>6, <2>1, <3>1
      <3>2. CASE i \notin 1..base
        <4>1. i - base \in 1..PerPage /\ base + (i - base) = i
          BY <1>1, <3>2
        <4>2. items'[i] = payload[i - base] /\ payload[i - base] = source[i]
          BY <1>3, <1>5, <1>6, <4>1
        <4> QED BY <4>2
      <3> QED BY <3>1, <3>2
    <2>3. items' = SubSeq(source, 1, base + PerPage)
      <3>1. base + PerPage \in Nat /\ base + PerPage <= Len(source)
        BY <1>1, <1>5
      <3> QED BY <1>2, <1>6, <2>2, <3>1, Beginning
    <2> QED BY <1>5, <1>6, <2>3
  <1> QED BY <1>7, <1>8, <1>9, <1>10 DEF PagesSoFar

(* What _paginated returns is all there is, or marked and the first        *)
(* Maximum of it.                                                          *)
LEMMA PagesReturned ==
    ASSUME NEW source, IsSequence(source), PagesSoFar, NEW read \in Paginated(source)
    PROVE  /\ read.truncated \in BOOLEAN /\ Len(read.files) <= Maximum
           /\ StartsWith(source) =>
                IF read.truncated THEN read.files = SubSeq(source, 1, Maximum)
                                  ELSE read.files = source
  <1> DEFINE base == Len(items)
             S == Range(items) \cup Range(source)
  <1>1. /\ PerPage \in Nat \ {0} /\ Maximum \in Nat \ {0}
        /\ page \in Nat \ {0} /\ items \in Seq(Range(items)) /\ base \in Nat
        /\ Remaining \in Nat /\ base = (page - 1) * PerPage
        /\ Remaining = Maximum - base /\ base <= Maximum
    BY PagesAreNumbers DEF PagesSoFar, Remaining
  <1>2. items \in Seq(S) /\ source \in Seq(S) /\ Len(source) \in Nat
    <2>1. source \in Seq(Range(source)) /\ Len(source) \in Nat
      BY LenProperties DEF IsSequence
    <2> QED BY <1>1, <2>1, SeqMonotonic
  <1>3. SubSeq(source, 1, Len(source)) = source
    BY <1>2, SubSeqFull
  <1> HIDE DEF S
  <1>4. CASE Remaining = 0
    <2>1. read.files = items /\ read.truncated = MoreFollow(source)
      BY <1>4 DEF Paginated
    <2>2. base = Maximum
      BY <1>1, <1>4
    <2>3. ASSUME StartsWith(source), ~MoreFollow(source) PROVE items = source
      <3>1. PageOf(source, 1, page) = <<>>
        BY <2>3 DEF MoreFollow
      <3>2. page - 1 \in Nat /\ page - 1 = (page - 1) * 1 /\ 1 \in Nat \ {0}
        BY <1>1
      <3> DEFINE probe == PageOf(source, 1, page)
                 before == page - 1
      <3>3. Len(probe) = IF Len(source) <= before THEN 0
                         ELSE IF Len(source) <= before + 1 THEN Len(source) - before
                         ELSE 1
        <4> HIDE DEF before
        <4>1. before \in Nat /\ before = (page - 1) * 1 /\ 1 \in Nat \ {0}
          BY <3>2 DEF before
        <4>2. IsPage(probe, source, 1, before)
          BY <1>1, <4>1, PageLemma, Zenon
        <4> HIDE DEF probe
        <4> QED BY <4>2 DEF IsPage
      <3>4. Len(probe) = 0
        BY <3>1
      <3> HIDE DEF probe
      <3>5. Len(source) <= page - 1
        BY <1>1, <1>2, <3>3, <3>4
      <3>6. page - 1 <= base
        BY <1>1
      <3>7. base <= Len(source) /\ items = SubSeq(source, 1, base)
        BY <2>3 DEF StartsWith
      <3>8. base = Len(source)
        BY <1>1, <1>2, <3>5, <3>6, <3>7
      <3> QED BY <1>3, <3>7, <3>8
    <2>4. MoreFollow(source) \in BOOLEAN
      BY DEF MoreFollow
    <2>5. StartsWith(source) => items = SubSeq(source, 1, Maximum)
      BY <2>2 DEF StartsWith
    <2> QED BY <1>1, <2>1, <2>3, <2>4, <2>5
  <1>5. CASE Remaining # 0
    <2> DEFINE payload == PageOf(source, PerPage, page)
    <2>1. /\ read.files = Extended(payload) /\ read.truncated = ~LastPage(payload)
          /\ LastPage(payload) \/ Len(payload) > Remaining
      BY <1>5 DEF Paginated, Returns
    <2>2. /\ payload \in Seq(S)
          /\ Len(payload) = IF Len(source) <= base THEN 0
                            ELSE IF Len(source) <= base + PerPage THEN Len(source) - base
                            ELSE PerPage
          /\ \A i \in 1..Len(payload) : payload[i] = source[base + i]
      <3>1. IsPage(payload, source, PerPage, base)
        BY <1>1, PageLemma, Zenon
      <3>2. Seq(Range(source)) \subseteq Seq(S)
        BY SeqMonotonic DEF S
      <3> HIDE DEF payload
      <3> QED BY <3>1, <3>2 DEF IsPage
    <2> HIDE DEF payload
    <2>3. Remaining >= PerPage
      BY <1>1, <1>5, RoomIsForPages
    <2>4. Len(payload) \in Nat /\ Len(payload) <= PerPage /\ Len(payload) <= Remaining
      <3> DEFINE n == Len(source)
                 k == Len(payload)
                 b == base
      <3> HIDE DEF n, k, b
      <3>1. k = IF n <= b THEN 0 ELSE IF n <= b + PerPage THEN n - b ELSE PerPage
        BY <2>2 DEF n, k, b
      <3>2. n \in Nat /\ b \in Nat
        BY <1>1, <1>2 DEF n, b
      <3>3. k \in Nat /\ k <= PerPage
        BY <1>1, <3>1, <3>2
      <3> QED BY <1>1, <2>3, <3>3 DEF k
    <2>5. LastPage(payload) /\ Len(payload) < PerPage /\ read.truncated = FALSE
      <3>1. ~(Len(payload) > Remaining)
        BY <1>1, <2>4
      <3>2. LastPage(payload)
        BY <2>1, <3>1
      <3> QED BY <2>1, <3>2 DEF LastPage
    <2> DEFINE all == Extended(payload)
    <2>6. /\ all \in Seq(S)
          /\ Len(all) = base + Len(payload)
          /\ \A i \in 1..base : all[i] = items[i]
          /\ \A i \in 1..Len(payload) : all[base + i] = payload[i]
      BY <1>1, <1>2, <2>2, <2>4, ExtendedLemma, Zenon
    <2> HIDE DEF all
    <2>7. Len(all) <= Maximum
      BY <1>1, <2>4, <2>6
    <2>8. ASSUME StartsWith(source) PROVE all = source
      <3>1. items = SubSeq(source, 1, base) /\ base <= Len(source)
        BY <2>8 DEF StartsWith
      <3>2. \A i \in 1..base : items[i] = source[i]
        <4>1. \A i \in 1..base : SubSeq(source, 1, base)[i] = source[i]
          BY <1>1, <1>2, <3>1, FirstElements
        <4> QED BY <3>1, <4>1
      <3>3. base + Len(payload) = Len(source)
        <4> DEFINE n == Len(source)
                   k == Len(payload)
                   b == base
        <4> HIDE DEF n, k, b
        <4>1. /\ k = IF n <= b THEN 0 ELSE IF n <= b + PerPage THEN n - b ELSE PerPage
              /\ n \in Nat /\ b \in Nat /\ b <= n /\ k < PerPage
          BY <1>1, <1>2, <2>2, <2>5, <3>1 DEF n, k, b
        <4>2. b + k = n
          BY <1>1, <4>1
        <4> QED BY <4>2 DEF n, k, b
      <3>4. ASSUME NEW i \in 1..Len(source) PROVE all[i] = source[i]
        <4>1. CASE i \in 1..base
          BY <2>6, <3>2, <4>1
        <4>2. CASE i \notin 1..base
          <5>1. i - base \in 1..Len(payload) /\ base + (i - base) = i
            BY <1>1, <1>2, <2>4, <3>3, <4>2
          <5>2. all[i] = payload[i - base] /\ payload[i - base] = source[i]
            BY <2>2, <2>6, <5>1
          <5> QED BY <5>2
        <4> QED BY <4>1, <4>2
      <3> QED BY <1>2, <2>6, <3>3, <3>4, SeqEqual
    <2>9. read.files = all
      BY <2>1 DEF all
    <2> QED BY <2>5, <2>7, <2>8, <2>9
  <1> QED BY <1>4, <1>5

----------------------------------------------------------------------------
(* The invariant                                                           *)

(* The reads of a run, in their order.                                     *)
LEMMA FetchesLemma ==
    /\ Len(Fetches) \in 1..3
    /\ Fetches[1] = "snapshot"
    /\ \A i \in 1..Len(Fetches) : Fetches[i] \in {"snapshot", "diff", "check"}
    /\ WantsDiff => Len(Fetches) >= 2 /\ Fetches[2] = "diff"
    /\ WantsCheck => Len(Fetches) >= 2 /\ Fetches[Len(Fetches)] = "check"
    /\ ~WantsCheck => Len(Fetches) = IF WantsDiff THEN 2 ELSE 1
    /\ WantsCheck => Len(Fetches) = IF WantsDiff THEN 3 ELSE 2
  <1>1. CASE WantsDiff /\ WantsCheck
    <2>1. Fetches = <<"snapshot", "diff", "check">>
      BY <1>1 DEF Fetches
    <2> QED BY <1>1, <2>1
  <1>2. CASE WantsDiff /\ ~WantsCheck
    <2>1. Fetches = <<"snapshot", "diff">>
      BY <1>2 DEF Fetches
    <2> QED BY <1>2, <2>1
  <1>3. CASE ~WantsDiff /\ WantsCheck
    <2>1. Fetches = <<"snapshot", "check">>
      BY <1>3 DEF Fetches
    <2> QED BY <1>3, <2>1
  <1>4. CASE ~WantsDiff /\ ~WantsCheck
    <2>1. Fetches = <<"snapshot">>
      BY <1>4 DEF Fetches
    <2> QED BY <1>4, <2>1
  <1> QED BY <1>1, <1>2, <1>3, <1>4

LEMMA InitInvariant == Init => IndInv
  <1> SUFFICES ASSUME Init PROVE IndInv
    OBVIOUS
  <1>1. /\ request \in Request /\ head \in Sha /\ pushes = 0 /\ pc = "snapshot"
        /\ audit = <<>> /\ page = 1 /\ items = <<>> /\ archive = <<>>
        /\ diff = None /\ check = None /\ located = {} /\ citations = {}
    BY DEF Init
  <1>2. PICK pages \in Nat : Maximum \div PerPage = pages
    BY KeptPages
  <1>3. IsFiniteSet(located) /\ Cardinality(located) = 0
    BY <1>1, FS_EmptySet
  <1>4. IsSequence(items) /\ Len(items) = 0 /\ (page - 1) * PerPage = 0
    <2>1. items \in Seq({}) /\ Len(items) = 0
      BY <1>1
    <2>2. PerPage \in Nat
      BY PagesFill
    <2>3. IsSequence(items)
      BY <2>1, Sequence
    <2> QED BY <1>1, <2>1, <2>2, <2>3
  <1>5. TypeOK
    BY <1>1, <1>2, <1>3, <1>4, PagesFill, ReadBounds DEF TypeOK, Stage, Stopped, None
  <1>6. ReadsAreInOrder /\ DecisionsCoverReads
    <2>1. Len(audit) = 0 /\ DOMAIN audit = {}
      BY <1>1
    <2> QED BY <1>1, <2>1, FetchesLemma
         DEF ReadsAreInOrder, DecisionsCoverReads, Steps, Stopped
  <1>7. PagesAreWhole /\ WholeOrTruncated
    BY <1>1, <1>4 DEF PagesAreWhole, WholeOrTruncated
  <1>8. ExcerptsAreOfArchive
    BY <1>1, <1>3 DEF ExcerptsAreOfArchive
  <1> QED BY <1>5, <1>6, <1>7, <1>8 DEF IndInv

(* Excerpts and citations stay when the archive and they do.               *)
LEMMA ExcerptsStay ==
    ASSUME ExcerptsAreOfArchive, UNCHANGED <<archive, located, citations>>,
           pc' = pc \/ pc # "tools"
    PROVE  ExcerptsAreOfArchive'
  <1>1. Excerpts' = Excerpts
    BY DEF Excerpts
  <1> QED BY <1>1 DEF ExcerptsAreOfArchive

LEMMA RequestsAreRead ==
    ASSUME TypeOK
    PROVE  /\ request.pinned \in Sha
           /\ IsSequence(FilesOf[request.pinned]) /\ IsSequence(FilesOf[head])
           /\ IsSequence(Annotations)
  BY RequestsPinHeads, AnswersAreSequences DEF TypeOK

LEMMA DecisionRecorded ==
    ASSUME NEW S, audit \in Seq(S), NEW decision \in S, audit' = Append(audit, decision)
    PROVE  /\ audit' \in Seq(S) /\ Len(audit') = Len(audit) + 1
           /\ DOMAIN audit' = DOMAIN audit \cup {Len(audit')}
           /\ audit'[Len(audit')] = decision /\ audit' # <<>>
           /\ \A i \in DOMAIN audit : audit'[i] = audit[i]
           /\ Range(audit) \subseteq Range(audit') /\ decision \in Range(audit')
  <1>1. Len(audit) \in Nat /\ DOMAIN audit = 1..Len(audit)
    BY LenProperties
  <1>2. /\ audit' \in Seq(S) /\ Len(audit') = Len(audit) + 1
        /\ \A i \in 1..Len(audit) : audit'[i] = audit[i]
        /\ audit'[Len(audit) + 1] = decision
    BY AppendProperties
  <1>3. DOMAIN audit' = 1..(Len(audit) + 1)
    BY <1>2, LenProperties
  <1>4. 1..(Len(audit) + 1) = 1..Len(audit) \cup {Len(audit) + 1}
    BY <1>1
  <1>5. Len(audit) + 1 # 0 /\ Len(<<>>) = 0
    BY <1>1
  <1>6. Range(audit) \subseteq Range(audit') /\ decision \in Range(audit')
    BY <1>1, <1>2, <1>3, <1>4 DEF Range
  <1> QED BY <1>1, <1>2, <1>3, <1>4, <1>5, <1>6

(* A run that ends keeps the rest of the invariant, whatever was recorded. *)
LEMMA StopLemma ==
    ASSUME IndInv, NEW how \in Stopped, Stop(how), pc # "tools",
           audit' \in Seq({"snapshot", "diff", "check"} \X Reason),
           UNCHANGED <<request, head, pushes, located, citations>>
    PROVE  /\ TypeOK' /\ ReadsAreInOrder' /\ PagesAreWhole' /\ WholeOrTruncated'
           /\ ExcerptsAreOfArchive'
  <1>1. /\ pc' = how /\ page' = 1 /\ items' = <<>> /\ archive' = <<>>
        /\ diff' = None /\ check' = None
    BY DEF Stop
  <1>2. pc' \notin {"snapshot", "archive", "diff", "pull", "files", "check", "checkRun",
                   "annotations", "logs", "tools"}
    BY <1>1 DEF Stopped
  <1>3. PICK pages \in Nat : Maximum \div PerPage = pages
    BY KeptPages
  <1>4. IsSequence(items') /\ Len(items') = 0 /\ (page' - 1) * PerPage = 0
    <2>1. items' \in Seq({}) /\ Len(items') = 0
      BY <1>1
    <2>2. PerPage \in Nat
      BY PagesFill
    <2>3. IsSequence(items')
      BY <2>1, Sequence
    <2> QED BY <1>1, <2>1, <2>2, <2>3
  <1>5. TypeOK'
    BY <1>1, <1>3, <1>4, PagesFill DEF IndInv, TypeOK, Stage, None
  <1>6. ReadsAreInOrder'
    BY <1>2 DEF ReadsAreInOrder, Steps
  <1>7. PagesAreWhole' /\ WholeOrTruncated'
    BY <1>1, <1>2, <1>4 DEF PagesAreWhole, WholeOrTruncated
  <1>8. ExcerptsAreOfArchive'
    <2>1. located' = {} /\ citations' = {}
      BY DEF IndInv, ExcerptsAreOfArchive
    <2> QED BY <1>1, <2>1, FS_EmptySet DEF ExcerptsAreOfArchive
  <1> QED BY <1>5, <1>6, <1>7, <1>8

(* Nothing but the last decision can be a denial, and the next decision is *)
(* that of the next read.                                                  *)
LEMMA NextDecision ==
    ASSUME IndInv, NEW fetch \in {"snapshot", "diff", "check"}, pc = fetch
    PROVE  /\ Len(audit) < Len(Fetches) /\ Fetches[Len(audit) + 1] = fetch
           /\ \A i \in DOMAIN audit : audit[i] = <<Fetches[i], Decision(Fetches[i])>>
                                    /\ audit[i][2] = "allow"
  <1>1. Len(audit) \in Nat
    BY LenProperties DEF IndInv, TypeOK
  <1>2. Len(audit) < Len(Fetches) /\ Fetches[Len(audit) + 1] = fetch
    <2>1. CASE fetch = "snapshot"
      <3>1. audit = <<>>
        BY <2>1 DEF IndInv, ReadsAreInOrder
      <3>2. Len(audit) = 0
        BY <3>1
      <3> QED BY <2>1, <3>2, FetchesLemma
    <2>2. CASE fetch = "diff"
      <3>1. WantsDiff /\ Len(audit) = 1
        BY <2>2 DEF IndInv, ReadsAreInOrder
      <3> QED BY <2>2, <3>1, FetchesLemma
    <2>3. CASE fetch = "check"
      <3>1. WantsCheck /\ Len(audit) = Len(Fetches) - 1
        BY <2>3 DEF IndInv, ReadsAreInOrder
      <3>2. Len(audit) + 1 = Len(Fetches)
        BY <3>1, FetchesLemma
      <3> QED BY <2>3, <3>1, <3>2, <1>1, FetchesLemma
    <2> QED BY <2>1, <2>2, <2>3
  <1>3. ASSUME NEW i \in DOMAIN audit
        PROVE  audit[i] = <<Fetches[i], Decision(Fetches[i])>> /\ audit[i][2] = "allow"
    BY <1>3 DEF IndInv, DecisionsCoverReads
  <1> QED BY <1>2, <1>3

LEMMA AuthorizeInvariant ==
    ASSUME IndInv, NEW fetch \in {"snapshot", "diff", "check"}, Authorize(fetch)
    PROVE  IndInv'
  <1>1. /\ pc = fetch
        /\ audit' = Append(audit, <<fetch, Decision(fetch)>>)
        /\ UNCHANGED <<request, head, pushes, located, citations>>
    BY DEF Authorize
  <1>2. Decision(fetch) \in Reason
    BY DEF Decision, Reason
  <1> DEFINE S == {"snapshot", "diff", "check"} \X Reason
             decision == <<fetch, Decision(fetch)>>
  <1>3. decision \in S /\ audit \in Seq(S) /\ decision[2] = Decision(fetch)
    BY <1>2 DEF IndInv, TypeOK
  <1> HIDE DEF S
  <1>4. /\ audit' \in Seq(S) /\ Len(audit') = Len(audit) + 1
        /\ DOMAIN audit' = DOMAIN audit \cup {Len(audit')}
        /\ audit'[Len(audit')] = decision /\ audit' # <<>>
        /\ \A i \in DOMAIN audit : audit'[i] = audit[i]
        /\ Range(audit) \subseteq Range(audit') /\ decision \in Range(audit')
    BY <1>1, <1>3, DecisionRecorded
  <1>5. Len(audit) \in Nat /\ DOMAIN audit = 1..Len(audit)
    BY <1>3, LenProperties
  <1>6. /\ Len(audit) < Len(Fetches) /\ Fetches[Len(audit) + 1] = fetch
        /\ \A i \in DOMAIN audit : audit[i] = <<Fetches[i], Decision(Fetches[i])>>
                                 /\ audit[i][2] = "allow"
    BY <1>1, NextDecision
  <1>7. Fetches' = Fetches /\ (WantsDiff' <=> WantsDiff) /\ (WantsCheck' <=> WantsCheck)
        /\ \A f \in {"snapshot", "diff", "check"} : Decision(f)' = Decision(f)
    BY <1>1 DEF Fetches, WantsDiff, WantsCheck, Decision
  <1>8. /\ Len(audit') <= Len(Fetches')
        /\ \A i \in DOMAIN audit' : audit'[i] = <<Fetches'[i], Decision(Fetches[i])'>>
        /\ \A i \in DOMAIN audit' : audit'[i][2] # "allow"
                                     <=> i = Len(audit') /\ Decision(fetch) # "allow"
    <2>1. Len(audit') <= Len(Fetches')
      BY <1>4, <1>5, <1>6, <1>7, FetchesLemma
    <2>2. ASSUME NEW i \in DOMAIN audit'
          PROVE  /\ audit'[i] = <<Fetches'[i], Decision(Fetches[i])'>>
                 /\ audit'[i][2] # "allow" <=> i = Len(audit') /\ Decision(fetch) # "allow"
      <3>1. CASE i \in DOMAIN audit
        <4>1. Fetches[i] \in {"snapshot", "diff", "check"}
          BY <1>5, <1>6, <3>1, FetchesLemma
        <4>2. audit'[i] = <<Fetches'[i], Decision(Fetches[i])'>>
          BY <1>4, <1>6, <1>7, <3>1, <4>1
        <4>3. audit'[i][2] = "allow" /\ i # Len(audit')
          BY <1>4, <1>5, <1>6, <3>1
        <4> QED BY <4>2, <4>3
      <3>2. CASE i = Len(audit')
        <4>1. audit'[i] = decision /\ Fetches'[i] = fetch /\ Decision(fetch)' = Decision(fetch)
          BY <1>4, <1>6, <1>7, <3>2
        <4> QED BY <1>3, <1>7, <3>2, <4>1
      <3> QED BY <1>4, <3>1, <3>2
    <2> QED BY <2>1, <2>2
  <1>9. CASE Decision(fetch) # "allow"
    <2>1. Stop("denied")
      BY <1>9 DEF Authorize
    <2>2. pc' = "denied" /\ archive' = <<>> /\ diff' = None /\ check' = None
      BY <2>1 DEF Stop
    <2>3. /\ TypeOK' /\ ReadsAreInOrder' /\ PagesAreWhole' /\ WholeOrTruncated'
          /\ ExcerptsAreOfArchive'
      BY <1>1, <1>4, <2>1, StopLemma DEF S, Stopped
    <2>4. DecisionsCoverReads'
      BY <1>4, <1>8, <1>9, <2>2 DEF DecisionsCoverReads, Steps
    <2> QED BY <2>3, <2>4 DEF IndInv
  <1>10. CASE Decision(fetch) = "allow"
    <2>1. pc' = FirstRequest(fetch) /\ UNCHANGED <<page, items, archive, diff, check>>
      BY <1>10 DEF Authorize, fetched
    <2>2. /\ pc' \in {"archive", "pull", "checkRun"}
          /\ pc' = "archive" <=> fetch = "snapshot"
          /\ pc' = "pull" <=> fetch = "diff"
          /\ pc' = "checkRun" <=> fetch = "check"
      BY <2>1 DEF FirstRequest
    <2>3. TypeOK'
      BY <1>1, <1>4, <2>1, <2>2 DEF IndInv, TypeOK, Stage, S
    <2>4. ReadsAreInOrder'
      <3>1. Len(audit') = Len(audit) + 1
        BY <1>4
      <3>2. CASE fetch = "snapshot"
        <4>1. audit = <<>>
          BY <1>1, <3>2 DEF IndInv, ReadsAreInOrder
        <4>2. pc' = "archive" /\ Len(audit') = 1
          BY <2>2, <3>1, <3>2, <4>1
        <4> QED BY <4>2 DEF ReadsAreInOrder, Steps
      <3>3. CASE fetch = "diff"
        <4>1. WantsDiff /\ Len(audit) = 1
          BY <1>1, <3>3 DEF IndInv, ReadsAreInOrder
        <4>2. pc' = "pull" /\ Len(audit') = 2 /\ WantsDiff'
          BY <1>7, <2>2, <3>1, <3>3, <4>1
        <4> QED BY <4>2 DEF ReadsAreInOrder, Steps
      <3>4. CASE fetch = "check"
        <4>1. WantsCheck /\ Len(audit) = Len(Fetches) - 1
          BY <1>1, <3>4 DEF IndInv, ReadsAreInOrder
        <4>2. pc' = "checkRun" /\ Len(audit') = Len(Fetches)' /\ WantsCheck'
          BY <1>7, <2>2, <3>1, <3>4, <4>1, FetchesLemma
        <4> QED BY <4>2 DEF ReadsAreInOrder, Steps
      <3> QED BY <3>2, <3>3, <3>4
    <2>5. DecisionsCoverReads'
      <3>1. Allowed(fetch)'
        BY <1>4, <1>10 DEF Allowed
      <3>2. \A f \in {"snapshot", "diff", "check"} :
              /\ pc' \in Steps(f) => Allowed(f)'
              /\ Allowed(f) => Allowed(f)'
        BY <1>4, <2>2, <3>1 DEF Steps, Allowed
      <3>3. /\ diff' # None => Allowed("diff")'
            /\ check' # None => Allowed("check")'
            /\ archive' # <<>> => Allowed("snapshot")'
        BY <2>1, <3>2 DEF IndInv, DecisionsCoverReads, None
      <3> QED BY <1>8, <1>10, <2>2, <3>2, <3>3 DEF DecisionsCoverReads, Stopped, None
    <2>6. PagesAreWhole' /\ WholeOrTruncated'
      BY <1>1, <2>1, <2>2 DEF IndInv, PagesAreWhole, WholeOrTruncated, IsSequence, None
    <2>7. ExcerptsAreOfArchive'
      BY <1>1, <2>1, ExcerptsStay DEF IndInv
    <2> QED BY <2>3, <2>4, <2>5, <2>6, <2>7 DEF IndInv
  <1> QED BY <1>9, <1>10

(* A request goes out after a decision.                                    *)
LEMMA ReadsRecorded ==
    ASSUME IndInv,
           pc \in {"archive", "pull", "files", "checkRun", "annotations", "logs"}
    PROVE  audit # <<>>
  <1>1. pc = "archive" \/ pc \in Steps("diff") \/ pc \in Steps("check")
    BY DEF Steps
  <1>2. Len(audit) \in {1, 2, Len(Fetches)}
    BY <1>1 DEF IndInv, ReadsAreInOrder
  <1>3. Len(audit) # 0
    BY <1>2, FetchesLemma
  <1> QED BY <1>3

(* What the steps that record no decision have to show of pc.              *)
LEMMA DecisionsStay ==
    ASSUME IndInv, UNCHANGED <<request, audit>>, audit # <<>>,
           pc # "denied", pc' # "denied",
           pc' = "tools" => Len(audit) = Len(Fetches),
           NEW reading \in {"snapshot", "diff", "check"}, pc \in Steps(reading),
           \A fetch \in {"snapshot", "diff", "check"} :
               pc' \in Steps(fetch) => fetch = reading,
           diff' = diff \/ diff' = None \/ reading = "diff",
           check' = check \/ check' = None \/ reading = "check",
           archive' = archive \/ archive' = <<>> \/ reading = "snapshot",
           pc' \in Stopped => archive' = <<>> /\ diff' = None /\ check' = None
    PROVE  DecisionsCoverReads'
  <1>1. Fetches' = Fetches /\ Len(Fetches') = Len(Fetches)
        /\ \A f \in {"snapshot", "diff", "check"} :
             Decision(f)' = Decision(f) /\ (Allowed(f)' <=> Allowed(f))
    BY DEF Fetches, WantsDiff, WantsCheck, Decision, Allowed
  <1>2. Allowed(reading)
    BY DEF IndInv, DecisionsCoverReads
  <1>3. Len(audit') <= Len(Fetches')
    BY <1>1 DEF IndInv, DecisionsCoverReads
  <1>4. ASSUME NEW i \in DOMAIN audit'
        PROVE  /\ audit'[i] = <<Fetches'[i], Decision(Fetches[i])'>>
               /\ audit'[i][2] # "allow" <=> i = Len(audit') /\ pc' = "denied"
    <2>1. audit \in Seq({"snapshot", "diff", "check"} \X Reason)
      BY DEF IndInv, TypeOK
    <2>2. DOMAIN audit = 1..Len(audit) /\ Len(audit) \in Nat
      BY <2>1, LenProperties
    <2>3. Fetches[i] \in {"snapshot", "diff", "check"}
      BY <1>1, <1>3, <1>4, <2>2, FetchesLemma
    <2>4. /\ audit[i] = <<Fetches[i], Decision(Fetches[i])>>
          /\ audit[i][2] = "allow"
      BY <1>4 DEF IndInv, DecisionsCoverReads
    <2> QED BY <1>1, <2>3, <2>4
  <1>5. \A fetch \in {"snapshot", "diff", "check"} : pc' \in Steps(fetch) => Allowed(fetch)'
    BY <1>1, <1>2
  <1>6. /\ diff' # None => Allowed("diff")'
        /\ check' # None => Allowed("check")'
        /\ archive' # <<>> => Allowed("snapshot")'
    BY <1>1, <1>2 DEF IndInv, DecisionsCoverReads
  <1>7. Steps("snapshot")' = Steps("snapshot") /\ Steps("diff")' = Steps("diff")
        /\ Steps("check")' = Steps("check")
    BY DEF Steps
  <1> QED BY <1>1, <1>3, <1>4, <1>5, <1>6 DEF DecisionsCoverReads, Steps, None

(* A run that ends without a denial.                                       *)
LEMMA StopInvariant ==
    ASSUME IndInv, NEW how \in {"refused", "failed"}, Stop(how),
           NEW reading \in {"snapshot", "diff", "check"}, pc \in Steps(reading),
           UNCHANGED <<request, head, pushes, audit, located, citations>>
    PROVE  IndInv'
  <1>1. pc' = how /\ archive' = <<>> /\ diff' = None /\ check' = None
    BY DEF Stop
  <1>2. pc \in {"archive", "pull", "files", "checkRun", "annotations", "logs"}
    BY DEF Steps
  <1>3. audit' \in Seq({"snapshot", "diff", "check"} \X Reason)
    BY DEF IndInv, TypeOK
  <1>4. /\ TypeOK' /\ ReadsAreInOrder' /\ PagesAreWhole' /\ WholeOrTruncated'
        /\ ExcerptsAreOfArchive'
    <2>1. how \in Stopped
      BY DEF Stopped
    <2> QED BY <1>2, <1>3, <2>1, StopLemma
  <1>5. DecisionsCoverReads'
    <2>1. audit # <<>>
      BY <1>2, ReadsRecorded
    <2>2. pc' \notin {"tools", "denied"} /\ \A fetch \in {"snapshot", "diff", "check"} :
                                               pc' \notin Steps(fetch)
      BY <1>1 DEF Steps
    <2> QED BY <1>1, <1>2, <2>1, <2>2, DecisionsStay
  <1> QED BY <1>4, <1>5 DEF IndInv

LEMMA ReadArchiveInvariant == ASSUME IndInv, ReadArchive PROVE IndInv'
  <1>1. /\ pc = "archive" /\ pc' = AfterSnapshot
        /\ UNCHANGED <<request, head, pushes, audit, page, items, diff, check,
                       located, citations>>
    BY DEF ReadArchive
  <1>2. /\ pc' \in {"diff", "check", "tools"}
        /\ pc' = "diff" => WantsDiff
        /\ pc' = "check" => ~WantsDiff /\ WantsCheck
        /\ pc' = "tools" => ~WantsDiff /\ ~WantsCheck
    BY <1>1 DEF AfterSnapshot, AfterDiff
  <1>3. \A p \in DOMAIN archive' : IsText(archive'[p])
    <2>1. request.pinned \in Sha
      BY RequestsAreRead DEF IndInv
    <2>2. \A p \in DOMAIN archive' : /\ p \in DOMAIN ArchiveOf[request.pinned]
                                     /\ archive'[p] = ArchiveOf[request.pinned][p].lines
      BY DEF ReadArchive
    <2> QED BY <2>1, <2>2, ArchivesAreText
  <1>4. TypeOK'
    BY <1>1, <1>2 DEF IndInv, TypeOK, Stage
  <1>5. Len(audit) = 1 /\ (WantsDiff' <=> WantsDiff) /\ (WantsCheck' <=> WantsCheck)
        /\ Fetches' = Fetches
    BY <1>1 DEF IndInv, ReadsAreInOrder, WantsDiff, WantsCheck, Fetches
  <1>6. ReadsAreInOrder' /\ DecisionsCoverReads'
    <2>1. ReadsAreInOrder'
      BY <1>1, <1>2, <1>5, FetchesLemma DEF ReadsAreInOrder, Steps
    <2>2. audit # <<>>
      BY <1>1, ReadsRecorded
    <2>3. /\ pc \in Steps("snapshot") /\ pc' \notin Stopped /\ pc' # "denied"
          /\ \A fetch \in {"snapshot", "diff", "check"} : pc' \notin Steps(fetch)
      BY <1>1, <1>2 DEF Steps, Stopped
    <2>4. pc' = "tools" => Len(audit) = Len(Fetches)
      BY <1>2, <1>5, FetchesLemma
    <2> QED BY <1>1, <2>1, <2>2, <2>3, <2>4, DecisionsStay
  <1>7. PagesAreWhole' /\ WholeOrTruncated'
    BY <1>1, <1>2 DEF IndInv, PagesAreWhole, WholeOrTruncated, IsSequence, None
  <1>8. ExcerptsAreOfArchive'
    <2>1. located' = {} /\ citations' = {}
      BY <1>1 DEF IndInv, ExcerptsAreOfArchive
    <2> QED BY <1>3, <2>1, FS_EmptySet DEF ExcerptsAreOfArchive
  <1> QED BY <1>4, <1>6, <1>7, <1>8 DEF IndInv

(* ReadPull and ReadCheckRun: the pages begin.                             *)
LEMMA PagesBegin ==
    ASSUME NEW source, IsSequence(source), page' = 1, items' = <<>>
    PROVE  /\ page' \in 1..(Maximum \div PerPage + 1)
           /\ IsSequence(items') /\ Len(items') = 0 /\ (page' - 1) * PerPage = 0
           /\ Len(items') <= Maximum
           /\ Len(items') <= Len(source) /\ items' = SubSeq(source, 1, Len(items'))
  <1>1. PICK pages \in Nat : Maximum \div PerPage = pages
    BY KeptPages
  <1>2. items' \in Seq({}) /\ Len(items') = 0
    OBVIOUS
  <1>3. source \in Seq(Range(source)) /\ Len(source) \in Nat
    BY LenProperties DEF IsSequence
  <1>4. items' = SubSeq(source, 1, 0)
    <2>1. SubSeq(source, 1, 0) \in Seq(Range(source)) /\ Len(SubSeq(source, 1, 0)) = 0
      BY <1>3, FirstElements
    <2> QED BY <2>1, EmptySeq
  <1>5. PerPage \in Nat /\ Maximum \in Nat
    BY PagesFill
  <1>6. IsSequence(items')
    BY <1>2, Sequence
  <1> QED BY <1>1, <1>2, <1>3, <1>4, <1>5, <1>6

LEMMA ReadPullInvariant == ASSUME IndInv, ReadPull PROVE IndInv'
  <1>1. /\ pc = "pull" /\ UNCHANGED <<request, head, pushes, audit, located, citations>>
        /\ \/ /\ head = request.pinned /\ pc' = "files" /\ page' = 1 /\ items' = <<>>
              /\ UNCHANGED <<archive, diff, check>>
           \/ Stop("refused")
    BY DEF ReadPull
  <1>2. pc \in Steps("diff")
    BY <1>1 DEF Steps
  <1>3. CASE Stop("refused")
    BY <1>1, <1>2, <1>3, StopInvariant
  <1>4. CASE /\ head = request.pinned /\ pc' = "files" /\ page' = 1 /\ items' = <<>>
             /\ UNCHANGED <<archive, diff, check>>
    <2>1. /\ page' \in 1..(Maximum \div PerPage + 1)
          /\ IsSequence(items') /\ Len(items') = 0 /\ (page' - 1) * PerPage = 0
          /\ Len(items') <= Maximum
          /\ Len(items') <= Len(FilesOf[head])
          /\ items' = SubSeq(FilesOf[head], 1, Len(items'))
      <3>1. IsSequence(FilesOf[head])
        BY RequestsAreRead DEF IndInv
      <3> QED BY <1>4, <3>1, PagesBegin
    <2>2. TypeOK'
      BY <1>1, <1>4, <2>1 DEF IndInv, TypeOK, Stage
    <2>3. ReadsAreInOrder'
      <3>1. WantsDiff /\ Len(audit) = 2
        BY <1>2 DEF IndInv, ReadsAreInOrder
      <3>2. WantsDiff' /\ Len(audit') = 2
        BY <1>1, <3>1 DEF WantsDiff
      <3> QED BY <1>4, <3>2 DEF ReadsAreInOrder, Steps
    <2>4. DecisionsCoverReads'
      <3>1. audit # <<>>
        BY <1>1, ReadsRecorded
      <3>2. /\ pc' \notin Stopped
            /\ \A fetch \in {"snapshot", "diff", "check"} : pc' \in Steps(fetch) => fetch = "diff"
        BY <1>4 DEF Steps, Stopped
      <3> QED BY <1>1, <1>2, <1>4, <3>1, <3>2, DecisionsStay
    <2>5. PagesAreWhole' /\ WholeOrTruncated'
      BY <1>1, <1>4, <2>1 DEF IndInv, PagesAreWhole, WholeOrTruncated, IsSequence, StartsWith, None
    <2>6. ExcerptsAreOfArchive'
      BY <1>1, <1>4, ExcerptsStay DEF IndInv
    <2> QED BY <2>2, <2>3, <2>4, <2>5, <2>6 DEF IndInv
  <1> QED BY <1>1, <1>3, <1>4

(* The check run is the last read.                                         *)
LEMMA CheckIsLast ==
    ASSUME IndInv, pc \in Steps("check"), pc' \in {"annotations", "logs", "tools"},
           UNCHANGED <<request, audit>>
    PROVE  ReadsAreInOrder' /\ Len(audit) = Len(Fetches)
  <1>1. WantsCheck /\ Len(audit) = Len(Fetches)
    BY DEF IndInv, ReadsAreInOrder
  <1>2. WantsCheck' /\ Len(audit') = Len(Fetches')
    BY <1>1 DEF WantsCheck, WantsDiff, Fetches
  <1> QED BY <1>1, <1>2 DEF ReadsAreInOrder, Steps

LEMMA ReadCheckRunInvariant == ASSUME IndInv, ReadCheckRun PROVE IndInv'
  <1>1. /\ pc = "checkRun" /\ UNCHANGED <<request, head, pushes, audit, located, citations>>
        /\ \/ /\ pc' = "annotations" /\ page' = 1 /\ items' = <<>>
              /\ UNCHANGED <<archive, diff, check>>
           \/ Stop("refused")
    BY DEF ReadCheckRun
  <1>2. pc \in Steps("check")
    BY <1>1 DEF Steps
  <1>3. CASE Stop("refused")
    BY <1>1, <1>2, <1>3, StopInvariant
  <1>4. CASE /\ pc' = "annotations" /\ page' = 1 /\ items' = <<>>
             /\ UNCHANGED <<archive, diff, check>>
    <2>1. /\ page' \in 1..(Maximum \div PerPage + 1)
          /\ IsSequence(items') /\ Len(items') = 0 /\ (page' - 1) * PerPage = 0
          /\ Len(items') <= Maximum
          /\ Len(items') <= Len(Annotations)
          /\ items' = SubSeq(Annotations, 1, Len(items'))
      BY <1>4, AnswersAreSequences, PagesBegin
    <2>2. TypeOK'
      BY <1>1, <1>4, <2>1 DEF IndInv, TypeOK, Stage
    <2>3. ReadsAreInOrder'
      BY <1>1, <1>2, <1>4, CheckIsLast
    <2>4. DecisionsCoverReads'
      <3>1. audit # <<>>
        BY <1>1, ReadsRecorded
      <3>2. /\ pc' \notin Stopped
            /\ \A fetch \in {"snapshot", "diff", "check"} : pc' \in Steps(fetch) => fetch = "check"
        BY <1>4 DEF Steps, Stopped
      <3> QED BY <1>1, <1>2, <1>4, <3>1, <3>2, DecisionsStay
    <2>5. PagesAreWhole' /\ WholeOrTruncated'
      BY <1>1, <1>4, <2>1 DEF IndInv, PagesAreWhole, WholeOrTruncated, IsSequence, StartsWith, None
    <2>6. ExcerptsAreOfArchive'
      BY <1>1, <1>4, ExcerptsStay DEF IndInv
    <2> QED BY <2>2, <2>3, <2>4, <2>5, <2>6 DEF IndInv
  <1> QED BY <1>1, <1>3, <1>4

(* The steps that stay where the run is leave the record and its reading.  *)
LEMMA RecordStays ==
    ASSUME IndInv, UNCHANGED <<request, pc, audit, archive, diff, check>>
    PROVE  ReadsAreInOrder' /\ DecisionsCoverReads'
  <1>1. Fetches' = Fetches /\ Len(Fetches)' = Len(Fetches) /\ (WantsDiff' <=> WantsDiff)
        /\ (WantsCheck' <=> WantsCheck)
    BY DEF Fetches, WantsDiff, WantsCheck
  <1>2. /\ \A f \in {"snapshot", "diff", "check"} : Allowed(f)' <=> Allowed(f)
        /\ \A i \in DOMAIN audit : Decision(Fetches[i])' = Decision(Fetches[i])
    BY <1>1 DEF Allowed, Decision
  <1>3. ReadsAreInOrder'
    BY <1>1 DEF IndInv, ReadsAreInOrder, Steps
  <1>4. DecisionsCoverReads'
    BY <1>1, <1>2 DEF IndInv, DecisionsCoverReads, Steps, None
  <1> QED BY <1>3, <1>4

(* The steps of the two loops: another page, or the evidence.              *)
LEMMA PagesInvariant ==
    ASSUME IndInv, pc \in {"files", "annotations"},
           NEW source, IsSequence(source), NextPage(source),
           UNCHANGED <<request, head, pushes, audit, located, citations>>,
           pc = "files" => source = FilesOf[head],
           pc = "annotations" => source = Annotations
    PROVE  IndInv'
  <1>1. UNCHANGED <<pc, archive, diff, check>>
    BY DEF NextPage
  <1>2. PagesSoFar
    BY DEF IndInv, TypeOK, PagesAreWhole, PagesSoFar
  <1>3. /\ PagesSoFar'
        /\ StartsWith(source) =>
             Len(items') <= Len(source) /\ items' = SubSeq(source, 1, Len(items'))
    BY <1>2, PageStep
  <1>4. TypeOK'
    BY <1>1, <1>3 DEF IndInv, TypeOK, PagesSoFar
  <1>5. ReadsAreInOrder' /\ DecisionsCoverReads'
    BY <1>1, RecordStays
  <1>6. PagesAreWhole'
    <2>1. pc' = "annotations" => StartsWith(Annotations)'
      BY <1>1, <1>3 DEF IndInv, PagesAreWhole, StartsWith
    <2>2. pc' = "files" /\ pushes' = 0 =>
            head' = request'.pinned /\ StartsWith(FilesOf[head])'
      BY <1>1, <1>3 DEF IndInv, PagesAreWhole, StartsWith
    <2> QED BY <1>3, <2>1, <2>2 DEF PagesAreWhole, PagesSoFar
  <1>7. WholeOrTruncated'
    BY <1>1 DEF IndInv, WholeOrTruncated, None
  <1>8. ExcerptsAreOfArchive'
    BY <1>1, ExcerptsStay DEF IndInv
  <1> QED BY <1>4, <1>5, <1>6, <1>7, <1>8 DEF IndInv

LEMMA ReadFilesInvariant == ASSUME IndInv, ReadFiles PROVE IndInv'
  <1>1. /\ pc = "files"
        /\ UNCHANGED <<request, head, pushes, audit, located, citations>>
        /\ \/ NextPage(FilesOf[head])
           \/ \E read \in Paginated(FilesOf[head]) : DiffDone(read)
    BY DEF ReadFiles
  <1>2. IsSequence(FilesOf[head]) /\ PagesSoFar
    BY RequestsAreRead DEF IndInv, TypeOK, PagesAreWhole, PagesSoFar
  <1>3. CASE NextPage(FilesOf[head])
    BY <1>1, <1>2, <1>3, PagesInvariant
  <1>4. CASE \E read \in Paginated(FilesOf[head]) : DiffDone(read)
    <2>1. PICK read \in Paginated(FilesOf[head]) : DiffDone(read)
      BY <1>4
    <2>2. /\ read.truncated \in BOOLEAN /\ Len(read.files) <= Maximum
          /\ StartsWith(FilesOf[head]) =>
               IF read.truncated THEN read.files = SubSeq(FilesOf[head], 1, Maximum)
                                 ELSE read.files = FilesOf[head]
      BY <1>2, PagesReturned
    <2>3. \/ Stop("refused")
          \/ pc' = AfterDiff /\ diff' = read /\ UNCHANGED <<page, items, archive, check>>
      BY <2>1 DEF DiffDone
    <2>4. pc \in Steps("diff") /\ WantsDiff /\ Len(audit) = 2
      BY <1>1 DEF IndInv, ReadsAreInOrder, Steps
    <2>5. CASE Stop("refused")
      BY <1>1, <2>4, <2>5, StopInvariant
    <2>6. CASE pc' = AfterDiff /\ diff' = read /\ UNCHANGED <<page, items, archive, check>>
      <3>1. /\ pc' \in {"check", "tools"}
            /\ pc' = "check" => WantsCheck
            /\ pc' = "tools" => ~WantsCheck
        BY <2>6 DEF AfterDiff
      <3>2. TypeOK'
        BY <1>1, <2>2, <2>6, <3>1 DEF IndInv, TypeOK, Stage
      <3>3. ReadsAreInOrder'
        <4>1. Fetches' = Fetches /\ (WantsCheck' <=> WantsCheck)
          BY <1>1 DEF Fetches, WantsDiff, WantsCheck
        <4> QED BY <1>1, <2>4, <3>1, <4>1, FetchesLemma DEF ReadsAreInOrder, Steps
      <3>4. DecisionsCoverReads'
        <4>1. audit # <<>>
          BY <1>1, ReadsRecorded
        <4>2. /\ pc' \notin Stopped /\ pc' # "denied"
              /\ \A fetch \in {"snapshot", "diff", "check"} : pc' \notin Steps(fetch)
          BY <3>1 DEF Steps, Stopped
        <4>3. pc' = "tools" => Len(audit) = Len(Fetches)
          BY <2>4, <3>1, FetchesLemma
        <4> QED BY <1>1, <2>4, <2>6, <4>1, <4>2, <4>3, DecisionsStay
      <3>5. PagesAreWhole'
        BY <1>1, <2>6, <3>1 DEF IndInv, PagesAreWhole, IsSequence
      <3>6. WholeOrTruncated'
        <4>1. pushes = 0 => head = request.pinned /\ StartsWith(FilesOf[head])
          BY <1>1 DEF IndInv, PagesAreWhole
        <4> QED BY <1>1, <2>2, <2>6, <3>1, <4>1 DEF IndInv, WholeOrTruncated, None
      <3>7. ExcerptsAreOfArchive'
        BY <1>1, <2>6, ExcerptsStay DEF IndInv
      <3> QED BY <3>2, <3>3, <3>4, <3>5, <3>6, <3>7 DEF IndInv
    <2> QED BY <2>3, <2>5, <2>6
  <1> QED BY <1>1, <1>3, <1>4

LEMMA ReadAnnotationsInvariant == ASSUME IndInv, ReadAnnotations PROVE IndInv'
  <1>1. /\ pc = "annotations"
        /\ UNCHANGED <<request, head, pushes, audit, located, citations>>
        /\ \/ NextPage(Annotations)
           \/ \E read \in Paginated(Annotations) : CheckDone(read)
    BY DEF ReadAnnotations
  <1>2. IsSequence(Annotations) /\ PagesSoFar
    BY AnswersAreSequences DEF IndInv, TypeOK, PagesAreWhole, PagesSoFar
  <1>3. CASE NextPage(Annotations)
    BY <1>1, <1>2, <1>3, PagesInvariant
  <1>4. CASE \E read \in Paginated(Annotations) : CheckDone(read)
    <2>1. PICK read \in Paginated(Annotations) : CheckDone(read)
      BY <1>4
    <2>2. /\ read.truncated \in BOOLEAN /\ Len(read.files) <= Maximum
          /\ StartsWith(Annotations) =>
               IF read.truncated THEN read.files = SubSeq(Annotations, 1, Maximum)
                                 ELSE read.files = Annotations
      BY <1>2, PagesReturned
    <2>3. check' = read /\ pc' = "logs" /\ UNCHANGED <<page, items, archive, diff>>
      BY <2>1 DEF CheckDone
    <2>4. TypeOK'
      BY <1>1, <2>2, <2>3 DEF IndInv, TypeOK, Stage
    <2>5. ReadsAreInOrder' /\ DecisionsCoverReads'
      <3>1. pc \in Steps("check") /\ audit # <<>>
        BY <1>1, ReadsRecorded DEF Steps
      <3>2. ReadsAreInOrder' /\ Len(audit) = Len(Fetches)
        BY <1>1, <2>3, <3>1, CheckIsLast
      <3>3. /\ pc' \notin Stopped
            /\ \A fetch \in {"snapshot", "diff", "check"} : pc' \in Steps(fetch) => fetch = "check"
        BY <2>3 DEF Steps, Stopped
      <3> QED BY <1>1, <2>3, <3>1, <3>2, <3>3, DecisionsStay
    <2>6. PagesAreWhole'
      BY <1>1, <2>3 DEF IndInv, PagesAreWhole, IsSequence
    <2>7. WholeOrTruncated'
      <3>1. StartsWith(Annotations)
        BY <1>1 DEF IndInv, PagesAreWhole
      <3> QED BY <1>1, <2>2, <2>3, <3>1 DEF IndInv, WholeOrTruncated, None
    <2>8. ExcerptsAreOfArchive'
      BY <1>1, <2>3, ExcerptsStay DEF IndInv
    <2> QED BY <2>4, <2>5, <2>6, <2>7, <2>8 DEF IndInv
  <1> QED BY <1>1, <1>3, <1>4

LEMMA ReadLogsInvariant == ASSUME IndInv, ReadLogs PROVE IndInv'
  <1>1. /\ pc = "logs" /\ pc' = "tools"
        /\ UNCHANGED <<request, head, pushes, audit, page, items, archive, diff, check,
                       located, citations>>
    BY DEF ReadLogs, fetched
  <1>2. TypeOK'
    BY <1>1 DEF IndInv, TypeOK, Stage
  <1>3. ReadsAreInOrder' /\ DecisionsCoverReads'
    <2>1. pc \in Steps("check") /\ audit # <<>>
      BY <1>1, ReadsRecorded DEF Steps
    <2>2. ReadsAreInOrder' /\ Len(audit) = Len(Fetches)
      BY <1>1, <2>1, CheckIsLast
    <2>3. /\ pc' \notin Stopped
          /\ \A fetch \in {"snapshot", "diff", "check"} : pc' \notin Steps(fetch)
      BY <1>1 DEF Steps, Stopped
    <2> QED BY <1>1, <2>1, <2>2, <2>3, DecisionsStay
  <1>4. PagesAreWhole' /\ WholeOrTruncated'
    BY <1>1 DEF IndInv, PagesAreWhole, WholeOrTruncated, IsSequence, None
  <1>5. ExcerptsAreOfArchive'
    BY <1>1, ExcerptsStay DEF IndInv
  <1> QED BY <1>2, <1>3, <1>4, <1>5 DEF IndInv

LEMMA RequestFailsInvariant == ASSUME IndInv, RequestFails PROVE IndInv'
  <1>1. PICK how \in {"failed", "refused"} : Stop(how)
    BY DEF RequestFails
  <1>2. /\ pc \in {"archive", "pull", "files", "checkRun", "annotations", "logs"}
        /\ UNCHANGED <<request, head, pushes, audit, located, citations>>
    BY DEF RequestFails
  <1>3. PICK reading \in {"snapshot", "diff", "check"} : pc \in Steps(reading)
    BY <1>2 DEF Steps
  <1> QED BY <1>1, <1>2, <1>3, StopInvariant

LEMMA PushInvariant == ASSUME IndInv, Push PROVE IndInv'
  <1>1. /\ pushes < MaxPushes /\ pushes' = pushes + 1 /\ head' \in Sha
        /\ UNCHANGED <<request, pc, audit, page, items, archive, diff, check,
                       located, citations>>
    BY DEF Push, fetched
  <1>2. pushes' # 0 /\ pushes' \in 0..MaxPushes
    BY <1>1, ReadBounds DEF IndInv, TypeOK
  <1>3. TypeOK'
    BY <1>1, <1>2 DEF IndInv, TypeOK
  <1>4. ReadsAreInOrder' /\ DecisionsCoverReads'
    BY <1>1, RecordStays
  <1>5. PagesAreWhole' /\ WholeOrTruncated'
    BY <1>1, <1>2 DEF IndInv, PagesAreWhole, WholeOrTruncated, IsSequence, StartsWith
  <1>6. ExcerptsAreOfArchive'
    BY <1>1, ExcerptsStay DEF IndInv
  <1> QED BY <1>3, <1>4, <1>5, <1>6 DEF IndInv

(* Neither tools nor citations touch what was fetched.                     *)
LEMMA FetchedStays ==
    ASSUME IndInv, UNCHANGED <<request, head, pushes, pc, audit, fetched>>
    PROVE  /\ Cardinality(located') <= MaxTools => TypeOK'
           /\ ReadsAreInOrder' /\ DecisionsCoverReads'
           /\ PagesAreWhole' /\ WholeOrTruncated'
  <1>1. UNCHANGED <<request, head, pushes, pc, audit, page, items, archive, diff, check>>
    BY DEF fetched
  <1>2. Cardinality(located') <= MaxTools => TypeOK'
    BY <1>1 DEF IndInv, TypeOK
  <1>3. ReadsAreInOrder' /\ DecisionsCoverReads'
    BY <1>1, RecordStays
  <1>4. PagesAreWhole' /\ WholeOrTruncated'
    BY <1>1 DEF IndInv, PagesAreWhole, WholeOrTruncated, IsSequence, StartsWith, None
  <1> QED BY <1>2, <1>3, <1>4

LEMMA UseToolInvariant == ASSUME IndInv, UseTool PROVE IndInv'
  <1>1. /\ pc = "tools" /\ Cardinality(located) < MaxTools
        /\ UNCHANGED <<request, head, pushes, pc, audit, fetched, citations>>
    BY DEF UseTool
  <1>2. PICK l \in Excerpts : located' = located \cup {l}
    BY DEF UseTool
  <1>3. Excerpts' = Excerpts /\ archive' = archive
    BY <1>1 DEF Excerpts, fetched
  <1>4. IsFiniteSet(located) /\ located \subseteq Excerpts
    BY DEF IndInv, ExcerptsAreOfArchive
  <1>5. IsFiniteSet(located') /\ Cardinality(located') <= MaxTools
    <2>1. /\ IsFiniteSet(located \cup {l})
          /\ Cardinality(located \cup {l}) = Cardinality(located)
             \/ Cardinality(located \cup {l}) = Cardinality(located) + 1
      BY <1>4, FS_AddElement
    <2>2. Cardinality(located) \in Nat
      BY <1>4, FS_CardinalityType
    <2> QED BY <1>1, <1>2, <2>1, <2>2, ReadBounds
  <1>6. ExcerptsAreOfArchive'
    <2>1. located' \subseteq Excerpts'
      BY <1>2, <1>3, <1>4
    <2>2. \A c \in citations' : \E m \in Excerpts' : c.place = Place(m) /\ c.text = m.text
      BY <1>1, <1>3 DEF IndInv, ExcerptsAreOfArchive
    <2>3. \A p \in DOMAIN archive' : IsText(archive'[p])
      BY <1>3 DEF IndInv, ExcerptsAreOfArchive
    <2> QED BY <1>1, <1>5, <2>1, <2>2, <2>3 DEF ExcerptsAreOfArchive
  <1>7. TypeOK' /\ ReadsAreInOrder' /\ DecisionsCoverReads'
        /\ PagesAreWhole' /\ WholeOrTruncated'
    BY <1>1, <1>5, FetchedStays
  <1> QED BY <1>6, <1>7 DEF IndInv

LEMMA CiteInvariant == ASSUME IndInv, Cite PROVE IndInv'
  <1>1. /\ pc = "tools"
        /\ UNCHANGED <<request, head, pushes, pc, audit, fetched, located>>
    BY DEF Cite
  <1>2. PICK l \in located, claimed \in {Place(m) : m \in Excerpts} :
          citations' = {[place |-> c, text |-> l.text] :
                          c \in CanonicalLocator(located, claimed, l.text)}
    BY DEF Cite
  <1>3. Excerpts' = Excerpts /\ archive' = archive
    BY <1>1 DEF Excerpts, fetched
  <1>4. located \subseteq Excerpts
    BY DEF IndInv, ExcerptsAreOfArchive
  <1>5. CanonicalLocator(located, claimed, l.text)
          \subseteq {Place(k) : k \in {m \in located : m.text = l.text}}
    BY DEF CanonicalLocator
  <1>6. ASSUME NEW c \in citations'
        PROVE  \E m \in Excerpts' : c.place = Place(m) /\ c.text = m.text
    <2>1. PICK at \in CanonicalLocator(located, claimed, l.text) :
            c = [place |-> at, text |-> l.text]
      BY <1>2
    <2>2. PICK m \in located : m.text = l.text /\ at = Place(m)
      BY <1>5
    <2> QED BY <1>3, <1>4, <2>1, <2>2
  <1>7. ExcerptsAreOfArchive'
    BY <1>1, <1>3, <1>6 DEF IndInv, ExcerptsAreOfArchive
  <1>8. TypeOK' /\ ReadsAreInOrder' /\ DecisionsCoverReads'
        /\ PagesAreWhole' /\ WholeOrTruncated'
    <2>1. Cardinality(located') <= MaxTools
      BY <1>1 DEF IndInv, TypeOK
    <2> QED BY <1>1, <2>1, FetchedStays
  <1> QED BY <1>7, <1>8 DEF IndInv

LEMMA NextInvariant == ASSUME IndInv, [Next]_vars PROVE IndInv'
  <1>1. CASE UNCHANGED vars
    <2>1. UNCHANGED <<request, head, pushes, pc, audit, fetched, located, citations, archive>>
      BY <1>1 DEF vars, fetched
    <2>2. TypeOK' /\ ReadsAreInOrder' /\ DecisionsCoverReads'
          /\ PagesAreWhole' /\ WholeOrTruncated'
      <3>1. Cardinality(located') <= MaxTools
        BY <2>1 DEF IndInv, TypeOK
      <3> QED BY <2>1, <3>1, FetchedStays
    <2>3. ExcerptsAreOfArchive'
      BY <2>1, ExcerptsStay DEF IndInv
    <2> QED BY <2>2, <2>3 DEF IndInv
  <1>2. CASE Next
    BY <1>2, AuthorizeInvariant, ReadArchiveInvariant, ReadPullInvariant,
       ReadFilesInvariant, ReadCheckRunInvariant, ReadAnnotationsInvariant,
       ReadLogsInvariant, RequestFailsInvariant, PushInvariant, UseToolInvariant, CiteInvariant DEF Next
  <1> QED BY <1>1, <1>2

----------------------------------------------------------------------------
(* Theorems                                                                *)

(* Reads are decided before they are made, pages are whole, and excerpts   *)
(* are of the archive that was read: in every reachable state.             *)
THEOREM EvidenceInvariant == Spec => []IndInv
  <1>1. Init => IndInv
    BY InitInvariant
  <1>2. IndInv /\ [Next]_vars => IndInv'
    BY NextInvariant
  <1> QED BY <1>1, <1>2, PTL DEF Spec

(* No more than Maximum items are kept, and no more requests are made than *)
(* they need.                                                              *)
THEOREM EvidenceTypes == Spec => []TypeOK
  <1>1. IndInv => TypeOK
    BY DEF IndInv
  <1> QED BY <1>1, EvidenceInvariant, PTL

(* The record has the decision on every read the run has come to, in their *)
(* order and denials included; requests, evidence and tools there are of   *)
(* allowed reads only, and a run that ended on the way keeps none.         *)
THEOREM ReadsAreDecided == Spec => []DecisionsCoverReads
  <1>1. IndInv => DecisionsCoverReads
    BY DEF IndInv
  <1> QED BY <1>1, EvidenceInvariant, PTL

(* Evidence without a mark has every item, and with one the first Maximum, *)
(* as long as the branch has not moved.                                    *)
THEOREM EvidenceIsWhole == Spec => []WholeOrTruncated
  <1>1. IndInv => WholeOrTruncated
    BY DEF IndInv
  <1> QED BY <1>1, EvidenceInvariant, PTL

(* A citation that canonical_locator has accepted is found again when it   *)
(* is resolved, wherever the byte limit has cut the excerpt.               *)
THEOREM CitationsStand == Spec => []CitationsResolve
  <1>1. IndInv => CitationsResolve
    <2> SUFFICES ASSUME IndInv,
                        NEW c \in citations, c.text # <<>>,
                        c.place.end - c.place.start < MaxReadLines
                 PROVE  Resolves(archive, c.place, c.text)
      BY DEF CitationsResolve
    <2>1. PICK m \in Excerpts : c.place = Place(m) /\ c.text = m.text
      BY DEF IndInv, ExcerptsAreOfArchive
    <2>2. m.end - m.start < MaxReadLines
      BY <2>1 DEF Place
    <2>3. \A p \in DOMAIN archive : IsText(archive[p])
      BY DEF IndInv, ExcerptsAreOfArchive
    <2> QED BY <2>1, <2>2, <2>3, ExcerptsResolve
  <1> QED BY <1>1, EvidenceInvariant, PTL

(* A read from the first line that is not marked truncated has the whole   *)
(* file.                                                                   *)
THEOREM CutsAreTold == Spec => []ReadsSayWhenCut
  <1>1. IndInv => ReadsSayWhenCut
    <2> SUFFICES ASSUME IndInv PROVE ReadsSayWhenCut
      OBVIOUS
    <2>1. \A p \in DOMAIN archive : IsText(archive[p])
      BY DEF IndInv, ExcerptsAreOfArchive
    <2> QED BY <2>1, UnmarkedReadIsWhole DEF ReadsSayWhenCut
  <1> QED BY <1>1, EvidenceInvariant, PTL
=============================================================================
