---------------------------- MODULE PatchProofs ----------------------------
(***************************************************************************)
(* Proofs about PatchApply, for diffs, hunks and files of any size: the    *)
(* workspace that _apply_workspace_diff writes is the tree that            *)
(* apply_unified_diff posts, and hunks whose headers are right put into a  *)
(* file what the diff says, line for line.                                 *)
(***************************************************************************)
EXTENDS PatchApply, Induction, SequenceTheorems

----------------------------------------------------------------------------
(* Sequences                                                               *)

LEMMA Sequence ==
    ASSUME NEW s, IsSequence(s)
    PROVE  /\ s \in Seq(Range(s)) /\ Len(s) \in Nat /\ DOMAIN s = 1..Len(s)
           /\ \A i \in 1..Len(s) : s[i] \in Range(s)
  BY LenProperties DEF IsSequence, Range

LEMMA FunctionAsSequence ==
    ASSUME NEW n \in Nat, NEW S, NEW f \in [1..n -> S]
    PROVE  f \in Seq(S) /\ Len(f) = n
  <1>1. f \in Seq(S)
    BY SeqDef
  <1>2. 1..Len(f) = 1..n /\ Len(f) \in Nat
    BY <1>1, LenProperties
  <1> QED BY <1>1, <1>2

LEMMA WithoutElements ==
    ASSUME NEW S, NEW s \in Seq(S), Len(s) = 0
    PROVE  s = <<>>
  BY EmptySeq

----------------------------------------------------------------------------
(* Recursive functions                                                     *)

(* f takes n to the first n pieces, one behind the other.                 *)
Pieces(f, ss, k) ==
    f = [n \in 0..k |-> IF n = 0 THEN <<>>
                        ELSE f[n - 1] \o ss[n]]

LEMMA PiecesFunction == ASSUME NEW ss, NEW k \in Nat PROVE \E f : Pieces(f, ss, k)
  <1> DEFINE S == {n \in Nat : \E f : Pieces(f, ss, n)}
             Value(before, n) == IF n = 0 THEN <<>>
                                 ELSE before \o ss[n]
  <1>1. 0 \in S
    <2>1. Pieces([n \in 0..0 |-> <<>>], ss, 0)
      BY DEF Pieces
    <2> QED BY <2>1
  <1>2. ASSUME NEW n \in S \cap Nat PROVE n + 1 \in S
    <2>1. PICK f : Pieces(f, ss, n)
      BY <1>2
    <2> DEFINE g == [m \in 0..(n + 1) |-> IF m = n + 1 THEN Value(f[n], n + 1) ELSE f[m]]
    <2>2. ASSUME NEW m \in 0..(n + 1) PROVE g[m] = Value(g[m - 1], m)
      <3>1. CASE m = n + 1
        <4>1. m - 1 \in 0..(n + 1) /\ m - 1 = n /\ m - 1 # n + 1 /\ g[m - 1] = f[n]
          BY <3>1
        <4>2. g[m] = Value(f[n], n + 1)
          BY <3>1
        <4> QED BY <3>1, <4>1, <4>2
      <3>2. CASE m # n + 1 /\ m # 0
        <4>1. m \in 0..n /\ m - 1 \in 0..n /\ m - 1 # n + 1 /\ m - 1 \in 0..(n + 1)
          BY <3>2
        <4>2. f[m] = Value(f[m - 1], m)
          BY <2>1, <3>2, <4>1 DEF Pieces
        <4> QED BY <3>2, <4>1, <4>2
      <3>3. CASE m = 0
        BY <2>1, <3>3 DEF Pieces
      <3> QED BY <3>1, <3>2, <3>3
    <2>3. g = [m \in 0..(n + 1) |-> g[m]]
      OBVIOUS
    <2> HIDE DEF g
    <2>4. Pieces(g, ss, n + 1)
      BY <2>2, <2>3 DEF Pieces
    <2> QED BY <2>4
  <1> HIDE DEF S
  <1>3. Nat \subseteq S
    BY <1>1, <1>2, NatSetInduction
  <1> QED BY <1>3 DEF S

LEMMA Flattened ==
    ASSUME NEW S, NEW ss \in Seq(Seq(S))
    PROVE  \E f : /\ f[0] = <<>>
                  /\ \A n \in 1..Len(ss) : f[n] = f[n - 1] \o ss[n]
                  /\ \A n \in 0..Len(ss) : f[n] \in Seq(S)
                  /\ FlattenSeq(ss) = f[Len(ss)]
  <1> DEFINE k == Len(ss)
  <1>1. k \in Nat /\ \A i \in 1..k : ss[i] \in Seq(S)
    BY LenProperties
  <1>2. PICK f : Pieces(f, ss, k)
    BY <1>1, PiecesFunction
  <1> HIDE DEF k
  <1>3. f[0] = <<>>
    BY <1>1, <1>2 DEF Pieces
  <1>4. ASSUME NEW n \in 1..k PROVE f[n] = f[n - 1] \o ss[n]
    <2>1. n \in 0..k /\ n # 0
      BY <1>1
    <2> QED BY <1>2, <2>1 DEF Pieces
  <1>5. \A n \in 0..k : f[n] \in Seq(S)
    <2>1. f[0] \in Seq(S)
      BY <1>3
    <2>2. ASSUME NEW n \in 1..k, f[n - 1] \in Seq(S) PROVE f[n] \in Seq(S)
      BY <1>1, <1>4, <2>2, ConcatProperties
    <2> QED BY <1>1, <2>1, <2>2, IterationType
  <1>6. CASE k = 0
    <2>1. ss = <<>>
      BY <1>6, EmptySeq DEF k
    <2> QED BY <1>1, <1>3, <1>4, <1>5, <1>6, <2>1 DEF FlattenSeq, k
  <1>7. CASE k # 0
    <2> DEFINE IsFlatten(g) == g = [n \in 1..k |-> IF n = 1 THEN ss[n] ELSE g[n - 1] \o ss[n]]
               h == [n \in 1..k |-> f[n]]
               g == CHOOSE x : IsFlatten(x)
    <2>1. ASSUME NEW n \in 1..k PROVE h[n] = IF n = 1 THEN ss[n] ELSE h[n - 1] \o ss[n]
      <3>1. CASE n = 1
        <4>1. n - 1 = 0 /\ ss[n] \in Seq(S)
          BY <1>1, <3>1
        <4>2. <<>> \o ss[n] = ss[n]
          BY <4>1, ConcatEmptySeq
        <4> QED BY <1>3, <1>4, <3>1, <4>1, <4>2
      <3>2. CASE n # 1
        <4>1. n - 1 \in 1..k
          BY <1>1, <3>2
        <4> QED BY <1>4, <3>2, <4>1
      <3> QED BY <3>1, <3>2
    <2>2. h = [n \in 1..k |-> h[n]]
      OBVIOUS
    <2> HIDE DEF h
    <2>3. IsFlatten(h)
      BY <2>1, <2>2
    <2>4. IsFlatten(g)
      BY <2>3
    <2>5. FlattenSeq(ss) = g[k]
      BY <1>7 DEF FlattenSeq, k
    <2> HIDE DEF g
    <2>6. \A n \in 1..k : g[n] = IF n = 1 THEN ss[n] ELSE g[n - 1] \o ss[n]
      BY <2>4
    <2> HIDE DEF IsFlatten
    <2> DEFINE T == {n \in Nat : n \in 1..k => g[n] = f[n]}
    <2>7. 0 \in T
      OBVIOUS
    <2>8. ASSUME NEW n \in T \cap Nat PROVE n + 1 \in T
      <3> SUFFICES ASSUME n + 1 \in 1..k PROVE g[n + 1] = f[n + 1]
        OBVIOUS
      <3>1. (n + 1) - 1 = n
        OBVIOUS
      <3>2. f[n + 1] = f[(n + 1) - 1] \o ss[n + 1] /\ ss[n + 1] \in Seq(S)
        BY <1>1, <1>4, Zenon
      <3>3. CASE n = 0
        <4>1. n + 1 = 1
          BY <3>3
        <4>2. <<>> \o ss[n + 1] = ss[n + 1]
          BY <3>2, ConcatEmptySeq
        <4> QED BY <1>3, <2>6, <3>1, <3>2, <3>3, <4>1, <4>2
      <3>4. CASE n # 0
        <4>1. n \in 1..k /\ n + 1 # 1
          BY <1>1, <3>4
        <4>2. g[n] = f[n]
          BY <2>8, <4>1
        <4>3. g[n + 1] = g[n] \o ss[n + 1]
          BY <2>6, <3>1, <4>1
        <4> QED BY <3>1, <3>2, <4>2, <4>3
      <3> QED BY <3>3, <3>4
    <2> HIDE DEF T
    <2>9. k \in T
      BY <1>1, <2>7, <2>8, NatSetInduction
    <2>10. g[k] = f[k]
      BY <1>1, <1>7, <2>9 DEF T
    <2> QED BY <1>1, <1>3, <1>4, <1>5, <2>5, <2>10 DEF k
  <1> QED BY <1>6, <1>7

(* f takes n to the marked lines among the first n.                       *)
Marked(f, marks, marked, k) ==
    f = [n \in 0..k |-> IF n = 0 THEN <<>>
                        ELSE IF marked[n].mark \in marks THEN Append(f[n - 1], marked[n].line) ELSE f[n - 1]]

LEMMA MarkedFunction == ASSUME NEW marks, NEW marked, NEW k \in Nat PROVE \E f : Marked(f, marks, marked, k)
  <1> DEFINE S == {n \in Nat : \E f : Marked(f, marks, marked, n)}
             Value(before, n) == IF n = 0 THEN <<>>
                                 ELSE IF marked[n].mark \in marks THEN Append(before, marked[n].line) ELSE before
  <1>1. 0 \in S
    <2>1. Marked([n \in 0..0 |-> <<>>], marks, marked, 0)
      BY DEF Marked
    <2> QED BY <2>1
  <1>2. ASSUME NEW n \in S \cap Nat PROVE n + 1 \in S
    <2>1. PICK f : Marked(f, marks, marked, n)
      BY <1>2
    <2> DEFINE g == [m \in 0..(n + 1) |-> IF m = n + 1 THEN Value(f[n], n + 1) ELSE f[m]]
    <2>2. ASSUME NEW m \in 0..(n + 1) PROVE g[m] = Value(g[m - 1], m)
      <3>1. CASE m = n + 1
        <4>1. m - 1 \in 0..(n + 1) /\ m - 1 = n /\ m - 1 # n + 1 /\ g[m - 1] = f[n]
          BY <3>1
        <4>2. g[m] = Value(f[n], n + 1)
          BY <3>1
        <4> QED BY <3>1, <4>1, <4>2
      <3>2. CASE m # n + 1 /\ m # 0
        <4>1. m \in 0..n /\ m - 1 \in 0..n /\ m - 1 # n + 1 /\ m - 1 \in 0..(n + 1)
          BY <3>2
        <4>2. f[m] = Value(f[m - 1], m)
          BY <2>1, <3>2, <4>1 DEF Marked
        <4> QED BY <3>2, <4>1, <4>2
      <3>3. CASE m = 0
        BY <2>1, <3>3 DEF Marked
      <3> QED BY <3>1, <3>2, <3>3
    <2>3. g = [m \in 0..(n + 1) |-> g[m]]
      OBVIOUS
    <2> HIDE DEF g
    <2>4. Marked(g, marks, marked, n + 1)
      BY <2>2, <2>3 DEF Marked
    <2> QED BY <2>4
  <1> HIDE DEF S
  <1>3. Nat \subseteq S
    BY <1>1, <1>2, NatSetInduction
  <1> QED BY <1>3 DEF S

LEMMA MarkedSteps ==
    ASSUME NEW marks, NEW marked, Len(marked) \in Nat
    PROVE  \E f : /\ f[0] = <<>>
                  /\ \A n \in 1..Len(marked) :
                       f[n] = IF marked[n].mark \in marks THEN Append(f[n - 1], marked[n].line) ELSE f[n - 1]
                  /\ LinesMarked(marks, marked) = f[Len(marked)]
  <1> DEFINE f == CHOOSE g : Marked(g, marks, marked, Len(marked))
  <1>1. Marked(f, marks, marked, Len(marked))
    BY MarkedFunction
  <1>2. LinesMarked(marks, marked) = f[Len(marked)]
    BY DEF LinesMarked, Marked
  <1> HIDE DEF f
  <1>3. f[0] = <<>>
    BY <1>1 DEF Marked
  <1>4. ASSUME NEW n \in 1..Len(marked) PROVE f[n] = IF marked[n].mark \in marks THEN Append(f[n - 1], marked[n].line) ELSE f[n - 1]
    <2>1. n \in 0..Len(marked) /\ n # 0
      OBVIOUS
    <2> QED BY <1>1, <2>1 DEF Marked
  <1> QED BY <1>2, <1>3, <1>4

(* f takes n to what the first n hunks have made of the lines.            *)
Hunks(f, lines, hunks, k) ==
    f = [n \in 0..k |-> IF n = 0 THEN [ok |-> TRUE, cursor |-> 0, out |-> <<>>]
                        ELSE ApplyHunk(lines, f[n - 1], hunks[n])]

LEMMA HunksFunction == ASSUME NEW lines, NEW hunks, NEW k \in Nat PROVE \E f : Hunks(f, lines, hunks, k)
  <1> DEFINE S == {n \in Nat : \E f : Hunks(f, lines, hunks, n)}
             Value(before, n) == IF n = 0 THEN [ok |-> TRUE, cursor |-> 0, out |-> <<>>]
                                 ELSE ApplyHunk(lines, before, hunks[n])
  <1>1. 0 \in S
    <2>1. Hunks([n \in 0..0 |-> [ok |-> TRUE, cursor |-> 0, out |-> <<>>]], lines, hunks, 0)
      BY DEF Hunks
    <2> QED BY <2>1
  <1>2. ASSUME NEW n \in S \cap Nat PROVE n + 1 \in S
    <2>1. PICK f : Hunks(f, lines, hunks, n)
      BY <1>2
    <2> DEFINE g == [m \in 0..(n + 1) |-> IF m = n + 1 THEN Value(f[n], n + 1) ELSE f[m]]
    <2>2. ASSUME NEW m \in 0..(n + 1) PROVE g[m] = Value(g[m - 1], m)
      <3>1. CASE m = n + 1
        <4>1. m - 1 \in 0..(n + 1) /\ m - 1 = n /\ m - 1 # n + 1 /\ g[m - 1] = f[n]
          BY <3>1
        <4>2. g[m] = Value(f[n], n + 1)
          BY <3>1
        <4> QED BY <3>1, <4>1, <4>2
      <3>2. CASE m # n + 1 /\ m # 0
        <4>1. m \in 0..n /\ m - 1 \in 0..n /\ m - 1 # n + 1 /\ m - 1 \in 0..(n + 1)
          BY <3>2
        <4>2. f[m] = Value(f[m - 1], m)
          BY <2>1, <3>2, <4>1 DEF Hunks
        <4> QED BY <3>2, <4>1, <4>2
      <3>3. CASE m = 0
        BY <2>1, <3>3 DEF Hunks
      <3> QED BY <3>1, <3>2, <3>3
    <2>3. g = [m \in 0..(n + 1) |-> g[m]]
      OBVIOUS
    <2> HIDE DEF g
    <2>4. Hunks(g, lines, hunks, n + 1)
      BY <2>2, <2>3 DEF Hunks
    <2> QED BY <2>4
  <1> HIDE DEF S
  <1>3. Nat \subseteq S
    BY <1>1, <1>2, NatSetInduction
  <1> QED BY <1>3 DEF S

LEMMA HunksSteps ==
    ASSUME NEW lines, NEW hunks, Len(hunks) \in Nat
    PROVE  \E f : /\ f[0] = [ok |-> TRUE, cursor |-> 0, out |-> <<>>]
                  /\ \A n \in 1..Len(hunks) :
                       f[n] = ApplyHunk(lines, f[n - 1], hunks[n])
                  /\ ApplyHunks(lines, hunks) = f[Len(hunks)]
  <1> DEFINE f == CHOOSE g : Hunks(g, lines, hunks, Len(hunks))
  <1>1. Hunks(f, lines, hunks, Len(hunks))
    BY HunksFunction
  <1>2. ApplyHunks(lines, hunks) = f[Len(hunks)]
    BY DEF ApplyHunks, Hunks
  <1> HIDE DEF f
  <1>3. f[0] = [ok |-> TRUE, cursor |-> 0, out |-> <<>>]
    BY <1>1 DEF Hunks
  <1>4. ASSUME NEW n \in 1..Len(hunks) PROVE f[n] = ApplyHunk(lines, f[n - 1], hunks[n])
    <2>1. n \in 0..Len(hunks) /\ n # 0
      OBVIOUS
    <2> QED BY <1>1, <2>1 DEF Hunks
  <1> QED BY <1>2, <1>3, <1>4

(* f takes n to the workspace after the first n sections.                 *)
Sections(f, base, diff, k) ==
    f = [n \in 0..k |-> IF n = 0 THEN [ok |-> TRUE, tree |-> base]
                        ELSE WriteSection(base, f[n - 1], diff[n])]

LEMMA SectionsFunction == ASSUME NEW base, NEW diff, NEW k \in Nat PROVE \E f : Sections(f, base, diff, k)
  <1> DEFINE S == {n \in Nat : \E f : Sections(f, base, diff, n)}
             Value(before, n) == IF n = 0 THEN [ok |-> TRUE, tree |-> base]
                                 ELSE WriteSection(base, before, diff[n])
  <1>1. 0 \in S
    <2>1. Sections([n \in 0..0 |-> [ok |-> TRUE, tree |-> base]], base, diff, 0)
      BY DEF Sections
    <2> QED BY <2>1
  <1>2. ASSUME NEW n \in S \cap Nat PROVE n + 1 \in S
    <2>1. PICK f : Sections(f, base, diff, n)
      BY <1>2
    <2> DEFINE g == [m \in 0..(n + 1) |-> IF m = n + 1 THEN Value(f[n], n + 1) ELSE f[m]]
    <2>2. ASSUME NEW m \in 0..(n + 1) PROVE g[m] = Value(g[m - 1], m)
      <3>1. CASE m = n + 1
        <4>1. m - 1 \in 0..(n + 1) /\ m - 1 = n /\ m - 1 # n + 1 /\ g[m - 1] = f[n]
          BY <3>1
        <4>2. g[m] = Value(f[n], n + 1)
          BY <3>1
        <4> QED BY <3>1, <4>1, <4>2
      <3>2. CASE m # n + 1 /\ m # 0
        <4>1. m \in 0..n /\ m - 1 \in 0..n /\ m - 1 # n + 1 /\ m - 1 \in 0..(n + 1)
          BY <3>2
        <4>2. f[m] = Value(f[m - 1], m)
          BY <2>1, <3>2, <4>1 DEF Sections
        <4> QED BY <3>2, <4>1, <4>2
      <3>3. CASE m = 0
        BY <2>1, <3>3 DEF Sections
      <3> QED BY <3>1, <3>2, <3>3
    <2>3. g = [m \in 0..(n + 1) |-> g[m]]
      OBVIOUS
    <2> HIDE DEF g
    <2>4. Sections(g, base, diff, n + 1)
      BY <2>2, <2>3 DEF Sections
    <2> QED BY <2>4
  <1> HIDE DEF S
  <1>3. Nat \subseteq S
    BY <1>1, <1>2, NatSetInduction
  <1> QED BY <1>3 DEF S

LEMMA SectionsSteps ==
    ASSUME NEW base, NEW diff, Len(diff) \in Nat
    PROVE  \E f : /\ f[0] = [ok |-> TRUE, tree |-> base]
                  /\ \A n \in 1..Len(diff) :
                       f[n] = WriteSection(base, f[n - 1], diff[n])
                  /\ WriteWorkspace(base, diff) = f[Len(diff)]
  <1> DEFINE f == CHOOSE g : Sections(g, base, diff, Len(diff))
  <1>1. Sections(f, base, diff, Len(diff))
    BY SectionsFunction
  <1>2. WriteWorkspace(base, diff) = f[Len(diff)]
    BY DEF WriteWorkspace, Sections
  <1> HIDE DEF f
  <1>3. f[0] = [ok |-> TRUE, tree |-> base]
    BY <1>1 DEF Sections
  <1>4. ASSUME NEW n \in 1..Len(diff) PROVE f[n] = WriteSection(base, f[n - 1], diff[n])
    <2>1. n \in 0..Len(diff) /\ n # 0
      OBVIOUS
    <2> QED BY <1>1, <2>1 DEF Sections
  <1> QED BY <1>2, <1>3, <1>4

(* f takes n to the tree with the first n entries.                        *)
Posted(f, base, entries, k) ==
    f = [n \in 0..k |-> IF n = 0 THEN base
                        ELSE PostEntry(f[n - 1], entries[n])]

LEMMA PostedFunction == ASSUME NEW base, NEW entries, NEW k \in Nat PROVE \E f : Posted(f, base, entries, k)
  <1> DEFINE S == {n \in Nat : \E f : Posted(f, base, entries, n)}
             Value(before, n) == IF n = 0 THEN base
                                 ELSE PostEntry(before, entries[n])
  <1>1. 0 \in S
    <2>1. Posted([n \in 0..0 |-> base], base, entries, 0)
      BY DEF Posted
    <2> QED BY <2>1
  <1>2. ASSUME NEW n \in S \cap Nat PROVE n + 1 \in S
    <2>1. PICK f : Posted(f, base, entries, n)
      BY <1>2
    <2> DEFINE g == [m \in 0..(n + 1) |-> IF m = n + 1 THEN Value(f[n], n + 1) ELSE f[m]]
    <2>2. ASSUME NEW m \in 0..(n + 1) PROVE g[m] = Value(g[m - 1], m)
      <3>1. CASE m = n + 1
        <4>1. m - 1 \in 0..(n + 1) /\ m - 1 = n /\ m - 1 # n + 1 /\ g[m - 1] = f[n]
          BY <3>1
        <4>2. g[m] = Value(f[n], n + 1)
          BY <3>1
        <4> QED BY <3>1, <4>1, <4>2
      <3>2. CASE m # n + 1 /\ m # 0
        <4>1. m \in 0..n /\ m - 1 \in 0..n /\ m - 1 # n + 1 /\ m - 1 \in 0..(n + 1)
          BY <3>2
        <4>2. f[m] = Value(f[m - 1], m)
          BY <2>1, <3>2, <4>1 DEF Posted
        <4> QED BY <3>2, <4>1, <4>2
      <3>3. CASE m = 0
        BY <2>1, <3>3 DEF Posted
      <3> QED BY <3>1, <3>2, <3>3
    <2>3. g = [m \in 0..(n + 1) |-> g[m]]
      OBVIOUS
    <2> HIDE DEF g
    <2>4. Posted(g, base, entries, n + 1)
      BY <2>2, <2>3 DEF Posted
    <2> QED BY <2>4
  <1> HIDE DEF S
  <1>3. Nat \subseteq S
    BY <1>1, <1>2, NatSetInduction
  <1> QED BY <1>3 DEF S

LEMMA PostedSteps ==
    ASSUME NEW base, NEW entries, Len(entries) \in Nat
    PROVE  \E f : /\ f[0] = base
                  /\ \A n \in 1..Len(entries) :
                       f[n] = PostEntry(f[n - 1], entries[n])
                  /\ PostTree(base, entries) = f[Len(entries)]
  <1> DEFINE f == CHOOSE g : Posted(g, base, entries, Len(entries))
  <1>1. Posted(f, base, entries, Len(entries))
    BY PostedFunction
  <1>2. PostTree(base, entries) = f[Len(entries)]
    BY DEF PostTree, Posted
  <1> HIDE DEF f
  <1>3. f[0] = base
    BY <1>1 DEF Posted
  <1>4. ASSUME NEW n \in 1..Len(entries) PROVE f[n] = PostEntry(f[n - 1], entries[n])
    <2>1. n \in 0..Len(entries) /\ n # 0
      OBVIOUS
    <2> QED BY <1>1, <2>1 DEF Posted
  <1> QED BY <1>2, <1>3, <1>4

----------------------------------------------------------------------------
(* What is written is what is pushed                                       *)

LEMMA PostNothing == ASSUME NEW base PROVE PostTree(base, <<>>) = base
  <1>1. Len(<<>>) = 0
    OBVIOUS
  <1> QED BY <1>1, PostedSteps

(* An entry behind the others is posted last.                              *)
LEMMA PostAppend ==
    ASSUME NEW S, NEW s \in Seq(S), NEW e \in S, NEW base
    PROVE  PostTree(base, Append(s, e)) = PostEntry(PostTree(base, s), e)
  <1> DEFINE more == Append(s, e)
             k == Len(s)
  <1>1. /\ k \in Nat /\ Len(more) = k + 1
        /\ \A i \in 1..k : more[i] = s[i]
        /\ more[k + 1] = e
    BY LenProperties, AppendProperties
  <1>2. PICK f : /\ f[0] = base
                 /\ \A n \in 1..k : f[n] = PostEntry(f[n - 1], s[n])
                 /\ PostTree(base, s) = f[k]
    BY <1>1, PostedSteps
  <1> HIDE DEF k, more
  <1>3. PICK g : /\ g[0] = base
                 /\ \A n \in 1..(k + 1) : g[n] = PostEntry(g[n - 1], more[n])
                 /\ PostTree(base, more) = g[k + 1]
    <2>1. Len(more) \in Nat
      BY <1>1
    <2>2. \E g : /\ g[0] = base
                 /\ \A n \in 1..Len(more) : g[n] = PostEntry(g[n - 1], more[n])
                 /\ PostTree(base, more) = g[Len(more)]
      BY <2>1, PostedSteps
    <2>3. Len(more) = k + 1
      BY <1>1
    <2> QED BY <2>2, <2>3
  <1> DEFINE T == {n \in Nat : n <= k => g[n] = f[n]}
  <1>4. 0 \in T
    BY <1>2, <1>3
  <1>5. ASSUME NEW n \in T \cap Nat PROVE n + 1 \in T
    <2> SUFFICES ASSUME n + 1 <= k PROVE g[n + 1] = f[n + 1]
      OBVIOUS
    <2>1. n + 1 \in 1..k /\ n + 1 \in 1..(k + 1) /\ (n + 1) - 1 = n /\ g[n] = f[n]
      BY <1>1, <1>5
    <2>2. f[n + 1] = PostEntry(f[n], s[n + 1])
      BY <1>2, <2>1
    <2>3. g[n + 1] = PostEntry(g[n], more[n + 1])
      BY <1>3, <2>1
    <2> QED BY <1>1, <2>1, <2>2, <2>3
  <1> HIDE DEF T
  <1>6. g[k] = f[k]
    <2>1. k \in T
      BY <1>1, <1>4, <1>5, NatSetInduction
    <2> QED BY <1>1, <2>1 DEF T
  <1>7. k + 1 \in 1..(k + 1) /\ (k + 1) - 1 = k
    BY <1>1
  <1>8. g[k + 1] = PostEntry(g[k], more[k + 1])
    BY <1>3, <1>7
  <1> QED BY <1>1, <1>2, <1>3, <1>6, <1>8 DEF more

(* The entries of one section do to a tree what WriteSection does, when it *)
(* does not raise.                                                         *)
Removal(section)    == [path |-> section.old, removed |-> TRUE]
Blob(base, section) == [path |-> section.new, removed |-> FALSE, text |-> Applied(base, section)]

LEMMA EntriesOfSection ==
    ASSUME NEW S, NEW base, NEW section, Removal(section) \in S, Blob(base, section) \in S
    PROVE  LET a == IF Renames(section) THEN <<Removal(section)>> ELSE <<>>
               b == IF section.new = DevNull THEN <<>> ELSE <<Blob(base, section)>>
           IN  /\ a \in Seq(S) /\ b \in Seq(S) /\ a \o b \in Seq(S)
               /\ Entries(base, section) = a \o b
  <1> DEFINE a == IF Renames(section) THEN <<Removal(section)>> ELSE <<>>
             b == IF section.new = DevNull THEN <<>> ELSE <<Blob(base, section)>>
  <1>1. Entries(base, section) = a \o b
    BY DEF Entries, Removal, Blob
  <1>2. a \in Seq(S) /\ b \in Seq(S)
    OBVIOUS
  <1> HIDE DEF a, b
  <1>3. a \o b \in Seq(S)
    BY <1>2, ConcatProperties
  <1> QED BY <1>1, <1>2, <1>3 DEF a, b

LEMMA SectionIsPosted ==
    ASSUME NEW S, NEW posted \in Seq(S), NEW base, NEW done, NEW section,
           Removal(section) \in S, Blob(base, section) \in S,
           done.ok, WriteSection(base, done, section).ok,
           PostTree(base, posted) = done.tree
    PROVE  PostTree(base, posted \o Entries(base, section))
             = WriteSection(base, done, section).tree
  <1> DEFINE a == IF Renames(section) THEN <<Removal(section)>> ELSE <<>>
             b == IF section.new = DevNull THEN <<>> ELSE <<Blob(base, section)>>
             left == IF Renames(section) THEN Without(done.tree, section.old) ELSE done.tree
  <1>1. WriteSection(base, done, section).tree
          = IF section.new = DevNull THEN left
            ELSE Put(left, section.new, Applied(base, section))
    BY DEF WriteSection
  <1>2. /\ \A tree : PostEntry(tree, Removal(section)) = Without(tree, section.old)
        /\ \A tree : PostEntry(tree, Blob(base, section))
                       = Put(tree, section.new, Applied(base, section))
    BY DEF PostEntry, Removal, Blob
  <1>3. a \in Seq(S) /\ b \in Seq(S) /\ Entries(base, section) = a \o b
    BY EntriesOfSection
  <1>4. posted \o a \in Seq(S) /\ PostTree(base, posted \o a) = left
    <2>1. CASE Renames(section)
      <3>1. posted \o a = Append(posted, Removal(section)) /\ posted \o a \in Seq(S)
        BY <2>1, AppendIsConcat, AppendProperties
      <3>2. PostTree(base, Append(posted, Removal(section)))
              = PostEntry(PostTree(base, posted), Removal(section))
        BY PostAppend
      <3> QED BY <1>2, <2>1, <3>1, <3>2
    <2>2. CASE ~Renames(section)
      <3>1. posted \o a = posted
        BY <2>2, ConcatEmptySeq
      <3> QED BY <2>2, <3>1
    <2> QED BY <2>1, <2>2
  <1> DEFINE half == posted \o a
  <1> HIDE DEF half, a, b
  <1>5. posted \o Entries(base, section) = half \o b
    BY <1>3, ConcatAssociative DEF half
  <1> USE DEF b
  <1>6. half \in Seq(S) /\ PostTree(base, half) = left
    BY <1>4 DEF half
  <1>7. PostTree(base, half \o b) = WriteSection(base, done, section).tree
    <2>1. CASE section.new # DevNull
      <3>1. half \o b = Append(half, Blob(base, section))
        BY <1>6, <2>1, AppendIsConcat
      <3>2. PostTree(base, Append(half, Blob(base, section)))
              = PostEntry(PostTree(base, half), Blob(base, section))
        BY <1>6, PostAppend
      <3> QED BY <1>1, <1>2, <1>6, <2>1, <3>1, <3>2
    <2>2. CASE section.new = DevNull
      <3>1. half \o b = half
        BY <1>6, <2>2, ConcatEmptySeq
      <3> QED BY <1>1, <1>6, <2>2, <3>1
    <2> QED BY <2>1, <2>2
  <1> QED BY <1>5, <1>7 DEF half

(* When no section raises in the workspace, the workspace is the tree that *)
(* the same diff makes on GitHub.                                          *)
THEOREM WorkspaceIsPushed ==
    ASSUME NEW base, NEW diff, IsSequence(diff), WriteWorkspace(base, diff).ok
    PROVE  WriteWorkspace(base, diff).tree = PushedTree(base, diff)
  <1> DEFINE k == Len(diff)
             S == {Removal(diff[i]) : i \in 1..k} \cup {Blob(base, diff[i]) : i \in 1..k}
             ss == [i \in DOMAIN diff |-> Entries(base, diff[i])]
  <1>1. k \in Nat /\ DOMAIN diff = 1..k
    BY Sequence
  <1>2. \A i \in 1..k : Entries(base, diff[i]) \in Seq(S)
    <2> SUFFICES ASSUME NEW i \in 1..k PROVE Entries(base, diff[i]) \in Seq(S)
      OBVIOUS
    <2>1. Removal(diff[i]) \in S /\ Blob(base, diff[i]) \in S
      OBVIOUS
    <2> HIDE DEF S
    <2> QED BY <2>1, EntriesOfSection
  <1>2a. \A i \in 1..k : Removal(diff[i]) \in S /\ Blob(base, diff[i]) \in S
    OBVIOUS
  <1> HIDE DEF S
  <1>3. ss \in Seq(Seq(S)) /\ Len(ss) = k /\ \A i \in 1..k : ss[i] = Entries(base, diff[i])
    <2>1. ss \in [1..k -> Seq(S)]
      BY <1>1, <1>2
    <2> QED BY <1>1, <2>1, FunctionAsSequence
  <1>4. PushedTree(base, diff) = PostTree(base, FlattenSeq(ss))
    BY DEF PushedTree
  <1> HIDE DEF ss, k
  <1>5. PICK e : /\ e[0] = <<>>
                 /\ \A n \in 1..k : e[n] = e[n - 1] \o ss[n]
                 /\ \A n \in 0..k : e[n] \in Seq(S)
                 /\ FlattenSeq(ss) = e[k]
    BY <1>3, Flattened
  <1>6. PICK w : /\ w[0] = [ok |-> TRUE, tree |-> base]
                 /\ \A n \in 1..k : w[n] = WriteSection(base, w[n - 1], diff[n])
                 /\ WriteWorkspace(base, diff) = w[k]
    BY <1>1, SectionsSteps DEF k
  <1> DEFINE T == {n \in Nat : n <= k /\ w[n].ok => PostTree(base, e[n]) = w[n].tree}
  <1>7. 0 \in T
    BY <1>5, <1>6, PostNothing
  <1>8. ASSUME NEW n \in T \cap Nat PROVE n + 1 \in T
    <2> SUFFICES ASSUME n + 1 <= k, w[n + 1].ok PROVE PostTree(base, e[n + 1]) = w[n + 1].tree
      OBVIOUS
    <2>1. n + 1 \in 1..k /\ (n + 1) - 1 = n /\ n \in 0..k
      BY <1>1, <1>8
    <2>2. w[n + 1] = WriteSection(base, w[n], diff[n + 1])
      BY <1>6, <2>1
    <2>3. e[n + 1] = e[n] \o Entries(base, diff[n + 1])
      BY <1>3, <1>5, <2>1
    <2>4. w[n].ok
      BY <2>2 DEF WriteSection
    <2>5. PostTree(base, e[n]) = w[n].tree
      BY <1>8, <2>1, <2>4
    <2> QED BY <1>2a, <1>5, <2>1, <2>2, <2>3, <2>4, <2>5, SectionIsPosted
  <1> HIDE DEF T
  <1>9. k \in T
    BY <1>1, <1>7, <1>8, NatSetInduction
  <1> QED BY <1>1, <1>4, <1>5, <1>6, <1>9 DEF T

(* A section that reads the same file of two trees is applied alike, and   *)
(* writes alike where the trees under its hand agree.                      *)
LEMMA SectionAgrees ==
    ASSUME NEW files, NEW base, NEW section, NEW done, NEW other,
           SectionApplies(files, section), Agree(files, base, section.old),
           done.ok, other.ok, Agree(done.tree, other.tree, section.old),
           WriteSection(files, done, section).ok
    PROVE  /\ SectionApplies(base, section)
           /\ WriteSection(base, other, section).ok
           /\ \A p : Agree(done.tree, other.tree, p) \/ p \in TouchedBy(section) =>
                Agree(WriteSection(files, done, section).tree,
                      WriteSection(base, other, section).tree, p)
  <1>1. /\ section.old \in DOMAIN base \cup {DevNull}
        /\ Original(files, section) = Original(base, section)
    BY DEF SectionApplies, Original, Agree
  <1>2. SectionApplies(base, section) /\ Applied(files, section) = Applied(base, section)
    BY <1>1 DEF SectionApplies, Applied
  <1> DEFINE text == Applied(base, section)
             left(tree) == IF Renames(section) THEN Without(tree, section.old) ELSE tree
             written(tree) == IF section.new = DevNull THEN left(tree)
                              ELSE Put(left(tree), section.new, text)
  <1>3. Renames(section) => section.old \in DOMAIN done.tree /\ section.old \in DOMAIN other.tree
    BY DEF WriteSection, Agree
  <1>4. /\ WriteSection(files, done, section).tree = written(done.tree)
        /\ WriteSection(base, other, section).tree = written(other.tree)
        /\ WriteSection(base, other, section).ok
    BY <1>2, <1>3 DEF WriteSection
  <1>5. ASSUME NEW p, Agree(done.tree, other.tree, p) \/ p \in TouchedBy(section)
        PROVE  Agree(written(done.tree), written(other.tree), p)
    <2>1. ASSUME NEW tree
          PROVE  /\ DOMAIN left(tree) = DOMAIN tree \ {q \in {section.old} : Renames(section)}
                 /\ \A q \in DOMAIN left(tree) : left(tree)[q] = tree[q]
      BY DEF Without, Restrict
    <2>2. ASSUME NEW tree
          PROVE  /\ section.new # DevNull =>
                      /\ DOMAIN written(tree) = DOMAIN left(tree) \cup {section.new}
                      /\ written(tree)[section.new] = text
                 /\ section.new = DevNull => DOMAIN written(tree) = DOMAIN left(tree)
                 /\ \A q \in DOMAIN left(tree) :
                      q # section.new \/ section.new = DevNull => written(tree)[q] = left(tree)[q]
      BY DEF Put
    <2> HIDE DEF left, written, text
    <2>3. CASE p = section.new /\ section.new # DevNull
      BY <2>2, <2>3 DEF Agree
    <2>4. CASE ~(p = section.new /\ section.new # DevNull)
      <3>1. \A tree : /\ p \in DOMAIN written(tree) <=> p \in DOMAIN left(tree)
                      /\ p \in DOMAIN left(tree) => written(tree)[p] = left(tree)[p]
        BY <2>2, <2>4
      <3>2. CASE Renames(section) /\ p = section.old
        <4>1. \A tree : p \notin DOMAIN left(tree)
          BY <2>1, <3>2
        <4> QED BY <3>1, <4>1 DEF Agree
      <3>3. CASE ~(Renames(section) /\ p = section.old)
        <4>1. \A tree : /\ p \in DOMAIN left(tree) <=> p \in DOMAIN tree
                        /\ p \in DOMAIN tree => left(tree)[p] = tree[p]
          BY <2>1, <3>3
        <4>2. Agree(done.tree, other.tree, p)
          BY <1>5, <2>4, <3>3 DEF TouchedBy, Renames
        <4> QED BY <3>1, <4>1, <4>2 DEF Agree
      <3> QED BY <3>2, <3>3
    <2> QED BY <2>3, <2>4
  <1> QED BY <1>2, <1>4, <1>5

(* A diff that was written onto files can be written onto a base that has  *)
(* the same files where the diff reads them, and the outcomes agree at     *)
(* every path that the diff touches and wherever the two agreed before.    *)
THEOREM WritesAgree ==
    ASSUME NEW files, NEW base, NEW diff, IsSequence(diff), Applies(files, diff),
           WriteWorkspace(files, diff).ok,
           \A i \in DOMAIN diff : Agree(files, base, diff[i].old)
    PROVE  /\ Applies(base, diff) /\ WriteWorkspace(base, diff).ok
           /\ \A p : Agree(files, base, p) \/ p \in Touched(diff) =>
                Agree(WriteWorkspace(files, diff).tree, WriteWorkspace(base, diff).tree, p)
  <1> DEFINE k == Len(diff)
             SoFar(n) == UNION {TouchedBy(diff[i]) : i \in 1..n}
  <1>1. k \in Nat /\ DOMAIN diff = 1..k
    BY Sequence
  <1>2. PICK w : /\ w[0] = [ok |-> TRUE, tree |-> files]
                 /\ \A n \in 1..k : w[n] = WriteSection(files, w[n - 1], diff[n])
                 /\ WriteWorkspace(files, diff) = w[k]
    BY <1>1, SectionsSteps
  <1>3. PICK v : /\ v[0] = [ok |-> TRUE, tree |-> base]
                 /\ \A n \in 1..k : v[n] = WriteSection(base, v[n - 1], diff[n])
                 /\ WriteWorkspace(base, diff) = v[k]
    BY <1>1, SectionsSteps
  <1> HIDE DEF k
  <1> DEFINE Alike(n) == \A p : Agree(files, base, p) \/ p \in SoFar(n) => Agree(w[n].tree, v[n].tree, p)
             T == {n \in Nat : n <= k /\ w[n].ok =>
                    /\ v[n].ok /\ Alike(n)
                    /\ \A i \in 1..n : SectionApplies(base, diff[i])}
  <1>4. 0 \in T
    <2>1. w[0].tree = files /\ v[0].ok /\ v[0].tree = base
      BY <1>2, <1>3
    <2>2. SoFar(0) = {} /\ 1..0 = {}
      OBVIOUS
    <2>3. Alike(0) /\ \A i \in 1..0 : SectionApplies(base, diff[i])
      BY <2>1, <2>2
    <2> HIDE DEF Alike
    <2> QED BY <2>1, <2>3
  <1>5. ASSUME NEW n \in T \cap Nat PROVE n + 1 \in T
    <2> HIDE DEF Alike
    <2> SUFFICES ASSUME n + 1 <= k, w[n + 1].ok
                 PROVE  /\ v[n + 1].ok /\ Alike(n + 1)
                        /\ \A i \in 1..(n + 1) : SectionApplies(base, diff[i])
      OBVIOUS
    <2>1. n + 1 \in 1..k /\ (n + 1) - 1 = n /\ n <= k /\ n + 1 \in DOMAIN diff
      BY <1>1, <1>5
    <2> DEFINE section == diff[n + 1]
    <2>2. w[n + 1] = WriteSection(files, w[n], section) /\ v[n + 1] = WriteSection(base, v[n], section)
      BY <1>2, <1>3, <2>1
    <2>3. w[n].ok
      BY <2>2 DEF WriteSection
    <2>4. v[n].ok /\ Alike(n) /\ \A i \in 1..n : SectionApplies(base, diff[i])
      BY <1>5, <2>1, <2>3
    <2>5. SectionApplies(files, section) /\ Agree(files, base, section.old)
      BY <2>1 DEF Applies
    <2> HIDE DEF section, T
    <2>6. Agree(w[n].tree, v[n].tree, section.old)
      BY <2>4, <2>5 DEF Alike
    <2>7. /\ SectionApplies(base, section)
          /\ WriteSection(base, v[n], section).ok
          /\ \A p : Agree(w[n].tree, v[n].tree, p) \/ p \in TouchedBy(section) =>
               Agree(WriteSection(files, w[n], section).tree,
                     WriteSection(base, v[n], section).tree, p)
      BY <2>2, <2>3, <2>4, <2>5, <2>6, SectionAgrees
    <2>8. 1..(n + 1) = 1..n \cup {n + 1}
      BY <1>5
    <2>9. \A p : p \in SoFar(n + 1) => p \in SoFar(n) \/ p \in TouchedBy(section)
      BY <2>8 DEF section
    <2> HIDE DEF SoFar
    <2>10. Alike(n + 1)
      BY <2>2, <2>4, <2>7, <2>9 DEF Alike
    <2>11. \A i \in 1..(n + 1) : SectionApplies(base, diff[i])
      BY <2>4, <2>7, <2>8 DEF section
    <2> QED BY <2>2, <2>7, <2>10, <2>11
  <1> HIDE DEF T
  <1>6. k \in T
    BY <1>1, <1>4, <1>5, NatSetInduction
  <1>7. v[k].ok /\ Alike(k) /\ \A i \in 1..k : SectionApplies(base, diff[i])
    <2>1. k <= k /\ w[k].ok
      BY <1>1, <1>2
    <2> QED BY <1>6, <2>1 DEF T
  <1>8. Applies(base, diff)
    BY <1>1, <1>7 DEF Applies, k
  <1>9. Touched(diff) = SoFar(k)
    BY <1>1 DEF Touched, k
  <1> QED BY <1>2, <1>3, <1>7, <1>8, <1>9

----------------------------------------------------------------------------
(* The body of a hunk whose counts are right                               *)

LEMMA Increasing ==
    ASSUME NEW k \in Nat, NEW f, \A n \in 0..k : f[n] \in Int,
           \A n \in 1..k : f[n - 1] < f[n]
    PROVE  \A m, n \in 0..k : m < n => f[m] < f[n]
  <1> DEFINE S == {n \in Nat : n <= k => \A m \in 0..k : m < n => f[m] < f[n]}
  <1>1. 0 \in S
    OBVIOUS
  <1>2. ASSUME NEW n \in S \cap Nat PROVE n + 1 \in S
    <2> SUFFICES ASSUME n + 1 <= k, NEW m \in 0..k, m < n + 1 PROVE f[m] < f[n + 1]
      OBVIOUS
    <2>1. n + 1 \in 1..k /\ n + 1 \in 0..k /\ n \in 0..k /\ (n + 1) - 1 = n
      BY <1>2
    <2>2. f[n] < f[n + 1] /\ f[n] \in Int /\ f[n + 1] \in Int /\ f[m] \in Int
      BY <2>1
    <2>3. m = n \/ f[m] < f[n]
      BY <1>2, <2>1
    <2> QED BY <2>2, <2>3
  <1> HIDE DEF S
  <1>3. Nat \subseteq S
    BY <1>1, <1>2, NatSetInduction
  <1> QED BY <1>3 DEF S

(* A line more is kept or left, by its mark.                               *)
LEMMA MarkedStep ==
    ASSUME NEW S, NEW marked \in Seq(S), NEW marks, NEW n \in 1..Len(marked)
    PROVE  LET before == LinesMarked(marks, SubSeq(marked, 1, n - 1)) IN
           LinesMarked(marks, SubSeq(marked, 1, n))
             = IF marked[n].mark \in marks THEN Append(before, marked[n].line) ELSE before
  <1> DEFINE s == SubSeq(marked, 1, n - 1)
             t == SubSeq(marked, 1, n)
  <1>1. Len(marked) \in Nat /\ n \in Nat /\ n - 1 \in Nat
    BY LenProperties
  <1>2. /\ Len(s) = n - 1 /\ \A i \in 1..(n - 1) : s[i] = marked[i]
        /\ Len(t) = n /\ \A i \in 1..n : t[i] = marked[i]
    <2>1. \A i \in 1..n : marked[i] \in S
      BY <1>1, LenProperties
    <2>2. \A i \in 1..(n - 1) : marked[i] \in S
      BY <1>1, <2>1
    <2>3. Len(t) = n /\ \A i \in 1..n : t[i] = marked[i]
      BY <1>1, <2>1, SubSeqProperties
    <2>4. Len(s) = n - 1 /\ \A i \in 1..(n - 1) : s[i] = marked[i]
      BY <1>1, <2>2, SubSeqProperties
    <2> QED BY <2>3, <2>4
  <1> HIDE DEF s, t
  <1>3. PICK f : /\ f[0] = <<>>
                 /\ \A j \in 1..Len(s) :
                      f[j] = IF s[j].mark \in marks THEN Append(f[j - 1], s[j].line)
                             ELSE f[j - 1]
                 /\ LinesMarked(marks, s) = f[Len(s)]
    BY <1>1, <1>2, MarkedSteps
  <1>4. PICK g : /\ g[0] = <<>>
                 /\ \A j \in 1..Len(t) :
                      g[j] = IF t[j].mark \in marks THEN Append(g[j - 1], t[j].line)
                             ELSE g[j - 1]
                 /\ LinesMarked(marks, t) = g[Len(t)]
    BY <1>1, <1>2, MarkedSteps
  <1> DEFINE T == {j \in Nat : j <= n - 1 => f[j] = g[j]}
  <1>5. 0 \in T
    BY <1>3, <1>4
  <1>6. ASSUME NEW j \in T \cap Nat PROVE j + 1 \in T
    <2> SUFFICES ASSUME j + 1 <= n - 1 PROVE f[j + 1] = g[j + 1]
      OBVIOUS
    <2>1. /\ j + 1 \in 1..(n - 1) /\ j + 1 \in 1..n /\ (j + 1) - 1 = j /\ f[j] = g[j]
          /\ j + 1 \in 1..Len(s) /\ j + 1 \in 1..Len(t)
      BY <1>1, <1>2, <1>6
    <2>2. f[j + 1] = IF s[j + 1].mark \in marks THEN Append(f[j], s[j + 1].line) ELSE f[j]
      BY <1>3, <2>1
    <2>3. g[j + 1] = IF t[j + 1].mark \in marks THEN Append(g[j], t[j + 1].line) ELSE g[j]
      BY <1>4, <2>1
    <2>4. s[j + 1] = t[j + 1]
      BY <1>2, <2>1
    <2> QED BY <2>1, <2>2, <2>3, <2>4
  <1> HIDE DEF T
  <1>7. n - 1 \in T
    BY <1>1, <1>5, <1>6, NatSetInduction
  <1>8. f[n - 1] = g[n - 1]
    BY <1>1, <1>7 DEF T
  <1>9. n \in 1..Len(t) /\ t[n] = marked[n]
    BY <1>1, <1>2
  <1>10. g[n] = IF t[n].mark \in marks THEN Append(g[n - 1], t[n].line) ELSE g[n - 1]
    BY <1>4, <1>9
  <1>11. LinesMarked(marks, t) = g[n] /\ LinesMarked(marks, s) = f[n - 1]
    BY <1>2, <1>3, <1>4
  <1> QED BY <1>8, <1>9, <1>10, <1>11 DEF s, t

LEMMA MarkedNone == ASSUME NEW marks, NEW s PROVE LinesMarked(marks, SubSeq(s, 1, 0)) = <<>>
  <1> DEFINE none == SubSeq(s, 1, 0)
  <1>1. none = <<>>
    BY SubSeqEmpty
  <1>2. Len(none) = 0
    BY <1>1
  <1> HIDE DEF none
  <1>3. Len(none) \in Nat
    BY <1>2
  <1>4. PICK f : f[0] = <<>> /\ LinesMarked(marks, none) = f[Len(none)]
    BY <1>3, MarkedSteps
  <1> QED BY <1>2, <1>4 DEF none

LEMMA MarkedAreLines ==
    ASSUME NEW S, NEW marked \in Seq(S), NEW marks, NEW L,
           \A i \in 1..Len(marked) : marked[i].line \in L
    PROVE  \A n \in 0..Len(marked) : LinesMarked(marks, SubSeq(marked, 1, n)) \in Seq(L)
  <1> DEFINE f == [n \in 0..Len(marked) |-> LinesMarked(marks, SubSeq(marked, 1, n))]
  <1>1. Len(marked) \in Nat
    BY LenProperties
  <1>2. f[0] \in Seq(L)
    <2>1. 0 \in 0..Len(marked) /\ f[0] = LinesMarked(marks, SubSeq(marked, 1, 0))
      BY <1>1
    <2>2. f[0] = <<>>
      BY <2>1, MarkedNone
    <2> HIDE DEF f
    <2> QED BY <2>2
  <1>3. ASSUME NEW n \in 1..Len(marked), f[n - 1] \in Seq(L) PROVE f[n] \in Seq(L)
    <2>1. n - 1 \in 0..Len(marked) /\ n \in 0..Len(marked)
      BY <1>1
    <2>2. f[n] = IF marked[n].mark \in marks THEN Append(f[n - 1], marked[n].line)
                 ELSE f[n - 1]
      BY <2>1, MarkedStep
    <2> HIDE DEF f
    <2> QED BY <1>3, <2>2, AppendProperties
  <1> HIDE DEF f
  <1>4. \A n \in 0..Len(marked) : f[n] \in Seq(L)
    BY <1>1, <1>2, <1>3, IterationType
  <1> QED BY <1>4 DEF f

(* Every line is in one of the counts, so the counts of all the lines are  *)
(* met by no fewer of them.                                                *)
LEMMA BodyIsAll ==
    ASSUME NEW hunk, IsHunk(hunk), CountsAreRight(hunk)
    PROVE  Body(hunk) = hunk.lines
  <1> DEFINE s == hunk.lines
             k == Len(s)
             old(n) == OldSide(SubSeq(s, 1, n))
             new(n) == NewSide(SubSeq(s, 1, n))
             f == [n \in 0..k |-> Len(old(n)) + Len(new(n))]
             L == {s[i].line : i \in 1..k}
  <1>1. /\ s \in Seq(Range(s)) /\ k \in Nat /\ DOMAIN s = 1..k
        /\ \A i \in 1..k : s[i].mark \in {"keep", "drop", "add"}
    BY Sequence DEF IsHunk
  <1>2. SubSeq(s, 1, k) = s
    BY <1>1, SubSeqFull
  <1>3. \A n \in 0..k : old(n) \in Seq(L) /\ new(n) \in Seq(L)
    <2>1. \A i \in 1..k : s[i].line \in L
      OBVIOUS
    <2> HIDE DEF L
    <2> QED BY <1>1, <2>1, MarkedAreLines DEF OldSide, NewSide
  <1>4. \A n \in 0..k : Len(old(n)) \in Nat /\ Len(new(n)) \in Nat
    BY <1>3, LenProperties
  <1>5. ASSUME NEW n \in 1..k
        PROVE  /\ Len(old(n)) = Len(old(n - 1)) + (IF s[n].mark = "add" THEN 0 ELSE 1)
               /\ Len(new(n)) = Len(new(n - 1)) + (IF s[n].mark = "drop" THEN 0 ELSE 1)
    <2>1. n - 1 \in 0..k /\ s[n].mark \in {"keep", "drop", "add"} /\ s[n].line \in L
      BY <1>1
    <2>2. old(n - 1) \in Seq(L) /\ new(n - 1) \in Seq(L)
      BY <1>3, <2>1
    <2>3. /\ old(n) = IF s[n].mark \in {"keep", "drop"} THEN Append(old(n - 1), s[n].line)
                      ELSE old(n - 1)
          /\ new(n) = IF s[n].mark \in {"keep", "add"} THEN Append(new(n - 1), s[n].line)
                      ELSE new(n - 1)
      BY <1>1, MarkedStep DEF OldSide, NewSide
    <2>4. Len(Append(old(n - 1), s[n].line)) = Len(old(n - 1)) + 1
          /\ Len(Append(new(n - 1), s[n].line)) = Len(new(n - 1)) + 1
      BY <2>1, <2>2, AppendProperties
    <2>5. Len(old(n - 1)) \in Nat /\ Len(new(n - 1)) \in Nat
      BY <1>4, <2>1
    <2> HIDE DEF old, new, L
    <2>6. CASE s[n].mark = "keep"
      BY <2>3, <2>4, <2>5, <2>6
    <2>7. CASE s[n].mark = "drop"
      BY <2>3, <2>4, <2>5, <2>7
    <2>8. CASE s[n].mark = "add"
      BY <2>3, <2>4, <2>5, <2>8
    <2> QED BY <2>1, <2>6, <2>7, <2>8
  <1>6. MeetsCounts(hunk) = {n \in 0..k : /\ Len(old(n)) = Len(old(k))
                                          /\ Len(new(n)) = Len(new(k))}
    BY <1>2 DEF MeetsCounts, CountsAreRight
  <1>7. Body(hunk) = SubSeq(s, 1, Min(MeetsCounts(hunk)))
    BY DEF Body
  <1> HIDE DEF old, new, s, k
  <1>8. MeetsCounts(hunk) = {k}
    <2>1. \A n \in 0..k : f[n] = Len(old(n)) + Len(new(n)) /\ f[n] \in Int
      BY <1>4
    <2>2. ASSUME NEW n \in 1..k PROVE f[n - 1] < f[n]
      <3>1. n - 1 \in 0..k /\ n \in 0..k
        BY <1>1
      <3>2. /\ f[n - 1] = Len(old(n - 1)) + Len(new(n - 1)) /\ f[n] = Len(old(n)) + Len(new(n))
            /\ Len(old(n - 1)) \in Nat /\ Len(new(n - 1)) \in Nat
        BY <1>4, <2>1, <3>1
      <3> HIDE DEF f
      <3>3. s[n].mark # "add" \/ s[n].mark # "drop"
        OBVIOUS
      <3>4. CASE s[n].mark = "add"
        BY <1>5, <3>2, <3>4
      <3>5. CASE s[n].mark = "drop"
        BY <1>5, <3>2, <3>5
      <3>6. CASE s[n].mark # "drop" /\ s[n].mark # "add"
        BY <1>5, <3>2, <3>6
      <3> QED BY <3>4, <3>5, <3>6
    <2> HIDE DEF f
    <2>3. \A m, n \in 0..k : m < n => f[m] < f[n]
      BY <1>1, <2>1, <2>2, Increasing
    <2>4. ASSUME NEW n \in 0..k, n # k PROVE f[n] < f[k]
      BY <1>1, <2>3, <2>4
    <2>5. ASSUME NEW n \in 0..k, Len(old(n)) = Len(old(k)), Len(new(n)) = Len(new(k))
          PROVE  n = k
      <3>1. f[n] = f[k] /\ f[n] \in Int
        BY <1>1, <2>1, <2>5
      <3> QED BY <2>4, <3>1
    <2>6. k \in 0..k
      BY <1>1
    <2> QED BY <1>6, <2>5, <2>6
  <1>9. Min({k}) = k
    BY <1>1 DEF Min
  <1> QED BY <1>2, <1>7, <1>8, <1>9 DEF s

LEMMA SidesOfHunk ==
    ASSUME NEW hunk, IsHunk(hunk), NEW L,
           \A i \in DOMAIN hunk.lines : hunk.lines[i].line \in L
    PROVE  OldSide(hunk.lines) \in Seq(L) /\ NewSide(hunk.lines) \in Seq(L)
  <1> DEFINE s == hunk.lines
  <1>1. s \in Seq(Range(s)) /\ Len(s) \in Nat /\ DOMAIN s = 1..Len(s)
    BY Sequence DEF IsHunk
  <1>2. SubSeq(s, 1, Len(s)) = s /\ Len(s) \in 0..Len(s)
    BY <1>1, SubSeqFull
  <1>3. \A marks : LinesMarked(marks, SubSeq(s, 1, Len(s))) \in Seq(L)
    BY <1>1, <1>2, MarkedAreLines
  <1> QED BY <1>2, <1>3 DEF OldSide, NewSide

----------------------------------------------------------------------------
(* Where the hunks are                                                     *)

(* The header says where the hunk belongs.                                 *)
Placed(hunk) == CountsAreRight(hunk) /\ (hunk.start = 0 <=> hunk.oldCount = 0)

PlacedHunks(hunks) ==
    IsSequence(hunks) /\ \A k \in DOMAIN hunks : IsHunk(hunks[k]) /\ Placed(hunks[k])

(* c takes k to the cursor behind the first k hunks.                       *)
Cursors(hunks, c) ==
    /\ c[0] = 0
    /\ \A k \in 1..Len(hunks) : /\ c[k - 1] <= Target(hunks[k])
                                /\ c[k] = Target(hunks[k]) + hunks[k].oldCount

LEMMA HunkNumbers ==
    ASSUME NEW hunks, PlacedHunks(hunks), NEW k \in 1..Len(hunks)
    PROVE  /\ hunks[k].start \in Nat /\ hunks[k].oldCount \in Nat
           /\ Target(hunks[k]) \in Nat
           /\ hunks[k].oldCount = 0 => Target(hunks[k]) = 0 /\ hunks[k].start = 0
           /\ hunks[k].oldCount # 0 => hunks[k].start = Target(hunks[k]) + 1
  <1>1. k \in DOMAIN hunks
    BY Sequence DEF PlacedHunks
  <1>2. hunks[k].start \in Nat /\ hunks[k].oldCount \in Nat
        /\ (hunks[k].start = 0 <=> hunks[k].oldCount = 0)
    BY <1>1 DEF PlacedHunks, Placed, IsHunk
  <1> QED BY <1>2 DEF Target

LEMMA CursorsGrow ==
    ASSUME NEW hunks, PlacedHunks(hunks), NEW c, Cursors(hunks, c)
    PROVE  /\ Len(hunks) \in Nat
           /\ \A k \in 0..Len(hunks) : c[k] \in Nat
           /\ \A j, k \in 0..Len(hunks) : j <= k => c[j] <= c[k]
  <1> DEFINE m == Len(hunks)
  <1>1. m \in Nat
    BY Sequence DEF PlacedHunks
  <1>2. ASSUME NEW k \in 1..m PROVE c[k] \in Nat /\ c[k - 1] <= c[k]
    <2>1. Target(hunks[k]) \in Nat /\ hunks[k].oldCount \in Nat
      BY HunkNumbers
    <2>2. c[k - 1] <= Target(hunks[k]) /\ c[k] = Target(hunks[k]) + hunks[k].oldCount
      BY DEF Cursors
    <2>3. c[k - 1] \in Int
      <3>1. CASE k = 1
        BY <3>1 DEF Cursors
      <3>2. CASE k # 1
        <4>1. k - 1 \in 1..m
          BY <1>1, <3>2
        <4>2. c[k - 1] = Target(hunks[k - 1]) + hunks[k - 1].oldCount
          BY <4>1 DEF Cursors
        <4>3. Target(hunks[k - 1]) \in Nat /\ hunks[k - 1].oldCount \in Nat
          BY <4>1, HunkNumbers
        <4> QED BY <4>2, <4>3
      <3> QED BY <3>1, <3>2
    <2> QED BY <2>1, <2>2, <2>3
  <1>3. \A k \in 0..m : c[k] \in Nat
    <2>1. \A k \in 0..m : k = 0 \/ k \in 1..m
      BY <1>1
    <2>2. c[0] = 0
      BY DEF Cursors
    <2> QED BY <1>2, <2>1, <2>2
  <1> DEFINE S == {k \in Nat : k <= m => \A j \in 0..m : j <= k => c[j] <= c[k]}
  <1> HIDE DEF m
  <1>4. 0 \in S
    BY <1>1, <1>3
  <1>5. ASSUME NEW k \in S \cap Nat PROVE k + 1 \in S
    <2> SUFFICES ASSUME k + 1 <= m, NEW j \in 0..m, j <= k + 1 PROVE c[j] <= c[k + 1]
      OBVIOUS
    <2>1. k + 1 \in 1..m /\ k + 1 \in 0..m /\ k \in 0..m /\ (k + 1) - 1 = k
      BY <1>1, <1>5
    <2>2. c[k] <= c[k + 1] /\ c[k] \in Nat /\ c[k + 1] \in Nat /\ c[j] \in Nat
      BY <1>2, <1>3, <2>1
    <2>3. j = k + 1 \/ c[j] <= c[k]
      BY <1>5, <2>1
    <2> QED BY <2>2, <2>3
  <1> HIDE DEF S
  <1>6. Nat \subseteq S
    BY <1>4, <1>5, NatSetInduction
  <1> QED BY <1>1, <1>3, <1>6 DEF S, m

(* A line is covered by the hunk between whose target and cursor it is.    *)
LEMMA LinesCovered ==
    ASSUME NEW hunks, PlacedHunks(hunks), NEW c, Cursors(hunks, c), NEW i \in Nat, i # 0
    PROVE  /\ Covering(hunks, i) = {k \in 1..Len(hunks) : /\ Target(hunks[k]) < i
                                                          /\ i <= c[k]}
           /\ Replacing(hunks, i) = {k \in Covering(hunks, i) : i = Target(hunks[k]) + 1}
           /\ InsertedAt(hunks, i) = {}
  <1> DEFINE m == Len(hunks)
  <1>1. DOMAIN hunks = 1..m
    BY Sequence DEF PlacedHunks
  <1>2. ASSUME NEW k \in 1..m
        PROVE  /\ hunks[k].start \in Nat /\ hunks[k].oldCount \in Nat
               /\ Target(hunks[k]) \in Nat
               /\ hunks[k].oldCount = 0 => Target(hunks[k]) = 0 /\ hunks[k].start = 0
               /\ hunks[k].oldCount # 0 => hunks[k].start = Target(hunks[k]) + 1
               /\ c[k] = Target(hunks[k]) + hunks[k].oldCount
    BY HunkNumbers DEF Cursors
  <1>3. Covering(hunks, i) = {k \in 1..m : Target(hunks[k]) < i /\ i <= c[k]}
    <2>1. ASSUME NEW k \in 1..m
          PROVE  (hunks[k].start <= i /\ i < hunks[k].start + hunks[k].oldCount)
                    <=> (Target(hunks[k]) < i /\ i <= c[k])
      <3>1. CASE hunks[k].oldCount = 0
        BY <1>2, <3>1
      <3>2. CASE hunks[k].oldCount # 0
        BY <1>2, <3>2
      <3> QED BY <3>1, <3>2
    <2> QED BY <1>1, <2>1 DEF Covering
  <1>4. Replacing(hunks, i) = {k \in Covering(hunks, i) : i = Target(hunks[k]) + 1}
    <2>1. ASSUME NEW k \in 1..m
          PROVE  (hunks[k].oldCount > 0 /\ hunks[k].start = i)
                   <=> (Target(hunks[k]) < i /\ i <= c[k] /\ i = Target(hunks[k]) + 1)
      BY <1>2
    <2> QED BY <1>1, <1>3, <2>1 DEF Replacing
  <1>5. InsertedAt(hunks, i) = {}
    <2>1. \A k \in 1..m : ~(hunks[k].oldCount = 0 /\ hunks[k].start = i)
      BY <1>2
    <2> QED BY <1>1, <2>1 DEF InsertedAt
  <1> QED BY <1>3, <1>4, <1>5

(* The hunks cover disjoint parts of the file, in their order.             *)
LEMMA CoveredOnce ==
    ASSUME NEW hunks, PlacedHunks(hunks), NEW c, Cursors(hunks, c), NEW i \in Nat, i # 0
    PROVE  /\ \A k \in 1..Len(hunks) :
                /\ c[k - 1] < i /\ i <= Target(hunks[k]) => Covering(hunks, i) = {}
                /\ Target(hunks[k]) < i /\ i <= c[k] => Covering(hunks, i) = {k}
           /\ c[Len(hunks)] < i => Covering(hunks, i) = {}
  <1> DEFINE m == Len(hunks)
             Covers(k) == Target(hunks[k]) < i /\ i <= c[k]
  <1>1. /\ m \in Nat /\ \A k \in 0..m : c[k] \in Nat
        /\ \A j, k \in 0..m : j <= k => c[j] <= c[k]
    BY CursorsGrow
  <1>2. Covering(hunks, i) = {k \in 1..m : Covers(k)}
    BY LinesCovered
  <1>3. \A k \in 1..m : /\ Target(hunks[k]) \in Nat
                        /\ c[k - 1] <= Target(hunks[k]) /\ Target(hunks[k]) <= c[k]
    <2> SUFFICES ASSUME NEW k \in 1..m
                 PROVE  /\ Target(hunks[k]) \in Nat
                        /\ c[k - 1] <= Target(hunks[k]) /\ Target(hunks[k]) <= c[k]
      OBVIOUS
    <2>1. Target(hunks[k]) \in Nat /\ hunks[k].oldCount \in Nat
      BY HunkNumbers
    <2>2. c[k - 1] <= Target(hunks[k]) /\ c[k] = Target(hunks[k]) + hunks[k].oldCount
      BY DEF Cursors
    <2> QED BY <2>1, <2>2
  <1> HIDE DEF m
  <1>4. ASSUME NEW j \in 1..m, Covers(j), NEW k \in 1..m, c[k - 1] < i, i <= c[k]
        PROVE  j = k
    <2>1. /\ j \in 0..m /\ k \in 0..m /\ j - 1 \in 0..m /\ k - 1 \in 0..m
          /\ j - 1 \in Int /\ k - 1 \in Int
      BY <1>1
    <2>2. CASE j < k
      <3>1. j <= k - 1
        BY <1>1, <2>2
      <3>2. c[j] <= c[k - 1]
        BY <1>1, <2>1, <3>1
      <3> QED BY <1>1, <1>4, <2>1, <3>2
    <2>3. CASE k < j
      <3>1. k <= j - 1
        BY <1>1, <2>3
      <3>2. c[k] <= c[j - 1] /\ c[j - 1] <= Target(hunks[j])
        BY <1>1, <1>3, <2>1, <3>1
      <3> QED BY <1>1, <1>3, <1>4, <2>1, <3>2
    <2> QED BY <2>1, <2>2, <2>3
  <1>5. ASSUME NEW k \in 1..m, c[k - 1] < i, i <= Target(hunks[k]) PROVE Covering(hunks, i) = {}
    <2>1. k \in 0..m /\ k - 1 \in 0..m
      BY <1>1
    <2>2. i <= c[k]
      BY <1>1, <1>3, <1>5, <2>1
    <2>3. ~Covers(k)
      BY <1>3, <1>5
    <2> HIDE DEF Covers
    <2> QED BY <1>2, <1>4, <1>5, <2>2, <2>3
  <1>6. ASSUME NEW k \in 1..m, Target(hunks[k]) < i, i <= c[k] PROVE Covering(hunks, i) = {k}
    <2>1. k \in 0..m /\ k - 1 \in 0..m
      BY <1>1
    <2>2. c[k - 1] < i /\ Covers(k)
      BY <1>1, <1>3, <1>6, <2>1
    <2> HIDE DEF Covers
    <2> QED BY <1>2, <1>4, <1>6, <2>2
  <1>7. ASSUME c[m] < i PROVE Covering(hunks, i) = {}
    <2>1. \A j \in 1..m : j \in 0..m /\ m \in 0..m /\ j <= m
      BY <1>1
    <2>2. \A j \in 1..m : c[j] < i
      BY <1>1, <1>7, <2>1
    <2>3. \A j \in 1..m : ~Covers(j)
      BY <1>1, <2>1, <2>2
    <2> QED BY <1>2, <2>3
  <1> QED BY <1>5, <1>6, <1>7 DEF m

----------------------------------------------------------------------------
(* What the diff says                                                      *)

LinesIn(hunks, L) ==
    \A k \in DOMAIN hunks : \A i \in DOMAIN hunks[k].lines : hunks[k].lines[i].line \in L

(* p takes n to what the hunks of which, among the first n, put in.        *)
Texts(p, hunks, which, L) ==
    /\ p[0] = <<>>
    /\ \A n \in 1..Len(hunks) :
         p[n] = p[n - 1] \o (IF n \in which THEN NewSide(hunks[n].lines) ELSE <<>>)
    /\ \A n \in 0..Len(hunks) : p[n] \in Seq(L)

LEMMA TextSteps ==
    ASSUME NEW hunks, PlacedHunks(hunks), NEW L, LinesIn(hunks, L), NEW which
    PROVE  \E p : Texts(p, hunks, which, L) /\ TextOf(hunks, which) = p[Len(hunks)]
  <1> DEFINE m == Len(hunks)
             new(k) == IF k \in which THEN NewSide(hunks[k].lines) ELSE <<>>
             ss == [k \in 1..m |-> new(k)]
  <1>1. m \in Nat /\ DOMAIN hunks = 1..m
    BY Sequence DEF PlacedHunks
  <1>2. \A k \in 1..m : new(k) \in Seq(L)
    <2> SUFFICES ASSUME NEW k \in 1..m PROVE new(k) \in Seq(L)
      OBVIOUS
    <2>1. NewSide(hunks[k].lines) \in Seq(L)
      BY <1>1, SidesOfHunk DEF PlacedHunks, LinesIn
    <2> QED BY <2>1
  <1>3. TextOf(hunks, which) = FlattenSeq(ss)
    BY <1>1 DEF TextOf
  <1> HIDE DEF m, new
  <1>4. ss \in [1..m -> Seq(L)] /\ \A k \in 1..m : ss[k] = new(k)
    BY <1>2
  <1> HIDE DEF ss
  <1>5. ss \in Seq(Seq(L)) /\ Len(ss) = m
    BY <1>1, <1>4, FunctionAsSequence
  <1>6. PICK p : /\ p[0] = <<>>
                 /\ \A n \in 1..Len(ss) : p[n] = p[n - 1] \o ss[n]
                 /\ \A n \in 0..Len(ss) : p[n] \in Seq(L)
                 /\ FlattenSeq(ss) = p[Len(ss)]
    BY <1>5, Flattened
  <1>7. \A n \in 1..m : p[n] = p[n - 1] \o new(n)
    BY <1>4, <1>5, <1>6
  <1>8. Texts(p, hunks, which, L)
    BY <1>5, <1>6, <1>7 DEF m, new, Texts
  <1> QED BY <1>3, <1>5, <1>6, <1>8 DEF m

LEMMA TextOfNone ==
    ASSUME NEW hunks, PlacedHunks(hunks), NEW L, LinesIn(hunks, L),
           NEW which, \A n \in 1..Len(hunks) : n \notin which
    PROVE  TextOf(hunks, which) = <<>>
  <1> DEFINE m == Len(hunks)
  <1>0. PICK p : Texts(p, hunks, which, L) /\ TextOf(hunks, which) = p[Len(hunks)]
    BY TextSteps
  <1>1. /\ p[0] = <<>>
        /\ \A n \in 1..Len(hunks) :
             p[n] = p[n - 1] \o (IF n \in which THEN NewSide(hunks[n].lines) ELSE <<>>)
        /\ TextOf(hunks, which) = p[Len(hunks)]
    BY <1>0 DEF Texts
  <1>2. m \in Nat
    BY Sequence DEF PlacedHunks
  <1> DEFINE D == {<<>>}
  <1>3. p[0] \in D
    BY <1>1
  <1>4. ASSUME NEW n \in 1..m, p[n - 1] \in D PROVE p[n] \in D
    <2>1. p[n] = <<>> \o <<>>
      BY <1>1, <1>4
    <2> QED BY <2>1
  <1> HIDE DEF D
  <1>5. \A n \in 0..m : p[n] \in D
    BY <1>2, <1>3, <1>4, IterationType
  <1> QED BY <1>1, <1>2, <1>5 DEF D

LEMMA TextOfOne ==
    ASSUME NEW hunks, PlacedHunks(hunks), NEW L, LinesIn(hunks, L), NEW k \in 1..Len(hunks),
           NEW which, \A n \in 1..Len(hunks) : n \in which <=> n = k
    PROVE  TextOf(hunks, which) = NewSide(hunks[k].lines)
  <1> DEFINE m == Len(hunks)
             new == NewSide(hunks[k].lines)
  <1>0. PICK p : Texts(p, hunks, which, L) /\ TextOf(hunks, which) = p[Len(hunks)]
    BY TextSteps
  <1>1. /\ p[0] = <<>>
        /\ \A n \in 1..Len(hunks) :
             p[n] = p[n - 1] \o (IF n \in which THEN NewSide(hunks[n].lines) ELSE <<>>)
        /\ TextOf(hunks, which) = p[Len(hunks)]
    BY <1>0 DEF Texts
  <1>2. m \in Nat /\ DOMAIN hunks = 1..m
    BY Sequence DEF PlacedHunks
  <1>3. new \in Seq(L)
    BY <1>2, SidesOfHunk DEF PlacedHunks, LinesIn
  <1> DEFINE S == {n \in Nat : n <= m => p[n] = IF n < k THEN <<>> ELSE new}
  <1>4. 0 \in S
    BY <1>1
  <1>5. ASSUME NEW n \in S \cap Nat PROVE n + 1 \in S
    <2> SUFFICES ASSUME n + 1 <= m PROVE p[n + 1] = IF n + 1 < k THEN <<>> ELSE new
      OBVIOUS
    <2>1. n + 1 \in 1..m /\ (n + 1) - 1 = n /\ p[n] = IF n < k THEN <<>> ELSE new
      BY <1>2, <1>5
    <2>2. p[n + 1] = p[n] \o (IF n + 1 = k THEN NewSide(hunks[n + 1].lines) ELSE <<>>)
      BY <1>1, <2>1
    <2> HIDE DEF m
    <2>3. CASE n + 1 < k
      <3>1. p[n + 1] = <<>> \o <<>>
        BY <2>1, <2>2, <2>3
      <3> QED BY <2>3, <3>1
    <2>4. CASE n + 1 = k
      <3>1. p[n] = <<>> /\ NewSide(hunks[n + 1].lines) = new
        BY <2>1, <2>4
      <3> HIDE DEF new
      <3>2. p[n + 1] = <<>> \o new
        BY <2>2, <2>4, <3>1
      <3> QED BY <1>3, <2>4, <3>2, ConcatEmptySeq
    <2>5. CASE n + 1 > k
      <3>1. ~(n < k) /\ n + 1 # k
        BY <2>5
      <3>2. p[n + 1] = new \o <<>>
        BY <2>1, <2>2, <3>1
      <3> HIDE DEF new
      <3> QED BY <1>3, <2>5, <3>2, ConcatEmptySeq
    <2> QED BY <2>3, <2>4, <2>5
  <1> HIDE DEF S
  <1>6. m \in S
    BY <1>2, <1>4, <1>5, NatSetInduction
  <1>7. ~(m < k)
    BY <1>2
  <1> QED BY <1>1, <1>2, <1>6, <1>7 DEF S

(* Lines that are added one by one are a part of the file.                 *)
LEMMA LinesAdded ==
    ASSUME NEW L, NEW lines \in Seq(L), NEW a \in 0..Len(lines), NEW b \in a..Len(lines),
           NEW r, r[a] \in Seq(L), \A i \in (a + 1)..b : r[i] = r[i - 1] \o <<lines[i]>>
    PROVE  r[b] = r[a] \o SubSeq(lines, a + 1, b)
  <1> DEFINE UpTo(n) == r[n] = r[a] \o SubSeq(lines, a + 1, n)
             S == {n \in Nat : a <= n /\ n <= b => UpTo(n)}
  <1>1. Len(lines) \in Nat /\ a \in Nat /\ b \in Nat /\ a <= b
    BY LenProperties
  <1>2. UpTo(a)
    <2>1. SubSeq(lines, a + 1, a) = <<>>
      BY <1>1, SubSeqEmpty
    <2>2. r[a] \o <<>> = r[a]
      BY ConcatEmptySeq
    <2> QED BY <2>1, <2>2
  <1> HIDE DEF UpTo
  <1>3. 0 \in S
    BY <1>1, <1>2
  <1>4. ASSUME NEW n \in S \cap Nat PROVE n + 1 \in S
    <2> DEFINE i == n + 1
    <2>0. i \in Nat /\ i - 1 = n
      OBVIOUS
    <2>1. ASSUME a <= n, i <= b
          PROVE  UpTo(i)
      <3>1. /\ i \in (a + 1)..b /\ i - 1 = n /\ i \in (a + 1)..Len(lines)
            /\ a + 1 \in 1..Len(lines) /\ i \in 1..Len(lines)
        BY <1>1, <2>1
      <3>2. r[n] = r[a] \o SubSeq(lines, a + 1, n)
        <4>1. UpTo(n)
          BY <1>1, <1>4, <2>1
        <4> QED BY <4>1 DEF UpTo
      <3> HIDE DEF i
      <3>3. SubSeq(lines, a + 1, i) = SubSeq(lines, a + 1, i - 1) \o <<lines[i]>>
        BY <3>1, SubSeqRecursiveSecond
      <3>4. SubSeq(lines, a + 1, n) \in Seq(L) /\ <<lines[i]>> \in Seq(L)
        <4>1. a + 1 \in Int /\ n \in Int /\ \A j \in (a + 1)..n : lines[j] \in L
          <5>1. \A j \in 1..Len(lines) : lines[j] \in L
            BY LenProperties
          <5>2. \A j \in (a + 1)..n : j \in 1..Len(lines)
            BY <1>1, <3>1
          <5> QED BY <1>1, <3>1, <5>1, <5>2
        <4>2. lines[i] \in L
          BY <3>1, LenProperties
        <4> QED BY <4>1, <4>2, SubSeqProperties
      <3>5. r[i] = r[n] \o <<lines[i]>>
        BY <3>1
      <3> DEFINE first == r[a]
                 part == SubSeq(lines, a + 1, n)
                 last == <<lines[i]>>
      <3> HIDE DEF first, part, last
      <3>6. first \in Seq(L) /\ part \in Seq(L) /\ last \in Seq(L)
        BY <3>4 DEF first, part, last
      <3>7. (first \o part) \o last = first \o (part \o last)
        BY <3>6, ConcatAssociative
      <3> QED BY <3>1, <3>2, <3>3, <3>5, <3>7 DEF first, part, last, UpTo
    <2>2. CASE a <= n
      BY <2>0, <2>1, <2>2
    <2>3. CASE a = n + 1
      BY <1>2, <2>0, <2>3
    <2>4. CASE a > n + 1
      BY <1>1, <2>0, <2>4
    <2> QED BY <1>1, <2>2, <2>3, <2>4
  <1> HIDE DEF S
  <1>5. b \in S
    BY <1>1, <1>3, <1>4, NatSetInduction
  <1>6. UpTo(b)
    BY <1>1, <1>5 DEF S
  <1> QED BY <1>6 DEF UpTo

LEMMA NothingAdded ==
    ASSUME NEW a \in Nat, NEW b \in Nat, a <= b, NEW r,
           \A i \in (a + 1)..b : r[i] = r[i - 1]
    PROVE  r[b] = r[a]
  <1> DEFINE S == {n \in Nat : a + n <= b => r[a + n] = r[a]}
  <1>1. 0 \in S
    OBVIOUS
  <1>2. ASSUME NEW n \in S \cap Nat PROVE n + 1 \in S
    <2> SUFFICES ASSUME a + (n + 1) <= b PROVE r[a + (n + 1)] = r[a]
      OBVIOUS
    <2>1. a + (n + 1) \in (a + 1)..b /\ (a + (n + 1)) - 1 = a + n /\ r[a + n] = r[a]
      BY <1>2
    <2>2. r[a + (n + 1)] = r[(a + (n + 1)) - 1]
      BY <2>1
    <2> QED BY <2>1, <2>2
  <1> HIDE DEF S
  <1>3. b - a \in S
    BY <1>1, <1>2, NatSetInduction
  <1>4. a + (b - a) = b
    OBVIOUS
  <1> QED BY <1>3, <1>4 DEF S

----------------------------------------------------------------------------
(* What apply_text_diff does                                               *)

(* One hunk that fits.                                                     *)
HunkDone(lines, before, hunk, after) ==
    /\ before.cursor <= Target(hunk)
    /\ after.cursor = Target(hunk) + hunk.oldCount
    /\ after.cursor <= Len(lines)
    /\ after.out = before.out \o SubSeq(lines, before.cursor + 1, Target(hunk))
                              \o NewSide(hunk.lines)

LEMMA HunkApplied ==
    ASSUME NEW lines, NEW done, NEW hunk, IsHunk(hunk), Placed(hunk),
           ApplyHunk(lines, done, hunk).ok
    PROVE  done.ok /\ HunkDone(lines, done, hunk, ApplyHunk(lines, done, hunk))
  <1>1. Body(hunk) = hunk.lines /\ hunk.oldCount = Len(OldSide(hunk.lines))
    BY BodyIsAll DEF Placed, CountsAreRight
  <1> DEFINE after == ApplyHunk(lines, done, hunk)
             failed == [done EXCEPT !.ok = FALSE]
  <1>2. CASE Fits(lines, done, hunk)
    <2>1. /\ done.ok /\ done.cursor <= Target(hunk)
          /\ Target(hunk) + hunk.oldCount <= Len(lines)
      BY <1>1, <1>2 DEF Fits
    <2>2. /\ after.cursor = Target(hunk) + hunk.oldCount
          /\ after.out = done.out \o SubSeq(lines, done.cursor + 1, Target(hunk))
                                  \o NewSide(hunk.lines)
      BY <1>1, <1>2 DEF ApplyHunk
    <2> QED BY <2>1, <2>2 DEF HunkDone
  <1>3. CASE ~Fits(lines, done, hunk)
    <2>1. failed.ok
      BY <1>3 DEF ApplyHunk
    <2> QED BY <2>1
  <1> QED BY <1>2, <1>3

(* All of them.                                                            *)
HunksDone(a, lines, hunks) ==
    /\ a[0].cursor = 0 /\ a[0].out = <<>>
    /\ \A k \in 1..Len(hunks) : HunkDone(lines, a[k - 1], hunks[k], a[k])

LEMMA HunksApplied ==
    ASSUME NEW lines, NEW hunks, PlacedHunks(hunks), ApplyHunks(lines, hunks).ok
    PROVE  \E a : HunksDone(a, lines, hunks) /\ ApplyHunks(lines, hunks) = a[Len(hunks)]
  <1> DEFINE m == Len(hunks)
  <1>1. m \in Nat /\ DOMAIN hunks = 1..m
    BY Sequence DEF PlacedHunks
  <1>2. PICK a : /\ a[0] = [ok |-> TRUE, cursor |-> 0, out |-> <<>>]
                 /\ \A n \in 1..Len(hunks) : a[n] = ApplyHunk(lines, a[n - 1], hunks[n])
                 /\ ApplyHunks(lines, hunks) = a[Len(hunks)]
    BY <1>1, HunksSteps
  <1>3. ASSUME NEW k \in 1..m, a[k].ok
        PROVE  a[k - 1].ok /\ HunkDone(lines, a[k - 1], hunks[k], a[k])
    <2>1. a[k] = ApplyHunk(lines, a[k - 1], hunks[k])
      BY <1>2
    <2>2. IsHunk(hunks[k]) /\ Placed(hunks[k])
      BY <1>1 DEF PlacedHunks
    <2> QED BY <1>3, <2>1, <2>2, HunkApplied
  <1> DEFINE S == {n \in Nat : n <= m => a[m - n].ok}
  <1>4. 0 \in S
    <2>1. m - 0 = m
      BY <1>1
    <2> QED BY <1>2, <2>1
  <1>5. ASSUME NEW n \in S \cap Nat PROVE n + 1 \in S
    <2> SUFFICES ASSUME n + 1 <= m PROVE a[m - (n + 1)].ok
      OBVIOUS
    <2>1. m - n \in 1..m /\ m - (n + 1) = (m - n) - 1 /\ a[m - n].ok
      BY <1>1, <1>5
    <2>2. a[(m - n) - 1].ok
      BY <1>3, <2>1
    <2> QED BY <2>1, <2>2
  <1> HIDE DEF S
  <1>6. \A k \in 1..m : a[k].ok
    <2>1. Nat \subseteq S
      BY <1>4, <1>5, NatSetInduction
    <2> SUFFICES ASSUME NEW k \in 1..m PROVE a[k].ok
      OBVIOUS
    <2>2. m - k \in Nat /\ m - k <= m /\ m - (m - k) = k
      BY <1>1
    <2> QED BY <2>1, <2>2 DEF S
  <1>7. HunksDone(a, lines, hunks)
    BY <1>2, <1>3, <1>6 DEF HunksDone
  <1> QED BY <1>2, <1>7

----------------------------------------------------------------------------
(* The file reads as the diff says                                         *)

Line(lines, hunks, i) ==
    IF Covering(hunks, i) = {} THEN <<lines[i]>> ELSE TextOf(hunks, Replacing(hunks, i))

(* r takes n to the reading of the first n lines.                          *)
Read(r, lines, hunks, L) ==
    /\ r[0] = <<>>
    /\ \A n \in 1..Len(lines) : r[n] = r[n - 1] \o Line(lines, hunks, n)
    /\ \A n \in 0..Len(lines) : r[n] \in Seq(L)

LEMMA TextIsOfLines ==
    ASSUME NEW hunks, PlacedHunks(hunks), NEW L, LinesIn(hunks, L), NEW which
    PROVE  TextOf(hunks, which) \in Seq(L)
  <1>1. PICK p : Texts(p, hunks, which, L) /\ TextOf(hunks, which) = p[Len(hunks)]
    BY TextSteps
  <1>2. Len(hunks) \in 0..Len(hunks)
    BY Sequence DEF PlacedHunks
  <1> QED BY <1>1, <1>2 DEF Texts

LEMMA ReadingSteps ==
    ASSUME NEW L, NEW lines \in Seq(L), NEW hunks, PlacedHunks(hunks), LinesIn(hunks, L),
           NEW c, Cursors(hunks, c)
    PROVE  \E r : /\ Read(r, lines, hunks, L)
                  /\ Reading(lines, hunks) = TextOf(hunks, InsertedAt(hunks, 0)) \o r[Len(lines)]
  <1> DEFINE m == Len(lines)
             ss == [i \in DOMAIN lines |->
                      (IF Covering(hunks, i) = {} THEN <<lines[i]>>
                       ELSE TextOf(hunks, Replacing(hunks, i)))
                      \o TextOf(hunks, InsertedAt(hunks, i))]
  <1>1. m \in Nat /\ DOMAIN lines = 1..m /\ \A i \in 1..m : lines[i] \in L
    BY LenProperties
  <1>2. ASSUME NEW i \in 1..m
        PROVE  ss[i] = Line(lines, hunks, i) /\ ss[i] \in Seq(L)
    <2>1. InsertedAt(hunks, i) = {}
      BY LinesCovered
    <2>2. TextOf(hunks, InsertedAt(hunks, i)) = <<>>
      BY <2>1, TextOfNone
    <2>3. ss[i] = Line(lines, hunks, i) \o <<>>
      BY <1>1, <2>2 DEF Line
    <2>4. <<lines[i]>> \in Seq(L) /\ TextOf(hunks, Replacing(hunks, i)) \in Seq(L)
      BY <1>1, TextIsOfLines
    <2>5. Line(lines, hunks, i) \in Seq(L)
      BY <2>4 DEF Line
    <2> HIDE DEF ss
    <2> QED BY <2>3, <2>5, ConcatEmptySeq
  <1>3. Reading(lines, hunks) = TextOf(hunks, InsertedAt(hunks, 0)) \o FlattenSeq(ss)
    BY DEF Reading
  <1>4. ss \in [1..m -> Seq(L)]
    <2>1. DOMAIN ss = 1..m /\ ss = [i \in DOMAIN ss |-> ss[i]]
      BY <1>1
    <2> HIDE DEF ss
    <2> QED BY <1>2, <2>1
  <1> HIDE DEF ss
  <1>5. ss \in Seq(Seq(L)) /\ Len(ss) = m
    BY <1>1, <1>4, FunctionAsSequence
  <1>6. PICK r : /\ r[0] = <<>>
                 /\ \A n \in 1..Len(ss) : r[n] = r[n - 1] \o ss[n]
                 /\ \A n \in 0..Len(ss) : r[n] \in Seq(L)
                 /\ FlattenSeq(ss) = r[Len(ss)]
    BY <1>5, Flattened
  <1>7. Read(r, lines, hunks, L)
    BY <1>2, <1>5, <1>6 DEF Read
  <1> QED BY <1>3, <1>5, <1>6, <1>7

(* A hunk with old lines: the lines in front of it are kept, and its new   *)
(* lines stand for those it covers.                                        *)
ReadBy(r, lines, hunk, from, to) ==
    r[to] = (r[from] \o SubSeq(lines, from + 1, Target(hunk))) \o NewSide(hunk.lines)

LEMMA HunkRead ==
    ASSUME NEW L, NEW lines \in Seq(L), NEW hunks, PlacedHunks(hunks), LinesIn(hunks, L),
           NEW c, Cursors(hunks, c), NEW r, Read(r, lines, hunks, L),
           NEW k \in 1..Len(hunks), hunks[k].oldCount # 0, c[k] <= Len(lines)
    PROVE  ReadBy(r, lines, hunks[k], c[k - 1], c[k])
  <1> DEFINE first == c[k - 1]
             last == c[k]
             target == Target(hunks[k])
  <1>1. /\ first \in Nat /\ target \in Nat /\ last \in Nat /\ Len(lines) \in Nat
        /\ first <= target /\ target + 1 <= last /\ last <= Len(lines)
    <2>1. k - 1 \in 0..Len(hunks) /\ k \in 0..Len(hunks)
      BY CursorsGrow
    <2>2. c[k - 1] \in Nat /\ c[k] \in Nat
      BY <2>1, CursorsGrow
    <2>3. Target(hunks[k]) \in Nat /\ hunks[k].oldCount \in Nat
      BY HunkNumbers
    <2>4. c[k - 1] <= Target(hunks[k]) /\ c[k] = Target(hunks[k]) + hunks[k].oldCount
      BY DEF Cursors
    <2>5. Len(lines) \in Nat
      BY LenProperties
    <2> QED BY <2>2, <2>3, <2>4, <2>5
  <1>2. \A i \in 1..Len(lines) : r[i] = r[i - 1] \o Line(lines, hunks, i)
    BY DEF Read
  <1>3. \A i \in 0..Len(lines) : r[i] \in Seq(L)
    BY DEF Read
  <1>4. \A i \in (first + 1)..target : r[i] = r[i - 1] \o <<lines[i]>>
    <2> SUFFICES ASSUME NEW i \in (first + 1)..target PROVE r[i] = r[i - 1] \o <<lines[i]>>
      OBVIOUS
    <2>1. i \in Nat /\ i # 0 /\ i \in 1..Len(lines) /\ c[k - 1] < i /\ i <= Target(hunks[k])
      BY <1>1
    <2>2. Covering(hunks, i) = {}
      BY <2>1, CoveredOnce
    <2> QED BY <1>2, <2>1, <2>2 DEF Line
  <1>5. \A i \in (target + 1)..last : i \in Nat /\ i # 0 /\ i \in 1..Len(lines)
                                      /\ Target(hunks[k]) < i /\ i <= c[k]
    BY <1>1
  <1>6. \A i \in (target + 1)..last : Covering(hunks, i) = {k}
    BY <1>5, CoveredOnce
  <1>7. \A i \in (target + 1)..last :
           Replacing(hunks, i) = {j \in Covering(hunks, i) : i = Target(hunks[j]) + 1}
    BY <1>5, LinesCovered
  <1>8. NewSide(hunks[k].lines) \in Seq(L)
    <2>1. k \in DOMAIN hunks
      BY Sequence DEF PlacedHunks
    <2> QED BY <2>1, SidesOfHunk DEF PlacedHunks, LinesIn
  <1>9. r[target + 1] = r[target] \o NewSide(hunks[k].lines)
    <2>1. target + 1 \in (target + 1)..last /\ (target + 1) - 1 = target
      BY <1>1
    <2>2. \A n \in 1..Len(hunks) : n \in Replacing(hunks, target + 1) <=> n = k
      BY <1>6, <1>7, <2>1
    <2>3. TextOf(hunks, Replacing(hunks, target + 1)) = NewSide(hunks[k].lines)
      BY <2>2, TextOfOne
    <2>4. Line(lines, hunks, target + 1) = NewSide(hunks[k].lines)
      BY <1>6, <2>1, <2>3 DEF Line
    <2> QED BY <1>2, <1>5, <2>1, <2>4
  <1>10. \A i \in (target + 2)..last : r[i] = r[i - 1]
    <2> SUFFICES ASSUME NEW i \in (target + 2)..last PROVE r[i] = r[i - 1]
      OBVIOUS
    <2>1. i \in (target + 1)..last /\ i # target + 1
      BY <1>1
    <2>2. Replacing(hunks, i) = {}
      BY <1>6, <1>7, <2>1
    <2>3. TextOf(hunks, Replacing(hunks, i)) = <<>>
      BY <2>2, TextOfNone
    <2>4. Line(lines, hunks, i) = <<>>
      BY <1>6, <2>1, <2>3 DEF Line
    <2>5. r[i] = r[i - 1] \o <<>>
      BY <1>2, <1>5, <2>1, <2>4
    <2>6. i - 1 \in 0..Len(lines)
      BY <1>1, <2>1
    <2> QED BY <1>3, <2>5, <2>6, ConcatEmptySeq
  <1> HIDE DEF first, last, target
  <1>11. r[target] = r[first] \o SubSeq(lines, first + 1, target)
    <2>1. first \in 0..Len(lines) /\ target \in first..Len(lines) /\ r[first] \in Seq(L)
      BY <1>1, <1>3
    <2> QED BY <1>4, <2>1, LinesAdded
  <1>12. r[last] = r[target + 1]
    <2> DEFINE next == target + 1
    <2>1. next \in Nat /\ last \in Nat /\ next <= last /\ next + 1 = target + 2
      BY <1>1
    <2> HIDE DEF next
    <2>2. \A i \in (next + 1)..last : r[i] = r[i - 1]
      BY <1>10, <2>1
    <2>3. r[last] = r[next]
      BY <2>1, <2>2, NothingAdded
    <2> QED BY <2>3 DEF next
  <1> QED BY <1>9, <1>11, <1>12 DEF first, last, target, ReadBy

(* Concatenation under a name of its own, for a longer chain of them.      *)
Cat(s, t) == s \o t

LEMMA CatAssociative ==
    ASSUME NEW L, NEW s \in Seq(L), NEW t \in Seq(L), NEW u \in Seq(L)
    PROVE  Cat(s, t) \in Seq(L) /\ Cat(Cat(s, t), u) = Cat(s, Cat(t, u))
  BY ConcatAssociative, ConcatProperties DEF Cat

LEMMA FourParts ==
    ASSUME NEW L, NEW s \in Seq(L), NEW t \in Seq(L), NEW u \in Seq(L), NEW v \in Seq(L)
    PROVE  Cat(Cat(Cat(s, t), u), v) = Cat(s, Cat(Cat(t, u), v))
  <1>1. Cat(Cat(s, t), u) = Cat(s, Cat(t, u)) /\ Cat(t, u) \in Seq(L)
    BY CatAssociative
  <1>2. Cat(Cat(s, Cat(t, u)), v) = Cat(s, Cat(Cat(t, u), v))
    BY <1>1, CatAssociative
  <1> QED BY <1>1, <1>2

(* Hunks that say where they belong, when they apply, make of a file what  *)
(* the unified diff says.                                                  *)
LEMMA HunksRead ==
    ASSUME NEW L, NEW lines \in Seq(L), NEW hunks, PlacedHunks(hunks), LinesIn(hunks, L),
           ApplyHunks(lines, hunks).ok
    PROVE  LET done == ApplyHunks(lines, hunks) IN
           done.out \o SubSeq(lines, done.cursor + 1, Len(lines)) = Reading(lines, hunks)
  <1> DEFINE m == Len(hunks)
             len == Len(lines)
  <1>1. m \in Nat /\ DOMAIN hunks = 1..m /\ len \in Nat
    BY Sequence, LenProperties DEF PlacedHunks
  <1>2. PICK a : HunksDone(a, lines, hunks) /\ ApplyHunks(lines, hunks) = a[m]
    BY HunksApplied
  <1> DEFINE c == [k \in 0..m |-> a[k].cursor]
  <1>3. /\ \A k \in 0..m : c[k] = a[k].cursor
        /\ a[0].cursor = 0 /\ a[0].out = <<>>
        /\ \A k \in 1..m : HunkDone(lines, a[k - 1], hunks[k], a[k])
    BY <1>2 DEF HunksDone
  <1> HIDE DEF c
  <1>4. Cursors(hunks, c)
    <2>1. c[0] = 0
      BY <1>1, <1>3
    <2>2. ASSUME NEW k \in 1..m
          PROVE  c[k - 1] <= Target(hunks[k]) /\ c[k] = Target(hunks[k]) + hunks[k].oldCount
      <3>1. k \in 0..m /\ k - 1 \in 0..m
        BY <1>1
      <3> QED BY <1>3, <3>1 DEF HunkDone
    <2> QED BY <2>1, <2>2 DEF Cursors
  <1>5. \A k \in 0..m : c[k] \in Nat
    BY <1>4, CursorsGrow
  <1>6. \A k \in 0..m : c[k] \in 0..len
    <2> SUFFICES ASSUME NEW k \in 0..m PROVE c[k] <= len
      BY <1>1, <1>5
    <2>1. CASE k = 0
      BY <1>1, <1>4, <2>1 DEF Cursors
    <2>2. CASE k # 0
      <3>1. k \in 1..m
        BY <1>1, <2>2
      <3> QED BY <1>3, <3>1 DEF HunkDone
    <2> QED BY <2>1, <2>2
  <1>7. PICK r : /\ Read(r, lines, hunks, L)
                 /\ Reading(lines, hunks) = TextOf(hunks, InsertedAt(hunks, 0)) \o r[len]
    BY <1>4, ReadingSteps
  <1>8. PICK p : /\ Texts(p, hunks, InsertedAt(hunks, 0), L)
                 /\ TextOf(hunks, InsertedAt(hunks, 0)) = p[m]
    BY TextSteps
  <1>9. \A k \in 1..m : k \in InsertedAt(hunks, 0) <=> hunks[k].oldCount = 0
    <2>1. \A k \in 1..m : hunks[k].start = 0 <=> hunks[k].oldCount = 0
      BY <1>1 DEF PlacedHunks, Placed
    <2> QED BY <1>1, <2>1 DEF InsertedAt
  <1>10. \A k \in 0..m : p[k] \in Seq(L) /\ r[c[k]] \in Seq(L)
    BY <1>6, <1>7, <1>8 DEF Texts, Read
  <1> DEFINE UpTo(k) == a[k].out = p[k] \o r[c[k]]
             S == {k \in Nat : k <= m => UpTo(k)}
  <1>11. UpTo(0)
    <2>1. p[0] = <<>> /\ r[0] = <<>> /\ c[0] = 0
      BY <1>4, <1>7, <1>8 DEF Texts, Read, Cursors
    <2>2. a[0].out = p[0] \o r[c[0]]
      BY <1>3, <2>1
    <2> QED BY <2>2
  <1>12. ASSUME NEW k \in 1..m, UpTo(k - 1) PROVE UpTo(k)
    <2> DEFINE before == p[k - 1]
               reading == r[c[k - 1]]
               kept == SubSeq(lines, c[k - 1] + 1, Target(hunks[k]))
               new == NewSide(hunks[k].lines)
    <2>1. k \in 0..m /\ k - 1 \in 0..m
      BY <1>1
    <2>2. a[k].out = a[k - 1].out \o kept \o new /\ a[k - 1].out = before \o reading
      BY <1>3, <1>12, <2>1 DEF HunkDone
    <2>3. p[k] = before \o (IF hunks[k].oldCount = 0 THEN new ELSE <<>>)
      BY <1>8, <1>9 DEF Texts
    <2>4. before \in Seq(L) /\ reading \in Seq(L) /\ new \in Seq(L)
      BY <1>1, <1>10, <2>1, SidesOfHunk DEF PlacedHunks, LinesIn
    <2>5. CASE hunks[k].oldCount = 0
      <3>1. Target(hunks[k]) = 0
        BY <2>5, HunkNumbers
      <3>2. c[k - 1] <= 0 /\ c[k] = 0
        BY <1>4, <2>5, <3>1 DEF Cursors
      <3>3. c[k - 1] = 0
        BY <1>5, <2>1, <3>2
      <3>4. kept = <<>>
        BY <3>1, <3>3, SubSeqEmpty
      <3>5. reading = <<>> /\ r[c[k]] = <<>>
        BY <1>7, <3>2, <3>3 DEF Read
      <3> HIDE DEF before, reading, kept, new
      <3>6. before \o <<>> = before
        BY <2>4, ConcatEmptySeq
      <3>7. a[k].out = before \o new
        BY <2>2, <3>4, <3>5, <3>6
      <3>8. before \o new \in Seq(L)
        BY <2>4, ConcatProperties
      <3>9. p[k] = before \o new
        BY <2>3, <2>5
      <3>10. a[k].out = p[k] \o r[c[k]]
        BY <3>5, <3>7, <3>8, <3>9, ConcatEmptySeq
      <3> QED BY <3>10
    <2>6. CASE hunks[k].oldCount # 0
      <3>1. c[k] <= len
        BY <1>1, <1>6, <2>1
      <3>2. r[c[k]] = (reading \o kept) \o new
        <4>1. /\ Cursors(hunks, c) /\ Read(r, lines, hunks, L)
              /\ k \in 1..Len(hunks) /\ hunks[k].oldCount # 0 /\ c[k] <= Len(lines)
          BY <1>4, <1>7, <2>6, <3>1
        <4>2. ReadBy(r, lines, hunks[k], c[k - 1], c[k])
          BY <4>1, HunkRead
        <4> QED BY <4>2 DEF ReadBy
      <3>3. kept \in Seq(L)
        <4>1. Target(hunks[k]) \in Nat /\ hunks[k].oldCount \in Nat
              /\ c[k] = Target(hunks[k]) + hunks[k].oldCount
          BY <1>4, HunkNumbers DEF Cursors
        <4>2. c[k - 1] + 1 \in Int /\ Target(hunks[k]) \in Int
              /\ (c[k - 1] + 1)..Target(hunks[k]) \subseteq 1..len
          BY <1>1, <1>5, <2>1, <3>1, <4>1
        <4>3. \A i \in 1..len : lines[i] \in L
          BY LenProperties
        <4> QED BY <4>2, <4>3, SubSeqProperties
      <3> HIDE DEF before, reading, kept, new
      <3>4. p[k] = before
        BY <2>3, <2>4, <2>6, ConcatEmptySeq
      <3>5. Cat(Cat(Cat(before, reading), kept), new) = Cat(before, Cat(Cat(reading, kept), new))
        BY <2>4, <3>3, FourParts
      <3>6. a[k].out = Cat(Cat(Cat(before, reading), kept), new)
        BY <2>2 DEF Cat
      <3>7. a[k].out = p[k] \o r[c[k]]
        BY <3>2, <3>4, <3>5, <3>6 DEF Cat
      <3> QED BY <3>7
    <2> QED BY <2>5, <2>6
  <1> HIDE DEF UpTo
  <1>13. UpTo(m)
    <2>1. 0 \in S
      BY <1>11
    <2>2. ASSUME NEW k \in S \cap Nat PROVE k + 1 \in S
      <3> SUFFICES ASSUME k + 1 <= m PROVE UpTo(k + 1)
        OBVIOUS
      <3>1. k + 1 \in 1..m /\ (k + 1) - 1 = k /\ UpTo(k)
        BY <1>1, <2>2
      <3> QED BY <1>12, <3>1
    <2> HIDE DEF S
    <2>3. m \in S
      BY <1>1, <2>1, <2>2, NatSetInduction
    <2> QED BY <1>1, <2>3 DEF S
  <1>14. r[len] = r[c[m]] \o SubSeq(lines, c[m] + 1, len)
    <2>1. m \in 0..m /\ c[m] \in 0..len /\ len \in c[m]..len /\ r[c[m]] \in Seq(L)
      BY <1>1, <1>6, <1>10
    <2>2. \A i \in (c[m] + 1)..len : r[i] = r[i - 1] \o <<lines[i]>>
      <3> SUFFICES ASSUME NEW i \in (c[m] + 1)..len PROVE r[i] = r[i - 1] \o <<lines[i]>>
        OBVIOUS
      <3>1. i \in Nat /\ i # 0 /\ i \in 1..len /\ c[m] < i
        BY <1>1, <2>1
      <3>2. Covering(hunks, i) = {}
        BY <1>4, <3>1, CoveredOnce
      <3> QED BY <1>7, <3>1, <3>2 DEF Read, Line
    <2> DEFINE first == c[m]
    <2>3. /\ first \in 0..Len(lines) /\ len \in first..Len(lines) /\ r[first] \in Seq(L)
          /\ \A i \in (first + 1)..len : r[i] = r[i - 1] \o <<lines[i]>>
      BY <2>1, <2>2
    <2> HIDE DEF first, len
    <2>4. r[len] = r[first] \o SubSeq(lines, first + 1, len)
      BY <2>3, LinesAdded
    <2> QED BY <2>4 DEF first
  <1>15. (p[m] \o r[c[m]]) \o SubSeq(lines, c[m] + 1, len)
            = p[m] \o (r[c[m]] \o SubSeq(lines, c[m] + 1, len))
    <2> DEFINE rest == SubSeq(lines, c[m] + 1, len)
               text == p[m]
               reading == r[c[m]]
    <2>1. m \in 0..m /\ c[m] \in Nat
      BY <1>1, <1>5
    <2>2. c[m] + 1 \in Int /\ len \in Int /\ \A i \in (c[m] + 1)..len : lines[i] \in L
      <3>1. \A i \in 1..len : lines[i] \in L
        BY LenProperties
      <3>2. (c[m] + 1)..len \subseteq 1..len
        BY <1>1, <2>1
      <3> QED BY <1>1, <2>1, <3>1, <3>2
    <2>3. rest \in Seq(L)
      BY <2>2, SubSeqProperties
    <2>4. text \in Seq(L) /\ reading \in Seq(L)
      BY <1>10, <2>1
    <2> HIDE DEF rest, text, reading
    <2>5. (text \o reading) \o rest = text \o (reading \o rest)
      BY <2>3, <2>4, ConcatAssociative
    <2> QED BY <2>5 DEF rest, text, reading
  <1>16. a[m].cursor = c[m] /\ a[m].out = p[m] \o r[c[m]]
    <2>1. m \in 0..m
      BY <1>1
    <2> QED BY <1>3, <1>13, <2>1 DEF UpTo
  <1> QED BY <1>2, <1>7, <1>8, <1>14, <1>15, <1>16

(* A file that a section applies to becomes what the section says, unless  *)
(* nothing remains of it.                                                  *)
THEOREM PatchReads ==
    ASSUME NEW tree, IsTree(tree), NEW section, PlacedHunks(section.hunks),
           SectionApplies(tree, section),
           Reading(Original(tree, section).lines, section.hunks) # <<>>
    PROVE  Applied(tree, section).lines = Reading(Original(tree, section).lines, section.hunks)
  <1> DEFINE base == Original(tree, section)
             lines == base.lines
             hunks == section.hunks
             done == ApplyHunks(lines, hunks)
             text == done.out \o SubSeq(lines, done.cursor + 1, Len(lines))
             L == Range(lines) \cup
                  UNION {{hunks[k].lines[i].line : i \in DOMAIN hunks[k].lines} : k \in DOMAIN hunks}
  <1>1. IsSequence(lines)
    <2>1. CASE section.old = DevNull
      <3>1. lines = <<>>
        BY <2>1 DEF Original, EmptyText
      <3> HIDE DEF lines
      <3> QED BY <3>1 DEF IsSequence
    <2>2. CASE section.old # DevNull
      <3>1. section.old \in DOMAIN tree /\ lines = tree[section.old].lines
        BY <2>2 DEF SectionApplies, Original
      <3> QED BY <3>1 DEF IsTree
    <2> QED BY <2>1, <2>2
  <1>2. lines \in Seq(L)
    <2>1. lines \in Seq(Range(lines)) /\ Range(lines) \subseteq L
      BY <1>1 DEF IsSequence
    <2> HIDE DEF L, lines
    <2> QED BY <2>1, SeqMonotonic
  <1>3. LinesIn(hunks, L)
    BY DEF LinesIn
  <1>4. done.ok
    BY DEF SectionApplies
  <1>5. Applied(tree, section) = Rendered(text, base.newline)
    BY DEF Applied
  <1> HIDE DEF base, lines, L, done
  <1>6. text = Reading(lines, hunks)
    BY <1>2, <1>3, <1>4, HunksRead DEF done
  <1>7. text # <<>>
    BY <1>6 DEF lines, base
  <1> HIDE DEF text
  <1>8. Rendered(text, base.newline).lines = text
    BY <1>7 DEF Rendered
  <1> QED BY <1>5, <1>6, <1>8 DEF lines, base

(* A diff of one section writes its file into the workspace.               *)
LEMMA OneSection ==
    ASSUME NEW base, NEW diff, Len(diff) = 1, diff[1].new # DevNull,
           WriteWorkspace(base, diff).ok
    PROVE  WriteWorkspace(base, diff).tree[diff[1].new] = Applied(base, diff[1])
  <1> DEFINE section == diff[1]
             first == [ok |-> TRUE, tree |-> base]
             left == IF Renames(section) THEN Without(base, section.old) ELSE base
  <1>1. PICK f : /\ f[0] = [ok |-> TRUE, tree |-> base]
                 /\ \A n \in 1..Len(diff) : f[n] = WriteSection(base, f[n - 1], diff[n])
                 /\ WriteWorkspace(base, diff) = f[Len(diff)]
    BY SectionsSteps
  <1>2. WriteWorkspace(base, diff) = WriteSection(base, first, section)
    <2>1. 1 \in 1..Len(diff) /\ 1 - 1 = 0
      OBVIOUS
    <2>2. f[1] = WriteSection(base, f[1 - 1], diff[1])
      BY <1>1, <2>1
    <2> QED BY <1>1, <2>1, <2>2
  <1>3. first.ok /\ first.tree = base
    OBVIOUS
  <1> HIDE DEF first
  <1>4. WriteSection(base, first, section).tree = Put(left, section.new, Applied(base, section))
    BY <1>2, <1>3 DEF WriteSection
  <1> HIDE DEF left
  <1>5. Put(left, section.new, Applied(base, section))[section.new] = Applied(base, section)
    BY DEF Put
  <1> QED BY <1>2, <1>4, <1>5

=============================================================================
