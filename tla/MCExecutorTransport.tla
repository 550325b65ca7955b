------------------------ MODULE MCExecutorTransport ------------------------
(***************************************************************************)
(* Instances of ExecutorTransport for TLC: launches that compete for one   *)
(* run directory or for two, and single launches with every small diff, on *)
(* the files of the source SHA or on what is left of them in a snapshot.   *)
(***************************************************************************)
EXTENDS ExecutorTransport

CONSTANTS l1, l2, f, g, h, a, b

Text(lines) == [lines |-> lines, newline |-> TRUE]

(* Repeated lines, so that a hunk can fit in a wrong place.                *)
Tree == (f :> Text(<<a, a, b>>)) @@ (g :> Text(<<a>>))

Section(old, new, hunks) == [old |-> old, new |-> new, hunks |-> hunks]

Marked == [mark : {"keep", "drop", "add"}, line : {a, b}]

Hunk(start, oldCount, newCount, lines) ==
    [start |-> start, oldCount |-> oldCount, newCount |-> newCount, lines |-> lines]

Counted(start, lines) == Hunk(start, Len(OldSide(lines)), Len(NewSide(lines)), lines)

Short == UNION {[1..n -> Marked] : n \in 1..2}

(* One hunk on f, with right and wrong counts, anywhere.                   *)
OneHunk == {<<Section(f, f, <<Hunk(start, old, new, lines)>>)>> :
              start \in 0..3, old \in 0..2, new \in 0..2, lines \in Short}

(* Two hunks on f, of which the second may be out of place.                *)
TwoHunks == {<<Section(f, f, <<Counted(i, x), Counted(j, y)>>)>> :
               i \in 0..2, j \in 1..3,
               x \in {m \in Short : Len(m) = 1}, y \in {m \in Short : m[1].mark = "drop"}}

(* Two sections: files created, edited, renamed and deleted, each by one   *)
(* section or both.                                                        *)
AddA == <<Counted(0, <<[mark |-> "add", line |-> a]>>)>>
Sections == {Section(old, new, hunks) : old \in {f, g, DevNull}, new \in {f, h, DevNull},
                                        hunks \in {<<>>, AddA}}
TwoSections == {<<x, y>> : x \in Sections, y \in Sections}

Job(run, recipe, diff) ==
    [run |-> run, recipe |-> recipe, base |-> Tree, files |-> Tree, diff |-> diff, valid |-> TRUE]

Unasked == [Job(0, 0, <<>>) EXCEPT !.valid = FALSE]

AnEdit == <<Section(g, g, AddA)>>

(* Two launches of one run: the same recipe with the same or other         *)
(* arguments, or two recipes.                                              *)
Competing == {(l1 :> Job(1, 1, <<>>)) @@ (l2 :> job) :
                job \in {Job(1, 1, <<>>), Job(1, 1, AnEdit), Job(1, 2, <<>>)}}

Single(diffs) == {(l1 :> Job(1, 1, diff)) @@ (l2 :> Unasked) : diff \in diffs}

(* The snapshot lacks g, a large file, or has replaced what is no UTF-8 in *)
(* it.                                                                     *)
Stripped(diffs) == {(l1 :> [Job(1, 1, diff) EXCEPT !.files = files]) @@ (l2 :> Unasked) :
                      diff \in diffs, files \in {f :> Tree[f], [Tree EXCEPT ![g] = Text(<<b>>)]}}

AllScenarios == Competing \cup Single(OneHunk \cup TwoHunks \cup TwoSections)
                          \cup Stripped({<<x>> : x \in Sections}
                                   \cup {d \in TwoSections : d[2].old = g})

(* A header that counts one line, and an added line behind it.             *)
Miscounted == {<<Section(f, f, <<Hunk(1, 1, 1, <<[mark |-> "keep", line |-> a],
                                                 [mark |-> "add", line |-> x]>>)>>)>> :
                 x \in {a, b}}
MiscountedScenarios == Single(Miscounted)

(* An edit of f, tested without the g that it is pushed with.              *)
StrippedScenarios == Stripped({<<Section(f, f, AddA)>>})
============================================================================
