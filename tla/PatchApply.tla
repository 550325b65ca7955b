----------------------------- MODULE PatchApply -----------------------------
(***************************************************************************)
(* Unified diffs as agentic_lab applies them (gateway/patch_apply.py),     *)
(* once in the executor's workspace (executor/adapter.py) and once as a    *)
(* Git tree on GitHub (gateway/github.py).                                 *)
(*                                                                         *)
(* A tree is a function from paths to texts; a text is the lines of a file *)
(* and whether the last one ends in a newline.  A diff is a sequence of    *)
(* sections: two paths and the hunks.  A hunk has the numbers of its       *)
(* header and the marked lines that follow it up to the next header; the   *)
(* header's new_start is left out, no code reads it.  Paths are safe, base *)
(* files are text with one kind of line end, and the marker of a missing   *)
(* newline, which the code skips, is left out.                             *)
(***************************************************************************)
EXTENDS Naturals, Sequences, SequencesExt

CONSTANT DevNull      \* the path /dev/null, None in the code

----------------------------------------------------------------------------
(* parse_text_diff                                                         *)

(* The marks of a hunk's lines: " ", "-" and "+".                          *)
LinesMarked(marks, marked) ==
    LET upTo[n \in 0..Len(marked)] ==
          IF n = 0 THEN <<>>
          ELSE IF marked[n].mark \in marks THEN Append(upTo[n - 1], marked[n].line)
          ELSE upTo[n - 1]
    IN  upTo[Len(marked)]

OldSide(marked) == LinesMarked({"keep", "drop"}, marked)
NewSide(marked) == LinesMarked({"keep", "add"}, marked)

(* How many lines can be read before both counts of the header are met;    *)
(* none of the numbers when the lines overshoot a count or end before.     *)
MeetsCounts(hunk) ==
    {n \in 0..Len(hunk.lines) :
        /\ Len(OldSide(SubSeq(hunk.lines, 1, n))) = hunk.oldCount
        /\ Len(NewSide(SubSeq(hunk.lines, 1, n))) = hunk.newCount}

(* The body ends as soon as the counts are met.  A line behind it that is  *)
(* no header is skipped.                                                   *)
Body(hunk) == SubSeq(hunk.lines, 1, Min(MeetsCounts(hunk)))

ValidSection(section) ==
    /\ {section.old, section.new} # {DevNull}
    /\ section.hunks # <<>> \/ section.old # section.new
    /\ \A i \in DOMAIN section.hunks : MeetsCounts(section.hunks[i]) # {}

Parses(diff) == diff # <<>> /\ \A i \in DOMAIN diff : ValidSection(diff[i])

----------------------------------------------------------------------------
(* apply_text_diff                                                         *)

(* Mutant of Target: the line number is taken for an index.                *)
TargetAfter(hunk) == hunk.start

(* The number of lines in front of the hunk.                               *)
Target(hunk) == IF hunk.start = 0 THEN 0 ELSE hunk.start - 1

(* One hunk, on the lines of the base file: it may not begin before the    *)
(* cursor, and its old lines must be there.                                *)
Fits(lines, done, hunk) ==
    /\ done.ok
    /\ done.cursor <= Target(hunk)
    /\ Target(hunk) + Len(OldSide(Body(hunk))) <= Len(lines)
    /\ \A i \in DOMAIN OldSide(Body(hunk)) :
         lines[Target(hunk) + i] = OldSide(Body(hunk))[i]

ApplyHunk(lines, done, hunk) ==
    IF Fits(lines, done, hunk)
      THEN [ok     |-> TRUE,
            cursor |-> Target(hunk) + Len(OldSide(Body(hunk))),
            out    |-> done.out \o SubSeq(lines, done.cursor + 1, Target(hunk))
                                \o NewSide(Body(hunk))]
      ELSE [done EXCEPT !.ok = FALSE]

ApplyHunks(lines, hunks) ==
    LET after[k \in 0..Len(hunks)] ==
          IF k = 0 THEN [ok |-> TRUE, cursor |-> 0, out |-> <<>>]
          ELSE ApplyHunk(lines, after[k - 1], hunks[k])
    IN  after[Len(hunks)]

EmptyText == [lines |-> <<>>, newline |-> FALSE]

(* "\n".join(lines), with one more newline if the original ended in one.   *)
Rendered(lines, newline) ==
    [lines |-> IF lines = <<>> /\ newline THEN <<"">> ELSE lines, newline |-> newline]

(* The base of a section; a new file counts as ending in a newline.        *)
Original(tree, section) ==
    IF section.old = DevNull THEN [EmptyText EXCEPT !.newline = TRUE] ELSE tree[section.old]

SectionApplies(tree, section) ==
    /\ section.old \in DOMAIN tree \cup {DevNull}
    /\ ApplyHunks(Original(tree, section).lines, section.hunks).ok

(* Every section is applied to the base, not to what an earlier section    *)
(* made of it.                                                             *)
Applies(tree, diff) ==
    Parses(diff) /\ \A i \in DOMAIN diff : SectionApplies(tree, diff[i])

Applied(tree, section) ==
    LET base == Original(tree, section)
        done == ApplyHunks(base.lines, section.hunks)
    IN  Rendered(done.out \o SubSeq(base.lines, done.cursor + 1, Len(base.lines)),
                 base.newline)

----------------------------------------------------------------------------
(* Writing the files                                                       *)

Put(tree, path, text) ==
    [p \in DOMAIN tree \cup {path} |-> IF p = path THEN text ELSE tree[p]]
Without(tree, path)   == Restrict(tree, DOMAIN tree \ {path})

Renames(section) == section.old # DevNull /\ section.old # section.new

(* Mutant of WriteSection: the old name of a renamed file is left.         *)
WriteWithoutUnlink(base, done, section) ==
    IF ~done.ok THEN done
    ELSE [ok |-> TRUE,
          tree |-> IF section.new = DevNull THEN Without(done.tree, section.old)
                   ELSE Put(done.tree, section.new, Applied(base, section))]

(* _apply_workspace_diff writes one section after the other.  The unlink   *)
(* of an old name raises when an earlier section has removed it.           *)
WriteSection(base, done, section) ==
    IF ~done.ok \/ (Renames(section) /\ section.old \notin DOMAIN done.tree)
      THEN [done EXCEPT !.ok = FALSE]
      ELSE LET left == IF Renames(section) THEN Without(done.tree, section.old)
                       ELSE done.tree
           IN  [ok |-> TRUE,
                tree |-> IF section.new = DevNull THEN left
                         ELSE Put(left, section.new, Applied(base, section))]

WriteWorkspace(base, diff) ==
    LET after[k \in 0..Len(diff)] ==
          IF k = 0 THEN [ok |-> TRUE, tree |-> base]
          ELSE WriteSection(base, after[k - 1], diff[k])
    IN  after[Len(diff)]

(* The tree entries apply_unified_diff posts: a null sha for an old name,  *)
(* a blob for a new one.                                                   *)
Entries(base, section) ==
    (IF Renames(section) THEN <<[path |-> section.old, removed |-> TRUE]>> ELSE <<>>)
    \o (IF section.new = DevNull THEN <<>>
        ELSE <<[path |-> section.new, removed |-> FALSE, text |-> Applied(base, section)]>>)

(* POST /git/trees with base_tree: an entry replaces what is at its path,  *)
(* and a later entry an earlier one.                                       *)
PostEntry(tree, e) == IF e.removed THEN Without(tree, e.path) ELSE Put(tree, e.path, e.text)

PostTree(base, entries) ==
    LET after[k \in 0..Len(entries)] ==
          IF k = 0 THEN base ELSE PostEntry(after[k - 1], entries[k])
    IN  after[Len(entries)]

PushedTree(base, diff) ==
    PostTree(base, FlattenSeq([i \in DOMAIN diff |-> Entries(base, diff[i])]))

----------------------------------------------------------------------------
(* Two trees side by side                                                  *)

Agree(tree, other, path) ==
    /\ path \in DOMAIN tree <=> path \in DOMAIN other
    /\ path \in DOMAIN tree => tree[path] = other[path]

(* The paths that a diff writes or removes.                                *)
TouchedBy(section) == {section.old, section.new} \ {DevNull}
Touched(diff)      == UNION {TouchedBy(diff[i]) : i \in DOMAIN diff}

----------------------------------------------------------------------------
(* What a unified diff says, line by line of the base file                 *)

(* At line i of the file stands what a hunk puts in place of the lines it  *)
(* covers; a hunk without old lines is read after line i.                  *)
Replacing(hunks, i)  == {k \in DOMAIN hunks : hunks[k].oldCount > 0 /\ hunks[k].start = i}
Covering(hunks, i)   == {k \in DOMAIN hunks : /\ hunks[k].start <= i
                                              /\ i < hunks[k].start + hunks[k].oldCount}
InsertedAt(hunks, i) == {k \in DOMAIN hunks : hunks[k].oldCount = 0 /\ hunks[k].start = i}

TextOf(hunks, which) ==
    FlattenSeq([k \in DOMAIN hunks |-> IF k \in which THEN NewSide(hunks[k].lines) ELSE <<>>])

Reading(lines, hunks) ==
    TextOf(hunks, InsertedAt(hunks, 0)) \o
    FlattenSeq([i \in DOMAIN lines |->
        (IF Covering(hunks, i) = {} THEN <<lines[i]>> ELSE TextOf(hunks, Replacing(hunks, i)))
        \o TextOf(hunks, InsertedAt(hunks, i))])

(* The numbers of the header are those of the lines under it.              *)
CountsAreRight(hunk) ==
    /\ hunk.oldCount = Len(OldSide(hunk.lines))
    /\ hunk.newCount = Len(NewSide(hunk.lines))

----------------------------------------------------------------------------
(* What the parser and a snapshot give                                     *)

IsSequence(s) == s \in Seq(Range(s))

IsHunk(hunk) ==
    /\ hunk.start \in Nat /\ hunk.oldCount \in Nat /\ hunk.newCount \in Nat
    /\ IsSequence(hunk.lines)
    /\ \A i \in DOMAIN hunk.lines : hunk.lines[i].mark \in {"keep", "drop", "add"}

IsDiff(diff) ==
    /\ IsSequence(diff)
    /\ \A i \in DOMAIN diff : /\ IsSequence(diff[i].hunks)
                              /\ \A k \in DOMAIN diff[i].hunks : IsHunk(diff[i].hunks[k])

IsTree(tree) ==
    /\ tree \in [DOMAIN tree -> Range(tree)]
    /\ \A p \in DOMAIN tree : IsSequence(tree[p].lines)
=============================================================================
