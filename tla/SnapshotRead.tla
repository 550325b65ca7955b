---------------------------- MODULE SnapshotRead ----------------------------
(***************************************************************************)
(* What the tools of agentic_lab read from a repository snapshot           *)
(* (tools/snapshot.py), which excerpts an artifact may cite                *)
(* (tools/registry.py) and how a citation is resolved                      *)
(* (evaluation/evaluators.py).                                             *)
(*                                                                         *)
(* A snapshot is a function from paths to files, a file a sequence of      *)
(* lines, a line a sequence of characters of one byte; a content hash is   *)
(* the excerpt itself.  Paths are safe; a search may match any line and    *)
(* the parser finds the symbols it is given.                               *)
(***************************************************************************)
EXTENDS Naturals, Sequences, SequencesExt

CONSTANTS
    NewLine,
    MaxReadLines,     \* MAX_READ_LINES and MAX_READ_BYTES
    MaxReadBytes

(* The lines of a file.                                                    *)
IsSequence(s) == s \in Seq(Range(s))
IsText(lines) == IsSequence(lines) /\ \A i \in DOMAIN lines : IsSequence(lines[i])

ASSUME LimitsArePositive == MaxReadLines \in Nat \ {0} /\ MaxReadBytes \in Nat \ {0}

(* "\n".join(lines)                                                        *)
Joined(lines) ==
    LET upTo[n \in 0..Len(lines)] ==
          IF n = 0 THEN <<>>
          ELSE IF n = 1 THEN lines[1]
          ELSE upTo[n - 1] \o <<NewLine>> \o lines[n]
    IN  upTo[Len(lines)]

(* _truncate_utf8                                                          *)
Cut(text) == SubSeq(text, 1, Min({Len(text), MaxReadBytes}))

Window(lines, start, end) == SubSeq(lines, start, Min({end, Len(lines)}))

----------------------------------------------------------------------------
(* read_file                                                               *)

Refused(files, path, start, end) ==
    \/ start < 1 \/ end < start \/ end - start >= MaxReadLines
    \/ path \notin DOMAIN files

NewLines(text) == Cardinality({i \in DOMAIN text : text[i] = NewLine})

(* Mutant of More: a cut within the window is not told.                    *)
MoreLines(lines, end, text, full) == Len(lines) > end

(* There is more behind the window, or the byte limit has cut it.          *)
More(lines, end, text, full) == Len(lines) > end \/ text # full

(* The locator ends where the excerpt was cut.                             *)
ReadFile(files, path, start, end) ==
    LET lines == files[path]
        full  == Joined(Window(lines, start, end))
        text  == Cut(full)
    IN  [path |-> path, start |-> start,
         end  |-> Min({end, Len(lines), start + NewLines(text)}),
         text |-> text, truncated |-> More(lines, end, text, full)]

(* _locator, of the excerpt from start to end.                             *)
Locator(files, path, start, end) ==
    [path |-> path, start |-> start, end |-> end,
     text |-> Cut(Joined(Window(files[path], start, end)))]

----------------------------------------------------------------------------
(* What the tools of a run can return                                      *)

Windows(files) ==
    UNION {[path : {p}, start : 1..Len(files[p]) + 2, end : 1..Len(files[p]) + 2] :
             p \in DOMAIN files}

Reads(files) ==
    {ReadFile(files, w.path, w.start, w.end) :
       w \in {v \in Windows(files) : ~Refused(files, v.path, v.start, v.end)}}

(* Mutant of TextMatches: the lines are counted from 0.                    *)
TextMatchesFromZero(files) ==
    UNION {{[Locator(files, p, n, n) EXCEPT !.start = n - 1, !.end = n - 1] :
              n \in DOMAIN files[p]} : p \in DOMAIN files}

(* search_text: the locator of a line.                                     *)
TextMatches(files) ==
    UNION {{Locator(files, p, n, n) : n \in DOMAIN files[p]} : p \in DOMAIN files}

(* search_structure: the locator of a function or class, which may be of   *)
(* any length.                                                             *)
StructureMatches(files, symbols) ==
    {Locator(files, s.path, s.start, s.end) : s \in {t \in symbols : t.path \in DOMAIN files}}

Place(l) == [path |-> l.path, start |-> l.start, end |-> l.end]

----------------------------------------------------------------------------
(* Citations                                                               *)

(* canonical_locator: the place of an excerpt that a tool has returned; it *)
(* is the claimed one, or the only one in the claimed path, or the only    *)
(* one at all.                                                             *)
CanonicalLocator(located, claimed, text) ==
    LET candidates == {Place(l) : l \in {m \in located : m.text = text}}
        inPath     == {c \in candidates : c.path = claimed.path}
    IN  IF claimed \in candidates THEN {claimed}
        ELSE IF Cardinality(inPath) = 1 THEN inPath
        ELSE IF Cardinality(candidates) = 1 THEN candidates
        ELSE {}

(* citation_resolution: the place is read again and has the same excerpt.  *)
Resolves(files, place, text) ==
    /\ ~Refused(files, place.path, place.start, place.end)
    /\ text # <<>>
    /\ ReadFile(files, place.path, place.start, place.end).text = text
=============================================================================
