--------------------------- MODULE MCEvidenceRead ---------------------------
(***************************************************************************)
(* Instances of EvidenceRead for TLC: heads with fewer files than a page,  *)
(* as many as are kept, and more; small files with blank lines, lines over *)
(* the byte limit and symbols over the line limit.                         *)
(***************************************************************************)
EXTENDS EvidenceRead, TLC

CONSTANTS s0, s1, s2, s3, a, b, f, g

(* No file, one page and a half, as many as are kept, and more.            *)
HeadFiles == s0 :> <<>> @@ s1 :> <<1, 2, 3>> @@ s2 :> <<4, 5, 6, 7>> @@ s3 :> <<1, 2, 3, 4, 5>>

Member(lines) == [lines |-> lines, text |-> TRUE]

Members == f :> Member(<<<<a>>, <<>>, <<a, b>>, <<a>>>>)
        @@ g :> [lines |-> <<<<b>>>>, text |-> FALSE]
        @@ b :> Member(<<<<a, b, a, b, a>>>>)

Archives == [s \in {s0, s1, s2, s3} |-> Members]

(* Two lines, and all of a file.                                           *)
TheSymbols == {[path |-> f, start |-> 3, end |-> 4], [path |-> f, start |-> 1, end |-> 4],
               [path |-> b, start |-> 1, end |-> 1]}

Asked == [role |-> "ci", listed |-> TRUE, immutable |-> TRUE, identified |-> {"diff", "check"},
          pull |-> TRUE, check |-> TRUE, pinned |-> s1, checked |-> s1]

(* One defect each: the numbers of pull request and check run may be       *)
(* invalid apart.                                                          *)
Defective == {[Asked EXCEPT !.listed = FALSE], [Asked EXCEPT !.immutable = FALSE],
              [Asked EXCEPT !.identified = {"diff"}], [Asked EXCEPT !.identified = {"check"}],
              [Asked EXCEPT !.identified = {"diff"}, !.pull = FALSE],
              [Asked EXCEPT !.checked = s2], [Asked EXCEPT !.role = "scout", !.listed = FALSE]}

Requests ==
    Defective
    \cup {[Asked EXCEPT !.role = r, !.pull = p, !.check = c] :
            r \in {"scout", "assessor", "ci"}, p \in BOOLEAN, c \in BOOLEAN}
    \cup {[Asked EXCEPT !.pinned = s, !.checked = s] : s \in {s0, s2, s3}}

TheAnnotations == <<1, 2, 3, 4, 5, 6>>
=============================================================================
