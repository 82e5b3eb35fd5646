----------------------------- MODULE ConfigDiff -----------------------------
(***************************************************************************)
(* The diff `mandat init` shows before it writes (init.go 290-346).  A     *)
(* document is a sequence of characters, "\n" among them.                  *)
(***************************************************************************)
EXTENDS Naturals, SequencesExt, Decision

CONSTANT Documents     \* the documents compared

ASSUME DocumentsAssumption == Documents \subseteq Seq(STRING)

Newline == "\n"

\* An empty document has no line, and the one trailing newline starts none.
splitConfigLines(s) ==
  LET text == IF s # <<>> /\ Last(s) = Newline THEN Front(s) ELSE s
  IN  IF s = <<>> THEN <<>>
      ELSE FoldLeft(LAMBDA lines, ch : IF ch = Newline THEN Append(lines, <<>>)
                                       ELSE Append(Front(lines), Append(Last(lines), ch)),
                    <<<<>>>>, text)

Places(old, new) == (1..(Len(old) + 1)) \X (1..(Len(new) + 1))

\* The length of the longest common subsequence of old[i..] and new[j..], at <<i, j>>.
LCS(old, new) ==
  LET lcs[at \in Places(old, new)] ==
        LET i == at[1]
            j == at[2]
        IN  IF i > Len(old) \/ j > Len(new) THEN 0
            ELSE IF old[i] = new[j] THEN lcs[<<i + 1, j + 1>>] + 1
            ELSE IF lcs[<<i + 1, j>>] >= lcs[<<i, j + 1>>] THEN lcs[<<i + 1, j>>]
            ELSE lcs[<<i, j + 1>>]
  IN  lcs

\* How a line of both documents is marked.
Blank == " "

Row(mark, line) == [mark |-> mark, line |-> line]

\* The lines from place k on, each marked.
Rest(mark, lines, k) == [n \in 1..(Len(lines) - k + 1) |-> Row(mark, lines[k + n - 1])]

\* Mutant of Rows: what is left of the new lines is not printed.
RowsOfOld(old, new) ==
  LET lcs == LCS(old, new)
      rows[at \in Places(old, new)] ==
        LET i == at[1]
            j == at[2]
        IN  IF i > Len(old) THEN <<>>
            ELSE IF j > Len(new) THEN Rest("-", old, i)
            ELSE IF old[i] = new[j] THEN <<Row(Blank, old[i])>> \o rows[<<i + 1, j + 1>>]
            ELSE IF lcs[<<i + 1, j>>] >= lcs[<<i, j + 1>>]
              THEN <<Row("-", old[i])>> \o rows[<<i + 1, j>>]
              ELSE <<Row("+", new[j])>> \o rows[<<i, j + 1>>]
  IN  rows[<<1, 1>>]

Rows(old, new) ==
  LET lcs == LCS(old, new)
      rows[at \in Places(old, new)] ==
        LET i == at[1]
            j == at[2]
        IN  IF i > Len(old) THEN Rest("+", new, j)
            ELSE IF j > Len(new) THEN Rest("-", old, i)
            ELSE IF old[i] = new[j] THEN <<Row(Blank, old[i])>> \o rows[<<i + 1, j + 1>>]
            ELSE IF lcs[<<i + 1, j>>] >= lcs[<<i, j + 1>>]
              THEN <<Row("-", old[i])>> \o rows[<<i + 1, j>>]
              ELSE <<Row("+", new[j])>> \o rows[<<i, j + 1>>]
  IN  rows[<<1, 1>>]

renderConfigDiff(oldContent, newContent) ==
  Rows(splitConfigLines(oldContent), splitConfigLines(newContent))

DiffRequests == [kind : {"diff"}, old : Documents, new : Documents]

ShowDiff == Decide("diff", LAMBDA r : renderConfigDiff(r.old, r.new))

Side(rows, other) ==
  FoldRight(LAMBDA row, lines : IF row.mark # other THEN <<row.line>> \o lines ELSE lines, rows, <<>>)

\* Which old lines a common subsequence may keep: each goes to an equal new line, and in order.
Common(old, new) ==
  {I \in SUBSET DOMAIN old : \E to \in [I -> DOMAIN new] :
     /\ \A i \in I : new[to[i]] = old[i]
     /\ \A i, j \in I : i < j => to[i] < to[j]}

(***************************************************************************)
(* What the operator is asked to confirm is the change itself: the rows    *)
(* but the added ones are the file there is, the rows but the removed ones *)
(* the file there will be, line for line (so that a diff without a mark    *)
(* changes at most a trailing newline), and no diff marks fewer lines      *)
(* (US-0013 AC-13.12).                                                     *)
(***************************************************************************)
DiffReplays ==
  Decided("diff") =>
    LET old == splitConfigLines(request.old)
        new == splitConfigLines(request.new)
        same == Cardinality({k \in DOMAIN Answer : Answer[k].mark = Blank})
    IN  /\ Side(Answer, "+") = old /\ Side(Answer, "-") = new
        /\ \A I \in Common(old, new) : Cardinality(I) <= same
=============================================================================
