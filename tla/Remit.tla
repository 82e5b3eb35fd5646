------------------------------- MODULE Remit -------------------------------
(***************************************************************************)
(* internal/workspace, after the run: the two checks on the worktree as    *)
(* the agent left it (SharesMergeBase, DiffInsideRemit).  A path and a     *)
(* remit pattern are strings, here sequences of tokens: "/", "*" and       *)
(* pieces of names, so that one name may be a proper prefix of another.    *)
(*                                                                         *)
(* What became of the paths is the agent's doing and git's.  Their fate is *)
(* what the worktree shows of them: a path of the base commit is kept,     *)
(* edited or removed; another is absent, or added to the index, or left    *)
(* untracked, or ignored.  The tree's branch is another matter: the paths  *)
(* whose content on the task's branch, as committed and pushed, is not     *)
(* that of the base commit.  The two need not agree: an agent may leave an *)
(* edit uncommitted, or commit one, push it and undo it in the worktree.   *)
(***************************************************************************)
EXTENDS Naturals, SequencesExt

HasPrefix(s, p) == IsPrefix(p, s)
TrimSuffix(s, suffix) == IF IsSuffix(suffix, s) THEN SubSeq(s, 1, Len(s) - Len(suffix)) ELSE s

Slash == <<"/">>
controlDir == <<".mandat", "/">>

BaseFate == {"kept", "edited", "removed"}
NewFate == {"absent", "added", "untracked", "ignored"}

(* path.Match, of patterns whose one metacharacter is the star: it stands  *)
(* for any run of tokens without a slash.                                  *)
Match(pattern, name) ==
  LET match[at \in (1..(Len(pattern) + 1)) \X (1..(Len(name) + 1))] ==
        LET i == at[1]
            j == at[2]
        IN  IF i > Len(pattern) THEN j > Len(name)
            ELSE IF pattern[i] = "*"
              THEN match[<<i + 1, j>>] \/ (j <= Len(name) /\ name[j] # "/" /\ match[<<i, j + 1>>])
              ELSE j <= Len(name) /\ name[j] = pattern[i] /\ match[<<i + 1, j + 1>>]
  IN  match[<<1, 1>>]

\* Mutant of pathInRemit: a directory prefix is a prefix of the string.
pathStartsInRemit(changed, patterns) ==
  \E raw \in patterns : HasPrefix(changed, TrimSuffix(raw, Slash)) \/ Match(raw, changed)

\* Mutant of pathInRemit: a pattern covers what is below it only when it ends in a slash.
pathInRemitDir(changed, patterns) ==
  \E raw \in patterns :
    \/ changed = raw \/ Match(raw, changed)
    \/ IsSuffix(Slash, raw) /\ HasPrefix(changed, raw)

pathInRemit(changed, patterns) ==
  \E raw \in patterns :
    LET p == TrimSuffix(raw, Slash)
    IN  changed = p \/ HasPrefix(changed, p \o Slash) \/ Match(raw, changed)

----------------------------------------------------------------------------
(* What git prints.  A name with a quotation mark or a byte outside ASCII  *)
(* is printed quoted, and its bytes escaped (core.quotePath is on by       *)
(* default); of a pair of a removed path and an added one that git takes   *)
(* for a rename, only the new name is printed.                             *)

Mark == "\""
Escaped == {"o-umlaut", Mark}
Quoted(p) == \E i \in DOMAIN p : p[i] \in Escaped
Printed(p) == IF Quoted(p) THEN <<Mark>> \o p \o <<Mark>> ELSE p

Fated(tree, fates) == {p \in DOMAIN tree.fate : tree.fate[p] \in fates}

\* `git diff --name-only <base>` compares the worktree with the base commit: tree.branch is not read.
gitDiff(tree) ==
  Fated(tree, {"edited", "added"})
    \cup {p \in Fated(tree, {"removed"}) : \A rename \in tree.renames : rename[1] # p}

gitUntracked(tree) == Fated(tree, {"untracked"})

\* Mutant of changedPaths: the diff against the base commit alone.
trackedPaths(tree) == {Printed(p) : p \in gitDiff(tree)}

changedPaths(tree) == {Printed(p) : p \in gitDiff(tree) \cup gitUntracked(tree)}

DiffInsideRemit(tree, patterns) ==
  IF tree.git = "broken" THEN "error"
  ELSE IF \E p \in changedPaths(tree) : ~HasPrefix(p, controlDir) /\ ~pathInRemit(p, patterns)
    THEN "violation"
    ELSE "pass"

(* git merge-base exits 1 for "no common ancestor" alone; any other        *)
(* failure is operational.                                                 *)
SharesMergeBase(tree) ==
  CASE tree.git = "broken" \/ tree.head = "unresolvable" -> "error"
    [] tree.git = "works" /\ tree.head = "orphan" -> "violation"
    [] OTHER -> "pass"

CheckWorktree(tree, patterns) ==
  [ancestry |-> SharesMergeBase(tree), diff |-> DiffInsideRemit(tree, patterns)]

----------------------------------------------------------------------------
(* The PreToolUse hook (cmd/mandat/remitguard.go).  Here a path is the     *)
(* sequence of its segments, and rooted when it is absolute.               *)

Path(rooted, segments) == [rooted |-> rooted, segments |-> segments]
NoPath == Path(FALSE, <<>>)

\* filepath.Clean of an absolute path: "." goes, ".." takes its parent away and the root is its own.
Element(done, s) ==
  IF s = "." THEN done
  ELSE IF s = ".." THEN IF done = <<>> THEN <<>> ELSE Front(done)
  ELSE Append(done, s)

Clean(segments) == FoldLeft(Element, <<>>, segments)

Abs(path, base) == Clean(IF path.rooted THEN path.segments ELSE base \o path.segments)

Rel(base, target) ==
  LET shared == Len(LongestCommonPrefix({base, target}))
  IN  [i \in 1..(Len(base) - shared) |-> ".."] \o SubSeq(target, shared + 1, Len(target))

\* Mutant of Escapes: only the parent itself is an escape.
EscapesToParent(rel) == rel = <<"..">>

Escapes(rel) == rel # <<>> /\ rel[1] = ".."

(* It denies what resolves outside the worktree, and nothing else: input   *)
(* it cannot read, no path, or no worktree, all pass.                      *)
remitGuard(input, worktree, cwd) ==
  IF ~input.decodes \/ input.file_path = NoPath \/ worktree = NoPath THEN "allow"
  ELSE LET absWorktree == Abs(worktree, cwd)
       IN  IF Escapes(Rel(absWorktree, Abs(input.file_path, absWorktree))) THEN "deny" ELSE "allow"

remitGuardCmd(flagsParse, input, worktree, cwd) ==
  [exit |-> IF flagsParse THEN 0 ELSE 2,
   decision |-> IF flagsParse THEN remitGuard(input, worktree, cwd) ELSE "none"]
=============================================================================
