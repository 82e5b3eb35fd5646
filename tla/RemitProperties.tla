-------------------------- MODULE RemitProperties --------------------------
(***************************************************************************)
(* What the two layers of the remit promise, said of path segments and of  *)
(* fates, never of the strings the code compares.                          *)
(***************************************************************************)
EXTENDS Remit, Decision

CONSTANTS
  Base, New,      \* paths of the base commit, and others
  Branches,       \* what the task's branch may have changed of them
  Remits,         \* the remit patterns checked, as sets
  Worktrees,      \* what --worktree may be
  Targets         \* what the tool may be about to write

\* git names files, never a directory.
ASSUME PathsAssumption ==
  /\ Base \cap New = {} /\ Base \cup New \subseteq Seq(STRING)
  /\ \A p \in Base \cup New : p # <<>> /\ ~IsSuffix(Slash, p)

ASSUME BranchesAssumption == Branches \subseteq SUBSET (Base \cup New)

ASSUME RemitsAssumption == \A patterns \in Remits : patterns \subseteq Seq(STRING)

ASSUME TargetsAssumption ==
  Worktrees \cup Targets \subseteq [rooted : BOOLEAN, segments : Seq(STRING)]

Fates ==
  {f \in [Base \cup New -> BaseFate \cup NewFate] :
     /\ \A p \in Base : f[p] \in BaseFate
     /\ \A p \in New : f[p] \in NewFate}

\* git pairs a removed path with at most one added path.
Renames(fate) ==
  {R \in SUBSET ({p \in Base : fate[p] = "removed"} \X {p \in New : fate[p] = "added"}) :
     \A a, b \in R : a # b => a[1] # b[1] /\ a[2] # b[2]}

Tree(fate, branch, renames, head, git) ==
  [fate |-> fate, branch |-> branch, renames |-> renames, head |-> head, git |-> git]

RemitRequests ==
  {[kind |-> "remit", patterns |-> r, tree |-> t] :
     r \in Remits,
     t \in (UNION {{Tree(f, b, R, "descends", "works") : R \in Renames(f), b \in Branches} : f \in Fates})
           \cup {Tree([p \in Base \cup New |-> IF p \in Base THEN "kept" ELSE "absent"], b, {}, h, g) :
                   b \in Branches, h \in {"descends", "orphan", "unresolvable"}, g \in {"works", "broken"}}}

CheckRemit == Decide("remit", LAMBDA r : CheckWorktree(r.tree, r.patterns))

Input(decodes, path) == [decodes |-> decodes, file_path |-> path]
Cwd == <<"home">>

GuardRequests ==
  [kind : {"guard"}, parse : BOOLEAN, worktree : Worktrees,
   input : {Input(d, p) : d \in BOOLEAN, p \in Targets}]

GuardWrite == Decide("guard", LAMBDA r : remitGuardCmd(r.parse, r.input, r.worktree, Cwd))

----------------------------------------------------------------------------
(* A path lies in the remit when a pattern names it, or a directory above  *)
(* it, or matches it segment by segment.                                   *)

Splits(done, t) ==
  IF t = "/" THEN Append(done, <<>>) ELSE Append(Front(done), Append(Last(done), t))

Segments(s) == FoldLeft(Splits, <<<<>>>>, s)

Covers(pattern, path) ==
  LET segs == Segments(TrimSuffix(pattern, Slash))
      names == Segments(path)
  IN  \/ IsPrefix(segs, names)
      \/ /\ Len(segs) = Len(names) /\ ~IsSuffix(Slash, pattern)
         /\ \A i \in DOMAIN segs : Match(segs[i], names[i])

Inside(path, patterns) == \E p \in patterns : Covers(p, path)
Control(path) == Segments(path)[1] = <<".mandat">> /\ Len(Segments(path)) > 1
Outside(r) == {p \in Base \cup New : ~Inside(p, r.patterns) /\ ~Control(p)}

Passes == Answer.ancestry = "pass" /\ Answer.diff = "pass"
Source(r) == {rename[1] : rename \in r.tree.renames}

\* The paths whose change the worktree shows.
Shown(tree) == {p \in Base \cup New : tree.fate[p] \notin {"kept", "absent", "ignored"}}

(***************************************************************************)
(* A run that passes descends from the base commit and its worktree shows  *)
(* every path outside the remit as the base commit has it: none edited,    *)
(* added or left untracked, and none removed, but for a removal git        *)
(* reports as a rename (workspace.go 240-313).  Of the branch, which is    *)
(* what the pull request holds, that says as much as the worktree does:    *)
(* it is inside the remit provided nothing it changed was undone in the    *)
(* worktree.  What is committed outside the remit and then undone there    *)
(* passes, though RFC-0001 AC-16 asks for the branch's diff.  A pattern    *)
(* that holds a quotation mark may match what git prints of a name and not *)
(* the name.                                                               *)
(***************************************************************************)
OutOfRemitCaught ==
  /\ Decided("remit") /\ Passes
  /\ \A pattern \in request.patterns : Mark \notin ToSet(pattern)
  =>
    /\ request.tree.head = "descends"
    /\ Shown(request.tree) \cap Outside(request) \subseteq Source(request)
    /\ request.tree.branch \subseteq Shown(request.tree)
         => request.tree.branch \cap Outside(request) \subseteq Source(request)

(***************************************************************************)
(* A run that stayed inside its remit is not held: the diff passes when    *)
(* every path whose change the worktree shows lies in the remit or in      *)
(* .mandat/, provided git prints its name as it is.                        *)
(***************************************************************************)
InRemitPasses ==
  /\ Decided("remit")
  /\ request.tree.git = "works"
  /\ \A p \in Shown(request.tree) : p \notin Outside(request) /\ ~Quoted(p)
  => Answer.diff = "pass"

(***************************************************************************)
(* "the set of paths the run changed against the base commit ... or nil    *)
(* when every change stays inside it" (workspace.go 240-242), of removals: *)
(* a run whose worktree is without a path of the base commit that lies     *)
(* outside the remit does not pass.                                        *)
(***************************************************************************)
RemovalsCaught ==
  Decided("remit") /\ Passes => \A p \in Outside(request) : request.tree.fate[p] # "removed"

(***************************************************************************)
(* The hook denies exactly the writes whose target, resolved against the   *)
(* worktree, is not below it; whatever it cannot read it lets through      *)
(* (remitguard.go 41-95, ADR-0006).                                        *)
(***************************************************************************)
GuardStopsOutside ==
  Decided("guard") =>
    LET worktree == Abs(request.worktree, Cwd)
        Readable == /\ request.parse /\ request.input.decodes
                    /\ request.input.file_path # NoPath /\ request.worktree # NoPath
    IN  Answer.decision = "deny"
          <=> Readable /\ ~IsPrefix(worktree, Abs(request.input.file_path, worktree))
=============================================================================
