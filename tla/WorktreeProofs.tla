--------------------------- MODULE WorktreeProofs ---------------------------
(***************************************************************************)
(* Theorems about provisions and runs over one mirror, for any number of   *)
(* tasks, commits and second dispatches, either age of git and every set   *)
(* of things the world may do.                                             *)
(***************************************************************************)
EXTENDS WorktreeInvariants, FiniteSetTheorems, TLAPS

LEMMA Constants ==
  /\ Base \notin Task /\ ModernGit \in BOOLEAN
  /\ MaxAdvance \in Nat /\ MaxCommits \in Nat /\ MaxRetries \in Nat
  /\ "free" \notin Task /\ "stale" \notin Task /\ "agent" \notin Task
BY MirrorAssumption DEF MirrorAssumption

(***************************************************************************)
(* Histories.                                                              *)
(***************************************************************************)

LEMMA VersionFacts ==
  ASSUME NEW b \in Versions
  PROVE  b # {} /\ b \subseteq Commit
<1>1. PICK n \in 0..MaxAdvance : b = BaseAt(n)
  BY DEF Versions
<1>2. n \in Nat /\ 0 \in 0..n
  BY <1>1, Constants
<1>3. <<Base, 0>> \in b
  BY <1>1, <1>2 DEF BaseAt
<1>4. b \subseteq Commit
  BY <1>1, <1>2 DEF BaseAt, Commit
<1> QED
  BY <1>3, <1>4

LEMMA GrownFacts ==
  ASSUME NEW t \in Task, NEW b \in Grown(t)
  PROVE  b # {} /\ b \subseteq Commit
<1>1. PICK n \in 0..MaxAdvance, k \in 0..MaxCommits : b = BaseAt(n) \cup Commits(t, k)
  BY DEF Grown
<1>2. BaseAt(n) # {} /\ BaseAt(n) \subseteq Commit
  BY <1>1, VersionFacts DEF Versions
<1>3. Commits(t, k) \subseteq Commit
  BY <1>1, Constants DEF Commits, Commit
<1> QED
  BY <1>1, <1>2, <1>3

\* A branch starts as a version of the base.
LEMMA VersionIsGrown ==
  ASSUME NEW t \in Task, NEW b \in Versions
  PROVE  b \in Grown(t)
<1>1. PICK n \in 0..MaxAdvance : b = BaseAt(n)
  BY DEF Versions
<1>2. 0 \in 0..MaxCommits /\ Commits(t, 0) = {}
  BY Constants DEF Commits
<1>3. b = BaseAt(n) \cup Commits(t, 0)
  BY <1>1, <1>2
<1> QED
  BY <1>2, <1>3 DEF Grown

\* As many commits as numbers.
LEMMA CommitsCount ==
  ASSUME NEW s, NEW n \in Nat, NEW m \in Nat, m <= n
  PROVE  /\ IsFiniteSet({<<s, i>> : i \in m..n})
         /\ Cardinality({<<s, i>> : i \in m..n}) = n - m + 1
<1> DEFINE f == [i \in m..n |-> <<s, i>>]
           S == {<<s, i>> : i \in m..n}
<1>1. f \in Bijection(m..n, S)
  <2>1. f \in [m..n -> S]
    OBVIOUS
  <2>2. \A i, j \in m..n : f[i] = f[j] => i = j
    OBVIOUS
  <2>3. \A c \in S : \E i \in m..n : f[i] = c
    OBVIOUS
  <2> QED
    BY <2>1, <2>2, <2>3, Zenon DEF Bijection, Injection, Surjection, IsInjective
<1>2. IsFiniteSet(m..n) /\ Cardinality(m..n) = n - m + 1
  BY FS_Interval
<1> HIDE DEF f, S
<1>3. IsFiniteSet(S) /\ Cardinality(S) = Cardinality(m..n)
  BY <1>1, <1>2, FS_Bijection DEF ExistsBijection
<1> QED
  BY <1>2, <1>3 DEF S

\* One more commit on the base is the next version.
LEMMA NextVersion ==
  ASSUME originBase \in Versions, Cardinality(originBase) <= MaxAdvance
  PROVE  BaseAt(Cardinality(originBase)) \in Versions
<1>1. PICK n \in 0..MaxAdvance : originBase = BaseAt(n)
  BY DEF Versions
<1>2. Cardinality(BaseAt(n)) = n + 1
  <2>1. n \in Nat /\ 0 \in Nat /\ 0 <= n /\ n - 0 + 1 = n + 1
    BY <1>1, Constants
  <2>2. Cardinality({<<Base, i>> : i \in 0..n}) = n - 0 + 1
    BY <2>1, CommitsCount, ZenonT(30)
  <2> QED
    BY <2>1, <2>2 DEF BaseAt
<1> QED
  BY <1>1, <1>2, Constants DEF Versions

\* The commit that an agent adds is a new one, and numbered within the bound.
LEMMA NextCommit ==
  ASSUME NEW t \in Task, branch[t] \in Grown(t), Cardinality(Own(t)) < MaxCommits
  PROVE  /\ Cardinality(Own(t)) \in 0..MaxCommits
         /\ <<t, Cardinality(Own(t))>> \notin branch[t]
         /\ branch[t] \cup {<<t, Cardinality(Own(t))>>} \in Grown(t)
<1>1. PICK n \in 0..MaxAdvance, k \in 0..MaxCommits : branch[t] = BaseAt(n) \cup Commits(t, k)
  BY DEF Grown
<1>2. Own(t) = Commits(t, k)
  BY <1>1, Constants DEF Own, BaseAt, Commits
<1>3. Cardinality(Own(t)) = k
  <2>1. CASE k = 0
    BY <1>2, <2>1, FS_EmptySet DEF Commits
  <2>2. CASE k # 0
    <3> DEFINE last == k - 1
    <3>1. last \in Nat /\ 0 \in Nat /\ 0 <= last /\ last - 0 + 1 = k
      BY <1>1, <2>2, Constants
    <3>2. Own(t) = {<<t, i>> : i \in 0..last}
      BY <1>2 DEF Commits
    <3> HIDE DEF last
    <3>3. Cardinality({<<t, i>> : i \in 0..last}) = last - 0 + 1
      BY <3>1, CommitsCount, ZenonT(30)
    <3> QED
      BY <3>1, <3>2, <3>3
  <2> QED
    BY <2>1, <2>2
<1>4. k + 1 \in 0..MaxCommits
  BY <1>1, <1>3, Constants
<1>5. <<t, k>> \notin branch[t]
  BY <1>1, <1>4, Constants DEF BaseAt, Commits
<1>6. Commits(t, k) \cup {<<t, k>>} = Commits(t, k + 1)
  BY <1>4, Constants DEF Commits
<1>7. branch[t] \cup {<<t, k>>} = BaseAt(n) \cup Commits(t, k + 1)
  BY <1>1, <1>6
<1> QED
  BY <1>1, <1>3, <1>4, <1>5, <1>7 DEF Grown

(***************************************************************************)
(* How a step moves a provision, and what it does to the mirror's lock.    *)
(***************************************************************************)

\* The provision of t, and no other, goes to `label`.
Moved(t, label) ==
  /\ pc' \in [Task -> Label]
  /\ pc'[t] = label
  /\ \A s \in Task \ {t} : pc'[s] = pc[s]

LEMMA GotoMoves ==
  ASSUME TypeOK, NEW t \in Task, NEW label \in Label, Goto(t, label)
  PROVE  Moved(t, label)
BY DEF TypeOK, Goto, Moved

\* A failed provision gives the lock back and records why.
Failed(t, why) ==
  /\ Moved(t, "failed")
  /\ failure' \in [Task -> Failure] /\ failure'[t] = why
  /\ \A s \in Task \ {t} : failure'[s] = failure[s]
  /\ mu' = IF mu = t THEN "free" ELSE mu

LEMMA FailWithFails ==
  ASSUME TypeOK, NEW t \in Task, NEW why \in Failure, FailWith(t, why)
  PROVE  Failed(t, why)
BY GotoMoves DEF TypeOK, FailWith, Failed, Label

\* Who is inside the lock does not change, or t leaves it as it fails.
LEMMA MutexKept ==
  ASSUME MutexHeld, NEW t \in Task,
         \/ UNCHANGED mu /\ \E label \in Label : Moved(t, label) /\ (Locked(t)' <=> Locked(t))
         \/ \E why \in Failure : Failed(t, why)
  PROVE  MutexHeld'
<1>1. CASE UNCHANGED mu /\ \E label \in Label : Moved(t, label) /\ (Locked(t)' <=> Locked(t))
  BY <1>1 DEF MutexHeld, Moved, Locked
<1>2. CASE \E why \in Failure : Failed(t, why)
  <2>1. ~Locked(t)' /\ \A s \in Task \ {t} : Locked(s)' <=> Locked(s)
    BY <1>2 DEF Failed, Moved, Locked
  <2>2. mu' = IF mu = t THEN "free" ELSE mu
    BY <1>2 DEF Failed
  <2> QED
    BY <2>1, <2>2, Constants DEF MutexHeld
<1> QED
  BY <1>1, <1>2

(***************************************************************************)
(* The invariant holds initially, and every step keeps it: one lemma per   *)
(* step, those of a provision first.                                       *)
(***************************************************************************)

LEMMA InvInit == Init => WorktreeInv
<1> SUFFICES ASSUME Init PROVE WorktreeInv
  OBVIOUS
<1> USE DEF Init, MirrorInit, RunnerInit
<1>1. BaseAt(0) \in Versions
  BY Constants DEF Versions
<1>2. Histories
  BY <1>1 DEF Histories
<1>3. TypeOK
  BY <1>1, VersionFacts DEF TypeOK, Label, Failure, RunLabel, NoFile, NoOutcome, Status
<1>4. MutexHeld /\ ConfigLockHeld
  BY Constants DEF MutexHeld, ConfigLockHeld, Locked
<1>5. Causes /\ FailuresExplained
  BY <1>1, VersionFacts DEF Causes, FailuresExplained
<1>6. \A t \in Task : Staged(t) /\ Rooted(t) /\ Materialized(t) /\ RunOnce(t)
  BY DEF Staged, Rooted, Materialized, RunOnce, Unrun, BeforeMirror, Healing, BeforeAdd,
         AfterAdd, NoOutcome
<1> QED
  BY <1>2, <1>3, <1>4, <1>5, <1>6 DEF WorktreeInv, MirrorInv

\* A cause FailuresExplained accepts for a failure of t.
Explained(t, why) ==
  /\ why \in Failure \ {"lock"}
  /\ why = "stale" => "kill" \in World
  /\ why \in {"refused", "agent"} => \E s \in Task : originBranch[s] # {}
  /\ why = "leftover" => attempts[t] > 1
  /\ why \in {"mirror", "worktree"} => "kill" \in World

\* A provision that fails leaves its worktree and the mirror alone, but for a
\* config.lock it may have been killed over.
LEMMA FailKeeps ==
  ASSUME WorktreeInv, NEW t \in Task, NEW why, Failed(t, why), Explained(t, why),
         pc[t] \in Label \ {"idle", "ready", "failed"},
         UNCHANGED <<origin, mirror, bare, wtConfig, mirrorBase, branch, worktrees, existed,
                     baseRef, attempts, runVars>>,
         \/ UNCHANGED configLock /\ pc[t] \notin {"bareLocked", "extLocked"}
         \/ /\ configLock' = "stale" /\ "kill" \in World
            /\ pc[t] \in {"bareLocked", "extLocked"}
  PROVE  WorktreeInv'
<1> USE DEF WorktreeInv, MirrorInv, origin, worktrees, runVars
<1>0. /\ pc'[t] = "failed" /\ \A s \in Task \ {t} : pc'[s] = pc[s]
      /\ failure'[t] = why /\ \A s \in Task \ {t} : failure'[s] = failure[s]
      /\ why \in Failure
  BY DEF Failed, Moved, Explained
<1>1. TypeOK'
  BY Constants DEF TypeOK, Failed, Moved
<1>2. MutexHeld'
  BY <1>0, MutexKept
<1>3. ConfigLockHeld'
  BY <1>0, Constants DEF ConfigLockHeld
<1>4. Histories'
  BY DEF Histories
<1>5. Causes'
  BY DEF Causes
<1>6. FailuresExplained'
  BY <1>0 DEF FailuresExplained, Explained
<1>7. \A s \in Task : Staged(s)'
  BY <1>0 DEF Staged, BeforeMirror, Healing, AfterAdd
<1>8. \A s \in Task : Rooted(s)'
  BY <1>0 DEF Rooted, BeforeAdd, Healing, AfterAdd
<1>9. \A s \in Task : Materialized(s)'
  BY <1>0 DEF Materialized
<1>10. \A s \in Task : RunOnce(s)'
  BY <1>0 DEF RunOnce, Unrun, AfterAdd
<1> QED
  BY <1>1, <1>2, <1>3, <1>4, <1>5, <1>6, <1>7, <1>8, <1>9, <1>10

LEMMA BeginKeeps ==
  ASSUME WorktreeInv, NEW t \in Task, rpc[t] = "idle", Begin(t), UNCHANGED runVars
  PROVE  WorktreeInv'
<1> USE DEF WorktreeInv, MirrorInv, origin, shared, worktrees, runVars
<1>0. /\ pc[t] \in {"idle", "failed"} /\ Moved(t, "lock")
      /\ attempts' = [attempts EXCEPT ![t] = @ + 1] /\ failure' = [failure EXCEPT ![t] = "none"]
      /\ UNCHANGED <<origin, shared, mu, worktrees, existed, baseRef, runVars>>
  BY GotoMoves DEF Begin, Label
<1>1. TypeOK'
  BY <1>0 DEF TypeOK, Moved, Failure
<1>2. MutexHeld'
  BY <1>0 DEF MutexHeld, Locked, Moved
<1>3. ConfigLockHeld'
  BY <1>0 DEF ConfigLockHeld, Moved
<1>4. Histories'
  BY <1>0 DEF Histories
<1>5. Causes'
  BY <1>0 DEF Causes
<1>6. FailuresExplained'
  BY <1>0 DEF FailuresExplained, TypeOK
<1>7. \A s \in Task : Staged(s)'
  BY <1>0 DEF Staged, Moved, BeforeMirror, Healing, AfterAdd
<1>8. \A s \in Task : Rooted(s)'
  <2>1. Rooted(t)'
    <3>1. attempts[t] \in Nat /\ attempts'[t] = attempts[t] + 1 /\ pc'[t] = "lock"
      BY <1>0 DEF TypeOK, Moved
    <3>2. attempts'[t] # 0 /\ (attempts'[t] = 1 => attempts[t] = 0)
      BY <3>1
    <3> QED
      BY <1>0, <3>1, <3>2 DEF Rooted, AfterAdd
  <2>2. ASSUME NEW s \in Task \ {t} PROVE Rooted(s)'
    <3>1. pc'[s] = pc[s] /\ attempts'[s] = attempts[s]
      BY <1>0 DEF Moved, TypeOK
    <3> QED
      BY <1>0, <3>1 DEF Rooted
  <2> QED
    BY <2>1, <2>2
<1>9. \A s \in Task : Materialized(s)'
  BY <1>0 DEF Materialized, Moved
<1>10. \A s \in Task : RunOnce(s)'
  BY <1>0 DEF RunOnce, Moved, Unrun, AfterAdd
<1> QED
  BY <1>1, <1>2, <1>3, <1>4, <1>5, <1>6, <1>7, <1>8, <1>9, <1>10

LEMMA LockKeeps ==
  ASSUME WorktreeInv, NEW t \in Task, Lock(t), UNCHANGED runVars
  PROVE  WorktreeInv'
<1> USE DEF WorktreeInv, MirrorInv, origin, shared, worktrees, runVars
<1>0. /\ pc[t] = "lock" /\ Moved(t, "stat") /\ mu = "free" /\ mu' = t
      /\ UNCHANGED <<origin, shared, worktrees, existed, baseRef, failure, attempts, runVars>>
  BY GotoMoves DEF Lock, At, Label
<1>1. TypeOK'
  BY <1>0 DEF TypeOK, Moved
<1>2. MutexHeld'
  BY <1>0, Constants DEF MutexHeld, Locked, Moved
<1>3. ConfigLockHeld'
  BY <1>0 DEF ConfigLockHeld, Moved
<1>4. Histories'
  BY <1>0 DEF Histories
<1>5. Causes'
  BY <1>0 DEF Causes
<1>6. FailuresExplained'
  BY <1>0 DEF FailuresExplained
<1>7. \A s \in Task : Staged(s)'
  BY <1>0 DEF Staged, Moved, BeforeMirror, Healing, AfterAdd
<1>8. \A s \in Task : Rooted(s)'
  BY <1>0 DEF Rooted, Moved, BeforeAdd, Healing, AfterAdd
<1>9. \A s \in Task : Materialized(s)'
  BY <1>0 DEF Materialized, Moved
<1>10. \A s \in Task : RunOnce(s)'
  BY <1>0 DEF RunOnce, Moved, Unrun, AfterAdd
<1> QED
  BY <1>1, <1>2, <1>3, <1>4, <1>5, <1>6, <1>7, <1>8, <1>9, <1>10

LEMMA StatKeeps ==
  ASSUME WorktreeInv, NEW t \in Task, Stat(t), UNCHANGED runVars
  PROVE  WorktreeInv'
<1> USE DEF WorktreeInv, MirrorInv, origin, shared, worktrees, runVars
<1>0. /\ pc[t] = "stat" /\ existed' = [existed EXCEPT ![t] = mirror # "absent"]
      /\ Moved(t, IF mirror = "absent" THEN "clone" ELSE "bare")
      /\ UNCHANGED <<origin, shared, mu, worktrees, baseRef, failure, attempts, runVars>>
  BY GotoMoves DEF Stat, Continue, At, Label
<1>1. TypeOK'
  BY <1>0 DEF TypeOK, Moved
<1>2. MutexHeld'
  BY <1>0 DEF MutexHeld, Locked, Moved
<1>3. ConfigLockHeld'
  BY <1>0 DEF ConfigLockHeld, Moved
<1>4. Histories'
  BY <1>0 DEF Histories
<1>5. Causes'
  BY <1>0 DEF Causes
<1>6. FailuresExplained'
  BY <1>0 DEF FailuresExplained
<1>7. \A s \in Task : Staged(s)'
  BY <1>0, ZenonT(40) DEF Staged, Moved, BeforeMirror, Healing, AfterAdd, TypeOK
<1>8. \A s \in Task : Rooted(s)'
  BY <1>0 DEF Rooted, Moved, BeforeAdd, Healing, AfterAdd
<1>9. \A s \in Task : Materialized(s)'
  BY <1>0 DEF Materialized, Moved
<1>10. \A s \in Task : RunOnce(s)'
  BY <1>0 DEF RunOnce, Moved, Unrun, AfterAdd
<1> QED
  BY <1>1, <1>2, <1>3, <1>4, <1>5, <1>6, <1>7, <1>8, <1>9, <1>10

\* Two provisions are never under the lock at once.
LEMMA LockedAlone ==
  ASSUME WorktreeInv, NEW t \in Task, Locked(t)
  PROVE  mu = t /\ \A s \in Task \ {t} : ~Locked(s)
BY DEF WorktreeInv, MirrorInv, MutexHeld

\* An absent mirror has no branch, and no worktree is linked to it.
LEMMA NothingWithoutMirror ==
  ASSUME WorktreeInv, mirror = "absent"
  PROVE  /\ branch = [s \in Task |-> {}] /\ originBranch = branch
         /\ \A s \in Task : ~linked[s] /\ pc[s] \in BeforeMirror
<1>1. \A s \in Task : branch[s] = {} /\ originBranch[s] = {} /\ ~linked[s]
                      /\ pc[s] \in BeforeMirror
  BY DEF WorktreeInv, Rooted, Staged
<1>2. branch \in [Task -> SUBSET Commit] /\ originBranch \in [Task -> SUBSET Commit]
  BY DEF WorktreeInv, MirrorInv, TypeOK
<1> QED
  BY <1>1, <1>2

\* The clone succeeds: it has nothing yet but the base.
LEMMA ClonedKeeps ==
  ASSUME WorktreeInv, NEW t \in Task, pc[t] = "clone", mirror = "absent",
         Moved(t, "bare"), mirror' = "complete", bare' = TRUE, wtConfig' = FALSE,
         mirrorBase' = originBase, branch' = originBranch,
         UNCHANGED <<origin, configLock, mu, worktrees, existed, baseRef, failure, attempts, runVars>>
  PROVE  WorktreeInv'
<1> USE DEF WorktreeInv, MirrorInv, origin, shared, worktrees, runVars
<1>0. /\ \A s \in Task : branch'[s] = branch[s] /\ ~linked[s] /\ pc[s] \in BeforeMirror
      /\ branch' \in [Task -> SUBSET Commit]
      /\ \A s \in Task \ {t} : pc'[s] = pc[s] /\ pc[s] \in {"idle", "lock", "failed"}
      /\ pc'[t] = "bare" /\ branch' = branch
  <2>1. Locked(t)
    BY DEF Locked
  <2> QED
    BY <2>1, LockedAlone, NothingWithoutMirror DEF Moved, Locked, BeforeMirror, TypeOK
<1>1. TypeOK'
  BY <1>0 DEF TypeOK, Moved
<1>2. MutexHeld'
  <2>1. "bare" \in Label /\ (Locked(t)' <=> Locked(t))
    BY <1>0 DEF Label, Locked
  <2> QED
    BY <2>1, MutexKept
<1>3. ConfigLockHeld'
  BY <1>0 DEF ConfigLockHeld
<1>4. Histories'
  BY <1>0 DEF Histories
<1>5. Causes'
  BY VersionFacts DEF Causes, Histories
<1>6. FailuresExplained'
  BY <1>0 DEF FailuresExplained
<1>7. \A s \in Task : Staged(s)'
  BY <1>0 DEF Staged, BeforeMirror, Healing, AfterAdd
<1>8. \A s \in Task : Rooted(s)'
  BY <1>0 DEF Rooted, BeforeAdd, Healing, AfterAdd
<1>9. \A s \in Task : Materialized(s)'
  BY <1>0 DEF Materialized
<1>10. \A s \in Task : RunOnce(s)'
  BY <1>0 DEF RunOnce, Unrun, AfterAdd
<1> QED
  BY <1>1, <1>2, <1>3, <1>4, <1>5, <1>6, <1>7, <1>8, <1>9, <1>10

\* The clone is killed, and leaves a part of a mirror.
LEMMA KilledCloneKeeps ==
  ASSUME WorktreeInv, NEW t \in Task, pc[t] = "clone", mirror = "absent", "kill" \in World,
         Failed(t, "kill"), mirror' = "partial",
         UNCHANGED <<origin, bare, wtConfig, mirrorBase, branch, configLock, worktrees, existed,
                     baseRef, attempts, runVars>>
  PROVE  WorktreeInv'
<1> USE DEF WorktreeInv, MirrorInv, origin, shared, worktrees, runVars
<1>0. /\ \A s \in Task : ~linked[s]
      /\ \A s \in Task \ {t} : pc'[s] = pc[s] /\ pc[s] \in {"idle", "lock", "failed"}
      /\ pc'[t] = "failed" /\ failure'[t] = "kill"
      /\ \A s \in Task \ {t} : failure'[s] = failure[s]
  <2>1. Locked(t)
    BY DEF Locked
  <2> QED
    BY <2>1, LockedAlone, NothingWithoutMirror DEF Failed, Moved, Locked, BeforeMirror
<1>1. TypeOK'
  BY <1>0 DEF TypeOK, Failed, Moved
<1>2. MutexHeld'
  BY MutexKept DEF Failure
<1>3. ConfigLockHeld'
  BY <1>0 DEF ConfigLockHeld
<1>4. Histories'
  BY <1>0 DEF Histories
<1>5. Causes'
  BY <1>0 DEF Causes
<1>6. FailuresExplained'
  BY <1>0 DEF FailuresExplained
<1>7. \A s \in Task : Staged(s)'
  BY <1>0 DEF Staged, BeforeMirror, Healing, AfterAdd
<1>8. \A s \in Task : Rooted(s)'
  BY <1>0 DEF Rooted, BeforeAdd, Healing, AfterAdd
<1>9. \A s \in Task : Materialized(s)'
  BY <1>0 DEF Materialized
<1>10. \A s \in Task : RunOnce(s)'
  BY <1>0 DEF RunOnce, Unrun, AfterAdd
<1> QED
  BY <1>1, <1>2, <1>3, <1>4, <1>5, <1>6, <1>7, <1>8, <1>9, <1>10

LEMMA CloneKeeps ==
  ASSUME WorktreeInv, NEW t \in Task, Clone(t), UNCHANGED runVars
  PROVE  WorktreeInv'
<1>1. pc[t] = "clone" /\ mirror = "absent" /\ TypeOK
  BY DEF Clone, At, WorktreeInv, MirrorInv, Staged
<1>2. CASE /\ mirror' = "complete" /\ bare' = TRUE /\ wtConfig' = FALSE
           /\ mirrorBase' = originBase /\ branch' = originBranch /\ Continue(t, "bare")
  BY <1>1, <1>2, GotoMoves, ClonedKeeps DEF Clone, Continue, Label
<1>3. CASE /\ "network" \in World /\ FailWith(t, "network")
           /\ UNCHANGED <<mirror, bare, wtConfig, mirrorBase, branch>>
  <2>1. Failed(t, "network") /\ Explained(t, "network")
    BY <1>1, <1>3, FailWithFails DEF Failure, Explained
  <2> QED
    BY <1>1, <1>3, <2>1, FailKeeps DEF Clone, Label
<1>4. CASE /\ "kill" \in World /\ mirror' = "partial" /\ FailWith(t, "kill")
           /\ UNCHANGED <<bare, wtConfig, mirrorBase, branch>>
  <2>1. Failed(t, "kill")
    BY <1>1, <1>4, FailWithFails DEF Failure
  <2> QED
    BY <1>1, <1>4, <2>1, KilledCloneKeeps DEF Clone
<1> QED
  BY <1>1, <1>2, <1>3, <1>4 DEF Clone

LEMMA TookConfigLockKeeps ==
  ASSUME WorktreeInv, NEW t \in Task, pc[t] \in {"bare", "ext"},
         configLock = "free", configLock' = t,
         Moved(t, IF pc[t] = "bare" THEN "bareLocked" ELSE "extLocked"),
         UNCHANGED <<origin, mirror, bare, wtConfig, mirrorBase, branch, mu, worktrees,
                     existed, baseRef, failure, attempts, runVars>>
  PROVE  WorktreeInv'
<1> USE DEF WorktreeInv, MirrorInv, origin, shared, worktrees, runVars
<1>0. /\ \A s \in Task \ {t} : pc'[s] = pc[s]
      /\ pc'[t] = IF pc[t] = "bare" THEN "bareLocked" ELSE "extLocked"
      /\ pc'[t] \in Label /\ (Locked(t)' <=> Locked(t))
  BY DEF Moved, Label, Locked
<1>1. TypeOK'
  BY <1>0 DEF TypeOK, Moved
<1>2. MutexHeld'
  BY <1>0, MutexKept
<1>3. ConfigLockHeld'
  BY <1>0, Constants DEF ConfigLockHeld
<1>4. Histories'
  BY <1>0 DEF Histories
<1>5. Causes'
  BY Constants DEF Causes
<1>6. FailuresExplained'
  BY <1>0 DEF FailuresExplained
<1>7. \A s \in Task : Staged(s)'
  BY <1>0 DEF Staged, BeforeMirror, Healing, AfterAdd
<1>8. \A s \in Task : Rooted(s)'
  BY <1>0 DEF Rooted, BeforeAdd, Healing, AfterAdd
<1>9. \A s \in Task : Materialized(s)'
  BY <1>0 DEF Materialized
<1>10. \A s \in Task : RunOnce(s)'
  BY <1>0 DEF RunOnce, Unrun, AfterAdd
<1> QED
  BY <1>1, <1>2, <1>3, <1>4, <1>5, <1>6, <1>7, <1>8, <1>9, <1>10

\* A task that finds config.lock taken meets a stale one or an agent's: the
\* provisions take it under the mirror's lock.
LEMMA TakeConfigLockKeeps ==
  ASSUME WorktreeInv, NEW t \in Task, TakeConfigLock(t), UNCHANGED runVars
  PROVE  WorktreeInv'
<1>1. pc[t] \in {"bare", "ext"} /\ TypeOK /\ Locked(t)
  BY DEF TakeConfigLock, WorktreeInv, MirrorInv, Locked
<1>2. CASE /\ configLock = "free" /\ configLock' = t
           /\ Continue(t, IF At(t, "bare") THEN "bareLocked" ELSE "extLocked")
  <2>1. Moved(t, IF pc[t] = "bare" THEN "bareLocked" ELSE "extLocked")
    BY <1>1, <1>2, GotoMoves DEF Continue, At, Label
  <2> QED
    BY <1>1, <1>2, <2>1, TookConfigLockKeeps DEF TakeConfigLock, Continue
<1>3. CASE /\ configLock # "free" /\ UNCHANGED configLock
           /\ FailWith(t, IF configLock \in Task THEN "lock" ELSE configLock)
  <2>1. configLock \notin Task
    <3>1. ASSUME NEW s \in Task, configLock = s PROVE FALSE
      <4>1. pc[s] \in {"bareLocked", "extLocked"}
        BY <3>1 DEF WorktreeInv, MirrorInv, ConfigLockHeld
      <4> QED
        BY <1>1, <4>1, LockedAlone DEF Locked
    <3> QED
      BY <3>1
  <2>2. configLock \in {"stale", "agent"} /\ Explained(t, configLock)
    BY <1>1, <1>3, <2>1 DEF TypeOK, WorktreeInv, Causes, Explained, Failure
  <2>3. Failed(t, configLock)
    BY <1>1, <1>3, <2>1, <2>2, FailWithFails DEF Failure
  <2> QED
    BY <1>1, <1>3, <2>2, <2>3, FailKeeps DEF TakeConfigLock, Label
<1> QED
  BY <1>2, <1>3 DEF TakeConfigLock

LEMMA HealedKeeps ==
  ASSUME WorktreeInv, NEW t \in Task, pc[t] \in {"bareLocked", "extLocked"},
         configLock' = "free", bare' = (pc[t] = "bareLocked" \/ bare),
         wtConfig' = (pc[t] = "extLocked" \/ wtConfig),
         Moved(t, IF pc[t] = "bareLocked" THEN "ext"
                  ELSE IF existed[t] THEN "fetch" ELSE "revparse"),
         UNCHANGED <<origin, mirror, mirrorBase, branch, mu, worktrees,
                     existed, baseRef, failure, attempts, runVars>>
  PROVE  WorktreeInv'
<1> USE DEF WorktreeInv, MirrorInv, origin, shared, worktrees, runVars
<1>0. /\ \A s \in Task \ {t} : pc'[s] = pc[s] /\ ~Locked(s)
      /\ pc'[t] = IF pc[t] = "bareLocked" THEN "ext"
                  ELSE IF existed[t] THEN "fetch" ELSE "revparse"
      /\ pc'[t] \in Label /\ Locked(t) /\ Locked(t)'
      /\ bare \in BOOLEAN /\ wtConfig \in BOOLEAN /\ existed[t] \in BOOLEAN
  <2>1. Locked(t)
    BY DEF Locked
  <2> QED
    BY <2>1, LockedAlone DEF Moved, Label, Locked, TypeOK
<1>1. TypeOK'
  BY <1>0 DEF TypeOK, Moved
<1>2. MutexHeld'
  BY <1>0, MutexKept
<1>3. ConfigLockHeld'
  BY <1>0, Constants DEF ConfigLockHeld, Locked
<1>4. Histories'
  BY <1>0 DEF Histories
<1>5. Causes'
  BY Constants DEF Causes
<1>6. FailuresExplained'
  BY <1>0 DEF FailuresExplained
<1>7. \A s \in Task : Staged(s)'
  BY <1>0 DEF Staged, BeforeMirror, Healing, AfterAdd
<1>8. \A s \in Task : Rooted(s)'
  BY <1>0 DEF Rooted, BeforeAdd, Healing, AfterAdd
<1>9. \A s \in Task : Materialized(s)'
  BY <1>0 DEF Materialized
<1>10. \A s \in Task : RunOnce(s)'
  BY <1>0 DEF RunOnce, Unrun, AfterAdd
<1> QED
  BY <1>1, <1>2, <1>3, <1>4, <1>5, <1>6, <1>7, <1>8, <1>9, <1>10

LEMMA HealKeeps ==
  ASSUME WorktreeInv, NEW t \in Task, Heal(t), UNCHANGED runVars
  PROVE  WorktreeInv'
<1>1. pc[t] \in {"bareLocked", "extLocked"} /\ TypeOK /\ bare \in BOOLEAN /\ wtConfig \in BOOLEAN
  BY DEF Heal, WorktreeInv, MirrorInv, TypeOK
<1>2. CASE /\ configLock' = "free"
           /\ IF At(t, "bareLocked") THEN bare' = TRUE /\ UNCHANGED wtConfig
                                     ELSE wtConfig' = TRUE /\ UNCHANGED bare
           /\ Continue(t, IF At(t, "bareLocked") THEN "ext"
                          ELSE IF existed[t] THEN "fetch" ELSE "revparse")
  <2>1. /\ bare' = (pc[t] = "bareLocked" \/ bare)
        /\ wtConfig' = (pc[t] = "extLocked" \/ wtConfig)
    BY <1>1, <1>2 DEF At
  <2>2. Moved(t, IF pc[t] = "bareLocked" THEN "ext"
                 ELSE IF existed[t] THEN "fetch" ELSE "revparse")
    BY <1>1, <1>2, GotoMoves DEF Continue, At, Label
  <2> QED
    BY <1>1, <1>2, <2>1, <2>2, HealedKeeps DEF Heal, Continue
<1>3. CASE /\ "kill" \in World /\ configLock' = "stale"
           /\ FailWith(t, "kill") /\ UNCHANGED <<bare, wtConfig>>
  <2>1. Failed(t, "kill") /\ Explained(t, "kill")
    BY <1>1, <1>3, FailWithFails DEF Failure, Explained
  <2> QED
    BY <1>1, <1>3, <2>1, FailKeeps DEF Heal, Label
<1> QED
  BY <1>2, <1>3 DEF Heal

\* Only a branch that was pushed can be moved by a fetch, to what was pushed.
LEMMA FetchedKeeps ==
  ASSUME WorktreeInv, NEW t \in Task, pc[t] = "fetch", Moved(t, "revparse"),
         mirror' = "complete", mirrorBase' = originBase,
         branch' = [s \in Task |-> Fetched(branch, s)],
         UNCHANGED <<origin, bare, wtConfig, configLock, mu, worktrees,
                     existed, baseRef, failure, attempts, runVars>>
  PROVE  WorktreeInv'
<1> USE DEF WorktreeInv, MirrorInv, origin, shared, worktrees, runVars
<1>0. /\ \A s \in Task \ {t} : pc'[s] = pc[s]
      /\ \A s \in Task : branch'[s] = IF originBranch[s] = {} THEN branch[s] ELSE originBranch[s]
      /\ pc'[t] = "revparse" /\ pc'[t] \in Label /\ Locked(t) /\ Locked(t)'
  BY DEF Moved, Label, Locked, Fetched
<1>1. TypeOK'
  BY <1>0 DEF TypeOK, Moved, Fetched
<1>2. MutexHeld'
  BY <1>0, MutexKept
<1>3. ConfigLockHeld'
  BY <1>0 DEF ConfigLockHeld
<1>4. Histories'
  BY <1>0 DEF Histories
<1>5. Causes'
  BY VersionFacts DEF Causes, Histories
<1>6. FailuresExplained'
  BY <1>0 DEF FailuresExplained
<1>7. \A s \in Task : Staged(s)'
  BY <1>0 DEF Staged, BeforeMirror, Healing, AfterAdd
<1>8. \A s \in Task : Rooted(s)'
  BY <1>0 DEF Rooted, BeforeAdd, Healing, AfterAdd
<1>9. \A s \in Task : Materialized(s)'
  BY <1>0 DEF Materialized
<1>10. \A s \in Task : RunOnce(s)'
  BY <1>0 DEF RunOnce, Unrun, AfterAdd
<1> QED
  BY <1>1, <1>2, <1>3, <1>4, <1>5, <1>6, <1>7, <1>8, <1>9, <1>10

LEMMA FetchKeeps ==
  ASSUME WorktreeInv, NEW t \in Task, Fetch(t), UNCHANGED runVars
  PROVE  WorktreeInv'
<1>1. pc[t] = "fetch" /\ TypeOK /\ bare /\ ModernGit \in BOOLEAN
  BY Constants DEF Fetch, At, WorktreeInv, MirrorInv, Staged
<1>2. CASE /\ mirror' = "complete" /\ mirrorBase' = originBase
           /\ branch' = [s \in Task |-> Fetched(branch, s)] /\ Continue(t, "revparse")
  BY <1>1, <1>2, GotoMoves, FetchedKeeps DEF Fetch, Continue, Label
<1>3. CASE FetchRefused /\ FailWith(t, "refused") /\ UNCHANGED <<mirror, mirrorBase, branch>>
  <2>1. Failed(t, "refused") /\ Explained(t, "refused")
    BY <1>1, <1>3, FailWithFails DEF Failure, Explained, FetchRefused
  <2> QED
    BY <1>1, <1>3, <2>1, FailKeeps DEF Fetch, Label
<1>4. CASE FailWith(t, "network") /\ UNCHANGED <<mirror, mirrorBase, branch>>
  <2>1. Failed(t, "network") /\ Explained(t, "network")
    BY <1>1, <1>4, FailWithFails DEF Failure, Explained
  <2> QED
    BY <1>1, <1>4, <2>1, FailKeeps DEF Fetch, Label
<1> QED
  BY <1>2, <1>3, <1>4 DEF Fetch

LEMMA ParsedKeeps ==
  ASSUME WorktreeInv, NEW t \in Task, pc[t] = "revparse", mirrorBase # {}, Moved(t, "add"),
         baseRef' = [baseRef EXCEPT ![t] = mirrorBase],
         UNCHANGED <<origin, shared, mu, worktrees, existed, failure, attempts, runVars>>
  PROVE  WorktreeInv'
<1> USE DEF WorktreeInv, MirrorInv, origin, shared, worktrees, runVars
<1>0. /\ \A s \in Task \ {t} : pc'[s] = pc[s] /\ baseRef'[s] = baseRef[s]
      /\ baseRef'[t] = mirrorBase
      /\ pc'[t] = "add" /\ pc'[t] \in Label /\ Locked(t) /\ Locked(t)'
  BY DEF Moved, Label, Locked, TypeOK
<1>1. TypeOK'
  BY <1>0 DEF TypeOK, Moved
<1>2. MutexHeld'
  BY <1>0, MutexKept
<1>3. ConfigLockHeld'
  BY <1>0 DEF ConfigLockHeld
<1>4. Histories'
  BY <1>0 DEF Histories
<1>5. Causes'
  BY <1>0 DEF Causes
<1>6. FailuresExplained'
  BY <1>0 DEF FailuresExplained
<1>7. \A s \in Task : Staged(s)'
  BY <1>0 DEF Staged, BeforeMirror, Healing, AfterAdd
<1>8. \A s \in Task : Rooted(s)'
  BY <1>0 DEF Rooted, BeforeAdd, Healing, AfterAdd
<1>9. \A s \in Task : Materialized(s)'
  BY <1>0 DEF Materialized
<1>10. \A s \in Task : RunOnce(s)'
  BY <1>0 DEF RunOnce, Unrun, AfterAdd
<1> QED
  BY <1>1, <1>2, <1>3, <1>4, <1>5, <1>6, <1>7, <1>8, <1>9, <1>10

LEMMA RevParseKeeps ==
  ASSUME WorktreeInv, NEW t \in Task, RevParse(t), UNCHANGED runVars
  PROVE  WorktreeInv'
<1>1. pc[t] = "revparse" /\ TypeOK /\ mirrorBase # {}
  BY DEF RevParse, At, WorktreeInv, MirrorInv, Staged, Causes
<1>2. CASE baseRef' = [baseRef EXCEPT ![t] = mirrorBase] /\ Continue(t, "add")
  BY <1>1, <1>2, GotoMoves, ParsedKeeps DEF RevParse, Continue, Label
<1>3. CASE "kill" \in World /\ FailWith(t, "mirror") /\ UNCHANGED baseRef
  <2>1. Failed(t, "mirror") /\ Explained(t, "mirror")
    BY <1>1, <1>3, FailWithFails DEF Failure, Explained
  <2> QED
    BY <1>1, <1>3, <2>1, FailKeeps DEF RevParse, Label, shared
<1> QED
  BY <1>1, <1>2, <1>3 DEF RevParse

\* The worktree and its branch are new, and at the base just read.
LEMMA AddedKeeps ==
  ASSUME WorktreeInv, NEW t \in Task, pc[t] = "add", branch[t] = {}, ~linked[t],
         branch' = [branch EXCEPT ![t] = baseRef[t]], linked' = [linked EXCEPT ![t] = TRUE],
         mu' = IF mu = t THEN "free" ELSE mu, Moved(t, "override"),
         UNCHANGED <<origin, mirror, bare, wtConfig, configLock, mirrorBase, override, sparse,
                     tree, existed, baseRef, failure, attempts, runVars>>
  PROVE  WorktreeInv'
<1> USE DEF WorktreeInv, MirrorInv, origin, shared, worktrees, runVars
<1>0. /\ \A s \in Task \ {t} : pc'[s] = pc[s] /\ branch'[s] = branch[s] /\ linked'[s] = linked[s]
      /\ branch'[t] = baseRef[t] /\ linked'[t] /\ pc'[t] = "override"
      /\ baseRef[t] \in Versions /\ mirror = "complete" /\ originBranch[t] = {} /\ rpc[t] = "idle"
  BY DEF Moved, TypeOK, Histories, Staged, Rooted, RunOnce
<1>1. TypeOK'
  BY <1>0 DEF TypeOK, Moved
<1>2. MutexHeld'
  <2>1. Locked(t) /\ ~Locked(t)' /\ \A s \in Task \ {t} : Locked(s)' <=> Locked(s)
    BY <1>0 DEF Locked
  <2> QED
    BY <2>1, LockedAlone, Constants DEF MutexHeld
<1>3. ConfigLockHeld'
  BY <1>0 DEF ConfigLockHeld
<1>4. Histories'
  BY <1>0, VersionIsGrown DEF Histories
<1>5. Causes'
  BY <1>0 DEF Causes
<1>6. FailuresExplained'
  BY <1>0 DEF FailuresExplained
<1>7. \A s \in Task : Staged(s)'
  BY <1>0 DEF Staged, BeforeMirror, Healing, AfterAdd
<1>8. \A s \in Task : Rooted(s)'
  BY <1>0, VersionFacts DEF Rooted, BeforeAdd, Healing, AfterAdd
<1>9. \A s \in Task : Materialized(s)'
  BY <1>0 DEF Materialized
<1>10. \A s \in Task : RunOnce(s)'
  BY <1>0 DEF RunOnce, Unrun, AfterAdd
<1> QED
  BY <1>1, <1>2, <1>3, <1>4, <1>5, <1>6, <1>7, <1>8, <1>9, <1>10

\* Killed, it has made the branch, and the worktree or not.
LEMMA KilledAddKeeps ==
  ASSUME WorktreeInv, NEW t \in Task, pc[t] = "add", branch[t] = {}, ~linked[t],
         "kill" \in World, NEW left \in BOOLEAN, Failed(t, "kill"),
         branch' = [branch EXCEPT ![t] = baseRef[t]], linked' = [linked EXCEPT ![t] = left],
         UNCHANGED <<origin, mirror, bare, wtConfig, configLock, mirrorBase, override, sparse,
                     tree, existed, baseRef, attempts, runVars>>
  PROVE  WorktreeInv'
<1> USE DEF WorktreeInv, MirrorInv, origin, shared, worktrees, runVars
<1>0. /\ \A s \in Task \ {t} : pc'[s] = pc[s] /\ branch'[s] = branch[s] /\ linked'[s] = linked[s]
      /\ branch'[t] = baseRef[t] /\ pc'[t] = "failed"
      /\ failure'[t] = "kill" /\ \A s \in Task \ {t} : failure'[s] = failure[s]
      /\ baseRef[t] \in Versions /\ mirror = "complete" /\ originBranch[t] = {} /\ rpc[t] = "idle"
  BY DEF Failed, Moved, TypeOK, Histories, Staged, Rooted, RunOnce
<1>1. TypeOK'
  BY <1>0 DEF TypeOK, Failed, Moved
<1>2. MutexHeld'
  BY MutexKept DEF Failure
<1>3. ConfigLockHeld'
  BY <1>0 DEF ConfigLockHeld
<1>4. Histories'
  BY <1>0, VersionIsGrown DEF Histories
<1>5. Causes'
  BY <1>0 DEF Causes
<1>6. FailuresExplained'
  BY <1>0 DEF FailuresExplained
<1>7. \A s \in Task : Staged(s)'
  BY <1>0 DEF Staged, BeforeMirror, Healing, AfterAdd
<1>8. \A s \in Task : Rooted(s)'
  BY <1>0 DEF Rooted, BeforeAdd, Healing, AfterAdd
<1>9. \A s \in Task : Materialized(s)'
  BY <1>0 DEF Materialized
<1>10. \A s \in Task : RunOnce(s)'
  BY <1>0 DEF RunOnce, Unrun, AfterAdd
<1> QED
  BY <1>1, <1>2, <1>3, <1>4, <1>5, <1>6, <1>7, <1>8, <1>9, <1>10

LEMMA WorktreeAddKeeps ==
  ASSUME WorktreeInv, NEW t \in Task, WorktreeAdd(t), UNCHANGED runVars
  PROVE  WorktreeInv'
<1>1. pc[t] = "add" /\ TypeOK
  BY DEF WorktreeAdd, At, WorktreeInv, MirrorInv
<1>2. CASE /\ branch[t] = {} /\ ~linked[t]
           /\ branch' = [branch EXCEPT ![t] = baseRef[t]] /\ linked' = [linked EXCEPT ![t] = TRUE]
           /\ mu' = IF mu = t THEN "free" ELSE mu
           /\ Goto(t, "override") /\ UNCHANGED failure
  BY <1>1, <1>2, GotoMoves, AddedKeeps DEF WorktreeAdd, Label
<1>3. CASE /\ branch[t] # {} \/ linked[t]
           /\ FailWith(t, "leftover") /\ UNCHANGED <<branch, linked>>
  <2>1. attempts[t] > 1
    <3>1. attempts[t] \in Nat /\ attempts[t] # 0 /\ attempts[t] # 1
      BY <1>1, <1>3 DEF TypeOK, WorktreeInv, Rooted, BeforeAdd
    <3> QED
      BY <3>1
  <2>2. Failed(t, "leftover") /\ Explained(t, "leftover")
    BY <1>1, <1>3, <2>1, FailWithFails DEF Failure, Explained
  <2> QED
    BY <1>1, <1>3, <2>2, FailKeeps DEF WorktreeAdd, Label, worktrees
<1>4. CASE /\ "kill" \in World /\ branch[t] = {} /\ ~linked[t]
           /\ branch' = [branch EXCEPT ![t] = baseRef[t]]
           /\ \E left \in BOOLEAN : linked' = [linked EXCEPT ![t] = left]
           /\ FailWith(t, "kill")
  <2>1. Failed(t, "kill")
    BY <1>1, <1>4, FailWithFails DEF Failure
  <2> QED
    BY <1>1, <1>4, <2>1, KilledAddKeeps DEF WorktreeAdd
<1> QED
  BY <1>2, <1>3, <1>4 DEF WorktreeAdd

(***************************************************************************)
(* Outside the lock, a provision touches what is its own.                  *)
(***************************************************************************)

LEMMA OverrodeKeeps ==
  ASSUME WorktreeInv, NEW t \in Task, pc[t] = "override", Moved(t, "sparse"),
         override' = [override EXCEPT ![t] = TRUE],
         UNCHANGED <<origin, shared, mu, linked, sparse, tree, existed, baseRef,
                     failure, attempts, runVars>>
  PROVE  WorktreeInv'
<1> USE DEF WorktreeInv, MirrorInv, origin, shared, worktrees, runVars
<1>0. /\ \A s \in Task \ {t} : pc'[s] = pc[s] /\ override'[s] = override[s]
      /\ override'[t] = TRUE /\ rpc[t] = "idle"
      /\ pc'[t] = "sparse" /\ pc'[t] \in Label /\ ~Locked(t) /\ ~Locked(t)'
  BY DEF Moved, Label, Locked, TypeOK, RunOnce
<1>1. TypeOK'
  BY <1>0 DEF TypeOK, Moved, Materialized
<1>2. MutexHeld'
  BY <1>0, MutexKept
<1>3. ConfigLockHeld'
  BY <1>0 DEF ConfigLockHeld
<1>4. Histories'
  BY <1>0 DEF Histories
<1>5. Causes'
  BY <1>0 DEF Causes
<1>6. FailuresExplained'
  BY <1>0 DEF FailuresExplained
<1>7. \A s \in Task : Staged(s)'
  BY <1>0 DEF Staged, BeforeMirror, Healing, AfterAdd
<1>8. \A s \in Task : Rooted(s)'
  BY <1>0 DEF Rooted, BeforeAdd, Healing, AfterAdd
<1>9. \A s \in Task : Materialized(s)'
  BY <1>0 DEF Materialized
<1>10. \A s \in Task : RunOnce(s)'
  BY <1>0 DEF RunOnce, Unrun, AfterAdd
<1> QED
  BY <1>1, <1>2, <1>3, <1>4, <1>5, <1>6, <1>7, <1>8, <1>9, <1>10

LEMMA SparsedKeeps ==
  ASSUME WorktreeInv, NEW t \in Task, pc[t] = "sparse", Moved(t, "readtree"),
         sparse' = [sparse EXCEPT ![t] = TRUE],
         UNCHANGED <<origin, shared, mu, linked, override, tree, existed, baseRef,
                     failure, attempts, runVars>>
  PROVE  WorktreeInv'
<1> USE DEF WorktreeInv, MirrorInv, origin, shared, worktrees, runVars
<1>0. /\ \A s \in Task \ {t} : pc'[s] = pc[s] /\ sparse'[s] = sparse[s]
      /\ sparse'[t] = TRUE /\ rpc[t] = "idle"
      /\ pc'[t] = "readtree" /\ pc'[t] \in Label /\ ~Locked(t) /\ ~Locked(t)'
  BY DEF Moved, Label, Locked, TypeOK, RunOnce
<1>1. TypeOK'
  BY <1>0 DEF TypeOK, Moved, Materialized
<1>2. MutexHeld'
  BY <1>0, MutexKept
<1>3. ConfigLockHeld'
  BY <1>0 DEF ConfigLockHeld
<1>4. Histories'
  BY <1>0 DEF Histories
<1>5. Causes'
  BY <1>0 DEF Causes
<1>6. FailuresExplained'
  BY <1>0 DEF FailuresExplained
<1>7. \A s \in Task : Staged(s)'
  BY <1>0 DEF Staged, BeforeMirror, Healing, AfterAdd
<1>8. \A s \in Task : Rooted(s)'
  BY <1>0 DEF Rooted, BeforeAdd, Healing, AfterAdd
<1>9. \A s \in Task : Materialized(s)'
  BY <1>0 DEF Materialized
<1>10. \A s \in Task : RunOnce(s)'
  BY <1>0 DEF RunOnce, Unrun, AfterAdd
<1> QED
  BY <1>1, <1>2, <1>3, <1>4, <1>5, <1>6, <1>7, <1>8, <1>9, <1>10

LEMMA ReadKeeps ==
  ASSUME WorktreeInv, NEW t \in Task, pc[t] = "readtree", Moved(t, "ready"),
         tree' = [tree EXCEPT ![t] = "remit"],
         UNCHANGED <<origin, shared, mu, linked, override, sparse, existed, baseRef,
                     failure, attempts, runVars>>
  PROVE  WorktreeInv'
<1> USE DEF WorktreeInv, MirrorInv, origin, shared, worktrees, runVars
<1>0. /\ \A s \in Task \ {t} : pc'[s] = pc[s] /\ tree'[s] = tree[s]
      /\ tree'[t] = "remit" /\ rpc[t] = "idle"
      /\ pc'[t] = "ready" /\ pc'[t] \in Label /\ ~Locked(t) /\ ~Locked(t)'
  BY DEF Moved, Label, Locked, TypeOK, RunOnce
<1>1. TypeOK'
  BY <1>0 DEF TypeOK, Moved, Materialized
<1>2. MutexHeld'
  BY <1>0, MutexKept
<1>3. ConfigLockHeld'
  BY <1>0 DEF ConfigLockHeld
<1>4. Histories'
  BY <1>0 DEF Histories
<1>5. Causes'
  BY <1>0 DEF Causes
<1>6. FailuresExplained'
  BY <1>0 DEF FailuresExplained
<1>7. \A s \in Task : Staged(s)'
  BY <1>0 DEF Staged, BeforeMirror, Healing, AfterAdd
<1>8. \A s \in Task : Rooted(s)'
  BY <1>0 DEF Rooted, BeforeAdd, Healing, AfterAdd
<1>9. \A s \in Task : Materialized(s)'
  BY <1>0 DEF Materialized
<1>10. \A s \in Task : RunOnce(s)'
  BY <1>0 DEF RunOnce, Unrun, AfterAdd
<1> QED
  BY <1>1, <1>2, <1>3, <1>4, <1>5, <1>6, <1>7, <1>8, <1>9, <1>10

LEMMA OverrideBareKeeps ==
  ASSUME WorktreeInv, NEW t \in Task, OverrideBare(t), UNCHANGED runVars
  PROVE  WorktreeInv'
<1>1. pc[t] = "override" /\ TypeOK /\ wtConfig
  BY DEF OverrideBare, At, WorktreeInv, MirrorInv, Staged, AfterAdd
<1>2. CASE override' = [override EXCEPT ![t] = TRUE] /\ Continue(t, "sparse")
  BY <1>1, <1>2, GotoMoves, OverrodeKeeps DEF OverrideBare, Continue, Label
<1>3. CASE "kill" \in World /\ FailWith(t, "worktree") /\ UNCHANGED override
  <2>1. Failed(t, "worktree") /\ Explained(t, "worktree")
    BY <1>1, <1>3, FailWithFails DEF Failure, Explained
  <2> QED
    BY <1>1, <1>3, <2>1, FailKeeps DEF OverrideBare, Label, shared, worktrees
<1> QED
  BY <1>1, <1>2, <1>3 DEF OverrideBare

LEMMA SparseSetKeeps ==
  ASSUME WorktreeInv, NEW t \in Task, SparseSet(t), UNCHANGED runVars
  PROVE  WorktreeInv'
<1>1. pc[t] = "sparse" /\ TypeOK /\ WorkTreeUsable(t)
  BY DEF SparseSet, At, WorktreeInv, MirrorInv, Materialized, WorkTreeUsable
<1>2. CASE sparse' = [sparse EXCEPT ![t] = TRUE] /\ Continue(t, "readtree")
  BY <1>1, <1>2, GotoMoves, SparsedKeeps DEF SparseSet, Continue, Label
<1>3. CASE "kill" \in World /\ FailWith(t, "worktree") /\ UNCHANGED sparse
  <2>1. Failed(t, "worktree") /\ Explained(t, "worktree")
    BY <1>1, <1>3, FailWithFails DEF Failure, Explained
  <2> QED
    BY <1>1, <1>3, <2>1, FailKeeps DEF SparseSet, Label, shared, worktrees
<1> QED
  BY <1>1, <1>2, <1>3 DEF SparseSet

LEMMA ReadTreeKeeps ==
  ASSUME WorktreeInv, NEW t \in Task, ReadTree(t), UNCHANGED runVars
  PROVE  WorktreeInv'
<1>1. pc[t] = "readtree" /\ TypeOK /\ WorkTreeUsable(t) /\ branch[t] # {} /\ sparse[t]
  BY DEF ReadTree, At, WorktreeInv, MirrorInv, Materialized, WorkTreeUsable, Rooted, AfterAdd
<1>2. CASE tree' = [tree EXCEPT ![t] = IF sparse[t] THEN "remit" ELSE "full"] /\ Continue(t, "ready")
  BY <1>1, <1>2, GotoMoves, ReadKeeps DEF ReadTree, Continue, Label
<1>3. CASE "kill" \in World /\ FailWith(t, "worktree") /\ UNCHANGED tree
  <2>1. Failed(t, "worktree") /\ Explained(t, "worktree")
    BY <1>1, <1>3, FailWithFails DEF Failure, Explained
  <2> QED
    BY <1>1, <1>3, <2>1, FailKeeps DEF ReadTree, Label, shared, worktrees
<1> QED
  BY <1>1, <1>2, <1>3 DEF ReadTree

LEMMA ProvisionKeeps ==
  ASSUME WorktreeInv, NEW t \in Task, Provisioner(t)
  PROVE  WorktreeInv'
BY LockKeeps, StatKeeps, CloneKeeps, TakeConfigLockKeeps, HealKeeps, FetchKeeps, RevParseKeeps,
   WorktreeAddKeeps, OverrideBareKeeps, SparseSetKeeps, ReadTreeKeeps DEF Provisioner, Provision

(***************************************************************************)
(* The steps of a run and of its agent.                                    *)
(***************************************************************************)

\* A step of the run of t touches nothing of the mirror, and of the runs only
\* its own entries.
RunMoved(t) ==
  /\ UNCHANGED mirrorVars
  /\ rpc' \in [Task -> RunLabel]
  /\ identity' \in [Task -> SUBSET {"credential", "author"}]
  /\ sessions' \in [Task -> Nat] /\ spawned' \in [Task -> Nat]
  /\ file' \in [Task -> [status : Status, by : Nat]]
  /\ outcome' \in [Task -> [event : {"none", "result_ok", "result_needs_human",
                                     "result_invalid"}, by : Nat]]
  /\ \A s \in Task \ {t} : /\ rpc'[s] = rpc[s] /\ identity'[s] = identity[s]
                           /\ sessions'[s] = sessions[s] /\ spawned'[s] = spawned[s]
                           /\ file'[s] = file[s] /\ outcome'[s] = outcome[s]

\* So all it has to keep is what RunOnce says of t.
LEMMA RunKeeps ==
  ASSUME WorktreeInv, NEW t \in Task, RunMoved(t), RunOnce(t)'
  PROVE  WorktreeInv'
<1> USE DEF WorktreeInv, MirrorInv, RunMoved, mirrorVars, origin, shared, worktrees
<1>1. TypeOK'
  BY DEF TypeOK
<1>2. MutexHeld' /\ ConfigLockHeld' /\ Histories' /\ Causes' /\ FailuresExplained'
  BY DEF MutexHeld, Locked, ConfigLockHeld, Histories, Causes, FailuresExplained
<1>3. \A s \in Task : Staged(s)' /\ Rooted(s)' /\ Materialized(s)'
  BY ZenonT(40) DEF Staged, Rooted, Materialized
<1>4. \A s \in Task : RunOnce(s)'
  <2>1. ASSUME NEW s \in Task \ {t} PROVE RunOnce(s)'
    BY <2>1 DEF RunOnce, Unrun
  <2> QED
    BY <2>1
<1> QED
  BY <1>1, <1>2, <1>3, <1>4

LEMMA RunTypes ==
  ASSUME WorktreeInv, NEW t \in Task
  PROVE  /\ rpc \in [Task -> RunLabel] /\ identity \in [Task -> SUBSET {"credential", "author"}]
         /\ sessions \in [Task -> Nat] /\ spawned \in [Task -> Nat]
         /\ file \in [Task -> [status : Status, by : Nat]]
         /\ outcome \in [Task -> [event : {"none", "result_ok", "result_needs_human",
                                           "result_invalid"}, by : Nat]]
         /\ RunOnce(t) /\ Rooted(t)
BY DEF WorktreeInv, MirrorInv, TypeOK

LEMMA StartRunKeeps ==
  ASSUME WorktreeInv, NEW t \in Task, StartRun(t)
  PROVE  WorktreeInv'
<1>1. RunMoved(t) /\ pc[t] = "ready" /\ rpc[t] = "idle" /\ rpc'[t] \in {"credential", "error"}
  BY RunTypes DEF StartRun, RunGoto, RunError, RunAt, RunMoved, RunLabel, At
<1>2. RunOnce(t)'
  BY <1>1, RunTypes DEF StartRun, RunOnce, Unrun, mirrorVars, AfterAdd, worktrees
<1> QED
  BY <1>1, <1>2, RunKeeps

LEMMA ConfigureKeeps ==
  ASSUME WorktreeInv, NEW t \in Task, Configure(t)
  PROVE  WorktreeInv'
<1>1. PICK label \in {"credential", "author"} :
        GitConfig(t, label, IF label = "credential" THEN "author" ELSE "session")
  BY DEF Configure
<1>2. CASE /\ identity' = [identity EXCEPT ![t] = @ \cup {label}]
           /\ RunGoto(t, IF label = "credential" THEN "author" ELSE "session")
  <2>1. RunMoved(t)
    BY <1>1, <1>2, RunTypes DEF GitConfig, RunGoto, RunMoved, RunLabel
  <2>2. /\ rpc[t] = label /\ identity'[t] = identity[t] \cup {label}
        /\ rpc'[t] = IF label = "credential" THEN "author" ELSE "session"
    BY <1>1, <1>2, RunTypes DEF GitConfig, RunGoto, RunAt
  <2>3. RunOnce(t)'
    BY <1>1, <2>1, <2>2, RunTypes DEF GitConfig, RunOnce, Unrun, mirrorVars, AfterAdd, worktrees
  <2> QED
    BY <2>1, <2>3, RunKeeps
<1>3. CASE RunError(t) /\ UNCHANGED identity
  <2>1. RunMoved(t) /\ rpc[t] = label /\ rpc'[t] = "error"
    BY <1>1, <1>3, RunTypes DEF GitConfig, RunGoto, RunError, RunAt, RunMoved, RunLabel
  <2>2. RunOnce(t)'
    BY <1>1, <1>3, <2>1, RunTypes DEF GitConfig, RunOnce, Unrun, mirrorVars, AfterAdd, worktrees
  <2> QED
    BY <2>1, <2>2, RunKeeps
<1> QED
  BY <1>1, <1>2, <1>3 DEF GitConfig

LEMMA JournalSessionKeeps ==
  ASSUME WorktreeInv, NEW t \in Task, JournalSession(t)
  PROVE  WorktreeInv'
<1>1. pc[t] = "ready" /\ rpc[t] = "session"
  BY RunTypes DEF JournalSession, RunAt, RunOnce
<1>2. CASE sessions' = [sessions EXCEPT ![t] = @ + 1] /\ RunGoto(t, "spawn")
  <2>1. rpc'[t] = "spawn" /\ sessions'[t] = sessions[t] + 1
    BY <1>2, RunTypes DEF RunGoto
  <2>2. sessions' \in [Task -> Nat]
    BY <1>2, RunTypes
  <2>3. RunMoved(t)
    BY <1>2, <2>2, RunTypes DEF JournalSession, RunGoto, RunMoved, RunLabel
  <2>4. RunOnce(t)'
    BY <1>1, <2>1, RunTypes DEF JournalSession, RunOnce, Unrun, Rooted, mirrorVars, AfterAdd,
       worktrees
  <2> QED
    BY <2>3, <2>4, RunKeeps
<1>3. CASE RunError(t) /\ UNCHANGED sessions
  <2>1. rpc'[t] = "error" /\ RunMoved(t)
    BY <1>3, RunTypes DEF JournalSession, RunGoto, RunError, RunMoved, RunLabel
  <2>2. RunOnce(t)'
    BY <1>1, <1>3, <2>1, RunTypes DEF JournalSession, RunOnce, Unrun, mirrorVars, AfterAdd,
       worktrees
  <2> QED
    BY <2>1, <2>2, RunKeeps
<1> QED
  BY <1>2, <1>3 DEF JournalSession

LEMMA SpawnKeeps ==
  ASSUME WorktreeInv, NEW t \in Task, Spawn(t)
  PROVE  WorktreeInv'
<1>1. RunMoved(t) /\ pc[t] = "ready" /\ rpc[t] = "spawn" /\ linked[t]
  BY RunTypes DEF Spawn, RunGoto, RunAt, RunMoved, RunLabel, RunOnce, Rooted, AfterAdd
<1>2. CASE spawned' = [spawned EXCEPT ![t] = @ + 1] /\ RunGoto(t, "agent")
  <2>1. rpc'[t] = "agent" /\ spawned'[t] = spawned[t] + 1
    BY <1>2, RunTypes DEF RunGoto
  <2>2. RunOnce(t)'
    BY <1>1, <2>1, RunTypes DEF Spawn, RunOnce, Unrun, mirrorVars, AfterAdd, worktrees, NoOutcome
  <2> QED
    BY <1>1, <2>2, RunKeeps
<1>3. CASE RunGoto(t, "derive") /\ UNCHANGED spawned
  <2>1. rpc'[t] = "derive"
    BY <1>3, RunTypes DEF RunGoto
  <2>2. RunOnce(t)'
    BY <1>1, <1>3, <2>1, RunTypes DEF Spawn, RunOnce, Unrun, mirrorVars, AfterAdd, worktrees
  <2> QED
    BY <1>1, <2>2, RunKeeps
<1> QED
  BY <1>2, <1>3 DEF Spawn

LEMMA DeriveKeeps ==
  ASSUME WorktreeInv, NEW t \in Task, Derive(t)
  PROVE  WorktreeInv'
<1>1. EventOf(file[t].status) \in {"result_ok", "result_needs_human", "result_invalid"}
  BY DEF EventOf
<1>2. file[t].by \in Nat
  BY RunTypes
<1>3. /\ rpc[t] = "derive" /\ pc[t] = "ready" /\ linked[t] /\ rpc'[t] = "done"
      /\ outcome'[t] = [event |-> EventOf(file[t].status), by |-> file[t].by]
  BY RunTypes DEF Derive, RunAt, RunGoto, RunOnce, Rooted, AfterAdd
<1>4. RunMoved(t)
  BY <1>1, <1>2, RunTypes DEF Derive, RunGoto, RunMoved, RunLabel
<1>5. EventOf(NoFile.status) = "result_invalid"
  BY DEF EventOf, NoFile
<1>6. outcome'[t].event \in {"result_ok", "result_needs_human"} =>
        outcome'[t].by = spawned'[t] /\ spawned'[t] = 1
  BY <1>3, <1>5, RunTypes DEF RunOnce, Derive
<1>7. RunOnce(t)'
  BY <1>3, <1>6, RunTypes DEF Derive, RunOnce, Unrun, mirrorVars, AfterAdd, worktrees
<1> QED
  BY <1>4, <1>7, RunKeeps

LEMMA AgentExitsKeeps ==
  ASSUME WorktreeInv, NEW t \in Task, AgentExits(t)
  PROVE  WorktreeInv'
<1>1. rpc[t] = "agent" /\ pc[t] = "ready" /\ linked[t] /\ rpc'[t] = "derive"
  BY RunTypes DEF AgentExits, RunAt, RunGoto, RunOnce, Rooted, AfterAdd
<1>2. CASE UNCHANGED file
  <2>1. RunMoved(t)
    BY <1>2, RunTypes DEF AgentExits, RunGoto, RunMoved, RunLabel
  <2>2. RunOnce(t)'
    BY <1>1, <1>2, RunTypes DEF AgentExits, RunOnce, Unrun, mirrorVars, AfterAdd, worktrees
  <2> QED
    BY <2>1, <2>2, RunKeeps
<1>3. CASE \E status \in Status \ {"absent"} :
             file' = [file EXCEPT ![t] = [status |-> status, by |-> spawned[t]]]
  <2>1. PICK status \in Status : file' = [file EXCEPT ![t] = [status |-> status, by |-> spawned[t]]]
    BY <1>3
  <2>2. file'[t].by = spawned[t] /\ [status |-> status, by |-> spawned[t]] \in [status : Status, by : Nat]
    BY <2>1, RunTypes
  <2>3. RunMoved(t)
    BY <2>1, <2>2, RunTypes DEF AgentExits, RunGoto, RunMoved, RunLabel
  <2>4. RunOnce(t)'
    BY <1>1, <2>2, RunTypes DEF AgentExits, RunOnce, Unrun, mirrorVars, AfterAdd, worktrees
  <2> QED
    BY <2>3, <2>4, RunKeeps
<1> QED
  BY <1>2, <1>3 DEF AgentExits

(***************************************************************************)
(* The steps of an agent that the mirror sees, of the world, and a second  *)
(* dispatch.                                                               *)
(***************************************************************************)

LEMMA AgentCommitsKeeps ==
  ASSUME WorktreeInv, NEW t \in Task, AgentCommits(t)
  PROVE  WorktreeInv'
<1> USE DEF WorktreeInv, MirrorInv, origin, worktrees, runVars
<1> DEFINE commit == <<t, Cardinality(Own(t))>>
<1>1. /\ rpc[t] = "agent" /\ pc[t] = "ready" /\ linked[t] /\ branch[t] # {}
      /\ mirror # "absent" /\ attempts[t] # 0
  BY DEF AgentCommits, RunAt, RunOnce, Rooted, AfterAdd
<1>2. branch[t] \cup {commit} \in Grown(t)
  BY <1>1, NextCommit DEF AgentCommits, Histories
<1> HIDE DEF commit
<1>0. /\ \A s \in Task \ {t} : branch'[s] = branch[s]
      /\ branch'[t] = branch[t] \cup {commit} /\ branch[t] \subseteq branch'[t]
      /\ branch' \in [Task -> SUBSET Commit]
      /\ UNCHANGED <<origin, mirror, bare, wtConfig, configLock, mirrorBase, mu, worktrees,
                     pc, existed, baseRef, failure, attempts, runVars>>
  BY <1>2, GrownFacts DEF AgentCommits, TypeOK, commit
<1>3. TypeOK'
  BY <1>0 DEF TypeOK
<1>4. MutexHeld' /\ ConfigLockHeld' /\ Causes' /\ FailuresExplained'
  BY <1>0 DEF MutexHeld, Locked, ConfigLockHeld, Causes, FailuresExplained
<1>5. Histories'
  BY <1>0, <1>2 DEF Histories
<1>6. \A s \in Task : Staged(s)' /\ Materialized(s)' /\ RunOnce(s)'
  BY <1>0 DEF Staged, Materialized, RunOnce, Unrun
<1>7. \A s \in Task : Rooted(s)'
  BY <1>0, <1>1 DEF Rooted, BeforeAdd, AfterAdd, Healing
<1> QED
  BY <1>3, <1>4, <1>5, <1>6, <1>7

LEMMA AgentPushesKeeps ==
  ASSUME WorktreeInv, NEW t \in Task, AgentPushes(t)
  PROVE  WorktreeInv'
<1> USE DEF WorktreeInv, MirrorInv, origin, shared, worktrees, runVars
<1>1. /\ rpc[t] = "agent" /\ pc[t] = "ready" /\ linked[t] /\ branch[t] # {}
      /\ baseRef[t] \subseteq branch[t]
  BY DEF AgentPushes, RunAt, RunOnce, Rooted, AfterAdd
<1>0. /\ \A s \in Task \ {t} : originBranch'[s] = originBranch[s]
      /\ originBranch'[t] = branch[t] /\ originBranch' \in [Task -> SUBSET Commit]
      /\ UNCHANGED <<originBase, shared, mu, worktrees, pc, existed, baseRef, failure,
                     attempts, runVars>>
  BY DEF AgentPushes, TypeOK
<1>2. TypeOK'
  BY <1>0 DEF TypeOK
<1>3. \A s \in Task : originBranch[s] # {} => originBranch'[s] # {}
  BY <1>0, <1>1
<1>4. MutexHeld' /\ ConfigLockHeld' /\ Causes' /\ FailuresExplained'
  BY <1>0, <1>3 DEF MutexHeld, Locked, ConfigLockHeld, Causes, FailuresExplained
<1>5. Histories'
  BY <1>0 DEF Histories
<1>6. \A s \in Task : Staged(s)' /\ Materialized(s)' /\ RunOnce(s)'
  BY <1>0 DEF Staged, Materialized, RunOnce, Unrun
<1>7. \A s \in Task : Rooted(s)'
  BY <1>0, <1>1 DEF Rooted
<1> QED
  BY <1>2, <1>4, <1>5, <1>6, <1>7

\* The agents take config.lock only while it is free, and no task's hold of it
\* is touched.
LEMMA AgentConfigLockKeeps ==
  ASSUME WorktreeInv, (\E t \in Task : AgentTakesConfigLock(t)) \/ AgentReleasesConfigLock
  PROVE  WorktreeInv'
<1> USE DEF WorktreeInv, MirrorInv, origin, worktrees, runVars
<1>0. /\ configLock \in {"free", "agent"} /\ configLock' \in {"free", "agent"}
      /\ configLock' = "agent" => \E s \in Task : originBranch[s] # {}
      /\ UNCHANGED <<origin, mirror, bare, wtConfig, mirrorBase, branch, mu, worktrees,
                     pc, existed, baseRef, failure, attempts, runVars>>
  BY DEF AgentTakesConfigLock, AgentReleasesConfigLock
<1>1. TypeOK' /\ Causes'
  BY <1>0 DEF TypeOK, Causes
<1>2. ConfigLockHeld'
  BY <1>0, Constants DEF ConfigLockHeld
<1>3. MutexHeld' /\ FailuresExplained' /\ Histories'
  BY <1>0 DEF MutexHeld, Locked, FailuresExplained, Histories
<1>4. \A s \in Task : Staged(s)' /\ Materialized(s)' /\ RunOnce(s)' /\ Rooted(s)'
  BY <1>0 DEF Staged, Materialized, RunOnce, Unrun, Rooted
<1> QED
  BY <1>1, <1>2, <1>3, <1>4

LEMMA RedispatchKeeps ==
  ASSUME WorktreeInv, NEW t \in Task, Redispatch(t)
  PROVE  WorktreeInv'
<1> USE DEF WorktreeInv, MirrorInv, origin, shared, worktrees
<1>0. /\ rpc[t] \in {"done", "error"} /\ pc[t] = "ready" /\ rpc' = [rpc EXCEPT ![t] = "idle"]
      /\ Moved(t, "idle") /\ linked[t]
      /\ UNCHANGED <<origin, shared, mu, worktrees, existed, baseRef, failure, attempts,
                     identity, sessions, spawned, file, outcome>>
  BY DEF Redispatch, RunGoto, Moved, TypeOK, Label, RunOnce, Rooted, AfterAdd
<1>1. TypeOK'
  BY <1>0 DEF TypeOK, Moved, RunLabel
<1>2. MutexHeld' /\ ConfigLockHeld'
  BY <1>0 DEF MutexHeld, ConfigLockHeld, Locked, Moved
<1>3. Causes' /\ FailuresExplained' /\ Histories'
  BY <1>0 DEF Causes, FailuresExplained, Histories
<1>4. \A s \in Task : Staged(s)' /\ Materialized(s)'
  BY <1>0 DEF Staged, Materialized, Moved, BeforeMirror, Healing, AfterAdd
<1>5. \A s \in Task : Rooted(s)'
  BY <1>0 DEF Rooted, Moved, BeforeAdd, Healing, AfterAdd
<1>6. \A s \in Task : RunOnce(s)'
  BY <1>0 DEF RunOnce, Unrun, Moved, AfterAdd, TypeOK
<1> QED
  BY <1>1, <1>2, <1>3, <1>4, <1>5, <1>6

LEMMA AdvanceKeeps ==
  ASSUME WorktreeInv, Advance, UNCHANGED runVars
  PROVE  WorktreeInv'
<1> USE DEF WorktreeInv, MirrorInv, Advance, shared, worktrees, runVars
<1>1. originBase' \in Versions /\ originBase' \subseteq Commit
  BY NextVersion, VersionFacts DEF Histories
<1>2. TypeOK' /\ Histories'
  BY <1>1 DEF TypeOK, Histories
<1>3. MutexHeld' /\ ConfigLockHeld' /\ Causes' /\ FailuresExplained'
  BY DEF MutexHeld, Locked, ConfigLockHeld, Causes, FailuresExplained
<1>4. \A s \in Task : Staged(s)' /\ Materialized(s)' /\ RunOnce(s)' /\ Rooted(s)'
  BY DEF Staged, Materialized, RunOnce, Unrun, Rooted
<1> QED
  BY <1>2, <1>3, <1>4

LEMMA InvStep == WorktreeInv /\ [Next]_worktreeVars => WorktreeInv'
<1> SUFFICES ASSUME WorktreeInv, [Next]_worktreeVars PROVE WorktreeInv'
  OBVIOUS
<1>1. CASE \E t \in Task : Dispatch(t) \/ Provisioner(t)
  BY <1>1, BeginKeeps, ProvisionKeeps DEF Dispatch
<1>2. CASE \E t \in Task : Run(t)
  BY <1>2, StartRunKeeps, ConfigureKeeps, JournalSessionKeeps, SpawnKeeps, DeriveKeeps DEF Run
<1>3. CASE \E t \in Task : Agent(t)
  BY <1>3, AgentCommitsKeeps, AgentPushesKeeps, AgentConfigLockKeeps, AgentExitsKeeps DEF Agent
<1>4. CASE \E t \in Task : Redispatch(t)
  BY <1>4, RedispatchKeeps
<1>5. CASE AgentReleasesConfigLock
  BY <1>5, AgentConfigLockKeeps
<1>6. CASE Advance /\ UNCHANGED runVars
  BY <1>6, AdvanceKeeps
<1>7. CASE UNCHANGED worktreeVars
  <2> USE <1>7 DEF worktreeVars, mirrorVars, origin, shared, worktrees, runVars, WorktreeInv,
                   MirrorInv
  <2>1. TypeOK' /\ Histories'
    BY DEF TypeOK, Histories
  <2>2. MutexHeld' /\ ConfigLockHeld' /\ Causes' /\ FailuresExplained'
    BY DEF MutexHeld, Locked, ConfigLockHeld, Causes, FailuresExplained
  <2>3. \A t \in Task : Staged(t)' /\ Rooted(t)' /\ Materialized(t)' /\ RunOnce(t)'
    BY DEF Staged, Rooted, Materialized, RunOnce, Unrun
  <2> QED
    BY <2>1, <2>2, <2>3
<1> QED
  BY <1>1, <1>2, <1>3, <1>4, <1>5, <1>6, <1>7 DEF Next

(***************************************************************************)
(* The mirror's lock and config.lock are where the labels say, and what a  *)
(* provision has established stays established (workspace.go 135-238).     *)
(***************************************************************************)
THEOREM WorktreesAreSound == Spec => []WorktreeInv
BY InvInit, InvStep, PTL DEF Spec

(***************************************************************************)
(* One provision at a time is inside the touch of the mirror, and nobody   *)
(* keeps the lock who is not (workspace.go 211-241), for any number of     *)
(* tasks and dispatches.                                                   *)
(***************************************************************************)
THEOREM TouchesAreSerialized == Spec => []MirrorInv
<1>1. WorktreeInv => MirrorInv
  BY DEF WorktreeInv
<1> QED
  BY <1>1, WorktreesAreSound, PTL

(***************************************************************************)
(* Provisions against one mirror never fail by one another, but for the    *)
(* fetch that a pushed branch blocks (AC-12.2, AC-12.5).                   *)
(***************************************************************************)
THEOREM FailuresAreExplained == Spec => []FailuresExplained
<1>1. WorktreeInv => FailuresExplained
  BY DEF WorktreeInv
<1> QED
  BY <1>1, WorktreesAreSound, PTL

(***************************************************************************)
(* An agent runs in a sparse worktree of its own, journaled and with its   *)
(* identity configured, and its outcome is read from what it wrote itself  *)
(* (ADR-0006, AC-10).                                                      *)
(***************************************************************************)
THEOREM RunsAreIsolated == Spec => []RunsInItsOwnWorktree
<1>1. WorktreeInv => RunsInItsOwnWorktree
  <2> SUFFICES ASSUME WorktreeInv, NEW t \in Task
               PROVE  /\ RunAt(t, "agent") =>
                           /\ linked[t] /\ tree[t] = "remit"
                           /\ baseRef[t] \subseteq branch[t]
                           /\ identity[t] = {"credential", "author"}
                           /\ sessions[t] = spawned[t]
                      /\ outcome[t].event \in {"result_ok", "result_needs_human"} =>
                           outcome[t].by = spawned[t] /\ spawned[t] = 1
    BY DEF RunsInItsOwnWorktree
  <2>1. CASE RunAt(t, "agent")
    <3>1. identity[t] = {"credential", "author"}
      BY <2>1, RunTypes DEF RunAt, RunOnce
    <3> QED
      BY <2>1, <3>1 DEF WorktreeInv, RunAt, RunOnce, Rooted, Materialized, AfterAdd
  <2>2. CASE ~RunAt(t, "agent")
    BY <2>2 DEF WorktreeInv, RunOnce
  <2> QED
    BY <2>1, <2>2
<1> QED
  BY <1>1, WorktreesAreSound, PTL

(***************************************************************************)
(* The refinement: with a git that guards what is checked out (>= 2.35),   *)
(* every step is a creation of, or a commit on, one task's own branch, or  *)
(* leaves every branch alone.                                              *)
(***************************************************************************)

LEMMA SerialFacts ==
  /\ \A b \in Versions : \E n \in 0..(MaxAdvance + MaxCommits) : b = {<<Base, i>> : i \in 0..n}
  /\ 0..MaxCommits \subseteq 0..(MaxAdvance + MaxCommits)
BY Constants DEF Versions, BaseAt

LEMMA AddImplements ==
  ASSUME WorktreeInv, NEW t \in Task, pc[t] = "add", branch[t] = {},
         branch' = [branch EXCEPT ![t] = baseRef[t]]
  PROVE  Isolated!Create(t)
<1>1. baseRef[t] \in Versions
  BY DEF WorktreeInv, Histories, Staged
<1>2. PICK n \in 0..(MaxAdvance + MaxCommits) : baseRef[t] = {<<Base, i>> : i \in 0..n}
  BY <1>1, SerialFacts
<1> QED
  BY <1>2 DEF Isolated!Create

LEMMA CommitImplements ==
  ASSUME WorktreeInv, NEW t \in Task, AgentCommits(t)
  PROVE  Isolated!Commit(t)
<1> DEFINE n == Cardinality(Own(t))
<1>1. branch[t] # {} /\ branch[t] \in Grown(t) \cup {{}} /\ n < MaxCommits
  BY DEF WorktreeInv, AgentCommits, RunAt, RunOnce, Rooted, AfterAdd, Histories
<1>2. n \in 0..MaxCommits /\ <<t, n>> \notin branch[t]
  BY <1>1, NextCommit
<1>3. n \in 0..(MaxAdvance + MaxCommits)
  BY <1>2, SerialFacts
<1>4. branch' = [branch EXCEPT ![t] = @ \cup {<<t, n>>}]
  BY DEF AgentCommits
<1> HIDE DEF n
<1> QED
  BY <1>1, <1>2, <1>3, <1>4 DEF Isolated!Commit

\* A clone finds no pushed branch, and a fetch moves none.
LEMMA MirrorSpares ==
  ASSUME WorktreeInv, ModernGit, NEW t \in Task, Clone(t) \/ Fetch(t)
  PROVE  UNCHANGED branch
<1>1. CASE Clone(t)
  BY <1>1, NothingWithoutMirror DEF Clone
<1>2. CASE Fetch(t) /\ ~UNCHANGED branch
  <2>1. ~FetchRefused /\ branch' = [s \in Task |-> Fetched(branch, s)]
    BY <1>2 DEF Fetch
  <2>2. \A s \in Task : originBranch[s] = {}
    BY <2>1 DEF FetchRefused, WorktreeInv, Rooted
  <2>3. branch \in [Task -> SUBSET Commit]
    BY DEF WorktreeInv, MirrorInv, TypeOK
  <2> QED
    BY <2>1, <2>2, <2>3 DEF Fetched
<1> QED
  BY <1>1, <1>2

LEMMA StepImplements ==
  ASSUME WorktreeInv, ModernGit, [Next]_worktreeVars
  PROVE  [Isolated!Next]_branch
<1>1. ASSUME NEW t \in Task, Provision(t) PROVE [Isolated!Next]_branch
  <2>1. CASE WorktreeAdd(t)
    BY <2>1, AddImplements DEF WorktreeAdd, At, Isolated!Next
  <2>2. CASE Clone(t) \/ Fetch(t)
    BY <2>2, MirrorSpares
  <2>3. CASE Lock(t) \/ Stat(t) \/ TakeConfigLock(t) \/ Heal(t) \/ RevParse(t)
             \/ OverrideBare(t) \/ SparseSet(t) \/ ReadTree(t)
    BY <2>3 DEF Lock, Stat, TakeConfigLock, Heal, RevParse, OverrideBare, SparseSet, ReadTree,
       shared
  <2> QED
    BY <1>1, <2>1, <2>2, <2>3 DEF Provision
<1>2. ASSUME NEW t \in Task, AgentCommits(t) PROVE [Isolated!Next]_branch
  BY <1>2, CommitImplements DEF Isolated!Next
<1>3. ASSUME NEW t \in Task, Dispatch(t) \/ Run(t) \/ AgentPushes(t)
                             \/ AgentTakesConfigLock(t) \/ AgentExits(t) \/ Redispatch(t)
      PROVE  UNCHANGED branch
  BY <1>3 DEF Dispatch, Begin, Run, StartRun, Configure, GitConfig, JournalSession, Spawn, Derive,
     AgentPushes, AgentTakesConfigLock, AgentExits, Redispatch, mirrorVars, shared
<1>4. CASE AgentReleasesConfigLock \/ (Advance /\ UNCHANGED runVars) \/ UNCHANGED worktreeVars
  BY <1>4 DEF AgentReleasesConfigLock, Advance, worktreeVars, mirrorVars, shared
<1> QED
  BY <1>1, <1>2, <1>3, <1>4 DEF Next, Provisioner, Agent

(***************************************************************************)
(* No provision or fetch creates, moves or removes the branch of another   *)
(* task: the mirror implements IsolatedWorktrees (workspace.go 371-386).   *)
(***************************************************************************)
THEOREM WorktreesImplementIsolation ==
  ASSUME ModernGit
  PROVE  Spec => ImplementsIsolatedWorktrees
<1>1. Init => Isolated!Init
  BY DEF Init, MirrorInit, Isolated!Init
<1>2. WorktreeInv /\ [Next]_worktreeVars => [Isolated!Next]_branch
  BY StepImplements
<1> QED
  BY <1>1, <1>2, WorktreesAreSound, PTL DEF Spec, ImplementsIsolatedWorktrees, Isolated!Spec
=============================================================================
