------------------------------ MODULE Preflight ------------------------------
(***************************************************************************)
(* cmd/mandat: doctor's checks over a loaded configuration, and the wiring *)
(* serve does with the same configuration when it starts.  What the checks *)
(* find on the machine is `host`: the version the Claude CLI prints (a     *)
(* sequence of numbers, empty when none can be read), and whether git, the *)
(* journal, the disk, the secret, the tokens and the tracker are there.    *)
(***************************************************************************)
EXTENDS Ingest

claudeVersionFloor == <<2, 1, 208>>

Part(version, i) == IF i <= Len(version) THEN version[i] ELSE 0

\* -1, 0 or 1: the first part that differs decides, and a missing part is zero.
compareVersion(a, b) ==
  LET n == IF Len(a) < Len(b) THEN Len(b) ELSE Len(a)
      i == SelectInSeq([k \in 1..n |-> Part(a, k) # Part(b, k)], LAMBDA differs : differs)
  IN  IF i = 0 THEN 0 ELSE IF Part(a, i) < Part(b, i) THEN -1 ELSE 1

versionAtLeast(got, floor) == compareVersion(got, floor) >= 0

Check(name, required, ok) == [name |-> name, required |-> required, ok |-> ok]

claudeVersionCheck(host) ==
  Check("claude CLI", TRUE,
        host.claude # <<>> /\ versionAtLeast(host.claude, claudeVersionFloor))

gitVersionCheck(host) == Check("git", TRUE, host.git)
sqliteCheck(host) == Check("sqlite journal", TRUE, host.journal)
diskCheck(host) == Check("disk", TRUE, host.disk)

\* A managed identity takes no secret; the pilot's credential is one, from the environment or a file.
buildBroker(c, host) == c.auth.mode = "arc-managed-identity" \/ host.secret

newRoleAdapter(c, role, agentUserName) == Adapter(c, role, agentUserName)

trackerCheckFor(c, role, host) ==
  LET r == Resolve(c, role)
  IN  Check("tracker reachability", TRUE,
            /\ r.ok /\ buildBroker(c, host)
            /\ newRoleAdapter(c, role, r.agent_user_name).ok
            /\ host.token /\ host.tracker)

reviewerIdentity(c) ==
  IF "reviewer" \in DOMAIN c.roles THEN c.roles["reviewer"].agent_user_name ELSE ""

\* Mutant of reviewerIdentityCheck: a shared identity is reported, and does not block.
reviewerIdentityWarning(c) ==
  Check("reviewer identity", FALSE,
        \A other \in DOMAIN c.roles \ {"reviewer"} :
          c.roles[other].agent_user_name # reviewerIdentity(c))

reviewerIdentityCheck(c) ==
  IF "reviewer" \notin DOMAIN c.roles \/ c.roles["reviewer"].agent_user_name = ""
    THEN Check("reviewer identity", FALSE, FALSE)
    ELSE Check("reviewer identity", TRUE,
               \A other \in DOMAIN c.roles \ {"reviewer"} :
                 c.roles[other].agent_user_name # c.roles["reviewer"].agent_user_name)

buildChecks(c, role, host) ==
  {claudeVersionCheck(host), gitVersionCheck(host), sqliteCheck(host),
   trackerCheckFor(c, role, host), reviewerIdentityCheck(c), diskCheck(host)}

\* Every check runs; the exit code is 1 when a required one failed.
runChecks(checks) == IF \E k \in checks : k.required /\ ~k.ok THEN 1 ELSE 0

doctor(document, role, host) ==
  IF Loads(document) THEN runChecks(buildChecks(Load(document).config, role, host)) ELSE 1

----------------------------------------------------------------------------
ProbeStub == [ok |-> TRUE, wired |-> FALSE]

\* The stub of a configuration without a reviewer fails every probe.
buildReviewerProbe(c) ==
  IF "reviewer" \notin DOMAIN c.roles THEN ProbeStub
  ELSE [ok |-> newRoleAdapter(c, "reviewer", c.roles["reviewer"].agent_user_name).ok,
        wired |-> TRUE]

buildServeDeps(c, role, host) ==
  LET r == Resolve(c, role)
      probe == buildReviewerProbe(c)
  IN  [ok |-> /\ r.ok /\ buildBroker(c, host)
              /\ newRoleAdapter(c, role, r.agent_user_name).ok
              /\ probe.ok,
       probe |-> probe, scorer |-> reviewerIdentity(c),
       pool |-> c.runner.pool_size]

\* serve loads, opens the journal and wires before it takes its first task.
serveStarts(document, role, host) ==
  /\ Loads(document) /\ host.journal
  /\ buildServeDeps(Load(document).config, role, host).ok
=============================================================================
