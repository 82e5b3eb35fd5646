---------------------------- MODULE MCDecisions ----------------------------
EXTENDS Decisions

(* The remit: "in2" starts as "in" does.                                   *)
Result == <<".mandat", "/", "r">>
MCBase == {<<"in", "/", "d", "/", "a">>, <<"in", "2", "/", "a">>}
MCNew == {<<"in", "/", "b">>, <<"in", "2", "/", "b">>, <<"in", "/", "o-umlaut">>, Result}
MCBranches == {{}, {<<"in", "2", "/", "b">>}, MCBase \cup MCNew}
MCRemits ==
  {{<<"in">>}, {<<"in", "/">>}, {<<"in", "/", "*">>}, {<<"in", "2">>, <<"*">>}}

MCWorktrees == {NoPath, Path(TRUE, <<"tasks", "t">>), Path(TRUE, <<"tasks", "..", "t">>),
                Path(FALSE, <<"t">>)}
MCTargets ==
  {Path(rooted, s) : rooted \in BOOLEAN,
                     s \in BoundedSeq({"tasks", "t", "t2", "..", ".", "..x"}, 3)}

(* Configurations: one that loads, and what hands make of it.              *)
AgentRole(user, tier) ==
  [agent_identity_id |-> "i", agent_user_id |-> "u", agent_user_name |-> user,
   autonomy_ceiling |-> "draft-pr", model_tier |-> tier, playbook |-> "p"]
Good ==
  [tracker |-> [kind |-> "azure-devops", org |-> "o", project |-> "p", in_progress |-> ""],
   auth |-> [mode |-> "client-certificate"],
   entra |-> [tenant |-> "t", blueprint |-> "b", identity_mode |-> "agent-user-pair"],
   repos |-> [k1 |-> [url |-> "u", base_branch |-> "main", paths |-> <<<<"in">>>>]],
   roles |-> [dev |-> AgentRole("dev", ""), reviewer |-> AgentRole("rev", "opus")],
   runner |-> [pool_size |-> 0],
   budget |-> [max_usd_per_run |-> 2, max_usd_in_flight |-> 0]]

RemitPaths == {<<>>, <<<<"in">>>>, <<EmptyPath>>, <<<<"in">>, <<"", "x">>>>, <<<<"in">>, <<"x", "..">>>>}
MCPollConfigs ==
  {[Good EXCEPT !.repos = [k1 |-> [url |-> "u", base_branch |-> b, paths |-> <<<<"in">>>>],
                           k2 |-> [url |-> "v", base_branch |-> "dev", paths |-> paths]]] :
     b \in {"", "main"}, paths \in RemitPaths}
  \cup {Good, [Good EXCEPT !.repos = <<>>]}

MCFold == [u \in {"dev", "DEV", "other"} |-> IF u = "DEV" THEN "dev" ELSE u]
Item(id, assigned, tags, title) ==
  [id |-> id, assigned_to |-> assigned, tags |-> tags, title |-> title, acceptance |-> "a"]
Tags ==
  {<<>>, <<OtherTag, RepoTag("k1")>>, <<RepoTag(""), RepoTag("k2")>>, <<RepoTag("k2"), RepoTag("k1")>>,
   <<RepoTag("k3"), RepoTag("k1")>>}
Items(id) == {Item(id, u, g, title) : u \in DOMAIN MCFold, g \in Tags, title \in {"", "t"}}
Second == {Item("2", u, <<RepoTag(k)>>, "t") : u \in {"DEV", "other"}, k \in {"k1", "k2"}}
MCListings == {<<>>} \cup {<<a>> : a \in Items("1")} \cup {<<a, b>> : a \in Items("1"), b \in Second}

MCCreators == <<"dev", "someone">>
PRs(n) ==
  [1..n -> [branch : {Branch, "mandat/u"}, base : {"main", "other"}, createdBy : ToSet(MCCreators),
            active : BOOLEAN, draft : {TRUE}]]
Numbered(s, order) ==
  [i \in DOMAIN s |->
     [id |-> IF order = "oldest" THEN i ELSE Len(s) + 1 - i, branch |-> s[i].branch,
      base |-> s[i].base, createdBy |-> s[i].createdBy, active |-> s[i].active, draft |-> s[i].draft]]
MCPullRequests == {Numbered(s, order) : s \in UNION {PRs(n) : n \in 0..2}, order \in {"oldest", "newest"}}

MCPreflightConfigs ==
  {[Good EXCEPT !.entra.identity_mode = mode, !.auth.mode = auth, !.roles = roles,
                !.budget.max_usd_in_flight = usd, !.tracker.org = org] :
     mode \in {"agent-user-pair", "service-principal"},
     auth \in {"client-certificate", "arc-managed-identity", ""},
     roles \in {[dev |-> AgentRole("dev", "")], [reviewer |-> AgentRole("rev", "")]}
                 \cup {[dev |-> AgentRole(d, ""), reviewer |-> AgentRole(r, "")] :
                         d \in {"", "dev"}, r \in {"", "dev", "rev"}},
     usd \in {0, 1}, org \in {"", "o"}}
Host(claude, down) ==
  [w \in {"claude"} \cup {"git", "journal", "disk", "secret", "token", "tracker"} |->
     IF w = "claude" THEN claude ELSE w # down]
MCHosts ==
  {Host(v, "nothing") : v \in {<<>>, <<2, 1>>, <<2, 1, 99>>, <<2, 1, 208>>, <<2, 1, 208, 1>>, <<2, 0, 300>>, <<3, 0>>}}
  \cup {Host(claudeVersionFloor, down) : down \in {"git", "journal", "disk", "secret", "token", "tracker"}}

(* The tail holds 3 events and 6 bytes; a line of 9 is beyond the scanner. *)
MCStreams ==
  BoundedSeq({Line("init", "s1", 1), Line("result", 1, 2), Line("result", 2, 7), Line("other", "", 0),
              Line("junk", "", 1), Line("other", "", 9)}, 4)

MCDocuments == BoundedSeq({"x", "y", Newline}, 4)

MCAccounts ==
  <<[id |-> "a0", tenant |-> ""], [id |-> "a1", tenant |-> "t1"], [id |-> "a2", tenant |-> "t2"],
    [id |-> "a3", tenant |-> "t1"], [id |-> "t3", tenant |-> "t3"]>>
Project(name, repos) == [name |-> name, repos |-> repos]
Repo(url, branch) == [url |-> url, branch |-> branch]
MCOrgs ==
  [t1 |-> <<[name |-> "o1", projects |-> <<Project("empty", <<>>),
                                           Project("p", <<Repo("r1", "main"), Repo("r2", "")>>)>>]>>,
   t2 |-> <<[name |-> "o2", projects |-> <<Project("p", <<Repo("r3", "")>>)>>]>>,
   t3 |-> <<[name |-> "o3", projects |-> <<>>], [name |-> "o4", projects |-> <<>>]>>]
Identity(id, names) == [id |-> id, names |-> names]
MCDirectory ==
  [t1 |-> [identities |-> <<Identity("i1", {"reviewer", "dev"}), Identity("i2", {"dev"})>>,
           users |-> <<[id |-> "u0", parent |-> ""], [id |-> "u1", parent |-> "i1"]>>],
   t2 |-> [identities |-> <<Identity("j1", {"dev"})>>, users |-> <<>>],
   t3 |-> [identities |-> <<>>, users |-> <<[id |-> "v1", parent |-> "j1"]>>]]
MCRowNumber == [x \in {"0", "1", "2", "3", "4"} |->
                  CASE x = "0" -> 0 [] x = "1" -> 1 [] x = "2" -> 2 [] x = "3" -> 3 [] x = "4" -> 4]
MCPicks == BoundedSeq({"", "0", "2", "3", "4", "t2", "a3", "t3", "tx"}, 2)
=============================================================================
