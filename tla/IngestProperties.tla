-------------------------- MODULE IngestProperties --------------------------
(***************************************************************************)
(* From an assigned work item to a contract, and from a pushed branch to   *)
(* the pull request the probe reads.                                       *)
(***************************************************************************)
EXTENDS Ingest, Decision

CONSTANTS
  PollConfigs,    \* the documents a poll may run under
  Listings,       \* sequences of work items, as they are when they are read
  PullRequests,   \* sequences of a repo's pull requests, in the order they are listed
  Creators        \* who opens pull requests; the first is the Dev agent user

Tag == [repo : BOOLEAN, key : STRING]
WorkItem ==
  [id : STRING \ {""}, assigned_to : DOMAIN Fold, tags : Seq(Tag), title : STRING, acceptance : STRING]

ASSUME ListingsAssumption == Listings \subseteq Seq(WorkItem)

\* Case folding leaves the empty name alone, and makes no other name empty.
ASSUME FoldAssumption == \A u, v \in DOMAIN Fold : Fold[u] = Fold[v] => (u = "" <=> v = "")

PollRequests ==
  {r \in [kind : {"poll"}, config : PollConfigs, listing : Listings, listed : BOOLEAN,
          unreadable : UNION {SUBSET DOMAIN listing : listing \in Listings}] :
     r.unreadable \subseteq DOMAIN r.listing}

DevAdapter(document) ==
  LET c == Load(document).config
  IN  Adapter(c, "dev", Resolve(c, "dev").agent_user_name)

\* serve and doctor poll under a configuration they could load.
PollTracker ==
  Decide("poll", LAMBDA r :
    Poll(DevAdapter(r.config), r.listed, r.listing, r.unreadable))

ASSUME UsersAssumption == \A c \in PollConfigs : DevAdapter(c).agentUserName \in DOMAIN Fold

\* A repo's pull requests are numbered from 1.
ASSUME PullRequestsAssumption ==
  \A prs \in PullRequests :
    /\ prs \in Seq([id : Nat, branch : STRING, base : STRING, createdBy : STRING,
                    active : BOOLEAN, draft : BOOLEAN])
    /\ \A i \in DOMAIN prs : prs[i].id <= Len(prs)

Branch == "mandat/t"

ForgeRequests ==
  {r \in [kind : {"forge"}, prs : PullRequests, at : 1..3, base : {"main", "other"},
          creates : BOOLEAN, finds : BOOLEAN] : r.at <= Len(r.prs) + 1}

ForgePR ==
  Decide("forge", LAMBDA r :
    LET created == CreatePR(r.prs, r.at, Branch, r.base, Creators[1], r.creates)
    IN  [created |-> ~created.err, prs |-> created.prs,
         found |-> FindPR(created.prs, Branch, r.finds)])

----------------------------------------------------------------------------
Polled == Decided("poll") /\ Loads(request.config) /\ DevAdapter(request.config).ok
User == DevAdapter(request.config).agentUserName
Repos == Load(request.config).config.repos

Named(wi) == {i \in DOMAIN wi.tags : wi.tags[i].repo /\ wi.tags[i].key # ""}
RepoOf(wi) == wi.tags[CHOOSE i \in Named(wi) : \A j \in Named(wi) : i <= j].key

\* What makes a work item a task: assigned to the agent user, of a repo of the registry, complete.
Consented(wi) ==
  /\ Fold[wi.assigned_to] = Fold[User]
  /\ Named(wi) # {} /\ RepoOf(wi) \in DOMAIN Repos
  /\ wi.title # "" /\ wi.acceptance # ""

HasEmptyPath(repo) == \E i \in DOMAIN Repos[repo].paths : Repos[repo].paths[i] = EmptyPath

(***************************************************************************)
(* A poll that fails anywhere returns no contract, whatever it has read;   *)
(* one that does not, returns contracts of consented items alone, one for  *)
(* each and in their order, each held to the remit the registry gives the  *)
(* first repo it is tagged with (poll.go 28-143; RFC-0001 AC-07, AC-08).   *)
(***************************************************************************)
PollExact ==
  Polled =>
    IF ~request.listed \/ request.unreadable # {}
      THEN Answer.err /\ Answer.contracts = <<>>
      ELSE /\ ~Answer.err
           /\ \E of \in [DOMAIN Answer.contracts -> DOMAIN request.listing] :
                /\ \A i, j \in DOMAIN of : i < j => of[i] < of[j]
                /\ \A i \in DOMAIN of :
                     LET tc == Answer.contracts[i]
                         wi == request.listing[of[i]]
                     IN  /\ Consented(wi) /\ tc.id = wi.id /\ tc.state = "queued"
                         /\ tc.assigned_to = wi.assigned_to
                         /\ tc.remit = [repo |-> RepoOf(wi),
                                        base_branch |-> Repos[RepoOf(wi)].base_branch,
                                        paths |-> Repos[RepoOf(wi)].paths]

(***************************************************************************)
(* "Mirroring task.Validate's remit.paths checks here catches it at config *)
(* load instead" (config.go 365-368): under a configuration that loads, no *)
(* consented item is skipped over its remit, but for a repo with an empty  *)
(* path in its remit, which is the one check config.Load does not mirror.  *)
(***************************************************************************)
LoadedRemitsDispatch ==
  Polled /\ ~Answer.err =>
    \A i \in DOMAIN request.listing :
      LET wi == request.listing[i]
      IN  Consented(wi) /\ ~HasEmptyPath(RepoOf(wi))
            => \E j \in DOMAIN Answer.contracts : Answer.contracts[j].id = wi.id

(***************************************************************************)
(* The probe sees the newest active pull request of the branch, whatever   *)
(* order the server lists them in and whatever became of older ones: right *)
(* after OpenPR that is the draft just opened, by the Dev agent user       *)
(* (forge.go 88-128; RFC-0001 AC-27).                                      *)
(***************************************************************************)
Active(prs) == {p \in ToSet(prs) : p.active /\ p.branch = Branch}

NewestPRFound ==
  Decided("forge") /\ request.finds =>
    /\ Answer.created =>
         \E p \in Active(Answer.prs) :
           /\ p.draft /\ p.base = request.base /\ p.createdBy = Creators[1]
           /\ Answer.found.exists /\ Answer.found.createdBy = p.createdBy
    /\ Answer.found.exists <=> Active(Answer.prs) # {}
    /\ Answer.found.exists =>
         \E p \in Active(Answer.prs) :
           /\ \A q \in Active(Answer.prs) : q.id <= p.id
           /\ Answer.found.createdBy = p.createdBy
=============================================================================
