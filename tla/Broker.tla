------------------------------- MODULE Broker -------------------------------
(***************************************************************************)
(* internal/identity: the broker that mints the delegated token of a role  *)
(* through three requests and caches it, and the git credential helper     *)
(* over it.  The daemon is one process with many callers of Token; every   *)
(* `mandat git-credential` is a process of its own, with one caller and an *)
(* empty cache.  Time passes between any two steps.                        *)
(***************************************************************************)
EXTENDS Integers

CONSTANTS
  Daemon,      \* callers of Token inside mandat serve
  Helper,      \* git-credential processes, one caller each
  RoleOf,      \* the role each caller asks for
  Configured,  \* roles of the config's table that have an agent_user_id
  Mode,        \* auth.mode: "secret" or "managed"
  Secret,      \* where a process finds the client secret: "env", "file", "none"
  Skew,        \* expiryRefreshSkew
  Lifetimes,   \* lifetimes the endpoint may give a token
  MaxTime      \* bound on the clock

Caller == Daemon \cup Helper
Roles == {RoleOf[c] : c \in Caller}

ASSUME BrokerAssumption ==
  /\ Daemon \cap Helper = {}
  /\ "free" \notin Caller /\ "serve" \notin Caller
  /\ Mode \in {"secret", "managed"}
  /\ Skew \in Nat /\ Lifetimes \subseteq Nat /\ MaxTime \in Nat
  /\ \A c \in Caller : Secret[c] \in {"env", "file", "none"}
  /\ Roles \cap {"none", "error"} = {}
  \* Entra gives tokens of an hour and more; the skew is five minutes.
  /\ \A life \in Lifetimes : life > Skew

VARIABLES
  now,        \* the clock
  cache,      \* the token each process keeps per role, or NoToken
  mu,         \* who holds the mutex of each process's broker
  pc,         \* where each caller stands
  answer,     \* what the call returned
  since       \* when it returned

vars == <<now, cache, mu, pc, answer, since>>

----------------------------------------------------------------------------
\* A token names the role whose agent user it acts as.
NoToken == [role |-> "none", expiry |-> 0]
Failed  == [role |-> "error", expiry |-> 0]
TokenOf(r, expiry) == [role |-> r, expiry |-> expiry]

Process == {"serve"} \cup Helper
ProcessOf(c) == IF c \in Daemon THEN "serve" ELSE c

Label == {"idle", "secret", "op", "lock", "check", "exchange", "leg3", "return"}

At(c, label) == pc[c] = label
Goto(c, label) == pc' = [pc EXCEPT ![c] = label]
Continue(c, label) == Goto(c, label) /\ UNCHANGED <<mu, answer, since>>

\* The call ends without having asked for a token.
Give(c, token) ==
  /\ Goto(c, "return")
  /\ answer' = [answer EXCEPT ![c] = token]
  /\ since' = [since EXCEPT ![c] = now]

\* Mutant of Return: the mutex is released on success only.
ReturnHeld(c, token) ==
  /\ Give(c, token)
  /\ mu' = IF token = Failed THEN mu ELSE [mu EXCEPT ![ProcessOf(c)] = "free"]

\* Token returns: its deferred Unlock, then the caller has the answer.
Return(c, token) == Give(c, token) /\ mu' = [mu EXCEPT ![ProcessOf(c)] = "free"]

----------------------------------------------------------------------------
(* The helper process: buildBroker, then the operation.                    *)

\* A daemon's caller has a broker; a helper builds one, with an empty cache.
Invoke(c) ==
  /\ At(c, "idle")
  /\ Continue(c, IF c \in Daemon THEN "lock"
                 ELSE IF Mode = "managed" \/ Secret[c] = "env" THEN "op" ELSE "secret")
  /\ UNCHANGED <<now, cache>>

\* resolveClientSecret without the variable: the file, which may be missing or
\* empty, or an error.
ResolveClientSecret(c) ==
  /\ At(c, "secret")
  /\ \/ Secret[c] = "file" /\ Continue(c, "op")
     \/ Give(c, Failed) /\ UNCHANGED mu
  /\ UNCHANGED <<now, cache>>

\* store and erase do nothing; an unknown operation, or a get whose request
\* does not parse, is an error.
CredentialHelper(c) ==
  /\ At(c, "op")
  /\ \/ Continue(c, "lock")
     \/ \E token \in {NoToken, Failed} : Give(c, token) /\ UNCHANGED mu
  /\ UNCHANGED <<now, cache>>

----------------------------------------------------------------------------
(* Token: one mutex spans the check of the cache and the mint.             *)

\* Mutant of Acquire: the mutex is not held across the mint.
AcquireNothing(c) ==
  At(c, "lock") /\ Goto(c, "check") /\ UNCHANGED <<now, cache, mu, answer, since>>

Acquire(c) ==
  /\ At(c, "lock") /\ mu[ProcessOf(c)] = "free"
  /\ mu' = [mu EXCEPT ![ProcessOf(c)] = c]
  /\ Goto(c, "check")
  /\ UNCHANGED <<now, cache, answer, since>>

\* Mutant of Fresh: no skew.
FreshUntilExpiry(token) == token # NoToken /\ now < token.expiry

\* now.Before(expiry.Add(-skew))
Fresh(token) == token # NoToken /\ now < token.expiry - Skew

\* Mutant of Slot: one slot for every role.
SlotShared(c) == CHOOSE r \in Roles : TRUE

Slot(c) == RoleOf[c]

\* A miss goes on to mint, which looks the role up first; the managed-identity
\* credential of leg 1 is a stub that fails.
Check(c) ==
  LET cached == cache[ProcessOf(c)][Slot(c)] IN
  /\ At(c, "check")
  /\ \/ Fresh(cached) /\ Return(c, cached)
     \/ /\ ~Fresh(cached)
        /\ IF RoleOf[c] \in Configured /\ Mode = "secret" THEN Continue(c, "exchange")
                                                          ELSE Return(c, Failed)
  /\ UNCHANGED <<now, cache>>

\* Legs 1 and 2: post returns a token, or a failure of the transport, the
\* endpoint or its JSON.
Exchange(c) ==
  /\ At(c, "exchange")
  /\ Continue(c, "leg3") \/ Return(c, Failed)
  /\ UNCHANGED <<now, cache>>

\* Leg 3's token is cached and returned, whatever its lifetime; a refusal (a
\* disabled agent user, say) or a token without an exp claim is not cached.
Delegate(c) ==
  /\ At(c, "leg3")
  /\ \/ \E life \in Lifetimes :
          LET token == TokenOf(RoleOf[c], now + life) IN
          /\ cache' = [cache EXCEPT ![ProcessOf(c)][Slot(c)] = token]
          /\ Return(c, token)
     \/ Return(c, Failed) /\ UNCHANGED cache
  /\ UNCHANGED now

Token(c) == Acquire(c) \/ Check(c) \/ Exchange(c) \/ Delegate(c)

----------------------------------------------------------------------------
\* The caller is done with its answer; a helper process exits, cache and all.
Done(c) ==
  /\ At(c, "return")
  /\ Goto(c, "idle")
  /\ answer' = [answer EXCEPT ![c] = NoToken]
  /\ since' = [since EXCEPT ![c] = 0]
  /\ cache' = IF c \in Helper THEN [cache EXCEPT ![c] = [r \in Roles |-> NoToken]] ELSE cache
  /\ UNCHANGED <<now, mu>>

Pass ==
  /\ now < MaxTime /\ now' = now + 1
  /\ UNCHANGED <<cache, mu, pc, answer, since>>

Init ==
  /\ now = 0
  /\ cache = [p \in Process |-> [r \in Roles |-> NoToken]]
  /\ mu = [p \in Process |-> "free"]
  /\ pc = [c \in Caller |-> "idle"]
  /\ answer = [c \in Caller |-> NoToken]
  /\ since = [c \in Caller |-> 0]

Call(c) == Invoke(c) \/ ResolveClientSecret(c) \/ CredentialHelper(c) \/ Token(c) \/ Done(c)

Next == (\E c \in Caller : Call(c)) \/ Pass

Spec == Init /\ [][Next]_vars
=============================================================================
