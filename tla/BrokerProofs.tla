---------------------------- MODULE BrokerProofs ----------------------------
(***************************************************************************)
(* Theorems about the token broker, for any number of callers, helper      *)
(* processes, roles and token lifetimes, either mode, and an endpoint that *)
(* may fail at any leg.                                                    *)
(***************************************************************************)
EXTENDS BrokerProperties, TLAPS

(***************************************************************************)
(* Facts about the constants and the tokens.                               *)
(***************************************************************************)

LEMMA Constants ==
  /\ Daemon \cap Helper = {} /\ "free" \notin Caller /\ "serve" \notin Caller
  /\ Skew \in Nat /\ MaxTime \in Nat
  /\ "none" \notin Roles /\ "error" \notin Roles
  /\ \A life \in Lifetimes : life \in Nat /\ life > Skew
BY BrokerAssumption DEF BrokerAssumption

LEMMA ProcessFacts ==
  /\ \A c \in Caller : ProcessOf(c) \in Process /\ RoleOf[c] \in Roles
  /\ \A c \in Helper : ProcessOf(c) = c /\ (\A d \in Caller : ProcessOf(d) = c => d = c)
BY Constants DEF ProcessOf, Process, Caller, Roles

\* The three kinds of answer are told apart by their role.
LEMMA TokenKinds ==
  /\ NoToken # Failed
  /\ \A token \in Tokens : token # NoToken /\ token # Failed
  /\ \A r \in Roles, n \in Nat : TokenOf(r, n) \in Tokens /\ TokenOf(r, n).role = r
                                 /\ TokenOf(r, n).expiry = n
BY Constants DEF NoToken, Failed, Tokens, TokenOf

LEMMA CacheRead ==
  ASSUME TypeOK, NEW c \in Caller
  PROVE  /\ cache[ProcessOf(c)][RoleOf[c]] \in Tokens \cup {NoToken}
         /\ now \in Nat
BY ProcessFacts DEF TypeOK

(***************************************************************************)
(* How a step of a caller changes its own entries, and no other's.         *)
(***************************************************************************)

\* c, and no other caller, goes to `label`.
MovedTo(c, label) ==
  /\ pc' \in [Caller -> Label]
  /\ pc'[c] = label
  /\ \A d \in Caller \ {c} : pc'[d] = pc[d]

LEMMA GotoMoves ==
  ASSUME TypeOK, NEW c \in Caller, NEW label \in Label, Goto(c, label)
  PROVE  MovedTo(c, label)
BY DEF TypeOK, Goto, MovedTo

\* c has its answer as of now; nobody else's changes.
Answered(c, token) ==
  /\ MovedTo(c, "return")
  /\ answer' \in [Caller -> Tokens \cup {NoToken, Failed}] /\ since' \in [Caller -> Nat]
  /\ answer'[c] = token /\ since'[c] = now
  /\ \A d \in Caller \ {c} : answer'[d] = answer[d] /\ since'[d] = since[d]

LEMMA GiveAnswers ==
  ASSUME TypeOK, NEW c \in Caller, NEW token \in Tokens \cup {NoToken, Failed}, Give(c, token)
  PROVE  Answered(c, token)
<1>1. MovedTo(c, "return")
  BY GotoMoves DEF Give, Label
<1> QED
  BY <1>1 DEF Give, Answered, TypeOK

\* The mutex of c's process is free again; no other one changes.
Unlocked(c) ==
  /\ mu' \in [Process -> Caller \cup {"free"}]
  /\ mu'[ProcessOf(c)] = "free"
  /\ \A p \in Process \ {ProcessOf(c)} : mu'[p] = mu[p]

LEMMA ReturnAnswers ==
  ASSUME TypeOK, NEW c \in Caller, NEW token \in Tokens \cup {NoToken, Failed}, Return(c, token)
  PROVE  Answered(c, token) /\ Unlocked(c)
BY GiveAnswers, ProcessFacts DEF Return, Unlocked, TypeOK

(***************************************************************************)
(* The inductive invariant: BrokerInv, and whose token is where.           *)
(***************************************************************************)
Inv == BrokerInv /\ TokenIsRoles

LEMMA InvInit == Init => Inv
<1> SUFFICES ASSUME Init PROVE Inv
  OBVIOUS
<1>1. TypeOK
  BY DEF Init, TypeOK, Label
<1>2. MutexHeld
  BY Constants, ProcessFacts DEF Init, MutexHeld, InToken
<1>3. MissStands /\ ReturnedFresh
  BY DEF Init, MissStands, ReturnedFresh, At
<1>4. TokenIsRoles
  BY DEF Init, TokenIsRoles
<1> QED
  BY <1>1, <1>2, <1>3, <1>4 DEF Inv, BrokerInv

\* A step outside Token: the caller neither takes the mutex nor gets a token.
LEMMA InvOutside ==
  ASSUME Inv, NEW c \in Caller, UNCHANGED <<now, cache, mu>>, ~InToken(c),
         \/ /\ UNCHANGED <<answer, since>>
            /\ \E label \in {"op", "secret", "lock"} : MovedTo(c, label)
         \/ \E token \in {NoToken, Failed} : Answered(c, token)
  PROVE  Inv'
<1> USE DEF Inv, BrokerInv
<1>1. /\ ~InToken(c)' /\ (At(c, "return")' => answer'[c] \in {NoToken, Failed})
      /\ \A d \in Caller \ {c} : pc'[d] = pc[d] /\ answer'[d] = answer[d] /\ since'[d] = since[d]
  BY DEF MovedTo, Answered, InToken, At
<1>2. TypeOK'
  BY DEF TypeOK, MovedTo, Answered
<1>3. MutexHeld'
  BY <1>1 DEF MutexHeld, InToken
<1>4. MissStands'
  BY <1>1 DEF MissStands, InToken, Fresh
<1>5. ReturnedFresh'
  BY <1>1 DEF ReturnedFresh, At
<1>6. TokenIsRoles'
  <2>1. \A d \in Caller : answer'[d] \in {NoToken, Failed} \/ answer'[d].role = RoleOf[d]
    BY DEF TokenIsRoles, Answered
  <2> QED
    BY <2>1 DEF TokenIsRoles
<1> QED
  BY <1>2, <1>3, <1>4, <1>5, <1>6

LEMMA InvAcquire ==
  ASSUME Inv, NEW c \in Caller, Acquire(c)
  PROVE  Inv'
<1> USE DEF Inv, BrokerInv
<1>0. /\ pc[c] = "lock" /\ mu[ProcessOf(c)] = "free" /\ mu' = [mu EXCEPT ![ProcessOf(c)] = c]
      /\ UNCHANGED <<now, cache, answer, since>>
  BY DEF Acquire, At
<1>1. MovedTo(c, "check")
  BY GotoMoves DEF Acquire, Label
<1>2. TypeOK'
  BY <1>0, <1>1, ProcessFacts DEF TypeOK, MovedTo
<1>3. MutexHeld'
  <2>1. mu \in [Process -> Caller \cup {"free"}] /\ \A d \in Caller : ProcessOf(d) \in Process
    BY ProcessFacts DEF TypeOK
  <2>2. mu'[ProcessOf(c)] = c /\ InToken(c)'
    BY <1>0, <1>1, <2>1 DEF MovedTo, InToken
  <2>3. ASSUME NEW d \in Caller, d # c PROVE InToken(d)' <=> mu'[ProcessOf(d)] = d
    <3>1. InToken(d)' <=> InToken(d)
      BY <1>1, <2>3 DEF MovedTo, InToken
    <3>2. mu'[ProcessOf(d)] = IF ProcessOf(d) = ProcessOf(c) THEN c ELSE mu[ProcessOf(d)]
      BY <1>0, <2>1
    <3> QED
      BY <1>0, <2>3, <3>1, <3>2, Constants DEF MutexHeld
  <2> QED
    BY <2>2, <2>3 DEF MutexHeld
<1>4. MissStands' /\ ReturnedFresh'
  BY <1>0, <1>1 DEF MissStands, ReturnedFresh, MovedTo, At, Fresh
<1>5. TokenIsRoles'
  BY <1>0 DEF TokenIsRoles
<1> QED
  BY <1>2, <1>3, <1>4, <1>5

\* Token goes on under the mutex, to a leg of the mint after a miss.
LEMMA InvContinue ==
  ASSUME Inv, NEW c \in Caller, InToken(c), NEW label \in {"exchange", "leg3"},
         ~Fresh(cache[ProcessOf(c)][RoleOf[c]]), Continue(c, label), UNCHANGED <<now, cache>>
  PROVE  Inv'
<1> USE DEF Inv, BrokerInv
<1>1. MovedTo(c, label) /\ UNCHANGED <<mu, answer, since>>
  BY GotoMoves DEF Continue, Label
<1>2. TypeOK'
  BY <1>1 DEF TypeOK, MovedTo
<1>3. MutexHeld'
  BY <1>1 DEF MutexHeld, InToken, MovedTo
<1>4. MissStands' /\ ReturnedFresh'
  BY <1>1 DEF MissStands, ReturnedFresh, MovedTo, At, Fresh
<1>5. TokenIsRoles'
  BY <1>1 DEF TokenIsRoles
<1> QED
  BY <1>2, <1>3, <1>4, <1>5

\* Only the holder of the mutex touches what the others of its process see.
LEMMA HoldsAlone ==
  ASSUME Inv, NEW c \in Caller, InToken(c), NEW d \in Caller, d # c,
         ProcessOf(d) = ProcessOf(c)
  PROVE  ~InToken(d)
BY DEF Inv, BrokerInv, MutexHeld

\* Token returns: a failure, or a token of the caller's role with more than
\* the skew left, which the cache of its process may hold from now on.
LEMMA InvReturn ==
  ASSUME Inv, NEW c \in Caller, InToken(c), UNCHANGED now,
         NEW token \in Tokens \cup {NoToken, Failed}, Return(c, token),
         \/ token = Failed
         \/ token # NoToken /\ token.role = RoleOf[c] /\ now + Skew < token.expiry,
         \/ UNCHANGED cache
         \/ token \in Tokens /\ cache' = [cache EXCEPT ![ProcessOf(c)][RoleOf[c]] = token]
  PROVE  Inv'
<1> USE DEF Inv, BrokerInv
<1>0. Answered(c, token) /\ Unlocked(c)
  BY ReturnAnswers
<1>1. ~InToken(c)' /\ \A d \in Caller \ {c} : pc'[d] = pc[d]
  BY <1>0 DEF Answered, MovedTo, InToken
<1>c. /\ cache' \in [Process -> [Roles -> Tokens \cup {NoToken}]]
      /\ \A p \in Process, r \in Roles :
           \/ cache'[p][r] = cache[p][r]
           \/ p = ProcessOf(c) /\ r = RoleOf[c] /\ cache'[p][r] = token /\ token # Failed
  <2>1. ProcessOf(c) \in Process /\ RoleOf[c] \in Roles
    BY ProcessFacts
  <2>2. cache \in [Process -> [Roles -> Tokens \cup {NoToken}]]
    BY DEF TypeOK
  <2>3. CASE UNCHANGED cache
    BY <2>2, <2>3
  <2>4. CASE token \in Tokens /\ cache' = [cache EXCEPT ![ProcessOf(c)][RoleOf[c]] = token]
    <3>1. token # Failed
      BY <2>4, TokenKinds
    <3> QED
      BY <2>1, <2>2, <2>4, <3>1
  <2> QED
    BY <2>3, <2>4
<1>2. TypeOK'
  BY <1>0, <1>c DEF TypeOK, Answered, MovedTo, Unlocked
<1>3. MutexHeld'
  <2>1. \A d \in Caller : ProcessOf(d) \in Process
    BY ProcessFacts
  <2>2. mu'[ProcessOf(c)] # c
    BY <1>0, Constants DEF Unlocked
  <2>3. ASSUME NEW d \in Caller, d # c PROVE InToken(d)' <=> mu'[ProcessOf(d)] = d
    <3>1. InToken(d)' <=> InToken(d)
      BY <1>1, <2>3 DEF InToken
    <3>2. CASE ProcessOf(d) = ProcessOf(c)
      BY <1>0, <2>3, <3>1, <3>2, HoldsAlone, Constants DEF Unlocked
    <3>3. CASE ProcessOf(d) # ProcessOf(c)
      BY <1>0, <2>1, <3>1, <3>3 DEF Unlocked, MutexHeld
    <3> QED
      BY <3>2, <3>3
  <2> QED
    BY <1>1, <2>2, <2>3 DEF MutexHeld
<1>4. MissStands'
  <2> SUFFICES ASSUME NEW d \in Caller, pc'[d] \in {"exchange", "leg3"}
               PROVE  ~Fresh(cache[ProcessOf(d)][RoleOf[d]])'
    BY DEF MissStands
  <2>1. d # c /\ InToken(d) /\ pc[d] \in {"exchange", "leg3"}
    BY <1>1 DEF InToken
  <2>2. ProcessOf(d) # ProcessOf(c)
    BY <2>1, HoldsAlone
  <2>3. cache'[ProcessOf(d)][RoleOf[d]] = cache[ProcessOf(d)][RoleOf[d]]
    BY <1>c, <2>2, ProcessFacts
  <2> QED
    BY <2>1, <2>3 DEF MissStands, Fresh
<1>5. ReturnedFresh'
  <2>1. CASE token = Failed
    BY <1>0, <2>1 DEF ReturnedFresh, Answered, MovedTo, At
  <2>2. CASE token # NoToken /\ token.role = RoleOf[c] /\ now + Skew < token.expiry
    BY <1>0, <2>2 DEF ReturnedFresh, Answered, MovedTo, At
  <2> QED
    BY <2>1, <2>2
<1>6. TokenIsRoles'
  <2>1. \A d \in Caller : answer'[d] \in {NoToken, Failed} \/ answer'[d].role = RoleOf[d]
    BY <1>0 DEF TokenIsRoles, Answered
  <2>2. \A p \in Process, r \in Roles : cache'[p][r] = NoToken \/ cache'[p][r].role = r
    BY <1>c, TokenKinds DEF TokenIsRoles
  <2> QED
    BY <2>1, <2>2 DEF TokenIsRoles
<1> QED
  BY <1>2, <1>3, <1>4, <1>5, <1>6

LEMMA InvCheck ==
  ASSUME Inv, NEW c \in Caller, Check(c)
  PROVE  Inv'
<1> DEFINE cached == cache[ProcessOf(c)][RoleOf[c]]
<1>1. /\ pc[c] = "check" /\ InToken(c) /\ UNCHANGED <<now, cache>>
      /\ \/ Fresh(cached) /\ Return(c, cached)
         \/ ~Fresh(cached) /\ (Continue(c, "exchange") \/ Return(c, Failed))
  BY DEF Check, Slot, At, InToken
<1>2. TypeOK /\ cached \in Tokens \cup {NoToken} /\ now \in Nat /\ RoleOf[c] \in Roles
      /\ ProcessOf(c) \in Process
  BY CacheRead, ProcessFacts DEF Inv, BrokerInv
<1>3. CASE Fresh(cached) /\ Return(c, cached)
  <2>1. cached \in Tokens /\ cached # NoToken
    BY <1>2, <1>3 DEF Fresh
  <2>2. cached.role = RoleOf[c]
    BY <1>2, <2>1 DEF Inv, TokenIsRoles
  <2>3. now + Skew < cached.expiry
    BY <1>2, <1>3, <2>1, Constants DEF Fresh, Tokens
  <2> QED
    BY <1>1, <1>3, <2>1, <2>2, <2>3, InvReturn
<1>4. CASE ~Fresh(cached) /\ Continue(c, "exchange")
  BY <1>1, <1>4, InvContinue
<1>5. CASE Return(c, Failed)
  BY <1>1, <1>5, InvReturn
<1> QED
  BY <1>1, <1>3, <1>4, <1>5

LEMMA InvExchange ==
  ASSUME Inv, NEW c \in Caller, Exchange(c)
  PROVE  Inv'
<1>1. pc[c] = "exchange" /\ InToken(c) /\ UNCHANGED <<now, cache>>
  BY DEF Exchange, At, InToken
<1>2. ~Fresh(cache[ProcessOf(c)][RoleOf[c]])
  BY <1>1 DEF Inv, BrokerInv, MissStands
<1>3. CASE Continue(c, "leg3")
  BY <1>1, <1>2, <1>3, InvContinue
<1>4. CASE Return(c, Failed)
  BY <1>1, <1>4, InvReturn
<1> QED
  BY <1>3, <1>4 DEF Exchange

LEMMA InvDelegate ==
  ASSUME Inv, NEW c \in Caller, Delegate(c)
  PROVE  Inv'
<1>1. pc[c] = "leg3" /\ InToken(c) /\ UNCHANGED now /\ now \in Nat /\ RoleOf[c] \in Roles
  BY ProcessFacts, CacheRead DEF Delegate, At, InToken, Inv, BrokerInv
<1>2. CASE Return(c, Failed) /\ UNCHANGED cache
  BY <1>1, <1>2, InvReturn
<1>3. ASSUME NEW life \in Lifetimes,
             cache' = [cache EXCEPT ![ProcessOf(c)][Slot(c)] = TokenOf(RoleOf[c], now + life)],
             Return(c, TokenOf(RoleOf[c], now + life))
      PROVE  Inv'
  <2> DEFINE token == TokenOf(RoleOf[c], now + life)
  <2>1. now + life \in Nat /\ now + Skew < now + life
    BY <1>1, Constants
  <2>2. token \in Tokens /\ token # NoToken /\ token.role = RoleOf[c]
        /\ token.expiry = now + life
    BY <1>1, <2>1, TokenKinds
  <2>3. cache' = [cache EXCEPT ![ProcessOf(c)][RoleOf[c]] = token] /\ Return(c, token)
    BY <1>3 DEF Slot
  <2> HIDE DEF token
  <2> QED
    BY <1>1, <2>1, <2>2, <2>3, InvReturn
<1> QED
  BY <1>2, <1>3 DEF Delegate

\* The caller of Done is outside Token: a helper's cache is nobody else's.
LEMMA InvDone ==
  ASSUME Inv, NEW c \in Caller, Done(c)
  PROVE  Inv'
<1> USE DEF Inv, BrokerInv
<1>0. /\ pc[c] = "return" /\ UNCHANGED <<now, mu>>
      /\ answer' = [answer EXCEPT ![c] = NoToken] /\ since' = [since EXCEPT ![c] = 0]
      /\ cache' = IF c \in Helper THEN [cache EXCEPT ![c] = [r \in Roles |-> NoToken]] ELSE cache
  BY DEF Done, At
<1>1. MovedTo(c, "idle")
  BY GotoMoves DEF Done, Label
<1>2. TypeOK'
  <2>1. cache' \in [Process -> [Roles -> Tokens \cup {NoToken}]]
    BY <1>0 DEF TypeOK
  <2> QED
    BY <1>0, <1>1, <2>1 DEF TypeOK, MovedTo
<1>3. MutexHeld'
  BY <1>0, <1>1 DEF MutexHeld, InToken, MovedTo
<1>4. MissStands'
  <2> SUFFICES ASSUME NEW d \in Caller, pc'[d] \in {"exchange", "leg3"}
               PROVE  ~Fresh(cache[ProcessOf(d)][RoleOf[d]])'
    BY DEF MissStands
  <2>1. d # c /\ pc[d] \in {"exchange", "leg3"}
    BY <1>1 DEF MovedTo
  <2>2. c \in Helper => ProcessOf(d) # c
    BY <2>1, ProcessFacts
  <2>3. cache'[ProcessOf(d)] = cache[ProcessOf(d)]
    BY <1>0, <2>2, ProcessFacts DEF TypeOK
  <2> QED
    BY <1>0, <2>1, <2>3 DEF MissStands, Fresh
<1>5. ReturnedFresh'
  BY <1>0, <1>1 DEF ReturnedFresh, MovedTo, At, TypeOK
<1>6. TokenIsRoles'
  <2>1. \A d \in Caller : answer'[d] \in {NoToken, Failed} \/ answer'[d].role = RoleOf[d]
    BY <1>0 DEF TokenIsRoles, TypeOK
  <2>2. \A p \in Process, r \in Roles : cache'[p][r] = NoToken \/ cache'[p][r].role = r
    BY <1>0 DEF TokenIsRoles, TypeOK
  <2> QED
    BY <2>1, <2>2 DEF TokenIsRoles
<1> QED
  BY <1>2, <1>3, <1>4, <1>5, <1>6

LEMMA InvPass ==
  ASSUME Inv, Pass
  PROVE  Inv'
<1> USE DEF Inv, BrokerInv, Pass
<1>1. TypeOK' /\ MutexHeld' /\ ReturnedFresh' /\ TokenIsRoles'
  BY DEF TypeOK, MutexHeld, InToken, ReturnedFresh, TokenIsRoles, At
<1>2. MissStands'
  <2> SUFFICES ASSUME NEW c \in Caller, pc[c] \in {"exchange", "leg3"}
               PROVE  ~Fresh(cache[ProcessOf(c)][RoleOf[c]])'
    BY DEF MissStands
  <2> DEFINE cached == cache[ProcessOf(c)][RoleOf[c]]
  <2>1. ~Fresh(cached) /\ cached \in Tokens \cup {NoToken} /\ now \in Nat /\ now' = now + 1
    BY CacheRead DEF MissStands
  <2>2. UNCHANGED cached
    OBVIOUS
  <2> HIDE DEF cached
  <2>3. CASE cached = NoToken
    BY <2>2, <2>3 DEF Fresh, cached
  <2>4. CASE cached \in Tokens
    <3>1. cached.expiry - Skew \in Int
      BY <2>4, Constants DEF Tokens
    <3>2. ~(now' < cached.expiry - Skew) \/ cached = NoToken
      BY <2>1, <3>1 DEF Fresh
    <3> QED
      BY <2>2, <3>2 DEF Fresh, cached
  <2> QED
    BY <2>1, <2>3, <2>4
<1> QED
  BY <1>1, <1>2

LEMMA InvStep == Inv /\ [Next]_vars => Inv'
<1> SUFFICES ASSUME Inv, [Next]_vars PROVE Inv'
  OBVIOUS
<1>t. TypeOK
  BY DEF Inv, BrokerInv
<1>1. CASE UNCHANGED vars
  BY <1>1 DEF vars, Inv, BrokerInv, TypeOK, MutexHeld, InToken, MissStands, ReturnedFresh,
     TokenIsRoles, At, Fresh
<1>2. ASSUME NEW c \in Caller, Invoke(c) PROVE Inv'
  <2>1. \E label \in {"op", "secret", "lock"} : MovedTo(c, label)
    BY <1>t, <1>2, GotoMoves DEF Invoke, Continue, Label
  <2> QED
    BY <1>2, <2>1, InvOutside DEF Invoke, Continue, At, InToken
<1>3. ASSUME NEW c \in Caller, ResolveClientSecret(c) PROVE Inv'
  <2>1. \/ UNCHANGED <<answer, since, mu>> /\ MovedTo(c, "op")
        \/ Answered(c, Failed) /\ UNCHANGED mu
    BY <1>t, <1>3, GotoMoves, GiveAnswers DEF ResolveClientSecret, Continue, Label
  <2> QED
    BY <1>3, <2>1, InvOutside DEF ResolveClientSecret, At, InToken
<1>4. ASSUME NEW c \in Caller, CredentialHelper(c) PROVE Inv'
  <2>1. \/ UNCHANGED <<answer, since, mu>> /\ MovedTo(c, "lock")
        \/ (\E token \in {NoToken, Failed} : Answered(c, token)) /\ UNCHANGED mu
    BY <1>t, <1>4, GotoMoves, GiveAnswers DEF CredentialHelper, Continue, Label
  <2> QED
    BY <1>4, <2>1, InvOutside DEF CredentialHelper, At, InToken
<1>5. ASSUME NEW c \in Caller, Token(c) PROVE Inv'
  BY <1>5, InvAcquire, InvCheck, InvExchange, InvDelegate DEF Token
<1>6. ASSUME NEW c \in Caller, Done(c) PROVE Inv'
  BY <1>6, InvDone
<1>7. CASE Pass
  BY <1>7, InvPass
<1> QED
  BY <1>1, <1>2, <1>3, <1>4, <1>5, <1>6, <1>7 DEF Next, Call

LEMMA Invariant == Spec => []Inv
BY InvInit, InvStep, PTL DEF Spec

(***************************************************************************)
(* Each broker's mutex is held exactly inside Token, a miss stands until   *)
(* its own mint fills it, and what Token returns has more than the skew    *)
(* left (broker.go 156-189).                                               *)
(***************************************************************************)
THEOREM BrokerIsSound == Spec => []BrokerInv
<1>1. Inv => BrokerInv
  BY DEF Inv
<1> QED
  BY <1>1, Invariant, PTL

(***************************************************************************)
(* No caller ever holds, and no cache ever keeps for it, a token of        *)
(* another role (ADR-0005).                                                *)
(***************************************************************************)
THEOREM TokensAreTheRoles == Spec => []TokenIsRoles
<1>1. Inv => TokenIsRoles
  BY DEF Inv
<1> QED
  BY <1>1, Invariant, PTL

(***************************************************************************)
(* A token handed out, from the cache or minted, is valid for the skew     *)
(* after Token returned (broker.go 60-61).                                 *)
(***************************************************************************)
THEOREM TokensOutliveUse == Spec => []TokenOutlivesUse
<1>1. Inv => TokenOutlivesUse
  <2> SUFFICES ASSUME Inv, NEW c \in Caller, At(c, "return"),
                      answer[c] \notin {NoToken, Failed}, now - since[c] <= Skew
               PROVE  now < answer[c].expiry
    BY DEF TokenOutlivesUse
  <2>1. since[c] + Skew < answer[c].expiry
    BY DEF Inv, BrokerInv, ReturnedFresh
  <2>2. now \in Nat /\ since[c] \in Nat /\ answer[c].expiry \in Nat
    BY DEF Inv, BrokerInv, TypeOK, Tokens
  <2> QED
    BY <2>1, <2>2, Constants
<1> QED
  BY <1>1, Invariant, PTL

(***************************************************************************)
(* Concurrent callers of one process mint once per miss: a token is minted *)
(* only while the cache has no fresh one for the role (broker.go 156-159). *)
(***************************************************************************)
THEOREM MintsOncePerMiss == Spec => OneMintPerMiss
<1>1. Inv => (\A c \in Caller : Minted(c) => ~Fresh(cache[ProcessOf(c)][RoleOf[c]]))
  BY DEF Inv, BrokerInv, MissStands, Minted, At
<1> QED
  BY <1>1, Invariant, PTL DEF OneMintPerMiss
=============================================================================
