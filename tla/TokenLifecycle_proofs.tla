------------------------ MODULE TokenLifecycle_proofs ------------------------
(***************************************************************************)
(* Rotation, signing out and deactivation, for any number of accounts,     *)
(* pairs and overlapping calls, any lifetimes and any clock resolution.    *)
(*                                                                         *)
(* That a token is spent says something about the clock, so it has to be   *)
(* shown to last: EntriesReachExpiry says how long every denylist entry    *)
(* lasts, and CallOK what a call has established by each of its awaits,    *)
(* above all that the life of an entry that is about to be stored, counted *)
(* from before the SET was sent, still reaches the token's last second.    *)
(***************************************************************************)
EXTENDS TokenLifecycle, TLAPS

-----------------------------------------------------------------------------
(* The inductive invariant *)

\* Whoever was issued a pair has an account, and what it was exchanged for exists.
PairsHaveOwners ==
    \A p \in Pairs : pair[p] # Unissued =>
        /\ pair[p].user \in Users
        /\ account[pair[p].user] # "NONE"
        /\ pair[p].from # NoPair => pair[pair[p].from] # Unissued

\* A denylist entry lasts until the last second of its token.
EntriesReachExpiry ==
    \A t \in Token : deny[t] # 0 => Issued(t) /\ deny[t] + Second > Exp(t)

CallOK(c) ==
    LET w == call[c] IN
    \/ w = Idle
    \/ /\ w.op \in {"use", "refresh", "logout"} /\ w.stage # "idle"
       /\ w.token \in Token /\ Issued(w.token)
       /\ w.next # NoToken => Issued(w.next)
       /\ w.op = "use" => w.stage \in {"denylist", "account", "admitted"}
       /\ w.op = "refresh" => w.token.type = "refresh" /\ w.next = NoToken
       /\ w.op # "refresh" => w.stage # "issue"
       /\ \A t \in w.done : Issued(t) /\ Spent(t)
       /\ w.stage = "set" => w.ttl > 0 /\ now + w.ttl + Second > Exp(w.token)
       /\ w.stage = "issue" => Spent(w.token)
       /\ w.was # "NONE"
       /\ w.stage \in {"denylist", "account"} /\ w.was = "INACTIVE" => account[Caller(c)] = "INACTIVE"
       /\ w.stage \in {"admitted", "revoke", "set", "issue"} => w.was = "ACTIVE"

SignedOutOK == \A t \in signedOut : Issued(t) /\ Spent(t)

TokenInv ==
    /\ TypeOK
    /\ PairsHaveOwners
    /\ EntriesReachExpiry
    /\ \A c \in Calls : CallOK(c)
    /\ SignedOutOK
    /\ RotatedIsSpent

-----------------------------------------------------------------------------
(* Arithmetic and typing *)

\* Rounding down loses less than a second.
LEMMA Rounding ==
    ASSUME NEW x \in Nat
    PROVE  WholeSeconds(x) \in Nat /\ WholeSeconds(x) <= x /\ x < WholeSeconds(x) + Second
BY TokenAssumption DEF WholeSeconds

LEMMA ExpType ==
    ASSUME TypeOK, NEW t \in Token
    PROVE  Exp(t) \in Nat
BY Rounding, TokenAssumption DEF TypeOK, Pair, Token, Exp

\* seconds_until() falls short of the expiry by less than a second.
LEMMA SecondsUntilBound ==
    ASSUME TypeOK, NEW t \in Token
    PROVE  SecondsUntil(t) \in Nat /\ now + SecondsUntil(t) + Second > Exp(t)
<1>1. now \in Nat /\ Exp(t) \in Nat /\ Second \in Nat \ {0}
  BY ExpType, TokenAssumption DEF TypeOK
<1>2. CASE now < Exp(t)
  <2>1. Exp(t) - now \in Nat
    BY <1>1, <1>2
  <2> QED
    BY <1>1, <1>2, <2>1, Rounding DEF SecondsUntil
<1>3. CASE ~(now < Exp(t))
  BY <1>1, <1>3 DEF SecondsUntil
<1> QED
  BY <1>2, <1>3

\* What a step has to leave alone for an issued token to stay spent.
LEMMA SpentStays ==
    ASSUME TypeOK, TypeOK', EntriesReachExpiry, NEW t \in Token, Issued(t), Spent(t),
           pair'[t.pair] = pair[t.pair], now' >= now, now' <= now + 1,
           deny'[t] = deny[t] \/ deny'[t] > now'
    PROVE  Issued(t)' /\ Spent(t)' /\ Exp(t)' = Exp(t)
<1>1. Issued(t)' /\ Exp(t)' = Exp(t)
  BY DEF Issued, Exp
<1>2. now \in Nat /\ now' \in Nat /\ Exp(t) \in Nat /\ deny[t] \in Nat /\ deny'[t] \in Nat
      /\ Second \in Nat \ {0}
  BY ExpType, TokenAssumption DEF TypeOK
<1>3. deny[t] # 0 => deny[t] + Second > Exp(t)
  BY DEF EntriesReachExpiry
<1> QED
  BY <1>1, <1>2, <1>3 DEF Spent, IsRevoked

-----------------------------------------------------------------------------
(* Types *)

LEMMA InitTokens == Init => TokenInv
BY TokenAssumption DEF Init, TokenInv, TypeOK, Account, Pair, Unissued, Call, Idle, Token,
                       PairsHaveOwners, EntriesReachExpiry, CallOK, SignedOutOK, RotatedIsSpent

LEMMA IssueTypes ==
    ASSUME TypeOK, NEW u \in Users, NEW from \in Pairs \cup {NoPair}, IssuePair(u, from)
    PROVE  pair' \in [Pairs -> Pair]
BY DEF TypeOK, IssuePair, Pair

LEMMA EndTypes ==
    ASSUME TypeOK, NEW c \in Calls, End(c)
    PROVE  call' \in [Calls -> Call]
BY DEF TypeOK, End, Idle, Call, Account

LEMMA ProceedTypes ==
    ASSUME TypeOK, NEW c \in Calls, call[c].token \in Token, Proceed(c)
    PROVE  call' \in [Calls -> Call] /\ signedOut' \subseteq Token
<1>1. call[c] \in Call
  BY DEF TypeOK
<1>2. call[c].done \subseteq Token /\ call[c].next \in Token \cup {NoToken}
  BY <1>1 DEF Call
<1> DEFINE done == IF Fits(c) THEN call[c].done \cup {call[c].token} ELSE call[c].done
<1>3. done \in SUBSET Token
  BY <1>2
<1> HIDE DEF done
<1>4. CASE call' = [call EXCEPT ![c].stage = "issue", ![c].ttl = 0] /\ UNCHANGED signedOut
  BY <1>1, <1>4 DEF TypeOK, Call
<1>5. CASE /\ call' = [call EXCEPT ![c].stage = "revoke", ![c].done = done, ![c].ttl = 0,
                                    ![c].token = call[c].next, ![c].next = NoToken]
           /\ UNCHANGED signedOut
  BY <1>1, <1>2, <1>3, <1>5 DEF TypeOK, Call
<1>6. CASE End(c) /\ signedOut' = signedOut \cup done
  BY <1>3, <1>6, EndTypes DEF TypeOK
<1> QED
  BY <1>4, <1>5, <1>6 DEF Proceed, done

LEMMA TypeStep ==
    ASSUME TokenInv, [Next]_vars
    PROVE  TypeOK'
<1> USE DEF TokenInv
<1>1. CASE Tick
  BY <1>1, TokenAssumption DEF Tick, TypeOK
<1>2. ASSUME NEW u \in Users, Register(u) \/ Login(u) \/ Deactivate(u)
      PROVE  TypeOK'
  BY <1>2, IssueTypes DEF Register, Login, Deactivate, TypeOK, Account
<1>3. ASSUME NEW c \in Calls, NEW op \in {"use", "refresh", "logout"}, NEW t \in Token,
             NEW r \in Token \cup {NoToken}, Begin(c, op, t, r)
      PROVE  TypeOK'
  <2>1. account[pair[t.pair].user] \in Account
    BY <1>3 DEF Begin, Decodes, Issued, PairsHaveOwners, TypeOK, Token
  <2> QED
    BY <1>3, <2>1 DEF Begin, TypeOK, Idle, Call
<1>4. ASSUME NEW c \in Calls, Continue(c) \/ Fail(c)
      PROVE  TypeOK'
  <2>1. call[c] \in Call
    BY DEF TypeOK
  <2>2. call[c] # Idle => call[c].token \in Token /\ Caller(c) \in Users
                          /\ call[c].token.pair \in Pairs
    BY DEF CallOK, PairsHaveOwners, Issued, Caller, Token
  <2>3. CASE CheckDenylist(c) \/ LoadAccount(c)
    BY <2>1, <2>3 DEF CheckDenylist, LoadAccount, AfterAccount, TypeOK, Call
  <2>4. CASE Finish(c) \/ Fail(c)
    BY <2>4, EndTypes DEF Finish, Fail, TypeOK
  <2>5. CASE StartRevoke(c)
    <3>1. call[c].token \in Token
      BY <2>2, <2>5 DEF StartRevoke, Idle
    <3>2. TtlToRevoke(c) \in Nat
      BY <3>1, SecondsUntilBound DEF TtlToRevoke
    <3> QED
      BY <2>1, <2>5, <3>1, <3>2, ProceedTypes DEF StartRevoke, TypeOK, Call
  <2>6. CASE StoreEntry(c)
    <3>1. call[c].token \in Token /\ call[c].ttl \in Nat
      BY <2>1, <2>2, <2>6 DEF StoreEntry, Idle, Call
    <3> QED
      BY <2>6, <3>1, ProceedTypes DEF StoreEntry, TypeOK
  <2>7. CASE Issue(c)
    <3>1. Caller(c) \in Users /\ call[c].token.pair \in Pairs
      BY <2>2, <2>7 DEF Issue, Idle
    <3> QED
      BY <2>7, <3>1, IssueTypes, EndTypes DEF Issue, TypeOK
  <2> QED
    BY <1>4, <2>3, <2>4, <2>5, <2>6, <2>7 DEF Continue
<1>5. CASE UNCHANGED vars
  BY <1>5 DEF vars, TypeOK
<1>6. ASSUME NEW c \in Calls, Start(c) PROVE TypeOK'
  BY <1>3, <1>6 DEF Start, SentWith, Token
<1> QED
  BY <1>1, <1>2, <1>4, <1>5, <1>6 DEF Next

-----------------------------------------------------------------------------
(* What no step disturbs *)

\* An issued pair keeps its claims, a denylist entry is only ever replaced by one
\* that has not ended, the clock moves by ticks, and a deactivated account stays so.
Frame ==
    /\ \A p \in Pairs : pair[p] # Unissued => pair'[p] = pair[p]
    /\ \A t \in Token : deny'[t] = deny[t] \/ deny'[t] > now'
    /\ now <= now' /\ now' <= now + 1
    /\ \A u \in Users : account[u] = "INACTIVE" => account'[u] = "INACTIVE"
    /\ \A u \in Users : account[u] # "NONE" => account'[u] # "NONE"

LEMMA IssueKeepsPairs ==
    ASSUME TypeOK, NEW u, NEW from, IssuePair(u, from)
    PROVE  \A p \in Pairs : pair[p] # Unissued => pair'[p] = pair[p]
BY DEF IssuePair, TypeOK

LEMMA StepFrame ==
    ASSUME TokenInv, [Next]_vars
    PROVE  Frame
<1> USE DEF Frame
<1>0. now \in Nat
  BY DEF TokenInv, TypeOK
<1>1. CASE Tick
  BY <1>0, <1>1 DEF Tick
<1>2. ASSUME NEW u \in Users, Register(u) \/ Login(u) \/ Deactivate(u)
      PROVE  Frame
  <2>1. CASE Register(u)
    BY <1>0, <2>1, IssueKeepsPairs DEF Register, TokenInv, TypeOK
  <2>2. CASE Login(u)
    BY <1>0, <2>2, IssueKeepsPairs DEF Login, TokenInv
  <2>3. CASE Deactivate(u)
    BY <1>0, <2>3 DEF Deactivate, TokenInv, TypeOK
  <2> QED
    BY <1>2, <2>1, <2>2, <2>3
<1>3. ASSUME NEW c \in Calls, Start(c) \/ Fail(c) \/ CheckDenylist(c) \/ LoadAccount(c)
                               \/ Finish(c) \/ StartRevoke(c)
      PROVE  Frame
  <2>1. CASE Start(c)
    <3>1. \E op, t, r : Begin(c, op, t, r)
      BY <2>1 DEF Start
    <3> QED
      BY <1>0, <3>1 DEF Begin
  <2>2. CASE Fail(c) \/ CheckDenylist(c) \/ LoadAccount(c) \/ Finish(c) \/ StartRevoke(c)
    BY <1>0, <2>2 DEF Fail, CheckDenylist, LoadAccount, Finish, StartRevoke
  <2> QED
    BY <1>3, <2>1, <2>2
<1>4. ASSUME NEW c \in Calls, StoreEntry(c) PROVE Frame
  <2>1. call[c].ttl \in Nat /\ call[c].ttl > 0
    BY <1>4 DEF StoreEntry, TokenInv, CallOK, Idle, TypeOK, Call
  <2> QED
    BY <1>0, <1>4, <2>1 DEF StoreEntry, TokenInv, TypeOK
<1>5. ASSUME NEW c \in Calls, Issue(c) PROVE Frame
  BY <1>0, <1>5, IssueKeepsPairs DEF Issue, TokenInv
<1>6. CASE UNCHANGED vars
  BY <1>0, <1>6 DEF vars
<1> QED
  BY <1>1, <1>2, <1>3, <1>4, <1>5, <1>6 DEF Next, Continue

LEMMA SpentFrame ==
    ASSUME TokenInv, TypeOK', Frame, NEW t \in Token, Issued(t), Spent(t)
    PROVE  Issued(t)' /\ Spent(t)'
<1>1. pair'[t.pair] = pair[t.pair]
  BY DEF Frame, Issued, Token
<1> QED
  BY <1>1, SpentStays DEF Frame, TokenInv

LEMMA IssuedFrame ==
    ASSUME TokenInv, Frame, NEW t \in Token, Issued(t)
    PROVE  Issued(t)' /\ Exp(t)' = Exp(t) /\ pair'[t.pair] = pair[t.pair]
BY DEF Frame, Issued, Token, Exp

\* A call that takes no step itself keeps what it has established.
LEMMA CallFrame ==
    ASSUME TokenInv, TypeOK', Frame, NEW c \in Calls, call'[c] = call[c]
    PROVE  CallOK(c)'
<1> DEFINE w == call[c]
<1>1. CASE w = Idle
  BY <1>1 DEF CallOK
<1>2. CASE w # Idle
  <2>1. w \in Call /\ w.token \in Token /\ w.next \in Token \cup {NoToken} /\ w.done \subseteq Token
    BY <1>2 DEF TokenInv, CallOK, TypeOK, Call
  <2>2. /\ Issued(w.token)
        /\ w.next # NoToken => Issued(w.next)
        /\ \A t \in w.done : Issued(t) /\ Spent(t)
        /\ w.stage = "set" => now + w.ttl + Second > Exp(w.token)
        /\ w.stage = "issue" => Spent(w.token)
        /\ w.was # "NONE"
        /\ w.stage \in {"denylist", "account"} /\ w.was = "INACTIVE" => account[Caller(c)] = "INACTIVE"
    BY <1>2 DEF TokenInv, CallOK
  <2>3. Issued(w.token)' /\ Exp(w.token)' = Exp(w.token) /\ pair'[w.token.pair] = pair[w.token.pair]
    BY <2>1, <2>2, IssuedFrame
  <2>4. Caller(c) \in Users /\ Caller(c)' = Caller(c)
    BY <2>1, <2>2, <2>3 DEF Caller, Issued, Token, TokenInv, PairsHaveOwners
  <2>5. w.next # NoToken => Issued(w.next)'
    BY <2>1, <2>2, IssuedFrame
  <2>6. \A t \in w.done : Issued(t)' /\ Spent(t)'
    BY <2>1, <2>2, SpentFrame
  <2>7. w.stage = "set" => now' + w.ttl + Second > Exp(w.token)'
    <3>1. now \in Nat /\ now' \in Nat /\ w.ttl \in Nat /\ Second \in Nat /\ Exp(w.token) \in Nat
      BY <2>1, ExpType, TokenAssumption DEF TokenInv, TypeOK, Call
    <3>2. now <= now'
      BY DEF Frame
    <3> QED
      BY <2>2, <2>3, <3>1, <3>2
  <2>8. w.stage = "issue" => Spent(w.token)'
    BY <2>1, <2>2, SpentFrame
  <2>9. w.stage \in {"denylist", "account"} /\ w.was = "INACTIVE" => account'[Caller(c)'] = "INACTIVE"
    BY <2>2, <2>4 DEF Frame
  <2>10. CallOK(c)
    BY DEF TokenInv
  <2> QED
    BY <1>2, <2>1, <2>3, <2>5, <2>6, <2>7, <2>8, <2>9, <2>10 DEF CallOK
<1> QED
  BY <1>1, <1>2

-----------------------------------------------------------------------------
(* The accounts, the pairs and the denylist entries, step by step *)

LEMMA RotatedFrame ==
    ASSUME TokenInv, TypeOK', Frame, NEW p \in Pairs, pair'[p] = pair[p], pair[p].from # NoPair
    PROVE  Spent(Exchanged(p))'
<1>1. pair[p] # Unissued
  BY DEF Unissued
<1>2. Exchanged(p) \in Token /\ Issued(Exchanged(p)) /\ Spent(Exchanged(p))
  BY <1>1 DEF TokenInv, TypeOK, Pair, PairsHaveOwners, RotatedIsSpent, Token, Issued, Exchanged
<1>3. PICK t \in Token : t = Exchanged(p) /\ Issued(t) /\ Spent(t)
  BY <1>2
<1>4. Spent(t)'
  BY <1>3, SpentFrame
<1>5. Exchanged(p)' = t
  BY <1>3 DEF Exchanged
<1> QED
  BY <1>4, <1>5

\* A pair issued to an account that exists, in exchange for nothing or for a pair
\* whose refresh token is spent, is as good as the others.
LEMMA IssueKeeps ==
    ASSUME TokenInv, TypeOK', Frame, NEW u \in Users, NEW from \in Pairs \cup {NoPair},
           IssuePair(u, from), account'[u] # "NONE",
           from # NoPair => /\ pair[from] # Unissued
                            /\ Spent([pair |-> from, type |-> "refresh"])
    PROVE  PairsHaveOwners' /\ RotatedIsSpent'
<1>1. PICK q \in Pairs : /\ pair[q] = Unissued
                         /\ pair' = [pair EXCEPT ![q] = [user |-> u, at |-> now, from |-> from]]
  BY DEF IssuePair
<1>2. pair \in [Pairs -> Pair] /\ NoUser \notin Users
  BY TokenAssumption DEF TokenInv, TypeOK
<1>3. pair'[q] = [user |-> u, at |-> now, from |-> from] /\ \A p \in Pairs : p # q => pair'[p] = pair[p]
  BY <1>1, <1>2
<1>4. \A p \in Pairs : pair[p] # Unissued => pair'[p] # Unissued
  BY DEF Frame
<1>5. PairsHaveOwners'
  <2> SUFFICES ASSUME NEW p \in Pairs, pair'[p] # Unissued
               PROVE  /\ pair'[p].user \in Users
                      /\ account'[pair'[p].user] # "NONE"
                      /\ pair'[p].from # NoPair => pair'[pair'[p].from] # Unissued
    BY DEF PairsHaveOwners
  <2>1. CASE p = q
    BY <1>3, <1>4, <2>1
  <2>2. CASE p # q
    <3>1. pair'[p] = pair[p] /\ pair[p].user \in Users /\ account[pair[p].user] # "NONE"
      BY <1>3, <2>2 DEF TokenInv, PairsHaveOwners
    <3>2. pair[p].from # NoPair => pair[p].from \in Pairs /\ pair[pair[p].from] # Unissued
      BY <1>2, <1>3, <2>2 DEF TokenInv, PairsHaveOwners, Pair
    <3> QED
      BY <1>4, <3>1, <3>2 DEF Frame
  <2> QED
    BY <2>1, <2>2
<1>6. RotatedIsSpent'
  <2> SUFFICES ASSUME NEW p \in Pairs, pair'[p].from # NoPair
               PROVE  Spent(Exchanged(p))'
    BY DEF RotatedIsSpent
  <2>1. CASE p = q
    <3>1. pair'[p].from = from /\ from \in Pairs
      BY <1>3, <2>1
    <3>2. PICK t \in Token : t = [pair |-> from, type |-> "refresh"]
      BY <3>1 DEF Token
    <3>3. Issued(t) /\ Spent(t)
      BY <3>1, <3>2, <2>1, <1>3 DEF Issued
    <3>4. Spent(t)'
      BY <3>3, SpentFrame
    <3>5. Exchanged(p)' = t
      BY <3>1, <3>2 DEF Exchanged
    <3> QED
      BY <3>4, <3>5
  <2>2. CASE p # q
    BY <1>3, <2>2, RotatedFrame
  <2> QED
    BY <2>1, <2>2
<1> QED
  BY <1>5, <1>6

LEMMA PairsKeep ==
    ASSUME TokenInv, TypeOK', Frame, UNCHANGED pair
    PROVE  PairsHaveOwners' /\ RotatedIsSpent'
<1>1. RotatedIsSpent'
  BY RotatedFrame DEF RotatedIsSpent
<1>2. PairsHaveOwners'
  BY DEF TokenInv, PairsHaveOwners, Frame
<1> QED
  BY <1>1, <1>2

LEMMA EntriesKeep ==
    ASSUME TokenInv, TypeOK', Frame, UNCHANGED deny
    PROVE  EntriesReachExpiry'
<1> SUFFICES ASSUME NEW t \in Token, deny[t] # 0
             PROVE  Issued(t)' /\ deny[t] + Second > Exp(t)'
  BY DEF EntriesReachExpiry
<1>1. Issued(t) /\ deny[t] + Second > Exp(t)
  BY DEF TokenInv, EntriesReachExpiry
<1> QED
  BY <1>1, IssuedFrame

LEMMA SignedOutKeeps ==
    ASSUME TokenInv, TypeOK', Frame,
           \A t \in signedOut' : t \in signedOut \/ (Issued(t)' /\ Spent(t)')
    PROVE  SignedOutOK'
BY SpentFrame DEF TokenInv, TypeOK, SignedOutOK

-----------------------------------------------------------------------------
(* The calls, step by step *)

LEMMA OtherCalls ==
    ASSUME TokenInv, TypeOK', Frame, NEW c \in Calls,
           \A e \in Calls : e # c => call'[e] = call[e], CallOK(c)'
    PROVE  \A e \in Calls : CallOK(e)'
BY CallFrame

LEMMA EndKeeps ==
    ASSUME TokenInv, TypeOK', Frame, NEW c \in Calls, End(c)
    PROVE  \A e \in Calls : CallOK(e)'
<1>1. call'[c] = Idle /\ \A e \in Calls : e # c => call'[e] = call[e]
  BY DEF End, TokenInv, TypeOK
<1>2. CallOK(c)'
  BY <1>1 DEF CallOK
<1> QED
  BY <1>1, <1>2, OtherCalls

LEMMA BeginKeeps ==
    ASSUME TokenInv, TypeOK', Frame, NEW c \in Calls, NEW op \in {"use", "refresh", "logout"},
           NEW t \in Token, NEW r \in Token \cup {NoToken}, Begin(c, op, t, r),
           op # "logout" => r = NoToken, r # NoToken => Issued(r)
    PROVE  \A e \in Calls : CallOK(e)'
<1>1. \A e \in Calls : e # c => call'[e] = call[e]
  BY DEF Begin, TokenInv, TypeOK
<1>2. call'[c] = [op |-> op, stage |-> "denylist", token |-> t, next |-> r, done |-> {}, ttl |-> 0,
                  was |-> account[pair[t.pair].user]]
  BY DEF Begin, TokenInv, TypeOK, Idle
<1>3. Issued(t) /\ (op = "refresh" => t.type = "refresh")
  BY DEF Begin, Decodes
<1>4. Issued(t)' /\ pair'[t.pair] = pair[t.pair] /\ (r # NoToken => Issued(r)')
  BY <1>3, IssuedFrame
<1>5. pair[t.pair].user \in Users /\ account[pair[t.pair].user] \in Account \ {"NONE"}
  BY <1>3 DEF TokenInv, TypeOK, PairsHaveOwners, Issued, Token
<1>6. call'[c].was = "INACTIVE" => account'[Caller(c)'] = "INACTIVE"
  BY <1>2, <1>4, <1>5 DEF Caller, Frame
<1>7. CallOK(c)'
  BY <1>2, <1>3, <1>4, <1>5, <1>6 DEF CallOK
<1> QED
  BY <1>1, <1>7, OtherCalls

\* What a call that has begun, and only it, has established.
LEMMA CallFacts ==
    ASSUME TokenInv, NEW c \in Calls, call[c].stage # "idle"
    PROVE  /\ call[c] \in Call /\ call[c].token \in Token /\ Issued(call[c].token)
           /\ call[c].op \in {"use", "refresh", "logout"}
           /\ call[c].next \in Token \cup {NoToken} /\ call[c].done \subseteq Token
           /\ call[c].next # NoToken => Issued(call[c].next)
           /\ call[c].op = "refresh" => call[c].token.type = "refresh" /\ call[c].next = NoToken
           /\ call[c].op = "use" => call[c].stage \in {"denylist", "account", "admitted"}
           /\ \A t \in call[c].done : Issued(t) /\ Spent(t)
           /\ Caller(c) \in Users /\ account[Caller(c)] \in Account \ {"NONE"}
<1>1. call[c] # Idle /\ CallOK(c) /\ call[c] \in Call
  BY DEF TokenInv, TypeOK, Idle
<1>2. call[c].token \in Token /\ Issued(call[c].token)
  BY <1>1 DEF CallOK
<1>3. Caller(c) \in Users /\ account[Caller(c)] \in Account \ {"NONE"}
  BY <1>2 DEF Caller, TokenInv, TypeOK, PairsHaveOwners, Issued, Token
<1> QED
  BY <1>1, <1>2, <1>3 DEF CallOK, Call

\* Past the account check: only an account that was active all along.
LEMMA CheckKeeps ==
    ASSUME TokenInv, TypeOK', Frame, NEW c \in Calls, CheckDenylist(c) \/ LoadAccount(c)
    PROVE  \A e \in Calls : CallOK(e)'
<1>0. call[c].stage \in {"denylist", "account"}
  BY DEF CheckDenylist, LoadAccount
<1>1. CallOK(c) /\ call[c] # Idle
  BY <1>0 DEF TokenInv, Idle
<1>2. UNCHANGED <<now, account, pair, deny>>
  BY DEF CheckDenylist, LoadAccount
<1>3. \A e \in Calls : e # c => call'[e] = call[e]
  BY DEF CheckDenylist, LoadAccount, TokenInv, TypeOK
<1>5. call[c] \in Call
  BY DEF TokenInv, TypeOK
<1>4. PICK stage \in {"account", "admitted", "revoke"} :
         /\ call'[c] = [call[c] EXCEPT !.stage = stage]
         /\ stage = "admitted" => call[c].op = "use"
         /\ stage = "revoke" => call[c].op # "use"
         /\ stage # "account" => account[Caller(c)] = "ACTIVE"
  BY DEF CheckDenylist, LoadAccount, AfterAccount, TokenInv, TypeOK
<1>6. /\ call'[c].stage = stage /\ call'[c].op = call[c].op /\ call'[c].token = call[c].token
      /\ call'[c].next = call[c].next /\ call'[c].done = call[c].done /\ call'[c].was = call[c].was
  BY <1>4, <1>5 DEF Call
<1>7. PICK t \in Token : t = call[c].token
  BY <1>1 DEF CallOK
<1>8. PICK n \in Token \cup {NoToken} : n = call[c].next
  BY <1>5 DEF Call
<1>9. PICK done \in SUBSET Token : done = call[c].done
  BY <1>5 DEF Call
<1>10. Issued(t)' /\ (n # NoToken => Issued(n)') /\ \A x \in done : Issued(x)' /\ Spent(x)'
  BY <1>1, <1>7, <1>8, <1>9, IssuedFrame, SpentFrame DEF CallOK
<1>11. Caller(c)' = Caller(c) /\ account' = account /\ call[c].was \in Account
  BY <1>2, <1>5, <1>6 DEF Caller, Call
<1>12. call[c].was = "INACTIVE" => account[Caller(c)] = "INACTIVE"
  BY <1>0, <1>1 DEF CallOK
<1>13. stage # "account" => call[c].was = "ACTIVE"
  BY <1>1, <1>4, <1>11, <1>12 DEF CallOK, Account
<1>14. call'[c].op \in {"use", "refresh", "logout"} /\ call'[c].was # "NONE"
      /\ (call'[c].op = "refresh" => call'[c].token.type = "refresh" /\ call'[c].next = NoToken)
  BY <1>1, <1>6 DEF CallOK
<1>15. CallOK(c)'
  BY <1>4, <1>6, <1>7, <1>8, <1>9, <1>10, <1>11, <1>12, <1>13, <1>14 DEF CallOK
<1> QED
  BY <1>3, <1>15, OtherCalls

\* What follows a revocation, given that the token it was about is spent by then.
LEMMA ProceedKeeps ==
    ASSUME TokenInv, TypeOK', Frame, NEW c \in Calls, call[c].stage \in {"revoke", "set"}, Proceed(c),
           NEW t \in Token, t = call[c].token, UNCHANGED pair,
           Fits(c) \/ call[c].op = "refresh" => Spent(t)'
    PROVE  (\A e \in Calls : CallOK(e)') /\ SignedOutOK'
<1>1. /\ call[c] \in Call /\ Issued(t) /\ call[c].was = "ACTIVE"
      /\ call[c].next \in Token \cup {NoToken} /\ call[c].done \subseteq Token
      /\ call[c].next # NoToken => Issued(call[c].next)
      /\ call[c].op = "refresh" => t.type = "refresh" /\ call[c].next = NoToken
      /\ \A x \in call[c].done : Issued(x) /\ Spent(x)
  <2>1. CallOK(c) /\ call[c] # Idle
    BY DEF TokenInv, Idle
  <2> QED
    BY <2>1, CallFacts DEF CallOK
<1>2. PICK n \in Token \cup {NoToken} : n = call[c].next
  BY <1>1
<1>3. PICK done \in SUBSET Token :
         done = IF Fits(c) THEN call[c].done \cup {call[c].token} ELSE call[c].done
  BY <1>1
<1>4. Issued(t)' /\ (n # NoToken => n \in Token /\ Issued(n)')
  BY <1>1, <1>2, IssuedFrame
<1>5. \A x \in done : Issued(x)' /\ Spent(x)'
  BY <1>1, <1>3, <1>4, SpentFrame
<1>6. PICK kept \in SUBSET Token : kept = call[c].done /\ \A x \in kept : Issued(x)' /\ Spent(x)'
  BY <1>1, SpentFrame
<1>7. CASE call[c].op = "refresh" /\ call' = [call EXCEPT ![c].stage = "issue", ![c].ttl = 0]
           /\ UNCHANGED signedOut
  <2>1. call'[c] = [call[c] EXCEPT !.stage = "issue", !.ttl = 0]
        /\ \A e \in Calls : e # c => call'[e] = call[e]
    BY <1>7 DEF TokenInv, TypeOK
  <2>2. /\ call'[c].token = t /\ call'[c].next = call[c].next
        /\ call'[c].op = call[c].op /\ call'[c].was = call[c].was
        /\ call'[c].stage = "issue" /\ call'[c].done = kept
    BY <1>1, <1>6, <2>1 DEF Call
  <2>3. CallOK(c)'
    BY <1>1, <1>4, <1>6, <1>7, <2>2 DEF CallOK
  <2> QED
    BY <1>7, <2>1, <2>3, OtherCalls, SignedOutKeeps
<1>8. CASE /\ call[c].op = "logout" /\ n # NoToken
           /\ call' = [call EXCEPT ![c].stage = "revoke", ![c].done = done, ![c].ttl = 0,
                                   ![c].token = n, ![c].next = NoToken]
           /\ UNCHANGED signedOut
  <2>1. call'[c] = [call[c] EXCEPT !.stage = "revoke", !.done = done, !.ttl = 0,
                                   !.token = n, !.next = NoToken]
        /\ \A e \in Calls : e # c => call'[e] = call[e]
    BY <1>8 DEF TokenInv, TypeOK
  <2>2. /\ call'[c].token = n /\ call'[c].next = NoToken
        /\ call'[c].op = call[c].op /\ call'[c].was = call[c].was
        /\ call'[c].stage = "revoke" /\ call'[c].done = done
    BY <1>1, <2>1 DEF Call
  <2>3. CallOK(c)'
    BY <1>1, <1>4, <1>5, <1>8, <2>2 DEF CallOK
  <2> QED
    BY <1>8, <2>1, <2>3, OtherCalls, SignedOutKeeps
<1>9. CASE call[c].op = "logout" /\ End(c) /\ signedOut' = signedOut \cup done
  <2>1. SignedOutOK'
    BY <1>5, <1>9, SignedOutKeeps
  <2> QED
    BY <1>9, <2>1, EndKeeps
<1> QED
  BY <1>2, <1>3, <1>7, <1>8, <1>9 DEF Proceed

-----------------------------------------------------------------------------
(* The steps that revoke and issue *)

\* A refresh always finds the type it expects.
LEMMA RefreshFits ==
    ASSUME TokenInv, NEW c \in Calls, call[c].stage # "idle", call[c].op = "refresh"
    PROVE  Fits(c)
BY CallFacts DEF Fits, Expected

\* With nothing to store, the token is in its last second.
LEMMA StartRevokeKeeps ==
    ASSUME TokenInv, TypeOK', Frame, NEW c \in Calls, StartRevoke(c)
    PROVE  (\A e \in Calls : CallOK(e)') /\ SignedOutOK'
<1>1. call[c].stage = "revoke" /\ UNCHANGED <<now, account, pair, deny>>
  BY DEF StartRevoke
<1>2. PICK t \in Token : t = call[c].token /\ Issued(t)
  BY <1>1, CallFacts
<1>3. now \in Nat /\ Second \in Nat /\ Exp(t) \in Nat /\ Exp(t)' = Exp(t)
  BY <1>1, ExpType, TokenAssumption DEF TokenInv, TypeOK, Exp
<1>4. SecondsUntil(t) \in Nat /\ now + SecondsUntil(t) + Second > Exp(t)
  BY SecondsUntilBound DEF TokenInv
<1>5. CASE TtlToRevoke(c) = 0
  <2>1. Fits(c) \/ call[c].op = "refresh" => Fits(c)
    BY <1>1, RefreshFits
  <2>2. Fits(c) => Spent(t)'
    BY <1>1, <1>2, <1>3, <1>4, <1>5 DEF TtlToRevoke, Spent
  <2> QED
    BY <1>1, <1>2, <1>5, <2>1, <2>2, ProceedKeeps DEF StartRevoke
<1>6. CASE TtlToRevoke(c) # 0
  <2>1. call' = [call EXCEPT ![c].stage = "set", ![c].ttl = TtlToRevoke(c)] /\ UNCHANGED signedOut
    BY <1>6 DEF StartRevoke
  <2>2. PICK ttl \in Nat : ttl = TtlToRevoke(c) /\ ttl > 0 /\ now + ttl + Second > Exp(t)
    BY <1>2, <1>4, <1>6 DEF TtlToRevoke
  <2>3. call'[c] = [call[c] EXCEPT !.stage = "set", !.ttl = ttl]
        /\ \A e \in Calls : e # c => call'[e] = call[e]
    BY <2>1, <2>2 DEF TokenInv, TypeOK
  <2>4. PICK kept \in SUBSET Token : kept = call[c].done /\ \A x \in kept : Issued(x)' /\ Spent(x)'
    BY <1>1, CallFacts, SpentFrame
  <2>5. PICK n \in Token \cup {NoToken} : n = call[c].next /\ (n # NoToken => Issued(n)')
    BY <1>1, CallFacts, IssuedFrame
  <2>6. /\ call[c] \in Call /\ call[c].op \in {"refresh", "logout"} /\ call[c].was = "ACTIVE"
        /\ call[c].op = "refresh" => t.type = "refresh" /\ n = NoToken
    BY <1>1, <1>2, <2>5, CallFacts DEF TokenInv, CallOK, Idle
  <2>7. /\ call'[c].token = t /\ call'[c].next = n /\ call'[c].ttl = ttl
        /\ call'[c].op = call[c].op /\ call'[c].was = call[c].was
        /\ call'[c].stage = "set" /\ call'[c].done = kept
    BY <1>2, <2>3, <2>4, <2>5, <2>6 DEF Call
  <2>8. Issued(t)' /\ now' + ttl + Second > Exp(t)'
    BY <1>1, <1>2, <1>3, <2>2, IssuedFrame
  <2>9. CallOK(c)'
    BY <2>2, <2>4, <2>5, <2>6, <2>7, <2>8 DEF CallOK
  <2> QED
    BY <2>1, <2>3, <2>9, OtherCalls, SignedOutKeeps
<1> QED
  BY <1>5, <1>6

\* The entry lasts as long as it has to, for the clock has only moved on since its
\* life was computed.
LEMMA StoreEntryKeeps ==
    ASSUME TokenInv, TypeOK', Frame, NEW c \in Calls, StoreEntry(c)
    PROVE  (\A e \in Calls : CallOK(e)') /\ SignedOutOK' /\ EntriesReachExpiry'
<1>1. call[c].stage = "set" /\ UNCHANGED <<now, account, pair>> /\ Proceed(c)
  BY DEF StoreEntry
<1>2. PICK t \in Token : t = call[c].token /\ Issued(t)
  BY <1>1, CallFacts
<1>3. call[c].ttl \in Nat /\ call[c].ttl > 0 /\ now + call[c].ttl + Second > Exp(t)
  <2>1. CallOK(c) /\ call[c] # Idle /\ call[c].ttl \in Nat
    BY <1>1, CallFacts DEF TokenInv, Idle, Call
  <2> QED
    BY <1>1, <1>2, <2>1 DEF CallOK
<1>4. deny' = [deny EXCEPT ![t] = now + call[c].ttl] /\ deny \in [Token -> Nat] /\ now \in Nat
  BY <1>2 DEF StoreEntry, TokenInv, TypeOK
<1>5. Spent(t)'
  BY <1>1, <1>3, <1>4 DEF Spent, IsRevoked
<1>6. EntriesReachExpiry'
  <2> SUFFICES ASSUME NEW x \in Token, deny'[x] # 0
               PROVE  Issued(x)' /\ deny'[x] + Second > Exp(x)'
    BY DEF EntriesReachExpiry
  <2>1. Issued(x)' = Issued(x) /\ Exp(x)' = Exp(x)
    BY <1>1 DEF Issued, Exp
  <2>2. CASE x = t
    BY <1>2, <1>3, <1>4, <2>1, <2>2
  <2>3. CASE x # t
    BY <1>4, <2>1, <2>3 DEF TokenInv, EntriesReachExpiry
  <2> QED
    BY <2>2, <2>3
<1> QED
  BY <1>1, <1>2, <1>5, <1>6, ProceedKeeps

LEMMA IssueStepKeeps ==
    ASSUME TokenInv, TypeOK', Frame, NEW c \in Calls, Issue(c)
    PROVE  PairsHaveOwners' /\ RotatedIsSpent'
<1>1. call[c].stage = "issue" /\ UNCHANGED account /\ IssuePair(Caller(c), call[c].token.pair)
  BY DEF Issue
<1>2. CallOK(c) /\ call[c] # Idle
  BY <1>1 DEF TokenInv, Idle
<1>3. PICK t \in Token : t = call[c].token /\ Issued(t) /\ Spent(t) /\ t.type = "refresh"
  BY <1>1, <1>2 DEF CallOK
<1>4. PICK u \in Users : u = Caller(c) /\ account[u] # "NONE"
  BY <1>1, CallFacts DEF Account
<1>5. t.pair \in Pairs /\ pair[t.pair] # Unissued /\ t = [pair |-> t.pair, type |-> "refresh"]
  BY <1>3 DEF Token, Issued
<1>6. IssuePair(u, t.pair) /\ account'[u] # "NONE" /\ Spent([pair |-> t.pair, type |-> "refresh"])
  BY <1>1, <1>3, <1>4, <1>5
<1> QED
  BY <1>5, <1>6, IssueKeeps

\* A step of an account: no call moves.
LEMMA AccountKeeps ==
    ASSUME TokenInv, TypeOK', Frame, NEW u \in Users, Register(u) \/ Login(u) \/ Deactivate(u)
    PROVE  PairsHaveOwners' /\ RotatedIsSpent'
<1>1. CASE Register(u)
  <2>1. IssuePair(u, NoPair) /\ account'[u] # "NONE"
    BY <1>1 DEF Register, TokenInv, TypeOK
  <2> QED
    BY <2>1, IssueKeeps
<1>2. CASE Login(u)
  <2>1. IssuePair(u, NoPair) /\ account'[u] # "NONE"
    BY <1>2 DEF Login
  <2> QED
    BY <2>1, IssueKeeps
<1>3. CASE Deactivate(u)
  BY <1>3, PairsKeep DEF Deactivate
<1> QED
  BY <1>1, <1>2, <1>3

\* Every step preserves the invariant.
LEMMA TokenStep ==
    ASSUME TokenInv, [Next]_vars
    PROVE  TokenInv'
<1>1. TypeOK' /\ Frame
  BY TypeStep, StepFrame
<1>2. ASSUME UNCHANGED <<deny, call, signedOut>>, PairsHaveOwners', RotatedIsSpent'
      PROVE  TokenInv'
  <2>1. \A c \in Calls : CallOK(c)'
    BY <1>1, <1>2, CallFrame
  <2>2. SignedOutOK' /\ EntriesReachExpiry'
    BY <1>1, <1>2, SignedOutKeeps, EntriesKeep
  <2> QED
    BY <1>1, <1>2, <2>1, <2>2 DEF TokenInv
<1>3. CASE Tick \/ UNCHANGED vars
  BY <1>1, <1>2, <1>3, PairsKeep DEF Tick, vars
<1>4. ASSUME NEW u \in Users, Register(u) \/ Login(u) \/ Deactivate(u)
      PROVE  TokenInv'
  <2>1. UNCHANGED <<deny, call, signedOut>>
    BY <1>4 DEF Register, Login, Deactivate
  <2> QED
    BY <1>1, <1>2, <1>4, <2>1, AccountKeeps
<1>5. ASSUME NEW c \in Calls, Start(c) \/ Continue(c) \/ Fail(c)
      PROVE  TokenInv'
  <2>1. ASSUME UNCHANGED <<pair, deny, signedOut>>, \A e \in Calls : CallOK(e)'
        PROVE  TokenInv'
    <3>1. PairsHaveOwners' /\ RotatedIsSpent' /\ SignedOutOK' /\ EntriesReachExpiry'
      BY <1>1, <2>1, PairsKeep, SignedOutKeeps, EntriesKeep
    <3> QED
      BY <1>1, <2>1, <3>1 DEF TokenInv
  <2>2. CASE Start(c)
    <3>1. PICK op \in {"use", "refresh", "logout"}, t \in Token, r \in Token \cup {NoToken} :
             Begin(c, op, t, r) /\ (op # "logout" => r = NoToken) /\ (r # NoToken => Issued(r))
      <4>1. ASSUME NEW t \in Token, NEW r \in SentWith(t), Begin(c, "logout", t, r)
            PROVE  r \in Token /\ Issued(r)
        BY <4>1 DEF SentWith, Begin, Decodes, Issued, Token
      <4> QED
        BY <2>2, <4>1 DEF Start
    <3>2. \A e \in Calls : CallOK(e)'
      BY <1>1, <3>1, BeginKeeps
    <3>3. UNCHANGED <<pair, deny, signedOut>>
      BY <3>1 DEF Begin
    <3> QED
      BY <2>1, <3>2, <3>3
  <2>3. CASE CheckDenylist(c) \/ LoadAccount(c)
    BY <1>1, <2>1, <2>3, CheckKeeps DEF CheckDenylist, LoadAccount
  <2>4. CASE Finish(c) \/ Fail(c)
    BY <1>1, <2>1, <2>4, EndKeeps DEF Finish, Fail
  <2>5. CASE StartRevoke(c)
    <3>1. (\A e \in Calls : CallOK(e)') /\ SignedOutOK' /\ UNCHANGED <<pair, deny>>
      BY <1>1, <2>5, StartRevokeKeeps DEF StartRevoke
    <3> QED
      BY <1>1, <3>1, PairsKeep, EntriesKeep DEF TokenInv
  <2>6. CASE StoreEntry(c)
    <3>1. (\A e \in Calls : CallOK(e)') /\ SignedOutOK' /\ EntriesReachExpiry' /\ UNCHANGED pair
      BY <1>1, <2>6, StoreEntryKeeps DEF StoreEntry
    <3> QED
      BY <1>1, <3>1, PairsKeep DEF TokenInv
  <2>7. CASE Issue(c)
    <3>1. End(c) /\ UNCHANGED <<deny, signedOut>>
      BY <2>7 DEF Issue
    <3>2. (\A e \in Calls : CallOK(e)') /\ SignedOutOK' /\ EntriesReachExpiry'
      BY <1>1, <3>1, EndKeeps, SignedOutKeeps, EntriesKeep
    <3> QED
      BY <1>1, <2>7, <3>2, IssueStepKeeps DEF TokenInv
  <2> QED
    BY <1>5, <2>2, <2>3, <2>4, <2>5, <2>6, <2>7 DEF Continue
<1> QED
  BY <1>3, <1>4, <1>5 DEF Next

-----------------------------------------------------------------------------
(* The theorems *)

\* Everything the four theorems below need.
LEMMA TokenInvariant == Spec => []TokenInv
<1>1. TokenInv /\ [Next]_vars => TokenInv'
  BY TokenStep
<1> QED
  BY InitTokens, <1>1, PTL DEF Spec

\* Users, tokens and calls keep their types for any number of each.
THEOREM TypeCorrect == Spec => []TypeOK
<1>1. TokenInv => TypeOK
  BY DEF TokenInv
<1> QED
  BY <1>1, TokenInvariant, PTL

\* refresh(): a pair never exists while the refresh token it was exchanged for has
\* more than its last second to live, whatever overlaps, crashes or is retried.
THEOREM RotationHolds == Spec => []RotatedIsSpent
<1>1. TokenInv => RotatedIsSpent
  BY DEF TokenInv
<1> QED
  BY <1>1, TokenInvariant, PTL

\* logout(): once it has answered, both tokens stay spent for the rest of time.
THEOREM SignOutHolds == Spec => []SignedOutIsSpent
<1>1. TokenInv => SignedOutIsSpent
  BY DEF TokenInv, SignedOutOK, SignedOutIsSpent
<1> QED
  BY <1>1, TokenInvariant, PTL

\* get_current_active_user() and refresh(): the row is read after the call began,
\* so a deactivation that came first is seen.
THEOREM InactiveHolds == Spec => []InactiveIsOut
<1>1. TokenInv => InactiveIsOut
  BY DEF TokenInv, CallOK, Idle, InactiveIsOut
<1> QED
  BY <1>1, TokenInvariant, PTL

\* denylist.revoke(): an entry that replaces another reaches the last second of its
\* token as well, whichever of the two lives was computed first.
THEOREM SpentForGoodHolds == Spec => SpentForGood
<1>1. TokenInv /\ [Next]_vars => [\A t \in Token : Issued(t) /\ Spent(t) => Spent(t)']_vars
  BY TypeStep, StepFrame, SpentFrame
<1> QED
  BY <1>1, TokenInvariant, PTL DEF Spec, SpentForGood
=============================================================================
