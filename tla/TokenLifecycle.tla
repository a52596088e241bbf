--------------------------- MODULE TokenLifecycle ----------------------------
(***************************************************************************)
(* Signing in, refreshing, signing out: the pairs of JWTs the users module *)
(* issues, the Redis denylist that revokes them, and the account row every *)
(* request is checked against (users/service.py, core/security.py,         *)
(* shared/security/dependencies.py).                                       *)
(*                                                                         *)
(* Calls interleave at each await: on Redis (EXISTS, SET) and on the       *)
(* database (the user row). A token carries its expiry in whole seconds,   *)
(* and a denylist entry is given its life in whole seconds, while the      *)
(* clock is finer; so time is counted in ticks, Second of them per second. *)
(* A call that is refused, or that dies, changes nothing from there on.    *)
(***************************************************************************)
EXTENDS Naturals

CONSTANTS
    Users,
    Pairs,        \* an access and a refresh token, always issued together
    Calls,        \* requests that can be in flight at once
    Second,       \* ticks in a second
    AccessTtl,    \* ACCESS_TOKEN_EXPIRE_MINUTES, in ticks
    RefreshTtl,   \* REFRESH_TOKEN_EXPIRE_DAYS, in ticks
    Horizon,      \* the clock's last instant (bounds the model)
    MixedPairs,   \* whether clients also sign out with tokens of different pairs
    NoUser, NoPair, NoToken

\* A token is named by its pair and its type; each has a jti of its own.
Token == [pair : Pairs, type : {"access", "refresh"}]

ASSUME TokenAssumption ==
    /\ Second \in Nat \ {0}
    /\ AccessTtl \in Nat /\ RefreshTtl \in Nat /\ Horizon \in Nat
    /\ MixedPairs \in BOOLEAN
    /\ NoUser \notin Users
    /\ NoPair \notin Pairs
    /\ NoToken \notin Token

VARIABLES
    now,        \* utcnow(), and the clock of Redis
    account,    \* account[u]: whether there is a user row, and its is_active
    pair,       \* pair[p]: whom it was issued to, when, and in exchange for what
    deny,       \* deny[t]: when Redis drops the denylist entry of t (0: no entry)
    call,       \* call[c]: what the request in c was given and how far it has come
    signedOut   \* the tokens of logouts that answered "Logged out"

vars == <<now, account, pair, deny, call, signedOut>>

Account == {"NONE", "ACTIVE", "INACTIVE"}

\* from: the pair whose refresh token this one was exchanged for.
Pair == [user : Users \cup {NoUser}, at : Nat, from : Pairs \cup {NoPair}]

Unissued == [user |-> NoUser, at |-> 0, from |-> NoPair]

\* token: the one being checked or revoked; next: the refresh token a logout has
\* yet to revoke; done: the tokens it has revoked; was: the caller's account as it
\* was when the call began (a history of the model).
Call == [op : {"none", "use", "refresh", "logout"},
         stage : {"idle", "denylist", "account", "admitted", "revoke", "set", "issue"},
         token : Token \cup {NoToken}, next : Token \cup {NoToken},
         done : SUBSET Token, ttl : Nat, was : Account]

Idle == [op |-> "none", stage |-> "idle", token |-> NoToken, next |-> NoToken,
         done |-> {}, ttl |-> 0, was |-> "NONE"]

TypeOK ==
    /\ now \in 0..Horizon
    /\ account \in [Users -> Account]
    /\ pair \in [Pairs -> Pair]
    /\ deny \in [Token -> Nat]
    /\ call \in [Calls -> Call]
    /\ signedOut \subseteq Token

Init ==
    /\ now = 0
    /\ account = [u \in Users |-> "NONE"]
    /\ pair = [p \in Pairs |-> Unissued]
    /\ deny = [t \in Token |-> 0]
    /\ call = [c \in Calls |-> Idle]
    /\ signedOut = {}

-----------------------------------------------------------------------------
(* Tokens *)

\* int(): the last whole second at or before an instant, or within a duration.
WholeSeconds(x) == x - (x % Second)

Issued(t) == pair[t.pair] # Unissued

\* The claim exp, as JwtTokenService._create writes it.
Exp(t) == WholeSeconds(pair[t.pair].at + (IF t.type = "access" THEN AccessTtl ELSE RefreshTtl))

\* Mutant: a pair dated a second back, to make up for clocks that disagree.
IssuePairBackdated(u, from) ==
    \E p \in Pairs :
        /\ pair[p] = Unissued
        /\ pair' = [pair EXCEPT ![p] = [user |-> u, at |-> now - Second, from |-> from]]

\* _issue_token_pair
IssuePair(u, from) ==
    \E p \in Pairs :
        /\ pair[p] = Unissued
        /\ pair' = [pair EXCEPT ![p] = [user |-> u, at |-> now, from |-> from]]

\* _decode_or_raise: PyJWT refuses a token from the instant of its exp on.
Decodes(t, type) == Issued(t) /\ t.type = type /\ now < Exp(t)

\* Its result is never negative.
SecondsUntil(t) == IF now < Exp(t) THEN WholeSeconds(Exp(t) - now) ELSE 0

IsRevoked(t) == now < deny[t]

-----------------------------------------------------------------------------
(* Accounts. Each is one transaction, and login() awaits nothing between the *)
(* user row and the pair.                                                    *)

Register(u) ==
    /\ account[u] = "NONE"
    /\ account' = [account EXCEPT ![u] = "ACTIVE"]
    /\ IssuePair(u, NoPair)
    /\ UNCHANGED <<now, deny, call, signedOut>>

Login(u) ==
    /\ account[u] = "ACTIVE"
    /\ IssuePair(u, NoPair)
    /\ UNCHANGED <<now, account, deny, call, signedOut>>

\* set_active(FALSE); no route activates an account again.
Deactivate(u) ==
    /\ account[u] # "NONE"
    /\ account' = [account EXCEPT ![u] = "INACTIVE"]
    /\ UNCHANGED <<now, pair, deny, call, signedOut>>

-----------------------------------------------------------------------------
(* Calls *)

Caller(c) == pair[call[c].token.pair].user

End(c) == call' = [call EXCEPT ![c] = Idle]

\* An exception at an await, the client's cancellation, or a dead process.
Fail(c) ==
    /\ call[c] # Idle
    /\ End(c)
    /\ UNCHANGED <<now, account, pair, deny, signedOut>>

Begin(c, op, t, next) ==
    /\ call[c] = Idle
    /\ Decodes(t, IF op = "refresh" THEN "refresh" ELSE "access")
    /\ call' = [call EXCEPT ![c] =
                   [Idle EXCEPT !.op = op, !.stage = "denylist", !.token = t, !.next = next,
                                !.was = account[pair[t.pair].user]]]
    /\ UNCHANGED <<now, account, pair, deny, signedOut>>

\* is_revoked. An unreachable Redis counts as revoked: that is a Fail.
CheckDenylist(c) ==
    /\ call[c].stage = "denylist"
    /\ ~IsRevoked(call[c].token)
    /\ call' = [call EXCEPT ![c].stage = "account"]
    /\ UNCHANGED <<now, account, pair, deny, signedOut>>

\* Mutant: refresh() issues the pair before it revokes the token.
AfterAccountIssuing(op) ==
    CASE op = "use" -> "admitted" [] op = "refresh" -> "issue" [] OTHER -> "revoke"

AfterAccount(op) == IF op = "use" THEN "admitted" ELSE "revoke"

\* Mutant: the row only has to exist.
LoadAccountOfAny(c) ==
    /\ call[c].stage = "account"
    /\ account[Caller(c)] # "NONE"
    /\ call' = [call EXCEPT ![c].stage = AfterAccount(call[c].op)]
    /\ UNCHANGED <<now, account, pair, deny, signedOut>>

\* The user row, and get_current_active_user (or refresh()) on its is_active.
LoadAccount(c) ==
    /\ call[c].stage = "account"
    /\ account[Caller(c)] = "ACTIVE"
    /\ call' = [call EXCEPT ![c].stage = AfterAccount(call[c].op)]
    /\ UNCHANGED <<now, account, pair, deny, signedOut>>

\* The handler of any other route.
Finish(c) ==
    /\ call[c].stage = "admitted"
    /\ End(c)
    /\ UNCHANGED <<now, account, pair, deny, signedOut>>

-----------------------------------------------------------------------------
(* Revocation: refresh() revokes the token it was given and then issues a   *)
(* pair; logout() revokes the access token and then the refresh token.      *)

\* The type the token at hand has to have: a logout's second token, like the
\* one of a refresh, is a refresh token.
Expected(c) == IF call[c].next = NoToken THEN "refresh" ELSE "access"

Fits(c) == call[c].token.type = Expected(c)

\* What follows denylist.revoke(): the pair, the other token, or the answer.
\* A token of the wrong type is passed over.
Proceed(c) ==
    LET done == IF Fits(c) THEN call[c].done \cup {call[c].token} ELSE call[c].done IN
    \/ /\ call[c].op = "refresh"
       /\ call' = [call EXCEPT ![c].stage = "issue", ![c].ttl = 0]
       /\ UNCHANGED signedOut
    \/ /\ call[c].op = "logout" /\ call[c].next # NoToken
       /\ call' = [call EXCEPT ![c].stage = "revoke", ![c].done = done, ![c].ttl = 0,
                               ![c].token = call[c].next, ![c].next = NoToken]
       /\ UNCHANGED signedOut
    \/ /\ call[c].op = "logout" /\ call[c].next = NoToken
       /\ End(c)
       /\ signedOut' = signedOut \cup done

\* Mutants: a logout stops at the access token; every entry lives as long as an
\* access token does.
TtlToRevokeAccessOnly(c) ==
    IF Fits(c) /\ ~(call[c].op = "logout" /\ Expected(c) = "refresh")
    THEN SecondsUntil(call[c].token) ELSE 0

TtlToRevokeOfAccess(c) ==
    IF Fits(c) /\ now < Exp(call[c].token) THEN WholeSeconds(AccessTtl) ELSE 0

\* The Redis TTL, computed before the SET is sent; 0 when there is nothing to store.
TtlToRevoke(c) == IF Fits(c) THEN SecondsUntil(call[c].token) ELSE 0

StartRevoke(c) ==
    /\ call[c].stage = "revoke"
    /\ IF TtlToRevoke(c) = 0
       THEN Proceed(c)
       ELSE /\ call' = [call EXCEPT ![c].stage = "set", ![c].ttl = TtlToRevoke(c)]
            /\ UNCHANGED signedOut
    /\ UNCHANGED <<now, account, pair, deny>>

\* SET ... EX: the entry lives ttl from when Redis executes the command.
StoreEntry(c) ==
    /\ call[c].stage = "set"
    /\ deny' = [deny EXCEPT ![call[c].token] = now + call[c].ttl]
    /\ Proceed(c)
    /\ UNCHANGED <<now, account, pair>>

Issue(c) ==
    /\ call[c].stage = "issue"
    /\ IssuePair(Caller(c), call[c].token.pair)
    /\ End(c)
    /\ UNCHANGED <<now, account, deny, signedOut>>

-----------------------------------------------------------------------------

Tick ==
    /\ now < Horizon
    /\ now' = now + 1
    /\ UNCHANGED <<account, pair, deny, call, signedOut>>

\* The second token of a logout is read from the request's body: nothing makes it
\* the refresh token of the same pair, or a refresh token at all.
SentWith(t) ==
    IF MixedPairs THEN {r \in Token : Issued(r)} ELSE {[pair |-> t.pair, type |-> "refresh"]}

Start(c) ==
    \E t \in Token :
        \/ Begin(c, "use", t, NoToken)
        \/ Begin(c, "refresh", t, NoToken)
        \/ \E r \in SentWith(t) : Begin(c, "logout", t, r)

Continue(c) ==
    \/ CheckDenylist(c)
    \/ LoadAccount(c)
    \/ Finish(c)
    \/ StartRevoke(c)
    \/ StoreEntry(c)
    \/ Issue(c)

Next ==
    \/ Tick
    \/ \E u \in Users : Register(u) \/ Login(u) \/ Deactivate(u)
    \/ \E c \in Calls : Start(c) \/ Continue(c) \/ Fail(c)

Spec == Init /\ [][Next]_vars

-----------------------------------------------------------------------------
(* Safety *)

\* Nothing is left of a token but, at most, the last second of its life, in
\* which revoke() stores no entry or an entry that was rounded down has ended.
Spent(t) == IsRevoked(t) \/ now + Second > Exp(t)

\* The refresh token a pair was issued for.
Exchanged(p) == [pair |-> pair[p].from, type |-> "refresh"]

\* Rotation: by the time a pair exists the refresh token it was exchanged for is
\* spent, so a crash between the two steps, or an exchange that begins later, finds
\* it usable in its last second at most. Two exchanges that overlap may both succeed.
RotatedIsSpent ==
    \A p \in Pairs : pair[p].from # NoPair => Spent(Exchanged(p))

\* A logout that answered "Logged out" has spent the access token it was sent with and
\* the refresh token in its body, if that was one, whatever other calls revoke or
\* exchange at the same time. A body that holds a token of the wrong type is ignored.
SignedOutIsSpent == \A t \in signedOut : Spent(t)

\* A spent token stays spent. Two calls can revoke one token, each with a life it
\* computed before it sent its SET, and the later SET replaces the entry of the
\* earlier one: it never ends the revocation before the token's last second.
SpentForGood == [][\A t \in Token : Issued(t) /\ Spent(t) => Spent(t)']_vars

\* Whatever its token says, a call that begins after the caller's account was
\* deactivated gets past the account check in no way: it is not let in, nor
\* given a new pair.
InactiveIsOut ==
    \A c \in Calls : call[c].stage \in {"admitted", "revoke", "set", "issue"} =>
        call[c].was = "ACTIVE"
=============================================================================
