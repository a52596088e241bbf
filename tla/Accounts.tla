------------------------------- MODULE Accounts -------------------------------
(***************************************************************************)
(* The users table under overlapping requests: sign-up, login, password    *)
(* change by the owner, role change and deactivation by an administrator,  *)
(* and the reads of one account. Every request goes through                *)
(* RequestLifecycle; PostgreSQL is at READ COMMITTED, as in                *)
(* RequestTransactions and Inbox.                                          *)
(*                                                                         *)
(* authenticate_access_token() reads the caller's row for every request    *)
(* and believes nothing of the token but whose it is. The entity a service *)
(* call loaded is its `to`, changed in place; the flush writes the changed *)
(* column and no other, and nothing when the value is the one that was     *)
(* loaded.                                                                 *)
(*                                                                         *)
(* A password column is a secret and the cost it was hashed with: `strong` *)
(* unless it is older than the last raise of BCRYPT_ROUNDS. Tokens expire, *)
(* and are revoked, in TokenLifecycle. A name is written as a password is, *)
(* and has no column here.                                                 *)
(***************************************************************************)
EXTENDS RequestLifecycle

CONSTANTS
    Accounts,      \* the ids rows can have
    EmailOf,       \* EmailOf[a]: the address, in lower case, of the account a
    Seeded,        \* the administrators of migration 0002
    SeedPassword,  \* and their password
    Roles, Secrets,
    NoRequest, NoAccount

Password == [secret : Secrets, strong : BOOLEAN]

ASSUME AccountsAssumption ==
    /\ Tasks = {}
    /\ Seeded \subseteq Accounts
    /\ SeedPassword \in Password
    /\ \A a, b \in Seeded : EmailOf[a] = EmailOf[b] => a = b
    /\ {"DONOR", "ADMIN"} \subseteq Roles
    /\ NoRequest \notin Requests
    /\ NoAccount \notin Accounts

VARIABLES
    row,         \* row[a]: the committed row
    rowLock,     \* rowLock[a]: the request that holds the row's lock
    rowNew,      \* rowNew[a]: the row's latest version: its lock holder's, or the committed one
    call,        \* call[r]: what the handler in r does and has loaded
    entitled     \* history: since r arrived, the committed rows have allowed what it does

table == <<row, rowLock, rowNew>>
vars == <<lifecycle, table, call, entitled>>

User ==
    [there : BOOLEAN, active : BOOLEAN, role : Roles, password : Password]

AdminOps == {"change_role", "deactivate"}

ByToken == AdminOps \cup {"change_password", "get_user"}

Call ==
    [ op : ByToken \cup {"none", "register", "login"},
      stage : {"auth", "load", "write", "pending", "done"},
      caller : Accounts \cup {NoAccount},
      target : Accounts \cup {NoAccount},
      to : User ]

NoUser == CHOOSE u \in User : ~u.there

NoCall ==
    [op |-> "none", stage |-> "done", caller |-> NoAccount, target |-> NoAccount, to |-> NoUser]

TypeOK ==
    /\ LifecycleType
    /\ row \in [Accounts -> User]
    /\ rowLock \in [Accounts -> Requests \cup {NoRequest}]
    /\ rowNew \in [Accounts -> User]
    /\ call \in [Requests -> Call]
    /\ entitled \in [Requests -> BOOLEAN]

NewUser(role, p) == [there |-> TRUE, active |-> TRUE, role |-> role, password |-> p]

\* A database that migrations 0001 and 0002 have just been run on.
Init ==
    /\ LifecycleInit
    /\ row = [a \in Accounts |-> IF a \in Seeded THEN NewUser("ADMIN", SeedPassword) ELSE NoUser]
    /\ rowLock = [a \in Accounts |-> NoRequest]
    /\ rowNew = row
    /\ call = [r \in Requests |-> NoCall]
    /\ entitled = [r \in Requests |-> FALSE]

-----------------------------------------------------------------------------
(* Requests, row locks and who may do what *)

\* get_current_active_user, then require_roles or require_ownership.
May(c, user) ==
    /\ user.there /\ user.active
    /\ c.op \in AdminOps => user.role = "ADMIN"
    /\ c.op = "get_user" /\ c.target # c.caller => user.role = "ADMIN"

Allowed(c, rows) == c.op \in ByToken /\ May(c, rows[c.caller])

Begin(r, first) ==
    /\ Arrive(r)
    /\ call' = [call EXCEPT ![r] = first]
    /\ entitled' = [entitled EXCEPT ![r] = Allowed(first, row)]
    /\ UNCHANGED table

TakeConnection(r) ==
    /\ Connect(r)
    /\ UNCHANGED <<table, call, entitled>>

\* The handler makes one statement, and stays in the handler.
Works(r, next) ==
    /\ phase[r] = "work"
    /\ call' = [call EXCEPT ![r] = next]
    /\ UNCHANGED <<lifecycle, entitled>>

Granted(a, r) == rowLock[a] \in {NoRequest, r}

Write(r, a, version) ==
    /\ Granted(a, r)
    /\ rowLock' = [rowLock EXCEPT ![a] = r]
    /\ rowNew' = [rowNew EXCEPT ![a] = version]
    /\ UNCHANGED row

\* What r holds goes: to the committed table first, when it commits.
Release(r) ==
    /\ rowLock' = [a \in Accounts |-> IF rowLock[a] = r THEN NoRequest ELSE rowLock[a]]
    /\ rowNew' = [a \in Accounts |-> IF rowLock[a] = r THEN row'[a] ELSE rowNew[a]]
    /\ call' = [call EXCEPT ![r] = NoCall]
    /\ entitled' = [t \in Requests |-> t # r /\ (entitled[t] \/ Allowed(call[t], row'))]

RollBack(r) ==
    /\ UNCHANGED row
    /\ Release(r)

Commit(r) ==
    /\ EndCommitted(r)
    /\ row' = [a \in Accounts |-> IF rowLock[a] = r THEN rowNew[a] ELSE row[a]]
    /\ Release(r)

Fail(r, what) == Raise(r, what) /\ RollBack(r)

-----------------------------------------------------------------------------
(* register *)

BeginRegister(r, a) ==
    Begin(r, [NoCall EXCEPT !.op = "register", !.stage = "load", !.target = a])

\* Mutant: the role is the one the body asks for.
NewAccountAsAsked(p) == NewUser("MODERATOR", p)

\* Active, and a DONOR.
NewAccount(p) == NewUser("DONOR", p)

SameAddress(a) == {b \in Accounts : EmailOf[b] = EmailOf[a]}

\* email_exists() sees what is committed.
EmailExists(r) ==
    LET c == call[r] IN
    /\ c.op = "register" /\ c.stage = "load"
    /\ IF \E b \in SameAddress(c.target) : row[b].there
       THEN Fail(r, "refused")
       ELSE /\ \E p \in Password :
                  p.strong /\ Works(r, [c EXCEPT !.to = NewAccount(p), !.stage = "write"])
            /\ UNCHANGED table

\* Mutant: the table has no unique index on the address.
HoldersNone(a) == {}

\* The rows, committed or not, that a new one would clash with in ix_users_email.
Holders(a) == {b \in SameAddress(a) : rowNew[b].there}

\* The INSERT waits for the transaction that has the address in hand.
Insert(r) ==
    LET c == call[r] IN
    /\ c.op = "register" /\ c.stage = "write"
    /\ \A b \in Holders(c.target) : rowLock[b] = NoRequest
    /\ IF Holders(c.target) # {}
       THEN Fail(r, "refused")
       ELSE /\ Write(r, c.target, c.to)
            /\ Works(r, [c EXCEPT !.to = NoUser, !.stage = "done"])

-----------------------------------------------------------------------------
(* login *)

BeginLogin(r, a) ==
    Begin(r, [NoCall EXCEPT !.op = "login", !.stage = "load", !.target = a])

\* get_by_email(), the password, is_active, needs_rehash(): the new hash is set
\* on the entity and left for the commit to flush.
Authenticate(r) ==
    LET c == call[r]
        user == row[c.target] IN
    /\ c.op = "login" /\ c.stage = "load"
    /\ \/ Fail(r, "refused")
       \/ /\ user.there /\ user.active
          /\ Works(r, IF user.password.strong THEN [c EXCEPT !.stage = "done"]
                      ELSE [c EXCEPT !.to = [user EXCEPT !.password.strong = TRUE], !.stage = "pending"])
          /\ UNCHANGED table

-----------------------------------------------------------------------------
(* Requests with a token *)

\* Any account may have a token: one may outlive a sign-up that was answered and
\* whose commit failed.
BeginByToken(r, op, a, b) ==
    /\ op = "change_password" => b = a
    /\ Begin(r, [NoCall EXCEPT !.op = op, !.stage = "auth", !.caller = a, !.target = b])

\* Mutant: get_current_user in place of get_current_active_user.
AdmitsDisabled(c) == May(c, [row[c.caller] EXCEPT !.active = TRUE])

Admits(c) == May(c, row[c.caller])

\* Mutant: the caller's row is read FOR UPDATE.
AuthForUpdate(r) ==
    LET c == call[r] IN
    /\ c.stage = "auth"
    /\ \/ ~Admits(c) /\ Fail(r, "refused")
       \/ /\ Admits(c)
          /\ Write(r, c.caller, rowNew[c.caller])
          /\ Works(r, [c EXCEPT !.stage = "load"])

Auth(r) ==
    LET c == call[r] IN
    /\ c.stage = "auth"
    /\ \/ ~Admits(c) /\ Fail(r, "refused")
       \/ Admits(c) /\ Works(r, [c EXCEPT !.stage = "load"]) /\ UNCHANGED table

\* The values the request can set on the entity it loaded.
Edits(op, user) ==
    CASE op = "change_role" -> {[user EXCEPT !.role = role] : role \in Roles}
      [] op = "deactivate" -> {[user EXCEPT !.active = FALSE]}
      [] op = "change_password" ->
            {[user EXCEPT !.password = [secret |-> s, strong |-> TRUE]] :
                s \in Secrets \ {user.password.secret}}
      [] OTHER -> {user}

\* get_by_id(), and for change_password() the current password; an attribute set
\* to the value it has is not a change.
Load(r) ==
    LET c == call[r]
        user == row[c.target] IN
    /\ c.stage = "load" /\ c.op \in ByToken
    /\ \/ ~user.there /\ Fail(r, "refused")
       \/ c.op = "change_password" /\ Fail(r, "refused")
       \/ /\ user.there
          /\ \E to \in Edits(c.op, user) :
                Works(r, IF to = user THEN [c EXCEPT !.stage = "done"]
                         ELSE [c EXCEPT !.to = to, !.stage = "write"])
          /\ UNCHANGED table

\* Mutant: the UPDATE writes every column of the entity.
UpdatedWhole(c, user) == c.to

\* The row after the UPDATE of c: the column that c changed.
Updated(c, user) ==
    CASE c.op = "change_role" -> [user EXCEPT !.role = c.to.role]
      [] c.op = "deactivate" -> [user EXCEPT !.active = c.to.active]
      [] OTHER -> [user EXCEPT !.password = c.to.password]

Update(r) ==
    LET c == call[r] IN
    /\ c.stage = "write" /\ c.op # "register"
    /\ Write(r, c.target, Updated(c, rowNew[c.target]))
    /\ Works(r, [c EXCEPT !.to = NoUser, !.stage = "done"])

-----------------------------------------------------------------------------
(* The rest of the request *)

\* To register and login, with a pair of tokens. Of the call only a new hash is
\* left to do.
Answers(r) ==
    LET c == call[r] IN
    /\ Respond(r)
    /\ c.stage \in {"pending", "done"}
    /\ call' = IF c.stage = "pending" THEN call ELSE [call EXCEPT ![r] = NoCall]
    /\ entitled' = [entitled EXCEPT ![r] = FALSE]
    /\ UNCHANGED table

FinishTasks(r) ==
    /\ EndTasks(r)
    /\ UNCHANGED <<table, call, entitled>>

Flush(r) ==
    LET c == call[r] IN
    /\ Flushed(r)
    /\ IF c.stage = "pending"
       THEN Write(r, c.target, Updated(c, rowNew[c.target]))
       ELSE UNCHANGED table
    /\ UNCHANGED <<call, entitled>>

\* Everything that undoes a request from outside its handler.
Lose(r) ==
    /\ PoolTimeout(r) \/ CommitFails(r) \/ Die(r)
    /\ RollBack(r)

Start(r) ==
    \E a \in Accounts :
        \/ BeginRegister(r, a)
        \/ BeginLogin(r, a)
        \/ \E op \in ByToken, b \in Accounts : BeginByToken(r, op, a, b)

Statement(r) ==
    \/ EmailExists(r)
    \/ Insert(r)
    \/ Authenticate(r)
    \/ Auth(r)
    \/ Load(r)
    \/ Update(r)
    \/ Fail(r, "unavailable")

Finish(r) ==
    \/ Answers(r)
    \/ FinishTasks(r)
    \/ Flush(r)
    \/ Commit(r)

Next ==
    \E r \in Requests :
        Start(r) \/ TakeConnection(r) \/ Statement(r) \/ Finish(r) \/ Lose(r)

Spec == Init /\ [][Next]_vars

-----------------------------------------------------------------------------
(* What holds *)

\* users/service.py:229 "Uniqueness is checked twice": of the sign-ups and the
\* accounts with one address, one has a row, counting the rows whose owner has
\* been given tokens and that are not committed yet.
OneAccountPerAddress ==
    \A a, b \in Accounts :
        EmailOf[a] = EmailOf[b] /\ rowNew[a].there /\ rowNew[b].there => a = b

\* users/service.py:329-333: what a caller is admitted to is what its row allowed at
\* some moment of this very request. A role lost, or an account disabled, before a
\* request arrives is out for that request, whatever its token says.
AdmittedByTheTable ==
    \A r \in Requests :
        call[r].op \in ByToken /\ call[r].stage # "auth" => entitled[r]

\* r waits: for a connection, for the transaction that has the address it signs up
\* with, or for the row it updates.
Waits(r) ==
    \/ NeedsConnection(r)
    \/ phase[r] = "work" /\ call[r].stage = "write"
    \/ phase[r] = "flush" /\ call[r].stage = "pending"

\* No request of this module can be part of a deadlock: who waits holds no row, and
\* nobody ever holds two.
WaitersHoldNothing ==
    \A a, b \in Accounts :
        rowLock[a] # NoRequest => ~Waits(rowLock[a]) /\ (rowLock[b] = rowLock[a] => b = a)

\* However requests overlap, the committed rows change as a directory does.
Directory == INSTANCE UserDirectory WITH user <- row, Passwords <- Password

ChangesOneColumn == Directory!Spec
=============================================================================
