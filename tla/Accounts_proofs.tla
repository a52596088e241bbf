---------------------------- MODULE Accounts_proofs ----------------------------
(***************************************************************************)
(* The users table under overlapping requests, for any number of requests, *)
(* accounts, addresses, roles and connections.                             *)
(***************************************************************************)
EXTENDS Accounts, TLAPS

-----------------------------------------------------------------------------
(* Types *)

LEMMA UserTypes ==
    /\ NoUser \in User /\ ~NoUser.there
    /\ \A p \in Password : NewAccount(p) \in User /\ NewUser("ADMIN", p) \in User
<1>1. [there |-> FALSE, active |-> FALSE, role |-> "DONOR", password |-> SeedPassword] \in User
  BY AccountsAssumption DEF User
<1>2. \E u \in User : ~u.there
  BY <1>1
<1> QED
  BY <1>2, AccountsAssumption DEF NoUser, NewAccount, NewUser, User

LEMMA EditTypes ==
    ASSUME NEW user \in User
    PROVE  /\ \A x \in Roles : [user EXCEPT !.role = x] \in User
           /\ \A x \in BOOLEAN : [user EXCEPT !.active = x] \in User
           /\ \A x \in Password : [user EXCEPT !.password = x] \in User
           /\ user.password \in Password /\ user.role \in Roles /\ user.active \in BOOLEAN
           /\ [user EXCEPT !.password.strong = TRUE] \in User
<1>1. /\ user.password \in Password /\ user.role \in Roles /\ user.active \in BOOLEAN
      /\ \A x \in Roles : [user EXCEPT !.role = x] \in User
      /\ \A x \in BOOLEAN : [user EXCEPT !.active = x] \in User
      /\ \A x \in Password : [user EXCEPT !.password = x] \in User
  BY DEF User
<1>2. [user.password EXCEPT !.strong = TRUE] \in Password
  BY <1>1 DEF Password
<1>3. [user EXCEPT !.password.strong = TRUE] = [user EXCEPT !.password = [user.password EXCEPT !.strong = TRUE]]
  OBVIOUS
<1> QED
  BY <1>1, <1>2, <1>3

LEMMA EditsTypes ==
    ASSUME NEW user \in User, NEW op \in ByToken
    PROVE  \A to \in Edits(op, user) : to \in User
<1>1. CASE op = "change_role"
  BY ZenonT(40), <1>1, EditTypes DEF Edits
<1>2. CASE op = "deactivate"
  BY <1>2, EditTypes DEF Edits
<1>3. CASE op = "change_password"
  <2>1. \A s \in Secrets : [secret |-> s, strong |-> TRUE] \in Password
    BY DEF Password
  <2>2. \A s \in Secrets : [user EXCEPT !.password = [secret |-> s, strong |-> TRUE]] \in User
    BY <2>1, EditTypes
  <2> QED
    BY <1>3, <2>2 DEF Edits
<1>4. CASE op = "get_user"
  BY <1>4 DEF Edits
<1> QED
  BY <1>1, <1>2, <1>3, <1>4 DEF ByToken, AdminOps

LEMMA UpdatedType ==
    ASSUME NEW c \in Call, NEW user \in User
    PROVE  Updated(c, user) \in User
<1>1. c.to \in User
  BY DEF Call
<1>2. c.to.role \in Roles /\ c.to.active \in BOOLEAN /\ c.to.password \in Password
  BY <1>1, EditTypes
<1>3. CASE c.op = "change_role"
  BY <1>2, <1>3, EditTypes DEF Updated
<1>4. CASE c.op = "deactivate"
  BY <1>2, <1>4, EditTypes DEF Updated
<1>5. CASE c.op \notin {"change_role", "deactivate"}
  BY <1>2, <1>5, EditTypes DEF Updated
<1> QED
  BY <1>3, <1>4, <1>5

LEMMA CallTypes ==
    /\ NoCall \in Call
    /\ \A op \in {"register", "login"}, a \in Accounts :
          [NoCall EXCEPT !.op = op, !.stage = "load", !.target = a] \in Call
    /\ \A op \in ByToken, a, b \in Accounts :
          [NoCall EXCEPT !.op = op, !.stage = "auth", !.caller = a, !.target = b] \in Call
BY UserTypes DEF Call, NoCall

LEMMA CallEdits ==
    ASSUME NEW c \in Call
    PROVE  \A stage \in {"auth", "load", "write", "pending", "done"} :
              /\ [c EXCEPT !.stage = stage] \in Call
              /\ \A to \in User : [c EXCEPT !.to = to, !.stage = stage] \in Call
BY DEF Call

\* What a step does to the requests.
LEMMA LifecycleKept ==
    ASSUME LifecycleType, NEW r \in Requests,
           \/ Arrive(r) \/ Connect(r) \/ PoolTimeout(r) \/ Respond(r) \/ EndTasks(r)
           \/ Flushed(r) \/ EndCommitted(r) \/ CommitFails(r) \/ Die(r)
           \/ \E what \in Answer : Raise(r, what)
    PROVE  LifecycleType'
<1>1. CASE Arrive(r) \/ Connect(r) \/ Respond(r) \/ EndTasks(r) \/ Flushed(r)
  BY <1>1 DEF Arrive, Connect, Respond, EndTasks, Flushed, MoveTo, Tell, LifecycleType, Phase, Answer
<1>2. CASE PoolTimeout(r) \/ EndCommitted(r) \/ CommitFails(r) \/ Die(r)
  BY <1>2 DEF PoolTimeout, EndCommitted, CommitFails, Die, End, MoveTo, Tell, LifecycleType, Phase, Answer
<1>3. CASE \E what \in Answer : Raise(r, what)
  BY <1>3 DEF Raise, End, MoveTo, Tell, LifecycleType, Phase
<1> QED
  BY <1>1, <1>2, <1>3

TableType ==
    /\ row \in [Accounts -> User]
    /\ rowLock \in [Accounts -> Requests \cup {NoRequest}]
    /\ rowNew \in [Accounts -> User]

LEMMA TypeOKParts ==
    TypeOK <=> /\ LifecycleType /\ TableType
               /\ call \in [Requests -> Call] /\ entitled \in [Requests -> BOOLEAN]
BY DEF TypeOK, TableType

LEMMA WriteType ==
    ASSUME TableType, NEW r \in Requests, NEW a \in Accounts, NEW v \in User, Write(r, a, v)
    PROVE  TableType'
BY DEF TableType, Write

\* Who is at work has a row to work on, and a token names its owner.
Aimed(c) ==
    /\ c.stage # "done" => c.target \in Accounts
    /\ c.op \in ByToken => c.caller \in Accounts /\ c.target \in Accounts

TypeInv == TypeOK /\ \A r \in Requests : Aimed(call[r])

LEMMA AimedKept ==
    ASSUME TypeInv, NEW r \in Requests, NEW c \in Call, Aimed(c), call' = [call EXCEPT ![r] = c]
    PROVE  \A t \in Requests : Aimed(call'[t])
BY DEF TypeInv, TypeOK

LEMMA EditedCall ==
    ASSUME NEW c \in Call, Aimed(c), c.target \in Accounts,
           NEW stage \in {"auth", "load", "write", "pending", "done"}
    PROVE  /\ [c EXCEPT !.stage = stage] \in Call /\ Aimed([c EXCEPT !.stage = stage])
           /\ \A to \in User : /\ [c EXCEPT !.to = to, !.stage = stage] \in Call
                               /\ Aimed([c EXCEPT !.to = to, !.stage = stage])
<1>1. ASSUME NEW d \in Call, d.op = c.op, d.caller = c.caller, d.target = c.target
      PROVE  Aimed(d)
  BY <1>1 DEF Aimed
<1>2. [c EXCEPT !.stage = stage] \in Call /\ Aimed([c EXCEPT !.stage = stage])
  <2> DEFINE d == [c EXCEPT !.stage = stage]
  <2>1. d \in Call /\ d.op = c.op /\ d.caller = c.caller /\ d.target = c.target
    BY DEF Call
  <2> HIDE DEF d
  <2>2. Aimed(d)
    BY <1>1, <2>1
  <2> QED
    BY <2>1, <2>2 DEF d
<1>3. ASSUME NEW to \in User
      PROVE  /\ [c EXCEPT !.to = to, !.stage = stage] \in Call
             /\ Aimed([c EXCEPT !.to = to, !.stage = stage])
  <2> DEFINE d == [c EXCEPT !.to = to, !.stage = stage]
  <2>1. d \in Call /\ d.op = c.op /\ d.caller = c.caller /\ d.target = c.target
    BY DEF Call
  <2> HIDE DEF d
  <2>2. Aimed(d)
    BY <1>1, <2>1
  <2> QED
    BY <2>1, <2>2 DEF d
<1> QED
  BY <1>2, <1>3

LEMMA NoCallAimed == Aimed(NoCall)
BY DEF Aimed, NoCall, ByToken, AdminOps

LEMMA ReleaseTypeInv ==
    ASSUME TypeInv, NEW r \in Requests, LifecycleType', row' \in [Accounts -> User], Release(r)
    PROVE  TypeInv'
<1>1. NoCall \in Call
  BY CallTypes
<1>2. \A t \in Requests : Aimed(call'[t])
  BY <1>1, NoCallAimed, AimedKept DEF Release
<1>3. call' \in [Requests -> Call] /\ rowLock' \in [Accounts -> Requests \cup {NoRequest}]
      /\ rowNew' \in [Accounts -> User]
  BY <1>1 DEF Release, TypeInv, TypeOK
<1>4. entitled' \in [Requests -> BOOLEAN]
  <2>1. entitled \in [Requests -> BOOLEAN]
    BY DEF TypeInv, TypeOK
  <2>2. \A t \in Requests : (t # r /\ (entitled[t] \/ Allowed(call[t], row'))) \in BOOLEAN
    BY <2>1 DEF Allowed
  <2> QED
    BY <2>2 DEF Release
<1> QED
  BY <1>2, <1>3, <1>4 DEF TypeInv, TypeOK

LEMMA FailTypeInv ==
    ASSUME TypeInv, NEW r \in Requests, NEW what \in Answer, Fail(r, what)
    PROVE  TypeInv'
BY ReleaseTypeInv, LifecycleKept DEF Fail, RollBack, TypeInv, TypeOK

LEMMA LoseTypeInv == ASSUME TypeInv, NEW r \in Requests, Lose(r) PROVE TypeInv'
BY ReleaseTypeInv, LifecycleKept DEF Lose, RollBack, TypeInv, TypeOK

LEMMA WorksTypeInv ==
    ASSUME TypeInv, NEW r \in Requests, NEW next \in Call, Aimed(next), Works(r, next), TableType'
    PROVE  TypeInv'
<1>1. \A t \in Requests : Aimed(call'[t])
  BY AimedKept DEF Works
<1>2. LifecycleType' /\ call' \in [Requests -> Call] /\ entitled' \in [Requests -> BOOLEAN]
  BY DEF Works, lifecycle, LifecycleType, TypeInv, TypeOK
<1> QED
  BY <1>1, <1>2 DEF TypeInv, TypeOK, TableType

LEMMA StatementTypeInv == ASSUME TypeInv, NEW r \in Requests, Statement(r) PROVE TypeInv'
<1> DEFINE c == call[r]
<1>0. /\ c \in Call /\ Aimed(c) /\ TableType /\ NoUser \in User
      /\ "refused" \in Answer /\ "unavailable" \in Answer
  BY UserTypes, TypeOKParts DEF TypeInv, TypeOK, Answer
<1>same. UNCHANGED table => TableType'
  BY <1>0 DEF table, TableType
<1>staged. ASSUME NEW stage \in {"auth", "load", "write", "pending", "done"}, c.target \in Accounts
           PROVE  /\ [c EXCEPT !.stage = stage] \in Call /\ Aimed([c EXCEPT !.stage = stage])
                  /\ \A to \in User : /\ [c EXCEPT !.to = to, !.stage = stage] \in Call
                                      /\ Aimed([c EXCEPT !.to = to, !.stage = stage])
  BY <1>0, <1>staged, EditedCall
<1>1. CASE EmailExists(r)
  <2>1. CASE Fail(r, "refused")
    BY <1>0, <2>1, FailTypeInv
  <2>2. ASSUME NEW p \in Password, Works(r, [c EXCEPT !.to = NewAccount(p), !.stage = "write"]), UNCHANGED table
        PROVE  TypeInv'
    <3>1. c.target \in Accounts
      BY <1>0, <1>1 DEF EmailExists, Aimed
    <3>2. NewAccount(p) \in User
      BY UserTypes
    <3> QED
      BY <1>same, <1>staged, <2>2, <3>1, <3>2, WorksTypeInv
  <2> QED
    BY <1>1, <2>1, <2>2 DEF EmailExists
<1>2. CASE Insert(r)
  <2>1. CASE Fail(r, "refused")
    BY <1>0, <2>1, FailTypeInv
  <2>2. CASE Write(r, c.target, c.to) /\ Works(r, [c EXCEPT !.to = NoUser, !.stage = "done"])
    <3>1. c.target \in Accounts /\ c.to \in User
      BY <1>0, <1>2 DEF Insert, Aimed, Call
    <3> QED
      BY <1>0, <1>staged, <2>2, <3>1, WriteType, WorksTypeInv
  <2> QED
    BY <1>2, <2>1, <2>2 DEF Insert
<1>3. CASE Authenticate(r)
  <2> DEFINE user == row[c.target]
  <2>0. c.target \in Accounts
    BY <1>0, <1>3 DEF Authenticate, Aimed
  <2>1. CASE Fail(r, "refused")
    BY <1>0, <2>1, FailTypeInv
  <2>2. CASE Works(r, [c EXCEPT !.stage = "done"]) /\ UNCHANGED table
    BY <1>same, <1>staged, <2>0, <2>2, WorksTypeInv
  <2>3. CASE /\ Works(r, [c EXCEPT !.to = [user EXCEPT !.password.strong = TRUE], !.stage = "pending"])
             /\ UNCHANGED table
    <3>1. [user EXCEPT !.password.strong = TRUE] \in User
      BY <1>0, <2>0, EditTypes DEF TableType
    <3> QED
      BY <1>same, <1>staged, <2>0, <2>3, <3>1, WorksTypeInv
  <2> QED
    BY <1>3, <2>1, <2>2, <2>3 DEF Authenticate
<1>4. CASE Auth(r)
  <2>1. CASE Fail(r, "refused")
    BY <1>0, <2>1, FailTypeInv
  <2>2. CASE Works(r, [c EXCEPT !.stage = "load"]) /\ UNCHANGED table
    <3>1. c.target \in Accounts
      BY <1>0, <1>4 DEF Auth, Aimed
    <3> QED
      BY <1>same, <1>staged, <2>2, <3>1, WorksTypeInv
  <2> QED
    BY <1>4, <2>1, <2>2 DEF Auth
<1>5. CASE Load(r)
  <2> DEFINE user == row[c.target]
  <2>0. c.target \in Accounts /\ c.op \in ByToken
    BY <1>0, <1>5 DEF Load, Aimed
  <2>1. CASE Fail(r, "refused")
    BY <1>0, <2>1, FailTypeInv
  <2>2. CASE Works(r, [c EXCEPT !.stage = "done"]) /\ UNCHANGED table
    BY <1>same, <1>staged, <2>0, <2>2, WorksTypeInv
  <2>3. ASSUME NEW to \in Edits(c.op, user), Works(r, [c EXCEPT !.to = to, !.stage = "write"]), UNCHANGED table
        PROVE  TypeInv'
    <3>1. to \in User
      BY <1>0, <2>0, EditsTypes DEF TableType
    <3> QED
      BY <1>same, <1>staged, <2>0, <2>3, <3>1, WorksTypeInv
  <2> QED
    BY <1>5, <2>1, <2>2, <2>3 DEF Load
<1>6. CASE Update(r)
  <2>1. c.target \in Accounts
    BY <1>0, <1>6 DEF Update, Aimed
  <2>2. Updated(c, rowNew[c.target]) \in User
    BY <1>0, <2>1, UpdatedType DEF TableType
  <2>3. TableType'
    BY <1>0, <1>6, <2>1, <2>2, WriteType DEF Update
  <2> QED
    BY <1>0, <1>6, <1>staged, <2>1, <2>3, WorksTypeInv DEF Update
<1>7. CASE Fail(r, "unavailable")
  BY <1>0, <1>7, FailTypeInv
<1> QED
  BY <1>1, <1>2, <1>3, <1>4, <1>5, <1>6, <1>7 DEF Statement

LEMMA StartTypeInv == ASSUME TypeInv, NEW r \in Requests, Start(r) PROVE TypeInv'
<1>b. ASSUME NEW first \in Call, Aimed(first), Begin(r, first) PROVE TypeInv'
  <2>1. LifecycleType'
    BY <1>b, LifecycleKept DEF Begin, TypeInv, TypeOK
  <2>2. \A t \in Requests : Aimed(call'[t])
    BY <1>b, AimedKept DEF Begin
  <2>3. entitled' \in [Requests -> BOOLEAN]
    BY <1>b DEF Begin, Allowed, TypeInv, TypeOK
  <2> QED
    BY <1>b, <2>1, <2>2, <2>3 DEF Begin, TypeInv, TypeOK, table
<1>1. ASSUME NEW a \in Accounts, BeginRegister(r, a) \/ BeginLogin(r, a) PROVE TypeInv'
  BY <1>1, <1>b, CallTypes DEF BeginRegister, BeginLogin, Aimed, NoCall, ByToken, AdminOps
<1>2. ASSUME NEW a \in Accounts, NEW b \in Accounts, NEW op \in ByToken, BeginByToken(r, op, a, b)
      PROVE  TypeInv'
  BY <1>2, <1>b, CallTypes DEF BeginByToken, Aimed, NoCall
<1> QED
  BY <1>1, <1>2 DEF Start

LEMMA FinishTypeInv ==
    ASSUME TypeInv, NEW r \in Requests, TakeConnection(r) \/ Finish(r)
    PROVE  TypeInv'
<1>0. LifecycleType /\ TableType /\ call[r] \in Call /\ Aimed(call[r])
  BY TypeOKParts DEF TypeInv, TypeOK
<1>1. CASE TakeConnection(r) \/ FinishTasks(r)
  BY <1>1, LifecycleKept DEF TakeConnection, FinishTasks, TypeInv, TypeOK, table
<1>2. CASE Answers(r)
  <2>1. NoCall \in Call /\ LifecycleType'
    BY <1>0, <1>2, CallTypes, LifecycleKept DEF Answers
  <2>2. \A t \in Requests : Aimed(call'[t])
    BY <1>2, <2>1, AimedKept, NoCallAimed DEF Answers, TypeInv
  <2> QED
    BY <1>2, <2>1, <2>2 DEF Answers, TypeInv, TypeOK, table
<1>3. CASE Flush(r)
  <2>1. LifecycleType'
    BY <1>0, <1>3, LifecycleKept DEF Flush
  <2>2. TableType'
    <3>1. CASE call[r].stage = "pending"
      <4>1. call[r].target \in Accounts
        BY <1>0, <3>1 DEF Aimed
      <4>2. Updated(call[r], rowNew[call[r].target]) \in User
        BY <1>0, <4>1, UpdatedType DEF TableType
      <4> QED
        BY <1>0, <1>3, <3>1, <4>1, <4>2, WriteType DEF Flush
    <3>2. CASE call[r].stage # "pending"
      BY <1>0, <1>3, <3>2 DEF Flush, table, TableType
    <3> QED
      BY <3>1, <3>2
  <2> QED
    BY <1>3, <2>1, <2>2 DEF Flush, TypeInv, TypeOK, TableType
<1>4. CASE Commit(r)
  <2>1. LifecycleType' /\ row' \in [Accounts -> User]
    BY <1>4, LifecycleKept DEF Commit, TypeInv, TypeOK
  <2> QED
    BY <1>4, <2>1, ReleaseTypeInv DEF Commit
<1> QED
  BY <1>1, <1>2, <1>3, <1>4 DEF Finish

LEMMA InitTypeInv == Init => TypeInv
<1> SUFFICES ASSUME Init PROVE TypeInv
  OBVIOUS
<1>1. LifecycleType
  BY DEF Init, LifecycleInit, LifecycleType, Phase, Answer
<1>2. NewUser("ADMIN", SeedPassword) \in User /\ NoUser \in User /\ NoCall \in Call
  BY UserTypes, CallTypes, AccountsAssumption
<1>3. TypeOK
  BY <1>1, <1>2 DEF Init, TypeOK
<1> QED
  BY <1>3, NoCallAimed DEF Init, TypeInv

LEMMA NextTypeInv == TypeInv /\ [Next]_vars => TypeInv'
<1> SUFFICES ASSUME TypeInv, [Next]_vars PROVE TypeInv'
  OBVIOUS
<1>1. CASE UNCHANGED vars
  BY <1>1 DEF vars, TypeInv, TypeOK, table, lifecycle, LifecycleType
<1>2. ASSUME NEW r \in Requests, Start(r) \/ TakeConnection(r) \/ Statement(r) \/ Finish(r) \/ Lose(r)
      PROVE  TypeInv'
  BY <1>2, StartTypeInv, FinishTypeInv, StatementTypeInv, LoseTypeInv
<1> QED
  BY <1>1, <1>2 DEF Next

\* Every variable keeps its type, whatever requests overlap and are lost.
THEOREM TypeCorrect == Spec => []TypeOK
<1>1. Spec => []TypeInv
  BY InitTypeInv, NextTypeInv, PTL DEF Spec
<1> QED
  BY <1>1, PTL DEF TypeInv

-----------------------------------------------------------------------------
(* The inductive invariant *)

\* What a transaction does to the row it holds: a sign-up, or one column.
SignedUp(a) ==
    /\ ~row[a].there
    /\ \E p \in Password : rowNew[a] = NewAccount(p)

Edited(a) ==
    /\ row[a].there
    /\ \/ \E x \in Roles : rowNew[a] = [row[a] EXCEPT !.role = x]
       \/ \E p \in Password : rowNew[a] = [row[a] EXCEPT !.password = p]
       \/ rowNew[a] = [row[a] EXCEPT !.active = FALSE]

\* Once r has written it has no statement left to wait with, but for its COMMIT.
HeldBy(a, r) ==
    /\ HasConnection(r)
    /\ phase[r] = "work" => call[r].stage = "done"
    /\ call[r].stage = "pending" => phase[r] = "commit"
    /\ SignedUp(a) \/ Edited(a)

RowOK(a) ==
    /\ rowLock[a] = NoRequest => rowNew[a] = row[a]
    /\ rowLock[a] # NoRequest => HeldBy(a, rowLock[a])
    /\ \A b \in Accounts : rowLock[a] # NoRequest /\ rowLock[b] = rowLock[a] => b = a

WriteOK(c) ==
    /\ c.op = "register" => \E p \in Password : c.to = NewAccount(p)
    /\ c.op # "register" => row[c.target].there
    /\ c.op = "deactivate" => ~c.to.active

RequestOK(r) ==
    LET c == call[r] IN
    /\ phase[r] = "idle" => c = NoCall
    /\ phase[r] = "connect" => c.stage \in {"auth", "load"}
    /\ phase[r] \in {"tasks", "flush", "commit"} => c.stage \in {"pending", "done"}
    /\ c.stage = "write" => WriteOK(c)
    /\ c.stage = "pending" => c.op = "login" /\ row[c.target].there

\* Admission rests on the row of the caller, as it is or as it was.
AdmittedOK(r) ==
    LET c == call[r] IN
    c.op \in ByToken /\ (c.stage = "auth" => May(c, row[c.caller])) => entitled[r]

AccountsInv ==
    /\ \A a \in Accounts : RowOK(a)
    /\ \A r \in Requests : RequestOK(r) /\ AdmittedOK(r)
    /\ OneAccountPerAddress

IInv == TypeInv /\ AccountsInv

\* Only r's request changes.
OnlyRequest(r) ==
    \A t \in Requests \ {r} : phase'[t] = phase[t] /\ call'[t] = call[t] /\ entitled'[t] = entitled[t]

LEMMA OthersKept ==
    ASSUME IInv, NEW r \in Requests, OnlyRequest(r), UNCHANGED row, NEW t \in Requests, t # r
    PROVE  RequestOK(t)' /\ AdmittedOK(t)'
<1>1. phase'[t] = phase[t] /\ call'[t] = call[t] /\ entitled'[t] = entitled[t]
  BY DEF OnlyRequest
<1>2. RequestOK(t) /\ AdmittedOK(t)
  BY DEF IInv, AccountsInv
<1> QED
  BY <1>1, <1>2 DEF RequestOK, WriteOK, AdmittedOK, May

LEMMA HeldKept ==
    ASSUME IInv, NEW a \in Accounts, NEW t \in Requests, rowLock[a] = t,
           phase'[t] = phase[t], call'[t] = call[t], row'[a] = row[a], rowNew'[a] = rowNew[a]
    PROVE  HeldBy(a, t)'
<1>1. HeldBy(a, t)
  BY AccountsAssumption DEF IInv, AccountsInv, RowOK
<1> QED
  BY <1>1 DEF HeldBy, HasConnection, SignedUp, Edited

\* A step that does not touch the table.
LEMMA LocalStep ==
    ASSUME IInv, NEW r \in Requests, OnlyRequest(r), UNCHANGED table,
           RequestOK(r)', AdmittedOK(r)', \A a \in Accounts : rowLock[a] = r => HeldBy(a, r)'
    PROVE  AccountsInv'
<1>1. ASSUME NEW a \in Accounts PROVE RowOK(a)'
  <2>1. CASE rowLock[a] = NoRequest
    BY <2>1 DEF IInv, AccountsInv, RowOK, table
  <2>2. CASE rowLock[a] # NoRequest
    <3>1. rowLock[a] \in Requests
      BY <2>2 DEF IInv, TypeInv, TypeOK
    <3>2. HeldBy(a, rowLock[a])'
      <4>1. CASE rowLock[a] = r
        BY <4>1 DEF table
      <4>2. CASE rowLock[a] # r
        BY <3>1, <4>2, HeldKept DEF OnlyRequest, table
      <4> QED
        BY <4>1, <4>2
    <3> QED
      BY <3>2 DEF IInv, AccountsInv, RowOK, table
  <2> QED
    BY <2>1, <2>2
<1>2. ASSUME NEW t \in Requests PROVE RequestOK(t)' /\ AdmittedOK(t)'
  BY <1>2, OthersKept DEF table
<1>3. OneAccountPerAddress'
  BY DEF IInv, AccountsInv, OneAccountPerAddress, table
<1> QED
  BY <1>1, <1>2, <1>3 DEF AccountsInv

\* A statement that writes the one row its request holds.
LEMMA WriteStep ==
    ASSUME IInv, TypeInv', NEW r \in Requests, OnlyRequest(r), NEW a \in Accounts, NEW v, Write(r, a, v),
           \A b \in Accounts : rowLock[b] # r,
           RequestOK(r)', AdmittedOK(r)', HeldBy(a, r)',
           v.there /\ ~rowNew[a].there => Holders(a) = {}
    PROVE  AccountsInv'
<1>0. /\ r # NoRequest /\ rowLock[a] = NoRequest /\ UNCHANGED row
      /\ rowLock'[a] = r /\ rowNew'[a] = v
      /\ \A b \in Accounts \ {a} : rowLock'[b] = rowLock[b] /\ rowNew'[b] = rowNew[b]
  BY AccountsAssumption DEF Write, Granted, IInv, TypeInv, TypeOK
<1>1. ASSUME NEW b \in Accounts PROVE RowOK(b)'
  <2>1. CASE b = a
    BY <1>0, <2>1 DEF RowOK
  <2>2. CASE b # a /\ rowLock[b] = NoRequest
    BY <1>0, <2>2 DEF IInv, AccountsInv, RowOK
  <2>3. CASE b # a /\ rowLock[b] # NoRequest
    <3>1. rowLock[b] \in Requests \ {r}
      BY <2>3 DEF IInv, TypeInv, TypeOK
    <3>2. HeldBy(b, rowLock[b])'
      BY <1>0, <2>3, <3>1, HeldKept DEF OnlyRequest
    <3>3. \A x \in Accounts : rowLock'[x] = rowLock'[b] => x = b
      BY <1>0, <2>3, <3>1 DEF IInv, AccountsInv, RowOK
    <3> QED
      BY <1>0, <2>3, <3>2, <3>3 DEF RowOK
  <2> QED
    BY <2>1, <2>2, <2>3
<1>2. ASSUME NEW t \in Requests PROVE RequestOK(t)' /\ AdmittedOK(t)'
  BY <1>0, <1>2, OthersKept
<1>3. OneAccountPerAddress'
  <2> SUFFICES ASSUME NEW x \in Accounts, NEW y \in Accounts, EmailOf[x] = EmailOf[y],
                      rowNew'[x].there, rowNew'[y].there
               PROVE  x = y
    BY DEF OneAccountPerAddress
  <2>1. \A z \in Accounts : EmailOf[z] = EmailOf[a] /\ rowNew'[z].there => z = a
    <3>1. CASE rowNew[a].there
      BY <1>0, <3>1 DEF IInv, AccountsInv, OneAccountPerAddress
    <3>2. CASE ~rowNew[a].there /\ v.there
      BY <1>0, <3>2 DEF Holders, SameAddress
    <3>3. CASE ~rowNew[a].there /\ ~v.there
      <4>1. ~(SignedUp(a)') /\ ~(Edited(a)')
        <5>1. /\ \A p \in Password : NewAccount(p).there
              /\ row'[a] \in User
          BY DEF NewAccount, NewUser, TypeInv, TypeOK
        <5>2. Edited(a)' => v.there
          <6>1. row[a].there => rowNew[a].there
            BY <1>0 DEF IInv, AccountsInv, RowOK
          <6> QED
            BY <1>0, <3>3, <6>1 DEF Edited
        <5> QED
          BY <1>0, <3>3, <5>1, <5>2 DEF SignedUp
      <4> QED
        BY <4>1 DEF HeldBy
    <3> QED
      BY <3>1, <3>2, <3>3
  <2>2. CASE x = a \/ y = a
    BY <2>1, <2>2
  <2>3. CASE x # a /\ y # a
    BY <1>0, <2>3 DEF IInv, AccountsInv, OneAccountPerAddress
  <2> QED
    BY <2>2, <2>3
<1> QED
  BY <1>1, <1>2, <1>3 DEF AccountsInv

\* What a transaction leaves of a row it held.
LEMMA StillThere ==
    ASSUME IInv, NEW a \in Accounts, row[a].there
    PROVE  rowNew[a].there
<1>1. CASE rowLock[a] = NoRequest
  BY <1>1 DEF IInv, AccountsInv, RowOK
<1>2. CASE rowLock[a] # NoRequest
  <2>1. Edited(a) /\ row[a] \in User
    BY <1>2 DEF IInv, AccountsInv, RowOK, HeldBy, SignedUp, TypeInv, TypeOK
  <2> QED
    BY <2>1 DEF Edited, User
<1> QED
  BY <1>1, <1>2

\* The end of a request, committed or not.
LEMMA ReleaseStep ==
    ASSUME IInv, NEW r \in Requests, Release(r), phase' = [phase EXCEPT ![r] = "idle"],
           \/ UNCHANGED row
           \/ row' = [a \in Accounts |-> IF rowLock[a] = r THEN rowNew[a] ELSE row[a]]
    PROVE  AccountsInv'
<1>0. /\ \A t \in Requests \ {r} :
            /\ phase'[t] = phase[t] /\ call'[t] = call[t]
            /\ entitled'[t] = (entitled[t] \/ Allowed(call[t], row'))
      /\ phase'[r] = "idle" /\ call'[r] = NoCall /\ r # NoRequest
      /\ \A a \in Accounts : rowLock'[a] = IF rowLock[a] = r THEN NoRequest ELSE rowLock[a]
      /\ \A a \in Accounts : rowNew'[a] = IF rowLock[a] = r THEN row'[a] ELSE rowNew[a]
      /\ \A a \in Accounts : rowLock[a] # r => row'[a] = row[a]
      /\ \A a \in Accounts : row'[a] = row[a] \/ row'[a] = rowNew[a]
  BY AccountsAssumption DEF IInv, TypeInv, TypeOK, LifecycleType, Release
<1>1. ASSUME NEW a \in Accounts PROVE RowOK(a)'
  <2>1. CASE rowLock'[a] = NoRequest
    BY <1>0, <2>1 DEF IInv, AccountsInv, RowOK
  <2>2. CASE rowLock'[a] # NoRequest
    <3>1. rowLock[a] \in Requests \ {r} /\ rowLock'[a] = rowLock[a]
      BY <1>0, <2>2 DEF IInv, TypeInv, TypeOK
    <3>2. HeldBy(a, rowLock[a])'
      BY <1>0, <3>1, HeldKept
    <3>3. \A b \in Accounts : rowLock'[b] = rowLock'[a] => b = a
      BY <1>0, <2>2, <3>1 DEF IInv, AccountsInv, RowOK
    <3> QED
      BY <2>2, <3>1, <3>2, <3>3 DEF RowOK
  <2> QED
    BY <2>1, <2>2
<1>2. \A a \in Accounts : row[a].there => row'[a].there
  BY <1>0, StillThere
<1>3. ASSUME NEW t \in Requests, t # r PROVE RequestOK(t)' /\ AdmittedOK(t)'
  <2>1. RequestOK(t) /\ AdmittedOK(t) /\ Aimed(call[t])
    BY DEF IInv, AccountsInv, TypeInv
  <2>2. /\ phase'[t] = phase[t] /\ call'[t] = call[t]
        /\ entitled'[t] = (entitled[t] \/ Allowed(call[t], row'))
    BY <1>0, <1>3
  <2>3. RequestOK(t)'
    BY <1>2, <2>1, <2>2 DEF RequestOK, WriteOK, Aimed
  <2>4. AdmittedOK(t)'
    BY <2>1, <2>2 DEF AdmittedOK, Allowed
  <2> QED
    BY <2>3, <2>4
<1>4. RequestOK(r)' /\ AdmittedOK(r)'
  BY <1>0 DEF RequestOK, AdmittedOK, NoCall, ByToken, AdminOps
<1>5. OneAccountPerAddress'
  <2>1. \A a \in Accounts : rowNew'[a].there => rowNew[a].there
    BY <1>0, StillThere
  <2> QED
    BY <2>1 DEF IInv, AccountsInv, OneAccountPerAddress
<1> QED
  BY <1>1, <1>3, <1>4, <1>5 DEF AccountsInv

-----------------------------------------------------------------------------
(* Every step keeps it *)

LEMMA InitAccountsInv == Init => IInv
<1> SUFFICES ASSUME Init PROVE AccountsInv
  BY InitTypeInv DEF IInv
<1>1. /\ \A a \in Accounts : rowNew[a] = row[a] /\ rowLock[a] = NoRequest
      /\ \A a \in Accounts : row[a].there => a \in Seeded
      /\ \A r \in Requests : call[r] = NoCall /\ phase[r] = "idle"
  BY UserTypes DEF Init, LifecycleInit
<1>2. ASSUME NEW a \in Accounts PROVE RowOK(a)
  BY <1>1 DEF RowOK
<1>3. ASSUME NEW r \in Requests PROVE RequestOK(r) /\ AdmittedOK(r)
  BY <1>1 DEF RequestOK, AdmittedOK, NoCall, ByToken, AdminOps
<1>4. OneAccountPerAddress
  BY <1>1, AccountsAssumption DEF OneAccountPerAddress
<1> QED
  BY <1>2, <1>3, <1>4 DEF AccountsInv

\* A request that has a statement to make holds nothing.
LEMMA BusyHoldsNothing ==
    ASSUME IInv, NEW r \in Requests,
           \/ phase[r] \in {"idle", "connect"}
           \/ phase[r] = "work" /\ call[r].stage # "done"
           \/ phase[r] # "commit" /\ call[r].stage = "pending"
    PROVE  \A a \in Accounts : rowLock[a] # r
BY AccountsAssumption DEF IInv, AccountsInv, RowOK, HeldBy, HasConnection

LEMMA WorksStep ==
    ASSUME IInv, NEW r \in Requests, NEW next \in Call, Works(r, next)
    PROVE  /\ OnlyRequest(r) /\ phase[r] = "work" /\ phase'[r] = "work"
           /\ call'[r] = next /\ entitled'[r] = entitled[r]
BY DEF Works, lifecycle, OnlyRequest, IInv, TypeInv, TypeOK

LEMMA StartInv == ASSUME IInv, NEW r \in Requests, Start(r) PROVE AccountsInv'
<1>b. ASSUME NEW first \in Call, Begin(r, first), first.stage \in {"auth", "load"},
             first.op \in ByToken => first.stage = "auth"
      PROVE  AccountsInv'
  <2>1. /\ phase[r] = "idle" /\ phase'[r] = "connect" /\ call'[r] = first /\ OnlyRequest(r)
        /\ entitled'[r] = Allowed(first, row) /\ UNCHANGED table
    BY <1>b DEF Begin, Arrive, MoveTo, OnlyRequest, IInv, TypeInv, TypeOK, LifecycleType
  <2>2. RequestOK(r)'
    BY <1>b, <2>1 DEF RequestOK
  <2>3. AdmittedOK(r)'
    BY <1>b, <2>1 DEF AdmittedOK, Allowed, table
  <2> QED
    BY <2>1, <2>2, <2>3, LocalStep, BusyHoldsNothing
<1>1. ASSUME NEW a \in Accounts, BeginRegister(r, a) \/ BeginLogin(r, a) PROVE AccountsInv'
  <2>1. \A op \in {"register", "login"} :
            /\ [NoCall EXCEPT !.op = op, !.stage = "load", !.target = a].stage = "load"
            /\ [NoCall EXCEPT !.op = op, !.stage = "load", !.target = a].op \notin ByToken
    BY DEF NoCall, ByToken, AdminOps
  <2> QED
    BY <1>1, <1>b, <2>1, CallTypes DEF BeginRegister, BeginLogin
<1>2. ASSUME NEW a \in Accounts, NEW b \in Accounts, NEW op \in ByToken, BeginByToken(r, op, a, b)
      PROVE  AccountsInv'
  <2>1. [NoCall EXCEPT !.op = op, !.stage = "auth", !.caller = a, !.target = b].stage = "auth"
    BY DEF NoCall
  <2> QED
    BY <1>2, <1>b, <2>1, CallTypes DEF BeginByToken
<1> QED
  BY <1>1, <1>2 DEF Start

LEMMA FailInv == ASSUME IInv, NEW r \in Requests, NEW what, Fail(r, what) PROVE AccountsInv'
BY ReleaseStep DEF Fail, Raise, End, MoveTo, RollBack

LEMMA LoseInv == ASSUME IInv, NEW r \in Requests, Lose(r) PROVE AccountsInv'
BY ReleaseStep DEF Lose, PoolTimeout, CommitFails, Die, End, MoveTo, RollBack

\* Of the columns that c may change, Updated() changes one.
LEMMA UpdateEdits ==
    ASSUME NEW c \in Call, NEW user \in User, c.op = "deactivate" => ~c.to.active
    PROVE  /\ \/ \E x \in Roles : Updated(c, user) = [user EXCEPT !.role = x]
              \/ \E p \in Password : Updated(c, user) = [user EXCEPT !.password = p]
              \/ Updated(c, user) = [user EXCEPT !.active = FALSE]
           /\ Updated(c, user).there = user.there
<1>1. c.to \in User
  BY DEF Call
<1>2. c.to.role \in Roles /\ c.to.active \in BOOLEAN /\ c.to.password \in Password
  BY <1>1, EditTypes
<1>3. CASE c.op = "change_role"
  BY <1>2, <1>3 DEF Updated, User
<1>4. CASE c.op = "deactivate"
  BY <1>2, <1>4 DEF Updated, User
<1>5. CASE c.op \notin {"change_role", "deactivate"}
  BY <1>2, <1>5 DEF Updated, User
<1> QED
  BY <1>3, <1>4, <1>5

\* A statement that reads.
LEMMA ReadInv ==
    ASSUME IInv, NEW r \in Requests, NEW next \in Call, Works(r, next), UNCHANGED table,
           call[r].stage # "done",
           next.op = call[r].op, next.caller = call[r].caller, next.target = call[r].target,
           next.stage = "write" => WriteOK(next),
           next.stage = "pending" => next.op = "login" /\ row[next.target].there,
           next.op \in ByToken => entitled[r]
    PROVE  AccountsInv'
<1>1. /\ OnlyRequest(r) /\ phase[r] = "work" /\ phase'[r] = "work"
      /\ call'[r] = next /\ entitled'[r] = entitled[r]
  BY WorksStep
<1>2. RequestOK(r)'
  BY <1>1 DEF RequestOK, WriteOK, table
<1>3. AdmittedOK(r)'
  BY <1>1 DEF AdmittedOK
<1> QED
  BY <1>1, <1>2, <1>3, LocalStep, BusyHoldsNothing

LEMMA AuthenticateInv == ASSUME IInv, NEW r \in Requests, Authenticate(r) PROVE AccountsInv'
<1> DEFINE c == call[r]
           user == row[c.target]
           rehashed == [user EXCEPT !.password.strong = TRUE]
<1>1. c \in Call /\ c.op = "login" /\ c.stage = "load" /\ c.target \in Accounts /\ c.op \notin ByToken
  BY DEF Authenticate, IInv, TypeInv, TypeOK, Aimed, ByToken, AdminOps
<1>2. CASE Fail(r, "refused")
  BY <1>2, FailInv
<1>3. CASE user.there /\ UNCHANGED table /\ Works(r, [c EXCEPT !.stage = "done"])
  <2> DEFINE next == [c EXCEPT !.stage = "done"]
  <2>1. /\ next \in Call /\ next.op = c.op /\ next.caller = c.caller /\ next.target = c.target
        /\ next.stage = "done"
    BY <1>1 DEF Call
  <2> HIDE DEF next
  <2> QED
    BY <1>1, <1>3, <2>1, ReadInv DEF next
<1>4. CASE /\ user.there /\ UNCHANGED table
           /\ Works(r, [c EXCEPT !.to = rehashed, !.stage = "pending"])
  <2> DEFINE next == [c EXCEPT !.to = rehashed, !.stage = "pending"]
  <2>0. rehashed \in User
    BY <1>1, EditTypes DEF IInv, TypeInv, TypeOK
  <2> HIDE DEF rehashed
  <2>1. /\ next \in Call /\ next.op = c.op /\ next.caller = c.caller /\ next.target = c.target
        /\ next.stage = "pending"
    BY <1>1, <2>0 DEF Call
  <2> HIDE DEF next
  <2> QED
    BY <1>1, <1>4, <2>1, ReadInv DEF next
<1> QED
  BY <1>2, <1>3, <1>4 DEF Authenticate

LEMMA AuthInv == ASSUME IInv, NEW r \in Requests, Auth(r) PROVE AccountsInv'
<1> DEFINE c == call[r]
           next == [c EXCEPT !.stage = "load"]
<1>1. CASE Fail(r, "refused")
  BY <1>1, FailInv
<1>2. CASE Admits(c) /\ Works(r, next) /\ UNCHANGED table
  <2>1. /\ c \in Call /\ c.stage = "auth"
        /\ next \in Call /\ next.op = c.op /\ next.caller = c.caller /\ next.target = c.target
        /\ next.stage = "load"
    BY DEF Auth, IInv, TypeInv, TypeOK, Call
  <2>2. c.op \in ByToken => entitled[r]
    BY <1>2, <2>1 DEF Admits, IInv, AccountsInv, AdmittedOK
  <2> HIDE DEF next
  <2> QED
    BY <1>2, <2>1, <2>2, ReadInv
<1> QED
  BY <1>1, <1>2 DEF Auth

LEMMA LoadInv == ASSUME IInv, NEW r \in Requests, Load(r) PROVE AccountsInv'
<1> DEFINE c == call[r]
           user == row[c.target]
<1>1. /\ c \in Call /\ c.op \in ByToken /\ c.stage = "load" /\ c.target \in Accounts
      /\ user \in User /\ entitled[r]
  BY DEF Load, IInv, TypeInv, TypeOK, Aimed, AccountsInv, AdmittedOK
<1>2. CASE Fail(r, "refused")
  BY <1>2, FailInv
<1>3. CASE UNCHANGED table /\ Works(r, [c EXCEPT !.stage = "done"])
  <2> DEFINE next == [c EXCEPT !.stage = "done"]
  <2>1. /\ next \in Call /\ next.op = c.op /\ next.caller = c.caller /\ next.target = c.target
        /\ next.stage = "done"
    BY <1>1 DEF Call
  <2> HIDE DEF next
  <2> QED
    BY <1>1, <1>3, <2>1, ReadInv DEF next
<1>4. ASSUME user.there, UNCHANGED table, NEW to \in Edits(c.op, user),
             Works(r, [c EXCEPT !.to = to, !.stage = "write"])
      PROVE  AccountsInv'
  <2> DEFINE next == [c EXCEPT !.to = to, !.stage = "write"]
  <2>0. to \in User /\ (c.op = "deactivate" => ~to.active)
    <3>1. c.op = "deactivate" => to = [user EXCEPT !.active = FALSE]
      BY <1>4 DEF Edits
    <3> QED
      BY <1>1, <1>4, <3>1, EditsTypes DEF User
  <2>1. /\ next \in Call /\ next.op = c.op /\ next.caller = c.caller /\ next.target = c.target
        /\ next.stage = "write" /\ next.to = to
    BY <1>1, <2>0 DEF Call
  <2> HIDE DEF next
  <2>2. WriteOK(next)
    BY <1>1, <1>4, <2>0, <2>1 DEF WriteOK, ByToken, AdminOps
  <2> QED
    BY <1>1, <1>4, <2>1, <2>2, ReadInv DEF next
<1> QED
  BY <1>2, <1>3, <1>4 DEF Load

LEMMA EmailExistsInv == ASSUME IInv, NEW r \in Requests, EmailExists(r) PROVE AccountsInv'
<1> DEFINE c == call[r]
<1>1. CASE Fail(r, "refused")
  BY <1>1, FailInv
<1>2. ASSUME NEW p \in Password, UNCHANGED table,
             Works(r, [c EXCEPT !.to = NewAccount(p), !.stage = "write"])
      PROVE  AccountsInv'
  <2> DEFINE next == [c EXCEPT !.to = NewAccount(p), !.stage = "write"]
  <2>0. NewAccount(p) \in User /\ c \in Call /\ c.op = "register" /\ c.stage = "load"
    BY UserTypes DEF EmailExists, IInv, TypeInv, TypeOK
  <2>1. /\ next \in Call /\ next.op = c.op /\ next.caller = c.caller /\ next.target = c.target
        /\ next.stage = "write" /\ next.to = NewAccount(p)
    BY <2>0 DEF Call
  <2> HIDE DEF next
  <2>2. WriteOK(next) /\ next.op \notin ByToken
    BY <2>0, <2>1 DEF WriteOK, ByToken, AdminOps
  <2> QED
    BY <1>2, <2>0, <2>1, <2>2, ReadInv DEF next
<1> QED
  BY <1>1, <1>2 DEF EmailExists

\* A statement that writes, and is its request's last one.
LEMMA LastWrite ==
    ASSUME IInv, TypeInv', NEW r \in Requests, NEW v, NEW a \in Accounts, a = call[r].target,
           call[r].stage = "write",
           Works(r, [call[r] EXCEPT !.to = NoUser, !.stage = "done"]), Write(r, a, v),
           v.there /\ ~rowNew[a].there => Holders(a) = {},
           rowNew[a] = row[a] => SignedUp(a)' \/ Edited(a)'
    PROVE  AccountsInv'
<1> DEFINE c == call[r]
           next == [c EXCEPT !.to = NoUser, !.stage = "done"]
<1>1. c \in Call /\ NoUser \in User
  BY UserTypes DEF IInv, TypeInv, TypeOK
<1>2. next \in Call /\ next.op = c.op /\ next.caller = c.caller /\ next.target = c.target /\ next.stage = "done"
  BY <1>1 DEF Call
<1> HIDE DEF next
<1>3. /\ OnlyRequest(r) /\ phase[r] = "work" /\ phase'[r] = "work"
      /\ call'[r] = next /\ entitled'[r] = entitled[r]
  BY <1>2, WorksStep DEF next
<1>4. \A b \in Accounts : rowLock[b] # r
  BY <1>3, BusyHoldsNothing
<1>5. RequestOK(r)' /\ AdmittedOK(r)'
  BY <1>2, <1>3 DEF RequestOK, AdmittedOK, IInv, AccountsInv
<1>6. HeldBy(a, r)'
  <2>1. rowLock[a] = NoRequest
    BY <1>4 DEF Write, Granted
  <2>2. rowNew[a] = row[a]
    BY <2>1 DEF IInv, AccountsInv, RowOK
  <2>3. SignedUp(a)' \/ Edited(a)'
    BY <2>2
  <2> QED
    BY <1>2, <1>3, <2>3 DEF HeldBy, HasConnection
<1> QED
  BY <1>3, <1>4, <1>5, <1>6, WriteStep

LEMMA InsertInv == ASSUME IInv, TypeInv', NEW r \in Requests, Insert(r) PROVE AccountsInv'
<1> DEFINE c == call[r]
<1>1. CASE Fail(r, "refused")
  BY <1>1, FailInv
<1>2. CASE /\ Holders(c.target) = {} /\ Write(r, c.target, c.to)
           /\ Works(r, [c EXCEPT !.to = NoUser, !.stage = "done"])
  <2>1. PICK a \in Accounts : a = c.target
    BY DEF Insert, IInv, TypeInv, Aimed
  <2>2. PICK v \in User : v = c.to
    BY DEF IInv, TypeInv, TypeOK, Call
  <2>3. c.stage = "write" /\ \E p \in Password : v = NewAccount(p)
    BY <2>2 DEF Insert, IInv, AccountsInv, RequestOK, WriteOK
  <2>4. ~rowNew[a].there /\ rowNew'[a] = v /\ row'[a] = row[a]
    BY <1>2, <2>1, <2>2 DEF Holders, SameAddress, Write, IInv, TypeInv, TypeOK
  <2>5. rowNew[a] = row[a] => SignedUp(a)'
    BY <2>3, <2>4 DEF SignedUp
  <2> QED
    BY <1>2, <2>1, <2>2, <2>3, <2>5, LastWrite
<1> QED
  BY <1>1, <1>2 DEF Insert

LEMMA EditedAfter ==
    ASSUME NEW a \in Accounts, NEW c \in Call, row[a] \in User, row[a].there,
           c.op = "deactivate" => ~c.to.active,
           rowNew'[a] = Updated(c, row[a]), row'[a] = row[a]
    PROVE  Edited(a)'
<1>1. PICK user \in User : user = row[a]
  OBVIOUS
<1>2. PICK v : v = Updated(c, user)
  OBVIOUS
<1>3. \/ \E x \in Roles : v = [user EXCEPT !.role = x]
      \/ \E p \in Password : v = [user EXCEPT !.password = p]
      \/ v = [user EXCEPT !.active = FALSE]
  BY <1>2, UpdateEdits
<1>4. rowNew'[a] = v /\ row'[a] = user /\ user.there
  BY <1>1, <1>2
<1> QED
  BY <1>3, <1>4 DEF Edited

LEMMA UpdateInv == ASSUME IInv, TypeInv', NEW r \in Requests, Update(r) PROVE AccountsInv'
<1> DEFINE c == call[r]
<1>1. PICK a \in Accounts : a = c.target
  BY DEF Update, IInv, TypeInv, Aimed
<1>2. PICK v : v = Updated(c, rowNew[a])
  OBVIOUS
<1>3. /\ c \in Call /\ c.stage = "write" /\ rowNew[a] \in User
      /\ c.op = "deactivate" => ~c.to.active
      /\ row[a].there
  BY <1>1 DEF Update, IInv, TypeInv, TypeOK, AccountsInv, RequestOK, WriteOK
<1>4. v.there = rowNew[a].there
  BY <1>2, <1>3, UpdateEdits
<1>5. Write(r, a, v) /\ rowNew'[a] = v /\ row'[a] = row[a]
  BY <1>1, <1>2 DEF Update, Write, IInv, TypeInv, TypeOK
<1>6. rowNew[a] = row[a] => Edited(a)'
  BY <1>2, <1>3, <1>5, EditedAfter
<1> QED
  BY <1>1, <1>3, <1>4, <1>5, <1>6, LastWrite DEF Update

LEMMA FlushInv == ASSUME IInv, TypeInv', NEW r \in Requests, Flush(r) PROVE AccountsInv'
<1> DEFINE c == call[r]
<1>0. /\ phase[r] = "flush" /\ phase'[r] = "commit" /\ call'[r] = c /\ entitled'[r] = entitled[r]
      /\ OnlyRequest(r) /\ UNCHANGED row /\ c.stage \in {"pending", "done"}
      /\ (c.stage = "pending" => c.op = "login" /\ row[c.target].there)
  <2>1. UNCHANGED row
    BY DEF Flush, Write, table
  <2>2. phase[r] = "flush" /\ phase'[r] = "commit" /\ UNCHANGED <<call, entitled>> /\ OnlyRequest(r)
    BY DEF Flush, Flushed, MoveTo, OnlyRequest, IInv, TypeInv, TypeOK, LifecycleType
  <2> QED
    BY <2>1, <2>2 DEF IInv, AccountsInv, RequestOK
<1>1. RequestOK(r)' /\ AdmittedOK(r)'
  BY <1>0 DEF RequestOK, AdmittedOK, WriteOK, May, IInv, AccountsInv
<1>2. CASE c.stage = "pending"
  <2>1. PICK a \in Accounts : a = c.target
    BY <1>2 DEF IInv, TypeInv, Aimed
  <2>2. PICK v : v = Updated(c, rowNew[a])
    OBVIOUS
  <2>3. \A b \in Accounts : rowLock[b] # r
    BY <1>0, <1>2, BusyHoldsNothing
  <2>4. Write(r, a, v) /\ rowNew'[a] = v /\ row'[a] = row[a]
    BY <1>2, <2>1, <2>2 DEF Flush, Write, IInv, TypeInv, TypeOK
  <2>5. rowNew[a] = row[a]
    BY <2>3, <2>4 DEF Write, Granted, IInv, AccountsInv, RowOK
  <2>6. v.there = rowNew[a].there /\ Edited(a)'
    <3>1. c \in Call /\ rowNew[a] \in User /\ c.op # "deactivate"
      BY <1>0, <1>2 DEF IInv, TypeInv, TypeOK
    <3> QED
      BY <1>0, <1>2, <2>1, <2>2, <2>4, <2>5, <3>1, UpdateEdits, EditedAfter
  <2>7. HeldBy(a, r)'
    BY <1>0, <2>6 DEF HeldBy, HasConnection
  <2> QED
    BY <1>0, <1>1, <2>3, <2>4, <2>6, <2>7, WriteStep
<1>3. CASE c.stage # "pending"
  <2>1. UNCHANGED table
    BY <1>3 DEF Flush
  <2>2. \A b \in Accounts : rowLock[b] = r => HeldBy(b, r)'
    <3> SUFFICES ASSUME NEW b \in Accounts, rowLock[b] = r PROVE HeldBy(b, r)'
      OBVIOUS
    <3>1. HeldBy(b, r)
      BY AccountsAssumption DEF IInv, AccountsInv, RowOK
    <3> QED
      BY <1>0, <1>3, <2>1, <3>1 DEF HeldBy, HasConnection, SignedUp, Edited, table
  <2> QED
    BY <1>0, <1>1, <2>1, <2>2, LocalStep
<1> QED
  BY <1>2, <1>3

LEMMA FinishInv ==
    ASSUME IInv, TypeInv', NEW r \in Requests, TakeConnection(r) \/ Finish(r)
    PROVE  AccountsInv'
<1>held. \A b \in Accounts : rowLock[b] = r => HeldBy(b, r)
  BY AccountsAssumption DEF IInv, AccountsInv, RowOK
<1>1. CASE TakeConnection(r)
  <2>1. /\ phase[r] = "connect" /\ phase'[r] = "work" /\ OnlyRequest(r) /\ UNCHANGED <<table, call, entitled>>
    BY <1>1 DEF TakeConnection, Connect, MoveTo, OnlyRequest, IInv, TypeInv, TypeOK, LifecycleType
  <2>2. RequestOK(r)' /\ AdmittedOK(r)'
    BY <2>1 DEF RequestOK, AdmittedOK, WriteOK, May, IInv, AccountsInv, table
  <2> QED
    BY <2>1, <2>2, LocalStep, BusyHoldsNothing
<1>2. CASE Answers(r)
  <2>1. /\ phase[r] = "work" /\ phase'[r] = "tasks" /\ OnlyRequest(r) /\ UNCHANGED table
        /\ call[r].stage \in {"pending", "done"}
        /\ call'[r] = IF call[r].stage = "pending" THEN call[r] ELSE NoCall
    BY <1>2 DEF Answers, Respond, MoveTo, OnlyRequest, IInv, TypeInv, TypeOK, LifecycleType
  <2>2. RequestOK(r)' /\ AdmittedOK(r)'
    <3>1. CASE call[r].stage = "pending"
      BY <2>1, <3>1 DEF RequestOK, AdmittedOK, IInv, AccountsInv, table, ByToken, AdminOps
    <3>2. CASE call[r].stage = "done"
      BY <2>1, <3>2 DEF RequestOK, AdmittedOK, NoCall, ByToken, AdminOps
    <3> QED
      BY <2>1, <3>1, <3>2
  <2>3. \A b \in Accounts : rowLock[b] = r => HeldBy(b, r)'
    <3> SUFFICES ASSUME NEW b \in Accounts, rowLock[b] = r PROVE HeldBy(b, r)'
      OBVIOUS
    <3>1. SignedUp(b)' \/ Edited(b)'
      BY <1>held, <2>1 DEF HeldBy, SignedUp, Edited, table
    <3>2. call'[r].stage = "done"
      BY <1>held, <2>1 DEF HeldBy, NoCall
    <3> QED
      BY <2>1, <3>1, <3>2 DEF HeldBy, HasConnection
  <2> QED
    BY <2>1, <2>2, <2>3, LocalStep
<1>3. CASE FinishTasks(r)
  <2>1. /\ phase[r] = "tasks" /\ phase'[r] = "flush" /\ OnlyRequest(r) /\ UNCHANGED <<table, call, entitled>>
    BY <1>3 DEF FinishTasks, EndTasks, MoveTo, OnlyRequest, IInv, TypeInv, TypeOK, LifecycleType
  <2>2. RequestOK(r)' /\ AdmittedOK(r)'
    BY <2>1 DEF RequestOK, AdmittedOK, WriteOK, May, IInv, AccountsInv, table
  <2>3. \A b \in Accounts : rowLock[b] = r => HeldBy(b, r)'
    BY <1>held, <2>1 DEF HeldBy, HasConnection, SignedUp, Edited, table
  <2> QED
    BY <2>1, <2>2, <2>3, LocalStep
<1>4. CASE Flush(r)
  BY <1>4, FlushInv
<1>5. CASE Commit(r)
  BY <1>5, ReleaseStep DEF Commit, EndCommitted, End, MoveTo
<1> QED
  BY <1>1, <1>2, <1>3, <1>4, <1>5 DEF Finish

LEMMA NextIInv == IInv /\ [Next]_vars => IInv'
<1> SUFFICES ASSUME IInv, [Next]_vars PROVE AccountsInv'
  BY NextTypeInv DEF IInv
<1>0. TypeInv'
  BY NextTypeInv DEF IInv
<1>1. CASE UNCHANGED vars
  <2>1. UNCHANGED <<phase, call, entitled, table, row, rowLock, rowNew>>
    BY <1>1 DEF vars, lifecycle, table
  <2> QED
    BY <2>1 DEF IInv, AccountsInv, RowOK, HeldBy, HasConnection, SignedUp, Edited, RequestOK,
                WriteOK, AdmittedOK, May, OneAccountPerAddress
<1>2. ASSUME NEW r \in Requests, Statement(r) PROVE AccountsInv'
  BY <1>0, <1>2, EmailExistsInv, InsertInv, AuthenticateInv, AuthInv, LoadInv, UpdateInv, FailInv DEF Statement
<1>3. ASSUME NEW r \in Requests, Start(r) \/ TakeConnection(r) \/ Finish(r) \/ Lose(r) PROVE AccountsInv'
  BY <1>0, <1>3, StartInv, FinishInv, LoseInv
<1> QED
  BY <1>1, <1>2, <1>3 DEF Next

LEMMA Inductive == Spec => []IInv
BY InitAccountsInv, NextIInv, PTL DEF Spec

-----------------------------------------------------------------------------
(* What it shows *)

\* users/service.py:229-257: of the sign-ups and the accounts with one address, one
\* has a row, counting those that are not committed yet.
THEOREM OneAccount == Spec => []OneAccountPerAddress
<1>1. IInv => OneAccountPerAddress
  BY DEF IInv, AccountsInv
<1> QED
  BY <1>1, Inductive, PTL

\* users/service.py:329-355: what a caller is admitted to is what its row allowed at
\* some moment of the same request.
THEOREM Admission == Spec => []AdmittedByTheTable
<1>1. IInv => AdmittedByTheTable
  BY DEF IInv, AccountsInv, AdmittedOK, AdmittedByTheTable
<1> QED
  BY <1>1, Inductive, PTL

\* A request that waits, for a connection, an address or a row, holds no row, and no
\* request holds two: none can be part of a deadlock.
THEOREM NoDeadlock == Spec => []WaitersHoldNothing
<1>1. ASSUME IInv, NEW a \in Accounts, NEW b \in Accounts, rowLock[a] # NoRequest
      PROVE  ~Waits(rowLock[a]) /\ (rowLock[b] = rowLock[a] => b = a)
  <2>1. HeldBy(a, rowLock[a]) /\ (rowLock[b] = rowLock[a] => b = a)
    BY <1>1 DEF IInv, AccountsInv, RowOK
  <2> QED
    BY <2>1 DEF HeldBy, HasConnection, Waits, NeedsConnection
<1>2. IInv => WaitersHoldNothing
  BY <1>1 DEF WaitersHoldNothing
<1> QED
  BY <1>2, Inductive, PTL

\* Only a commit changes what is committed, and in one row.
LEMMA Committed ==
    ASSUME IInv, [Next]_vars, row' # row
    PROVE  \E a \in Accounts :
              /\ row' = [row EXCEPT ![a] = rowNew[a]]
              /\ SignedUp(a) \/ Edited(a)
<1>1. PICK r \in Requests : Commit(r)
  BY ZenonT(40) DEF Next, vars, table, Start, BeginRegister, BeginLogin, BeginByToken, Begin, TakeConnection,
         Statement, EmailExists, Insert, Authenticate, Auth, Load, Update, Fail, RollBack,
         Write, Finish, Answers, FinishTasks, Flush, Lose
<1>2. row' = [a \in Accounts |-> IF rowLock[a] = r THEN rowNew[a] ELSE row[a]]
  BY <1>1 DEF Commit
<1>3. row = [a \in Accounts |-> row[a]]
  BY DEF IInv, TypeInv, TypeOK
<1>4. PICK a \in Accounts : rowLock[a] = r
  BY <1>2, <1>3
<1>5. r # NoRequest /\ HeldBy(a, r) /\ \A b \in Accounts : rowLock[b] = r => b = a
  BY <1>4, AccountsAssumption DEF IInv, AccountsInv, RowOK
<1>6. row' = [b \in Accounts |-> IF b = a THEN rowNew[a] ELSE row[b]]
  BY <1>2, <1>4, <1>5
<1>7. row' = [row EXCEPT ![a] = rowNew[a]]
  BY <1>3, <1>6
<1> QED
  BY <1>5, <1>7 DEF HeldBy

\* However requests overlap, the committed rows change as a directory does: each
\* commit is one sign-up with a free address, one column of one account, or nothing.
THEOREM Refinement == Spec => ChangesOneColumn
<1>1. Init => Directory!Init
  <2> SUFFICES ASSUME Init PROVE Directory!Init
    OBVIOUS
  <2>1. row \in [Accounts -> Directory!User]
    BY InitTypeInv DEF TypeInv, TypeOK, User, Directory!User
  <2>2. \A a \in Accounts : row[a] = IF a \in Seeded THEN NewUser("ADMIN", SeedPassword) ELSE NoUser
    BY DEF Init
  <2>3. \A a \in Seeded : row[a].there /\ row[a].active /\ row[a].role = "ADMIN"
    BY <2>2, AccountsAssumption DEF NewUser
  <2>4. \A a \in Accounts \ Seeded : ~row[a].there
    BY <2>2, UserTypes
  <2>5. \A a \in Accounts : row[a].there \in BOOLEAN
    BY <2>1 DEF Directory!User
  <2>6. \A a \in Accounts : row[a].there = (a \in Seeded)
    BY <2>3, <2>4, <2>5
  <2> QED
    BY <2>1, <2>3, <2>6 DEF Directory!Init
<1>2. ASSUME IInv, [Next]_vars PROVE [Directory!Next]_row
  <2> SUFFICES ASSUME row' # row PROVE Directory!Next
    OBVIOUS
  <2>1. PICK a \in Accounts : row' = [row EXCEPT ![a] = rowNew[a]] /\ (SignedUp(a) \/ Edited(a))
    BY <1>2, Committed
  <2>2. CASE SignedUp(a)
    <3>1. PICK p \in Password : rowNew[a] = NewAccount(p)
      BY <2>2 DEF SignedUp
    <3>2. \A b \in Accounts : EmailOf[b] = EmailOf[a] => ~row[b].there
      <4>1. rowNew[a].there
        BY <3>1 DEF NewAccount, NewUser
      <4> QED
        BY <1>2, <2>2, <4>1, StillThere DEF IInv, AccountsInv, OneAccountPerAddress, SignedUp
    <3>3. Directory!SignUp(a)
      BY <2>1, <3>1, <3>2 DEF Directory!SignUp, NewAccount, NewUser
    <3> QED
      BY <3>3 DEF Directory!Next
  <2>3. CASE Edited(a)
    <3>1. CASE \E x \in Roles : rowNew[a] = [row[a] EXCEPT !.role = x]
      <4>1. PICK x \in Roles : rowNew[a] = [row[a] EXCEPT !.role = x]
        BY <3>1
      <4>2. Directory!SetRole(a, x)
        BY <2>1, <4>1 DEF Directory!SetRole
      <4> QED
        BY <2>3, <4>2 DEF Directory!Next, Directory!Edit, Edited
    <3>2. CASE \E p \in Password : rowNew[a] = [row[a] EXCEPT !.password = p]
      <4>1. PICK p \in Password : rowNew[a] = [row[a] EXCEPT !.password = p]
        BY <3>2
      <4>2. Directory!SetPassword(a, p)
        BY <2>1, <4>1 DEF Directory!SetPassword
      <4> QED
        BY <2>3, <4>2 DEF Directory!Next, Directory!Edit, Edited
    <3>3. CASE rowNew[a] = [row[a] EXCEPT !.active = FALSE]
      <4>1. Directory!Deactivate(a)
        BY <2>1, <3>3 DEF Directory!Deactivate
      <4> QED
        BY <2>3, <4>1 DEF Directory!Next, Directory!Edit, Edited
    <3> QED
      BY <2>3, <3>1, <3>2, <3>3 DEF Edited
  <2> QED
    BY <2>1, <2>2, <2>3
<1> QED
  BY <1>1, <1>2, Inductive, PTL DEF Spec, ChangesOneColumn, Directory!Spec

\* No route enables an account again, and no late write of an entity that was loaded
\* while it was still enabled does: what set_active(FALSE) commits is there to stay.
THEOREM DisabledForGood ==
    Spec => [][\A a \in Accounts :
                 row[a].there /\ ~row[a].active => row'[a].there /\ ~row'[a].active]_row
<1>1. TypeOK /\ [Directory!Next]_row =>
        [\A a \in Accounts :
           row[a].there /\ ~row[a].active => row'[a].there /\ ~row'[a].active]_row
  <2> SUFFICES ASSUME row \in [Accounts -> User], NEW a \in Accounts,
                      row[a].there, ~row[a].active, Directory!Next
               PROVE  row'[a].there /\ ~row'[a].active
    BY DEF TypeOK
  <2>1. ASSUME NEW b \in Accounts, Directory!SignUp(b) PROVE row'[a] = row[a]
    BY <2>1 DEF Directory!SignUp
  <2>2. ASSUME NEW b \in Accounts, Directory!Edit(b)
        PROVE  row'[a].there = row[a].there /\ row'[a].active \in {row[a].active, FALSE}
    BY <2>2 DEF Directory!Edit, Directory!SetRole, Directory!SetPassword, Directory!Deactivate, User
  <2> QED
    BY <2>1, <2>2 DEF Directory!Next
<1> QED
  BY <1>1, TypeCorrect, Refinement, PTL DEF ChangesOneColumn, Directory!Spec
=============================================================================
