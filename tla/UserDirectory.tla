---------------------------- MODULE UserDirectory ----------------------------
(***************************************************************************)
(* What the users table promises, one request after another: an address    *)
(* belongs to at most one account, an account is never removed nor enabled *)
(* again, and a request changes one column of one account, or adds one.    *)
(***************************************************************************)
CONSTANTS Accounts, EmailOf, Seeded, Roles, Passwords

VARIABLE user      \* user[a]: the account a

User ==
    [there : BOOLEAN, active : BOOLEAN, role : Roles, password : Passwords]

\* The administrators of migration 0002 and nobody else.
Init ==
    /\ user \in [Accounts -> User]
    /\ \A a \in Accounts : user[a].there = (a \in Seeded)
    /\ \A a \in Seeded : user[a].active /\ user[a].role = "ADMIN"

SignUp(a) ==
    /\ \A b \in Accounts : EmailOf[b] = EmailOf[a] => ~user[b].there
    /\ \E p \in Passwords :
          user' = [user EXCEPT ![a] =
                      [there |-> TRUE, active |-> TRUE, role |-> "DONOR", password |-> p]]

SetRole(a, r) == user' = [user EXCEPT ![a].role = r]

SetPassword(a, p) == user' = [user EXCEPT ![a].password = p]

Deactivate(a) == user' = [user EXCEPT ![a].active = FALSE]

Edit(a) ==
    /\ user[a].there
    /\ \/ \E r \in Roles : SetRole(a, r)
       \/ \E p \in Passwords : SetPassword(a, p)
       \/ Deactivate(a)

Next == \E a \in Accounts : SignUp(a) \/ Edit(a)

Spec == Init /\ [][Next]_user
=============================================================================
