------------------------------- MODULE Accounts -------------------------------
(***************************************************************************)
(* Sign-up with a password (AuthService) and login with Google             *)
(* (OAuthAccountService) on the table users.  Neither service is           *)
(* transactional: every call of the repository is a transaction of its     *)
(* own, and other requests run between them.  What holds the accounts      *)
(* together is the unique column email.  A login with a password changes   *)
(* nothing; a login whose address Google has not verified ends before the  *)
(* first query.                                                            *)
(***************************************************************************)
EXTENDS FiniteSets

CONSTANTS
    User,       \* ids the table may give (bound)
    Email,
    Google,     \* Google accounts, by their "sub"
    Request,    \* requests in progress
    Local,      \* authProvider LOCAL, no providerId
    None        \* no address, no row

ASSUME NamesAssumption == Local \notin Google /\ None \notin Email \cup User

VARIABLES
    email,      \* column email of each row
    identity,   \* columns authProvider and providerId
    address,    \* external: the verified address of each Google account
    raced,      \* history: Google accounts whose address has changed while a
                \* login of theirs was in progress
    pc, who, profile, found   \* of each request

users    == << email, identity >>
external == << address, raced >>
requests == << pc, who, profile, found >>
vars     == << users, external, requests >>

Rows == {u \in User : email[u] # None}

TypeOK ==
    /\ email \in [User -> Email \cup {None}]
    /\ identity \in [User -> Google \cup {Local}]
    /\ address \in [Google -> Email]
    /\ raced \subseteq Google
    /\ pc \in [Request -> {"idle", "exists", "insert", "find", "taken", "save", "free"}]
    /\ who \in [Request -> Google \cup {Local}]
    /\ profile \in [Request -> Email \cup {None}]
    /\ found \in [Request -> User \cup {None}]
    /\ \A t \in Request : pc[t] # "idle" => profile[t] \in Email

Init ==
    /\ email = [u \in User |-> None]
    /\ identity = [u \in User |-> Local]
    /\ address \in [Google -> Email]
    /\ \A g, h \in Google : address[g] = address[h] => g = h
    /\ raced = {}
    /\ pc = [t \in Request |-> "idle"]
    /\ who = [t \in Request |-> Local]
    /\ profile = [t \in Request |-> None]
    /\ found = [t \in Request |-> None]

Goto(t, l) == pc' = [pc EXCEPT ![t] = l]

\* The request ends: with an answer, a redirect, 409 or 500.
End(t) ==
    /\ Goto(t, "idle")
    /\ who' = [who EXCEPT ![t] = Local]
    /\ profile' = [profile EXCEPT ![t] = None]
    /\ found' = [found EXCEPT ![t] = None]

Call(t, l) == Goto(t, l) /\ UNCHANGED << who, profile, found >>

Taken(e) == \E u \in User : email[u] = e

\* Mutant: the column is not unique.
AnyAddress(u, e) == TRUE

\* What the database accepts for the row u.
Accepts(u, e) == \A v \in User : email[v] = e => v = u

Begin(t, g, e, l) ==
    /\ pc[t] = "idle"
    /\ Goto(t, l)
    /\ who' = [who EXCEPT ![t] = g]
    /\ profile' = [profile EXCEPT ![t] = e]
    /\ UNCHANGED << users, external, found >>

BeginSignUp(t) == \E e \in Email : Begin(t, Local, e, "exists")

\* Mutant: a login without an address is not refused.
AnyProfile(g) == {address[g], None}

\* The addresses a login is not refused with, before the first query.
AcceptedProfile(g) == {address[g]}

BeginLogin(t) ==
    \E g \in Google : \E e \in AcceptedProfile(g) : Begin(t, g, e, "find")

\* existsByEmail in signUp
ExistsByEmail(t) ==
    /\ pc[t] = "exists"
    /\ \/ Taken(profile[t]) /\ End(t)
       \/ ~Taken(profile[t]) /\ Call(t, "insert")
    /\ UNCHANGED << users, external >>

\* save of a new User, for a sign-up and for the first login
Insert(t) ==
    /\ pc[t] = "insert"
    /\ \E u \in User \ Rows :
          IF Accepts(u, profile[t])
          THEN /\ email' = [email EXCEPT ![u] = profile[t]]
               /\ identity' = [identity EXCEPT ![u] = who[t]]
          ELSE UNCHANGED users
    /\ End(t)
    /\ UNCHANGED external

Known(t) == {u \in Rows : identity[u] = who[t]}

\* findByAuthProviderAndProviderId: none, one, or an exception for several
FindIdentity(t) ==
    /\ pc[t] = "find"
    /\ \/ Known(t) = {} /\ Call(t, "free")
       \/ \E u \in User :
             /\ Known(t) = {u}
             /\ Goto(t, IF email[u] = profile[t] THEN "save" ELSE "taken")
             /\ found' = [found EXCEPT ![t] = u]
             /\ UNCHANGED << who, profile >>
       \/ (\E u, v \in Known(t) : u # v) /\ End(t)
    /\ UNCHANGED << users, external >>

\* existsByEmail of the address the account has now
NewAddressTaken(t) ==
    /\ pc[t] = "taken"
    /\ \/ Taken(profile[t]) /\ End(t)
       \/ ~Taken(profile[t]) /\ Call(t, "save")
    /\ UNCHANGED << users, external >>

\* save of the row that was found: the stored row gets the new address
SaveAddress(t) ==
    /\ pc[t] = "save"
    /\ IF Accepts(found[t], profile[t])
       THEN email' = [email EXCEPT ![found[t]] = profile[t]]
       ELSE UNCHANGED email
    /\ End(t)
    /\ UNCHANGED << identity, external >>

\* Mutant: an account with the same address is linked to the Google account.
LinkByAddress(t) ==
    identity' = [u \in User |-> IF email[u] = profile[t] THEN who[t] ELSE identity[u]]

LinkRequired(t) == UNCHANGED identity

\* findByEmail before the first login creates an account
FindAddress(t) ==
    /\ pc[t] = "free"
    /\ \/ Taken(profile[t]) /\ LinkRequired(t) /\ End(t)
       \/ ~Taken(profile[t]) /\ UNCHANGED identity /\ Call(t, "insert")
    /\ UNCHANGED << email, external >>

\* The owner of a Google account changes its address.
Rename(g, e) ==
    /\ \A h \in Google : address[h] # e
    /\ address' = [address EXCEPT ![g] = e]
    /\ raced' = IF \E t \in Request : who[t] = g THEN raced \cup {g} ELSE raced
    /\ UNCHANGED << users, requests >>

\* The application is stopped between two calls.
Killed(t) ==
    /\ pc[t] # "idle" /\ End(t)
    /\ UNCHANGED << users, external >>

Step(t) ==
    \/ BeginSignUp(t) \/ BeginLogin(t) \/ ExistsByEmail(t) \/ Insert(t)
    \/ FindIdentity(t) \/ NewAddressTaken(t) \/ SaveAddress(t) \/ FindAddress(t)
    \/ Killed(t)

Next ==
    \/ \E t \in Request : Step(t)
    \/ \E g \in Google, e \in Email : Rename(g, e)

Spec == Init /\ [][Next]_vars

-----------------------------------------------------------------------------
(* An address belongs to one account, although every check for it is made  *)
(* in a transaction before the one that writes.                            *)
EmailUnique == \A u, v \in Rows : email[u] = email[v] => u = v

(* Nothing makes (provider, providerId) unique, and still overlapping and   *)
(* repeated logins of a Google account leave one account, also when its    *)
(* address changes between logins.  Only a change in the middle of a login *)
(* can leave two.                                                          *)
OneAccountPerIdentity ==
    \A g \in Google \ raced : \A u, v \in Rows :
        identity[u] = g /\ identity[v] = g => u = v

(* An account once created stays, belongs to whom it was created for, and  *)
(* changes its address only in a login of its own Google account: never by *)
(* a sign-up or login with the same address.                               *)
AccountsKept ==
    [][\A u \in Rows :
          /\ u \in Rows' /\ identity'[u] = identity[u]
          /\ email'[u] # email[u] =>
                \E t \in Request : pc[t] = "save" /\ who[t] = identity[u] /\ who[t] \in Google]_vars

-----------------------------------------------------------------------------
\* The induction for OneAccountPerIdentity: the requests of a Google account all
\* carry the address it has now, and so does its row while a login that has not
\* found the row is still going to create one.
AddressesAgree ==
    \A t \in Request : who[t] \in Google \ raced =>
        /\ profile[t] = address[who[t]]
        /\ pc[t] \in {"free", "insert"} =>
               \A u \in Rows : identity[u] = who[t] => email[u] = profile[t]

InProgress ==
    \A t \in Request :
        /\ pc[t] \in {"find", "taken", "save", "free"} => who[t] \in Google
        /\ pc[t] \in {"idle", "exists"} => who[t] = Local
        /\ pc[t] \in {"taken", "save"} => found[t] \in Rows /\ identity[found[t]] = who[t]

IInv == TypeOK /\ EmailUnique /\ OneAccountPerIdentity /\ AddressesAgree
        /\ InProgress
=============================================================================
