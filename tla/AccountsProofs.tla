---------------------------- MODULE AccountsProofs ----------------------------
(***************************************************************************)
(* Proofs about Accounts, for any numbers of accounts, addresses, Google   *)
(* accounts and overlapping requests, and about Authors, which adds any    *)
(* numbers of tokens and posts to them.                                    *)
(***************************************************************************)
EXTENDS Authors, TLAPS

LEMMA InitIInv == Init => IInv
  BY NamesAssumption, SMT
  DEF Init, IInv, TypeOK, EmailUnique, OneAccountPerIdentity, AddressesAgree,
      InProgress, Rows

LEMMA TypeStep == TypeOK /\ InProgress /\ [Next]_vars => TypeOK'
<1> SUFFICES ASSUME TypeOK, InProgress, [Next]_vars PROVE TypeOK'
  OBVIOUS
<1> USE NamesAssumption DEF TypeOK, InProgress, Rows,
        users, external, requests, Goto, End, Call, Taken
<1>1. ASSUME NEW t \in Request, Step(t) PROVE TypeOK'
  <2>1. CASE BeginSignUp(t)
    BY <2>1, SMT DEF BeginSignUp, Begin
  <2>2. CASE BeginLogin(t)
    BY <2>2, SMT DEF BeginLogin, AcceptedProfile, Begin
  <2>3. CASE ExistsByEmail(t)
    BY <2>3, SMT DEF ExistsByEmail
  <2>4. CASE Insert(t)
    BY <2>4, SMT DEF Insert, Accepts
  <2>5. CASE FindIdentity(t)
    BY <2>5, SMT DEF FindIdentity, Known
  <2>6. CASE NewAddressTaken(t)
    BY <2>6, SMT DEF NewAddressTaken
  <2>7. CASE SaveAddress(t)
    BY <2>7, SMT DEF SaveAddress, Accepts
  <2>8. CASE FindAddress(t)
    BY <2>8, SMT DEF FindAddress, LinkRequired
  <2>9. CASE Killed(t)
    BY <2>9, SMT DEF Killed
  <2>q. QED
    BY <1>1, <2>1, <2>2, <2>3, <2>4, <2>5, <2>6, <2>7, <2>8, <2>9, Zenon DEF Step
<1>2. ASSUME NEW g \in Google, NEW e \in Email, Rename(g, e) PROVE TypeOK'
  BY <1>2, SMT DEF Rename
<1>3. CASE UNCHANGED vars
  BY <1>3, SMT DEF vars
<1>q. QED
  BY <1>1, <1>2, <1>3, Zenon DEF Next

\* Only the two writes change an address, and each asks the database.
LEMMA UniqueStep == TypeOK /\ EmailUnique /\ [Next]_vars => EmailUnique'
<1> SUFFICES ASSUME TypeOK, EmailUnique, [Next]_vars PROVE EmailUnique'
  OBVIOUS
<1> USE NamesAssumption DEF TypeOK, EmailUnique, Rows,
        users, external, requests, Goto, End, Call, Taken
<1>1. ASSUME NEW t \in Request, Step(t) PROVE EmailUnique'
  <2>1. CASE BeginSignUp(t)
    BY <2>1, SMT DEF BeginSignUp, Begin
  <2>2. CASE BeginLogin(t)
    BY <2>2, SMT DEF BeginLogin, AcceptedProfile, Begin
  <2>3. CASE ExistsByEmail(t)
    BY <2>3, SMT DEF ExistsByEmail
  <2>4. CASE Insert(t)
    BY <2>4, SMT DEF Insert, Accepts
  <2>5. CASE FindIdentity(t)
    BY <2>5, SMT DEF FindIdentity, Known
  <2>6. CASE NewAddressTaken(t)
    BY <2>6, SMT DEF NewAddressTaken
  <2>7. CASE SaveAddress(t)
    BY <2>7, SMT DEF SaveAddress, Accepts
  <2>8. CASE FindAddress(t)
    BY <2>8, SMT DEF FindAddress, LinkRequired
  <2>9. CASE Killed(t)
    BY <2>9, SMT DEF Killed
  <2>q. QED
    BY <1>1, <2>1, <2>2, <2>3, <2>4, <2>5, <2>6, <2>7, <2>8, <2>9, Zenon DEF Step
<1>2. ASSUME NEW g \in Google, NEW e \in Email, Rename(g, e) PROVE EmailUnique'
  BY <1>2, SMT DEF Rename
<1>3. CASE UNCHANGED vars
  BY <1>3, SMT DEF vars
<1>q. QED
  BY <1>1, <1>2, <1>3, Zenon DEF Next

\* What was found is still there when it is saved: rows are neither deleted
\* nor given to another identity.
LEMMA ProgressStep == TypeOK /\ InProgress /\ [Next]_vars => InProgress'
<1> SUFFICES ASSUME TypeOK, InProgress, [Next]_vars PROVE InProgress'
  OBVIOUS
<1> USE NamesAssumption DEF TypeOK, InProgress, Rows,
        users, external, requests, Goto, End, Call, Taken
<1>1. ASSUME NEW t \in Request, Step(t) PROVE InProgress'
  <2>1. CASE BeginSignUp(t)
    BY <2>1, SMT DEF BeginSignUp, Begin
  <2>2. CASE BeginLogin(t)
    BY <2>2, SMT DEF BeginLogin, AcceptedProfile, Begin
  <2>3. CASE ExistsByEmail(t)
    BY <2>3, SMT DEF ExistsByEmail
  <2>4. CASE Insert(t)
    BY <2>4, SMT DEF Insert, Accepts
  <2>5. CASE FindIdentity(t)
    BY <2>5, SMT DEF FindIdentity, Known
  <2>6. CASE NewAddressTaken(t)
    BY <2>6, SMT DEF NewAddressTaken
  <2>7. CASE SaveAddress(t)
    BY <2>7, SMT DEF SaveAddress, Accepts
  <2>8. CASE FindAddress(t)
    BY <2>8, SMT DEF FindAddress, LinkRequired
  <2>9. CASE Killed(t)
    BY <2>9, SMT DEF Killed
  <2>q. QED
    BY <1>1, <2>1, <2>2, <2>3, <2>4, <2>5, <2>6, <2>7, <2>8, <2>9, Zenon DEF Step
<1>2. ASSUME NEW g \in Google, NEW e \in Email, Rename(g, e) PROVE InProgress'
  BY <1>2, SMT DEF Rename
<1>3. CASE UNCHANGED vars
  BY <1>3, SMT DEF vars
<1>q. QED
  BY <1>1, <1>2, <1>3, Zenon DEF Next

\* A request carries the address its Google account has, unless that has changed
\* under it, and a row found too late was written by such a request.
LEMMA AgreeStep == TypeOK /\ InProgress /\ AddressesAgree /\ [Next]_vars => AddressesAgree'
<1> SUFFICES ASSUME TypeOK, InProgress, AddressesAgree, [Next]_vars PROVE AddressesAgree'
  OBVIOUS
<1> USE NamesAssumption DEF TypeOK, InProgress, AddressesAgree, Rows,
        users, external, requests, Goto, End, Call, Taken
<1>1. ASSUME NEW t \in Request, Step(t) PROVE AddressesAgree'
  <2>1. CASE BeginSignUp(t)
    BY <2>1, SMT DEF BeginSignUp, Begin
  <2>2. CASE BeginLogin(t)
    BY <2>2, SMT DEF BeginLogin, AcceptedProfile, Begin
  <2>3. CASE ExistsByEmail(t)
    BY <2>3, SMT DEF ExistsByEmail
  <2>4. CASE Insert(t)
    BY <2>4, SMT DEF Insert, Accepts
  <2>5. CASE FindIdentity(t)
    BY <2>5, SMT DEF FindIdentity, Known
  <2>6. CASE NewAddressTaken(t)
    BY <2>6, SMT DEF NewAddressTaken
  <2>7. CASE SaveAddress(t)
    BY <2>7, SMT DEF SaveAddress, Accepts
  <2>8. CASE FindAddress(t)
    BY <2>8, SMT DEF FindAddress, LinkRequired
  <2>9. CASE Killed(t)
    BY <2>9, SMT DEF Killed
  <2>q. QED
    BY <1>1, <2>1, <2>2, <2>3, <2>4, <2>5, <2>6, <2>7, <2>8, <2>9, Zenon DEF Step
<1>2. ASSUME NEW g \in Google, NEW e \in Email, Rename(g, e) PROVE AddressesAgree'
  BY <1>2, SMT DEF Rename
<1>3. CASE UNCHANGED vars
  BY <1>3, SMT DEF vars
<1>q. QED
  BY <1>1, <1>2, <1>3, Zenon DEF Next

\* The second of two overlapping first logins is refused by the unique column.
LEMMA OneStep ==
    TypeOK /\ InProgress /\ AddressesAgree /\ OneAccountPerIdentity /\ [Next]_vars
        => OneAccountPerIdentity'
<1> SUFFICES ASSUME TypeOK, InProgress, AddressesAgree, OneAccountPerIdentity,
                      [Next]_vars
               PROVE  OneAccountPerIdentity'
  OBVIOUS
<1> USE NamesAssumption DEF TypeOK, InProgress, AddressesAgree, OneAccountPerIdentity, Rows,
        users, external, requests, Goto, End, Call, Taken
<1>1. ASSUME NEW t \in Request, Step(t) PROVE OneAccountPerIdentity'
  <2>1. CASE BeginSignUp(t)
    BY <2>1, SMT DEF BeginSignUp, Begin
  <2>2. CASE BeginLogin(t)
    BY <2>2, SMT DEF BeginLogin, AcceptedProfile, Begin
  <2>3. CASE ExistsByEmail(t)
    BY <2>3, SMT DEF ExistsByEmail
  <2>4. CASE Insert(t)
    BY <2>4, SMT DEF Insert, Accepts
  <2>5. CASE FindIdentity(t)
    BY <2>5, SMT DEF FindIdentity, Known
  <2>6. CASE NewAddressTaken(t)
    BY <2>6, SMT DEF NewAddressTaken
  <2>7. CASE SaveAddress(t)
    BY <2>7, SMT DEF SaveAddress, Accepts
  <2>8. CASE FindAddress(t)
    BY <2>8, SMT DEF FindAddress, LinkRequired
  <2>9. CASE Killed(t)
    BY <2>9, SMT DEF Killed
  <2>q. QED
    BY <1>1, <2>1, <2>2, <2>3, <2>4, <2>5, <2>6, <2>7, <2>8, <2>9, Zenon DEF Step
<1>2. ASSUME NEW g \in Google, NEW e \in Email, Rename(g, e) PROVE OneAccountPerIdentity'
  BY <1>2, SMT DEF Rename
<1>3. CASE UNCHANGED vars
  BY <1>3, SMT DEF vars
<1>q. QED
  BY <1>1, <1>2, <1>3, Zenon DEF Next

-----------------------------------------------------------------------------
(* The invariant holds in every reachable state.                           *)
THEOREM Invariance == Spec => []IInv
<1>1. IInv /\ [Next]_vars => IInv'
  BY TypeStep, UniqueStep, ProgressStep, AgreeStep, OneStep, Zenon DEF IInv
<1>q. QED
  BY InitIInv, <1>1, PTL DEF Spec

(* The types of the table and of the requests in progress.                 *)
THEOREM TypeCorrect == Spec => []TypeOK
<1>1. IInv => TypeOK
  BY DEF IInv
<1>q. QED
  BY Invariance, <1>1, PTL

(* However the checks and writes of overlapping requests interleave, no    *)
(* two accounts have one address.                                          *)
THEOREM AddressesUnique == Spec => []EmailUnique
<1>1. IInv => EmailUnique
  BY DEF IInv
<1>q. QED
  BY Invariance, <1>1, PTL

(* Two accounts of one Google account would both have been given the same  *)
(* address, which the unique column does not allow, unless the address     *)
(* changed in the middle of a login.                                       *)
THEOREM OneAccount == Spec => []OneAccountPerIdentity
<1>1. IInv => OneAccountPerIdentity
  BY DEF IInv
<1>q. QED
  BY Invariance, <1>1, PTL

\* What AccountsKept says of a step.
Kept ==
    \A u \in Rows :
        /\ u \in Rows' /\ identity'[u] = identity[u]
        /\ email'[u] # email[u] =>
              \E t \in Request : pc[t] = "save" /\ who[t] = identity[u] /\ who[t] \in Google

LEMMA KeptStep == TypeOK /\ InProgress /\ [Next]_vars => Kept
<1> SUFFICES ASSUME TypeOK, InProgress, [Next]_vars PROVE Kept
  OBVIOUS
<1> USE NamesAssumption DEF TypeOK, InProgress, Rows, Kept,
        users, external, requests, Goto, End, Call, Taken
<1>1. ASSUME NEW t \in Request, Step(t) PROVE Kept
  <2>1. CASE BeginSignUp(t)
    BY <2>1, SMT DEF BeginSignUp, Begin
  <2>2. CASE BeginLogin(t)
    BY <2>2, SMT DEF BeginLogin, AcceptedProfile, Begin
  <2>3. CASE ExistsByEmail(t)
    BY <2>3, SMT DEF ExistsByEmail
  <2>4. CASE Insert(t)
    BY <2>4, SMT DEF Insert, Accepts
  <2>5. CASE FindIdentity(t)
    BY <2>5, SMT DEF FindIdentity, Known
  <2>6. CASE NewAddressTaken(t)
    BY <2>6, SMT DEF NewAddressTaken
  <2>7. CASE SaveAddress(t)
    BY <2>7, SMT DEF SaveAddress, Accepts
  <2>8. CASE FindAddress(t)
    BY <2>8, SMT DEF FindAddress, LinkRequired
  <2>9. CASE Killed(t)
    BY <2>9, SMT DEF Killed
  <2>q. QED
    BY <1>1, <2>1, <2>2, <2>3, <2>4, <2>5, <2>6, <2>7, <2>8, <2>9, Zenon DEF Step
<1>2. ASSUME NEW g \in Google, NEW e \in Email, Rename(g, e) PROVE Kept
  BY <1>2, SMT DEF Rename
<1>3. CASE UNCHANGED vars
  BY <1>3, SMT DEF vars
<1>q. QED
  BY <1>1, <1>2, <1>3, Zenon DEF Next

(* No step takes an account away, gives it to somebody else, or changes    *)
(* its address but in a login of its own Google account.                   *)
THEOREM Ownership == Spec => AccountsKept
<1>1. IInv /\ [Next]_vars => [Kept]_vars
  BY KeptStep DEF IInv
<1>q. QED
  BY Invariance, <1>1, PTL DEF Spec, AccountsKept, Kept

-----------------------------------------------------------------------------
(* Tokens and posts: the proofs about Authors.                             *)

\* A step of the composition is a step of the accounts, or leaves them alone.
LEMMA AccountsStep == [AuthorsNext]_allVars => [Next]_vars
<1> SUFFICES ASSUME [AuthorsNext]_allVars PROVE [Next]_vars
  OBVIOUS
<1>1. ASSUME NEW t \in Request, Ask(t) PROVE Next
  BY <1>1, Zenon DEF Ask, Next, Step
<1>2. ASSUME NEW t \in Request, InsertAndAnswer(t) PROVE Next
  BY <1>2, Zenon DEF InsertAndAnswer, Next, Step
<1>3. ASSUME NEW t \in Request, SaveAndAnswer(t) PROVE Next
  BY <1>3, Zenon DEF SaveAndAnswer, Next, Step
<1>4. ASSUME NEW g \in Google, NEW e \in Email, Move(g, e) PROVE Next
  BY <1>4, Zenon DEF Move, Next
<1>5. ASSUME NEW u \in User, PasswordLogin(u) PROVE UNCHANGED vars
  BY <1>5, Zenon DEF PasswordLogin
<1>6. ASSUME NEW k \in tokens, Expire(k) PROVE UNCHANGED vars
  BY <1>6, Zenon DEF Expire
<1>7. ASSUME NEW k \in tokens, NEW p \in Post,
             CreatePost(k, p) \/ UpdatePost(k, p) \/ DeletePost(k, p)
      PROVE  UNCHANGED vars
  BY <1>7, Zenon DEF CreatePost, UpdatePost, DeletePost, Put
<1>8. CASE UNCHANGED allVars
  BY <1>8, Zenon DEF allVars
<1>q. QED
  BY <1>1, <1>2, <1>3, <1>4, <1>5, <1>6, <1>7, <1>8, Zenon DEF AuthorsNext

(* The accounts with tokens and posts are still the accounts of Accounts:   *)
(* whatever holds of them alone holds here.                                *)
THEOREM AuthorsImplementsAccounts == AuthorsSpec => Spec
<1>1. AuthorsInit => Init
  BY DEF AuthorsInit
<1>q. QED
  BY <1>1, AccountsStep, PTL DEF AuthorsSpec, Spec

\* Where addresses in use tell accounts apart.
LEMMA OwnPosts ==
    AuthorsTypeOK /\ EmailUnique /\ TokensNamed /\ PostsNamed => TokenOpensOwnPosts
  BY NamesAssumption, SMT
  DEF AuthorsTypeOK, TypeOK, EmailUnique, TokensNamed, PostsNamed,
      TokenOpensOwnPosts, Rows, Token

LEMMA InitAuthorsIInv == AuthorsInit => AuthorsIInv
<1> SUFFICES ASSUME AuthorsInit PROVE AuthorsIInv
  OBVIOUS
<1>1. IInv
  BY InitIInv DEF AuthorsInit
<1>2. AuthorsTypeOK /\ TokensNamed /\ PostsNamed /\ ChangedByWriter
  BY <1>1, SMT
  DEF IInv, AuthorsInit, AuthorsTypeOK, TokensNamed, PostsNamed, ChangedByWriter, Rows
<1>q. QED
  BY <1>1, <1>2 DEF IInv, AuthorsIInv

\* What a step does to the addresses: an account keeps its own, or gives it up
\* for the record of left.
AddressesKept ==
    \A u \in Rows : u \in Rows' /\ (email'[u] = email[u] \/ email[u] \in left')

\* What a step adds to the tokens: one for an account and the address it has.
TokensIssued ==
    \A k \in tokens' \ tokens : k.account \in Rows' /\ k.subject \in Email
                                /\ k.account \in User /\ k \in Token
                                /\ email'[k.account] = k.subject

LEMMA StepOfAddresses ==
    AuthorsIInv /\ [AuthorsNext]_allVars
        => AddressesKept /\ TokensIssued /\ left \subseteq left' /\ left' \subseteq Email
<1> SUFFICES ASSUME AuthorsIInv, [AuthorsNext]_allVars
             PROVE  AddressesKept /\ TokensIssued /\ left \subseteq left' /\ left' \subseteq Email
  OBVIOUS
<1> USE NamesAssumption DEF AuthorsIInv, AuthorsTypeOK, TypeOK, InProgress, Rows,
        AddressesKept, TokensIssued, Token, Answer, users, external, requests,
        posts, authorship
<1>1. ASSUME NEW t \in Request, Ask(t)
      PROVE  AddressesKept /\ TokensIssued /\ UNCHANGED left
  <2>1. UNCHANGED email
    BY <1>1, Zenon
    DEF Ask, BeginSignUp, BeginLogin, Begin, ExistsByEmail, FindIdentity,
        NewAddressTaken, FindAddress, Killed
  <2>q. QED
    BY <1>1, <2>1, SMT DEF Ask
<1>2. ASSUME NEW t \in Request, InsertAndAnswer(t)
      PROVE  AddressesKept /\ TokensIssued /\ UNCHANGED left
  BY <1>2, SMT DEF InsertAndAnswer, Insert
<1>3. ASSUME NEW t \in Request, SaveAndAnswer(t)
      PROVE  AddressesKept /\ TokensIssued /\ left \subseteq left' /\ left' \subseteq Email
  BY <1>3, SMT DEF SaveAndAnswer, SaveAddress
<1>4. ASSUME NEW g \in Google, NEW e \in Email, Move(g, e)
      PROVE  AddressesKept /\ TokensIssued /\ UNCHANGED left
  BY <1>4, SMT DEF Move, Rename
<1>5. ASSUME NEW u \in User, PasswordLogin(u)
      PROVE  AddressesKept /\ TokensIssued /\ UNCHANGED left
  BY <1>5, SMT DEF PasswordLogin, vars
<1>6. ASSUME NEW k \in tokens, Expire(k)
      PROVE  AddressesKept /\ TokensIssued /\ UNCHANGED left
  BY <1>6, SMT DEF Expire, vars
<1>7. ASSUME NEW k \in tokens, NEW p \in Post,
             CreatePost(k, p) \/ UpdatePost(k, p) \/ DeletePost(k, p)
      PROVE  AddressesKept /\ TokensIssued /\ UNCHANGED left
  BY <1>7, SMT DEF CreatePost, UpdatePost, DeletePost, Put, vars
<1>8. CASE UNCHANGED allVars
  BY <1>8, SMT DEF allVars, vars
<1>q. QED
  BY <1>1, <1>2, <1>3, <1>4, <1>5, <1>6, <1>7, <1>8, SMT DEF AuthorsNext

LEMMA AuthorsStep == AuthorsIInv /\ [AuthorsNext]_allVars => AuthorsIInv'
<1> SUFFICES ASSUME AuthorsIInv, [AuthorsNext]_allVars PROVE AuthorsIInv'
  OBVIOUS
<1>1. TypeOK' /\ EmailUnique' /\ InProgress'
  BY AccountsStep, TypeStep, UniqueStep, ProgressStep, Zenon
  DEF AuthorsIInv, AuthorsTypeOK
<1>2. AddressesKept /\ TokensIssued /\ left \subseteq left' /\ left' \subseteq Email
  BY StepOfAddresses
<1>3. TokensNamed' /\ (tokens \subseteq Token)'
  BY <1>2, SMT
  DEF AuthorsIInv, AuthorsTypeOK, TypeOK, TokensNamed, AddressesKept, TokensIssued, Rows
<1>4. TokenOpensOwnPosts
  BY OwnPosts DEF AuthorsIInv
<1> DEFINE PostsOK == /\ author \in [Post -> Email \cup {None}]
                      /\ writer \in [Post -> User \cup {None}]
                      /\ changedBy \in [Post -> User \cup {None}]
                      /\ \A p \in Post : author[p] = None <=> writer[p] = None
<1>5. PostsOK' /\ PostsNamed' /\ ChangedByWriter'
  <2>1. CASE UNCHANGED posts
    BY <1>2, <2>1, SMT
    DEF AuthorsIInv, AuthorsTypeOK, PostsNamed, ChangedByWriter, AddressesKept,
        Rows, posts
  <2>2. ASSUME NEW k \in tokens, NEW p \in Post, CreatePost(k, p)
        PROVE  PostsOK' /\ PostsNamed' /\ ChangedByWriter'
    BY NamesAssumption, <1>2, <2>2, SMT
    DEF AuthorsIInv, AuthorsTypeOK, TypeOK, TokensNamed, PostsNamed, ChangedByWriter,
        Rows, Token, CreatePost, Put, vars, users
  <2>3. ASSUME NEW k \in tokens, NEW p \in Post, UpdatePost(k, p)
        PROVE  PostsOK' /\ PostsNamed' /\ ChangedByWriter'
    BY NamesAssumption, <1>2, <1>4, <2>3, SMT
    DEF AuthorsIInv, AuthorsTypeOK, TypeOK, TokensNamed, PostsNamed, ChangedByWriter,
        TokenOpensOwnPosts, WrittenBy, Rows, Token, UpdatePost, Put, vars, users
  <2>4. ASSUME NEW k \in tokens, NEW p \in Post, DeletePost(k, p)
        PROVE  PostsOK' /\ PostsNamed' /\ ChangedByWriter'
    BY NamesAssumption, <1>2, <2>4, SMT
    DEF AuthorsIInv, AuthorsTypeOK, PostsNamed, ChangedByWriter,
        Rows, DeletePost, Put, vars, users
  <2>q. QED
    <3>1. ASSUME AuthorsNext PROVE
            \/ UNCHANGED posts
            \/ \E k \in tokens, p \in Post :
                 CreatePost(k, p) \/ UpdatePost(k, p) \/ DeletePost(k, p)
      BY <3>1, Zenon
      DEF AuthorsNext, Ask, InsertAndAnswer, SaveAndAnswer, Move, PasswordLogin,
          Expire, authorship, posts
    <3>q. QED
      BY <2>1, <2>2, <2>3, <2>4, <3>1, Zenon DEF allVars, authorship
<1>q. QED
  BY <1>1, <1>2, <1>3, <1>5 DEF AuthorsIInv, AuthorsTypeOK

(* An address in a token or a post is the one its account has or has had.   *)
THEOREM AuthorsInvariance == AuthorsSpec => []AuthorsIInv
  BY InitAuthorsIInv, AuthorsStep, PTL DEF AuthorsSpec

(* The types of tokens and posts.                                          *)
THEOREM AuthorsTypeCorrect == AuthorsSpec => []AuthorsTypeOK
<1>1. AuthorsIInv => AuthorsTypeOK
  BY DEF AuthorsIInv
<1>q. QED
  BY AuthorsInvariance, <1>1, PTL

(* Tokens and posts agree about accounts as long as addresses are kept, for *)
(* all interleavings of sign-ups, logins and posts: from AddressesUnique.   *)
THEOREM OwnPostsOnly == AuthorsSpec => []TokenOpensOwnPosts
<1>1. AuthorsIInv => TokenOpensOwnPosts
  BY OwnPosts DEF AuthorsIInv
<1>q. QED
  BY AuthorsInvariance, <1>1, PTL

(* Nobody but its writer changes a post whose address is still in use.      *)
THEOREM WritersOnly == AuthorsSpec => []ChangedByWriter
<1>1. AuthorsIInv => ChangedByWriter
  BY DEF AuthorsIInv
<1>q. QED
  BY AuthorsInvariance, <1>1, PTL
=============================================================================
