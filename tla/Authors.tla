------------------------------- MODULE Authors -------------------------------
(***************************************************************************)
(* Accounts with their tokens and posts.  A token (JwtTokenProvider) and a *)
(* post (PostEntity) know their account by its e-mail address only:        *)
(* nothing is stored about a token, a post is changed when its author is   *)
(* the address in the token, and neither changes when the address of the   *)
(* account does.                                                           *)
(***************************************************************************)
EXTENDS Accounts, Integers

CONSTANTS
    Post,       \* ids of posts (bound)
    MaxTokens   \* bound: tokens in use at one time

VARIABLES
    tokens,     \* valid tokens: the subject, and (history) whose login it was
    author,     \* column author of each post
    writer,     \* history: account that created the post
    changedBy,  \* history: account whose token changed the post last
    left        \* history: addresses that an account has had and given up

posts      == << author, writer, changedBy >>
authorship == << tokens, posts, left >>
allVars    == << vars, authorship >>

Token == [subject : Email, account : User]

AuthorsTypeOK ==
    /\ TypeOK
    /\ tokens \subseteq Token
    /\ author \in [Post -> Email \cup {None}]
    /\ writer \in [Post -> User \cup {None}]
    /\ changedBy \in [Post -> User \cup {None}]
    /\ left \subseteq Email
    /\ \A p \in Post : author[p] = None <=> writer[p] = None

AuthorsInit ==
    /\ Init
    /\ tokens = {}
    /\ author = [p \in Post |-> None]
    /\ writer = [p \in Post |-> None]
    /\ changedBy = [p \in Post |-> None]
    /\ left = {}

-----------------------------------------------------------------------------
(* Logins end with a token.                                                *)

\* createToken; the answer may be lost on its way.
Answer(u, e) ==
    \/ /\ Cardinality(tokens) < MaxTokens
       /\ tokens' = tokens \cup {[subject |-> e, account |-> u]}
    \/ UNCHANGED tokens

\* A first login is answered with the new account, a sign-up without a token.
InsertAndAnswer(t) ==
    /\ Insert(t)
    /\ IF who[t] \in Google /\ email' # email
       THEN \E u \in User : email'[u] # email[u] /\ Answer(u, profile[t])
       ELSE UNCHANGED tokens
    /\ UNCHANGED << posts, left >>

SaveAndAnswer(t) ==
    /\ SaveAddress(t)
    /\ IF Accepts(found[t], profile[t])
       THEN /\ Answer(found[t], profile[t])
            /\ left' = IF email[found[t]] = profile[t] THEN left
                       ELSE left \cup {email[found[t]]}
       ELSE UNCHANGED << tokens, left >>
    /\ UNCHANGED posts

\* The other steps of sign-ups and logins.
Ask(t) ==
    /\ \/ BeginSignUp(t) \/ BeginLogin(t) \/ ExistsByEmail(t) \/ FindIdentity(t)
       \/ NewAddressTaken(t) \/ FindAddress(t) \/ Killed(t)
    /\ UNCHANGED authorship

Move(g, e) == Rename(g, e) /\ UNCHANGED authorship

\* login with the password of a signed-up account (an account of a Google login
\* has a random one)
PasswordLogin(u) ==
    /\ u \in Rows /\ identity[u] = Local
    /\ Answer(u, email[u])
    /\ UNCHANGED << vars, posts, left >>

Expire(k) ==
    /\ tokens' = tokens \ {k}
    /\ UNCHANGED << vars, posts, left >>

-----------------------------------------------------------------------------
(* Requests with a token.                                                  *)

Put(p, e, u, v) ==
    /\ author' = [author EXCEPT ![p] = e]
    /\ writer' = [writer EXCEPT ![p] = u]
    /\ changedBy' = [changedBy EXCEPT ![p] = v]
    /\ UNCHANGED << vars, tokens, left >>

CreatePost(k, p) ==
    /\ author[p] = None
    /\ Put(p, k.subject, k.account, k.account)

\* Mutant: any authenticated request.
AnyAuthor(k, p) == TRUE

\* isWrittenBy, asked by update and delete
WrittenBy(k, p) == author[p] = k.subject

UpdatePost(k, p) ==
    /\ author[p] # None /\ WrittenBy(k, p)
    /\ Put(p, author[p], writer[p], k.account)

DeletePost(k, p) ==
    /\ author[p] # None /\ WrittenBy(k, p)
    /\ Put(p, None, None, None)

AuthorsNext ==
    \/ \E t \in Request : Ask(t) \/ InsertAndAnswer(t) \/ SaveAndAnswer(t)
    \/ \E g \in Google, e \in Email : Move(g, e)
    \/ \E u \in User : PasswordLogin(u)
    \/ \E k \in tokens :
          \/ Expire(k)
          \/ \E p \in Post : CreatePost(k, p) \/ UpdatePost(k, p) \/ DeletePost(k, p)

AuthorsSpec == AuthorsInit /\ [][AuthorsNext]_allVars

-----------------------------------------------------------------------------
(* Properties.                                                             *)

(* A token opens the posts of the account it was issued to, all of them    *)
(* and no others, however logins, sign-ups and changes of addresses        *)
(* interleave: among addresses that no account has given up, comparing the *)
(* addresses in token and post is as good as comparing the accounts.       *)
TokenOpensOwnPosts ==
    \A k \in tokens, p \in Post :
        author[p] \notin left \cup {None} /\ k.subject \notin left
            => (author[p] = k.subject <=> writer[p] = k.account)

(* A post whose author still has its address is changed by nobody else.    *)
ChangedByWriter ==
    \A p \in Post : changedBy[p] # writer[p] => author[p] \in left

-----------------------------------------------------------------------------
\* The induction: an address in a token or a post is the one its account has,
\* or one that it has given up.
TokensNamed ==
    \A k \in tokens :
        k.account \in Rows /\ (email[k.account] = k.subject \/ k.subject \in left)

PostsNamed ==
    \A p \in Post : author[p] # None =>
        writer[p] \in Rows /\ (email[writer[p]] = author[p] \/ author[p] \in left)

AuthorsIInv == AuthorsTypeOK /\ EmailUnique /\ InProgress /\ TokensNamed /\ PostsNamed
               /\ ChangedByWriter
=============================================================================
