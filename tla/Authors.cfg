SPECIFICATION AuthorsSpec
CONSTANTS
    User = {u1, u2, u3}
    Email = {a, b, c}
    Google = {g1}
    Request = {r1, r2}
    Local = Local
    None = None
    Post = {p}
    MaxTokens = 2
SYMMETRY Symmetry
INVARIANTS
    AuthorsTypeOK
    OneAccountPerIdentity
    TokenOpensOwnPosts
    ChangedByWriter
PROPERTY
    AccountsKept
