SPECIFICATION Spec
CONSTANTS
    Emails = {e1, e2, e3}
    Passwords = {w1, w2}
    Handlers = {h1, h2}
    Modes = {"open", "invite", "closed"}
    NoRequest = NoRequest
    NoAccount = NoAccount
INVARIANTS
    TypeOK
    TokenHolderKnowsPassword
    ClosedBounded
PROPERTY TakenIsTaken
SYMMETRY Interchangeable
