SPECIFICATION Spec
CONSTANTS
    Emails = {e1, e2}
    Passwords = {w1}
    Handlers = {h1, h2}
    Modes = {"closed"}
    NoRequest = NoRequest
    NoAccount = NoAccount
INVARIANT BootstrapHasOneWinner
