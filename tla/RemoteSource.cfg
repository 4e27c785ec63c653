SPECIFICATION Spec
CONSTANTS
    Wallets = {w1}
    NoWallet = NoWallet
    Sources = {"REMOTE"}
    Commands = {"unlock", "open"}
INVARIANT RemoteAuthoritative
