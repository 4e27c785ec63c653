SPECIFICATION Spec
CONSTANTS
    Wallets = {w1}
    NoWallet = NoWallet
    Sources = {"EMBEDDED"}
    Commands = {"unlock", "open"}
INVARIANT NodeStoppedAtInstall
