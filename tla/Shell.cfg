SPECIFICATION FairSpec
CONSTANTS
    Wallets = {w1}
    NoWallet = NoWallet
    Sources = {"EMBEDDED", "REMOTE"}
    Commands = {"unlock", "open", "restore", "lock", "close", "recover",
        "source", "node_stop", "node_status", "pause", "resume",
        "rescan", "transact", "mining_start", "mining_stop", "start_node",
        "shutdown"}
INVARIANTS
    LeasesOwned
    SafePointHolds
    ShutdownComplete
PROPERTY
    CommandsReturn
