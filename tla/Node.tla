-------------------------------- MODULE Node --------------------------------
(***************************************************************************)
(* The DOM node as the wallet sees it through dom-wallet-core-sync and     *)
(* dom-wallet-core-submit: a canonical chain that grows and reorganizes,   *)
(* and the transactions the network holds.  External to the repository.    *)
(* A block is named by its hash, a number; height 1 is the block that      *)
(* funded the wallet and is never reorganized away.                        *)
(***************************************************************************)
EXTENDS Naturals, Sequences

CONSTANTS
    MaxTxs,             \* transactions one wallet creates
    MaxHeight,          \* bound on the height of the chain
    MaxBlocks           \* bound on the blocks ever produced, over all forks

ASSUME MaxTxsAssumption == MaxTxs \in Nat \ {0}
ASSUME MaxHeightAssumption == MaxHeight \in Nat \ {0}
ASSUME MaxBlocksAssumption == MaxBlocks \in Nat \ {0}

VARIABLES
    chain,              \* hashes of the canonical blocks, chain[h] at height h
    content,            \* content[hash]: the transactions in that block
    pool                \* transactions the network may still mine

nodeVars == <<chain, content, pool>>

Txs == 1 .. MaxTxs
Tip == Len(chain)

NodeTypeOK ==
    /\ chain \in Seq(1 .. MaxBlocks)
    /\ content \in Seq(SUBSET Txs)
    /\ pool \in SUBSET Txs

NodeInit ==
    /\ chain = <<1>>
    /\ content = << {} >>
    /\ pool = {}

\* The heights at which a sequence of blocks holds a transaction.
HeightsOf(blocks, t) == {h \in DOMAIN blocks : t \in content[blocks[h]]}
Mined(t) == HeightsOf(chain, t) # {}

\* A block with the given transactions on top of the first h canonical ones:
\* the next block when h is the tip, a reorganization otherwise.
Extend(h, included) ==
    /\ h < MaxHeight
    /\ Len(content) < MaxBlocks
    /\ content' = Append(content, included)
    /\ chain' = Append(SubSeq(chain, 1, h), Len(content) + 1)
    /\ UNCHANGED pool
=============================================================================
