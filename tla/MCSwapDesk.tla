----------------------------- MODULE MCSwapDesk -----------------------------
(***************************************************************************)
(* Values for SwapDesk: one route, and quotes of which one is forged and   *)
(* one answers another request.                                            *)
(***************************************************************************)
EXTENDS SwapDesk

MCRoutes == {<<"XMR", "BTC">>}

TokenRoutes == {<<"DOM", "USDT.ETH">>}

MCSolvers == <<"alice", "bob">>

Quote(solver, output, dom, genuine, answers) ==
    [solver |-> solver, output |-> output, dom |-> dom, genuine |-> genuine, answers |-> answers]

MCQuotes ==
    { Quote("alice", 1, 10001, TRUE, TRUE), Quote("bob", 2, 1, TRUE, TRUE),
      Quote("bob", 3, 10000, FALSE, TRUE), Quote("alice", 3, 10000, TRUE, FALSE) }

=============================================================================
