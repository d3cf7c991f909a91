------------------------------ MODULE MCTxPool ------------------------------
(***************************************************************************)
(* An instance of TxPool for TLC.                                          *)
(***************************************************************************)
EXTENDS TxPool, TLC

T(from, nonce, price, cancel, slots) ==
  [from |-> from, nonce |-> nonce, price |-> price, cancel |-> cancel, slots |-> slots]

A0 == T("a", 0, 1, FALSE, 1)
A1 == T("a", 1, 1, FALSE, 1)
A1High == T("a", 1, 2, FALSE, 2)
A2 == T("a", 2, 2, FALSE, 1)
B0 == T("b", 0, 2, FALSE, 2)
B1 == T("b", 1, 2, FALSE, 1)
B2 == T("b", 2, 2, FALSE, 2)
B0Cancel == T("b", 0, 1, TRUE, 1)

SomeTx == {A0, A1, A1High, A2, B0, B1, B2, B0Cancel}
SomeBatches ==
  [txs : {<<A0>>, <<A1High>>, <<A2>>, <<A2, A1>>, <<B0Cancel>>, <<B2, B1, B0>>}, local : {FALSE}]
    \cup [txs : {<<B1>>}, local : {TRUE}]

At(na, nb, invalid, price, fork) ==
  [nonce |-> ("a" :> na @@ "b" :> nb), invalid |-> invalid, price |-> price, magma |-> fork]
GenesisHead == At(0, 0, {}, 1, FALSE)
SomeHeads == {GenesisHead, At(0, 0, {}, 1, TRUE), At(1, 0, {A1High}, 2, TRUE)}
=============================================================================
