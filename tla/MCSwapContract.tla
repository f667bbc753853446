---------------------------- MODULE MCSwapContract -----------------------------
(* Instances of SwapContract for TLC: hashes of two bytes, ints of two. *)
EXTENDS SwapContract

\* Keys whose bytes are the script's own opcodes and lengths
MCKey == {<<OP_HASH160, 2>>, <<OP_ELSE, 2>>}

\* Hashes of every length around the right one, with bytes that look like the
\* script that follows, and one that needs OP_PUSHDATA1
MCHashes ==
  {<<>>, <<2>>, <<7, OP_EQUALVERIFY>>, <<OP_EQUALVERIFY, OP_DUP>>,
   <<7, 7, OP_EQUALVERIFY>>, <<OP_EQUALVERIFY, OP_DUP, OP_HASH160, 2>>,
   [i \in 1 .. 76 |-> 2]}

\* Lock times around every change of the encoding: small numbers, one byte and
\* two, the end of an int, of an unsigned one, and beyond
MCTimes ==
  {0, 14, 15, 120, 125, 126, 127, 253, 254, 32764, 32765, 32766, 32767,
   65279, 65406, 65407, 65408, 65533, 65534, 65663}

MCFee == [coin \in {"bitcoin", "blackcoin"} |-> IF coin = "bitcoin" THEN 1 ELSE 4]

\* Amounts just above the fee, and the fee itself
MCOffers == {[coin |-> "bitcoin", amount |-> 2], [coin |-> "blackcoin", amount |-> 4]}
MCCfosOffers == {[coin |-> "cfos", amount |-> 8]}

\* Wallets with nothing, with too little, and with enough in the second place
Output(tx, n, amount) == [tx |-> tx, n |-> n, amount |-> amount, key |-> <<OP_ELSE, 2>>]
MCUnspents == {<<>>, << Output("u", 0, 1) >>, << Output("u", 0, 1), Output("v", 1, 16) >>}
MCGarbage == {-1, 0, 9}
=============================================================================
