----------------------------- MODULE MCAtomicSwap -----------------------------
(* Instances of AtomicSwap for TLC. *)
EXTENDS AtomicSwap, TLC

\* The daemons' clocks agree with the chains
MCSkew == [p \in Party |-> 0]

\* Lock transactions are interchangeable (safety runs only)
MCSymmetry == Permutations(Tx)
=============================================================================
