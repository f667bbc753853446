------------------------------- MODULE Escrow -------------------------------
(***************************************************************************)
(* What an atomic swap promises, without clocks, daemons, calls and        *)
(* confirmations: coins are locked in an offer or in a counter to one, and *)
(* are claimed with a secret or given back to who locked them, once and    *)
(* for all.  An offer is claimed only when a counter to it has been, and   *)
(* given back only when none has.                                          *)
(***************************************************************************)

CONSTANT Tx

VARIABLES
  asks,      \* asks[t]: the offer whose secret t asks for, t itself if it is one
  locked,    \* the contracts that hold or held coins
  claimed,   \* those claimed with the secret
  returned   \* those given back

vars == <<asks, locked, claimed, returned>>

IsOffer(t) == asks[t] = t
Counters(a) == {b \in locked : asks[b] = a /\ b # a}

Open == locked \ (claimed \cup returned)

\* Coins are locked in an offer, or to answer one that holds coins
Lock(t, a) ==
  /\ t \notin locked
  /\ a = t \/ (a \in locked /\ IsOffer(a))
  /\ asks' = [asks EXCEPT ![t] = a]
  /\ locked' = locked \cup {t}
  /\ UNCHANGED <<claimed, returned>>

\* Claiming a counter gives its secret away while the offer can still be
\* claimed with it; only then the offer is
Claim(t) ==
  /\ t \in Open
  /\ IF IsOffer(t) THEN Counters(t) \cap claimed # {} ELSE asks[t] \notin returned
  /\ claimed' = claimed \cup {t}
  /\ UNCHANGED <<asks, locked, returned>>

\* An offer whose secret is given away waits to be claimed
Return(t) ==
  /\ t \in Open
  /\ Counters(t) \cap claimed = {}
  /\ returned' = returned \cup {t}
  /\ UNCHANGED <<asks, locked, claimed>>

Init ==
  /\ asks = [t \in Tx |-> t]
  /\ locked = {} /\ claimed = {} /\ returned = {}

Next ==
  \/ \E t, a \in Tx : Lock(t, a)
  \/ \E t \in Tx : Claim(t) \/ Return(t)

Spec == Init /\ [][Next]_vars

-----------------------------------------------------------------------------
\* Each contract has one outcome, an offer and a counter to it never go two
\* ways to one user's loss: an offer that is claimed has a claimed counter,
\* and one with a claimed counter is not given back.
Atomic ==
  /\ claimed \cap returned = {}
  /\ \A a \in locked : IsOffer(a) =>
       /\ a \in claimed => Counters(a) \cap claimed # {}
       /\ a \in returned => Counters(a) \cap claimed = {}
=============================================================================
