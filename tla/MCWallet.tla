------------------------------ MODULE MCWallet ------------------------------
(* Instances of Wallet for TLC. *)
EXTENDS Wallet, TLC

CONSTANTS p1, p2, c1, c2, c3, c4, recharge1, consume1

\* Three callers of one process and one of another.
TwoProcesses == (c1 :> p1) @@ (c2 :> p1) @@ (c3 :> p1) @@ (c4 :> p2)

Demo == <<recharge1, consume1>>
DemoRecharge == {recharge1}

Came(c) == pc[c] # "idle"

\* Three callers come, of one process or of both; those of one process, which are
\* alike, in the order of their names.
ThreeCallers ==
  /\ Came(c2) => Came(c1)
  /\ Came(c3) => Came(c2)
  /\ ~(Came(c3) /\ Came(c4))

\* One crash or one fault among two callers, at once or one after the other, or three
\* callers without one.
OneMishap ==
  /\ ThreeCallers
  /\ crashes + faults <= 1
  /\ crashes + faults = 1 => ~Came(c3) /\ ~(Came(c2) /\ Came(c4))
=============================================================================
