------------------------------ MODULE Tenancy ------------------------------
(***************************************************************************)
(* What moving house promises: each user lives in at most one house, a     *)
(* house is open exactly while somebody lives in it, and a move changes    *)
(* both at once.  Residency implements it as long as the app is used in    *)
(* turns; see ResidencyTenancy.                                            *)
(***************************************************************************)
CONSTANTS Users, Houses, Null

VARIABLES
  lives,  \* each user's house, or Null
  open    \* the houses that exist

tenancy == <<lives, open>>

Init ==
  /\ lives \in [Users -> Houses \cup {Null}]
  /\ open = {h \in Houses : \E u \in Users : lives[u] = h}

\* The houses left when u has gone.
OpenWithout(u) ==
  IF \E v \in Users \ {u} : lives[v] = lives[u] THEN open ELSE open \ {lives[u]}

Join(u, h) ==
  /\ h \in open \ {lives[u]}
  /\ lives' = [lives EXCEPT ![u] = h]
  /\ open' = OpenWithout(u)

Create(u, h) ==
  /\ h \in Houses \ open
  /\ lives' = [lives EXCEPT ![u] = h]
  /\ open' = OpenWithout(u) \cup {h}

Next == \E u \in Users, h \in Houses : Join(u, h) \/ Create(u, h)

Spec == Init /\ [][Next]_tenancy
=============================================================================
