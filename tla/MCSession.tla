----------------------------- MODULE MCSession -----------------------------
\* Two users of one phone, with a house or without, a third and a newcomer.
EXTENDS Session, TLC

CONSTANTS u1, u2, u3, u4, h1, dishes, default

MCUsers == {u1, u2, u3, u4}
MCSharers == {u1, u2}
MCHouses == {h1}
MCTasks == {dishes, default}
MCOneHouse ==
  {homes \in [Users -> Houses \cup {Null}] :
     homes[u4] = Null /\ (homes[u3] = h1 \/ \A u \in Users : homes[u] = Null)}
=============================================================================
