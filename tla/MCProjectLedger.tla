--------------------------- MODULE MCProjectLedger ---------------------------
(***************************************************************************)
(* Bounds for model-checking ProjectLedger.                                *)
(***************************************************************************)
EXTENDS ProjectLedger

\* One key and one command id more than the limit allows transactions.
KeyOrder == <<"k1", "k2", "k3", "k4", "k5", "k6", "k7">>
CommandOrder == <<"c1", "c2", "c3", "c4", "c5", "c6", "c7">>
SevenKeys == {KeyOrder[i] : i \in DOMAIN KeyOrder}
SevenCommands == {CommandOrder[i] : i \in DOMAIN CommandOrder}

\* Keys and command ids are interchangeable and none is used twice: it is
\* enough to follow the databases that use them in this order.
UsedInOrder ==
  \A t \in DOMAIN db.transactions :
    db.transactions[t].key = KeyOrder[t] /\ db.transactions[t].command = CommandOrder[t]

SmallDeltas == {-2, 1, 3}

\* With ExactEV = 8 the sum 5 + 10 is not representable and rounds to 16.
RoundingDeltas == {5, 10}
==============================================================================
