--------------------------- MODULE MCEnergyLedger ---------------------------
(* A small instance of EnergyLedger for TLC: two tokens, two bids, two      *)
(* categories of different large category, one price, amounts of both signs. *)
EXTENDS EnergyLedger, TLC

CONSTANTS MaxBack, solar, thermal, e1, e2, b1, b2, u1

MCCategories == {solar, thermal}
MCGreen == {solar}
MCEnergies == {e1, e2}
MCBids == {b1, b2}
MCUsers == {u1}

MCTimes == {1, 3}
MCAmounts == {-1, 1, 2}
MCPrices == {1}

MCBidInputs == [energy : Energies, owner : Users, cat : {solar},
                bidAmount : {1}, price : {1}, prio : {1}, time : {1}]

\* One bid, or two in one batch.
MCBatches == UNION {[S -> MCBidInputs] : S \in {{b1}, {b2}, {b1, b2}}}

\* "old" alone, one award, or awards to both bids or twice to the same.
MCAwardLists ==
  {<<[id |-> OldId, amount |-> 0]>>}
  \cup {<<a>> : a \in [id : Bids, amount : {1, 2}]}
  \cup {<<[id |-> b, amount |-> -1], [id |-> d, amount |-> 1]>> : b \in Bids, d \in Bids}

\* Tokens are alike, and so are bids.
Alike == Permutations(Energies) \cup Permutations(Bids)

\* Energy can be taken back for ever; here at most MaxBack beyond what was sold.
MCNext ==
  /\ Next
  /\ \A e \in Energies : ws'[e] # Absent => ws'[e].sold >= -MaxBack

MCSpec == Init /\ [][MCNext]_ledgerVars
=============================================================================
