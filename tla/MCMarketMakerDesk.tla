------------------------- MODULE MCMarketMakerDesk -------------------------
(* A small market for MarketMakerDesk. *)
EXTENDS MarketMakerDesk

MCSnapshots == {[bid |-> {8}, ask |-> {12}], [bid |-> {}, ask |-> {12}],
                [bid |-> {10}, ask |-> {12}], [bid |-> {}, ask |-> {}]}
MCFeedFills == {[qty |-> -3, price |-> 9]}
MCMaxShort == -4
MCLossLimits == {-6}

=============================================================================
