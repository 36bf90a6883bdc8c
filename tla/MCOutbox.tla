------------------------------ MODULE MCOutbox ------------------------------
(* Model-checking instances of Outbox: one trade that is opened and closed; *)
(* a trade's partial exit, whose id repeats, and a daily P&L row, which is   *)
(* rewritten.                                                               *)
EXTENDS Outbox

TradeEvent      == {"opened", "closed"}
TradeAggregate  == [e \in TradeEvent |-> "trade"]
TradeAfter      == [e \in TradeEvent |-> IF e = "closed" THEN {"opened"} ELSE {}]
TradeMaxVersion == [e \in TradeEvent |-> 1]

RewriteEvent      == {"partial", "pnl"}
RewriteAggregate  == [e \in RewriteEvent |-> e]
RewriteAfter      == [e \in RewriteEvent |-> {}]
RewriteMaxVersion == [e \in RewriteEvent |-> 2]
=============================================================================
