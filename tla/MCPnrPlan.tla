----------------------------- MODULE MCPnrPlan -----------------------------
(***************************************************************************)
(* Eight cells in two clock domains: the buffer g, fed by the pin p, clocks *)
(* the registers r and q, and h clocks k and o.  l is in r's bunch, and the *)
(* carry chain l -> k leaves that bunch.                                    *)
(***************************************************************************)
EXTENDS PnrPlan

MCOrder   == <<"r", "l", "g", "k", "q", "p", "h", "o">>
MCNames   == [c \in Cells |-> IF c = "o" THEN 0 ELSE Position(c)]
MCBunchOf == [c \in Cells |-> IF c \in {"r", "l"} THEN "br" ELSE IF c = "q" THEN "bq" ELSE "none"]
MCRegOf   == [b \in {"br", "bq"} |-> IF b = "br" THEN "r" ELSE "q"]
MCStrict  == {<<"l", "k">>}
MCClocked == {<<"g", "r">>, <<"g", "q">>, <<"h", "k">>, <<"h", "o">>}
MCFeeds   == MCStrict \cup MCClocked \cup {<<"p", "g">>, <<"r", "q">>, <<"q", "o">>}
MCDelay   == [c \in Cells |-> IF c \in {"q", "o"} THEN 2 ELSE 1]
=============================================================================
