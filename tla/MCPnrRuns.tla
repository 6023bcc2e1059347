----------------------------- MODULE MCPnrRuns -----------------------------
(***************************************************************************)
(* Three runs over an input buffer and three logic cells.  Connections     *)
(* cross the run boundaries in both directions; a and b also share a       *)
(* direct (same-tile) connection that needs no fabric.                     *)
(***************************************************************************)
EXTENDS PnrRuns, TLC

MCCells == {"ib", "a", "b", "c"}
MCPlan  == <<{"ib", "a"}, {"b"}, {"c"}>>
MCConns == {"ia", "ab", "bc", "ca", "dir"}
MCDriverOf == "ia" :> "ib" @@ "ab" :> "a" @@ "bc" :> "b" @@ "ca" :> "c" @@ "dir" :> "a"
MCSinkOf   == "ia" :> "a" @@ "ab" :> "b" @@ "bc" :> "c" @@ "ca" :> "a" @@ "dir" :> "b"
=============================================================================
