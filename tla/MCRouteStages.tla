--------------------------- MODULE MCRouteStages ---------------------------
(***************************************************************************)
(* Instances of RouteStages.  In Star port p of cell A drives X and Y,     *)
(* port q of cell B drives Z and W.  In Twin cell A has two ports.  In     *)
(* Fan one port drives two pins of X, and Y.                               *)
(***************************************************************************)
EXTENDS RouteStages, TLC

Star      == "pX" :> "p" @@ "pY" :> "p" @@ "qZ" :> "q" @@ "qW" :> "q"
StarOwner == "p" :> "A" @@ "q" :> "B"
StarTo    == "pX" :> "X" @@ "pY" :> "Y" @@ "qZ" :> "Z" @@ "qW" :> "W"

Twin      == "pX" :> "p" @@ "rY" :> "r" @@ "qA" :> "q"
TwinOwner == "p" :> "A" @@ "r" :> "A" @@ "q" :> "B"
TwinTo    == "pX" :> "X" @@ "rY" :> "Y" @@ "qA" :> "A"

Fan       == "pX1" :> "p" @@ "pX2" :> "p" @@ "pY" :> "p" @@ "pZ" :> "p"
FanOwner  == "p" :> "A"
FanTo     == "pX1" :> "X" @@ "pX2" :> "X" @@ "pY" :> "Y" @@ "pZ" :> "Z"
=============================================================================
