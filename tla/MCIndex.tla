-------------------------------- MODULE MCIndex --------------------------------
(* Two branches from the genesis block; t1 and t2 are mined in both, at        *)
(* different heights.                                                          *)
EXTENDS IndexService

MCBlock == {"g", "a1", "a2", "b1", "b2", "b3"}
MCPrev == [b \in MCBlock |->
             CASE b = "g" -> "null" [] b = "a1" -> "g" [] b = "a2" -> "a1"
               [] b = "b1" -> "g" [] b = "b2" -> "b1" [] b = "b3" -> "b2"]
MCHeight == [b \in MCBlock |->
               CASE b = "g" -> 0 [] b \in {"a1", "b1"} -> 1
                 [] b \in {"a2", "b2"} -> 2 [] b = "b3" -> 3]
MCTxsOf == [b \in MCBlock |->
              CASE b \in {"a1", "b2"} -> {"t1"} [] b \in {"a2", "b1"} -> {"t2"}
                [] OTHER -> {}]
===============================================================================
