--------------------------- MODULE MCMeddlerDriver ---------------------------
(***************************************************************************)
(* The driver over MCMeddlerParser's input files.  Their headers extend    *)
(* b or nothing; the include paths hold no b, a b that parses, a b cut     *)
(* short, and a b that extends c with c there or not.  No path has a       *)
(* cyclic chain (see the README).                                          *)
(***************************************************************************)
EXTENDS MeddlerDriver, MCMeddlerParser

B   == <<"interface", "b", "{", "}">>
BCut == <<"interface", "b", "{">>
BC  == <<"interface", "b", "extends", "c", "{", "}">>
C   == <<"interface", "c", "{", "}">>

MCIncludePaths ==
  {[n \in {} |-> B], "b" :> B, "b" :> BCut, "b" :> BC, ("b" :> BC) @@ ("c" :> C)}

====
