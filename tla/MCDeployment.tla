---------------------------- MODULE MCDeployment ----------------------------
(* Two services.  Only ranking-1 can be started a second time.             *)
EXTENDS Deployment, TLC

CONSTANTS p1, p2, p3, p4, a1, a2, a3, a4

ServicesAre == <<"Ranking", "Video">>
NamesAre == [lb |-> <<"ranking-1", "video-1">>, solo |-> <<"ranking">>]
ServiceOfIs ==
  [n \in {"ranking", "ranking-1", "video-1"} |-> IF n = "video-1" THEN "Video" ELSE "Ranking"]
NameOfIs == p1 :> "ranking-1" @@ p2 :> "ranking-1" @@ p3 :> "video-1" @@ p4 :> "ranking"

Ports == Permutations(Port)
=============================================================================
