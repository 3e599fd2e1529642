----------------------------- MODULE MCVisualLab -----------------------------
(* The pages of the repository, and two with what the viewer handles and   *)
(* they do not have (it is shared with the pages of other repositories): a *)
(* long lane and a lane entered twice, and scenarios without a diagram.    *)
EXTENDS VisualLab, VisualLabData, TLC

Chain(id, n, nextLaneIds) ==
    Lane(id, nextLaneIds, [i \in 1..n |-> Step("a", "b", "manual")])

Wide ==
    Scenario({"yes"}, "yes",
             << Chain("a", 2, << "b" >>), Chain("b", 10, << "c" >>),
                Chain("c", 1, << "b", "d" >>), Chain("d", 8, << "a" >>) >>)

Plain(flow, route, stopAfter) ==
    [flow |-> flow, route |-> route, stopAfter |-> stopAfter,
     options |-> {"yes"}, answer |-> "yes", lanes |-> <<>>]

Other(scenarios) ==
    [next |-> "none", nodes |-> <<>>, codePoints |-> <<>>, scenarios |-> scenarios]

MCPage == {"09", "10", "wide", "plain"}
MCContent == [p \in MCPage |->
    CASE p = "09" -> Sequence09
      [] p = "10" -> Sequence10
      [] p = "wide" -> Other(<< Wide >>)
      [] p = "plain" -> Other(<< Plain(9, 4, 3), Plain(5, 5, 2), Plain(1, 3, 1) >>)]
=============================================================================
