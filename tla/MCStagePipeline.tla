-------------------------- MODULE MCStagePipeline --------------------------
(* Small instance of StagePipeline: one agent's tool call with everything    *)
(* that follows by itself, beliefs twice, and a close.                       *)
EXTENDS StagePipeline

In(stage, cause, arg) == [stage |-> stage, cause |-> cause, arg |-> arg, force |-> FALSE]
CONSTANTS c1, c2
Observe == <<In("observe", 0, "t")>>
Close == <<In("close", 0, "")>>
Live == [pipelines |-> (c1 :> {Observe}) @@ (c2 :> {<<[In("verify", 1, "t") EXCEPT !.force = TRUE]>>,
                                                     <<In("approve", 2, "")>>, Close}),
         auto |-> {"verify", "approve", "receipt"}, fixtures |-> {"receipt"},
         override |-> [s \in {"inspect", "verify", "approve", "receipt", "record"} |->
                          IF s \in {"verify", "approve"} THEN "hosted" ELSE None],
         approval |-> None, autoApproves |-> TRUE, wraps |-> FALSE, persist |-> "throw"]
MCOverlays ==
    {Live,
     [Live EXCEPT !.pipelines = (c1 :> {Observe}) @@ (c2 :> {Observe}), !.auto = {"verify", "approve"},
                  !.fixtures = {"verify", "approve"}, !.override["verify"] = None,
                  !.override["approve"] = "fixture", !.approval = "rejected", !.persist = "log"],
     [Live EXCEPT !.wraps = TRUE,
                  !.pipelines = (c1 :> {<<In("inspect", 0, <<"a", "b">>), In("receipt", 0, "")>>, Close})
                                @@ (c2 :> {<<In("inspect", 0, <<"b", "a">>)>>,
                                           <<In("record", 0, ""), In("close", 0, "")>>})],
     [Live EXCEPT !.pipelines = (c1 :> {<<In("record", 0, "")>>}) @@ (c2 :> {Close})],
     [Live EXCEPT !.pipelines = (c1 :> {<<In("record", 0, "")>>}) @@ (c2 :> {Close}),
                  !.fixtures = {"record"}]}
MCRows == <<[tool |-> "u", verdict |-> "steer"], [tool |-> "t", verdict |-> "steer"]>>
=============================================================================
