-------------------------- MODULE MCReportPipeline --------------------------
(* Two cores; two reports of package A; B needs A, D needs A and B, F none. *)
EXTENDS ReportPipeline, TLC

MCPackageOf == "a1" :> "A" @@ "a2" :> "A" @@ "b" :> "B" @@ "d" :> "D" @@ "f" :> "F"
MCCoreOf == "a1" :> 1 @@ "a2" :> 2 @@ "b" :> 2 @@ "d" :> 1 @@ "f" :> 2
MCNeeds == "A" :> {} @@ "B" :> {"A"} @@ "D" :> {"A", "B"} @@ "F" :> {}
MCAnchor == "A" :> 0 @@ "B" :> 1 @@ "D" :> 1 @@ "F" :> 2
=============================================================================
