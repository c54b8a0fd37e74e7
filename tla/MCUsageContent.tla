---------------------------- MODULE MCUsageContent ----------------------------
(* Three components in one run: the log worker, the usage ingest and the    *)
(* cache of the blob server.  They share no state, so each is checked with  *)
(* the others at rest: part names the one that moves.                       *)
EXTENDS LogPipelineProps, UsageIngestProps, BlobContentProps, TLC

Path == <<"logo.png", "index.html">>
ManifestsChosen ==
    {{"logo.png"} \X {"raw", "webp"} \cup {"index.html"} \X {"raw"},
     {"index.html"} \X {"raw", "br", "gz"}}
FilesChosen == {("logo.png" :> 1 @@ "index.html" :> i) : i \in {2, 3}}
AcceptsInOrder == <<{"gz"}, {"br", "gz", "webp"}, {"gz", "webp"}>>
AcceptsChosen == ToSet(AcceptsInOrder)
Sizes == [v \in Variant |-> IF v = "raw" THEN 2 ELSE 1]

VARIABLE part

UsageContentInit ==
    /\ part \in {"logs", "ingest", "content"}
    /\ part # "logs" => kind = [k \in Key |-> "tenant"]
    /\ PipelineInit
    /\ part # "ingest" => shape = [r \in Record |-> "metered"] /\ body = [p \in Batch |-> <<>>]
    /\ IngestInit
    /\ part # "content" =>
           /\ manifest = [d \in Deployment |-> {"index.html"} \X {"raw", "br", "gz"}]
           /\ accepts = [c \in Client |-> {"gz"}]
           /\ active = 1
    \* The two clients may change places: one order of what they accept does.
    /\ part = "content" =>
           \E i, j \in DOMAIN AcceptsInOrder :
               i <= j /\ accepts = (1 :> AcceptsInOrder[i] @@ 2 :> AcceptsInOrder[j])
    \* One file changes from the first deployment to the second, one does not.
    /\ file = [d \in Deployment |-> "logo.png" :> 1 @@ "index.html" :> d + 1]
    /\ ContentInit

LogsMove == part = "logs" /\ PipelineNext /\ UNCHANGED <<part, ingestVars, contentVars>>
IngestMoves == part = "ingest" /\ IngestNext /\ UNCHANGED <<part, pipelineVars, contentVars>>
ContentMoves == part = "content" /\ ContentNext /\ UNCHANGED <<part, pipelineVars, ingestVars>>

(* The fairness of LogPipeline, for the part that moves.                    *)
UsageContentSpec ==
    /\ UsageContentInit
    /\ [][LogsMove \/ IngestMoves \/ ContentMoves]_<<part, pipelineVars, ingestVars, contentVars>>
    /\ \A w \in Worker : WF_pipelineVars(part = "logs" /\ RunStep(w))

(* The type invariants of the three modules.                                *)
UsageContentTypeOK == PipelineTypeOK /\ IngestTypeOK /\ ContentTypeOK
=============================================================================
