---------------------------- MODULE MCBlobContent ----------------------------
(* One client and a page that is rolled back.                               *)
EXTENDS BlobContentProps
Path == <<"index.html">>
ManifestsChosen == {{"index.html"} \X {"raw"}}
FilesChosen == [{"index.html"} -> Content]
AcceptsChosen == {{"gz"}}
Sizes == [v \in Variant |-> 1]
=============================================================================
