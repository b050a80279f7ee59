------------------------- MODULE MCDownloadWorkflow -------------------------
(* One episode, whose feed offers one enclosure or replaces it by another. *)
EXTENDS DownloadWorkflow

CONSTANTS first, second

OneVersion  == {first}
TwoVersions == {first, second}
=============================================================================
