------------------------ MODULE MCTranscriptWorkflow ------------------------
(* One episode's transcript beside one effect of another component.        *)
EXTENDS TranscriptWorkflow
=============================================================================
