--------------------------- MODULE MCEffectOutbox ---------------------------
(* The outbox with one request of each kind the claim tells apart.         *)
EXTENDS EffectOutbox

CONSTANTS publisher,   \* FetchPublisher: exact, counted
          model,       \* AgentModel: ambiguous, settled as unknown
          audio,       \* AgentCapability Perform with an audio target: recoverable
          audioAgain,  \* its RecoverExisting: exact
          none

(* Every kind at once. *)
MCRequests == {publisher, model, audio, audioAgain}
MCExact == {publisher, audioAgain}
SafetyRecovery == [r \in {model, audio} |-> IF r = audio THEN audioAgain ELSE none]

(* Counted, ambiguous and recovered effects competing for the queue. *)
MCLiveRequests == {publisher, audio, audioAgain}
MCLiveExact == {publisher, audioAgain}
LiveRecovery == [r \in {audio} |-> audioAgain]

MCPublishers == {publisher}
MCDelays == {0, 1}
=============================================================================
