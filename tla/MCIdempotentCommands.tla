------------------------ MODULE MCIdempotentCommands ------------------------
EXTENDS IdempotentCommands, TLC

CONSTANTS c1, c2, c3, pay, refund

MCPayload == c1 :> pay @@ c2 :> pay @@ c3 :> refund
=============================================================================
