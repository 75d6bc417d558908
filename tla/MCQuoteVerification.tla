------------------------ MODULE MCQuoteVerification ------------------------
(* Small instances of QuoteVerification: the clock may tick between any    *)
(* two statements, so that a time asked for twice differs.                 *)
EXTENDS QuoteVerification

MCMaxTime == 2
=============================================================================
