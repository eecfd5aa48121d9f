----------------------------- MODULE MCRagAnswer -----------------------------
(* Three articles, of which a query finds two; two queries; two chunks.    *)
EXTENDS RagAnswer, TLC

CONSTANTS a1, a2, a3
=============================================================================
