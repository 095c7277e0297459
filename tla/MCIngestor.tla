----------------------------- MODULE MCIngestor -----------------------------
(* Small instances of Ingestor.                                            *)
EXTENDS Ingestor

=============================================================================
