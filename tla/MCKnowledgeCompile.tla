------------------------- MODULE MCKnowledgeCompile -------------------------
(* Small instances of KnowledgeCompile: every worker has its own process.  *)
(* All documents compile the same wiki page, whose row names its source,   *)
(* and an entity, whose row names none.                                    *)
EXTENDS KnowledgeCompile, TLC

MCProcOf == [w \in Workers |-> w]

MCKeys == {"page", "entity"}
MCPage == {"page"}
MCVariantOf == [k \in Keys |-> IF k = "page" THEN "wiki" ELSE "structure"]
MCCompiled == [d \in Docs |-> [v \in 1..MaxParses |-> Keys]]

=============================================================================
