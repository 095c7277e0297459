-------------------------- MODULE CompiledDocument --------------------------
(***************************************************************************)
(* What the knowledge compiler (internal/ingestion/knowledge_compile)      *)
(* promises about the first parse of a document: once its completion is    *)
(* announced it stays announced until its products were written to the     *)
(* dataset's, and they are not written before.  Parsing the document again *)
(* or deleting it releases the compiler from this promise, and so does an  *)
(* announcement that is lost before it reaches the compiler.               *)
(* KnowledgeCompile implements it.                                         *)
(***************************************************************************)

CONSTANT Docs

VARIABLE stage   \* [Docs -> stage of the document's first parse]

Stages == {"unannounced", "announced", "written", "released"}

Init == stage = [d \in Docs |-> "unannounced"]

\* The stages after a given one.
Later(s) ==
    {"released"} \cup CASE s = "unannounced" -> {"announced"}
                        [] s = "announced"   -> {"written"}
                        [] OTHER             -> {}

\* A batch may merge several documents at once.
Next == /\ stage' \in [Docs -> Stages]
        /\ \A d \in Docs : stage'[d] = stage[d] \/ stage'[d] \in Later(stage[d])

Spec == Init /\ [][Next]_stage

=============================================================================
