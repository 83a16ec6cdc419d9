------------------------------ MODULE AIConfig ------------------------------
(***************************************************************************)
(* The repository's .ai.yml as the backend reads it: service/config.go.    *)
(*                                                                         *)
(* A document is the values it sets, under their flattened keys; a key     *)
(* that selects a model counts at any depth, and goes by its last name.    *)
(* A list of patterns is the set of paths the patterns match, a scalar     *)
(* that is not an integer is 0, and a value of spaces is " ".              *)
(***************************************************************************)
EXTENDS Naturals

CONSTANTS
    Files,     \* the paths a repository may have, as sequences of names
    Vendored   \* those under .git, node_modules, dist or build

Blank == [syntax |-> "blank", at |-> <<>>]

(* scalar, list, integer: the value of the document, or the fallback. *)
Value(doc, key, fallback) == IF key \in DOMAIN doc.at THEN doc.at[key] ELSE fallback
Scalar(doc, key, fallback) ==
    IF key \in DOMAIN doc.at /\ doc.at[key] # "" THEN doc.at[key] ELSE fallback
Boolean(doc, key, fallback) ==
    IF key \in DOMAIN doc.at THEN doc.at[key] = "true" ELSE fallback

(* The model is the operator's choice. *)
SelectsModel(doc) == \E key \in {"model", "model_id", "agent_model", "llm_model"} : key \in DOMAIN doc.at

(* ParseAIConfig; ok is FALSE for every document it refuses. *)
ParseAIConfig(doc) ==
    [ok |-> /\ doc.syntax = "mapping"
            /\ ~SelectsModel(doc)
            /\ Boolean(doc, "analysis.enabled", TRUE)
            /\ Scalar(doc, "repository.default_branch", "main") # " "
            /\ Scalar(doc, "repository.target_branch_prefix", "ai-") # " "
            /\ Value(doc, "storage.recommendation_ttl_days", 30) \in 1..365,
     include |-> Value(doc, "analysis.include", Files),
     exclude |-> Value(doc, "analysis.exclude", Vendored),
     recommend |-> Boolean(doc, "recommendations.enabled", TRUE)]

(* The configuration of a repository without a .ai.yml. *)
DefaultIndexConfiguration ==
    [syntax |-> "mapping", at |-> [key \in {"analysis.exclude"} |-> Vendored]]

=============================================================================
