------------------------ MODULE MCPredictionPipeline ------------------------
(***************************************************************************)
(* Instance of PredictionPipeline for TLC: one prompt with and without an  *)
(* output schema, a second prompt, and the chain turned round.             *)
(***************************************************************************)
EXTENDS PredictionPipeline

CONSTANTS m1, m2, p1, p2, s1

MCConfigs ==
    {[prompt |-> p1, schema |-> s1,       chain |-> <<m1, m2>>, caching |-> TRUE],
     [prompt |-> p1, schema |-> NoSchema, chain |-> <<m1, m2>>, caching |-> TRUE],
     [prompt |-> p2, schema |-> s1,       chain |-> <<m2>>,     caching |-> TRUE],
     [prompt |-> p1, schema |-> s1,       chain |-> <<m2, m1>>, caching |-> FALSE]}
=============================================================================
