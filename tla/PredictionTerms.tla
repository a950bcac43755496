-------------------------- MODULE PredictionTerms --------------------------
(***************************************************************************)
(* The vocabulary of predictions: what a task is configured with, what is  *)
(* asked of a model, and what a model says.                                *)
(***************************************************************************)
EXTENDS Naturals, Sequences

CONSTANTS Models,
          Prompts,     \* a prompt version: its number, template, system prompt
                       \* and sampling parameters
          Inputs,      \* a caller's inputs, images included
          Schemas,     \* output schemas
          NoSchema,    \* the task has none
          Configs,     \* the configurations a task may have
          Requests     \* predictions, each made once

\* What executePrediction reads of a task.
Config == [prompt : Prompts, schema : Schemas \cup {NoSchema}, chain : Seq(Models),
           caching : BOOLEAN]

ASSUME TermsAssumption ==
    /\ Configs \subseteq Config
    /\ \A c \in Configs : c.chain # <<>>
    /\ NoSchema \notin Schemas

\* What one prediction asks: the task's configuration when it began.
Question == [test : BOOLEAN,     \* a Studio test or shadow item, not a Predict
             prompt : Prompts, input : Inputs, schema : Schemas \cup {NoSchema},
             chain : Seq(Models)]

\* A test may put another version and another model in the place of the live ones.
Questions(config) ==
    [test : {FALSE}, prompt : {config.prompt}, input : Inputs, schema : {config.schema},
     chain : {config.chain}]
    \cup
    [test : {TRUE}, prompt : Prompts, input : Inputs, schema : {config.schema},
     chain : {config.chain} \cup {<<m>> : m \in Models}]

\* Content a model came up with: who said it, on what, and which of the
\* schemas it happens to conform to.
Text == [by : Models, on : Prompts \X Inputs, fits : SUBSET Schemas]

\* tasks.ValidateOutput; without a schema everything passes.
Valid(text, schema) == schema = NoSchema \/ schema \in text.fits

\* What a model of the chain may say to a question.
SaidTo(text, q) == /\ text.on = <<q.prompt, q.input>>
                   /\ \E i \in DOMAIN q.chain : text.by = q.chain[i]
=============================================================================
