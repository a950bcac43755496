-------------------------- MODULE PredictionOracle --------------------------
(***************************************************************************)
(* What POST /v1/tasks/{id}/predict promises, whatever the cache, the      *)
(* fallback chain and concurrent edits of the task do: a prediction is     *)
(* answered with something a model of its chain has said to the very       *)
(* question that prediction asks, conforming to the output schema it began *)
(* with, or with a failure.  A Studio test gets the model's words as they  *)
(* are.                                                                    *)
(***************************************************************************)
EXTENDS PredictionTerms

CONSTANTS NoQuestion, NoReply,
          Failure       \* a reply that hands out no result

VARIABLES live,     \* the task's configuration
          asked,    \* the question of each prediction under way, or NoQuestion
          said,     \* all that models have said so far
          reply     \* what a prediction was answered with

Init == /\ live  \in Configs
        /\ asked = [r \in Requests |-> NoQuestion]
        /\ said  = {}
        /\ reply = [r \in Requests |-> NoReply]

Configure == live' \in Configs /\ UNCHANGED <<asked, said, reply>>

Ask(r) == /\ asked[r] = NoQuestion
          /\ \E q \in Questions(live) : asked' = [asked EXCEPT ![r] = q]
          /\ UNCHANGED <<live, said, reply>>

\* A model answers one of the questions under way.
Say(r) == /\ asked[r] # NoQuestion
          /\ \E text \in Text : /\ SaidTo(text, asked[r])
                                /\ said' = said \cup {text}
          /\ UNCHANGED <<live, asked, reply>>

Reply(r, text) ==
    /\ asked[r] # NoQuestion /\ reply[r] = NoReply
    /\ text \in said /\ SaidTo(text, asked[r])
    /\ asked[r].test \/ Valid(text, asked[r].schema)
    /\ reply' = [reply EXCEPT ![r] = text]
    /\ UNCHANGED <<live, asked, said>>

Fail(r) == /\ asked[r] # NoQuestion /\ reply[r] = NoReply
           /\ reply' = [reply EXCEPT ![r] = Failure]
           /\ UNCHANGED <<live, asked, said>>

Next == \/ Configure
        \/ \E r \in Requests : \/ Ask(r)
                               \/ Say(r)
                               \/ \E text \in said : Reply(r, text)
                               \/ Fail(r)

Spec == Init /\ [][Next]_<<live, asked, said, reply>>
=============================================================================
