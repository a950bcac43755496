---------------------------- MODULE PromptLedger ----------------------------
(***************************************************************************)
(* What the prompt registry promises of one task: a prompt that has a      *)
(* version number keeps it, a new prompt gets a number past every recorded *)
(* one, drafts included (internal/tasks/store.go:184-185), and the live    *)
(* prompt is always one of the recorded ones.  Every operation is one      *)
(* step; no statement fails.                                               *)
(***************************************************************************)
EXTENDS Naturals

CONSTANTS Prompts,    \* a template and its system prompt
          Numbers,    \* version numbers
          NoPrompt,
          NoTask

VARIABLES live,      \* the task's version and prompt, or NoTask
          ledger     \* the prompt of each version number, or NoPrompt

Recorded == {n \in Numbers : ledger[n] # NoPrompt}

\* Past every recorded version.
New(n) == n \in Numbers /\ \A k \in Recorded : k < n

Empty == [n \in Numbers |-> NoPrompt]

Init == live = NoTask /\ ledger = Empty

Register(n, p) == /\ live = NoTask
                  /\ live'   = [version |-> n, prompt |-> p]
                  /\ ledger' = [ledger EXCEPT ![n] = p]

Publish(n, p) == /\ live # NoTask /\ New(n)
                 /\ live'   = [version |-> n, prompt |-> p]
                 /\ ledger' = [ledger EXCEPT ![n] = p]

Draft(n, p) == /\ live # NoTask /\ New(n)
               /\ ledger' = [ledger EXCEPT ![n] = p]
               /\ UNCHANGED live

Activate(n) == /\ live # NoTask /\ n \in Recorded
               /\ live' = [version |-> n, prompt |-> ledger[n]]
               /\ UNCHANGED ledger

Prune(n) == /\ live # NoTask /\ n \in Recorded /\ n # live.version
            /\ ledger' = [ledger EXCEPT ![n] = NoPrompt]
            /\ UNCHANGED live

\* Deleting a task that is then not deleted leaves its live prompt.
Forget == /\ live # NoTask
          /\ ledger' = [Empty EXCEPT ![live.version] = live.prompt]
          /\ UNCHANGED live

Drop == /\ live # NoTask
        /\ live' = NoTask
        /\ ledger' = Empty

Next == \/ \E n \in Numbers, p \in Prompts : Register(n, p) \/ Publish(n, p) \/ Draft(n, p)
        \/ \E n \in Numbers : Activate(n) \/ Prune(n)
        \/ Forget
        \/ Drop

Spec == Init /\ [][Next]_<<live, ledger>>
=============================================================================
