----------------------------- MODULE NamedCall ------------------------------
(***************************************************************************)
(* What LLMClient.pick_hook and compose_message promise their caller, the  *)
(* pipeline: a call ends, with a result and the statistics of every        *)
(* completion that the provider billed for it, or with an exception and    *)
(* none of them.  Pipeline takes a whole call as one step of this kind.    *)
(***************************************************************************)
EXTENDS Integers

CONSTANTS
    Callers,
    SchemaAttempts  \* completions that a call may ask for

VARIABLES
    open,    \* the callers with a call under way
    billed,  \* completions billed for the current or latest call of each
    stats    \* completions in the statistics it returned, 0 before that

vars == <<open, billed, stats>>

Init ==
    /\ open = {}
    /\ billed = [c \in Callers |-> 0] /\ stats = [c \in Callers |-> 0]

Begin(c) ==
    /\ c \notin open
    /\ open' = open \cup {c}
    /\ billed' = [billed EXCEPT ![c] = 0] /\ stats' = [stats EXCEPT ![c] = 0]

\* A completion that does not fit the schema, and is not the last one
Complete(c) ==
    /\ c \in open /\ billed[c] + 1 < SchemaAttempts
    /\ billed' = [billed EXCEPT ![c] = @ + 1]
    /\ UNCHANGED <<open, stats>>

Return(c) ==
    /\ c \in open /\ billed[c] < SchemaAttempts
    /\ open' = open \ {c}
    /\ billed' = [billed EXCEPT ![c] = @ + 1]
    /\ stats' = [stats EXCEPT ![c] = billed[c] + 1]

\* With a last completion, or without
Raise(c) ==
    /\ c \in open
    /\ open' = open \ {c}
    /\ \E n \in {0, 1} :
          /\ billed[c] + n <= SchemaAttempts
          /\ billed' = [billed EXCEPT ![c] = @ + n]
    /\ UNCHANGED stats

Next == \E c \in Callers : Begin(c) \/ Complete(c) \/ Return(c) \/ Raise(c)

Spec == Init /\ [][Next]_vars
=============================================================================
