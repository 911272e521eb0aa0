----------------------------- MODULE NameStore -----------------------------
(***************************************************************************)
(* What the environment promises to the rest of U-Boot: a map from names   *)
(* to values that is changed one name at a time, and a copy of it that     *)
(* outlives the power.  The copy is whole or it is lost, it is lost only   *)
(* while it is being replaced, and what a start finds is the copy or the   *)
(* default environment, never a mixture.                                   *)
(***************************************************************************)
CONSTANTS
    Names,      \* the names variables may have
    Values,     \* the values they may have
    None,       \* no value: the variable does not exist
    Default     \* the environment U-Boot is built with

VARIABLES
    vars,       \* the variables as getenv returns them
    kept,       \* the whole copies on the card: one or none
    mode        \* "empty", "ready" or "saving"

Images == [Names -> Values \cup {None}]

Nothing == [n \in Names |-> None]

Init == /\ vars = Nothing
        /\ kept = {}
        /\ mode = "empty"

\* one variable gets a value, or is deleted (None)
Change == /\ mode = "ready"
          /\ UNCHANGED <<kept, mode>>
          /\ vars' \in {[vars EXCEPT ![n] = v] : n \in Names, v \in Values \cup {None}}

\* the copy is replaced: it may be lost, and is the variables in the end,
\* unless the card fails
Save == /\ mode \in {"ready", "saving"}
        /\ mode' \in {"ready", "saving"}
        /\ kept' = kept \/ (mode = "saving" /\ kept' \in {{vars}, {}})
        /\ UNCHANGED vars

\* the power fails, or the variables are reset; only a copy that is being
\* replaced may be lost
Empty == /\ mode' = "empty"
         /\ vars' = Nothing
         /\ kept' = kept \/ (mode = "saving" /\ kept' = {})

\* the variables come from the copy or from the default environment
Load == /\ mode = "empty"
        /\ mode' = "ready"
        /\ vars' \in {Default} \cup kept
        /\ UNCHANGED kept

Next == Change \/ Save \/ Empty \/ Load

Spec == Init /\ [][Next]_<<vars, kept, mode>>
=============================================================================
