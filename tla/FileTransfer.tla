---------------------------- MODULE FileTransfer ----------------------------
(***************************************************************************)
(* What a network boot command promises of the memory it loads a file      *)
(* into: unit p of the file goes to address p and nowhere else, the        *)
(* reported size never exceeds what was stored, and success means the      *)
(* whole file, which nothing changes unless the success is taken back.     *)
(***************************************************************************)
EXTENDS Integers

CONSTANTS FileSize, Memory

VARIABLES
    image,      \* image[p] is the unit stored at address p, -1 for none
    size,       \* the size reported so far
    status      \* "loading", "loaded" or "failed"

Init ==
    /\ image = [p \in Memory |-> -1] /\ size = 0 /\ status = "loading"

\* The units lo .. hi-1 of the file are stored; the size follows them.
Put(lo, hi) ==
    /\ image' = [p \in Memory |-> IF p \in lo .. hi - 1 THEN p ELSE image[p]]
    /\ size' = IF size < hi THEN hi ELSE size

Store ==
    /\ status # "loaded"
    /\ \E lo, hi \in 0 .. FileSize : lo <= hi /\ Put(lo, hi)
    /\ \/ UNCHANGED status
       \/ /\ status' = "loaded"
          /\ size' = FileSize /\ \A p \in 0 .. FileSize - 1 : image'[p] = p

\* A new attempt reports from zero; the memory keeps what it has.
StartOver ==
    /\ status = "loading" /\ size' = 0 /\ UNCHANGED <<image, status>>

\* An error may come even after the last unit.
Fail ==
    /\ status # "failed" /\ status' = "failed" /\ UNCHANGED <<image, size>>

Next == Store \/ StartOver \/ Fail

Spec == Init /\ [][Next]_<<image, size, status>>
=============================================================================
