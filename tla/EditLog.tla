------------------------------ MODULE EditLog ------------------------------
(***************************************************************************)
(* What the relay promises about the edits of one document: an edit it has *)
(* accepted stays in the document, everything on disk stays on disk, and   *)
(* only the edits not yet on disk are lost when the relay restarts (the    *)
(* snapshot interval of [sync]).  DocSession implements this as long as    *)
(* the events it names in Coincide do not coincide.                        *)
(***************************************************************************)

CONSTANT Edits

VARIABLES accepted, durable

Init == accepted = {} /\ durable = {}

\* A frame was applied, or an agent's write to a closed document saved.
Accept ==
    /\ \E e \in Edits \ accepted : accepted' = accepted \union {e}
    /\ durable' \in {durable, accepted' \ (accepted \ durable)}

\* A flush puts accepted edits on disk and takes none away.
Flush ==
    /\ durable \subseteq durable' /\ durable' \subseteq accepted
    /\ UNCHANGED accepted

Crash == accepted' = durable /\ UNCHANGED durable

\* The document is deleted, and so is its history.
Discard == accepted' = {} /\ durable' = {}

Next == Accept \/ Flush \/ Crash \/ Discard

Spec == Init /\ [][Next]_<<accepted, durable>>
=============================================================================
