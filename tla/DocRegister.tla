---------------------------- MODULE DocRegister ----------------------------
(***************************************************************************)
(* What the relay promises about the stored content of one document: it is *)
(* a register.  A write takes effect at one moment between its request and *)
(* its answer, or not at all; from the first answer on, until the document *)
(* is deleted, nothing else changes what is read, and no restart, no       *)
(* upload, no eviction and no restore is to be seen.  DocStore implements  *)
(* this when evictions and restores keep apart from the other operations.  *)
(***************************************************************************)
EXTENDS Naturals

VARIABLES
    begun,    \* writes requested so far; a write is its number
    open,     \* those that may yet take effect
    content,  \* the write that is read, once one was answered; 0 before
    promised  \* the oldest write that may be read

Init == begun = 0 /\ open = {} /\ content = 0 /\ promised = 0

Oldest(v, w) == IF w < v THEN w ELSE v

Request ==
    /\ begun' = begun + 1 /\ open' = open \union {begun + 1}
    /\ UNCHANGED <<content, promised>>

\* Writes are refused, or cut short by a restart.
Withdraw ==
    /\ \E left \in SUBSET open : open' = left
    /\ UNCHANGED <<begun, content, promised>>

TakeEffect(w) ==
    /\ open' = open \ {w}
    /\ IF promised = 0
       THEN UNCHANGED <<content, promised>>
       ELSE content' = w /\ promised' = Oldest(promised, w)
    /\ UNCHANGED begun

\* A write that took effect is answered, and so is what it may have been
\* overwritten by.
Answer(w) ==
    /\ IF promised = 0 THEN content' \in 1 .. begun \ open ELSE UNCHANGED content
    /\ promised' = Oldest(content', w)
    /\ UNCHANGED <<begun, open>>

\* The document is deleted: what was written before is gone.
Discard == content' = 0 /\ promised' = 0 /\ UNCHANGED <<begun, open>>

Next ==
    \/ Request \/ Withdraw \/ Discard
    \/ \E w \in open : TakeEffect(w)
    \/ \E w \in 1 .. begun \ open : Answer(w)

Spec == Init /\ [][Next]_<<begun, open, content, promised>>
=============================================================================
