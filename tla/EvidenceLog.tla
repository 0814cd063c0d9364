------------------------------ MODULE EvidenceLog ------------------------------
(***************************************************************************)
(* What the knowledge of a mission promises, without cycles, snapshots or  *)
(* a World Model: rows are appended to a table, and a reader makes up its  *)
(* mind from them.  It reads in the order of the table and no row twice;   *)
(* it may pass rows over, but never goes back to one.  It may keep its     *)
(* mind; when it dies, the next reader goes on from the mind kept last or  *)
(* from nothing.  README.md and docs/SPEC.md ask this of evidence and      *)
(* resume in prose; KnowledgeBase is shown to implement it.                *)
(***************************************************************************)
EXTENDS Naturals, Sequences

CONSTANTS Nothing, Told(_, _)   \* what is believed at first, and after one row more

VARIABLES
    log,    \* the rows stored, in their order
    mind,   \* the positions of the rows read, and what is believed
    kept,   \* the mind a reader would go on from
    up      \* whether there is a reader

logVars == <<log, mind, kept, up>>

Blank == [known |-> {}, belief |-> Nothing]

LogInit == log = <<>> /\ mind = Blank /\ kept = Blank /\ up = TRUE

Store ==
    /\ up
    /\ DOMAIN log \subseteq DOMAIN log'
    /\ \A i \in DOMAIN log : log'[i] = log[i]
    /\ UNCHANGED <<mind, kept, up>>

Read ==
    /\ up
    /\ \E i \in DOMAIN log :
          /\ \A j \in mind.known : j < i
          /\ mind' = [known |-> mind.known \cup {i}, belief |-> Told(mind.belief, log[i])]
    /\ UNCHANGED <<log, kept, up>>

Keep ==
    /\ up
    /\ kept' = mind
    /\ UNCHANGED <<log, mind, up>>

End ==
    /\ up
    /\ up' = FALSE
    /\ mind' = Blank
    /\ UNCHANGED <<log, kept>>

Begin ==
    /\ ~up
    /\ up' = TRUE
    /\ mind' \in {Blank, kept}
    /\ UNCHANGED <<log, kept>>

LogNext == Store \/ Read \/ Keep \/ End \/ Begin

LogSpec == LogInit /\ [][LogNext]_logVars
================================================================================
