---------------------------- MODULE AtLeastOnce ----------------------------
(***************************************************************************)
(* What the audit path promises of a decision record, with no segment,     *)
(* watermark, batch or retry in sight: a record that is held is given up   *)
(* only after the sink has it or has refused it for good, except that a    *)
(* machine crash may take what was still exposed.  The sink may be given a *)
(* record again and again.                                                 *)
(***************************************************************************)
CONSTANTS
    Record,     \* the decisions
    Rejected    \* those the sink refuses permanently

VARIABLES
    held,       \* records that can be read back from disk
    exposed,    \* held records a machine crash may still take
    delivered   \* records the sink has accepted

vars == <<held, exposed, delivered>>

Init == held = {} /\ exposed = {} /\ delivered = {}

\* A new record is written; it is exposed until it is made durable.
Accept(r) ==
    /\ r \notin held \cup delivered
    /\ held' = held \cup {r}
    /\ exposed' = exposed \cup {r}
    /\ UNCHANGED delivered

\* Everything written so far becomes durable.
Persist == exposed' = {} /\ UNCHANGED <<held, delivered>>

\* The sink accepts some records that are held, and never a refused one.
Deliver ==
    \E some \in SUBSET (held \ Rejected) :
        /\ delivered' = delivered \cup some
        /\ UNCHANGED <<held, exposed>>

\* Space is reclaimed from records that are settled.
Reclaim ==
    \E some \in SUBSET (held \cap (delivered \cup Rejected)) :
        /\ held' = held \ some
        /\ exposed' = exposed \ some
        /\ UNCHANGED delivered

\* A machine crash takes some exposed records; what is left is on the disk.
Lose ==
    \E some \in SUBSET exposed :
        /\ held' = held \ some
        /\ exposed' = {}
        /\ UNCHANGED delivered

Next ==
    \/ \E r \in Record : Accept(r)
    \/ Persist
    \/ Deliver
    \/ Reclaim
    \/ Lose

Spec == Init /\ [][Next]_vars
=============================================================================
