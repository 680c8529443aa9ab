------------------------------ MODULE Delivery ------------------------------
(***************************************************************************)
(* What every queue of the system promises to whoever hands it work: from  *)
(* the moment a piece of work is accepted it is kept, in Redis or in the   *)
(* memory of a process that moves it, until it is done or until its loss   *)
(* is on record.  Work may be done more than once and may be kept after it *)
(* was done (delivery is at-least-once), and work that is on record as     *)
(* lost may still get done; what never happens is that work is done or     *)
(* kept that nobody handed over, or that it disappears in silence.         *)
(***************************************************************************)
CONSTANT Work

VARIABLES
    accepted,   \* the work that was handed over
    kept,       \* the work of which some place holds a copy
    done,       \* the work that reached an end its sender can count on
    lost        \* the work that fell into a window where nothing keeps it

deliveryVars == <<accepted, kept, done, lost>>

Init ==
    /\ accepted = {}
    /\ kept = {}
    /\ done = {}
    /\ lost = {}

\* The last copy of a piece of work goes only when the work is settled.
KeepsWhatIsOpen ==
    /\ kept' \subseteq kept
    /\ kept \ kept' \subseteq done' \cup lost'

\* Work is handed over, the first time or again.
Accept(w) ==
    /\ accepted' = accepted \cup {w}
    /\ kept' = kept \cup {w}
    /\ UNCHANGED <<done, lost>>

Finish(w) ==
    /\ w \in accepted
    /\ done' = done \cup {w}
    /\ UNCHANGED <<accepted, lost>>
    /\ KeepsWhatIsOpen

\* A crash, a stop or an error loses what was in the hands of a process; the
\* process may have been about to finish some of it.
Lose(W) ==
    /\ W \subseteq accepted
    /\ lost' = lost \cup W
    /\ \E F \in SUBSET W : done' = done \cup F
    /\ UNCHANGED accepted
    /\ KeepsWhatIsOpen

\* Copies of settled work are removed.
Release ==
    /\ UNCHANGED <<accepted, done, lost>>
    /\ KeepsWhatIsOpen

Next ==
    \/ \E w \in Work : Accept(w) \/ Finish(w)
    \/ \E W \in SUBSET accepted : Lose(W)
    \/ Release

Spec == Init /\ [][Next]_deliveryVars
=============================================================================
