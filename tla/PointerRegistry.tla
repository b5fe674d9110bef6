--------------------------- MODULE PointerRegistry ---------------------------
(***************************************************************************)
(* What the memory monitor promises (include/debug/monitor.h): it knows    *)
(* which pointers were allocated, with their sizes, and how often each was *)
(* remembered by hand, and it complains exactly about pointers it does not *)
(* know.                                                                   *)
(***************************************************************************)
EXTENDS Integers

CONSTANTS Ptrs, Sizes

VARIABLES
    held,    \* size of what was allocated at a pointer, 0 for nothing
    marks,   \* how often a pointer is remembered
    alarm,   \* what the last call complained about
    open     \* the monitor is at work

regVars == <<held, marks, alarm, open>>

Init ==
    /\ held = [p \in Ptrs |-> 0]
    /\ marks = [p \in Ptrs |-> 0]
    /\ alarm = "none"
    /\ open = TRUE

Allocate(p, s) ==
    /\ held[p] = 0
    /\ alarm' = "none"
    /\ UNCHANGED <<marks, open>>
    /\ held' = [held EXCEPT ![p] = s]

Free(p) ==
    /\ alarm' = IF held[p] = 0 THEN "unknown" ELSE "none"
    /\ UNCHANGED <<marks, open>>
    /\ held' = [held EXCEPT ![p] = 0]

Mark(p) ==
    /\ alarm' = "none"
    /\ UNCHANGED <<held, open>>
    /\ marks' = [marks EXCEPT ![p] = @ + 1]

Unmark(p) ==
    /\ alarm' = IF marks[p] = 0 THEN "unknown" ELSE "none"
    /\ UNCHANGED <<held, open>>
    /\ marks' = [marks EXCEPT ![p] = IF @ = 0 THEN 0 ELSE @ - 1]

(* Calls that only tell the monitor a position, and the end of the program. *)
Other ==
    /\ alarm' = "none"
    /\ UNCHANGED <<held, marks>>
    /\ open' \in {open, FALSE}

Next ==
    \/ Other
    \/ open /\ \E p \in Ptrs : \/ \E s \in Sizes : Allocate(p, s)
                               \/ Free(p) \/ Mark(p) \/ Unmark(p)

Spec == Init /\ [][Next]_regVars
=============================================================================
