-------------------------------- MODULE Tracing --------------------------------
(***************************************************************************)
(* tracing::trace_t (include/debug/tracing.h).  The actors are kept in a   *)
(* vector, which moves to other memory when it is full; a log entry refers *)
(* to the memory its actor was in when it was logged.                      *)
(***************************************************************************)
EXTENDS Integers, Sequences

CONSTANTS
    Recording,   \* the values of record that the program may choose
    MaxActors,
    MaxEntries

ASSUME TraceAssumption == Recording \subseteq BOOLEAN

VARIABLES
    record,    \* whether entries are kept for dump()
    visible,   \* actors: whether each of them is shown
    capacity,  \* how many actors fit into the memory of the vector
    buffer,    \* number of that memory
    entries,   \* the log: an actor, and the memory the entry refers to
    shown      \* indices of the entries that the last call wrote

traceVars == <<record, visible, capacity, buffer, entries, shown>>

Entry(actor, mem) == [actor |-> actor, in |-> mem]

(* trace_t(): the hidden actor TRC logs "started", which shows nothing. *)
InitTrace ==
    /\ record \in Recording
    /\ visible = <<FALSE>>
    /\ capacity = 1
    /\ buffer = 1
    /\ entries = IF record THEN <<Entry(1, 1)>> ELSE <<>>
    /\ shown = {}

(* add() of a visible actor and add_() of a hidden one *)
AddActor ==
    /\ Len(visible) < MaxActors
    /\ \E v \in BOOLEAN : visible' = Append(visible, v)
    /\ IF Len(visible) = capacity
       THEN capacity' = 2 * capacity /\ buffer' = buffer + 1
       ELSE UNCHANGED <<capacity, buffer>>
    /\ shown' = {}
    /\ UNCHANGED <<record, entries>>

ShowActor ==
    /\ \E a \in DOMAIN visible, v \in BOOLEAN : visible' = [visible EXCEPT ![a] = v]
    /\ shown' = {}
    /\ UNCHANGED <<record, capacity, buffer, entries>>

(* Mutant: entries are kept whether they are recorded or not. *)
LogKeepingEntries ==
    /\ Len(entries) < MaxEntries
    /\ \E a \in DOMAIN visible :
        /\ entries' = Append(entries, Entry(a, buffer))
        /\ shown' = IF visible[a] THEN {Len(entries) + 1} ELSE {}
    /\ UNCHANGED <<record, visible, capacity, buffer>>

(* log(), which prints the new entry and keeps it only when recording *)
LogMessage ==
    /\ Len(entries) < MaxEntries
    /\ \E a \in DOMAIN visible :
        /\ entries' = IF record THEN Append(entries, Entry(a, buffer)) ELSE <<>>
        /\ shown' = IF visible[a] THEN {Len(entries) + 1} ELSE {}
    /\ UNCHANGED <<record, visible, capacity, buffer>>

(* Whether the actor of an entry is still where the entry looks for it. *)
Moved(e) == e.in # buffer

(* print(): what reading entry.id.visible may give.  The memory of a       *)
(* vector that has moved is freed and holds anything.                      *)
Prints(e) == IF Moved(e) THEN BOOLEAN ELSE {visible[e.actor]}

(* dump() *)
Dump ==
    /\ \E s \in SUBSET DOMAIN entries :
        /\ \A i \in DOMAIN entries : (i \in s) \in Prints(entries[i])
        /\ shown' = s
    /\ UNCHANGED <<record, visible, capacity, buffer, entries>>

NextTrace == AddActor \/ ShowActor \/ LogMessage \/ Dump

SpecTrace == InitTrace /\ [][NextTrace]_traceVars

(* When dump() may be called: a trace that is not recorded never reads an  *)
(* actor that has moved, and a recorded one does from the first actor that *)
(* is added to it, however much room the vector has later.                 *)
MovedWhenAddedTo ==
    (\E i \in DOMAIN entries : Moved(entries[i])) <=> (record /\ Len(visible) > 1)

(* "adds hidden actor (does not show up in output)": a dump writes no entry *)
(* of an actor that is hidden.  A recorded trace breaks it as soon as an    *)
(* actor is added: the entry of the constructor then refers to freed memory.*)
HiddenActorsAreNotShown ==
    [][Dump => \A i \in shown' : visible[entries[i].actor]]_traceVars
=============================================================================
