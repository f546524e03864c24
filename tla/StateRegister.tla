--------------------------- MODULE StateRegister ---------------------------
(***************************************************************************)
(* What FlashJournal promises to the bootloader and to the application: a  *)
(* register that survives power loss.                                      *)
(*                                                                         *)
(* A holder opens the register and sees what is stored.  Setting a new     *)
(* value replaces the stored one in a single instant, somewhere between    *)
(* the call and its return; a set that is cut short, by an error or by a   *)
(* power loss, leaves the old value or the new one.  A set that returned   *)
(* Ok has stored its value.                                                *)
(***************************************************************************)
CONSTANTS
    Values,     \* what can be stored
    NoValue     \* nothing is stored

VARIABLES
    stored,     \* the value that outlives a power loss
    handle,     \* the holder's end: closed, open, setting or broken
    view,       \* the value the handle reports
    arg         \* the last value set through this handle

vars == <<stored, handle, view, arg>>

TypeOK ==
    /\ stored \in Values \cup {NoValue}
    /\ handle \in {"closed", "open", "setting", "broken"}
    /\ view \in Values \cup {NoValue}
    /\ arg \in Values \cup {NoValue}

Init ==
    /\ stored \in Values \cup {NoValue}
    /\ handle = "closed"
    /\ view = NoValue
    /\ arg = NoValue

Open ==
    /\ handle = "closed"
    /\ handle' = "open"
    /\ view' = stored
    /\ arg' = NoValue
    /\ UNCHANGED stored

\* The holder asks for the value it already sees.
SetSame(v) ==
    /\ handle = "open"
    /\ v = view
    /\ arg' = v
    /\ UNCHANGED <<stored, handle, view>>

SetBegin(v) ==
    /\ handle = "open"
    /\ v # view
    /\ handle' = "setting"
    /\ arg' = v
    /\ UNCHANGED <<stored, view>>

Commit ==
    /\ handle = "setting"
    /\ stored' = arg
    /\ UNCHANGED <<handle, view, arg>>

SetOk ==
    /\ handle = "setting"
    /\ stored = arg
    /\ handle' = "open"
    /\ view' = arg
    /\ UNCHANGED <<stored, arg>>

SetErr ==
    /\ handle = "setting"
    /\ handle' = "broken"
    /\ UNCHANGED <<stored, view, arg>>

\* The handle is gone: a power loss, a reset, or its holder let go of it.
Close ==
    /\ handle' = "closed"
    /\ view' = NoValue
    /\ arg' = NoValue
    /\ UNCHANGED stored

Next ==
    \/ Open
    \/ \E v \in Values : SetSame(v) \/ SetBegin(v)
    \/ Commit \/ SetOk \/ SetErr
    \/ Close

Spec == Init /\ [][Next]_vars
=============================================================================
