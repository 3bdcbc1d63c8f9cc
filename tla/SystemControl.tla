--------------------------- MODULE SystemControl ---------------------------
(***************************************************************************)
(* Pausing and the factory reset (system_control.py).  A pause is a flag   *)
(* in Redis that every consumer reads before it takes work; a reset is a   *)
(* thread of ui_server that pauses, clears the chosen targets one after    *)
(* another, restarts the workers and lets everything go on.  It looks at   *)
(* no answer of Redis: a pause or a resume that is refused is passed over. *)
(* What a target holds belongs to the module that uses this one.           *)
(***************************************************************************)
EXTENDS Naturals, Sequences

CONSTANTS
    Components,     \* those with a pause flag of their own
    Scope           \* the targets a reset clears, in the code's order

ASSUME ControlAssumption ==
    /\ Components # {} /\ "all" \notin Components
    /\ Scope \in Seq({"media", "queues", "sqlite"})

VARIABLES
    flags,      \* the pause keys that are set: "all" is VIOS_PAUSED
    reset       \* the reset thread: its stage and the targets still to clear

control == <<flags, reset>>

ControlTypeOK ==
    /\ flags \subseteq Components \cup {"all"}
    /\ reset.pc \in {"idle", "pause", "clear", "schema", "restart", "resume"}
    /\ \E n \in 0..Len(Scope): reset.left = SubSeq(Scope, n + 1, Len(Scope))

InitControl == /\ flags = {}
               /\ reset = [pc |-> "idle", left |-> <<>>]

Paused(c) == "all" \in flags \/ c \in flags

PauseAll == flags' = {"all"} \cup Components

\* pause_all cut short: the keys are written one after another, "all" first.
PauseCut == \/ UNCHANGED flags
            \/ \E S \in SUBSET Components: flags' = flags \cup {"all"} \cup S

ResumeAll == flags' = {}

SetComponent(c, on) == flags' = IF on THEN flags \cup {c} ELSE flags \ {c}

-----------------------------------------------------------------------------
\* start_reset: one reset at a time.  The thread it starts pauses first.
StartReset ==
    /\ reset.pc = "idle"
    /\ Scope # <<>>
    /\ reset' = [pc |-> "pause", left |-> Scope]
    /\ UNCHANGED flags

\* The thread clears target t, then goes to the stage `next` of that target.
Clears(t, next) ==
    /\ reset.pc = "clear"
    /\ reset.left # <<>>
    /\ Head(reset.left) = t
    /\ reset' = [pc |-> next, left |-> Tail(reset.left)]

\* The first stage of _run, and again after flushall, which takes the flags
\* with it.
Pause ==
    /\ reset.pc = "pause"
    /\ PauseAll
    /\ reset' = [reset EXCEPT !.pc = "clear"]

\* Redis refuses the pause: the reset goes on in a system that runs.
PauseRefused ==
    /\ reset.pc = "pause"
    /\ PauseCut
    /\ reset' = [reset EXCEPT !.pc = "clear"]

Cleared ==
    /\ reset.pc = "clear" /\ reset.left = <<>>
    /\ reset' = [reset EXCEPT !.pc = "restart"]

FinishReset ==
    /\ reset.pc = "resume"
    /\ ResumeAll
    /\ reset' = [reset EXCEPT !.pc = "idle"]

\* Redis refuses the resume: the reset is done all the same, and the flags stay.
ResumeRefused ==
    /\ reset.pc = "resume"
    /\ UNCHANGED flags
    /\ reset' = [reset EXCEPT !.pc = "idle"]
=============================================================================
