------------------------------ MODULE Terminal ------------------------------
(***************************************************************************)
(* What the terminal promises to the user who types at it: commands wait   *)
(* in the order they were typed in, each is begun at most once, none       *)
(* beside another.  The connection is changed by the command whose turn it *)
(* is: between two of them when the terminal runs it itself, or by the one *)
(* that is at work.  Only a command that asks the user something, or that  *)
(* the terminal runs itself, may go without being begun.                   *)
(* Once something has panicked, what is typed next may overtake what       *)
(* waits; nothing else is given up.                                        *)
(*                                                                         *)
(* Repl implements this with a goroutine for every command, a select loop, *)
(* pickers and a queue that resumes from several places.                   *)
(***************************************************************************)
EXTENDS Naturals, Sequences

CONSTANTS Commands,   \* what can be typed: records with the number it was typed as
          Brief,      \* those that open a picker, or run in the terminal itself
          Limited,    \* those that are refused when too many wait
          Limit       \* how many that is

VARIABLES typed,      \* commands typed so far
          queue,      \* those that wait, the picker's first
          atWork,     \* the commands at work
          driver,     \* the connection: 0 or 1, the other with every change
          panicked    \* something has panicked

vars == <<typed, queue, atWork, driver, panicked>>

Init == typed = 0 /\ queue = <<>> /\ atWork = {} /\ driver = 0 /\ panicked = FALSE

Other == 1 - driver

-----------------------------------------------------------------------------
(* A command is typed.                                                     *)

Type(c) == c.id = typed + 1 /\ typed' = typed + 1

Wait(c) ==
    /\ Type(c)
    /\ queue' = Append(queue, c)
    /\ UNCHANGED <<atWork, driver, panicked>>

Refuse(c) ==
    /\ Type(c)
    /\ c \in Limited /\ Len(queue) >= Limit
    /\ UNCHANGED <<queue, atWork, driver, panicked>>

BeginAtOnce(c) ==
    /\ Type(c)
    /\ atWork = {} /\ (queue = <<>> \/ panicked)
    /\ atWork' = {c.id}
    /\ UNCHANGED <<queue, driver, panicked>>

DoAtOnce(c) ==
    /\ Type(c)
    /\ c \in Brief
    /\ atWork = {} /\ (queue = <<>> \/ panicked)
    /\ driver' \in {driver, Other}
    /\ UNCHANGED <<queue, atWork, panicked>>

Overtake(c) ==
    /\ Type(c)
    /\ atWork = {} /\ panicked
    /\ queue' = <<c>> \o queue
    /\ UNCHANGED <<atWork, driver, panicked>>

-----------------------------------------------------------------------------
(* The first that waits is begun, or leaves without.                       *)

FirstGoes == queue # <<>> /\ atWork = {} /\ queue' = Tail(queue)

Begin ==
    /\ FirstGoes
    /\ atWork' = {Head(queue).id}
    /\ UNCHANGED <<typed, driver, panicked>>

Leave ==
    /\ FirstGoes
    /\ Head(queue) \in Brief
    /\ driver' \in {driver, Other}
    /\ UNCHANGED <<typed, atWork, panicked>>

-----------------------------------------------------------------------------
(* The command at work connects elsewhere, or ends; something panics.      *)

Reconnect ==
    /\ atWork # {} /\ driver' = Other
    /\ UNCHANGED <<typed, queue, atWork, panicked>>

End ==
    /\ atWork # {} /\ atWork' = {}
    /\ UNCHANGED <<typed, queue, driver, panicked>>

Panic ==
    /\ panicked' = TRUE
    /\ atWork' \in {atWork, {}}
    /\ UNCHANGED <<typed, queue, driver>>

Next ==
    \/ \E c \in Commands : Wait(c) \/ Refuse(c) \/ BeginAtOnce(c) \/ DoAtOnce(c) \/ Overtake(c)
    \/ Begin \/ Leave \/ Reconnect \/ End \/ Panic

Spec == Init /\ [][Next]_vars
=============================================================================
