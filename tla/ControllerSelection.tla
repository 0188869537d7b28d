------------------------- MODULE ControllerSelection -------------------------
(***************************************************************************)
(* How a capture gets its controller: input/xinput.py reads the four XInput*)
(* slots one after the other and picks one of those that answered, and     *)
(* cli.py then waits on that slot for a hold and a release of the A button.*)
(* Nothing is kept open in between: controllers are plugged in and out, and*)
(* the button moves, between any two reads.                                *)
(***************************************************************************)
EXTENDS Integers, FiniteSets

Slots == 0..3
None == 4

VARIABLES
  connected,  \* the slots with a controller
  pressed,    \* A is down on the controller of the chosen slot
  phase,      \* "idle", "scan", "resolve", "gate", "started",
              \* "ungated" or "refused"
  requested,  \* --controller-slot, or None
  slot,       \* the next slot to read; then the chosen one
  found,      \* slots that answered
  armed,      \* the gate has seen A down
  always,     \* history: slots connected all the time of the scan
  ever,       \* history: slots connected at some time of the scan
  moved       \* history of A since the gate: "none", "held", "released"

choice == <<requested, slot, found>>
history == <<always, ever, moved>>
vars == <<connected, pressed, phase, choice, armed, history>>

Init == /\ connected = {} /\ pressed = FALSE
        /\ phase = "idle"
        /\ requested = None /\ slot = 0 /\ found = {}
        /\ armed = FALSE
        /\ always = {} /\ ever = {} /\ moved = "none"

-----------------------------------------------------------------------------
(* The controllers. *)

Plug == /\ \E s \in Slots :
             connected' = (connected \ {s}) \cup ({s} \ connected)
        /\ always' = IF phase = "scan" THEN always \cap connected' ELSE always
        /\ ever' = IF phase = "scan" THEN ever \cup connected' ELSE ever
        /\ UNCHANGED <<pressed, phase, choice, armed, moved>>

Button == /\ phase = "gate"
          /\ pressed' = ~pressed
          /\ moved' = IF pressed' THEN "held"
                      ELSE IF moved = "held" THEN "released" ELSE moved
          /\ UNCHANGED <<connected, phase, choice, armed, always, ever>>

-----------------------------------------------------------------------------
(* Selection and the gate. *)

\* resolve_xinput_slot: the scan begins.
Resolve == /\ phase = "idle"
           /\ phase' = "scan"
           /\ requested' \in Slots \cup {None}
           /\ always' = connected
           /\ ever' = connected
           /\ UNCHANGED <<connected, pressed, slot, found, armed, moved>>

\* One slot is read by a controller of its own; a disconnected one is passed.
ReadSlot == /\ phase = "scan"
            /\ found' = IF slot \in connected THEN found \cup {slot} ELSE found
            /\ slot' = slot + 1
            /\ phase' = IF slot = 3 THEN "resolve" ELSE "scan"
            /\ UNCHANGED <<connected, pressed, requested, armed, history>>

\* Wrong: the first controller found is good enough.
AnyOfThem == {s \in found : requested \in {s, None}}

\* The slots that may be taken: the one asked for, or the only one there is.
Acceptable == {s \in found : requested = s \/ (requested = None /\ found = {s})}

\* A slot is taken; the command line waits for the button if it is asked to.
Choose == /\ phase = "resolve"
          /\ \E s \in Acceptable : slot' = s
          /\ phase' \in {"gate", "ungated"}
          /\ pressed' \in BOOLEAN
          /\ moved' = IF pressed' THEN "held" ELSE "none"
          /\ UNCHANGED <<connected, requested, found, armed, always, ever>>

\* ControllerSelectionError
Refuse == /\ phase = "resolve"
          /\ Acceptable = {}
          /\ phase' = "refused"
          /\ UNCHANGED <<connected, pressed, choice, armed, history>>

\* Wrong: A that is not down starts the capture.
Unarmed == ~pressed

Released == armed /\ ~pressed

\* One read of the loop of _wait_for_a_release_start; a disconnect raises.
Poll == /\ phase = "gate"
        /\ phase' = IF slot \notin connected THEN "refused"
                    ELSE IF Released THEN "started" ELSE "gate"
        /\ armed' = (armed \/ (slot \in connected /\ pressed))
        /\ UNCHANGED <<connected, pressed, choice, history>>

Next == Plug \/ Button \/ Resolve \/ ReadSlot \/ Choose \/ Refuse \/ Poll

Spec == Init /\ [][Next]_vars

-----------------------------------------------------------------------------
(* Properties. *)

\* The scan is no snapshot, yet what it decides was true of it.  A slot taken
\* had a controller at some time, and a choice left to the program is made only
\* when no other one was there all the time.  A refusal is deserved: the one
\* asked for was not there all the time; or, with none asked for, there was no
\* lasting one, or there were several.  And behind the gate a capture starts on
\* a release of A that followed a hold seen there, however long A was down
\* before.
StartJustified ==
  /\ phase \in {"gate", "ungated", "started"} =>
       /\ slot \in ever
       /\ requested \in {slot, None}
       /\ requested = None => always \subseteq {slot}
  /\ phase = "refused" /\ slot = None =>
       IF requested = None THEN always = {} \/ Cardinality(ever) > 1
                           ELSE requested \notin always
  /\ phase = "started" => moved = "released"
=============================================================================
