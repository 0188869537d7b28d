-------------------------- MODULE SafetySupervisor --------------------------
(***************************************************************************)
(* safety/supervisor.py over the dry-run backend of controls/backend.py,   *)
(* called in any order by the code of one thread.  The arming state is a   *)
(* validated object, so to build it may raise; sending may raise too, when *)
(* the backend is closed.  What a call that raises leaves behind is what   *)
(* the order of the statements makes of it.                                *)
(***************************************************************************)
CONSTANTS Neutral,   \* the action that releases every control
          Controls,  \* the other control actions that pass validation
          Reasons,   \* the texts given for a disarming or a fault
          Blank      \* those of them that are empty when stripped

Actions == {Neutral} \cup Controls

VARIABLES
  state,   \* "disarmed", "armed" or "faulted"
  last,    \* last_action of the backend
  closed,  \* the backend is closed
  call     \* the last call: its method, and whether it raised

vars == <<state, last, closed, call>>

Init == /\ state = "disarmed"
        /\ last = Neutral
        /\ closed = FALSE
        /\ call = [method |-> "init", raised |-> FALSE]

Called(m, raised) == call' = [method |-> m, raised |-> raised]

\* send() of the backend raises when it is closed, and accepts nothing.
Send(a) == last' = IF closed THEN last ELSE a

\* A state that is not armed: the new state is set before the outputs are
\* neutralized, but an object with a blank reason cannot be built.
Unarmed(m, s, r) ==
  IF r \in Blank
    THEN Called(m, TRUE) /\ UNCHANGED <<state, last, closed>>
    ELSE /\ state' = s
         /\ Send(Neutral)
         /\ Called(m, closed)
         /\ UNCHANGED closed

Disarm == \E r \in Reasons : Unarmed("disarm", "disarmed", r)

Fault == \E r \in Reasons : Unarmed("fault", "faulted", r)

\* arm() with a configuration, which has passed validation; without one, which
\* disarms; and with something else, which raises.
Arm == \/ /\ state' = "armed"
          /\ Called("arm", FALSE)
          /\ UNCHANGED <<last, closed>>
       \/ /\ state' = "disarmed"
          /\ Send(Neutral)
          /\ Called("arm", closed)
          /\ UNCHANGED closed
       \/ /\ Called("arm", TRUE)
          /\ UNCHANGED <<state, last, closed>>

\* Wrong: only a disarmed supervisor is silenced.
FaultForgotten == state # "disarmed"

CanEmit == state = "armed"

\* submit() of an action; and of something else, which raises.
Submit == \/ /\ \E a \in Actions : Send(IF CanEmit THEN a ELSE Neutral)
             /\ Called("submit", closed)
             /\ UNCHANGED <<state, closed>>
          \/ /\ Called("submit", TRUE)
             /\ UNCHANGED <<state, last, closed>>

\* close() of the backend, which the supervisor does not notice.
Close == /\ closed' = TRUE
         /\ last' = Neutral
         /\ Called("close", FALSE)
         /\ UNCHANGED state

Next == Disarm \/ Fault \/ Arm \/ Submit \/ Close

Spec == Init /\ [][Next]_vars

-----------------------------------------------------------------------------
(* Properties. *)

TypeOK == /\ state \in {"disarmed", "armed", "faulted"}
          /\ last \in Actions
          /\ closed \in BOOLEAN

\* While the supervisor is not armed no control is held, whatever calls came
\* before, those that raised and those on a closed backend included.
NeutralUnlessArmed == state # "armed" => last = Neutral

\* A loss of telemetry, focus or capture that is reported, or a request to
\* disarm, takes effect: no control is held after the call.  The code skips both
\* when the reason is blank, as str() of many exceptions is.
FaultTakesEffect == call.method \in {"disarm", "fault"} => last = Neutral
=============================================================================
