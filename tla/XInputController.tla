-------------------------- MODULE XInputController --------------------------
(***************************************************************************)
(* input/xinput.py, XInputController, with the controller worker of        *)
(* CaptureCoordinator: the DLL and its function are loaded on first use    *)
(* by the thread that polls, and forgotten by the main thread in close(),  *)
(* one attribute after the other and without a lock.                       *)
(***************************************************************************)
EXTENDS Integers

VARIABLES
  pc,            \* where the controller thread is
  mainPc,        \* where the main thread is
  dll,           \* _dll is not None
  api,           \* _get_state is not None
  closed,        \* _closed
  disconnects,   \* disconnects the recorder has been told of
  stop, fault, joined, round

attributes == <<dll, api, closed>>
main == <<mainPc, joined, round>>
vars == <<pc, main, attributes, disconnects, stop, fault>>

Init == /\ pc = "ensure" /\ mainPc = "run"
        /\ dll = FALSE /\ api = FALSE /\ closed = FALSE
        /\ disconnects = 0
        /\ stop = FALSE /\ fault = FALSE
        /\ joined = FALSE /\ round = 1

-----------------------------------------------------------------------------
(* The controller thread: samples(), read_state() and _ensure_api(). *)

\* An exception ends the thread.  It is a fault unless the session is ending:
\* the worker looks for that first, and notes the fault later.
Raises == pc' = (IF stop THEN "dead" ELSE "note") /\ UNCHANGED <<stop, fault>>

\* The fault is noted, and ends the session.
Note == /\ pc = "note"
        /\ fault' = TRUE
        /\ stop' = TRUE
        /\ pc' = "dead"
        /\ UNCHANGED <<main, attributes, disconnects>>

\* One step of the thread that an exception may take the place of.
Step(from, to, fails) ==
  /\ pc = from
  /\ IF fails THEN Raises ELSE pc' = to /\ UNCHANGED <<stop, fault>>
  /\ UNCHANGED <<main, disconnects>>

Ensure == Step("ensure", "test", closed) /\ UNCHANGED attributes

Test == Step("test", IF api THEN "call" ELSE "load", FALSE)
          /\ UNCHANGED attributes

\* WinDLL(...) may fail.
Load == \E fails \in BOOLEAN : /\ Step("load", "resolve", fails)
                               /\ dll' = (dll \/ ~fails)
                               /\ UNCHANGED <<api, closed>>

\* _get_state is taken from _dll, which close() may have set to None.
Resolve == /\ Step("resolve", "prototype", ~dll)
           /\ api' = (api \/ dll)
           /\ UNCHANGED <<dll, closed>>

\* The types of its arguments are set through the attribute, read again.
Prototype == Step("prototype", "call", ~api) /\ UNCHANGED attributes

Callable == api

\* The attribute is read once more and called; the function finds the
\* controller, or reports that it is gone.  That ends this stream alone.
Call == /\ pc = "call"
        /\ \/ ~Callable /\ Raises /\ UNCHANGED disconnects
           \/ /\ Callable
              /\ \/ pc' = "yield" /\ UNCHANGED disconnects
                 \/ pc' = "dead" /\ disconnects' = disconnects + 1
              /\ UNCHANGED <<stop, fault>>
        /\ UNCHANGED <<main, attributes>>

\* The loop body reads the stop event and puts the sample into the queue.
Yield == Step("yield", IF stop THEN "dead" ELSE "ensure", FALSE)
           /\ UNCHANGED attributes

Thread == Ensure \/ Test \/ Load \/ Resolve \/ Prototype \/ Call \/ Yield
            \/ Note

-----------------------------------------------------------------------------
(* The main thread. *)

\* stop() comes to this source.
Begin == /\ mainPc = "run"
         /\ mainPc' = "forget"
         /\ UNCHANGED <<pc, joined, round, attributes, disconnects, fault>>

\* self._get_state = self._dll = None assigns from left to right.
Forget == /\ mainPc = "forget"
          /\ api' = FALSE
          /\ mainPc' = "unload"
          /\ UNCHANGED <<pc, joined, round, dll, closed, disconnects, stop,
                         fault>>

Unload == /\ mainPc = "unload"
          /\ dll' = FALSE
          /\ mainPc' = "mark"
          /\ UNCHANGED <<pc, joined, round, api, closed, disconnects, stop,
                         fault>>

Mark == /\ mainPc = "mark"
        /\ closed' = TRUE
        /\ mainPc' = IF round = 1 THEN "join" ELSE "done"
        /\ UNCHANGED <<pc, joined, round, dll, api, disconnects, stop, fault>>

\* join() sees the thread end, or gives up at its deadline, which is a fault.
Join == /\ mainPc = "join"
        /\ joined' \in {FALSE, pc = "dead"}
        /\ fault' = (fault \/ ~joined')
        /\ round' = 2
        /\ mainPc' = "forget"
        /\ UNCHANGED <<pc, attributes, disconnects, stop>>

Closing == Forget \/ Unload \/ Mark
=============================================================================
