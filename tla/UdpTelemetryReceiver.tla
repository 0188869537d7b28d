------------------------ MODULE UdpTelemetryReceiver ------------------------
(***************************************************************************)
(* telemetry/receiver.py: the lazily opened UDP socket, used by the        *)
(* telemetry thread of CaptureCoordinator and closed by the main thread:   *)
(* once in stop(), and once more by the command line when run() is over.   *)
(* Nothing locks the attribute _socket, and close() leaves no flag behind: *)
(* the next receive opens a new socket.                                    *)
(***************************************************************************)
EXTENDS Integers

VARIABLES
  pc,       \* where the telemetry thread is
  mainPc,   \* where the main thread is
  socket,   \* the attribute _socket: a socket's number, or None
  opened,   \* sockets created so far are 1..opened
  bound,    \* those of them that are open
  local,    \* the socket receive_once holds
  closing,  \* the socket close() is about to close
  stop,     \* the coordinator's stop event
  fault,    \* a fault has been noted
  joined,   \* join() has seen the thread end
  round     \* 1: the close() of stop(); 2: that of the command

sockets == <<socket, opened, bound>>
thread == <<pc, local>>
main == <<mainPc, closing, joined, round>>
vars == <<thread, main, sockets, stop, fault>>

None == 0

Init == /\ pc = "test" /\ mainPc = "run"
        /\ socket = None /\ opened = 0 /\ bound = {}
        /\ local = None /\ closing = None
        /\ stop = FALSE /\ fault = FALSE
        /\ joined = FALSE /\ round = 1

-----------------------------------------------------------------------------
(* The telemetry thread. *)

\* An exception ends the thread.  It is a fault unless the session is ending:
\* the worker looks for that first, and notes the fault later.  (When another
\* fault has been noted already, it notes nothing.)
Raises == pc' = (IF stop THEN "dead" ELSE "note") /\ UNCHANGED <<stop, fault>>

\* The fault is noted, and ends the session.
Note == /\ pc = "note"
        /\ fault' = TRUE
        /\ stop' = TRUE
        /\ pc' = "dead"
        /\ UNCHANGED <<local, main, sockets>>

\* _ensure_socket finds no socket, or one.
Test == /\ pc = "test"
        /\ pc' = IF socket = None THEN "create" ELSE "load"
        /\ UNCHANGED <<local, main, sockets, stop, fault>>

\* The new socket is bound before the attribute is set.  When bind() fails it
\* is closed again.
Create == /\ pc = "create"
          /\ \/ /\ opened' = opened + 1
                /\ bound' = bound \cup {opened'}
                /\ pc' = "assign"
                /\ UNCHANGED <<stop, fault>>
             \/ Raises /\ UNCHANGED <<opened, bound>>
          /\ UNCHANGED <<local, main, socket>>

Assign == /\ pc = "assign"
          /\ socket' = opened
          /\ pc' = "load"
          /\ UNCHANGED <<local, main, opened, bound, stop, fault>>

\* return self._socket reads the attribute again: it may be None by now.
Load == /\ pc = "load"
        /\ local' = socket
        /\ IF socket = None
             THEN Raises
             ELSE pc' = "receive" /\ UNCHANGED <<stop, fault>>
        /\ UNCHANGED <<main, sockets>>

\* recvfrom() returns a datagram, and the loop body reads the stop event; or it
\* times out, the datagram is too long, or the socket has been closed.
Receive == /\ pc = "receive"
           /\ \/ /\ local \in bound
                 /\ pc' = IF stop THEN "dead" ELSE "test"
                 /\ UNCHANGED <<stop, fault>>
              \/ Raises
           /\ UNCHANGED <<local, main, sockets>>

Thread == Test \/ Create \/ Assign \/ Load \/ Receive \/ Note

-----------------------------------------------------------------------------
(* The main thread: stop() and join() of CaptureCoordinator, and the finally *)
(* clause of the command.                                                    *)

\* stop() has set the event, and comes to this source.
Begin == /\ mainPc = "run"
         /\ mainPc' = "find"
         /\ stop' \in BOOLEAN
         /\ UNCHANGED <<thread, closing, joined, round, sockets, fault>>

AfterClose == IF round = 1 THEN "join" ELSE "done"

\* close() does nothing unless there is a socket.
Find == /\ mainPc = "find"
        /\ closing' = socket
        /\ mainPc' = IF socket = None THEN AfterClose ELSE "close"
        /\ UNCHANGED <<thread, joined, round, sockets, stop, fault>>

\* Wrong: the attribute is cleared before the socket is closed.
ForgottenFirst == socket' = None /\ UNCHANGED bound

ClosedFirst == bound' = bound \ {closing} /\ UNCHANGED socket

Close == /\ mainPc = "close"
         /\ ClosedFirst
         /\ mainPc' = "forget"
         /\ UNCHANGED <<thread, closing, joined, round, opened, stop, fault>>

Forget == /\ mainPc = "forget"
          /\ socket' = None
          /\ bound' = bound \ {closing}
          /\ mainPc' = AfterClose
          /\ UNCHANGED <<thread, closing, joined, round, opened, stop, fault>>

\* Wrong: the command leaves the receiver to the coordinator.
ClosedOnce == "done"

ClosedAgain == "find"

\* join() sees the thread end, or gives up at its deadline, which is a fault.
Join == /\ mainPc = "join"
        /\ joined' \in {FALSE, pc = "dead"}
        /\ fault' = (fault \/ ~joined')
        /\ round' = 2
        /\ mainPc' = ClosedAgain
        /\ UNCHANGED <<thread, closing, sockets, stop>>

Closing == Find \/ Close \/ Forget

\* The rest of the session sets the stop event and notes its faults.
Elsewhere == /\ stop' \in BOOLEAN /\ fault' \in BOOLEAN
             /\ UNCHANGED <<thread, main, sockets>>

Next == Thread \/ Begin \/ Closing \/ Join \/ Elsewhere

Spec == Init /\ [][Next]_vars

-----------------------------------------------------------------------------
(* Properties. *)

\* The type invariant; and close() never closes a socket there is not.
TypeOK ==
  /\ pc \in {"test", "create", "assign", "load", "receive", "note",
            "dead"}
  /\ mainPc \in {"run", "find", "close", "forget", "join", "done"}
  /\ opened \in Nat
  /\ socket \in 0..opened /\ local \in 0..opened /\ closing \in 0..opened
  /\ bound \subseteq 1..opened
  /\ mainPc \in {"close", "forget"} => closing # None
  /\ stop \in BOOLEAN /\ fault \in BOOLEAN /\ joined \in BOOLEAN
  /\ round \in 1..2

\* The port is never bound twice, although the thread may open a new socket
\* while close() is at work on the old one: a second bind would fail and end
\* the session.
AtMostOneSocket == \A a, b \in bound : a = b
=============================================================================
