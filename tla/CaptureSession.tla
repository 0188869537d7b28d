--------------------------- MODULE CaptureSession ---------------------------
(***************************************************************************)
(* What one capture session promises the reader of its directory, with no  *)
(* threads, queues or files: items of several streams are admitted and     *)
(* stored one by one; a stream may refuse an item, and then admits no      *)
(* other.  A session that is published is sealed, and holds every admitted *)
(* item of each lossless stream, in order and without a gap: at most the   *)
(* last item of the stream is missing.  A lossy stream may skip items but  *)
(* never reorders or repeats them.  CaptureCoordinator implements this     *)
(* specification.                                                          *)
(***************************************************************************)
EXTENDS Naturals, Sequences

CONSTANTS Streams,    \* the recorded streams
          Lossless    \* the streams of which no admitted item may be missing

VARIABLES status,     \* "recording", "published" or "failed"
          admitted,   \* per stream, items 1..admitted have entered the session
          refused,    \* the streams that have refused an item
          stored      \* per stream, the items stored, oldest first

vars == <<status, admitted, refused, stored>>

Init == /\ status = "recording"
        /\ admitted = [s \in Streams |-> 0]
        /\ refused = {}
        /\ stored = [s \in Streams |-> <<>>]

\* An item enters the session.  A failed session may still have producers.
Admit(s) == /\ status # "published"
            /\ s \notin refused
            /\ admitted' = [admitted EXCEPT ![s] = @ + 1]
            /\ UNCHANGED <<status, refused, stored>>

\* The item at hand cannot be taken; the stream ends with it.
Refuse(s) == /\ status # "published"
             /\ s \notin refused
             /\ refused' = refused \cup {s}
             /\ UNCHANGED <<status, admitted, stored>>

\* An admitted item newer than everything stored is stored.
Store(s) == /\ status = "recording"
            /\ \E i \in 1..admitted[s] :
                 /\ \A k \in 1..Len(stored[s]) : stored[s][k] < i
                 /\ stored' = [stored EXCEPT ![s] = Append(@, i)]
            /\ UNCHANGED <<status, admitted, refused>>

Complete(s) == stored[s] = [i \in 1..admitted[s] |-> i]

Publish == /\ status = "recording"
           /\ \A s \in Lossless : Complete(s)
           /\ status' = "published"
           /\ UNCHANGED <<admitted, refused, stored>>

Fail == /\ status = "recording"
        /\ status' = "failed"
        /\ UNCHANGED <<admitted, refused, stored>>

Next == \/ \E s \in Streams : Admit(s) \/ Refuse(s) \/ Store(s)
        \/ Publish
        \/ Fail

Spec == Init /\ [][Next]_vars
=============================================================================
