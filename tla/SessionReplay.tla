---------------------------- MODULE SessionReplay ----------------------------
(***************************************************************************)
(* capture/recording.py: replay_session merges the streams of a session as *)
(* its consumer asks for events.  heapq.merge reads one record of every    *)
(* stream ahead, and a reader raises when it meets a record that is bad or *)
(* is earlier than the one before.  Records of the health stream carry no  *)
(* time, which counts as time 0.                                           *)
(***************************************************************************)
EXTENDS Integers, FiniteSets, Sequences, SequencesExt

CONSTANTS MaxTime,    \* bound: session times
          MaxRecords  \* bound: records of a stream

Bad == -1

\* Streams in the order in which they are opened, and in that of their names.
Opened == <<"frame", "controller", "telemetry", "health">>
Named == <<"controller", "frame", "health", "telemetry">>
Streams == ToSet(Named)

VARIABLES
  session,  \* the records of each stream: their times, or Bad
  read,     \* how many records of each stream have been read
  heap,     \* streams whose last record read waits to be given out
  todo,     \* streams to be read from next
  out,      \* the events given out: stream, and index in it
  ended     \* "no", "done" or "raised"

vars == <<session, read, heap, todo, out, ended>>

Init == /\ session = [s \in Streams |-> <<>>]
        /\ read = [s \in Streams |-> 0]
        /\ heap = {}
        /\ todo = <<>>
        /\ out = <<>>
        /\ ended = "no"

Times(s) == IF s = "health" THEN {0, Bad} ELSE 0..MaxTime \cup {Bad}

\* The consumer asks for the first event of some session.
Open == /\ todo = <<>> /\ heap = {} /\ out = <<>> /\ ended = "no"
        /\ \E f \in BoundedSeq(Times("frame"), MaxRecords),
              c, t \in BoundedSeq(Times("controller"), MaxRecords),
              h \in BoundedSeq(Times("health"), MaxRecords) :
             session' = [frame |-> f, controller |-> c, telemetry |-> t,
                         health |-> h]
        /\ todo' = Opened
        /\ UNCHANGED <<read, heap, out, ended>>

\* Wrong: a time that goes back is let through.
NotBad(s, i) == session[s][i] # Bad

\* The reader of the stream accepts its record i.
Good(s, i) == /\ session[s][i] # Bad
              /\ i > 1 => session[s][i - 1] <= session[s][i]

\* The next record of a stream is read, if there is one.
Read == /\ todo # <<>> /\ ended = "no"
        /\ LET s == Head(todo)
               i == read[s] + 1
           IN  IF i > Len(session[s])
                 THEN UNCHANGED <<read, heap, ended>>
                 ELSE IF Good(s, i)
                        THEN /\ read' = [read EXCEPT ![s] = i]
                             /\ heap' = heap \cup {s}
                             /\ UNCHANGED ended
                        ELSE ended' = "raised" /\ UNCHANGED <<read, heap>>
        /\ todo' = Tail(todo)
        /\ UNCHANGED <<session, out>>

Rank(s) == CHOOSE k \in DOMAIN Named : Named[k] = s

\* _replay_key: the time, then the name of the stream.
Before(e, f) == LET te == session[e.stream][e.index]
                    tf == session[f.stream][f.index]
                IN  te < tf \/ (te = tf /\ Rank(e.stream) < Rank(f.stream))

Event(s, i) == [stream |-> s, index |-> i]

\* The earliest record read ahead is given out.  Its stream is read again.
Yield == /\ todo = <<>> /\ ended = "no" /\ heap # {}
         /\ \E s \in heap :
              /\ \A r \in heap \ {s} : Before(Event(s, read[s]), Event(r, read[r]))
              /\ out' = Append(out, Event(s, read[s]))
              /\ heap' = heap \ {s}
              /\ todo' = <<s>>
         /\ UNCHANGED <<session, read, ended>>

\* Nothing is left to be read.
Finish == /\ todo = <<>> /\ heap = {} /\ ended = "no"
          /\ ended' = "done"
          /\ UNCHANGED <<session, read, heap, todo, out>>

Next == Open \/ Read \/ Yield \/ Finish

Spec == Init /\ [][Next]_vars

-----------------------------------------------------------------------------
(* Properties. *)

Whole(s) == \A i \in DOMAIN session[s] :
              /\ session[s][i] # Bad
              /\ i > 1 => session[s][i - 1] <= session[s][i]

\* The consumer gets the records of every stream in order and without a gap,
\* the streams merged by time and name; a replay that ends has given out
\* everything, one that raises met a stream that is not whole, and whatever was
\* given out before it was right.
ReplayFaithful ==
  /\ \A i, j \in DOMAIN out : i < j =>
       \/ Before(out[i], out[j])
       \/ out[i].stream = out[j].stream /\ out[i].index < out[j].index
  /\ \A i \in DOMAIN out : out[i].index =
       Cardinality({j \in 1..i : out[j].stream = out[i].stream})
  /\ ended = "done" =>
       \A s \in Streams :
         Cardinality({i \in DOMAIN out : out[i].stream = s}) = Len(session[s])
  /\ ended = "raised" => \E s \in Streams : ~Whole(s)
  /\ ended = "done" => \A s \in Streams : Whole(s)
=============================================================================
