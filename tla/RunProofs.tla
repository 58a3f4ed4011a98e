------------------------------- MODULE RunProofs ------------------------------
(* The run of Run.tla, for any number of paths, file systems and changes   *)
(* and any sizes of the queues.                                            *)
EXTENDS Run, TLAPS

(* Every event is numbered by the first change it reports, and says of     *)
(* every change it reports what was done and to which path.                *)
Numbering ==
    /\ \A e \in Id : event[e].stage # "none" =>
           e <= n /\ event[e].path \in Path /\ change[e].event = e
    /\ \A i \in Id : Seen(i) =>
           /\ change[i].event \in 1 .. i
           /\ event[change[i].event].stage # "none"
           /\ event[change[i].event].path = change[i].path
           /\ change[i].op \in event[change[i].event].ops

(* No event overtakes an earlier one.                                      *)
Through == {"done", "failed", "skipped"}
Follows(before, after) ==
    /\ after = "done" => before \in Through
    /\ after = "channel" => before \in {"channel"} \cup Through
    /\ after = "hand" => before # "queue"
Ordered ==
    \A e, f \in Id : e < f /\ event[e].stage # "none" =>
        Follows(event[e].stage, event[f].stage)

(* An event is lost only where nothing comes through any more.             *)
Lost ==
    /\ monitor = "marking" => \A e \in Id : event[e].stage \in {"none", "queue"}
    /\ monitor = "gone" => \A e \in Id : event[e].stage \notin Pending
    /\ recorder = "gone" => \A e \in Id : event[e].stage # "channel"
    /\ \A e \in Id : event[e].stage = "dropped" => recorder = "gone" \/ monitor = "gone"

(* Before the command is launched there is no change, and before the       *)
(* recorder is started it cannot have ended.                               *)
NotYet ==
    /\ child = "none" => n = 0
    /\ pc \in {"begin", "created", "monitored"} => child = "none"
    /\ pc \in {"begin", "created", "monitored", "launched"} => recorder # "gone"

(* The journal holds what the events that are done say, and nothing else.  *)
Recorded ==
    /\ \A e \in Id : event[e].stage = "done" =>
           <<event[e].path, OperationOf(event[e].ops)>> \in journal
    /\ \A p \in Path : Journalled(p) =>
           \E e \in Id : event[e].stage = "done" /\ event[e].path = p

RunInv == TypeOK /\ Numbering /\ Ordered /\ Lost /\ NotYet /\ Recorded

-----------------------------------------------------------------------------
(* Moving events from stage to stage.                                      *)

EventState == [path : Path \cup {"none"}, ops : SUBSET Op, stage : Stage]

(* Some events have moved on to a stage; the others are as they were.      *)
MovedOn(S, stage) ==
    /\ event' \in [Id -> EventState]
    /\ \A e \in Id : /\ event'[e].path = event[e].path /\ event'[e].ops = event[e].ops
                     /\ event'[e].stage = IF e \in S THEN stage ELSE event[e].stage

LEMMA EventType == TypeOK => event \in [Id -> EventState]
BY DEF TypeOK, EventState

LEMMA MovedEach ==
    ASSUME TypeOK, NEW S, NEW stage \in Stage, event' = Moved(S, stage)
    PROVE  MovedOn(S, stage)
<1>1. event \in [Id -> EventState]
      BY EventType
<1>2. event' = [e \in Id |-> IF e \in S THEN [event[e] EXCEPT !.stage = stage]
                             ELSE event[e]]
      BY DEF Moved
<1>3. ASSUME NEW e \in Id
      PROVE  /\ event'[e] \in EventState
             /\ event'[e].path = event[e].path /\ event'[e].ops = event[e].ops
             /\ event'[e].stage = IF e \in S THEN stage ELSE event[e].stage
      <2>1. event[e] \in EventState
            BY <1>1
      <2>2. event'[e] = IF e \in S THEN [event[e] EXCEPT !.stage = stage] ELSE event[e]
            BY <1>2
      <2>3. CASE e \in S
            BY <2>1, <2>2, <2>3 DEF EventState
      <2>4. CASE e \notin S
            BY <2>1, <2>2, <2>4
      <2> QED BY <2>3, <2>4
<1> QED BY <1>2, <1>3 DEF MovedOn

LEMMA DropEach ==
    ASSUME TypeOK, NEW stages, event' = Drop(stages)
    PROVE  MovedOn({e \in Id : event[e].stage \in stages}, "dropped")
<1>1. "dropped" \in Stage
      BY DEF Stage
<1> QED BY <1>1, MovedEach DEF Drop

(* What has been reported, and stays reported, keeps its number.           *)
LEMMA NumberingKept ==
    ASSUME TypeOK, Numbering, UNCHANGED <<n, change>>,
           \A e \in Id : /\ event'[e].path = event[e].path /\ event'[e].ops = event[e].ops
                         /\ event'[e].stage = "none" <=> event[e].stage = "none"
    PROVE  Numbering'
<1>1. \A i \in Id : Seen(i)' <=> Seen(i)
      BY DEF Seen
<1>2. \A i \in Id : change[i].event \in 1 .. i => change[i].event \in Id
      BY RunAssumption DEF Id
<1> QED BY <1>1, <1>2 DEF Numbering

LEMMA OperationType == \A ops : OperationOf(ops) \in Op
BY DEF OperationOf, MaskToOperation, Op

(* The journal changes only by what is recorded.                           *)
LEMMA RecordedKept ==
    ASSUME TypeOK, Recorded, UNCHANGED <<kind, journal>>,
           \A e \in Id : /\ event'[e].path = event[e].path /\ event'[e].ops = event[e].ops
                         /\ event'[e].stage = "done" <=> event[e].stage = "done"
    PROVE  Recorded'
<1>1. \A e \in Id : OperationOf(event[e].ops)' = OperationOf(event[e].ops)
      BY DEF OperationOf
<1> QED BY <1>1 DEF Recorded, Journalled

(* A move that neither reports nor records.                                *)
LEMMA MoveKept ==
    ASSUME TypeOK, Numbering, Recorded, UNCHANGED <<kind, n, change, journal>>,
           NEW S \in SUBSET Id, NEW stage \in Stage, MovedOn(S, stage),
           stage \notin {"none", "done"},
           \A e \in S : event[e].stage \in Pending
    PROVE  Numbering' /\ Recorded'
<1>1. \A e \in Id : /\ event'[e].path = event[e].path /\ event'[e].ops = event[e].ops
                    /\ event'[e].stage = "none" <=> event[e].stage = "none"
                    /\ event'[e].stage = "done" <=> event[e].stage = "done"
      BY DEF MovedOn, Pending
<1> QED BY <1>1, NumberingKept, RecordedKept

(* Losing events, of whichever stages, changes the order of no others.     *)
LEMMA DropOrdered ==
    ASSUME Ordered, NEW S \in SUBSET Id, MovedOn(S, "dropped"),
           \A e, f \in Id : e < f /\ e \in S =>
               /\ event[f].stage # "done"
               /\ event[f].stage = "channel" => f \in S
    PROVE  Ordered'
<1> SUFFICES ASSUME NEW e \in Id, NEW f \in Id, e < f, event'[e].stage # "none"
             PROVE  Follows(event'[e].stage, event'[f].stage)
    BY DEF Ordered
<1>1. /\ event'[e].stage = IF e \in S THEN "dropped" ELSE event[e].stage
      /\ event'[f].stage = IF f \in S THEN "dropped" ELSE event[f].stage
      BY DEF MovedOn
<1>2. CASE f \in S
      BY <1>1, <1>2 DEF Follows
<1>3. CASE f \notin S /\ e \in S
      BY <1>1, <1>3 DEF Follows
<1>4. CASE f \notin S /\ e \notin S
      BY <1>1, <1>4 DEF Ordered
<1> QED BY <1>2, <1>3, <1>4

-----------------------------------------------------------------------------
LEMMA InitInv == Init => RunInv
<1> SUFFICES ASSUME Init PROVE RunInv
    OBVIOUS
<1>1. 0 \in 0 .. MaxChanges
      BY RunAssumption
<1>2. TypeOK
      BY <1>1 DEF Init, TypeOK, NoEvent, NoChange, Stage
<1>3. \A e \in Id : event[e].stage = "none" /\ change[e].event = 0
      BY DEF Init, NoEvent, NoChange
<1>4. Numbering /\ Ordered /\ Lost /\ NotYet /\ Recorded
      BY <1>3 DEF Init, Numbering, Ordered, Lost, NotYet, Recorded, Seen, Journalled
<1> QED BY <1>2, <1>4 DEF RunInv

(* A change that is reported by an event of its own, by an earlier one, or *)
(* by none.                                                                *)
LEMMA MakeEffect ==
    ASSUME TypeOK, NEW p \in Path, NEW o \in Op, NEW e \in 0 .. MaxChanges, Make(p, o, e)
    PROVE  /\ n + 1 \in Id /\ n' = n + 1
           /\ change' \in [Id -> [path : Path \cup {"none"}, op : Op \cup {"none"},
                                  event : 0 .. MaxChanges]]
           /\ change'[n + 1] = [path |-> p, op |-> o, event |-> e]
           /\ \A i \in Id : i # n + 1 => change'[i] = change[i]
<1>1. n + 1 \in Id /\ n' = n + 1
      BY RunAssumption DEF Make, TypeOK, Id
<1>2. /\ change' = [change EXCEPT ![n + 1] = [path |-> p, op |-> o, event |-> e]]
      /\ change \in [Id -> [path : Path \cup {"none"}, op : Op \cup {"none"},
                            event : 0 .. MaxChanges]]
      BY DEF Make, TypeOK
<1> QED BY <1>1, <1>2

LEMMA UnseenKept ==
    ASSUME RunInv, NEW p \in Path, NEW o \in Op, Unseen(p, o)
    PROVE  RunInv'
<1> USE DEF RunInv
<1>1. Make(p, o, 0) /\ UNCHANGED <<event, main, monitoring, recorder, journal>>
      BY DEF Unseen, Make
<1>2. 0 \in 0 .. MaxChanges
      BY RunAssumption
<1>3. /\ n + 1 \in Id /\ n' = n + 1
      /\ change' \in [Id -> [path : Path \cup {"none"}, op : Op \cup {"none"},
                             event : 0 .. MaxChanges]]
      /\ change'[n + 1] = [path |-> p, op |-> o, event |-> 0]
      /\ \A i \in Id : i # n + 1 => change'[i] = change[i]
      BY <1>1, <1>2, MakeEffect
<1>4. TypeOK'
      BY <1>1, <1>3 DEF TypeOK, main, monitoring, Id
<1>5. Numbering'
      <2>1. n \in Nat /\ \A i \in Id : i \in Nat
            BY RunAssumption DEF TypeOK, Id
      <2>2. ASSUME NEW d \in Id, event[d].stage # "none"
            PROVE  d <= n' /\ event[d].path \in Path /\ change'[d].event = d
            BY <1>3, <2>1, <2>2 DEF Numbering
      <2>3. ASSUME NEW i \in Id, Seen(i)'
            PROVE  i # n + 1 /\ Seen(i) /\ change'[i] = change[i]
            BY <1>3, <2>1, <2>3 DEF Seen
      <2> QED BY <1>1, <2>2, <2>3 DEF Numbering
<1>6. Ordered' /\ Lost' /\ Recorded'
      BY <1>1, RecordedKept DEF Ordered, Lost, main, monitoring
<1>7. NotYet'
      BY <1>1 DEF NotYet, Make, main
<1> QED BY <1>4, <1>5, <1>6, <1>7

(* A new event is the last, and in the queue.                              *)
LEMMA QueuedKept ==
    ASSUME RunInv, NEW p \in Path, NEW o \in Op, Queued(p, o)
    PROVE  RunInv'
<1> USE DEF RunInv
<1> DEFINE x == n + 1
<1>1. Make(p, o, x) /\ UNCHANGED <<main, monitoring, recorder, journal>>
      BY DEF Queued, Make
<1>2. x \in 0 .. MaxChanges /\ x \in Id
      BY <1>1, RunAssumption DEF Make, TypeOK, Id
<1>3. /\ n' = x
      /\ change' \in [Id -> [path : Path \cup {"none"}, op : Op \cup {"none"},
                             event : 0 .. MaxChanges]]
      /\ change'[x] = [path |-> p, op |-> o, event |-> x]
      /\ \A i \in Id : i # x => change'[i] = change[i]
      BY <1>1, <1>2, MakeEffect
<1>4. /\ event' \in [Id -> EventState]
      /\ event'[x] = [path |-> p, ops |-> {o}, stage |-> "queue"]
      /\ \A d \in Id : d # x => event'[d] = event[d]
      <2>1. event \in [Id -> EventState]
            BY EventType
      <2>2. event' = [event EXCEPT ![x] = [path |-> p, ops |-> {o}, stage |-> "queue"]]
            BY DEF Queued
      <2>3. [path |-> p, ops |-> {o}, stage |-> "queue"] \in EventState
            BY DEF EventState, Stage, Pending
      <2> QED BY <1>2, <2>1, <2>2, <2>3
<1>5. n \in Nat /\ (\A i \in Id : i \in Nat) /\ x > n
      BY RunAssumption DEF TypeOK, Id
<1>6. \A d \in Id : d # x /\ event[d].stage # "none" => d < x
      BY <1>5 DEF Numbering
<1>7. event[x].stage = "none"
      BY <1>2, <1>5 DEF Numbering
<1> HIDE DEF x
<1>8. TypeOK'
      BY <1>1, <1>2, <1>3, <1>4 DEF TypeOK, main, monitoring, EventState, Stage
<1>9. Numbering'
      <2>1. ASSUME NEW d \in Id, event'[d].stage # "none"
            PROVE  d <= n' /\ event'[d].path \in Path /\ change'[d].event = d
            <3>1. CASE d = x
                  BY <1>2, <1>3, <1>4, <1>5, <3>1
            <3>2. CASE d # x
                  <4>1. event[d].stage # "none" /\ event'[d] = event[d]
                        BY <1>4, <2>1, <3>2
                  <4>2. event[d].path \in Path /\ change[d].event = d /\ d < x
                        BY <1>6, <3>2, <4>1 DEF Numbering
                  <4>3. d <= n'
                        BY <1>2, <1>3, <1>5, <4>2 DEF Id
                  <4> QED BY <1>3, <3>2, <4>1, <4>2, <4>3
            <3> QED BY <3>1, <3>2
      <2>2. ASSUME NEW i \in Id, Seen(i)', i # x
            PROVE  /\ change'[i].event \in 1 .. i
                   /\ event'[change'[i].event].stage # "none"
                   /\ event'[change'[i].event].path = change'[i].path
                   /\ change'[i].op \in event'[change'[i].event].ops
            <3>1. Seen(i) /\ change'[i] = change[i] /\ i <= n
                  BY <1>3, <1>5, <2>2 DEF Seen, x
            <3>2. /\ change[i].event \in 1 .. i
                  /\ event[change[i].event].stage # "none"
                  /\ event[change[i].event].path = change[i].path
                  /\ change[i].op \in event[change[i].event].ops
                  BY <3>1 DEF Numbering
            <3>3. change[i].event \in Id /\ change[i].event # x
                  BY <1>5, <3>1, <3>2, RunAssumption DEF Id
            <3> QED BY <1>4, <3>1, <3>2, <3>3
      <2>3. /\ change'[x].event \in 1 .. x
            /\ event'[change'[x].event].stage # "none"
            /\ event'[change'[x].event].path = change'[x].path
            /\ change'[x].op \in event'[change'[x].event].ops
            BY <1>2, <1>3, <1>4, <1>5 DEF Id
      <2> QED BY <2>1, <2>2, <2>3 DEF Numbering
<1>10. Ordered'
      <2> SUFFICES ASSUME NEW e \in Id, NEW f \in Id, e < f, event'[e].stage # "none"
                   PROVE  Follows(event'[e].stage, event'[f].stage)
          BY DEF Ordered
      <2>1. CASE f = x
            BY <1>4, <2>1 DEF Follows
      <2>2. CASE f # x /\ e # x
            BY <1>4, <2>2 DEF Ordered
      <2>3. CASE f # x /\ e = x
            <3>1. event[f].stage = "none"
                  BY <1>2, <1>5, <1>6, <2>3
            <3> QED BY <1>4, <2>3, <3>1 DEF Follows
      <2> QED BY <2>1, <2>2, <2>3
<1>11. Lost' /\ NotYet'
      <2>1. monitor # "gone"
            BY DEF Queued, Reported, Watching
      <2>2. Lost'
            BY <1>1, <1>4, <2>1 DEF Lost, monitoring
      <2> QED BY <1>1, <2>2 DEF NotYet, Make, main
<1>12. Recorded'
      <2>1. \A d \in Id : event'[d].stage = "done" <=> event[d].stage = "done"
            BY <1>4, <1>7
      <2>2. \A d \in Id : event[d].stage = "done" => event'[d] = event[d]
            BY <1>4, <1>7
      <2>3. UNCHANGED <<kind, journal>>
            BY <1>1 DEF monitoring
      <2>4. \A d \in Id : event[d].stage = "done" =>
                OperationOf(event[d].ops)' = OperationOf(event[d].ops)
            BY <2>2, <2>3 DEF OperationOf
      <2> QED BY <2>1, <2>2, <2>3, <2>4 DEF Recorded, Journalled
<1> QED BY <1>8, <1>9, <1>10, <1>11, <1>12

(* An event that takes in one more change is in the queue and stays there. *)
LEMMA MergedKept ==
    ASSUME RunInv, NEW p \in Path, NEW o \in Op, NEW e \in Id, Merged(p, o, e)
    PROVE  RunInv'
<1> USE DEF RunInv
<1> DEFINE x == n + 1
<1>1. /\ Make(p, o, e) /\ UNCHANGED <<main, monitoring, recorder, journal>>
      /\ event[e].stage = "queue" /\ event[e].path = p
      BY DEF Merged, Make, At
<1>2. e \in 0 .. MaxChanges /\ n \in Nat /\ (\A i \in Id : i \in Nat) /\ x > n
      BY RunAssumption DEF Id, TypeOK
<1>3. /\ x \in Id /\ n' = x
      /\ change' \in [Id -> [path : Path \cup {"none"}, op : Op \cup {"none"},
                             event : 0 .. MaxChanges]]
      /\ change'[x] = [path |-> p, op |-> o, event |-> e]
      /\ \A i \in Id : i # x => change'[i] = change[i]
      BY <1>1, <1>2, MakeEffect
<1>4. /\ event' \in [Id -> EventState]
      /\ \A d \in Id : /\ event'[d].path = event[d].path
                       /\ event'[d].stage = event[d].stage
                       /\ event[d].ops \subseteq event'[d].ops
      /\ o \in event'[e].ops
      /\ \A d \in Id : event[d].stage = "done" => event'[d] = event[d]
      <2>1. event \in [Id -> EventState]
            BY EventType
      <2>2. event' = [event EXCEPT ![e].ops = @ \cup {o}]
            BY DEF Merged
      <2>3. event'[e] = [event[e] EXCEPT !.ops = @ \cup {o}] /\ event[e] \in EventState
            BY <2>1, <2>2
      <2>4. /\ event'[e] \in EventState /\ event'[e].path = event[e].path
            /\ event'[e].stage = event[e].stage /\ event'[e].ops = event[e].ops \cup {o}
            BY <2>3 DEF EventState
      <2>5. \A d \in Id : d # e => event'[d] = event[d]
            BY <2>1, <2>2
      <2> QED BY <1>1, <2>1, <2>2, <2>4, <2>5
<1>5. event[e].stage # "none" /\ e <= n /\ e < x
      BY <1>1, <1>2 DEF Numbering
<1> HIDE DEF x
<1>6. TypeOK'
      BY <1>1, <1>2, <1>3, <1>4 DEF TypeOK, main, monitoring, EventState, Stage, Id
<1>7. Numbering'
      <2>1. ASSUME NEW d \in Id, event'[d].stage # "none"
            PROVE  d <= n' /\ event'[d].path \in Path /\ change'[d].event = d
            <3>1. d <= n /\ event[d].path \in Path /\ change[d].event = d
                  BY <1>4, <2>1 DEF Numbering
            <3>2. d # x /\ d <= x
                  BY <1>2, <3>1 DEF x
            <3> QED BY <1>3, <1>4, <3>1, <3>2
      <2>2. ASSUME NEW i \in Id, Seen(i)', i # x
            PROVE  /\ change'[i].event \in 1 .. i
                   /\ event'[change'[i].event].stage # "none"
                   /\ event'[change'[i].event].path = change'[i].path
                   /\ change'[i].op \in event'[change'[i].event].ops
            <3>1. Seen(i) /\ change'[i] = change[i]
                  BY <1>2, <1>3, <2>2 DEF Seen, x
            <3>2. /\ change[i].event \in 1 .. i
                  /\ event[change[i].event].stage # "none"
                  /\ event[change[i].event].path = change[i].path
                  /\ change[i].op \in event[change[i].event].ops
                  BY <3>1 DEF Numbering
            <3>3. change[i].event \in Id
                  BY <3>2, RunAssumption DEF Id
            <3> QED BY <1>4, <3>1, <3>2, <3>3
      <2>3. /\ change'[x].event \in 1 .. x
            /\ event'[change'[x].event].stage # "none"
            /\ event'[change'[x].event].path = change'[x].path
            /\ change'[x].op \in event'[change'[x].event].ops
            BY <1>1, <1>2, <1>3, <1>4, <1>5 DEF Id
      <2> QED BY <2>1, <2>2, <2>3 DEF Numbering
<1>8. Ordered'
      BY <1>4 DEF Ordered
<1>9. Lost' /\ NotYet'
      <2>1. Lost'
            BY <1>1, <1>4 DEF Lost, monitoring
      <2> QED BY <1>1, <2>1 DEF NotYet, Make, main
<1>10. Recorded'
      <2>1. UNCHANGED <<kind, journal>>
            BY <1>1 DEF monitoring
      <2>2. \A d \in Id : event[d].stage = "done" =>
                OperationOf(event[d].ops)' = OperationOf(event[d].ops)
            BY <1>4, <2>1 DEF OperationOf
      <2> QED BY <1>4, <2>1, <2>2 DEF Recorded, Journalled
<1> QED BY <1>6, <1>7, <1>8, <1>9, <1>10

-----------------------------------------------------------------------------
(* The monitor and the recorder.                                           *)

LEMMA MarkKept ==
    ASSUME RunInv, NEW f \in Fs, Mark(f)
    PROVE  RunInv'
<1> USE DEF RunInv
<1>1. TypeOK'
      BY DEF Mark, TypeOK, main
<1>2. Numbering' /\ Ordered' /\ Lost' /\ NotYet' /\ Recorded'
      BY RecordedKept DEF Mark, Numbering, Ordered, Lost, NotYet, Seen, main
<1> QED BY <1>1, <1>2

LEMMA OpenRootKept == RunInv /\ OpenRoot => RunInv'
<1> SUFFICES ASSUME RunInv, OpenRoot PROVE RunInv'
    OBVIOUS
<1> USE DEF RunInv
<1>1. /\ UNCHANGED <<main, kind, tried, marked, recorder, journal, n, change>>
      /\ \A e \in Id : event[e].stage \in {"none", "queue"}
      BY DEF OpenRoot, Lost
<1>2. CASE monitor' = "reading" /\ UNCHANGED event
      <2>1. TypeOK'
            BY <1>1, <1>2 DEF TypeOK, main
      <2>2. Numbering' /\ Ordered' /\ NotYet' /\ Recorded'
            BY <1>1, <1>2, RecordedKept DEF Numbering, Ordered, NotYet, Seen, main
      <2>3. Lost'
            BY <1>1, <1>2 DEF Lost
      <2> QED BY <2>1, <2>2, <2>3
<1>3. CASE monitor' = "gone" /\ event' = Drop({"queue"})
      <2> DEFINE S == {e \in Id : event[e].stage \in {"queue"}}
      <2>1. MovedOn(S, "dropped") /\ "dropped" \in Stage
            BY <1>3, DropEach DEF Stage
      <2>2. TypeOK'
            BY <1>1, <1>3, <2>1 DEF TypeOK, main, MovedOn, EventState, Stage
      <2>3. Numbering' /\ Recorded'
            BY <1>1, <2>1, MoveKept DEF Pending, monitoring
      <2>4. Ordered'
            BY <1>1, <2>1, DropOrdered
      <2>5. Lost' /\ NotYet'
            BY <1>1, <1>3, <2>1 DEF Lost, NotYet, MovedOn, main, Pending
      <2> QED BY <2>2, <2>3, <2>4, <2>5
<1> QED BY <1>2, <1>3 DEF OpenRoot

(* What is read is the first part of the queue.                            *)
LEMMA ReadKept ==
    ASSUME RunInv, NEW u \in Id, Read(u)
    PROVE  RunInv'
<1> USE DEF RunInv
<1> DEFINE S == {e \in At("queue") : e <= u}
<1>1. /\ UNCHANGED <<main, monitoring, recorder, journal, n, change>>
      /\ monitor = "reading" /\ event' = Moved(S, "hand")
      BY DEF Read
<1>2. MovedOn(S, "hand") /\ "hand" \in Stage
      BY <1>1, MovedEach DEF Stage, Pending
<1>3. /\ \A e \in Id : e \in S <=> event[e].stage = "queue" /\ e <= u
      /\ S \in SUBSET Id
      BY DEF At
<1>4. TypeOK'
      BY <1>1, <1>2 DEF TypeOK, main, monitoring, MovedOn, EventState, Stage
<1> HIDE DEF S
<1>5. Numbering' /\ Recorded'
      BY <1>1, <1>2, <1>3, MoveKept DEF Pending, monitoring
<1>6. Ordered'
      <2> SUFFICES ASSUME NEW e \in Id, NEW f \in Id, e < f, event'[e].stage # "none"
                   PROVE  Follows(event'[e].stage, event'[f].stage)
          BY DEF Ordered
      <2>1. /\ event'[e].stage = IF e \in S THEN "hand" ELSE event[e].stage
            /\ event'[f].stage = IF f \in S THEN "hand" ELSE event[f].stage
            /\ event[e].stage # "none"
            BY <1>2, <1>3 DEF MovedOn
      <2>2. Follows(event[e].stage, event[f].stage)
            BY <2>1 DEF Ordered
      <2>3. f \in S /\ event[e].stage = "queue" => e \in S
            BY <1>3, RunAssumption DEF Id
      <2> QED BY <1>3, <2>1, <2>2, <2>3 DEF Follows, Through
<1>7. Lost' /\ NotYet'
      BY <1>1, <1>2 DEF Lost, NotYet, MovedOn, main, monitoring
<1> QED BY <1>4, <1>5, <1>6, <1>7

(* What is sent is the first in hand, and nothing in the queue is earlier. *)
LEMMA SendKept ==
    ASSUME RunInv, NEW d \in Id, Send(d)
    PROVE  RunInv'
<1> USE DEF RunInv
<1>1. /\ UNCHANGED <<main, monitoring, recorder, journal, n, change>>
      /\ monitor = "reading" /\ event[d].stage = "hand"
      /\ \A e \in Id : event[e].stage = "hand" => d <= e
      BY DEF Send, InOrder, At
<1>2. d \in Nat /\ \A e \in Id : e \in Nat
      BY DEF Id
<1>3. CASE recorder = "gone" /\ event' = Moved({d}, "dropped")
      <2>1. MovedOn({d}, "dropped") /\ "dropped" \in Stage
            BY <1>3, MovedEach DEF Stage
      <2>2. TypeOK'
            BY <1>1, <2>1 DEF TypeOK, main, monitoring, MovedOn, EventState, Stage
      <2>3. Numbering' /\ Recorded'
            BY <1>1, <2>1, MoveKept DEF Pending, monitoring
      <2>4. Ordered'
            BY <1>1, <1>3, <2>1, DropOrdered DEF Lost, Ordered, Follows, Through
      <2>5. Lost' /\ NotYet'
            BY <1>1, <1>3, <2>1 DEF Lost, NotYet, MovedOn, main, monitoring
      <2> QED BY <2>2, <2>3, <2>4, <2>5
<1>4. CASE recorder # "gone" /\ event' = Moved({d}, "channel")
      <2>1. MovedOn({d}, "channel") /\ "channel" \in Stage
            BY <1>4, MovedEach DEF Stage, Pending
      <2>2. TypeOK'
            BY <1>1, <2>1 DEF TypeOK, main, monitoring, MovedOn, EventState, Stage
      <2>3. Numbering' /\ Recorded'
            BY <1>1, <2>1, MoveKept DEF Pending, monitoring
      <2>4. \A e \in Id : e < d /\ event[e].stage # "none" =>
                              event[e].stage \in {"channel"} \cup Through
            <3> SUFFICES ASSUME NEW e \in Id, e < d, event[e].stage # "none"
                         PROVE  event[e].stage \in {"channel"} \cup Through
                OBVIOUS
            <3>1. event[e].stage # "queue"
                  BY <1>1 DEF Ordered, Follows
            <3>2. event[e].stage # "hand"
                  BY <1>1, <1>2
            <3>3. event[e].stage # "dropped"
                  BY <1>1, <1>4 DEF Lost
            <3>4. event[e].stage \in Stage
                  BY EventType DEF EventState
            <3> QED BY <3>1, <3>2, <3>3, <3>4 DEF Stage, Through
      <2>5. Ordered'
            <3> SUFFICES ASSUME NEW e \in Id, NEW f \in Id, e < f,
                                event'[e].stage # "none"
                         PROVE  Follows(event'[e].stage, event'[f].stage)
                BY DEF Ordered
            <3>1. /\ event'[e].stage = IF e = d THEN "channel" ELSE event[e].stage
                  /\ event'[f].stage = IF f = d THEN "channel" ELSE event[f].stage
                  BY <2>1 DEF MovedOn
            <3>2. CASE f = d
                  BY <1>2, <2>4, <3>1, <3>2 DEF Follows
            <3>3. CASE f # d
                  BY <1>1, <3>1, <3>3 DEF Ordered, Follows, Through
            <3> QED BY <3>2, <3>3
      <2>6. Lost' /\ NotYet'
            BY <1>1, <1>4, <2>1 DEF Lost, NotYet, MovedOn, main, monitoring
      <2> QED BY <2>2, <2>3, <2>5, <2>6
<1> QED BY <1>3, <1>4 DEF Send, SendWaits

(* What is skipped is the first in hand too.                               *)
LEMMA SkipKept ==
    ASSUME RunInv, NEW d \in Id, Skip(d)
    PROVE  RunInv'
<1> USE DEF RunInv
<1>1. /\ UNCHANGED <<main, monitoring, recorder, journal, n, change>>
      /\ event[d].stage = "hand" /\ event' = Moved({d}, "skipped")
      BY DEF Skip, InOrder, At
<1>2. MovedOn({d}, "skipped") /\ "skipped" \in Stage
      BY <1>1, MovedEach DEF Stage
<1>3. TypeOK'
      BY <1>1, <1>2 DEF TypeOK, main, monitoring, MovedOn, EventState, Stage
<1>4. Numbering' /\ Recorded'
      BY <1>1, <1>2, MoveKept DEF Pending, monitoring
<1>5. Ordered'
      <2> SUFFICES ASSUME NEW e \in Id, NEW f \in Id, e < f, event'[e].stage # "none"
                   PROVE  Follows(event'[e].stage, event'[f].stage)
          BY DEF Ordered
      <2>1. /\ event'[e].stage = IF e = d THEN "skipped" ELSE event[e].stage
            /\ event'[f].stage = IF f = d THEN "skipped" ELSE event[f].stage
            BY <1>2 DEF MovedOn
      <2>2. Follows(event[e].stage, event[f].stage)
            BY <1>1, <2>1 DEF Ordered
      <2> QED BY <1>1, <2>1, <2>2 DEF Follows, Through
<1>6. Lost' /\ NotYet'
      BY <1>1, <1>2 DEF Lost, NotYet, MovedOn, main, monitoring, Pending
<1> QED BY <1>3, <1>4, <1>5, <1>6

(* What is recorded is the first in the channel.                           *)
LEMMA RecordKept ==
    ASSUME RunInv, NEW d \in Id, Record(d)
    PROVE  RunInv'
<1> USE DEF RunInv
<1> DEFINE entry == <<event[d].path, OperationOf(event[d].ops)>>
           last == event'[d].stage
<1>1. /\ UNCHANGED <<main, monitoring, recorder, n, change>>
      /\ recorder = "running" /\ event[d].stage = "channel"
      /\ \A e \in Id : event[e].stage = "channel" => d <= e
      BY DEF Record, InOrder, At
<1>2. d \in Nat /\ \A e \in Id : e \in Nat
      BY DEF Id
<1>3. \/ MovedOn({d}, "done") /\ journal' = journal \cup {entry}
      \/ MovedOn({d}, "failed") /\ journal' = journal
      BY MovedEach DEF Record, Stage
<1>4. /\ event' \in [Id -> EventState]
      /\ last \in {"done", "failed"}
      /\ \A e \in Id : /\ event'[e].path = event[e].path
                       /\ event'[e].ops = event[e].ops
                       /\ event'[e].stage = IF e = d THEN last ELSE event[e].stage
      BY <1>3 DEF MovedOn
<1>5. \/ last = "done" /\ journal' = journal \cup {entry}
      \/ last = "failed" /\ journal' = journal
      BY <1>3 DEF MovedOn
<1>6. entry \in Path \X Op
      BY <1>1, OperationType DEF Numbering
<1> HIDE DEF entry, last
<1>7. TypeOK'
      BY <1>1, <1>4, <1>5, <1>6 DEF TypeOK, main, monitoring, EventState
<1>8. Numbering'
      BY <1>1, <1>4, NumberingKept
<1>9. Ordered'
      <2> SUFFICES ASSUME NEW e \in Id, NEW f \in Id, e < f, event'[e].stage # "none"
                   PROVE  Follows(event'[e].stage, event'[f].stage)
          BY DEF Ordered
      <2>1. /\ event'[e].stage = IF e = d THEN last ELSE event[e].stage
            /\ event'[f].stage = IF f = d THEN last ELSE event[f].stage
            BY <1>4
      <2>2. Follows(event[e].stage, event[f].stage)
            BY <1>1, <1>4, <2>1 DEF Ordered
      <2>3. CASE f = d
            <3>0. e < d
                  BY <2>3
            <3>1. event[e].stage # "none" /\ e # d /\ ~(d <= e)
                  BY <1>2, <2>1, <3>0
            <3>2. event[e].stage \in Through
                  BY <1>1, <2>2, <2>3, <3>1 DEF Follows
            <3> QED BY <1>4, <2>1, <2>3, <3>1, <3>2 DEF Follows, Through
      <2>4. CASE f # d
            BY <1>1, <1>4, <2>1, <2>2, <2>4 DEF Follows, Through
      <2> QED BY <2>3, <2>4
<1>10. Lost' /\ NotYet'
      BY <1>1, <1>4 DEF Lost, NotYet, main, monitoring, Pending
<1>11. Recorded'
      <2>1. journal \subseteq journal' /\ (last = "done" => entry \in journal')
            BY <1>5
      <2>2. ASSUME NEW e \in Id, event'[e].stage = "done"
            PROVE  (<<event[e].path, OperationOf(event[e].ops)>> \in journal)'
            <3>1. OperationOf(event[e].ops)' = OperationOf(event[e].ops)
                  BY <1>1, <1>4 DEF OperationOf, monitoring
            <3>2. CASE e = d
                  BY <1>4, <2>1, <2>2, <3>1, <3>2 DEF entry
            <3>3. CASE e # d
                  BY <1>4, <2>1, <2>2, <3>1, <3>3 DEF Recorded
            <3> QED BY <3>2, <3>3
      <2>3. ASSUME NEW p \in Path, Journalled(p)'
            PROVE  \E e \in Id : event'[e].stage = "done" /\ event'[e].path = p
            <3>1. CASE Journalled(p)
                  BY <1>1, <1>4, <3>1 DEF Recorded
            <3>2. CASE last = "done" /\ p = event[d].path
                  BY <1>4, <3>2
            <3>3. Journalled(p) \/ (last = "done" /\ p = event[d].path)
                  BY <1>5, <2>3 DEF Journalled, entry
            <3> QED BY <3>1, <3>2, <3>3
      <2> QED BY <2>2, <2>3 DEF Recorded
<1> QED BY <1>7, <1>8, <1>9, <1>10, <1>11

LEMMA RecorderEndsKept == RunInv /\ RecorderEnds => RunInv'
<1> SUFFICES ASSUME RunInv, RecorderEnds PROVE RunInv'
    OBVIOUS
<1> USE DEF RunInv
<1>1. TypeOK'
      BY DEF RecorderEnds, TypeOK, main, monitoring
<1>2. Numbering' /\ Ordered' /\ Recorded'
      BY RecordedKept DEF RecorderEnds, Numbering, Ordered, Seen, monitoring
<1>3. Lost' /\ NotYet'
      BY DEF RecorderEnds, Lost, NotYet, main, monitoring, At
<1> QED BY <1>1, <1>2, <1>3

-----------------------------------------------------------------------------
(* handle_run, the command, and kills.                                     *)

LEMMA EndKept ==
    ASSUME RunInv, NEW last \in {"exited", "killed"}, End(last)
    PROVE  RunInv'
<1> USE DEF RunInv
<1> DEFINE S == {e \in Id : event[e].stage \in Pending}
<1>1. /\ UNCHANGED <<status, child, kind, tried, marked, journal, n, change>>
      /\ pc' = last /\ monitor' = "gone" /\ recorder' = "gone" /\ event' = Drop(Pending)
      BY DEF End
<1>2. MovedOn(S, "dropped") /\ "dropped" \in Stage
      BY <1>1, DropEach DEF Stage
<1>3. TypeOK'
      BY <1>1, <1>2 DEF TypeOK, MovedOn, EventState, Stage
<1>4. Numbering' /\ Recorded'
      BY <1>1, <1>2, MoveKept
<1>5. Ordered'
      <2>1. \A e, f \in Id : e < f /\ e \in S =>
                /\ event[f].stage # "done"
                /\ event[f].stage = "channel" => f \in S
            BY DEF Ordered, Pending, Follows, Through
      <2> QED BY <1>2, <2>1, DropOrdered
<1>6. Lost' /\ NotYet'
      BY <1>1, <1>2 DEF Lost, NotYet, MovedOn, Pending
<1> QED BY <1>3, <1>4, <1>5, <1>6

(* Steps of handle_run that leave the events alone.                        *)
LEMMA MainKept ==
    ASSUME RunInv, Create \/ Wait \/ Drained \/ Finalize \/ Launch \/ ChildExits
    PROVE  RunInv'
<1> USE DEF RunInv, Create, Wait, Drained, Finalize, Launch, ChildExits
<1>1. UNCHANGED <<monitoring, recorder, event, journal, n, change>>
      OBVIOUS
<1>2. TypeOK'
      BY DEF TypeOK, monitoring, FinalStatus
<1>3. Numbering' /\ Ordered' /\ Lost' /\ Recorded'
      BY <1>1, RecordedKept DEF Numbering, Ordered, Lost, Seen, monitoring
<1>4. NotYet'
      BY <1>1 DEF NotYet
<1> QED BY <1>2, <1>3, <1>4

(* Nothing has been reported, or lost, when a monitor is started.          *)
LEMMA StartMonitorKept ==
    ASSUME RunInv, StartFanotify \/ StartInotify
    PROVE  RunInv'
<1> USE DEF RunInv, StartFanotify, StartInotify
<1>1. /\ UNCHANGED <<status, child, tried, recorder, event, journal, n, change>>
      /\ pc = "created" /\ pc' = "monitored"
      OBVIOUS
<1>2. \A e \in Id : event[e].stage = "none"
      <2>1. n = 0
            BY <1>1 DEF NotYet
      <2> QED BY <2>1 DEF Numbering, Id
<1>3. TypeOK'
      BY DEF TypeOK
<1>4. Numbering' /\ Ordered' /\ Recorded'
      BY <1>1, <1>2 DEF Numbering, Ordered, Recorded, Seen, Journalled
<1>5. Lost' /\ NotYet'
      BY <1>1, <1>2 DEF Lost, NotYet, Pending
<1> QED BY <1>3, <1>4, <1>5

LEMMA StartRecorderKept == RunInv /\ StartRecorder => RunInv'
<1> SUFFICES ASSUME RunInv, StartRecorder PROVE RunInv'
    OBVIOUS
<1> USE DEF RunInv
<1>1. /\ UNCHANGED <<status, child, monitoring, journal, n, change>>
      /\ pc = "launched" /\ pc' = "waiting"
      BY DEF StartRecorder
<1>2. CASE recorder' = "running" /\ UNCHANGED event
      <2>1. recorder # "gone"
            BY <1>1 DEF NotYet
      <2>2. TypeOK'
            BY <1>1, <1>2 DEF TypeOK, monitoring
      <2>3. Numbering' /\ Ordered' /\ Recorded'
            BY <1>1, <1>2, RecordedKept DEF Numbering, Ordered, Seen, monitoring
      <2>4. Lost' /\ NotYet'
            BY <1>1, <1>2, <2>1 DEF Lost, NotYet, monitoring
      <2> QED BY <2>2, <2>3, <2>4
<1>3. CASE recorder' = "gone" /\ event' = Drop({"channel"})
      <2> DEFINE S == {e \in Id : event[e].stage \in {"channel"}}
      <2>1. MovedOn(S, "dropped") /\ "dropped" \in Stage
            BY <1>3, DropEach DEF Stage
      <2>2. TypeOK'
            BY <1>1, <1>3, <2>1 DEF TypeOK, monitoring, MovedOn, EventState, Stage
      <2>3. Numbering' /\ Recorded'
            BY <1>1, <2>1, MoveKept DEF Pending, monitoring
      <2>4. Ordered'
            <3>1. \A e, f \in Id : e < f /\ e \in S =>
                      /\ event[f].stage # "done"
                      /\ event[f].stage = "channel" => f \in S
                  BY DEF Ordered, Follows, Through
            <3> QED BY <2>1, <3>1, DropOrdered
      <2>5. Lost' /\ NotYet'
            BY <1>1, <1>3, <2>1 DEF Lost, NotYet, MovedOn, monitoring, Pending
      <2> QED BY <2>2, <2>3, <2>4, <2>5
<1> QED BY <1>2, <1>3 DEF StartRecorder

LEMMA StutterKept == RunInv /\ UNCHANGED vars => RunInv'
<1> SUFFICES ASSUME RunInv, UNCHANGED vars PROVE RunInv'
    OBVIOUS
<1> USE DEF RunInv, vars, main, monitoring
<1>1. TypeOK'
      BY DEF TypeOK
<1>2. Numbering' /\ Ordered' /\ Lost' /\ NotYet' /\ Recorded'
      BY RecordedKept DEF Numbering, Ordered, Lost, NotYet, Seen
<1> QED BY <1>1, <1>2

LEMMA StepInv == RunInv /\ [Next]_vars => RunInv'
<1> SUFFICES ASSUME RunInv, [Next]_vars PROVE RunInv'
    OBVIOUS
<1>1. CASE HandleRun
      <2>1. CASE GiveUp \/ Exit
            BY <2>1, EndKept DEF GiveUp, Exit
      <2> QED BY <1>1, <2>1, MainKept, StartMonitorKept, StartRecorderKept DEF HandleRun
<1>2. CASE Monitor
      BY <1>2, MarkKept, OpenRootKept, ReadKept, SendKept, SkipKept DEF Monitor
<1>3. CASE Command
      <2>1. ASSUME NEW w \in Work,
                   \/ Unseen(w[1], w[2]) \/ Queued(w[1], w[2])
                   \/ \E e \in Id : Merged(w[1], w[2], e)
            PROVE  RunInv'
            <3>1. w[1] \in Path /\ w[2] \in Op
                  BY RunAssumption
            <3> QED BY <2>1, <3>1, UnseenKept, QueuedKept, MergedKept
      <2> QED BY <1>3, <2>1, MainKept DEF Command
<1>4. CASE Kill
      BY <1>4, EndKept DEF Kill
<1>5. CASE \E e \in Id : Record(e)
      BY <1>5, RecordKept
<1>6. CASE RecorderEnds
      BY <1>6, RecorderEndsKept
<1>7. CASE UNCHANGED vars
      BY <1>7, StutterKept
<1> QED BY <1>1, <1>2, <1>3, <1>4, <1>5, <1>6, <1>7 DEF Next

THEOREM RunInvariant == Spec => []RunInv
BY InitInv, StepInv, PTL DEF Spec

-----------------------------------------------------------------------------
(* Whatever the timeouts, kills, losses and merges, states are of the type *)
(* Run.tla gives; a finished transaction is completed or failed.           *)
THEOREM RunTypes == Spec => []TypeOK
<1>1. RunInv => TypeOK
      BY DEF RunInv
<1> QED BY <1>1, RunInvariant, PTL

(* What is journalled was reported no earlier than anything reported       *)
(* before, so all of that has been recorded or left out.                   *)
LEMMA RecordedBefore ==
    ASSUME RunInv, NEW j \in Id, FirstReport(j), Journalled(change[j].path),
           NEW i \in Id, i < j, Seen(i)
    PROVE  event[change[i].event].stage \in Through /\ change[i].event \in Id
<1> USE DEF RunInv
<1>1. \A d \in Id : d \in Nat
      BY DEF Id
<1>2. change[j].path \in Path
      <2>1. Seen(j) /\ change[j].event \in Id
            BY RunAssumption DEF FirstReport, Numbering, Id
      <2> QED BY <2>1 DEF Numbering
<1>3. PICK e \in Id : event[e].stage = "done" /\ event[e].path = change[j].path
      BY <1>2 DEF Recorded
<1>4. Seen(e) /\ change[e].path = change[j].path
      <2>1. e <= n /\ change[e].event = e /\ e # 0
            BY <1>3 DEF Numbering, Id
      <2>2. Seen(e)
            BY <2>1 DEF Seen, Id
      <2> QED BY <1>3, <2>1, <2>2 DEF Numbering
<1>5. ~(e < j)
      BY <1>1, <1>4 DEF FirstReport, Id
<1>6. change[i].event \in 1 .. i /\ event[change[i].event].stage # "none"
      BY DEF Numbering
<1>7. change[i].event \in Id /\ change[i].event < e
      BY <1>1, <1>5, <1>6, RunAssumption DEF Id
<1> QED BY <1>3, <1>6, <1>7 DEF Ordered, Follows

(* The journal of a run, however it is cut short, is a prefix of what was  *)
(* reported to its monitor, less what did not resolve or was refused.      *)
THEOREM NoGapsAlways == Spec => []NoGaps
<1>1. RunInv => NoGaps
      <2> SUFFICES ASSUME RunInv, NEW j \in Id, FirstReport(j),
                          Journalled(change[j].path),
                          NEW i \in Id, i < j, Seen(i), ~LeftOut(i)
                   PROVE  Journalled(change[i].path)
          BY DEF NoGaps
      <2>1. event[change[i].event].stage = "done" /\ change[i].event \in Id
            BY RecordedBefore DEF LeftOut, Through
      <2>2. event[change[i].event].path = change[i].path
            BY DEF RunInv, Numbering
      <2>3. <<change[i].path, OperationOf(event[change[i].event].ops)>> \in journal
            BY <2>1, <2>2 DEF RunInv, Recorded
      <2>4. OperationOf(event[change[i].event].ops) \in Op
            BY OperationType
      <2> QED BY <2>3, <2>4 DEF Journalled
<1> QED BY <1>1, RunInvariant, PTL

(* In that, what the command created is recorded as created, whatever else *)
(* an event says that the creation was merged into.                        *)
THEOREM CreationsKeptAlways == Spec => []CreationsKept
<1>1. RunInv => CreationsKept
      <2> SUFFICES ASSUME RunInv, NEW j \in Id, FirstReport(j),
                          Journalled(change[j].path),
                          NEW i \in Id, i < j, Seen(i), change[i].op = "create",
                          ~LeftOut(i)
                   PROVE  <<change[i].path, "create">> \in journal
          BY DEF CreationsKept
      <2>1. event[change[i].event].stage = "done" /\ change[i].event \in Id
            BY RecordedBefore DEF LeftOut, Through
      <2>2. /\ event[change[i].event].path = change[i].path
            /\ "create" \in event[change[i].event].ops
            BY DEF RunInv, Numbering
      <2>3. OperationOf(event[change[i].event].ops) = "create"
            BY <2>2 DEF OperationOf, MaskToOperation
      <2> QED BY <2>1, <2>2, <2>3 DEF RunInv, Recorded
<1> QED BY <1>1, RunInvariant, PTL
=============================================================================
