---------------------------- MODULE RegistryProofs ---------------------------
(* The registry of Registry.tla, for any number of apps, executables,      *)
(* clients, transactions, kills and failing marks.                         *)
EXTENDS Registry, TLAPS

(* Txids are given out in order, and refer to transactions that exist.     *)
TxidsExist ==
    /\ \A t \in Tx : t > last => tx[t] = "none" /\ closings[t] = 0
    /\ \A a \in App : /\ row[a].bucket \in 0 .. last /\ view[a].bucket \in 0 .. last
                      /\ row[a].status # "absent" => row[a].bucket # 0
                      /\ view[a].status # "absent" => view[a].bucket # 0
    /\ \A c \in Client : client[c].step \in {"loaded", "executing"} =>
                             client[c].bucket \in 1 .. last

(* No two apps share a bucket.                                             *)
BucketsDiffer ==
    \A a, b \in App : a # b /\ row[a].status # "absent" /\ row[b].status # "absent" =>
                          row[a].bucket # row[b].bucket

(* Who waits or is answered named an app; who is served waits.             *)
AppsNamed ==
    /\ IF serving.step = "none" THEN serving = NoRequest ELSE serving.app \in App
    /\ serving.client \in Client =>
           /\ client[serving.client].step = "waiting"
           /\ client[serving.client].app = serving.app
    /\ \A c \in Client : client[c].step \in {"waiting", "closed"} => client[c].app \in App

(* How far the request being served has got.                               *)
Progress ==
    /\ serving.step \in {"created", "opened"} =>
           /\ serving.bucket = last /\ last \in Tx /\ closings[last] = 0
           /\ \A a \in App : row[a].bucket < last
    /\ serving.step = "opened" => tx[last] \in {"tracking", "rolled_back"}
    /\ serving.step \in {"recorded", "visible"} =>
           /\ row[serving.app].status = "tracking"
           /\ row[serving.app].bucket = serving.bucket /\ serving.bucket \in Tx
    /\ serving.step = "visible" =>
           view[serving.app] = row[serving.app] \/ serving.app \in heldUp
    /\ serving.step = "closed" =>
           /\ row[serving.app].status = "tracking"
           /\ tx[serving.bucket] \in {"untracked", "rolled_back"}
    /\ serving.step \in {"retired", "unwatched"} => row[serving.app].status = "untracked"
    /\ serving.step \in {"closed", "retired", "unwatched"} =>
           /\ row[serving.app].bucket = serving.bucket
           /\ serving.bucket \in Tx /\ closings[serving.bucket] = 0

(* What is watched is tracked, or about to be unwatched.                   *)
WatchSound ==
    /\ ~up => serving = NoRequest
    /\ \A e \in Exe : watch[e] # Unwatched =>
           /\ e \in marks
           /\ \/ row[watch[e][1]].status = "tracking"
              \/ serving.step = "retired" /\ watch[e][1] = serving.app

(* The view lags behind the database, and behind an answer only if a       *)
(* checkpoint was held up.                                                 *)
ViewBetween ==
    \A a \in App : /\ NotOlder(row[a], view[a]) /\ NotOlder(row[a], told[a])
                   /\ a \notin heldUp => NotOlder(view[a], told[a])

(* A bucket that a client was told is closed is no tracked app's.          *)
ClosedRetired ==
    \A t \in Tx : /\ closings[t] <= 1
                  /\ closings[t] > 0 => \A a \in App : row[a].bucket = t =>
                                            row[a].status # "tracking"

RegistryInv == /\ TypeOK /\ TxidsExist /\ BucketsDiffer /\ AppsNamed /\ Progress
               /\ RegistryOrder /\ WatchSound /\ ViewBetween /\ ClosedRetired

-----------------------------------------------------------------------------
(* What becomes of the records of clients and of the request served.       *)

LEMMA StartRecords ==
    /\ 0 \in 0 .. MaxTx /\ Idle \in CommandState /\ Idle.step = "idle"
    /\ NoRequest \in RequestState /\ NoRequest.step = "none"
    /\ NoRequest.client \notin Client
<1>1. 0 \in 0 .. MaxTx
      BY RegistryAssumption
<1> QED BY <1>1, RegistryAssumption DEF Idle, NoRequest, CommandState, RequestState,
           ClientStep, ServingStep, Kind

LEMMA EngineStarts ==
    ASSUME NEW t \in 0 .. MaxTx
    PROVE  Engine(t) \in CommandState /\ Engine(t).step = "loaded" /\ Engine(t).bucket = t
BY DEF Engine, CommandState, ClientStep, Kind

LEMMA RequestUpdates ==
    ASSUME NEW r \in RequestState, NEW s \in ServingStep, NEW b \in 0 .. MaxTx,
           NEW R \in SUBSET Exe
    PROVE  /\ [r EXCEPT !.step = s] \in RequestState
           /\ [r EXCEPT !.step = s, !.bucket = b] \in RequestState
           /\ [r EXCEPT !.step = s, !.bucket = b, !.paths = R] \in RequestState
           /\ [r EXCEPT !.client = NoClient] \in RequestState
BY DEF RequestState

LEMMA AnswerEffect ==
    ASSUME TypeOK, AppsNamed, NEW ok \in BOOLEAN, Answer(ok)
    PROVE  /\ serving' = NoRequest /\ client' \in [Client -> CommandState]
           /\ \A d \in Client :
                  \/ client'[d] = client[d]
                  \/ client'[d].step = "idle"
                  \/ client'[d].step = "closed" /\ client'[d].app \in App
           /\ \A d \in Client : client'[d].step \in {"loaded", "executing"} =>
                  client'[d] = client[d]
<1>1. \A d \in Client :
         /\ client'[d] = IF d # serving.client THEN client[d]
                         ELSE IF ok /\ client[d].kind = "rollback"
                         THEN [client[d] EXCEPT !.step = "closed"] ELSE Idle
         /\ client[d] \in CommandState
      BY DEF Answer, TypeOK
<1>2. ASSUME NEW d \in Client, d = serving.client
      PROVE  /\ client'[d] \in CommandState
             /\ \/ client'[d].step = "idle"
                \/ client'[d].step = "closed" /\ client'[d].app \in App
      <2>1. client[d].app \in App
            BY <1>2 DEF AppsNamed
      <2>2. CASE ok /\ client[d].kind = "rollback"
            BY <1>1, <1>2, <2>1, <2>2 DEF CommandState, ClientStep
      <2>3. CASE ~(ok /\ client[d].kind = "rollback")
            BY <1>1, <1>2, <2>3, StartRecords
      <2> QED BY <2>2, <2>3
<1>3. client' \in [Client -> CommandState]
      BY <1>1, <1>2 DEF Answer
<1> QED BY <1>1, <1>2, <1>3 DEF Answer


LEMMA InitInv == Init => RegistryInv
<1> SUFFICES ASSUME Init PROVE RegistryInv
    OBVIOUS
<1> USE RegistryAssumption DEF Init
<1>1. TypeOK
      BY StartRecords DEF TypeOK, Tx, TxStatus, Row, Absent
<1>2. TxidsExist /\ BucketsDiffer /\ RegistryOrder /\ ViewBetween /\ ClosedRetired
      BY DEF TxidsExist, BucketsDiffer, RegistryOrder, ViewBetween, ClosedRetired,
         NotOlder, Absent, Idle, Tx
<1>3. AppsNamed /\ Progress /\ WatchSound
      BY DEF AppsNamed, Progress, WatchSound, NoRequest, Idle
<1> QED BY <1>1, <1>2, <1>3 DEF RegistryInv

-----------------------------------------------------------------------------
(* Clients.  They leave the daemon alone, and the database but for Finish. *)

LEMMA ClientFrame ==
    ASSUME RegistryInv, UNCHANGED <<last, row, view, daemon, ghosts>>,
           tx' = tx \/ \E t \in Tx : t <= last /\ tx' = [tx EXCEPT ![t] = "rolled_back"]
    PROVE  BucketsDiffer' /\ Progress' /\ RegistryOrder' /\ WatchSound' /\ ViewBetween'
           /\ ClosedRetired'
<1> USE DEF RegistryInv, daemon, ghosts
<1>1. BucketsDiffer' /\ WatchSound' /\ ViewBetween' /\ ClosedRetired'
      BY DEF BucketsDiffer, WatchSound, ViewBetween, ClosedRetired
<1>2. \A t \in Tx : tx'[t] = tx[t] \/ tx'[t] = "rolled_back"
      BY DEF TypeOK
<1>3. RegistryOrder'
      BY <1>2 DEF RegistryOrder, TypeOK, TxidsExist, Row, Tx
<1>4. Progress'
      BY <1>2 DEF Progress
<1> QED BY <1>1, <1>3, <1>4

LEMMA CommandInv == ASSUME NEW c \in Client, RegistryInv, Command(c) PROVE RegistryInv'
<1> USE RegistryAssumption DEF RegistryInv, database, daemon, ghosts
<1>1. ASSUME NEW kind \in {"track", "untrack", "rollback"}, NEW a \in App, Ask(c, kind, a)
      PROVE  RegistryInv'
      <2>1. TypeOK'
            BY <1>1 DEF Ask, TypeOK, CommandState, ClientStep, Kind
      <2>2. TxidsExist' /\ AppsNamed'
            BY <1>1 DEF Ask, Idle, TxidsExist, AppsNamed, TypeOK
      <2> QED BY <1>1, <2>1, <2>2, ClientFrame DEF Ask
<1>2. CASE Load(c)
      <2>1. client[c].app \in App
            BY <1>2 DEF Load, AppsNamed, TypeOK
      <2>2. /\ client' = [client EXCEPT ![c] = client'[c]]
            /\ client'[c] \in CommandState
            /\ client'[c].step # "idle" =>
                   client'[c].step = "loaded" /\ client'[c].bucket \in 1 .. last
            <3>1. CASE view[client[c].app].status = "absent"
                  BY <1>2, <3>1, StartRecords DEF Load, TypeOK
            <3>2. CASE view[client[c].app].status # "absent"
                  <4>1. /\ view[client[c].app].bucket \in 1 .. last
                        /\ view[client[c].app].bucket \in 0 .. MaxTx
                        BY <2>1, <3>2 DEF TypeOK, TxidsExist, Row
                  <4> QED BY <1>2, <3>2, <4>1, EngineStarts DEF Load, TypeOK
            <3> QED BY <3>1, <3>2
      <2>3. TypeOK'
            BY <1>2, <2>2 DEF Load, TypeOK
      <2>4. TxidsExist' /\ AppsNamed'
            BY <1>2, <2>2 DEF Load, TypeOK, TxidsExist, AppsNamed
      <2> QED BY <1>2, <2>3, <2>4, ClientFrame DEF Load
<1>3. CASE Execute(c)
      <2>1. client[c] \in CommandState /\ client[c].bucket \in 1 .. last
            BY <1>3 DEF Execute, TypeOK, TxidsExist
      <2>2. /\ client' = [client EXCEPT ![c] = client'[c]]
            /\ client'[c] \in CommandState
            /\ client'[c].step # "idle" =>
                   client'[c].step = "executing" /\ client'[c].bucket \in 1 .. last
            <3>1. CASE tx[client[c].bucket] = "rolled_back"
                  BY <1>3, <3>1, StartRecords DEF Execute, TypeOK
            <3>2. CASE tx[client[c].bucket] # "rolled_back"
                  <4>1. /\ client'[c] = [client[c] EXCEPT !.step = "executing"]
                        /\ client' = [client EXCEPT ![c] = client'[c]]
                        BY <1>3, <3>2 DEF Execute, TypeOK
                  <4> QED BY <2>1, <4>1 DEF CommandState, ClientStep
            <3> QED BY <3>1, <3>2
      <2>3. TypeOK'
            BY <1>3, <2>2 DEF Execute, TypeOK
      <2>4. TxidsExist' /\ AppsNamed'
            BY <1>3, <2>2 DEF Execute, TypeOK, TxidsExist, AppsNamed
      <2> QED BY <1>3, <2>3, <2>4, ClientFrame DEF Execute
<1>4. CASE Finish(c)
      <2>1. client[c].bucket \in Tx /\ client[c].bucket <= last
            BY <1>4 DEF Finish, TypeOK, TxidsExist, Tx
      <2>2. TypeOK'
            BY <1>4, StartRecords DEF Finish, TypeOK, TxStatus
      <2>3. TxidsExist' /\ AppsNamed'
            BY <1>4, <2>1 DEF Finish, Idle, TypeOK, TxidsExist, AppsNamed, Tx
      <2> QED BY <1>4, <2>1, <2>2, <2>3, ClientFrame DEF Finish
<1>5. ASSUME NEW t \in Tx, Rollback(c, t) PROVE RegistryInv'
      <2>1. client' = [client EXCEPT ![c] = Engine(t)] /\ t \in 1 .. last
            BY <1>5 DEF Rollback
      <2>2. TypeOK'
            BY <1>5, <2>1, EngineStarts DEF Rollback, TypeOK, Tx
      <2>3. TxidsExist' /\ AppsNamed'
            BY <1>5, <2>1, EngineStarts DEF Rollback, Tx, Idle, TxidsExist, AppsNamed, TypeOK
      <2> QED BY <1>5, <2>2, <2>3, ClientFrame DEF Rollback
<1> QED BY <1>1, <1>2, <1>3, <1>4, <1>5 DEF Command

LEMMA AcceptInv == ASSUME NEW c \in Client, RegistryInv, Accept(c) PROVE RegistryInv'
<1> USE RegistryAssumption DEF RegistryInv, database, ghosts, Accept
<1>1. TypeOK'
      BY DEF TypeOK, AppsNamed, RequestState, ServingStep
<1>2. AppsNamed'
      BY DEF AppsNamed
<1>3. TxidsExist' /\ BucketsDiffer' /\ RegistryOrder' /\ ViewBetween' /\ ClosedRetired'
      BY DEF TxidsExist, BucketsDiffer, RegistryOrder, ViewBetween, ClosedRetired
<1>4. Progress' /\ WatchSound'
      BY DEF Progress, WatchSound
<1> QED BY <1>1, <1>2, <1>3, <1>4

LEMMA KillClientInv == ASSUME NEW c \in Client, RegistryInv, KillClient(c) PROVE RegistryInv'
<1> USE RegistryAssumption DEF RegistryInv, database, ghosts
<1>1. /\ client' = [client EXCEPT ![c] = Idle] /\ kills' \in Nat
      /\ UNCHANGED <<tx, last, row, view, up, watch, marks, told, heldUp, closings, faults>>
      BY DEF KillClient, TypeOK
<1>2. /\ serving' \in RequestState
      /\ serving'.step = serving.step /\ serving'.app = serving.app
      /\ serving'.bucket = serving.bucket
      /\ serving' # serving => serving.client = c /\ serving'.client = NoClient
      BY RequestUpdates DEF KillClient, TypeOK, RequestState
<1>3. serving.client = c => serving'.client = NoClient
      BY DEF KillClient, TypeOK, RequestState
<1>4. TypeOK'
      BY <1>1, <1>2, StartRecords DEF TypeOK
<1>5. TxidsExist' /\ BucketsDiffer' /\ RegistryOrder' /\ ViewBetween' /\ ClosedRetired'
      BY <1>1 DEF TxidsExist, BucketsDiffer, RegistryOrder, ViewBetween, ClosedRetired,
         TypeOK, Idle
<1>6. serving.step = "none" => serving' = serving
      BY <1>2 DEF AppsNamed, NoRequest
<1>7. AppsNamed'
      BY <1>1, <1>2, <1>3, <1>6 DEF AppsNamed, TypeOK, Idle
<1>8. Progress'
      BY <1>1, <1>2 DEF Progress
<1>9. WatchSound'
      BY <1>1, <1>2, <1>6 DEF WatchSound, NoRequest
<1> QED BY <1>4, <1>5, <1>7, <1>8, <1>9

-----------------------------------------------------------------------------
(* Checkpoints.                                                            *)

LEMMA NotOlderOrder ==
    ASSUME NEW r \in Row, NEW s \in Row, NEW t \in Row
    PROVE  /\ NotOlder(r, r)
           /\ NotOlder(r, s) /\ NotOlder(s, t) => NotOlder(r, t)
BY RegistryAssumption DEF NotOlder, Row

LEMMA PassiveEffect ==
    ASSUME TypeOK, NEW a \in App, Passive(a)
    PROVE  /\ view' \in [App -> Row] /\ heldUp' \subseteq App
           /\ view' = row \/ (view' = view /\ a \in heldUp')
<1>1. CASE view' = row /\ heldUp' = {}
      BY <1>1 DEF TypeOK
<1>2. CASE view' = view /\ heldUp' = heldUp \cup {a}
      BY <1>2 DEF TypeOK
<1> QED BY <1>1, <1>2 DEF Passive

LEMMA ViewCatchesUp ==
    ASSUME RegistryInv, row' = row, NEW r \in App, Passive(r),
           \A a \in App : \/ told'[a] = told[a]
                          \/ a = r /\ told'[a] = row[a]
    PROVE  ViewBetween'
<1> USE DEF RegistryInv
<1>1. ASSUME NEW a \in App
      PROVE  /\ row[a] \in Row /\ NotOlder(row[a], row[a])
             /\ NotOlder(row[a], view[a]) /\ NotOlder(row[a], told[a])
             /\ a \notin heldUp => NotOlder(view[a], told[a])
      BY NotOlderOrder DEF TypeOK, ViewBetween
<1>2. CASE view' = row
      BY <1>1, <1>2 DEF ViewBetween
<1>3. CASE view' = view /\ heldUp' = heldUp \cup {r}
      BY <1>1, <1>3 DEF ViewBetween
<1> QED BY <1>2, <1>3 DEF Passive

LEMMA CheckpointInv == ASSUME RegistryInv, Checkpoint PROVE RegistryInv'
<1> USE DEF RegistryInv
<1>1. /\ view' = row /\ heldUp' = {}
      /\ UNCHANGED <<tx, last, row, up, serving, watch, marks, client, told, closings,
                     kills, faults>>
      BY DEF Checkpoint, database, daemon
<1>2. TypeOK' /\ TxidsExist'
      BY <1>1 DEF TypeOK, TxidsExist
<1>3. /\ BucketsDiffer' /\ AppsNamed' /\ RegistryOrder' /\ WatchSound' /\ ClosedRetired'
      BY <1>1 DEF BucketsDiffer, AppsNamed, RegistryOrder, WatchSound, ClosedRetired
<1>4. Progress'
      BY <1>1 DEF Progress
<1>5. ViewBetween'
      <2>1. \A a \in App : NotOlder(row[a], row[a])
            BY NotOlderOrder DEF TypeOK
      <2> QED BY <1>1, <2>1 DEF ViewBetween
<1> QED BY <1>2, <1>3, <1>4, <1>5

-----------------------------------------------------------------------------
(* Requests to track.                                                      *)

LEMMA TrackCreateInv ==
    ASSUME NEW R \in SUBSET Exe, RegistryInv, TrackCreate(R) PROVE RegistryInv'
<1> USE RegistryAssumption DEF RegistryInv
<1>1. /\ last \in Nat /\ last + 1 \in Tx /\ last' = last + 1
      /\ tx' \in [Tx -> TxStatus] /\ \A t \in Tx : t # last + 1 => tx'[t] = tx[t]
      /\ UNCHANGED <<row, view, up, watch, marks, client, told, heldUp, closings, kills, faults>>
      BY DEF TrackCreate, TypeOK, Tx, TxStatus, ghosts
<1>2. /\ serving.step = "resolve" /\ serving'.step = "created"
      /\ serving'.bucket = last + 1
      /\ serving'.app = serving.app /\ serving'.client = serving.client
      /\ serving' \in RequestState
      <2>1. serving \in RequestState /\ last + 1 \in 0 .. MaxTx
            BY <1>1 DEF TypeOK, Tx
      <2>2. /\ serving.step = "resolve"
            /\ serving' = [serving EXCEPT !.step = "created", !.bucket = last + 1, !.paths = R]
            BY DEF TrackCreate
      <2> QED BY <2>1, <2>2 DEF RequestState, ServingStep
<1>3. TypeOK'
      BY <1>1, <1>2 DEF TypeOK, Tx
<1>4. TxidsExist' /\ Progress'
      BY <1>1, <1>2 DEF TxidsExist, Progress, TypeOK, Tx, Row
<1>5. RegistryOrder'
      BY <1>1 DEF RegistryOrder, TxidsExist, TypeOK, Tx
<1>6. BucketsDiffer' /\ AppsNamed' /\ WatchSound' /\ ViewBetween' /\ ClosedRetired'
      BY <1>1, <1>2, StartRecords DEF BucketsDiffer, AppsNamed, WatchSound, ViewBetween,
         ClosedRetired
<1> QED BY <1>3, <1>4, <1>5, <1>6

LEMMA TrackOpenInv == ASSUME RegistryInv, TrackOpen PROVE RegistryInv'
<1> USE RegistryAssumption DEF RegistryInv
<1>1. /\ serving.step = "created" /\ serving'.step = "opened"
      /\ serving'.bucket = serving.bucket
      /\ serving'.app = serving.app /\ serving'.client = serving.client
      /\ serving' \in RequestState
      BY DEF TrackOpen, Step, TypeOK, RequestState, ServingStep
<1>2. serving.bucket = last /\ last \in Tx
      BY <1>1 DEF Progress
<1>3. /\ tx' \in [Tx -> TxStatus] /\ tx'[last] = "tracking"
      /\ \A t \in Tx : t # last => tx'[t] = tx[t]
      /\ UNCHANGED <<last, row, view, up, watch, marks, client, told, heldUp, closings, kills, faults>>
      BY <1>2 DEF TrackOpen, TypeOK, TxStatus, ghosts
<1>4. TypeOK'
      BY <1>1, <1>3 DEF TypeOK
<1>5. TxidsExist' /\ Progress'
      BY <1>1, <1>2, <1>3 DEF TxidsExist, Progress, TypeOK, Tx
<1>6. RegistryOrder'
      BY <1>1, <1>2, <1>3 DEF RegistryOrder, TxidsExist, Progress, TypeOK, Row, Tx
<1>7. BucketsDiffer' /\ AppsNamed' /\ WatchSound' /\ ViewBetween' /\ ClosedRetired'
      BY <1>1, <1>3, StartRecords DEF BucketsDiffer, AppsNamed, WatchSound, ViewBetween,
         ClosedRetired
<1> QED BY <1>4, <1>5, <1>6, <1>7

LEMMA TrackRowInv == ASSUME RegistryInv, TrackRow PROVE RegistryInv'
<1> USE RegistryAssumption DEF RegistryInv
<1>1. /\ serving.step = "opened" /\ serving'.step = "recorded"
      /\ serving'.bucket = serving.bucket
      /\ serving'.app = serving.app /\ serving'.client = serving.client
      /\ serving.app \in App /\ serving' \in RequestState
      BY DEF TrackRow, Step, TypeOK, RequestState, ServingStep, AppsNamed
<1>2. /\ serving.bucket = last /\ last \in Tx /\ closings[last] = 0
      /\ \A a \in App : row[a].bucket < last /\ row[a].bucket # last
      BY <1>1 DEF Progress, TypeOK, Row, Tx
<1>3. /\ row'[serving.app].status = "tracking" /\ row'[serving.app].bucket = last
      /\ \A a \in App : a # serving.app => row'[a] = row[a]
      /\ row' \in [App -> Row]
      /\ UNCHANGED <<tx, last, view, up, watch, marks, client, told, heldUp, closings, kills, faults>>
      BY <1>1, <1>2 DEF TrackRow, TypeOK, Row, RequestState, ghosts
<1>4. TypeOK'
      BY <1>1, <1>3 DEF TypeOK
<1>5. TxidsExist' /\ Progress'
      <2>1. \A d \in App : row'[d].bucket \in 0 .. last /\
                           (row'[d].status # "absent" => row'[d].bucket # 0)
            BY <1>2, <1>3 DEF TxidsExist, Tx
      <2>2. TxidsExist'
            BY <1>3, <2>1 DEF TxidsExist
      <2>3. Progress'
            BY <1>1, <1>2, <1>3 DEF Progress
      <2> QED BY <2>2, <2>3
<1>6. RegistryOrder'
      BY <1>1, <1>2, <1>3 DEF RegistryOrder, Progress
<1>7. BucketsDiffer' /\ ClosedRetired'
      BY <1>1, <1>2, <1>3 DEF BucketsDiffer, ClosedRetired
<1>8. AppsNamed' /\ WatchSound'
      <2>1. \A e \in Exe : watch[e] # Unwatched => watch[e][1] \in App
            BY DEF TypeOK
      <2> QED BY <1>1, <1>3, <2>1, StartRecords DEF AppsNamed, WatchSound
<1>9. ViewBetween'
      <2>1. /\ row[serving.app] \in Row /\ view[serving.app] \in Row
            /\ NotOlder(row[serving.app], view[serving.app])
            BY <1>1 DEF TypeOK, ViewBetween
      <2>2. view[serving.app].bucket < last
            BY <1>1, <1>2, <2>1 DEF NotOlder, Row, Tx
      <2>3. /\ told[serving.app] \in Row /\ NotOlder(row[serving.app], told[serving.app])
            BY <1>1 DEF TypeOK, ViewBetween
      <2>4. told[serving.app].bucket < last
            BY <1>1, <1>2, <2>1, <2>3 DEF NotOlder, Row, Tx
      <2>5. /\ NotOlder(row'[serving.app], view[serving.app])
            /\ NotOlder(row'[serving.app], told[serving.app])
            BY <1>3, <2>2, <2>4 DEF NotOlder
      <2> QED BY <1>3, <2>5 DEF ViewBetween
<1> QED BY <1>4, <1>5, <1>6, <1>7, <1>8, <1>9

LEMMA TrackCheckpointInv == ASSUME RegistryInv, TrackCheckpoint PROVE RegistryInv'
<1> USE RegistryAssumption DEF RegistryInv
<1>1. /\ serving.step = "recorded" /\ serving'.step = "visible"
      /\ serving'.bucket = serving.bucket
      /\ serving'.app = serving.app /\ serving'.client = serving.client
      /\ serving.app \in App /\ serving' \in RequestState
      BY DEF TrackCheckpoint, Step, TypeOK, RequestState, ServingStep, AppsNamed
<1>2. /\ Passive(serving.app)
      /\ UNCHANGED <<tx, last, row, up, watch, marks, client, told, closings, kills, faults>>
      BY DEF TrackCheckpoint, database
<1>3. /\ view' \in [App -> Row] /\ heldUp' \subseteq App
      /\ view' = row \/ (view' = view /\ serving.app \in heldUp')
      BY <1>1, <1>2, PassiveEffect
<1>4. TypeOK' /\ TxidsExist'
      BY <1>1, <1>2, <1>3 DEF TypeOK, TxidsExist
<1>5. Progress'
      BY <1>1, <1>2, <1>3 DEF Progress
<1>6. BucketsDiffer' /\ AppsNamed' /\ RegistryOrder' /\ WatchSound' /\ ClosedRetired'
      BY <1>1, <1>2, StartRecords DEF BucketsDiffer, AppsNamed, RegistryOrder, WatchSound,
         ClosedRetired
<1>7. ViewBetween'
      BY <1>1, <1>2, ViewCatchesUp
<1> QED BY <1>4, <1>5, <1>6, <1>7

(* Two ways to leave the request alone and answer.                         *)
LEMMA AnswerInv ==
    ASSUME RegistryInv, NEW ok \in BOOLEAN, Answer(ok), UNCHANGED <<last, row, view, up>>,
           \A t \in Tx : t > last => tx'[t] = tx[t] /\ closings'[t] = closings[t]
    PROVE  /\ serving' = NoRequest /\ client' \in [Client -> CommandState]
           /\ TxidsExist' /\ BucketsDiffer' /\ AppsNamed' /\ Progress'
<1> USE DEF RegistryInv
<1>1. /\ serving' = NoRequest /\ client' \in [Client -> CommandState]
      /\ \A d \in Client :
             \/ client'[d] = client[d]
             \/ client'[d].step = "idle"
             \/ client'[d].step = "closed" /\ client'[d].app \in App
      BY AnswerEffect
<1>2. TxidsExist' /\ BucketsDiffer'
      BY <1>1 DEF TxidsExist, BucketsDiffer
<1>3. AppsNamed' /\ Progress'
      BY <1>1, StartRecords DEF AppsNamed, Progress
<1> QED BY <1>1, <1>2, <1>3

LEMMA RefusedInv == ASSUME RegistryInv, TrackRefused \/ UntrackRefused PROVE RegistryInv'
<1> USE DEF RegistryInv
<1>1. /\ Answer(FALSE) /\ serving.step # "retired"
      /\ UNCHANGED <<tx, last, row, view, up, watch, marks, told, heldUp, closings, kills, faults>>
      BY DEF TrackRefused, UntrackRefused, database, ghosts
<1>2. /\ serving' = NoRequest /\ client' \in [Client -> CommandState]
      /\ TxidsExist' /\ BucketsDiffer' /\ AppsNamed' /\ Progress'
      BY <1>1, AnswerInv
<1>3. TypeOK'
      BY <1>1, <1>2, StartRecords DEF TypeOK
<1>4. RegistryOrder' /\ WatchSound' /\ ViewBetween' /\ ClosedRetired'
      BY <1>1, <1>2 DEF RegistryOrder, WatchSound, ViewBetween, ClosedRetired
<1> QED BY <1>2, <1>3, <1>4

LEMMA TrackWatchInv ==
    ASSUME NEW skipped \in SUBSET Exe, RegistryInv, TrackWatch(skipped) PROVE RegistryInv'
<1> USE RegistryAssumption DEF RegistryInv
<1>1. /\ serving.step = "visible" /\ Answer(TRUE)
      /\ UNCHANGED <<tx, last, row, view, up, heldUp, closings, kills>>
      BY DEF TrackWatch, database
<1>2. /\ serving' = NoRequest /\ client' \in [Client -> CommandState]
      /\ TxidsExist' /\ BucketsDiffer' /\ AppsNamed' /\ Progress'
      BY <1>1, AnswerInv
<1>3. /\ serving.app \in App /\ serving.bucket \in Tx
      /\ row[serving.app].status = "tracking"
      /\ view[serving.app] = row[serving.app] \/ serving.app \in heldUp
      BY <1>1, StartRecords DEF Progress, AppsNamed
<1>4. /\ \A e \in Exe : \/ watch'[e] = watch[e]
                        \/ watch'[e] = <<serving.app, serving.bucket>> /\ e \in marks'
      /\ watch' \in [Exe -> (App \X Tx) \cup {Unwatched}]
      /\ marks \subseteq marks' /\ marks' \subseteq Exe
      <2> DEFINE armed == serving.paths \ skipped
      <2>1. /\ watch' = [e \in Exe |-> IF e \in armed THEN <<serving.app, serving.bucket>>
                                       ELSE watch[e]]
            /\ marks' = marks \cup armed
            BY DEF TrackWatch
      <2>2. armed \subseteq Exe
            BY DEF TypeOK, RequestState
      <2> HIDE DEF armed
      <2>3. watch' \in [Exe -> (App \X Tx) \cup {Unwatched}]
            BY <1>3, <2>1 DEF TypeOK
      <2> QED BY <2>1, <2>2, <2>3 DEF TypeOK
<1>5. /\ told' = [told EXCEPT ![serving.app] = row[serving.app]]
      /\ told' \in [App -> Row] /\ faults' \in Nat
      BY <1>3 DEF TrackWatch, MayFail, TypeOK
<1>6. TypeOK'
      BY <1>1, <1>2, <1>4, <1>5, StartRecords DEF TypeOK
<1>7. RegistryOrder' /\ ClosedRetired'
      BY <1>1 DEF RegistryOrder, ClosedRetired
<1>8. WatchSound'
      BY <1>1, <1>2, <1>3, <1>4 DEF WatchSound
<1>9. ViewBetween'
      <2>1. NotOlder(row[serving.app], row[serving.app])
            BY <1>3, NotOlderOrder DEF TypeOK
      <2> QED BY <1>1, <1>3, <1>5, <2>1 DEF ViewBetween, TypeOK
<1> QED BY <1>2, <1>6, <1>7, <1>8, <1>9

-----------------------------------------------------------------------------
(* Requests to untrack.                                                    *)

LEMMA UntrackCloseInv == ASSUME RegistryInv, UntrackClose PROVE RegistryInv'
<1> USE RegistryAssumption DEF RegistryInv
<1> DEFINE bucket == row[serving.app].bucket
<1>1. /\ serving.step = "check" /\ serving.app \in App
      /\ row[serving.app].status = "tracking"
      BY StartRecords DEF UntrackClose, IsTracked, AppsNamed
<1>2. bucket \in Tx /\ bucket <= last /\ closings[bucket] = 0
      <2>1. bucket \in 0 .. MaxTx /\ bucket # 0 /\ bucket \in 0 .. last
            BY <1>1 DEF TypeOK, TxidsExist, Row
      <2>2. bucket \in Tx /\ bucket <= last
            BY <2>1 DEF TypeOK, Tx
      <2>3. closings[bucket] \in Nat /\ ~(closings[bucket] > 0)
            BY <1>1, <2>2 DEF ClosedRetired, TypeOK
      <2> QED BY <2>2, <2>3
<1>3. /\ serving' = [serving EXCEPT !.step = "closed", !.bucket = bucket]
      /\ tx' = [tx EXCEPT ![bucket] = "untracked"]
      /\ UNCHANGED <<last, row, view, up, watch, marks, client, told, heldUp, closings, kills, faults>>
      BY DEF UntrackClose, Close, ghosts
<1> HIDE DEF bucket
<1>4. /\ serving'.step = "closed" /\ serving'.bucket = bucket
      /\ serving'.app = serving.app /\ serving'.client = serving.client
      /\ serving' \in RequestState
      <2>1. serving \in RequestState /\ bucket \in 0 .. MaxTx
            BY <1>2 DEF TypeOK, Tx
      <2> QED BY <1>3, <2>1 DEF RequestState, ServingStep
<1>5. /\ tx' \in [Tx -> TxStatus] /\ tx'[bucket] = "untracked"
      /\ \A t \in Tx : t # bucket => tx'[t] = tx[t]
      BY <1>2, <1>3 DEF TypeOK, TxStatus
<1>6. TypeOK'
      BY <1>3, <1>4, <1>5 DEF TypeOK
<1>7. TxidsExist'
      BY <1>2, <1>3, <1>5 DEF TxidsExist, TypeOK, Tx
<1>8. Progress'
      BY <1>1, <1>2, <1>3, <1>4, <1>5 DEF Progress, bucket
<1>9. RegistryOrder'
      <2>1. \A a \in App : row[a].status # "absent" => row[a].bucket \in Tx
            BY DEF TypeOK, TxidsExist, Row, Tx
      <2> QED BY <1>3, <1>5, <2>1 DEF RegistryOrder
<1>10. BucketsDiffer' /\ AppsNamed' /\ WatchSound' /\ ViewBetween' /\ ClosedRetired'
      BY <1>1, <1>3, <1>4, StartRecords DEF BucketsDiffer, AppsNamed, WatchSound,
         ViewBetween, ClosedRetired
<1> QED BY <1>6, <1>7, <1>8, <1>9, <1>10

LEMMA UntrackRetireInv == ASSUME RegistryInv, UntrackRetire PROVE RegistryInv'
<1> USE RegistryAssumption DEF RegistryInv
<1>1. /\ serving.step = "closed" /\ serving'.step = "retired"
      /\ serving'.bucket = serving.bucket
      /\ serving'.app = serving.app /\ serving'.client = serving.client
      /\ serving.app \in App /\ serving' \in RequestState
      BY DEF UntrackRetire, Step, TypeOK, RequestState, ServingStep, AppsNamed
<1>2. /\ row[serving.app].status = "tracking" /\ row[serving.app].bucket = serving.bucket
      /\ tx[serving.bucket] \in {"untracked", "rolled_back"}
      BY <1>1 DEF Progress
<1>3. /\ row' = [row EXCEPT ![serving.app] = [row[serving.app] EXCEPT !.status = "untracked"]]
      /\ UNCHANGED <<tx, last, view, up, watch, marks, client, told, heldUp, closings, kills, faults>>
      BY DEF UntrackRetire, Retire, ghosts
<1>4. /\ row'[serving.app].status = "untracked" /\ row' \in [App -> Row]
      /\ \A a \in App : row'[a].bucket = row[a].bucket
      /\ \A a \in App : a # serving.app => row'[a] = row[a]
      <2>1. row \in [App -> Row] /\ row[serving.app] \in Row
            BY <1>1 DEF TypeOK
      <2>2. row'[serving.app] = [row[serving.app] EXCEPT !.status = "untracked"]
            BY <1>1, <1>3, <2>1
      <2>3. /\ row'[serving.app] \in Row /\ row'[serving.app].status = "untracked"
            /\ row'[serving.app].bucket = row[serving.app].bucket
            BY <2>1, <2>2 DEF Row
      <2> QED BY <1>1, <1>3, <2>1, <2>3
<1>5. \A a \in App : row[a].status = "absent" <=> row'[a].status = "absent"
      BY <1>2, <1>4
<1>6. TypeOK'
      BY <1>1, <1>3, <1>4 DEF TypeOK
<1>7. TxidsExist' /\ BucketsDiffer'
      <2> HIDE <1>1
      <2> QED BY ONLY <1>3, <1>4, <1>5, TxidsExist, BucketsDiffer
              DEF TxidsExist, BucketsDiffer, ghosts
<1>8. AppsNamed' /\ Progress'
      BY <1>1, <1>2, <1>3, <1>4, StartRecords DEF AppsNamed, Progress
<1>9. RegistryOrder'
      BY <1>1, <1>2, <1>3, <1>4 DEF RegistryOrder
<1>10. WatchSound'
      <2>1. \A e \in Exe : watch[e] # Unwatched => watch[e][1] \in App
            BY DEF TypeOK
      <2> QED BY <1>1, <1>3, <1>4, <2>1, StartRecords DEF WatchSound
<1>11. ViewBetween'
      BY <1>3, <1>4 DEF ViewBetween, NotOlder
<1>12. ClosedRetired'
      BY <1>3, <1>4 DEF ClosedRetired
<1> QED BY <1>6, <1>7, <1>8, <1>9, <1>10, <1>11, <1>12

LEMMA UntrackUnwatchInv ==
    ASSUME NEW kept \in SUBSET Exe, RegistryInv, UntrackUnwatch(kept) PROVE RegistryInv'
<1> USE RegistryAssumption DEF RegistryInv
<1>1. /\ serving.step = "retired" /\ serving'.step = "unwatched"
      /\ serving'.bucket = serving.bucket
      /\ serving'.app = serving.app /\ serving'.client = serving.client
      /\ serving' \in RequestState
      BY DEF UntrackUnwatch, Step, TypeOK, RequestState, ServingStep
<1>2. /\ \A e \in Exe : \/ watch'[e] = Unwatched
                        \/ watch'[e] = watch[e] /\ watch[e][1] # serving.app
                           /\ (e \in marks => e \in marks')
      /\ watch' \in [Exe -> (App \X Tx) \cup {Unwatched}] /\ marks' \subseteq marks
      BY DEF UntrackUnwatch, EntriesOf, TypeOK
<1>3. /\ UNCHANGED <<tx, last, row, view, up, client, told, heldUp, closings, kills>>
      /\ faults' \in Nat
      BY DEF UntrackUnwatch, MayFail, TypeOK, database, ghosts
<1>4. TypeOK'
      BY <1>1, <1>2, <1>3 DEF TypeOK
<1>5. WatchSound'
      BY <1>1, <1>2, <1>3, StartRecords DEF WatchSound
<1>6. /\ TxidsExist' /\ BucketsDiffer' /\ AppsNamed' /\ Progress' /\ RegistryOrder'
      /\ ViewBetween' /\ ClosedRetired'
      BY <1>1, <1>2, <1>3, StartRecords DEF TxidsExist, BucketsDiffer, AppsNamed, Progress,
         RegistryOrder, ViewBetween, ClosedRetired
<1> QED BY <1>4, <1>5, <1>6

LEMMA UntrackReplyInv == ASSUME RegistryInv, UntrackReply PROVE RegistryInv'
<1> USE RegistryAssumption DEF RegistryInv
<1>1. /\ serving.step = "unwatched" /\ Answer(TRUE) /\ Passive(serving.app)
      /\ UNCHANGED <<tx, last, row, up, watch, marks, kills, faults>>
      BY DEF UntrackReply, PostUntrackCheckpoint, database
<1>2. /\ serving.app \in App /\ serving.bucket \in Tx
      /\ row[serving.app].status = "untracked"
      /\ row[serving.app].bucket = serving.bucket /\ closings[serving.bucket] = 0
      /\ serving.bucket <= last
      BY <1>1, StartRecords DEF Progress, AppsNamed, TxidsExist, Tx
<1>3. /\ closings' \in [Tx -> Nat] /\ closings'[serving.bucket] = 1
      /\ \A t \in Tx : t # serving.bucket => closings'[t] = closings[t]
      BY <1>2 DEF UntrackReply, TypeOK
<1>4. /\ told' \in [App -> Row]
      /\ \A a \in App : \/ told'[a] = told[a]
                        \/ a = serving.app /\ told'[a] = row[a]
      /\ view' \in [App -> Row] /\ heldUp' \subseteq App
      /\ view' = row \/ view' = view
      BY <1>1, <1>2, PassiveEffect DEF UntrackReply, TypeOK
<1>5. /\ serving' = NoRequest /\ client' \in [Client -> CommandState]
      /\ \A d \in Client :
             \/ client'[d] = client[d]
             \/ client'[d].step = "idle"
             \/ client'[d].step = "closed" /\ client'[d].app \in App
      BY <1>1, AnswerEffect
<1>6. TypeOK'
      BY <1>1, <1>3, <1>4, <1>5, StartRecords DEF TypeOK
<1>7. TxidsExist' /\ BucketsDiffer'
      <2>1. \A t \in Tx : t > last => tx[t] = "none" /\ closings'[t] = 0
            BY <1>2, <1>3 DEF TxidsExist, TypeOK, Tx
      <2> QED BY <1>1, <1>4, <1>5, <2>1 DEF TxidsExist, BucketsDiffer
<1>8. AppsNamed' /\ Progress'
      BY <1>5, StartRecords DEF AppsNamed, Progress
<1>9. RegistryOrder' /\ WatchSound'
      BY <1>1, <1>5 DEF RegistryOrder, WatchSound
<1>10. ViewBetween'
      BY <1>1, <1>2, <1>4, ViewCatchesUp
<1>11. ClosedRetired'
      BY <1>1, <1>2, <1>3 DEF ClosedRetired, BucketsDiffer
<1> QED BY <1>6, <1>7, <1>8, <1>9, <1>10, <1>11

-----------------------------------------------------------------------------
(* The daemon is killed and starts.                                        *)

LEMMA KillDaemonInv == ASSUME RegistryInv, KillDaemon PROVE RegistryInv'
<1> USE RegistryAssumption DEF RegistryInv
<1>1. /\ serving' = NoRequest /\ up' = FALSE /\ kills' = kills + 1
      /\ watch' = [e \in Exe |-> Unwatched] /\ marks' = {}
      /\ UNCHANGED <<tx, last, row, view, told, heldUp, closings, faults>>
      BY DEF KillDaemon, database, ghosts
<1>2. /\ client' \in [Client -> CommandState]
      /\ \A c \in Client : client'[c] = client[c] \/ client'[c].step = "idle"
      BY StartRecords DEF KillDaemon, TypeOK
<1>3. TypeOK'
      <2>1. watch' \in [Exe -> (App \X Tx) \cup {Unwatched}]
            BY <1>1
      <2>2. up' \in BOOLEAN
            BY <1>1
      <2>3. kills' \in Nat
            BY <1>1 DEF TypeOK
      <2> QED BY <1>1, <1>2, <2>1, <2>2, <2>3, StartRecords DEF TypeOK
<1>4. TxidsExist' /\ BucketsDiffer'
      BY <1>1, <1>2 DEF TxidsExist, BucketsDiffer
<1>5. AppsNamed' /\ Progress' /\ WatchSound'
      BY <1>1, <1>2, StartRecords DEF AppsNamed, Progress, WatchSound
<1>6. RegistryOrder' /\ ViewBetween' /\ ClosedRetired'
      BY <1>1 DEF RegistryOrder, ViewBetween, ClosedRetired
<1> QED BY <1>3, <1>4, <1>5, <1>6

LEMMA StartDaemonInv ==
    ASSUME NEW skipped \in SUBSET (App \X Exe), RegistryInv, StartDaemon(skipped)
    PROVE  RegistryInv'
<1> USE RegistryAssumption DEF RegistryInv
<1> DEFINE Armed(e) == {<<a, row[a].bucket>> :
                a \in {b \in ListTracked : e \in row[b].paths /\ <<b, e>> \notin skipped}}
<1>1. /\ up' = TRUE /\ faults' \in Nat
      /\ UNCHANGED <<tx, last, row, view, serving, client, told, heldUp, closings, kills>>
      BY DEF StartDaemon, MayFail, TypeOK, database, ghosts
<1>2. /\ DOMAIN watch' = Exe /\ watch' = [e \in Exe |-> watch'[e]]
      /\ \A e \in Exe : IF Armed(e) = {} THEN watch'[e] = Unwatched ELSE watch'[e] \in Armed(e)
      /\ marks' = {e \in Exe : Armed(e) # {}}
      BY DEF StartDaemon
<1>3. \A e \in Exe : \A p \in Armed(e) :
          p \in App \X Tx /\ row[p[1]].status = "tracking"
      <2>1. \A a \in ListTracked : /\ a \in App /\ row[a].status = "tracking"
                                   /\ row[a].bucket \in Tx
            BY DEF ListTracked, TypeOK, TxidsExist, Row, Tx
      <2>2. \A e \in Exe : \A p \in Armed(e) :
                \E a \in ListTracked : p = <<a, row[a].bucket>>
            OBVIOUS
      <2>3. ASSUME NEW e \in Exe, NEW p \in Armed(e)
            PROVE  p \in App \X Tx /\ row[p[1]].status = "tracking"
            <3>1. PICK a \in ListTracked : p = <<a, row[a].bucket>>
                  BY <2>2
            <3> QED BY <2>1, <3>1
      <2> QED BY <2>3
<1> HIDE DEF Armed
<1>4. /\ watch' \in [Exe -> (App \X Tx) \cup {Unwatched}] /\ marks' \subseteq Exe
      /\ \A e \in Exe : watch'[e] # Unwatched =>
             e \in marks' /\ row[watch'[e][1]].status = "tracking"
      BY <1>2, <1>3
<1>5. TypeOK'
      BY <1>1, <1>4 DEF TypeOK
<1>6. WatchSound'
      BY <1>1, <1>4 DEF WatchSound
<1>7. /\ TxidsExist' /\ BucketsDiffer' /\ AppsNamed' /\ Progress' /\ RegistryOrder'
      /\ ViewBetween' /\ ClosedRetired'
      BY <1>1 DEF TxidsExist, BucketsDiffer, AppsNamed, Progress, RegistryOrder,
         ViewBetween, ClosedRetired
<1> QED BY <1>5, <1>6, <1>7

-----------------------------------------------------------------------------
LEMMA NextInv == RegistryInv /\ [Next]_vars => RegistryInv'
<1> SUFFICES ASSUME RegistryInv, [Next]_vars PROVE RegistryInv'
    OBVIOUS
<1>1. CASE Serve
      BY <1>1, TrackCreateInv, RefusedInv, TrackOpenInv, TrackRowInv, TrackCheckpointInv,
         TrackWatchInv, UntrackCloseInv, UntrackRetireInv, UntrackUnwatchInv,
         UntrackReplyInv DEF Serve
<1>2. CASE Checkpoint
      BY <1>2, CheckpointInv
<1>3. ASSUME NEW c \in Client, Accept(c) \/ Command(c) \/ KillClient(c) PROVE RegistryInv'
      BY <1>3, AcceptInv, CommandInv, KillClientInv
<1>4. CASE KillDaemon
      BY <1>4, KillDaemonInv
<1>5. ASSUME NEW skipped \in SUBSET (App \X Exe), StartDaemon(skipped) PROVE RegistryInv'
      BY <1>5, StartDaemonInv
<1>6. CASE UNCHANGED vars
      <2>1. UNCHANGED <<tx, last, row, view, up, serving, watch, marks, client, told, heldUp,
                        closings, kills, faults>>
            BY <1>6 DEF vars, database, daemon, ghosts
      <2>2. TypeOK' /\ TxidsExist' /\ BucketsDiffer' /\ AppsNamed'
            BY <2>1 DEF RegistryInv, TypeOK, TxidsExist, BucketsDiffer, AppsNamed
      <2>3. Progress' /\ RegistryOrder' /\ WatchSound' /\ ViewBetween' /\ ClosedRetired'
            BY <2>1 DEF RegistryInv, Progress, RegistryOrder, WatchSound, ViewBetween,
               ClosedRetired
      <2> QED BY <2>2, <2>3 DEF RegistryInv
<1> QED BY <1>1, <1>2, <1>3, <1>4, <1>5, <1>6 DEF Next

LEMMA Inductive == Spec => []RegistryInv
BY InitInv, NextInv, PTL DEF Spec

-----------------------------------------------------------------------------
(* The variables of Registry keep their types: every txid in a row, in the *)
(* watched map and in a request is one of the bounded range, and a client  *)
(* or the daemon that dies leaves no half-made record.                     *)
THEOREM RegistryTypes == Spec => []TypeOK
<1>1. RegistryInv => TypeOK
      BY DEF RegistryInv
<1> QED BY <1>1, Inductive, PTL

(* track_app and untrack_app never leave a tracked row without its bucket, *)
(* or an untracked row whose bucket is still open.                         *)
THEOREM RegistryOrdered == Spec => []RegistryOrder
<1>1. RegistryInv => RegistryOrder
      BY DEF RegistryInv
<1> QED BY <1>1, Inductive, PTL

(* The daemon watches no executable of an app that is not tracked.         *)
THEOREM UntrackedIsUnwatched == Spec => []WatchedIsTracked
<1>1. RegistryInv => WatchedIsTracked
      <2> SUFFICES ASSUME RegistryInv, up, serving.step = "none", NEW e \in Exe,
                          watch[e] # Unwatched
                   PROVE  row[watch[e][1]].status = "tracking" /\ e \in marks
          BY DEF WatchedIsTracked
      <2> QED BY DEF RegistryInv, WatchSound
<1> QED BY <1>1, Inductive, PTL

(* A client that reads the database as immutable sees what it was told,    *)
(* unless a checkpoint has been held up since the last complete one.       *)
THEOREM RepliesVisible == Spec => []ReplyIsVisible
<1>1. RegistryInv => ReplyIsVisible
      BY DEF RegistryInv, ViewBetween, ReplyIsVisible
<1> QED BY <1>1, Inductive, PTL

(* One period of tracking is closed for one client.                        *)
THEOREM ClosedAtMostOnce == Spec => []ClosedOnce
<1>1. RegistryInv => ClosedOnce
      BY DEF RegistryInv, ClosedRetired, ClosedOnce
<1> QED BY <1>1, Inductive, PTL

-----------------------------------------------------------------------------
(* A second invariant, on top of the first, for what must be watched.      *)

MayRun(a, e) == \E R \in Resolutions[a] : e \in R

(* Executables are recorded and watched for apps that resolve to them.     *)
Resolved ==
    /\ \A a \in App : \A e \in row[a].paths : MayRun(a, e)
    /\ serving.step # "none" => \A e \in serving.paths : MayRun(serving.app, e)
    /\ \A e \in Exe : watch[e] # Unwatched => MayRun(watch[e][1], e)

(* The app being tracked has its row before it has its marks.              *)
Recorded == serving.step \in {"recorded", "visible"}

TrackedArmed ==
    /\ Recorded => row[serving.app].paths = serving.paths
    /\ up /\ faults = 0 =>
           \A a \in App : \A e \in row[a].paths :
               /\ row[a].status = "tracking" /\ OnlyOf(a, e)
               /\ ~(Recorded /\ serving.app = a)
               => watch[e] = <<a, row[a].bucket>> /\ e \in marks

ArmedInv == Resolved /\ TrackedArmed

LEMMA OthersElsewhere ==
    ASSUME NEW a \in App, NEW b \in App, NEW e, OnlyOf(a, e), MayRun(b, e)
    PROVE  a = b
BY DEF OnlyOf, MayRun

LEMMA ArmedFrame ==
    ASSUME ArmedInv, UNCHANGED <<row, up, watch, marks, faults>>,
           Recorded' <=> Recorded, Recorded => serving'.app = serving.app,
           Recorded => serving'.paths = serving.paths,
           serving'.step # "none" => \A e \in serving'.paths : MayRun(serving'.app, e)
    PROVE  ArmedInv'
<1>1. Resolved'
      BY DEF ArmedInv, Resolved, MayRun
<1>2. TrackedArmed'
      BY DEF ArmedInv, TrackedArmed, OnlyOf
<1> QED BY <1>1, <1>2 DEF ArmedInv

LEMMA ClientsArmed ==
    ASSUME NEW c \in Client, RegistryInv, ArmedInv, Accept(c) \/ Command(c) \/ KillClient(c)
    PROVE  ArmedInv'
<1>1. UNCHANGED <<row, up, watch, marks, faults>>
      BY DEF Accept, Command, KillClient, Ask, Load, Execute, Finish, Rollback, database,
         daemon
<1>2. CASE Accept(c)
      <2>1. /\ serving'.step \in {"resolve", "check"} /\ serving'.paths = {}
            /\ serving.step = "none"
            BY <1>2 DEF Accept
      <2> QED BY <1>1, <2>1, ArmedFrame DEF Recorded
<1>3. CASE Command(c)
      <2>1. serving' = serving
            BY <1>3 DEF Command, Ask, Load, Execute, Finish, Rollback, daemon
      <2> QED BY <1>1, <2>1, ArmedFrame DEF Recorded, ArmedInv, Resolved
<1>4. CASE KillClient(c)
      <2>1. /\ serving'.step = serving.step /\ serving'.app = serving.app
            /\ serving'.paths = serving.paths
            BY <1>4 DEF KillClient, RegistryInv, TypeOK, RequestState
      <2> QED BY <1>1, <2>1, ArmedFrame DEF Recorded, ArmedInv, Resolved
<1> QED BY <1>2, <1>3, <1>4

(* The requests' steps that touch neither rows nor marks.                  *)
LEMMA CalmArmed ==
    ASSUME RegistryInv, ArmedInv, NEW R \in SUBSET Exe,
           \/ TrackCreate(R) \/ TrackRefused \/ TrackOpen \/ TrackCheckpoint
           \/ UntrackRefused \/ UntrackClose \/ UntrackReply \/ Checkpoint
    PROVE  ArmedInv'
<1>1. UNCHANGED <<row, up, watch, marks, faults>>
      BY DEF TrackCreate, TrackRefused, TrackOpen, TrackCheckpoint, UntrackRefused,
         UntrackClose, UntrackReply, Checkpoint, database, daemon
<1>2. CASE TrackCreate(R)
      <2>1. /\ serving.step = "resolve" /\ serving'.step = "created"
            /\ serving'.app = serving.app
            /\ serving'.paths = R /\ R \in Resolutions[serving.app]
            BY <1>2 DEF TrackCreate, RegistryInv, TypeOK, RequestState
      <2> QED BY <1>1, <2>1, ArmedFrame DEF Recorded, MayRun
<1>3. CASE TrackRefused \/ UntrackRefused \/ UntrackReply
      <2>1. serving.step \in {"resolve", "check", "unwatched"} /\ serving' = NoRequest
            BY <1>3 DEF TrackRefused, UntrackRefused, UntrackReply, Answer
      <2> QED BY <1>1, <2>1, StartRecords, ArmedFrame DEF Recorded
<1>4. CASE TrackOpen \/ TrackCheckpoint \/ UntrackClose
      <2>1. /\ serving.step \in {"created", "recorded", "check"}
            /\ serving'.step = IF serving.step = "created" THEN "opened"
                               ELSE IF serving.step = "recorded" THEN "visible" ELSE "closed"
            /\ serving'.app = serving.app /\ serving'.paths = serving.paths
            BY <1>4 DEF TrackOpen, TrackCheckpoint, UntrackClose, Step, RegistryInv, TypeOK,
               RequestState
      <2>2. (serving'.step \in {"recorded", "visible"}) <=> Recorded
            BY <2>1 DEF Recorded
      <2> QED BY <1>1, <2>1, <2>2, ArmedFrame DEF Recorded, ArmedInv, Resolved
<1>5. CASE Checkpoint
      BY <1>1, <1>5, ArmedFrame DEF Checkpoint, daemon, Recorded, ArmedInv, Resolved
<1> QED BY <1>2, <1>3, <1>4, <1>5

LEMMA TrackRowArmed == ASSUME RegistryInv, ArmedInv, TrackRow PROVE ArmedInv'
<1>1. /\ serving.step = "opened" /\ serving'.step = "recorded"
      /\ serving'.app = serving.app /\ serving'.paths = serving.paths
      /\ serving.app \in App
      BY StartRecords DEF TrackRow, Step, RegistryInv, TypeOK, RequestState, AppsNamed
<1>2. /\ row'[serving.app].paths = serving.paths
      /\ \A a \in App : a # serving.app => row'[a] = row[a]
      /\ UNCHANGED <<up, watch, marks, faults>>
      BY <1>1 DEF TrackRow, RegistryInv, TypeOK
<1>3. Resolved'
      BY <1>1, <1>2 DEF ArmedInv, Resolved, MayRun
<1>4. TrackedArmed'
      BY <1>1, <1>2 DEF ArmedInv, TrackedArmed, Recorded, OnlyOf
<1> QED BY <1>3, <1>4 DEF ArmedInv

LEMMA TrackWatchArmed ==
    ASSUME NEW skipped \in SUBSET Exe, RegistryInv, ArmedInv, TrackWatch(skipped)
    PROVE  ArmedInv'
<1> DEFINE armed == serving.paths \ skipped
<1>1. /\ serving.step = "visible" /\ serving.app \in App
      /\ serving' = NoRequest /\ UNCHANGED <<row, up>>
      BY StartRecords DEF TrackWatch, Answer, RegistryInv, AppsNamed, database
<1>2. /\ watch' = [e \in Exe |-> IF e \in armed THEN <<serving.app, serving.bucket>>
                                 ELSE watch[e]]
      /\ marks' = marks \cup armed
      BY DEF TrackWatch
<1>3. faults' = 0 => faults = 0 /\ skipped = {}
      BY DEF TrackWatch, MayFail, RegistryInv, TypeOK
<1>4. /\ row[serving.app].bucket = serving.bucket
      /\ row[serving.app].paths = serving.paths
      BY <1>1 DEF RegistryInv, Progress, ArmedInv, TrackedArmed, Recorded
<1>5. \A e \in serving.paths : e \in Exe /\ MayRun(serving.app, e)
      BY <1>1 DEF RegistryInv, TypeOK, RequestState, ArmedInv, Resolved
<1>6. Resolved'
      BY <1>1, <1>2, <1>5, StartRecords DEF ArmedInv, Resolved, MayRun
<1>7. TrackedArmed'
      <2>1. ASSUME up, faults' = 0, NEW a \in App, NEW e \in row[a].paths,
                   row[a].status = "tracking", OnlyOf(a, e)
            PROVE  watch'[e] = <<a, row[a].bucket>> /\ e \in marks'
            <3>1. e \in Exe
                  BY DEF RegistryInv, TypeOK, Row
            <3>2. CASE a = serving.app
                  BY <1>2, <1>3, <1>4, <2>1, <3>1, <3>2
            <3>3. CASE a # serving.app
                  <4>1. e \notin armed
                        BY <1>1, <1>5, <2>1, <3>3, OthersElsewhere
                  <4>2. watch[e] = <<a, row[a].bucket>> /\ e \in marks
                        BY <1>3, <2>1, <3>3 DEF ArmedInv, TrackedArmed
                  <4> QED BY <1>2, <3>1, <4>1, <4>2
            <3> QED BY <3>2, <3>3
      <2>2. ~Recorded'
            BY <1>1, StartRecords DEF Recorded
      <2> QED BY <1>1, <2>1, <2>2 DEF TrackedArmed, OnlyOf
<1> QED BY <1>6, <1>7 DEF ArmedInv

LEMMA UntrackRetireArmed == ASSUME RegistryInv, ArmedInv, UntrackRetire PROVE ArmedInv'
<1>1. /\ serving.step = "closed" /\ serving'.step = "retired"
      /\ serving'.app = serving.app /\ serving'.paths = serving.paths
      /\ serving.app \in App
      BY StartRecords DEF UntrackRetire, Step, RegistryInv, TypeOK, RequestState, AppsNamed
<1>2. /\ row'[serving.app].paths = row[serving.app].paths
      /\ row'[serving.app].status = "untracked"
      /\ \A a \in App : a # serving.app => row'[a] = row[a]
      /\ UNCHANGED <<up, watch, marks, faults>>
      <2>1. row \in [App -> Row] /\ row[serving.app] \in Row
            BY <1>1 DEF RegistryInv, TypeOK
      <2>2. /\ row' = [row EXCEPT ![serving.app] = [row[serving.app] EXCEPT !.status = "untracked"]]
            /\ UNCHANGED <<up, watch, marks, faults>>
            BY DEF UntrackRetire, Retire
      <2> QED BY <1>1, <2>1, <2>2 DEF Row
<1>3. Resolved'
      BY <1>1, <1>2 DEF ArmedInv, Resolved, MayRun
<1>4. TrackedArmed'
      BY <1>1, <1>2 DEF ArmedInv, TrackedArmed, Recorded, OnlyOf
<1> QED BY <1>3, <1>4 DEF ArmedInv

LEMMA UntrackUnwatchArmed ==
    ASSUME NEW kept \in SUBSET Exe, RegistryInv, ArmedInv, UntrackUnwatch(kept)
    PROVE  ArmedInv'
<1>1. /\ serving.step = "retired" /\ serving'.step = "unwatched"
      /\ serving'.app = serving.app /\ serving'.paths = serving.paths
      /\ row[serving.app].status = "untracked"
      BY DEF UntrackUnwatch, Step, RegistryInv, TypeOK, RequestState, Progress
<1>2. /\ watch' = [e \in Exe |-> IF e \in EntriesOf(serving.app) THEN Unwatched ELSE watch[e]]
      /\ marks \ EntriesOf(serving.app) \subseteq marks'
      /\ UNCHANGED <<row, up>> /\ (faults' = 0 => faults = 0)
      BY DEF UntrackUnwatch, MayFail, RegistryInv, TypeOK, database
<1>3. Resolved'
      BY <1>1, <1>2 DEF ArmedInv, Resolved, MayRun
<1>4. TrackedArmed'
      <2>1. ASSUME up, faults = 0, NEW a \in App, NEW e \in row[a].paths,
                   row[a].status = "tracking", OnlyOf(a, e)
            PROVE  watch'[e] = <<a, row[a].bucket>> /\ e \in marks'
            <3>1. e \in Exe /\ a # serving.app
                  BY <1>1, <2>1 DEF RegistryInv, TypeOK, Row
            <3>2. watch[e] = <<a, row[a].bucket>> /\ e \in marks
                  BY <2>1, <3>1 DEF ArmedInv, TrackedArmed
            <3>3. e \notin EntriesOf(serving.app)
                  BY <3>1, <3>2 DEF EntriesOf
            <3> QED BY <1>2, <3>1, <3>2, <3>3
      <2> QED BY <1>1, <1>2, <2>1 DEF TrackedArmed, Recorded, OnlyOf
<1> QED BY <1>3, <1>4 DEF ArmedInv

LEMMA KillDaemonArmed == ASSUME RegistryInv, ArmedInv, KillDaemon PROVE ArmedInv'
<1>1. /\ ~up' /\ serving' = NoRequest /\ UNCHANGED row
      /\ \A e \in Exe : watch'[e] = Unwatched
      BY DEF KillDaemon, database
<1> QED BY <1>1, StartRecords DEF ArmedInv, Resolved, TrackedArmed, Recorded, MayRun

LEMMA StartDaemonArmed ==
    ASSUME NEW skipped \in SUBSET (App \X Exe), RegistryInv, ArmedInv, StartDaemon(skipped)
    PROVE  ArmedInv'
<1> DEFINE Armed(e) == {<<a, row[a].bucket>> :
                a \in {b \in ListTracked : e \in row[b].paths /\ <<b, e>> \notin skipped}}
<1>1. /\ ~up /\ UNCHANGED <<row, serving>>
      /\ \A e \in Exe : IF Armed(e) = {} THEN watch'[e] = Unwatched ELSE watch'[e] \in Armed(e)
      /\ marks' = {e \in Exe : Armed(e) # {}}
      BY DEF StartDaemon, database
<1>2. faults' = 0 => skipped = {}
      BY DEF StartDaemon, MayFail, RegistryInv, TypeOK
<1>3. serving = NoRequest /\ ~Recorded /\ ~Recorded'
      BY <1>1, StartRecords DEF RegistryInv, WatchSound, Recorded
<1>4. ASSUME NEW e \in Exe, NEW p \in Armed(e)
      PROVE  \E a \in App : p = <<a, row[a].bucket>> /\ MayRun(a, e)
      <2>1. PICK a \in ListTracked : p = <<a, row[a].bucket>> /\ e \in row[a].paths
            OBVIOUS
      <2> QED BY <2>1 DEF ListTracked, ArmedInv, Resolved
<1>5. Resolved'
      <2>1. \A e \in Exe : watch'[e] # Unwatched => MayRun(watch'[e][1], e)
            <3> SUFFICES ASSUME NEW e \in Exe, watch'[e] # Unwatched
                         PROVE  MayRun(watch'[e][1], e)
                OBVIOUS
            <3>1. watch'[e] \in Armed(e)
                  BY <1>1
            <3> HIDE DEF Armed
            <3>2. PICK a \in App : watch'[e] = <<a, row[a].bucket>> /\ MayRun(a, e)
                  BY <1>4, <3>1
            <3> QED BY <3>2
      <2> QED BY <1>1, <1>3, <2>1, StartRecords DEF ArmedInv, Resolved, MayRun
<1>6. TrackedArmed'
      <2>1. ASSUME faults' = 0, NEW a \in App, NEW e \in row[a].paths,
                   row[a].status = "tracking", OnlyOf(a, e)
            PROVE  watch'[e] = <<a, row[a].bucket>> /\ e \in marks'
            <3>1. e \in Exe
                  BY DEF RegistryInv, TypeOK, Row
            <3>2. <<a, row[a].bucket>> \in Armed(e)
                  BY <1>2, <2>1 DEF ListTracked
            <3> HIDE DEF Armed
            <3>3. watch'[e] \in Armed(e) /\ e \in marks'
                  BY <1>1, <3>1, <3>2
            <3>4. PICK b \in App : watch'[e] = <<b, row[b].bucket>> /\ MayRun(b, e)
                  BY <1>4, <3>1, <3>3
            <3>5. a = b
                  BY <2>1, <3>4, OthersElsewhere
            <3> QED BY <3>3, <3>4, <3>5
      <2> QED BY <1>1, <1>3, <2>1 DEF TrackedArmed, OnlyOf
<1> QED BY <1>5, <1>6 DEF ArmedInv

LEMMA ArmedInductive == Spec => []ArmedInv
<1>1. Init => ArmedInv
      BY StartRecords DEF Init, ArmedInv, Resolved, TrackedArmed, Recorded, Absent
<1>2. RegistryInv /\ ArmedInv /\ [Next]_vars => ArmedInv'
      <2> SUFFICES ASSUME RegistryInv, ArmedInv, [Next]_vars PROVE ArmedInv'
          OBVIOUS
      <2>1. CASE Serve
            BY <2>1, CalmArmed, TrackRowArmed, TrackWatchArmed, UntrackRetireArmed,
               UntrackUnwatchArmed DEF Serve
      <2>2. CASE Checkpoint
            BY <2>2, CalmArmed
      <2>3. ASSUME NEW c \in Client, Accept(c) \/ Command(c) \/ KillClient(c)
            PROVE  ArmedInv'
            BY <2>3, ClientsArmed
      <2>4. CASE KillDaemon
            BY <2>4, KillDaemonArmed
      <2>5. ASSUME NEW skipped \in SUBSET (App \X Exe), StartDaemon(skipped)
            PROVE  ArmedInv'
            BY <2>5, StartDaemonArmed
      <2>6. CASE UNCHANGED vars
            BY <2>6, ArmedFrame DEF vars, database, daemon, Recorded, ArmedInv, Resolved
      <2> QED BY <2>1, <2>2, <2>3, <2>4, <2>5, <2>6 DEF Next
<1> QED BY <1>1, <1>2, Inductive, PTL DEF Spec

(* Between requests, an executable that only one app resolves to is marked *)
(* for that app's present bucket as long as no mark has failed.            *)
THEOREM TrackedAreWatched == Spec => []TrackedIsWatched
<1>1. ArmedInv => TrackedIsWatched
      BY DEF ArmedInv, TrackedArmed, Recorded, TrackedIsWatched
<1> QED BY <1>1, ArmedInductive, PTL
=============================================================================
