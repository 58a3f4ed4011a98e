---------------------------- MODULE ReversalProofs ---------------------------
(* The reversal of Reversal.tla, for any users, groups, services and       *)
(* processes and any number of acts, kills and faults.                     *)
EXTENDS Reversal, TLAPS

(* What is proved about types.                                             *)
Accounts == [Account -> Line \cup {Absent}]

LEMMA TypeFacts ==
    ASSUME TypeOK
    PROVE  /\ line \in Accounts /\ unit \in Units /\ after \in Accounts
           /\ before.line \in Accounts /\ before.unit \in Units
           /\ unitEvents \in Seq(Call) /\ cursor \in 0 .. Len(unitEvents)
           /\ inv.mode \in Mode /\ inv.dry \in BOOLEAN
BY DEF TypeOK, Accounts

LEMMA EffectType ==
    ASSUME NEW c, c.unit \in Unit, unit \in Units
    PROVE  Effect(c) \in Units
<1>1. AspectOf(c.verb) \in Aspect
  BY DEF AspectOf, Aspect
<1>2. (c.verb \in {"enable", "start", "restart"}) \in BOOLEAN
  OBVIOUS
<1> QED BY <1>1, <1>2 DEF Effect, Units

LEMMA EffectElsewhere ==
    ASSUME NEW c, c.unit \in Unit, unit \in Units, NEW u \in Unit, NEW k \in Aspect
    PROVE  Effect(c)[u][k] = IF u = c.unit /\ k = AspectOf(c.verb)
                             THEN c.verb \in {"enable", "start", "restart"} ELSE unit[u][k]
<1>1. AspectOf(c.verb) \in Aspect
  BY DEF AspectOf, Aspect
<1> QED BY <1>1 DEF Effect, Units

(* A deletion deletes and does nothing else, and leaves no user without    *)
(* the primary group.                                                      *)
Homes(l) == \A u \in User : l[u] # Absent => l[PrimaryOf[u]] # Absent

LEMMA DeletionsDelete ==
    ASSUME line \in Accounts, NEW a \in Account, NEW l \in Deletions(a)
    PROVE  /\ l \in Accounts /\ l[a] = Absent /\ line[a] # Absent
           /\ \A b \in Account : l[b] \in {line[b], Absent}
           /\ \A b \in Account : l[b] # line[b] => b = a \/ (a \in User /\ b = PrimaryOf[a])
           /\ Homes(line) => Homes(l)
<1> USE ReversalAssumption
<1> DEFINE without(S) == [b \in Account |-> IF b \in S THEN Absent ELSE line[b]]
<1>1. line[a] # Absent
  BY DEF Deletions
<1>2. CASE a \in Group
  <2>1. Members(a) = {} /\ l = without({a})
    BY <1>1, <1>2 DEF Deletions
  <2>2. Homes(line) => Homes(l)
    BY <2>1 DEF Homes, Members, Account
  <2> QED BY <1>1, <1>2, <2>1, <2>2 DEF Accounts, Account
<1>3. CASE a \in User /\ l = without({a})
  <2>2. Homes(line) => Homes(l)
    BY <1>3 DEF Homes, Account
  <2> QED BY <1>1, <1>3, <2>2 DEF Accounts, Account
<1>4. CASE a \in User /\ Members(PrimaryOf[a]) = {a} /\ l = without({a, PrimaryOf[a]})
  <2>2. Homes(line) => Homes(l)
    BY <1>4 DEF Homes, Members, Account
  <2> QED BY <1>1, <1>4, <2>2 DEF Accounts, Account
<1>5. a \in Group \/ (a \in User /\ a \notin Group)
  BY DEF Account
<1>6. CASE a \in User /\ a \notin Group
  BY <1>1, <1>3, <1>4, <1>6 DEF Deletions
<1> QED BY <1>2, <1>5, <1>6

LEMMA EditionsEdit ==
    ASSUME line \in Accounts, NEW a \in Account, NEW l \in Editions(a)
    PROVE  l \in Accounts /\ (Homes(line) => Homes(l))
<1> USE ReversalAssumption
<1>1. PICK x \in Line : l = [line EXCEPT ![a] = x] /\ (a \in User => line[PrimaryOf[a]] # Absent)
  BY DEF Editions
<1>2. x # Absent
  OBVIOUS
<1> QED BY <1>1, <1>2 DEF Homes, Accounts, Account

-----------------------------------------------------------------------------
(* Typing.                                                                 *)

LEMMA InsertType ==
    ASSUME TypeOK, NEW c \in Call, unitEvents' = Insert(unitEvents, c)
    PROVE  /\ unitEvents' \in Seq(Call)
           /\ (\A i, j \in DOMAIN unitEvents : unitEvents[i] = unitEvents[j] => i = j)'
           /\ Len(unitEvents) <= Len(unitEvents') /\ Len(unitEvents') \in Nat
<1>1. CASE \E i \in DOMAIN unitEvents : unitEvents[i] = c
  BY <1>1 DEF Insert, TypeOK
<1>2. CASE ~ \E i \in DOMAIN unitEvents : unitEvents[i] = c
  <2>1. unitEvents' = Append(unitEvents, c) /\ unitEvents \in Seq(Call)
    BY <1>2 DEF Insert, TypeOK
  <2>2. \A i, j \in DOMAIN unitEvents : unitEvents[i] = unitEvents[j] => i = j
    BY DEF TypeOK
  <2> QED BY <1>2, <2>1, <2>2
<1> QED BY <1>1, <1>2

LEMMA TypeStep == TypeOK /\ [Next]_vars => TypeOK'
<1> SUFFICES ASSUME TypeOK, [Next]_vars PROVE TypeOK'
  OBVIOUS
<1> USE ReversalAssumption DEF TypeOK
<1> USE DEF vars, world, run, rollback, ghosts
<1>0. /\ line \in Accounts /\ Line \cup {Absent} = Line \cup {Absent}
      /\ Accounts = [Account -> Line \cup {Absent}]
  BY DEF Accounts
<1>1. ASSUME NEW a \in Account, ChangeAccount(a) PROVE TypeOK'
  <2>1. line' \in Accounts
    BY <1>0, <1>1, EditionsEdit, DeletionsDelete DEF ChangeAccount
  <2> QED BY <1>0, <1>1, <2>1 DEF ChangeAccount, Act, Spend, ByCommand
<1>2. ASSUME NEW p \in Pid, NEW c \in Call, Systemctl(p, c) PROVE TypeOK'
  <2>1. unit' \in Units
    BY <1>2, EffectType DEF Systemctl, Call
  <2> QED BY <1>2, <2>1 DEF Systemctl, Act, Spend, ByCommand
<1>3. ASSUME CommandEnds PROVE TypeOK'
  BY <1>3 DEF CommandEnds
<1>4. ASSUME NEW a \in Account, OtherAccount(a) PROVE TypeOK'
  <2>1. line' \in Accounts
    BY <1>0, <1>4, EditionsEdit, DeletionsDelete DEF OtherAccount
  <2> QED BY <1>0, <1>4, <2>1 DEF OtherAccount, Spend, ByOthers
<1>5. ASSUME NEW c \in Call, OtherUnit(c) PROVE TypeOK'
  <2>1. unit' \in Units /\ c.unit \in Unit
    BY <1>5, EffectType DEF OtherUnit, Call
  <2> QED BY <1>5, <2>1 DEF OtherUnit, Spend, ByOthers
<1>6. ASSUME Snapshot PROVE TypeOK'
  BY <1>6 DEF Snapshot, Spend, Free
<1>7. ASSUME Compare PROVE TypeOK'
  BY <1>7 DEF Compare, Diff, Spend, Free
<1>8. ASSUME RecordFails PROVE TypeOK'
  <2>1. excused' \subseteq Account \cup Unit
    BY <1>8 DEF RecordFails
  <2> QED BY <1>8, <2>1 DEF RecordFails, Spend
<1>9. ASSUME Recorded PROVE TypeOK'
  BY <1>9 DEF Recorded
<1>10. ASSUME Finalize PROVE TypeOK'
  BY <1>10 DEF Finalize
<1>11. ASSUME NEW e \in toRecord, RecordEvent(e) PROVE TypeOK'
  BY <1>11 DEF RecordEvent
<1>12. ASSUME NEW p \in Pid, Detect(p) PROVE TypeOK'
  <2>1. unitEvents' = unitEvents \/ \E c \in Call : unitEvents' = Insert(unitEvents, c)
    BY <1>12 DEF Detect
  <2>2. /\ unitEvents' \in Seq(Call)
        /\ (\A i, j \in DOMAIN unitEvents : unitEvents[i] = unitEvents[j] => i = j)'
        /\ Len(unitEvents) <= Len(unitEvents') /\ Len(unitEvents') \in Nat
    <3>1. CASE unitEvents' = unitEvents
      BY <3>1
    <3>2. CASE \E c \in Call : unitEvents' = Insert(unitEvents, c)
      BY <3>2, InsertType
    <3> QED BY <2>1, <3>1, <3>2
  <2>3. spent' \in Nat
    BY <1>12 DEF Detect, Spend, Free
  <2>4. call' \in [Pid -> Call \cup {NoCall}] /\ toDetect' \subseteq Pid
    BY <1>12 DEF Detect
  <2>5. cursor' \in 0 .. Len(unitEvents')
    BY <1>12, <2>2 DEF Detect
  <2> QED BY <1>12, <2>2, <2>3, <2>4, <2>5 DEF Detect
<1>13. ASSUME Remove PROVE TypeOK'
  <2>1. line' \in Accounts
    BY <1>0, <1>13, DeletionsDelete DEF Remove
  <2>2. unit' \in Units
    BY <1>13 DEF Remove, Off
  <2>3. cursor' \in 0 .. Len(unitEvents')
    BY <1>13 DEF Remove
  <2> QED BY <1>0, <1>13, <2>1, <2>2, <2>3 DEF Remove
<1>14. ASSUME Reverse PROVE TypeOK'
  <2>1. cursor \in 1 .. Len(unitEvents) /\ cursor' \in 0 .. Len(unitEvents)
    BY <1>14 DEF Reverse
  <2>2. unitEvents[EventAt(cursor)].unit \in Unit
    <3>1. EventAt(cursor) \in DOMAIN unitEvents /\ unitEvents \in Seq(Call)
      BY <2>1 DEF EventAt
    <3>2. unitEvents[EventAt(cursor)] \in Call
      BY <3>1
    <3> QED BY <3>2 DEF Call
  <2>3. unit' \in Units
    BY <1>14, <2>2, EffectType DEF Reverse
  <2>4. excused' \subseteq Account \cup Unit /\ spent' \in Nat
    BY <1>14, <2>2 DEF Reverse, Spend, Free
  <2> QED BY <1>14, <2>1, <2>3, <2>4 DEF Reverse
<1>15. ASSUME ServicesUnread PROVE TypeOK'
  BY <1>15 DEF ServicesUnread, Spend
<1>16. ASSUME ServicesDone PROVE TypeOK'
  BY <1>16 DEF ServicesDone, Spend, Free
<1>17. ASSUME Finish PROVE TypeOK'
  BY <1>17 DEF Finish, Ends, NoRollback
<1>18. ASSUME NEW e \in toReverse, ReverseUser(e) PROVE TypeOK'
  <2>1. e[2] \in Account
    OBVIOUS
  <2>2. line' \in Accounts
    BY <1>0, <1>18, <2>1, DeletionsDelete DEF ReverseUser
  <2>3. excused' \subseteq Account \cup Unit /\ spent' \in Nat
    BY <1>18, <2>1 DEF ReverseUser, Spend, Free
  <2> QED BY <1>0, <1>18, <2>2, <2>3 DEF ReverseUser
<1>19. ASSUME Kill PROVE TypeOK'
  <2>1. excused' \subseteq Account \cup Unit
    BY <1>19 DEF Kill
  <2> QED BY <1>19, <2>1 DEF Kill, Ends, Spend, NoRollback
<1>20. ASSUME NEW m \in Mode, NEW dry \in BOOLEAN, Begin(m, dry) PROVE TypeOK'
  BY <1>20 DEF Begin
<1>21. ASSUME UNCHANGED vars PROVE TypeOK'
  BY <1>21
<1> QED BY <1>1, <1>2, <1>3, <1>4, <1>5, <1>6, <1>7, <1>8, <1>9, <1>10, <1>11, <1>12, <1>13,
           <1>14, <1>15, <1>16, <1>17, <1>18, <1>19, <1>20, <1>21
        DEF Next, Command, Others, RunStep, RollbackStep

LEMMA TypeInit == Init => TypeOK
<1> SUFFICES ASSUME Init PROVE TypeOK
  OBVIOUS
<1>1. line \in [Account -> Line \cup {Absent}] /\ unit \in Units /\ after = line
  BY ReversalAssumption DEF Init, Account
<1>2. before \in [line : [Account -> Line \cup {Absent}], unit : Units]
  BY <1>1 DEF Init
<1>3. unitEvents = <<>> /\ unitEvents \in Seq(Call) /\ cursor \in 0 .. Len(unitEvents)
  BY DEF Init
<1>4. inv \in [mode : Mode, dry : BOOLEAN]
  BY ReversalAssumption DEF Init, NoRollback
<1> QED BY <1>1, <1>2, <1>3, <1>4 DEF Init, TypeOK

(* TypeOK holds at every step of Reversal's specification.                 *)
THEOREM TypeCorrect == Spec => []TypeOK
BY TypeInit, TypeStep, PTL DEF Spec

-----------------------------------------------------------------------------
(* What was recorded was found by the comparison, and only that is         *)
(* reversed, by a rollback that is willing to.                             *)
Early == pc \in {"begin", "running", "compare"}

EventsSound ==
    /\ Early => userEvents = {} /\ toRecord = {}
    /\ pc # "record" => toRecord = {}
    /\ \A e \in userEvents \cup toRecord : e[1] = "added" => Changed(e[2])
    /\ toReverse # {} => pc = "users" /\ Willing

LEMMA EventsInit == Init => EventsSound
BY DEF Init, EventsSound, Early

LEMMA EventsStep == TypeOK /\ EventsSound /\ [Next]_vars => EventsSound'
<1> SUFFICES ASSUME TypeOK, EventsSound, [Next]_vars PROVE EventsSound'
  OBVIOUS
<1> USE DEF EventsSound, Early, Changed, Willing
<1> USE DEF vars, world, run, rollback, ghosts
<1>1. ASSUME NEW a \in Account, ChangeAccount(a) PROVE EventsSound'
  BY <1>1 DEF ChangeAccount, Act, ByCommand
<1>2. ASSUME NEW p \in Pid, NEW c \in Call, Systemctl(p, c) PROVE EventsSound'
  BY <1>2 DEF Systemctl, Act, ByCommand
<1>3. ASSUME CommandEnds PROVE EventsSound'
  BY <1>3 DEF CommandEnds
<1>4. ASSUME NEW a \in Account, OtherAccount(a) PROVE EventsSound'
  BY <1>4 DEF OtherAccount, ByOthers
<1>5. ASSUME NEW c \in Call, OtherUnit(c) PROVE EventsSound'
  BY <1>5 DEF OtherUnit, ByOthers
<1>6. ASSUME Snapshot PROVE EventsSound'
  BY <1>6 DEF Snapshot
<1>7. ASSUME Compare PROVE EventsSound'
  <2>1. userEvents' = {} /\ toReverse' = {} /\ pre' = pre /\ after' = line /\ pc' = "record"
    BY <1>7 DEF Compare
  <2>2. toRecord' = {} \/ (pre # NoSnapshot /\ toRecord' = Diff(pre, line))
    BY <1>7 DEF Compare
  <2> QED BY <2>1, <2>2 DEF Diff
<1>8. ASSUME RecordFails PROVE EventsSound'
  BY <1>8 DEF RecordFails
<1>9. ASSUME Recorded PROVE EventsSound'
  BY <1>9 DEF Recorded
<1>10. ASSUME Finalize PROVE EventsSound'
  BY <1>10 DEF Finalize
<1>11. ASSUME NEW e \in toRecord, RecordEvent(e) PROVE EventsSound'
  BY <1>11 DEF RecordEvent
<1>12. ASSUME NEW p \in Pid, Detect(p) PROVE EventsSound'
  BY <1>12 DEF Detect
<1>13. ASSUME Remove PROVE EventsSound'
  BY <1>13 DEF Remove
<1>14. ASSUME Reverse PROVE EventsSound'
  BY <1>14 DEF Reverse
<1>15. ASSUME ServicesUnread PROVE EventsSound'
  BY <1>15 DEF ServicesUnread
<1>16. ASSUME ServicesDone PROVE EventsSound'
  BY <1>16 DEF ServicesDone
<1>17. ASSUME Finish PROVE EventsSound'
  BY <1>17 DEF Finish, Ends
<1>18. ASSUME NEW e \in toReverse, ReverseUser(e) PROVE EventsSound'
  BY <1>18 DEF ReverseUser
<1>19. ASSUME Kill PROVE EventsSound'
  BY <1>19 DEF Kill, Ends
<1>20. ASSUME NEW m \in Mode, NEW dry \in BOOLEAN, Begin(m, dry) PROVE EventsSound'
  BY <1>20 DEF Begin
<1>21. ASSUME UNCHANGED vars PROVE EventsSound'
  BY <1>21
<1> QED BY <1>1, <1>2, <1>3, <1>4, <1>5, <1>6, <1>7, <1>8, <1>9, <1>10, <1>11, <1>12, <1>13,
           <1>14, <1>15, <1>16, <1>17, <1>18, <1>19, <1>20, <1>21
        DEF Next, Command, Others, RunStep, RollbackStep

(* In step F only the reversal of a user event writes the accounts without *)
(* being charged to the budget.                                            *)
LEMMA UsersStep ==
    ASSUME TypeOK, [Next]_vars, pc = "users"
    PROVE  /\ spent' = spent /\ line' # line => \E e \in toReverse : ReverseUser(e) /\ line' # line
<1> USE DEF vars, world, run, rollback, ghosts, TypeOK
<1>1. ASSUME NEW a \in Account, ChangeAccount(a) PROVE FALSE
  BY <1>1 DEF ChangeAccount, Act
<1>2. ASSUME NEW p \in Pid, NEW c \in Call, Systemctl(p, c) PROVE FALSE
  BY <1>2 DEF Systemctl, Act
<1>3. ASSUME NEW a \in Account, OtherAccount(a) PROVE spent' # spent
  BY <1>3 DEF OtherAccount, Spend, ByOthers
<1>4. ASSUME NEW c \in Call, OtherUnit(c) PROVE line' = line
  BY <1>4 DEF OtherUnit, ByOthers
<1>5. ~CommandEnds /\ ~Snapshot /\ ~Compare /\ ~RecordFails /\ ~Recorded /\ ~Finalize
  BY DEF CommandEnds, Snapshot, Compare, RecordFails, Recorded, Finalize
<1>6. /\ \A e \in toRecord : ~RecordEvent(e)
      /\ \A p \in Pid : ~Detect(p)
      /\ \A m \in Mode, dry \in BOOLEAN : ~Begin(m, dry)
      /\ ~Remove /\ ~Reverse /\ ~ServicesUnread /\ ~ServicesDone
  BY DEF RecordEvent, Detect, Begin, Remove, Reverse, ServicesUnread, ServicesDone
<1>7. ASSUME Finish PROVE line' = line
  BY <1>7 DEF Finish
<1>8. ASSUME Kill PROVE line' = line
  BY <1>8 DEF Kill
<1>9. ASSUME UNCHANGED vars PROVE line' = line
  BY <1>9
<1> QED BY <1>1, <1>2, <1>3, <1>4, <1>5, <1>6, <1>7, <1>8, <1>9
        DEF Next, Command, Others, RunStep, RollbackStep

LEMMA StableStep ==
    ASSUME TypeOK, EventsSound, [Next]_vars, pc = "users", spent' = spent,
           NEW a \in Account, line'[a] # line[a]
    PROVE  /\ Willing /\ ~inv.dry
           /\ Changed(a) \/ \E u \in User : PrimaryOf[u] = a /\ Changed(u)
<1>1. PICK e \in toReverse : ReverseUser(e) /\ line' # line
  BY UsersStep
<1>2. e \in userEvents /\ e \in Kind \X Account /\ e[2] \in Account
  BY <1>1 DEF TypeOK
<1>3. e[1] = "added" /\ ~inv.dry /\ line' \in Deletions(e[2])
  BY <1>1 DEF ReverseUser
<1>4. a = e[2] \/ (e[2] \in User /\ a = PrimaryOf[e[2]])
  BY <1>2, <1>3, DeletionsDelete, TypeFacts
<1>5. Willing /\ Changed(e[2])
  BY <1>1, <1>2, <1>3 DEF EventsSound
<1> QED BY <1>3, <1>4, <1>5

(* StableKept: an account whose line the command left as it was is never   *)
(* deleted by the reversal, in spite of kills, repetitions and changes.    *)
THEOREM StableIsKept == Spec => StableKept
<1>1. TypeOK /\ EventsSound /\ [Next]_vars
      => [pc = "users" /\ spent' = spent =>
          \A a \in Account : line'[a] # line[a] =>
              /\ Willing /\ ~inv.dry
              /\ Changed(a) \/ \E u \in User : PrimaryOf[u] = a /\ Changed(u)]_vars
  BY StableStep
<1>2. Init => TypeOK /\ EventsSound
  BY TypeInit, EventsInit
<1>3. TypeOK /\ EventsSound /\ [Next]_vars => TypeOK' /\ EventsSound'
  BY TypeStep, EventsStep
<1> QED BY <1>1, <1>2, <1>3, PTL DEF Spec, StableKept

-----------------------------------------------------------------------------
(* What the command added is in the table, unless it is excused; in step F *)
(* it is either still to be reversed or gone.                              *)
Added(a) == before.line[a] = Absent /\ after[a] # Absent /\ a \notin excused
HeldUp(a) == \E u \in excused \cap User : PrimaryOf[u] = a

Snapshots ==
    /\ Homes(line) /\ Homes(before.line)
    /\ pre # NoSnapshot => pre = before.line
    /\ pc \in {"running", "compare"} /\ pre = NoSnapshot => Account \subseteq excused

AddedKnown ==
    ~Early => \A a \in Account : a \notin excused =>
        /\ line[a] \in {after[a], Absent}
        /\ Added(a) => <<"added", a>> \in userEvents \cup toRecord

AddedReversed ==
    pc = "users" /\ Willing /\ ~inv.dry => \A a \in Account : Added(a) =>
        <<"added", a>> \in toReverse \/ line[a] = Absent \/ HeldUp(a)

AddedInv == Snapshots /\ AddedKnown /\ AddedReversed

LEMMA AddedInit == Init => AddedInv
BY DEF Init, AddedInv, Snapshots, AddedKnown, AddedReversed, Homes, Early, NoSnapshot

(* A step that changes neither the accounts nor what is known of them, and *)
(* is not in step F afterwards unless it was before.                       *)
LEMMA AddedFrame ==
    ASSUME AddedInv, UNCHANGED <<line, before, pre, after, inv>>,
           toReverse' = toReverse \/ pc' # "users", pc' = "users" => pc = "users",
           Early' => (Early /\ (pc \in {"running", "compare"} \/ pc' = "begin")),
           Early => Early' \/ Account \subseteq excused',
           excused \cap Account \subseteq excused',
           \A e \in userEvents \cup toRecord : e \in userEvents' \cup toRecord' \/ e[2] \in excused'
    PROVE  AddedInv'
<1> USE ReversalAssumption DEF AddedInv, Account
<1>1. Snapshots'
  BY DEF Snapshots, Homes, Early
<1>2. AddedKnown'
  BY DEF AddedKnown, Added, Early
<1>3. AddedReversed'
  BY DEF AddedReversed, Added, HeldUp, Willing
<1> QED BY <1>1, <1>2, <1>3

LEMMA AddedStep == TypeOK /\ EventsSound /\ AddedInv /\ [Next]_vars => AddedInv'
<1> SUFFICES ASSUME TypeOK, EventsSound, AddedInv, [Next]_vars PROVE AddedInv'
  OBVIOUS
<1> USE DEF vars, world, run, rollback, ghosts
<1>0. line \in Accounts /\ before.line \in Accounts
  BY TypeFacts
<1>a. pc \in {"begin", "running", "compare", "record", "detect", "idle", "remove",
              "services", "users"}
  BY DEF TypeOK
<1>b. Homes(line) /\ Homes(before.line)
  BY DEF AddedInv, Snapshots
<1>1. ASSUME NEW a \in Account, ChangeAccount(a) PROVE AddedInv'
  <2>1. Homes(line')
    BY <1>0, <1>1, <1>b, DeletionsDelete, EditionsEdit DEF ChangeAccount
  <2>2. pc = "running" /\ UNCHANGED <<pc, before, pre, excused>>
    BY <1>1 DEF ChangeAccount, Act, ByCommand
  <2> QED BY <2>1, <2>2 DEF AddedInv, Snapshots, AddedKnown, AddedReversed, Early, Homes
<1>2. ASSUME NEW p \in Pid, NEW c \in Call, Systemctl(p, c) PROVE AddedInv'
  BY <1>2, AddedFrame DEF Systemctl, Act, ByCommand, Early
<1>3. ASSUME CommandEnds PROVE AddedInv'
  BY <1>3, AddedFrame DEF CommandEnds, Early
<1>4. ASSUME NEW a \in Account, OtherAccount(a) PROVE AddedInv'
  <2>1. Homes(line')
    BY <1>0, <1>4, <1>b, DeletionsDelete, EditionsEdit DEF OtherAccount
  <2>2. UNCHANGED <<pc, before, pre, after, inv, userEvents, toRecord, toReverse>>
    BY <1>4 DEF OtherAccount, ByOthers
  <2>3. excused \subseteq excused' /\ \A b \in Account : b \notin excused' => line'[b] = line[b]
    BY <1>4 DEF OtherAccount
  <2>4. Snapshots'
    BY <2>1, <2>2, <2>3 DEF AddedInv, Snapshots, Homes
  <2>5. AddedKnown'
    BY <2>2, <2>3 DEF AddedInv, AddedKnown, Added, Early
  <2>6. AddedReversed'
    BY <2>2, <2>3 DEF AddedInv, AddedReversed, Added, HeldUp, Willing
  <2> QED BY <2>4, <2>5, <2>6 DEF AddedInv
<1>5. ASSUME NEW c \in Call, OtherUnit(c) PROVE AddedInv'
  BY <1>5, <1>a, AddedFrame DEF OtherUnit, ByOthers, Early
<1>6. ASSUME Snapshot PROVE AddedInv'
  <2>1. before'.line = line /\ UNCHANGED line /\ pc' = "running"
    BY <1>6 DEF Snapshot
  <2>2. pre' = line \/ (pre' = NoSnapshot /\ Account \subseteq excused')
    BY <1>6 DEF Snapshot
  <2>3. pre' = line => pre' # NoSnapshot \/ Account \subseteq excused'
    <3>1. CASE \E a \in Account : TRUE
      BY <1>0, <3>1 DEF Accounts, NoSnapshot
    <3> QED BY <3>1
  <2> QED BY <1>b, <2>1, <2>2, <2>3 DEF AddedInv, Snapshots, AddedKnown, AddedReversed, Early, Homes
<1>7. ASSUME Compare PROVE AddedInv'
  <2>1. /\ pc = "compare" /\ pc' = "record" /\ after' = line
        /\ UNCHANGED <<line, before, pre, userEvents>>
    BY <1>7 DEF Compare
  <2>2. ASSUME NEW a \in Account, Added(a)'
        PROVE  <<"added", a>> \in toRecord'
    <3>1. a \notin excused' /\ excused \subseteq excused'
      BY <1>7, <2>2 DEF Compare, Added
    <3>2. pre # NoSnapshot /\ toRecord' = Diff(pre, line)
      BY <1>7, <2>1, <3>1 DEF Compare, AddedInv, Snapshots
    <3>3. pre = before.line
      BY <3>2 DEF AddedInv, Snapshots
    <3>4. line[a] # Absent /\ pre[a] = Absent
      BY <2>1, <2>2, <3>3 DEF Added
    <3> QED BY <3>2, <3>4 DEF Diff, Kind
  <2>3. Snapshots'
    BY <2>1 DEF AddedInv, Snapshots, Homes
  <2>4. AddedKnown' /\ AddedReversed'
    BY <2>1, <2>2 DEF AddedKnown, AddedReversed
  <2> QED BY <2>3, <2>4 DEF AddedInv
<1>8. ASSUME RecordFails PROVE AddedInv'
  BY <1>8, <1>a, AddedFrame DEF RecordFails, Early
<1>9. ASSUME Recorded PROVE AddedInv'
  BY <1>9, AddedFrame DEF Recorded, Early
<1>10. ASSUME Finalize PROVE AddedInv'
  BY <1>10, AddedFrame DEF Finalize, Early
<1>11. ASSUME NEW e \in toRecord, RecordEvent(e) PROVE AddedInv'
  BY <1>11, AddedFrame DEF RecordEvent, Early
<1>12. ASSUME NEW p \in Pid, Detect(p) PROVE AddedInv'
  BY <1>12, AddedFrame DEF Detect, Early
<1>13. ASSUME Remove PROVE AddedInv'
  <2>1. /\ UNCHANGED <<before, pre, after, userEvents, toRecord>>
        /\ pc = "remove" /\ pc' = "services"
    BY <1>13 DEF Remove
  <2>2. Homes(line') /\ \A b \in Account : line'[b] \in {line[b], Absent}
    BY <1>0, <1>13, <1>b, DeletionsDelete DEF Remove
  <2>3. \A b \in Account : b \notin excused' => b \notin excused
    BY <1>13, ReversalAssumption DEF Remove, Account
  <2>4. Snapshots'
    BY <2>1, <2>2 DEF AddedInv, Snapshots, Homes
  <2>5. AddedKnown'
    BY <2>1, <2>2, <2>3 DEF AddedInv, AddedKnown, Added, Early
  <2> QED BY <2>1, <2>4, <2>5 DEF AddedInv, AddedReversed
<1>14. ASSUME Reverse PROVE AddedInv'
  <2>1. excused \subseteq excused'
    BY <1>14 DEF Reverse
  <2> QED BY <1>14, <2>1, AddedFrame DEF Reverse, Early
<1>15. ASSUME ServicesUnread PROVE AddedInv'
  BY <1>15, AddedFrame DEF ServicesUnread, Early
<1>16. ASSUME ServicesDone PROVE AddedInv'
  <2>1. /\ UNCHANGED <<line, before, pre, after, inv, userEvents, toRecord>>
        /\ pc = "services" /\ pc' = "users" /\ excused \subseteq excused' /\ toRecord = {}
    BY <1>16 DEF ServicesDone, EventsSound
  <2>2. Willing => toReverse' = userEvents \/ Account \subseteq excused'
    BY <1>16 DEF ServicesDone
  <2>3. Snapshots'
    BY <2>1 DEF AddedInv, Snapshots, Homes
  <2>4. AddedKnown'
    BY <2>1 DEF AddedInv, AddedKnown, Added, Early
  <2>5. AddedReversed'
    BY <2>1, <2>2 DEF AddedInv, AddedKnown, AddedReversed, Added, Early, Willing
  <2> QED BY <2>3, <2>4, <2>5 DEF AddedInv
<1>17. ASSUME Finish PROVE AddedInv'
  BY <1>17, AddedFrame DEF Finish, Ends, Early, AddedInv, Snapshots, AddedKnown, AddedReversed, Added, Homes
<1>18. ASSUME NEW e \in toReverse, ReverseUser(e) PROVE AddedInv'
  <2>1. /\ UNCHANGED <<before, pre, after, inv, userEvents, toRecord>> /\ pc = "users" /\ pc' = pc
        /\ toReverse' = toReverse \ {e} /\ e \in First(toReverse)
        /\ excused \subseteq excused'
    BY <1>18 DEF ReverseUser, NextUp
  <2>2. e \in Kind \X Account /\ e[2] \in Account
    BY DEF TypeOK
  <2>3. Homes(line') /\ \A b \in Account : line'[b] \in {line[b], Absent}
    BY <1>0, <1>18, <1>b, <2>2, DeletionsDelete DEF ReverseUser
  <2>4. Snapshots'
    BY <2>1, <2>3 DEF AddedInv, Snapshots, Homes
  <2>5. AddedKnown'
    BY <2>1, <2>3 DEF AddedInv, AddedKnown, Added, Early
  <2>6. ASSUME Willing, ~inv.dry, NEW a \in Account, Added(a), e = <<"added", a>>, a \notin excused'
        PROVE  line'[a] = Absent \/ HeldUp(a)
    <3>1. CASE Deletions(a) = {}
      <4>1. line[a] = Absent \/ (a \in Group /\ Members(a) # {})
        <5>1. a \in User /\ a \notin Group => Deletions(a) # {} \/ line[a] = Absent
          BY DEF Deletions
        <5> QED BY <3>1, <5>1 DEF Deletions, Account
      <4>2. CASE line[a] = Absent
        BY <2>3, <4>2
      <4>3. ASSUME a \in Group, NEW u \in Members(a) PROVE HeldUp(a)
        <5>1. u \in User /\ u \in Account /\ PrimaryOf[u] = a /\ line[u] # Absent
          BY <4>3 DEF Members, Account
        <5>2. before.line[u] = Absent
          BY <1>b, <2>6, <5>1 DEF Homes, Added
        <5>3. SUFFICES ASSUME u \notin excused PROVE FALSE
          BY <5>1 DEF HeldUp
        <5>4. line[u] = after[u]
          BY <2>1, <5>1, <5>3 DEF AddedInv, AddedKnown, Early
        <5>5. Added(u) /\ ~HeldUp(u)
          BY <5>1, <5>2, <5>3, <5>4, ReversalAssumption DEF Added, HeldUp
        <5>6. <<"added", u>> \in toReverse
          BY <2>1, <2>6, <5>1, <5>5 DEF AddedInv, AddedReversed
        <5>7. Rank(e) <= Rank(<<"added", u>>)
          BY <2>1, <5>6 DEF First
        <5>8. Rank(e) = 2 /\ Rank(<<"added", u>>) = 0
          BY <2>6, <4>3, <5>1, ReversalAssumption DEF Rank
        <5> QED BY <5>7, <5>8
      <4> QED BY <4>1, <4>2, <4>3
    <3>2. CASE Deletions(a) # {}
      <4>1. line' \in Deletions(a) \/ a \in excused'
        BY <1>18, <2>6, <3>2 DEF ReverseUser
      <4> QED BY <1>0, <2>6, <4>1, DeletionsDelete
    <3> QED BY <3>1, <3>2
  <2>7. ASSUME Willing, ~inv.dry, NEW a \in Account, Added(a)'
        PROVE  <<"added", a>> \in toReverse' \/ line'[a] = Absent \/ HeldUp(a)'
    <3>1. Added(a) /\ a \notin excused' /\ (HeldUp(a) => HeldUp(a)')
      BY <2>1, <2>7 DEF Added, HeldUp
    <3>2. CASE e = <<"added", a>>
      BY <2>6, <2>7, <3>1, <3>2
    <3>3. CASE e # <<"added", a>>
      <4>1. <<"added", a>> \in toReverse \/ line[a] = Absent \/ HeldUp(a)
        BY <2>1, <2>7, <3>1 DEF AddedInv, AddedReversed
      <4> QED BY <2>1, <2>3, <3>1, <3>3, <4>1
    <3> QED BY <3>2, <3>3
  <2>8. AddedReversed'
    BY <2>1, <2>7 DEF AddedReversed, Willing
  <2> QED BY <2>4, <2>5, <2>8 DEF AddedInv
<1>19. ASSUME Kill PROVE AddedInv'
  <2>1. /\ UNCHANGED <<line, before, pre, after, userEvents>> /\ pc' = "idle" /\ toRecord' = {}
        /\ excused \subseteq excused' /\ \A e \in toRecord : e[2] \in excused'
    BY <1>19 DEF Kill, Ends, EventsSound
  <2>2. Early => Account \subseteq excused'
    BY <1>19 DEF Kill, Early
  <2>3. Snapshots'
    BY <2>1 DEF AddedInv, Snapshots, Homes
  <2>4. AddedKnown'
    BY <2>1, <2>2 DEF AddedInv, AddedKnown, Added
  <2> QED BY <2>1, <2>3, <2>4 DEF AddedInv, AddedReversed
<1>20. ASSUME NEW m \in Mode, NEW dry \in BOOLEAN, Begin(m, dry) PROVE AddedInv'
  <2>1. /\ UNCHANGED <<line, before, pre, after, userEvents, toRecord, excused>>
        /\ pc = "idle" /\ pc' = "remove"
    BY <1>20 DEF Begin
  <2> QED BY <2>1 DEF AddedInv, Snapshots, AddedKnown, AddedReversed, Added, Early, Homes
<1>21. ASSUME UNCHANGED vars PROVE AddedInv'
  BY <1>21 DEF AddedInv, Snapshots, AddedKnown, AddedReversed, Added, HeldUp, Early, Homes, Willing
<1> QED BY <1>1, <1>2, <1>3, <1>4, <1>5, <1>6, <1>7, <1>8, <1>9, <1>10, <1>11, <1>12, <1>13,
           <1>14, <1>15, <1>16, <1>17, <1>18, <1>19, <1>20, <1>21
        DEF Next, Command, Others, RunStep, RollbackStep

LEMMA FinishingIsFinish ==
    ASSUME [Next]_vars, Finishing
    PROVE  Finish /\ ~inv.dry
<1> USE DEF Finishing, vars, world, run, rollback, ghosts
<1>1. \A a \in Account : ~ChangeAccount(a) /\ ~OtherAccount(a)
  BY DEF ChangeAccount, ByCommand, OtherAccount, ByOthers
<1>2. \A p \in Pid, c \in Call : ~Systemctl(p, c)
  BY DEF Systemctl, ByCommand
<1>3. \A c \in Call : ~OtherUnit(c)
  BY DEF OtherUnit, ByOthers
<1>4. ~CommandEnds /\ ~Snapshot /\ ~Compare /\ ~RecordFails /\ ~Recorded /\ ~Finalize
  BY DEF CommandEnds, Snapshot, Compare, RecordFails, Recorded, Finalize
<1>5. /\ \A e \in toRecord : ~RecordEvent(e)
      /\ \A p \in Pid : ~Detect(p)
      /\ \A m \in Mode, dry \in BOOLEAN : ~Begin(m, dry)
      /\ \A e \in toReverse : ~ReverseUser(e)
  BY DEF RecordEvent, Detect, Begin, ReverseUser
<1>6. ~Remove /\ ~Reverse /\ ~ServicesUnread /\ ~ServicesDone /\ ~Kill
  BY DEF Remove, Reverse, ServicesUnread, ServicesDone, Kill
<1>7. ~UNCHANGED vars
  OBVIOUS
<1>8. Finish
  BY <1>1, <1>2, <1>3, <1>4, <1>5, <1>6, <1>7 DEF Next, Command, Others, RunStep, RollbackStep
<1> QED BY <1>8 DEF Finish

LEMMA FinishStep ==
    ASSUME AddedInv, [Next]_vars, Finishing, Willing,
           NEW a \in Account, before.line[a] = Absent, after[a] # Absent
    PROVE  line[a] = Absent \/ a \in excused \/ \E u \in excused \cap User : PrimaryOf[u] = a
<1>1. pc = "users" /\ toReverse = {} /\ ~inv.dry
  BY FinishingIsFinish DEF Finish
<1> QED BY <1>1 DEF AddedInv, AddedReversed, Added, HeldUp

(* AddedAreGone: what the command added is gone when a clean rollback      *)
(* marks the transaction as rolled back, in spite of kills and faults.     *)
THEOREM AddedGone == Spec => AddedAreGone
<1>1. TypeOK /\ EventsSound /\ AddedInv /\ [Next]_vars
      => [Finishing /\ Willing =>
          \A a \in Account : before.line[a] = Absent /\ after[a] # Absent =>
              \/ line[a] = Absent \/ a \in excused
              \/ \E u \in excused \cap User : PrimaryOf[u] = a]_vars
  BY FinishStep
<1>2. Init => TypeOK /\ EventsSound /\ AddedInv
  BY TypeInit, EventsInit, AddedInit
<1>3. TypeOK /\ EventsSound /\ AddedInv /\ [Next]_vars => TypeOK' /\ EventsSound' /\ AddedInv'
  BY TypeStep, EventsStep, AddedStep
<1> QED BY <1>1, <1>2, <1>3, PTL DEF Spec, AddedAreGone

-----------------------------------------------------------------------------
(* In step F, a service whose earliest event is reversed already is back   *)
(* in the state that event is assumed to have found.                       *)
IsEarliest(u, k, i) == i \in EventsOf(u, k) /\ \A j \in EventsOf(u, k) : i <= j
Reversible(u, k, i) ==
    /\ IsEarliest(u, k, i) /\ Inverse(unitEvents[i].verb) # "none"
    /\ before.unit[u][k] = PreState(unitEvents[i].verb)

ServicesBack ==
    /\ pc = "users" => cursor = 0
    /\ pc \in {"services", "users"} /\ ~inv.dry =>
         \A u \in Unit \ excused, k \in Aspect, i \in DOMAIN unitEvents :
            Reversible(u, k, i) /\ cursor < i => unit[u][k] = before.unit[u][k]

LEMMA ServicesInit == Init => ServicesBack
BY DEF Init, ServicesBack

(* A step outside of step F.                                               *)
LEMMA ServicesOutside ==
    ASSUME pc' \notin {"services", "users"}
    PROVE  ServicesBack'
BY DEF ServicesBack

(* A step that changes neither the services nor what is known of them.     *)
LEMMA ServicesFrame ==
    ASSUME ServicesBack, UNCHANGED <<before, unitEvents, cursor, inv>>,
           \A u \in Unit \ excused' : u \notin excused /\ unit'[u] = unit[u],
           pc' \in {"services", "users"} => pc \in {"services", "users"},
           pc' = "users" => pc = "users" \/ cursor = 0
    PROVE  ServicesBack'
BY DEF ServicesBack, Reversible, IsEarliest, EventsOf

(* One reversal.  The event reversed is of the service and has an inverse, *)
(* and is the earliest such event or a later one.                          *)
LEMMA ReverseStep == TypeOK /\ ServicesBack /\ Reverse => ServicesBack'
<1> SUFFICES ASSUME TypeOK, ServicesBack, Reverse PROVE ServicesBack'
  OBVIOUS
<1> DEFINE c == unitEvents[EventAt(cursor)]
<1> DEFINE undo == [unit |-> c.unit, verb |-> Inverse(c.verb)]
<1>1. /\ pc = "services" /\ pc' = pc /\ cursor \in Nat /\ cursor > 0 /\ cursor' = cursor - 1
      /\ cursor \in DOMAIN unitEvents /\ EventAt(cursor) = cursor
      /\ UNCHANGED <<before, unitEvents, inv>> /\ excused \subseteq excused'
      /\ unit \in Units
  BY DEF Reverse, world, run, rollback, EventAt, TypeOK
<1>2. c \in Call /\ c.unit \in Unit /\ c.verb \in Verb
  <2>1. unitEvents \in Seq(Call)
    BY DEF TypeOK
  <2>2. c \in Call
    BY <1>1, <2>1
  <2> QED BY <2>2 DEF Call
<1>3. ASSUME ~inv.dry, NEW u \in Unit \ excused', NEW k \in Aspect, NEW i \in DOMAIN unitEvents,
             Reversible(u, k, i), cursor' < i
      PROVE  unit'[u][k] = before.unit[u][k]
  <2>1. cursor = i \/ cursor < i
    <3>1. i \in Nat
      BY <1>3 DEF TypeOK
    <3> QED BY <1>1, <1>3, <3>1
  <2>2. \/ undo.verb = "none" /\ unit' = unit
        \/ undo.verb # "none" /\ unit' = Effect(undo)
        \/ undo.verb # "none" /\ unit' = unit /\ c.unit \in excused'
    BY <1>3 DEF Reverse
  <2>3. undo.verb # "none" => undo.verb \in {"disable", "enable", "stop"}
    BY DEF Inverse
  <2>4. CASE cursor < i /\ unit' = unit
    BY <1>1, <1>3, <2>4 DEF ServicesBack
  <2>5. CASE cursor < i /\ undo.verb # "none" /\ unit' = Effect(undo)
    <3>1. unit[u][k] = before.unit[u][k]
      BY <1>1, <1>3, <2>5 DEF ServicesBack
    <3>2. ~(u = c.unit /\ k = AspectOf(c.verb))
      <4>1. u = c.unit /\ k = AspectOf(c.verb) => cursor \in EventsOf(u, k)
        BY <1>1 DEF EventsOf
      <4>2. \A j \in EventsOf(u, k) : i <= j
        BY <1>3 DEF Reversible, IsEarliest
      <4>3. i \in Nat
        BY <1>3 DEF TypeOK
      <4> QED BY <1>1, <2>5, <4>1, <4>2, <4>3
    <3>3. AspectOf(undo.verb) = AspectOf(c.verb)
      BY <1>2, <2>5 DEF AspectOf, Inverse, Verb
    <3>4. Effect(undo)[u][k] = unit[u][k]
      BY <1>1, <1>2, <3>2, <3>3, EffectElsewhere
    <3> QED BY <2>5, <3>1, <3>4
  <2>6. CASE cursor = i
    <3>1. u = c.unit /\ k = AspectOf(c.verb) /\ undo.verb # "none"
          /\ before.unit[u][k] = PreState(c.verb)
      BY <1>1, <1>3, <2>6 DEF Reversible, IsEarliest, EventsOf
    <3>2. unit' = Effect(undo)
      BY <1>3, <2>2, <3>1
    <3>3. AspectOf(undo.verb) = AspectOf(c.verb)
          /\ (undo.verb \in {"enable", "start", "restart"}) = PreState(c.verb)
      BY <1>2, <3>1 DEF AspectOf, Inverse, Verb, PreState
    <3>4. Effect(undo)[u][k] = (undo.verb \in {"enable", "start", "restart"})
      BY <1>1, <1>2, <3>1, <3>3, EffectElsewhere
    <3> QED BY <3>1, <3>2, <3>3, <3>4
  <2> QED BY <2>1, <2>2, <2>4, <2>5, <2>6
<1>4. \A u \in Unit, k \in Aspect, i \in DOMAIN unitEvents :
          Reversible(u, k, i)' <=> Reversible(u, k, i)
  BY <1>1 DEF Reversible, IsEarliest, EventsOf
<1> QED BY <1>1, <1>3, <1>4 DEF ServicesBack

LEMMA ServicesStep == TypeOK /\ ServicesBack /\ [Next]_vars => ServicesBack'
<1> SUFFICES ASSUME TypeOK, ServicesBack, [Next]_vars PROVE ServicesBack'
  OBVIOUS
<1> USE DEF vars, world, run, rollback, ghosts
<1>1. ASSUME NEW a \in Account, ChangeAccount(a) PROVE ServicesBack'
  BY <1>1, ServicesOutside DEF ChangeAccount, Act, ByCommand
<1>2. ASSUME NEW p \in Pid, NEW c \in Call, Systemctl(p, c) PROVE ServicesBack'
  BY <1>2, ServicesOutside DEF Systemctl, Act, ByCommand
<1>3. ASSUME CommandEnds PROVE ServicesBack'
  BY <1>3, ServicesOutside DEF CommandEnds
<1>4. ASSUME NEW a \in Account, OtherAccount(a) PROVE ServicesBack'
  BY <1>4, ServicesFrame DEF OtherAccount, ByOthers
<1>5. ASSUME NEW c \in Call, OtherUnit(c) PROVE ServicesBack'
  <2>1. \A u \in Unit \ excused' : u \notin excused /\ unit'[u] = unit[u]
    BY <1>5 DEF OtherUnit, Effect, TypeOK, Units
  <2> QED BY <1>5, <2>1, ServicesFrame DEF OtherUnit, ByOthers
<1>6. ASSUME Snapshot PROVE ServicesBack'
  BY <1>6, ServicesOutside DEF Snapshot
<1>7. ASSUME Compare PROVE ServicesBack'
  BY <1>7, ServicesOutside DEF Compare
<1>8. ASSUME RecordFails PROVE ServicesBack'
  BY <1>8, ServicesOutside DEF RecordFails
<1>9. ASSUME Recorded PROVE ServicesBack'
  BY <1>9, ServicesOutside DEF Recorded
<1>10. ASSUME Finalize PROVE ServicesBack'
  BY <1>10, ServicesOutside DEF Finalize
<1>11. ASSUME NEW e \in toRecord, RecordEvent(e) PROVE ServicesBack'
  BY <1>11, ServicesOutside DEF RecordEvent
<1>12. ASSUME NEW p \in Pid, Detect(p) PROVE ServicesBack'
  BY <1>12, ServicesOutside DEF Detect
<1>13. ASSUME Remove PROVE ServicesBack'
  <2>1. cursor' = Len(unitEvents') /\ unitEvents' \in Seq(Call) /\ pc' = "services"
    BY <1>13 DEF Remove, TypeOK
  <2>2. \A i \in DOMAIN unitEvents' : ~(cursor' < i)
    BY <2>1
  <2> QED BY <2>1, <2>2 DEF ServicesBack
<1>14. ASSUME Reverse PROVE ServicesBack'
  BY <1>14, ReverseStep
<1>15. ASSUME ServicesUnread PROVE ServicesBack'
  <2>1. Unit \subseteq excused' /\ cursor' = 0
    BY <1>15 DEF ServicesUnread
  <2> QED BY <2>1 DEF ServicesBack
<1>16. ASSUME ServicesDone PROVE ServicesBack'
  BY <1>16, ServicesFrame DEF ServicesDone
<1>17. ASSUME Finish PROVE ServicesBack'
  BY <1>17, ServicesOutside DEF Finish, Ends
<1>18. ASSUME NEW e \in toReverse, ReverseUser(e) PROVE ServicesBack'
  BY <1>18, ServicesFrame DEF ReverseUser
<1>19. ASSUME Kill PROVE ServicesBack'
  BY <1>19, ServicesOutside DEF Kill, Ends
<1>20. ASSUME NEW m \in Mode, NEW dry \in BOOLEAN, Begin(m, dry) PROVE ServicesBack'
  BY <1>20, ServicesOutside DEF Begin
<1>21. ASSUME UNCHANGED vars PROVE ServicesBack'
  BY <1>21, ServicesFrame
<1> QED BY <1>1, <1>2, <1>3, <1>4, <1>5, <1>6, <1>7, <1>8, <1>9, <1>10, <1>11, <1>12, <1>13,
           <1>14, <1>15, <1>16, <1>17, <1>18, <1>19, <1>20, <1>21
        DEF Next, Command, Others, RunStep, RollbackStep

LEMMA RestoredStep ==
    ASSUME TypeOK, ServicesBack, [Next]_vars, Finishing,
           NEW u \in Unit \ excused, NEW k \in Aspect, NEW i \in EventsOf(u, k),
           \A j \in EventsOf(u, k) : i <= j,
           Inverse(unitEvents[i].verb) # "none",
           before.unit[u][k] = PreState(unitEvents[i].verb)
    PROVE  unit[u][k] = before.unit[u][k]
<1>1. pc = "users" /\ ~inv.dry /\ cursor = 0
  BY FinishingIsFinish DEF Finish, ServicesBack
<1>2. i \in DOMAIN unitEvents /\ cursor < i /\ Reversible(u, k, i)
  BY <1>1 DEF EventsOf, Reversible, IsEarliest, TypeOK
<1> QED BY <1>1, <1>2 DEF ServicesBack

(* ServicesRestored: at the end of a rollback every service whose earliest *)
(* recorded event found it as that event is assumed to is as it was.       *)
THEOREM ServicesAreRestored == Spec => ServicesRestored
<1>1. TypeOK /\ ServicesBack /\ [Next]_vars
      => [Finishing =>
          \A u \in Unit \ excused, k \in Aspect : \A i \in EventsOf(u, k) :
              (/\ \A j \in EventsOf(u, k) : i <= j
               /\ Inverse(unitEvents[i].verb) # "none"
               /\ before.unit[u][k] = PreState(unitEvents[i].verb))
              => unit[u][k] = before.unit[u][k]]_vars
  BY RestoredStep
<1>2. Init => TypeOK /\ ServicesBack
  BY TypeInit, ServicesInit
<1>3. TypeOK /\ ServicesBack /\ [Next]_vars => TypeOK' /\ ServicesBack'
  BY TypeStep, ServicesStep
<1> QED BY <1>1, <1>2, <1>3, PTL DEF Spec, ServicesRestored
=============================================================================
