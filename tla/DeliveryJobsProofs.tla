------------------------- MODULE DeliveryJobsProofs -------------------------
(***************************************************************************)
(* What overlapping, dying and repeated runs of the cron worker may do, for*)
(* any number of runs, tasks, triggers, faults and interventions.          *)
(*                                                                         *)
(* A run that is about to insert has found no automatic brief of its slot, *)
(* so whatever is stored there by then was stored after its job began.     *)
(***************************************************************************)
EXTENDS DeliveryJobs, FiniteSetTheorems, WellFoundedInduction, TLAPS

Fields == {"pc", "at", "now", "conf", "slots", "left", "to"}
Slots == (1..Days) \X BriefType

\* slot and automatic, of a run's record and of a set of rows.
slotIn(x) == <<dayOf(x.now), Head(x.slots)>>
autoIn(rows, s) == {p \in rows : p.day = s[1] /\ p.type = s[2] /\ p.by = "cron"}

ClockInv ==
  /\ clock \in Nat
  /\ \A p \in reports : p.at \in Nat /\ p.stored \in Nat /\ p.at <= clock /\ p.stored <= clock

RunsInv ==
  /\ DOMAIN run = Runs
  /\ \A r \in Runs : DOMAIN run[r] = Fields /\ run[r].now \in Nat /\ run[r].now <= clock

InsertInv ==
  \A r \in Runs : run[r].pc = "insert" =>
    \A p \in autoIn(reports, slotIn(run[r])) : run[r].now <= p.stored

MadeInv ==
  /\ DOMAIN made = Slots
  /\ \A x \in Slots : made[x] \in Nat
  /\ \A r \in Runs : run[r].pc \in {"ping", "mail"} /\ slotIn(run[r]) \in Slots => made[slotIn(run[r])] > 0

DInv == ClockInv /\ RunsInv /\ InsertInv /\ MadeInv
         /\ OneBriefUnlessRunsOverlap

-----------------------------------------------------------------------------
LEMMA JobsInitInv == Init => DInv
<1> SUFFICES ASSUME Init PROVE DInv
  OBVIOUS
<1> USE DEF Init
<1>1. ClockInv BY DEF ClockInv
<1>2. \A r \in Runs : run[r] = Idle
  OBVIOUS
<1>3. RunsInv BY <1>2 DEF RunsInv, Idle, Fields
<1>4. InsertInv BY DEF InsertInv, autoIn
<1>5. MadeInv BY <1>2 DEF MadeInv, Slots, Idle
<1>6. OneBriefUnlessRunsOverlap BY DEF OneBriefUnlessRunsOverlap
<1> QED BY <1>1, <1>3, <1>4, <1>5, <1>6 DEF DInv

\* A step of run r that writes neither briefs nor briefs' notifications, and
\* brings r neither to its INSERT nor past it.
LEMMA RunStepKeeps ==
  ASSUME DInv, NEW r \in Runs,
         UNCHANGED <<reports, made>>, clock' \in Nat, clock <= clock',
         DOMAIN run' = Runs, \A q \in Runs : q # r => run'[q] = run[q],
         DOMAIN run'[r] = Fields, run'[r].now \in Nat, run'[r].now <= clock',
         run'[r].pc = "insert" =>
           \A p \in autoIn(reports, slotIn(run'[r])) : run'[r].now <= p.stored,
         run'[r].pc \in {"ping", "mail"} =>
           run[r].pc \in {"ping", "mail"} /\ slotIn(run'[r]) = slotIn(run[r])
  PROVE  DInv'
<1> USE DEF DInv
<1>1. ClockInv' BY DEF ClockInv
<1>2. RunsInv'
  <2>1. \A q \in Runs : run[q].now \in Nat /\ clock \in Nat /\ run[q].now <= clock
    BY DEF RunsInv, ClockInv
  <2> QED BY <2>1 DEF RunsInv
<1>3. \A q \in Runs : q # r => slotIn(run'[q]) = slotIn(run[q])
  OBVIOUS
<1>5. InsertInv'
  <2> SUFFICES ASSUME NEW q \in Runs, run'[q].pc = "insert",
                      NEW p \in autoIn(reports', slotIn(run'[q]))
               PROVE run'[q].now <= p.stored
    BY DEF InsertInv
  <2>1. p \in autoIn(reports, slotIn(run'[q]))
    OBVIOUS
  <2>2. CASE q = r BY <2>1, <2>2
  <2>3. CASE q # r
    <3>1. run'[q] = run[q] /\ slotIn(run'[q]) = slotIn(run[q]) BY <2>3, <1>3
    <3> QED BY <3>1, <2>1 DEF InsertInv
  <2> QED BY <2>2, <2>3
<1>6. MadeInv'
  <2>1. ASSUME NEW q \in Runs, run'[q].pc \in {"ping", "mail"}, slotIn(run'[q]) \in Slots
        PROVE made[slotIn(run'[q])] > 0
    <3>1. CASE q = r BY <3>1, <2>1 DEF MadeInv
    <3>2. CASE q # r
      <4>1. run'[q] = run[q] /\ slotIn(run'[q]) = slotIn(run[q]) BY <3>2, <1>3
      <4> QED BY <4>1, <2>1 DEF MadeInv
    <3> QED BY <3>1, <3>2
  <2> QED BY <2>1 DEF MadeInv
<1>7. OneBriefUnlessRunsOverlap' BY DEF OneBriefUnlessRunsOverlap
<1> QED BY <1>1, <1>2, <1>5, <1>6, <1>7

-----------------------------------------------------------------------------
LEMMA TriggerKeeps ==
  ASSUME DInv, NEW r \in Runs, Trigger(r) PROVE DInv'
<1>1. clock \in Nat /\ clock' = clock + 1 BY DEF Trigger, DInv, ClockInv
<1>2. run' = [run EXCEPT ![r] = [Idle EXCEPT !.pc = "tasks", !.at = clock + 1]]
  BY DEF Trigger
<1> DEFINE x == [Idle EXCEPT !.pc = "tasks", !.at = clock + 1]
<1>3. DOMAIN x = Fields /\ x.pc = "tasks" /\ x.now = 0 BY DEF Idle, Fields
<1> HIDE DEF x
<1>4. DOMAIN run = Runs BY DEF DInv, RunsInv
<1>5. /\ DOMAIN run' = Runs /\ \A q \in Runs : q # r => run'[q] = run[q]
      /\ run'[r] = x
  BY <1>2, <1>4 DEF x
<1>6. UNCHANGED <<reports, made>> BY DEF Trigger
<1> QED BY <1>1, <1>3, <1>5, <1>6, RunStepKeeps

LEMMA JobStepKeeps ==
  ASSUME DInv, NEW r \in Runs,
         SelectDueTasks(r) \/ Remind(r) \/ ReadSettings(r) \/ Check(r) \/ Mail(r)
  PROVE  DInv'
<1>0. /\ DOMAIN run = Runs /\ DOMAIN run[r] = Fields /\ run[r].now \in Nat
      /\ run[r].now <= clock /\ clock \in Nat
  BY DEF DInv, RunsInv, ClockInv
<1>1. CASE SelectDueTasks(r)
  <2>1. /\ run' = [run EXCEPT ![r] = [@ EXCEPT !.pc = "remind",
                        !.left = {t \in Tasks : task[t] = "open" /\ utcDayOf(run[r].at) >= 1}]]
        /\ UNCHANGED <<reports, made, clock>>
    BY <1>1 DEF SelectDueTasks
  <2>2. /\ DOMAIN run' = Runs /\ \A q \in Runs : q # r => run'[q] = run[q]
        /\ DOMAIN run'[r] = Fields /\ run'[r].now = run[r].now /\ run'[r].pc = "remind"
    BY <2>1, <1>0 DEF Fields
  <2>3. /\ clock' \in Nat /\ clock <= clock'
        /\ run'[r].now \in Nat /\ run'[r].now <= clock'
        /\ run'[r].pc # "insert" /\ run'[r].pc \notin {"ping", "mail"}
    BY <1>0, <2>1, <2>2
  <2>4. UNCHANGED <<reports, made>>
    BY <2>1
  <2> QED BY <2>2, <2>3, <2>4, RunStepKeeps
<1>2. CASE Remind(r)
  <2>1. UNCHANGED <<reports, made, clock>> BY <1>2 DEF Remind
  <2>3. \/ run' = [run EXCEPT ![r] = [@ EXCEPT !.pc = "settings", !.now = clock]]
        \/ \E t \in run[r].left : run' = [run EXCEPT ![r].left = @ \ {t}]
    BY <1>2 DEF Remind
  <2>4. run[r].pc = "remind" BY <1>2 DEF Remind
  <2>5. /\ DOMAIN run' = Runs /\ \A q \in Runs : q # r => run'[q] = run[q]
        /\ DOMAIN run'[r] = Fields /\ run'[r].now \in {run[r].now, clock}
        /\ run'[r].pc \notin {"insert", "ping", "mail"}
    BY <2>3, <2>4, <1>0 DEF Fields
  <2>6. /\ clock' \in Nat /\ clock <= clock'
        /\ run'[r].now \in Nat /\ run'[r].now <= clock'
        /\ run'[r].pc # "insert" /\ run'[r].pc \notin {"ping", "mail"}
    BY <1>0, <2>1, <2>5
  <2> QED BY <2>1, <2>5, <2>6, RunStepKeeps
<1>3. CASE ReadSettings(r)
  <2>1. /\ UNCHANGED <<reports, made, clock>>
        /\ \E s : run' = [run EXCEPT ![r] = [@ EXCEPT !.pc = "check", !.conf = settings, !.slots = s]]
    BY <1>3 DEF ReadSettings
  <2>2. /\ DOMAIN run' = Runs /\ \A q \in Runs : q # r => run'[q] = run[q]
        /\ DOMAIN run'[r] = Fields /\ run'[r].now = run[r].now /\ run'[r].pc = "check"
    BY <2>1, <1>0 DEF Fields
  <2> QED BY <1>0, <2>1, <2>2, RunStepKeeps
<1>4. CASE Check(r)
  <2>0. UNCHANGED <<reports, made, clock>> /\ run[r].pc = "check"
    BY <1>4 DEF Check
  <2>1. CASE run[r].slots = <<>>
    <3>1. run' = [run EXCEPT ![r] = Idle] BY <1>4, <2>1 DEF Check
    <3>2. DOMAIN Idle = Fields /\ Idle.pc = "idle" /\ Idle.now = 0 BY DEF Idle, Fields
    <3>3. DOMAIN run' = Runs /\ (\A q \in Runs : q # r => run'[q] = run[q]) /\ run'[r] = Idle
      BY <3>1, <1>0
    <3> QED BY <1>0, <2>0, <3>2, <3>3, RunStepKeeps
  <2>2. CASE run[r].slots # <<>> /\ autoIn(reports, slotIn(run[r])) # {}
    <3>1. run' = [run EXCEPT ![r].slots = Tail(@)] BY <1>4, <2>2 DEF Check, slot, slotIn, automatic, autoIn
    <3>2. /\ DOMAIN run' = Runs /\ \A q \in Runs : q # r => run'[q] = run[q]
          /\ DOMAIN run'[r] = Fields /\ run'[r].now = run[r].now /\ run'[r].pc = "check"
      BY <3>1, <1>0, <2>0 DEF Fields
    <3> QED BY <1>0, <2>0, <3>2, RunStepKeeps
  <2>3. CASE run[r].slots # <<>> /\ autoIn(reports, slotIn(run[r])) = {}
    <3>1. run' = [run EXCEPT ![r].pc = "insert"] BY <1>4, <2>3 DEF Check, slot, slotIn, automatic, autoIn
    <3>2. /\ DOMAIN run' = Runs /\ \A q \in Runs : q # r => run'[q] = run[q]
          /\ DOMAIN run'[r] = Fields /\ run'[r].now = run[r].now /\ run'[r].pc = "insert"
          /\ run'[r].slots = run[r].slots
      BY <3>1, <1>0 DEF Fields
    <3>3. slotIn(run'[r]) = slotIn(run[r]) BY <3>2 DEF slotIn
    <3>4. autoIn(reports, slotIn(run'[r])) = {} BY <3>3, <2>3
    <3> QED BY <1>0, <2>0, <3>2, <3>4, RunStepKeeps
  <2> QED BY <2>1, <2>2, <2>3
<1>5. CASE Mail(r)
  <2>0. UNCHANGED <<reports, made, clock>> /\ run[r].pc = "mail"
    BY <1>5 DEF Mail
  <2>1. \/ run' = [run EXCEPT ![r] = [@ EXCEPT !.pc = "check", !.slots = Tail(@)]]
        \/ run' = [run EXCEPT ![r].to = Tail(@)]
    BY <1>5 DEF Mail
  <2>2. CASE run' = [run EXCEPT ![r] = [@ EXCEPT !.pc = "check", !.slots = Tail(@)]]
    <3>1. /\ DOMAIN run' = Runs /\ \A q \in Runs : q # r => run'[q] = run[q]
          /\ DOMAIN run'[r] = Fields /\ run'[r].now = run[r].now /\ run'[r].pc = "check"
      BY <2>2, <1>0 DEF Fields
    <3> QED BY <1>0, <2>0, <3>1, RunStepKeeps
  <2>3. CASE run' = [run EXCEPT ![r].to = Tail(@)]
    <3>1. /\ DOMAIN run' = Runs /\ \A q \in Runs : q # r => run'[q] = run[q]
          /\ DOMAIN run'[r] = Fields /\ run'[r].now = run[r].now /\ run'[r].pc = "mail"
          /\ run'[r].slots = run[r].slots
      BY <2>3, <1>0, <2>0 DEF Fields
    <3>2. slotIn(run'[r]) = slotIn(run[r]) BY <3>1 DEF slotIn
    <3> QED BY <1>0, <2>0, <3>1, <3>2, RunStepKeeps
  <2> QED BY <2>1, <2>2, <2>3
<1> QED BY <1>1, <1>2, <1>3, <1>4, <1>5

-----------------------------------------------------------------------------
LEMMA InsertKeeps ==
  ASSUME DInv, NEW r \in Runs, Insert(r) PROVE DInv'
<1> DEFINE new == [day |-> slotIn(run[r])[1], type |-> slotIn(run[r])[2], by |-> "cron",
                   at |-> run[r].now, stored |-> clock]
<1>0. /\ DOMAIN run = Runs /\ DOMAIN run[r] = Fields /\ run[r].now \in Nat
      /\ run[r].now <= clock /\ clock \in Nat
  BY DEF DInv, RunsInv, ClockInv
<1>1. /\ run[r].pc = "insert" /\ reports' = reports \cup {new}
      /\ made' = [made EXCEPT ![slotIn(run[r])] = @ + 1]
      /\ run' = [run EXCEPT ![r].pc = "ping"]
      /\ UNCHANGED clock
  BY DEF Insert, slot, slotIn
<1>2. /\ new.day = slotIn(run[r])[1] /\ new.type = slotIn(run[r])[2] /\ new.by = "cron"
      /\ new.at = run[r].now /\ new.stored = clock
  OBVIOUS
<1> HIDE DEF new
<1>3. /\ DOMAIN run' = Runs /\ \A q \in Runs : q # r => run'[q] = run[q]
      /\ DOMAIN run'[r] = Fields /\ run'[r].now = run[r].now /\ run'[r].pc = "ping"
      /\ run'[r].slots = run[r].slots
  BY <1>1, <1>0 DEF Fields
<1>4. \A q \in Runs : slotIn(run'[q]) = slotIn(run[q]) BY <1>3 DEF slotIn
<1>5. ClockInv' BY <1>0, <1>1, <1>2 DEF DInv, ClockInv
<1>6. RunsInv' BY <1>1, <1>3 DEF DInv, RunsInv
<1>7. InsertInv'
  <2> SUFFICES ASSUME NEW q \in Runs, run'[q].pc = "insert",
                      NEW p \in autoIn(reports', slotIn(run[q]))
               PROVE run'[q].now <= p.stored
    BY <1>4 DEF InsertInv
  <2>1. q # r /\ run'[q] = run[q] BY <1>3
  <2>2. p \in autoIn(reports, slotIn(run[q])) \/ p = new
    BY <1>1, <1>4 DEF autoIn
  <2>3. CASE p \in autoIn(reports, slotIn(run[q]))
    BY <2>1, <2>3 DEF DInv, InsertInv
  <2>4. CASE p = new
    BY <2>1, <2>4, <1>2 DEF DInv, RunsInv
  <2> QED BY <2>2, <2>3, <2>4
<1>8. /\ DOMAIN made' = Slots
      /\ \A x \in Slots : made'[x] \in Nat /\ made'[x] >= made[x]
      /\ slotIn(run[r]) \in Slots => made'[slotIn(run[r])] > 0
  BY <1>1 DEF DInv, MadeInv
<1>9. MadeInv'
  <2> SUFFICES ASSUME NEW q \in Runs, run'[q].pc \in {"ping", "mail"}, slotIn(run[q]) \in Slots
               PROVE made'[slotIn(run[q])] > 0
    BY <1>4, <1>8 DEF MadeInv
  <2>1. CASE q = r BY <2>1, <1>8
  <2>2. CASE q # r
    <3>1. made[slotIn(run[q])] > 0 /\ made[slotIn(run[q])] \in Nat BY <2>2, <1>3 DEF DInv, MadeInv
    <3> QED BY <3>1, <1>8
  <2> QED BY <2>1, <2>2
<1>10. OneBriefUnlessRunsOverlap'
  <2> SUFFICES ASSUME NEW p \in reports', NEW q \in reports', p.by = "cron", q.by = "cron",
                      p # q, p.day = q.day, p.type = q.type
               PROVE p.at <= q.stored /\ q.at <= p.stored
    BY DEF OneBriefUnlessRunsOverlap
  <2>1. ASSUME NEW o \in reports, o.by = "cron", o.day = new.day, o.type = new.type
        PROVE o.at <= new.stored /\ new.at <= o.stored
    <3>1. o \in autoIn(reports, slotIn(run[r])) BY <2>1, <1>2 DEF autoIn
    <3>2. run[r].now <= o.stored BY <3>1, <1>1 DEF DInv, InsertInv
    <3>3. o.at <= clock BY DEF DInv, ClockInv
    <3> QED BY <3>2, <3>3, <1>2
  <2>2. p \in reports \/ p = new BY <1>1
  <2>3. q \in reports \/ q = new BY <1>1
  <2>4. CASE p \in reports /\ q \in reports
    BY <2>4 DEF DInv, OneBriefUnlessRunsOverlap
  <2>5. CASE p \in reports /\ q = new
    BY <2>5, <2>1
  <2>6. CASE p = new /\ q \in reports
    BY <2>6, <2>1
  <2> QED BY <2>2, <2>3, <2>4, <2>5, <2>6
<1> QED BY <1>5, <1>6, <1>7, <1>9, <1>10 DEF DInv

LEMMA PingKeeps ==
  ASSUME DInv, NEW r \in Runs, Ping(r) PROVE DInv'
<1>0. /\ DOMAIN run = Runs /\ DOMAIN run[r] = Fields /\ run[r].now \in Nat
      /\ run[r].now <= clock /\ clock \in Nat
  BY DEF DInv, RunsInv, ClockInv
<1>1. /\ run[r].pc = "ping"
      /\ \E to : run' = [run EXCEPT ![r] = [@ EXCEPT !.pc = "mail", !.to = to]]
      /\ UNCHANGED <<clock, reports, made>>
  BY DEF Ping, slot, slotIn
<1>2. /\ DOMAIN run' = Runs /\ \A q \in Runs : q # r => run'[q] = run[q]
      /\ DOMAIN run'[r] = Fields /\ run'[r].now = run[r].now /\ run'[r].pc = "mail"
      /\ run'[r].slots = run[r].slots
  BY <1>1, <1>0 DEF Fields
<1>3. \A q \in Runs : slotIn(run'[q]) = slotIn(run[q]) BY <1>2 DEF slotIn
<1>4. ClockInv' BY <1>1 DEF DInv, ClockInv
<1>5. RunsInv' BY <1>1, <1>2 DEF DInv, RunsInv
<1>7. InsertInv'
  <2> SUFFICES ASSUME NEW q \in Runs, run'[q].pc = "insert",
                      NEW p \in autoIn(reports, slotIn(run[q]))
               PROVE run'[q].now <= p.stored
    BY <1>1, <1>3 DEF InsertInv
  <2>1. run'[q] = run[q] BY <1>2
  <2> QED BY <2>1 DEF DInv, InsertInv
<1>8. MadeInv'
  <2> SUFFICES ASSUME NEW q \in Runs, run'[q].pc \in {"ping", "mail"}, slotIn(run[q]) \in Slots
               PROVE made[slotIn(run[q])] > 0
    BY <1>1, <1>3 DEF DInv, MadeInv
  <2>1. run[q].pc \in {"ping", "mail"} BY <1>1, <1>2
  <2> QED BY <2>1 DEF DInv, MadeInv
<1>9. OneBriefUnlessRunsOverlap' BY <1>1 DEF DInv, OneBriefUnlessRunsOverlap
<1> QED BY <1>4, <1>5, <1>7, <1>8, <1>9 DEF DInv

-----------------------------------------------------------------------------
LEMMA FaultKeeps ==
  ASSUME DInv, NEW r \in Runs, Crash(r) \/ Throw(r) PROVE DInv'
<1>0. /\ DOMAIN run = Runs /\ DOMAIN run[r] = Fields /\ run[r].now \in Nat
      /\ run[r].now <= clock /\ clock \in Nat
  BY DEF DInv, RunsInv, ClockInv
<1>1. UNCHANGED <<clock, reports, made>> BY DEF Crash, Throw
<1>2. \/ run' = [run EXCEPT ![r] = Idle]
      \/ run' = [run EXCEPT ![r] = [@ EXCEPT !.pc = "settings", !.left = {}, !.now = clock]]
  BY DEF Crash, Throw
<1>3. DOMAIN Idle = Fields /\ Idle.pc = "idle" /\ Idle.now = 0 BY DEF Idle, Fields
<1>4. CASE run' = [run EXCEPT ![r] = Idle]
  <2>1. DOMAIN run' = Runs /\ (\A q \in Runs : q # r => run'[q] = run[q]) /\ run'[r] = Idle
    BY <1>4, <1>0
  <2> QED BY <1>0, <1>1, <1>3, <2>1, RunStepKeeps
<1>5. CASE run' = [run EXCEPT ![r] = [@ EXCEPT !.pc = "settings", !.left = {}, !.now = clock]]
  <2>1. /\ DOMAIN run' = Runs /\ \A q \in Runs : q # r => run'[q] = run[q]
        /\ DOMAIN run'[r] = Fields /\ run'[r].now = clock /\ run'[r].pc = "settings"
    BY <1>5, <1>0 DEF Fields
  <2> QED BY <1>0, <1>1, <2>1, RunStepKeeps
<1> QED BY <1>2, <1>4, <1>5

\* What people do: no run moves, and the automatic briefs only get fewer.
LEMMA ByHandKeeps ==
  ASSUME DInv, UNCHANGED <<clock, run, made>>,
         \A p \in reports' : p.at \in Nat /\ p.stored \in Nat /\ p.at <= clock /\ p.stored <= clock,
         \A p \in reports' : p.by = "cron" => p \in reports
  PROVE  DInv'
<1> USE DEF DInv
<1>1. ClockInv' BY DEF ClockInv
<1>2. RunsInv' BY DEF RunsInv
<1>3. InsertInv'
  <2>1. \A r \in Runs : slotIn(run'[r]) = slotIn(run[r]) OBVIOUS
  <2>2. \A s : autoIn(reports', s) \subseteq autoIn(reports, s) BY DEF autoIn
  <2> QED BY <2>1, <2>2 DEF InsertInv
<1>4. MadeInv' BY DEF MadeInv
<1>5. OneBriefUnlessRunsOverlap' BY DEF OneBriefUnlessRunsOverlap
<1> QED BY <1>1, <1>2, <1>3, <1>4, <1>5

LEMMA InterventionsKeep ==
  ASSUME DInv,
         \/ \E o \in Offers : SaveSettings(o)
         \/ \E ty \in BriefType : GenerateByHand(ty)
         \/ \E p \in reports : DeleteReport(p)
         \/ \E t \in Tasks : SettleTask(t)
  PROVE  DInv'
<1>0. clock \in Nat /\ \A p \in reports : p.at \in Nat /\ p.stored \in Nat
                                           /\ p.at <= clock /\ p.stored <= clock
  BY DEF DInv, ClockInv
<1>1. ASSUME NEW o \in Offers, SaveSettings(o) PROVE DInv'
  <2>1. UNCHANGED <<clock, run, made, reports>> BY <1>1 DEF SaveSettings
  <2> QED BY <2>1, <1>0, ByHandKeeps
<1>2. ASSUME NEW ty \in BriefType, GenerateByHand(ty) PROVE DInv'
  <2> DEFINE new == [day |-> dayOf(clock), type |-> ty, by |-> "user",
                     at |-> 0, stored |-> 0]
  <2>1. UNCHANGED <<clock, run, made>> /\ reports' = reports \cup {new}
    BY <1>2 DEF GenerateByHand
  <2>2. new.by = "user" /\ new.at = 0 /\ new.stored = 0
    OBVIOUS
  <2> HIDE DEF new
  <2>3. \A p \in reports' : p.at \in Nat /\ p.stored \in Nat /\ p.at <= clock /\ p.stored <= clock
    BY <2>1, <2>2, <1>0
  <2>4. \A p \in reports' : p.by = "cron" => p \in reports
    BY <2>1, <2>2
  <2> QED BY <2>1, <2>3, <2>4, ByHandKeeps
<1>3. ASSUME NEW p \in reports, DeleteReport(p) PROVE DInv'
  <2>1. UNCHANGED <<clock, run, made>> /\ reports' = reports \ {p}
    BY <1>3 DEF DeleteReport
  <2> QED BY <2>1, <1>0, ByHandKeeps
<1>4. ASSUME NEW t \in Tasks, SettleTask(t) PROVE DInv'
  <2>1. UNCHANGED <<clock, run, made, reports>> BY <1>4 DEF SettleTask
  <2> QED BY <2>1, <1>0, ByHandKeeps
<1> QED BY <1>1, <1>2, <1>3, <1>4

LEMMA JobsStepInv == DInv /\ [Next]_vars => DInv'
<1> SUFFICES ASSUME DInv, [Next]_vars PROVE DInv'
  OBVIOUS
<1>1. CASE UNCHANGED vars
  <2>1. UNCHANGED <<clock, run, made, reports>> BY <1>1 DEF vars
  <2>2. \A p \in reports' : p.at \in Nat /\ p.stored \in Nat /\ p.at <= clock /\ p.stored <= clock
    BY <2>1 DEF DInv, ClockInv
  <2> QED BY <2>1, <2>2, ByHandKeeps
<1>2. CASE Next
  BY <1>2, TriggerKeeps, JobStepKeeps, InsertKeeps, PingKeeps, FaultKeeps, InterventionsKeep
     DEF Next, RunStep
<1> QED BY <1>1, <1>2

-----------------------------------------------------------------------------
(* Mails.  What a run may still send counts as sent: a mailbox has had, or *)
(* is owed, at most one mail for each snapshot.                            *)

People == UNION {{o.raw[i] : i \in DOMAIN o.raw} : o \in Offers}

\* No two of the recipients are one mailbox.
Distinct(to) ==
  /\ to \in Seq(People)
  /\ \A i, j \in DOMAIN to : to[i].box = to[j].box => i = j

RecipientsInv ==
  /\ Distinct(settings.recipients)
  /\ \A r \in Runs :
       /\ run[r].pc \in {"check", "insert", "ping", "mail"} /\ run[r].conf.enabled =>
            Distinct(run[r].conf.recipients)
       /\ run[r].pc = "mail" => Distinct(run[r].to)

\* A run that has stored the snapshot s and may still mail it to the box.
owes(x, s, box) ==
  /\ slotIn(x) = s
  /\ \/ x.pc = "ping"
     \/ x.pc = "mail" /\ \E i \in DOMAIN x.to : x.to[i].box = box
Owing(s, box) == {r \in Runs : owes(run[r], s, box)}

MailsInv ==
  /\ DOMAIN mailed = (1..Days) \X BriefType \X Boxes
  /\ \A s \in Slots, box \in Boxes :
       /\ IsFiniteSet(Owing(s, box))
       /\ mailed[<<s[1], s[2], box>>] \in Nat
       /\ mailed[<<s[1], s[2], box>>] + Cardinality(Owing(s, box)) <= made[s]

LEMMA LeastNumber ==
  ASSUME NEW S \in SUBSET Nat, S # {}
  PROVE  \E n \in S : \A m \in S : n <= m
<1>1. PICK n \in S : \A m \in S : ~(<<m, n>> \in OpToRel(<, Nat))
  BY NatLessThanWellFounded, WFMin
<1>2. \A m \in S : ~(m < n) BY <1>1 DEF OpToRel
<1> QED BY <1>2

\* Counting on by one number.
LEMMA CountOn ==
  ASSUME NEW S \in SUBSET Nat, NEW m \in Nat
  PROVE  /\ m \notin S => {j \in S : j <= m} = {j \in S : j <= m - 1}
         /\ m \in S => /\ {j \in S : j <= m} = {j \in S : j <= m - 1} \cup {m}
                       /\ m \notin {j \in S : j <= m - 1}
<1>1. ASSUME NEW j \in S PROVE j <= m <=> j <= m - 1 \/ j = m
  <2>1. j \in Nat OBVIOUS
  <2> QED BY <2>1
<1>2. m <= m /\ ~(m <= m - 1) OBVIOUS
<1>3. ASSUME m \notin S PROVE \A j \in S : j <= m <=> j <= m - 1 BY <1>1, <1>3
<1> QED BY <1>1, <1>2, <1>3

\* A set of numbers has an n-th one.
LEMMA NthExists ==
  ASSUME NEW L \in Nat, NEW S \in SUBSET Nat, \A j \in S : 1 <= j /\ j <= L,
         NEW n \in Nat, 1 <= n, n <= Cardinality(S)
  PROVE  \E i \in S : Cardinality({j \in S : j <= i}) = n
<1> DEFINE upTo(m) == {j \in S : j <= m}
           T == {m \in Nat : n <= Cardinality(upTo(m))}
<1>1. IsFiniteSet(S)
  <2>1. IsFiniteSet(1..L) BY FS_Interval
  <2>2. \A j \in S : j \in 1..L
    <3> SUFFICES ASSUME NEW j \in S PROVE j \in 1..L
      OBVIOUS
    <3>1. j \in Nat OBVIOUS
    <3> QED BY <3>1
  <2> QED BY <2>1, <2>2, FS_Subset
<1>2. ASSUME NEW m
      PROVE  IsFiniteSet(upTo(m)) /\ Cardinality(upTo(m)) \in Nat
  <2>1. upTo(m) \in SUBSET S OBVIOUS
  <2> HIDE DEF upTo
  <2>2. IsFiniteSet(upTo(m)) BY <1>1, <2>1, FS_Subset
  <2> QED BY <2>2, FS_CardinalityType
<1>3. L \in T
  <2>1. upTo(L) = S OBVIOUS
  <2> HIDE DEF upTo
  <2> QED BY <2>1
<1>4. PICK m \in T : \A k \in T : m <= k
  <2>1. T \in SUBSET Nat OBVIOUS
  <2> HIDE DEF T
  <2> QED BY <1>3, <2>1, LeastNumber
<1>5. m \in Nat /\ n <= Cardinality(upTo(m)) OBVIOUS
<1>6. m - 1 \in Nat
  <2>1. \A j \in S : ~(j <= 0)
    <3> SUFFICES ASSUME NEW j \in S PROVE ~(j <= 0)
      OBVIOUS
    <3>1. j \in Nat /\ 1 <= j OBVIOUS
    <3> QED BY <3>1
  <2>2. upTo(0) = {} BY <2>1
  <2> HIDE DEF upTo, T
  <2>3. Cardinality(upTo(0)) = 0 BY <2>2, FS_EmptySet
  <2>4. m # 0 BY <1>5, <2>3
  <2> QED BY <1>5, <2>4
<1>7. Cardinality(upTo(m - 1)) < n
  <2> SUFFICES ASSUME ~(Cardinality(upTo(m - 1)) < n) PROVE FALSE
    OBVIOUS
  <2> HIDE DEF upTo
  <2>1. m - 1 \in T BY <1>2, <1>6
  <2>2. m <= m - 1 BY <1>4, <2>1
  <2> QED BY <1>5, <2>2
<1> HIDE DEF T
<1>8. m \in S
  <2> SUFFICES ASSUME m \notin S PROVE FALSE
    OBVIOUS
  <2>1. upTo(m) = upTo(m - 1) BY <1>5, CountOn
  <2> HIDE DEF upTo
  <2> QED BY <1>2, <1>5, <1>7, <2>1
<1>9. upTo(m) = upTo(m - 1) \cup {m} /\ m \notin upTo(m - 1) BY <1>5, <1>8, CountOn
<1> HIDE DEF upTo
<1>10. Cardinality(upTo(m)) = Cardinality(upTo(m - 1)) + 1 BY <1>2, <1>9, FS_AddElement
<1>11. Cardinality(upTo(m)) = n BY <1>2, <1>5, <1>7, <1>10
<1> QED BY <1>8, <1>11 DEF upTo

\* normalizeBriefEmailRecipients keeps one of the addresses of a mailbox.
LEMMA NormalizedIsDistinct ==
  ASSUME NEW o \in Offers
  PROVE  Distinct(normalizeBriefEmailRecipients(o.raw))
<1> DEFINE raw == o.raw
           first == {i \in DOMAIN raw : \A j \in 1..(i - 1) : raw[j].box # raw[i].box}
           nth(n) == CHOOSE i \in first : Cardinality({j \in first : j <= i}) = n
           N == Cardinality(first)
           to == [n \in 1..N |-> raw[nth(n)]]
<1>1. Len(raw) \in Nat /\ DOMAIN raw = 1..Len(raw) BY OffersAssumption
<1>2. /\ first \in SUBSET Nat /\ first \subseteq DOMAIN raw
      /\ \A j \in first : 1 <= j /\ j <= Len(raw)
  <2> SUFFICES ASSUME NEW j \in first PROVE j \in Nat /\ j \in DOMAIN raw /\ 1 <= j /\ j <= Len(raw)
    OBVIOUS
  <2>1. j \in 1..Len(raw) BY <1>1
  <2> QED BY <1>1, <2>1
<1>3. N \in Nat
  <2>1. IsFiniteSet(1..Len(raw)) BY <1>1, FS_Interval
  <2>2. first \in SUBSET (1..Len(raw)) BY <1>1
  <2> HIDE DEF first
  <2>3. IsFiniteSet(first) BY <2>1, <2>2, FS_Subset
  <2> QED BY <2>3, FS_CardinalityType
<1>4. \A i, j \in first : raw[i].box = raw[j].box => i = j
  <2>1. ASSUME NEW i \in first, NEW j \in first, i < j PROVE raw[i].box # raw[j].box
    <3>1. i \in Nat /\ j \in Nat /\ 1 <= i BY <1>2
    <3>2. i \in 1..(j - 1) BY <2>1, <3>1
    <3> QED BY <3>2
  <2>2. \A i, j \in first : i \in Nat /\ j \in Nat BY <1>2
  <2> HIDE DEF first
  <2> QED BY <2>1, <2>2
<1> HIDE DEF first
<1>5. ASSUME NEW n \in 1..N
      PROVE  nth(n) \in first /\ Cardinality({j \in first : j <= nth(n)}) = n
  <2>1. n \in Nat /\ 1 <= n /\ n <= Cardinality(first) BY <1>3
  <2>2. \E i \in first : Cardinality({j \in first : j <= i}) = n
    BY <1>1, <1>2, <2>1, NthExists
  <2> QED BY <2>2
<1> HIDE DEF nth
<1>6. \A n, m \in 1..N : nth(n) = nth(m) => n = m
  <2> SUFFICES ASSUME NEW n \in 1..N, NEW m \in 1..N, nth(n) = nth(m) PROVE n = m
    OBVIOUS
  <2> QED BY <1>5
<1>7. \A n \in 1..N : raw[nth(n)] \in People
  <2> SUFFICES ASSUME NEW n \in 1..N PROVE raw[nth(n)] \in People
    OBVIOUS
  <2>1. nth(n) \in DOMAIN raw BY <1>2, <1>5
  <2> HIDE DEF nth
  <2>2. raw[nth(n)] \in {o.raw[i] : i \in DOMAIN o.raw} BY <2>1
  <2> QED BY <2>2 DEF People
<1> HIDE DEF N
<1>8. to \in Seq(People) /\ DOMAIN to = 1..N /\ \A n \in 1..N : to[n] = raw[nth(n)]
  <2>1. to \in [1..N -> People] BY <1>7
  <2> QED BY <1>3, <2>1
<1>9. Distinct(to)
  <2>1. ASSUME NEW n \in 1..N, NEW m \in 1..N, to[n].box = to[m].box PROVE n = m
    <3> HIDE DEF to, raw
    <3>1. raw[nth(n)].box = raw[nth(m)].box BY <1>8, <2>1
    <3>2. nth(n) \in first /\ nth(m) \in first BY <1>5
    <3>3. nth(n) = nth(m) BY <1>4, <3>1, <3>2
    <3> QED BY <1>6, <3>3
  <2> HIDE DEF to
  <2> QED BY <1>8, <2>1 DEF Distinct
<1>10. normalizeBriefEmailRecipients(raw) = to
  BY DEF normalizeBriefEmailRecipients, to, nth, first, N
<1> QED BY <1>9, <1>10

LEMMA MailsInitInv == Init => RecipientsInv /\ MailsInv
<1> SUFFICES ASSUME Init PROVE RecipientsInv /\ MailsInv
  OBVIOUS
<1>1. PICK o \in Offers : settings = mergeBriefSettings(o) BY DEF Init
<1>2. settings.recipients = normalizeBriefEmailRecipients(o.raw) BY <1>1 DEF mergeBriefSettings
<1>3. \A r \in Runs : run[r].pc = "idle" BY DEF Init, Idle
<1>4. RecipientsInv BY <1>2, <1>3, NormalizedIsDistinct DEF RecipientsInv
<1>5. \A s, box : Owing(s, box) = {} BY <1>3 DEF Owing, owes
<1>6. \A s \in Slots, box \in Boxes : mailed[<<s[1], s[2], box>>] = 0 /\ made[s] = 0
  <2>1. mailed = [x \in (1..Days) \X BriefType \X Boxes |-> 0]
        /\ made = [x \in (1..Days) \X BriefType |-> 0]
    BY DEF Init
  <2> QED BY <2>1 DEF Slots
<1>7. DOMAIN mailed = (1..Days) \X BriefType \X Boxes BY DEF Init
<1>8. IsFiniteSet({}) /\ Cardinality({}) = 0 BY FS_EmptySet
<1>9. MailsInv BY <1>5, <1>6, <1>7, <1>8 DEF MailsInv
<1> QED BY <1>4, <1>9

\* A step of run r that mails nothing, stores nothing and leaves r owing no
\* more than before.
LEMMA OwesNoMore ==
  ASSUME MadeInv, RecipientsInv, MailsInv, NEW r \in Runs, UNCHANGED <<mailed, made>>,
         Distinct(settings'.recipients), \A q \in Runs : q # r => run'[q] = run[q],
         run'[r].pc \in {"check", "insert", "ping", "mail"} /\ run'[r].conf.enabled =>
           Distinct(run'[r].conf.recipients),
         run'[r].pc = "mail" => Distinct(run'[r].to),
         \A s, box : owes(run'[r], s, box) => owes(run[r], s, box)
  PROVE  RecipientsInv' /\ MailsInv'
<1>1. RecipientsInv' BY DEF RecipientsInv, Distinct
<1>2. \A s, box : Owing(s, box)' \subseteq Owing(s, box)
  <2>1. \A s, box : Owing(s, box)' = {q \in Runs : owes(run'[q], s, box)}
    BY DEF Owing, owes, slotIn
  <2>2. \A q \in Runs : \A s, box : owes(run'[q], s, box) => owes(run[q], s, box) OBVIOUS
  <2> QED BY <2>1, <2>2 DEF Owing
<1>3. ASSUME NEW s \in Slots, NEW box \in Boxes
      PROVE  /\ IsFiniteSet(Owing(s, box)')
             /\ mailed[<<s[1], s[2], box>>] + Cardinality(Owing(s, box)') <= made[s]
  <2>1. /\ IsFiniteSet(Owing(s, box)) /\ mailed[<<s[1], s[2], box>>] \in Nat
        /\ mailed[<<s[1], s[2], box>>] + Cardinality(Owing(s, box)) <= made[s]
    BY DEF MailsInv
  <2>2. Owing(s, box)' \in SUBSET Owing(s, box) BY <1>2
  <2>3. IsFiniteSet(Owing(s, box)') /\ Cardinality(Owing(s, box)') <= Cardinality(Owing(s, box))
    BY <2>1, <2>2, FS_Subset
  <2>4. Cardinality(Owing(s, box)') \in Nat /\ Cardinality(Owing(s, box)) \in Nat
    BY <2>1, <2>3, FS_CardinalityType
  <2>5. made[s] \in Nat BY DEF MadeInv
  <2> QED BY <2>1, <2>3, <2>4, <2>5
<1>4. MailsInv' BY <1>3 DEF MailsInv
<1> QED BY <1>1, <1>4

LEMMA TailIsDistinct ==
  ASSUME NEW to, Distinct(to), to # <<>>
  PROVE  /\ Distinct(Tail(to))
         /\ 1 \in DOMAIN to /\ Head(to) = to[1]
         /\ \A i \in DOMAIN Tail(to) : i + 1 \in DOMAIN to /\ i + 1 # 1 /\ Tail(to)[i] = to[i + 1]
<1>1. to \in Seq(People) /\ Len(to) \in Nat /\ Len(to) # 0 /\ DOMAIN to = 1..Len(to)
  BY DEF Distinct
<1>2. /\ Tail(to) \in Seq(People) /\ DOMAIN Tail(to) = 1..(Len(to) - 1)
      /\ \A i \in 1..(Len(to) - 1) : Tail(to)[i] = to[i + 1]
  BY <1>1
<1>3. 1 \in DOMAIN to /\ Head(to) = to[1] BY <1>1
<1>4. \A i \in DOMAIN Tail(to) : i \in Nat /\ i + 1 \in DOMAIN to /\ i + 1 # 1 /\ Tail(to)[i] = to[i + 1]
  BY <1>1, <1>2
<1>5. ASSUME NEW i \in DOMAIN Tail(to), NEW j \in DOMAIN Tail(to),
             Tail(to)[i].box = Tail(to)[j].box
      PROVE  i = j
  <2>1. i + 1 = j + 1 BY <1>4, <1>5 DEF Distinct
  <2>2. i \in Nat /\ j \in Nat BY <1>4
  <2> QED BY <2>1, <2>2
<1> QED BY <1>2, <1>3, <1>4, <1>5 DEF Distinct

\* A run that is not with a snapshot owes nothing.
LEMMA OwesNothing ==
  ASSUME MadeInv, RecipientsInv, MailsInv, NEW r \in Runs, UNCHANGED <<mailed, made, settings>>,
         \A q \in Runs : q # r => run'[q] = run[q],
         run'[r].pc \notin {"ping", "mail"},
         run'[r].pc \in {"check", "insert"} /\ run'[r].conf.enabled =>
           Distinct(run'[r].conf.recipients)
  PROVE  RecipientsInv' /\ MailsInv'
<1>1. Distinct(settings'.recipients) BY DEF RecipientsInv
<1>2. \A s, box : ~owes(run'[r], s, box) BY DEF owes
<1> QED BY <1>1, <1>2, OwesNoMore

LEMMA QuietStepMails ==
  ASSUME DInv, RecipientsInv, MailsInv, NEW r \in Runs,
         \/ Trigger(r) \/ SelectDueTasks(r) \/ Remind(r) \/ ReadSettings(r) \/ Check(r)
         \/ Crash(r) \/ Throw(r)
  PROVE  RecipientsInv' /\ MailsInv'
<1>1. UNCHANGED <<mailed, made, settings>> /\ MadeInv
  BY DEF Trigger, SelectDueTasks, Remind, ReadSettings, Check, Crash, Throw, DInv
<1>2. DOMAIN run = Runs /\ DOMAIN run[r] = Fields BY DEF DInv, RunsInv
<1>3. Idle.pc = "idle" BY DEF Idle
<1>4. \A q \in Runs : q # r => run'[q] = run[q]
  BY <1>2 DEF Trigger, SelectDueTasks, Remind, ReadSettings, Check, Crash, Throw
<1>5. CASE Trigger(r)
  <2>1. run'[r].pc = "tasks" BY <1>2, <1>5 DEF Trigger, Idle
  <2> QED BY <1>1, <1>4, <2>1, OwesNothing
<1>6. CASE SelectDueTasks(r)
  <2>1. run'[r].pc = "remind" BY <1>2, <1>6 DEF SelectDueTasks, Fields
  <2> QED BY <1>1, <1>4, <2>1, OwesNothing
<1>7. CASE Remind(r)
  <2>1. run'[r].pc \in {"remind", "settings"} BY <1>2, <1>7 DEF Remind, Fields
  <2> QED BY <1>1, <1>4, <2>1, OwesNothing
<1>8. CASE ReadSettings(r)
  <2>1. \E s : run' = [run EXCEPT ![r] = [@ EXCEPT !.pc = "check", !.conf = settings, !.slots = s]]
    BY <1>8 DEF ReadSettings
  <2>2. run'[r].pc = "check" /\ run'[r].conf = settings BY <1>2, <2>1 DEF Fields
  <2> QED BY <1>1, <1>4, <2>2, OwesNothing DEF RecipientsInv
<1>9. CASE Check(r)
  <2>1. run[r].pc = "check" /\ \/ run' = [run EXCEPT ![r] = Idle]
                               \/ run' = [run EXCEPT ![r].slots = Tail(@)]
                               \/ run' = [run EXCEPT ![r].pc = "insert"]
    BY <1>9 DEF Check
  <2>2. \/ run'[r] = Idle
        \/ run'[r].pc \in {"check", "insert"} /\ run'[r].conf = run[r].conf
    BY <1>2, <2>1 DEF Fields
  <2> QED BY <1>1, <1>3, <1>4, <2>1, <2>2, OwesNothing DEF RecipientsInv
<1>10. CASE Crash(r)
  <2>1. run'[r] = Idle BY <1>2, <1>10 DEF Crash
  <2> QED BY <1>1, <1>3, <1>4, <2>1, OwesNothing
<1>11. CASE Throw(r)
  <2>1. run'[r].pc \in {"idle", "settings"} BY <1>2, <1>3, <1>11 DEF Throw, Fields
  <2> QED BY <1>1, <1>4, <2>1, OwesNothing
<1> QED BY <1>5, <1>6, <1>7, <1>8, <1>9, <1>10, <1>11

LEMMA InsertMails ==
  ASSUME DInv, RecipientsInv, MailsInv, NEW r \in Runs, Insert(r)
  PROVE  RecipientsInv' /\ MailsInv'
<1>1. /\ DOMAIN run = Runs /\ DOMAIN run[r] = Fields /\ run[r].pc = "insert"
      /\ run' = [run EXCEPT ![r].pc = "ping"] /\ UNCHANGED <<settings, mailed>>
      /\ made' = [made EXCEPT ![slotIn(run[r])] = @ + 1]
  BY DEF DInv, RunsInv, Insert, slot, slotIn
<1>2. /\ \A q \in Runs : q # r => run'[q] = run[q]
      /\ run'[r].pc = "ping" /\ run'[r].conf = run[r].conf /\ run'[r].now = run[r].now
      /\ run'[r].slots = run[r].slots
  BY <1>1 DEF Fields
<1>3. RecipientsInv' BY <1>1, <1>2 DEF RecipientsInv, Distinct
<1>4. PICK at : at = slotIn(run[r]) OBVIOUS
<1>5. \A s, box : /\ owes(run'[r], s, box) <=> s = at
                  /\ ~owes(run[r], s, box)
  <2>1. slotIn(run'[r]) = slotIn(run[r]) BY <1>2 DEF slotIn
  <2>2. run[r].pc = "insert" /\ run'[r].pc = "ping" BY <1>1, <1>2
  <2> QED BY <1>4, <2>1, <2>2 DEF owes
<1>6. ASSUME NEW s \in Slots, NEW box \in Boxes
      PROVE  /\ IsFiniteSet(Owing(s, box)')
             /\ mailed[<<s[1], s[2], box>>] + Cardinality(Owing(s, box)') <= made'[s]
  <2>1. /\ IsFiniteSet(Owing(s, box)) /\ mailed[<<s[1], s[2], box>>] \in Nat
        /\ mailed[<<s[1], s[2], box>>] + Cardinality(Owing(s, box)) <= made[s]
        /\ made[s] \in Nat /\ DOMAIN made = Slots
    BY DEF DInv, MadeInv, MailsInv
  <2>2. Cardinality(Owing(s, box)) \in Nat BY <2>1, FS_CardinalityType
  <2>3. Owing(s, box)' = {q \in Runs : owes(run'[q], s, box)} BY DEF Owing, owes, slotIn
  <2>4. CASE s = at
    <3>1. Owing(s, box)' = Owing(s, box) \cup {r} /\ r \notin Owing(s, box)
      BY <1>2, <1>5, <2>3, <2>4 DEF Owing
    <3>2. made'[s] = made[s] + 1 BY <1>1, <1>4, <2>1, <2>4
    <3>3. /\ IsFiniteSet(Owing(s, box)')
          /\ Cardinality(Owing(s, box)') = Cardinality(Owing(s, box)) + 1
      BY <2>1, <3>1, FS_AddElement
    <3> QED BY <2>1, <2>2, <3>2, <3>3
  <2>5. CASE s # at
    <3>1. Owing(s, box)' = Owing(s, box) BY <1>2, <1>5, <2>3, <2>5 DEF Owing
    <3>2. made'[s] = made[s] BY <1>1, <1>4, <2>1, <2>5
    <3> QED BY <2>1, <3>1, <3>2
  <2> QED BY <2>4, <2>5
<1>7. MailsInv' BY <1>1, <1>6 DEF MailsInv
<1> QED BY <1>3, <1>7

LEMMA PingMails ==
  ASSUME DInv, RecipientsInv, MailsInv, NEW r \in Runs, Ping(r)
  PROVE  RecipientsInv' /\ MailsInv'
<1>1. /\ DOMAIN run = Runs /\ DOMAIN run[r] = Fields /\ run[r].pc = "ping"
      /\ UNCHANGED <<settings, mailed, made>> /\ MadeInv
  BY DEF DInv, RunsInv, Ping
<1>2. PICK to : /\ to = IF run[r].conf.enabled THEN run[r].conf.recipients ELSE <<>>
                /\ run' = [run EXCEPT ![r] = [@ EXCEPT !.pc = "mail", !.to = to]]
  BY DEF Ping
<1>3. /\ \A q \in Runs : q # r => run'[q] = run[q]
      /\ run'[r].pc = "mail" /\ run'[r].conf = run[r].conf /\ run'[r].now = run[r].now
      /\ run'[r].slots = run[r].slots /\ run'[r].to = to
  BY <1>1, <1>2 DEF Fields
<1>4. Distinct(<<>>) BY DEF Distinct
<1>5. Distinct(to) BY <1>1, <1>2, <1>4 DEF RecipientsInv
<1>6. \A s, box : owes(run'[r], s, box) => owes(run[r], s, box)
  <2>1. slotIn(run'[r]) = slotIn(run[r]) BY <1>3 DEF slotIn
  <2>2. run[r].pc = "ping" BY <1>1
  <2> QED BY <2>1, <2>2 DEF owes
<1>7. /\ Distinct(settings'.recipients)
      /\ run'[r].conf.enabled => Distinct(run'[r].conf.recipients)
  BY <1>1, <1>3 DEF RecipientsInv
<1> QED BY <1>1, <1>3, <1>5, <1>6, <1>7, OwesNoMore

\* The mail that is accepted is one the run owed, and it owes it no more.
LEMMA DeliveryMails ==
  ASSUME DInv, RecipientsInv, MailsInv, NEW r \in Runs, run[r].pc = "mail", run[r].to # <<>>,
         UNCHANGED <<settings, made>>, run' = [run EXCEPT ![r].to = Tail(@)],
         mailed' = [mailed EXCEPT ![<<slotIn(run[r])[1], slotIn(run[r])[2], Head(run[r].to).box>>]
                                    = @ + 1]
  PROVE  RecipientsInv' /\ MailsInv'
<1>1. DOMAIN run = Runs /\ DOMAIN run[r] = Fields BY DEF DInv, RunsInv
<1>2. /\ \A q \in Runs : q # r => run'[q] = run[q]
      /\ run'[r].pc = "mail" /\ run'[r].conf = run[r].conf /\ run'[r].now = run[r].now
      /\ run'[r].slots = run[r].slots /\ run'[r].to = Tail(run[r].to)
  BY <1>1 DEF Fields
<1>3. Distinct(run[r].to) BY DEF RecipientsInv
<1>4. PICK to, at, one :
        to = run[r].to /\ at = slotIn(run[r]) /\ one = Head(run[r].to).box
  OBVIOUS
<1>5. /\ Distinct(Tail(to))
      /\ 1 \in DOMAIN to /\ to[1].box = one
      /\ \A i \in DOMAIN Tail(to) : i + 1 \in DOMAIN to /\ i + 1 # 1 /\ Tail(to)[i] = to[i + 1]
  BY <1>3, <1>4, TailIsDistinct
<1>6. slotIn(run'[r]) = at BY <1>2, <1>4 DEF slotIn
<1>7. RecipientsInv' BY <1>2, <1>4, <1>5 DEF RecipientsInv, Distinct
<1>8. owes(run[r], at, one) /\ ~owes(run'[r], at, one)
  <2>1. owes(run[r], at, one) BY <1>4, <1>5 DEF owes
  <2>2. ASSUME NEW i \in DOMAIN Tail(to), Tail(to)[i].box = one PROVE FALSE
    <3>1. i + 1 \in DOMAIN to /\ i + 1 # 1 /\ to[i + 1].box = to[1].box BY <1>5, <2>2
    <3> QED BY <1>3, <1>4, <1>5, <3>1 DEF Distinct
  <2> QED BY <1>2, <1>4, <2>1, <2>2 DEF owes
<1>9. \A s, box : owes(run'[r], s, box) => owes(run[r], s, box)
  <2> SUFFICES ASSUME NEW s, NEW box, owes(run'[r], s, box) PROVE owes(run[r], s, box)
    OBVIOUS
  <2>1. s = at /\ \E i \in DOMAIN Tail(to) : Tail(to)[i].box = box
    BY <1>2, <1>4, <1>6 DEF owes
  <2>2. \E i \in DOMAIN to : to[i].box = box BY <1>5, <2>1
  <2> QED BY <1>4, <2>1, <2>2 DEF owes
<1>10. ASSUME NEW s \in Slots, NEW box \in Boxes
       PROVE  /\ mailed'[<<s[1], s[2], box>>] \in Nat
              /\ IsFiniteSet(Owing(s, box)')
              /\ mailed'[<<s[1], s[2], box>>] + Cardinality(Owing(s, box)') <= made[s]
  <2>1. /\ IsFiniteSet(Owing(s, box)) /\ mailed[<<s[1], s[2], box>>] \in Nat
        /\ mailed[<<s[1], s[2], box>>] + Cardinality(Owing(s, box)) <= made[s]
        /\ made[s] \in Nat /\ DOMAIN mailed = (1..Days) \X BriefType \X Boxes
    BY DEF DInv, MadeInv, MailsInv
  <2>2. Cardinality(Owing(s, box)) \in Nat BY <2>1, FS_CardinalityType
  <2>3. Owing(s, box)' = {q \in Runs : owes(run'[q], s, box)} BY DEF Owing, owes, slotIn
  <2>4. /\ s = <<s[1], s[2]>> /\ at = <<at[1], at[2]>>
        /\ <<s[1], s[2], box>> \in DOMAIN mailed
    BY <1>4, <2>1 DEF Slots, slotIn
  <2>5. mailed' = [mailed EXCEPT ![<<at[1], at[2], one>>] = @ + 1] BY <1>4
  <2>6. CASE s = at /\ box = one
    <3>1. mailed'[<<s[1], s[2], box>>] = mailed[<<s[1], s[2], box>>] + 1
      BY <2>4, <2>5, <2>6
    <3>2. Owing(s, box)' = Owing(s, box) \ {r} /\ r \in Owing(s, box)
      BY <1>2, <1>8, <2>3, <2>6 DEF Owing
    <3>3. /\ IsFiniteSet(Owing(s, box)')
          /\ Cardinality(Owing(s, box)') = Cardinality(Owing(s, box)) - 1
      BY <2>1, <3>2, FS_RemoveElement
    <3> QED BY <2>1, <2>2, <3>1, <3>3
  <2>7. CASE ~(s = at /\ box = one)
    <3>1. <<s[1], s[2], box>> # <<at[1], at[2], one>> BY <2>4, <2>7
    <3>2. mailed'[<<s[1], s[2], box>>] = mailed[<<s[1], s[2], box>>] BY <2>4, <2>5, <3>1
    <3>3. Owing(s, box)' \in SUBSET Owing(s, box) BY <1>2, <1>9, <2>3 DEF Owing
    <3>4. /\ IsFiniteSet(Owing(s, box)')
          /\ Cardinality(Owing(s, box)') <= Cardinality(Owing(s, box))
      BY <2>1, <3>3, FS_Subset
    <3>5. Cardinality(Owing(s, box)') \in Nat BY <3>4, FS_CardinalityType
    <3> QED BY <2>1, <2>2, <3>2, <3>4, <3>5
  <2> QED BY <2>6, <2>7
<1>11. DOMAIN mailed' = DOMAIN mailed OBVIOUS
<1>12. MailsInv' BY <1>10, <1>11 DEF MailsInv
<1> QED BY <1>7, <1>12

LEMMA MailMails ==
  ASSUME DInv, RecipientsInv, MailsInv, NEW r \in Runs, Mail(r)
  PROVE  RecipientsInv' /\ MailsInv'
<1>1. /\ DOMAIN run = Runs /\ DOMAIN run[r] = Fields /\ run[r].pc = "mail"
      /\ UNCHANGED <<settings, made>> /\ MadeInv
  BY DEF DInv, RunsInv, Mail
<1>2. CASE run[r].to = <<>>
  <2>1. run' = [run EXCEPT ![r] = [@ EXCEPT !.pc = "check", !.slots = Tail(@)]] /\ UNCHANGED mailed
    BY <1>2 DEF Mail
  <2>2. /\ \A q \in Runs : q # r => run'[q] = run[q]
        /\ run'[r].pc = "check" /\ run'[r].conf = run[r].conf
    BY <1>1, <2>1 DEF Fields
  <2> QED BY <1>1, <2>1, <2>2, OwesNothing DEF RecipientsInv
<1>3. CASE run[r].to # <<>>
  <2>1. /\ run' = [run EXCEPT ![r].to = Tail(@)]
        /\ \/ mailed' = [mailed EXCEPT ![<<slotIn(run[r])[1], slotIn(run[r])[2],
                                           Head(run[r].to).box>>] = @ + 1]
           \/ UNCHANGED mailed
    BY <1>3 DEF Mail, slot, slotIn
  <2>2. CASE UNCHANGED mailed
    <3>1. /\ \A q \in Runs : q # r => run'[q] = run[q]
          /\ run'[r].pc = "mail" /\ run'[r].conf = run[r].conf /\ run'[r].now = run[r].now
          /\ run'[r].slots = run[r].slots /\ run'[r].to = Tail(run[r].to)
      BY <1>1, <2>1 DEF Fields
    <3>2. Distinct(run[r].to) /\ Distinct(settings'.recipients) BY <1>1 DEF RecipientsInv
    <3>3. PICK to : to = run[r].to OBVIOUS
    <3>4. /\ Distinct(Tail(to))
          /\ \A i \in DOMAIN Tail(to) : i + 1 \in DOMAIN to /\ Tail(to)[i] = to[i + 1]
      BY <1>3, <3>2, <3>3, TailIsDistinct
    <3>5. slotIn(run'[r]) = slotIn(run[r]) BY <3>1 DEF slotIn
    <3>6. ASSUME NEW s, NEW box, owes(run'[r], s, box) PROVE owes(run[r], s, box)
      <4>1. s = slotIn(run[r]) /\ \E i \in DOMAIN Tail(to) : Tail(to)[i].box = box
        BY <3>1, <3>3, <3>5, <3>6 DEF owes
      <4>2. \E i \in DOMAIN to : to[i].box = box BY <3>4, <4>1
      <4> QED BY <1>1, <3>3, <4>1, <4>2 DEF owes
    <3>7. run'[r].conf.enabled => Distinct(run'[r].conf.recipients)
      BY <1>1, <3>1 DEF RecipientsInv
    <3> QED BY <1>1, <2>2, <3>1, <3>2, <3>3, <3>4, <3>6, <3>7, OwesNoMore
  <2> QED BY <1>1, <1>3, <2>1, <2>2, DeliveryMails
<1> QED BY <1>2, <1>3

\* No run moves: only the settings may be others.
LEMMA ByHandMails ==
  ASSUME RecipientsInv, MailsInv, UNCHANGED <<run, mailed, made>>,
         \/ UNCHANGED settings
         \/ \E o \in Offers : settings' = mergeBriefSettings(o)
  PROVE  RecipientsInv' /\ MailsInv'
<1>1. Distinct(settings'.recipients)
  BY NormalizedIsDistinct DEF RecipientsInv, mergeBriefSettings
<1>2. RecipientsInv' BY <1>1 DEF RecipientsInv, Distinct
<1>3. \A s, box : Owing(s, box)' = Owing(s, box) BY DEF Owing, owes, slotIn
<1> QED BY <1>2, <1>3 DEF MailsInv

LEMMA MailsStepInv ==
  DInv /\ RecipientsInv /\ MailsInv /\ [Next]_vars => RecipientsInv' /\ MailsInv'
<1> SUFFICES ASSUME DInv, RecipientsInv, MailsInv, [Next]_vars PROVE RecipientsInv' /\ MailsInv'
  OBVIOUS
<1>1. CASE UNCHANGED vars BY <1>1, ByHandMails DEF vars
<1>2. ASSUME NEW r \in Runs, Trigger(r) \/ RunStep(r) \/ Crash(r) \/ Throw(r)
      PROVE  RecipientsInv' /\ MailsInv'
  BY <1>2, QuietStepMails, InsertMails, PingMails, MailMails DEF RunStep
<1>3. CASE \/ \E o \in Offers : SaveSettings(o)
           \/ \E ty \in BriefType : GenerateByHand(ty)
           \/ \E p \in reports : DeleteReport(p)
           \/ \E t \in Tasks : SettleTask(t)
  BY <1>3, ByHandMails DEF SaveSettings, GenerateByHand, DeleteReport, SettleTask
<1> QED BY <1>1, <1>2, <1>3 DEF Next

-----------------------------------------------------------------------------
\* runBriefJobs is "idempotent per (date, type)" up to overlap: two automatic
\* briefs of a day and type come from runs of which each began before the
\* other's was stored; nothing that happens between runs leads to a second one.
THEOREM DuplicatesOnlyFromOverlap == Spec => []OneBriefUnlessRunsOverlap
<1>1. Init => DInv BY JobsInitInv
<1>2. DInv /\ [Next]_vars => DInv' BY JobsStepInv
<1>3. DInv => OneBriefUnlessRunsOverlap BY DEF DInv
<1> QED BY <1>1, <1>2, <1>3, PTL DEF Spec

\* However many runs overlap, fail to send or die, and whatever is saved in
\* the meantime, a mailbox gets a day's brief at most once for each automatic
\* snapshot of it, even if the settings name it twice.
THEOREM MailsFollowSnapshots == Spec => []MailedOncePerSnapshot
<1>1. Init => DInv /\ RecipientsInv /\ MailsInv BY JobsInitInv, MailsInitInv
<1>2. DInv /\ RecipientsInv /\ MailsInv /\ [Next]_vars => DInv' /\ RecipientsInv' /\ MailsInv'
  BY JobsStepInv, MailsStepInv
<1>3. DInv /\ MailsInv => MailedOncePerSnapshot
  <2> SUFFICES ASSUME DInv, MailsInv, NEW d \in 1..Days, NEW ty \in BriefType, NEW b \in Boxes
               PROVE  mailed[<<d, ty, b>>] <= made[<<d, ty>>]
    BY DEF MailedOncePerSnapshot
  <2>1. PICK s \in Slots : s = <<d, ty>> BY DEF Slots
  <2>2. /\ IsFiniteSet(Owing(s, b)) /\ mailed[<<s[1], s[2], b>>] \in Nat
        /\ mailed[<<s[1], s[2], b>>] + Cardinality(Owing(s, b)) <= made[s]
        /\ made[s] \in Nat
    BY DEF DInv, MadeInv, MailsInv
  <2>3. Cardinality(Owing(s, b)) \in Nat BY <2>2, FS_CardinalityType
  <2>4. s[1] = d /\ s[2] = ty BY <2>1
  <2>5. mailed[<<s[1], s[2], b>>] <= made[s] BY <2>2, <2>3
  <2> QED BY <2>1, <2>4, <2>5
<1> QED BY <1>1, <1>2, <1>3, PTL DEF Spec
=============================================================================
