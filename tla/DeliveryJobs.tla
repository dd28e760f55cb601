---------------------------- MODULE DeliveryJobs ----------------------------
(***************************************************************************)
(* The cron worker's deliveries: reminders of due tasks, and the Morning   *)
(* Brief and Evening Debrief with their bell notification and their mails. *)
(* A run is one invocation of the worker; runs may overlap, die between    *)
(* two statements or meet an error, while people generate and delete       *)
(* briefs, save the settings and work on tasks.                            *)
(*                                                                         *)
(* Time is the number of cron triggers so far.  A day of India has         *)
(* TicksPerDay of them and the UTC date follows UtcLag triggers later, so  *)
(* reminders (todayIso) and briefs (istToday) disagree about the date in   *)
(* the early hours.  A send time is the first trigger of the day that is   *)
(* not before it; TicksPerDay stands for a time no trigger follows, such   *)
(* as 23:45, or 25:00, which the settings accept.                          *)
(***************************************************************************)
EXTENDS Integers, FiniteSets, Sequences

CONSTANTS Runs,        \* invocations that may be active at once
          Tasks,       \* tasks with a due date, here all due on day 1
          Offers,      \* brief settings a person may save
          TicksPerDay, UtcLag,
          LastTrigger, \* bound: triggers in a behaviour, possibly ending within a day
          MaxLag,      \* bound: triggers that may pass while a run goes on
          MaxFaults,   \* bound: crashes, errors and failed mails in a behaviour
          MaxByHand    \* bound: things people do in a behaviour

ASSUME BoundsAssumption ==
  /\ LastTrigger \in Nat \ {0} /\ TicksPerDay \in Nat \ {0}
  /\ UtcLag \in 0..(TicksPerDay - 1)
  /\ MaxLag \in Nat /\ MaxFaults \in Nat /\ MaxByHand \in Nat

\* The settings' recipients, as typed, are a list.
ASSUME OffersAssumption ==
  \A o \in Offers : Len(o.raw) \in Nat /\ DOMAIN o.raw = 1..Len(o.raw)

BriefType == {"morning", "evening"}

VARIABLES
  clock,      \* cron triggers so far
  settings,   \* app_settings 'brief_settings'
  reports,    \* rows of daily_reports, each with the time its brief job began (at)
              \* and the time it was stored, in triggers
  notified,   \* idempotency keys of notifications
  mailed,     \* mails accepted by the mail service, per day, type and mailbox
  task,       \* "open" or "done" (completed, cancelled or its event closed)
  run,        \* each invocation's progress
  made,       \* history: automatic snapshots ever inserted, per day and type
  faults, byHand

vars == <<clock, settings, reports, notified, mailed, task, run, made, faults, byHand>>

dayOf(t) == ((t - 1) \div TicksPerDay) + 1
tickOf(t) == (t - 1) % TicksPerDay
utcDayOf(t) == IF tickOf(t) < UtcLag THEN dayOf(t) - 1 ELSE dayOf(t)

Days == dayOf(LastTrigger)

\* The days, and the UTC days, that end within LastTrigger.
WholeDays == {d \in 1..Days : d * TicksPerDay <= LastTrigger}
WholeUtcDays == {d \in 1..Days : d * TicksPerDay + UtcLag <= LastTrigger}

Boxes == UNION {{o.raw[i].box : i \in DOMAIN o.raw} : o \in Offers}

-----------------------------------------------------------------------------
(* Brief settings.                                                         *)

\* Slip: addresses that differ in case only are taken for different people.
recipientsAsTyped(raw) == raw

\* Trimmed and in lower case; the first of equal addresses stays.
normalizeBriefEmailRecipients(raw) ==
  LET first == {i \in DOMAIN raw : \A j \in 1..(i - 1) : raw[j].box # raw[i].box}
      nth(n) == CHOOSE i \in first : Cardinality({j \in first : j <= i}) = n
  IN  [n \in 1..Cardinality(first) |-> raw[nth(n)]]

mergeBriefSettings(o) ==
  [morning |-> o.morning, evening |-> o.evening, enabled |-> o.enabled,
   recipients |-> normalizeBriefEmailRecipients(o.raw)]

\* Slip: the recipients are not looked at.
anyBriefSettings(s) == s.morning \in Nat /\ s.evening \in Nat

\* Null of validateBriefSettings: enabled mails need somebody to go to.
validBriefSettings(s) == s.enabled => s.recipients # <<>>

SaveSettings(o) ==
  /\ byHand < MaxByHand
  /\ validBriefSettings(mergeBriefSettings(o))
  /\ settings' = mergeBriefSettings(o)
  /\ byHand' = byHand + 1
  /\ UNCHANGED <<clock, reports, notified, mailed, task, run, made, faults>>

-----------------------------------------------------------------------------
\* at: the trigger the run began at.  now: the time its brief job began at.
Idle == [pc |-> "idle", at |-> 0, now |-> 0, conf |-> [enabled |-> FALSE], slots |-> <<>>,
         left |-> {}, to |-> <<>>]

active(r) == run[r].pc # "idle"

Init ==
  /\ clock = 0
  /\ settings \in {mergeBriefSettings(o) : o \in {p \in Offers :
                     validBriefSettings(mergeBriefSettings(p))}}
  /\ reports = {} /\ notified = {}
  /\ mailed = [x \in (1..Days) \X BriefType \X Boxes |-> 0]
  /\ made = [x \in (1..Days) \X BriefType |-> 0]
  /\ task = [t \in Tasks |-> "open"]
  /\ run = [r \in Runs |-> Idle]
  /\ faults = 0 /\ byHand = 0

\* The trigger every 30 minutes: scheduled() begins with runOperationalJobs.
Trigger(r) ==
  /\ clock < LastTrigger
  /\ \A q \in Runs : active(q) => run[q].at + MaxLag > clock
  /\ ~active(r) /\ r = CHOOSE q \in Runs : ~active(q)
  /\ clock' = clock + 1
  /\ run' = [run EXCEPT ![r] = [Idle EXCEPT !.pc = "tasks", !.at = clock + 1]]
  /\ UNCHANGED <<settings, reports, notified, mailed, task, made, faults, byHand>>

SelectDueTasks(r) ==
  /\ run[r].pc = "tasks"
  /\ run' = [run EXCEPT ![r] = [@ EXCEPT !.pc = "remind",
                        !.left = {t \in Tasks : task[t] = "open" /\ utcDayOf(run[r].at) >= 1}]]
  /\ UNCHANGED <<clock, settings, reports, notified, mailed, task, made, faults, byHand>>

\* Slip: a reminder is keyed by its task alone, so only the first is stored.
reminderKeyOfTask(t, day) == <<"task-due", t, 1>>

reminderKey(t, day) == <<"task-due", t, day>>

\* createNotification: INSERT OR IGNORE, one reminder per step, all for the day
\* the run began.  runBriefJobs is called when the last has been answered, and
\* takes its own time then (now = new Date()).
Remind(r) ==
  /\ run[r].pc = "remind"
  /\ IF run[r].left = {}
     THEN /\ run' = [run EXCEPT ![r] = [@ EXCEPT !.pc = "settings", !.now = clock]]
          /\ UNCHANGED notified
     ELSE \E t \in run[r].left :
            /\ notified' = notified \cup {reminderKey(t, utcDayOf(run[r].at))}
            /\ run' = [run EXCEPT ![r].left = @ \ {t}]
  /\ UNCHANGED <<clock, settings, reports, mailed, task, made, faults, byHand>>

\* getBriefSettings, and the types whose send time has passed at the brief job's
\* own time: a run that was slow before may find itself in another day.
ReadSettings(r) ==
  /\ run[r].pc = "settings"
  /\ LET due(ty) == tickOf(run[r].now) >= settings[ty]
     IN  run' = [run EXCEPT ![r] = [@ EXCEPT !.pc = "check", !.conf = settings,
                   !.slots = SelectSeq(<<"morning", "evening">>, due)]]
  /\ UNCHANGED <<clock, settings, reports, notified, mailed, task, made, faults, byHand>>

slot(r) == <<dayOf(run[r].now), Head(run[r].slots)>>

automatic(day, ty) == {p \in reports : p.day = day /\ p.type = ty /\ p.by = "cron"}

\* Slip: a brief somebody generated by hand counts as the day's.
CheckAnyBrief(r) ==
  /\ run[r].pc = "check"
  /\ IF run[r].slots = <<>> THEN run' = [run EXCEPT ![r] = Idle]
     ELSE IF {p \in reports : p.day = slot(r)[1] /\ p.type = slot(r)[2]} # {}
     THEN run' = [run EXCEPT ![r].slots = Tail(@)]
     ELSE run' = [run EXCEPT ![r].pc = "insert"]
  /\ UNCHANGED <<clock, settings, reports, notified, mailed, task, made, faults, byHand>>

\* Slip: the day's snapshot is not looked for.
CheckNothing(r) ==
  /\ run[r].pc = "check"
  /\ run' = IF run[r].slots = <<>> THEN [run EXCEPT ![r] = Idle]
            ELSE [run EXCEPT ![r].pc = "insert"]
  /\ UNCHANGED <<clock, settings, reports, notified, mailed, task, made, faults, byHand>>

\* Is there an automatic snapshot of the slot?  When every due slot has been
\* handled the run is over: no code queues the mails that the last job,
\* dispatchPendingEmailNotifications, would send.
Check(r) ==
  /\ run[r].pc = "check"
  /\ IF run[r].slots = <<>> THEN run' = [run EXCEPT ![r] = Idle]
     ELSE IF automatic(slot(r)[1], slot(r)[2]) # {}
     THEN run' = [run EXCEPT ![r].slots = Tail(@)]
     ELSE run' = [run EXCEPT ![r].pc = "insert"]
  /\ UNCHANGED <<clock, settings, reports, notified, mailed, task, made, faults, byHand>>

\* buildBriefContent only reads; then the INSERT.
Insert(r) ==
  /\ run[r].pc = "insert"
  /\ reports' = reports \cup {[day |-> slot(r)[1], type |-> slot(r)[2], by |-> "cron",
                               at |-> run[r].now, stored |-> clock]}
  /\ made' = [made EXCEPT ![slot(r)] = @ + 1]
  /\ run' = [run EXCEPT ![r].pc = "ping"]
  /\ UNCHANGED <<clock, settings, notified, mailed, task, faults, byHand>>

\* createNotification, keyed by type and day, for all who may generate reports.
Ping(r) ==
  /\ run[r].pc = "ping"
  /\ notified' = notified \cup {<<"brief", slot(r)[2], slot(r)[1]>>}
  /\ run' = [run EXCEPT ![r] = [@ EXCEPT !.pc = "mail",
               !.to = IF run[r].conf.enabled THEN run[r].conf.recipients ELSE <<>>]]
  /\ UNCHANGED <<clock, settings, reports, mailed, task, made, faults, byHand>>

\* One recipient per step; a mail that fails is counted and not tried again.
\* With the last one the run is logged and goes on to the next slot.
Mail(r) ==
  /\ run[r].pc = "mail"
  /\ IF run[r].to = <<>>
     THEN /\ run' = [run EXCEPT ![r] = [@ EXCEPT !.pc = "check", !.slots = Tail(@)]]
          /\ UNCHANGED <<mailed, faults>>
     ELSE /\ run' = [run EXCEPT ![r].to = Tail(@)]
          /\ \/ /\ mailed' = [mailed EXCEPT
                     ![<<slot(r)[1], slot(r)[2], Head(run[r].to).box>>] = @ + 1]
                /\ UNCHANGED faults
             \/ /\ faults < MaxFaults
                /\ faults' = faults + 1
                /\ UNCHANGED mailed
  /\ UNCHANGED <<clock, settings, reports, notified, task, made, byHand>>

RunStep(r) ==
  \/ SelectDueTasks(r) \/ Remind(r) \/ ReadSettings(r)
  \/ Check(r) \/ Insert(r) \/ Ping(r) \/ Mail(r)

-----------------------------------------------------------------------------
(* What can go wrong, and what people do meanwhile.                        *)

\* The invocation is killed.
Crash(r) ==
  /\ active(r) /\ faults < MaxFaults
  /\ run' = [run EXCEPT ![r] = Idle]
  /\ faults' = faults + 1
  /\ UNCHANGED <<clock, settings, reports, notified, mailed, task, made, byHand>>

\* A statement fails: each job's error is caught and logged on its own, so the
\* briefs are still due after failed reminders, but not the second brief after
\* the first.
Throw(r) ==
  /\ active(r) /\ faults < MaxFaults
  /\ run' = [run EXCEPT ![r] = IF @.pc \in {"tasks", "remind"}
                               THEN [@ EXCEPT !.pc = "settings", !.left = {}, !.now = clock]
                               ELSE Idle]
  /\ faults' = faults + 1
  /\ UNCHANGED <<clock, settings, reports, notified, mailed, task, made, byHand>>

\* POST /daily for today: a new row, its times left out: the rows people made of
\* one day and type are not told apart here, as no job reads them.
GenerateByHand(ty) ==
  /\ clock > 0 /\ byHand < MaxByHand
  /\ reports' = reports \cup {[day |-> dayOf(clock), type |-> ty, by |-> "user",
                               at |-> 0, stored |-> 0]}
  /\ byHand' = byHand + 1
  /\ UNCHANGED <<clock, settings, notified, mailed, task, run, made, faults>>

\* DELETE /daily/:id.
DeleteReport(p) ==
  /\ byHand < MaxByHand
  /\ reports' = reports \ {p}
  /\ byHand' = byHand + 1
  /\ UNCHANGED <<clock, settings, notified, mailed, task, run, made, faults>>

\* PATCH /tasks/:id, or a reconciler of the event's requests.
SettleTask(t) ==
  /\ task[t] = "open" /\ byHand < MaxByHand
  /\ task' = [task EXCEPT ![t] = "done"]
  /\ byHand' = byHand + 1
  /\ UNCHANGED <<clock, settings, reports, notified, mailed, run, made, faults>>

Next ==
  \/ \E r \in Runs : Trigger(r) \/ RunStep(r) \/ Crash(r) \/ Throw(r)
  \/ \E o \in Offers : SaveSettings(o)
  \/ \E ty \in BriefType : GenerateByHand(ty)
  \/ \E p \in reports : DeleteReport(p)
  \/ \E t \in Tasks : SettleTask(t)

\* The platform goes on triggering, and a run that is not killed goes on.
Fairness ==
  /\ WF_vars(\E r \in Runs : Trigger(r))
  /\ \A r \in Runs : WF_vars(RunStep(r))

Spec == Init /\ [][Next]_vars /\ Fairness

-----------------------------------------------------------------------------
(* Properties.                                                             *)

\* A day has two automatic snapshots of one type only if each of the two jobs that
\* wrote them had begun before the other's was stored: crashes, errors, later
\* triggers and briefs made by hand never lead to a second one ("idempotent per
\* (date, type)", brief-job.ts, is so without overlap).
OneBriefUnlessRunsOverlap ==
  \A p, q \in {x \in reports : x.by = "cron"} :
    p # q /\ p.day = q.day /\ p.type = q.type => p.at <= q.stored /\ q.at <= p.stored

\* Nobody is mailed a brief more often than the day had automatic snapshots: a
\* run that finds one does not mail again, and a settings list that names a
\* mailbox twice does not reach it twice.
MailedOncePerSnapshot ==
  \A d \in 1..Days, ty \in BriefType, b \in Boxes : mailed[<<d, ty, b>>] <= made[<<d, ty>>]

\* As long as the send time leaves the day room for one trigger more than fail or
\* may be served late, every day gets its automatic brief: a run that died is
\* caught up by a later one (the catch-up of brief-job.ts), a run that reaches
\* midnight before its briefs misses the old day and makes the new one's, and a
\* brief made by hand does not stand in for it.
EveryDayIsBriefed ==
  \A ty \in BriefType :
    [](settings[ty] + MaxLag + MaxFaults < TicksPerDay) => \A d \in WholeDays : <>(made[d, ty] > 0)

\* A task that stays open is brought up again on every UTC day from its due date,
\* unless every run of the day fails: yesterday's reminder does not stand in for
\* today's, and a run that crosses midnight reminds for the day it began in.
EveryDayIsReminded ==
  \A t \in Tasks :
    [](task[t] = "open") /\ MaxFaults < TicksPerDay => \A d \in WholeUtcDays : <>(<<"task-due", t, d>> \in notified)
=============================================================================
