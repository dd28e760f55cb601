# Verification of NCPA Venue Hire

TLA+ models of the program in this repository, checked by TLC on small
instances, and theorems about them proved by TLAPS for every value of the
constants. `PROJECT.json` maps each definition to the source lines it stands for
and lists the runs, the properties, the hazards they answer and the theorems.

    tlc -workers 2 -config MCEventLifecycle.cfg MCEventLifecycle        # ~100 s
    tlc -workers 2 -config MCLifecycleRequests.cfg MCLifecycleRequests  # ~70 s
    tlc -workers 2 -config MCFollowUpTasks.cfg MCFollowUpTasks          # ~110 s
    tlc -workers 2 -config MCDeliveryJobs.cfg MCDeliveryJobs            # ~30 s
    tlc -workers 2 -config MCDays.cfg MCDeliveryJobs                    # ~180 s
    tlc -workers 2 -config MCOffice.cfg MCOffice                        # ~90 s
    tlc -workers 2 -config MCRules.cfg MCRules                          # ~140 s
    tlapm EventLifecycleProofs.tla      # and ConfirmationGateProofs, OfficeProofs,
                                        # AccountsProofs, DeliveryJobsProofs, RulesProofs,
                                        # LifecycleRequestsProofs, FollowUpTasksProofs;
                                        # one to ten minutes each

## The system

A React single-page application talks to a Hono API on Cloudflare Pages
(`worker/`), which keeps its state in a D1 database and its files in R2. A cron
worker (`scheduler/`) runs every 30 minutes against the same database, and a
Durable Object (`realtime/`) passes best-effort change hints to open browsers.

D1 executes one SQL statement at a time and `db.batch` as one transaction; the
handlers use no other transaction. Two requests about one event, or a request
and the cron worker, therefore interleave at every `await`. This, and the amount
of derived state the handlers keep in step by calling reconcilers after each
write, is where the difficulty of this program lies.

### Inventory

| Component | State | Operations | What makes it correct |
|---|---|---|---|
| Confirmation gate (`financial-sequence.ts`, `state-machine.ts`, parts of `operations.ts`) | six checklist rows, `events.confirmation_status`, `events.approval_status` | PATCH of a row, three reconcilers, `syncEventFieldsFromChecklist` | steps rest on each other in order; the derived column does not claim more than the rows |
| Event lifecycle (`routes/events.ts`, `state-machine.ts`) | `events.status`, `is_archived`, status history | create, PUT, POST status, demotion, archive | Confirmed is entered only unblocked and left when the evidence goes; closed events stay closed |
| Automatic tasks and workflow phase (`operations.ts`, `lifecycle-workflow-phase.ts`, `routes/tasks.ts`) | `tasks`, one row per idempotency key | a reconciler per rule, completion, cancellation, reopening, phase filter | at most one open task per rule; a machine leaves none open that is not due |
| Venue bookings and schedule (`routes/events.ts`, `venue-schedule-readiness.ts`) | `venue_bookings`, `schedule_entries` | edits of lines and days, nested save, confirm, demote | a save stores what the page showed, once; each tentative booking has its follow-up |
| Checklist engine (`operations.ts`, `checklist-field-status.ts`, `instalments.ts`) | item value, status, due date; completion percentages | seeding, dependents, gate controllers, instalments, roll-up | statuses are a function of values once reconciled |
| Accounts file and file close (`operations.ts`, `file-close.ts`) | five dates of the file's journeys, `file_closed` | PATCH, close, reopen | one outstanding journey; close only when nothing is left, reopen restores what close cancelled |
| Contact, requirements, readiness (`poc-completion.ts`, `event-readiness.ts`) | requirements JSON beside checklist rows | two-way sync | both sides agree after either is edited |
| Notifications, e-mail, briefs (`email.ts`, `brief-job.ts`, `daily-report.ts`, `scheduler/`) | `notifications`, `daily_reports`, `scheduler_runs` | jobs of each cron run | once per key or per day, every day; a failed run is caught up |
| Announcements, sticky notes | one live announcement; notes with `updated_at` | post, clear; edit, link, archive, restore, delete | one live announcement; no lost edit |
| Users, permissions, sessions, lockout | `users`, `sessions` | account changes, login, lock | a gatekeeper always remains; a lock ends |
| Browser checklist cache (`src/lib/checklist-cache.ts`, `use-checklist-update.ts`) | cached checklist and event | optimistic edit, merge, rollback, refetch | settles on the server's state |
| Calendar, reports, analytics (`routes/calendar.ts`, `daily-report.ts`, `brief.ts`) | none, they read | two calendars, clash reports, counts | every event but a regretted one is on one calendar, every clash is reported until the brief is full |
| Documents; organisations and look-ups; realtime; pages | rows and objects; hints; rendering | | not modelled, see below |

Components interact through the database. A checklist edit runs, in one request:
its refusals, the row's UPDATE, the reconcilers its field calls for, the
synchronisation of the event's columns, the task reconcilers, the completion
roll-up and last the judgement of a Confirmed event. A status change heals the
gate, checks it, writes status, bookings and history and reconciles the tasks. A
read of the checklist heals the gate too.

## What is modelled

### `ConfirmationGate`

The rules without state, as operators on a *gate* record: the values of
`costing_email`, `proforma_invoice`, `payment_status`, `confirmation_made`,
`confirmation_couriered` and `confirmation_signed_received`, and `letter`, which
is `events.confirmation_status`. Values are kept up to what the rules tell
apart: anything but `Yes` is `No`, a courier date is `blank` or `dated`. Each
reconciler is the gate it leaves behind; `patchAllowed` collects the refusals of
`updateChecklistItem` and `patchGate` the write with everything that follows it;
`canConfirm` and `blockersForTransition` are the two lists of conditions a
confirmation passes. The wording of blockers is a set of names.

### `EventLifecycle`

One event, one request at a time.

| Variable | In the code |
|---|---|
| `gate`, `approval` | checklist rows, `confirmation_status`; the approval rows and `approval_status` |
| `status`, `archived`, `eventType` | the columns of `events` |
| `showDate`, `poc` | a usable `event_start_date`, which only PUT changes; a complete point of contact, which PUT changes and an edit of a contact row |
| `prior` | `from_status` of the newest history row with `to_status = 'confirmed'` |

| Action | Handler |
|---|---|
| `Init` | `POST /` and the seeding of the checklist |
| `PatchGateField`, `PatchApproval...`, `PatchContact`, `PatchOther` | `PATCH /:id/checklist/:itemId`, each ending in `AfterEdit`, the judgement of a live Confirmed event |
| `EditEvent` | `PUT /:id` |
| `StatusChange` | `POST /:id/status`; a refused request still heals the gate |
| `GetChecklist` | `GET /:id/checklist` |
| `Archive` | `DELETE /:id`; only PUT and the judgement ask about it, as in the code |

`approved` as an approval status is read by the code and written by nothing in
it, so it is not in `ApprovalStatus`.

### `LifecycleContract`

What all this is for, in three variables: `stage` (pipeline, confirmed, regret,
cancelled), `evidence`, `live`. Confirming needs evidence, and for a live event
losing evidence and losing Confirmed are one step. `EventLifecycle` implements it
with `stage <- Stage`, `evidence <- Evidence` (read off the rows, not off the
derived column) and `live <- ~archived`.

### `LifecycleRequests`

The handlers of `EventLifecycle` taken apart into SQL statements. A slot serves a
request; `todo` holds the statements it has still to run, and a read puts at the
head of `todo` the writes it decided on, which may be stale by the time they run.
`alone[s]` remembers whether the request of slot `s` has overlapped anything but
other reads of the checklist (a GET runs its two healing passes in parallel, each
a request of its own here). The event has a show date, a complete contact and
needs no approval, so that the gate alone decides.

The gate reads of one `SELECT` are one step; `getConfirmationLetterFinancials` and
the letter rows are two, as in the code. Task and completion writes touch none of
the modelled rows and are left out. `Die` ends a request between two statements, at
most `MaxDeaths` times: what it had still to run is lost.

### `FollowUpTasks`

The automatic tasks of one event. `MCFollowUpTasks` gives a *scenario* per rule or
family of rules (which fields, statuses, days and requests it needs); `Init` picks
one and the rest of the behaviour stays in it, because no reconciler of one rule
reads a row of another.

| Variable | In the code |
|---|---|
| `e` | the event's status, day, `file_closed`, archive flag, checklist values, form facts |
| `tasks` | the row of each idempotency key: `status`, `completion_note`, due |
| `byUser` | rules whose row a person wrote last |
| `owed` | automatic tasks a cancellation or regret closed and nobody has touched since |

| Action | Handler |
|---|---|
| `PatchChecklist` | `PATCH /:id/checklist/:itemId` with every reconciler its field calls |
| `CloseFile`, `ReopenFile` | file close and reopen |
| `ReadChecklist` | `GET /:id/checklist` |
| `PatchTask` | `PATCH /tasks/:id` |
| `EditEvent`, `StatusChange`, `Archive` | `PUT /:id`, `POST /:id/status`, `DELETE /:id` |
| `DayPasses`, `Cron` | midnight in India; the sweep of the cron worker |

Abstracted: `in_progress` counts as open, since no reconciler tells the two apart;
whether accounts' dates lie within their window, and which pipeline status a
demotion returns to, are free choices; the row of a removed booking is no longer
followed here but in `BookingSaves`. `technical_meeting` rules are read by the code and created by none of
it. The rules of `Unguarded` (instalments, Confirmation Made, incomplete contact)
are opened by their reconcilers without asking about phase or status, and the
properties except them by name.

### `DeliveryJobs`

The cron worker against the clock. `run[r]` is one invocation; a trigger starts the
hourly or the half-hourly part, which proceeds by SQL statements (`SelectDueTasks`,
`Remind`, `ReadSettings`, `Check`, `Insert`, `Ping`, `Mail`). Invocations overlap
when one is slow. `Crash` ends one anywhere, `Throw` fails its current statement and
leaves what the code's handlers leave. People save send times (`SaveSettings`),
make a brief themselves (`GenerateByHand`), delete one (`DeleteReport`) and finish
tasks (`SettleTask`). A stored
brief carries the trigger its run began at and the one it was stored at, which tells
overlap; the run's `now` is the
time its brief job began, read from the clock only when the last reminder has been
answered, so a run that was slow may brief another day, or a slot its trigger had not
reached. `made` counts automatic snapshots per day and type. What the model keeps of the code, and a reader
should know:

* check and INSERT are two statements without a unique key, so overlapping
  runs both make and mail a brief, though `scheduler/wrangler.jsonc:18` calls the
  job idempotent; `OneBriefUnlessRunsOverlap` excepts exactly this.
* a run that dies after the INSERT and before its mails loses them for ever, because
  the next run finds the snapshot; a failed mail is not tried again; deleting the
  automatic snapshot mails it again.
* a send time from 23:31 on, or none that parses, is accepted and never served; one so
  late that a slow or a failed run is not followed by another before midnight may miss
  a day. `EveryDayIsBriefed` asks for a send time with room for `MaxLag + MaxFaults`
  triggers after it. Reminders go by UTC days, briefs by
  Indian ones (`UtcLag`).
* `dispatchPendingEmailNotifications` has nothing to send: no code inserts a row with
  a recipient.

### The office: `Accounts`, `Announcements`, `StickyNotes`, `ChecklistCache`, `BookingSaves`

Five components of which each is a small protocol between requests that overlap.
`MCOffice` holds them side by side; a behaviour is about one of them, the others keep
their initial state, since they share no table.

* `Accounts`: users with role, owner and officer links, and the two option lists of
  `event_owner_lookup` and `officer_lookup`. A PUT reads the user, counts gatekeepers,
  and writes in later statements; overlapping requests are excepted from
  `GatekeeperRemains`, since two removals that both counted first leave none. Option
  lists go by names, so the claims about them also need that no account was given a
  name that another has (`nameTaken`): see below for what the code does then, with
  nothing overlapping. `Die` stops a request between statements and `EditRepairsOwner`
  says what the next edit repairs.
* `Announcements`: rows, dismissals, and each poster's statement.
  Posting takes the live ones down and inserts; two overlapping posts leave two.
* `StickyNotes`: one note, its link, archive state and the `updated_at` stamp the card
  sends back; every device's card is a copy that polls replace. The card sends the
  stamp of its newest copy with text typed over an older one.
* `ChecklistCache`: the mutation hook over one cached list, a server, answers and
  failures in any order. A refetch that is a bare `apiGet` is not cancelled
  by a later mutation; a rollback restores a snapshot older than other mutations;
  the final refetch settles it.
* `BookingSaves`: the bookings of a tentative, unpaid event and the payment follow-up of
  each, edited as a whole list on the event form and on the meeting form, in two
  browsers. `held` and `tasks` are the rows, `lines` what a page shows, `copy` and `age`
  the browser's cached answer (fresh for the 30 seconds of `main.tsx`). A save is
  `SavePage`, the read of the ids, one batch, the read for the tasks, their writes, and
  the answer, which each page takes in its own way. Saves overlap, die (`DieSaving`), are
  refused, fail on a booking that is gone, lose their answer and are repeated. The
  statements of `WriteTasks` are one step; a page is not left while it saves; the
  event's other columns and requests that touch no booking are left out.

### The rules: `ChecklistStatuses`, `ShowCalendar`, `VenueClashes`, `EventForm`, `ScheduleDays`

Views of the same data that different parts of the program compute each for
themselves. `MCRules` holds them side by side like `MCOffice`.

* `ChecklistStatuses`: the status of every gated row by the PATCH handler, the healing
  read, the nightly job and the browser's optimistic guess.
* `ShowCalendar`: which bookings and dates a save keeps, and whether the confirmed or
  the pipeline calendar shows the event in a month. Clearing the date of a Confirmed
  event leaves it on neither until an edit demotes it; regret is on neither for good.
* `VenueClashes`: the schedules of any number of events. The brief joins them into one
  slot for each event, hall and day, keeps the clashes of the days from today to
  `WindowDays` later, and lists the first `BriefLimit` (20) of them by day and hall, in
  any order at one hall on one day; each event's page lists the rows of the others.
  Rows past midnight are a named exception.
* `EventForm`: the requirements JSON beside the checklist rows; a form loaded, edited
  and saved whole while the checklist is edited, the mirrors in both directions. A value
  is a sequence of names, and any entered text may join several (`MaxNames` is a bound
  of the runs): the union looks for a booking's whole text, so such a text beside a
  different one is repeated in the row (`joinsWithin`).
* `ScheduleDays`: one booking's schedule. The form keeps days and activities, the
  database activities only; every edit of `VenueScheduleFields`, then a save and the
  reload, with what `prepareVenueBookingsForSave`, the server and the GET each derive.

## What the runs show

| Run | Question | Result |
|---|---|---|
| `lifecycle` | one event, every sequence of whole requests | holds, 282,744 states |
| `requests` | three overlapping requests, one of which may die, from five milestones of a booking | holds, 4,684,460 states |
| `followups` | automatic tasks, rule by rule | holds, 122,359 states |
| `jobs` | overlapping, crashing, failing cron runs | holds, 691,900 states |
| `days` | whole days of such runs, slow ones among them | holds, 1,548,762 states |
| `office` | accounts, announcements, notes, cache, bookings | holds, 2,515,693 states |
| `rules` | statuses, calendars, clashes, the form, schedules | holds, 625,885 states |
| `approval_before_confirm` | PRD VFH-07 | violated: clearing Approval Received On keeps `approval_status = 'received'` |
| `alone_confirm_signed` | PRD §5 rule 3, for an undisturbed status change | violated: a late `signed_received` outlives the row it was written for |
| `closed_stays_closed` | header of `state-machine.ts` | violated: an in-flight demotion overwrites a cancellation |
| `confirms_only_unblocked` | PRD §5 | violated: the gate changes between check and UPDATE |
| `refund_review` | a test of the task rules | violated: the refund review opened by a cancellation is cancelled by the phase reconciler later in the same POST |

`lifecycle` checks that financials and letter steps stay in order
(`FinancialSequence`, `LetterChain`), that the derived column is never behind the
rows and says `signed_received` exactly when they do (`LetterStatusTrusted`),
that a live Confirmed event has its evidence whatever the event form does
(`ConfirmedBacked`), that a read has nothing to heal (`ReadsHealNothing`), that a
checklist edit never leaves a blocked event Confirmed
(`EditLeavesNoBlockedConfirmed`), that demotion has a standing cause and the right
target (`DemotedForCause`), that Confirmed is entered unblocked
(`ConfirmedWithoutBlockers`) and that the contract is implemented
(`ImplementsContract`).

`requests` asks what is left of this when requests overlap. Rows can go out of
order; what holds is that the next request with nothing beside it puts things
right: a read heals the rows (`AloneReadHeals`), a status change confirms only
paid events (`AloneConfirmIsPaid`), an edit demotes a blocked Confirmed event
(`AloneEditJudges`). The same claim for the signature is false
(`alone_confirm_signed`), which is the finding to act on first.

`followups` checks that no machine opens a task of a cancelled or regretted event,
the rules of `Unguarded` excepted (`TerminalIsQuiet`); that no journey of the file is
followed up once the final file is back (`FinalFileIsFinal`); that one cron sweep, in
whatever state it runs, leaves open no automatic task that is not due (`CronSettles`),
and a checklist edit or read none whose question has been answered
(`EditsAndReadsSettle`); and that reopening an event, or its file, brings back what
closing it cancelled as far as it is still due (`ReopeningRestores`,
`ReopenedFileRestores`). The latter says of the work the rules still ask for that closing
the file puts it aside under the note of the closing and that reopening brings it back. In
the pipeline that is all the work of the phase. On a Confirmed event a closed file leaves
no phase to work in: the phase reconciler, which runs first, takes the tasks under a note
of its own, the reopening does not match that note, and they stay cancelled. There the
property covers the contact reminder alone.

`jobs` checks that a day gets one automatic brief of a type unless runs overlapped
(`OneBriefUnlessRunsOverlap`), that a mailbox gets no more mails than there were
automatic snapshots (`MailedOncePerSnapshot`). `days` checks that every whole day gets
its brief if the send time leaves room for what may fail or be late (`EveryDayIsBriefed`),
and on every whole UTC day, of which there are two, a new reminder of a task that stays
open (`EveryDayIsReminded`).

`office` checks that a gatekeeper remains, that the drop-down of owners offers an owner
exactly while active and the officers' list has one row per active officer, that one
announcement is live, that a cache with nothing under way shows what the server has,
that an edit of a note replaces the wording it was typed over, and that the first
archiver stays named. Each excepts, in its comment and its formula, the overlaps for
which the code does not keep it; `EditRepairsOwner` says that what they leave behind is put right by
the next edit that runs alone. Of the bookings it checks that a batch which meets the
bookings its request read leaves exactly the lines that were sent, also when lines without
an id are sent twice (`SaveIsExact`), and that after a save that ran alone every tentative
booking has its follow-up and no other is open (`FollowUpsMatchBookings`).

`rules` checks that an edit leaves the statuses the next read would compute
(`EditAnticipatesRead`), that the badge the browser paints is the one the server answers
(`ScreenForetellsServer`), that every event but a regretted one is on exactly one
calendar and in every month its window touches (`AllButRegretAreOnOneCalendar`), that
overlapping rows of two events are in the brief, or the brief is full of clashes that do
not come after them (`ClashesAreBriefed`), that what it reports is on both events' pages
(`BriefedClashesAreOnPages`), that form and checklist agree when both have the requirement
and no text of several names stands beside a different one (`FormAndChecklistAgree`), and that a dated schedule comes back from a save as it was shown
(`SaveKeepsSchedule`).

### Bounds

* `MCEventLifecycle`: two event types, one that needs approval and one that does
  not; the rules ask only whether the type is VFH. No other bound: the state
  space is finite and explored completely, so sequences of any length are covered.
* `MCLifecycleRequests`: two slots, three requests (`MaxRequests`), so two that
  overlap and one that follows alone, or a chain of overlaps; one death; five starting
  points reachable by permitted edits (`Milestones`); all gate edits, another
  edit, the read, confirm and cancel. The violation runs narrow the offers to the
  requests of their story and allow up to five of them. Deadlock checking is off
  in these runs because nothing is left to do once `MaxRequests` requests are
  answered.
* `MCFollowUpTasks`: thirteen scenarios, one per family of rules, each with only the
  values its reconcilers tell apart; within a scenario sequences of any length.
* `MCDeliveryJobs`: two invocations at once, one task, one fault (crash, throw or failed
  mail), one act by hand, a run at most `MaxLag` = 1 trigger late, India one trigger ahead
  of UTC (`UtcLag`). Two runs make an overlap, and a fault needs a run before and one after
  it. Deadlock checking is off because the triggers are used up. `MCDeliveryJobs.cfg` has
  four triggers, three a day, and settings that send mails to one mailbox twice, to nobody
  or not at all; `MCDays.cfg` nine triggers, four a day, so that two days of India and two
  of UTC are whole, no mails, and a send time at the second trigger, the latest with room
  for one run that is late and one that fails.
* `MCOffice`: three users, three names and two slots for three requests of which two
  may overlap and one may die; two posters, four posts and two clears; two devices,
  two calls at once and four in all; two rows, three mutations and one refetch; two
  pages, one hall, two lines and two bookings ever made, one edit and three saves, so two
  that overlap and one alone, or one that is lost and repeated. The two booking statuses
  tell the bookings of one hall apart.
* `MCRules`: instalment counts 1 and 2; two venues, four days in months of two and two
  entries; for the clashes either two events at one hall on one day, with up to three rows
  of hours 0 to 3, or three events with up to four rows on two days or in two halls and a
  brief that has room for one clash, each enough to fill it before a later one; for the form
  two words and two bookings, and either two requests at once and values of one name, or
  one at a time and texts of up to two names; schedules of two dates and three activities
  with one timing; symmetry on the calendar's venues and the form's requests. Deadlock
  checking is off because an archived regret is never touched again.
* One event: no handler of these modules reads or writes another event's gate.

### Fairness

It is assumed in `DeliveryJobs` only: cron goes on triggering (`\E r : Trigger(r)`),
which Cloudflare promises, and an invocation that is not killed goes on
(`RunStep(r)` for each `r`). Both are weak: a run
that is not killed keeps its next statement enabled until it is run, and with it ended,
the next trigger. People and faults
get none. `EveryDayIsBriefed` and `EveryDayIsReminded` rest on it. Everywhere else a
request may stall for ever, as a killed worker does, and every property is one of
safety.

## What is proved

Every theorem is about the specification of its component for all values of the
constants, under the assumptions listed at the end of this section.

### The gate and the lifecycle

`ConfirmationGateProofs` is about gates alone. On an ordered gate the three
reconcilers are the identity (`OrderedGateIsHealed`), so the healing at the head
of a status change and of a read disappears. A permitted edit with its
reconcilers takes an ordered gate to an ordered gate (`PatchKeepsOrder`, by cases
on the field). On an ordered gate nothing but evidence unblocks
(`UnblockedIsBacked`). `HealRestoresOrder` is about *any* gate, also one that
overlapping requests left: healing it puts its rows in order.

`EventLifecycleProofs` proves, for any set of event types that contains VFH, all
the properties of run `lifecycle`. The invariant is

    IInv == TypeOK /\ InOrder(gate) /\ ConfirmedBacked /\ ConfirmedFromPipeline

`ConfirmedBacked` alone is not inductive: the blockers look at
`confirmation_status`, not at the letter rows, so one must know that the column
agrees with the rows (`LetterStatusAbreast`, part of `InOrder`) to conclude that
an unblocked event has its evidence. `DemotedForCause` needs
`ConfirmedFromPipeline`, which says that the fallback of
`priorStatusBeforeConfirmed` is never used. Whatever was edited, the judgement
that ends the request restores `ConfirmedBacked` (`AfterEditKeepsIInv`). The action
properties and the refinement `LifecycleRefinesContract` follow from `IInv` by one
case per action.

### Requests in pieces

`LifecycleRequestsProofs`: `AloneReadsHeal`, `AloneConfirmsArePaid` and
`AloneEditsJudge`, for any number of slots, requests, deaths and starting points. Here
the gate may be in any state at any time; what is known is what a request that is still
alone has yet to run, and how the gate stands to that (`OnwardInv`). `Abreast` says
that requests which overlap and are still alone are all reads. A read (`Getting`) and a
status change (`Posting`) go through the phases of `Healing`: the money is to be read; the
writes decided on are to be run, and they are exactly those that are owed (`MoneyOwed`);
the letter is to be read; its resets are to be run, Signed before Couriered
(`LetterResets`), and they cover what has to be withdrawn (`Withdrawn`). Other reads in
progress only run such writes too. They lower the gate (`Lowers`), and a lower gate owes
no more than before (`LoweringKeeps`), so neither takes from the other what it relies on.
An edit (`Editing`) needs none of this: whatever its healers wrote, it has seen the letter
column as it stands when it judges.

### The automatic tasks

`FollowUpTasksProofs`: all six properties of run `followups`, for any scenario, which is
any set of rules followed together with any fields, requests and days. A request is a
chain of reconcilers; each opens no tasks but those of its own rule (`Opens`, one lemma
per reconciler) and the chain opens what its links open. On that rest

* `NobodyIsSentAfterIt` (invariant `Quiet`) and `FinalFileEndsTheJourneys` (`Final`, with
  `ClosedApart`: what the closed file has put aside is not open);
* `SchedulerPutsItRight`, which needs no invariant but the types: the sweep reconciles
  every rule, so no earlier state matters;
* `NothingAnsweredIsLeftOpen`: after its healers a request has every open task still
  waiting for its answer (`Waiting`), and the demotion that may follow keeps that;
* `ReopenedEventResumes` and `ReopenedFileResumes`, by invariants about tasks that
  sleep: what a cancellation owes is a row that its reconciler will revive (`Owing`,
  `OwedSleeps`), and the reopening chain opens it and never closes it again (`Stays`).

### The cron worker

`DeliveryJobsProofs`: `DuplicatesOnlyFromOverlap` and `MailsFollowSnapshots`, for any number of runs, days, faults and acts by hand. `InsertInv`
says that whatever automatic brief of the day is there when a run is about to insert one
was stored after that run's brief job began; `MadeInv` that a run that mails has counted its
snapshot; `MailsInv` that the mails a mailbox has had, and those that runs in progress
will still send it, are no more than the snapshots made. The last needs that a run mails
no box twice although the settings may name it twice (`NormalizedIsDistinct`).

### The office

`AccountsProofs`: `GatekeeperAlwaysRemains`, `OwnersAlwaysOffered`,
`OfficersAlwaysOffered` and `EditsRepairOwners`, for any users, names and slots. A
request that has run alone still has before it the account it read, or the account it
means to leave (`AbreastInv`). As long as nothing overlapped or died and no account was
given a name that another account, or another row of the list, has (`nameTaken`), no two
accounts share a name (`NamesInv`) and an officer has one row of the list (`LinksInv`), so what a
request does to its own rows touches nobody else's; the lists are then right except for
the accounts whose request is still behind (`OwnersInv`, `OfficersInv`).

`OfficeProofs` has five parts. `OneIsLive`, for any posters and bounds, by `AloneInv` (a
post that has been alone between its statements is the only one and has left nothing live)
and `UnmixedInv` (without an overlap to recover from every post is alone, and at most one
announcement is live). `StampsTellTheTruth`, `EditsReplaceWhatTheyShowed` and
`FirstArchiverStays`: the invariant says of every card (`CardInv`) and of every edit under
way (`CallInv`) that its stamp is not ahead of the note's and that, where they are equal,
the wording it was typed over is the note's. `ScreenSettles`, for any items, mutations and
refetches: a list that is under way and was asked for with nothing else in progress is the
server's, and no mutation has begun since (`AloneGetInv`, `AloneQueryInv`); while there is
nothing to recover from at most one mutation is in flight, and its step says how far
cache and server are apart (`UnmuddledInv`): its own item after the optimistic change,
nothing from the answer on, and the copy it would put back is the server's.
`FollowUpsFollow`, for any pages, lines and saves: a save that has been alone is the only
one and has read, for its tasks, the bookings and the tasks there are (`AloneSaveInv`);
while nothing has overlapped or died every save under way is alone (`UncrossedInv`).
So the tasks of a save alone are right whatever the earlier saves left, and those of any
other save are only written while the property promises nothing. `SavesAreExact`: no list
names a booking twice, on a page, on its way or in a copy (`LinesInv`), and a batch that
was not overtaken takes the lines it was sent one to one to the bookings it leaves
(`BatchIsExact`): a line with an id to that booking, the lines without one to the numbers
that follow, in turn. That a finite set of numbers is listed in order with each at the
place of its rank (`PlacesAreAll`, `InOrderOnce`) needs no induction: ranks are an injection
into as many places.

### The rules

`RulesProofs` has four parts. `CalendarsShareTheEvents`, `EveryClashIsBriefed` and
`BriefedClashesAreShown` speak of one state; the work is in the arithmetic of days and
months (every day is in exactly one month and recurs a month later), in the existence of
the first and the last of the rows of a slot (`MIN`, `MAX`), and in the invariant that a
row is at a hall its event has booked. The clash theorems are about any events, window and
limit: a clash a full brief leaves out does not come before one it has.

`EditsAnticipateReads` and `ScreensForetellServer` are about the statuses of the checklist.
One lemma for each reconciler says which statuses it writes and that it leaves the values
alone (`ControllersDo`, `InstalmentsDo`, `DependentsDo`), and from these what a read
(`ReadHeals`) and an edit (`EditDoes`) amount to. A controller's status is a function of
values (`RuleOfValues`), and of a date only whether it is set, so midnight does not
disturb it. The invariant, `StatusInv`: a controller has its rule's status, always; a row
that an open gate shows has that of its value, unless it is a date that came due at
midnight and that no read and no nightly job has seen (`unnoticed`). A hidden row may have
any status, which is what the nightly job leaves, and nothing relies on it. The second
theorem needs no invariant but the shape of the rows (`ScreenIsServer`).

`FormAndChecklist` is about the form. The text a requirement shows is a fold over the
bookings; the library's fold is characterised by its partial unions (`UnionInTurn`), for
which induction is a fact about sets (`AllNumbers`: a set of numbers that has 0 and the
successor of each of its members is `Nat`). What the proof needs of it: a union
of single names taken once more with itself in front is the same (`UnionOfSingles`, what
the form shows after a save), and sources that are alike or blank are their union, however
many names they join (`UnionOfAlike`, `AlikeAgain`, what it shows after a mirror). These are
the two cases `joinsWithin` leaves.
The invariant, `FormInv`, says of each request that is still alone that no other is under way
and how far it has brought the columns (`AloneIsAlone`), of a section that was marked that a
save which has read it keeps it (`MarkedIsKept`), and that form and row agree once nothing is
left to recover from (`FormAgrees`).

`SchedulesComeBack`, for any timings, dates and activities. The invariant, `DaysInv`: unless
two days had no date at once, there is a day for the date of each activity, one, and no
other day. A save then sends every day and activity, and "ORDER BY date, position" moves each
activity to a place of its own, never past another of its day (`SavedInPlace`,
`StoredInOrder`); so under each date the list is the same (`DayKeepsActivities`), and the day
that is derived from it has the window its activities share (`DaysComeBack`). Both orders
rest on one lemma about finite sets (`RanksInTurn`).

### Assumptions

The named assumptions of the modules, which TLC evaluates on every run:
`EventTypesAssumption`, `RequestsAssumption`, `ScenariosAssumption`,
`BoundsAssumption`, `OffersAssumption`, `AccountsAssumption`, `AnnouncementsAssumption`,
`StickyNotesAssumption`, `ChecklistCacheAssumption`, `BookingsAssumption`,
`CalendarAssumption`, `ClashAssumption`, `InstalmentsAssumption`, `FormAssumption`,
`ScheduleAssumption`. They say that sets hold what they are called after and that bounds are
natural numbers; `ScenariosAssumption` also that a form writes only the fields that forms
have.

### Checked by TLC only

`EveryDayIsBriefed` and `EveryDayIsReminded`: they are liveness under fairness, which
the provers do not reach. Every other property of a passing run, safety invariant, action
property or refinement, is a theorem.

Lists are written with functions on their places rather than with `SelectSeq`, `SortSeq` or
a recursive operator wherever a proof has to look inside them (`BookingSaves`,
`ScheduleDays`): the provers have no definition of those to expand.

## What the models leave as the code has it

Exceptions written into a property because the code does not do better. Where a comment
or a test of the repository says otherwise it is quoted; the findings of `PROJECT.json`
are those that a run shows.

* Tasks. Cron creates tasks on archived events. Un-ticking an instalment reopens its
  task on a cancelled event, and Confirmation Made reopens regardless of status.
  The contact's upsert reopens a cancelled task but not a completed one; a settled
  payment follow-up does not reopen when payment regresses; a status change does not
  reconcile instalment tasks; a reopened row keeps its old note. A status change on an
  archived event brings its file tasks back, though its final file is in
  (`FinalFileIsFinal` asks only of live events). A demotion in the request that reopens the
  file leaves the tasks of earlier phases cancelled, and the task to send the file again,
  brought back beside an Edit date, is cancelled by the reschedule of the same request.
* Lifecycle. The duplicate-event check is check-then-insert. A POST status that dies
  between its UPDATE and the history INSERT leaves a later demotion a stale prior.
* The letter. Taking Made or Couriered back leaves `confirmation_status` as it was
  (`operations.ts:844`), though PRD OPS-05 has the rows drive the column.
* Accounts. PUT rewrites name, owner and officer from its own earlier read. With nothing
  overlapping, an edit that gives an account the name of an active owner deactivates
  that owner's option (`users.ts:57`, `386`), though `users.ts:49` says "Ensure the
  handled_by dropdown mirrors event-owner designation + name"; and a linked officer
  renamed onto another row of the list is renamed in `users`, after which the UPDATE of
  the list breaks a UNIQUE and answers 500 (`users.ts:133`, `362`). `nameTaken` excepts
  both. Two overlapping requests can take the last two gatekeepers away, though
  `users.ts:346` says "At least one active account must keep the Manage team accounts
  permission".
* Calendars. An event in regret is on neither calendar (`calendar.ts:88-90`), though
  `calendar.ts:84` speaks of a "pre-confirm pipeline (+ terminal regret/cancelled)" and
  `calendar.ts:286` says "cancelled/regret stay there too".
* Clashes. The brief shows 20 clashes and does not say that there are more.
* Notes. Deleting a note while its layout is saved fails on the foreign key with the
  layouts already gone.
* Statuses. `noc_sent_on` is reset by each read and healed by cron; the browser's list of
  finished words lacks Refunded, Payment Processed, Full received and Applicable;
  cron overwrites `not_applicable` until the next read.
* Bookings. "Save" on the event form refills it by `fetchQuery`, which answers from the
  cache for 30 seconds (`main.tsx:14`, `EventEditPage.tsx:337`): the form then says
  "Saved" and shows the values from before the save, and saving again undoes it. The
  meeting form never refills its lines: a line added there has no id, so the next save
  deletes its booking and makes another, its task unlinked and cancelled and a new one
  open, even if the old one was completed by hand. Choosing "Select..." as the hall
  deletes the booking at the next save. An overlapping save can undo another's removal
  only in part: the UPDATE of a removed booking does nothing.
* Schedules. Two days without a date share their activities; dating the first takes all
  of them and the second is lost at the save. Removing the last activity leaves the
  number of shows as it was, now as a "legacy total" (`show-schedule.ts:28`).
* Form. A stale form overwrites what operations edited; the JSON column is read,
  changed and written whole; clearing one side keeps the other. A booking whose text joins
  several names, such as a row that was edited and mirrored, is repeated in the row once
  another booking has another value: with "A · Bb" in both bookings, setting the second to
  "C" makes the row "A · Bb · C · A · Bb" where the form shows "A · Bb · C"
  (`operations.ts:1541-1544`), nothing overlapping.

## What is not modelled, and why

* Sessions, lockout, password reset and permissions of a caller (except
  `conflict.override`, a parameter of `StatusChange`): what matters about them is
  security, left to a security review.
* Documents: an object is stored and its row inserted after it; nothing else reads the
  object. Organisations, contacts and look-ups: independent rows without rules across
  them, but for the two lists in `Accounts`. Realtime: hints whose loss only delays a
  refresh; one that arrives is `ChecklistCache`'s `Refetch`.
* Pages: rendering and forms are more than half of the repository's lines and decide
  nothing the server does not decide again, which is why the map covers a small share
  of all lines. What a page does compute for itself, the event form's load and save,
  the lines of bookings and days of a schedule, the optimistic statuses, the note cards and the clash sentence, is modelled.
* The wording of briefs, reports, print views and mails; analytics, which count rows.
* Whether a contact or a readiness section is complete: predicates over a form's text,
  inputs of `FollowUpTasks`.

## Plan

Done: `ConfirmationGate`, `EventLifecycle`, `LifecycleContract`, `LifecycleRequests` with
deaths, `FollowUpTasks`, `DeliveryJobs`, the office and the rules, and the proofs above.

Left, in the order of worth: the fields of `timing-sync.ts`; the predicates of readiness;
the booking checks that refuse a save (a duplicate event, a range of dates).
