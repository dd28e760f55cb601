----------------------------- MODULE EventForm -----------------------------
(***************************************************************************)
(* One requirement on its two sides: the event form's JSON columns, the    *)
(* event's own and one for each venue booking, and the Operations          *)
(* checklist row.  Saving the form writes the columns and then copies them *)
(* to the row; editing the row mirrors it into the columns.  Requests      *)
(* overlap at their awaits and may die between two statements.             *)
(*                                                                         *)
(* A value is the sequence of names its text joins with dots, empty when   *)
(* blank.  A person may type such a text too; a number, and a contact's    *)
(* name, is a sequence of one.                                             *)
(***************************************************************************)
EXTENDS Integers, SequencesExt

CONSTANTS Words,       \* names, or numbers, a value is made of
          Requests,    \* requests that may be in progress at once
          MaxBookings, \* bound: venue bookings of the event
          MaxNames     \* bound: names joined in one entered value

ASSUME FormAssumption ==
  MaxBookings \in Nat /\ MaxNames \in Nat /\ Words \subseteq Nat

VARIABLES
  key,       \* which requirement
  event,     \* its value in events.requirements
  venues,    \* its value in each venue_bookings.requirements, in order
  sitDown,   \* sit-down meals are required
  item,      \* its value in the checklist row
  section,   \* the execution-section row of its card
  marked,    \* history: what operations set the section to with no save about
  syncing,   \* each request's progress
  overlapped \* history: requests overlapped, or one died, and none has run alone since

formVars == <<key, event, venues, sitDown, item, section, marked, syncing, overlapped>>

Keys == {"decorator_name", "crew_cards", "catering_provider", "poc_name"}
JOINABLE == {"decorator_name", "catering_provider"}
eventLevel == key = "poc_name"
Typed == BoundedSeq(Words, IF key \in JOINABLE THEN MaxNames ELSE 1)
Idle == [op |-> "none"]

FormInit ==
  /\ key \in Keys
  /\ event = <<>> /\ venues = <<>> /\ sitDown = FALSE /\ item = <<>>
  /\ section = "not_started" /\ marked = "none"
  /\ syncing = [r \in Requests |-> Idle] /\ overlapped = FALSE

-----------------------------------------------------------------------------
\* One more source of the key.  joinUniqueText looks for the whole value among
\* the parts there are.
joined(current, value) ==
  IF value = <<>> THEN current
  ELSE IF current = <<>> THEN value
  ELSE IF key = "crew_cards" THEN IF value[1] > current[1] THEN value ELSE current
  ELSE IF key \in JOINABLE /\ ~(Len(value) = 1 /\ Contains(current, value[1]))
            /\ value # current
       THEN current \o value
  ELSE current

aggregateRequirements(sources) == FoldLeft(joined, <<>>, sources)

\* buildEventRequirementsPayload: the union of the venues, the event's own keys
\* apart.
payload(own, bookings) == IF eventLevel THEN own ELSE aggregateRequirements(bookings)

\* hydrateVenueRequirements: a value no booking has goes to the first one.
hydrated ==
  LET bookings == IF venues = <<>> THEN << <<>> >> ELSE venues
  IN  IF \A i \in DOMAIN bookings : bookings[i] = <<>>
      THEN [bookings EXCEPT ![1] = event] ELSE bookings

\* The value the form shows, and sends when nothing is changed.  The contact's
\* row stands in for a blank (mergePocRequirementsForRead).
formShows ==
  IF eventLevel THEN IF event = <<>> THEN item ELSE event
  ELSE aggregateRequirements(hydrated)

Busy == \E r \in Requests : syncing[r].op # "none"

Verdicts == {"verified", "not_applicable"}   \* kept by the sync
derivedSection(value) == IF value # <<>> THEN "captured" ELSE "not_started"

-----------------------------------------------------------------------------
\* A request begins, and whoever is in progress is not alone any more.
begin(r, progress) ==
  /\ syncing' = [q \in Requests |->
       IF q = r THEN progress
       ELSE IF syncing[q].op = "none" THEN Idle ELSE [syncing[q] EXCEPT !.alone = FALSE]]
  /\ overlapped' = (overlapped \/ Busy)

finish(r) ==
  /\ syncing' = [syncing EXCEPT ![r] = Idle]
  /\ overlapped' = (overlapped /\ ~syncing[r].alone)

\* PUT /events/:id: the event and its bookings in one batch.  The form holds
\* anything: it may have been opened long ago.
SaveForm(r) ==
  /\ syncing[r].op = "none"
  /\ \E own \in Typed, bookings \in BoundedSeq(Typed, MaxBookings) :
       /\ venues' = IF eventLevel THEN <<>> ELSE bookings
       /\ event' = payload(own, bookings)
       /\ eventLevel => bookings = <<>>
       /\ ~eventLevel => own = <<>>
  /\ sitDown' \in IF key = "catering_provider" THEN BOOLEAN ELSE {FALSE}
  /\ begin(r, [op |-> "read", alone |-> ~Busy])
  /\ UNCHANGED <<key, item, section, marked>>

\* syncAdditionalRequirementsChecklist reads the columns again and the section.
ReadForSync(r) ==
  /\ syncing[r].op = "read"
  /\ LET value == aggregateRequirements(<<event>> \o venues)
     IN  syncing' = [syncing EXCEPT ![r] =
           [op |-> "copy", alone |-> syncing[r].alone, value |-> value,
            keep |-> section \in Verdicts,
            copied |-> value # <<>> /\ (key = "catering_provider" => sitDown)]]
  /\ UNCHANGED <<key, event, venues, sitDown, item, section, marked, overlapped>>

\* With no requirement at all on the form the sync returns before the sections,
\* so a blank one may stay as it was: the card's other requirements decide.
CopyToChecklist(r) ==
  /\ syncing[r].op = "copy"
  /\ section' \in IF syncing[r].keep \/ eventLevel THEN {section}
                 ELSE {derivedSection(syncing[r].value)}
                      \cup {s \in {section} : syncing[r].value = <<>>}
  /\ item' = IF syncing[r].copied THEN syncing[r].value ELSE item
  /\ finish(r)
  /\ UNCHANGED <<key, event, venues, sitDown, marked>>

\* PATCH of the checklist row; a blank is not mirrored.
EditItem(r) ==
  /\ syncing[r].op = "none"
  /\ \E value \in Typed :
       /\ item' = value
       /\ begin(r, [op |-> "event", alone |-> ~Busy, value |-> value])
  /\ UNCHANGED <<key, event, venues, sitDown, section, marked>>

MirrorBlank(r) ==
  /\ syncing[r].op = "event" /\ syncing[r].value = <<>>
  /\ finish(r)
  /\ UNCHANGED <<key, event, venues, sitDown, item, section, marked>>

MirrorToEvent(r) ==
  /\ syncing[r].op = "event" /\ syncing[r].value # <<>>
  /\ event' = syncing[r].value
  /\ IF eventLevel THEN finish(r)
     ELSE /\ syncing' = [syncing EXCEPT ![r].op = "venues"]
          /\ UNCHANGED overlapped
  /\ UNCHANGED <<key, venues, sitDown, item, section, marked>>

\* Slip: a booking that has a value of its own keeps it.
mirroredWhereBlank(value) ==
  [i \in DOMAIN venues |-> IF venues[i] = <<>> THEN value ELSE venues[i]]

\* syncRequirementsFromChecklistItem writes every booking.
mirrored(value) == [i \in DOMAIN venues |-> value]

MirrorToVenues(r) ==
  /\ syncing[r].op = "venues"
  /\ venues' = mirrored(syncing[r].value)
  /\ finish(r)
  /\ UNCHANGED <<key, event, sitDown, item, section, marked>>

\* PATCH of the section row; nothing follows from it.
MarkSection == ~eventLevel /\ \E s \in Verdicts \cup {"captured", "not_started"} :
  /\ section' = s
  /\ marked' = IF s \in Verdicts /\ ~Busy THEN s ELSE "none"
  /\ UNCHANGED <<key, event, venues, sitDown, item, syncing, overlapped>>

\* The isolate is lost between two statements.
AbandonForm(r) ==
  /\ syncing[r].op # "none"
  /\ syncing' = [syncing EXCEPT ![r] = Idle] /\ overlapped' = TRUE
  /\ UNCHANGED <<key, event, venues, sitDown, item, section, marked>>

FormNext ==
  \/ \E r \in Requests :
       \/ SaveForm(r) \/ ReadForSync(r) \/ CopyToChecklist(r)
       \/ EditItem(r) \/ MirrorBlank(r) \/ MirrorToEvent(r) \/ MirrorToVenues(r)
       \/ AbandonForm(r)
  \/ MarkSection

-----------------------------------------------------------------------------
\* What a requirement's text says twice over when the sources are joined: a
\* value that joins several names itself, beside a booking with another value.
joinsWithin ==
  /\ \E i \in DOMAIN venues : Len(venues[i]) > 1
  /\ \E i, j \in DOMAIN venues :
       venues[i] # <<>> /\ venues[j] # <<>> /\ venues[i] # venues[j]

\* Nothing is in progress, the last request to run alone came after any that
\* overlapped or died, the form shows the requirement and the row has it.
\* (Either side may be blank: clearing one never clears the other.  The
\* caterer's row follows the form only while sit-down meals are required.)
bothSettled ==
  /\ ~Busy /\ ~overlapped /\ item # <<>> /\ formShows # <<>>
  /\ key = "catering_provider" => sitDown

\* A settled form and row agree, so that saving the form unchanged changes
\* nothing, unless a booking holds several names beside one with another value
\* (then the row repeats what the form shows once).  And a section operations
\* verified or ruled out, with no save in progress, stays as they set it.
FormAndChecklistAgree ==
  /\ bothSettled /\ ~joinsWithin => formShows = item
  /\ marked # "none" => section = marked
=============================================================================
