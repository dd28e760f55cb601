------------------------------ MODULE MCOffice ------------------------------
(***************************************************************************)
(* The office around the events: the team's accounts, the corkboard, the   *)
(* announcement, the browser's copy of a checklist and the two pages that  *)
(* edit an event's venue bookings.  They share nothing, so a behaviour is  *)
(* about one of them.                                                      *)
(***************************************************************************)
EXTENDS Accounts, StickyNotes, Announcements, ChecklistCache, BookingSaves

Parts == {"accounts", "notes", "announcements", "cache", "bookings"}

VARIABLE part

boardVars == <<notesVars, announcementVars>>
browserVars == <<cacheVars, bookingVars>>
vars == <<part, accountsVars, boardVars, browserVars>>

\* A part that is not looked at starts anyhow and stays there.
Init ==
  /\ part \in Parts
  /\ AccountsInit /\ NotesInit /\ AnnouncementsInit /\ CacheInit /\ BookingsInit
  /\ part # "notes" => layouts = {}
  /\ part # "accounts" =>
       concern = "rights" /\ \A u \in Users : present(u) => account[u].grants = "manage"
  /\ part # "bookings" => made = 0

Next ==
  /\ UNCHANGED part
  /\ \/ /\ part = "accounts" /\ AccountsNext /\ UNCHANGED <<boardVars, browserVars>>
     \/ /\ part = "notes" /\ NotesNext
        /\ UNCHANGED <<accountsVars, announcementVars, browserVars>>
     \/ /\ part = "announcements" /\ AnnouncementsNext
        /\ UNCHANGED <<accountsVars, notesVars, browserVars>>
     \/ /\ part = "cache" /\ CacheNext
        /\ UNCHANGED <<accountsVars, boardVars, bookingVars>>
     \/ /\ part = "bookings" /\ BookingsNext
        /\ UNCHANGED <<accountsVars, boardVars, cacheVars>>

Spec == Init /\ [][Next]_vars
=============================================================================
