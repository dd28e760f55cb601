---------------------------- MODULE StickyNotes ----------------------------
(***************************************************************************)
(* The shared corkboard: one sticky note of worker/routes/sticky-notes.ts, *)
(* the cards that show it on its author's devices (StickyNoteCard,         *)
(* StickyNotesTray) and the requests about it.  A request reads the note,  *)
(* then writes it in a statement with conditions of its own; others come   *)
(* in between.  Wordings are numbered in the order they are typed.         *)
(*                                                                         *)
(* updated_at is a count of the writes of the note: two writes are taken   *)
(* not to fall in the same millisecond.  Links are written but their       *)
(* target is left out, and so are lists, search and positions on the board.*)
(***************************************************************************)
EXTENDS Integers, FiniteSets

CONSTANTS Mates,    \* people of the team
          Author,   \* the one who created the note
          Devices,  \* the author's browsers
          Calls,    \* requests that may be in progress at once
          MaxCalls  \* bound: requests in a behaviour

ASSUME StickyNotesAssumption == Author \in Mates /\ MaxCalls \in Nat

NoOne == "no one"
Gone == [there |-> FALSE, body |-> 0, status |-> "gone", by |-> NoOne, stamp |-> 0]
NoCall == [op |-> "none"]

VARIABLES
  note,     \* the row of sticky_notes
  layouts,  \* people with a row of sticky_note_layouts for it
  card,     \* each device's card: the note last polled, the text of its editor
            \* and the wording that text started from
  call,     \* each request's progress
  calls,    \* requests so far; also numbers the wordings
  kept      \* history: per call, whether its card showed other wording since

notesVars == <<note, layouts, card, call, calls, kept>>

calling(k) == call[k].op # "none"

\* POST / has created the note and the devices have polled it.
NotesInit ==
  /\ note = [there |-> TRUE, body |-> 0, status |-> "active", by |-> NoOne, stamp |-> 0]
  /\ \E placed \in SUBSET {Author} : layouts = placed
  /\ card = [d \in Devices |-> [open |-> TRUE, body |-> 0, stamp |-> 0, base |-> 0]]
  /\ call = [k \in Calls |-> NoCall]
  /\ calls = 0
  /\ kept = [d \in Devices |-> TRUE]

\* The 15-second poll, or the refresh after a request: the card shows the row
\* as it is.  The text of a card that stays mounted is not touched (useState
\* reads its argument once); a card that appears starts from the row.
Poll(d) ==
  /\ LET shown == note.there /\ note.status = "active"
         base == IF card[d].open THEN card[d].base ELSE note.body
     IN  /\ card' = [card EXCEPT ![d] =
                       IF shown THEN [open |-> TRUE, body |-> note.body,
                                      stamp |-> note.stamp, base |-> base]
                       ELSE [@ EXCEPT !.open = FALSE]]
         /\ kept' = [kept EXCEPT ![d] = shown => note.body = base]
  /\ UNCHANGED <<note, layouts, call, calls>>

\* Cancel in the editor: its text is the wording shown.
CancelEdit(d) ==
  /\ card[d].open
  /\ card' = [card EXCEPT ![d].base = card[d].body]
  /\ kept' = [kept EXCEPT ![d] = TRUE]
  /\ UNCHANGED <<note, layouts, call, calls>>

-----------------------------------------------------------------------------
(* The first statement of a request: it reads the note and refuses.        *)

Begin(k, c) ==
  /\ calls < MaxCalls /\ ~calling(k) /\ note.there
  /\ k = CHOOSE q \in Calls : ~calling(q)
  /\ call' = [call EXCEPT ![k] = c]
  /\ calls' = calls + 1
  /\ UNCHANGED <<note, layouts, card, kept>>

Call(op, mate) == [op |-> op, mate |-> mate, body |-> 0, expected |-> 0, base |-> 0, kept |-> TRUE]

\* Save in the card's editor: PATCH /:id with the stamp of the last poll.
BeginEdit(k, d) ==
  /\ card[d].open /\ note.status = "active"
  /\ note.stamp = card[d].stamp
  /\ Begin(k, [Call("edit", Author) EXCEPT !.body = calls + 1, !.expected = card[d].stamp,
                                           !.base = card[d].base, !.kept = kept[d]])

BeginActive(k, mate, op) == note.status = "active" /\ Begin(k, Call(op, mate))
BeginRestore(k, mate) == note.status = "archived" /\ Begin(k, Call("restore", mate))
BeginDelete(k) == Begin(k, Call("delete", Author))

-----------------------------------------------------------------------------
(* The statements that write.  A request whose condition fails ends.       *)

End(k) == call' = [call EXCEPT ![k] = NoCall]

\* Slip: the UPDATE relies on the stamp that was read.
matchesActiveOnly(c) == note.there /\ note.status = "active"

\* WHERE status = 'active' AND updated_at = ?
matchesExpected(c) == note.there /\ note.status = "active" /\ note.stamp = c.expected

FinishEdit(k) ==
  /\ call[k].op = "edit"
  /\ note' = IF matchesExpected(call[k])
             THEN [note EXCEPT !.body = call[k].body, !.stamp = @ + 1] ELSE note
  /\ End(k) /\ UNCHANGED <<layouts, card, calls, kept>>

FinishRelink(k) ==
  /\ call[k].op = "relink"
  /\ note' = IF note.there /\ note.status = "active" THEN [note EXCEPT !.stamp = @ + 1] ELSE note
  /\ End(k) /\ UNCHANGED <<layouts, card, calls, kept>>

\* The foreign key refuses a layout of a note that is gone.
FinishLayout(k) ==
  /\ call[k].op = "layout"
  /\ layouts' = IF note.there THEN layouts \cup {call[k].mate} ELSE layouts
  /\ End(k) /\ UNCHANGED <<note, card, calls, kept>>

\* Slip: whoever archives last is written down.
archivable(n) == n.there

\* WHERE status = 'active'
archivableOnce(n) == n.there /\ n.status = "active"

FinishArchive(k) ==
  /\ call[k].op = "archive"
  /\ note' = IF archivableOnce(note)
             THEN [note EXCEPT !.status = "archived", !.by = call[k].mate, !.stamp = @ + 1]
             ELSE note
  /\ End(k) /\ UNCHANGED <<layouts, card, calls, kept>>

FinishRestore(k) ==
  /\ call[k].op = "restore"
  /\ note' = IF note.there /\ note.status = "archived"
             THEN [note EXCEPT !.status = "active", !.by = NoOne, !.stamp = @ + 1] ELSE note
  /\ End(k) /\ UNCHANGED <<layouts, card, calls, kept>>

DeleteLayouts(k) ==
  /\ call[k].op = "delete"
  /\ layouts' = {}
  /\ call' = [call EXCEPT ![k].op = "delete note"]
  /\ UNCHANGED <<note, card, calls, kept>>

\* A layout saved in between makes the foreign key refuse: the note stays.
DeleteNote(k) ==
  /\ call[k].op = "delete note"
  /\ note' = IF layouts = {} THEN Gone ELSE note
  /\ End(k) /\ UNCHANGED <<layouts, card, calls, kept>>

NotesNext ==
  \/ \E d \in Devices : Poll(d) \/ CancelEdit(d)
  \/ \E k \in Calls :
       \/ \E d \in Devices : BeginEdit(k, d)
       \/ \E mate \in Mates : \/ \E op \in {"relink", "layout", "archive"} : BeginActive(k, mate, op)
                              \/ BeginRestore(k, mate)
       \/ BeginDelete(k)
       \/ FinishEdit(k) \/ FinishRelink(k) \/ FinishLayout(k) \/ FinishArchive(k)
       \/ FinishRestore(k) \/ DeleteLayouts(k) \/ DeleteNote(k)

-----------------------------------------------------------------------------
\* An edit replaces the wording its text was typed over and no other, and
\* never the wording of an archived note: an edit, archiving or restoring that
\* slipped in makes it fail.  Except from a card that polled another wording
\* under an open text; such a card sends the new stamp with the old text.
EditReplacesWhatItShowed ==
  [][note.there /\ note'.there /\ note'.body # note.body =>
       /\ note.status = "active"
       /\ \E k \in Calls :
            /\ call[k].op = "edit" /\ call'[k] = NoCall
            /\ (call[k].kept => note.body = call[k].base)
    ]_notesVars

\* Of several people who mark a note as incorporated, the first one is named,
\* until somebody restores the note.
FirstArchiverIsNamed ==
  [][note.there /\ note'.there /\ note.status = "archived" /\ note'.status = "archived" =>
       note'.by = note.by]_notesVars
=============================================================================
