------------------------------ MODULE ChatCapture ------------------------------
(***************************************************************************)
(* The capture panel (src/components/ChatCapture.tsx): a report is typed,  *)
(* images are pasted, the ticket is filed, its images are uploaded one by  *)
(* one, the request is recorded in the intake ledger and linked, and an    *)
(* agent is asked to assess it, or after a confirmation to work on it; and *)
(* the routes of server/index.js that answer (/api/tasks, attachments,     *)
(* /api/requests).                                                         *)
(*                                                                         *)
(* Abstractions.  A text is a number, 0 an empty box; typing makes the     *)
(* next one.  An image is a member of Images, of an accepted type and      *)
(* size.  Calls of one report go out in order; those of the ledger and of  *)
(* the assessment do not wait for each other.                              *)
(***************************************************************************)
EXTENDS Integers, Sequences, FiniteSets, Functions

CONSTANTS
  Images,
  MaxAttachments,     \* MAX_ATTACHMENTS_PER_TICKET, ATTACHMENT_MAX_COUNT
  Idle,
  MaxTexts, MaxTickets, MaxFails   \* bounds

VARIABLES
  panel,     \* the component's state
  call,      \* what queueTicket is waiting for
  side,      \* ledger writes and agent launches on their way
  tickets,   \* the server's: the text and the images of each filed task
  ledger,    \* the requests, each with its text and the tasks it spawned
  typed,     \* bounds: texts so far, calls failed so far
  ghost      \* (ghost) answers lost, images taken by a click, images told of

captureVars == <<panel, call, side, tickets, ledger, typed, ghost>>

\* resetForm.
ResetForm(p) == [p EXCEPT !.text = 0, !.images = {}, !.created = 0, !.outcome = Idle, !.note = 0]

OpenPanel ==
  /\ ~panel.open
  /\ panel' = [panel EXCEPT !.open = TRUE]
  /\ UNCHANGED <<call, side, tickets, ledger, typed, ghost>>

\* Mutant: the reset of a close waits for the done step.
CloseByStep ==
  /\ panel.open
  /\ panel' = [IF panel.step = "done" THEN ResetForm(panel)
               ELSE [panel EXCEPT !.images = {}, !.note = 0] EXCEPT !.open = FALSE, !.step = "compose"]
  /\ UNCHANGED <<call, side, tickets, ledger, typed, ghost>>

\* Mutant: the step survives the close.
CloseKeepingStep ==
  /\ panel.open
  /\ panel' = [IF panel.created # 0 THEN ResetForm(panel)
               ELSE [panel EXCEPT !.images = {}, !.note = 0] EXCEPT !.open = FALSE]
  /\ UNCHANGED <<call, side, tickets, ledger, typed, ghost>>

\* closePanel: the whole form when a ticket was filed, else all but the text.
ClosePanel ==
  /\ panel.open
  /\ panel' = [IF panel.created # 0 THEN ResetForm(panel)
               ELSE [panel EXCEPT !.images = {}, !.note = 0] EXCEPT !.open = FALSE, !.step = "compose"]
  /\ UNCHANGED <<call, side, tickets, ledger, typed, ghost>>

\* The box is not disabled while a report is being filed.
Type ==
  /\ panel.open /\ panel.step = "compose" /\ typed.texts < MaxTexts
  /\ panel' = [panel EXCEPT !.text = typed.texts + 1]
  /\ typed' = [typed EXCEPT !.texts = @ + 1]
  /\ UNCHANGED <<call, side, tickets, ledger, ghost>>

\* ingestFiles: an image of the batch while a slot remains.
PasteImage ==
  /\ panel.open /\ panel.step = "compose" /\ Cardinality(panel.images) < MaxAttachments
  /\ \E i \in Images \ panel.images : panel' = [panel EXCEPT !.images = @ \cup {i}]
  /\ UNCHANGED <<call, side, tickets, ledger, typed, ghost>>

\* validate, and queueTicket up to its first await; "next" is the button.
Submit ==
  /\ panel.open /\ panel.step = "compose" /\ ~panel.busy /\ panel.text # 0
  /\ panel' = [panel EXCEPT !.busy = TRUE]
  /\ \E next \in {"queue", "delegate"},
        order \in Bijection(1..Cardinality(panel.images), panel.images) :
       call' = [pc |-> "post", text |-> panel.text, next |-> next, left |-> order,
                total |-> Len(order), failed |-> 0, ticket |-> 0]
  /\ UNCHANGED <<side, tickets, ledger, typed, ghost>>

\* POST /api/tasks answers: the ledger write starts, and the uploads.
TicketFiled ==
  /\ call # Idle /\ call.pc = "post" /\ Len(tickets) < MaxTickets
  /\ tickets' = Append(tickets, [text |-> call.text, images |-> {}, wanted |-> Len(call.left)])
  /\ call' = [call EXCEPT !.pc = "upload", !.ticket = Len(tickets) + 1]
  /\ side' = side \cup {[kind |-> "addRequest", ticket |-> Len(tickets) + 1, request |-> 0]}
  /\ UNCHANGED <<panel, ledger, typed, ghost>>

\* The POST fails; the server may have filed the ticket, and only the answer is lost.
TicketCallFails ==
  /\ call # Idle /\ call.pc = "post" /\ typed.fails < MaxFails
  /\ typed' = [typed EXCEPT !.fails = @ + 1]
  /\ panel' = [panel EXCEPT !.busy = FALSE]
  /\ call' = Idle
  /\ \/ UNCHANGED <<tickets, ghost>>
     \/ /\ Len(tickets) < MaxTickets
        /\ tickets' = Append(tickets, [text |-> call.text, images |-> {}, wanted |-> 0])
        /\ ghost' = [ghost EXCEPT !.lost = @ \cup {call.text}]
  /\ UNCHANGED <<side, ledger>>

\* POST /api/tasks/:id/attachments: the same bytes again are no second record,
\* and the cap holds for new ones.
AttachmentAccepted(t, i) ==
  i \in tickets[t].images \/ Cardinality(tickets[t].images) < MaxAttachments

\* uploadPendingImages, one image: a failure is counted and the loop goes on.
UploadNext ==
  /\ call # Idle /\ call.pc = "upload" /\ call.left # <<>>
  /\ LET i == Head(call.left)
     IN  \/ /\ AttachmentAccepted(call.ticket, i)
            /\ tickets' = [tickets EXCEPT ![call.ticket].images = @ \cup {i}]
            /\ call' = [call EXCEPT !.left = Tail(@)]
            /\ UNCHANGED typed
         \/ /\ \/ ~AttachmentAccepted(call.ticket, i) /\ UNCHANGED typed
               \/ typed.fails < MaxFails /\ typed' = [typed EXCEPT !.fails = @ + 1]
            /\ call' = [call EXCEPT !.left = Tail(@), !.failed = @ + 1]
            /\ UNCHANGED tickets
  /\ UNCHANGED <<panel, side, ledger, ghost>>

\* The uploads are over: pending images cleared, the note set, and the step of
\* the button that was pressed; with it the assessment is asked for.
Filed ==
  /\ call # Idle /\ call.pc = "upload" /\ call.left = <<>>
  /\ panel' = [panel EXCEPT !.busy = FALSE, !.created = call.ticket,
                 !.images = IF call.total = 0 THEN @ ELSE {},
                 !.note = IF call.total = 0 THEN @ ELSE call.failed,
                 !.outcome = IF call.next = "queue" THEN [kind |-> "assessing", ticket |-> 0] ELSE @,
                 !.step = IF call.next = "queue" THEN "done" ELSE "confirm"]
  /\ side' = IF call.next = "queue"
             THEN side \cup {[kind |-> "assess", ticket |-> call.ticket, request |-> 0]} ELSE side
  /\ ghost' = [ghost EXCEPT !.told = [@ EXCEPT ![call.ticket] = call.failed]]
  /\ call' = Idle
  /\ UNCHANGED <<tickets, ledger, typed>>

\* confirmDelegate asks for the agent; cancelDelegate does not.
ConfirmDelegate ==
  /\ panel.open /\ panel.step = "confirm" /\ panel.created # 0 /\ ~panel.busy
  /\ panel' = [panel EXCEPT !.busy = TRUE]
  /\ side' = side \cup {[kind |-> "work", ticket |-> panel.created, request |-> 0]}
  /\ UNCHANGED <<call, tickets, ledger, typed, ghost>>

CancelDelegate ==
  /\ panel.open /\ panel.step = "confirm" /\ panel.created # 0 /\ ~panel.busy
  /\ panel' = [panel EXCEPT !.outcome = Idle, !.step = "done"]
  /\ UNCHANGED <<call, side, tickets, ledger, typed, ghost>>

\* runRoutine answers: a run, or an error that becomes a note.  The outcome is
\* set whatever the panel shows by now.
RoutineAnswers(m) ==
  /\ m \in side /\ m.kind \in {"assess", "work"}
  /\ side' = side \ {m}
  /\ panel' = [panel EXCEPT !.outcome = [kind |-> m.kind, ticket |-> m.ticket],
                            !.busy = IF m.kind = "work" THEN FALSE ELSE @,
                            !.step = IF m.kind = "work" THEN "done" ELSE @]
  /\ UNCHANGED <<call, tickets, ledger, typed, ghost>>

FileAnother ==
  /\ panel.open /\ panel.step = "done" /\ panel.created # 0
  /\ panel' = [ResetForm(panel) EXCEPT !.step = "compose"]
  /\ UNCHANGED <<call, side, tickets, ledger, typed, ghost>>

\* linkChatbotCaptureToIntake: POST /api/requests, then PATCH with the ticket.
AddRequest(m) ==
  /\ m \in side /\ m.kind = "addRequest"
  /\ ledger' = Append(ledger, [text |-> tickets[m.ticket].text, spawned |-> {}])
  /\ side' = (side \ {m}) \cup {[kind |-> "link", ticket |-> m.ticket, request |-> Len(ledger) + 1]}
  /\ UNCHANGED <<panel, call, tickets, typed, ghost>>

LinkRequest(m) ==
  /\ m \in side /\ m.kind = "link"
  /\ ledger' = [ledger EXCEPT ![m.request].spawned = @ \cup {m.ticket}]
  /\ side' = side \ {m}
  /\ UNCHANGED <<panel, call, tickets, typed, ghost>>

\* Either write fails: it is logged and swallowed.
LedgerFails(m) ==
  /\ m \in side /\ m.kind \in {"addRequest", "link"} /\ typed.fails < MaxFails
  /\ typed' = [typed EXCEPT !.fails = @ + 1]
  /\ side' = side \ {m}
  /\ UNCHANGED <<panel, call, tickets, ledger, ghost>>

CaptureInit ==
  /\ panel = [open |-> FALSE, step |-> "compose", busy |-> FALSE, text |-> 0, images |-> {},
              created |-> 0, outcome |-> Idle, note |-> 0]
  /\ call = Idle /\ side = {} /\ tickets = <<>> /\ ledger = <<>>
  /\ typed = [texts |-> 0, fails |-> 0]
  /\ ghost = [lost |-> {}, told |-> [t \in 1..MaxTickets |-> 0]]

CaptureNext ==
  \/ OpenPanel \/ ClosePanel \/ Type \/ PasteImage \/ Submit
  \/ TicketFiled \/ TicketCallFails \/ UploadNext \/ Filed
  \/ ConfirmDelegate \/ CancelDelegate \/ FileAnother
  \/ \E m \in side : RoutineAnswers(m) \/ AddRequest(m) \/ LinkRequest(m) \/ LedgerFails(m)

CaptureSpec == CaptureInit /\ [][CaptureNext]_captureVars

\* A confirmation is about a filed ticket, and no ticket has more images than may
\* be attached.
CaptureTypeOK ==
  /\ panel.step \in {"compose", "confirm", "done"} /\ panel.text \in 0..MaxTexts
  /\ panel.images \subseteq Images /\ Cardinality(panel.images) <= MaxAttachments
  /\ panel.step = "confirm" => panel.created # 0
  /\ panel.created \in 0..Len(tickets)
  /\ \A t \in DOMAIN tickets : Cardinality(tickets[t].images) <= MaxAttachments
  /\ call # Idle => panel.busy

\* A report is filed once: whenever the panel is closed, opened, or left on the
\* confirmation, the text of a ticket is not there to be filed again, unless the
\* answer to a filing was lost.
FiledOnce ==
  \A i, j \in DOMAIN tickets : tickets[i].text = tickets[j].text /\ i # j => tickets[i].text \in ghost.lost

\* Every image a click took with it is at its ticket or counted in the note.
ImagesAccounted ==
  \A t \in DOMAIN tickets : call = Idle =>
    Cardinality(tickets[t].images) + ghost.told[t] = tickets[t].wanted

\* A request of the ledger is linked to the ticket of its own text, and to no other.
OriginIsTrue ==
  \A r \in DOMAIN ledger : \A t \in ledger[r].spawned : tickets[t].text = ledger[r].text
=============================================================================
