------------------------------ MODULE TaskBoard ------------------------------
(***************************************************************************)
(* The task board and the intake ledger: the routes that load one of them  *)
(* whole, change it and save it whole (server/index.js), over the files of *)
(* FileStore or the tables of PgStore, and the images of a ticket, whose   *)
(* bytes are stored before the ticket records them.                        *)
(*                                                                         *)
(* Abstractions.  A route runs to its end before the next one, so it is    *)
(* one step.  An id is the millisecond of its creation, a comment is the   *)
(* day it was stamped, an image is its content; a ticket is only its       *)
(* status and what the server manages.  The owner edits the two files, and *)
(* deletes images, by hand.                                                *)
(***************************************************************************)
EXTENDS Integers, Sequences, SequencesExt, FiniteSets

CONSTANTS
  Stores,          \* "file", "pg" or both
  Images,
  ImageCap,        \* ATTACHMENT_MAX_COUNT
  Links,           \* what a request may have spawned
  MaxPosts, MaxEvents, MaxFaults, MaxTime   \* bounds

VARIABLES
  store,    \* which store keeps everything
  clock,    \* the millisecond and the day
  board,    \* the tickets, in order, and whether tasks.yaml parses
  ledger,   \* the requests, in order, and whether requests.yaml parses
  blobs,    \* <<ticket id, image>>: the bytes of record, and the files that are served
  gone,     \* history: the ids deleted over the API, the images deleted by hand
  count     \* history and bounds: tickets and requests posted, other events, faults

boardVars == <<store, clock, board, ledger, blobs, gone, count>>

Spend(counter, most) == count[counter] < most /\ count' = [count EXCEPT ![counter] = @ + 1]

-----------------------------------------------------------------------------
(***************************************************************************)
(* Tickets.                                                                *)
(***************************************************************************)
\* The columns of the board; canceled is not one of them, yet a valid status.
Columns == <<"backlog", "done">>
ValidStatuses == Range(Columns) \cup {"canceled"}
DoneStatus == "done"

\* What a body may say: a status or none, a comment or none; either may be malformed.
Bodies == [status : ValidStatuses \cup {"none", "bogus"}, comment : {"none", "good", "malformed"}]

\* A body whose comment is malformed is refused whole.
Refused(body) == body.comment = "malformed"

\* The day a ticket is completed: stamped on the move into done, erased on any other.
Completed(ticket, status) ==
  IF status # DoneStatus THEN 0
  ELSE IF ticket.status = DoneStatus \/ ticket.completed # 0 THEN ticket.completed
  ELSE clock.day

ApplyTaskFields(ticket, body) ==
  LET moved == IF body.status \notin ValidStatuses THEN ticket
               ELSE [ticket EXCEPT !.status = body.status, !.completed = Completed(ticket, body.status)]
  IN  IF body.comment = "good" THEN [moved EXCEPT !.comments = Append(@, clock.day)] ELSE moved

\* loadTasks: a file that does not parse is an error, never an empty board.
Loaded == board.parses

\* A save puts the list in the place of the old one, in one rename or one transaction.
SaveTasks(tickets) == board' = [board EXCEPT !.list = tickets]

\* saveTasks of PgStore inserts the ids anew, under a primary key.
KeyClash(list, id) == store = "pg" /\ \E n \in DOMAIN list : list[n].id = id

PostTask(body) ==
  LET made == [id |-> clock.ms, no |-> count.posts, status |-> "none", completed |-> 0,
               comments |-> <<>>, images |-> <<>>]
      filed == ApplyTaskFields(made, body)
  IN  /\ Loaded /\ ~Refused(body) /\ ~KeyClash(board.list, made.id)
      /\ Spend("posts", MaxPosts)
      /\ SaveTasks(Append(board.list, [filed EXCEPT !.status = IF @ = "none" THEN "backlog" ELSE @]))
      /\ UNCHANGED <<store, clock, ledger, blobs, gone>>

\* The first ticket of an id is the one a route finds.
Found(list, id) == SelectInSeq(list, LAMBDA t : t.id = id)

PatchTask(id, body) ==
  /\ Loaded /\ Found(board.list, id) # 0 /\ ~Refused(body)
  /\ Spend("events", MaxEvents)
  /\ SaveTasks([board.list EXCEPT ![Found(board.list, id)] = ApplyTaskFields(@, body)])
  /\ UNCHANGED <<store, clock, ledger, blobs, gone>>

\* The tickets of other ids, in their order.
Others(list, id) ==
  LET kept == {n \in DOMAIN list : list[n].id # id}
      Nth(k) == CHOOSE n \in kept : Cardinality({m \in kept : m <= n}) = k
  IN  [k \in 1..Cardinality(kept) |-> list[Nth(k)]]

\* Deletes every ticket of the id, and none of its images.
DeleteTask(id) ==
  /\ Loaded /\ Found(board.list, id) # 0
  /\ Spend("events", MaxEvents)
  /\ SaveTasks(Others(board.list, id))
  /\ gone' = [gone EXCEPT !.ids = @ \cup {id}]
  /\ UNCHANGED <<store, clock, ledger, blobs>>

-----------------------------------------------------------------------------
(***************************************************************************)
(* Images.  The bytes first, then the record on the ticket: what stops in  *)
(* between leaves bytes that no ticket records.                            *)
(***************************************************************************)
SaveBlob(id, image) ==
  blobs' = [bytes |-> blobs.bytes \cup {<<id, image>>}, files |-> blobs.files \cup {<<id, image>>}]

\* Mutant: the record before the bytes.
AttachRecordFirst(id, image) ==
  LET at == Found(board.list, id)
      has == Range(board.list[at].images)
  IN  /\ Loaded /\ at # 0
      /\ image \in has \/ Cardinality(has) < ImageCap
      /\ gone' = [gone EXCEPT !.images = @ \ {<<id, image>>}]
      /\ \/ /\ Spend("events", MaxEvents) /\ SaveBlob(id, image)
            /\ IF image \in has THEN UNCHANGED board
               ELSE SaveTasks([board.list EXCEPT ![at].images = Append(@, image)])
         \/ /\ Spend("faults", MaxFaults) /\ UNCHANGED blobs
            /\ SaveTasks([board.list EXCEPT ![at].images = Append(SelectSeq(@, LAMBDA i : i # image), image)])
      /\ UNCHANGED <<store, clock, ledger>>

Attach(id, image) ==
  LET at == Found(board.list, id)
      has == Range(board.list[at].images)
  IN  /\ Loaded /\ at # 0
      /\ image \in has \/ Cardinality(has) < ImageCap
      /\ SaveBlob(id, image)
      /\ gone' = [gone EXCEPT !.images = @ \ {<<id, image>>}]
      /\ \/ /\ Spend("events", MaxEvents)
            /\ IF image \in has THEN UNCHANGED board
               ELSE SaveTasks([board.list EXCEPT ![at].images = Append(@, image)])
         \/ Spend("faults", MaxFaults) /\ UNCHANGED board
      /\ UNCHANGED <<store, clock, ledger>>

\* Whether the guarded reader has a file to send: PgStore writes it anew from the bytes.
Served(id, image) == <<id, image>> \in IF store = "pg" THEN blobs.bytes ELSE blobs.files

\* A new instance of the cloud has an empty disk.
Redeploy ==
  /\ store = "pg" /\ blobs.files # {} /\ Spend("faults", MaxFaults)
  /\ blobs' = [blobs EXCEPT !.files = {}]
  /\ UNCHANGED <<store, clock, board, ledger, gone>>

DeleteByHand(id, image) ==
  /\ store = "file" /\ <<id, image>> \in blobs.files /\ Spend("faults", MaxFaults)
  /\ blobs' = [bytes |-> blobs.bytes \ {<<id, image>>}, files |-> blobs.files \ {<<id, image>>}]
  /\ gone' = [gone EXCEPT !.images = @ \cup {<<id, image>>}]
  /\ UNCHANGED <<store, clock, board, ledger>>

-----------------------------------------------------------------------------
(***************************************************************************)
(* Requests.                                                               *)
(***************************************************************************)
\* loadRequests: a file that does not parse is an empty ledger.
LoadRequests == IF ledger.parses THEN ledger.list ELSE <<>>
SaveRequests(list) == ledger' = [parses |-> TRUE, list |-> list]

PostRequest(spawned) ==
  /\ ~KeyClash(LoadRequests, clock.ms) /\ Spend("posts", MaxPosts)
  /\ SaveRequests(Append(LoadRequests, [id |-> clock.ms, no |-> count.posts, spawned |-> spawned]))
  /\ UNCHANGED <<store, clock, board, blobs, gone>>

\* What it spawned is merged, never replaced.
PatchRequest(id, spawned) ==
  LET at == Found(LoadRequests, id)
  IN  /\ at # 0 /\ Spend("events", MaxEvents)
      /\ SaveRequests([LoadRequests EXCEPT ![at].spawned = @ \cup spawned])
      /\ UNCHANGED <<store, clock, board, blobs, gone>>

-----------------------------------------------------------------------------
(***************************************************************************)
(* Time, and the owner's hand.                                             *)
(***************************************************************************)
Tick ==
  /\ clock.ms < MaxTime
  /\ \E days \in 0..1 : clock' = [ms |-> clock.ms + 1, day |-> clock.day + days]
  /\ UNCHANGED <<store, board, ledger, blobs, gone, count>>

\* An edit leaves a file that does not parse, and another repairs it.
EditByHand ==
  /\ store = "file"
  /\ \/ /\ board.parses /\ Spend("faults", MaxFaults)
        /\ board' = [board EXCEPT !.parses = FALSE] /\ UNCHANGED ledger
     \/ ~board.parses /\ board' = [board EXCEPT !.parses = TRUE] /\ UNCHANGED <<ledger, count>>
     \/ /\ ledger.parses /\ Spend("faults", MaxFaults)
        /\ ledger' = [ledger EXCEPT !.parses = FALSE] /\ UNCHANGED board
     \/ ~ledger.parses /\ ledger' = [ledger EXCEPT !.parses = TRUE] /\ UNCHANGED <<board, count>>
  /\ UNCHANGED <<store, clock, blobs, gone>>

BoardInit ==
  /\ store \in Stores /\ clock = [ms |-> 1, day |-> 1]
  /\ board = [parses |-> TRUE, list |-> <<>>] /\ ledger = [parses |-> TRUE, list |-> <<>>]
  /\ blobs = [bytes |-> {}, files |-> {}] /\ gone = [ids |-> {}, images |-> {}]
  /\ count = [posts |-> 0, events |-> 0, faults |-> 0]

BoardNext ==
  \/ \E body \in Bodies : PostTask(body) \/ \E id \in 1..MaxTime : PatchTask(id, body)
  \/ \E id \in 1..MaxTime :
       \/ DeleteTask(id)
       \/ \E image \in Images : Attach(id, image) \/ DeleteByHand(id, image)
       \/ \E spawned \in SUBSET Links : PatchRequest(id, spawned)
  \/ \E spawned \in SUBSET Links : PostRequest(spawned)
  \/ Redeploy \/ Tick \/ EditByHand

BoardSpec == BoardInit /\ [][BoardNext]_boardVars

-----------------------------------------------------------------------------
(***************************************************************************)
(* Properties.                                                             *)
(***************************************************************************)
\* Tickets have a status of the board, and the cap on their images holds.
BoardTypeOK ==
  /\ \A t \in Range(board.list) : t.status \in ValidStatuses /\ Len(t.images) <= ImageCap
  /\ store = "pg" => blobs.files \subseteq blobs.bytes /\ board.parses /\ ledger.parses

Whole(t) ==
  /\ (t.completed # 0) <=> (t.status = DoneStatus)
  /\ t.completed <= clock.day /\ IsInjective(t.images)
  /\ \A image \in Range(t.images) : Served(t.id, image) \/ <<t.id, image>> \in gone.images

\* A ticket is completed if and only if it is done, on a day that has come; each image
\* it records is recorded once and can be shown, unless its file was deleted by hand.
TicketsAreWhole == \A t \in Range(board.list) : Whole(t)

\* What makes it so: tickets and requests keep their shape, and days begin at one.
TicketRecords == [id : Nat, no : Nat, status : ValidStatuses, completed : Nat, comments : Seq(Nat),
            images : Seq(Images)]
Requests == [id : Nat, no : Nat, spawned : SUBSET Links]

BoardInv ==
  /\ store \in {"file", "pg"} /\ clock \in [ms : Nat, day : Nat \ {0}]
  /\ count \in [posts : Nat, events : Nat, faults : Nat]
  /\ blobs \in [bytes : SUBSET (Nat \X Images), files : SUBSET (Nat \X Images)]
  /\ gone \in [ids : SUBSET Nat, images : SUBSET (Nat \X Images)]
  /\ board \in [parses : BOOLEAN, list : Seq(TicketRecords)]
  /\ ledger \in [parses : BOOLEAN, list : Seq(Requests)]
  /\ TicketsAreWhole

\* A ticket stays until its id is deleted, its comments only grow, and the day it was
\* completed changes only when it leaves done; a request of a ledger that parses stays,
\* with all that it spawned.
HistoryKept ==
  /\ \A n \in DOMAIN board.list :
       LET t == board.list[n]
       IN  \/ \E u \in Range(board'.list) :
                /\ u.no = t.no /\ IsPrefix(t.comments, u.comments)
                /\ t.status = DoneStatus /\ u.status = DoneStatus => u.completed = t.completed
           \/ board'.list = Others(board.list, t.id) /\ t.id \in gone'.ids
  /\ ledger.parses => \A n \in DOMAIN ledger.list : \E r \in Range(ledger'.list) :
                        r.no = ledger.list[n].no /\ ledger.list[n].spawned \subseteq r.spawned

NothingForgotten == [][HistoryKept]_boardVars

\* "a request is never deleted" (server/index.js:2342).
NeverDeleted ==
  [][\A n \in DOMAIN ledger.list : \E r \in Range(ledger'.list) : r.no = ledger.list[n].no]_boardVars

\* "app.delete(/api/tasks/:id)" deletes the ticket of the id: one.
DeletesOne == [][Len(board'.list) >= Len(board.list) - 1]_boardVars
=============================================================================
