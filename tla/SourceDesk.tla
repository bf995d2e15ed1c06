------------------------------- MODULE SourceDesk -------------------------------
(***************************************************************************)
(* A discovery source as the owner keeps it: the registry record and its   *)
(* instruction proposals on the server (/api/discovery/sources and         *)
(* .../instruction-proposals of server/index.js), the scout that studies   *)
(* the page and files a proposal, and the console of one tab with its      *)
(* detail drawer and its form (SourcesConsole, SourceDetailDrawer,         *)
(* SourceFormDrawer).                                                      *)
(*                                                                         *)
(* Abstractions.  One source.  The text of its instructions is the         *)
(* proposal it came from, or a text typed by the owner; `active` stands    *)
(* for the fields that are edited one at a time (active, cadence, tracks,  *)
(* output fields).  A call of the tab is served when its answer comes or   *)
(* is lost.                                                                *)
(***************************************************************************)
EXTENDS Naturals, FiniteSets

CONSTANTS
  Proposals,                \* ids of proposals
  Scouts, None,             \* agents of a propose run
  MaxClicks, MaxDesk        \* bounds: clicks, calls under way

VARIABLES
  source,    \* the record: here, its text, the proposal it was approved from, active;
             \* stamped: instructionsUpdatedAt is set
  proposals, \* status of each proposal of the source
  scouts,    \* scouts: what each is doing; known: the propose run in the runs Map
  console,   \* the tab's copy of the source
  form,      \* SourceFormDrawer
  sending,   \* calls under way
  typed,     \* (ghost) texts that the owner typed
  deskUsed   \* bound: clicks

srcVars == <<source, proposals, scouts, console, form, sending, typed, deskUsed>>

Empty == "empty"
ByHand == "by hand"
Texts == Proposals \cup {Empty, ByHand}

NewSource == [here |-> TRUE, text |-> Empty, from |-> None, active |-> TRUE, stamped |-> FALSE]
NoProposals == [p \in Proposals |-> "none"]

Click == deskUsed < MaxClicks /\ deskUsed' = deskUsed + 1
Sends(c) ==
  /\ Cardinality(sending) < MaxDesk /\ c \notin sending
  /\ sending' = sending \cup {c}
Call(kind, p, text, active) == [kind |-> kind, p |-> p, text |-> text, active |-> active]
Plain(kind) == Call(kind, None, Empty, TRUE)
LoadCall == Plain("load")

-----------------------------------------------------------------------------
(***************************************************************************)
(* Handlers of the server; each is a step.                                 *)
(***************************************************************************)
\* Mutant: the link is cleared only when the form sends another text than it opened with.
PatchKeepingLink(text, active) ==
  [source EXCEPT !.text = text, !.active = active,
                 !.from = IF text = ByHand THEN None ELSE @,
                 !.stamped = @ \/ text # source.text]

\* PATCH of the whole record: a text that differs from the live one is a manual edit.
Patch(text, active) ==
  [source EXCEPT !.text = text, !.active = active,
                 !.from = IF text # source.text THEN None ELSE @,
                 !.stamped = @ \/ text # source.text]

\* Only a pending proposal is resolved.
MayResolve(p) == proposals[p] = "pending"

\* PATCH .../instruction-proposals/:id: an approval replaces the text and stamps it.
Resolve(p, verdict) ==
  /\ proposals' = [proposals EXCEPT ![p] = verdict]
  /\ source' = IF verdict = "approved"
               THEN [source EXCEPT !.text = p, !.from = p, !.stamped = TRUE] ELSE source

\* What the server does with a call: it is refused (404, 400, 409), or served.
Effect(c) ==
  CASE c.kind = "patch"  -> source' = Patch(c.text, c.active) /\ UNCHANGED <<proposals, scouts>>
    [] c.kind = "toggle" -> source' = [source EXCEPT !.active = c.active]
                            /\ UNCHANGED <<proposals, scouts>>
    [] c.kind = "delete" -> source' = [source EXCEPT !.here = FALSE]
                            /\ UNCHANGED <<proposals, scouts>>
    [] c.kind = "create" -> source' = NewSource /\ proposals' = NoProposals
                            /\ UNCHANGED scouts
    [] c.kind \in {"approved", "rejected"} -> Resolve(c.p, c.kind) /\ UNCHANGED scouts
    [] c.kind = "propose" ->
         \E s \in Scouts :
           /\ scouts.doing[s] = "idle"
           /\ scouts' = [scouts EXCEPT !.doing[s] = "studying", !.known = s]
           /\ UNCHANGED <<source, proposals>>
    [] OTHER -> UNCHANGED <<source, proposals, scouts>>

Allowed(c) ==
  CASE c.kind = "create"  -> ~source.here
    [] c.kind = "load"    -> TRUE
    [] c.kind = "propose" -> source.here /\ scouts.known = None
    [] c.kind \in {"approved", "rejected"} -> source.here /\ MayResolve(c.p)
    [] OTHER -> source.here

\* A call is served, and its answer arrives: the form closes, the console reads again.
Served(c) ==
  /\ c.kind # "load" /\ Allowed(c) /\ Effect(c)
  /\ sending' = (sending \ {c}) \cup {LoadCall}
  /\ form' = IF c.kind = "patch" THEN [form EXCEPT !.open = FALSE, !.busy = FALSE] ELSE form
  /\ UNCHANGED <<console, typed, deskUsed>>

\* It is refused, or its answer is lost: a note, and the form stays open.
Failed(c) ==
  /\ sending' = sending \ {c}
  /\ \/ UNCHANGED <<source, proposals, scouts>>
     \/ Allowed(c) /\ Effect(c)
  /\ form' = IF c.kind = "patch" THEN [form EXCEPT !.busy = FALSE] ELSE form
  /\ UNCHANGED <<console, typed, deskUsed>>

\* deriveSources, as the registry GET answers it; a drawer of a source that is gone closes.
Loaded(c) ==
  /\ c.kind = "load" /\ sending' = sending \ {c}
  /\ console' = [source |-> source, proposals |-> proposals, proposing |-> scouts.known # None]
  /\ UNCHANGED <<source, proposals, scouts, form, typed, deskUsed>>

-----------------------------------------------------------------------------
(***************************************************************************)
(* The scout.                                                              *)
(***************************************************************************)
\* The scout's callback; it does not ask which run is known, and goes by the source's id.
FileProposal(s, p) ==
  /\ scouts.doing[s] = "studying" /\ source.here /\ proposals[p] = "none"
  /\ proposals' = [proposals EXCEPT ![p] = "pending"]
  /\ scouts' = [scouts EXCEPT !.doing[s] = "filed"]
  /\ sending' = sending \cup {LoadCall}            \* source-proposals-changed
  /\ UNCHANGED <<source, console, form, typed, deskUsed>>

\* It exits, with or without a proposal, or is stopped.
ScoutExits(s) ==
  /\ scouts.doing[s] # "idle"
  /\ scouts' = [doing |-> [scouts.doing EXCEPT ![s] = "idle"],
                known |-> IF scouts.known = s THEN None ELSE scouts.known]
  /\ UNCHANGED <<source, proposals, console, form, sending, typed, deskUsed>>

\* The runs Map is lost, the scout goes on; calls of the tab fail.
ServerRestarts ==
  /\ scouts.known # None
  /\ scouts' = [scouts EXCEPT !.known = None]
  /\ sending' = {}
  /\ UNCHANGED <<source, proposals, console, form, typed, deskUsed>>

-----------------------------------------------------------------------------
(***************************************************************************)
(* The tab.                                                                *)
(***************************************************************************)
Shown == console.source.here

\* handlePropose: not while the copy shows a run.
Propose ==
  /\ Click /\ Shown /\ ~console.proposing
  /\ Sends(Plain("propose"))
  /\ UNCHANGED <<source, proposals, scouts, console, form, typed>>

\* ProposalCard: the pending proposal of the copy is approved or rejected with a reason.
Judge(p, verdict) ==
  /\ Click /\ Shown /\ console.proposals[p] = "pending"
  /\ \A c \in sending : c.kind \notin {"approved", "rejected"}
  /\ Sends(Call(verdict, p, Empty, TRUE))
  /\ UNCHANGED <<source, proposals, scouts, console, form, typed>>

\* handleToggleActive, handleCadenceChange, ...: the opposite of what the copy shows.
Toggle ==
  /\ Click /\ Shown
  /\ Sends(Call("toggle", None, Empty, ~console.source.active))
  /\ UNCHANGED <<source, proposals, scouts, console, form, typed>>

RemoveSource ==
  /\ Click /\ Shown /\ Sends(Plain("delete"))
  /\ UNCHANGED <<source, proposals, scouts, console, form, typed>>
AddSource ==
  /\ Click /\ ~Shown /\ Sends(Plain("create"))
  /\ UNCHANGED <<source, proposals, scouts, console, form, typed>>

\* The form opens on the copy, is edited, and sends every field it has.
OpenForm ==
  /\ Shown /\ ~form.open
  /\ form' = [open |-> TRUE, busy |-> FALSE,
               text |-> console.source.text, active |-> console.source.active]
  /\ UNCHANGED <<source, proposals, scouts, console, sending, typed, deskUsed>>
TypeInstructions ==
  /\ Click /\ form.open /\ ~form.busy /\ form.text # ByHand
  /\ form' = [form EXCEPT !.text = ByHand] /\ typed' = typed \cup {ByHand}
  /\ UNCHANGED <<source, proposals, scouts, console, sending>>
CancelForm ==
  /\ form.open /\ form' = [form EXCEPT !.open = FALSE]
  /\ UNCHANGED <<source, proposals, scouts, console, sending, typed, deskUsed>>
Submit ==
  /\ Click /\ form.open /\ ~form.busy
  /\ Sends(Call("patch", None, form.text, form.active))
  /\ form' = [form EXCEPT !.busy = TRUE]
  /\ UNCHANGED <<source, proposals, scouts, console, typed>>

-----------------------------------------------------------------------------
SrcInit ==
  /\ source = NewSource
  /\ proposals = NoProposals
  /\ scouts = [doing |-> [s \in Scouts |-> "idle"], known |-> None]
  /\ console = [source |-> NewSource, proposals |-> NoProposals, proposing |-> FALSE]
  /\ form = [open |-> FALSE, busy |-> FALSE, text |-> Empty, active |-> TRUE]
  /\ sending = {} /\ typed = {} /\ deskUsed = 0

SrcNext ==
  \/ \E c \in sending : Served(c) \/ Failed(c) \/ Loaded(c)
  \/ \E s \in Scouts : ScoutExits(s) \/ \E p \in Proposals : FileProposal(s, p)
  \/ \E p \in Proposals, verdict \in {"approved", "rejected"} : Judge(p, verdict)
  \/ ServerRestarts \/ Propose \/ Toggle \/ RemoveSource \/ AddSource
  \/ OpenForm \/ TypeInstructions \/ CancelForm \/ Submit

SrcSpec == SrcInit /\ [][SrcNext]_srcVars

-----------------------------------------------------------------------------
(***************************************************************************)
(* Properties.                                                             *)
(***************************************************************************)
SourceRecords == [here: BOOLEAN, text: Texts, from: Proposals \cup {None}, active: BOOLEAN,
            stamped: BOOLEAN]

\* The types of the state.
SrcTypeOK ==
  /\ source \in SourceRecords
  /\ proposals \in [Proposals -> {"none", "pending", "approved", "rejected"}]
  /\ scouts.doing \in [Scouts -> {"idle", "studying", "filed"}]
  /\ scouts.known \in Scouts \cup {None} /\ deskUsed \in 0..MaxClicks

\* "instructionsApprovedFrom present implies the live instructions ARE that proposal's
\* text" (PATCH of a source), and the owner approved that proposal: over stale forms,
\* approvals that cross, restarts, and a source deleted and made again under its id.
ProvenanceIsTrue ==
  source.here /\ source.from # None =>
    source.text = source.from /\ proposals[source.from] = "approved"

\* Why it does: the link is cut by any other text, whatever calls are under way.
CallKinds ==
  {"load", "patch", "toggle", "delete", "create", "propose", "approved", "rejected"}
Calls == [kind: CallKinds, p: Proposals \cup {None}, text: Texts, active: BOOLEAN]

DeskInv ==
  /\ source \in SourceRecords /\ console.source \in SourceRecords
  /\ proposals \in [Proposals -> {"none", "pending", "approved", "rejected"}]
  /\ form \in [open: BOOLEAN, busy: BOOLEAN, text: Texts, active: BOOLEAN]
  /\ sending \subseteq Calls
  /\ \A c \in sending : c.kind \in {"approved", "rejected"} => c.p \in Proposals
  /\ source.from # None => source.text = source.from /\ proposals[source.from] = "approved"

\* "A resolved proposal can never change again", nor go but with its source.
StaysResolved ==
  \A p \in Proposals :
    proposals[p] \in {"approved", "rejected"} /\ source.here =>
      proposals'[p] = proposals[p] \/ ~source'.here

ResolvedIsFinal == [][StaysResolved]_srcVars

\* "instructionsUpdatedAt alone = set manually" (docs/data-schema.md): a text that
\* reads "Set manually" is one that the owner typed.
ManualIsTyped ==
  source.here /\ source.stamped /\ source.from = None => source.text \in typed

=============================================================================
