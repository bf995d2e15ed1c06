------------------------------- MODULE JobFiles -------------------------------
(***************************************************************************)
(* The files of one job's folder (FileStore) or of its rows in job_files   *)
(* (PgStore), and all that writes them: the drawer upload, the notes, the  *)
(* vault sync, the artifacts a runner or a replay delivers, and a local    *)
(* agent, before which the server keeps dated copies of what it is about   *)
(* to write anew (server/index.js, server/store.js, server/pg-store.js).   *)
(*                                                                         *)
(* Abstractions.  A file name is the document it says and what stands in   *)
(* brackets after it: n for " (n)", -d for " (YYYY-MM-DD)" of day d.  The  *)
(* content of a file is the number of the write that made it.  An agent    *)
(* writes the outputs of its routine, under undated names.  The job's own  *)
(* file is JobBoard's.                                                     *)
(***************************************************************************)
EXTENDS Integers, Sequences, FiniteSets, FiniteSetsExt

CONSTANTS
  Stores,      \* "file", "pg" or both
  Uploaded,    \* names of files the owner uploads
  Noted,       \* names the owner saves notes under
  LocalRoutines,  \* those launched on the laptop, of Routines
  DemoCap,     \* UPLOAD_DEMO_MAX_COUNT
  MaxStored, MaxLaunches, MaxDays   \* bounds

VARIABLES
  env,       \* the store, and whether this is the demo
  today,
  files,     \* name -> who stored its content, and the number of that write
  agents,    \* routine -> the writes before its local agent was launched, or NoAgent
  uncopied,  \* history: writes a launch failed to copy
  stored,    \* history: writes so far
  launches   \* bound

filesVars == <<env, today, files, agents, uncopied, stored, launches>>

-----------------------------------------------------------------------------
(***************************************************************************)
(* Names.                                                                  *)
(***************************************************************************)
Name(doc, marks) == [doc |-> doc, marks |-> marks]
Marked(name, mark) == [name EXCEPT !.marks = Append(@, mark)]

\* isDatedCopy: the name ends in a date, or in a date and a number.
IsDatedCopy(name) ==
  LET k == Len(name.marks)
  IN  \/ k > 0 /\ name.marks[k] < 0
      \/ k > 1 /\ name.marks[k - 1] < 0 /\ name.marks[k] > 0

CurrentFiles == {name \in DOMAIN files : ~IsDatedCopy(name)}

\* The document of a name, as the substring rules of the two stores class it.
IsPrepDoc(name) == name.doc = "prep"
IsNote(name) == name.doc \in {"gaps", "feedback"}

\* The first of the candidates name, name (2), name (3), ... that is not taken.
Free(name) == name \notin DOMAIN files
FirstFree(name) ==
  IF Free(name) THEN name
  ELSE Marked(name, Min({n \in 2..Cardinality(DOMAIN files) + 2 : Free(Marked(name, n))}))

DatedCopyName(name) == FirstFree(Marked(name, -today))

-----------------------------------------------------------------------------
(***************************************************************************)
(* Writes.                                                                 *)
(***************************************************************************)
Content(by) == [by |-> by, no |-> stored + 1]

\* New files, each in the place of one of its name.
PutFiles(new) ==
  files' = [name \in DOMAIN new \cup DOMAIN files |->
              IF name \in DOMAIN new THEN new[name] ELSE files[name]]

Put(name, by) ==
  /\ stored < MaxStored /\ stored' = stored + 1
  /\ PutFiles([put \in {name} |-> Content(by)])

CountJobFiles == Cardinality(DOMAIN files)
UploadPolicy == env.demo => CountJobFiles < DemoCap

\* POST /api/jobs/:id/files -> addJobFileUnique: inserts under the first free name.
\* Only the demo counts the files first.
Upload(name) ==
  /\ UploadPolicy
  /\ Put(FirstFree(name), "upload")
  /\ UNCHANGED <<env, today, agents, uncopied, launches>>

NoteAllowed(name) == IsNote(name) /\ ~IsDatedCopy(name)

\* PUT /api/jobs/:id/file: puts the note in the place of the old one.
WriteJobNote(name) ==
  /\ NoteAllowed(name)
  /\ Put(name, "note")
  /\ UNCHANGED <<env, today, agents, uncopied, launches>>

\* addJobFileIfAbsent: what is there stays.
AddJobFileIfAbsent(name) ==
  /\ ~env.demo /\ Free(name)
  /\ Put(name, "vault")
  /\ UNCHANGED <<env, today, agents, uncopied, launches>>

\* saveJobArtifact: what a runner, or a replay of the demo, delivers replaces what is there.
SaveJobArtifact(name) ==
  /\ name.doc \in IF env.demo THEN {"cv"} ELSE {"cv", "gaps", "prep", "feedback"}
  /\ ~IsDatedCopy(name)
  /\ Put(name, "artifact")
  /\ UNCHANGED <<env, today, agents, uncopied, launches>>

\* prepFeedbackAnswered of getJob: the note was stored after every prep sheet there is.
PrepSheets == {name \in CurrentFiles : IsPrepDoc(name)}
PrepFeedbackAnswered(feedback) ==
  PrepSheets # {} /\ \A prep \in PrepSheets : files[feedback].no > files[prep].no

-----------------------------------------------------------------------------
(***************************************************************************)
(* The local agent.                                                        *)
(***************************************************************************)
Routines == {"first-draft-job", "interview-prep", "interview-prep-refine"}

\* The current files a routine regenerates.
RoutineOutputFiles(routine) ==
  {name \in CurrentFiles :
     \/ routine = "first-draft-job" /\ name.doc = "cv"
     \/ routine \in {"interview-prep", "interview-prep-refine"} /\ IsPrepDoc(name)
     \/ routine = "interview-prep" /\ name.doc = "feedback"}

\* backupRoutineOutputs copies each output in turn; a copy that fails is left out.
Backup(names) ==
  PutFiles([copy \in {DatedCopyName(name) : name \in names} |->
              LET from == CHOOSE name \in names : DatedCopyName(name) = copy
              IN  [by |-> "copy", no |-> files[from].no]])

NoAgent == -1

\* startRun on the laptop; one run of a routine at a time, and those of others beside it.
Launch(routine) ==
  LET outputs == RoutineOutputFiles(routine)
  IN  /\ env = [store |-> "file", demo |-> FALSE] /\ agents[routine] = NoAgent
      /\ launches < MaxLaunches /\ launches' = launches + 1
      /\ \E failed \in SUBSET outputs :
           /\ Backup(outputs \ failed)
           /\ uncopied' = uncopied \cup {files[name].no : name \in failed}
      /\ agents' = [agents EXCEPT ![routine] = stored]
      /\ UNCHANGED <<env, today, stored>>

\* What a routine writes where there is nothing yet: a prep sheet comes with a feedback note.
FirstOutputs(routine) ==
  {Name(doc, <<>>) : doc \in CASE routine = "first-draft-job" -> {"cv"}
                               [] routine = "interview-prep" -> {"prep", "feedback"}
                               [] OTHER -> {"prep"}}

AgentWrites(routine) ==
  /\ agents[routine] # NoAgent
  /\ \E name \in RoutineOutputFiles(routine) \cup FirstOutputs(routine) : Put(name, routine)
  /\ UNCHANGED <<env, today, agents, uncopied, launches>>

AgentEnds(routine) ==
  /\ agents[routine] # NoAgent /\ agents' = [agents EXCEPT ![routine] = NoAgent]
  /\ UNCHANGED <<env, today, files, uncopied, stored, launches>>

NextDay ==
  /\ today < MaxDays /\ today' = today + 1
  /\ UNCHANGED <<env, files, agents, uncopied, stored, launches>>

FilesInit ==
  /\ env \in [store : Stores, demo : BOOLEAN] /\ today = 1
  /\ files = <<>> /\ agents = [routine \in Routines |-> NoAgent]
  /\ uncopied = {} /\ stored = 0 /\ launches = 0

FilesNext ==
  \/ \E name \in Uploaded : Upload(name) \/ AddJobFileIfAbsent(name)
  \/ \E name \in Noted : WriteJobNote(name)
  \/ \E name \in Uploaded \cup Noted : SaveJobArtifact(name)
  \/ \E routine \in LocalRoutines : Launch(routine) \/ AgentWrites(routine) \/ AgentEnds(routine)
  \/ NextDay

FilesSpec == FilesInit /\ [][FilesNext]_filesVars

-----------------------------------------------------------------------------
(***************************************************************************)
(* Properties.                                                             *)
(***************************************************************************)
FilesTypeOK ==
  /\ \A name \in DOMAIN files : files[name].no \in 1..stored
  /\ env.store = "pg" => \A name \in DOMAIN files : files[name].by \notin Routines \cup {"copy"}

\* The bytes that were under a name are kept, under a dated one.
KeptDated(name, kept) == \E copy \in DOMAIN kept : IsDatedCopy(copy) /\ kept[copy].no = files[name].no

\* A file never goes, and an upload, a sync or a copy never takes the place of one.  What
\* a local agent replaces is kept under a dated name, unless it was stored after the agent
\* was launched or its copy failed; and no one writes over a dated copy.
FilesStand ==
  \A name \in DOMAIN files :
    /\ name \in DOMAIN files'
    /\ LET by == files'[name].by
       IN  files'[name] # files[name] =>
             /\ by \in {"note", "artifact"} \cup Routines /\ ~IsDatedCopy(name)
             /\ by \in Routines => \/ KeptDated(name, files')
                                   \/ files[name].no > agents[by] \/ files[name].no \in uncopied

\* What makes it so: what a local agent may replace was copied when it was launched, or was
\* stored since.
FileNames == [doc : {"cv", "gaps", "prep", "feedback"}, marks : Seq(Int)]

FilesInv ==
  /\ today \in Nat \ {0} /\ stored \in Nat /\ agents \in [Routines -> Int]
  /\ IsFiniteSet(DOMAIN files) /\ DOMAIN files \subseteq FileNames
  /\ files = [name \in DOMAIN files |-> files[name]]
  /\ \A name \in DOMAIN files : files[name].no \in Nat
  /\ \A routine \in Routines : agents[routine] <= stored
  /\ \A routine \in Routines : agents[routine] # NoAgent =>
       \A name \in RoutineOutputFiles(routine) :
         \/ KeptDated(name, files)
         \/ files[name].no > agents[routine] \/ files[name].no \in uncopied

\* "the feedback note was edited AFTER the prep docs were generated"
\* (src/components/JobDetail.tsx:865-866): by the owner, as the screen says it was.
AnsweredByOwner ==
  \A name \in CurrentFiles :
    name.doc = "feedback" /\ PrepFeedbackAnswered(name) => files[name].by \in {"note", "upload"}

\* "keep a dated copy of each CURRENT output so a re-run never destroys the prior version"
\* (server/index.js:3889-3891).
PriorVersionKept ==
  [][\A name \in DOMAIN files :
       files'[name] # files[name] /\ files[name].by \in Routines \cup {"artifact"} =>
         KeptDated(name, files') \/ files[name].no \in uncopied]_filesVars
=============================================================================
