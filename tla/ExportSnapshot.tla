--------------------------- MODULE ExportSnapshot ---------------------------
(***************************************************************************)
(* ops/export-snapshot.mjs: a laptop pulls everything the cloud holds into *)
(* a fresh directory, item by item, while the application goes on writing, *)
(* then fetches it all again, and marks the directory VERIFIED only if     *)
(* nothing differs.  Old snapshots are pruned by the owner's command.      *)
(*                                                                         *)
(* Abstractions.  The content of an item is the number of times it was     *)
(* written: contents do not recur.  A job's row and each of its files is   *)
(* an item, as are tasks, requests and the like, whose lists are served    *)
(* whole; a blob is an attachment listed by the tasks.  Names are safe, so *)
(* nothing is refused.  Instances of the program share no directory, so    *)
(* one is enough, and its lock, which only spares work, is left out.       *)
(***************************************************************************)
EXTENDS Integers, Sequences, FiniteSets, SequencesExt

CONSTANTS
  Rows, Files,   \* items the manifest lists
  Domains,       \* lists served whole
  Tasks,         \* the one that lists the blobs
  Blobs,         \* task attachments, written once
  Absent,
  Keep,          \* retention.keep of the owner's configuration
  MaxEdits, MaxSnapshots, MaxFaults   \* bounds

VARIABLES
  cloud,     \* what the store holds
  snapshots, \* the directories, in the order of their names
  export,    \* the process that exports into the last of them
  prune,     \* directories the pruning process has still to remove
  past,      \* (ghost) the cloud's states since the export began
  edits, faults

vars == <<cloud, snapshots, export, prune, past, edits, faults>>

Listed == Rows \cup Files                    \* by the manifest
Items == Listed \cup Domains \cup Blobs
Nothing == [i \in Items |-> Absent]

\* marker: VERIFIED is there.  whole: so is everything that was written.
\* moment: (ghost) the content is what the cloud held at one moment.
Directory(disk) == [disk |-> disk, marker |-> FALSE, whole |-> TRUE, gone |-> FALSE, moment |-> FALSE]

Off == [pc |-> "off", todo |-> {}, manifest |-> Nothing, again |-> Nothing, wrong |-> FALSE]

Present(kind) == {i \in kind : cloud[i] # Absent}
Disk == snapshots[Len(snapshots)].disk
OnDisk(i, content) == [snapshots EXCEPT ![Len(snapshots)].disk[i] = content]

\* A call may fail, MaxFaults times.
Call(ok) == IF ok THEN UNCHANGED faults ELSE faults < MaxFaults /\ faults' = faults + 1

-----------------------------------------------------------------------------
(***************************************************************************)
(* The pull.                                                               *)
(***************************************************************************)
\* createSnapshotDir, and the first manifest.
CreateSnapshotDir ==
  /\ export.pc = "off" /\ Len(snapshots) < MaxSnapshots
  /\ snapshots' = Append(snapshots, Directory(Nothing))
  /\ export' = [Off EXCEPT !.pc = "listed", !.todo = Present(Listed), !.manifest = cloud]
  /\ past' = {cloud}
  /\ UNCHANGED <<cloud, prune, edits, faults>>

\* A row or a file: written only if it is still what the manifest said.
PullListed ==
  /\ export.pc = "listed"
  /\ \E i \in export.todo, ok \in BOOLEAN :
       LET right == ok /\ cloud[i] = export.manifest[i]
       IN  /\ Call(ok)
           /\ snapshots' = IF right THEN OnDisk(i, cloud[i]) ELSE snapshots
           /\ export' = [export EXCEPT !.todo = @ \ {i}, !.wrong = @ \/ ~right]
  /\ UNCHANGED <<cloud, prune, past, edits>>

\* A list: the run dies if it cannot be had.
PullDomain ==
  /\ export.pc = "domains"
  /\ \E i \in export.todo, ok \in BOOLEAN :
       /\ Call(ok)
       /\ snapshots' = IF ok THEN OnDisk(i, cloud[i]) ELSE snapshots
       /\ export' = IF ~ok THEN Off
                    ELSE [export EXCEPT !.todo = @ \ {i},
                                        !.again = IF i = Tasks THEN cloud ELSE @]
  /\ UNCHANGED <<cloud, prune, past, edits>>

PullBlob ==
  /\ export.pc = "blobs"
  /\ \E i \in export.todo, ok \in BOOLEAN :
       LET there == ok /\ cloud[i] # Absent
       IN  /\ Call(ok)
           /\ snapshots' = IF there THEN OnDisk(i, cloud[i]) ELSE snapshots
           /\ export' = [export EXCEPT !.todo = @ \ {i}, !.wrong = @ \/ ~there]
  /\ UNCHANGED <<cloud, prune, past, edits>>

-----------------------------------------------------------------------------
(***************************************************************************)
(* The verification.                                                       *)
(***************************************************************************)
\* The manifest again: as many rows and files, every file as written.  When
\* it cannot be had, the rows are not looked at.
FetchManifestAgain ==
  /\ export.pc = "manifest"
  /\ \E ok \in BOOLEAN :
       LET same == /\ \A kind \in {Rows, Files} :
                        Cardinality(Present(kind))
                          = Cardinality({i \in kind : export.manifest[i] # Absent})
                   /\ \A i \in Present(Files) : Disk[i] = cloud[i]
                   /\ \A i \in Present(Rows) : Disk[i] # Absent
       IN  /\ Call(ok)
           /\ export' = [export EXCEPT !.pc = "rows", !.again = cloud,
                           !.todo = IF ok THEN Present(Rows) ELSE {},
                           !.wrong = @ \/ ~ok \/ ~same]
  /\ UNCHANGED <<cloud, snapshots, prune, past, edits>>

\* A failed call ends the look at the rows.
FetchRowAgain ==
  /\ export.pc = "rows"
  /\ \E i \in export.todo, ok \in BOOLEAN :
       /\ Call(ok)
       /\ export' = [export EXCEPT
            !.todo = IF ok THEN @ \ {i} ELSE {},
            !.wrong = @ \/ ~ok \/ cloud[i] # export.again[i] \/ Disk[i] # cloud[i]]
  /\ UNCHANGED <<cloud, snapshots, prune, past, edits>>

\* Mutant: the lists are fetched, and not compared.
FetchDomainOnly ==
  /\ export.pc = "verify"
  /\ \E i \in export.todo, ok \in BOOLEAN :
       Call(ok) /\ export' = [export EXCEPT !.todo = @ \ {i}, !.wrong = @ \/ ~ok]
  /\ UNCHANGED <<cloud, snapshots, prune, past, edits>>

FetchDomainAgain ==
  /\ export.pc = "verify"
  /\ \E i \in export.todo, ok \in BOOLEAN :
       /\ Call(ok)
       /\ export' = [export EXCEPT !.todo = @ \ {i}, !.wrong = @ \/ ~ok \/ Disk[i] # cloud[i]]
  /\ UNCHANGED <<cloud, snapshots, prune, past, edits>>

\* The next part of runExportSnapshot.
NextPart ==
  /\ export.pc \in {"listed", "domains", "blobs", "rows"} /\ export.todo = {}
  /\ export' = [export EXCEPT
       !.pc = CASE @ = "listed" -> "domains" [] @ = "domains" -> "blobs"
                [] @ = "blobs" -> "manifest" [] @ = "rows" -> "verify",
       !.todo = CASE export.pc = "listed" -> Domains
                  [] export.pc = "domains" -> {b \in Blobs : export.again[b] # Absent}
                  [] export.pc = "blobs" -> {}
                  [] export.pc = "rows" -> Domains]
  /\ UNCHANGED <<cloud, snapshots, prune, past, edits, faults>>

\* The marker, the last byte written.  The report of the run changes nothing.
MarkVerified ==
  /\ export.pc = "verify" /\ export.todo = {}
  /\ snapshots' = [snapshots EXCEPT ![Len(snapshots)].marker = ~export.wrong,
                                    ![Len(snapshots)].moment = Disk \in past]
  /\ export' = Off
  /\ UNCHANGED <<cloud, prune, past, edits, faults>>

ExportKilled ==
  /\ export.pc # "off" /\ Call(FALSE)
  /\ export' = Off
  /\ UNCHANGED <<cloud, snapshots, prune, past, edits>>

-----------------------------------------------------------------------------
(***************************************************************************)
(* runPrune, by the owner's command only.                                  *)
(***************************************************************************)
Marked == {n \in DOMAIN snapshots : snapshots[n].marker /\ ~snapshots[n].gone}
NewerMarked(n) == {k \in Marked : k > n}

Deletable == {n \in Marked : Cardinality(NewerMarked(n)) >= Keep}

PruneStarts ==
  /\ prune = {} /\ Deletable # {}
  /\ prune' = Deletable
  /\ UNCHANGED <<cloud, snapshots, export, past, edits, faults>>

\* rmSync goes through a directory file by file: the marker may outlive others.
PruneRemoves ==
  /\ \E n \in prune :
       \/ /\ snapshots[n].whole
          /\ \E marker \in BOOLEAN :
               snapshots' = [snapshots EXCEPT ![n].whole = FALSE, ![n].marker = marker]
          /\ UNCHANGED prune
       \/ /\ ~snapshots[n].whole
          /\ snapshots' = [snapshots EXCEPT ![n].gone = TRUE]
          /\ prune' = prune \ {n}
  /\ UNCHANGED <<cloud, export, past, edits, faults>>

PruneKilled ==
  /\ prune # {} /\ Call(FALSE)
  /\ prune' = {}
  /\ UNCHANGED <<cloud, snapshots, export, past, edits>>

-----------------------------------------------------------------------------
(***************************************************************************)
(* The application: writes an item; adds or deletes an attachment together *)
(* with its entry in the tasks.                                            *)
(***************************************************************************)
Written(i) == IF cloud[i] = Absent THEN 0 ELSE cloud[i] + 1

Edit ==
  /\ edits < MaxEdits /\ edits' = edits + 1
  /\ \/ \E i \in Items \ Blobs : cloud' = [cloud EXCEPT ![i] = Written(i)]
     \/ \E b \in Blobs :
          cloud' = [cloud EXCEPT ![Tasks] = Written(Tasks), ![b] = IF @ = Absent THEN 0 ELSE Absent]
  /\ past' = past \cup {cloud'}
  /\ UNCHANGED <<snapshots, export, prune, faults>>

Init ==
  /\ \E there \in SUBSET Listed :
       cloud = [i \in Items |-> IF i \in Domains \cup there THEN 0 ELSE Absent]
  /\ snapshots = <<>> /\ export = Off /\ prune = {} /\ past = {}
  /\ edits = 0 /\ faults = 0

Next ==
  \/ CreateSnapshotDir \/ PullListed \/ PullDomain \/ PullBlob
  \/ FetchManifestAgain \/ FetchRowAgain \/ FetchDomainAgain
  \/ NextPart \/ MarkVerified \/ ExportKilled
  \/ PruneStarts \/ PruneRemoves \/ PruneKilled
  \/ Edit

Spec == Init /\ [][Next]_vars

-----------------------------------------------------------------------------
(***************************************************************************)
(* Properties.                                                             *)
(***************************************************************************)
\* Everything keeps its type.
SnapshotTypeOK ==
  /\ cloud \in [Items -> 0..MaxEdits \cup {Absent}]
  /\ \A n \in DOMAIN snapshots : snapshots[n].disk \in [Items -> 0..MaxEdits \cup {Absent}]
  /\ export.todo \subseteq Items /\ prune \subseteq DOMAIN snapshots

\* A snapshot marked VERIFIED is what the cloud held at one moment of the run,
\* though it was pulled piece by piece under an application that writes.
VerifiedIsMoment ==
  \A n \in DOMAIN snapshots : snapshots[n].marker => snapshots[n].moment

\* Pruning, killed halfway or beside a running export, never costs the newest
\* snapshots: the Keep newest directories with a marker are whole.
NewestVerifiedWhole ==
  \A n \in Marked : Cardinality(NewerMarked(n)) < Keep => snapshots[n].whole
=============================================================================
