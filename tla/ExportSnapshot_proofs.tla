------------------------- MODULE ExportSnapshot_proofs -------------------------
(***************************************************************************)
(* Proofs about ExportSnapshot, for any number of items, directories,      *)
(* edits and failures.                                                     *)
(*                                                                         *)
(* VerifiedIsMoment.  What a directory marked VERIFIED holds is what the   *)
(* cloud held when the manifest was fetched the second time.  Contents     *)
(* only grow (Older), so an item found unchanged afterwards was the same   *)
(* at that moment; a row or a file that was not there then was not there   *)
(* before; and an attachment changes together with the tasks that list it, *)
(* so what was pulled of it is right as long as the tasks are              *)
(* (BlobsFollowTasks).                                                     *)
(*                                                                         *)
(* NewestVerifiedWhole.  A directory that is being removed, or was left    *)
(* half removed, has Keep newer ones with a marker that are whole and not  *)
(* being removed (Safe).                                                   *)
(***************************************************************************)
EXTENDS ExportSnapshot, FiniteSetTheorems, SequenceTheorems, WellFoundedInduction, TLAPS

\* The kinds of items are kinds: nothing is of two.
SnapshotAssumption ==
  /\ Rows \cap Files = {} /\ Listed \cap Domains = {}
  /\ Blobs \cap (Listed \cup Domains) = {} /\ Tasks \in Domains
  /\ Absent \notin Nat /\ Keep \in Nat \ {0} /\ MaxEdits \in Nat

Content == Nat \cup {Absent}
Directories == [disk : [Items -> Content], marker : BOOLEAN, whole : BOOLEAN,
                gone : BOOLEAN, moment : BOOLEAN]
Exports == [pc : {"off", "listed", "domains", "blobs", "manifest", "rows", "verify"},
            todo : SUBSET Items, manifest : [Items -> Content], again : [Items -> Content],
            wrong : BOOLEAN]

\* What is stored now, at most edits writes after the beginning.
Bounded(content) == \A i \in Items : content[i] # Absent => content[i] <= edits

Types ==
  /\ cloud \in [Items -> Content] /\ Bounded(cloud)
  /\ snapshots \in Seq(Directories)
  /\ \A n \in 1 .. Len(snapshots) : Bounded(snapshots[n].disk)
  /\ export \in Exports /\ Bounded(export.manifest) /\ Bounded(export.again)
  /\ edits \in Nat /\ (edits = 0 \/ edits <= MaxEdits)
  /\ \A d \in Domains : cloud[d] # Absent

\* b is what a was, or what became of it.
Older(a, b) == a # Absent => b # Absent /\ a <= b

\* What is on the disk of an attachment is right while the tasks are what they were.
BlobsFollowTasks(now) ==
  \A b \in Blobs : now[Tasks] = Disk[Tasks] => Disk[b] = now[b]

\* What the last list of attachments is worth.
ListFollowsTasks ==
  /\ Disk[Tasks] = export.again[Tasks]
  /\ cloud[Tasks] = export.again[Tasks] => \A b \in Blobs : cloud[b] = export.again[b]

\* How far an export has come, unless something was wrong.
ListedPulled == \A i \in Listed : Disk[i] = export.manifest[i]

Progress ==
  /\ export.pc = "listed" =>
       /\ \A i \in Listed : i \notin export.todo => Disk[i] = export.manifest[i]
       /\ \A b \in Blobs : Disk[b] = Absent
       /\ export.todo \subseteq Listed
  /\ export.pc = "domains" =>
       /\ ListedPulled /\ export.todo \subseteq Domains
       /\ \A b \in Blobs : Disk[b] = Absent
       /\ Tasks \notin export.todo => ListFollowsTasks
  /\ export.pc = "blobs" =>
       /\ ListedPulled /\ export.todo \subseteq Blobs /\ ListFollowsTasks
       /\ \A b \in Blobs :
            /\ b \in export.todo => export.again[b] # Absent
            /\ b \notin export.todo /\ cloud[Tasks] = Disk[Tasks] => Disk[b] = cloud[b]
  /\ export.pc = "manifest" => ListedPulled /\ BlobsFollowTasks(cloud)
  /\ export.pc \in {"rows", "verify"} =>
       /\ export.again \in past
       /\ \A i \in Items \ Blobs : Older(Disk[i], export.again[i]) /\ Older(export.again[i], cloud[i])
       /\ BlobsFollowTasks(export.again)
       /\ \A i \in Files : Disk[i] = export.again[i]
  /\ export.pc = "rows" =>
       /\ export.todo \subseteq Rows
       /\ \A i \in Rows : i \notin export.todo => Disk[i] = export.again[i]
  /\ export.pc = "verify" =>
       /\ export.todo \subseteq Domains
       /\ \A i \in Rows : Disk[i] = export.again[i]
       /\ \A i \in Domains : i \notin export.todo => Disk[i] = export.again[i]

Exporting ==
  export.pc # "off" =>
    /\ Len(snapshots) > 0
    /\ snapshots[Len(snapshots)].whole /\ ~snapshots[Len(snapshots)].marker
    /\ ~snapshots[Len(snapshots)].gone
    /\ cloud \in past
    /\ \A i \in Listed : Older(export.manifest[i], cloud[i])
    /\ \A i \in Items \ Blobs : Older(Disk[i], cloud[i])
    /\ ~export.wrong => Progress

\* The newer directories that stand: marked, whole, and not being removed.
Standing(n) == {k \in Marked : k > n /\ snapshots[k].whole /\ k \notin prune}

Safe ==
  /\ prune \subseteq 1 .. Len(snapshots)
  /\ \A n \in prune : snapshots[n].whole => snapshots[n].marker
  /\ \A n \in 1 .. Len(snapshots) :
       n \in prune \/ ~snapshots[n].whole => Cardinality(Standing(n)) >= Keep

SnapshotInv == Types /\ Exporting /\ Safe /\ VerifiedIsMoment

-----------------------------------------------------------------------------
(***************************************************************************)
(* The directories.                                                        *)
(***************************************************************************)
\* A directory is found by its number.
LEMMA DirectoryFacts ==
  ASSUME Types
  PROVE  /\ Len(snapshots) \in Nat /\ DOMAIN snapshots = 1 .. Len(snapshots)
         /\ \A n \in 1 .. Len(snapshots) :
              snapshots[n] \in Directories /\ snapshots[n].disk \in [Items -> Content]
  <1>1. snapshots \in Seq(Directories)
    BY DEF Types
  <1>2. \A n \in 1 .. Len(snapshots) : snapshots[n] \in Directories
    BY <1>1, ElementOfSeq
  <1> QED BY <1>1, <1>2, LenProperties DEF Directories

\* The directories that are marked, or that stand beside n, are finite in number.
LEMMA MarkedFinite ==
  ASSUME Types, NEW S, S \subseteq Marked
  PROVE  IsFiniteSet(S) /\ Cardinality(S) \in Nat
  <1>1. S \subseteq 1 .. Len(snapshots) /\ IsFiniteSet(1 .. Len(snapshots))
    BY DirectoryFacts, FS_Interval DEF Marked
  <1> QED BY <1>1, FS_Subset, FS_CardinalityType

\* Of two such sets the smaller one has no more of them.
LEMMA MarkedCount ==
  ASSUME Types, NEW S, NEW T, S \subseteq T, T \subseteq Marked
  PROVE  Cardinality(S) <= Cardinality(T)
  BY MarkedFinite, FS_Subset

\* A step that changes contents only keeps what the marks say.
LEMMA SameMarks ==
  ASSUME Types, Safe, VerifiedIsMoment, prune' = prune,
         DOMAIN snapshots' = DOMAIN snapshots, Len(snapshots') = Len(snapshots),
         \A n \in 1 .. Len(snapshots) :
           /\ snapshots'[n].marker = snapshots[n].marker
           /\ snapshots'[n].whole = snapshots[n].whole
           /\ snapshots'[n].gone = snapshots[n].gone
           /\ snapshots'[n].moment = snapshots[n].moment
  PROVE  Safe' /\ VerifiedIsMoment'
  <1>1. DOMAIN snapshots = 1 .. Len(snapshots)
    BY DirectoryFacts
  <1>2. Marked' = Marked
    BY <1>1 DEF Marked
  <1>3. Marked \subseteq 1 .. Len(snapshots)
    BY <1>1 DEF Marked
  <1>4. \A n \in 1 .. Len(snapshots) : Standing(n)' = Standing(n)
    BY <1>2, <1>3 DEF Standing
  <1>5. Safe'
    BY <1>4 DEF Safe
  <1> QED BY <1>1, <1>5 DEF VerifiedIsMoment

\* The directory that is being written is not being removed.
LEMMA LastStands ==
  ASSUME SnapshotAssumption, Types, Safe
  PROVE  Len(snapshots) \notin prune
  <1>1. SUFFICES ASSUME Len(snapshots) \in prune PROVE FALSE
    OBVIOUS
  <1>2. Marked \subseteq 1 .. Len(snapshots) /\ Len(snapshots) \in Nat
    BY DirectoryFacts DEF Marked
  <1>3. Standing(Len(snapshots)) = {}
    <2>1. \A k \in Marked : ~(k > Len(snapshots))
      BY <1>2
    <2> QED BY <2>1 DEF Standing
  <1>4. Cardinality(Standing(Len(snapshots))) >= Keep
    BY <1>1 DEF Safe
  <1> QED BY <1>3, <1>4, FS_EmptySet DEF SnapshotAssumption

\* Writing one item of the last directory.
LEMMA Writing ==
  ASSUME Types, Len(snapshots) > 0, NEW i \in Items, NEW c \in Content,
         c # Absent => c <= edits, snapshots' = OnDisk(i, c), edits' = edits
  PROVE  /\ snapshots' \in Seq(Directories) /\ Len(snapshots') = Len(snapshots)
         /\ \A n \in 1 .. Len(snapshots') : Bounded(snapshots[n].disk)'
         /\ \A n \in 1 .. Len(snapshots) :
              /\ snapshots'[n].marker = snapshots[n].marker
              /\ snapshots'[n].whole = snapshots[n].whole
              /\ snapshots'[n].gone = snapshots[n].gone
              /\ snapshots'[n].moment = snapshots[n].moment
         /\ Disk' = [Disk EXCEPT ![i] = c]
  <1> DEFINE L == Len(snapshots)
             d == [snapshots[L] EXCEPT !.disk[i] = c]
  <1>1. /\ L \in Nat /\ L \in 1 .. L
        /\ \A n \in 1 .. L : snapshots[n] \in Directories
    BY DirectoryFacts
  <1>2. /\ d \in Directories /\ d.disk = [snapshots[L].disk EXCEPT ![i] = c]
        /\ d.marker = snapshots[L].marker /\ d.whole = snapshots[L].whole
        /\ d.gone = snapshots[L].gone /\ d.moment = snapshots[L].moment
    BY <1>1 DEF Directories
  <1>3. snapshots' = [snapshots EXCEPT ![L] = d]
    BY DEF OnDisk
  <1> HIDE DEF d
  <1>4. snapshots \in Seq(Directories)
    BY DEF Types
  <1>5. /\ snapshots' \in Seq(Directories) /\ Len(snapshots') = L
        /\ \A n \in 1 .. L : snapshots'[n] = IF n = L THEN d ELSE snapshots[n]
    BY <1>1, <1>2, <1>3, <1>4, ExceptSeq
  <1>6. Disk' = [Disk EXCEPT ![i] = c]
    BY <1>1, <1>2, <1>5 DEF Disk
  <1>7. \A n \in 1 .. L : Bounded(snapshots[n].disk)'
    <2> SUFFICES ASSUME NEW n \in 1 .. L PROVE Bounded(snapshots[n].disk)'
      OBVIOUS
    <2>1. Bounded(snapshots[n].disk) /\ snapshots[n].disk \in [Items -> Content]
      BY DirectoryFacts DEF Types
    <2>2. CASE n # L
      BY <1>5, <2>1, <2>2 DEF Bounded
    <2>3. CASE n = L
      BY <1>2, <1>5, <2>1, <2>3 DEF Bounded
    <2> QED BY <2>2, <2>3
  <1> QED BY <1>1, <1>2, <1>5, <1>6, <1>7

-----------------------------------------------------------------------------
(***************************************************************************)
(* The pull and the verification.                                          *)
(***************************************************************************)
\* What is common to them: one item of the last directory is written, if any.
LEMMA ExportSteps ==
  ASSUME SnapshotAssumption, SnapshotInv, export.pc # "off",
         UNCHANGED <<cloud, prune, past, edits>>,
         \/ snapshots' = snapshots
         \/ \E i \in Items : snapshots' = OnDisk(i, cloud[i]),
         export' \in Exports, Bounded(export.manifest)', Bounded(export.again)',
         export'.pc # "off" => export'.manifest = export.manifest,
         export'.pc # "off" /\ ~export'.wrong => Progress'
  PROVE  SnapshotInv'
  <1> USE DEF SnapshotInv
  <1>1. Len(snapshots) > 0 /\ Len(snapshots) \in Nat /\ DOMAIN snapshots = 1 .. Len(snapshots)
    BY DirectoryFacts DEF Exporting
  <1> DEFINE OneWritten ==
               /\ snapshots' \in Seq(Directories) /\ Len(snapshots') = Len(snapshots)
               /\ \A n \in 1 .. Len(snapshots') : Bounded(snapshots[n].disk)'
               /\ \A n \in 1 .. Len(snapshots) :
                    /\ snapshots'[n].marker = snapshots[n].marker
                    /\ snapshots'[n].whole = snapshots[n].whole
                    /\ snapshots'[n].gone = snapshots[n].gone
                    /\ snapshots'[n].moment = snapshots[n].moment
               /\ Disk' = Disk \/ \E i \in Items : Disk' = [Disk EXCEPT ![i] = cloud[i]]
  <1>2. OneWritten
    <2>1. CASE snapshots' = snapshots
      BY <2>1 DEF Types, Bounded, Disk
    <2>2. ASSUME NEW i \in Items, snapshots' = OnDisk(i, cloud[i])
          PROVE  OneWritten
      <3>1. cloud[i] \in Content /\ (cloud[i] # Absent => cloud[i] <= edits)
        BY DEF Types, Bounded
      <3> QED BY <1>1, <2>2, <3>1, Writing
    <2> QED BY <2>1, <2>2
  <1>3. DOMAIN snapshots' = DOMAIN snapshots
    BY <1>1, <1>2, LenProperties
  <1>4. Safe' /\ VerifiedIsMoment'
    BY <1>2, <1>3, SameMarks
  <1>5. Types'
    BY <1>2 DEF Types, Bounded
  <1>6. \A i \in Items \ Blobs : Older(Disk[i], cloud[i])'
    <2>1. \A i \in Items \ Blobs : Older(Disk[i], cloud[i])
      BY DEF Exporting
    <2>2. \A i \in Items : cloud[i] \in Content /\ (cloud[i] # Absent => cloud[i] <= cloud[i])
      BY DEF Types, Content
    <2>3. Disk \in [Items -> Content]
      BY <1>1, DirectoryFacts DEF Disk
    <2> QED BY <1>2, <2>1, <2>2, <2>3 DEF Older
  <1>7. Exporting'
    <2>1. Len(snapshots) \in 1 .. Len(snapshots)
      BY <1>1
    <2> QED BY <1>1, <1>2, <1>6, <2>1 DEF Exporting
  <1> QED BY <1>4, <1>5, <1>7

\* The disk of the directory that is being written.
LEMMA DiskFacts ==
  ASSUME Types, Exporting, export.pc # "off"
  PROVE  Disk \in [Items -> Content] /\ Bounded(Disk)
  BY DirectoryFacts DEF Types, Exporting, Disk

\* An item written is found as it was written; the others are as they were.
LEMMA DiskWritten ==
  ASSUME Types, Exporting, export.pc # "off", NEW i \in Items,
         snapshots' = OnDisk(i, cloud[i]), edits' = edits
  PROVE  \A k \in Items : Disk'[k] = IF k = i THEN cloud[i] ELSE Disk[k]
  <1>1. cloud[i] \in Content /\ (cloud[i] # Absent => cloud[i] <= edits)
    BY DEF Types, Bounded
  <1>2. Disk' = [Disk EXCEPT ![i] = cloud[i]]
    BY <1>1, Writing DEF Exporting
  <1> QED BY <1>2, DiskFacts

\* A row or a file is written as the manifest has it, or the run is wrong.
LEMMA PullListedInv ==
  ASSUME SnapshotAssumption, SnapshotInv, PullListed
  PROVE  SnapshotInv'
  <1> USE DEF SnapshotInv
  <1>1. PICK i \in export.todo, ok \in BOOLEAN :
          LET right == ok /\ cloud[i] = export.manifest[i]
          IN  /\ snapshots' = IF right THEN OnDisk(i, cloud[i]) ELSE snapshots
              /\ export' = [export EXCEPT !.todo = @ \ {i}, !.wrong = @ \/ ~right]
    BY DEF PullListed
  <1> DEFINE right == ok /\ cloud[i] = export.manifest[i]
  <1>2. /\ export \in Exports /\ export.pc = "listed" /\ i \in Items
        /\ UNCHANGED <<cloud, prune, past, edits>>
        /\ (export.manifest)' = export.manifest /\ (export.again)' = export.again
    BY <1>1 DEF PullListed, Types, Exports
  <1>3. /\ export' \in Exports /\ export'.pc = "listed"
        /\ export'.todo = export.todo \ {i}
        /\ (~export'.wrong => ~export.wrong /\ right)
    BY <1>1, <1>2 DEF Exports
  <1>4. Bounded(export.manifest)' /\ Bounded(export.again)'
    BY <1>2 DEF Types, Bounded
  <1>5. ASSUME ~export'.wrong PROVE Progress'
    <2>1. /\ \A k \in Listed : k \notin export.todo => Disk[k] = export.manifest[k]
          /\ \A b \in Blobs : Disk[b] = Absent
          /\ export.todo \subseteq Listed
      BY <1>2, <1>3, <1>5 DEF Exporting, Progress
    <2>2. snapshots' = OnDisk(i, cloud[i]) /\ cloud[i] = export.manifest[i]
      BY <1>1, <1>3, <1>5
    <2>3. \A k \in Items : Disk'[k] = IF k = i THEN cloud[i] ELSE Disk[k]
      BY <1>2, <2>2, DiskWritten
    <2>4. Listed \subseteq Items /\ Blobs \subseteq Items /\ i \notin Blobs
      BY <2>1 DEF Items, SnapshotAssumption
    <2>5. /\ \A k \in Listed : k \notin export'.todo => Disk'[k] = export'.manifest[k]
          /\ \A b \in Blobs : Disk'[b] = Absent
          /\ export'.todo \subseteq Listed
      BY <1>2, <1>3, <2>1, <2>2, <2>3, <2>4
    <2> QED BY <1>3, <2>5 DEF Progress
  <1>6. snapshots' = snapshots \/ \E k \in Items : snapshots' = OnDisk(k, cloud[k])
    BY <1>1, <1>2
  <1> QED BY <1>2, <1>3, <1>4, <1>5, <1>6, ExportSteps

\* A list is written as it is now, the attachments' together with what it lists.
LEMMA PullDomainInv ==
  ASSUME SnapshotAssumption, SnapshotInv, PullDomain
  PROVE  SnapshotInv'
  <1> USE DEF SnapshotInv
  <1>1. PICK i \in export.todo, ok \in BOOLEAN :
          /\ snapshots' = IF ok THEN OnDisk(i, cloud[i]) ELSE snapshots
          /\ export' = IF ~ok THEN Off
                       ELSE [export EXCEPT !.todo = @ \ {i},
                                           !.again = IF i = Tasks THEN cloud ELSE @]
    BY DEF PullDomain
  <1>2. /\ export \in Exports /\ export.pc = "domains" /\ i \in Items
        /\ UNCHANGED <<cloud, prune, past, edits>>
    BY <1>1 DEF PullDomain, Types, Exports
  <1>3. snapshots' = snapshots \/ \E k \in Items : snapshots' = OnDisk(k, cloud[k])
    BY <1>1, <1>2
  <1>4. CASE ~ok
    <2>1. /\ export' = Off /\ Off \in Exports
      BY <1>1, <1>4 DEF Off, Exports, Nothing, Content
    <2>2. Bounded(export.manifest)' /\ Bounded(export.again)'
      BY <2>1 DEF Bounded, Off, Nothing
    <2> QED BY <1>2, <1>3, <2>1, <2>2, ExportSteps DEF Off
  <1>5. CASE ok
    <2>1. /\ snapshots' = OnDisk(i, cloud[i])
          /\ export' = [export EXCEPT !.todo = @ \ {i},
                                      !.again = IF i = Tasks THEN cloud ELSE @]
      BY <1>1, <1>5
    <2>2. /\ export' \in Exports /\ export'.pc = "domains"
          /\ export'.todo = export.todo \ {i} /\ export'.manifest = export.manifest
          /\ export'.again = IF i = Tasks THEN cloud ELSE export.again
          /\ export'.wrong = export.wrong
      BY <1>2, <2>1 DEF Exports, Types
    <2>3. Bounded(export.manifest)' /\ Bounded(export.again)'
      BY <1>2, <2>2 DEF Types, Bounded
    <2>4. ASSUME ~export'.wrong PROVE Progress'
      <3>1. /\ ListedPulled /\ export.todo \subseteq Domains
            /\ \A b \in Blobs : Disk[b] = Absent
            /\ Tasks \notin export.todo => ListFollowsTasks
        BY <1>2, <2>2, <2>4 DEF Exporting, Progress
      <3>2. \A k \in Items : Disk'[k] = IF k = i THEN cloud[i] ELSE Disk[k]
        BY <1>2, <2>1, DiskWritten
      <3>3. /\ Listed \subseteq Items /\ Blobs \subseteq Items /\ Tasks \in Items
            /\ i \notin Blobs /\ i \notin Listed
        BY <3>1 DEF Items, SnapshotAssumption
      <3>4. ListedPulled' /\ \A b \in Blobs : Disk'[b] = Absent
        BY <2>2, <3>1, <3>2, <3>3 DEF ListedPulled
      <3>5. ASSUME Tasks \notin export'.todo PROVE ListFollowsTasks'
        BY <1>2, <2>2, <3>1, <3>2, <3>3, <3>5 DEF ListFollowsTasks
      <3> QED BY <2>2, <3>1, <3>4, <3>5 DEF Progress
    <2> QED BY <1>2, <1>3, <2>2, <2>3, <2>4, ExportSteps
  <1> QED BY <1>4, <1>5

\* An attachment is written as it is now.
LEMMA PullBlobInv ==
  ASSUME SnapshotAssumption, SnapshotInv, PullBlob
  PROVE  SnapshotInv'
  <1> USE DEF SnapshotInv
  <1>1. PICK i \in export.todo, ok \in BOOLEAN :
          LET there == ok /\ cloud[i] # Absent
          IN  /\ snapshots' = IF there THEN OnDisk(i, cloud[i]) ELSE snapshots
              /\ export' = [export EXCEPT !.todo = @ \ {i}, !.wrong = @ \/ ~there]
    BY DEF PullBlob
  <1> DEFINE there == ok /\ cloud[i] # Absent
  <1>2. /\ export \in Exports /\ export.pc = "blobs" /\ i \in Items
        /\ UNCHANGED <<cloud, prune, past, edits>>
    BY <1>1 DEF PullBlob, Types, Exports
  <1>3. /\ export' \in Exports /\ export'.pc = "blobs"
        /\ export'.todo = export.todo \ {i} /\ export'.manifest = export.manifest
        /\ export'.again = export.again
        /\ (~export'.wrong => ~export.wrong /\ there)
    BY <1>1, <1>2 DEF Exports
  <1>4. Bounded(export.manifest)' /\ Bounded(export.again)'
    BY <1>2, <1>3 DEF Types, Bounded
  <1>5. ASSUME ~export'.wrong PROVE Progress'
    <2>1. /\ ListedPulled /\ export.todo \subseteq Blobs /\ ListFollowsTasks
          /\ \A b \in Blobs :
               /\ b \in export.todo => export.again[b] # Absent
               /\ b \notin export.todo /\ cloud[Tasks] = Disk[Tasks] => Disk[b] = cloud[b]
      BY <1>2, <1>3, <1>5 DEF Exporting, Progress
    <2>2. snapshots' = OnDisk(i, cloud[i])
      BY <1>1, <1>3, <1>5
    <2>3. \A k \in Items : Disk'[k] = IF k = i THEN cloud[i] ELSE Disk[k]
      BY <1>2, <2>2, DiskWritten
    <2>4. /\ Listed \subseteq Items /\ Blobs \subseteq Items /\ Tasks \in Items
          /\ i \in Blobs /\ i \notin Listed /\ i # Tasks
      BY <1>1, <2>1 DEF Items, SnapshotAssumption
    <2>5. ListedPulled' /\ ListFollowsTasks'
      BY <1>2, <1>3, <2>1, <2>3, <2>4 DEF ListedPulled, ListFollowsTasks
    <2>6. \A b \in Blobs :
            /\ b \in export'.todo => export'.again[b] # Absent
            /\ b \notin export'.todo /\ cloud'[Tasks] = Disk'[Tasks] => Disk'[b] = cloud'[b]
      BY <1>2, <1>3, <2>1, <2>3, <2>4
    <2> QED BY <1>3, <2>1, <2>5, <2>6 DEF Progress
  <1>6. snapshots' = snapshots \/ \E k \in Items : snapshots' = OnDisk(k, cloud[k])
    BY <1>1, <1>2
  <1> QED BY <1>2, <1>3, <1>4, <1>5, <1>6, ExportSteps

\* From here on the disk is compared with what the cloud holds now; a file that is not
\* there now was not there before.
LEMMA FetchManifestAgainInv ==
  ASSUME SnapshotAssumption, SnapshotInv, FetchManifestAgain
  PROVE  SnapshotInv'
  <1> USE DEF SnapshotInv
  <1>1. PICK ok \in BOOLEAN, same \in BOOLEAN :
          /\ same => \A i \in Present(Files) : Disk[i] = cloud[i]
          /\ export' = [export EXCEPT !.pc = "rows", !.again = cloud,
                          !.todo = IF ok THEN Present(Rows) ELSE {},
                          !.wrong = @ \/ ~ok \/ ~same]
    BY DEF FetchManifestAgain
  <1>2. /\ export \in Exports /\ export.pc = "manifest" /\ Present(Rows) \subseteq Items
        /\ UNCHANGED <<cloud, snapshots, prune, past, edits>> /\ cloud \in [Items -> Content]
    BY DEF FetchManifestAgain, Types, Present, Items, Listed
  <1>3. /\ export' \in Exports /\ export'.pc = "rows" /\ export'.manifest = export.manifest
        /\ export'.again = cloud
        /\ (~export'.wrong => ~export.wrong /\ ok /\ same /\ export'.todo = Present(Rows))
    BY <1>1, <1>2 DEF Exports
  <1>4. Bounded(export.manifest)' /\ Bounded(export.again)'
    BY <1>2, <1>3 DEF Types, Bounded
  <1>5. ASSUME ~export'.wrong PROVE Progress'
    <2>1. /\ ListedPulled /\ BlobsFollowTasks(cloud) /\ cloud \in past
          /\ \A i \in Listed : Older(export.manifest[i], cloud[i])
          /\ \A i \in Items \ Blobs : Older(Disk[i], cloud[i])
      BY <1>2, <1>3, <1>5 DEF Exporting, Progress
    <2>2. Disk' = Disk
      BY <1>2 DEF Disk
    <2>3. \A i \in Listed : cloud[i] = Absent => Disk[i] = Absent
      BY <2>1 DEF ListedPulled, Older
    <2>4. \A i \in Files : Disk'[i] = export'.again[i]
      BY <1>1, <1>3, <1>5, <2>2, <2>3 DEF Present, Listed
    <2>5. \A i \in Rows : i \notin export'.todo => Disk'[i] = export'.again[i]
      BY <1>3, <1>5, <2>2, <2>3 DEF Present, Listed
    <2>6. \A i \in Items \ Blobs :
            Older(Disk[i], export.again[i])' /\ Older(export.again[i], cloud[i])'
      <3>1. \A i \in Items : cloud[i] # Absent => cloud[i] <= cloud[i]
        BY <1>2 DEF Content
      <3> QED BY <1>2, <1>3, <2>1, <2>2, <3>1 DEF Older
    <2>7. BlobsFollowTasks(export.again)'
      BY <1>3, <2>1, <2>2 DEF BlobsFollowTasks
    <2>8. export'.again \in past' /\ export'.todo \subseteq Rows
      BY <1>2, <1>3, <1>5, <2>1 DEF Present
    <2> QED BY <1>3, <2>4, <2>5, <2>6, <2>7, <2>8 DEF Progress
  <1> QED BY SMTT(30), <1>2, <1>3, <1>4, <1>5, ExportSteps

\* A row found as the manifest has it.
LEMMA FetchRowAgainInv ==
  ASSUME SnapshotAssumption, SnapshotInv, FetchRowAgain
  PROVE  SnapshotInv'
  <1> USE DEF SnapshotInv
  <1>1. PICK i \in export.todo, ok \in BOOLEAN :
          export' = [export EXCEPT
            !.todo = IF ok THEN @ \ {i} ELSE {},
            !.wrong = @ \/ ~ok \/ cloud[i] # export.again[i] \/ Disk[i] # cloud[i]]
    BY DEF FetchRowAgain
  <1>2. /\ export \in Exports /\ export.pc = "rows"
        /\ UNCHANGED <<cloud, snapshots, prune, past, edits>> /\ Disk' = Disk
    BY DEF FetchRowAgain, Types, Disk
  <1>3. /\ export' \in Exports /\ export'.pc = "rows" /\ export'.manifest = export.manifest
        /\ export'.again = export.again
        /\ (~export'.wrong => /\ ~export.wrong /\ export'.todo = export.todo \ {i}
                              /\ Disk[i] = export.again[i])
    BY <1>1, <1>2 DEF Exports
  <1>4. Bounded(export.manifest)' /\ Bounded(export.again)'
    BY <1>2, <1>3 DEF Types, Bounded
  <1>5. ASSUME ~export'.wrong PROVE Progress'
    BY <1>2, <1>3, <1>5 DEF Exporting, Progress, BlobsFollowTasks
  <1> QED BY <1>2, <1>3, <1>4, <1>5, ExportSteps

\* A list found as it was written was so when the manifest was fetched again.
LEMMA FetchDomainAgainInv ==
  ASSUME SnapshotAssumption, SnapshotInv, FetchDomainAgain
  PROVE  SnapshotInv'
  <1> USE DEF SnapshotInv
  <1>1. PICK i \in export.todo, ok \in BOOLEAN :
          export' = [export EXCEPT !.todo = @ \ {i}, !.wrong = @ \/ ~ok \/ Disk[i] # cloud[i]]
    BY DEF FetchDomainAgain
  <1>2. /\ export \in Exports /\ export.pc = "verify"
        /\ UNCHANGED <<cloud, snapshots, prune, past, edits>> /\ Disk' = Disk
    BY DEF FetchDomainAgain, Types, Disk
  <1>3. /\ export' \in Exports /\ export'.pc = "verify" /\ export'.manifest = export.manifest
        /\ export'.again = export.again /\ export'.todo = export.todo \ {i}
        /\ (~export'.wrong => ~export.wrong /\ Disk[i] = cloud[i])
    BY <1>1, <1>2 DEF Exports
  <1>4. Bounded(export.manifest)' /\ Bounded(export.again)'
    BY <1>2, <1>3 DEF Types, Bounded
  <1>5. ASSUME ~export'.wrong PROVE Progress'
    <2>1. Progress
      BY <1>2, <1>3, <1>5 DEF Exporting
    <2>2. i \in Items \ Blobs
      BY <1>1, <1>2, <2>1 DEF Progress, Items, SnapshotAssumption
    <2>3. Older(Disk[i], export.again[i]) /\ Older(export.again[i], cloud[i])
      BY <1>2, <2>1, <2>2 DEF Progress
    <2>4. Disk[i] \in Content /\ export.again[i] \in Content /\ cloud[i] \in Content
      BY <1>2, <2>2, DiskFacts DEF Types, Exports
    <2>5. Disk[i] = export.again[i]
      BY <1>3, <1>5, <2>3, <2>4 DEF Older, Content, SnapshotAssumption
    <2> QED BY <1>2, <1>3, <2>1, <2>5 DEF Progress, BlobsFollowTasks
  <1> QED BY <1>2, <1>3, <1>4, <1>5, ExportSteps

\* The attachments to pull are those listed; the others are not there, now or on the disk.
LEMMA NextPartInv ==
  ASSUME SnapshotAssumption, SnapshotInv, NextPart
  PROVE  SnapshotInv'
  <1> USE DEF SnapshotInv
  <1>1. /\ export \in Exports /\ export.todo = {}
        /\ export.pc \in {"listed", "domains", "blobs", "rows"}
        /\ UNCHANGED <<cloud, snapshots, prune, past, edits>> /\ Disk' = Disk
        /\ Domains \subseteq Items /\ Blobs \subseteq Items
    BY DEF NextPart, Types, Disk, Items
  <1>2. /\ export'.manifest = export.manifest /\ export'.again = export.again
        /\ export'.wrong = export.wrong /\ export' \in Exports /\ export'.pc # "off"
        /\ export.pc = "listed" => export'.pc = "domains" /\ export'.todo = Domains
        /\ export.pc = "domains" =>
             export'.pc = "blobs" /\ export'.todo = {b \in Blobs : export.again[b] # Absent}
        /\ export.pc = "blobs" => export'.pc = "manifest" /\ export'.todo = {}
        /\ export.pc = "rows" => export'.pc = "verify" /\ export'.todo = Domains
    <2> DEFINE blobs == {b \in Blobs : export.again[b] # Absent}
    <2>1. blobs \in SUBSET Items
      BY <1>1
    <2> HIDE DEF blobs
    <2>2. /\ export.pc = "listed" => export' = [export EXCEPT !.pc = "domains", !.todo = Domains]
          /\ export.pc = "domains" => export' = [export EXCEPT !.pc = "blobs", !.todo = blobs]
          /\ export.pc = "blobs" => export' = [export EXCEPT !.pc = "manifest", !.todo = {}]
          /\ export.pc = "rows" => export' = [export EXCEPT !.pc = "verify", !.todo = Domains]
      BY <1>1 DEF NextPart, blobs
    <2>3. CASE export.pc = "listed"
      BY <1>1, <2>2, <2>3 DEF Exports
    <2>4. CASE export.pc = "domains"
      <3>1. export' = [export EXCEPT !.pc = "blobs", !.todo = blobs]
        BY <2>2, <2>4
      <3>2. export' \in Exports /\ export'.pc = "blobs" /\ export'.todo = blobs
            /\ export'.manifest = export.manifest /\ export'.again = export.again
            /\ export'.wrong = export.wrong
        BY <1>1, <2>1, <3>1 DEF Exports
      <3> QED BY <2>4, <3>2 DEF blobs
    <2>5. CASE export.pc = "blobs"
      BY <1>1, <2>2, <2>5 DEF Exports
    <2>6. CASE export.pc = "rows"
      BY <1>1, <2>2, <2>6 DEF Exports
    <2> QED BY <1>1, <2>3, <2>4, <2>5, <2>6
  <1>3. Bounded(export.manifest)' /\ Bounded(export.again)'
    BY <1>1, <1>2 DEF Types, Bounded
  <1>4. ASSUME ~export'.wrong PROVE Progress'
    <2>1. Progress
      BY <1>1, <1>2, <1>4 DEF Exporting
    <2>2. ListedPulled => ListedPulled'
      BY <1>1, <1>2 DEF ListedPulled
    <2>3. ListFollowsTasks => ListFollowsTasks'
      BY <1>1, <1>2 DEF ListFollowsTasks
    <2>4. CASE export.pc = "listed"
      <3>1. ListedPulled
        BY <1>1, <2>1, <2>4 DEF Progress, ListedPulled
      <3> QED BY <1>1, <1>2, <2>1, <2>2, <2>4, <3>1 DEF Progress, SnapshotAssumption
    <2>5. CASE export.pc = "domains"
      <3>1. ListedPulled /\ ListFollowsTasks /\ \A b \in Blobs : Disk[b] = Absent
        BY <1>1, <2>1, <2>5 DEF Progress
      <3>2. \A b \in Blobs : b \notin export'.todo /\ cloud[Tasks] = Disk[Tasks] => Disk[b] = cloud[b]
        BY <1>2, <2>5, <3>1 DEF ListFollowsTasks
      <3> QED BY <1>1, <1>2, <2>2, <2>3, <2>5, <3>1, <3>2 DEF Progress
    <2>6. CASE export.pc = "blobs"
      <3>1. ListedPulled /\ BlobsFollowTasks(cloud)
        BY <1>1, <2>1, <2>6 DEF Progress, BlobsFollowTasks
      <3>2. BlobsFollowTasks(cloud)'
        BY <1>1, <3>1 DEF BlobsFollowTasks
      <3> QED BY <1>2, <2>2, <2>6, <3>1, <3>2 DEF Progress
    <2>7. CASE export.pc = "rows"
      BY <1>1, <1>2, <2>1, <2>7 DEF Progress, BlobsFollowTasks
    <2> QED BY <1>1, <2>4, <2>5, <2>6, <2>7
  <1> QED BY <1>1, <1>2, <1>3, <1>4, ExportSteps

\* When all was compared, the disk is the cloud of the moment of the manifest.
LEMMA DiskIsMoment ==
  ASSUME SnapshotAssumption, SnapshotInv, export.pc = "verify", export.todo = {}, ~export.wrong
  PROVE  Disk \in past
  <1>1. Types /\ Exporting /\ Progress
    BY DEF SnapshotInv, Exporting
  <1>2. Disk \in [Items -> Content] /\ export.again \in [Items -> Content]
    BY <1>1, DiskFacts DEF Types, Exports
  <1>3. \A i \in Rows \cup Files \cup Domains : Disk[i] = export.again[i]
    BY <1>1 DEF Progress
  <1>4. \A b \in Blobs : Disk[b] = export.again[b]
    BY <1>1, <1>3 DEF Progress, BlobsFollowTasks, SnapshotAssumption
  <1>5. Disk = export.again
    BY <1>2, <1>3, <1>4 DEF Items, Listed
  <1> QED BY <1>1, <1>5 DEF Progress

\* The marker adds a directory to those that stand.
LEMMA MarkVerifiedInv ==
  ASSUME SnapshotAssumption, SnapshotInv, MarkVerified
  PROVE  SnapshotInv'
  <1> DEFINE L == Len(snapshots)
             then == Disk \in past
             d == [snapshots[L] EXCEPT !.marker = ~export.wrong, !.moment = then]
  <1>1. /\ Types /\ Exporting /\ Safe /\ VerifiedIsMoment
        /\ export.pc = "verify" /\ export.todo = {} /\ export' = Off /\ export \in Exports
        /\ UNCHANGED <<cloud, prune, past, edits>>
    BY DEF SnapshotInv, MarkVerified, Types
  <1>2. /\ L \in Nat /\ L \in 1 .. L /\ DOMAIN snapshots = 1 .. L
        /\ \A n \in 1 .. L : snapshots[n] \in Directories
        /\ snapshots \in Seq(Directories)
    BY <1>1, DirectoryFacts DEF Exporting, Types
  <1>3. snapshots' = [snapshots EXCEPT ![L] = d]
    BY DEF MarkVerified
  <1>4. /\ d \in Directories /\ d.marker = ~export.wrong /\ d.moment = then
        /\ d.disk = snapshots[L].disk /\ d.whole = snapshots[L].whole
        /\ d.gone = snapshots[L].gone
    <2>1. then \in BOOLEAN
      OBVIOUS
    <2> HIDE DEF then
    <2> QED BY <1>1, <1>2, <2>1 DEF Directories, Exports
  <1> HIDE DEF d
  <1>5. /\ snapshots' \in Seq(Directories) /\ Len(snapshots') = L
        /\ \A n \in 1 .. L : snapshots'[n] = IF n = L THEN d ELSE snapshots[n]
    BY <1>2, <1>3, <1>4, ExceptSeq
  <1>6. DOMAIN snapshots' = 1 .. L
    BY <1>5, LenProperties
  <1>7. Types'
    <2>1. Off \in Exports /\ Bounded(export.manifest)' /\ Bounded(export.again)'
      BY <1>1 DEF Off, Exports, Nothing, Content, Bounded
    <2>2. \A n \in 1 .. L : snapshots'[n].disk = snapshots[n].disk
      BY <1>4, <1>5
    <2>3. \A n \in 1 .. Len(snapshots') : Bounded(snapshots[n].disk)'
      BY <1>1, <1>5, <2>2 DEF Types, Bounded
    <2> QED BY <1>1, <1>5, <2>1, <2>3 DEF Types, Bounded
  <1>8. VerifiedIsMoment'
    <2>1. d.marker => d.moment
      BY <1>1, <1>4, DiskIsMoment
    <2> QED BY <1>1, <1>2, <1>5, <1>6, <2>1 DEF VerifiedIsMoment
  <1>9. Safe'
    <2>1. L \notin prune /\ snapshots[L].whole /\ ~snapshots[L].gone /\ ~snapshots[L].marker
      BY <1>1, LastStands DEF Exporting
    <2>2. Marked \subseteq Marked' /\ Marked' \subseteq 1 .. L
      BY <1>2, <1>5, <1>6, <2>1 DEF Marked
    <2>3. \A k \in 1 .. L : snapshots'[k].whole = snapshots[k].whole
      BY <1>4, <1>5
    <2>4. ASSUME NEW n \in 1 .. L, n \in prune \/ ~snapshots'[n].whole
          PROVE  Cardinality(Standing(n)') >= Keep
      <3>1. Cardinality(Standing(n)) >= Keep
        BY <1>1, <2>3, <2>4 DEF Safe
      <3>2. Standing(n) \subseteq Standing(n)' /\ Standing(n) \subseteq Marked
        BY <1>1, <1>2, <2>2, <2>3 DEF Standing, Marked
      <3>3. IsFiniteSet(Standing(n)') /\ Cardinality(Standing(n)') \in Nat
        <4>1. Standing(n)' \subseteq 1 .. L
          BY <2>2 DEF Standing
        <4>2. IsFiniteSet(1 .. L)
          BY <1>2, FS_Interval
        <4>3. IsFiniteSet(Standing(n)')
          BY <4>1, <4>2, FS_Subset
        <4> QED BY <4>3, FS_CardinalityType
      <3>4. Cardinality(Standing(n)) <= Cardinality(Standing(n)') /\ Cardinality(Standing(n)) \in Nat
        BY <1>1, <3>2, <3>3, FS_Subset, MarkedFinite
      <3> QED BY <3>1, <3>3, <3>4 DEF SnapshotAssumption
    <2>5. \A n \in prune : snapshots'[n].whole => snapshots'[n].marker
      BY <1>1, <1>5, <2>1 DEF Safe
    <2> QED BY <1>1, <1>5, <2>4, <2>5 DEF Safe
  <1>10. Exporting'
    BY <1>1 DEF Exporting, Off
  <1> QED BY <1>7, <1>8, <1>9, <1>10 DEF SnapshotInv

\* A killed export leaves its directory without a marker.
LEMMA ExportKilledInv ==
  ASSUME SnapshotAssumption, SnapshotInv, ExportKilled
  PROVE  SnapshotInv'
  <1>1. /\ export' = Off /\ Off \in Exports /\ export.pc # "off"
        /\ UNCHANGED <<cloud, snapshots, prune, past, edits>>
    BY DEF ExportKilled, Off, Exports, Nothing, Content
  <1>2. Bounded(export.manifest)' /\ Bounded(export.again)'
    BY <1>1 DEF Bounded, Off, Nothing
  <1> QED BY <1>1, <1>2, ExportSteps DEF Off

\* An export begins with an empty directory.
LEMMA CreateSnapshotDirInv ==
  ASSUME SnapshotAssumption, SnapshotInv, CreateSnapshotDir
  PROVE  SnapshotInv'
  <1> DEFINE L == Len(snapshots)
  <1>1. /\ Types /\ Exporting /\ Safe /\ VerifiedIsMoment
        /\ UNCHANGED <<cloud, prune, edits>> /\ past' = {cloud}
        /\ cloud \in [Items -> Content]
    BY DEF SnapshotInv, CreateSnapshotDir, Types
  <1>2. /\ L \in Nat /\ DOMAIN snapshots = 1 .. L /\ snapshots \in Seq(Directories)
    BY <1>1, DirectoryFacts DEF Types
  <1>3. Directory(Nothing) \in Directories
    BY DEF Directory, Directories, Nothing, Content
  <1>4. /\ snapshots' \in Seq(Directories) /\ Len(snapshots') = L + 1
        /\ \A n \in 1 .. L : snapshots'[n] = snapshots[n]
        /\ snapshots'[L + 1] = Directory(Nothing)
    BY <1>2, <1>3, AppendProperties DEF CreateSnapshotDir
  <1>5. DOMAIN snapshots' = 1 .. L + 1
    BY <1>4, LenProperties
  <1>6. /\ export' \in Exports /\ export'.pc = "listed" /\ export'.todo = Present(Listed)
        /\ export'.manifest = cloud /\ export'.again = Nothing
    <2>1. Present(Listed) \in SUBSET Items
      BY DEF Present, Items
    <2>2. export' = [Off EXCEPT !.pc = "listed", !.todo = Present(Listed), !.manifest = cloud]
      BY DEF CreateSnapshotDir
    <2>3. Off \in Exports /\ Off.again = Nothing
      BY DEF Off, Exports, Nothing, Content
    <2> QED BY <1>1, <2>1, <2>2, <2>3 DEF Exports
  <1>7. Types'
    <2>1. Bounded(export.manifest)' /\ Bounded(export.again)'
      BY <1>1, <1>6 DEF Types, Bounded, Nothing
    <2>2. \A n \in 1 .. Len(snapshots') : Bounded(snapshots[n].disk)'
      <3> SUFFICES ASSUME NEW n \in 1 .. Len(snapshots') PROVE Bounded(snapshots[n].disk)'
        OBVIOUS
      <3>1. CASE n \in 1 .. L
        BY <1>1, <1>4, <3>1 DEF Types, Bounded
      <3>2. CASE n = L + 1
        <4>1. snapshots'[n].disk = Nothing
          BY <1>4, <3>2 DEF Directory
        <4> QED BY <4>1 DEF Bounded, Nothing
      <3> QED BY <1>2, <1>4, <3>1, <3>2
    <2> QED BY <1>1, <1>4, <1>6, <2>1, <2>2 DEF Types, Bounded
  <1>8. Exporting'
    <2>1. /\ snapshots'[Len(snapshots')] = Directory(Nothing) /\ Disk' = Nothing
          /\ Len(snapshots') > 0
      BY <1>2, <1>4 DEF Disk, Directory
    <2>2. \A i \in Items : cloud[i] # Absent => cloud[i] <= cloud[i]
      BY <1>1 DEF Content
    <2>3. /\ \A i \in Items \ Blobs : Older(Disk[i], cloud[i])'
          /\ \A i \in Listed : Older(export.manifest[i], cloud[i])'
      BY <1>1, <1>6, <2>1, <2>2 DEF Older, Nothing, Items
    <2>4. Progress'
      BY <1>6, <2>1 DEF Progress, Present, Nothing, Items
    <2> QED BY <1>1, <2>1, <2>3, <2>4 DEF Exporting, Directory
  <1>9. Marked' = Marked /\ Marked \subseteq 1 .. L
    BY <1>2, <1>4, <1>5 DEF Marked, Directory
  <1>10. VerifiedIsMoment'
    BY <1>1, <1>2, <1>4, <1>5 DEF VerifiedIsMoment, Directory
  <1>11. Safe'
    <2>1. \A n \in 1 .. L : Standing(n)' = Standing(n)
      BY <1>1, <1>4, <1>9 DEF Standing
    <2>2. \A n \in prune : n \in 1 .. L
      BY <1>1 DEF Safe
    <2>3. snapshots'[L + 1].whole
      BY <1>4 DEF Directory
    <2>4. \A n \in 1 .. L + 1 : n \in 1 .. L \/ n = L + 1
      BY <1>2
    <2>5. prune \subseteq 1 .. L + 1 /\ L + 1 \notin prune
      BY <1>2, <2>2
    <2>6. ASSUME NEW n \in 1 .. L + 1, n \in prune \/ ~snapshots'[n].whole
          PROVE  Cardinality(Standing(n)') >= Keep
      <3>1. n \in 1 .. L
        BY <2>3, <2>4, <2>5, <2>6
      <3> QED BY <1>1, <1>4, <2>1, <2>6, <3>1 DEF Safe
    <2> QED BY <1>1, <1>4, <2>2, <2>5, <2>6 DEF Safe
  <1> QED BY <1>7, <1>8, <1>10, <1>11 DEF SnapshotInv

-----------------------------------------------------------------------------
(***************************************************************************)
(* The pruning.                                                            *)
(***************************************************************************)
\* What the pruning does to the marks leaves the contents, and the directory that is
\* being written, alone.
LEMMA PruneSteps ==
  ASSUME SnapshotAssumption, SnapshotInv, UNCHANGED <<cloud, export, past, edits>>,
         snapshots' \in Seq(Directories), Len(snapshots') = Len(snapshots),
         \A n \in 1 .. Len(snapshots) :
           /\ snapshots'[n].disk = snapshots[n].disk
           /\ n \notin prune => snapshots'[n] = snapshots[n]
  PROVE  Types' /\ Exporting'
  <1>1. Types /\ Exporting /\ Safe /\ Len(snapshots) \in Nat
    BY DirectoryFacts DEF SnapshotInv
  <1>2. Types'
    BY <1>1 DEF Types, Bounded
  <1>3. Exporting'
    <2>1. CASE export.pc = "off"
      BY <2>1 DEF Exporting
    <2>2. CASE export.pc # "off"
      <3>1. Len(snapshots) \in 1 .. Len(snapshots) /\ Len(snapshots) \notin prune
        BY <1>1, <2>2, LastStands DEF Exporting
      <3>2. Disk' = Disk
        BY <3>1 DEF Disk
      <3>3. Progress => Progress'
        BY <3>2 DEF Progress, ListedPulled, ListFollowsTasks, BlobsFollowTasks
      <3> QED BY <1>1, <3>1, <3>2, <3>3 DEF Exporting
    <2> QED BY <2>1, <2>2
  <1> QED BY <1>2, <1>3

\* A nonempty finite set of directories has a newest one.
LEMMA Newest ==
  ASSUME NEW L \in Nat, NEW S \in SUBSET (1 .. L), S # {}
  PROVE  \E n \in S : \A k \in S : k <= n
  <1> DEFINE Above(n) == {k \in 1 .. L : k > n}
             R == StrictSubsetOrdering(1 .. L)
             T == {Above(n) : n \in S}
  <1>1. IsWellFoundedOn(R, FiniteSubsetsOf(1 .. L))
    BY FS_StrictSubsetOrderingWellFounded
  <1>2. T \subseteq FiniteSubsetsOf(1 .. L) /\ T # {}
    <2>1. \A n \in S : IsFiniteSet(Above(n))
      <3>1. IsFiniteSet(1 .. L)
        BY FS_Interval
      <3> QED BY <3>1, FS_Subset
    <2> QED BY <2>1 DEF FiniteSubsetsOf
  <1>3. PICK x \in T : \A y \in T : <<y, x>> \notin R
    <2> HIDE DEF R, T
    <2> QED BY <1>1, <1>2, WFMin
  <1>4. PICK n \in S : x = Above(n)
    OBVIOUS
  <1>5. SUFFICES ASSUME NEW k \in S, ~(k <= n) PROVE FALSE
    OBVIOUS
  <1>6. Above(k) \subseteq Above(n) /\ k \in Above(n) /\ k \notin Above(k)
    BY <1>5
  <1>7. <<Above(k), Above(n)>> \in R
    BY <1>6 DEF StrictSubsetOrdering
  <1> QED BY <1>3, <1>4, <1>7

\* The directories that pruning leaves are whole, and they are the newest.
LEMMA PruneStartsInv ==
  ASSUME SnapshotAssumption, SnapshotInv, PruneStarts
  PROVE  SnapshotInv'
  <1> DEFINE L == Len(snapshots)
  <1>1. /\ Types /\ Safe /\ VerifiedIsMoment /\ prune = {} /\ prune' = Deletable
        /\ UNCHANGED <<cloud, snapshots, export, past, edits>>
        /\ L \in Nat /\ DOMAIN snapshots = 1 .. L
    BY DirectoryFacts DEF SnapshotInv, PruneStarts
  <1>2. Marked' = Marked /\ Marked \subseteq 1 .. L /\ Deletable \subseteq Marked
    BY <1>1 DEF Marked, Deletable
  \* A marked directory that is not deleted is whole.
  <1>3. ASSUME NEW k \in Marked, k \notin Deletable
        PROVE  snapshots[k].whole
    <2>1. SUFFICES ASSUME ~snapshots[k].whole PROVE FALSE
      OBVIOUS
    <2>2. Cardinality(Standing(k)) >= Keep
      BY <1>1, <1>2, <2>1 DEF Safe
    <2>3. Standing(k) \subseteq NewerMarked(k) /\ NewerMarked(k) \subseteq Marked
      BY DEF Standing, NewerMarked
    <2>4. /\ Cardinality(Standing(k)) <= Cardinality(NewerMarked(k))
          /\ Cardinality(Standing(k)) \in Nat /\ Cardinality(NewerMarked(k)) \in Nat
      BY <1>1, <2>3, MarkedCount, MarkedFinite
    <2> QED BY <1>3, <2>2, <2>4 DEF Deletable, SnapshotAssumption
  \* The newer ones of the newest that is deleted all stay.
  <1>4. ASSUME NEW n \in Deletable
        PROVE  Cardinality(Standing(n)') >= Keep
    <2>1. PICK m \in Deletable : \A k \in Deletable : k <= m
      BY <1>1, <1>2, Newest
    <2>2. m \in 1 .. L /\ n \in 1 .. L /\ n <= m
      BY <1>2, <2>1
    <2>3. \A k \in NewerMarked(m) : k \in Marked /\ k > m /\ k \notin Deletable
      BY <1>2, <2>1, <2>2 DEF NewerMarked
    <2>4. NewerMarked(m) \subseteq Standing(n)'
      <3> SUFFICES ASSUME NEW k \in NewerMarked(m) PROVE k \in Standing(n)'
        OBVIOUS
      <3>1. k \in Marked /\ k > m /\ k \notin Deletable /\ snapshots[k].whole
        BY <1>3, <2>3
      <3>2. k \in 1 .. L /\ k > n
        BY <1>2, <2>2, <3>1
      <3> QED BY <1>1, <1>2, <3>1, <3>2 DEF Standing
    <2>5. Standing(n)' \subseteq Marked
      BY <1>2 DEF Standing
    <2>6. /\ Cardinality(NewerMarked(m)) <= Cardinality(Standing(n)')
          /\ Cardinality(NewerMarked(m)) \in Nat /\ Cardinality(Standing(n)') \in Nat
      <3>1. NewerMarked(m) \subseteq Marked
        BY DEF NewerMarked
      <3> HIDE DEF L
      <3> QED BY <1>1, <2>4, <2>5, <3>1, MarkedCount, MarkedFinite
    <2>7. Cardinality(NewerMarked(m)) >= Keep
      BY DEF Deletable
    <2> QED BY <2>6, <2>7 DEF SnapshotAssumption
  \* What was left half removed has those that it had.
  <1>5. ASSUME NEW n \in 1 .. L, ~snapshots[n].whole, n \notin Deletable
        PROVE  Cardinality(Standing(n)') >= Keep
    <2>1. Cardinality(Standing(n)) >= Keep
      BY <1>1, <1>5 DEF Safe
    <2>2. CASE Standing(n) \cap Deletable = {}
      <3>1. Standing(n)' = Standing(n)
        BY <1>1, <1>2, <2>2 DEF Standing
      <3> QED BY <2>1, <3>1
    <2>3. ASSUME NEW m \in Standing(n) \cap Deletable
          PROVE  Cardinality(Standing(n)') >= Keep
      <3>1. Cardinality(Standing(m)') >= Keep
        BY <1>4, <2>3
      <3>2. m \in 1 .. L /\ n < m
        BY <1>2, <2>3 DEF Standing
      <3>3. Standing(m)' \subseteq Standing(n)' /\ Standing(n)' \subseteq Marked
        <4>1. Standing(m)' \subseteq Marked /\ Standing(n)' \subseteq Marked
          BY <1>2 DEF Standing
        <4>2. \A k \in 1 .. L : k > m => k > n
          BY <3>2
        <4> QED BY <1>2, <4>1, <4>2 DEF Standing
      <3>4. /\ Cardinality(Standing(m)') <= Cardinality(Standing(n)')
            /\ Cardinality(Standing(m)') \in Nat /\ Cardinality(Standing(n)') \in Nat
        <4>1. Standing(m)' \subseteq Marked
          BY <3>3
        <4> QED BY <1>1, <3>3, <4>1, MarkedCount, MarkedFinite
      <3> QED BY <3>1, <3>4 DEF SnapshotAssumption
    <2> QED BY <2>2, <2>3
  <1>6. Types' /\ Exporting' /\ VerifiedIsMoment'
    BY <1>1 DEF SnapshotInv, Types, Bounded, Exporting, Progress, ListedPulled, ListFollowsTasks,
                BlobsFollowTasks, Disk, VerifiedIsMoment
  <1>7. Safe'
    <2>1. \A n \in Deletable : snapshots[n].marker
      BY DEF Deletable, Marked
    <2> QED BY <1>1, <1>2, <1>4, <1>5, <2>1 DEF Safe
  <1> QED BY <1>6, <1>7 DEF SnapshotInv

\* Removing a directory that is none of those that stand leaves these.
LEMMA PruneRemovesInv ==
  ASSUME SnapshotAssumption, SnapshotInv, PruneRemoves
  PROVE  SnapshotInv'
  <1> DEFINE L == Len(snapshots)
  <1>1. /\ Types /\ Exporting /\ Safe /\ VerifiedIsMoment
        /\ UNCHANGED <<cloud, export, past, edits>>
        /\ L \in Nat /\ DOMAIN snapshots = 1 .. L /\ snapshots \in Seq(Directories)
    BY DirectoryFacts DEF SnapshotInv, PruneRemoves, Types
  <1>2. PICK n \in prune :
          \/ /\ snapshots[n].whole
             /\ \E marker \in BOOLEAN :
                  snapshots' = [snapshots EXCEPT ![n].whole = FALSE, ![n].marker = marker]
             /\ UNCHANGED prune
          \/ /\ ~snapshots[n].whole
             /\ snapshots' = [snapshots EXCEPT ![n].gone = TRUE]
             /\ prune' = prune \ {n}
    BY DEF PruneRemoves
  <1>3. n \in 1 .. L /\ snapshots[n] \in Directories
    BY <1>1, <1>2, DirectoryFacts DEF Safe
  <1>4. \E d \in Directories :
          /\ snapshots' = [snapshots EXCEPT ![n] = d]
          /\ d.disk = snapshots[n].disk /\ d.moment = snapshots[n].moment
          /\ d.marker => snapshots[n].marker
          /\ snapshots[n].gone => d.gone
          /\ ~d.whole
          /\ \/ prune' = prune
             \/ d.gone /\ prune' = prune \ {n}
    <2>1. CASE snapshots[n].whole
      <3>1. PICK marker \in BOOLEAN :
              /\ snapshots' = [snapshots EXCEPT ![n].whole = FALSE, ![n].marker = marker]
              /\ prune' = prune
        BY <1>2, <2>1
      <3> DEFINE d == [snapshots[n] EXCEPT !.whole = FALSE, !.marker = marker]
      <3>2. /\ d \in Directories /\ d.disk = snapshots[n].disk
            /\ d.moment = snapshots[n].moment /\ ~d.whole
            /\ snapshots[n].gone => d.gone
        BY <1>3 DEF Directories
      <3>3. snapshots[n].marker
        BY <1>1, <2>1 DEF Safe
      <3>4. snapshots' = [snapshots EXCEPT ![n] = d]
        BY <3>1
      <3> HIDE DEF d
      <3> QED BY <3>1, <3>2, <3>3, <3>4
    <2>2. CASE ~snapshots[n].whole
      <3>1. snapshots' = [snapshots EXCEPT ![n].gone = TRUE] /\ prune' = prune \ {n}
        BY <1>2, <2>2
      <3> DEFINE d == [snapshots[n] EXCEPT !.gone = TRUE]
      <3>2. /\ d \in Directories /\ d.disk = snapshots[n].disk /\ d.gone
            /\ d.moment = snapshots[n].moment /\ ~d.whole
            /\ d.marker => snapshots[n].marker
        BY <1>3, <2>2 DEF Directories
      <3>3. snapshots' = [snapshots EXCEPT ![n] = d]
        BY <3>1
      <3> HIDE DEF d
      <3>4. \/ prune' = prune
            \/ d.gone /\ prune' = prune \ {n}
        BY <3>1, <3>2
      <3> QED BY <3>2, <3>3, <3>4
    <2> QED BY <2>1, <2>2
  <1>5. PICK d \in Directories :
          /\ snapshots' = [snapshots EXCEPT ![n] = d]
          /\ d.disk = snapshots[n].disk /\ d.moment = snapshots[n].moment
          /\ d.marker => snapshots[n].marker
          /\ snapshots[n].gone => d.gone
          /\ ~d.whole
          /\ \/ prune' = prune
             \/ d.gone /\ prune' = prune \ {n}
    BY <1>4
  <1>6. /\ snapshots' \in Seq(Directories) /\ Len(snapshots') = L
        /\ \A k \in 1 .. L : snapshots'[k] = IF k = n THEN d ELSE snapshots[k]
    BY <1>1, <1>3, <1>5, ExceptSeq
  <1>7. DOMAIN snapshots' = 1 .. L
    BY <1>6, LenProperties
  <1>8. Types' /\ Exporting'
    <2>1. \A k \in 1 .. L : /\ snapshots'[k].disk = snapshots[k].disk
                            /\ k \notin prune => snapshots'[k] = snapshots[k]
      BY <1>2, <1>5, <1>6
    <2> QED BY <1>1, <1>6, <2>1, PruneSteps
  <1>9. VerifiedIsMoment'
    BY <1>1, <1>3, <1>5, <1>6, <1>7 DEF VerifiedIsMoment
  \* The same directories stand, or more.
  <1>10. \A m \in 1 .. L : Standing(m)' = Standing(m)
    <2>1. Marked' \subseteq Marked /\ Marked \subseteq 1 .. L
      BY <1>1, <1>5, <1>6, <1>7 DEF Marked
    <2>2. \A k \in 1 .. L : k # n => (k \in Marked' <=> k \in Marked)
      BY <1>1, <1>6, <1>7 DEF Marked
    <2>3. n \notin Standing(n)
      BY <1>2 DEF Standing
    <2>4. \A k \in 1 .. L : k # n => (k \in prune' <=> k \in prune) /\ snapshots'[k].whole = snapshots[k].whole
      BY <1>5, <1>6
    <2>5. ~snapshots'[n].whole /\ n \in prune
      BY <1>2, <1>3, <1>5, <1>6
    <2> SUFFICES ASSUME NEW m \in 1 .. L, NEW k PROVE k \in Standing(m)' <=> k \in Standing(m)
      BY DEF Standing
    <2> QED BY <2>1, <2>2, <2>4, <2>5 DEF Standing
  <1>11. Safe'
    <2>1. prune' \subseteq prune /\ prune \subseteq 1 .. L
      BY <1>1, <1>5 DEF Safe
    <2>2. \A k \in prune' : snapshots'[k].whole => snapshots'[k].marker
      BY <1>1, <1>3, <1>5, <1>6, <2>1 DEF Safe
    <2>3. ASSUME NEW m \in 1 .. L, m \in prune' \/ ~snapshots'[m].whole
          PROVE  Cardinality(Standing(m)') >= Keep
      <3>1. m \in prune \/ ~snapshots[m].whole
        BY <1>2, <1>6, <2>1, <2>3
      <3> QED BY <1>1, <1>10, <3>1 DEF Safe
    <2> QED BY <1>6, <2>1, <2>2, <2>3 DEF Safe
  <1> QED BY <1>8, <1>9, <1>11 DEF SnapshotInv

\* A pruning that is killed leaves more standing.
LEMMA PruneKilledInv ==
  ASSUME SnapshotAssumption, SnapshotInv, PruneKilled
  PROVE  SnapshotInv'
  <1> DEFINE L == Len(snapshots)
  <1>1. /\ Types /\ Exporting /\ Safe /\ VerifiedIsMoment /\ prune' = {}
        /\ UNCHANGED <<cloud, snapshots, export, past, edits>>
        /\ L \in Nat /\ DOMAIN snapshots = 1 .. L /\ snapshots \in Seq(Directories)
    BY DirectoryFacts DEF SnapshotInv, PruneKilled, Types
  <1>2. Types' /\ Exporting'
    BY <1>1, PruneSteps
  <1>3. VerifiedIsMoment'
    BY <1>1 DEF VerifiedIsMoment
  <1>4. Safe'
    <2>1. ASSUME NEW m \in 1 .. L, ~snapshots[m].whole
          PROVE  Cardinality(Standing(m)') >= Keep
      <3>1. Cardinality(Standing(m)) >= Keep
        BY <1>1, <2>1 DEF Safe
      <3>2. Marked' = Marked
        BY <1>1 DEF Marked
      <3>3. Standing(m) \subseteq Standing(m)' /\ Standing(m)' \subseteq Marked
        BY <1>1, <3>2 DEF Standing
      <3>4. /\ Cardinality(Standing(m)) <= Cardinality(Standing(m)')
            /\ Cardinality(Standing(m)) \in Nat /\ Cardinality(Standing(m)') \in Nat
        <4>1. Standing(m) \subseteq Marked
          BY <3>3
        <4> QED BY <1>1, <3>3, <4>1, MarkedCount, MarkedFinite
      <3> QED BY <3>1, <3>4 DEF SnapshotAssumption
    <2> QED BY <1>1, <2>1 DEF Safe
  <1> QED BY <1>2, <1>3, <1>4 DEF SnapshotInv

-----------------------------------------------------------------------------
(***************************************************************************)
(* The application.                                                        *)
(***************************************************************************)
\* An edit makes contents newer; one of an attachment makes the tasks newer too.
LEMMA EditFacts ==
  ASSUME SnapshotAssumption, Types, Edit
  PROVE  /\ cloud' \in [Items -> Content] /\ Bounded(cloud)'
         /\ \A i \in Items : cloud[i] \in Content
         /\ \A i \in Items \ Blobs : Older(cloud[i], cloud'[i])
         /\ (\A b \in Blobs : cloud'[b] = cloud[b])
              \/ (cloud'[Tasks] # Absent /\ cloud[Tasks] # Absent /\ cloud'[Tasks] > cloud[Tasks])
         /\ \A d \in Domains : cloud'[d] # Absent
         /\ edits' = edits + 1 /\ edits' <= MaxEdits /\ edits \in Nat
  <1>1. /\ cloud \in [Items -> Content] /\ edits \in Nat /\ Bounded(cloud)
        /\ edits' = edits + 1 /\ \A d \in Domains : cloud[d] # Absent
        /\ edits < MaxEdits
    BY DEF Types, Edit
  <1>2. /\ Absent \notin Nat /\ Tasks \in Items /\ Tasks \notin Blobs /\ Blobs \subseteq Items
        /\ Tasks \in Domains /\ Domains \subseteq Items
    BY DEF SnapshotAssumption, Items
  <1>3. \A i \in Items :
          /\ cloud[i] \in Content /\ (cloud[i] # Absent => cloud[i] \in Nat /\ cloud[i] <= edits)
          /\ Written(i) \in Nat /\ Written(i) <= edits'
          /\ cloud[i] # Absent => cloud[i] < Written(i)
    BY <1>1, <1>2 DEF Bounded, Content, Written
  <1>4. edits' <= MaxEdits
    BY <1>1 DEF SnapshotAssumption
  <1>5. ASSUME NEW i \in Items \ Blobs, cloud' = [cloud EXCEPT ![i] = Written(i)]
        PROVE  /\ cloud' \in [Items -> Content] /\ Bounded(cloud)'
               /\ \A k \in Items \ Blobs : Older(cloud[k], cloud'[k])
               /\ \A b \in Blobs : cloud'[b] = cloud[b]
               /\ \A d \in Domains : cloud'[d] # Absent
    <2>1. \A k \in Items : cloud'[k] = IF k = i THEN Written(i) ELSE cloud[k]
      BY <1>1, <1>5
    <2>2. cloud' \in [Items -> Content]
      BY <1>1, <1>3, <1>5 DEF Content
    <2>3. Bounded(cloud)'
      BY <1>1, <1>3, <2>1 DEF Bounded
    <2>4. \A k \in Items \ Blobs : Older(cloud[k], cloud'[k])
      BY <1>2, <1>3, <2>1 DEF Older, Content
    <2> QED BY <1>1, <1>2, <1>3, <2>1, <2>2, <2>3, <2>4
  <1>6. ASSUME NEW b \in Blobs,
               cloud' = [cloud EXCEPT ![Tasks] = Written(Tasks), ![b] = IF @ = Absent THEN 0 ELSE Absent]
        PROVE  /\ cloud' \in [Items -> Content] /\ Bounded(cloud)'
               /\ \A k \in Items \ Blobs : Older(cloud[k], cloud'[k])
               /\ cloud'[Tasks] # Absent /\ cloud[Tasks] # Absent /\ cloud'[Tasks] > cloud[Tasks]
               /\ \A d \in Domains : cloud'[d] # Absent
    <2>1. /\ \A k \in Items \ Blobs : cloud'[k] = IF k = Tasks THEN Written(Tasks) ELSE cloud[k]
          /\ \A k \in Blobs : cloud'[k] \in {0, Absent, cloud[k]}
      BY <1>1, <1>2, <1>6
    <2>2. cloud' \in [Items -> Content]
      <3> DEFINE new == IF cloud[b] = Absent THEN 0 ELSE Absent
      <3>1. cloud' = [[cloud EXCEPT ![Tasks] = Written(Tasks)] EXCEPT ![b] = new]
        BY <1>1, <1>2, <1>6
      <3>2. new \in Content /\ Written(Tasks) \in Content
        BY <1>2, <1>3 DEF Content
      <3> HIDE DEF new
      <3> QED BY <1>1, <3>1, <3>2
    <2>3. Bounded(cloud)'
      BY <1>1, <1>2, <1>3, <2>1 DEF Bounded
    <2>4. \A k \in Items \ Blobs : Older(cloud[k], cloud'[k])
      BY <1>2, <1>3, <2>1 DEF Older, Content
    <2>5. Domains \subseteq Items \ Blobs
      BY DEF SnapshotAssumption, Items
    <2> QED BY <1>1, <1>2, <1>3, <2>1, <2>2, <2>3, <2>4, <2>5
  <1> QED BY <1>1, <1>3, <1>4, <1>5, <1>6 DEF Edit

\* What was pulled before the edit is of a moment before it.
LEMMA EditInv ==
  ASSUME SnapshotAssumption, SnapshotInv, Edit
  PROVE  SnapshotInv'
  <1>1. /\ Types /\ Exporting /\ Safe /\ VerifiedIsMoment
        /\ UNCHANGED <<snapshots, export, prune>> /\ past' = past \cup {cloud'}
    BY DEF SnapshotInv, Edit
  <1>2. /\ cloud' \in [Items -> Content] /\ Bounded(cloud)'
        /\ \A i \in Items : cloud[i] \in Content
        /\ \A i \in Items \ Blobs : Older(cloud[i], cloud'[i])
        /\ (\A b \in Blobs : cloud'[b] = cloud[b])
             \/ (cloud'[Tasks] # Absent /\ cloud[Tasks] # Absent /\ cloud'[Tasks] > cloud[Tasks])
        /\ \A d \in Domains : cloud'[d] # Absent
        /\ edits' = edits + 1 /\ edits' <= MaxEdits /\ edits \in Nat
    BY <1>1, EditFacts
  <1>3. Absent \notin Nat /\ Tasks \in Items \ Blobs /\ Listed \subseteq Items \ Blobs
        /\ Blobs \subseteq Items
    BY DEF SnapshotAssumption, Items
  <1>4. Types'
    <2>1. ASSUME NEW content \in [Items -> Content], Bounded(content)
          PROVE  \A i \in Items : content[i] # Absent => content[i] <= edits'
      BY <1>2, <2>1 DEF Bounded, Content
    <2>2. \A n \in 1 .. Len(snapshots) : Bounded(snapshots[n].disk)'
      <3> SUFFICES ASSUME NEW n \in 1 .. Len(snapshots) PROVE Bounded(snapshots[n].disk)'
        OBVIOUS
      <3>1. Bounded(snapshots[n].disk) /\ snapshots[n].disk \in [Items -> Content]
        BY <1>1, DirectoryFacts DEF Types
      <3> QED BY <1>1, <2>1, <3>1 DEF Bounded
    <2>3. Bounded(export.manifest)' /\ Bounded(export.again)'
      <3>1. /\ export.manifest \in [Items -> Content] /\ Bounded(export.manifest)
            /\ export.again \in [Items -> Content] /\ Bounded(export.again)
        BY <1>1 DEF Types, Exports
      <3> QED BY <1>1, <2>1, <3>1 DEF Bounded
    <2> QED BY <1>1, <1>2, <2>2, <2>3 DEF Types
  <1>5. Safe' /\ VerifiedIsMoment'
    BY <1>1 DEF Safe, Standing, Marked, VerifiedIsMoment
  <1>6. ASSUME export.pc # "off" PROVE Exporting'
    <2>1. /\ Disk' = Disk /\ Disk \in [Items -> Content]
          /\ export.manifest \in [Items -> Content] /\ export.again \in [Items -> Content]
      BY <1>1, <1>6, DiskFacts DEF Disk, Types, Exports
    <2>2. /\ \A i \in Listed : Older(export.manifest[i], cloud[i])
          /\ \A i \in Items \ Blobs : Older(Disk[i], cloud[i])
      BY <1>1, <1>6 DEF Exporting
    \* What is older than something is older than what becomes of that.
    <2>3. ASSUME NEW i \in Items \ Blobs, NEW c \in Content, Older(c, cloud[i])
          PROVE  Older(c, cloud'[i])
      BY <1>2, <1>3, <2>3 DEF Older, Content
    <2>4. /\ \A i \in Listed : Older(export.manifest[i], cloud'[i])
          /\ \A i \in Items \ Blobs : Older(Disk[i], cloud'[i])
      BY <1>3, <2>1, <2>2, <2>3
    \* Tasks that are what was pulled were not written, nor was an attachment.
    <2>5. cloud'[Tasks] = Disk[Tasks] =>
            cloud[Tasks] = Disk[Tasks] /\ \A b \in Blobs : cloud'[b] = cloud[b]
      <3>1. Older(Disk[Tasks], cloud[Tasks]) /\ Older(cloud[Tasks], cloud'[Tasks])
        BY <1>2, <1>3, <2>2
      <3>2. Disk[Tasks] \in Content /\ cloud[Tasks] \in Content /\ cloud'[Tasks] \in Content
            /\ cloud[Tasks] # Absent
        BY <1>1, <1>2, <1>3, <2>1 DEF Types, SnapshotAssumption
      <3> QED BY <1>2, <1>3, <3>1, <3>2 DEF Older, Content
    <2>6. ASSUME ~export.wrong PROVE Progress'
      <3>1. Progress
        BY <1>1, <1>6, <2>6 DEF Exporting
      <3>2. ListedPulled => ListedPulled'
        BY <1>1, <2>1 DEF ListedPulled
      <3>3. ListFollowsTasks => ListFollowsTasks'
        BY <1>1, <2>1, <2>5 DEF ListFollowsTasks
      <3>4. BlobsFollowTasks(cloud) => BlobsFollowTasks(cloud)'
        BY <2>1, <2>5 DEF BlobsFollowTasks
      <3>5. CASE export.pc \in {"listed", "domains"}
        BY <1>1, <2>1, <3>1, <3>2, <3>3, <3>5 DEF Progress
      <3>6. CASE export.pc = "blobs"
        <4>1. \A b \in Blobs : b \notin export.todo /\ cloud'[Tasks] = Disk[Tasks] => Disk[b] = cloud'[b]
          BY <2>5, <3>1, <3>6 DEF Progress
        <4> QED BY <1>1, <2>1, <3>1, <3>2, <3>3, <3>6, <4>1 DEF Progress
      <3>7. CASE export.pc = "manifest"
        BY <1>1, <3>1, <3>2, <3>4, <3>7 DEF Progress
      <3>8. CASE export.pc \in {"rows", "verify"}
        <4>1. \A i \in Items \ Blobs : Older(export.again[i], cloud'[i])
          BY <2>1, <2>3, <3>1, <3>8 DEF Progress
        <4>2. BlobsFollowTasks(export.again) => BlobsFollowTasks(export.again)'
          BY <1>1, <2>1 DEF BlobsFollowTasks
        <4> QED BY <1>1, <2>1, <3>1, <3>8, <4>1, <4>2 DEF Progress
      <3>9. export.pc \in {"listed", "domains", "blobs", "manifest", "rows", "verify"}
        BY <1>1, <1>6 DEF Types, Exports
      <3> QED BY <3>5, <3>6, <3>7, <3>8, <3>9
    <2> QED BY <1>1, <1>6, <2>1, <2>4, <2>6 DEF Exporting
  <1>7. ASSUME export.pc = "off" PROVE Exporting'
    BY <1>1, <1>7 DEF Exporting
  <1> QED BY <1>1, <1>4, <1>5, <1>6, <1>7 DEF SnapshotInv

-----------------------------------------------------------------------------
\* There is no directory at first.
LEMMA SnapshotInitInv == SnapshotAssumption /\ Init => SnapshotInv
  <1> SUFFICES ASSUME SnapshotAssumption, Init PROVE SnapshotInv
    OBVIOUS
  <1>1. /\ snapshots \in Seq(Directories) /\ Len(snapshots) = 0 /\ prune = {}
        /\ export = Off /\ edits = 0
    BY EmptySeq DEF Init
  <1>2. DOMAIN snapshots = {} /\ 1 .. Len(snapshots) = {}
    <2>1. 1 .. Len(snapshots) = {}
      BY <1>1
    <2> QED BY <1>1, <2>1, LenProperties
  <1>3. /\ cloud \in [Items -> Content] /\ Bounded(cloud) /\ \A d \in Domains : cloud[d] # Absent
    <2>1. PICK there \in SUBSET Listed :
            cloud = [i \in Items |-> IF i \in Domains \cup there THEN 0 ELSE Absent]
      BY DEF Init
    <2> QED BY <1>1, <2>1 DEF Bounded, Content, SnapshotAssumption, Items
  <1>4. export \in Exports /\ Bounded(export.manifest) /\ Bounded(export.again)
    BY <1>1 DEF Off, Exports, Nothing, Content, Bounded
  <1>5. Types
    BY <1>1, <1>2, <1>3, <1>4 DEF Types
  <1>6. Exporting /\ Safe /\ VerifiedIsMoment
    BY <1>1, <1>2 DEF Exporting, Off, Safe, VerifiedIsMoment
  <1> QED BY <1>5, <1>6 DEF SnapshotInv

\* Every step preserves the invariant.
LEMMA SnapshotStepInv == SnapshotAssumption /\ SnapshotInv /\ [Next]_vars => SnapshotInv'
  <1> SUFFICES ASSUME SnapshotAssumption, SnapshotInv, [Next]_vars PROVE SnapshotInv'
    OBVIOUS
  <1>1. CASE UNCHANGED vars
    BY <1>1 DEF vars, SnapshotInv, Types, Bounded, Exporting, Progress, ListedPulled,
                ListFollowsTasks, BlobsFollowTasks, Disk, Safe, Standing, Marked, VerifiedIsMoment
  <1> QED BY <1>1, CreateSnapshotDirInv, PullListedInv, PullDomainInv, PullBlobInv,
             FetchManifestAgainInv, FetchRowAgainInv, FetchDomainAgainInv, NextPartInv,
             MarkVerifiedInv, ExportKilledInv, PruneStartsInv, PruneRemovesInv, PruneKilledInv,
             EditInv DEF Next

\* What the invariant says of the snapshots.
LEMMA SnapshotFacts ==
  SnapshotAssumption /\ SnapshotInv => SnapshotTypeOK /\ VerifiedIsMoment /\ NewestVerifiedWhole
  <1> SUFFICES ASSUME SnapshotAssumption, SnapshotInv
               PROVE  SnapshotTypeOK /\ VerifiedIsMoment /\ NewestVerifiedWhole
    OBVIOUS
  <1>1. /\ Types /\ Safe /\ VerifiedIsMoment
        /\ DOMAIN snapshots = 1 .. Len(snapshots)
        /\ \A n \in 1 .. Len(snapshots) : snapshots[n].disk \in [Items -> Content]
    BY DirectoryFacts DEF SnapshotInv
  <1>2. SnapshotTypeOK
    <2>1. ASSUME NEW content \in [Items -> Content], Bounded(content)
          PROVE  content \in [Items -> 0..MaxEdits \cup {Absent}]
      <3>1. \A i \in Items : content[i] \in 0..MaxEdits \cup {Absent}
        BY <1>1, <2>1 DEF Types, Bounded, Content, SnapshotAssumption
      <3> QED BY <3>1
    <2>2. export.todo \subseteq Items /\ prune \subseteq DOMAIN snapshots
      BY <1>1 DEF Types, Exports, Safe
    <2> QED BY <1>1, <2>1, <2>2 DEF SnapshotTypeOK, Types
  <1>3. NewestVerifiedWhole
    <2> SUFFICES ASSUME NEW n \in Marked, ~snapshots[n].whole
                 PROVE  ~(Cardinality(NewerMarked(n)) < Keep)
      BY DEF NewestVerifiedWhole
    <2>1. Cardinality(Standing(n)) >= Keep
      BY <1>1 DEF Safe, Marked
    <2>2. Standing(n) \subseteq NewerMarked(n) /\ NewerMarked(n) \subseteq Marked
          /\ Standing(n) \subseteq Marked
      BY DEF Standing, NewerMarked
    <2>3. /\ Cardinality(Standing(n)) <= Cardinality(NewerMarked(n))
          /\ Cardinality(Standing(n)) \in Nat /\ Cardinality(NewerMarked(n)) \in Nat
      BY <1>1, <2>2, MarkedCount, MarkedFinite
    <2> QED BY <2>1, <2>3 DEF SnapshotAssumption
  <1> QED BY <1>1, <1>2, <1>3

\* However the application writes meanwhile, and wherever an export or a pruning is killed:
\* a snapshot marked VERIFIED is one moment of the cloud, and the newest are whole.
THEOREM SnapshotsHold ==
  ASSUME SnapshotAssumption
  PROVE  Spec => [](SnapshotTypeOK /\ VerifiedIsMoment /\ NewestVerifiedWhole)
  BY SnapshotInitInv, SnapshotStepInv, SnapshotFacts, PTL DEF Spec
=============================================================================
