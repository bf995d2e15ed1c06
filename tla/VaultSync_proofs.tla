----------------------------- MODULE VaultSync_proofs -----------------------------
(***************************************************************************)
(* Proofs about VaultSync, for any number of processes, jobs, files,       *)
(* copies, edits and failures: a sync only inserts, and the exit code of a *)
(* push is right.                                                          *)
(*                                                                         *)
(* Neither needs the lock: it is read and written in two steps, and        *)
(* removed by whoever ends.  That the server inserts, and that the run     *)
(* looks again before it reports, is enough.  The invariant says of each   *)
(* run what its plan and its conflicts are worth as long as nobody else    *)
(* has touched either side since it read the vault (quiet).                *)
(***************************************************************************)
EXTENDS VaultSync, FiniteSetTheorems, WellFoundedInduction, TLAPS

SyncAssumption ==
  /\ Task \in Runs /\ RowText \notin Names /\ Absent \notin Bytes \cup Runs
  /\ MaxCopies \in Nat

Exits == 0..2
Copies == 1..MaxCopies + 1
Reports == Files \cup Jobs \X {RowText}

Plans == [pc : {"off", "probing", "locking", "reading", "diffing", "posting", "verifying",
                "reporting", "unlocking"},
          push : BOOLEAN, want : SUBSET Files, row : [Jobs -> Bytes \cup {Absent}],
          sha : [Files -> Bytes \cup {Absent}], newJobs : SUBSET Jobs,
          newFiles : SUBSET Files, resolves : SUBSET (Files \X Copies),
          conflicts : SUBSET Reports, errors : BOOLEAN,
          exit : Exits, quiet : BOOLEAN]

Types ==
  /\ vaultRow \in [Jobs -> Bytes \cup {Absent}] /\ vault \in [Files -> Bytes \cup {Absent}]
  /\ cloudRow \in [Jobs -> Bytes \cup {Absent}] /\ cloud \subseteq CloudFiles
  /\ \A c, d \in cloud : c.file = d.file /\ c.copy = d.copy => c = d
  /\ lock \in Runs \cup {Absent}
  /\ run \in [Runs -> Plans]

\* A conflict over a file is one, and the run does not upload the file.
ConflictsStand(r) ==
  \A f \in r.conflicts \cap Files : f[2] \notin UnsafeNames =>
    /\ \A c \in cloud : c.file = f => c.bytes # r.sha[f]
    /\ r.pc = "posting" => f \notin r.newFiles /\ \A q \in r.resolves : q[1] # f

Ended(r) == r.pc \in {"unlocking", "off"}

\* What a run that nobody disturbed knows.
Knows(r) ==
  /\ r.row = vaultRow /\ r.sha = vault
  /\ r.pc = "posting" => \A f \in r.newFiles : At(cloud, f) = {}
  /\ r.push =>
       /\ r.pc \in {"posting", "verifying", "reporting"} \/ (Ended(r) /\ r.exit = 2) => ConflictsStand(r)
       /\ (r.pc = "reporting" /\ ~r.errors) \/ (Ended(r) /\ r.exit # 1) => Contained(r)
       /\ Ended(r) /\ r.exit = 0 => r.conflicts = {}

SyncInv == Types /\ \A i \in Runs : run[i].quiet => Knows(run[i])

-----------------------------------------------------------------------------
(***************************************************************************)
(* Steps of one run.                                                       *)
(***************************************************************************)
\* What a run knows holds while nothing is written that it has not written itself.
LEMMA OthersKnow ==
  ASSUME NEW k \in Runs, run[k].quiet => Knows(run[k]),
         run'[k].quiet => run'[k] = run[k] /\ UNCHANGED <<vaultRow, vault, cloudRow, cloud>>
  PROVE  run'[k].quiet => Knows(run[k])'
  BY DEF Knows, ConflictsStand, Contained, Ended, At, ResolvedAsCopy

\* A step of run i: the others go on as they were, or have been disturbed.
LEMMA OneRuns ==
  ASSUME SyncInv, NEW i \in Runs, NEW next \in Plans, NEW others \in SUBSET Runs,
         run' = [Disturb(others) EXCEPT ![i] = next],
         others = Runs \ {i} \/ UNCHANGED <<vaultRow, vault, cloudRow, cloud>>,
         vaultRow' = vaultRow, vault' = vault,
         cloudRow' \in [Jobs -> Bytes \cup {Absent}], cloud' \subseteq CloudFiles,
         \A c, d \in cloud' : c.file = d.file /\ c.copy = d.copy => c = d,
         lock' \in Runs \cup {Absent},
         run'[i].quiet => Knows(run[i])'
  PROVE  SyncInv'
  <1>1. Types /\ run \in [Runs -> Plans]
    BY DEF SyncInv, Types
  <1>2. \A k \in Runs : [run[k] EXCEPT !.quiet = FALSE] \in Plans
                        /\ ~[run[k] EXCEPT !.quiet = FALSE].quiet
    BY <1>1 DEF Plans
  <1>3. Disturb(others) \in [Runs -> Plans]
    BY <1>1, <1>2 DEF Disturb
  <1>4. /\ run' \in [Runs -> Plans] /\ run'[i] = next
        /\ \A k \in Runs \ {i} :
             run'[k] = IF k \in others THEN [run[k] EXCEPT !.quiet = FALSE] ELSE run[k]
    BY <1>3 DEF Disturb
  <1>5. Types'
    BY <1>1, <1>4 DEF Types
  <1>6. ASSUME NEW k \in Runs \ {i} PROVE run'[k].quiet => Knows(run[k])'
    <2>1. run[k].quiet => Knows(run[k])
      BY DEF SyncInv
    <2>2. run'[k].quiet => run'[k] = run[k] /\ UNCHANGED <<vaultRow, vault, cloudRow, cloud>>
      BY <1>2, <1>4
    <2> QED BY <2>1, <2>2, OthersKnow
  <1> QED BY <1>5, <1>6 DEF SyncInv

\* One that writes nothing to either side.
LEMMA OneBecomes ==
  ASSUME SyncInv, NEW i \in Runs, NEW next \in Plans, Becomes(i, next),
         UNCHANGED <<vaultRow, vault, cloudRow, cloud>>, lock' \in Runs \cup {Absent},
         run'[i].quiet => Knows(run[i])'
  PROVE  SyncInv'
  <1>1. Types /\ run \in [Runs -> Plans]
    BY DEF SyncInv, Types
  <1>2. Disturb({}) = run
    BY <1>1 DEF Disturb
  <1>3. run' = [Disturb({}) EXCEPT ![i] = next]
    BY <1>2 DEF Becomes
  <1> QED BY <1>1, <1>3, OneRuns DEF Types

\* A run that is not there has no plan.
LEMMA IdlePlan == Idle \in Plans /\ ~Idle.quiet
  <1>1. /\ [j \in Jobs |-> Absent] \in [Jobs -> Bytes \cup {Absent}]
        /\ [f \in Files |-> Absent] \in [Files -> Bytes \cup {Absent}]
    OBVIOUS
  <1>2. 0 \in Exits
    BY DEF Exits
  <1> QED BY <1>1, <1>2 DEF Idle, Plans

\* A run that starts, or is killed, knows nothing.
LEMMA StartInv ==
  ASSUME SyncInv, SyncAssumption, NEW i \in Runs, NEW push \in BOOLEAN,
         NEW want \in SUBSET Files, Start(i, push, want)
  PROVE  SyncInv'
  <1> DEFINE next == [Idle EXCEPT !.pc = "probing", !.push = push, !.want = want]
  <1>1. next \in Plans /\ ~next.quiet
    BY IdlePlan DEF Plans
  <1>2. Becomes(i, next) /\ UNCHANGED <<vaultRow, vault, cloudRow, cloud, lock>>
    BY DEF Start
  <1>3. run'[i] = next /\ lock' \in Runs \cup {Absent}
    BY <1>2 DEF SyncInv, Types, Becomes
  <1> QED BY <1>1, <1>2, <1>3, OneBecomes

\* A killed push knows nothing, and leaves its lock file behind.
LEMMA KilledInv ==
  ASSUME SyncInv, NEW i \in Runs, Killed(i)
  PROVE  SyncInv'
  <1>1. Idle \in Plans /\ ~Idle.quiet
    BY IdlePlan
  <1>2. Becomes(i, Idle) /\ UNCHANGED <<vaultRow, vault, cloudRow, cloud, lock>>
    BY DEF Killed
  <1>3. run'[i] = Idle /\ lock' \in Runs \cup {Absent}
    BY <1>2 DEF SyncInv, Types, Becomes
  <1> QED BY <1>1, <1>2, <1>3, OneBecomes

\* The lock, on the way in and out.
LEMMA LockInv ==
  ASSUME SyncInv, NEW i \in Runs, ProbeLock(i) \/ TakeLock(i) \/ RemoveLock(i)
  PROVE  SyncInv'
  <1>1. /\ run \in [Runs -> Plans] /\ run[i] \in Plans /\ lock \in Runs \cup {Absent}
        /\ run[i].quiet => Knows(run[i])
    BY DEF SyncInv, Types
  <1>2. UNCHANGED <<vaultRow, vault, cloudRow, cloud>>
    BY DEF ProbeLock, TakeLock, RemoveLock
  <1>3. Idle \in Plans /\ ~Idle.quiet
    BY IdlePlan
  <1>4. CASE ProbeLock(i)
    <2> DEFINE next == IF LockHeld(i) THEN Idle ELSE [run[i] EXCEPT !.pc = "locking"]
    <2>1. next \in Plans /\ Becomes(i, next) /\ lock' = lock
      BY <1>1, <1>3, <1>4 DEF ProbeLock, Plans
    <2>2. run'[i] = next
      BY <1>1, <2>1 DEF Becomes
    <2>3. run'[i].quiet =>
            /\ run[i].quiet /\ run'[i].pc = "locking" /\ run'[i].row = run[i].row
            /\ run'[i].sha = run[i].sha
      BY <1>1, <1>3, <2>2 DEF Plans
    <2>4. run'[i].quiet => Knows(run[i])'
      BY <1>1, <1>2, <2>3 DEF Knows, Ended
    <2>5. next \in Plans /\ Becomes(i, next) /\ lock' \in Runs \cup {Absent}
      BY <1>1, <2>1
    <2> HIDE DEF next
    <2> QED BY <1>2, <2>4, <2>5, OneBecomes
  <1>5. CASE TakeLock(i)
    <2> DEFINE next == [run[i] EXCEPT !.pc = "reading"]
    <2>1. next \in Plans /\ Becomes(i, next) /\ lock' = i
      BY <1>1, <1>5 DEF TakeLock, Plans
    <2>2. run'[i] = next
      BY <1>1, <2>1 DEF Becomes
    <2>3. /\ run'[i].quiet = run[i].quiet /\ run'[i].pc = "reading" /\ run'[i].row = run[i].row
          /\ run'[i].sha = run[i].sha
      BY <1>1, <2>2 DEF Plans
    <2>4. run'[i].quiet => Knows(run[i])'
      BY <1>1, <1>2, <2>3 DEF Knows, Ended
    <2> HIDE DEF next
    <2> QED BY <1>1, <1>2, <2>1, <2>4, OneBecomes
  <1>6. CASE RemoveLock(i)
    <2> DEFINE next == [run[i] EXCEPT !.pc = "off"]
    <2>1. next \in Plans /\ Becomes(i, next) /\ lock' = Absent /\ run[i].pc = "unlocking"
      BY <1>1, <1>6 DEF RemoveLock, Plans
    <2>2. run'[i] = next
      BY <1>1, <2>1 DEF Becomes
    <2>3. /\ run'[i].pc = "off" /\ run'[i].quiet = run[i].quiet /\ run'[i].push = run[i].push
          /\ run'[i].row = run[i].row /\ run'[i].sha = run[i].sha
          /\ run'[i].exit = run[i].exit /\ run'[i].conflicts = run[i].conflicts
      BY <1>1, <2>2 DEF Plans
    <2>4. run'[i].quiet => Knows(run[i])'
      BY <1>1, <1>2, <2>1, <2>3
         DEF Knows, Ended, ConflictsStand, Contained, At, ResolvedAsCopy
    <2> HIDE DEF next
    <2> QED BY <1>1, <1>2, <2>1, <2>4, OneBecomes
  <1> QED BY <1>4, <1>5, <1>6

\* From here on the run is quiet, until somebody else changes something.
LEMMA ReadVaultInv ==
  ASSUME SyncInv, NEW i \in Runs, ReadVault(i)
  PROVE  SyncInv'
  <1> DEFINE next == [run[i] EXCEPT !.pc = "diffing", !.row = vaultRow, !.sha = vault, !.quiet = TRUE]
  <1>1. /\ run \in [Runs -> Plans] /\ run[i] \in Plans /\ lock \in Runs \cup {Absent}
        /\ vaultRow \in [Jobs -> Bytes \cup {Absent}] /\ vault \in [Files -> Bytes \cup {Absent}]
    BY DEF SyncInv, Types
  <1>2. UNCHANGED <<vaultRow, vault, cloudRow, cloud, lock>> /\ Becomes(i, next)
    BY DEF ReadVault
  <1>3. next \in Plans /\ next.pc = "diffing" /\ next.row = vaultRow /\ next.sha = vault
    BY <1>1 DEF Plans
  <1>4. run'[i] = next
    BY <1>1, <1>2 DEF Becomes
  <1>5. Knows(run[i])'
    BY <1>2, <1>3, <1>4 DEF Knows, Ended
  <1> HIDE DEF next
  <1> QED BY <1>1, <1>2, <1>3, <1>5, OneBecomes

-----------------------------------------------------------------------------
(***************************************************************************)
(* The plan.                                                               *)
(***************************************************************************)
\* Some dated name is free, and one of those is the first.
LEMMA DatedCopyFacts ==
  ASSUME SyncAssumption, cloud \subseteq CloudFiles, NEW f
  PROVE  DatedCopyName(cloud, f) \in 1..MaxCopies + 1
  <1> DEFINE L == MaxCopies + 1
             Free == {n \in 1..L : ~\E c \in cloud : c.file = f /\ c.copy = n}
             Below(n) == {k \in 1..L : k < n}
             R == StrictSubsetOrdering(1..L)
             T == {Below(n) : n \in Free}
  <1>1. L \in Nat /\ L \in 1..L /\ MaxCopies \in Nat
    BY DEF SyncAssumption
  <1>2. \A c \in cloud : c.copy \in 0..MaxCopies
    BY DEF CloudFiles
  <1>3. L \in Free
    BY <1>1, <1>2
  <1>4. T \subseteq FiniteSubsetsOf(1..L) /\ T # {}
    <2>1. IsFiniteSet(1..L)
      BY <1>1, FS_Interval
    <2>2. \A n \in Free : Below(n) \subseteq 1..L /\ IsFiniteSet(Below(n))
      BY <2>1, FS_Subset
    <2> QED BY <1>3, <2>2 DEF FiniteSubsetsOf
  <1>5. IsWellFoundedOn(R, FiniteSubsetsOf(1..L))
    BY FS_StrictSubsetOrderingWellFounded
  <1>6. PICK x \in T : \A y \in T : <<y, x>> \notin R
    <2> HIDE DEF R, T, L
    <2> QED BY <1>4, <1>5, WFMin
  <1>7. PICK n \in Free : x = Below(n)
    OBVIOUS
  <1>8. ASSUME NEW k \in 1..n - 1 PROVE \E c \in cloud : c.file = f /\ c.copy = k
    <2>1. SUFFICES ASSUME k \in Free PROVE FALSE
      BY <1>1
    <2>2. Below(k) \subseteq Below(n) /\ k \in Below(n) /\ k \notin Below(k)
      BY <1>1
    <2>3. <<Below(k), Below(n)>> \in R
      BY <2>2 DEF StrictSubsetOrdering
    <2> QED BY <1>6, <1>7, <2>1, <2>3
  <1>9. \E m \in 1..L : /\ ~\E c \in cloud : c.file = f /\ c.copy = m
                        /\ \A k \in 1..m - 1 : \E c \in cloud : c.file = f /\ c.copy = k
    BY <1>7, <1>8
  <1> QED BY <1>9 DEF DatedCopyName

\* What is uploaded is not on the cloud, and a conflict is over bytes that are not.
LEMMA PlannedFacts ==
  ASSUME SyncAssumption, Types, NEW r \in Plans
  PROVE  /\ Planned(r) \in Plans
         /\ Planned(r).pc = r.pc /\ Planned(r).push = r.push /\ Planned(r).row = r.row
         /\ Planned(r).sha = r.sha /\ Planned(r).quiet = r.quiet
         /\ \A f \in Planned(r).newFiles : At(cloud, f) = {}
         /\ \A f \in Planned(r).conflicts \cap Files : f[2] \notin UnsafeNames =>
              /\ \A c \in cloud : c.file = f => c.bytes # r.sha[f]
              /\ f \notin Planned(r).newFiles /\ \A q \in Planned(r).resolves : q[1] # f
  <1> DEFINE jobs == {j \in Jobs : r.row[j] # Absent}
             files == {f \in Files : f[1] \in jobs /\ r.sha[f] # Absent}
             safe == {f \in files : f[2] \notin UnsafeNames}
             differ == {f \in safe : /\ At(cloud, f) # {}
                                     /\ ~\E c \in At(cloud, f) : c.bytes = r.sha[f]
                                     /\ ~AlreadyResolved(cloud, f, r.sha[f])}
             newJobs == {j \in jobs : cloudRow[j] = Absent}
             newFiles == {f \in safe : At(cloud, f) = {}}
             resolves == {<<f, DatedCopyName(cloud, f)>> : f \in differ \cap r.want}
             rows == {<<j, RowText>> : j \in {k \in jobs : cloudRow[k] \notin {Absent, r.row[k]}}}
             conflicts == rows \cup (files \ safe) \cup (differ \ r.want)
  <1>1. Planned(r) = [r EXCEPT !.newJobs = newJobs, !.newFiles = newFiles,
                               !.resolves = resolves, !.conflicts = conflicts]
    BY DEF Planned
  <1>2. cloud \subseteq CloudFiles
    BY DEF Types
  <1>3. newJobs \in SUBSET Jobs /\ newFiles \in SUBSET Files
    OBVIOUS
  <1>4. resolves \in SUBSET (Files \X Copies)
    <2>1. \A f \in differ \cap r.want : DatedCopyName(cloud, f) \in Copies /\ f \in Files
      BY <1>2, DatedCopyFacts DEF Copies
    <2> HIDE DEF differ
    <2> QED BY <2>1
  <1>5. conflicts \in SUBSET Reports
    <2>1. rows \subseteq Jobs \X {RowText}
      OBVIOUS
    <2>2. files \ safe \subseteq Files /\ differ \ r.want \subseteq Files
      OBVIOUS
    <2> HIDE DEF rows, files, safe, differ
    <2> QED BY <2>1, <2>2 DEF Reports
  <1>6. ASSUME NEW f \in conflicts \cap Files, f[2] \notin UnsafeNames
        PROVE  f \in differ \ r.want
    <2>1. f \notin rows
      BY DEF Files, SyncAssumption
    <2>2. f \notin files \ safe
      BY <1>6
    <2> HIDE DEF rows, files, safe, differ
    <2> QED BY <1>6, <2>1, <2>2
  <1>7. ASSUME NEW f \in differ \ r.want
        PROVE  /\ \A c \in cloud : c.file = f => c.bytes # r.sha[f]
               /\ f \notin newFiles /\ \A q \in resolves : q[1] # f
    <2>1. \A c \in cloud : c.copy = 0 \/ c.copy > 0
      BY <1>2 DEF CloudFiles
    <2>2. \A c \in cloud : c.file = f => c.bytes # r.sha[f]
      BY <1>7, <2>1 DEF At, AlreadyResolved, ResolvedAsCopy
    <2>3. \A q \in resolves : q[1] \in r.want
      OBVIOUS
    <2> QED BY <1>7, <2>2, <2>3
  <1>8. \A f \in newFiles : At(cloud, f) = {}
    OBVIOUS
  <1> HIDE DEF jobs, files, safe, differ, newJobs, newFiles, resolves, rows, conflicts
  <1>9. /\ Planned(r) \in Plans
        /\ Planned(r).pc = r.pc /\ Planned(r).push = r.push /\ Planned(r).row = r.row
        /\ Planned(r).sha = r.sha /\ Planned(r).quiet = r.quiet
        /\ Planned(r).newFiles = newFiles /\ Planned(r).resolves = resolves
        /\ Planned(r).conflicts = conflicts
    BY ZenonT(60), <1>1, <1>3, <1>4, <1>5 DEF Plans
  <1> QED BY <1>6, <1>7, <1>8, <1>9

\* A run that gives up has exit code 1.
LEMMA AbortedFacts ==
  ASSUME NEW r \in Plans
  PROVE  /\ Aborted(r) \in Plans /\ Aborted(r).pc = "unlocking" /\ Aborted(r).exit = 1
         /\ Aborted(r).row = r.row /\ Aborted(r).sha = r.sha /\ Aborted(r).quiet = r.quiet
  <1>1. 1 \in Exits
    BY DEF Exits
  <1> QED BY <1>1 DEF Aborted, Plans

\* A failed run promises nothing beyond what it has read.
LEMMA FailedKnows ==
  ASSUME NEW i \in Runs, run[i].quiet => Knows(run[i]), UNCHANGED <<vaultRow, vault>>,
         run'[i].pc = "unlocking", run'[i].exit = 1,
         run'[i].row = run[i].row, run'[i].sha = run[i].sha, run'[i].quiet => run[i].quiet
  PROVE  run'[i].quiet => Knows(run[i])'
  BY DEF Knows, Ended

\* What the manifest says at the comparison is what an undisturbed push knows.
LEMMA DiffInv ==
  ASSUME SyncAssumption, SyncInv, NEW i \in Runs, Diff(i)
  PROVE  SyncInv'
  <1> DEFINE r == Planned(run[i])
             posts == [r EXCEPT !.pc = "posting"]
             dry(e) == [r EXCEPT !.pc = "unlocking", !.exit = e]
  <1>1. /\ Types /\ run \in [Runs -> Plans] /\ run[i] \in Plans /\ lock \in Runs \cup {Absent}
        /\ run[i].quiet => Knows(run[i])
    BY DEF SyncInv, Types
  <1>2. UNCHANGED <<vaultRow, vault, cloudRow, cloud, lock>> /\ lock' \in Runs \cup {Absent}
    BY <1>1 DEF Diff
  <1>3. \/ Becomes(i, Aborted(run[i]))
        \/ run[i].push /\ Becomes(i, posts)
        \/ ~run[i].push /\ \E e \in {0, 2} : Becomes(i, dry(e))
    BY DEF Diff
  <1>4. /\ r \in Plans /\ r.push = run[i].push /\ r.row = run[i].row
        /\ r.sha = run[i].sha /\ r.quiet = run[i].quiet
        /\ \A f \in r.newFiles : At(cloud, f) = {}
        /\ \A f \in r.conflicts \cap Files : f[2] \notin UnsafeNames =>
             /\ \A c \in cloud : c.file = f => c.bytes # r.sha[f]
             /\ f \notin r.newFiles /\ \A q \in r.resolves : q[1] # f
    BY <1>1, PlannedFacts
  <1> HIDE DEF r
  <1>5. CASE Becomes(i, Aborted(run[i]))
    <2>1. run'[i] = Aborted(run[i])
      BY <1>1, <1>5 DEF Becomes
    <2>2. /\ Aborted(run[i]) \in Plans /\ run'[i].pc = "unlocking" /\ run'[i].exit = 1
          /\ run'[i].row = run[i].row /\ run'[i].sha = run[i].sha /\ run'[i].quiet = run[i].quiet
      BY <1>1, <2>1, AbortedFacts
    <2>3. run'[i].quiet => Knows(run[i])'
      BY <1>1, <1>2, <2>2, FailedKnows
    <2> QED BY <1>2, <1>5, <2>2, <2>3, OneBecomes
  <1>6. CASE run[i].push /\ Becomes(i, posts)
    <2>1. run'[i] = posts
      BY <1>1, <1>6 DEF Becomes
    <2>2. /\ posts \in Plans /\ posts.pc = "posting" /\ posts.push = r.push /\ posts.row = r.row
          /\ posts.sha = r.sha /\ posts.quiet = r.quiet /\ posts.newFiles = r.newFiles
          /\ posts.conflicts = r.conflicts /\ posts.resolves = r.resolves
      BY <1>4 DEF Plans
    <2> HIDE DEF posts
    <2>3. ConflictsStand(run[i])'
      BY <1>2, <1>4, <2>1, <2>2 DEF ConflictsStand
    <2>4. run'[i].quiet => Knows(run[i])'
      BY <1>1, <1>2, <1>4, <2>1, <2>2, <2>3 DEF Knows, Ended, At
    <2> QED BY <1>2, <1>6, <2>2, <2>4, OneBecomes
  <1>7. CASE ~run[i].push /\ \E e \in {0, 2} : Becomes(i, dry(e))
    <2>1. PICK e \in {0, 2} : Becomes(i, dry(e))
      BY <1>7
    <2>2. run'[i] = dry(e)
      BY <1>1, <2>1 DEF Becomes
    <2>3. /\ dry(e) \in Plans /\ dry(e).pc = "unlocking" /\ dry(e).push = r.push
          /\ dry(e).row = r.row /\ dry(e).sha = r.sha /\ dry(e).quiet = r.quiet
      <3>1. e \in Exits
        BY DEF Exits
      <3> QED BY <1>4, <3>1 DEF Plans
    <2> HIDE DEF dry
    <2>4. run'[i].quiet => Knows(run[i])'
      BY <1>1, <1>2, <1>4, <1>7, <2>2, <2>3 DEF Knows, Ended
    <2> QED BY <1>2, <2>1, <2>3, <2>4, OneBecomes
  <1> QED BY <1>3, <1>5, <1>6, <1>7

-----------------------------------------------------------------------------
(***************************************************************************)
(* The inserts.                                                            *)
(***************************************************************************)
\* A stored name has one content, and no other file is touched.
LEMMA StoreFacts ==
  ASSUME Types, NEW f \in Files, NEW copy \in 0..MaxCopies, NEW b \in Bytes
  PROVE  /\ Store(f, copy, b) \subseteq CloudFiles
         /\ \A c, d \in Store(f, copy, b) : c.file = d.file /\ c.copy = d.copy => c = d
         /\ \A c \in Store(f, copy, b) : c.file # f => c \in cloud
         /\ \A c \in cloud : c.file # f => c \in Store(f, copy, b)
         /\ AddJobFileIfAbsent(f, copy, b) = "inserted" => cloud \subseteq Store(f, copy, b)
  <1> DEFINE versions == 0..MaxCopies
             new == Held(f, copy, b)
  <1>1. new \in [file : Files, copy : versions, bytes : Bytes] /\ new.file = f /\ new.copy = copy
    BY DEF Held
  <1>2. CloudFiles = [file : Files, copy : versions, bytes : Bytes]
    BY DEF CloudFiles
  <1>3. /\ Store(f, copy, b) = {c \in cloud : c.file # f \/ c.copy # copy} \cup {new}
        /\ cloud \subseteq CloudFiles
        /\ \A c, d \in cloud : c.file = d.file /\ c.copy = d.copy => c = d
    BY DEF Store, Types
  <1>4. AddJobFileIfAbsent(f, copy, b) = "inserted" => {c \in cloud : c.file = f /\ c.copy = copy} = {}
    BY DEF AddJobFileIfAbsent
  <1> HIDE DEF versions, new
  <1> QED BY <1>1, <1>2, <1>3, <1>4

\* A job's text goes up, or the run learns that somebody else was there first.
LEMMA PostJobInv ==
  ASSUME SyncAssumption, SyncInv, NEW i \in Runs, PostJob(i)
  PROVE  SyncInv'
  <1>1. /\ Types /\ run \in [Runs -> Plans] /\ run[i] \in Plans /\ run[i].pc = "posting"
        /\ run[i].quiet => Knows(run[i])
    BY DEF SyncInv, Types, PostJob
  <1>2. PICK j \in run[i].newJobs, reply \in Replies :
          LET exists == cloudRow[j] # Absent
              inserts == Acts(reply) /\ ~exists
              r == [run[i] EXCEPT !.newJobs = @ \ {j}]
              next == IF Throws(reply) THEN Aborted(r)
                      ELSE IF reply = "refused" THEN [r EXCEPT !.errors = TRUE]
                      ELSE IF exists THEN [r EXCEPT !.conflicts = @ \cup {<<j, RowText>>}]
                      ELSE r
          IN  /\ cloudRow' = IF inserts THEN [cloudRow EXCEPT ![j] = run[i].row[j]] ELSE cloudRow
              /\ run' = [Disturb(IF inserts THEN Runs \ {i} ELSE {}) EXCEPT ![i] = next]
    BY DEF PostJob
  <1> DEFINE exists == cloudRow[j] # Absent
             inserts == Acts(reply) /\ ~exists
             r == [run[i] EXCEPT !.newJobs = @ \ {j}]
             others == IF inserts THEN Runs \ {i} ELSE {}
             next == IF Throws(reply) THEN Aborted(r)
                     ELSE IF reply = "refused" THEN [r EXCEPT !.errors = TRUE]
                     ELSE IF exists THEN [r EXCEPT !.conflicts = @ \cup {<<j, RowText>>}]
                     ELSE r
  <1>3. UNCHANGED <<vaultRow, vault, cloud, lock>>
    BY DEF PostJob
  <1>4. j \in Jobs /\ run[i].row[j] \in Bytes \cup {Absent}
    BY <1>1 DEF Plans
  <1>5. /\ r \in Plans /\ r.pc = run[i].pc /\ r.push = run[i].push /\ r.row = run[i].row
        /\ r.sha = run[i].sha /\ r.quiet = run[i].quiet /\ r.newFiles = run[i].newFiles
        /\ r.resolves = run[i].resolves /\ r.conflicts = run[i].conflicts
    BY <1>1 DEF Plans
  <1>6. /\ cloudRow' \in [Jobs -> Bytes \cup {Absent}]
        /\ others = Runs \ {i} \/ (others = {} /\ cloudRow' = cloudRow)
        /\ run' = [Disturb(others) EXCEPT ![i] = next]
    BY <1>1, <1>2, <1>4 DEF Types
  <1>7. Disturb(others) \in [Runs -> Plans]
    <2> HIDE DEF others
    <2>1. \A k \in Runs : [run[k] EXCEPT !.quiet = FALSE] \in Plans
      BY <1>1 DEF Plans
    <2> QED BY <1>1, <2>1 DEF Disturb
  <1>8. run'[i] = next
    <2> HIDE DEF next, others
    <2> QED BY <1>6, <1>7
  <1>9. CASE Throws(reply)
    <2>1. next = Aborted(r)
      BY <1>9
    <2>2. /\ next \in Plans /\ next.pc = "unlocking" /\ next.exit = 1
          /\ next.row = run[i].row /\ next.sha = run[i].sha /\ next.quiet = run[i].quiet
      <3> HIDE DEF next, r
      <3> QED BY <1>5, <2>1, AbortedFacts
    <2> HIDE DEF next, others
    <2>3. run'[i].quiet => Knows(run[i])'
      BY <1>1, <1>3, <1>8, <2>2, FailedKnows
    <2> QED BY <1>1, <1>3, <1>6, <2>2, <2>3, OneRuns DEF Types
  <1>10. CASE ~Throws(reply)
    <2>1. /\ next \in Plans /\ next.pc = "posting" /\ next.push = run[i].push
          /\ next.row = run[i].row /\ next.sha = run[i].sha /\ next.quiet = run[i].quiet
          /\ next.newFiles = run[i].newFiles /\ next.resolves = run[i].resolves
          /\ next.conflicts \subseteq run[i].conflicts \cup {<<j, RowText>>}
      <3> DEFINE told == <<j, RowText>>
                 kept == r.conflicts \cup {told}
      <3>1. \/ next = [r EXCEPT !.errors = TRUE] \/ next = r
            \/ next = [r EXCEPT !.conflicts = kept]
        BY <1>10
      <3>2. told \in Reports
        BY <1>4 DEF Reports
      <3>3. kept \in SUBSET Reports /\ kept = run[i].conflicts \cup {told}
        <4> HIDE DEF told, r
        <4> QED BY <1>5, <3>2 DEF Plans
      <3>7. told = <<j, RowText>>
        OBVIOUS
      <3> HIDE DEF next, r, told, kept
      <3>4. CASE next = r
        BY <1>1, <1>5, <3>4, <3>3
      <3>5. CASE next = [r EXCEPT !.errors = TRUE]
        BY <1>1, <1>5, <3>5, <3>3 DEF Plans
      <3>6. CASE next = [r EXCEPT !.conflicts = kept]
        BY <1>1, <1>5, <3>6, <3>3, <3>7 DEF Plans
      <3> QED BY <3>1, <3>4, <3>5, <3>6, <3>7
    <2>2. <<j, RowText>> \notin Files
      BY DEF Files, SyncAssumption
    <2> HIDE DEF next, others
    <2>3. run[i].quiet /\ ConflictsStand(run[i]) => ConflictsStand(run[i])'
      BY <1>1, <1>3, <1>8, <2>1, <2>2 DEF ConflictsStand
    <2>4. run'[i].quiet => Knows(run[i])'
      BY <1>1, <1>3, <1>8, <2>1, <2>3 DEF Knows, Ended, At
    <2> QED BY <1>1, <1>3, <1>6, <2>1, <2>4, OneRuns DEF Types
  <1> QED BY <1>9, <1>10

\* A refused or differing answer is noted, and nothing else of the plan changes.
LEMMA AnsweredFacts ==
  ASSUME NEW r \in Plans, NEW f \in Files, NEW copy, NEW said
  PROVE  LET a == Answered(r, f, copy, said)
         IN  /\ a \in Plans /\ a.pc = r.pc /\ a.push = r.push /\ a.row = r.row /\ a.sha = r.sha
             /\ a.quiet = r.quiet /\ a.newFiles = r.newFiles /\ a.resolves = r.resolves
             /\ \/ a.conflicts = r.conflicts
                \/ copy = 0 /\ said = "bytes-differ" /\ a.conflicts = r.conflicts \cup {f}
  <1> DEFINE kept == r.conflicts \cup (IF said = "bytes-differ" THEN {f} ELSE {})
             missed == r.errors \/ said = "job-not-found"
             other == r.errors \/ said # "inserted"
  <1>1. kept \in SUBSET Reports /\ kept \in {r.conflicts, r.conflicts \cup {f}}
        /\ (said # "bytes-differ" => kept = r.conflicts)
    BY DEF Plans, Reports
  <1>2. missed \in BOOLEAN /\ other \in BOOLEAN
    OBVIOUS
  <1>3. CASE copy = 0
    <2>1. Answered(r, f, copy, said) = [r EXCEPT !.conflicts = kept, !.errors = missed]
      BY <1>3 DEF Answered
    <2> HIDE DEF kept, missed
    <2> QED BY <1>1, <1>2, <1>3, <2>1 DEF Plans
  <1>4. CASE copy # 0
    <2>1. Answered(r, f, copy, said) = [r EXCEPT !.errors = other]
      BY <1>4 DEF Answered
    <2> HIDE DEF other
    <2> QED BY <1>2, <2>1 DEF Plans
  <1> QED BY <1>3, <1>4

\* What a PUT leaves of the plan and of the cloud.
LEMMA PutFacts ==
  ASSUME SyncInv, NEW i \in Runs, NEW f \in Files, NEW copy \in 0..MaxCopies,
         NEW reply \in Replies, run[i].pc = "posting", Put(i, f, copy, reply)
  PROVE  \E next \in Plans, others \in SUBSET Runs :
           /\ run' = [Disturb(others) EXCEPT ![i] = next] /\ run'[i] = next
           /\ \/ others = Runs \ {i} /\ cloud' = Store(f, copy, vault[f]) /\ vault[f] \in Bytes
                 /\ AddJobFileIfAbsent(f, copy, vault[f]) = "inserted"
              \/ others = {} /\ cloud' = cloud
           /\ next.push = run[i].push /\ next.row = run[i].row /\ next.sha = run[i].sha
           /\ next.quiet = run[i].quiet
           /\ \/ next.pc = "unlocking" /\ next.exit = 1
              \/ /\ next.pc = "posting"
                 /\ next.newFiles \subseteq run[i].newFiles \ {f}
                 /\ next.resolves \subseteq run[i].resolves
                 /\ \/ next.conflicts = run[i].conflicts
                    \/ /\ copy = 0 /\ next.conflicts = run[i].conflicts \cup {f}
                       /\ AddJobFileIfAbsent(f, copy, vault[f]) = "bytes-differ"
  <1> DEFINE b == vault[f]
             said == AddJobFileIfAbsent(f, copy, b)
             inserts == b # Absent /\ Acts(reply) /\ said = "inserted"
             others == IF inserts THEN Runs \ {i} ELSE {}
             told == IF b = Absent \/ Throws(reply) THEN Aborted(run[i])
                     ELSE IF reply = "refused" THEN [run[i] EXCEPT !.errors = TRUE]
                     ELSE Answered(run[i], f, copy, said)
             rest == told.newFiles \ {f}
             copies == told.resolves \ {<<f, copy>>}
             next == [told EXCEPT !.newFiles = rest, !.resolves = copies]
  <1>1. /\ run \in [Runs -> Plans] /\ run[i] \in Plans /\ b \in Bytes \cup {Absent}
    BY DEF SyncInv, Types
  <1>2. /\ cloud' = (IF inserts THEN Store(f, copy, b) ELSE cloud)
        /\ run' = [Disturb(others) EXCEPT ![i] = next]
    BY DEF Put
  <1>3. /\ others \in SUBSET Runs
        /\ \/ others = Runs \ {i} /\ cloud' = Store(f, copy, vault[f]) /\ vault[f] \in Bytes
              /\ said = "inserted"
           \/ others = {} /\ cloud' = cloud
    BY <1>1, <1>2
  <1>4. Disturb(others) \in [Runs -> Plans]
    <2> HIDE DEF others
    <2>1. \A k \in Runs : [run[k] EXCEPT !.quiet = FALSE] \in Plans
      BY <1>1 DEF Plans
    <2> QED BY <1>1, <2>1 DEF Disturb
  <1>5. run'[i] = next
    <2> HIDE DEF next, others
    <2> QED BY <1>2, <1>4
  <1>6. /\ told \in Plans /\ told.push = run[i].push /\ told.row = run[i].row
        /\ told.sha = run[i].sha /\ told.quiet = run[i].quiet
        /\ told.newFiles = run[i].newFiles /\ told.resolves = run[i].resolves
        /\ \/ told.pc = "unlocking" /\ told.exit = 1
           \/ /\ told.pc = "posting"
              /\ \/ told.conflicts = run[i].conflicts
                 \/ copy = 0 /\ told.conflicts = run[i].conflicts \cup {f} /\ said = "bytes-differ"
    <2>1. \/ told = Aborted(run[i]) \/ told = [run[i] EXCEPT !.errors = TRUE]
          \/ told = Answered(run[i], f, copy, said)
      OBVIOUS
    <2> HIDE DEF told, said
    <2>2. CASE told = Aborted(run[i])
      <3>1. told.newFiles = run[i].newFiles /\ told.resolves = run[i].resolves
            /\ told.push = run[i].push
        BY <1>1, <2>2 DEF Aborted, Plans
      <3> QED BY <1>1, <2>2, <3>1, AbortedFacts
    <2>3. CASE told = [run[i] EXCEPT !.errors = TRUE]
      BY <1>1, <2>3 DEF Plans
    <2>4. CASE told = Answered(run[i], f, copy, said)
      BY <1>1, <2>4, AnsweredFacts
    <2> QED BY <2>1, <2>2, <2>3, <2>4
  <1>7. /\ rest \in SUBSET Files /\ rest \subseteq run[i].newFiles \ {f}
        /\ copies \in SUBSET (Files \X Copies) /\ copies \subseteq run[i].resolves
    <2> HIDE DEF told
    <2> QED BY <1>6 DEF Plans
  <1>8. /\ next \in Plans /\ next.pc = told.pc /\ next.exit = told.exit /\ next.push = told.push
        /\ next.row = told.row /\ next.sha = told.sha /\ next.quiet = told.quiet
        /\ next.newFiles = rest /\ next.resolves = copies /\ next.conflicts = told.conflicts
    <2> HIDE DEF told, rest, copies
    <2> QED BY <1>6, <1>7 DEF Plans
  <1>9. said = AddJobFileIfAbsent(f, copy, vault[f])
    OBVIOUS
  <1> HIDE DEF next, others, told, rest, copies, said, inserts, b
  <1> QED BY <1>2, <1>3, <1>5, <1>6, <1>7, <1>8, <1>9

\* The cloud has what was uploaded, and a reported conflict is still one.
LEMMA PutInv ==
  ASSUME SyncAssumption, SyncInv, NEW i \in Runs, NEW f \in Files, NEW copy \in 0..MaxCopies,
         NEW reply \in Replies, run[i].pc = "posting", Put(i, f, copy, reply),
         (copy = 0 /\ f \in run[i].newFiles) \/ <<f, copy>> \in run[i].resolves
  PROVE  SyncInv'
  <1>1. Types /\ run[i] \in Plans /\ (run[i].quiet => Knows(run[i]))
    BY DEF SyncInv, Types
  <1>2. UNCHANGED <<vaultRow, vault, cloudRow, lock>>
    BY DEF Put
  <1>3. PICK next \in Plans, others \in SUBSET Runs :
           /\ run' = [Disturb(others) EXCEPT ![i] = next] /\ run'[i] = next
           /\ \/ others = Runs \ {i} /\ cloud' = Store(f, copy, vault[f]) /\ vault[f] \in Bytes
                 /\ AddJobFileIfAbsent(f, copy, vault[f]) = "inserted"
              \/ others = {} /\ cloud' = cloud
           /\ next.push = run[i].push /\ next.row = run[i].row /\ next.sha = run[i].sha
           /\ next.quiet = run[i].quiet
           /\ \/ next.pc = "unlocking" /\ next.exit = 1
              \/ /\ next.pc = "posting"
                 /\ next.newFiles \subseteq run[i].newFiles \ {f}
                 /\ next.resolves \subseteq run[i].resolves
                 /\ \/ next.conflicts = run[i].conflicts
                    \/ /\ copy = 0 /\ next.conflicts = run[i].conflicts \cup {f}
                       /\ AddJobFileIfAbsent(f, copy, vault[f]) = "bytes-differ"
    BY PutFacts
  <1>4. /\ cloud' \subseteq CloudFiles
        /\ \A c, d \in cloud' : c.file = d.file /\ c.copy = d.copy => c = d
        /\ \A c \in cloud' : c.file # f => c \in cloud
        /\ others = Runs \ {i} \/ cloud' = cloud
    BY <1>1, <1>3, StoreFacts DEF Types
  <1>5. CASE next.pc = "unlocking" /\ next.exit = 1
    <2>1. run'[i].quiet => Knows(run[i])'
      BY <1>1, <1>2, <1>3, <1>5, FailedKnows
    <2> QED BY <1>1, <1>2, <1>3, <1>4, <2>1, OneRuns DEF Types
  <1>6. CASE next.pc = "posting" /\ ~(next.pc = "unlocking" /\ next.exit = 1)
    <2>1. SUFFICES ASSUME run[i].quiet PROVE Knows(run[i])'
      BY <1>1, <1>2, <1>3, <1>4, OneRuns DEF Types
    <2>2. Knows(run[i])
      BY <1>1, <2>1
    <2>3. copy = 0 /\ f \in run[i].newFiles => AddJobFileIfAbsent(f, copy, vault[f]) # "bytes-differ"
      <3>1. SUFFICES ASSUME copy = 0, f \in run[i].newFiles
                     PROVE  AddJobFileIfAbsent(f, copy, vault[f]) # "bytes-differ"
        OBVIOUS
      <3>2. {c \in cloud : c.file = f /\ c.copy = copy} = {}
        BY <2>2, <3>1 DEF Knows, At
      <3> QED BY <3>2 DEF AddJobFileIfAbsent
    <2>4. \A q \in run[i].resolves : q[2] # 0
      BY <1>1 DEF Plans, Copies
    <2>5. copy = 0 => f \in run[i].newFiles
      BY <2>4
    <2>6. /\ next.newFiles \subseteq run[i].newFiles \ {f} /\ next.resolves \subseteq run[i].resolves
          /\ next.conflicts = run[i].conflicts
      BY <1>3, <1>6, <2>3, <2>5
    <2>7. \A g \in next.newFiles : At(cloud', g) = {}
      BY <1>4, <2>2, <2>6 DEF Knows, At
    <2>8. run[i].push => ConflictsStand(run[i])'
      <3>1. SUFFICES ASSUME run[i].push, NEW g \in run[i].conflicts \cap Files, g[2] \notin UnsafeNames
                     PROVE  /\ \A c \in cloud' : c.file = g => c.bytes # next.sha[g]
                            /\ g \notin next.newFiles /\ \A q \in next.resolves : q[1] # g
        BY <1>3, <2>6 DEF ConflictsStand
      <3>2. /\ \A c \in cloud : c.file = g => c.bytes # run[i].sha[g]
            /\ g \notin run[i].newFiles /\ \A q \in run[i].resolves : q[1] # g
        BY <2>2, <3>1 DEF Knows, ConflictsStand
      <3>3. g # f
        BY <3>2
      <3> QED BY <1>3, <1>4, <2>6, <3>2, <3>3
    <2> QED BY <1>2, <1>3, <1>6, <2>2, <2>7, <2>8 DEF Knows, Ended
  <1> QED BY <1>3, <1>5, <1>6

\* A file the cloud lacks is posted under its own name.
LEMMA PutFileInv ==
  ASSUME SyncAssumption, SyncInv, NEW i \in Runs, PutFile(i)
  PROVE  SyncInv'
  <1>1. run[i] \in Plans /\ 0 \in 0..MaxCopies
    BY DEF SyncInv, Types, SyncAssumption
  <1>2. PICK f \in run[i].newFiles, reply \in Replies : Put(i, f, 0, reply)
    BY DEF PutFile
  <1>3. f \in Files /\ run[i].pc = "posting"
    BY <1>1 DEF Plans, PutFile
  <1> QED BY <1>1, <1>2, <1>3, PutInv

\* A file whose name is taken is posted under the name of a dated copy.
LEMMA PutCopyInv ==
  ASSUME SyncAssumption, SyncInv, NEW i \in Runs, PutCopy(i)
  PROVE  SyncInv'
  <1>1. run[i] \in Plans
    BY DEF SyncInv, Types
  <1>2. PICK q \in run[i].resolves, reply \in Replies :
          q[2] <= MaxCopies /\ Put(i, q[1], q[2], reply)
    BY DEF PutCopy
  <1>3. q[1] \in Files /\ q[2] \in 0..MaxCopies /\ q = <<q[1], q[2]>> /\ run[i].pc = "posting"
    BY <1>1, <1>2 DEF Plans, PutCopy, Copies, SyncAssumption
  <1> QED BY <1>2, <1>3, PutInv

-----------------------------------------------------------------------------
(***************************************************************************)
(* The end of a run, and what goes on around it.                           *)
(***************************************************************************)
LEMMA PushedInv ==
  ASSUME SyncInv, NEW i \in Runs, Pushed(i)
  PROVE  SyncInv'
  <1> DEFINE next == [run[i] EXCEPT !.pc = "verifying"]
  <1>1. /\ run \in [Runs -> Plans] /\ run[i] \in Plans /\ lock \in Runs \cup {Absent}
        /\ run[i].quiet => Knows(run[i])
    BY DEF SyncInv, Types
  <1>2. /\ UNCHANGED <<vaultRow, vault, cloudRow, cloud, lock>> /\ Becomes(i, next)
        /\ run[i].pc = "posting"
    BY DEF Pushed
  <1>3. /\ next \in Plans /\ next.pc = "verifying" /\ next.push = run[i].push
        /\ next.row = run[i].row /\ next.sha = run[i].sha /\ next.quiet = run[i].quiet
        /\ next.conflicts = run[i].conflicts
    BY <1>1 DEF Plans
  <1>4. run'[i] = next
    BY <1>1, <1>2 DEF Becomes
  <1> HIDE DEF next
  <1>5. ConflictsStand(run[i]) => ConflictsStand(run[i])'
    BY <1>2, <1>3, <1>4 DEF ConflictsStand
  <1>6. run'[i].quiet => Knows(run[i])'
    BY <1>1, <1>2, <1>3, <1>4, <1>5 DEF Knows, Ended
  <1> QED BY <1>1, <1>2, <1>3, <1>6, OneBecomes

\* The second manifest shows what is still missing.
LEMMA VerifyInv ==
  ASSUME SyncInv, NEW i \in Runs, Verify(i)
  PROVE  SyncInv'
  <1> DEFINE missed == run[i].errors \/ ~Contained(run[i])
             next == [run[i] EXCEPT !.pc = "reporting", !.errors = missed]
  <1>1. /\ run \in [Runs -> Plans] /\ run[i] \in Plans /\ lock \in Runs \cup {Absent}
        /\ run[i].quiet => Knows(run[i])
    BY DEF SyncInv, Types
  <1>2. /\ UNCHANGED <<vaultRow, vault, cloudRow, cloud, lock>>
        /\ Becomes(i, Aborted(run[i])) \/ Becomes(i, next)
        /\ run[i].pc = "verifying"
    BY DEF Verify
  <1>3. CASE Becomes(i, Aborted(run[i]))
    <2>1. run'[i] = Aborted(run[i])
      BY <1>1, <1>3 DEF Becomes
    <2>2. /\ Aborted(run[i]) \in Plans /\ run'[i].pc = "unlocking" /\ run'[i].exit = 1
          /\ run'[i].row = run[i].row /\ run'[i].sha = run[i].sha /\ run'[i].quiet = run[i].quiet
      BY <1>1, <2>1, AbortedFacts
    <2>3. run'[i].quiet => Knows(run[i])'
      BY <1>1, <1>2, <2>2, FailedKnows
    <2> QED BY <1>1, <1>2, <1>3, <2>2, <2>3, OneBecomes
  <1>4. CASE Becomes(i, next)
    <2>1. missed \in BOOLEAN
      BY <1>1
    <2>2. ~missed => Contained(run[i])
      OBVIOUS
    <2>3. /\ next \in Plans /\ next.pc = "reporting" /\ next.push = run[i].push
          /\ next.row = run[i].row /\ next.sha = run[i].sha /\ next.quiet = run[i].quiet
          /\ next.conflicts = run[i].conflicts /\ next.errors = missed
      <3> HIDE DEF missed
      <3> QED BY <1>1, <2>1 DEF Plans
    <2>4. run'[i] = next
      BY <1>1, <1>4 DEF Becomes
    <2> HIDE DEF next, missed
    <2>5. ConflictsStand(run[i]) => ConflictsStand(run[i])'
      BY <1>2, <2>3, <2>4 DEF ConflictsStand
    <2>6. Contained(run[i]) => Contained(run[i])'
      BY <1>2, <2>3, <2>4 DEF Contained, At, ResolvedAsCopy
    <2>7. run'[i].quiet => Knows(run[i])'
      BY <1>1, <1>2, <2>2, <2>3, <2>4, <2>5, <2>6 DEF Knows, Ended
    <2> QED BY <1>1, <1>2, <1>4, <2>3, <2>7, OneBecomes
  <1> QED BY <1>2, <1>3, <1>4

\* The exit code says what was found.
LEMMA ReportRunInv ==
  ASSUME SyncInv, NEW i \in Runs, ReportRun(i)
  PROVE  SyncInv'
  <1> DEFINE code(failed) == IF failed THEN 1 ELSE IF run[i].conflicts # {} THEN 2 ELSE 0
             next(failed) == [run[i] EXCEPT !.pc = "unlocking", !.errors = failed,
                                            !.exit = code(failed)]
  <1>1. /\ run \in [Runs -> Plans] /\ run[i] \in Plans /\ lock \in Runs \cup {Absent}
        /\ run[i].quiet => Knows(run[i])
    BY DEF SyncInv, Types
  <1>2. /\ UNCHANGED <<vaultRow, vault, cloudRow, cloud, lock>> /\ run[i].pc = "reporting"
    BY DEF ReportRun
  <1>3. \/ Becomes(i, Aborted(run[i]))
        \/ \E failed \in BOOLEAN : (run[i].errors => failed) /\ Becomes(i, next(failed))
    <2>1. PICK reply \in Replies \ {"lost"} :
            LET failed == run[i].errors \/ reply = "refused"
            IN  Becomes(i, IF Throws(reply) THEN Aborted(run[i])
                           ELSE [run[i] EXCEPT !.pc = "unlocking", !.errors = failed,
                                   !.exit = code(failed)])
      BY DEF ReportRun
    <2> DEFINE failed == run[i].errors \/ reply = "refused"
    <2>2. failed \in BOOLEAN /\ (run[i].errors => failed)
      BY <1>1
    <2>3. Becomes(i, Aborted(run[i])) \/ Becomes(i, next(failed))
      BY <2>1
    <2> HIDE DEF failed, next
    <2> QED BY <2>2, <2>3
  <1>4. CASE Becomes(i, Aborted(run[i]))
    <2>1. run'[i] = Aborted(run[i])
      BY <1>1, <1>4 DEF Becomes
    <2>2. /\ Aborted(run[i]) \in Plans /\ run'[i].pc = "unlocking" /\ run'[i].exit = 1
          /\ run'[i].row = run[i].row /\ run'[i].sha = run[i].sha /\ run'[i].quiet = run[i].quiet
      BY <1>1, <2>1, AbortedFacts
    <2>3. run'[i].quiet => Knows(run[i])'
      BY <1>1, <1>2, <2>2, FailedKnows
    <2> QED BY <1>1, <1>2, <1>4, <2>2, <2>3, OneBecomes
  <1>5. ASSUME NEW failed \in BOOLEAN, run[i].errors => failed, Becomes(i, next(failed))
        PROVE  SyncInv'
    <2>1. /\ code(failed) \in Exits /\ (code(failed) # 1 => ~failed)
          /\ code(failed) = 0 => run[i].conflicts = {}
      BY DEF Exits
    <2>2. /\ next(failed) \in Plans /\ next(failed).pc = "unlocking"
          /\ next(failed).push = run[i].push /\ next(failed).row = run[i].row
          /\ next(failed).sha = run[i].sha /\ next(failed).quiet = run[i].quiet
          /\ next(failed).conflicts = run[i].conflicts /\ next(failed).exit = code(failed)
      <3> HIDE DEF code
      <3> QED BY <1>1, <2>1 DEF Plans
    <2>3. run'[i] = next(failed)
      BY <1>1, <1>5 DEF Becomes
    <2> HIDE DEF next, code
    <2>4. ConflictsStand(run[i]) => ConflictsStand(run[i])'
      BY <1>2, <2>2, <2>3 DEF ConflictsStand
    <2>5. Contained(run[i]) => Contained(run[i])'
      BY <1>2, <2>2, <2>3 DEF Contained, At, ResolvedAsCopy
    <2>6. run'[i].quiet => Knows(run[i])'
      BY <1>1, <1>2, <1>5, <2>1, <2>2, <2>3, <2>4, <2>5 DEF Knows, Ended
    <2> QED BY <1>1, <1>2, <1>5, <2>2, <2>6, OneBecomes
  <1> QED BY <1>3, <1>4, <1>5

\* A disturbed plan is a plan that claims nothing.
LEMMA DisturbedPlan ==
  ASSUME NEW r \in Plans
  PROVE  [r EXCEPT !.quiet = FALSE] \in Plans /\ ~[r EXCEPT !.quiet = FALSE].quiet
  BY DEF Plans

\* An edit of the owner, or of the application, leaves no run undisturbed.
LEMMA EditInv ==
  ASSUME SyncInv, EditVault \/ EditCloud, SyncAssumption
  PROVE  SyncInv'
  <1>1. Types /\ run' = Disturb(Runs) /\ lock' = lock
    BY DEF SyncInv, EditVault, EditCloud, Edit
  <1>2. \A k \in Runs : /\ [run[k] EXCEPT !.quiet = FALSE] \in Plans
                        /\ ~[run[k] EXCEPT !.quiet = FALSE].quiet
    <2>1. TAKE k \in Runs
    <2>2. run[k] \in Plans
      BY <1>1 DEF Types
    <2> QED BY <2>2, DisturbedPlan
  <1>3. run' \in [Runs -> Plans] /\ \A k \in Runs : ~run'[k].quiet
    BY <1>1, <1>2 DEF Disturb
  <1>4. /\ vaultRow' \in [Jobs -> Bytes \cup {Absent}]
        /\ vault' \in [Files -> Bytes \cup {Absent}]
        /\ cloudRow' \in [Jobs -> Bytes \cup {Absent}]
    BY <1>1 DEF Types, EditVault, EditCloud
  <1>5. /\ cloud' \subseteq CloudFiles
        /\ \A c, d \in cloud' : c.file = d.file /\ c.copy = d.copy => c = d
    <2>1. CASE cloud' = cloud
      BY <1>1, <2>1 DEF Types
    <2>2. CASE \E f \in Files, b \in Bytes : cloud' = Store(f, 0, b)
      <3>1. 0 \in 0..MaxCopies
        BY DEF SyncAssumption
      <3> QED BY <1>1, <2>2, <3>1, StoreFacts
    <2> QED BY <2>1, <2>2 DEF EditVault, EditCloud
  <1> QED BY <1>1, <1>3, <1>4, <1>5 DEF SyncInv, Types

-----------------------------------------------------------------------------
\* No run, no promise.
LEMMA SyncInitInv == Init => SyncInv
  <1> SUFFICES ASSUME Init PROVE SyncInv
    OBVIOUS
  <1>1. Idle \in Plans /\ ~Idle.quiet
    BY IdlePlan
  <1>2. run \in [Runs -> Plans] /\ \A k \in Runs : ~run[k].quiet
    BY <1>1 DEF Init
  <1>3. /\ vaultRow \in [Jobs -> Bytes \cup {Absent}] /\ vault \in [Files -> Bytes \cup {Absent}]
        /\ cloudRow \in [Jobs -> Bytes \cup {Absent}] /\ cloud = {} /\ lock = Absent
    BY DEF Init
  <1> QED BY <1>2, <1>3 DEF SyncInv, Types

\* Every step keeps what the runs know.
LEMMA SyncStepInv == SyncAssumption /\ SyncInv /\ [Next]_vars => SyncInv'
  <1> SUFFICES ASSUME SyncAssumption, SyncInv, [Next]_vars PROVE SyncInv'
    OBVIOUS
  <1>1. CASE UNCHANGED vars
    BY <1>1 DEF SyncInv, Types, Knows, ConflictsStand, Contained, Ended, At, ResolvedAsCopy, vars
  <1>2. CASE StartTask
    <2>1. Task \in Runs /\ {} \in SUBSET Files /\ TRUE \in BOOLEAN
      BY DEF SyncAssumption
    <2> QED BY <1>2, <2>1, StartInv DEF StartTask
  <1>3. CASE StartByHand
    BY <1>3, StartInv DEF StartByHand
  <1>4. ASSUME NEW i \in Runs, RunStep(i) \/ Killed(i) PROVE SyncInv'
    BY <1>4, LockInv, ReadVaultInv, DiffInv, PostJobInv, PutFileInv, PutCopyInv, PushedInv,
       VerifyInv, ReportRunInv, KilledInv DEF RunStep
  <1>5. CASE EditVault \/ EditCloud
    BY <1>5, EditInv
  <1> QED BY <1>1, <1>2, <1>3, <1>4, <1>5 DEF Next

\* What the runs know makes their exit codes right.
LEMMA SyncFacts == SyncAssumption /\ SyncInv => SyncTypeOK /\ ExitTellsTruth
  <1> SUFFICES ASSUME SyncAssumption, SyncInv PROVE SyncTypeOK /\ ExitTellsTruth
    OBVIOUS
  <1>1. Types
    BY DEF SyncInv
  <1>2. SyncTypeOK
    BY <1>1 DEF Types, SyncTypeOK, Plans, Exits
  <1>3. ASSUME NEW i \in Runs, run[i].pc = "off", run[i].push, run[i].quiet
        PROVE  /\ run[i].exit = 0 =>
                    \A j \in Jobs : vaultRow[j] # Absent =>
                      cloudRow[j] = vaultRow[j]
                      /\ \A f \in Files : f[1] = j /\ vault[f] # Absent => OnCloud(f)
               /\ run[i].exit = 2 =>
                    \A f \in Files : f \in run[i].conflicts /\ f[2] \notin UnsafeNames =>
                      ~\E c \in cloud : c.file = f /\ c.bytes = vault[f]
    <2>1. Knows(run[i])
      BY <1>3 DEF SyncInv
    <2>2. run[i].row = vaultRow /\ run[i].sha = vault
      BY <2>1 DEF Knows
    <2>3. CASE run[i].exit = 0
      <3>1. Contained(run[i]) /\ run[i].conflicts = {}
        BY <1>3, <2>1, <2>3 DEF Knows, Ended
      <3> QED BY <2>2, <2>3, <3>1 DEF Contained, OnCloud
    <2>4. CASE run[i].exit = 2
      <3>1. ConflictsStand(run[i])
        BY <1>3, <2>1, <2>4 DEF Knows, Ended
      <3> QED BY <2>2, <2>4, <3>1 DEF ConflictsStand
    <2> QED BY <2>3, <2>4
  <1> QED BY <1>2, <1>3 DEF ExitTellsTruth

\* Whatever runs, edits, failures and kills do at once: the exit code of a push
\* that nobody disturbed tells the truth (main of ops/sync-data.mjs).
THEOREM SyncTold ==
  ASSUME SyncAssumption
  PROVE  Spec => [](SyncTypeOK /\ ExitTellsTruth)
  <1>1. Spec => []SyncInv
    BY SyncInitInv, SyncStepInv, PTL DEF Spec
  <1> QED BY <1>1, SyncFacts, PTL

\* The edits are counted.
EditsNatural == edits \in Nat

\* There are none at first.
LEMMA NoEditsAtFirst == Init => EditsNatural
  BY DEF Init, EditsNatural

\* The count of edits stays a number.
LEMMA EditsCounted == EditsNatural /\ [Next]_vars => EditsNatural'
  <1>1. ASSUME NEW i \in Runs, RunStep(i) \/ Killed(i) PROVE edits' = edits
    <2>1. CASE \/ ProbeLock(i) \/ TakeLock(i) \/ ReadVault(i) \/ Diff(i) \/ Pushed(i)
               \/ Verify(i) \/ ReportRun(i) \/ RemoveLock(i) \/ Killed(i)
      BY <2>1 DEF ProbeLock, TakeLock, ReadVault, Diff, Pushed, Verify, ReportRun, RemoveLock,
         Killed, environment
    <2>2. CASE PostJob(i)
      BY SMTT(30), <2>2 DEF PostJob
    <2>3. CASE PutFile(i) \/ PutCopy(i)
      BY <2>3 DEF PutFile, PutCopy, Put
    <2> QED BY <1>1, <2>1, <2>2, <2>3 DEF RunStep
  <1>2. StartTask \/ StartByHand => edits' = edits
    BY DEF StartTask, StartByHand, environment
  <1>3. EditVault \/ EditCloud => edits' = edits + 1
    BY DEF EditVault, EditCloud, Edit
  <1> QED BY <1>1, <1>2, <1>3 DEF EditsNatural, Next, vars

\* No step of a run removes or changes anything on the cloud.
LEMMA StepOnlyInserts ==
  SyncAssumption /\ SyncInv /\ EditsNatural /\ [Next]_vars => [OnlyInserts]_vars
  <1> SUFFICES ASSUME SyncAssumption, SyncInv, EditsNatural, Next PROVE OnlyInserts
    BY DEF OnlyInserts, vars
  <1>1. Types
    BY DEF SyncInv
  <1>2. CASE StartTask \/ StartByHand
    BY <1>2 DEF StartTask, StartByHand, Start, OnlyInserts
  <1>3. ASSUME NEW i \in Runs, RunStep(i) \/ Killed(i) PROVE OnlyInserts
    <2>1. run[i] \in Plans
      BY <1>1 DEF Types
    <2>2. ASSUME UNCHANGED <<cloudRow, cloud>> PROVE OnlyInserts
      BY <2>2 DEF OnlyInserts
    <2>3. CASE PostJob(i)
      <3>1. cloud' = cloud
        BY <2>3 DEF PostJob
      <3>2. \A j \in Jobs : cloudRow[j] \in {Absent, cloudRow'[j]}
        BY <1>1, <2>1, <2>3 DEF PostJob, Types
      <3> QED BY <3>1, <3>2 DEF OnlyInserts
    <2>4. ASSUME NEW f \in Files, NEW copy \in 0..MaxCopies, NEW reply \in Replies,
                 run[i].pc = "posting", Put(i, f, copy, reply)
          PROVE  OnlyInserts
      <3>1. cloudRow' = cloudRow
        BY <2>4 DEF Put
      <3>2. cloud' = cloud \/ (vault[f] \in Bytes /\ cloud' = Store(f, copy, vault[f])
                               /\ AddJobFileIfAbsent(f, copy, vault[f]) = "inserted")
        BY <2>4, PutFacts
      <3>3. cloud \subseteq cloud'
        BY <1>1, <3>2, StoreFacts
      <3> QED BY <3>1, <3>3 DEF OnlyInserts
    <2>5. CASE PutFile(i)
      <3>1. PICK f \in run[i].newFiles, reply \in Replies : Put(i, f, 0, reply)
        BY <2>5 DEF PutFile
      <3>2. f \in Files /\ 0 \in 0..MaxCopies /\ run[i].pc = "posting"
        BY <2>1, <2>5 DEF Plans, PutFile, SyncAssumption
      <3> QED BY <2>4, <3>1, <3>2
    <2>6. CASE PutCopy(i)
      <3>1. PICK q \in run[i].resolves, reply \in Replies :
              q[2] <= MaxCopies /\ Put(i, q[1], q[2], reply)
        BY <2>6 DEF PutCopy
      <3>2. q[1] \in Files /\ q[2] \in 0..MaxCopies /\ run[i].pc = "posting"
        BY <2>1, <2>6, <3>1 DEF Plans, PutCopy, Copies, SyncAssumption
      <3> QED BY <2>4, <3>1, <3>2
    <2>7. CASE \/ ProbeLock(i) \/ TakeLock(i) \/ ReadVault(i) \/ Diff(i) \/ Pushed(i)
               \/ Verify(i) \/ ReportRun(i) \/ RemoveLock(i) \/ Killed(i)
      BY <2>2, <2>7 DEF ProbeLock, TakeLock, ReadVault, Diff, Pushed, Verify, ReportRun,
         RemoveLock, Killed
    <2> QED BY <1>3, <2>3, <2>5, <2>6, <2>7 DEF RunStep
  <1>4. CASE EditVault \/ EditCloud
    <2>1. edits' = edits + 1 /\ edits \in Nat
      BY <1>4 DEF EditVault, EditCloud, Edit, EditsNatural
    <2> QED BY <2>1 DEF OnlyInserts
  <1> QED BY <1>2, <1>3, <1>4 DEF Next

\* Only the application changes or removes what the cloud holds: the four sync
\* endpoints of server/index.js insert, whoever calls them, in whatever order.
THEOREM SyncInserts ==
  ASSUME SyncAssumption
  PROVE  Spec => InsertOnly
  <1>1. Spec => []SyncInv
    BY SyncInitInv, SyncStepInv, PTL DEF Spec
  <1>2. Spec => []EditsNatural
    BY NoEditsAtFirst, EditsCounted, PTL DEF Spec
  <1> QED BY <1>1, <1>2, StepOnlyInserts, PTL DEF Spec, InsertOnly

=============================================================================
