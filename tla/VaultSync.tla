------------------------------ MODULE VaultSync ------------------------------
(***************************************************************************)
(* The vault-to-cloud sync: ops/sync-data.mjs run on the owner's machine,  *)
(* by a scheduled task and now and then by hand, against the four          *)
(* insert-only endpoints of the server.  A run reads and hashes the vault, *)
(* compares with the cloud's manifest, inserts what is missing, compares   *)
(* again and reports.  Meanwhile the vault is edited, the application      *)
(* writes to the cloud, calls fail and a run may be killed.                *)
(*                                                                         *)
(* Abstractions.  The text of a job and the bytes of a file are one of     *)
(* Bytes, and a hash is what it hashes; the hash cache then returns what a *)
(* fresh read would.  A dated copy is its number.  A read of the vault is  *)
(* one step, as is a manifest.  The order of a run's inserts is open.      *)
(***************************************************************************)
EXTENDS Integers, FiniteSets

CONSTANTS
  Runs,        \* processes of sync-data.mjs: Task and those started by hand
  Task,        \* the one of the scheduled task
  Jobs, Names, Bytes,
  UnsafeNames, \* names that isSafeName refuses
  Absent,
  RowText,         \* stands for the job's own text where a file name is expected
  MaxCopies, MaxEdits, MaxFaults, MaxByHand   \* bounds

VARIABLES
  vaultRow, vault,  \* the owner's folders: text per job, bytes per file
  cloudRow, cloud,  \* the store: text per job, a set of files
  lock,             \* sync-data.lock: who wrote it
  run,              \* the processes
  edits, faults, byHand

vars == <<vaultRow, vault, cloudRow, cloud, lock, run, edits, faults, byHand>>
environment == <<edits, faults, byHand>>

Files == Jobs \X Names
Held(f, copy, b) == [file |-> f, copy |-> copy, bytes |-> b]
CloudFiles == [file : Files, copy : 0..MaxCopies, bytes : Bytes]

Idle == [pc |-> "off", push |-> FALSE, want |-> {}, row |-> [j \in Jobs |-> Absent],
         sha |-> [f \in Files |-> Absent], newJobs |-> {}, newFiles |-> {}, resolves |-> {},
         conflicts |-> {}, errors |-> FALSE, exit |-> 0, quiet |-> FALSE]

-----------------------------------------------------------------------------
(***************************************************************************)
(* What both sides compute.                                                *)
(***************************************************************************)
\* The files of a job in a manifest.
At(manifest, f) == {c \in manifest : c.file = f /\ c.copy = 0}

\* The bytes were imported as a dated copy of some earlier run.
ResolvedAsCopy(manifest, f, b) ==
  \E c \in manifest : c.file[1] = f[1] /\ c.copy > 0 /\ c.bytes = b

\* Mutant: a conflict once resolved is raised again.
NeverResolved(manifest, f, b) == FALSE

AlreadyResolved(manifest, f, b) == ResolvedAsCopy(manifest, f, b)

\* The first dated name the job has not taken in this manifest.
DatedCopyName(manifest, f) ==
  CHOOSE n \in 1..MaxCopies + 1 :
    /\ ~\E c \in manifest : c.file = f /\ c.copy = n
    /\ \A k \in 1..n - 1 : \E c \in manifest : c.file = f /\ c.copy = k

\* What the server answers to a file, and does with it.
\* Mutant: bytes that differ replace the cloud's.
AddJobFileAnyway(f, copy, b) ==
  IF cloudRow[f[1]] = Absent THEN "job-not-found" ELSE "inserted"

AddJobFileIfAbsent(f, copy, b) ==
  LET there == {c \in cloud : c.file = f /\ c.copy = copy}
  IN  IF cloudRow[f[1]] = Absent THEN "job-not-found"
      ELSE IF there = {} THEN "inserted"
      ELSE IF \E c \in there : c.bytes = b THEN "noop"
      ELSE "bytes-differ"

Store(f, copy, b) ==
  {c \in cloud : c.file # f \/ c.copy # copy} \cup {Held(f, copy, b)}

-----------------------------------------------------------------------------
(***************************************************************************)
(* A run.                                                                  *)
(***************************************************************************)
\* Another process sees the sides change under it.
Disturb(others) ==
  [i \in Runs |-> IF i \in others THEN [run[i] EXCEPT !.quiet = FALSE] ELSE run[i]]

Becomes(i, r) == run' = [run EXCEPT ![i] = r]

\* A call is answered, refused with an error, or breaks before or after the
\* server acted.  MaxFaults bounds all but the first.
Replies == {"answered", "refused", "broken", "lost"}
Acts(reply) == reply \in {"answered", "lost"}
Throws(reply) == reply \in {"broken", "lost"}
Faulty(reply) ==
  IF reply = "answered" THEN UNCHANGED faults
                        ELSE faults < MaxFaults /\ faults' = faults + 1

Aborted(r) == [r EXCEPT !.pc = "unlocking", !.errors = TRUE, !.exit = 1]

Start(i, push, want) ==
  /\ run[i].pc = "off"
  /\ Becomes(i, [Idle EXCEPT !.pc = "probing", !.push = push, !.want = want])
  /\ UNCHANGED <<vaultRow, vault, cloudRow, cloud, lock>>

StartTask == Start(Task, TRUE, {}) /\ UNCHANGED environment
StartByHand ==
  /\ byHand < MaxByHand /\ byHand' = byHand + 1
  /\ \E i \in Runs \ {Task}, push \in BOOLEAN, want \in SUBSET Files : Start(i, push, want)
  /\ UNCHANGED <<edits, faults>>

Alive(i) == i \in Runs /\ run[i].pc # "off"

\* Mutant: a lock counts though its process is gone.
LockedByAnyone(i) == lock # Absent

LockHeld(i) == lock # i /\ Alive(lock)

\* acquireLock reads the lock, and then writes it.
ProbeLock(i) ==
  /\ run[i].pc = "probing"
  /\ Becomes(i, IF LockHeld(i) THEN Idle ELSE [run[i] EXCEPT !.pc = "locking"])
  /\ UNCHANGED <<vaultRow, vault, cloudRow, cloud, lock, environment>>

TakeLock(i) ==
  /\ run[i].pc = "locking"
  /\ lock' = i
  /\ Becomes(i, [run[i] EXCEPT !.pc = "reading"])
  /\ UNCHANGED <<vaultRow, vault, cloudRow, cloud, environment>>

ReadVault(i) ==
  /\ run[i].pc = "reading"
  /\ Becomes(i, [run[i] EXCEPT !.pc = "diffing", !.row = vaultRow, !.sha = vault, !.quiet = TRUE])
  /\ UNCHANGED <<vaultRow, vault, cloudRow, cloud, lock, environment>>

\* The plan of a run, from what it read and the manifest.
Planned(r) ==
  LET jobs == {j \in Jobs : r.row[j] # Absent}
      files == {f \in Files : f[1] \in jobs /\ r.sha[f] # Absent}
      safe == {f \in files : f[2] \notin UnsafeNames}
      differ == {f \in safe : /\ At(cloud, f) # {}
                              /\ ~\E c \in At(cloud, f) : c.bytes = r.sha[f]
                              /\ ~AlreadyResolved(cloud, f, r.sha[f])}
  IN  [r EXCEPT
        !.newJobs = {j \in jobs : cloudRow[j] = Absent},
        !.newFiles = {f \in safe : At(cloud, f) = {}},
        !.resolves = {<<f, DatedCopyName(cloud, f)>> : f \in differ \cap r.want},
        !.conflicts = {<<j, RowText>> : j \in {k \in jobs : cloudRow[k] \notin {Absent, r.row[k]}}}
                      \cup (files \ safe) \cup (differ \ r.want)]

\* GET the manifest and plan; a dry run ends here.
Diff(i) ==
  /\ run[i].pc = "diffing"
  /\ \E reply \in Replies \ {"lost"} :
       /\ Faulty(reply)
       /\ LET r == Planned(run[i])
          IN  Becomes(i, IF reply # "answered" THEN Aborted(run[i])
                         ELSE IF run[i].push THEN [r EXCEPT !.pc = "posting"]
                         ELSE [r EXCEPT !.pc = "unlocking",
                                        !.exit = IF r.conflicts = {} THEN 0 ELSE 2])
  /\ UNCHANGED <<vaultRow, vault, cloudRow, cloud, lock, edits, byHand>>

\* POST /api/sync/jobs, for a job the cloud does not have.
PostJob(i) ==
  /\ run[i].pc = "posting"
  /\ \E j \in run[i].newJobs, reply \in Replies :
       LET exists == cloudRow[j] # Absent
           inserts == Acts(reply) /\ ~exists
           r == [run[i] EXCEPT !.newJobs = @ \ {j}]
           next == IF Throws(reply) THEN Aborted(r)
                   ELSE IF reply = "refused" THEN [r EXCEPT !.errors = TRUE]
                   ELSE IF exists THEN [r EXCEPT !.conflicts = @ \cup {<<j, RowText>>}]
                   ELSE r
       IN  /\ Faulty(reply)
           /\ cloudRow' = IF inserts THEN [cloudRow EXCEPT ![j] = run[i].row[j]] ELSE cloudRow
           /\ run' = [Disturb(IF inserts THEN Runs \ {i} ELSE {}) EXCEPT ![i] = next]
  /\ UNCHANGED <<vaultRow, vault, cloud, lock, edits, byHand>>

\* What the run makes of the answer to a PUT, of a plain file and of a copy.
Answered(r, f, copy, said) ==
  IF copy = 0 THEN [r EXCEPT !.conflicts = @ \cup (IF said = "bytes-differ" THEN {f} ELSE {}),
                             !.errors = @ \/ said = "job-not-found"]
              ELSE [r EXCEPT !.errors = @ \/ said # "inserted"]

\* PUT a file: its bytes are read again, and a file that is gone throws.
Put(i, f, copy, reply) ==
  LET b == vault[f]
      said == AddJobFileIfAbsent(f, copy, b)
      inserts == b # Absent /\ Acts(reply) /\ said = "inserted"
      next == IF b = Absent \/ Throws(reply) THEN Aborted(run[i])
              ELSE IF reply = "refused" THEN [run[i] EXCEPT !.errors = TRUE]
              ELSE Answered(run[i], f, copy, said)
  IN  /\ Faulty(reply) /\ (b = Absent => reply = "answered")
      /\ cloud' = IF inserts THEN Store(f, copy, b) ELSE cloud
      /\ run' = [Disturb(IF inserts THEN Runs \ {i} ELSE {}) EXCEPT
                   ![i] = [next EXCEPT !.newFiles = @ \ {f}, !.resolves = @ \ {<<f, copy>>}]]
  /\ UNCHANGED <<vaultRow, vault, cloudRow, lock, edits, byHand>>

PutFile(i) ==
  /\ run[i].pc = "posting" /\ run[i].newJobs = {}
  /\ \E f \in run[i].newFiles, reply \in Replies : Put(i, f, 0, reply)

PutCopy(i) ==
  /\ run[i].pc = "posting" /\ run[i].newJobs = {} /\ run[i].newFiles = {}
  /\ \E c \in run[i].resolves, reply \in Replies :
       c[2] <= MaxCopies /\ Put(i, c[1], c[2], reply)

Pushed(i) ==
  /\ run[i].pc = "posting" /\ run[i].newJobs = {} /\ run[i].newFiles = {}
  /\ \A c \in run[i].resolves : c[2] > MaxCopies
  /\ Becomes(i, [run[i] EXCEPT !.pc = "verifying"])
  /\ UNCHANGED <<vaultRow, vault, cloudRow, cloud, lock, environment>>

\* The containment check: what was hashed is on the cloud, or reported.
Contained(r) ==
  \A j \in {k \in Jobs : r.row[k] # Absent} :
    /\ cloudRow[j] # Absent
    /\ cloudRow[j] = r.row[j] \/ <<j, RowText>> \in r.conflicts
    /\ \A f \in {g \in Files : g[1] = j /\ r.sha[g] # Absent} :
         \/ f \in r.conflicts
         \/ \E c \in At(cloud, f) : c.bytes = r.sha[f]
         \/ ResolvedAsCopy(cloud, f, r.sha[f])

Verify(i) ==
  /\ run[i].pc = "verifying"
  /\ \E reply \in Replies \ {"lost"} :
       /\ Faulty(reply)
       /\ Becomes(i, IF reply # "answered" THEN Aborted(run[i])
                     ELSE [run[i] EXCEPT !.pc = "reporting",
                                         !.errors = @ \/ ~Contained(run[i])])
  /\ UNCHANGED <<vaultRow, vault, cloudRow, cloud, lock, edits, byHand>>

\* POST /api/sync/runs, and the exit code.
ReportRun(i) ==
  /\ run[i].pc = "reporting"
  /\ \E reply \in Replies \ {"lost"} :
       /\ Faulty(reply)
       /\ LET failed == run[i].errors \/ reply = "refused"
          IN  Becomes(i, IF Throws(reply) THEN Aborted(run[i])
                         ELSE [run[i] EXCEPT !.pc = "unlocking", !.errors = failed,
                                 !.exit = IF failed THEN 1
                                          ELSE IF run[i].conflicts # {} THEN 2 ELSE 0])
  /\ UNCHANGED <<vaultRow, vault, cloudRow, cloud, lock, edits, byHand>>

\* The finally block removes the lock file, whoever wrote it.
RemoveLock(i) ==
  /\ run[i].pc = "unlocking"
  /\ lock' = Absent
  /\ Becomes(i, [run[i] EXCEPT !.pc = "off"])
  /\ UNCHANGED <<vaultRow, vault, cloudRow, cloud, environment>>

\* The process dies where it stands; the lock file stays.
Killed(i) ==
  /\ Alive(i) /\ faults < MaxFaults /\ faults' = faults + 1
  /\ Becomes(i, Idle)
  /\ UNCHANGED <<vaultRow, vault, cloudRow, cloud, lock, edits, byHand>>

-----------------------------------------------------------------------------
(***************************************************************************)
(* The owner's vault, and the application on the cloud.                    *)
(***************************************************************************)
Edit == edits < MaxEdits /\ edits' = edits + 1 /\ run' = Disturb(Runs)

EditVault ==
  /\ Edit
  /\ \/ \E f \in Files, b \in Bytes \cup {Absent} :
          vaultRow[f[1]] # Absent /\ vault' = [vault EXCEPT ![f] = b] /\ UNCHANGED vaultRow
     \/ \E j \in Jobs, b \in Bytes : vaultRow' = [vaultRow EXCEPT ![j] = b] /\ UNCHANGED vault
  /\ UNCHANGED <<cloudRow, cloud, lock, faults, byHand>>

\* "Add lead", a status change, and a file the application or an agent saves.
EditCloud ==
  /\ Edit
  /\ \/ \E j \in Jobs, b \in Bytes : cloudRow' = [cloudRow EXCEPT ![j] = b] /\ UNCHANGED cloud
     \/ \E f \in Files, b \in Bytes :
          cloudRow[f[1]] # Absent /\ cloud' = Store(f, 0, b) /\ UNCHANGED cloudRow
  /\ UNCHANGED <<vaultRow, vault, lock, faults, byHand>>

Init ==
  /\ vaultRow \in [Jobs -> Bytes] /\ vault \in [Files -> Bytes \cup {Absent}]
  /\ cloudRow = [j \in Jobs |-> Absent] /\ cloud = {}
  /\ lock = Absent /\ run = [i \in Runs |-> Idle]
  /\ edits = 0 /\ faults = 0 /\ byHand = 0

RunStep(i) ==
  \/ ProbeLock(i) \/ TakeLock(i) \/ ReadVault(i) \/ Diff(i) \/ PostJob(i) \/ PutFile(i)
  \/ PutCopy(i) \/ Pushed(i) \/ Verify(i) \/ ReportRun(i) \/ RemoveLock(i)

Next ==
  \/ StartTask \/ StartByHand
  \/ \E i \in Runs : RunStep(i) \/ Killed(i)
  \/ EditVault \/ EditCloud

\* The task is started again and again; a process that runs goes on.
Fairness == WF_vars(StartTask) /\ \A i \in Runs : WF_vars(RunStep(i))
Spec == Init /\ [][Next]_vars
FairSpec == Spec /\ Fairness

-----------------------------------------------------------------------------
(***************************************************************************)
(* Properties.                                                             *)
(***************************************************************************)
\* Everything keeps its type, and a name on the cloud has one content.
SyncTypeOK ==
  /\ vaultRow \in [Jobs -> Bytes \cup {Absent}] /\ vault \in [Files -> Bytes \cup {Absent}]
  /\ cloudRow \in [Jobs -> Bytes \cup {Absent}] /\ cloud \subseteq CloudFiles
  /\ \A c, d \in cloud : c.file = d.file /\ c.copy = d.copy => c = d
  /\ lock \in Runs \cup {Absent}
  /\ \A i \in Runs : run[i].newFiles \subseteq Files /\ run[i].exit \in 0..2

\* A sync never changes or removes what the cloud holds, whatever two runs,
\* the vault and the application do at once: only the application does.
OnlyInserts ==
  \/ edits' # edits
  \/ /\ cloud \subseteq cloud'
     /\ \A j \in Jobs : cloudRow[j] \in {Absent, cloudRow'[j]}

InsertOnly == [][OnlyInserts]_vars

\* The bytes of f in the vault are on the cloud, under its name or a dated one.
OnCloud(f) == (\E c \in At(cloud, f) : c.bytes = vault[f]) \/ ResolvedAsCopy(cloud, f, vault[f])

\* The exit code of a push tells the truth, if nobody else touched either side
\* since it read the vault: clean means every job and file is on the cloud,
\* and a conflict over a file means that its bytes are not, under its name or a
\* dated one.
ExitTellsTruth ==
  \A i \in Runs : run[i].pc = "off" /\ run[i].push /\ run[i].quiet =>
    /\ run[i].exit = 0 =>
         \A j \in Jobs : vaultRow[j] # Absent =>
           cloudRow[j] = vaultRow[j]
           /\ \A f \in Files : f[1] = j /\ vault[f] # Absent => OnCloud(f)
    /\ run[i].exit = 2 =>
         \A f \in Files : f \in run[i].conflicts /\ f[2] \notin UnsafeNames =>
           ~\E c \in cloud : c.file = f /\ c.bytes = vault[f]

\* The task stands finished, with every file of the vault on the cloud or in
\* the conflicts it reports.
Accounted ==
  /\ run[Task].pc = "off"
  /\ \A f \in Files : vaultRow[f[1]] # Absent /\ vault[f] # Absent =>
                        OnCloud(f) \/ f \in run[Task].conflicts

\* Again and again it does: a killed run, its lock, a lost answer or a second
\* process hold nothing up for good.
FilesAccounted == []<>Accounted
=============================================================================
