------------------------------ MODULE FindsCache ------------------------------
(***************************************************************************)
(* The finds of the laptop: a workbook that only discovery.py reads and    *)
(* writes, in processes the server spawns, and the dump of it the server   *)
(* keeps until the file's time or a flag says it is stale (readDiscovery,  *)
(* /api/discovery, /decide, pruneDiscoveriesBeforeDiscover and the watcher *)
(* of server/index.js).                                                    *)
(*                                                                         *)
(* Abstractions.  discovery.py is not in the repository: it reads, or      *)
(* writes, the workbook at one moment between its launch and its end, and  *)
(* fails when Excel holds the file.  A find is its row; whether it is      *)
(* tracked depends on the job folders, which a dump reads too.             *)
(***************************************************************************)
EXTENDS Integers

CONSTANTS
  Finds,
  Calls,       \* HTTP calls that spawn a process, or are served from the cache
  Nothing,     \* no dump
  MaxWrites, MaxJobs, MaxHolds   \* bounds

VARIABLES
  book,      \* the workbook: the decision of each row there is, its time, who holds it
  tracked,   \* finds that have a job folder
  watched,   \* whether the watcher has yet to tell of a change of a folder
  cache,     \* discoveryCache: a dump and the time it was asked for under
  dirty,     \* discoveryDirty
  calls,     \* what each call is at
  count      \* bounds

findsVars == <<book, tracked, watched, cache, dirty, calls, count>>

Spend(counter, most) == count[counter] < most /\ count' = [count EXCEPT ![counter] = @ + 1]

-----------------------------------------------------------------------------
\* What a dump tells.
Dump == [rows |-> book.rows, tracked |-> tracked]

\* missed: whether a change of a folder was told between the dump and its end.
At(phase, asked, dump) == [phase |-> phase, asked |-> asked, dump |-> dump, missed |-> FALSE]
NotMade == At("idle", 0, Nothing)
Done == At("done", 0, Nothing)

\* Each call is made once.
Steps(c, from, to) == calls[c].phase = from /\ calls' = [calls EXCEPT ![c] = to]

(***************************************************************************)
(* Reads.                                                                  *)
(***************************************************************************)
\* The cache is served while the file has the time it had when the dump was asked for
\* and nothing has set the flag.
Hit == cache # Nothing /\ ~dirty /\ cache.asked = book.time

Get(c) ==
  /\ Steps(c, "idle", IF Hit THEN Done ELSE At("dump", book.time, Nothing))
  /\ UNCHANGED <<book, tracked, watched, cache, dirty, count>>

DumpReads(c) ==
  /\ Steps(c, "dump", IF book.held THEN At("refused", 0, Nothing) ELSE At("dumped", calls[c].asked, Dump))
  /\ UNCHANGED <<book, tracked, watched, cache, dirty, count>>

\* The dump is kept, under the time of the file before it began, and the flag lowered.
DumpEnds(c) ==
  /\ Steps(c, "dumped", Done)
  /\ cache' = [asked |-> calls[c].asked, dump |-> calls[c].dump, missed |-> calls[c].missed]
  /\ dirty' = FALSE
  /\ UNCHANGED <<book, tracked, watched, count>>

\* The workbook is open in Excel: the last dump is served, told to be so.
RefusalEnds(c) ==
  /\ Steps(c, "refused", Done)
  /\ UNCHANGED <<book, tracked, watched, cache, dirty, count>>

(***************************************************************************)
(* Writes.                                                                 *)
(***************************************************************************)
Written(rows) == book' = [book EXCEPT !.rows = rows, !.time = @ + 1]

Without(rows, f) == [g \in DOMAIN rows \ {f} |-> rows[g]]

\* POST /api/discovery/decide spawns the process, which finds the row or not.
Decide(c) ==
  /\ Steps(c, "idle", At("decide", 0, Nothing))
  /\ UNCHANGED <<book, tracked, watched, cache, dirty, count>>

DecideWrites(c) ==
  /\ ~book.held /\ Spend("writes", MaxWrites)
  /\ \E f \in DOMAIN book.rows, decision \in {"none", "skip", "maybe"} :
       Written([book.rows EXCEPT ![f] = decision])
  /\ Steps(c, "decide", At("wrote", 0, Nothing))
  /\ UNCHANGED <<tracked, watched, cache, dirty>>

\* pruneDiscoveriesBeforeDiscover: rows whose deadline is over go, tracked ones stay.
\* After a minute the process is killed, whatever it has done: the flag is not set.
Prune(c) ==
  /\ ~book.held /\ Spend("writes", MaxWrites)
  /\ \E f \in DOMAIN book.rows \ tracked : Written(Without(book.rows, f))
  /\ \E timely \in BOOLEAN :
       Steps(c, "decide", At(IF timely THEN "wrote" ELSE "late", 0, Nothing))
  /\ UNCHANGED <<tracked, watched, cache, dirty>>

WriteEnds(c) ==
  \/ /\ Steps(c, "wrote", Done) /\ dirty' = TRUE
     /\ UNCHANGED <<book, tracked, watched, cache, count>>
  \/ /\ Steps(c, "late", Done)
     /\ UNCHANGED <<book, tracked, watched, cache, dirty, count>>
  \/ /\ book.held /\ Steps(c, "decide", Done)
     /\ UNCHANGED <<book, tracked, watched, cache, dirty, count>>

(***************************************************************************)
(* Excel, the job folders and the watcher.                                 *)
(***************************************************************************)
Opens ==
  /\ ~book.held /\ Spend("holds", MaxHolds) /\ book' = [book EXCEPT !.held = TRUE]
  /\ UNCHANGED <<tracked, watched, cache, dirty, calls>>

\* The owner may save an edit before the workbook is closed.
Closes ==
  /\ book.held
  /\ \/ book' = [book EXCEPT !.held = FALSE]
     \/ \E f \in DOMAIN book.rows :
          book' = [rows |-> Without(book.rows, f), time |-> book.time + 1, held |-> FALSE]
  /\ UNCHANGED <<tracked, watched, cache, dirty, calls, count>>

\* A pursued find gets its folder, or the owner removes one.
JobChanges(f) ==
  /\ Spend("jobs", MaxJobs)
  /\ tracked' = (tracked \ {f}) \cup ({f} \ tracked) /\ watched' = TRUE
  /\ UNCHANGED <<book, cache, dirty, calls>>

\* The watcher sets the flag, which the end of a dump under way lowers again.
Watch ==
  /\ watched /\ watched' = FALSE /\ dirty' = TRUE
  /\ calls' = [c \in Calls |-> [calls[c] EXCEPT !.missed = @ \/ calls[c].phase = "dumped"]]
  /\ UNCHANGED <<book, tracked, cache, count>>

FindsInit ==
  /\ book = [rows |-> [f \in Finds |-> "none"], time |-> 1, held |-> FALSE]
  /\ tracked = {} /\ watched = FALSE /\ cache = Nothing /\ dirty = FALSE
  /\ calls = [c \in Calls |-> NotMade] /\ count = [writes |-> 0, jobs |-> 0, holds |-> 0]

FindsNext ==
  \/ \E c \in Calls :
       \/ Get(c) \/ DumpReads(c) \/ DumpEnds(c) \/ RefusalEnds(c)
       \/ Decide(c) \/ DecideWrites(c) \/ Prune(c) \/ WriteEnds(c)
  \/ Opens \/ Closes \/ Watch \/ \E f \in Finds : JobChanges(f)

FindsSpec == FindsInit /\ [][FindsNext]_findsVars

-----------------------------------------------------------------------------
(***************************************************************************)
(* Properties.                                                             *)
(***************************************************************************)
FindsTypeOK ==
  /\ DOMAIN book.rows \subseteq Finds /\ tracked \subseteq Finds
  /\ cache # Nothing => cache.asked <= book.time

\* What the cache would serve is the workbook as it is, however reads, decisions, a
\* prune and Excel overlap; and which finds are tracked, unless a folder changed in the
\* midst of the dump or the watcher has yet to tell of it.
CacheIsNow ==
  Hit => /\ cache.dump.rows = book.rows
         /\ cache.dump.tracked = tracked \/ watched \/ cache.missed

\* "serve the cached result until the workbook's mtime changes OR a job file changes
\* (which affects the "tracked" dedup flags)" (server/index.js:4641-4643).
ServedUntilJobChanges == Hit /\ ~watched => cache.dump.tracked = tracked
=============================================================================
