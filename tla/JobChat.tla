------------------------------- MODULE JobChat -------------------------------
(***************************************************************************)
(* The chat of a job with the read-only assistant: GET and POST            *)
(* /api/jobs/:id/chat of server/index.js, the one file (or table) of all   *)
(* transcripts behind them, and JobChat.tsx at the bottom of the drawer.   *)
(*                                                                         *)
(* A POST reads every transcript, waits for the assistant, for up to three *)
(* minutes, and then writes every transcript.                              *)
(*                                                                         *)
(* Abstractions.  A message is its number, an answer that of its question; *)
(* the prompt, and which action an answer suggests, are data.  The drawer  *)
(* of one job is closed before that of another is opened.  A               *)
(* transcript is shorter than the hundred messages that are kept.          *)
(***************************************************************************)
EXTENDS Integers, Sequences, FiniteSets

CONSTANTS
  Jobs, Nobody,
  CanSpawn,     \* not the demo, and a claude binary
  MaxSends, MaxFailures, MaxOpens   \* bounds

VARIABLES
  chats,    \* job-chats.json, or job_chats
  posts,    \* POSTs under way, by message: what they read, and how far they are
  chat,     \* the mounted chat: its job, what it shows, whether it waits, its mount
  gets,     \* GETs under way, by mount
  told,     \* history: the messages whose answer was shown
  sends, failures, mounts   \* bounds

chatVars == <<chats, posts, chat, gets, told, sends, failures, mounts>>

Turn(role, n) == [role |-> role, of |-> n]
Closed == [job |-> Nobody, shows |-> <<>>, sending |-> FALSE, mount |-> 0]

\* The drawer is opened: the chat mounts, and GETs the transcript.
Open(j) ==
  /\ chat.job = Nobody /\ mounts < MaxOpens
  /\ mounts' = mounts + 1
  /\ chat' = [Closed EXCEPT !.job = j, !.mount = mounts']
  /\ gets' = gets \cup {[mount |-> mounts', job |-> j]}
  /\ UNCHANGED <<chats, posts, told, sends, failures>>

\* It is closed; what was sent goes on, and its answer finds nobody.
Close ==
  /\ chat.job # Nobody
  /\ chat' = Closed
  /\ UNCHANGED <<chats, posts, gets, told, sends, failures, mounts>>

\* The GET is answered: it replaces what is shown, unless the chat has gone.
Loaded(g) ==
  /\ g \in gets /\ gets' = gets \ {g}
  /\ chat' = IF chat.mount = g.mount THEN [chat EXCEPT !.shows = chats[g.job]] ELSE chat
  /\ UNCHANGED <<chats, posts, told, sends, failures, mounts>>

\* send: the bubble is shown at once, and the POST reads.  An instance that
\* cannot answer says so, and the box is off.
Send ==
  /\ chat.job # Nobody /\ ~chat.sending /\ CanSpawn /\ sends < MaxSends
  /\ sends' = sends + 1
  /\ chat' = [chat EXCEPT !.sending = TRUE, !.shows = Append(@, Turn("user", sends'))]
  /\ posts' = posts \cup {[n |-> sends', job |-> chat.job, mount |-> chat.mount, had |-> chats]}
  /\ UNCHANGED <<chats, gets, told, failures, mounts>>

\* Mutant: the question is kept when the assistant fails.
AskFirst(p) == [chats EXCEPT ![p.job] = Append(@, Turn("user", p.n))]

\* What a failed POST leaves stored: nothing of it.
AfterFailure(p) == chats

\* The transcripts a POST writes once the assistant has answered.
Answered(p) ==
  [p.had EXCEPT ![p.job] = @ \o <<Turn("user", p.n), Turn("assistant", p.n)>>]

Gone(p) == posts' = posts \ {p}

AssistantAnswers(p) ==
  /\ p \in posts /\ Gone(p)
  /\ chats' = Answered(p)
  /\ chat' = IF chat.mount = p.mount
             THEN [chat EXCEPT !.shows = Answered(p)[p.job], !.sending = FALSE] ELSE chat
  /\ told' = IF chat.mount = p.mount THEN told \cup {p.n} ELSE told
  /\ UNCHANGED <<gets, sends, failures, mounts>>

\* It times out, exits with an error or cannot be stored, or the call breaks
\* after it was: the bubble stays, over an error.
AssistantFails(p) ==
  /\ p \in posts /\ Gone(p) /\ failures < MaxFailures /\ failures' = failures + 1
  /\ chats' \in {AfterFailure(p), Answered(p)}
  /\ chat' = IF chat.mount = p.mount THEN [chat EXCEPT !.sending = FALSE] ELSE chat
  /\ UNCHANGED <<gets, told, sends, mounts>>

ChatInit ==
  /\ chats = [j \in Jobs |-> <<>>] /\ posts = {} /\ chat = Closed /\ gets = {} /\ told = {}
  /\ sends = 0 /\ failures = 0 /\ mounts = 0

ChatNext ==
  \/ \E j \in Jobs : Open(j)
  \/ Close \/ Send
  \/ \E g \in gets : Loaded(g)
  \/ \E p \in posts : AssistantAnswers(p) \/ AssistantFails(p)

ChatSpec == ChatInit /\ [][ChatNext]_chatVars

-----------------------------------------------------------------------------
(***************************************************************************)
(* Properties.                                                             *)
(***************************************************************************)
ChatTypeOK ==
  /\ \A j \in Jobs : \A i \in DOMAIN chats[j] : chats[j][i].of \in 1..sends
  /\ chat.job \in Jobs \cup {Nobody}
  /\ \A p \in posts : p.job \in Jobs
  /\ Cardinality({p \in posts : p.mount = chat.mount}) <= 1

\* A stored transcript is questions, each followed by its answer, and none of
\* them is stored twice or in the chat of two jobs.
TurnsArePaired ==
  /\ \A j \in Jobs : \A i \in DOMAIN chats[j] :
       LET t == chats[j][i]
       IN  IF i % 2 = 1 THEN i < Len(chats[j]) /\ chats[j][i + 1] = Turn("assistant", t.of)
                        ELSE t.role = "assistant"
  /\ \A j, k \in Jobs : \A i \in DOMAIN chats[j], l \in DOMAIN chats[k] :
       chats[j][i] = chats[k][l] => j = k /\ i = l

\* "append it, run the read-only assistant, append the reply, persist"
\* (server/index.js:4543): an answer that was shown stays in the transcript.
AnsweredIsKept ==
  \A n \in told : \E j \in Jobs : \E i \in DOMAIN chats[j] : chats[j][i] = Turn("assistant", n)
=============================================================================
