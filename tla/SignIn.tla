-------------------------------- MODULE SignIn --------------------------------
(***************************************************************************)
(* Signing in: the passphrase, the passkey that is asked for once two are  *)
(* enrolled, and the gate the page puts before the application             *)
(* (server/auth.js, webauthn.js; src/components/LoginGate.tsx,             *)
(* PasskeyManager.tsx, lib/authSession.ts, passkeys.ts).  The tabs of one  *)
(* browser share its two cookies.                                          *)
(*                                                                         *)
(* Abstractions.  Cookies are there or not; a cookie expires, a challenge  *)
(* is swept or evicted, a call is refused or lost and the owner logs out   *)
(* or clicks impatiently, MaxFaults times in all.                          *)
(* The owner knows the passphrase and holds the passkeys, whose counters   *)
(* advance.  A challenge is named by the ceremony it was made for.         *)
(***************************************************************************)
EXTENDS Integers, FiniteSets

CONSTANTS
  Tabs,
  MinCredentials,   \* MIN_CREDENTIALS_FOR_ENFORCEMENT
  MaxCredentials, MaxEnrolments, MaxFaults   \* bounds

VARIABLES
  cookies,      \* those of "session" and "pending" that are there
  credentials,  \* how many passkeys the store holds
  challenges,   \* createChallengeStore: ceremony and type
  gate,         \* per tab, what LoginGate shows
  busy,         \* per tab, the card's buttons are disabled
  doing,        \* the ceremonies: per tab two at most, each at a step
  app,          \* per tab, a request of the mounted application, or its 401
  left          \* bounds

signVars == <<cookies, credentials, challenges, gate, busy, doing, app, left>>

Ceremonies == Tabs \X {1, 2}
Enforced == credentials >= MinCredentials
HasSession == "session" \in cookies
HasPending == "pending" \in cookies
Resting(t) == \A c \in Ceremonies : c[1] = t => doing[c] = "idle"

Fault == left.faults > 0 /\ left' = [left EXCEPT !.faults = @ - 1]
Goes(c, step) == doing' = [doing EXCEPT ![c] = step]
SetBusy(t, b) == busy' = [busy EXCEPT ![t] = b]
\* The end of a ceremony without a session.
Fails(c) == Goes(c, "idle") /\ SetBusy(c[1], FALSE) /\ UNCHANGED gate

-----------------------------------------------------------------------------
(***************************************************************************)
(* LoginGate and LoginCard, with the handlers they call.                   *)
(***************************************************************************)
\* The probe of the mount; a probe that fails opens the gate.
ProbeAnswered(t) ==
  /\ gate[t] = "probing"
  /\ \/ gate' = [gate EXCEPT ![t] = IF HasSession THEN "open" ELSE "passphrase"] /\ UNCHANGED left
     \/ gate' = [gate EXCEPT ![t] = "open"] /\ Fault
  /\ UNCHANGED <<cookies, credentials, challenges, busy, doing, app>>

Submit(c) ==
  /\ gate[c[1]] = "passphrase" /\ ~busy[c[1]] /\ doing[c] = "idle"
  /\ Goes(c, "login") /\ SetBusy(c[1], TRUE)
  /\ UNCHANGED <<cookies, credentials, challenges, gate, app, left>>

\* POST /api/auth/login: whether a passkey is owed is asked after the
\* passphrase was verified.  The form's end frees the buttons under the
\* passkey step it has started.
LoginAnswered(c) ==
  /\ doing[c] = "login"
  /\ \/ /\ Enforced /\ cookies' = cookies \cup {"pending"} /\ Goes(c, "options")
        /\ SetBusy(c[1], FALSE)
        /\ gate' = [gate EXCEPT ![c[1]] = IF @ = "open" THEN @ ELSE "passkey"]
        /\ UNCHANGED left
     \/ ~Enforced /\ cookies' = cookies \cup {"session"} /\ Goes(c, "check") /\ UNCHANGED <<busy, gate, left>>
     \/ Fails(c) /\ Fault /\ UNCHANGED cookies
  /\ UNCHANGED <<credentials, challenges, app>>

\* The status after a success: setAuthStatus, whatever is shown by then.
StatusAnswered(c) ==
  /\ doing[c] = "check"
  /\ \/ /\ Goes(c, "idle") /\ SetBusy(c[1], FALSE) /\ UNCHANGED left
        /\ gate' = [gate EXCEPT ![c[1]] = IF HasSession THEN "open"
                                          ELSE IF @ = "open" THEN "passphrase" ELSE @]
     \/ Fails(c) /\ Fault
  /\ UNCHANGED <<cookies, credentials, challenges, app>>

\* A click while a ceremony is under way is an impatient one.
Click(t) == IF Resting(t) THEN UNCHANGED left ELSE Fault

UsePasskey(c) ==
  /\ gate[c[1]] = "passkey" /\ ~busy[c[1]] /\ doing[c] = "idle" /\ Click(c[1])
  /\ Goes(c, "options") /\ SetBusy(c[1], TRUE)
  /\ UNCHANGED <<cookies, credentials, challenges, gate, app>>

\* Mutant: the passkey step cannot be left.
StayThere(t) == FALSE /\ UNCHANGED signVars

\* Never disabled; a ceremony under way goes on.
StartOver(t) ==
  /\ gate[t] = "passkey" /\ Click(t)
  /\ gate' = [gate EXCEPT ![t] = "passphrase"]
  /\ UNCHANGED <<cookies, credentials, challenges, busy, doing, app>>

\* POST /api/webauthn/login/options; the browser aborts the tab's other prompt.
OptionsAnswered(c) ==
  /\ doing[c] = "options"
  /\ \/ /\ HasPending
        /\ challenges' = challenges \cup {<<c, "authentication">>}
        /\ doing' = [d \in Ceremonies |-> IF d = c THEN "prompt"
                        ELSE IF d[1] = c[1] /\ doing[d] = "prompt" THEN "idle" ELSE doing[d]]
        /\ SetBusy(c[1], busy[c[1]] /\ doing' = [doing EXCEPT ![c] = "prompt"])
        /\ UNCHANGED <<gate, left>>
     \/ ~HasPending /\ Fails(c) /\ UNCHANGED <<challenges, left>>
     \/ Fails(c) /\ Fault /\ UNCHANGED challenges
  /\ UNCHANGED <<cookies, credentials, app>>

\* The owner confirms, and the server takes the challenge; or cancels.
Confirm(c) ==
  /\ doing[c] = "prompt"
  /\ LET good == HasPending /\ credentials > 0 /\ <<c, "authentication">> \in challenges
     IN  \/ /\ good /\ Goes(c, "verify")
            /\ challenges' = challenges \ {<<c, "authentication">>}
            /\ UNCHANGED <<busy, gate, left>>
         \/ ~good /\ Fails(c) /\ UNCHANGED <<challenges, left>>
         \/ Fails(c) /\ Fault /\ UNCHANGED challenges
  /\ UNCHANGED <<cookies, credentials, app>>

\* After the wait for the verification: the cookies are swapped.
VerifyAnswered(c) ==
  /\ doing[c] = "verify"
  /\ cookies' = {"session"}
  /\ \/ Goes(c, "check") /\ UNCHANGED <<busy, gate, left>>
     \/ Fails(c) /\ Fault
  /\ UNCHANGED <<credentials, challenges, app>>

-----------------------------------------------------------------------------
(***************************************************************************)
(* The application behind the gate.                                        *)
(***************************************************************************)
\* A request is judged when the server has it, and its answer comes later,
\* even after the gate was shut and opened again.
AppAsks(t) ==
  /\ gate[t] = "open" /\ app[t] = "idle"
  /\ app' = [app EXCEPT ![t] = IF HasSession THEN "idle" ELSE "401"]
  /\ app' # app
  /\ UNCHANGED <<cookies, credentials, challenges, gate, busy, doing, left>>

\* notifyUnauthorized: the card is mounted, if it is not there.
Unauthorized(t) ==
  /\ app[t] = "401"
  /\ app' = [app EXCEPT ![t] = "idle"]
  /\ gate' = [gate EXCEPT ![t] = IF @ = "open" THEN "passphrase" ELSE @]
  /\ busy' = [busy EXCEPT ![t] = @ /\ gate[t] # "open"]
  /\ UNCHANGED <<cookies, credentials, challenges, doing, left>>

\* POST /api/auth/logout, from any page of the browser; both cookies go.
Logout ==
  /\ Fault
  /\ cookies' = {}
  /\ UNCHANGED <<credentials, challenges, gate, busy, doing, app>>

\* Enrolment: the two calls of addPasskey, and deletePasskey.
AddPasskey(c) ==
  /\ gate[c[1]] = "open" /\ Resting(c[1]) /\ HasSession /\ left.enrolments > 0
  /\ challenges' = challenges \cup {<<c, "registration">>}
  /\ Goes(c, "register")
  /\ left' = [left EXCEPT !.enrolments = @ - 1]
  /\ UNCHANGED <<cookies, credentials, gate, busy, app>>

RegisterVerified(c) ==
  /\ doing[c] = "register"
  /\ LET good == HasSession /\ <<c, "registration">> \in challenges /\ credentials < MaxCredentials
     IN  credentials' = IF good THEN credentials + 1 ELSE credentials
  /\ challenges' = challenges \ {<<c, "registration">>}
  /\ Goes(c, "idle")
  /\ UNCHANGED <<cookies, gate, busy, app, left>>

\* The last one is refused.
DeletePasskey(t) ==
  /\ gate[t] = "open" /\ Resting(t) /\ HasSession
  /\ left.enrolments > 0 /\ credentials > 1
  /\ credentials' = credentials - 1
  /\ left' = [left EXCEPT !.enrolments = @ - 1]
  /\ UNCHANGED <<cookies, challenges, gate, busy, doing, app>>

Expires ==
  /\ Fault
  /\ \/ \E k \in cookies : cookies' = cookies \ {k} /\ UNCHANGED challenges
     \/ \E c \in challenges : challenges' = challenges \ {c} /\ UNCHANGED cookies
  /\ UNCHANGED <<credentials, gate, busy, doing, app>>

-----------------------------------------------------------------------------
SignInit ==
  /\ cookies = {} /\ credentials \in 0..MinCredentials /\ challenges = {}
  /\ gate = [t \in Tabs |-> "probing"] /\ busy = [t \in Tabs |-> FALSE]
  /\ doing = [c \in Ceremonies |-> "idle"] /\ app = [t \in Tabs |-> "idle"]
  /\ left = [faults |-> MaxFaults, enrolments |-> MaxEnrolments]

\* What goes on by itself, or by an owner who wants to get in.
Page(t) == ProbeAnswered(t) \/ AppAsks(t) \/ Unauthorized(t)
Ceremony(c) ==
  \/ LoginAnswered(c) \/ StatusAnswered(c) \/ OptionsAnswered(c) \/ Confirm(c)
  \/ VerifyAnswered(c) \/ RegisterVerified(c)

SignNext ==
  \/ \E t \in Tabs : Page(t) \/ StartOver(t) \/ DeletePasskey(t)
  \/ \E c \in Ceremonies : Submit(c) \/ UsePasskey(c) \/ Ceremony(c) \/ AddPasskey(c)
  \/ Logout \/ Expires

\* The owner submits, tries the passkey again or starts over, and does not do
\* only one of these for ever.
SignFairness ==
  /\ \A t \in Tabs : WF_signVars(Page(t)) /\ SF_signVars(StartOver(t))
  /\ \A c \in Ceremonies : WF_signVars(Ceremony(c))
  /\ \A t \in Tabs : SF_signVars(Submit(<<t, 1>>)) /\ SF_signVars(UsePasskey(<<t, 1>>))

SignSpec == SignInit /\ [][SignNext]_signVars /\ SignFairness

\* The types of the state.
SignTypeOK ==
  /\ cookies \subseteq {"session", "pending"} /\ credentials \in 0..MaxCredentials
  /\ challenges \subseteq Ceremonies \X {"authentication", "registration"}
  /\ gate \in [Tabs -> {"probing", "open", "passphrase", "passkey"}]
  /\ doing \in [Ceremonies -> {"idle", "login", "check", "options", "prompt", "verify", "register"}]

\* Whatever the other tab does with the cookies they share, and whenever they
\* and the challenges expire, a tab ends with the application open and the
\* session it needs: no state of the gate is a dead end.
IsIn(t) == gate[t] = "open" /\ HasSession
EveryTabGetsIn == \A t \in Tabs : <>[]IsIn(t)
=============================================================================
