-------------------------------- MODULE Access --------------------------------
(***************************************************************************)
(* First-run setup and WebSessionManager.  The routes are plain functions, *)
(* so the threads of the server's pool run them side by side, and may be   *)
(* switched between any two reads of an attribute of the manager.  A login *)
(* rebinds `sessions' and `session_credentials' to filtered copies: a      *)
(* thread that fetched the dictionary before goes on with the old object.  *)
(* Times are compared only: a session expires (Expire) and a failed        *)
(* attempt leaves the window (Age) when the clock says so.                 *)
(***************************************************************************)
EXTENDS Naturals, Sequences, FiniteSets, SequencesExt

CONSTANTS
  Threads,      \* threads of the server's pool
  MaxAttempts,  \* max_attempts
  MaxSessions,  \* the cap on len(self.sessions)
  MaxTokens,    \* bound: tokens ever issued
  MaxLogins,    \* bound: logins begun
  MaxLapses     \* bound: sessions that expire, and users who are disabled

Tokens == 1..MaxTokens
None == 0  \* no token

ASSUME AccessAssumption ==
  /\ IsFiniteSet(Threads) /\ MaxAttempts \in Nat \ {0} /\ MaxSessions \in Nat \ {0}
  /\ MaxTokens \in Nat /\ MaxLogins \in Nat /\ MaxLapses \in Nat

VARIABLES
  admins,      \* administrators in the table users
  initialized, \* the row of setup_state
  enabled,     \* users.enabled of the administrator
  sessions,    \* the dictionaries self.sessions has been bound to, the last one its value
  credentials, \* the same of self.session_credentials
  attempts,    \* len(self.attempts[client]) within the window
  thread,      \* the local variables of each thread
  minted,      \* tokens generated
  expired,     \* tokens whose time is over
  issued,      \* history: tokens returned by a login that overlapped no other
  ended,       \* history: tokens whose logout has begun
  closed,      \* history: tokens logged out while no login was copying self.sessions
  logins

people  == <<admins, initialized, enabled>>
dicts   == <<sessions, credentials>>
history == <<issued, ended, closed>>
access  == <<people, dicts, attempts, thread, minted, expired, history, logins>>

LoginPhases == {"sessions", "credentials", "code", "insert", "bind"}
LogoutPhases == {"pop", "unbind"}
SessionPhases == {"sessions", "insert", "pop"}       \* the thread holds one of self.sessions
CredentialPhases == {"credentials", "bind", "unbind"} \* ... of self.session_credentials
Idle == [phase |-> "idle", token |-> None, ref |-> 0, seen |-> {}, alone |-> FALSE]

Init ==
  /\ admins = 0 /\ initialized = FALSE /\ enabled = TRUE
  /\ sessions = <<{}>> /\ credentials = <<{}>>
  /\ attempts = 0
  /\ thread = [t \in Threads |-> Idle]
  /\ minted = 0 /\ expired = {}
  /\ issued = {} /\ ended = {} /\ closed = {}
  /\ logins = 0

\* A dictionary that the manager and the other threads have dropped is gone.
Dropped(dict, t, phases) ==
  [ref \in DOMAIN dict |->
     IF \E u \in Threads \ {t} : thread[u].phase \in phases /\ thread[u].ref = ref
     THEN dict[ref] ELSE {}]

Go(t, phase) == thread' = [thread EXCEPT ![t].phase = phase]
Finish(t) == thread' = [thread EXCEPT ![t] = Idle]

\* resolve_principal for a session of the administrator's credential.
Valid(token) == token \in Last(sessions) \ expired /\ token \in Last(credentials)
Principal == admins = 1 /\ enabled

-----------------------------------------------------------------------------
\* setup_initialize and initialize_setup.

SetupCheck(t) ==
  /\ thread[t].phase = "idle" /\ ~initialized
  /\ Go(t, "setup")
  /\ UNCHANGED <<people, dicts, attempts, minted, expired, history, logins>>

\* Mutated: the transaction relies on the check the route has made.
SetupCommit_Unchecked(t) ==
  /\ thread[t].phase = "setup"
  /\ admins' = admins + 1 /\ initialized' = TRUE
  /\ Finish(t)
  /\ UNCHANGED <<enabled, dicts, attempts, minted, expired, history, logins>>

\* BEGIN IMMEDIATE: the check and both insertions are one step.
SetupCommit(t) ==
  /\ thread[t].phase = "setup"
  /\ IF initialized \/ admins > 0 THEN UNCHANGED <<admins, initialized>>
     ELSE admins' = admins + 1 /\ initialized' = TRUE
  /\ Finish(t)
  /\ UNCHANGED <<enabled, dicts, attempts, minted, expired, history, logins>>

-----------------------------------------------------------------------------
\* create_session and login.

LoggingIn(t) == thread[t].phase \in LoginPhases

\* Verify the key; fetch self.sessions for the comprehension.
LoginBegin(t) ==
  /\ thread[t].phase = "idle" /\ Principal /\ logins < MaxLogins
  /\ thread' = [u \in Threads |->
       IF u = t THEN [phase |-> "sessions", token |-> None, ref |-> Len(sessions),
                      seen |-> Last(sessions), alone |-> \A v \in Threads : ~LoggingIn(v)]
                ELSE [thread[u] EXCEPT !.alone = FALSE]]
  /\ logins' = logins + 1
  /\ UNCHANGED <<people, dicts, attempts, minted, expired, history>>

\* Mutated: the manager starts over with an empty dictionary.
RebindSessions_Empty(t) ==
  /\ thread[t].phase = "sessions"
  /\ sessions' = Append(Dropped(sessions, t, SessionPhases), {})
  /\ thread' = [thread EXCEPT ![t].phase = "credentials", ![t].ref = Len(credentials),
                              ![t].seen = Last(credentials)]
  /\ UNCHANGED <<people, credentials, attempts, minted, expired, history, logins>>

\* Bind the copy; fetch self.session_credentials.  (A session that expires while
\* it is copied is kept by the code: it is invalid with or without its entry.)
RebindSessions(t) ==
  /\ thread[t].phase = "sessions"
  /\ sessions' = Append(Dropped(sessions, t, SessionPhases), thread[t].seen \ expired)
  /\ thread' = [thread EXCEPT ![t].phase = "credentials", ![t].ref = Len(credentials),
                              ![t].seen = Last(credentials)]
  /\ UNCHANGED <<people, credentials, attempts, minted, expired, history, logins>>

\* The dictionary being copied got or lost a key: RuntimeError.
CopyFails(t) ==
  /\ \/ thread[t].phase = "sessions" /\ sessions[thread[t].ref] # thread[t].seen
     \/ thread[t].phase = "credentials" /\ credentials[thread[t].ref] # thread[t].seen
  /\ Finish(t)
  /\ UNCHANGED <<people, dicts, attempts, minted, expired, history, logins>>

\* Mutated: one attempt more than allowed.
Throttles_OneMore == attempts > MaxAttempts

Throttles == attempts >= MaxAttempts

\* Bind the credentials that belong to a session; stop a client that failed too often.
RebindCredentials(t) ==
  /\ thread[t].phase = "credentials"
  /\ credentials' = Append(Dropped(credentials, t, CredentialPhases), thread[t].seen \cap Last(sessions))
  /\ IF Throttles THEN Finish(t) ELSE Go(t, "code")
  /\ UNCHANGED <<people, sessions, attempts, minted, expired, history, logins>>

WrongCode(t) ==
  /\ thread[t].phase = "code"
  /\ attempts' = attempts + 1
  /\ Finish(t)
  /\ UNCHANGED <<people, dicts, minted, expired, history, logins>>

\* Fetch self.sessions before the token is hashed.
RightCode(t) ==
  /\ thread[t].phase = "code"
  /\ attempts' = 0
  /\ IF Cardinality(Last(sessions)) >= MaxSessions THEN Finish(t) /\ UNCHANGED minted
     ELSE /\ minted < MaxTokens /\ minted' = minted + 1
          /\ thread' = [thread EXCEPT ![t].phase = "insert", ![t].ref = Len(sessions),
                                      ![t].token = minted + 1]
  /\ UNCHANGED <<people, dicts, expired, history, logins>>

Insert(t) ==
  /\ thread[t].phase = "insert"
  /\ sessions' = [sessions EXCEPT ![thread[t].ref] = @ \cup {thread[t].token}]
  /\ thread' = [thread EXCEPT ![t].phase = "bind", ![t].ref = Len(credentials)]
  /\ UNCHANGED <<people, credentials, attempts, minted, expired, history, logins>>

\* The credential of the session, and the token is returned.
Bind(t) ==
  /\ thread[t].phase = "bind"
  /\ credentials' = [credentials EXCEPT ![thread[t].ref] = @ \cup {thread[t].token}]
  /\ issued' = IF thread[t].alone THEN issued \cup {thread[t].token} ELSE issued
  /\ Finish(t)
  /\ UNCHANGED <<people, sessions, attempts, minted, expired, ended, closed, logins>>

-----------------------------------------------------------------------------
\* logout, once authenticate has let the request through.

LogoutBegin(t) ==
  /\ thread[t].phase = "idle" /\ Principal
  /\ \E token \in 1..minted :
       /\ Valid(token)
       /\ thread' = [thread EXCEPT ![t] =
            [phase |-> "pop", token |-> token, ref |-> Len(sessions),
             seen |-> {}, alone |-> \A v \in Threads : thread[v].phase # "sessions"]]
       /\ ended' = ended \cup {token}
  /\ UNCHANGED <<people, dicts, attempts, minted, expired, issued, closed, logins>>

LoggedOut(t) == closed' = IF thread[t].alone THEN closed \cup {thread[t].token} ELSE closed

\* Mutated: only the credential is removed.
Pop_Never(t) ==
  /\ thread[t].phase = "pop"
  /\ thread' = [thread EXCEPT ![t].phase = "unbind", ![t].ref = Len(credentials)]
  /\ LoggedOut(t)
  /\ UNCHANGED <<people, dicts, attempts, minted, expired, issued, ended, logins>>

Pop(t) ==
  /\ thread[t].phase = "pop"
  /\ sessions' = [sessions EXCEPT ![thread[t].ref] = @ \ {thread[t].token}]
  /\ thread' = [thread EXCEPT ![t].phase = "unbind", ![t].ref = Len(credentials)]
  /\ LoggedOut(t)
  /\ UNCHANGED <<people, credentials, attempts, minted, expired, issued, ended, logins>>

Unbind(t) ==
  /\ thread[t].phase = "unbind"
  /\ credentials' = [credentials EXCEPT ![thread[t].ref] = @ \ {thread[t].token}]
  /\ Finish(t)
  /\ UNCHANGED <<people, sessions, attempts, minted, expired, history, logins>>

-----------------------------------------------------------------------------
\* validate: a request with a session whose time is over removes it.

Purge ==
  /\ \E token \in Last(sessions) \cap expired :
       sessions' = [sessions EXCEPT ![Len(sessions)] = @ \ {token}]
  /\ UNCHANGED <<people, credentials, attempts, thread, minted, expired, history, logins>>

-----------------------------------------------------------------------------
\* The clock, and an operator who changes the database.

Lapse == Cardinality(expired) + (IF enabled THEN 0 ELSE 1) < MaxLapses

Expire ==
  /\ Lapse
  /\ \E token \in 1..minted : token \notin expired /\ expired' = expired \cup {token}
  /\ UNCHANGED <<people, dicts, attempts, thread, minted, history, logins>>

Age ==
  /\ attempts > 0 /\ attempts' = attempts - 1
  /\ UNCHANGED <<people, dicts, thread, minted, expired, history, logins>>

Disable ==
  /\ admins > 0 /\ enabled /\ Lapse /\ enabled' = FALSE
  /\ UNCHANGED <<admins, initialized, dicts, attempts, thread, minted, expired, history, logins>>

Setup(t) == SetupCheck(t) \/ SetupCommit(t)
Login(t) ==
  \/ LoginBegin(t) \/ RebindSessions(t) \/ CopyFails(t) \/ RebindCredentials(t)
  \/ WrongCode(t) \/ RightCode(t) \/ Insert(t) \/ Bind(t)
Logout(t) == LogoutBegin(t) \/ Pop(t) \/ Unbind(t)

Next == (\E t \in Threads : Setup(t) \/ Login(t) \/ Logout(t)) \/ Purge \/ Expire \/ Age \/ Disable

Spec == Init /\ [][Next]_access

-----------------------------------------------------------------------------
\* Properties.

TypeOK ==
  /\ admins \in Nat /\ initialized \in BOOLEAN /\ enabled \in BOOLEAN
  /\ sessions \in Seq(SUBSET Tokens) /\ credentials \in Seq(SUBSET Tokens)
  /\ sessions # <<>> /\ credentials # <<>>
  /\ attempts \in Nat /\ minted \in 0..MaxTokens /\ logins \in 0..MaxLogins
  /\ thread \in [Threads -> [phase : {"idle", "setup"} \cup LoginPhases \cup LogoutPhases,
                             token : Tokens \cup {None}, ref : Nat, seen : SUBSET Tokens,
                             alone : BOOLEAN]]
  /\ \A t \in Threads :
       /\ thread[t].phase \in {"insert", "pop"} => thread[t].ref \in DOMAIN sessions
       /\ thread[t].phase \in {"bind", "unbind"} => thread[t].ref \in DOMAIN credentials
  /\ expired \subseteq Tokens /\ issued \subseteq Tokens
  /\ closed \subseteq ended /\ ended \subseteq Tokens

\* initialize_setup: however many first-run requests pass the route's check
\* together, one of them becomes administrator.
OneAdministrator == admins <= 1 /\ (initialized <=> admins = 1)

\* A token handed out by a login that overlapped no other is good until it
\* expires or is logged out: no later login, failure or logout of another
\* session takes it from the dictionaries, although each login replaces them.
SessionsKept ==
  \A token \in issued \ (expired \cup ended) :
    token \in Last(sessions) /\ token \in Last(credentials)

\* A session taken out while no login was copying self.sessions stays out: logins
\* that had gone on to check the code put theirs into the dictionary it is gone
\* from, later ones copy that dictionary, and none brings it back.
LoggedOutForGood == \A token \in closed : token \notin Last(sessions)

\* What is documented: logout invalidates the session.  (Unlike above, for every
\* logout that is over, a login that overlaps it included.)
LogoutInvalidates ==
  \A token \in ended :
    (\A t \in Threads : thread[t].phase \in LogoutPhases => thread[t].token # token) => ~Valid(token)

\* The throttle looks at the count before the code is checked: with every thread
\* past the look, a client gets that many attempts more, and never more.
Throttled == attempts <= MaxAttempts + Cardinality(Threads) - 1
=============================================================================
