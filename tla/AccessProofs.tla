----------------------------- MODULE AccessProofs -----------------------------
(***************************************************************************)
(* Theorems about Access, for any number of threads, sessions and          *)
(* attempts.                                                               *)
(***************************************************************************)
EXTENDS Access, SequenceTheorems, FiniteSetTheorems, TLAPS

-----------------------------------------------------------------------------
\* The dictionaries.

Dicts == Seq(SUBSET Tokens)

\* A copy was bound, or one of the dictionaries was changed in place.
Grown(old, new, copy) ==
  /\ new \in Dicts /\ new # <<>> /\ Len(new) = Len(old) + 1 /\ DOMAIN old \subseteq DOMAIN new
  /\ Last(new) = copy
Changed(old, new, ref, now) ==
  /\ new \in Dicts /\ new # <<>> /\ Len(new) = Len(old) /\ DOMAIN new = DOMAIN old
  /\ Last(new) = IF ref = Len(old) THEN now ELSE Last(old)

LEMMA Newest ==
  ASSUME NEW dict \in Dicts, dict # <<>>
  PROVE  /\ Len(dict) \in Nat \ {0} /\ Len(dict) \in DOMAIN dict /\ DOMAIN dict = 1..Len(dict)
         /\ Last(dict) = dict[Len(dict)] /\ Last(dict) \in SUBSET Tokens
         /\ \A ref \in DOMAIN dict : dict[ref] \in SUBSET Tokens
<1>1. Len(dict) \in Nat \ {0} /\ DOMAIN dict = 1..Len(dict)
  BY EmptySeq, LenProperties DEF Dicts
<1>2. \A ref \in DOMAIN dict : dict[ref] \in SUBSET Tokens
  BY <1>1, ElementOfSeq DEF Dicts
<1> QED BY <1>1, <1>2 DEF Last

\* Binding a copy makes it the newest.
LEMMA Binding ==
  ASSUME NEW dict \in Dicts, dict # <<>>, NEW t, NEW phases, NEW copy \in SUBSET Tokens,
         NEW bound, bound = Append(Dropped(dict, t, phases), copy)
  PROVE  Grown(dict, bound, copy)
<1> DEFINE left == Dropped(dict, t, phases)
<1>0. bound = Append(left, copy)
  OBVIOUS
<1>1. Len(dict) \in Nat /\ DOMAIN dict = 1..Len(dict)
  BY Newest
<1>2. left \in [1..Len(dict) -> SUBSET Tokens] /\ \A ref \in DOMAIN dict : left[ref] \subseteq dict[ref]
  BY <1>1, Newest DEF Dropped
<1>3. left \in Dicts
  BY <1>1, <1>2, SeqDef DEF Dicts
<1>4. Len(left) = Len(dict)
  BY <1>1, <1>2, <1>3, LenProperties DEF Dicts
<1> HIDE DEF left
<1>5. bound \in Dicts /\ Len(bound) = Len(left) + 1 /\ bound[Len(left) + 1] = copy
  BY <1>0, <1>3, <1>4, <1>1, AppendProperties DEF Dicts
<1>6. bound # <<>>
  BY <1>5, <1>4, <1>1, EmptySeq
<1>7. DOMAIN bound = 1..(Len(dict) + 1)
  BY <1>5, <1>4, LenProperties DEF Dicts
<1>8. Last(bound) = copy
  BY <1>5, <1>4 DEF Last
<1> QED BY <1>1, <1>4, <1>5, <1>6, <1>7, <1>8 DEF Grown

\* Changing one dictionary in place.
LEMMA Changing ==
  ASSUME NEW dict \in Dicts, dict # <<>>, NEW ref \in DOMAIN dict, NEW now \in SUBSET Tokens,
         NEW changed, changed = [dict EXCEPT ![ref] = now]
  PROVE  Changed(dict, changed, ref, now)
<1>1. Len(dict) \in Nat \ {0} /\ DOMAIN dict = 1..Len(dict) /\ Last(dict) = dict[Len(dict)]
  BY Newest
<1>2. changed \in Dicts /\ Len(changed) = Len(dict)
      /\ \A other \in 1..Len(dict) : changed[other] = IF other = ref THEN now ELSE dict[other]
  BY <1>1, ExceptSeq DEF Dicts
<1>3. changed # <<>>
  BY <1>1, <1>2, EmptySeq
<1>4. Last(changed) = changed[Len(dict)]
  BY <1>2 DEF Last
<1>5. DOMAIN changed = DOMAIN dict
  OBVIOUS
<1> QED BY <1>1, <1>2, <1>3, <1>4, <1>5 DEF Changed

-----------------------------------------------------------------------------
\* Types.

Phases == {"idle", "setup"} \cup LoginPhases \cup LogoutPhases
Locals == [phase : Phases, token : Tokens \cup {None}, ref : Nat, seen : SUBSET Tokens, alone : BOOLEAN]

\* What a thread holds of the dictionaries exists.
Held(t) ==
  /\ thread[t].phase \in {"insert", "pop"} => thread[t].ref \in DOMAIN sessions
  /\ thread[t].phase \in {"bind", "unbind"} => thread[t].ref \in DOMAIN credentials

LEMMA Types ==
  TypeOK <=> /\ admins \in Nat /\ initialized \in BOOLEAN /\ enabled \in BOOLEAN
             /\ sessions \in Dicts /\ sessions # <<>> /\ credentials \in Dicts /\ credentials # <<>>
             /\ attempts \in Nat /\ minted \in 0..MaxTokens /\ logins \in 0..MaxLogins
             /\ thread \in [Threads -> Locals]
             /\ \A t \in Threads : Held(t)
             /\ expired \subseteq Tokens /\ issued \subseteq Tokens
             /\ closed \subseteq ended /\ ended \subseteq Tokens
BY DEF TypeOK, Dicts, Locals, Phases, Held

\* A thread that changes a dictionary has a token that was generated, and the
\* logout of a token that is being taken out has begun.
Tokened ==
  \A t \in Threads :
    /\ thread[t].phase \in {"insert", "bind", "pop", "unbind"} => thread[t].token \in 1..minted
    /\ thread[t].phase \in {"pop", "unbind"} => thread[t].token \in ended

Typed == TypeOK /\ Tokened

\* What the steps make of the dictionaries.
LEMMA Rebinds ==
  ASSUME Typed, NEW t \in Threads
  PROVE  /\ RebindSessions(t) => Grown(sessions, sessions', thread[t].seen \ expired)
         /\ RebindCredentials(t) => Grown(credentials, credentials', thread[t].seen \cap Last(sessions))
<1>1. thread[t].seen \in SUBSET Tokens /\ Last(sessions) \in SUBSET Tokens
      /\ sessions \in Dicts /\ sessions # <<>> /\ credentials \in Dicts /\ credentials # <<>>
  BY Types, Newest DEF Locals, Typed
<1>2. ASSUME RebindSessions(t) PROVE Grown(sessions, sessions', thread[t].seen \ expired)
  <2> DEFINE copy == thread[t].seen \ expired
  <2>1. sessions' = Append(Dropped(sessions, t, SessionPhases), copy)
    BY <1>2 DEF RebindSessions
  <2>2. copy \in SUBSET Tokens
    BY <1>1
  <2> HIDE DEF copy
  <2>3. Grown(sessions, sessions', copy)
    BY <1>1, <2>1, <2>2, Binding
  <2> QED BY <2>3 DEF copy
<1>3. ASSUME RebindCredentials(t) PROVE Grown(credentials, credentials', thread[t].seen \cap Last(sessions))
  <2> DEFINE copy == thread[t].seen \cap Last(sessions)
  <2>1. credentials' = Append(Dropped(credentials, t, CredentialPhases), copy)
    BY <1>3 DEF RebindCredentials
  <2>2. copy \in SUBSET Tokens
    BY <1>1
  <2> HIDE DEF copy
  <2>3. Grown(credentials, credentials', copy)
    BY <1>1, <2>1, <2>2, Binding
  <2> QED BY <2>3 DEF copy
<1> QED BY <1>2, <1>3

LEMMA Changes ==
  ASSUME Typed, NEW t \in Threads
  PROVE  /\ Insert(t) => Changed(sessions, sessions', thread[t].ref, sessions[thread[t].ref] \cup {thread[t].token})
         /\ Pop(t) => Changed(sessions, sessions', thread[t].ref, sessions[thread[t].ref] \ {thread[t].token})
         /\ Bind(t) => Changed(credentials, credentials', thread[t].ref, credentials[thread[t].ref] \cup {thread[t].token})
         /\ Unbind(t) => Changed(credentials, credentials', thread[t].ref, credentials[thread[t].ref] \ {thread[t].token})
<1> DEFINE ref == thread[t].ref
<1>1. /\ sessions \in Dicts /\ sessions # <<>> /\ credentials \in Dicts /\ credentials # <<>>
      /\ Held(t) /\ minted \in 0..MaxTokens
  BY Types DEF Typed
<1>2. /\ \A i \in DOMAIN sessions : sessions[i] \in SUBSET Tokens
      /\ \A i \in DOMAIN credentials : credentials[i] \in SUBSET Tokens
  BY <1>1, Newest
<1>3. ASSUME Insert(t) PROVE Changed(sessions, sessions', ref, sessions[ref] \cup {thread[t].token})
  <2> DEFINE now == sessions[ref] \cup {thread[t].token}
  <2>1. ref \in DOMAIN sessions /\ sessions' = [sessions EXCEPT ![ref] = now]
    BY <1>1, <1>3 DEF Insert, Held
  <2>2. thread[t].token \in Tokens
    BY <1>1, <1>3, AccessAssumption DEF Insert, Typed, Tokened, Tokens
  <2>3. now \in SUBSET Tokens
    BY <2>1, <1>2, <2>2
  <2> HIDE DEF now
  <2>4. Changed(sessions, sessions', ref, now)
    BY <1>1, <2>1, <2>3, Changing
  <2> QED BY <2>4 DEF now
<1>4. ASSUME Pop(t) PROVE Changed(sessions, sessions', ref, sessions[ref] \ {thread[t].token})
  <2> DEFINE now == sessions[ref] \ {thread[t].token}
  <2>1. ref \in DOMAIN sessions /\ sessions' = [sessions EXCEPT ![ref] = now]
    BY <1>1, <1>4 DEF Pop, Held
  <2>3. now \in SUBSET Tokens
    BY <2>1, <1>2
  <2> HIDE DEF now
  <2>4. Changed(sessions, sessions', ref, now)
    BY <1>1, <2>1, <2>3, Changing
  <2> QED BY <2>4 DEF now
<1>5. ASSUME Bind(t) PROVE Changed(credentials, credentials', ref, credentials[ref] \cup {thread[t].token})
  <2> DEFINE now == credentials[ref] \cup {thread[t].token}
  <2>1. ref \in DOMAIN credentials /\ credentials' = [credentials EXCEPT ![ref] = now]
    BY <1>1, <1>5 DEF Bind, Held
  <2>2. thread[t].token \in Tokens
    BY <1>1, <1>5, AccessAssumption DEF Bind, Typed, Tokened, Tokens
  <2>3. now \in SUBSET Tokens
    BY <2>1, <1>2, <2>2
  <2> HIDE DEF now
  <2>4. Changed(credentials, credentials', ref, now)
    BY <1>1, <2>1, <2>3, Changing
  <2> QED BY <2>4 DEF now
<1>6. ASSUME Unbind(t) PROVE Changed(credentials, credentials', ref, credentials[ref] \ {thread[t].token})
  <2> DEFINE now == credentials[ref] \ {thread[t].token}
  <2>1. ref \in DOMAIN credentials /\ credentials' = [credentials EXCEPT ![ref] = now]
    BY <1>1, <1>6 DEF Unbind, Held
  <2>3. now \in SUBSET Tokens
    BY <2>1, <1>2
  <2> HIDE DEF now
  <2>4. Changed(credentials, credentials', ref, now)
    BY <1>1, <2>1, <2>3, Changing
  <2> QED BY <2>4 DEF now
<1> QED BY <1>3, <1>4, <1>5, <1>6

LEMMA Purges ==
  ASSUME Typed, Purge
  PROVE  \E old \in expired : Changed(sessions, sessions', Len(sessions), Last(sessions) \ {old})
<1>1. sessions \in Dicts /\ sessions # <<>>
  BY Types DEF Typed
<1>2. /\ Last(sessions) = sessions[Len(sessions)] /\ Len(sessions) \in DOMAIN sessions
      /\ Last(sessions) \in SUBSET Tokens
  BY <1>1, Newest
<1>3. PICK old \in Last(sessions) \cap expired :
        sessions' = [sessions EXCEPT ![Len(sessions)] = sessions[Len(sessions)] \ {old}]
  BY DEF Purge
<1> DEFINE now == Last(sessions) \ {old}
<1>4. now \in SUBSET Tokens /\ sessions' = [sessions EXCEPT ![Len(sessions)] = now]
  BY <1>2, <1>3
<1> HIDE DEF now
<1>5. Changed(sessions, sessions', Len(sessions), now)
  BY <1>1, <1>2, <1>4, Changing
<1> QED BY <1>3, <1>5 DEF now

\* A step of one thread.
Moves(t, local) ==
  /\ local \in Locals
  /\ thread' \in [Threads -> Locals]
  /\ \A u \in Threads : thread'[u] = IF u = t THEN local ELSE thread[u]

At(t, phase) == [thread[t] EXCEPT !.phase = phase]
Fetched(t, phase, ref, seen) ==
  [phase |-> phase, token |-> thread[t].token, ref |-> ref, seen |-> seen, alone |-> thread[t].alone]

LEMMA Local ==
  ASSUME Typed, NEW t \in Threads, NEW local \in Locals, thread' = [thread EXCEPT ![t] = local]
  PROVE  Moves(t, local)
BY Types DEF Typed, Moves

LEMMA IdleLocal == Idle \in Locals /\ Idle.phase = "idle" /\ Idle.alone = FALSE
BY DEF Idle, Locals, Phases, Tokens, None

LEMMA Finishes ==
  ASSUME Typed, NEW t \in Threads, Finish(t)
  PROVE  Moves(t, Idle)
BY Local, IdleLocal DEF Finish

\* A thread goes on with the dictionary it has fetched.
LEMMA Goes ==
  ASSUME Typed, NEW t \in Threads, NEW phase \in Phases
  PROVE  /\ Go(t, phase) => Moves(t, Fetched(t, phase, thread[t].ref, thread[t].seen))
         /\ \A ref \in Nat : thread' = [thread EXCEPT ![t].phase = phase, ![t].ref = ref] =>
              Moves(t, Fetched(t, phase, ref, thread[t].seen))
         /\ \A ref \in Nat : \A seen \in SUBSET Tokens :
              thread' = [thread EXCEPT ![t].phase = phase, ![t].ref = ref, ![t].seen = seen] =>
              Moves(t, Fetched(t, phase, ref, seen))
<1>1. thread \in [Threads -> Locals] /\ thread[t] \in Locals
  BY Types DEF Typed
<1>2. ASSUME Go(t, phase)
      PROVE  Moves(t, Fetched(t, phase, thread[t].ref, thread[t].seen))
  <2> DEFINE local == Fetched(t, phase, thread[t].ref, thread[t].seen)
  <2>1. local \in Locals /\ [thread[t] EXCEPT !.phase = phase] = local
    BY <1>1 DEF Fetched, Locals
  <2> HIDE DEF local
  <2>2. thread' = [thread EXCEPT ![t] = [thread[t] EXCEPT !.phase = phase]]
    BY <1>2 DEF Go
  <2>3. Moves(t, local)
    BY <2>1, <2>2, Local
  <2> QED BY <2>3 DEF local
<1>3. ASSUME NEW ref \in Nat, thread' = [thread EXCEPT ![t].phase = phase, ![t].ref = ref]
      PROVE  Moves(t, Fetched(t, phase, ref, thread[t].seen))
  <2> DEFINE local == Fetched(t, phase, ref, thread[t].seen)
  <2>0. local \in Locals
    BY <1>1 DEF Fetched, Locals
  <2>1. [thread[t] EXCEPT !.phase = phase, !.ref = ref] = local
    <3>1. [thread[t] EXCEPT !.phase = phase] = Fetched(t, phase, thread[t].ref, thread[t].seen)
      BY <1>1 DEF Fetched, Locals
    <3>2. [Fetched(t, phase, thread[t].ref, thread[t].seen) EXCEPT !.ref = ref] = local
      BY DEF Fetched
    <3> QED BY <3>1, <3>2
  <2> HIDE DEF local
  <2>2. thread' = [thread EXCEPT ![t] = [thread[t] EXCEPT !.phase = phase, !.ref = ref]]
    BY <1>1, <1>3
  <2>3. Moves(t, local)
    BY <2>0, <2>1, <2>2, Local
  <2> QED BY <2>3 DEF local
<1>4. ASSUME NEW ref \in Nat, NEW seen \in SUBSET Tokens,
             thread' = [thread EXCEPT ![t].phase = phase, ![t].ref = ref, ![t].seen = seen]
      PROVE  Moves(t, Fetched(t, phase, ref, seen))
  <2> DEFINE local == Fetched(t, phase, ref, seen)
  <2>0. local \in Locals
    BY <1>1 DEF Fetched, Locals
  <2>1. [thread[t] EXCEPT !.phase = phase, !.ref = ref, !.seen = seen] = local
    <3>1. [thread[t] EXCEPT !.phase = phase] = Fetched(t, phase, thread[t].ref, thread[t].seen)
      BY <1>1 DEF Fetched, Locals
    <3>2. [Fetched(t, phase, thread[t].ref, thread[t].seen) EXCEPT !.ref = ref]
            = Fetched(t, phase, ref, thread[t].seen)
      BY DEF Fetched
    <3>3. [Fetched(t, phase, ref, thread[t].seen) EXCEPT !.seen = seen] = local
      BY DEF Fetched
    <3> QED BY <3>1, <3>2, <3>3
  <2> HIDE DEF local
  <2>2. thread' = [thread EXCEPT ![t] = [thread[t] EXCEPT !.phase = phase, !.ref = ref, !.seen = seen]]
    BY <1>1, <1>4
  <2>3. Moves(t, local)
    BY <2>0, <2>1, <2>2, Local
  <2> QED BY <2>3 DEF local
<1> QED BY <1>2, <1>3, <1>4

Calm == \A v \in Threads : ~LoggingIn(v)
Begun(t) ==
  [phase |-> "sessions", token |-> None, ref |-> Len(sessions), seen |-> Last(sessions),
   alone |-> Calm]
Generated(t) ==
  [phase |-> "insert", token |-> minted + 1, ref |-> Len(sessions), seen |-> thread[t].seen,
   alone |-> thread[t].alone]
Uncopied == \A v \in Threads : thread[v].phase # "sessions"
Leaving(token) ==
  [phase |-> "pop", token |-> token, ref |-> Len(sessions), seen |-> {},
   alone |-> Uncopied]

\* What each step makes of the locals of the threads.
LEMMA Locally ==
  ASSUME Typed, NEW t \in Threads
  PROVE  /\ SetupCheck(t) => Moves(t, Fetched(t, "setup", thread[t].ref, thread[t].seen))
         /\ SetupCommit(t) \/ CopyFails(t) \/ WrongCode(t) \/ Bind(t) \/ Unbind(t) => Moves(t, Idle)
         /\ LoginBegin(t) =>
              /\ Begun(t) \in Locals /\ thread' \in [Threads -> Locals]
              /\ thread'[t] = Begun(t)
              /\ \A u \in Threads \ {t} :
                   /\ thread'[u].alone = FALSE
                   /\ thread'[u].phase = thread[u].phase /\ thread'[u].token = thread[u].token
                   /\ thread'[u].ref = thread[u].ref /\ thread'[u].seen = thread[u].seen
         /\ RebindSessions(t) => Moves(t, Fetched(t, "credentials", Len(credentials), Last(credentials)))
         /\ RebindCredentials(t) =>
              IF Throttles THEN Moves(t, Idle)
              ELSE Moves(t, Fetched(t, "code", thread[t].ref, thread[t].seen))
         /\ RightCode(t) =>
              IF Cardinality(Last(sessions)) >= MaxSessions THEN Moves(t, Idle)
              ELSE Moves(t, Generated(t))
         /\ Insert(t) => Moves(t, Fetched(t, "bind", Len(credentials), thread[t].seen))
         /\ Pop(t) => Moves(t, Fetched(t, "unbind", Len(credentials), thread[t].seen))
         /\ LogoutBegin(t) => \E token \in 1..minted :
              Valid(token) /\ ended' = ended \cup {token} /\ Moves(t, Leaving(token))
<1>1. /\ thread \in [Threads -> Locals] /\ thread[t] \in Locals
      /\ Len(credentials) \in Nat /\ Last(credentials) \in SUBSET Tokens
      /\ Len(sessions) \in Nat /\ Last(sessions) \in SUBSET Tokens
      /\ minted \in 0..MaxTokens /\ MaxTokens \in Nat
  BY Types, Newest, AccessAssumption DEF Typed
<1>2. {"idle", "setup", "sessions", "credentials", "code", "insert", "bind", "pop", "unbind"} = Phases
  BY DEF Phases, LoginPhases, LogoutPhases
<1>3. SetupCheck(t) => Moves(t, Fetched(t, "setup", thread[t].ref, thread[t].seen))
  BY <1>2, Goes DEF SetupCheck
<1>4. SetupCommit(t) \/ CopyFails(t) \/ WrongCode(t) \/ Bind(t) \/ Unbind(t) => Moves(t, Idle)
  BY Finishes DEF SetupCommit, CopyFails, WrongCode, Bind, Unbind
<1>5. ASSUME LoginBegin(t)
      PROVE  /\ Begun(t) \in Locals /\ thread' \in [Threads -> Locals]
             /\ thread'[t] = Begun(t)
             /\ \A u \in Threads \ {t} :
                  /\ thread'[u].alone = FALSE
                  /\ thread'[u].phase = thread[u].phase /\ thread'[u].token = thread[u].token
                  /\ thread'[u].ref = thread[u].ref /\ thread'[u].seen = thread[u].seen
  <2>1. Begun(t) \in Locals
    BY <1>1, <1>2 DEF Begun, Locals, None, Calm
  <2> DEFINE other(u) == [thread[u] EXCEPT !.alone = FALSE]
  <2>2. ASSUME NEW u \in Threads
        PROVE  /\ other(u) \in Locals /\ other(u).alone = FALSE
               /\ other(u).phase = thread[u].phase /\ other(u).token = thread[u].token
               /\ other(u).ref = thread[u].ref /\ other(u).seen = thread[u].seen
    <3>1. thread[u] \in Locals
      BY <1>1
    <3> QED BY <3>1 DEF Locals
  <2>3. thread' = [u \in Threads |-> IF u = t THEN Begun(t) ELSE other(u)]
    BY <1>5 DEF LoginBegin, Begun, Calm
  <2> HIDE DEF other
  <2> QED BY <2>1, <2>2, <2>3
<1>6. RebindSessions(t) => Moves(t, Fetched(t, "credentials", Len(credentials), Last(credentials)))
  BY <1>1, <1>2, Goes DEF RebindSessions
<1>7. RebindCredentials(t) =>
        IF Throttles THEN Moves(t, Idle)
        ELSE Moves(t, Fetched(t, "code", thread[t].ref, thread[t].seen))
  BY <1>2, Goes, Finishes DEF RebindCredentials
<1>8. ASSUME RightCode(t)
      PROVE  IF Cardinality(Last(sessions)) >= MaxSessions THEN Moves(t, Idle)
             ELSE Moves(t, Generated(t))
  <2>1. CASE Cardinality(Last(sessions)) >= MaxSessions
    BY <1>8, <2>1, Finishes DEF RightCode
  <2>2. CASE ~(Cardinality(Last(sessions)) >= MaxSessions)
    <3>1. /\ minted < MaxTokens
          /\ thread' = [thread EXCEPT ![t].phase = "insert", ![t].ref = Len(sessions), ![t].token = minted + 1]
      BY <1>8, <2>2 DEF RightCode
    <3>2. Generated(t) \in Locals
      BY <1>1, <1>2, <3>1 DEF Generated, Locals, Tokens
    <3>3. [thread[t] EXCEPT !.phase = "insert", !.ref = Len(sessions), !.token = minted + 1] = Generated(t)
      <4>1. [thread[t] EXCEPT !.phase = "insert"] = Fetched(t, "insert", thread[t].ref, thread[t].seen)
        BY <1>1 DEF Fetched, Locals
      <4>2. [Fetched(t, "insert", thread[t].ref, thread[t].seen) EXCEPT !.ref = Len(sessions)]
              = Fetched(t, "insert", Len(sessions), thread[t].seen)
        BY DEF Fetched
      <4>3. [Fetched(t, "insert", Len(sessions), thread[t].seen) EXCEPT !.token = minted + 1] = Generated(t)
        BY DEF Fetched, Generated
      <4> QED BY <4>1, <4>2, <4>3
    <3>4. thread' = [thread EXCEPT ![t] = Generated(t)]
      <4>1. thread' = [thread EXCEPT ![t] =
              [thread[t] EXCEPT !.phase = "insert", !.ref = Len(sessions), !.token = minted + 1]]
        BY <1>1, <3>1
      <4> QED BY <4>1, <3>3
    <3> QED BY <2>2, <3>2, <3>4, Local
  <2> QED BY <2>1, <2>2
<1>9. Insert(t) => Moves(t, Fetched(t, "bind", Len(credentials), thread[t].seen))
  BY <1>1, <1>2, Goes DEF Insert
<1>10. Pop(t) => Moves(t, Fetched(t, "unbind", Len(credentials), thread[t].seen))
  BY <1>1, <1>2, Goes DEF Pop
<1>11. ASSUME LogoutBegin(t)
       PROVE  \E token \in 1..minted :
                Valid(token) /\ ended' = ended \cup {token} /\ Moves(t, Leaving(token))
  <2>1. PICK token \in 1..minted :
          /\ Valid(token) /\ ended' = ended \cup {token}
          /\ thread' = [thread EXCEPT ![t] = Leaving(token)]
    BY <1>11 DEF LogoutBegin, Leaving, Uncopied
  <2>2. Leaving(token) \in Locals
    BY <1>1, <1>2 DEF Leaving, Locals, Tokens, Uncopied
  <2> HIDE DEF Valid
  <2> QED BY <2>1, <2>2, Local
<1> QED BY <1>3, <1>4, <1>5, <1>6, <1>7, <1>8, <1>9, <1>10, <1>11

LEMMA TypesNext ==
  ASSUME admins' \in Nat, initialized' \in BOOLEAN, enabled' \in BOOLEAN,
         sessions' \in Dicts, sessions' # <<>>, credentials' \in Dicts, credentials' # <<>>,
         attempts' \in Nat, minted' \in 0..MaxTokens, logins' \in 0..MaxLogins,
         thread' \in [Threads -> Locals], \A t \in Threads : Held(t)',
         expired' \subseteq Tokens, issued' \subseteq Tokens,
         closed' \subseteq ended', ended' \subseteq Tokens, Tokened'
  PROVE  Typed'
BY DEF Typed, TypeOK, Dicts, Locals, Phases, Held

LEMMA TypeInit == Init => Typed
<1> SUFFICES ASSUME Init PROVE Typed
  OBVIOUS
<1>1. <<{}>> \in Dicts /\ <<{}>> # <<>>
  BY DEF Dicts
<1>2. thread \in [Threads -> Locals] /\ \A t \in Threads : thread[t].phase = "idle"
  BY IdleLocal DEF Init
<1>3. \A t \in Threads : Held(t)
  BY <1>2 DEF Held
<1>4. Tokened
  BY <1>2 DEF Tokened
<1>5. /\ admins \in Nat /\ attempts \in Nat /\ minted \in 0..MaxTokens /\ logins \in 0..MaxLogins
  BY AccessAssumption DEF Init
<1>7. initialized \in BOOLEAN /\ enabled \in BOOLEAN
  BY DEF Init
<1>6. sessions = <<{}>> /\ credentials = <<{}>> /\ expired = {} /\ issued = {} /\ closed = {} /\ ended = {}
  BY DEF Init
<1> QED BY <1>1, <1>2, <1>3, <1>4, <1>5, <1>6, <1>7, Types DEF Typed

LEMMA TypeStep == Typed /\ [Next]_access => Typed'
<1> SUFFICES ASSUME Typed, [Next]_access PROVE Typed'
  OBVIOUS
<1>1. /\ admins \in Nat /\ initialized \in BOOLEAN /\ enabled \in BOOLEAN
      /\ sessions \in Dicts /\ sessions # <<>> /\ credentials \in Dicts /\ credentials # <<>>
      /\ attempts \in Nat /\ minted \in 0..MaxTokens /\ logins \in 0..MaxLogins
      /\ thread \in [Threads -> Locals]
      /\ \A t \in Threads : Held(t)
      /\ expired \subseteq Tokens /\ issued \subseteq Tokens
      /\ closed \subseteq ended /\ ended \subseteq Tokens
      /\ Tokened /\ MaxTokens \in Nat /\ MaxLogins \in Nat /\ MaxAttempts \in Nat
  BY Types, AccessAssumption DEF Typed
<1>2. /\ Len(sessions) \in DOMAIN sessions /\ Len(credentials) \in DOMAIN credentials
      /\ Last(sessions) \in SUBSET Tokens /\ 1..minted \subseteq Tokens
  BY <1>1, Newest DEF Tokens
<1>3. CASE UNCHANGED access
  BY <1>1, <1>3 DEF access, people, dicts, history, Typed, TypeOK, Tokened
<1>4. ASSUME NEW t \in Threads, SetupCheck(t) PROVE Typed'
  <2>1. Moves(t, Fetched(t, "setup", thread[t].ref, thread[t].seen))
    BY <1>4, Locally
  <2> QED BY <1>1, <1>4, <2>1, TypesNext DEF SetupCheck, people, dicts, history, Moves, Fetched, Held, Tokened
<1>5. ASSUME NEW t \in Threads, SetupCommit(t) PROVE Typed'
  <2>1. Moves(t, Idle)
    BY <1>5, Locally
  <2>2. admins' \in Nat
    BY <1>1, <1>5 DEF SetupCommit
  <2>4. initialized' \in BOOLEAN
    BY <1>1, <1>5, Zenon DEF SetupCommit
  <2>3. UNCHANGED <<enabled, dicts, attempts, minted, expired, history, logins>>
    BY <1>5 DEF SetupCommit
  <2> QED BY <1>1, <2>1, <2>2, <2>3, <2>4, IdleLocal, TypesNext DEF dicts, history, Moves, Held, Tokened
<1>6. ASSUME NEW t \in Threads, LoginBegin(t) PROVE Typed'
  <2>1. /\ thread' \in [Threads -> Locals]
        /\ thread'[t].phase = "sessions"
        /\ \A u \in Threads \ {t} :
             /\ thread'[u].phase = thread[u].phase /\ thread'[u].token = thread[u].token
             /\ thread'[u].ref = thread[u].ref
    <3>1. /\ thread' \in [Threads -> Locals] /\ thread'[t] = Begun(t)
          /\ \A u \in Threads \ {t} :
               /\ thread'[u].phase = thread[u].phase /\ thread'[u].token = thread[u].token
               /\ thread'[u].ref = thread[u].ref
      BY <1>6, Locally
    <3> QED BY <3>1 DEF Begun
  <2>2. logins' \in 0..MaxLogins
    BY <1>1, <1>6 DEF LoginBegin
  <2> QED BY <1>1, <1>6, <2>1, <2>2, TypesNext DEF LoginBegin, people, dicts, history, Held, Tokened
<1>7. ASSUME NEW t \in Threads, RebindSessions(t) PROVE Typed'
  <2>1. Moves(t, Fetched(t, "credentials", Len(credentials), Last(credentials)))
    BY <1>7, Locally
  <2>2. sessions' \in Dicts /\ sessions' # <<>> /\ DOMAIN sessions \subseteq DOMAIN sessions'
    BY <1>7, Rebinds DEF Grown
  <2> QED BY <1>1, <1>7, <2>1, <2>2, TypesNext
          DEF RebindSessions, people, history, Moves, Fetched, Held, Tokened
<1>8. ASSUME NEW t \in Threads, CopyFails(t) PROVE Typed'
  <2>1. Moves(t, Idle)
    BY <1>8, Locally
  <2> QED BY <1>1, <1>8, <2>1, IdleLocal, TypesNext
          DEF CopyFails, people, dicts, history, Moves, Held, Tokened
<1>9. ASSUME NEW t \in Threads, RebindCredentials(t) PROVE Typed'
  <2>1. \/ Moves(t, Idle)
        \/ Moves(t, Fetched(t, "code", thread[t].ref, thread[t].seen))
    BY <1>9, Locally
  <2>2. credentials' \in Dicts /\ credentials' # <<>> /\ DOMAIN credentials \subseteq DOMAIN credentials'
    BY <1>9, Rebinds DEF Grown
  <2>3. UNCHANGED <<admins, initialized, enabled, sessions, attempts, minted, expired, issued, ended, closed, logins>>
    BY <1>9 DEF RebindCredentials, people, history
  <2>4. \A u \in Threads \ {t} : Held(u)'
    BY <1>1, <2>1, <2>2, <2>3 DEF Moves, Held
  <2>5. /\ thread' \in [Threads -> Locals] /\ Held(t)' /\ thread'[t].phase \in {"idle", "code"}
    BY <2>1, IdleLocal DEF Moves, Fetched, Held
  <2>6. Tokened'
    BY <1>1, <2>1, <2>3, <2>5 DEF Moves, Tokened
  <2> QED BY <1>1, <2>2, <2>3, <2>4, <2>5, <2>6, TypesNext
<1>10. ASSUME NEW t \in Threads, WrongCode(t) PROVE Typed'
  <2>1. Moves(t, Idle)
    BY <1>10, Locally
  <2> QED BY <1>1, <1>10, <2>1, IdleLocal, TypesNext
          DEF WrongCode, people, dicts, history, Moves, Held, Tokened
<1>11. ASSUME NEW t \in Threads, RightCode(t) PROVE Typed'
  <2>1. CASE Cardinality(Last(sessions)) >= MaxSessions
    <3>1. Moves(t, Idle) /\ minted' = minted
      BY <1>11, <2>1, Locally DEF RightCode
    <3> QED BY <1>1, <1>11, <3>1, IdleLocal, TypesNext
            DEF RightCode, people, dicts, history, Moves, Held, Tokened
  <2>2. CASE ~(Cardinality(Last(sessions)) >= MaxSessions)
    <3>1. Moves(t, Generated(t)) /\ minted < MaxTokens /\ minted' = minted + 1
      BY <1>11, <2>2, Locally DEF RightCode
    <3>2. Generated(t).phase = "insert" /\ Generated(t).token \in 1..minted'
          /\ Generated(t).ref \in DOMAIN sessions
      BY <1>1, <1>2, <3>1 DEF Generated
    <3>3. minted' \in 0..MaxTokens /\ 1..minted \subseteq 1..minted'
      BY <1>1, <3>1
    <3> QED BY <1>1, <1>11, <3>1, <3>2, <3>3, TypesNext
            DEF RightCode, people, dicts, history, Moves, Held, Tokened
  <2> QED BY <2>1, <2>2
<1>12. ASSUME NEW t \in Threads, Insert(t) PROVE Typed'
  <2>1. Moves(t, Fetched(t, "bind", Len(credentials), thread[t].seen))
    BY <1>12, Locally
  <2>2. sessions' \in Dicts /\ sessions' # <<>> /\ DOMAIN sessions' = DOMAIN sessions
    BY <1>12, Changes DEF Changed
  <2> QED BY <1>1, <1>2, <1>12, <2>1, <2>2, TypesNext
          DEF Insert, people, history, Moves, Fetched, Held, Tokened
<1>13. ASSUME NEW t \in Threads, Bind(t) PROVE Typed'
  <2>1. Moves(t, Idle)
    BY <1>13, Locally
  <2>2. credentials' \in Dicts /\ credentials' # <<>> /\ DOMAIN credentials' = DOMAIN credentials
    BY <1>13, Changes DEF Changed
  <2>3. issued' \subseteq Tokens
    BY <1>1, <1>2, <1>13 DEF Bind, Tokened
  <2> QED BY <1>1, <1>13, <2>1, <2>2, <2>3, IdleLocal, TypesNext
          DEF Bind, people, Moves, Held, Tokened
<1>14. ASSUME NEW t \in Threads, LogoutBegin(t) PROVE Typed'
  <2>1. PICK token \in 1..minted : ended' = ended \cup {token} /\ Moves(t, Leaving(token))
    BY <1>14, Locally
  <2> QED BY <1>1, <1>2, <1>14, <2>1, TypesNext
          DEF LogoutBegin, people, dicts, Moves, Leaving, Held, Tokened
<1>15. ASSUME NEW t \in Threads, Pop(t) PROVE Typed'
  <2>1. Moves(t, Fetched(t, "unbind", Len(credentials), thread[t].seen))
    BY <1>15, Locally
  <2>2. sessions' \in Dicts /\ sessions' # <<>> /\ DOMAIN sessions' = DOMAIN sessions
    BY <1>15, Changes DEF Changed
  <2>3. closed' \subseteq ended
    BY <1>1, <1>15 DEF Pop, LoggedOut, Tokened
  <2> QED BY <1>1, <1>2, <1>15, <2>1, <2>2, <2>3, TypesNext
          DEF Pop, people, Moves, Fetched, Held, Tokened
<1>16. ASSUME NEW t \in Threads, Unbind(t) PROVE Typed'
  <2>1. Moves(t, Idle)
    BY <1>16, Locally
  <2>2. credentials' \in Dicts /\ credentials' # <<>> /\ DOMAIN credentials' = DOMAIN credentials
    BY <1>16, Changes DEF Changed
  <2> QED BY <1>1, <1>16, <2>1, <2>2, IdleLocal, TypesNext
          DEF Unbind, people, history, Moves, Held, Tokened
<1>17. ASSUME Purge PROVE Typed'
  <2>1. sessions' \in Dicts /\ sessions' # <<>> /\ DOMAIN sessions' = DOMAIN sessions
    BY <1>17, Purges DEF Changed
  <2> QED BY <1>1, <1>17, <2>1, TypesNext DEF Purge, people, history, Held, Tokened
<1>18. ASSUME Expire \/ Age \/ Disable PROVE Typed'
  <2>1. UNCHANGED <<admins, initialized, dicts, thread, minted, history, logins>>
    BY <1>18 DEF Expire, Age, Disable, people
  <2>2. expired' \subseteq Tokens
    BY <1>1, <1>2, <1>18 DEF Expire, Age, Disable
  <2>3. attempts' \in Nat
    BY <1>1, <1>18 DEF Expire, Age, Disable
  <2>4. enabled' \in BOOLEAN
    BY <1>1, <1>18, Zenon DEF Expire, Age, Disable, people
  <2> QED BY <1>1, <2>1, <2>2, <2>3, <2>4, TypesNext DEF dicts, history, Held, Tokened
<1> QED
  BY <1>3, <1>4, <1>5, <1>6, <1>7, <1>8, <1>9, <1>10, <1>11, <1>12, <1>13, <1>14, <1>15, <1>16, <1>17, <1>18
     DEF Next, Setup, Login, Logout
-----------------------------------------------------------------------------
\* One administrator, and the throttle.

LEMMA AdministratorStep == Typed /\ OneAdministrator /\ [Next]_access => OneAdministrator'
<1> SUFFICES ASSUME Typed, OneAdministrator, [Next]_access PROVE OneAdministrator'
  OBVIOUS
<1>1. admins \in Nat
  BY DEF Typed, TypeOK
<1>2. ASSUME NEW t \in Threads, SetupCommit(t) PROVE OneAdministrator'
  <2>1. CASE initialized \/ admins > 0
    BY <1>2, <2>1 DEF SetupCommit, OneAdministrator
  <2>2. CASE ~(initialized \/ admins > 0)
    <3>1. admins' = 1 /\ initialized' = TRUE
      BY <1>1, <1>2, <2>2 DEF SetupCommit
    <3> QED BY <3>1 DEF OneAdministrator
  <2> QED BY <2>1, <2>2
<1>3. CASE UNCHANGED <<admins, initialized>>
  BY <1>3 DEF OneAdministrator
<1> QED
  BY <1>2, <1>3 DEF Next, Setup, SetupCheck, Login, LoginBegin, RebindSessions, CopyFails, RebindCredentials,
     WrongCode, RightCode, Insert, Bind, Logout, LogoutBegin, Pop, Unbind, Purge, Expire, Age, Disable,
     access, people

\* A thread past the throttle's look may still fail once.
Codes == {t \in Threads : thread[t].phase = "code"}
Looked == attempts + Cardinality(Codes) <= MaxAttempts + Cardinality(Threads) - 1

LEMMA Counts ==
  /\ IsFiniteSet(Codes) /\ Cardinality(Codes) \in Nat /\ Cardinality(Threads) \in Nat
  /\ Cardinality(Codes) <= Cardinality(Threads)
  /\ \A S \in SUBSET Codes : Cardinality(S) \in Nat /\ Cardinality(S) <= Cardinality(Codes)
  /\ \A S \in SUBSET Threads : Cardinality(S) \in Nat /\ Cardinality(S) <= Cardinality(Threads)
  /\ \A t \in Codes : Cardinality(Codes \ {t}) = Cardinality(Codes) - 1
<1>1. IsFiniteSet(Threads) /\ Codes \subseteq Threads
  BY AccessAssumption DEF Codes
<1>2. \A S \in SUBSET Threads : IsFiniteSet(S) /\ Cardinality(S) <= Cardinality(Threads)
  BY <1>1, FS_Subset
<1>3. \A S \in SUBSET Codes : IsFiniteSet(S) /\ Cardinality(S) <= Cardinality(Codes)
  BY <1>1, <1>2, FS_Subset
<1>4. \A S \in SUBSET Threads : Cardinality(S) \in Nat
  BY <1>2, FS_CardinalityType
<1>5. \A t \in Codes : Cardinality(Codes \ {t}) = Cardinality(Codes) - 1
  BY <1>1, <1>2, FS_RemoveElement
<1> QED BY <1>1, <1>2, <1>3, <1>4, <1>5

LEMMA LookedStep == Typed /\ Looked /\ [Next]_access => Looked'
<1> SUFFICES ASSUME Typed, Looked, [Next]_access PROVE Looked'
  OBVIOUS
<1>1. /\ attempts \in Nat /\ MaxAttempts \in Nat \ {0}
      /\ Cardinality(Codes) \in Nat /\ Cardinality(Threads) \in Nat
      /\ Codes' \subseteq Threads
  BY AccessAssumption, Counts DEF Typed, TypeOK, Codes
<1>2. ASSUME attempts' \in Nat, attempts' <= attempts,
             \A u \in Threads : thread'[u].phase = "code" => thread[u].phase = "code"
      PROVE  Looked'
  <2>1. Codes' \in SUBSET Codes
    BY <1>2 DEF Codes
  <2> QED BY <1>1, <1>2, <2>1, Counts DEF Looked
<1>3. ASSUME NEW t \in Threads, RebindCredentials(t) PROVE Looked'
  <2>1. attempts' = attempts
    BY <1>3 DEF RebindCredentials
  <2>2. CASE Throttles
    <3>1. Moves(t, Idle)
      BY <1>3, <2>2, Locally
    <3> QED BY <1>1, <1>2, <2>1, <3>1, IdleLocal DEF Moves
  <2>3. CASE ~Throttles
    BY <1>1, <2>1, <2>3, Counts DEF Looked, Throttles
  <2> QED BY <2>2, <2>3
<1>4. ASSUME NEW t \in Threads, WrongCode(t) PROVE Looked'
  <2>1. Moves(t, Idle) /\ attempts' = attempts + 1 /\ t \in Codes
    BY <1>4, Locally DEF WrongCode, Codes
  <2>2. Codes' = Codes \ {t}
    BY <2>1, IdleLocal DEF Codes, Moves
  <2>3. Cardinality(Codes') = Cardinality(Codes) - 1
    BY <2>1, <2>2, Counts
  <2> QED BY <1>1, <2>1, <2>3 DEF Looked
<1>5. ASSUME NEW t \in Threads, RightCode(t) PROVE Looked'
  <2>1. attempts' = 0
    BY <1>5 DEF RightCode
  <2>2. \A u \in Threads : thread'[u].phase = "code" => thread[u].phase = "code"
    <3>1. Moves(t, Idle) \/ Moves(t, Generated(t))
      BY <1>5, Locally
    <3> QED BY <3>1, IdleLocal DEF Moves, Generated
  <2> QED BY <1>1, <1>2, <2>1, <2>2
<1>6. ASSUME UNCHANGED <<attempts, thread>> PROVE Looked'
  BY <1>1, <1>2, <1>6
<1>7. ASSUME Age PROVE Looked'
  BY <1>1, <1>2, <1>7 DEF Age
<1>8. ASSUME NEW t \in Threads,
             SetupCheck(t) \/ SetupCommit(t) \/ CopyFails(t) \/ RebindSessions(t) \/ Insert(t) \/ Bind(t)
             \/ LogoutBegin(t) \/ Pop(t) \/ Unbind(t)
      PROVE  Looked'
  <2>1. attempts' = attempts
    BY <1>8 DEF SetupCheck, SetupCommit, CopyFails, RebindSessions, Insert, Bind, LogoutBegin, Pop, Unbind
  <2>2. \/ Moves(t, Idle)
        \/ \E phase \in {"setup", "credentials", "bind", "unbind"} : \E ref, seen :
             Moves(t, Fetched(t, phase, ref, seen))
        \/ \E token : Moves(t, Leaving(token))
    BY <1>8, Locally
  <2>3. \A u \in Threads : thread'[u].phase = "code" => thread[u].phase = "code"
    <3>1. CASE Moves(t, Idle)
      BY <3>1, IdleLocal DEF Moves
    <3>2. ASSUME NEW phase \in {"setup", "credentials", "bind", "unbind"}, NEW ref, NEW seen,
                 Moves(t, Fetched(t, phase, ref, seen))
          PROVE  \A u \in Threads : thread'[u].phase = "code" => thread[u].phase = "code"
      BY <3>2 DEF Moves, Fetched
    <3>3. ASSUME NEW token, Moves(t, Leaving(token))
          PROVE  \A u \in Threads : thread'[u].phase = "code" => thread[u].phase = "code"
      BY <3>3 DEF Moves, Leaving
    <3> QED BY <2>2, <3>1, <3>2, <3>3
  <2> QED BY <1>1, <1>2, <2>1, <2>3
<1>9. ASSUME NEW t \in Threads, LoginBegin(t) PROVE Looked'
  <2>1. attempts' = attempts
    BY <1>9 DEF LoginBegin
  <2>2. thread'[t] = Begun(t) /\ \A u \in Threads \ {t} : thread'[u].phase = thread[u].phase
    BY <1>9, Locally
  <2>3. \A u \in Threads : thread'[u].phase = "code" => thread[u].phase = "code"
    BY <2>2 DEF Begun
  <2> QED BY <1>1, <1>2, <2>1, <2>3
<1> QED
  BY <1>3, <1>4, <1>5, <1>6, <1>7, <1>8, <1>9
     DEF Next, Setup, Login, Logout, Purge, Expire, Disable, access
-----------------------------------------------------------------------------
\* The sessions.

\* Tokens come from the generator.
Generation ==
  /\ Last(sessions) \subseteq 1..minted /\ ended \subseteq 1..minted
  /\ \A t \in Threads : thread[t].phase = "sessions" => thread[t].seen \subseteq 1..minted

\* Nobody has the token that a login is about to insert.
Fresh ==
  \A t \in Threads : thread[t].phase = "insert" =>
    /\ thread[t].token \notin Last(sessions) \cup ended
    /\ \A u \in Threads :
         /\ thread[u].phase = "sessions" => thread[t].token \notin thread[u].seen
         /\ u # t /\ thread[u].phase = "insert" => thread[u].token # thread[t].token

\* While no login overlaps, a login works on the newest dictionaries, and a
\* logout does while none copies the sessions.
Alone ==
  \A t \in Threads : thread[t].alone =>
    /\ thread[t].phase \in LoginPhases => \A u \in Threads \ {t} : thread[u].phase \notin LoginPhases
    /\ thread[t].phase = "pop" => \A u \in Threads : thread[u].phase # "sessions"
    /\ thread[t].phase \in {"insert", "pop"} => thread[t].ref = Len(sessions)
    /\ thread[t].phase = "bind" =>
         /\ thread[t].ref = Len(credentials)
         /\ thread[t].token \in Last(sessions) \cup expired \cup ended

\* No dictionary that is, or will be, the newest has a token logged out for good.
Gone ==
  \A token \in closed :
    /\ token \notin Last(sessions)
    /\ \A t \in Threads : thread[t].phase = "sessions" => token \notin thread[t].seen

\* Each of them has the tokens that are good.
Kept ==
  \A token \in issued \ (expired \cup ended) :
    /\ token \in Last(sessions) /\ token \in Last(credentials)
    /\ \A t \in Threads : thread[t].phase \in {"sessions", "credentials"} => token \in thread[t].seen

Sound == Generation /\ Fresh /\ Alone /\ Gone /\ Kept

LEMMA SoundInit == Init => Sound
<1> SUFFICES ASSUME Init PROVE Sound
  OBVIOUS
<1>1. \A t \in Threads : thread[t].phase = "idle" /\ thread[t].alone = FALSE
  BY IdleLocal DEF Init
<1>2. Last(sessions) = {}
  BY DEF Init, Last
<1>3. ended = {} /\ issued = {} /\ closed = {}
  BY DEF Init
<1> QED BY <1>1, <1>2, <1>3 DEF Sound, Generation, Fresh, Alone, Gone, Kept

\* A step that leaves the dictionaries alone: a thread finishes, or starts the setup.
Quiet ==
  /\ UNCHANGED <<sessions, credentials, minted, issued, ended, closed>> /\ expired \subseteq expired'
  /\ \A u \in Threads : thread'[u] = thread[u] \/ thread'[u].phase \in {"idle", "setup"}

LEMMA QuietStep == Typed /\ Sound /\ Quiet => Sound'
<1> SUFFICES ASSUME Typed, Sound, Quiet PROVE Sound'
  OBVIOUS
<1>1. Generation'
  BY DEF Sound, Quiet, Generation
<1>2. Fresh'
  BY DEF Sound, Quiet, Fresh
<1>3. Alone'
  BY DEF Sound, Quiet, Alone, LoginPhases, LogoutPhases
<1>4. Gone'
  BY DEF Sound, Quiet, Gone
<1>5. Kept'
  BY DEF Sound, Quiet, Kept
<1> QED BY <1>1, <1>2, <1>3, <1>4, <1>5 DEF Sound

LEMMA LoginBeginSound ==
  ASSUME Typed, Sound, NEW t \in Threads, LoginBegin(t)
  PROVE  Sound'
<1>1. thread[t].phase = "idle" /\ UNCHANGED <<sessions, credentials, minted, expired, issued, ended, closed>>
  BY DEF LoginBegin, dicts, history
<1>2. /\ thread'[t] = Begun(t)
      /\ \A u \in Threads \ {t} :
           /\ thread'[u].alone = FALSE
           /\ thread'[u].phase = thread[u].phase /\ thread'[u].token = thread[u].token
           /\ thread'[u].ref = thread[u].ref /\ thread'[u].seen = thread[u].seen
  BY Locally
<1>3. /\ thread'[t].phase = "sessions" /\ thread'[t].seen = Last(sessions)
      /\ thread'[t].alone => \A u \in Threads : thread[u].phase \notin LoginPhases
  BY <1>2 DEF Begun, Calm, LoggingIn
<1>4. Generation'
  BY <1>1, <1>2, <1>3 DEF Sound, Generation
<1>5. Fresh'
  BY <1>1, <1>2, <1>3 DEF Sound, Fresh
<1>6. Alone'
  BY <1>2, <1>3 DEF Sound, Alone, LoginPhases, LogoutPhases
<1>7. Gone'
  BY <1>1, <1>2, <1>3 DEF Sound, Gone
<1>8. Kept'
  BY <1>1, <1>2, <1>3 DEF Sound, Kept
<1> QED BY <1>4, <1>5, <1>6, <1>7, <1>8 DEF Sound

LEMMA RebindSessionsSound ==
  ASSUME Typed, Sound, NEW t \in Threads, RebindSessions(t)
  PROVE  Sound'
<1>1. thread[t].phase = "sessions" /\ UNCHANGED <<credentials, minted, expired, issued, ended, closed>>
  BY DEF RebindSessions, history
<1>2. Moves(t, Fetched(t, "credentials", Len(credentials), Last(credentials)))
  BY Locally
<1>3. /\ thread'[t].phase = "credentials" /\ thread'[t].token = thread[t].token /\ thread'[t].ref = Len(credentials)
      /\ thread'[t].seen = Last(credentials) /\ thread'[t].alone = thread[t].alone
      /\ \A u \in Threads \ {t} : thread'[u] = thread[u]
  BY <1>2 DEF Moves, Fetched
<1>4. Len(sessions') = Len(sessions) + 1 /\ Last(sessions') = thread[t].seen \ expired
  BY Rebinds DEF Grown
<1>5. Generation'
  BY <1>1, <1>3, <1>4 DEF Sound, Generation
<1>6. Fresh'
  BY <1>1, <1>3, <1>4 DEF Sound, Fresh
<1>7. Alone'
  BY <1>1, <1>3 DEF Sound, Alone, LoginPhases, LogoutPhases
<1>8. Gone'
  BY <1>1, <1>3, <1>4 DEF Sound, Gone
<1>9. Kept'
  BY <1>1, <1>3, <1>4 DEF Sound, Kept
<1> QED BY <1>5, <1>6, <1>7, <1>8, <1>9 DEF Sound

LEMMA RebindCredentialsSound ==
  ASSUME Typed, Sound, NEW t \in Threads, RebindCredentials(t)
  PROVE  Sound'
<1>1. thread[t].phase = "credentials" /\ UNCHANGED <<sessions, minted, expired, issued, ended, closed>>
  BY DEF RebindCredentials, history
<1>2. Moves(t, Idle) \/ Moves(t, Fetched(t, "code", thread[t].ref, thread[t].seen))
  BY Locally
<1>3. /\ \A u \in Threads \ {t} : thread'[u] = thread[u]
      /\ \/ thread'[t].phase = "idle" /\ thread'[t].alone = FALSE
         \/ thread'[t].phase = "code" /\ thread'[t].alone = thread[t].alone
  BY <1>2, IdleLocal DEF Moves, Fetched
<1>4. Len(credentials') = Len(credentials) + 1 /\ Last(credentials') = thread[t].seen \cap Last(sessions)
  BY Rebinds DEF Grown
<1>5. Generation'
  BY <1>1, <1>3 DEF Sound, Generation
<1>6. Fresh'
  BY <1>1, <1>3 DEF Sound, Fresh
<1>7. Alone'
  BY <1>1, <1>3 DEF Sound, Alone, LoginPhases, LogoutPhases
<1>8. Gone'
  BY <1>1, <1>3 DEF Sound, Gone
<1>9. Kept'
  BY <1>1, <1>3, <1>4 DEF Sound, Kept
<1> QED BY <1>5, <1>6, <1>7, <1>8, <1>9 DEF Sound

LEMMA GenerateSound ==
  ASSUME Typed, Sound, NEW t \in Threads, RightCode(t), Moves(t, Generated(t))
  PROVE  Sound'
<1>1. /\ minted \in Nat /\ closed \subseteq ended /\ Tokened /\ Len(sessions) \in Nat /\ Len(credentials) \in Nat
      /\ thread \in [Threads -> Locals]
  BY Types, Newest DEF Typed
<1>2. thread[t].phase = "code" /\ UNCHANGED <<sessions, credentials, expired, issued, ended, closed>>
  BY DEF RightCode, dicts, history
<1>3. minted' = minted + 1
  BY IdleLocal DEF RightCode, Finish, Moves, Generated
<1>4. /\ thread'[t].phase = "insert" /\ thread'[t].token = minted + 1 /\ thread'[t].ref = Len(sessions)
      /\ thread'[t].seen = thread[t].seen /\ thread'[t].alone = thread[t].alone
      /\ \A u \in Threads \ {t} : thread'[u] = thread[u]
  BY DEF Moves, Generated
<1>5. Generation'
  BY <1>1, <1>2, <1>3, <1>4 DEF Sound, Generation
<1>6. Fresh'
  BY <1>1, <1>2, <1>4 DEF Sound, Fresh, Generation, Tokened
<1>7. Alone'
  BY <1>2, <1>4 DEF Sound, Alone, LoginPhases, LogoutPhases
<1>8. Gone'
  BY <1>2, <1>4 DEF Sound, Gone
<1>9. Kept'
  BY <1>2, <1>4 DEF Sound, Kept
<1> QED BY <1>5, <1>6, <1>7, <1>8, <1>9 DEF Sound

LEMMA InsertSound ==
  ASSUME Typed, Sound, NEW t \in Threads, Insert(t)
  PROVE  Sound'
<1>1. /\ minted \in Nat /\ closed \subseteq ended /\ Tokened /\ Len(sessions) \in Nat /\ Len(credentials) \in Nat
      /\ thread \in [Threads -> Locals]
  BY Types, Newest DEF Typed
<1>2. thread[t].phase = "insert" /\ UNCHANGED <<credentials, minted, expired, issued, ended, closed>>
  BY DEF Insert, history
<1>3. Moves(t, Fetched(t, "bind", Len(credentials), thread[t].seen))
  BY Locally
<1>4. /\ thread'[t].phase = "bind" /\ thread'[t].token = thread[t].token /\ thread'[t].ref = Len(credentials)
      /\ thread'[t].seen = thread[t].seen /\ thread'[t].alone = thread[t].alone
      /\ \A u \in Threads \ {t} : thread'[u] = thread[u]
  BY <1>3 DEF Moves, Fetched
<1>5. /\ Len(sessions') = Len(sessions)
      /\ Last(sessions') = IF thread[t].ref = Len(sessions) THEN sessions[thread[t].ref] \cup {thread[t].token}
                          ELSE Last(sessions)
  BY Changes DEF Changed
<1>6. Last(sessions') = IF thread[t].ref = Len(sessions) THEN Last(sessions) \cup {thread[t].token}
                          ELSE Last(sessions)
  BY <1>5 DEF Last
<1>7. Generation'
  BY <1>1, <1>2, <1>4, <1>6 DEF Sound, Generation, Tokened
<1>8. Fresh'
  BY <1>2, <1>4, <1>6 DEF Sound, Fresh
<1>9. Alone'
  <2>1. \A u \in Threads : thread'[u].alone => thread[u].alone
    BY <1>4
  <2>2. t \in Threads /\ (thread[t].alone => thread[t].token \in Last(sessions'))
    BY <1>2, <1>6 DEF Sound, Alone
  <2>3. Last(sessions) \subseteq Last(sessions')
    BY <1>6
  <2> QED BY <1>2, <1>4, <1>5, <2>1, <2>2, <2>3 DEF Sound, Alone, LoginPhases
<1>10. Gone'
  BY <1>1, <1>2, <1>4, <1>6 DEF Sound, Gone, Fresh
<1>11. Kept'
  BY <1>2, <1>4, <1>6 DEF Sound, Kept
<1> QED BY <1>7, <1>8, <1>9, <1>10, <1>11 DEF Sound

LEMMA BindSound ==
  ASSUME Typed, Sound, NEW t \in Threads, Bind(t)
  PROVE  Sound'
<1>1. /\ thread[t].phase = "bind" /\ UNCHANGED <<sessions, minted, expired, ended, closed>>
      /\ issued' = IF thread[t].alone THEN issued \cup {thread[t].token} ELSE issued
  BY DEF Bind
<1>2. Moves(t, Idle)
  BY Locally
<1>3. /\ thread'[t].phase = "idle" /\ thread'[t].alone = FALSE
      /\ \A u \in Threads \ {t} : thread'[u] = thread[u]
  BY <1>2, IdleLocal DEF Moves
<1>4. /\ Len(credentials') = Len(credentials)
      /\ Last(credentials') = IF thread[t].ref = Len(credentials) THEN credentials[thread[t].ref] \cup {thread[t].token}
                             ELSE Last(credentials)
  BY Changes DEF Changed
<1>5. Last(credentials') = IF thread[t].ref = Len(credentials) THEN Last(credentials) \cup {thread[t].token}
                             ELSE Last(credentials)
  BY <1>4 DEF Last
<1>6. Generation'
  BY <1>1, <1>3 DEF Sound, Generation
<1>7. Fresh'
  BY <1>1, <1>3 DEF Sound, Fresh
<1>8. Alone'
  BY <1>1, <1>3 DEF Sound, Alone, LoginPhases, LogoutPhases
<1>9. Gone'
  BY <1>1, <1>3 DEF Sound, Gone
<1>10. Kept'
  BY <1>1, <1>3, <1>5 DEF Sound, Kept, Alone, LoginPhases
<1> QED BY <1>6, <1>7, <1>8, <1>9, <1>10 DEF Sound

LEMMA LogoutBeginSound ==
  ASSUME Typed, Sound, NEW t \in Threads, LogoutBegin(t)
  PROVE  Sound'
<1>1. thread[t].phase = "idle" /\ UNCHANGED <<sessions, credentials, minted, expired, issued, closed>>
  BY DEF LogoutBegin, dicts
<1>2. PICK token \in 1..minted :
        Valid(token) /\ ended' = ended \cup {token} /\ Moves(t, Leaving(token))
  BY Locally
<1>3. /\ thread'[t].phase = "pop" /\ thread'[t].token = token /\ thread'[t].ref = Len(sessions)
      /\ thread'[t].alone => \A u \in Threads : thread[u].phase # "sessions"
      /\ \A u \in Threads \ {t} : thread'[u] = thread[u]
  BY <1>2 DEF Moves, Leaving, Uncopied
<1>4. token \in Last(sessions)
  BY <1>2 DEF Valid
<1>5. Generation'
  BY <1>1, <1>2, <1>3 DEF Sound, Generation
<1>6. Fresh'
  BY <1>1, <1>2, <1>3, <1>4 DEF Sound, Fresh
<1>7. Alone'
  BY <1>1, <1>2, <1>3 DEF Sound, Alone, LoginPhases, LogoutPhases
<1>8. Gone'
  BY <1>1, <1>3 DEF Sound, Gone
<1>9. Kept'
  BY <1>1, <1>2, <1>3 DEF Sound, Kept
<1> QED BY <1>5, <1>6, <1>7, <1>8, <1>9 DEF Sound

LEMMA PopSound ==
  ASSUME Typed, Sound, NEW t \in Threads, Pop(t)
  PROVE  Sound'
<1>1. /\ minted \in Nat /\ closed \subseteq ended /\ Tokened /\ Len(sessions) \in Nat /\ Len(credentials) \in Nat
      /\ thread \in [Threads -> Locals]
  BY Types, Newest DEF Typed
<1>2. /\ thread[t].phase = "pop" /\ UNCHANGED <<credentials, minted, expired, issued, ended>>
      /\ closed' = IF thread[t].alone THEN closed \cup {thread[t].token} ELSE closed
  BY DEF Pop, LoggedOut
<1>3. Moves(t, Fetched(t, "unbind", Len(credentials), thread[t].seen))
  BY Locally
<1>4. /\ thread'[t].phase = "unbind" /\ thread'[t].token = thread[t].token /\ thread'[t].ref = Len(credentials)
      /\ thread'[t].seen = thread[t].seen /\ thread'[t].alone = thread[t].alone
      /\ \A u \in Threads \ {t} : thread'[u] = thread[u]
  BY <1>3 DEF Moves, Fetched
<1>5. /\ Len(sessions') = Len(sessions)
      /\ Last(sessions') = IF thread[t].ref = Len(sessions) THEN sessions[thread[t].ref] \ {thread[t].token}
                          ELSE Last(sessions)
  BY Changes DEF Changed
<1>6. Last(sessions') = IF thread[t].ref = Len(sessions) THEN Last(sessions) \ {thread[t].token}
                          ELSE Last(sessions)
  BY <1>5 DEF Last
<1>7. Generation'
  BY <1>2, <1>4, <1>6 DEF Sound, Generation
<1>8. Fresh'
  BY <1>2, <1>4, <1>6 DEF Sound, Fresh
<1>9. Alone'
  BY <1>1, <1>2, <1>4, <1>5, <1>6 DEF Sound, Alone, LoginPhases, LogoutPhases, Tokened
<1>10. Gone'
  BY <1>2, <1>4, <1>6 DEF Sound, Gone, Alone, LoginPhases, LogoutPhases
<1>11. Kept'
  BY <1>1, <1>2, <1>4, <1>6 DEF Sound, Kept, Tokened
<1> QED BY <1>7, <1>8, <1>9, <1>10, <1>11 DEF Sound

LEMMA UnbindSound ==
  ASSUME Typed, Sound, NEW t \in Threads, Unbind(t)
  PROVE  Sound'
<1>1. /\ minted \in Nat /\ closed \subseteq ended /\ Tokened /\ Len(sessions) \in Nat /\ Len(credentials) \in Nat
      /\ thread \in [Threads -> Locals]
  BY Types, Newest DEF Typed
<1>2. thread[t].phase = "unbind" /\ UNCHANGED <<sessions, minted, expired, issued, ended, closed>>
  BY DEF Unbind, history
<1>3. Moves(t, Idle)
  BY Locally
<1>4. /\ thread'[t].phase = "idle" /\ thread'[t].alone = FALSE
      /\ \A u \in Threads \ {t} : thread'[u] = thread[u]
  BY <1>3, IdleLocal DEF Moves
<1>5. /\ Len(credentials') = Len(credentials)
      /\ Last(credentials') = IF thread[t].ref = Len(credentials) THEN credentials[thread[t].ref] \ {thread[t].token}
                             ELSE Last(credentials)
  BY Changes DEF Changed
<1>6. Last(credentials') = IF thread[t].ref = Len(credentials) THEN Last(credentials) \ {thread[t].token}
                             ELSE Last(credentials)
  BY <1>5 DEF Last
<1>7. Generation'
  BY <1>2, <1>4 DEF Sound, Generation
<1>8. Fresh'
  BY <1>2, <1>4 DEF Sound, Fresh
<1>9. Alone'
  BY <1>2, <1>4, <1>5 DEF Sound, Alone, LoginPhases, LogoutPhases
<1>10. Gone'
  BY <1>2, <1>4 DEF Sound, Gone
<1>11. Kept'
  BY <1>1, <1>2, <1>4, <1>6 DEF Sound, Kept, Tokened
<1> QED BY <1>7, <1>8, <1>9, <1>10, <1>11 DEF Sound

LEMMA PurgeSound ==
  ASSUME Typed, Sound, Purge
  PROVE  Sound'
<1>1. UNCHANGED <<credentials, minted, thread, expired, issued, ended, closed>>
  BY DEF Purge, history
<1>2. PICK old \in expired : Len(sessions') = Len(sessions) /\ Last(sessions') = Last(sessions) \ {old}
  BY Purges DEF Changed
<1>3. Generation'
  BY <1>1, <1>2 DEF Sound, Generation
<1>4. Fresh'
  BY <1>1, <1>2 DEF Sound, Fresh
<1>5. Alone'
  BY <1>1, <1>2 DEF Sound, Alone, LoginPhases, LogoutPhases
<1>6. Gone'
  BY <1>1, <1>2 DEF Sound, Gone
<1>7. Kept'
  BY <1>1, <1>2 DEF Sound, Kept
<1> QED BY <1>3, <1>4, <1>5, <1>6, <1>7 DEF Sound

LEMMA SoundStep == Typed /\ Sound /\ [Next]_access => Sound'
<1> SUFFICES ASSUME Typed, Sound, [Next]_access PROVE Sound'
  OBVIOUS
<1>1. ASSUME Quiet PROVE Sound'
  BY <1>1, QuietStep
<1>2. CASE UNCHANGED access \/ Age \/ Disable \/ Expire
  <2>1. UNCHANGED <<sessions, credentials, minted, issued, ended, closed, thread>>
    BY <1>2 DEF access, dicts, history, people, Age, Disable, Expire
  <2>2. expired \subseteq expired'
    BY <1>2 DEF access, Age, Disable, Expire
  <2> QED BY <1>1, <2>1, <2>2 DEF Quiet
<1>3. ASSUME NEW t \in Threads, SetupCheck(t) \/ SetupCommit(t) \/ CopyFails(t) \/ WrongCode(t) PROVE Sound'
  <2>1. UNCHANGED <<sessions, credentials, minted, expired, issued, ended, closed>>
    BY <1>3 DEF SetupCheck, SetupCommit, CopyFails, WrongCode, dicts, history
  <2>2. Moves(t, Idle) \/ Moves(t, Fetched(t, "setup", thread[t].ref, thread[t].seen))
    BY <1>3, Locally
  <2>3. \A u \in Threads : thread'[u] = thread[u] \/ thread'[u].phase \in {"idle", "setup"}
    BY <2>2, IdleLocal DEF Moves, Fetched
  <2> QED BY <1>1, <2>1, <2>3 DEF Quiet
<1>4. ASSUME NEW t \in Threads, RightCode(t) PROVE Sound'
  <2>1. CASE Cardinality(Last(sessions)) >= MaxSessions
    <3>1. UNCHANGED <<sessions, credentials, minted, expired, issued, ended, closed>>
      BY <1>4, <2>1 DEF RightCode, dicts, history
    <3>2. Moves(t, Idle)
      BY <1>4, <2>1, Locally
    <3>3. \A u \in Threads : thread'[u] = thread[u] \/ thread'[u].phase \in {"idle", "setup"}
      BY <3>2, IdleLocal DEF Moves
    <3> QED BY <1>1, <3>1, <3>3 DEF Quiet
  <2>2. CASE ~(Cardinality(Last(sessions)) >= MaxSessions)
    BY <1>4, <2>2, Locally, GenerateSound
  <2> QED BY <2>1, <2>2
<1> QED
  BY <1>2, <1>3, <1>4, LoginBeginSound, RebindSessionsSound, RebindCredentialsSound, InsertSound, BindSound,
     LogoutBeginSound, PopSound, UnbindSound, PurgeSound
     DEF Next, Setup, Login, Logout
-----------------------------------------------------------------------------
\* The theorems.

\* The inductive invariant, its initial case and its step.
IInv == Typed /\ OneAdministrator /\ Looked /\ Sound

LEMMA InvariantHolds == Init => IInv
<1> SUFFICES ASSUME Init PROVE IInv
  OBVIOUS
<1>1. OneAdministrator
  BY DEF Init, OneAdministrator
<1>2. Looked
  <2>1. Codes = {} /\ attempts = 0
    BY IdleLocal DEF Init, Codes
  <2> QED BY <2>1, Counts, FS_EmptySet, AccessAssumption DEF Looked
<1> QED BY <1>1, <1>2, TypeInit, SoundInit DEF IInv

LEMMA InvariantKept == IInv /\ [Next]_access => IInv'
BY TypeStep, AdministratorStep, LookedStep, SoundStep DEF IInv

\* What it says of the properties.
LEMMA InvariantImplies ==
  IInv => TypeOK /\ OneAdministrator /\ Throttled /\ SessionsKept /\ LoggedOutForGood
<1> SUFFICES ASSUME IInv PROVE TypeOK /\ OneAdministrator /\ Throttled /\ SessionsKept /\ LoggedOutForGood
  OBVIOUS
<1>1. Throttled
  <2>1. attempts \in Nat /\ Cardinality(Codes) \in Nat /\ Cardinality(Threads) \in Nat /\ MaxAttempts \in Nat
    BY Counts, AccessAssumption DEF IInv, Typed, TypeOK
  <2> QED BY <2>1 DEF IInv, Looked, Throttled
<1> QED BY <1>1 DEF IInv, Typed, Sound, Kept, Gone, SessionsKept, LoggedOutForGood

\* The values of the manager's attributes, and of the threads' locals, are of
\* their types: in particular a thread that writes holds a dictionary that exists.
THEOREM TypeCorrect == Spec => []TypeOK
<1>1. Init => IInv
  BY InvariantHolds
<1>2. IInv /\ [Next]_access => IInv'
  BY InvariantKept
<1>3. IInv => TypeOK
  BY InvariantImplies
<1> QED BY <1>1, <1>2, <1>3, PTL DEF Spec

\* However many first-run requests pass the route's check, initialize_setup
\* makes one administrator.
THEOREM Administrator == Spec => []OneAdministrator
<1>1. Init => IInv
  BY InvariantHolds
<1>2. IInv /\ [Next]_access => IInv'
  BY InvariantKept
<1>3. IInv => OneAdministrator
  BY InvariantImplies
<1> QED BY <1>1, <1>2, <1>3, PTL DEF Spec

\* A client fails max_attempts times, and once more for each further thread
\* that was past the look at the count.
THEOREM Throttle == Spec => []Throttled
<1>1. Init => IInv
  BY InvariantHolds
<1>2. IInv /\ [Next]_access => IInv'
  BY InvariantKept
<1>3. IInv => Throttled
  BY InvariantImplies
<1> QED BY <1>1, <1>2, <1>3, PTL DEF Spec

\* A session from a login that overlapped no other is good until it expires or
\* is logged out, whatever the other threads do to the dictionaries.
THEOREM SessionGood == Spec => []SessionsKept
<1>1. Init => IInv
  BY InvariantHolds
<1>2. IInv /\ [Next]_access => IInv'
  BY InvariantKept
<1>3. IInv => SessionsKept
  BY InvariantImplies
<1> QED BY <1>1, <1>2, <1>3, PTL DEF Spec

\* A session that a logout takes out while no login is copying self.sessions
\* stays out: no other login, under way or to come, brings it back.  (A login
\* that is copying does: see LogoutInvalidates.)
THEOREM LogoutFinal == Spec => []LoggedOutForGood
<1>1. Init => IInv
  BY InvariantHolds
<1>2. IInv /\ [Next]_access => IInv'
  BY InvariantKept
<1>3. IInv => LoggedOutForGood
  BY InvariantImplies
<1> QED BY <1>1, <1>2, <1>3, PTL DEF Spec
=============================================================================
