------------------------- MODULE AuthSessionProofs -------------------------
(***************************************************************************)
(* Theorems about AuthSession, for any accounts and number of calls.       *)
(***************************************************************************)
EXTENDS AuthSession, SequenceTheorems, TLAPS

SessionOrNone == Sessions \cup {None}
UserOrNone == Users \cup {None}
Awaited == [user : Users, current : BOOLEAN]

Tabs == [session : SessionOrNone, profile : UserOrNone,
         profileStatus : {"idle", "loading", "ready", "error"},
         recoveryEmail : UserOrNone, recoveryPending : BOOLEAN, busy : BOOLEAN, initialized : BOOLEAN,
         verified : SessionOrNone, current : SUBSET Calls, bootstrapFits : BOOLEAN,
         awaiting : SUBSET Awaited, late : BOOLEAN]

(* The profile of a tab is that of its session.                            *)
ProfileOK(t) ==
  /\ (t.session = None) <=> (t.profileStatus = "idle")
  /\ t.profile # None => t.profile = UserOf(t.session)
  /\ t.profileStatus = "ready" => t.profile # None
  /\ t.profileStatus = "loading" => \E w \in t.awaiting : w.user = UserOf(t.session) /\ w.current

(* What the client's news and the reader's cancellations can do to a       *)
(* recovery: nothing, refresh its token, or end it with its calls.         *)
Weaker(t, r) ==
  /\ \/ r.current = t.current /\ r.recoveryEmail = t.recoveryEmail
     \/ r.current = {}
  /\ r.busy => t.busy /\ r.current = t.current
  /\ r.recoveryPending => /\ t.recoveryPending /\ r.recoveryEmail = t.recoveryEmail
                          /\ t.verified # None => r.verified # None /\ r.verified.user = t.verified.user
---------------------------------------------------------------------------
LEMMA SessionFacts ==
  /\ None \notin Users /\ None \notin Sessions
  /\ \A s \in SessionOrNone : UserOf(s) \in UserOrNone /\ (s # None => s \in Sessions /\ s.user \in Users)
  /\ \A s \in Sessions : s # None /\ s.user \in Users /\ UserOf(s) = s.user
BY AuthAssumption DEF SessionOrNone, UserOrNone, Sessions, UserOf

(* A tab's fields. *)
LEMMA TabFields ==
  ASSUME NEW t \in Tabs
  PROVE  /\ t.session \in SessionOrNone /\ t.profile \in UserOrNone /\ t.verified \in SessionOrNone
         /\ t.recoveryEmail \in UserOrNone /\ t.current \subseteq Calls /\ t.awaiting \subseteq Awaited
         /\ t.recoveryPending \in BOOLEAN /\ t.busy \in BOOLEAN
BY DEF Tabs

LEMMA CancelFields ==
  ASSUME NEW t \in Tabs
  PROVE  LET r == CancelRecovery(t) IN
         /\ r \in Tabs /\ r.recoveryEmail = None /\ r.recoveryPending = FALSE /\ r.busy = FALSE
         /\ r.verified = None /\ r.current = {}
         /\ r.session = t.session /\ r.profile = t.profile /\ r.profileStatus = t.profileStatus
         /\ r.awaiting = t.awaiting /\ r.late = t.late
BY DEF CancelRecovery, Invalidate, Tabs, SessionOrNone, UserOrNone

LEMMA CancelWeaker ==
  ASSUME NEW t \in Tabs
  PROVE  /\ CancelRecovery(t) \in Tabs /\ Weaker(t, CancelRecovery(t))
         /\ ProfileOK(t) => ProfileOK(CancelRecovery(t))
BY CancelFields DEF Weaker, ProfileOK

LEMMA WeakerTransitive ==
  ASSUME NEW t, NEW r, NEW q, Weaker(t, r), Weaker(r, q)
  PROVE  Weaker(t, q)
BY DEF Weaker

LEMMA KeepRecoveryFields ==
  ASSUME NEW t \in Tabs, NEW session \in SessionOrNone, NEW event,
         event = "TOKEN_REFRESHED" => session # None
  PROVE  LET r == KeepRecovery(t, session, event) IN
         /\ r \in Tabs /\ Weaker(t, r)
         /\ r.session = t.session /\ r.profile = t.profile /\ r.profileStatus = t.profileStatus
         /\ r.awaiting = t.awaiting
<1> DEFINE arrived == IF /\ event = "SIGNED_IN" /\ t.recoveryEmail # None
                         /\ TokenOf(session) # TokenOf(t.session)
                      THEN CancelRecovery(t) ELSE t
           kept == IF Foreign(arrived, session, event)
                   THEN [Invalidate(arrived) EXCEPT !.recoveryPending = FALSE, !.busy = FALSE]
                   ELSE IF arrived.verified # None /\ event = "TOKEN_REFRESHED"
                   THEN [arrived EXCEPT !.verified.token = session.token]
                   ELSE arrived
           Alike(r) == /\ r.session = t.session /\ r.profile = t.profile /\ r.profileStatus = t.profileStatus
                      /\ r.awaiting = t.awaiting
<1>0. Weaker(t, t)
  BY DEF Weaker
<1>1. arrived \in Tabs /\ Weaker(t, arrived) /\ Alike(arrived)
  BY <1>0, CancelFields, CancelWeaker
<1>2. kept \in Tabs /\ Weaker(arrived, kept) /\ Alike(kept)
  <2> HIDE DEF arrived
  <2>1. CASE Foreign(arrived, session, event)
    <3> DEFINE r == [Invalidate(arrived) EXCEPT !.recoveryPending = FALSE, !.busy = FALSE]
    <3>1. /\ r \in Tabs /\ r.current = {} /\ r.busy = FALSE /\ r.recoveryPending = FALSE
          /\ r.session = arrived.session /\ r.profile = arrived.profile
          /\ r.profileStatus = arrived.profileStatus /\ r.awaiting = arrived.awaiting
      BY <1>1 DEF Tabs, Invalidate, SessionOrNone
    <3> QED BY <1>1, <2>1, <3>1 DEF Weaker
  <2>2. CASE ~Foreign(arrived, session, event) /\ arrived.verified # None /\ event = "TOKEN_REFRESHED"
    <3> DEFINE r == [arrived EXCEPT !.verified.token = session.token]
    <3>1. arrived.verified \in Sessions /\ session \in Sessions
      BY <1>1, <2>2, TabFields, SessionFacts
    <3>2. [arrived.verified EXCEPT !.token = session.token] \in Sessions
          /\ [arrived.verified EXCEPT !.token = session.token].user = arrived.verified.user
      BY <3>1 DEF Sessions
    <3>3. r = [arrived EXCEPT !.verified = [arrived.verified EXCEPT !.token = session.token]]
      OBVIOUS
    <3>4. /\ r \in Tabs /\ r.current = arrived.current /\ r.busy = arrived.busy
          /\ r.recoveryPending = arrived.recoveryPending /\ r.recoveryEmail = arrived.recoveryEmail
          /\ r.verified = [arrived.verified EXCEPT !.token = session.token]
          /\ r.session = arrived.session /\ r.profile = arrived.profile
          /\ r.profileStatus = arrived.profileStatus /\ r.awaiting = arrived.awaiting
      BY <1>1, <3>2, <3>3 DEF Tabs, SessionOrNone
    <3>5. r.verified # None /\ r.verified.user = arrived.verified.user
      BY <3>2, <3>4, SessionFacts
    <3> HIDE DEF r
    <3>6. kept = r
      BY <2>2 DEF r
    <3> QED BY <1>1, <3>4, <3>5, <3>6 DEF Weaker
  <2>3. CASE ~Foreign(arrived, session, event) /\ ~(arrived.verified # None /\ event = "TOKEN_REFRESHED")
    BY <1>1, <2>3 DEF Weaker
  <2> QED BY <2>1, <2>2, <2>3
<1>3. KeepRecovery(t, session, event) = IF event = "SIGNED_OUT" THEN CancelRecovery(kept) ELSE kept
  BY DEF KeepRecovery
<1> HIDE DEF arrived, kept
<1>4. Weaker(t, kept)
  BY <1>1, <1>2, WeakerTransitive
<1>5. Weaker(t, CancelRecovery(kept)) /\ CancelRecovery(kept) \in Tabs /\ Alike(CancelRecovery(kept))
  BY <1>2, <1>4, CancelWeaker, CancelFields, WeakerTransitive
<1> QED BY <1>2, <1>3, <1>4, <1>5

LEMMA NextSessionFields ==
  ASSUME NEW t \in Tabs
  PROVE  LET r == NextSession(t) IN
         /\ r \in Tabs /\ Weaker(t, r)
         /\ r.session = t.session /\ r.profile = t.profile /\ r.current = t.current
         /\ r.recoveryEmail = t.recoveryEmail /\ r.recoveryPending = t.recoveryPending
         /\ r.verified = t.verified /\ r.busy = t.busy
<1>1. {[w EXCEPT !.current = FALSE] : w \in t.awaiting} \subseteq Awaited
  BY TabFields DEF Awaited
<1> QED BY <1>1 DEF NextSession, Tabs, Weaker

LEMMA ShowFields ==
  ASSUME NEW t \in Tabs, NEW session \in SessionOrNone,
         t.profile # None => t.profile = UserOf(t.session)
  PROVE  LET r == Show(t, session) IN
         /\ r \in Tabs /\ Weaker(t, r) /\ ProfileOK(r) /\ r.session = session
         /\ r.current = t.current /\ r.recoveryEmail = t.recoveryEmail /\ r.verified = t.verified
         /\ r.busy = t.busy /\ (session # None => r.recoveryPending = t.recoveryPending)
<1>1. CASE session = None
  BY <1>1, SessionFacts DEF Show, Tabs, Weaker, ProfileOK, UserOrNone, SessionOrNone
<1>2. CASE session # None
  <2> DEFINE profile == IF UserOf(t.session) = session.user THEN t.profile ELSE None
             awaiting == IF profile # None THEN t.awaiting
                         ELSE t.awaiting \cup {[user |-> session.user, current |-> TRUE]}
             r == [t EXCEPT !.session = session, !.profile = profile, !.initialized = TRUE, !.late = FALSE,
                            !.profileStatus = IF profile = None THEN "loading" ELSE "ready",
                            !.awaiting = awaiting]
  <2>0. Show(t, session) = r
    BY <1>2 DEF Show
  <2>1. session.user \in Users /\ UserOf(session) = session.user /\ profile \in UserOrNone
        /\ (profile # None => profile = session.user)
    <3>1. session.user \in Users /\ UserOf(session) = session.user
      BY <1>2, SessionFacts
    <3>2. t.profile \in UserOrNone /\ None \in UserOrNone
      BY TabFields DEF UserOrNone
    <3> QED BY <3>1, <3>2
  <2>2. awaiting \subseteq Awaited /\ (profile = None => [user |-> session.user, current |-> TRUE] \in awaiting)
    <3> HIDE DEF profile, r
    <3>1. t.awaiting \subseteq Awaited /\ [user |-> session.user, current |-> TRUE] \in Awaited
      BY <2>1, TabFields DEF Awaited
    <3> QED BY <3>1
  <2> HIDE DEF profile, awaiting
  <2>3. /\ r \in Tabs /\ r.session = session /\ r.profile = profile /\ r.awaiting = awaiting
        /\ r.profileStatus = (IF profile = None THEN "loading" ELSE "ready")
        /\ r.current = t.current /\ r.recoveryEmail = t.recoveryEmail /\ r.verified = t.verified
        /\ r.busy = t.busy /\ r.recoveryPending = t.recoveryPending
    BY <2>1, <2>2 DEF Tabs
  <2> HIDE DEF r
  <2>4. ProfileOK(r)
    BY <1>2, <2>1, <2>2, <2>3 DEF ProfileOK
  <2> QED BY <2>0, <2>3, <2>4 DEF Weaker
<1> QED BY <1>1, <1>2

(* News of a session: the profile fits it, and recoveries only end. *)
LEMMA SyncSessionFields ==
  ASSUME NEW t \in Tabs, NEW session \in SessionOrNone, NEW event,
         event = "TOKEN_REFRESHED" => session # None,
         t.profile # None => t.profile = UserOf(t.session)
  PROVE  LET r == SyncSession(t, session, event) IN
         r \in Tabs /\ Weaker(t, r) /\ ProfileOK(r) /\ r.session = session
<1> DEFINE n == NextSession(t)
           k == KeepRecovery(n, session, event)
<1>1. n \in Tabs /\ Weaker(t, n) /\ n.session = t.session /\ n.profile = t.profile
  BY NextSessionFields
<1> HIDE DEF n
<1>2. k \in Tabs /\ Weaker(n, k) /\ k.session = n.session /\ k.profile = n.profile
  BY <1>1, KeepRecoveryFields
<1> HIDE DEF k
<1>3. Show(k, session) \in Tabs /\ Weaker(k, Show(k, session)) /\ ProfileOK(Show(k, session))
      /\ Show(k, session).session = session
  BY <1>1, <1>2, ShowFields
<1>4. Weaker(t, Show(k, session))
  BY <1>1, <1>2, <1>3, WeakerTransitive
<1>5. SyncSession(t, session, event) = Show(k, session)
  BY DEF SyncSession, k, n
<1> QED BY <1>3, <1>4, <1>5

(* What the client tells. *)
LEMMA ToldFields ==
  ASSUME NEW t \in Tabs, NEW session \in SessionOrNone, NEW event,
         event = "TOKEN_REFRESHED" => session # None, ProfileOK(t)
  PROVE  Told(t, event, session) \in Tabs /\ Weaker(t, Told(t, event, session)) /\ ProfileOK(Told(t, event, session))
<1> DEFINE seen == [t EXCEPT !.bootstrapFits = TRUE]
<1>1. /\ seen \in Tabs /\ Weaker(t, seen) /\ ProfileOK(seen)
  BY DEF Tabs, Weaker, ProfileOK
<1> HIDE DEF seen
<1>2. LET r == SyncSession(seen, session, event) IN r \in Tabs /\ Weaker(seen, r) /\ ProfileOK(r)
  BY <1>1, SyncSessionFields DEF ProfileOK
<1>3. Told(t, event, session) \in {seen, SyncSession(seen, session, event)}
  BY DEF Told, seen
<1> QED BY <1>1, <1>2, <1>3, WeakerTransitive

(* Another field of the bootstrap changes nothing else. *)
LEMMA BootstrapFields ==
  ASSUME NEW t \in Tabs, NEW b \in BOOLEAN, ProfileOK(t)
  PROVE  \A r \in {[t EXCEPT !.bootstrapFits = b], [t EXCEPT !.initialized = TRUE]} :
           r \in Tabs /\ Weaker(t, r) /\ ProfileOK(r)
BY DEF Tabs, Weaker, ProfileOK

(* The session of a code opens the form for its own recovery.              *)
LEMMA OpenedFields ==
  ASSUME NEW t \in Tabs, NEW c, c.session \in Sessions, ProfileOK(t)
  PROVE  LET r == Opened(t, c) IN
         /\ r \in Tabs /\ ProfileOK(r) /\ r.recoveryPending = TRUE /\ r.busy = FALSE
         /\ r.verified = c.session /\ r.recoveryEmail = t.recoveryEmail /\ r.current = t.current
<1> DEFINE v == [t EXCEPT !.verified = c.session]
           n == NextSession(v)
           s == Show(n, c.session)
<1>0. c.session # None /\ c.session \in SessionOrNone
  BY SessionFacts DEF SessionOrNone
<1>1. /\ v \in Tabs /\ v.verified = c.session /\ v.recoveryEmail = t.recoveryEmail /\ v.current = t.current
      /\ v.session = t.session /\ v.profile = t.profile
  BY <1>0 DEF Tabs
<1> HIDE DEF v
<1>2. /\ n \in Tabs /\ n.verified = c.session /\ n.recoveryEmail = t.recoveryEmail /\ n.current = t.current
      /\ n.session = t.session /\ n.profile = t.profile
  BY <1>1, NextSessionFields
<1> HIDE DEF n
<1>3. ~Foreign(n, c.session, "none")
  BY <1>0, <1>2 DEF Foreign, UserOf, TokenOf
<1>4. KeepRecovery(n, c.session, "none") = n
  BY <1>3 DEF KeepRecovery
<1>5. /\ s \in Tabs /\ ProfileOK(s) /\ s.verified = c.session /\ s.recoveryEmail = t.recoveryEmail
      /\ s.current = t.current
  BY <1>0, <1>2, ShowFields DEF ProfileOK
<1>6. SyncSession(v, c.session, "none") = s
  BY <1>4 DEF SyncSession, s, n
<1>7. Opened(t, c) = [s EXCEPT !.recoveryPending = TRUE, !.busy = FALSE]
  BY <1>6 DEF Opened, v
<1> HIDE DEF s
<1> QED BY <1>5, <1>7 DEF Tabs, ProfileOK
---------------------------------------------------------------------------
(* The rest of the state. *)
Event == [event : {"INITIAL_SESSION", "SIGNED_IN", "SIGNED_OUT"}, session : SessionOrNone]
           \cup [event : {"TOKEN_REFRESHED"}, session : Sessions]

Reads == [from : {"client", "storage"}, current : BOOLEAN, clear : BOOLEAN, session : SessionOrNone]

SignInCalls == [step : {"password"}, user : Users] \cup [step : {"profile"}, session : Sessions]
VerifyCalls == [step : {"otp"}, email : Users] \cup [step : {"get"}, email : Users, session : Sessions]
CompleteCalls == [step : {"get", "session", "update", "others"}, for : UserOrNone, session : SessionOrNone]

(* The calls of the reader; a session that a code or a check produced is   *)
(* of the address it was asked for.                                        *)
CallsOK(c, proven) ==
  /\ DOMAIN c = Calls
  /\ c["signIn"] \in SignInCalls \cup {NoCall}
  /\ c["reset"] \in [step : {"send"}, email : Users] \cup {NoCall}
  /\ c["verify"] \in VerifyCalls \cup {NoCall}
  /\ c["verify"].step = "get" => c["verify"].session.user = c["verify"].email /\ c["verify"].email \in proven
  /\ c["complete"] \in CompleteCalls \cup {NoCall}
  /\ c["complete"].step \in {"session", "update", "others"} =>
       /\ c["complete"].session # None
       /\ c["complete"].session.user = c["complete"].for
       /\ c["complete"].for \in proven

(* A recovery that is open is verified; one that is current is the one of  *)
(* its call; while a mail is asked for there is none.                      *)
RecoveryOK(t, c, proven) ==
  /\ t.recoveryPending => /\ t.verified # None /\ t.verified.user = t.recoveryEmail
                          /\ t.recoveryEmail \in proven
  /\ "reset" \in t.current => t.current = {"reset"} /\ ~t.recoveryPending
  /\ "verify" \in t.current /\ c["verify"] # NoCall => t.recoveryEmail = c["verify"].email
  /\ "complete" \in t.current /\ c["complete"] # NoCall => t.recoveryEmail = c["complete"].for

(* Whoever made the store busy is still at work, and will free it. *)
BusyOK(t, c) ==
  t.busy => c["signIn"] # NoCall \/ c["signOut"] # NoCall \/ \E k \in t.current : c[k] # NoCall

TabOK(t, c, proven) == t \in Tabs /\ ProfileOK(t) /\ RecoveryOK(t, c, proven) /\ BusyOK(t, c)

ClientOK ==
  /\ stored \in SessionOrNone /\ tokens \in Nat
  /\ events \in Seq(Event)
  /\ reads \subseteq Reads

HistoryOK ==
  /\ history \in [proven : SUBSET Users, updated : SUBSET [user : Users, for : Users]]
  /\ UpdatesVerifiedAccount

StoreOK ==
  /\ ClientOK
  /\ HistoryOK
  /\ CallsOK(call, history.proven)
  /\ TabOK(tab, call, history.proven)
---------------------------------------------------------------------------
LEMMA WeakerIsOK ==
  ASSUME NEW t \in Tabs, NEW r \in Tabs, NEW c, NEW proven, Weaker(t, r), ProfileOK(r),
         TabOK(t, c, proven)
  PROVE  TabOK(r, c, proven)
<1>1. RecoveryOK(r, c, proven)
  BY DEF TabOK, RecoveryOK, Weaker, Tabs
<1>2. BusyOK(r, c)
  BY DEF TabOK, BusyOK, Weaker
<1> QED BY <1>1, <1>2 DEF TabOK

(* The tab stays as it is; the client knows of other sessions. *)
LEMMA SameTab ==
  ASSUME StoreOK, ClientOK', UNCHANGED <<tab, call, history>>
  PROVE  StoreOK'
BY DEF StoreOK, HistoryOK, UpdatesVerifiedAccount, CallsOK, TabOK, ProfileOK, RecoveryOK, BusyOK

(* The tab learns something. *)
LEMMA WeakerTab ==
  ASSUME StoreOK, ClientOK', tab' \in Tabs, Weaker(tab, tab'), ProfileOK(tab'), UNCHANGED <<call, history>>
  PROVE  StoreOK'
<1>1. tab \in Tabs
  BY DEF StoreOK, TabOK
<1>2. TabOK(tab', call, history.proven)
  BY <1>1, WeakerIsOK DEF StoreOK
<1>3. UpdatesVerifiedAccount'
  BY DEF StoreOK, HistoryOK, UpdatesVerifiedAccount
<1> QED BY <1>2, <1>3 DEF StoreOK, HistoryOK

(* A call goes on or ends. *)
LEMMA GoesFields ==
  ASSUME NEW next, NEW k \in Calls, DOMAIN call = Calls, call' = [call EXCEPT ![k] = next]
  PROVE  DOMAIN call' = Calls /\ call'[k] = next /\ \A d \in Calls \ {k} : call'[d] = call[d]
OBVIOUS

LEMMA NewSessionFields ==
  ASSUME NEW u \in Users, tokens \in Nat
  PROVE  /\ NewSession(u) \in Sessions /\ NewSession(u) \in SessionOrNone
         /\ NewSession(u).user = u /\ NewSession(u).token = tokens + 1 /\ NewSession(u) # None
BY SessionFacts DEF NewSession, Sessions, SessionOrNone
---------------------------------------------------------------------------
(* What the store does not do itself. *)

LEMMA ClientActs ==
  ASSUME StoreOK,
         \/ \E u \in Users : OtherTabSignsIn(u)
         \/ OtherTabSignsOut \/ Refresh \/ StartOffline
  PROVE  StoreOK'
<1>0. stored \in SessionOrNone /\ tokens \in Nat /\ events \in Seq(Event)
      /\ reads \subseteq Reads
  BY DEF StoreOK, ClientOK
<1>n. None \in SessionOrNone
  BY DEF SessionOrNone
<1>1. ASSUME NEW u \in Users, OtherTabSignsIn(u) PROVE StoreOK'
  <2>1. NewSession(u) \in SessionOrNone
    BY <1>0, NewSessionFields
  <2>2. stored' \in SessionOrNone /\ tokens' \in Nat /\ Announce("SIGNED_IN", NewSession(u))
        /\ UNCHANGED <<reads, tab, call, history>>
    BY <1>0, <1>1, <2>1 DEF OtherTabSignsIn, NewSession
  <2>3. events' \in Seq(Event)
    <3>1. [event |-> "SIGNED_IN", session |-> NewSession(u)] \in Event
      BY <2>1 DEF Event
    <3> QED BY <1>0, <2>2, <3>1, AppendProperties DEF Announce
  <2>4. ClientOK'
    BY <1>0, <2>2, <2>3 DEF ClientOK
  <2> QED BY <2>2, <2>4, SameTab
<1>2. CASE OtherTabSignsOut
  <2>1. events' \in Seq(Event)
    <3>1. [event |-> "SIGNED_OUT", session |-> None] \in Event
      BY <1>n DEF Event
    <3> QED BY <1>0, <1>2, <3>1, AppendProperties DEF OtherTabSignsOut, Announce
  <2> QED BY <1>0, <1>2, <1>n, <2>1, SameTab DEF OtherTabSignsOut, ClientOK
<1>3. CASE Refresh
  <2> DEFINE s == [stored EXCEPT !.token = tokens + 1]
  <2>1. s \in SessionOrNone /\ s \in Sessions
    <3>1. stored \in Sessions
      BY <1>0, <1>3, SessionFacts DEF Refresh
    <3>2. s \in Sessions
      BY <1>0, <3>1 DEF Sessions
    <3> QED BY <3>2, SessionFacts DEF SessionOrNone
  <2>2. stored' = s /\ tokens' \in Nat /\ Announce("TOKEN_REFRESHED", s) /\ UNCHANGED <<reads, tab, call, history>>
    BY <1>0, <1>3 DEF Refresh
  <2> HIDE DEF s
  <2>3. events' \in Seq(Event)
    <3>1. [event |-> "TOKEN_REFRESHED", session |-> s] \in Event
      BY <2>1 DEF Event
    <3> QED BY <1>0, <2>2, <3>1, AppendProperties DEF Announce
  <2>4. ClientOK'
    BY <1>0, <2>1, <2>2, <2>3 DEF ClientOK
  <2> QED BY <2>2, <2>4, SameTab
<1>4. CASE StartOffline
  <2>1. events # <<>> /\ Head(events).event = "INITIAL_SESSION"
        /\ events' = [events EXCEPT ![1].session = None]
        /\ UNCHANGED <<stored, tokens, reads, tab, call, history>>
    BY <1>4 DEF StartOffline
  <2> DEFINE first == [events[1] EXCEPT !.session = None]
  <2>2. events[1] \in Event /\ events[1].event = "INITIAL_SESSION" /\ 1 \in 1..Len(events)
    BY <1>0, <2>1
  <2>3. first \in Event
    BY <1>n, <2>2 DEF Event
  <2>4. events' = [events EXCEPT ![1] = first]
    BY <2>1
  <2> HIDE DEF first
  <2>5. events' \in Seq(Event)
    BY <1>0, <2>2, <2>3, <2>4, ExceptSeq
  <2>6. ClientOK'
    BY <1>0, <2>1, <2>5 DEF ClientOK
  <2> QED BY <2>1, <2>6, SameTab
<1> QED BY <1>1, <1>2, <1>3, <1>4

LEMMA OutdatedFields ==
  ASSUME reads \subseteq Reads
  PROVE  Outdated \subseteq Reads
BY DEF Outdated, Reads

LEMMA HearIsOK ==
  ASSUME StoreOK, Hear
  PROVE  StoreOK'
<1>0. /\ stored \in SessionOrNone /\ tokens \in Nat /\ events \in Seq(Event)
      /\ reads \subseteq Reads
      /\ tab \in Tabs /\ ProfileOK(tab)
  BY DEF StoreOK, ClientOK, TabOK
<1> DEFINE e == Head(events)
<1>1. e \in Event /\ Tail(events) \in Seq(Event)
  BY <1>0, HeadTailProperties DEF Hear
<1>2. tab' = Told(tab, e.event, e.session) /\ events' = Tail(events)
      /\ UNCHANGED <<stored, tokens, call, history>>
      /\ reads' \in {Outdated, Outdated \cup {[from |-> "storage", current |-> TRUE, clear |-> TRUE,
                                              session |-> stored]}}
  BY DEF Hear
<1> HIDE DEF e
<1>3. e.session \in SessionOrNone /\ (e.event = "TOKEN_REFRESHED" => e.session # None)
  BY <1>1, SessionFacts DEF Event, SessionOrNone
<1>4. tab' \in Tabs /\ Weaker(tab, tab') /\ ProfileOK(tab')
  BY <1>0, <1>2, <1>3, ToldFields
<1>5. reads' \subseteq Reads
  <2>1. [from |-> "storage", current |-> TRUE, clear |-> TRUE, session |-> stored] \in Reads
    BY <1>0 DEF Reads
  <2> QED BY <1>0, <1>2, <2>1, OutdatedFields
<1>6. ClientOK'
  BY <1>0, <1>1, <1>2, <1>5 DEF ClientOK
<1> QED BY <1>2, <1>4, <1>6, WeakerTab

LEMMA RestoreIsOK ==
  ASSUME StoreOK, NEW r \in reads, Restore(r) \/ RestoreFails(r)
  PROVE  StoreOK'
<1>0. /\ stored \in SessionOrNone /\ tokens \in Nat /\ events \in Seq(Event)
      /\ reads \subseteq Reads
      /\ tab \in Tabs /\ ProfileOK(tab) /\ Weaker(tab, tab)
  BY DEF StoreOK, ClientOK, TabOK, Weaker
<1>1. CASE Restore(r)
  <2>1. reads' \subseteq reads \cup Outdated /\ UNCHANGED <<stored, tokens, events, call, history>>
    BY <1>1 DEF Restore
  <2>2. ClientOK'
    BY <1>0, <2>1, OutdatedFields DEF ClientOK
  <2>3. PICK session \in {r.session, stored} :
          tab' = IF ~Current(r) \/ (r.from = "storage" /\ session = None /\ ~r.clear) THEN tab
                 ELSE [SyncSession(tab, session, "none") EXCEPT !.bootstrapFits = (r.from = "storage")]
    BY <1>1 DEF Restore
  <2> DEFINE s == SyncSession(tab, session, "none")
  <2>4. s \in Tabs /\ Weaker(tab, s) /\ ProfileOK(s)
    <3>1. session \in SessionOrNone
      BY <1>0 DEF Reads
    <3> QED BY <1>0, <3>1, SyncSessionFields DEF ProfileOK
  <2>5. tab' = tab \/ \E b \in BOOLEAN : tab' = [s EXCEPT !.bootstrapFits = b]
    <3>1. (r.from = "storage") \in BOOLEAN
      OBVIOUS
    <3> HIDE DEF s
    <3>2. tab' = tab \/ tab' = [s EXCEPT !.bootstrapFits = (r.from = "storage")]
      BY <2>3, Zenon DEF s
    <3> QED BY <3>1, <3>2, Zenon
  <2> HIDE DEF s
  <2>6. tab' \in Tabs /\ Weaker(tab, tab') /\ ProfileOK(tab')
    <3>1. CASE tab' = tab
      BY <1>0, <3>1
    <3>2. ASSUME NEW b \in BOOLEAN, tab' = [s EXCEPT !.bootstrapFits = b]
          PROVE  tab' \in Tabs /\ Weaker(s, tab') /\ ProfileOK(tab')
      BY <2>4, <3>2, BootstrapFields
    <3> QED BY <2>4, <2>5, <3>1, <3>2, WeakerTransitive
  <2> QED BY <2>1, <2>2, <2>6, WeakerTab
<1>2. CASE RestoreFails(r)
  <2>1. reads' \subseteq reads /\ UNCHANGED <<stored, tokens, events, call, history>>
        /\ tab' \in {tab, [tab EXCEPT !.initialized = TRUE]}
    BY <1>2 DEF RestoreFails
  <2>2. ClientOK'
    BY <1>0, <2>1 DEF ClientOK
  <2>3. tab' \in Tabs /\ Weaker(tab, tab') /\ ProfileOK(tab')
    BY <1>0, <2>1, BootstrapFields
  <2> QED BY <2>1, <2>2, <2>3, WeakerTab
<1> QED BY <1>1, <1>2

LEMMA RefreshProfileIsOK ==
  ASSUME StoreOK, RefreshProfile
  PROVE  StoreOK'
<1>0. tab \in Tabs /\ ProfileOK(tab) /\ ClientOK
  BY DEF StoreOK, TabOK
<1> DEFINE w == [user |-> tab.session.user, current |-> TRUE]
<1>1. w \in Awaited /\ w.user = UserOf(tab.session) /\ w.current
  BY <1>0, TabFields, SessionFacts DEF RefreshProfile, Awaited, UserOf
<1>2. tab' = [tab EXCEPT !.profileStatus = "loading", !.awaiting = @ \cup {w}]
      /\ UNCHANGED <<stored, tokens, events, call, reads, history>>
  BY DEF RefreshProfile
<1> HIDE DEF w
<1>3. /\ tab' \in Tabs /\ tab'.session = tab.session /\ tab'.profile = tab.profile
      /\ tab'.profileStatus = "loading" /\ w \in tab'.awaiting /\ Weaker(tab, tab')
  BY <1>0, <1>1, <1>2 DEF Tabs, Weaker
<1>4. ProfileOK(tab')
  <2>1. tab.session # None
    BY DEF RefreshProfile
  <2> QED BY <1>0, <1>1, <1>3, <2>1 DEF ProfileOK
<1>5. ClientOK'
  BY <1>0, <1>2 DEF ClientOK
<1> QED BY <1>2, <1>3, <1>4, <1>5, WeakerTab

LEMMA ProfileArrivesIsOK ==
  ASSUME StoreOK, NEW w \in tab.awaiting, ProfileArrives(w)
  PROVE  StoreOK'
<1>0. tab \in Tabs /\ ProfileOK(tab) /\ ClientOK
  BY DEF StoreOK, TabOK
<1> DEFINE wanted == w.current /\ UserOf(tab.session) = w.user
           answered == [tab EXCEPT !.awaiting = @ \ {w}]
<1>2. UNCHANGED <<stored, tokens, events, call, reads, history>>
  BY DEF ProfileArrives
<1>3. w.user \in Users /\ w.user # None
  BY <1>0, TabFields, SessionFacts DEF Awaited
<1>4. /\ answered \in Tabs /\ answered.session = tab.session /\ answered.profile = tab.profile
      /\ answered.profileStatus = tab.profileStatus /\ answered.awaiting = tab.awaiting \ {w}
      /\ Weaker(tab, answered)
  BY <1>0 DEF Tabs, Weaker
<1>5. CASE ~wanted
  <2>1. tab' = answered
    BY <1>5 DEF ProfileArrives
  <2>2. ProfileOK(answered)
    BY <1>0, <1>4, <1>5 DEF ProfileOK
  <2>3. ClientOK'
    BY <1>0, <1>2 DEF ClientOK
  <2> QED BY <1>2, <1>4, <2>1, <2>2, <2>3, WeakerTab
<1>6. CASE wanted
  <2>1. tab' \in {[answered EXCEPT !.profile = w.user, !.profileStatus = "ready"],
                  [answered EXCEPT !.profileStatus = "error"]}
    BY <1>6 DEF ProfileArrives
  <2> HIDE DEF answered
  <2>2. /\ tab' \in Tabs /\ tab'.session = answered.session /\ Weaker(answered, tab')
        /\ \/ tab'.profile = w.user /\ tab'.profileStatus = "ready"
           \/ tab'.profile = answered.profile /\ tab'.profileStatus = "error"
    BY <1>3, <1>4, <2>1 DEF Tabs, Weaker, UserOrNone
  <2>3. ProfileOK(tab')
    <3>1. tab.session # None /\ tab.profileStatus # "idle"
      BY <1>0, <1>3, <1>6 DEF ProfileOK, UserOf
    <3> QED BY <1>0, <1>3, <1>4, <1>6, <2>2, <3>1 DEF ProfileOK
  <2>4. Weaker(tab, tab')
    BY <1>4, <2>2, WeakerTransitive
  <2>5. ClientOK'
    BY <1>0, <1>2 DEF ClientOK
  <2> QED BY <1>2, <2>2, <2>3, <2>4, <2>5, WeakerTab
<1> QED BY <1>5, <1>6
---------------------------------------------------------------------------
(* The calls of the reader. *)

LEMMA StoreParts ==
  ASSUME StoreOK
  PROVE  /\ stored \in SessionOrNone /\ tokens \in Nat /\ events \in Seq(Event) /\ reads \subseteq Reads
         /\ tab \in Tabs /\ ProfileOK(tab) /\ RecoveryOK(tab, call, history.proven) /\ BusyOK(tab, call)
         /\ CallsOK(call, history.proven) /\ DOMAIN call = Calls /\ ClientOK /\ HistoryOK
BY DEF StoreOK, ClientOK, TabOK, CallsOK

LEMMA CallEnds ==
  ASSUME NEW proven, NEW k \in Calls, CallsOK(call, proven), Ends(k)
  PROVE  /\ CallsOK(call', proven) /\ call'[k] = NoCall /\ \A d \in Calls \ {k} : call'[d] = call[d]
         /\ \A t : RecoveryOK(t, call, proven) => RecoveryOK(t, call', proven)
<1>1. DOMAIN call' = Calls /\ call'[k] = NoCall /\ \A d \in Calls \ {k} : call'[d] = call[d]
  BY DEF CallsOK, Ends, Goes
<1>2. NoCall.step = "none"
  BY DEF NoCall
<1>3. CallsOK(call', proven)
  BY <1>1, <1>2 DEF CallsOK, Calls
<1>4. ASSUME NEW t, RecoveryOK(t, call, proven) PROVE RecoveryOK(t, call', proven)
  BY <1>1, <1>4 DEF RecoveryOK, Calls
<1> QED BY <1>1, <1>3, <1>4

(* What is left to show of a step that tells nothing to the client. *)
LEMMA SameHistory ==
  ASSUME HistoryOK, UNCHANGED history
  PROVE  HistoryOK'
BY DEF HistoryOK, UpdatesVerifiedAccount

LEMMA SameClient ==
  ASSUME ClientOK, UNCHANGED <<stored, tokens, events, reads>>
  PROVE  ClientOK'
BY DEF ClientOK

(* The client has a session of the call, or none any longer. *)
LEMMA StoresIsOK ==
  ASSUME ClientOK, NEW s \in SessionOrNone, s # None => s.token \in Nat, Stores(s),
         reads' = Outdated, UNCHANGED events
  PROVE  ClientOK'
<1>1. reads' \subseteq Reads
  BY OutdatedFields DEF ClientOK
<1> QED BY <1>1 DEF ClientOK, Stores

LEMMA FreeTab ==
  ASSUME NEW t \in Tabs, NEW c, NEW proven, ProfileOK(t), RecoveryOK(t, c, proven)
  PROVE  TabOK([t EXCEPT !.busy = FALSE], c, proven)
<1> DEFINE r == [t EXCEPT !.busy = FALSE]
<1>1. /\ r \in Tabs /\ r.busy = FALSE /\ r.session = t.session /\ r.profile = t.profile
      /\ r.profileStatus = t.profileStatus /\ r.awaiting = t.awaiting /\ r.current = t.current
      /\ r.recoveryPending = t.recoveryPending /\ r.recoveryEmail = t.recoveryEmail /\ r.verified = t.verified
  BY DEF Tabs
<1> HIDE DEF r
<1>2. TabOK(r, c, proven)
  BY <1>1 DEF TabOK, ProfileOK, RecoveryOK, BusyOK
<1> QED BY <1>2 DEF r

LEMMA CancelPasswordRecoveryIsOK ==
  ASSUME StoreOK, CancelPasswordRecovery
  PROVE  StoreOK'
<1>1. tab' = CancelRecovery(tab) /\ UNCHANGED <<stored, tokens, events, call, reads, history>>
  BY DEF CancelPasswordRecovery
<1> QED BY <1>1, StoreParts, CancelWeaker, SameClient, WeakerTab

(* A sign-in or a sign-out cancels the recovery and makes the store busy. *)
LEMMA BusyCancelled ==
  ASSUME NEW t \in Tabs, ProfileOK(t), NEW c, NEW proven, c["signIn"] # NoCall \/ c["signOut"] # NoCall
  PROVE  TabOK([CancelRecovery(t) EXCEPT !.busy = TRUE], c, proven)
<1> DEFINE k == CancelRecovery(t)
           r == [k EXCEPT !.busy = TRUE]
<1>1. k \in Tabs /\ ProfileOK(k) /\ k.current = {} /\ k.recoveryPending = FALSE
  BY CancelFields, CancelWeaker
<1> HIDE DEF k
<1>2. /\ r \in Tabs /\ r.session = k.session /\ r.profile = k.profile
      /\ r.profileStatus = k.profileStatus /\ r.awaiting = k.awaiting /\ r.current = {}
      /\ r.recoveryPending = FALSE
  BY <1>1 DEF Tabs
<1> HIDE DEF r
<1>3. TabOK(r, c, proven)
  BY <1>1, <1>2 DEF TabOK, ProfileOK, RecoveryOK, BusyOK
<1> QED BY <1>3 DEF r, k

LEMMA SignInIsOK ==
  ASSUME StoreOK, NEW u \in Users, SignIn(u)
  PROVE  StoreOK'
<1> DEFINE next == [step |-> "password", user |-> u]
<1>1. /\ tab' = [CancelRecovery(tab) EXCEPT !.busy = TRUE] /\ call' = [call EXCEPT !["signIn"] = next]
      /\ UNCHANGED <<stored, tokens, events, reads, history>>
  BY DEF SignIn, Goes
<1>2. next \in SignInCalls /\ next # NoCall
  BY DEF SignInCalls, NoCall
<1> HIDE DEF next
<1>3. DOMAIN call' = Calls /\ call'["signIn"] = next /\ \A d \in Calls \ {"signIn"} : call'[d] = call[d]
  BY <1>1, StoreParts, GoesFields DEF Calls
<1>4. CallsOK(call', history'.proven)
  BY <1>1, <1>2, <1>3, StoreParts DEF CallsOK, Calls
<1>5. TabOK(tab', call', history'.proven)
  BY <1>1, <1>2, <1>3, StoreParts, BusyCancelled
<1> QED BY <1>1, <1>4, <1>5, StoreParts, SameClient, SameHistory DEF StoreOK

LEMMA SignInAnsweredIsOK ==
  ASSUME StoreOK, SignInAnswered
  PROVE  StoreOK'
<1> DEFINE c == call["signIn"]
           s == NewSession(c.user)
           next == [step |-> "profile", session |-> s]
<1>1. UNCHANGED <<events, history>> /\ c.step = "password"
  BY DEF SignInAnswered
<1>2. c.user \in Users
  BY <1>1, StoreParts DEF CallsOK, SignInCalls, NoCall
<1>3. CASE Stores(s) /\ tab' = Told(tab, "SIGNED_IN", s) /\ Goes("signIn", next) /\ reads' = Outdated
  <2>1. s \in Sessions /\ s \in SessionOrNone /\ s.token \in Nat
    BY <1>2, StoreParts, NewSessionFields
  <2>2. next \in SignInCalls /\ next # NoCall
    BY <2>1 DEF SignInCalls, NoCall
  <2> HIDE DEF s, next, c
  <2>3. DOMAIN call' = Calls /\ call'["signIn"] = next /\ \A d \in Calls \ {"signIn"} : call'[d] = call[d]
    BY <1>3, StoreParts, GoesFields DEF Calls, Goes
  <2>4. CallsOK(call', history'.proven)
    BY <1>1, <2>2, <2>3, StoreParts DEF CallsOK, Calls
  <2>5. tab' \in Tabs /\ Weaker(tab, tab') /\ ProfileOK(tab')
    BY <1>3, <2>1, StoreParts, ToldFields
  <2>6. TabOK(tab, call', history'.proven)
    BY <1>1, <2>2, <2>3, StoreParts DEF TabOK, RecoveryOK, BusyOK, Calls
  <2>7. TabOK(tab', call', history'.proven)
    BY <2>5, <2>6, StoreParts, WeakerIsOK
  <2>8. ClientOK'
    BY <1>1, <1>3, <2>1, StoreParts, StoresIsOK
  <2> QED BY <1>1, <2>4, <2>7, <2>8, StoreParts, SameHistory DEF StoreOK
<1>4. CASE tab' = [tab EXCEPT !.busy = FALSE] /\ Ends("signIn") /\ UNCHANGED <<stored, tokens, reads>>
  <2>1. CallsOK(call', history'.proven) /\ RecoveryOK(tab, call', history'.proven)
    BY <1>1, <1>4, StoreParts, CallEnds DEF Calls
  <2>2. TabOK(tab', call', history'.proven)
    BY <1>4, <2>1, StoreParts, FreeTab
  <2> QED BY <1>1, <1>4, <2>1, <2>2, StoreParts, SameHistory, SameClient DEF StoreOK
<1> QED BY <1>3, <1>4 DEF SignInAnswered

LEMMA SignedInIsOK ==
  ASSUME StoreOK, SignedIn
  PROVE  StoreOK'
<1> DEFINE c == call["signIn"]
<1>1. PICK profile \in {c.session.user, None}, confirmed \in BOOLEAN :
        tab' = [tab EXCEPT !.session = c.session, !.profile = profile, !.busy = FALSE,
                  !.profileStatus = IF profile = None THEN "error" ELSE "ready",
                  !.recoveryPending = @ /\ ~confirmed, !.late = stored # c.session]
  BY DEF SignedIn
<1>2. c.step = "profile" /\ Ends("signIn") /\ UNCHANGED <<stored, tokens, events, reads, history>>
  BY DEF SignedIn
<1>3. c.session \in Sessions
  BY <1>2, StoreParts DEF CallsOK, SignInCalls, NoCall
<1> HIDE DEF c
<1>4. c.session.user \in Users /\ UserOf(c.session) = c.session.user /\ c.session # None /\ None \notin Users
  BY <1>3, SessionFacts
<1>5. HistoryOK' /\ history'.proven = history.proven
  BY <1>2, StoreParts, SameHistory
<1>6. CallsOK(call', history'.proven) /\ RecoveryOK(tab, call', history'.proven)
  BY <1>2, <1>5, StoreParts, CallEnds DEF Calls
<1> DEFINE p == tab.recoveryPending /\ ~confirmed
           status == IF profile = None THEN "error" ELSE "ready"
<1>7. p \in BOOLEAN /\ (p => tab.recoveryPending) /\ status \in {"error", "ready"} /\ profile \in UserOrNone
      /\ c.session \in SessionOrNone
  BY <1>3, <1>4 DEF UserOrNone, SessionOrNone
<1>8. /\ tab' \in Tabs /\ tab'.session = c.session /\ tab'.profile = profile /\ tab'.busy = FALSE
      /\ tab'.profileStatus = status /\ tab'.recoveryPending = p /\ tab'.current = tab.current
      /\ tab'.recoveryEmail = tab.recoveryEmail /\ tab'.verified = tab.verified
  <2>1. tab' = [tab EXCEPT !.session = c.session, !.profile = profile, !.busy = FALSE,
                  !.profileStatus = status, !.recoveryPending = p, !.late = stored # c.session]
    BY <1>1
  <2>2. (stored # c.session) \in BOOLEAN
    OBVIOUS
  <2> HIDE DEF p, status
  <2> QED BY <1>7, <2>1, <2>2, StoreParts DEF Tabs
<1>9. ProfileOK(tab')
  BY <1>1, <1>4, <1>8 DEF ProfileOK
<1>10. RecoveryOK(tab', call', history'.proven) /\ BusyOK(tab', call')
  <2> HIDE DEF p
  <2> QED BY <1>6, <1>7, <1>8 DEF RecoveryOK, BusyOK
<1> QED BY <1>2, <1>5, <1>6, <1>8, <1>9, <1>10, StoreParts, SameClient DEF StoreOK, TabOK

LEMMA SignOutIsOK ==
  ASSUME StoreOK, SignOut
  PROVE  StoreOK'
<1> DEFINE next == [step |-> "out"]
<1>1. /\ tab' = [CancelRecovery(tab) EXCEPT !.busy = TRUE] /\ call' = [call EXCEPT !["signOut"] = next]
      /\ UNCHANGED <<stored, tokens, events, reads, history>>
  BY DEF SignOut, Goes
<1>2. next # NoCall
  BY DEF NoCall
<1> HIDE DEF next
<1>3. DOMAIN call' = Calls /\ call'["signOut"] = next /\ \A d \in Calls \ {"signOut"} : call'[d] = call[d]
  BY <1>1, StoreParts, GoesFields DEF Calls
<1>4. CallsOK(call', history'.proven)
  BY <1>1, <1>3, StoreParts DEF CallsOK, Calls
<1>5. TabOK(tab', call', history'.proven)
  BY <1>1, <1>2, <1>3, StoreParts, BusyCancelled
<1> QED BY <1>1, <1>4, <1>5, StoreParts, SameClient, SameHistory DEF StoreOK

LEMMA SignOutAnsweredIsOK ==
  ASSUME StoreOK, SignOutAnswered
  PROVE  StoreOK'
<1> DEFINE next == [step |-> "clear"]
<1>1. UNCHANGED <<events, history>>
  BY DEF SignOutAnswered
<1>2. CASE Stores(None) /\ tab' = Told(tab, "SIGNED_OUT", None) /\ Goes("signOut", next) /\ reads' = Outdated
  <2>1. None \in SessionOrNone
    BY DEF SessionOrNone
  <2>2. next # NoCall
    BY DEF NoCall
  <2> HIDE DEF next
  <2>3. DOMAIN call' = Calls /\ call'["signOut"] = next /\ \A d \in Calls \ {"signOut"} : call'[d] = call[d]
    BY <1>2, StoreParts, GoesFields DEF Calls, Goes
  <2>4. CallsOK(call', history'.proven)
    BY <1>1, <2>3, StoreParts DEF CallsOK, Calls
  <2>5. tab' \in Tabs /\ Weaker(tab, tab') /\ ProfileOK(tab')
    BY <1>2, <2>1, StoreParts, ToldFields
  <2>6. TabOK(tab, call', history'.proven)
    BY <1>1, <2>2, <2>3, StoreParts DEF TabOK, RecoveryOK, BusyOK, Calls
  <2>7. TabOK(tab', call', history'.proven)
    BY <2>5, <2>6, StoreParts, WeakerIsOK
  <2>8. ClientOK'
    BY <1>1, <1>2, <2>1, StoreParts, StoresIsOK
  <2> QED BY <1>1, <2>4, <2>7, <2>8, StoreParts, SameHistory DEF StoreOK
<1>3. CASE tab' = [tab EXCEPT !.busy = FALSE] /\ Ends("signOut") /\ UNCHANGED <<stored, tokens, reads>>
  <2>1. CallsOK(call', history'.proven) /\ RecoveryOK(tab, call', history'.proven)
    BY <1>1, <1>3, StoreParts, CallEnds DEF Calls
  <2>2. TabOK(tab', call', history'.proven)
    BY <1>3, <2>1, StoreParts, FreeTab
  <2> QED BY <1>1, <1>3, <2>1, <2>2, StoreParts, SameHistory, SameClient DEF StoreOK
<1> QED BY <1>2, <1>3 DEF SignOutAnswered

LEMMA SignedOutIsOK ==
  ASSUME StoreOK, SignedOut
  PROVE  StoreOK'
<1>1. /\ Ends("signOut") /\ UNCHANGED <<stored, tokens, events, reads, history>>
      /\ tab' = [tab EXCEPT !.session = None, !.profile = None, !.profileStatus = "idle",
                   !.recoveryPending = FALSE, !.busy = FALSE, !.late = stored # None]
  BY DEF SignedOut
<1>2. CallsOK(call', history'.proven) /\ RecoveryOK(tab, call', history'.proven)
  BY <1>1, StoreParts, CallEnds DEF Calls
<1>3. /\ tab' \in Tabs /\ tab'.session = None /\ tab'.profile = None /\ tab'.profileStatus = "idle"
      /\ tab'.recoveryPending = FALSE /\ tab'.busy = FALSE /\ tab'.current = tab.current
      /\ tab'.recoveryEmail = tab.recoveryEmail
  <2>1. (stored # None) \in BOOLEAN /\ None \in SessionOrNone /\ None \in UserOrNone
    BY DEF SessionOrNone, UserOrNone
  <2> QED BY <1>1, <2>1, StoreParts DEF Tabs
<1>4. ProfileOK(tab') /\ RecoveryOK(tab', call', history'.proven) /\ BusyOK(tab', call')
  BY <1>2, <1>3 DEF ProfileOK, RecoveryOK, BusyOK
<1> QED BY <1>1, <1>2, <1>3, <1>4, StoreParts, SameClient, SameHistory DEF StoreOK, TabOK

(* A recovery begins anew, with its only call. *)
LEMMA BegunFields ==
  ASSUME NEW t \in Tabs, ProfileOK(t), NEW k \in {"reset", "verify"}, NEW email \in UserOrNone,
         NEW c, c[k] # NoCall, c["verify"].email = email \/ k = "reset", NEW proven
  PROVE  TabOK([Invalidate(t) EXCEPT !.busy = TRUE, !.recoveryEmail = email, !.recoveryPending = FALSE,
                                     !.current = {k}], c, proven)
<1> DEFINE r == [Invalidate(t) EXCEPT !.busy = TRUE, !.recoveryEmail = email, !.recoveryPending = FALSE,
                                      !.current = {k}]
<1>1. /\ r \in Tabs /\ r.session = t.session /\ r.profile = t.profile /\ r.profileStatus = t.profileStatus
      /\ r.awaiting = t.awaiting /\ r.current = {k} /\ r.recoveryPending = FALSE /\ r.recoveryEmail = email
  <2>1. None \in SessionOrNone /\ {k} \subseteq Calls
    BY DEF SessionOrNone, Calls
  <2> QED BY <2>1 DEF Tabs, Invalidate
<1> HIDE DEF r
<1>2. ProfileOK(r) /\ BusyOK(r, c)
  BY <1>1 DEF ProfileOK, BusyOK
<1>3. RecoveryOK(r, c, proven)
  BY <1>1 DEF RecoveryOK
<1>4. TabOK(r, c, proven)
  BY <1>1, <1>2, <1>3 DEF TabOK
<1> QED BY <1>4 DEF r

LEMMA SendPasswordResetIsOK ==
  ASSUME StoreOK, NEW u \in Users, SendPasswordReset(u)
  PROVE  StoreOK'
<1> DEFINE next == [step |-> "send", email |-> u]
<1>1. /\ tab' = [Invalidate(tab) EXCEPT !.busy = TRUE, !.recoveryPending = FALSE, !.recoveryEmail = None,
                                       !.current = {"reset"}]
      /\ call' = [call EXCEPT !["reset"] = next]
      /\ UNCHANGED <<stored, tokens, events, reads, history>>
  BY DEF SendPasswordReset, Goes
<1>2. next \in [step : {"send"}, email : Users] /\ next # NoCall
  BY DEF NoCall
<1> HIDE DEF next
<1>3. DOMAIN call' = Calls /\ call'["reset"] = next /\ \A d \in Calls \ {"reset"} : call'[d] = call[d]
  BY <1>1, StoreParts, GoesFields DEF Calls
<1>4. CallsOK(call', history'.proven)
  BY <1>1, <1>2, <1>3, StoreParts DEF CallsOK, Calls
<1>5. tab' = [Invalidate(tab) EXCEPT !.busy = TRUE, !.recoveryEmail = None, !.recoveryPending = FALSE,
                                     !.current = {"reset"}]
  BY <1>1, StoreParts DEF Tabs, Invalidate
<1>6. None \in UserOrNone
  BY DEF UserOrNone
<1>7. TabOK(tab', call', history'.proven)
  BY <1>2, <1>3, <1>5, <1>6, StoreParts, BegunFields
<1> QED BY <1>1, <1>4, <1>7, StoreParts, SameClient, SameHistory DEF StoreOK

LEMMA ResetSentIsOK ==
  ASSUME StoreOK, ResetSent
  PROVE  StoreOK'
<1> DEFINE c == call["reset"]
<1>1. /\ c.step = "send" /\ Ends("reset") /\ UNCHANGED <<stored, tokens, events, reads, history>>
      /\ \/ tab' = IF "reset" \notin tab.current THEN tab
                   ELSE [tab EXCEPT !.busy = FALSE, !.recoveryEmail = c.email]
         \/ tab' = IF "reset" \notin tab.current THEN tab ELSE [tab EXCEPT !.busy = FALSE]
  BY DEF ResetSent
<1>2. c.email \in Users
  BY <1>1, StoreParts DEF CallsOK, NoCall
<1> HIDE DEF c
<1>3. /\ CallsOK(call', history'.proven) /\ RecoveryOK(tab, call', history'.proven)
      /\ call'["reset"] = NoCall /\ \A d \in Calls \ {"reset"} : call'[d] = call[d]
  BY <1>1, StoreParts, CallEnds DEF Calls
<1>4. TabOK(tab', call', history'.proven)
  <2>1. CASE "reset" \notin tab.current
    <3>1. BusyOK(tab, call')
      BY <1>3, <2>1, StoreParts, TabFields DEF BusyOK, Calls
    <3>2. tab' = tab
      BY <1>1, <2>1
    <3> QED BY <1>3, <3>1, <3>2, StoreParts DEF TabOK
  <2>2. CASE "reset" \in tab.current /\ tab' = [tab EXCEPT !.busy = FALSE]
    BY <1>3, <2>2, StoreParts, FreeTab
  <2>3. CASE "reset" \in tab.current /\ tab' = [tab EXCEPT !.busy = FALSE, !.recoveryEmail = c.email]
    <3>1. /\ tab' \in Tabs /\ tab'.session = tab.session /\ tab'.profile = tab.profile
          /\ tab'.profileStatus = tab.profileStatus /\ tab'.awaiting = tab.awaiting
          /\ tab'.current = tab.current /\ tab'.busy = FALSE /\ tab'.recoveryPending = tab.recoveryPending
      BY <1>2, <2>3, StoreParts DEF Tabs, UserOrNone
    <3>2. tab.current = {"reset"} /\ ~tab.recoveryPending
      BY <2>3, StoreParts DEF RecoveryOK
    <3> QED BY <3>1, <3>2, StoreParts DEF TabOK, ProfileOK, RecoveryOK, BusyOK
  <2> QED BY <1>1, <2>1, <2>2, <2>3
<1> QED BY <1>1, <1>3, <1>4, StoreParts, SameClient, SameHistory DEF StoreOK

LEMMA VerifyPasswordResetCodeIsOK ==
  ASSUME StoreOK, NEW u \in Users, VerifyPasswordResetCode(u)
  PROVE  StoreOK'
<1> DEFINE next == [step |-> "otp", email |-> u]
<1>1. /\ tab' = [Invalidate(tab) EXCEPT !.busy = TRUE, !.recoveryEmail = u, !.recoveryPending = FALSE,
                                       !.current = {"verify"}]
      /\ call' = [call EXCEPT !["verify"] = next]
      /\ UNCHANGED <<stored, tokens, events, reads, history>>
  BY DEF VerifyPasswordResetCode, Goes
<1>2. next \in VerifyCalls /\ next # NoCall /\ next.step = "otp" /\ next.email = u
  BY DEF NoCall, VerifyCalls
<1> HIDE DEF next
<1>3. DOMAIN call' = Calls /\ call'["verify"] = next /\ \A d \in Calls \ {"verify"} : call'[d] = call[d]
  BY <1>1, StoreParts, GoesFields DEF Calls
<1>4. CallsOK(call', history'.proven)
  BY <1>1, <1>2, <1>3, StoreParts DEF CallsOK, Calls
<1>5. u \in UserOrNone
  BY DEF UserOrNone
<1>6. TabOK(tab', call', history'.proven)
  BY <1>1, <1>2, <1>3, <1>5, StoreParts, BegunFields
<1> QED BY <1>1, <1>4, <1>6, StoreParts, SameClient, SameHistory DEF StoreOK

(* The recovery is given up, if it still is the one of the call.           *)
LEMMA VerifyGivesUpFields ==
  ASSUME NEW t \in Tabs, NEW c, NEW d, NEW proven, TabOK(t, c, proven),
         \A k \in Calls \ {"verify"} : d[k] = c[k], RecoveryOK(t, d, proven)
  PROVE  TabOK(VerifyGivesUp(t), d, proven)
<1>1. CASE "verify" \notin t.current
  <2>1. BusyOK(t, d)
    BY <1>1, TabFields DEF TabOK, BusyOK, Calls
  <2> QED BY <1>1, <2>1 DEF VerifyGivesUp, TabOK
<1>2. CASE "verify" \in t.current
  <2> DEFINE r == [t EXCEPT !.verified = None, !.busy = FALSE, !.recoveryPending = FALSE]
  <2>1. /\ r \in Tabs /\ r.session = t.session /\ r.profile = t.profile /\ r.profileStatus = t.profileStatus
        /\ r.awaiting = t.awaiting /\ r.current = t.current /\ r.busy = FALSE /\ r.recoveryPending = FALSE
        /\ r.recoveryEmail = t.recoveryEmail
    BY DEF Tabs, SessionOrNone
  <2>2. VerifyGivesUp(t) = r
    BY <1>2 DEF VerifyGivesUp
  <2> HIDE DEF r
  <2>3. ProfileOK(r) /\ RecoveryOK(r, d, proven) /\ BusyOK(r, d)
    BY <2>1 DEF TabOK, ProfileOK, RecoveryOK, BusyOK
  <2> QED BY <2>1, <2>2, <2>3 DEF TabOK
<1> QED BY <1>1, <1>2

LEMMA CodeRefusedIsOK ==
  ASSUME StoreOK, CodeRefused
  PROVE  StoreOK'
<1>1. Ends("verify") /\ tab' = VerifyGivesUp(tab) /\ UNCHANGED <<stored, tokens, events, reads, history>>
  BY DEF CodeRefused
<1>2. /\ CallsOK(call', history'.proven) /\ RecoveryOK(tab, call', history'.proven)
      /\ \A d \in Calls \ {"verify"} : call'[d] = call[d]
  BY <1>1, StoreParts, CallEnds DEF Calls
<1>3. TabOK(tab', call', history'.proven)
  BY <1>1, <1>2, StoreParts, VerifyGivesUpFields DEF TabOK
<1> QED BY <1>1, <1>2, <1>3, StoreParts, SameClient, SameHistory DEF StoreOK

LEMMA CodeAcceptedIsOK ==
  ASSUME StoreOK, NEW u \in Users, CodeAccepted(u)
  PROVE  StoreOK'
<1> DEFINE c == call["verify"]
           s == NewSession(u)
           told == Told(tab, "PASSWORD_RECOVERY", s)
           next == [step |-> "get", email |-> u, session |-> s]
<1>1. c.step = "otp" /\ Stores(s) /\ reads' = Outdated /\ UNCHANGED events
  BY DEF CodeAccepted
<1>2. s \in SessionOrNone /\ s \in Sessions /\ s.token \in Nat /\ s.user = u
  BY StoreParts, NewSessionFields
<1>3. c \in [step : {"otp"}, email : Users] /\ c # NoCall
  BY <1>1, StoreParts DEF CallsOK, VerifyCalls, NoCall
<1> HIDE DEF s
<1>4. told \in Tabs /\ Weaker(tab, told) /\ ProfileOK(told)
  BY <1>2, StoreParts, ToldFields
<1> HIDE DEF told
<1>5. TabOK(told, call, history.proven)
  BY <1>4, StoreParts, WeakerIsOK DEF TabOK
<1>6. ClientOK'
  BY <1>1, <1>2, StoreParts, StoresIsOK
<1>7. CASE u = c.email /\ tab' = told /\ history' = [history EXCEPT !.proven = @ \cup {u}] /\ Goes("verify", next)
  <2>1. HistoryOK' /\ history'.proven = history.proven \cup {u}
    BY <1>7, StoreParts DEF HistoryOK, UpdatesVerifiedAccount
  <2>2. /\ next \in VerifyCalls /\ next # NoCall /\ next.email = u /\ next.session.user = u
    BY <1>2 DEF VerifyCalls, NoCall
  <2> HIDE DEF next, c
  <2>3. DOMAIN call' = Calls /\ call'["verify"] = next /\ \A d \in Calls \ {"verify"} : call'[d] = call[d]
    BY <1>7, StoreParts, GoesFields DEF Calls, Goes
  <2>4. CallsOK(call', history'.proven)
    BY <2>1, <2>2, <2>3, StoreParts DEF CallsOK, Calls
  <2>5. RecoveryOK(told, call', history'.proven)
    BY <1>3, <1>5, <1>7, <2>1, <2>2, <2>3 DEF TabOK, RecoveryOK, Calls, c
  <2>6. BusyOK(told, call')
    BY <1>4, <1>5, <2>2, <2>3, TabFields DEF TabOK, BusyOK, Calls
  <2> QED BY <1>4, <1>6, <1>7, <2>1, <2>4, <2>5, <2>6 DEF StoreOK, TabOK
<1>8. CASE tab' = VerifyGivesUp(told) /\ Ends("verify") /\ UNCHANGED history
  <2>1. /\ CallsOK(call', history'.proven) /\ RecoveryOK(told, call', history'.proven)
        /\ \A d \in Calls \ {"verify"} : call'[d] = call[d]
    BY <1>5, <1>8, StoreParts, CallEnds DEF Calls, TabOK
  <2>2. TabOK(tab', call', history'.proven)
    BY <1>5, <1>8, <2>1, VerifyGivesUpFields DEF TabOK
  <2> QED BY <1>6, <1>8, <2>1, <2>2, StoreParts, SameHistory DEF StoreOK
<1> QED BY <1>7, <1>8 DEF CodeAccepted, told, s

LEMMA VerifiedIsOK ==
  ASSUME StoreOK, Verified
  PROVE  StoreOK'
<1> DEFINE c == call["verify"]
<1>1. c.step = "get" /\ Ends("verify") /\ UNCHANGED <<stored, tokens, events, reads, history>>
  BY DEF Verified
<1>5. tab' = VerifyGivesUp(tab) \/ ("verify" \in tab.current /\ tab' = Opened(tab, c))
  <2> DEFINE still == "verify" \in tab.current /\ TokenOf(stored) = c.session.token
  <2>1. \/ tab' = IF still THEN Opened(tab, c) ELSE VerifyGivesUp(tab)
        \/ tab' = VerifyGivesUp(tab)
    BY Zenon DEF Verified
  <2> HIDE DEF c
  <2> QED BY <2>1, Zenon
<1>2. /\ CallsOK(call', history'.proven) /\ RecoveryOK(tab, call', history'.proven)
      /\ call'["verify"] = NoCall /\ \A d \in Calls \ {"verify"} : call'[d] = call[d]
  BY <1>1, StoreParts, CallEnds DEF Calls
<1>3. CASE tab' = VerifyGivesUp(tab)
  <2>1. TabOK(tab', call', history'.proven)
    BY <1>1, <1>2, <1>3, StoreParts, VerifyGivesUpFields DEF TabOK
  <2> QED BY <1>1, <1>2, <2>1, StoreParts, SameClient, SameHistory DEF StoreOK
<1>4. CASE "verify" \in tab.current /\ tab' = Opened(tab, c)
  <2>1. /\ c.session \in Sessions /\ c.session.user = c.email /\ c.email \in history.proven /\ c # NoCall
    BY <1>1, StoreParts DEF CallsOK, VerifyCalls, NoCall
  <2>2. tab.recoveryEmail = c.email /\ "reset" \notin tab.current
    BY <1>4, <2>1, StoreParts DEF RecoveryOK
  <2> HIDE DEF c
  <2>3. /\ tab' \in Tabs /\ ProfileOK(tab') /\ tab'.recoveryPending = TRUE /\ tab'.busy = FALSE
        /\ tab'.verified = c.session /\ tab'.recoveryEmail = tab.recoveryEmail /\ tab'.current = tab.current
    BY <1>4, <2>1, StoreParts, OpenedFields
  <2>4. RecoveryOK(tab', call', history'.proven)
    BY <1>1, <1>2, <2>1, <2>2, <2>3, SessionFacts DEF RecoveryOK
  <2>5. TabOK(tab', call', history'.proven)
    BY <2>3, <2>4 DEF TabOK, BusyOK
  <2> QED BY <1>1, <1>2, <2>5, StoreParts, SameClient, SameHistory DEF StoreOK
<1> QED BY <1>3, <1>4, <1>5
---------------------------------------------------------------------------
(* The new password. *)

LEMMA CompletePasswordRecoveryIsOK ==
  ASSUME StoreOK, CompletePasswordRecovery
  PROVE  StoreOK'
<1> DEFINE next == [step |-> "get", for |-> tab.recoveryEmail, session |-> None]
<1>1. /\ tab' = [tab EXCEPT !.busy = TRUE, !.current = @ \cup {"complete"}]
      /\ call' = [call EXCEPT !["complete"] = next] /\ tab.recoveryPending
      /\ UNCHANGED <<stored, tokens, events, reads, history>>
  BY DEF CompletePasswordRecovery, Goes
<1>2. next \in CompleteCalls /\ next # NoCall /\ next.step = "get" /\ next.for = tab.recoveryEmail
  BY StoreParts, TabFields DEF CompleteCalls, NoCall, SessionOrNone
<1> HIDE DEF next
<1>3. DOMAIN call' = Calls /\ call'["complete"] = next /\ \A d \in Calls \ {"complete"} : call'[d] = call[d]
  BY <1>1, StoreParts, GoesFields DEF Calls
<1>4. CallsOK(call', history'.proven)
  BY <1>1, <1>2, <1>3, StoreParts DEF CallsOK, Calls
<1>5. /\ tab' \in Tabs /\ tab'.session = tab.session /\ tab'.profile = tab.profile
      /\ tab'.profileStatus = tab.profileStatus /\ tab'.awaiting = tab.awaiting
      /\ tab'.current = tab.current \cup {"complete"} /\ tab'.recoveryPending = tab.recoveryPending
      /\ tab'.recoveryEmail = tab.recoveryEmail /\ tab'.verified = tab.verified
  BY <1>1, StoreParts DEF Tabs, Calls
<1>6. "reset" \notin tab.current
  BY <1>1, StoreParts DEF RecoveryOK
<1>7. RecoveryOK(tab', call', history'.proven)
  BY <1>1, <1>2, <1>3, <1>5, <1>6, StoreParts DEF RecoveryOK, Calls
<1>8. ProfileOK(tab') /\ BusyOK(tab', call')
  BY <1>2, <1>3, <1>5, StoreParts DEF ProfileOK, BusyOK
<1> QED BY <1>1, <1>4, <1>5, <1>7, <1>8, StoreParts, SameClient, SameHistory DEF StoreOK, TabOK

(* Whoever may still speak for the recovery frees the store. *)
LEMMA CompleteGivesUpIsOK ==
  ASSUME StoreOK, CompleteGivesUp
  PROVE  CallsOK(call', history.proven) /\ TabOK(tab', call', history.proven)
<1>1. /\ CallsOK(call', history.proven) /\ RecoveryOK(tab, call', history.proven)
      /\ \A d \in Calls \ {"complete"} : call'[d] = call[d]
  BY StoreParts, CallEnds DEF Calls, CompleteGivesUp
<1>2. CASE "complete" \in tab.current
  BY <1>1, <1>2, StoreParts, FreeTab DEF CompleteGivesUp
<1>3. CASE "complete" \notin tab.current
  <2>1. BusyOK(tab, call')
    BY <1>1, <1>3, StoreParts, TabFields DEF BusyOK, Calls
  <2> QED BY <1>1, <1>3, <2>1, StoreParts DEF CompleteGivesUp, TabOK
<1> QED BY <1>1, <1>2, <1>3

(* The call goes on as the one of its recovery. *)
LEMMA NextStepIsOK ==
  ASSUME StoreOK, NEW next \in CompleteCalls, Goes("complete", next), UNCHANGED tab,
         next.for = call["complete"].for, call["complete"] # NoCall,
         next.step # "get", next.session # None, next.session.user = next.for, next.for \in history.proven
  PROVE  CallsOK(call', history.proven) /\ TabOK(tab', call', history.proven)
<1>1. DOMAIN call' = Calls /\ call'["complete"] = next /\ \A d \in Calls \ {"complete"} : call'[d] = call[d]
  BY StoreParts, GoesFields DEF Calls, Goes
<1>2. CallsOK(call', history.proven)
  BY <1>1, StoreParts DEF CallsOK, Calls
<1>3. next # NoCall
  BY DEF NoCall, CompleteCalls
<1>4. RecoveryOK(tab', call', history.proven)
  BY <1>1, StoreParts DEF RecoveryOK, Calls
<1>5. BusyOK(tab', call')
  BY <1>1, <1>3, StoreParts, TabFields DEF BusyOK, Calls
<1> QED BY <1>2, <1>4, <1>5, StoreParts DEF TabOK

LEMMA CheckedIsOK ==
  ASSUME StoreOK, Checked
  PROVE  StoreOK'
<1> DEFINE c == call["complete"]
           fits == /\ tab.verified # None /\ tab.recoveryPending
                   /\ UserOf(tab.session) = tab.verified.user
                   /\ stored = tab.verified
           next == [c EXCEPT !.step = "session", !.session = stored]
<1>1. c.step = "get" /\ UNCHANGED <<stored, tokens, events, reads, history>>
  BY DEF Checked
<1>2. c \in CompleteCalls /\ c # NoCall
  BY <1>1, StoreParts DEF CallsOK, NoCall
<1>3. CASE "complete" \in tab.current /\ fits /\ Goes("complete", next) /\ UNCHANGED tab
  <2>1. tab.recoveryEmail = c.for /\ tab.verified.user = c.for /\ c.for \in history.proven
    BY <1>2, <1>3, StoreParts DEF RecoveryOK
  <2>2. /\ next \in CompleteCalls /\ next.for = c.for /\ next.step = "session" /\ next.session = stored
    BY <1>2, StoreParts DEF CompleteCalls
  <2> HIDE DEF next
  <2>3. CallsOK(call', history.proven) /\ TabOK(tab', call', history.proven)
    BY <1>2, <1>3, <2>1, <2>2, NextStepIsOK
  <2> QED BY <1>1, <2>3, StoreParts, SameClient, SameHistory DEF StoreOK
<1>4. CASE /\ "complete" \in tab.current /\ Ends("complete")
           /\ tab' = [tab EXCEPT !.verified = None, !.recoveryPending = FALSE, !.busy = FALSE]
  <2>1. /\ tab' \in Tabs /\ tab'.session = tab.session /\ tab'.profile = tab.profile
        /\ tab'.profileStatus = tab.profileStatus /\ tab'.awaiting = tab.awaiting
        /\ tab'.current = tab.current /\ tab'.recoveryPending = FALSE /\ tab'.busy = FALSE
        /\ tab'.recoveryEmail = tab.recoveryEmail
    BY <1>4, StoreParts DEF Tabs, SessionOrNone
  <2>2. CallsOK(call', history'.proven) /\ RecoveryOK(tab, call', history'.proven)
    BY <1>1, <1>4, StoreParts, CallEnds DEF Calls
  <2>3. TabOK(tab', call', history'.proven)
    BY <2>1, <2>2, StoreParts DEF TabOK, ProfileOK, RecoveryOK, BusyOK
  <2> QED BY <1>1, <2>2, <2>3, StoreParts, SameClient, SameHistory DEF StoreOK
<1>5. CASE "complete" \notin tab.current /\ Ends("complete") /\ UNCHANGED tab
  <2>1. CompleteGivesUp
    BY <1>5 DEF CompleteGivesUp
  <2> QED BY <1>1, <2>1, CompleteGivesUpIsOK, StoreParts, SameClient, SameHistory DEF StoreOK
<1>6. CASE CompleteGivesUp
  BY <1>1, <1>6, CompleteGivesUpIsOK, StoreParts, SameClient, SameHistory DEF StoreOK
<1> QED BY <1>3, <1>4, <1>5, <1>6 DEF Checked

(* The steps between the check and the end. *)
LEMMA CompleteGoesOnIsOK ==
  ASSUME StoreOK, NEW next \in {"update", "others"}, CompleteGoesOn(next),
         call["complete"].step \in {"session", "update"}
  PROVE  CallsOK(call', history.proven) /\ TabOK(tab', call', history.proven)
<1> DEFINE c == call["complete"]
           n == [c EXCEPT !.step = next]
<1>1. CASE CompleteGivesUp
  BY <1>1, CompleteGivesUpIsOK
<1>2. CASE Goes("complete", n) /\ UNCHANGED tab
  <2>1. /\ c \in CompleteCalls /\ c # NoCall /\ c.session # None /\ c.session.user = c.for
        /\ c.for \in history.proven
    BY StoreParts DEF CallsOK, NoCall
  <2>2. n \in CompleteCalls /\ n.for = c.for /\ n.session = c.session /\ n.step = next
    BY <2>1 DEF CompleteCalls
  <2> HIDE DEF n
  <2> QED BY <1>2, <2>1, <2>2, NextStepIsOK
<1> QED BY <1>1, <1>2 DEF CompleteGoesOn

LEMMA SessionSetIsOK ==
  ASSUME StoreOK, SessionSet
  PROVE  StoreOK'
<1>1. call["complete"].step = "session" /\ UNCHANGED <<stored, tokens, events, reads, history>>
      /\ (CompleteGoesOn("update") \/ CompleteGivesUp)
  BY DEF SessionSet
<1>2. CallsOK(call', history.proven) /\ TabOK(tab', call', history.proven)
  BY <1>1, CompleteGoesOnIsOK, CompleteGivesUpIsOK
<1> QED BY <1>1, <1>2, StoreParts, SameClient, SameHistory DEF StoreOK

LEMMA UpdatedIsOK ==
  ASSUME StoreOK, Updated
  PROVE  StoreOK'
<1> DEFINE c == call["complete"]
           x == [user |-> c.session.user, for |-> c.for]
<1>1. c.step = "update" /\ UNCHANGED <<stored, tokens, events, reads>>
      /\ \/ CompleteGoesOn("others") /\ history' = [history EXCEPT !.updated = @ \cup {x}]
         \/ CompleteGivesUp /\ UNCHANGED history
  BY DEF Updated
<1>2. CallsOK(call', history.proven) /\ TabOK(tab', call', history.proven)
  BY <1>1, CompleteGoesOnIsOK, CompleteGivesUpIsOK
<1>3. c.session.user = c.for /\ c.for \in history.proven
  BY <1>1, StoreParts DEF CallsOK
<1>4. x \in [user : Users, for : Users] /\ x.user = x.for /\ x.user \in history.proven
  BY <1>3, StoreParts DEF HistoryOK
<1> HIDE DEF x
<1>5. HistoryOK' /\ history'.proven = history.proven
  BY <1>1, <1>4, StoreParts DEF HistoryOK, UpdatesVerifiedAccount
<1> QED BY <1>1, <1>2, <1>5, StoreParts, SameClient DEF StoreOK

LEMMA OthersSignedOutIsOK ==
  ASSUME StoreOK, OthersSignedOut
  PROVE  StoreOK'
<1>1. UNCHANGED <<stored, tokens, events, reads, history>>
      /\ ((tab' = CancelRecovery(tab) /\ Ends("complete")) \/ CompleteGivesUp)
  BY DEF OthersSignedOut
<1>2. CASE tab' = CancelRecovery(tab) /\ Ends("complete")
  <2>1. CallsOK(call', history'.proven)
    BY <1>1, <1>2, StoreParts, CallEnds DEF Calls
  <2>2. TabOK(tab', call', history'.proven)
    BY <1>2, StoreParts, CancelFields, CancelWeaker DEF TabOK, RecoveryOK, BusyOK
  <2> QED BY <1>1, <2>1, <2>2, StoreParts, SameClient, SameHistory DEF StoreOK
<1>3. CASE CompleteGivesUp
  BY <1>1, <1>3, CompleteGivesUpIsOK, StoreParts, SameClient, SameHistory DEF StoreOK
<1> QED BY <1>1, <1>2, <1>3
---------------------------------------------------------------------------
LEMMA StoreInit == Init => StoreOK
<1> SUFFICES ASSUME Init PROVE StoreOK
  OBVIOUS
<1> USE DEF Init
<1>1. stored \in SessionOrNone
  BY DEF SessionOrNone, Sessions
<1>2. events \in Seq(Event)
  <2> DEFINE e == [event |-> "INITIAL_SESSION", session |-> stored]
  <2>1. e \in Event
    BY <1>1 DEF Event
  <2>2. events = <<e>>
    OBVIOUS
  <2> HIDE DEF e
  <2> QED BY <2>1, <2>2
<1>3. reads \subseteq Reads
  <2>1. ASSUME NEW f \in {"client", "storage"}
        PROVE  [from |-> f, current |-> TRUE, clear |-> FALSE, session |-> stored] \in Reads
    BY <1>1 DEF Reads
  <2> QED BY <2>1
<1>4. ClientOK
  BY <1>1, <1>2, <1>3 DEF ClientOK
<1>5. HistoryOK
  BY DEF HistoryOK, UpdatesVerifiedAccount
<1>6. CallsOK(call, history.proven)
  BY DEF CallsOK, NoCall, Calls
<1>7. TabOK(tab, call, history.proven)
  <2>1. tab \in Tabs
    BY DEF Tabs, SessionOrNone, UserOrNone
  <2> QED BY <2>1 DEF TabOK, ProfileOK, RecoveryOK, BusyOK
<1> QED BY <1>4, <1>5, <1>6, <1>7 DEF StoreOK

LEMMA StoreNext == StoreOK /\ [Next]_vars => StoreOK'
<1> SUFFICES ASSUME StoreOK, [Next]_vars PROVE StoreOK'
  OBVIOUS
<1>1. CASE UNCHANGED vars
  BY <1>1, StoreParts, SameClient, SameTab DEF vars
<1>2. ASSUME NEW u \in Users,
             SignIn(u) \/ OtherTabSignsIn(u) \/ SendPasswordReset(u) \/ VerifyPasswordResetCode(u) \/ CodeAccepted(u)
      PROVE  StoreOK'
  BY <1>2, SignInIsOK, ClientActs, SendPasswordResetIsOK, VerifyPasswordResetCodeIsOK, CodeAcceptedIsOK
<1>3. ASSUME NEW r \in reads, Restore(r) \/ RestoreFails(r) PROVE StoreOK'
  BY <1>3, RestoreIsOK
<1>4. ASSUME NEW w \in tab.awaiting, ProfileArrives(w) PROVE StoreOK'
  BY <1>4, ProfileArrivesIsOK
<1>5. CASE OtherTabSignsOut \/ Refresh \/ StartOffline \/ Hear \/ RefreshProfile
  BY <1>5, ClientActs, HearIsOK, RefreshProfileIsOK
<1>6. CASE CancelPasswordRecovery \/ SignOut \/ SignOutAnswered \/ SignedOut \/ SignInAnswered \/ SignedIn
  BY <1>6, CancelPasswordRecoveryIsOK, SignOutIsOK, SignOutAnsweredIsOK, SignedOutIsOK, SignInAnsweredIsOK,
     SignedInIsOK
<1>7. CASE ResetSent \/ CodeRefused \/ Verified
  BY <1>7, ResetSentIsOK, CodeRefusedIsOK, VerifiedIsOK
<1>8. CASE CompletePasswordRecovery \/ Checked \/ SessionSet \/ Updated \/ OthersSignedOut
  BY <1>8, CompletePasswordRecoveryIsOK, CheckedIsOK, SessionSetIsOK, UpdatedIsOK, OthersSignedOutIsOK
<1> QED BY <1>1, <1>2, <1>3, <1>4, <1>5, <1>6, <1>7, <1>8 DEF Next

LEMMA StoreAlways == Spec => []StoreOK
BY StoreInit, StoreNext, PTL DEF Spec

(* The profile shown is that of the session, and one that is awaited was   *)
(* requested for it, in any order of answers (store.ts, syncSession).      *)
THEOREM ProfileIsOfTheSession == Spec => []ProfileFollowsSession
<1>1. StoreOK => ProfileFollowsSession
  BY DEF StoreOK, TabOK, ProfileOK, ProfileFollowsSession
<1> QED BY <1>1, StoreAlways, PTL

(* The form for a new password is open only for the address whose code was *)
(* accepted, and the password is set for that account.                     *)
THEOREM RecoveryStaysVerified == Spec => []RecoveryIsVerified
<1>1. StoreOK => RecoveryIsVerified
  BY DEF StoreOK, TabOK, RecoveryOK, HistoryOK, RecoveryIsVerified, RecoveryFormIsVerified
<1> QED BY <1>1, StoreAlways, PTL

(* The store is busy only while a call is in progress that will free it.   *)
THEOREM NobodyStaysBusy == Spec => []BusyEnds
<1>1. StoreOK => BusyEnds
  BY StoreParts, TabFields DEF BusyOK, BusyEnds, Calls
<1> QED BY <1>1, StoreAlways, PTL
---------------------------------------------------------------------------
(* Which sessions there are: those with a token that was issued.  A token  *)
(* is paid for by an act, at once or ahead: by the call that asks for it,  *)
(* or by the failure after which the client tries again.                   *)
Known(n) == [user : Users, token : 0..n] \cup {None}

TabKnown(t, n) == t.session \in Known(n) /\ t.verified \in Known(n)

Owed == (IF due THEN 1 ELSE 0) + (IF call["signIn"].step = "password" THEN 1 ELSE 0)
          + (IF call["verify"].step = "otp" THEN 1 ELSE 0)

BoundOK ==
  /\ native \in BOOLEAN /\ due \in BOOLEAN
  /\ acts \in 0..MaxActs
  /\ tokens \in Nat /\ tokens + Owed <= acts

KnownOK ==
  /\ stored \in Known(tokens)
  /\ \A n \in 1..Len(events) : events[n].session \in Known(tokens)
  /\ \A r \in reads : r.session \in Known(tokens)
  /\ TabKnown(tab, tokens)
  /\ call["signIn"].step = "profile" => call["signIn"].session \in Known(tokens) \ {None}
  /\ call["verify"].step = "get" => call["verify"].session \in Known(tokens) \ {None}

(* The last news is of the stored session; when all is told, the store     *)
(* shows it, unless a late answer has been shown since, and a read of      *)
(* bootstrap that still counts has read it.                                *)
NewsOK ==
  /\ due => stored # None
  /\ ~due => IF events # <<>> THEN events[Len(events)].session = stored
             ELSE tab.session = stored \/ tab.late
  /\ events = <<>> => \A r \in reads : r.current => r.session = stored

(* Until the initial session is told, an application without one shows and *)
(* reads none: the listener need not show it.                              *)
StartOK ==
  /\ \A n \in 2..Len(events) : events[n].event # "INITIAL_SESSION"
  /\ (native /\ stored = None /\ events # <<>> /\ events[1].event = "INITIAL_SESSION") =>
        /\ tab.session = None
        /\ \A r \in reads : r.session = None
        /\ call["signIn"].step # "profile" /\ call["verify"].step # "get"

(* The session of a code is stored, or its token is not that of another.   *)
CodeOK ==
  call["verify"].step = "get" /\ stored # None /\ stored.token = call["verify"].session.token
    => stored = call["verify"].session

FollowOK == KnownOK /\ NewsOK /\ StartOK /\ CodeOK

LEMMA KnownFacts ==
  ASSUME NEW n \in Nat
  PROVE  /\ \A s \in Known(n) : s \in SessionOrNone /\ (s # None => s \in Sessions /\ s.token \in 0..n)
         /\ None \in Known(n) /\ Known(n) \subseteq Known(n + 1)
         /\ \A u \in Users : [user |-> u, token |-> n + 1] \in Known(n + 1) \ {None}
         /\ \A s \in Known(n) \ {None} : [s EXCEPT !.token = n + 1] \in Known(n + 1) \ {None}
         /\ \A s \in Known(n) \ {None}, r \in Known(n) \ {None} : [s EXCEPT !.token = r.token] \in Known(n) \ {None}
<1>1. \A m \in Nat : \A s \in [user : Users, token : 0..m] : s \in Sessions /\ s # None /\ s.token \in 0..m
  BY AuthAssumption DEF Sessions
<1>2. 0..n \subseteq 0..(n + 1) /\ n + 1 \in 0..(n + 1) /\ n + 1 \in Nat
  OBVIOUS
<1>3. \A u \in Users : [user |-> u, token |-> n + 1] \in [user : Users, token : 0..(n + 1)]
  BY <1>2
<1>4. \A s \in [user : Users, token : 0..n] :
        /\ [s EXCEPT !.token = n + 1] \in [user : Users, token : 0..(n + 1)]
        /\ \A r \in [user : Users, token : 0..n] : [s EXCEPT !.token = r.token] \in [user : Users, token : 0..n]
  BY <1>2
<1>5. Known(n) \subseteq Known(n + 1)
  <2>1. ASSUME NEW s \in [user : Users, token : 0..n] PROVE s \in [user : Users, token : 0..(n + 1)]
    BY <1>2
  <2> QED BY <2>1 DEF Known
<1> QED BY <1>1, <1>2, <1>3, <1>4, <1>5 DEF Known, SessionOrNone

LEMMA KeepRecoveryKnown ==
  ASSUME NEW t \in Tabs, NEW n \in Nat, NEW session \in Known(n), NEW event,
         event = "TOKEN_REFRESHED" => session # None, t.verified \in Known(n)
  PROVE  KeepRecovery(t, session, event).verified \in Known(n)
<1> DEFINE arrived == IF /\ event = "SIGNED_IN" /\ t.recoveryEmail # None
                         /\ TokenOf(session) # TokenOf(t.session)
                      THEN CancelRecovery(t) ELSE t
           ended == [Invalidate(arrived) EXCEPT !.recoveryPending = FALSE, !.busy = FALSE]
           carried == [arrived EXCEPT !.verified.token = session.token]
           kept == IF Foreign(arrived, session, event) THEN ended
                   ELSE IF arrived.verified # None /\ event = "TOKEN_REFRESHED" THEN carried
                   ELSE arrived
<1>1. arrived \in Tabs /\ arrived.verified \in Known(n)
  BY CancelFields, KnownFacts
<1>2. kept \in Tabs /\ kept.verified \in Known(n)
  <2> HIDE DEF arrived
  <2>1. CASE Foreign(arrived, session, event)
    <3>1. ended \in Tabs /\ ended.verified = None
      BY <1>1 DEF Tabs, Invalidate, SessionOrNone
    <3> QED BY <2>1, <3>1, KnownFacts
  <2>2. CASE ~Foreign(arrived, session, event) /\ arrived.verified # None /\ event = "TOKEN_REFRESHED"
    <3>1. [arrived.verified EXCEPT !.token = session.token] \in Known(n) \ {None}
      BY <1>1, <2>2, KnownFacts
    <3>2. carried = [arrived EXCEPT !.verified = [arrived.verified EXCEPT !.token = session.token]]
      OBVIOUS
    <3>3. carried \in Tabs /\ carried.verified = [arrived.verified EXCEPT !.token = session.token]
      BY <1>1, <3>1, <3>2, KnownFacts DEF Tabs
    <3> HIDE DEF carried
    <3> QED BY <2>2, <3>1, <3>3
  <2>3. CASE ~Foreign(arrived, session, event) /\ ~(arrived.verified # None /\ event = "TOKEN_REFRESHED")
    BY <1>1, <2>3
  <2> QED BY <2>1, <2>2, <2>3
<1>3. KeepRecovery(t, session, event) = IF event = "SIGNED_OUT" THEN CancelRecovery(kept) ELSE kept
  BY DEF KeepRecovery
<1> HIDE DEF arrived, kept
<1> QED BY <1>2, <1>3, CancelFields, KnownFacts

LEMMA SyncSessionKnown ==
  ASSUME NEW t \in Tabs, NEW n \in Nat, NEW session \in Known(n), NEW event,
         event = "TOKEN_REFRESHED" => session # None, t.verified \in Known(n),
         t.profile # None => t.profile = UserOf(t.session)
  PROVE  TabKnown(SyncSession(t, session, event), n) /\ SyncSession(t, session, event).session = session
<1> DEFINE m == NextSession(t)
           k == KeepRecovery(m, session, event)
<1>0. session \in SessionOrNone
  BY KnownFacts
<1>1. m \in Tabs /\ m.verified = t.verified /\ m.profile = t.profile /\ m.session = t.session
  BY NextSessionFields
<1>2. k \in Tabs /\ k.session = m.session /\ k.profile = m.profile
  BY <1>0, <1>1, KeepRecoveryFields
<1>3. k.verified \in Known(n)
  <2> HIDE DEF m
  <2> QED BY <1>1, KeepRecoveryKnown
<1>4. SyncSession(t, session, event) = Show(k, session)
  BY DEF SyncSession
<1> HIDE DEF k, m
<1>5. Show(k, session).session = session /\ Show(k, session).verified = k.verified
  BY <1>0, <1>1, <1>2, ShowFields
<1> QED BY <1>3, <1>4, <1>5 DEF TabKnown

LEMMA ToldKnown ==
  ASSUME NEW t \in Tabs, NEW n \in Nat, NEW session \in Known(n), NEW event,
         event = "TOKEN_REFRESHED" => session # None, TabKnown(t, n), ProfileOK(t)
  PROVE  /\ TabKnown(Told(t, event, session), n)
         /\ \/ Told(t, event, session).session = session
            \/ /\ event = "INITIAL_SESSION" /\ session = None /\ native
               /\ Told(t, event, session).session = t.session
<1> DEFINE seen == [t EXCEPT !.bootstrapFits = TRUE]
<1>1. /\ seen \in Tabs /\ seen.session = t.session /\ seen.verified = t.verified /\ seen.profile = t.profile
  BY DEF Tabs
<1>2. Told(t, event, session) = IF event = "INITIAL_SESSION" /\ session = None /\ native
                                THEN seen ELSE SyncSession(seen, session, event)
  BY DEF Told
<1> HIDE DEF seen
<1>3. TabKnown(seen, n)
  BY <1>1 DEF TabKnown
<1>4. /\ TabKnown(SyncSession(seen, session, event), n)
      /\ SyncSession(seen, session, event).session = session
  BY <1>1, SyncSessionKnown DEF ProfileOK, TabKnown
<1> QED BY <1>1, <1>2, <1>3, <1>4

(* The tab keeps its session, and at most forgets the one of its recovery. *)
Keeps(t, r) == r.session = t.session /\ r.late = t.late /\ r.verified \in {t.verified, None}

(* A step that the client is not told of: no call is given a session.      *)
Calm ==
  /\ UNCHANGED <<native, stored, tokens, events, due>>
  /\ reads' \subseteq reads
  /\ Keeps(tab, tab')
  /\ call'["signIn"].step = "profile" => call'["signIn"] = call["signIn"]
  /\ call'["verify"].step = "get" => call'["verify"] = call["verify"]

LEMMA CalmFollows ==
  ASSUME FollowOK, BoundOK, Calm
  PROVE  FollowOK'
<1>1. KnownOK'
  BY KnownFacts DEF FollowOK, BoundOK, KnownOK, TabKnown, Calm, Keeps
<1>2. NewsOK'
  BY DEF FollowOK, NewsOK, Calm, Keeps
<1>3. StartOK'
  BY DEF FollowOK, StartOK, Calm, Keeps
<1>4. CodeOK'
  BY DEF FollowOK, CodeOK, Calm
<1> QED BY <1>1, <1>2, <1>3, <1>4 DEF FollowOK

(* Who owes nothing new may act or not.                                    *)
LEMMA BoundStays ==
  ASSUME BoundOK, UNCHANGED <<native, due, tokens>>, acts' = acts \/ Acting,
         call'["signIn"].step = "password" => call["signIn"].step = "password",
         call'["verify"].step = "otp" => call["verify"].step = "otp"
  PROVE  BoundOK'
BY AuthAssumption DEF BoundOK, Owed, Acting

(* A call that begins pays ahead for its token.                            *)
LEMMA BoundPays ==
  ASSUME BoundOK, UNCHANGED <<native, due, tokens>>, Acting,
         \/ call'["signIn"].step = call["signIn"].step
         \/ call'["verify"].step = call["verify"].step
  PROVE  BoundOK'
BY AuthAssumption DEF BoundOK, Owed, Acting

(* Other calls than the two that are given a session.                      *)
LEMMA OtherCalls ==
  ASSUME DOMAIN call = Calls, NEW next, NEW k \in {"signOut", "reset", "complete"}, Goes(k, next)
  PROVE  call'["signIn"] = call["signIn"] /\ call'["verify"] = call["verify"]
BY DEF Goes, Calls

(* The two, when they begin or end.                                        *)
LEMMA TheCalls ==
  ASSUME DOMAIN call = Calls, NEW next, NEW k \in {"signIn", "verify"}, Goes(k, next)
  PROVE  call'[k] = next /\ \A d \in {"signIn", "verify"} \ {k} : call'[d] = call[d]
BY DEF Goes, Calls

(* What the calls leave of the tab's sessions.                             *)
LEMMA TabKeeps ==
  ASSUME NEW t \in Tabs
  PROVE  /\ Keeps(t, t) /\ Keeps(t, CancelRecovery(t)) /\ Keeps(t, VerifyGivesUp(t))
         /\ Keeps(t, [CancelRecovery(t) EXCEPT !.busy = TRUE])
         /\ Keeps(t, [t EXCEPT !.busy = FALSE]) /\ Keeps(t, [t EXCEPT !.initialized = TRUE])
         /\ Keeps(t, [t EXCEPT !.verified = None, !.recoveryPending = FALSE, !.busy = FALSE])
         /\ Keeps(t, [t EXCEPT !.busy = TRUE, !.current = @ \cup {"complete"}])
         /\ \A e : Keeps(t, [t EXCEPT !.busy = FALSE, !.recoveryEmail = e])
         /\ \A e, k : Keeps(t, [Invalidate(t) EXCEPT !.busy = TRUE, !.recoveryPending = FALSE,
                                                     !.recoveryEmail = e, !.current = {k}])
         /\ \A e, k : Keeps(t, [Invalidate(t) EXCEPT !.busy = TRUE, !.recoveryEmail = e,
                                                     !.recoveryPending = FALSE, !.current = {k}])
<1>1. Keeps(t, CancelRecovery(t)) /\ CancelRecovery(t) \in Tabs
  BY CancelFields DEF Keeps
<1>2. Keeps(t, [CancelRecovery(t) EXCEPT !.busy = TRUE])
  BY <1>1 DEF Keeps, Tabs
<1>3. Keeps(t, t)
  BY DEF Keeps
<1>4. Keeps(t, VerifyGivesUp(t))
  BY DEF Keeps, Tabs, VerifyGivesUp
<1>5. /\ Keeps(t, [t EXCEPT !.busy = FALSE]) /\ Keeps(t, [t EXCEPT !.initialized = TRUE])
      /\ Keeps(t, [t EXCEPT !.verified = None, !.recoveryPending = FALSE, !.busy = FALSE])
      /\ Keeps(t, [t EXCEPT !.busy = TRUE, !.current = @ \cup {"complete"}])
  BY DEF Keeps, Tabs
<1>6. ASSUME NEW e PROVE Keeps(t, [t EXCEPT !.busy = FALSE, !.recoveryEmail = e])
  BY DEF Keeps, Tabs
<1>7. ASSUME NEW e, NEW k
      PROVE  /\ Keeps(t, [Invalidate(t) EXCEPT !.busy = TRUE, !.recoveryPending = FALSE,
                                               !.recoveryEmail = e, !.current = {k}])
             /\ Keeps(t, [Invalidate(t) EXCEPT !.busy = TRUE, !.recoveryEmail = e,
                                               !.recoveryPending = FALSE, !.current = {k}])
  BY DEF Keeps, Tabs, Invalidate
<1> QED BY <1>1, <1>2, <1>3, <1>4, <1>5, <1>6, <1>7

(* The calls that are given no session, and what begins or refuses others. *)
LEMMA ReaderCallsAreCalm ==
  ASSUME StoreOK, BoundOK,
         \/ CancelPasswordRecovery \/ SignOut \/ ResetSent \/ CodeRefused
         \/ CompletePasswordRecovery \/ Checked \/ SessionSet \/ Updated \/ OthersSignedOut
         \/ \E u \in Users : SignIn(u) \/ SendPasswordReset(u) \/ VerifyPasswordResetCode(u)
  PROVE  Calm /\ BoundOK'
<1>0. tab \in Tabs /\ DOMAIN call = Calls /\ NoCall.step = "none"
  BY StoreParts DEF NoCall
<1>1. ASSUME UNCHANGED <<native, stored, tokens, events, due, reads>>, Keeps(tab, tab'), acts' = acts \/ Acting,
             call'["signIn"] = call["signIn"], call'["verify"] = call["verify"]
      PROVE  Calm /\ BoundOK'
  <2>1. BoundOK'
    BY <1>1, BoundStays
  <2> QED BY <1>1, <2>1 DEF Calm
<1>2. CASE CancelPasswordRecovery
  <2>1. Keeps(tab, tab')
    BY <1>0, <1>2, TabKeeps DEF CancelPasswordRecovery
  <2> QED BY <1>1, <1>2, <2>1 DEF CancelPasswordRecovery
<1>3. CASE SignOut
  <2>1. Keeps(tab, tab')
    BY <1>0, <1>3, TabKeeps DEF SignOut
  <2>2. call'["signIn"] = call["signIn"] /\ call'["verify"] = call["verify"]
    BY <1>0, <1>3, OtherCalls DEF SignOut
  <2> QED BY <1>1, <1>3, <2>1, <2>2 DEF SignOut, Ready
<1>4. CASE ResetSent
  <2>1. Keeps(tab, tab')
    <3>1. Keeps(tab, tab) /\ Keeps(tab, [tab EXCEPT !.busy = FALSE])
      BY <1>0, TabKeeps
    <3>2. \A e : Keeps(tab, [tab EXCEPT !.busy = FALSE, !.recoveryEmail = e])
      BY <1>0, TabKeeps
    <3> QED BY <1>4, <3>1, <3>2 DEF ResetSent
  <2>2. call'["signIn"] = call["signIn"] /\ call'["verify"] = call["verify"]
    BY <1>0, <1>4, OtherCalls DEF ResetSent, Ends
  <2> QED BY <1>1, <1>4, <2>1, <2>2 DEF ResetSent
<1>5. CASE CompletePasswordRecovery
  <2>1. Keeps(tab, tab')
    BY <1>0, <1>5, TabKeeps DEF CompletePasswordRecovery
  <2>2. call'["signIn"] = call["signIn"] /\ call'["verify"] = call["verify"]
    BY <1>0, <1>5, OtherCalls DEF CompletePasswordRecovery
  <2> QED BY <1>1, <1>5, <2>1, <2>2 DEF CompletePasswordRecovery, Ready
<1>6. ASSUME NEW n, Goes("complete", n)
      PROVE  call'["signIn"] = call["signIn"] /\ call'["verify"] = call["verify"]
  BY <1>0, <1>6, OtherCalls
<1>7. CompleteGivesUp => Keeps(tab, tab') /\ call'["signIn"] = call["signIn"] /\ call'["verify"] = call["verify"]
  BY <1>0, <1>6, TabKeeps DEF CompleteGivesUp, Ends
<1>8. ASSUME NEW next, CompleteGoesOn(next)
      PROVE  Keeps(tab, tab') /\ call'["signIn"] = call["signIn"] /\ call'["verify"] = call["verify"]
  <2>1. CASE Goes("complete", [call["complete"] EXCEPT !.step = next]) /\ UNCHANGED tab
    BY <1>0, <1>6, <2>1, TabKeeps
  <2> QED BY <1>7, <1>8, <2>1 DEF CompleteGoesOn
<1>9. CASE Checked
  <2>1. UNCHANGED <<native, stored, tokens, events, due, reads, history>> /\ (acts' = acts \/ Acting)
    BY <1>9 DEF Checked
  <2>2. CASE Ends("complete")
               /\ tab' \in {tab, [tab EXCEPT !.verified = None, !.recoveryPending = FALSE, !.busy = FALSE]}
    BY <1>0, <1>1, <1>6, <2>1, <2>2, TabKeeps DEF Ends
  <2>3. CASE Goes("complete", [call["complete"] EXCEPT !.step = "session", !.session = stored]) /\ UNCHANGED tab
    BY <1>0, <1>1, <1>6, <2>1, <2>3, TabKeeps
  <2>4. CASE CompleteGivesUp
    BY <1>1, <1>7, <2>1, <2>4
  <2> QED BY <1>9, <2>2, <2>3, <2>4 DEF Checked
<1>10. CASE SessionSet
  <2>1. UNCHANGED <<native, stored, tokens, events, due, reads, history>> /\ (acts' = acts \/ Acting)
    BY <1>10 DEF SessionSet
  <2> QED BY <1>1, <1>7, <1>8, <1>10, <2>1 DEF SessionSet
<1>11. CASE Updated
  <2>1. UNCHANGED <<native, stored, tokens, events, due, reads>> /\ (acts' = acts \/ Acting)
    BY <1>11 DEF Updated
  <2> QED BY <1>1, <1>7, <1>8, <1>11, <2>1 DEF Updated
<1>12. CASE OthersSignedOut
  <2>1. UNCHANGED <<native, stored, tokens, events, due, reads, history>> /\ (acts' = acts \/ Acting)
    BY <1>12 DEF OthersSignedOut
  <2>2. CASE tab' = CancelRecovery(tab) /\ Ends("complete")
    BY <1>0, <1>1, <1>6, <2>1, <2>2, TabKeeps DEF Ends
  <2> QED BY <1>1, <1>7, <1>12, <2>1, <2>2 DEF OthersSignedOut
<1>13. ASSUME NEW u \in Users, SendPasswordReset(u) PROVE Calm /\ BoundOK'
  <2>1. Keeps(tab, tab')
    <3>1. \A e, k : Keeps(tab, [Invalidate(tab) EXCEPT !.busy = TRUE, !.recoveryPending = FALSE,
                                                       !.recoveryEmail = e, !.current = {k}])
      BY <1>0, TabKeeps
    <3> QED BY <1>13, <3>1 DEF SendPasswordReset
  <2>2. call'["signIn"] = call["signIn"] /\ call'["verify"] = call["verify"]
    BY <1>0, <1>13, OtherCalls DEF SendPasswordReset
  <2> QED BY <1>1, <1>13, <2>1, <2>2 DEF SendPasswordReset, Ready
<1>14. CASE CodeRefused
  <2>1. call'["verify"] = NoCall /\ call'["signIn"] = call["signIn"]
    BY <1>0, <1>14, TheCalls DEF CodeRefused, Ends
  <2>2. Keeps(tab, tab')
    BY <1>0, <1>14, TabKeeps DEF CodeRefused
  <2>3. BoundOK'
    BY <1>0, <1>14, <2>1, BoundStays DEF CodeRefused
  <2> QED BY <1>0, <1>14, <2>1, <2>2, <2>3 DEF CodeRefused, Calm
<1>15. ASSUME NEW u \in Users, SignIn(u) PROVE Calm /\ BoundOK'
  <2>1. call'["signIn"].step = "password" /\ call'["verify"] = call["verify"]
    BY <1>0, <1>15, TheCalls DEF SignIn
  <2>2. Keeps(tab, tab')
    BY <1>0, <1>15, TabKeeps DEF SignIn
  <2>3. BoundOK'
    BY <1>15, <2>1, BoundPays DEF SignIn, Ready
  <2> QED BY <1>15, <2>1, <2>2, <2>3 DEF SignIn, Calm
<1>16. ASSUME NEW u \in Users, VerifyPasswordResetCode(u) PROVE Calm /\ BoundOK'
  <2>1. call'["verify"].step = "otp" /\ call'["signIn"] = call["signIn"]
    <3> DEFINE next == [step |-> "otp", email |-> u]
    <3>1. Goes("verify", next) /\ next.step = "otp"
      BY <1>16 DEF VerifyPasswordResetCode
    <3> HIDE DEF next
    <3> QED BY <1>0, <3>1, TheCalls
  <2>2. Keeps(tab, tab')
    <3>1. \A e, k : Keeps(tab, [Invalidate(tab) EXCEPT !.busy = TRUE, !.recoveryEmail = e,
                                                       !.recoveryPending = FALSE, !.current = {k}])
      BY <1>0, TabKeeps
    <3> QED BY <1>16, <3>1 DEF VerifyPasswordResetCode
  <2>3. BoundOK'
    BY <1>16, <2>1, BoundPays DEF VerifyPasswordResetCode, Ready
  <2> QED BY <1>16, <2>1, <2>2, <2>3 DEF VerifyPasswordResetCode, Calm
<1> QED BY <1>2, <1>3, <1>4, <1>5, <1>9, <1>10, <1>11, <1>12, <1>13, <1>14, <1>15, <1>16

(* Profiles change no session. *)
LEMMA ProfilesAreCalm ==
  ASSUME StoreOK, BoundOK, RefreshProfile \/ \E w \in tab.awaiting : ProfileArrives(w)
  PROVE  Calm /\ BoundOK'
<1>0. tab \in Tabs
  BY StoreParts
<1>1. Keeps(tab, tab')
  BY <1>0 DEF RefreshProfile, ProfileArrives, Tabs, Keeps
<1>2. UNCHANGED <<native, stored, tokens, events, due, call, reads, history>> /\ (acts' = acts \/ Acting)
  BY DEF RefreshProfile, ProfileArrives
<1>3. BoundOK'
  BY <1>2, BoundStays
<1> QED BY <1>1, <1>2, <1>3 DEF Calm

(* The client announces another session, to be told later.                 *)
LEMMA AnnouncedFollows ==
  ASSUME StoreOK, BoundOK, FollowOK, NEW event, event # "INITIAL_SESSION",
         tokens' \in {tokens, tokens + 1}, NEW s \in Known(tokens'), Announce(event, s), stored' = s, due' = FALSE,
         ~native \/ s # None, s = None \/ s.token = tokens + 1,
         UNCHANGED <<native, tab, call, reads, history>>
  PROVE  FollowOK'
<1> DEFINE e == [event |-> event, session |-> s]
<1>0. tokens \in Nat /\ tokens' \in Nat /\ Known(tokens) \subseteq Known(tokens')
  BY KnownFacts DEF BoundOK
<1>1. /\ events \in Seq(Event) /\ Len(events) \in Nat /\ events' = Append(events, e)
  BY StoreParts DEF Announce
<1>2. /\ Len(events') = Len(events) + 1 /\ events'[Len(events) + 1] = e
      /\ \A n \in 1..Len(events) : events'[n] = events[n]
      /\ events' # <<>>
  <2> HIDE DEF e
  <2> QED BY <1>1
<1>3. e.event # "INITIAL_SESSION" /\ e.session = s
  OBVIOUS
<1> HIDE DEF e
<1>4. KnownOK'
  BY <1>0, <1>1, <1>2, <1>3 DEF FollowOK, KnownOK, TabKnown
<1>5. NewsOK'
  BY <1>1, <1>2, <1>3 DEF NewsOK
<1>6. StartOK'
  <2>1. \A n \in 2..Len(events') : events'[n].event # "INITIAL_SESSION"
    BY <1>1, <1>2, <1>3 DEF FollowOK, StartOK
  <2>2. CASE events = <<>>
    <3>1. events'[1] = e
      BY <1>1, <1>2, <2>2
    <3> QED BY <1>3, <2>1, <3>1 DEF StartOK
  <2>3. CASE events # <<>>
    <3>1. native' /\ stored' = None => FALSE
      OBVIOUS
    <3> QED BY <2>1, <3>1 DEF StartOK
  <2> QED BY <2>2, <2>3
<1>7. CodeOK'
  <2>1. call["verify"].step = "get" => call["verify"].session.token \in 0..tokens
    BY <1>0, KnownFacts DEF FollowOK, KnownOK
  <2> QED BY <1>0, <2>1 DEF CodeOK
<1> QED BY <1>4, <1>5, <1>6, <1>7 DEF FollowOK

(* What an act or an earlier debt pays for.                                *)
LEMMA Payment ==
  ASSUME NEW n \in Nat, NEW m \in {n, n + 1}, NEW k \in 0..MaxActs, NEW a \in {0, 1}, NEW b \in {0, 1},
         NEW d \in {0, 1}, n + (d + a + b) <= k
  PROVE  /\ m \in Nat
         /\ k < MaxActs => k + 1 \in 0..MaxActs /\ m + (0 + a + b) <= k + 1
         /\ d = 1 => m + (0 + a + b) <= k
BY AuthAssumption

(* A token is bought by an act, or by a failure that was one.              *)
LEMMA BoundBuys ==
  ASSUME BoundOK, UNCHANGED <<native, call>>, due' = FALSE, tokens' \in {tokens, tokens + 1},
         Acting \/ (due /\ acts' = acts)
  PROVE  BoundOK'
<1> DEFINE a == IF call["signIn"].step = "password" THEN 1 ELSE 0
           b == IF call["verify"].step = "otp" THEN 1 ELSE 0
           d == IF due THEN 1 ELSE 0
<1>0. a \in {0, 1} /\ b \in {0, 1} /\ d \in {0, 1} /\ (due => d = 1)
  OBVIOUS
<1>1. Owed = d + a + b
  BY DEF Owed
<1>2. Owed' = 0 + a + b
  <2>1. call' = call /\ due' = FALSE
    OBVIOUS
  <2> QED BY <2>1 DEF Owed
<1> HIDE DEF a, b, d
<1>3. native' \in BOOLEAN /\ due' \in BOOLEAN
  BY DEF BoundOK
<1>4. acts \in 0..MaxActs /\ tokens \in Nat /\ tokens + (d + a + b) <= acts
  BY <1>1 DEF BoundOK
<1>5. acts' \in 0..MaxActs /\ tokens' \in Nat /\ tokens' + (0 + a + b) <= acts'
  <2>1. /\ tokens' \in Nat
        /\ acts < MaxActs => acts + 1 \in 0..MaxActs /\ tokens' + (0 + a + b) <= acts + 1
        /\ d = 1 => tokens' + (0 + a + b) <= acts
    BY <1>0, <1>4, Payment
  <2>2. CASE Acting
    BY <2>1, <2>2 DEF Acting
  <2>3. CASE due /\ acts' = acts
    <3>1. d = 1
      BY <1>0, <2>3
    <3> QED BY <1>4, <2>1, <2>3, <3>1
  <2> QED BY <2>2, <2>3
<1> QED BY <1>2, <1>3, <1>5 DEF BoundOK

LEMMA ClientActsFollow ==
  ASSUME StoreOK, BoundOK, FollowOK,
         \/ \E u \in Users : OtherTabSignsIn(u)
         \/ OtherTabSignsOut \/ Refresh \/ StartOffline
  PROVE  FollowOK' /\ BoundOK'
<1>0. tokens \in Nat /\ stored \in Known(tokens)
  BY DEF BoundOK, FollowOK, KnownOK
<1>1. ASSUME NEW u \in Users, OtherTabSignsIn(u) PROVE FollowOK' /\ BoundOK'
  <2> DEFINE s == NewSession(u)
  <2>1. s \in Known(tokens + 1) \ {None} /\ s.token = tokens + 1
    BY <1>0, KnownFacts DEF NewSession
  <2>2. /\ Announce("SIGNED_IN", s) /\ stored' = s /\ tokens' = tokens + 1 /\ due' = FALSE /\ Acting
        /\ UNCHANGED <<native, tab, call, reads, history>>
    BY <1>1 DEF OtherTabSignsIn, NewSession
  <2> HIDE DEF s
  <2>3. BoundOK'
    BY <2>2, BoundBuys
  <2> QED BY <2>1, <2>2, <2>3, AnnouncedFollows
<1>2. CASE OtherTabSignsOut
  <2>1. /\ Announce("SIGNED_OUT", None) /\ stored' = None /\ tokens' = tokens /\ due' = FALSE /\ Acting
        /\ ~native /\ UNCHANGED <<native, tab, call, reads, history>>
    BY <1>2 DEF OtherTabSignsOut
  <2>2. None \in Known(tokens')
    BY <1>0, <2>1, KnownFacts
  <2>3. BoundOK'
    BY <2>1, BoundBuys
  <2> QED BY <2>1, <2>2, <2>3, AnnouncedFollows
<1>3. CASE Refresh
  <2> DEFINE s == [stored EXCEPT !.token = tokens + 1]
  <2>1. s \in Known(tokens + 1) \ {None} /\ s.token = tokens + 1
    <3>1. stored \in Known(tokens) \ {None} /\ stored \in Sessions
      BY <1>0, <1>3, KnownFacts DEF Refresh
    <3> QED BY <1>0, <3>1, KnownFacts DEF Sessions
  <2>2. /\ Announce("TOKEN_REFRESHED", s) /\ stored' = s /\ tokens' = tokens + 1 /\ due' = FALSE
        /\ (Acting \/ (due /\ acts' = acts))
        /\ UNCHANGED <<native, tab, call, reads, history>>
    BY <1>3 DEF Refresh
  <2> HIDE DEF s
  <2>3. BoundOK'
    BY <2>2, BoundBuys
  <2> QED BY <2>1, <2>2, <2>3, AnnouncedFollows
<1>4. CASE StartOffline
  <2>1. /\ events # <<>> /\ events' = [events EXCEPT ![1].session = None] /\ Acting /\ due' = TRUE
        /\ stored # None /\ events[1].event = "INITIAL_SESSION"
        /\ UNCHANGED <<native, stored, tokens, tab, call, reads, history>>
    BY <1>4 DEF StartOffline
  <2> DEFINE first == [events[1] EXCEPT !.session = None]
  <2>2. events \in Seq(Event) /\ 1 \in 1..Len(events) /\ events[1] \in Event
    BY <2>1, StoreParts
  <2>3. first.session = None
    BY <2>2 DEF Event
  <2>4. events' = [events EXCEPT ![1] = first]
    BY <2>1
  <2> HIDE DEF first
  <2>5. /\ Len(events') = Len(events) /\ events'[1] = first /\ events' # <<>>
        /\ \A n \in 1..Len(events) : n # 1 => events'[n] = events[n]
    BY <2>2, <2>4
  <2>6. KnownOK'
    BY <1>0, <2>1, <2>2, <2>3, <2>5, KnownFacts DEF FollowOK, KnownOK, TabKnown
  <2>7. NewsOK' /\ StartOK' /\ CodeOK'
    <3>1. \A n \in 2..Len(events') : events'[n].event # "INITIAL_SESSION"
      BY <2>2, <2>5 DEF FollowOK, StartOK
    <3> QED BY <2>1, <2>5, <3>1 DEF FollowOK, NewsOK, StartOK, CodeOK
  <2>8. BoundOK'
    BY <2>1, AuthAssumption DEF BoundOK, Owed, Acting
  <2> QED BY <2>6, <2>7, <2>8 DEF FollowOK
<1> QED BY <1>1, <1>2, <1>3, <1>4

(* A read that no longer counts, with the session it has read.             *)
LEMMA OutdatedReads ==
  ASSUME reads \subseteq Reads
  PROVE  \A r \in Outdated : ~r.current /\ \E q \in reads : r.session = q.session
<1>1. ASSUME NEW q \in reads
      PROVE  ~[q EXCEPT !.current = FALSE].current /\ [q EXCEPT !.current = FALSE].session = q.session
  BY DEF Reads
<1> QED BY <1>1 DEF Outdated

LEMMA HearFollows ==
  ASSUME StoreOK, BoundOK, FollowOK, Hear
  PROVE  FollowOK' /\ BoundOK'
<1> DEFINE e == events[1]
           read == [from |-> "storage", current |-> TRUE, clear |-> TRUE, session |-> stored]
<1>0. /\ tokens \in Nat /\ events \in Seq(Event) /\ events # <<>> /\ Len(events) \in Nat /\ 1 \in 1..Len(events)
      /\ reads \subseteq Reads /\ tab \in Tabs /\ ProfileOK(tab) /\ e \in Event
  BY StoreParts DEF BoundOK, Hear
<1>1. /\ tab' = Told(tab, e.event, e.session) /\ events' = Tail(events)
      /\ reads' \in {Outdated, Outdated \cup {read}}
      /\ UNCHANGED <<native, stored, tokens, due, call, history, acts>>
  BY DEF Hear
<1>2. read.session = stored
  OBVIOUS
<1>3. e.session \in Known(tokens) /\ (e.event = "TOKEN_REFRESHED" => e.session # None)
  BY <1>0, SessionFacts DEF FollowOK, KnownOK, Event
<1>4. /\ Len(events') = Len(events) - 1
      /\ \A n \in 1..Len(events') : events'[n] = events[n + 1]
      /\ events' = <<>> => Len(events) = 1
  <2>1. events' = Tail(events)
    BY <1>1
  <2>2. Len(Tail(events)) = Len(events) - 1 /\ \A n \in 1..Len(Tail(events)) : Tail(events)[n] = events[n + 1]
    BY <1>0
  <2> QED BY <1>0, <2>1, <2>2
<1> HIDE DEF e, read
<1>5. /\ TabKnown(tab', tokens)
      /\ \/ tab'.session = e.session
         \/ e.event = "INITIAL_SESSION" /\ e.session = None /\ native /\ tab'.session = tab.session
  BY <1>0, <1>1, <1>3, ToldKnown DEF FollowOK, KnownOK
<1>6. \A r \in reads' : r.session = stored \/ (~r.current /\ \E q \in reads : r.session = q.session)
  BY <1>0, <1>1, <1>2, OutdatedReads
<1>7. KnownOK'
  BY <1>0, <1>1, <1>4, <1>5, <1>6 DEF FollowOK, KnownOK
<1>8. NewsOK'
  <2>1. CASE events' = <<>>
    <3>1. ~due => e.session = stored
      BY <1>0, <1>4, <2>1 DEF FollowOK, NewsOK, e
    <3>2. ~due => tab'.session = stored
      BY <1>0, <1>5, <3>1 DEF FollowOK, StartOK, e
    <3>3. \A r \in reads' : r.current => r.session = stored
      BY <1>6
    <3> QED BY <1>1, <2>1, <3>2, <3>3 DEF FollowOK, NewsOK
  <2>2. CASE events' # <<>>
    <3>1. Len(events') \in 1..Len(events')
      BY <1>0, <1>1, <1>4, <2>2
    <3>2. events'[Len(events')] = events[Len(events)]
      BY <1>0, <1>4, <3>1
    <3> QED BY <1>0, <1>1, <2>2, <3>2 DEF FollowOK, NewsOK
  <2> QED BY <2>1, <2>2
<1>9. StartOK'
  <2>1. \A n \in 1..Len(events') : events'[n].event # "INITIAL_SESSION"
    BY <1>0, <1>4 DEF FollowOK, StartOK
  <2>2. events' # <<>> => 1 \in 1..Len(events')
    BY <1>0, <1>1, <1>4
  <2> QED BY <1>0, <1>4, <2>1, <2>2 DEF StartOK
<1>10. CodeOK' /\ BoundOK'
  BY <1>1 DEF FollowOK, CodeOK, BoundOK, Owed
<1> QED BY <1>7, <1>8, <1>9, <1>10 DEF FollowOK


LEMMA RestoreFollows ==
  ASSUME StoreOK, BoundOK, FollowOK, NEW r \in reads, Restore(r)
  PROVE  FollowOK' /\ BoundOK'
<1>0. /\ tokens \in Nat /\ events \in Seq(Event) /\ reads \subseteq Reads
      /\ tab \in Tabs /\ ProfileOK(tab)
      /\ stored \in Known(tokens) /\ r.session \in Known(tokens)
  BY StoreParts DEF BoundOK, FollowOK, KnownOK
<1>1. /\ reads' \subseteq reads \cup Outdated
      /\ UNCHANGED <<native, stored, tokens, events, due, call, history, acts>>
  BY DEF Restore
<1>2. PICK session \in {r.session, stored} :
        tab' = IF ~Current(r) \/ (r.from = "storage" /\ session = None /\ ~r.clear) THEN tab
               ELSE [SyncSession(tab, session, "none") EXCEPT !.bootstrapFits = (r.from = "storage")]
  BY DEF Restore
<1>3. session \in Known(tokens)
  BY <1>0
<1> DEFINE s == SyncSession(tab, session, "none")
<1>4. s \in Tabs /\ TabKnown(s, tokens) /\ s.session = session
  <2>1. session \in SessionOrNone
    BY <1>0, <1>3, KnownFacts
  <2> QED BY <1>0, <1>3, <2>1, SyncSessionFields, SyncSessionKnown DEF ProfileOK, FollowOK, KnownOK, TabKnown
<1>5. \/ tab' = tab
      \/ r.current /\ tab' = [s EXCEPT !.bootstrapFits = (r.from = "storage")]
  <2>1. ~Current(r) \/ r.current
    BY DEF Current
  <2> HIDE DEF s
  <2>2. \/ tab' = tab
        \/ Current(r) /\ tab' = [s EXCEPT !.bootstrapFits = (r.from = "storage")]
    BY <1>2, Zenon DEF s
  <2> QED BY <2>1, <2>2, Zenon
<1> HIDE DEF s
<1>6. \/ tab' = tab
      \/ r.current /\ tab'.session = session /\ TabKnown(tab', tokens)
  <2>1. \A b : [s EXCEPT !.bootstrapFits = b].session = s.session /\ [s EXCEPT !.bootstrapFits = b].verified = s.verified
    BY <1>4 DEF Tabs
  <2> QED BY <1>4, <1>5, <2>1 DEF TabKnown
<1>7. \A q \in reads' : q \in reads \/ (~q.current /\ \E p \in reads : q.session = p.session)
  BY <1>0, <1>1, OutdatedReads
<1>8. KnownOK'
  BY <1>0, <1>1, <1>3, <1>6, <1>7 DEF FollowOK, KnownOK
<1>9. NewsOK'
  <2>1. events = <<>> /\ r.current => session = stored
    BY <1>2 DEF FollowOK, NewsOK
  <2> QED BY <1>1, <1>6, <1>7, <2>1 DEF FollowOK, NewsOK
<1>10. StartOK'
  <2>1. native /\ stored = None /\ events # <<>> /\ events[1].event = "INITIAL_SESSION" => session = None
    BY <1>2 DEF FollowOK, StartOK
  <2> QED BY <1>1, <1>6, <1>7, <2>1 DEF FollowOK, StartOK
<1>11. CodeOK' /\ BoundOK'
  BY <1>1 DEF FollowOK, CodeOK, BoundOK, Owed
<1> QED BY <1>8, <1>9, <1>10, <1>11 DEF FollowOK

LEMMA RestoreFailsFollows ==
  ASSUME StoreOK, BoundOK, FollowOK, NEW r \in reads, RestoreFails(r)
  PROVE  FollowOK' /\ BoundOK'
<1>1. /\ reads' \subseteq reads /\ tab' \in {tab, [tab EXCEPT !.initialized = TRUE]}
      /\ UNCHANGED <<native, stored, tokens, events, call, history>>
      /\ due' = (IF r.from = "client" THEN stored # None ELSE due)
      /\ \/ due /\ acts' = acts
         \/ ~due /\ Acting
  BY DEF RestoreFails
<1>2. tab'.session = tab.session /\ tab'.verified = tab.verified /\ tab'.late = tab.late
  BY <1>1, StoreParts DEF Tabs
<1>3. KnownOK'
  BY <1>1, <1>2 DEF FollowOK, KnownOK, TabKnown
<1>4. NewsOK'
  <2>1. (due' => stored # None) /\ (due => due')
    BY <1>1 DEF FollowOK, NewsOK
  <2> QED BY <1>1, <1>2, <2>1 DEF FollowOK, NewsOK
<1>5. StartOK' /\ CodeOK'
  BY <1>1, <1>2 DEF FollowOK, StartOK, CodeOK
<1>6. BoundOK'
  <2> DEFINE a == IF call["signIn"].step = "password" THEN 1 ELSE 0
             b == IF call["verify"].step = "otp" THEN 1 ELSE 0
             d == IF due THEN 1 ELSE 0
             e == IF due' THEN 1 ELSE 0
  <2>0. a \in {0, 1} /\ b \in {0, 1} /\ d \in {0, 1} /\ e \in {0, 1} /\ (due => d = 1) /\ (~due => d = 0)
    OBVIOUS
  <2>1. Owed = d + a + b
    BY DEF Owed
  <2>2. Owed' = e + a + b
    BY <1>1 DEF Owed
  <2>3. native' \in BOOLEAN /\ due' \in BOOLEAN
    BY <1>1 DEF BoundOK
  <2>4. acts \in 0..MaxActs /\ tokens \in Nat /\ tokens + (d + a + b) <= acts
    BY <2>1 DEF BoundOK
  <2> HIDE DEF a, b, d, e
  <2>5. CASE due /\ acts' = acts
    <3>1. d = 1
      BY <2>0, <2>5
    <3>2. tokens + (e + a + b) <= acts
      BY <2>0, <2>4, <3>1
    <3> QED BY <1>1, <2>2, <2>3, <2>4, <2>5, <3>2 DEF BoundOK
  <2>6. CASE ~due /\ Acting
    <3>1. d = 0
      BY <2>0, <2>6
    <3>2. acts' \in 0..MaxActs /\ acts' = acts + 1
      BY <2>4, <2>6, AuthAssumption DEF Acting
    <3>3. tokens + (e + a + b) <= acts + 1
      BY <2>0, <2>4, <3>1
    <3> QED BY <1>1, <2>2, <2>3, <2>4, <3>2, <3>3 DEF BoundOK
  <2> QED BY <1>1, <2>5, <2>6
<1> QED BY <1>3, <1>4, <1>5, <1>6 DEF FollowOK

(* The client stores the session of a call and tells the tab at once.      *)
LEMMA StoresFollows ==
  ASSUME StoreOK, BoundOK, FollowOK, tokens' \in {tokens, tokens + 1}, stored' \in Known(tokens'),
         due' = FALSE, events = <<>>, UNCHANGED <<native, events>>, reads' = Outdated,
         tab'.session = stored', TabKnown(tab', tokens'),
         call'["signIn"].step = "profile" => call'["signIn"].session \in Known(tokens') \ {None},
         call'["verify"].step = "get" => call'["verify"].session \in Known(tokens') \ {None},
         CodeOK'
  PROVE  FollowOK'
<1>1. reads \subseteq Reads /\ Known(tokens) \subseteq Known(tokens') /\ Len(events) = 0
  BY StoreParts, KnownFacts DEF BoundOK
<1>2. \A r \in reads' : ~r.current /\ \E q \in reads : r.session = q.session
  BY <1>1, OutdatedReads
<1>3. KnownOK'
  BY <1>1, <1>2 DEF FollowOK, KnownOK
<1>4. NewsOK'
  BY <1>2 DEF NewsOK
<1>5. StartOK'
  BY <1>1 DEF StartOK
<1> QED BY <1>3, <1>4, <1>5 DEF FollowOK

(* A call that has its answer gives its token.                             *)
LEMMA BoundSpends ==
  ASSUME BoundOK, UNCHANGED native, due' = FALSE, tokens' \in {tokens, tokens + 1}, acts' = acts \/ Acting,
         tokens' = tokens + 1 =>
           \/ /\ call["signIn"].step = "password" /\ call'["signIn"].step # "password"
              /\ call'["verify"].step = call["verify"].step
           \/ /\ call["verify"].step = "otp" /\ call'["verify"].step # "otp"
              /\ call'["signIn"].step = call["signIn"].step,
         call'["signIn"].step = "password" => call["signIn"].step = "password",
         call'["verify"].step = "otp" => call["verify"].step = "otp"
  PROVE  BoundOK'
<1> DEFINE a == IF call["signIn"].step = "password" THEN 1 ELSE 0
           b == IF call["verify"].step = "otp" THEN 1 ELSE 0
           d == IF due THEN 1 ELSE 0
           a1 == IF call'["signIn"].step = "password" THEN 1 ELSE 0
           b1 == IF call'["verify"].step = "otp" THEN 1 ELSE 0
<1>1. /\ a \in {0, 1} /\ b \in {0, 1} /\ d \in {0, 1} /\ a1 \in {0, 1} /\ b1 \in {0, 1}
      /\ a1 = 0 \/ a = 1
      /\ b1 = 0 \/ b = 1
      /\ tokens' = tokens + 1 => (a = 1 /\ a1 = 0 /\ b1 = b) \/ (b = 1 /\ b1 = 0 /\ a1 = a)
  OBVIOUS
<1>2. Owed = d + a + b
  BY DEF Owed
<1>3. Owed' = 0 + a1 + b1
  <2>1. due' = FALSE
    OBVIOUS
  <2> QED BY <2>1 DEF Owed
<1>4. native' \in BOOLEAN /\ due' \in BOOLEAN
  BY DEF BoundOK
<1>5. acts \in 0..MaxActs /\ tokens \in Nat /\ tokens + (d + a + b) <= acts
  BY <1>2 DEF BoundOK
<1> HIDE DEF a, b, d, a1, b1
<1>6. acts' \in 0..MaxActs /\ acts' >= acts
  BY <1>5, AuthAssumption DEF Acting
<1>7. tokens' \in Nat /\ tokens' + (0 + a1 + b1) <= acts'
  <2>0. acts \in Nat /\ acts' \in Nat
    BY <1>5, <1>6, AuthAssumption
  <2>1. CASE tokens' = tokens
    <3>1. a1 + b1 <= d + a + b
      BY <1>1
    <3> QED BY <1>1, <1>5, <1>6, <2>0, <2>1, <3>1
  <2>2. CASE tokens' = tokens + 1
    <3>1. a1 + b1 + 1 <= d + a + b
      BY <1>1, <2>2
    <3> QED BY <1>1, <1>5, <1>6, <2>0, <2>2, <3>1
  <2> QED BY <2>1, <2>2
<1> QED BY <1>3, <1>4, <1>6, <1>7 DEF BoundOK


LEMMA SignInAnsweredFollows ==
  ASSUME StoreOK, BoundOK, FollowOK, SignInAnswered
  PROVE  FollowOK' /\ BoundOK'
<1> DEFINE c == call["signIn"]
           s == NewSession(c.user)
           next == [step |-> "profile", session |-> s]
<1>0. /\ tokens \in Nat /\ tab \in Tabs /\ ProfileOK(tab) /\ DOMAIN call = Calls /\ NoCall.step = "none"
      /\ TabKnown(tab, tokens)
  BY StoreParts DEF NoCall, BoundOK, FollowOK, KnownOK
<1>1. UNCHANGED <<native, events, history>> /\ c.step = "password"
  BY DEF SignInAnswered
<1>2. c.user \in Users
  BY <1>1, StoreParts DEF CallsOK, SignInCalls, NoCall
<1>3. CASE Stores(s) /\ tab' = Told(tab, "SIGNED_IN", s) /\ Goes("signIn", next) /\ reads' = Outdated
           /\ UNCHANGED acts
  <2>1. s \in Known(tokens + 1) \ {None} /\ s.token = tokens + 1 /\ next.step = "profile" /\ next.session = s
    BY <1>0, <1>2, KnownFacts DEF NewSession
  <2> HIDE DEF s, next
  <2>2. /\ events = <<>> /\ stored' = s /\ tokens' = tokens + 1 /\ due' = FALSE
    BY <1>3, <2>1 DEF Stores
  <2>3. call'["signIn"] = next /\ call'["verify"] = call["verify"]
    BY <1>0, <1>3, TheCalls
  <2>4. TabKnown(tab, tokens + 1) /\ tokens + 1 \in Nat
    BY <1>0, KnownFacts DEF TabKnown
  <2>5. TabKnown(tab', tokens + 1) /\ tab'.session = s
    BY <1>0, <1>3, <2>1, <2>4, ToldKnown
  <2>6. call["verify"].step = "get" => /\ call["verify"].session \in Known(tokens + 1) \ {None}
                                       /\ call["verify"].session.token \in 0..tokens
    BY <1>0, KnownFacts DEF FollowOK, KnownOK
  <2>7. CodeOK'
    BY <1>0, <2>1, <2>2, <2>3, <2>6 DEF CodeOK
  <2>8. FollowOK'
    BY <1>1, <1>3, <2>1, <2>2, <2>3, <2>5, <2>6, <2>7, StoresFollows
  <2>9. BoundOK'
    BY <1>1, <1>3, <2>1, <2>2, <2>3, BoundSpends
  <2> QED BY <2>8, <2>9
<1>4. CASE Acting /\ tab' = [tab EXCEPT !.busy = FALSE] /\ Ends("signIn") /\ UNCHANGED <<stored, tokens, due, reads>>
  <2>1. call'["signIn"] = NoCall /\ call'["verify"] = call["verify"]
    BY <1>0, <1>4, TheCalls DEF Ends
  <2>2. Keeps(tab, tab')
    BY <1>0, <1>4, TabKeeps
  <2>3. BoundOK'
    BY <1>0, <1>1, <1>4, <2>1, BoundStays
  <2>4. Calm
    BY <1>0, <1>1, <1>4, <2>1, <2>2 DEF Calm
  <2> QED BY <2>3, <2>4, CalmFollows
<1> QED BY <1>3, <1>4 DEF SignInAnswered

LEMMA SignedInFollows ==
  ASSUME StoreOK, BoundOK, FollowOK, SignedIn
  PROVE  FollowOK' /\ BoundOK'
<1> DEFINE c == call["signIn"]
<1>0. /\ tokens \in Nat /\ tab \in Tabs /\ DOMAIN call = Calls /\ NoCall.step = "none"
      /\ TabKnown(tab, tokens)
  BY StoreParts DEF NoCall, BoundOK, FollowOK, KnownOK
<1>1. /\ c.step = "profile" /\ Ends("signIn")
      /\ UNCHANGED <<native, stored, tokens, events, due, reads, history>>
      /\ acts' = acts \/ Acting
  BY DEF SignedIn
<1>2. c.session \in Known(tokens) \ {None}
  BY <1>1 DEF FollowOK, KnownOK
<1>3. call'["signIn"] = NoCall /\ call'["verify"] = call["verify"]
  BY <1>0, <1>1, TheCalls DEF Ends
<1>4. tab'.session = c.session /\ tab'.verified = tab.verified /\ tab'.late = (stored # c.session)
  BY <1>0 DEF SignedIn, Tabs
<1>5. tab'.session = stored \/ tab'.late
  BY <1>4
<1>6. KnownOK'
  BY <1>0, <1>1, <1>2, <1>3, <1>4 DEF FollowOK, KnownOK, TabKnown
<1>7. NewsOK'
  BY <1>1, <1>4, <1>5 DEF FollowOK, NewsOK
<1>8. StartOK'
  BY <1>1 DEF FollowOK, StartOK
<1>9. CodeOK'
  BY <1>1, <1>3 DEF FollowOK, CodeOK
<1>10. BoundOK'
  BY <1>0, <1>1, <1>3, BoundStays
<1> QED BY <1>6, <1>7, <1>8, <1>9, <1>10 DEF FollowOK

LEMMA SignOutAnsweredFollows ==
  ASSUME StoreOK, BoundOK, FollowOK, SignOutAnswered
  PROVE  FollowOK' /\ BoundOK'
<1> DEFINE told == Told(tab, "SIGNED_OUT", None)
           next == [step |-> "clear"]
<1>0. /\ tokens \in Nat /\ tab \in Tabs /\ ProfileOK(tab) /\ DOMAIN call = Calls
      /\ TabKnown(tab, tokens)
  BY StoreParts DEF BoundOK, FollowOK, KnownOK
<1>1. /\ UNCHANGED <<native, events, history>> /\ (acts' = acts \/ Acting)
      /\ Goes("signOut", next) \/ Goes("signOut", NoCall)
  BY DEF SignOutAnswered, Ends
<1> HIDE DEF next
<1>2. call'["signIn"] = call["signIn"] /\ call'["verify"] = call["verify"]
  BY <1>0, <1>1, OtherCalls
<1>3. CASE Stores(None) /\ tab' = told /\ reads' = Outdated
  <2>1. None \in Known(tokens) /\ None \in SessionOrNone
    BY <1>0, KnownFacts
  <2>2. TabKnown(tab', tokens) /\ tab'.session = None
    BY <1>0, <1>3, <2>1, ToldKnown
  <2> HIDE DEF told
  <2>4. events = <<>> /\ stored' = None /\ tokens' = tokens /\ due' = FALSE
    BY <1>3 DEF Stores
  <2>5. CodeOK'
    BY <2>4 DEF CodeOK
  <2>6. FollowOK'
    <3>1. /\ call'["signIn"].step = "profile" => call'["signIn"].session \in Known(tokens') \ {None}
          /\ call'["verify"].step = "get" => call'["verify"].session \in Known(tokens') \ {None}
      BY <1>2, <2>4 DEF FollowOK, KnownOK
    <3>2. tokens' \in {tokens, tokens + 1} /\ stored' \in Known(tokens') /\ tab'.session = stored'
          /\ TabKnown(tab', tokens')
      BY <2>1, <2>2, <2>4
    <3>3. due' = FALSE /\ events = <<>> /\ UNCHANGED <<native, events>> /\ reads' = Outdated
      BY <1>1, <1>3, <2>4
    <3> QED BY <2>5, <3>1, <3>2, <3>3, StoresFollows
  <2>7. BoundOK'
    <3>1. tokens' # tokens + 1 /\ tokens' \in {tokens, tokens + 1}
      BY <1>0, <2>4
    <3>2. UNCHANGED native /\ due' = FALSE /\ (acts' = acts \/ Acting)
      BY <1>1, <2>4
    <3>3. /\ call'["signIn"].step = "password" => call["signIn"].step = "password"
          /\ call'["verify"].step = "otp" => call["verify"].step = "otp"
      BY <1>2
    <3> QED BY <3>1, <3>2, <3>3, BoundSpends
  <2> QED BY <2>6, <2>7
<1>4. CASE tab' = [tab EXCEPT !.busy = FALSE] /\ UNCHANGED <<stored, tokens, due, reads>>
  <2>1. Keeps(tab, tab')
    BY <1>0, <1>4, TabKeeps
  <2>2. BoundOK'
    BY <1>1, <1>2, <1>4, BoundStays
  <2>3. Calm
    BY <1>1, <1>2, <1>4, <2>1 DEF Calm
  <2> QED BY <2>2, <2>3, CalmFollows
<1> QED BY <1>3, <1>4 DEF SignOutAnswered

LEMMA SignedOutFollows ==
  ASSUME StoreOK, BoundOK, FollowOK, SignedOut
  PROVE  FollowOK' /\ BoundOK'
<1>0. /\ tokens \in Nat /\ tab \in Tabs /\ DOMAIN call = Calls /\ TabKnown(tab, tokens)
  BY StoreParts DEF BoundOK, FollowOK, KnownOK
<1>1. /\ Ends("signOut") /\ UNCHANGED <<native, stored, tokens, events, due, reads, history, acts>>
      /\ tab'.session = None /\ tab'.verified = tab.verified /\ tab'.late = (stored # None)
  BY <1>0 DEF SignedOut, Tabs
<1>2. call'["signIn"] = call["signIn"] /\ call'["verify"] = call["verify"]
  BY <1>0, <1>1, OtherCalls DEF Ends
<1>3. tab'.session = stored \/ tab'.late
  BY <1>1
<1>4. KnownOK'
  BY <1>0, <1>1, <1>2, KnownFacts DEF FollowOK, KnownOK, TabKnown
<1>5. NewsOK'
  BY <1>1, <1>3 DEF FollowOK, NewsOK
<1>6. StartOK' /\ CodeOK'
  BY <1>1, <1>2 DEF FollowOK, StartOK, CodeOK
<1>7. BoundOK'
  BY <1>1, <1>2, BoundStays
<1> QED BY <1>4, <1>5, <1>6, <1>7 DEF FollowOK

LEMMA CodeAcceptedFollows ==
  ASSUME StoreOK, BoundOK, FollowOK, NEW u \in Users, CodeAccepted(u)
  PROVE  FollowOK' /\ BoundOK'
<1> DEFINE s == NewSession(u)
           told == Told(tab, "PASSWORD_RECOVERY", s)
           next == [step |-> "get", email |-> u, session |-> s]
<1>0. /\ tokens \in Nat /\ tab \in Tabs /\ ProfileOK(tab) /\ DOMAIN call = Calls /\ NoCall.step = "none"
      /\ TabKnown(tab, tokens)
  BY StoreParts DEF NoCall, BoundOK, FollowOK, KnownOK
<1>1. /\ s \in Known(tokens + 1) \ {None} /\ s.token = tokens + 1 /\ s \in SessionOrNone
      /\ next.step = "get" /\ next.session = s
      /\ Known(tokens) \subseteq Known(tokens + 1) /\ tokens + 1 \in Nat
  BY <1>0, KnownFacts, NewSessionFields DEF NewSession
<1>2. /\ call["verify"].step = "otp" /\ Stores(s) /\ reads' = Outdated /\ UNCHANGED <<native, events>>
      /\ (acts' = acts \/ Acting)
      /\ \/ tab' = told /\ Goes("verify", next)
         \/ tab' = VerifyGivesUp(told) /\ Goes("verify", NoCall)
  BY DEF CodeAccepted, Ends
<1> HIDE DEF s, next
<1>3. events = <<>> /\ stored' = s /\ tokens' = tokens + 1 /\ due' = FALSE
  BY <1>1, <1>2 DEF Stores
<1>4. told \in Tabs /\ TabKnown(told, tokens + 1) /\ told.session = s
  <2>1. TabKnown(tab, tokens + 1)
    BY <1>0, <1>1 DEF TabKnown
  <2> QED BY <1>0, <1>1, <2>1, ToldFields, ToldKnown
<1> HIDE DEF told
<1>5. call'["signIn"] = call["signIn"] /\ call'["verify"] \in {next, NoCall}
  BY <1>0, <1>2, TheCalls
<1>6. TabKnown(tab', tokens + 1) /\ tab'.session = s
  <2>1. Keeps(told, told) /\ Keeps(told, VerifyGivesUp(told)) /\ None \in Known(tokens + 1)
    BY <1>1, <1>4, TabKeeps, KnownFacts
  <2> QED BY <1>2, <1>4, <2>1 DEF Keeps, TabKnown
<1>7. CodeOK'
  BY <1>0, <1>1, <1>3, <1>5 DEF CodeOK
<1>8. FollowOK'
  <2>1. call'["signIn"].step = "profile" => call'["signIn"].session \in Known(tokens') \ {None}
    BY <1>1, <1>3, <1>5 DEF FollowOK, KnownOK
  <2>2. call'["verify"].step = "get" => call'["verify"].session \in Known(tokens') \ {None}
    BY <1>0, <1>1, <1>3, <1>5
  <2> QED BY <1>1, <1>2, <1>3, <1>6, <1>7, <2>1, <2>2, StoresFollows
<1>9. BoundOK'
  <2>1. call'["verify"].step # "otp"
    BY <1>0, <1>1, <1>5
  <2> QED BY <1>2, <1>3, <1>5, <2>1, BoundSpends
<1> QED BY <1>8, <1>9

LEMMA VerifiedFollows ==
  ASSUME StoreOK, BoundOK, FollowOK, Verified
  PROVE  FollowOK' /\ BoundOK'
<1> DEFINE c == call["verify"]
<1>0. /\ tokens \in Nat /\ tab \in Tabs /\ ProfileOK(tab) /\ DOMAIN call = Calls /\ NoCall.step = "none"
      /\ TabKnown(tab, tokens) /\ stored \in Known(tokens)
  BY StoreParts DEF NoCall, BoundOK, FollowOK, KnownOK
<1>1. c.step = "get" /\ Ends("verify") /\ UNCHANGED <<native, stored, tokens, events, due, reads, history>>
      /\ (acts' = acts \/ Acting)
  BY DEF Verified
<1>2. call'["verify"] = NoCall /\ call'["signIn"] = call["signIn"]
  BY <1>0, <1>1, TheCalls DEF Ends
<1>3. BoundOK'
  BY <1>0, <1>1, <1>2, BoundStays
<1>4. \/ tab' = VerifyGivesUp(tab)
      \/ TokenOf(stored) = c.session.token /\ tab' = Opened(tab, c)
  <2> DEFINE still == "verify" \in tab.current /\ TokenOf(stored) = c.session.token
  <2>1. \/ tab' = IF still THEN Opened(tab, c) ELSE VerifyGivesUp(tab)
        \/ tab' = VerifyGivesUp(tab)
    BY Zenon DEF Verified
  <2> HIDE DEF c
  <2> QED BY <2>1, Zenon
<1>5. CASE tab' = VerifyGivesUp(tab)
  <2>1. Keeps(tab, tab')
    BY <1>0, <1>5, TabKeeps
  <2>2. Calm
    BY <1>0, <1>1, <1>2, <2>1 DEF Calm
  <2> QED BY <1>3, <2>2, CalmFollows
<1>6. CASE TokenOf(stored) = c.session.token /\ tab' = Opened(tab, c)
  <2>1. c.session \in Known(tokens) \ {None} /\ c.session \in Sessions /\ c.session.token \in Nat
    BY <1>0, <1>1, KnownFacts DEF FollowOK, KnownOK
  <2>2. stored = c.session
    <3>1. stored # None
      BY <1>6, <2>1, AuthAssumption DEF TokenOf
    <3> QED BY <1>1, <1>6, <3>1 DEF TokenOf, FollowOK, CodeOK
  <2> HIDE DEF c
  <2>3. tab'.session = c.session /\ tab'.verified = c.session
    <3> DEFINE v == [tab EXCEPT !.verified = c.session]
               s == SyncSession(v, c.session, "none")
    <3>1. v \in Tabs /\ v.session = tab.session /\ v.profile = tab.profile /\ v.verified = c.session
      BY <1>0, <2>1 DEF Tabs, SessionOrNone
    <3> HIDE DEF v
    <3>2. s \in Tabs /\ s.session = c.session
      <4>1. c.session \in SessionOrNone
        BY <2>1 DEF SessionOrNone
      <4> QED BY <1>0, <3>1, <4>1, SyncSessionFields DEF ProfileOK
    <3>3. tab' = [s EXCEPT !.recoveryPending = TRUE, !.busy = FALSE]
      BY <1>6 DEF Opened, v
    <3> HIDE DEF s
    <3>4. tab'.session = c.session
      BY <3>2, <3>3 DEF Tabs
    <3>5. tab'.verified = c.session
      BY <1>0, <1>6, <2>1, OpenedFields
    <3> QED BY <3>4, <3>5
  <2>4. KnownOK'
    BY <1>0, <1>1, <1>2, <2>1, <2>3 DEF FollowOK, KnownOK, TabKnown
  <2>5. NewsOK'
    BY <1>1, <2>2, <2>3 DEF FollowOK, NewsOK
  <2>6. StartOK'
    BY <1>1 DEF FollowOK, StartOK, c
  <2>7. CodeOK'
    BY <1>0, <1>2 DEF CodeOK
  <2> QED BY <1>3, <2>4, <2>5, <2>6, <2>7 DEF FollowOK
<1> QED BY <1>4, <1>5, <1>6
---------------------------------------------------------------------------
AccountOK == StoreOK /\ BoundOK /\ FollowOK

LEMMA AccountInit == Init => AccountOK
<1> SUFFICES ASSUME Init PROVE BoundOK /\ FollowOK
  BY StoreInit DEF AccountOK
<1> USE DEF Init
<1>0. NoCall.step = "none" /\ call["signIn"] = NoCall /\ call["verify"] = NoCall
  BY DEF NoCall, Calls
<1>1. BoundOK
  <2>1. due = FALSE /\ native \in BOOLEAN /\ acts = 0 /\ tokens = 0
    OBVIOUS
  <2>2. Owed = 0
    BY <1>0, <2>1 DEF Owed
  <2>3. due \in BOOLEAN
    BY <2>1
  <2>4. acts \in 0..MaxActs /\ tokens \in Nat /\ tokens + Owed <= acts
    BY <2>1, <2>2, AuthAssumption
  <2> QED BY <2>1, <2>3, <2>4 DEF BoundOK
<1>2. stored \in Known(0) /\ None \in Known(0)
  BY DEF Known
<1>3. /\ events \in Seq(Event) /\ Len(events) = 1 /\ events[1].session = stored /\ events # <<>>
      /\ \A r \in reads : r.session = stored
  BY StoreInit, StoreParts
<1>4. tab.session = None /\ tab.verified = None /\ tokens = 0
  OBVIOUS
<1>5. KnownOK
  BY <1>0, <1>2, <1>3, <1>4 DEF KnownOK, TabKnown
<1>6. NewsOK /\ StartOK /\ CodeOK
  BY <1>0, <1>3, <1>4 DEF NewsOK, StartOK, CodeOK
<1> QED BY <1>1, <1>5, <1>6 DEF FollowOK

LEMMA AccountNext == AccountOK /\ [Next]_vars => AccountOK'
<1> SUFFICES ASSUME StoreOK, BoundOK, FollowOK, [Next]_vars PROVE BoundOK' /\ FollowOK'
  BY StoreNext DEF AccountOK
<1>1. CASE UNCHANGED vars
  <2>1. Keeps(tab, tab)
    BY DEF Keeps
  <2>2. Calm /\ BoundOK'
    BY <1>1, <2>1 DEF vars, Calm, BoundOK, Owed
  <2> QED BY <2>2, CalmFollows
<1>2. ASSUME NEW u \in Users,
             SignIn(u) \/ OtherTabSignsIn(u) \/ SendPasswordReset(u) \/ VerifyPasswordResetCode(u) \/ CodeAccepted(u)
      PROVE  BoundOK' /\ FollowOK'
  BY <1>2, ReaderCallsAreCalm, CalmFollows, ClientActsFollow, CodeAcceptedFollows
<1>3. ASSUME NEW r \in reads, Restore(r) \/ RestoreFails(r) PROVE BoundOK' /\ FollowOK'
  BY <1>3, RestoreFollows, RestoreFailsFollows
<1>4. ASSUME NEW w \in tab.awaiting, ProfileArrives(w) PROVE BoundOK' /\ FollowOK'
  BY <1>4, ProfilesAreCalm, CalmFollows
<1>5. CASE OtherTabSignsOut \/ Refresh \/ StartOffline
  BY <1>5, ClientActsFollow
<1>6. CASE Hear
  BY <1>6, HearFollows
<1>7. CASE RefreshProfile
  BY <1>7, ProfilesAreCalm, CalmFollows
<1>8. CASE \/ CancelPasswordRecovery \/ SignOut \/ ResetSent \/ CodeRefused
           \/ CompletePasswordRecovery \/ Checked \/ SessionSet \/ Updated \/ OthersSignedOut
  BY <1>8, ReaderCallsAreCalm, CalmFollows
<1>9. CASE SignOutAnswered \/ SignedOut \/ SignInAnswered \/ SignedIn \/ Verified
  BY <1>9, SignOutAnsweredFollows, SignedOutFollows, SignInAnsweredFollows, SignedInFollows, VerifiedFollows
<1> QED BY <1>1, <1>2, <1>3, <1>4, <1>5, <1>6, <1>7, <1>8, <1>9 DEF Next

LEMMA AccountAlways == Spec => []AccountOK
BY AccountInit, AccountNext, PTL DEF Spec

(* The store, the client and the calls keep their shapes; every session    *)
(* anywhere has a token that was issued, and only who is signed out has a  *)
(* profile that nobody has asked for (store.ts, syncSession).              *)
THEOREM AccountTypes == Spec => []TypeOK
<1>1. AccountOK => TypeOK
  <2> SUFFICES ASSUME StoreOK, BoundOK, FollowOK PROVE TypeOK
    BY DEF AccountOK
  <2>1. Stored = Known(tokens)
    BY DEF Stored, Tokens, Known
  <2>2. tab \in Tabs /\ reads \subseteq Reads /\ DOMAIN call = Calls
    BY StoreParts
  <2>3. tokens \in 0..(2 * MaxActs) /\ acts \in 0..MaxActs
    <3>1. MaxActs \in Nat /\ Owed \in Nat
      BY AuthAssumption DEF Owed
    <3> QED BY <3>1 DEF BoundOK
  <2>4. native \in BOOLEAN /\ due \in BOOLEAN
    BY DEF BoundOK
  <2>5. /\ tab.profile \in Users \cup {None} /\ tab.recoveryEmail \in Users \cup {None}
        /\ tab.profileStatus \in {"idle", "loading", "ready", "error"}
        /\ {tab.recoveryPending, tab.busy, tab.initialized, tab.late} \subseteq BOOLEAN
        /\ \A w \in tab.awaiting : w.user \in Users /\ w.current \in BOOLEAN
    BY <2>2 DEF Tabs, UserOrNone, Awaited
  <2>6. (tab.session = None) <=> (tab.profileStatus = "idle")
    BY StoreParts DEF ProfileOK
  <2>7. \A r \in reads : r.current \in BOOLEAN
    BY <2>2 DEF Reads
  <2> QED BY <2>1, <2>2, <2>3, <2>4, <2>5, <2>6, <2>7 DEF FollowOK, KnownOK, TabKnown, TypeOK
<1> QED BY <1>1, AccountAlways, PTL

(* When all is answered, the store shows the session that the client has,  *)
(* whatever was read late and whatever other tabs did, except where a      *)
(* sign-in or a sign-out has had its late word since the last news: these  *)
(* two compare nothing (store.ts, the revisions of bootstrap and of the    *)
(* session; :136, :245).                                                   *)
THEOREM StoreFollows == Spec => []StoreFollowsClient
<1>1. AccountOK => StoreFollowsClient
  BY DEF AccountOK, FollowOK, NewsOK, StoreFollowsClient, Quiet
<1> QED BY <1>1, AccountAlways, PTL

=============================================================================
