---------------------------- MODULE AuthSession ----------------------------
(***************************************************************************)
(* The account store of one tab or application: who is signed in, with     *)
(* which profile, and whether a forgotten password may be set anew.  The   *)
(* Supabase client keeps the session in a storage that other tabs share;   *)
(* it tells the store of every change, but the store also awaits answers   *)
(* of its own, and each may come when the account is another one already.  *)
(*                                                                         *)
(* The client and its server are external.  They tell the store of changes *)
(* in the order in which they were stored; an answer to a call of the tab  *)
(* follows the news of it, and other news may come between the two.  There *)
(* is one call of a kind at a time.  Sign-up, the change of a known        *)
(* password and the deletion of the account are left out.                  *)
(*                                                                         *)
(* The module compares counters (revisions) with what they were when a     *)
(* request began.  Only whether they have moved matters: what was begun at *)
(* the present count is marked as current until the counter is bumped.     *)
(***************************************************************************)
EXTENDS Integers, Sequences, FiniteSets

CONSTANTS
  Users,       \* accounts; one has one e-mail address
  MaxActs,     \* bound of the model: calls by the reader, changes elsewhere, failures
  None

Sessions == [user : Users, token : Nat]

ASSUME AuthAssumption ==
  /\ MaxActs \in Nat
  /\ None \notin Users \cup Sessions \cup Nat

VARIABLES
  native,   \* an application without other tabs that reads its storage itself
  stored,   \* the session in the storage of the client
  tokens,   \* tokens issued so far
  events,   \* changes the store has not been told of
  due,      \* the client has failed to refresh its token and will try again
  tab,      \* the store, the private variables of its module, and (history) whether
            \* it shows what a late answer said
  call,     \* [Calls -> the call in progress]
  reads,    \* what bootstrap reads
  history,  \* accounts whose code was right, passwords set
  acts      \* calls, changes and failures so far

vars == <<native, stored, tokens, events, due, tab, call, reads, history, acts>>

Calls == {"signIn", "signOut", "reset", "verify", "complete"}
NoCall == [step |-> "none"]
UserOf(session) == IF session = None THEN None ELSE session.user
TokenOf(session) == IF session = None THEN None ELSE session.token

---------------------------------------------------------------------------
(* The store *)

(* recoveryRevision moves on, past the calls that began at it. *)
Invalidate(t) == [t EXCEPT !.verified = None, !.current = {}]

CancelRecovery(t) ==
  [Invalidate(t) EXCEPT !.recoveryEmail = None, !.recoveryPending = FALSE, !.busy = FALSE]

(* Another session than the one the recovery was verified for. *)
Foreign(t, session, event) ==
  /\ t.verified # None
  /\ \/ UserOf(session) # t.verified.user
     \/ TokenOf(session) # t.verified.token /\ event # "TOKEN_REFRESHED"

(* Mutant of KeepRecovery: the form of an ended recovery stays busy. *)
KeepBusy(t, session, event) ==
  LET kept == IF Foreign(t, session, event)
              THEN [Invalidate(t) EXCEPT !.recoveryPending = FALSE]
              ELSE IF t.verified # None /\ event = "TOKEN_REFRESHED"
              THEN [t EXCEPT !.verified.token = session.token]
              ELSE t
  IN IF event = "SIGNED_OUT" THEN CancelRecovery(kept) ELSE kept

(* A recovery ends with another session; a refreshed token carries it on. *)
KeepRecovery(t, session, event) ==
  LET arrived == IF /\ event = "SIGNED_IN" /\ t.recoveryEmail # None
                    /\ TokenOf(session) # TokenOf(t.session)
                 THEN CancelRecovery(t) ELSE t
      kept == IF Foreign(arrived, session, event)
              THEN [Invalidate(arrived) EXCEPT !.recoveryPending = FALSE, !.busy = FALSE]
              ELSE IF arrived.verified # None /\ event = "TOKEN_REFRESHED"
              THEN [arrived EXCEPT !.verified.token = session.token]
              ELSE arrived
  IN IF event = "SIGNED_OUT" THEN CancelRecovery(kept) ELSE kept

(* The session is shown at once, and its profile requested unless known. *)
Show(t, session) ==
  IF session = None
  THEN [t EXCEPT !.session = None, !.profile = None, !.profileStatus = "idle",
                 !.recoveryPending = FALSE, !.initialized = TRUE, !.late = FALSE]
  ELSE LET profile == IF UserOf(t.session) = session.user THEN t.profile ELSE None
       IN [t EXCEPT !.session = session, !.profile = profile, !.initialized = TRUE, !.late = FALSE,
                    !.profileStatus = IF profile = None THEN "loading" ELSE "ready",
                    !.awaiting = IF profile # None THEN @
                                 ELSE @ \cup {[user |-> session.user, current |-> TRUE]}]

(* sessionRevision moves on, past the profiles that are awaited. *)
NextSession(t) ==
  [t EXCEPT !.bootstrapFits = FALSE, !.awaiting = {[w EXCEPT !.current = FALSE] : w \in @}]

SyncSession(t, session, event) == Show(KeepRecovery(NextSession(t), session, event), session)

(* What the listener of the client does; an application looks in its       *)
(* storage before it takes an initial session for a missing one.           *)
Told(t, event, session) ==
  LET seen == [t EXCEPT !.bootstrapFits = TRUE]
  IN IF event = "INITIAL_SESSION" /\ session = None /\ native
     THEN seen ELSE SyncSession(seen, session, event)

Init ==
  /\ native \in BOOLEAN
  /\ stored \in {None} \cup [user : Users, token : {0}]
  /\ tokens = 0
  /\ due = FALSE
  /\ events = <<[event |-> "INITIAL_SESSION", session |-> stored]>>
  /\ tab = [session |-> None, profile |-> None, profileStatus |-> "idle", recoveryEmail |-> None,
            recoveryPending |-> FALSE, busy |-> FALSE, initialized |-> FALSE, verified |-> None,
            current |-> {}, bootstrapFits |-> TRUE, awaiting |-> {}, late |-> FALSE]
  /\ call = [c \in Calls |-> NoCall]
  /\ reads = {[from |-> f, current |-> TRUE, clear |-> FALSE, session |-> stored] :
                f \in IF native THEN {"client", "storage"} ELSE {"client"}}
  /\ history = [proven |-> {}, updated |-> {}]
  /\ acts = 0

---------------------------------------------------------------------------
(* The client and other tabs *)

Announce(event, session) == events' = Append(events, [event |-> event, session |-> session])
Acting == acts < MaxActs /\ acts' = acts + 1

OtherTabSignsIn(u) ==
  /\ ~native /\ Acting
  /\ tokens' = tokens + 1
  /\ stored' = [user |-> u, token |-> tokens + 1]
  /\ Announce("SIGNED_IN", [user |-> u, token |-> tokens + 1])
  /\ due' = FALSE
  /\ UNCHANGED <<native, tab, call, reads, history>>

OtherTabSignsOut ==
  /\ ~native /\ Acting /\ stored # None
  /\ stored' = None
  /\ Announce("SIGNED_OUT", None)
  /\ due' = FALSE
  /\ UNCHANGED <<native, tokens, tab, call, reads, history>>

Refresh ==
  /\ stored # None
  /\ IF due THEN UNCHANGED acts ELSE Acting
  /\ tokens' = tokens + 1
  /\ stored' = [stored EXCEPT !.token = tokens + 1]
  /\ Announce("TOKEN_REFRESHED", [stored EXCEPT !.token = tokens + 1])
  /\ due' = FALSE
  /\ UNCHANGED <<native, tab, call, reads, history>>

(* The client cannot refresh the session at its start: it says that there  *)
(* is none.                                                                *)
StartOffline ==
  /\ events # <<>> /\ Head(events).event = "INITIAL_SESSION" /\ Head(events).session # None
  /\ Acting
  /\ events' = [events EXCEPT ![1].session = None]
  /\ due' = TRUE
  /\ stored = Head(events).session
  /\ UNCHANGED <<native, stored, tokens, tab, call, reads, history>>

(* bootstrapRevision moves on, past the reads of bootstrap. *)
Outdated == {[r EXCEPT !.current = FALSE] : r \in reads}

(* The listener is called; an application then reads its storage again. *)
Hear ==
  /\ events # <<>>
  /\ LET e == Head(events)
     IN /\ tab' = Told(tab, e.event, e.session)
        /\ reads' = IF e.event = "INITIAL_SESSION" /\ e.session = None /\ native
                    THEN Outdated \cup {[from |-> "storage", current |-> TRUE, clear |-> TRUE,
                                         session |-> stored]}
                    ELSE Outdated
  /\ events' = Tail(events)
  /\ UNCHANGED <<native, stored, tokens, due, call, history, acts>>

---------------------------------------------------------------------------
(* Bootstrap *)

(* A read sees the storage as it is when it begins or when it ends. *)
Current(r) == r.current /\ tab.bootstrapFits

(* Mutant of Restore: what was read is believed. *)
RestoreAnyway(r) ==
  /\ r \in reads
  /\ reads' = reads \ {r}
  /\ \E session \in {r.session, stored} :
       tab' = IF session = None /\ r.from = "storage" /\ ~r.clear THEN tab
              ELSE SyncSession(tab, session, "none")
  /\ UNCHANGED <<native, stored, tokens, events, due, call, history, acts>>

(* It counts unless the store learned of a session in the meantime.  The   *)
(* client's answer outdates the storage's, not the other way round.        *)
Restore(r) ==
  /\ r \in reads
  /\ reads' = (IF Current(r) /\ r.from = "client" THEN Outdated ELSE reads) \ {r, [r EXCEPT !.current = FALSE]}
  /\ \E session \in {r.session, stored} :
       tab' = IF ~Current(r) \/ (r.from = "storage" /\ session = None /\ ~r.clear) THEN tab
              ELSE [SyncSession(tab, session, "none") EXCEPT !.bootstrapFits = (r.from = "storage")]
  /\ UNCHANGED <<native, stored, tokens, events, due, call, history, acts>>

(* The read fails: without a newer word the tab is started nonetheless. *)
RestoreFails(r) ==
  /\ r \in reads
  /\ IF due THEN UNCHANGED acts ELSE Acting
  /\ reads' = reads \ {r}
  /\ tab' = IF r.current THEN [tab EXCEPT !.initialized = TRUE] ELSE tab
  /\ due' = IF r.from = "client" THEN stored # None ELSE due
  /\ UNCHANGED <<native, stored, tokens, events, call, history>>

---------------------------------------------------------------------------
(* Profiles *)

RefreshProfile ==
  /\ tab.session # None
  /\ Acting
  /\ tab' = [tab EXCEPT !.profileStatus = "loading",
               !.awaiting = @ \cup {[user |-> tab.session.user, current |-> TRUE]}]
  /\ UNCHANGED <<native, stored, tokens, events, due, call, reads, history>>

(* Mutant of ProfileArrives: the profile is shown to whoever is there. *)
ProfileAlwaysShown(w) ==
  /\ w \in tab.awaiting
  /\ tab' = [tab EXCEPT !.awaiting = @ \ {w}, !.profile = w.user, !.profileStatus = "ready"]
  /\ UNCHANGED <<native, stored, tokens, events, due, call, reads, history, acts>>

(* A profile or its failure counts for the session it was requested for. *)
ProfileArrives(w) ==
  /\ w \in tab.awaiting
  /\ LET answered == [tab EXCEPT !.awaiting = @ \ {w}]
         wanted == w.current /\ UserOf(tab.session) = w.user
     IN \/ /\ tab' = IF wanted THEN [answered EXCEPT !.profile = w.user, !.profileStatus = "ready"]
                     ELSE answered
           /\ UNCHANGED acts
        \/ /\ Acting
           /\ tab' = IF wanted THEN [answered EXCEPT !.profileStatus = "error"] ELSE answered
  /\ UNCHANGED <<native, stored, tokens, events, due, call, reads, history>>

---------------------------------------------------------------------------
(* Calls of the reader *)

(* The forms are disabled while the store is busy. *)
Ready(c) ==
  /\ call[c].step = "none" /\ ~tab.busy
  /\ Acting

Goes(c, next) == call' = [call EXCEPT ![c] = next]
Ends(c) == Goes(c, NoCall)

(* The client stores a session of the call and tells the store of it, when *)
(* everything older was told.                                              *)
Stores(session) ==
  /\ events = <<>>
  /\ stored' = session
  /\ tokens' = IF session = None THEN tokens ELSE session.token
  /\ due' = FALSE

NewSession(u) == [user |-> u, token |-> tokens + 1]

CancelPasswordRecovery ==
  /\ tab.recoveryEmail # None \/ tab.busy
  /\ Acting
  /\ tab' = CancelRecovery(tab)
  /\ UNCHANGED <<native, stored, tokens, events, due, call, reads, history>>

(* With a password, or with the code that confirms a new account. *)
SignIn(u) ==
  /\ Ready("signIn")
  /\ tab' = [CancelRecovery(tab) EXCEPT !.busy = TRUE]
  /\ Goes("signIn", [step |-> "password", user |-> u])
  /\ UNCHANGED <<native, stored, tokens, events, due, reads, history>>

SignInAnswered ==
  LET c == call["signIn"]
  IN /\ c.step = "password"
     /\ \/ /\ Stores(NewSession(c.user))
           /\ tab' = Told(tab, "SIGNED_IN", NewSession(c.user))
           /\ Goes("signIn", [step |-> "profile", session |-> NewSession(c.user)])
           /\ reads' = Outdated
           /\ UNCHANGED acts
        \/ /\ Acting
           /\ tab' = [tab EXCEPT !.busy = FALSE]
           /\ Ends("signIn")
           /\ UNCHANGED <<stored, tokens, due, reads>>
     /\ UNCHANGED <<native, events, history>>

(* Profile or not, the reader is signed in; nothing is compared. *)
SignedIn ==
  LET c == call["signIn"]
  IN /\ c.step = "profile"
     /\ \E profile \in {c.session.user, None}, confirmed \in BOOLEAN :
          /\ IF profile = None THEN Acting ELSE UNCHANGED acts
          /\ tab' = [tab EXCEPT !.session = c.session, !.profile = profile, !.busy = FALSE,
                       !.profileStatus = IF profile = None THEN "error" ELSE "ready",
                       !.recoveryPending = @ /\ ~confirmed, !.late = stored # c.session]
     /\ Ends("signIn")
     /\ UNCHANGED <<native, stored, tokens, events, due, reads, history>>

SignOut ==
  /\ Ready("signOut") /\ tab.session # None
  /\ tab' = [CancelRecovery(tab) EXCEPT !.busy = TRUE]
  /\ Goes("signOut", [step |-> "out"])
  /\ UNCHANGED <<native, stored, tokens, events, due, reads, history>>

SignOutAnswered ==
  /\ call["signOut"].step = "out"
  /\ \/ /\ Stores(None)
        /\ tab' = Told(tab, "SIGNED_OUT", None)
        /\ Goes("signOut", [step |-> "clear"])
        /\ reads' = Outdated
        /\ UNCHANGED acts
     \/ /\ Acting
        /\ tab' = [tab EXCEPT !.busy = FALSE]
        /\ Ends("signOut")
        /\ UNCHANGED <<stored, tokens, due, reads>>
  /\ UNCHANGED <<native, events, history>>

(* Mutant of SignedOut: the event has cleared the profile already. *)
SignedOutSession ==
  /\ call["signOut"].step = "clear"
  /\ tab' = [tab EXCEPT !.session = None, !.recoveryPending = FALSE, !.busy = FALSE, !.late = stored # None]
  /\ Ends("signOut")
  /\ UNCHANGED <<native, stored, tokens, events, due, reads, history, acts>>

(* The store is cleared once more when the call returns; nothing is        *)
(* compared, and another session may have been heard of since the event.   *)
SignedOut ==
  /\ call["signOut"].step = "clear"
  /\ tab' = [tab EXCEPT !.session = None, !.profile = None, !.profileStatus = "idle",
                        !.recoveryPending = FALSE, !.busy = FALSE, !.late = stored # None]
  /\ Ends("signOut")
  /\ UNCHANGED <<native, stored, tokens, events, due, reads, history, acts>>

SendPasswordReset(u) ==
  /\ Ready("reset")
  /\ tab' = [Invalidate(tab) EXCEPT !.busy = TRUE, !.recoveryPending = FALSE, !.recoveryEmail = None,
                                    !.current = {"reset"}]
  /\ Goes("reset", [step |-> "send", email |-> u])
  /\ UNCHANGED <<native, stored, tokens, events, due, reads, history>>

ResetSent ==
  LET c == call["reset"]
  IN /\ c.step = "send"
     /\ \/ /\ tab' = IF "reset" \notin tab.current THEN tab
                     ELSE [tab EXCEPT !.busy = FALSE, !.recoveryEmail = c.email]
           /\ UNCHANGED acts
        \/ /\ Acting
           /\ tab' = IF "reset" \notin tab.current THEN tab ELSE [tab EXCEPT !.busy = FALSE]
     /\ Ends("reset")
     /\ UNCHANGED <<native, stored, tokens, events, due, reads, history>>

---------------------------------------------------------------------------
(* A code that was sent by mail opens the form for a new password *)

VerifyPasswordResetCode(u) ==
  /\ Ready("verify")
  /\ tab' = [Invalidate(tab) EXCEPT !.busy = TRUE, !.recoveryEmail = u, !.recoveryPending = FALSE,
                                    !.current = {"verify"}]
  /\ Goes("verify", [step |-> "otp", email |-> u])
  /\ UNCHANGED <<native, stored, tokens, events, due, reads, history>>

VerifyGivesUp(t) ==
  IF "verify" \notin t.current THEN t
  ELSE [t EXCEPT !.verified = None, !.busy = FALSE, !.recoveryPending = FALSE]

(* The server accepts the code, for this address as a rule. *)
CodeAccepted(u) ==
  LET c == call["verify"]
      session == NewSession(u)
      told == Told(tab, "PASSWORD_RECOVERY", session)
  IN /\ c.step = "otp"
     /\ Stores(session)
     /\ reads' = Outdated
     /\ \/ /\ u = c.email
           /\ tab' = told
           /\ history' = [history EXCEPT !.proven = @ \cup {u}]
           /\ Goes("verify", [step |-> "get", email |-> u, session |-> session])
           /\ UNCHANGED acts
        \/ /\ u # c.email /\ Acting
           /\ tab' = VerifyGivesUp(told)
           /\ Ends("verify")
           /\ UNCHANGED history
     /\ UNCHANGED <<native, events>>

CodeRefused ==
  LET c == call["verify"]
  IN /\ c.step = "otp" /\ Acting
     /\ tab' = VerifyGivesUp(tab)
     /\ Ends("verify")
     /\ UNCHANGED <<native, stored, tokens, events, due, reads, history>>

Opened(t, c) ==
  LET verified == [t EXCEPT !.verified = c.session]
  IN [SyncSession(verified, c.session, "none") EXCEPT !.recoveryPending = TRUE, !.busy = FALSE]

(* The form opens if the recovery was not cancelled and the client still   *)
(* has the session of the code.                                            *)
Verified ==
  LET c == call["verify"]
  IN /\ c.step = "get"
     /\ \/ /\ tab' = IF "verify" \in tab.current /\ TokenOf(stored) = c.session.token
                     THEN Opened(tab, c) ELSE VerifyGivesUp(tab)
           /\ UNCHANGED acts
        \/ /\ Acting
           /\ tab' = VerifyGivesUp(tab)
     /\ Ends("verify")
     /\ UNCHANGED <<native, stored, tokens, events, due, reads, history>>

---------------------------------------------------------------------------
(* The new password *)

CompletePasswordRecovery ==
  /\ Ready("complete") /\ tab.recoveryPending
  /\ tab' = [tab EXCEPT !.busy = TRUE, !.current = @ \cup {"complete"}]
  /\ Goes("complete", [step |-> "get", for |-> tab.recoveryEmail, session |-> None])
  /\ UNCHANGED <<native, stored, tokens, events, due, reads, history>>

(* The recovery of the call: no other one can begin at its revision. *)
Same == "complete" \in tab.current /\ tab.verified # None
CompleteGivesUp ==
  /\ tab' = IF "complete" \in tab.current THEN [tab EXCEPT !.busy = FALSE] ELSE tab
  /\ Ends("complete")
CompleteGoesOn(next) ==
  IF Same THEN Goes("complete", [call["complete"] EXCEPT !.step = next]) /\ UNCHANGED tab
  ELSE CompleteGivesUp

(* Mutant of Checked: whatever session the client has is taken. *)
CheckedRevision ==
  LET c == call["complete"]
  IN /\ c.step = "get"
     /\ IF Same /\ stored # None
        THEN /\ Goes("complete", [c EXCEPT !.step = "session", !.session = stored])
             /\ UNCHANGED tab
        ELSE CompleteGivesUp
     /\ UNCHANGED <<native, stored, tokens, events, due, reads, history, acts>>

(* The client's session must be the verified one, which a client of its    *)
(* own then keeps.                                                         *)
Checked ==
  LET c == call["complete"]
      fits == /\ tab.verified # None /\ tab.recoveryPending
              /\ UserOf(tab.session) = tab.verified.user
              /\ stored = tab.verified
  IN /\ c.step = "get"
     /\ \/ /\ "complete" \in tab.current /\ fits
           /\ Goes("complete", [c EXCEPT !.step = "session", !.session = stored])
           /\ UNCHANGED <<tab, acts>>
        \/ /\ "complete" \in tab.current /\ ~fits
           /\ tab' = [tab EXCEPT !.verified = None, !.recoveryPending = FALSE, !.busy = FALSE]
           /\ Ends("complete")
           /\ UNCHANGED acts
        \/ /\ "complete" \notin tab.current
           /\ Ends("complete")
           /\ UNCHANGED <<tab, acts>>
        \/ /\ Acting
           /\ CompleteGivesUp
     /\ UNCHANGED <<native, stored, tokens, events, due, reads, history>>

(* The separate client takes the session. *)
SessionSet ==
  LET c == call["complete"]
  IN /\ c.step = "session"
     /\ \/ /\ CompleteGoesOn("update")
           /\ UNCHANGED acts
        \/ /\ Acting
           /\ CompleteGivesUp
     /\ UNCHANGED <<native, stored, tokens, events, due, reads, history>>

(* The password is set for the session that client has. *)
Updated ==
  LET c == call["complete"]
  IN /\ c.step = "update"
     /\ \/ /\ history' = [history EXCEPT !.updated =
                            @ \cup {[user |-> c.session.user, for |-> c.for]}]
           /\ CompleteGoesOn("others")
           /\ UNCHANGED acts
        \/ /\ Acting
           /\ CompleteGivesUp
           /\ UNCHANGED history
     /\ UNCHANGED <<native, stored, tokens, events, due, reads>>

(* Other devices are signed out, and the recovery is over. *)
OthersSignedOut ==
  LET c == call["complete"]
  IN /\ c.step = "others"
     /\ \/ /\ IF Same THEN tab' = CancelRecovery(tab) /\ Ends("complete")
              ELSE CompleteGivesUp
           /\ UNCHANGED acts
        \/ /\ Acting
           /\ CompleteGivesUp
     /\ UNCHANGED <<native, stored, tokens, events, due, reads, history>>

Next ==
  \/ OtherTabSignsOut \/ Refresh \/ StartOffline \/ Hear
  \/ \E r \in reads : Restore(r) \/ RestoreFails(r)
  \/ RefreshProfile \/ \E w \in tab.awaiting : ProfileArrives(w)
  \/ CancelPasswordRecovery \/ SignOut \/ SignOutAnswered \/ SignedOut \/ SignInAnswered \/ SignedIn
  \/ \E u \in Users :
       \/ SignIn(u) \/ OtherTabSignsIn(u) \/ SendPasswordReset(u) \/ VerifyPasswordResetCode(u) \/ CodeAccepted(u)
  \/ ResetSent \/ CodeRefused \/ Verified
  \/ CompletePasswordRecovery \/ Checked \/ SessionSet \/ Updated \/ OthersSignedOut

Spec == Init /\ [][Next]_vars

---------------------------------------------------------------------------
Tokens == 0..tokens
Stored == [user : Users, token : Tokens] \cup {None}

(* The variables have the values that the code gives them; only who is     *)
(* signed out has a profile that nobody has asked for (store.ts).          *)
TypeOK ==
  /\ native \in BOOLEAN /\ due \in BOOLEAN
  /\ tokens \in 0..(2 * MaxActs)
  /\ stored \in Stored
  /\ \A n \in 1..Len(events) : events[n].session \in Stored
  /\ tab.session \in Stored
  /\ tab.profile \in Users \cup {None}
  /\ tab.profileStatus \in {"idle", "loading", "ready", "error"}
  /\ tab.recoveryEmail \in Users \cup {None}
  /\ (tab.session = None) <=> (tab.profileStatus = "idle")
  /\ {tab.recoveryPending, tab.busy, tab.initialized, tab.late} \subseteq BOOLEAN
  /\ tab.verified \in Stored
  /\ \A w \in tab.awaiting : w.user \in Users /\ w.current \in BOOLEAN
  /\ \A r \in reads : r.session \in Stored /\ r.current \in BOOLEAN
  /\ DOMAIN call = Calls
  /\ acts \in 0..MaxActs

Quiet == events = <<>> /\ reads = {} /\ ~due /\ \A c \in Calls : call[c] = NoCall

(* When all is answered, the store shows the session that the client has,  *)
(* whatever bootstrap read late and whatever other tabs did meanwhile; the *)
(* exceptions are a sign-in whose session had gone when its profile came   *)
(* and a sign-out after whose event another session was heard of: both     *)
(* compare nothing, and the tab shows what they said until the next news   *)
(* (store.ts: revisions of bootstrap and of the session; :136, :245).      *)
StoreFollowsClient == Quiet => tab.session = stored \/ tab.late

RecoveryFormIsVerified ==
  tab.recoveryPending =>
    /\ tab.verified # None
    /\ tab.verified.user = tab.recoveryEmail
    /\ tab.recoveryEmail \in history.proven

UpdatesVerifiedAccount ==
  \A x \in history.updated : x.user = x.for /\ x.user \in history.proven

(* The form for a new password is open only for the address whose code was *)
(* accepted, in a recovery that nothing has cancelled or replaced since,   *)
(* and the password is set for the account the form was opened for,        *)
(* although another tab may sign in somebody else before the request is    *)
(* sent (store.ts; client.ts: the writes retain the verified session).     *)
RecoveryIsVerified == RecoveryFormIsVerified /\ UpdatesVerifiedAccount

(* The profile is that of the signed-in account, and a profile that is     *)
(* said to be loading was requested for the session that is shown: a late  *)
(* answer for another session neither appears nor is waited for.           *)
ProfileFollowsSession ==
  /\ tab.profile # None => tab.profile = UserOf(tab.session)
  /\ tab.profileStatus = "ready" => tab.profile # None
  /\ tab.profileStatus = "loading" =>
       \E w \in tab.awaiting : w.user = UserOf(tab.session) /\ w.current

(* The forms are not disabled for ever: whoever set busy, or the event     *)
(* that ended its recovery, takes it back.                                 *)
BusyEnds == tab.busy => \E c \in Calls : call[c] # NoCall
=============================================================================
