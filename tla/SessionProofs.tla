--------------------------- MODULE SessionProofs ---------------------------
(***************************************************************************)
(* Session, for every set of accounts, chains and faults and every bound   *)
(* on waiting writes: types, alerts and the sessions that end inside the   *)
(* application.                                                            *)
(***************************************************************************)
EXTENDS Session, SequenceTheorems, TLAPS

Client == INSTANCE AuthClientProofs

-----------------------------------------------------------------------------
(* Queues, seen as the sets of what waits in them.                         *)

Elements(s) == {s[i] : i \in DOMAIN s}

LEMMA AppendElements ==
  ASSUME NEW S, NEW s \in Seq(S), NEW e \in S
  PROVE  Append(s, e) \in Seq(S) /\ Elements(Append(s, e)) \subseteq Elements(s) \cup {e}
  BY AppendProperties DEF Elements

LEMMA HeadTailElements ==
  ASSUME NEW S, NEW s \in Seq(S), s # <<>>
  PROVE  /\ Head(s) \in S /\ Head(s) \in Elements(s)
         /\ Tail(s) \in Seq(S) /\ Elements(Tail(s)) \subseteq Elements(s)
  <1>1. Len(s) >= 1 /\ Head(s) = s[1]
    BY EmptySeq
  <1>. QED
    BY <1>1, HeadTailProperties DEF Elements

LEMMA ConsElements ==
  ASSUME NEW S, NEW s \in Seq(S), NEW e \in S
  PROVE  <<e>> \o s \in Seq(S) /\ Elements(<<e>> \o s) \subseteq Elements(s) \cup {e}
  <1>1. <<e>> \in Seq(S) /\ Len(<<e>>) = 1 /\ <<e>>[1] = e
    OBVIOUS
  <1>. QED
    BY <1>1, ConcatProperties DEF Elements

-----------------------------------------------------------------------------
(* Every step of the session is a step of the client or leaves it alone.   *)

AuthStep == Auth!AuthNext \/ UNCHANGED authVars

LEMMA CallIsAuthStep ==
  ASSUME NEW c \in Calls, Auth!CallStep(c)
  PROVE  AuthStep
  BY DEF AuthStep, Auth!AuthNext

LEMMA TouchRefines ==
  ASSUME Touch
  PROVE  AuthStep
  <1>1. ASSUME NEW c \in Calls, NEW uid \in Users, PressedLogin(c, uid)
        PROVE  AuthStep
    BY <1>1, CallIsAuthStep DEF PressedLogin, Auth!CallStep
  <1>2. ASSUME NEW c \in Calls, NEW uid \in Users, ConfirmDeactivate(c, uid)
        PROVE  AuthStep
    <2>1. CASE Auth!Reauthenticate(c, uid)
      BY <1>2, <2>1, CallIsAuthStep DEF Auth!CallStep
    <2>2. CASE UNCHANGED authVars
      BY <2>2 DEF AuthStep
    <2>. QED
      BY <1>2, <2>1, <2>2 DEF ConfirmDeactivate
  <1>3. ASSUME NEW c \in Calls, PressedRegister(c) \/ ConfirmForgot(c)
        PROVE  AuthStep
    <2>1. Auth!CreateUser(c) \/ Auth!SendPasswordReset(c)
      BY <1>3 DEF PressedRegister, ConfirmForgot
    <2>. QED
      BY <1>3, <2>1, CallIsAuthStep DEF Auth!CallStep
  <1>4. CASE LogOut
    <2>1. CASE Auth!SignOut
      BY <2>1 DEF AuthStep, Auth!AuthNext
    <2>2. CASE UNCHANGED authVars
      BY <2>2 DEF AuthStep
    <2>. QED
      BY <1>4, <2>1, <2>2 DEF LogOut
  <1>5. ASSUME NEW c \in Calls, NEW row \in {"deactivate", "logout"}, SelectRow(c, row)
        PROVE  AuthStep
    BY <1>5 DEF SelectRow, AuthStep
  <1>6. CASE ForgetPasswordPressed \/ DismissAlert \/ ShowSettings \/ ShowUserSettings \/ Back
    BY <1>6 DEF ForgetPasswordPressed, DismissAlert, ShowSettings, ShowUserSettings, Back, AuthStep
  <1>. QED
    BY <1>1, <1>2, <1>3, <1>4, <1>5, <1>6 DEF Touch

(* The block at the head of the queue names a chain.                       *)
LEMMA HeadIsBlock ==
  ASSUME TypeOK, mainQueue # <<>>
  PROVE  Head(mainQueue) \in Block /\ Head(mainQueue).call \in Calls
  <1>1. Head(mainQueue) \in Block
    BY HeadTailElements DEF TypeOK
  <1>. QED
    BY <1>1 DEF Block

LEMMA RunBlockRefines ==
  ASSUME TypeOK, RunBlock
  PROVE  AuthStep
  <1>1. PICK c \in Calls :
          \/ LoginCompleted(c) \/ RegisterCompleted(c) \/ ForgotCompleted(c)
          \/ ReauthCompleted(c) \/ DeleteCompleted(c)
          \/ FinishDeactivate(c) \/ ProfileSaved(c) \/ ProfileNotSaved(c)
          \/ \E row \in {"deactivate", "logout"} : PresentRowAlert(c, row)
    BY HeadIsBlock DEF RunBlock
  <1>2. CASE Auth!Complete(c) \/ Auth!Delete(c)
    BY <1>2, CallIsAuthStep DEF Auth!CallStep
  <1>3. CASE UNCHANGED authVars
    BY <1>3 DEF AuthStep
  <1>. QED
    BY <1>1, <1>2, <1>3 DEF LoginCompleted, RegisterCompleted, ForgotCompleted, ReauthCompleted,
       DeleteCompleted, FinishDeactivate, ProfileSaved, ProfileNotSaved, PresentRowAlert

LEMMA EnvironmentRefines ==
  ASSUME Environment
  PROVE  AuthStep
  <1>1. ASSUME NEW c \in Calls, BackendStep(c) \/ ReceiveAnswer(c)
        PROVE  AuthStep
    BY <1>1, CallIsAuthStep DEF BackendStep, ReceiveAnswer, Auth!CallStep
  <1>2. CASE TokenRejected
    BY <1>2 DEF TokenRejected, AuthStep, Auth!AuthNext
  <1>3. CASE HandleWrite \/ SettingsDisappeared \/ HudFades
    BY <1>3 DEF HandleWrite, SettingsDisappeared, HudFades, AuthStep
  <1>. QED
    BY <1>1, <1>2, <1>3 DEF Environment

LEMMA NextRefines == TypeOK /\ [Next]_vars => [Auth!AuthNext]_authVars
  <1>1. Relaunch => AuthStep
    BY DEF Relaunch, AuthStep, Auth!AuthNext
  <1>2. UNCHANGED vars => AuthStep
    BY DEF vars, authVars, AuthStep
  <1>. QED
    BY <1>1, <1>2, TouchRefines, RunBlockRefines, EnvironmentRefines DEF Next, AuthStep

(* Client is AuthClientProofs over the same variables: its definitions are *)
(* those of Auth.                                                          *)
LEMMA SameTypes == Client!TypeOK <=> Auth!TypeOK
  BY DEF Client!TypeOK, Auth!TypeOK, Client!Call, Auth!Call, Client!Kinds, Auth!Kinds,
     Client!Phases, Auth!Phases, Client!Done, Auth!Done, Client!Answered, Auth!Answered,
     Client!UserOrNone, Auth!UserOrNone

LEMMA SameInit == Auth!AuthInit => Client!AuthInit
  BY DEF Client!AuthInit, Auth!AuthInit, Client!NoCall, Auth!NoCall

LEMMA SameNext == [Auth!AuthNext]_authVars => [Client!AuthNext]_(Client!authVars)
  <1>1. Auth!AuthNext => Client!AuthNext
    BY DEF Client!UserOrNone, Auth!UserOrNone, Client!Done, Auth!Done, Client!Answered, Auth!Answered,
       Client!NoCall, Auth!NoCall, Client!Send, Auth!Send, Client!SignIn, Auth!SignIn,
       Client!CreateUser, Auth!CreateUser, Client!SendPasswordReset, Auth!SendPasswordReset,
       Client!Reauthenticate, Auth!Reauthenticate, Client!Delete, Auth!Delete,
       Client!Accept, Auth!Accept, Client!AnswerOf, Auth!AnswerOf, Client!BackendAccepts,
       Auth!BackendAccepts, Client!BackendRefuses, Auth!BackendRefuses, Client!Backend,
       Auth!Backend, Client!Finish, Auth!Finish, Client!Replaced, Auth!Replaced,
       Client!Stored, Auth!Stored, Client!UpdateCurrentUser, Auth!UpdateCurrentUser,
       Client!ForceSignOut, Auth!ForceSignOut, Client!ReceiveError, Auth!ReceiveError,
       Client!ReceiveSession, Auth!ReceiveSession, Client!ReceiveReset, Auth!ReceiveReset,
       Client!ReceiveReauth, Auth!ReceiveReauth, Client!ReceiveDelete, Auth!ReceiveDelete,
       Client!Receive, Auth!Receive, Client!RejectToken, Auth!RejectToken, Client!Complete,
       Auth!Complete, Client!SignOut, Auth!SignOut, Client!Restart, Auth!Restart,
       Client!CallStep, Auth!CallStep, Client!AuthNext, Auth!AuthNext
  <1>. QED
    BY <1>1 DEF authVars, Client!authVars

LEMMA SameAssumptions == Client!NoUserAssumption /\ Client!FaultsAssumption
  BY SessionAssumption DEF Client!NoUserAssumption, Client!FaultsAssumption,
     Client!AllFaults, Auth!AllFaults

LEMMA ClientInit == Init => Client!IInv
  BY SameInit, SameAssumptions, Client!InitInv DEF Init

LEMMA ClientNext == TypeOK /\ Client!IInv /\ [Next]_vars => Client!IInv'
  BY NextRefines, SameNext, SameAssumptions, Client!NextInv

-----------------------------------------------------------------------------
(* The chains of a screen.  A closure whose view still exists was started  *)
(* by the login screen or inside the application, and that is where the    *)
(* application still is.                                                   *)

LoginWork(c) ==
  \/ calls[c].kind \in {"signIn", "create", "reset"}
  \/ \E w \in Elements(writes) : w.kind = "set" /\ w.call = c
  \/ \E b \in Elements(mainQueue) : b.kind \in {"saved", "unsaved"} /\ b.call = c

SettingsWork(c) ==
  \/ calls[c].kind \in {"reauth", "delete"}
  \/ \E b \in Elements(mainQueue) :
       b.kind \in {"finishDeactivate", "deactivate", "logout"} /\ b.call = c

ChainsOfScreen ==
  \A c \in Calls : live[c] =>
    /\ LoginWork(c) => screen = "login"
    /\ SettingsWork(c) => screen \in Inside

(* The inductive invariant of the session.                                 *)
SInv == TypeOK /\ Client!IInv /\ ChainsOfScreen /\ AlertBelongs

(* What a step does to the kinds of the calls in flight.                   *)
LEMMA SendKinds ==
  ASSUME Auth!TypeOK, NEW c \in Calls, NEW kind, NEW uid, NEW own,
         Auth!Send(c, kind, uid, own)
  PROVE  \A d \in Calls : calls'[d].kind = IF d = c THEN kind ELSE calls[d].kind
  BY DEF Auth!TypeOK, Auth!Send

LEMMA CompleteKinds ==
  ASSUME Auth!TypeOK, NEW c \in Calls, Auth!Complete(c)
  PROVE  \A d \in Calls : calls'[d].kind = IF d = c THEN "none" ELSE calls[d].kind
  BY DEF Auth!TypeOK, Auth!Complete, Auth!NoCall

LEMMA TableKinds ==
  ASSUME Auth!TypeOK, NEW c \in Calls, NEW p,
         \/ calls' = Auth!Finish(c, p)
         \/ calls' = Auth!Replaced(Auth!Finish(c, p))
         \/ calls' = Auth!Replaced(calls)
  PROVE  \A d \in Calls : calls'[d].kind = calls[d].kind
  <1>1. \A r \in Auth!Call : [r EXCEPT !.own = FALSE].kind = r.kind
    BY DEF Auth!Call
  <1>2. \A d \in Calls : Auth!Finish(c, p)[d].kind = calls[d].kind
    BY DEF Auth!TypeOK, Auth!Call, Auth!Finish
  <1>3. CASE calls' = Auth!Finish(c, p)
    BY <1>2, <1>3
  <1>4. CASE calls' = Auth!Replaced(calls)
    BY <1>1, <1>4 DEF Auth!TypeOK, Auth!Replaced
  <1>5. CASE calls' = Auth!Replaced(Auth!Finish(c, p))
    <2>1. \A d \in Calls : Auth!Finish(c, p)[d] = IF d = c
                            THEN [calls[d] EXCEPT !.phase = p, !.own = FALSE] ELSE calls[d]
      BY DEF Auth!TypeOK, Auth!Finish
    <2>2. \A r \in Auth!Call :
            [[r EXCEPT !.phase = p, !.own = FALSE] EXCEPT !.own = FALSE].kind = r.kind
      BY DEF Auth!Call
    <2>. QED
      BY <1>1, <1>5, <2>1, <2>2 DEF Auth!TypeOK, Auth!Replaced
  <1>. QED
    BY <1>3, <1>4, <1>5

LEMMA ReceiveKinds ==
  ASSUME Auth!TypeOK, NEW c \in Calls, Auth!Receive(c)
  PROVE  \A d \in Calls : calls'[d].kind = calls[d].kind
  <1>1. PICK p \in Auth!Phases : \/ calls' = Auth!Finish(c, p)
                                \/ calls' = Auth!Replaced(Auth!Finish(c, p))
    BY DEF Auth!Receive, Auth!ReceiveError, Auth!ReceiveReset, Auth!ReceiveSession,
       Auth!ReceiveReauth, Auth!ReceiveDelete, Auth!UpdateCurrentUser, Auth!ForceSignOut,
       Auth!Phases, Auth!Done
  <1>. QED
    BY <1>1, TableKinds

LEMMA OtherKinds ==
  ASSUME Auth!TypeOK,
         \/ \E c \in Calls : Auth!Backend(c)
         \/ Auth!RejectToken
  PROVE  \A d \in Calls : calls'[d].kind \in {calls[d].kind, "none"}
  <1>1. CASE Auth!RejectToken
    <2>1. \A r \in Auth!Call : [r EXCEPT !.own = FALSE].kind = r.kind
      BY DEF Auth!Call
    <2>. QED
      BY <1>1, <2>1 DEF Auth!RejectToken, Auth!ForceSignOut, Auth!TypeOK, Auth!Replaced
  <1>2. ASSUME NEW c \in Calls, Auth!BackendAccepts(c)
        PROVE  \A d \in Calls : calls'[d].kind \in {calls[d].kind, "none"}
    BY <1>2 DEF Auth!BackendAccepts, Auth!TypeOK, Auth!Call, Auth!NoCall
  <1>3. ASSUME NEW c \in Calls, Auth!BackendRefuses(c)
        PROVE  \A d \in Calls : calls'[d].kind \in {calls[d].kind, "none"}
    BY <1>3 DEF Auth!BackendRefuses, Auth!TypeOK, Auth!Call, Auth!NoCall
  <1>. QED
    BY <1>1, <1>2, <1>3 DEF Auth!Backend

-----------------------------------------------------------------------------
(* How a step may carry the chains over.                                   *)

(* No new view, no new work: nothing to match with the screen.             *)
LEMMA ChainsKept ==
  ASSUME ChainsOfScreen,
         \A d \in Calls : live'[d] => /\ live[d]
                                      /\ LoginWork(d)' => LoginWork(d)
                                      /\ SettingsWork(d)' => SettingsWork(d),
         screen' = screen \/ (screen \in Inside /\ screen' \in Inside)
  PROVE  ChainsOfScreen'
  BY DEF ChainsOfScreen, Inside

(* A new root: no view is left that could be messaged.                     *)
LEMMA ChainsReplaced ==
  ASSUME NEW root, ReplaceRoot(root)
  PROVE  ChainsOfScreen'
  BY DEF ReplaceRoot, ChainsOfScreen

(* A free slot carries no work.                                            *)
LEMMA FreeIdle ==
  ASSUME NEW c \in Calls, Free(c)
  PROVE  ~LoginWork(c) /\ ~SettingsWork(c)
  BY DEF Free, LoginWork, SettingsWork, Elements, Auth!NoCall

(* A touch starts a chain where it is.                                     *)
LEMMA ChainBegun ==
  ASSUME ChainsOfScreen, TypeOK, NEW c \in Calls, Begin(c), NEW kind,
         \A d \in Calls : calls'[d].kind = IF d = c THEN kind ELSE calls[d].kind,
         UNCHANGED <<writes, mainQueue, screen>>,
         \/ kind \in {"signIn", "create", "reset"} /\ screen = "login"
         \/ kind = "reauth" /\ screen \in Inside
  PROVE  ChainsOfScreen'
  <1>1. screen' = screen /\ \A d \in Calls : d # c => (live'[d] => live[d])
    BY DEF Begin, TypeOK
  <1>2. ~LoginWork(c) /\ ~SettingsWork(c)
    BY FreeIdle DEF Begin
  <1>3. kind = "reauth" => ~LoginWork(c)'
    BY <1>2 DEF LoginWork
  <1>4. kind # "reauth" => ~SettingsWork(c)'
    BY <1>2 DEF SettingsWork
  <1>5. ASSUME NEW d \in Calls, d # c, live'[d]
        PROVE  (LoginWork(d)' => screen' = "login") /\ (SettingsWork(d)' => screen' \in Inside)
    <2>1. live[d]
      BY <1>1, <1>5
    <2>2. (LoginWork(d)' => LoginWork(d)) /\ (SettingsWork(d)' => SettingsWork(d))
      BY <1>5 DEF LoginWork, SettingsWork
    <2>. QED
      BY <1>1, <2>1, <2>2 DEF ChainsOfScreen
  <1>6. (LoginWork(c)' => screen' = "login") /\ (SettingsWork(c)' => screen' \in Inside)
    BY <1>3, <1>4
  <1>. QED
    BY <1>5, <1>6 DEF ChainsOfScreen

-----------------------------------------------------------------------------
(* Touches.                                                                *)

ViewTypeOK ==
  /\ profiles \subseteq Users
  /\ writes \in Seq(Write)
  /\ mainQueue \in Seq(Block)
  /\ screen \in Screens
  /\ leaving \in BOOLEAN
  /\ live \in [Calls -> BOOLEAN]
  /\ alert \in Alerts
  /\ hud \in {"off", "spin", "error"}

(* What is left to show of a step once the client is taken care of.        *)
ViewInv == ViewTypeOK /\ ChainsOfScreen /\ AlertBelongs

LEMMA Typing == TypeOK <=> Auth!TypeOK /\ ViewTypeOK
  BY DEF TypeOK, ViewTypeOK

LEMMA RootReplaced ==
  ASSUME SInv, NEW root \in {"login", "home"}, ReplaceRoot(root),
         hud' \in {"off", "spin", "error"}, profiles' \subseteq Users,
         writes' \in Seq(Write), mainQueue' \in Seq(Block)
  PROVE  ViewInv'
  <1>1. ViewTypeOK'
    BY DEF SInv, TypeOK, ViewTypeOK, ReplaceRoot, Screens, Alerts
  <1>2. AlertBelongs'
    BY DEF AlertBelongs, ReplaceRoot, SettingsAlerts
  <1>. QED
    BY <1>1, <1>2, ChainsReplaced DEF ViewInv

(* Touches that call the client.                                           *)
LEMMA CallTouches ==
  ASSUME SInv, NEW c \in Calls,
         \/ \E uid \in Users : PressedLogin(c, uid)
         \/ PressedRegister(c)
         \/ ConfirmForgot(c)
  PROVE  ViewInv'
  <1>1. Auth!TypeOK
    BY DEF SInv, TypeOK
  <1>2. screen = "login" /\ screen' = "login"
    BY DEF SInv, AlertBelongs, PressedLogin, PressedRegister, ConfirmForgot, CanAnswer
  <1>3. PICK kind \in {"signIn", "create", "reset"} :
          \A d \in Calls : calls'[d].kind = IF d = c THEN kind ELSE calls[d].kind
    BY <1>1, SendKinds DEF PressedLogin, PressedRegister, ConfirmForgot, Auth!SignIn,
       Auth!CreateUser, Auth!SendPasswordReset
  <1>4. Begin(c) /\ UNCHANGED <<writes, mainQueue, screen>>
    BY DEF PressedLogin, PressedRegister, ConfirmForgot, dbVars
  <1>5. ChainsOfScreen'
    BY <1>2, <1>3, <1>4, ChainBegun DEF SInv
  <1>6. ViewTypeOK'
    BY DEF SInv, TypeOK, ViewTypeOK, PressedLogin, PressedRegister, ConfirmForgot, Begin,
       dbVars, Alerts
  <1>7. AlertBelongs'
    BY <1>2 DEF SInv, AlertBelongs, PressedLogin, PressedRegister, ConfirmForgot, SettingsAlerts
  <1>. QED
    BY <1>5, <1>6, <1>7 DEF ViewInv

LEMMA ConfirmDeactivateInv ==
  ASSUME SInv, NEW c \in Calls, NEW uid \in Users, ConfirmDeactivate(c, uid)
  PROVE  ViewInv'
  <1>1. Auth!TypeOK
    BY DEF SInv, TypeOK
  <1>2. /\ alert' = "none" /\ hud' \in {hud, "spin"}
        /\ UNCHANGED <<profiles, writes, mainQueue, screen, leaving>>
    BY DEF ConfirmDeactivate, dbVars
  <1>3. AlertBelongs'
    BY <1>2 DEF AlertBelongs, SettingsAlerts
  <1>4. ViewTypeOK'
    BY <1>2 DEF SInv, TypeOK, ViewTypeOK, ConfirmDeactivate, Begin, Alerts
  <1>5. CASE UNCHANGED <<authVars, live>>
    <2>1. ChainsOfScreen'
      BY <1>2, <1>5 DEF SInv, authVars, ChainsOfScreen, LoginWork, SettingsWork
    <2>. QED
      BY <2>1, <1>3, <1>4 DEF ViewInv
  <1>6. CASE screen \in {"settings", "userSettings"} /\ Begin(c) /\ Auth!Reauthenticate(c, uid)
    <2>1. \A d \in Calls : calls'[d].kind = IF d = c THEN "reauth" ELSE calls[d].kind
      BY <1>1, <1>6, SendKinds DEF Auth!Reauthenticate
    <2>2. screen \in Inside
      BY <1>6 DEF Inside, Screens
    <2>3. ChainsOfScreen'
      BY <1>2, <1>6, <2>1, <2>2, ChainBegun DEF SInv
    <2>. QED
      BY <2>3, <1>3, <1>4 DEF ViewInv
  <1>. QED
    BY <1>5, <1>6 DEF ConfirmDeactivate

LEMMA SelectRowInv ==
  ASSUME SInv, NEW c \in Calls, NEW row \in {"deactivate", "logout"}, SelectRow(c, row)
  PROVE  ViewInv'
  <1>. DEFINE b == [kind |-> row, call |-> c]
  <1>1. b \in Block /\ mainQueue \in Seq(Block)
    BY DEF Block, SInv, TypeOK
  <1>2. mainQueue' \in Seq(Block) /\ Elements(mainQueue') \subseteq Elements(mainQueue) \cup {b}
    BY <1>1, AppendElements DEF SelectRow
  <1>3. /\ UNCHANGED <<calls, profiles, writes, screen, leaving, alert, hud>>
        /\ screen = "settings" /\ live' = [live EXCEPT ![c] = TRUE] /\ Free(c)
    BY DEF SelectRow, Begin, dbVars, viewVars, authVars
  <1>4. ViewTypeOK'
    BY <1>2, <1>3 DEF SInv, TypeOK, ViewTypeOK
  <1>5. AlertBelongs'
    BY <1>3 DEF SInv, AlertBelongs
  <1>6. ~LoginWork(c)
    BY <1>3, FreeIdle
  <1>7. \A d \in Calls : /\ LoginWork(d)' => LoginWork(d)
                         /\ d # c => (SettingsWork(d)' => SettingsWork(d))
    BY <1>2, <1>3 DEF LoginWork, SettingsWork
  <1>8. ChainsOfScreen'
    BY <1>3, <1>6, <1>7 DEF SInv, TypeOK, ChainsOfScreen, Inside, Screens
  <1>. QED
    BY <1>4, <1>5, <1>8 DEF ViewInv

LEMMA LogOutInv ==
  ASSUME SInv, LogOut
  PROVE  ViewInv'
  <1>1. /\ UNCHANGED <<profiles, writes, mainQueue, hud>>
        /\ profiles \subseteq Users /\ writes \in Seq(Write) /\ mainQueue \in Seq(Block)
        /\ hud \in {"off", "spin", "error"}
    BY DEF LogOut, dbVars, SInv, TypeOK
  <1>2. CASE SetLoginScreenAsRoot
    BY <1>1, <1>2, RootReplaced DEF SetLoginScreenAsRoot
  <1>3. CASE alert' = "none" /\ UNCHANGED <<authVars, screen, leaving, live>>
    <2>1. ViewTypeOK' /\ AlertBelongs'
      BY <1>1, <1>3 DEF SInv, TypeOK, ViewTypeOK, AlertBelongs, SettingsAlerts, Alerts
    <2>2. ChainsOfScreen'
      BY <1>1, <1>3 DEF SInv, ChainsOfScreen, LoginWork, SettingsWork, authVars
    <2>. QED
      BY <2>1, <2>2 DEF ViewInv
  <1>. QED
    BY <1>2, <1>3 DEF LogOut

LEMMA NavigationInv ==
  ASSUME SInv,
         \/ ForgetPasswordPressed \/ DismissAlert \/ ShowSettings \/ ShowUserSettings \/ Back
         \/ SettingsDisappeared \/ HudFades
  PROVE  ViewInv'
  <1>1. UNCHANGED <<calls, profiles, writes, mainQueue>>
    BY DEF ForgetPasswordPressed, DismissAlert, ShowSettings, ShowUserSettings, Back,
       SettingsDisappeared, HudFades, authVars, dbVars
  <1>2. screen' = screen \/ (screen \in Inside /\ screen' \in Inside)
    BY DEF ForgetPasswordPressed, DismissAlert, ShowSettings, ShowUserSettings, Back,
       SettingsDisappeared, HudFades, Inside, Screens
  <1>3. \A d \in Calls : live'[d] => live[d]
    BY DEF ForgetPasswordPressed, DismissAlert, ShowSettings, ShowUserSettings, Back,
       SettingsDisappeared, HudFades
  <1>4. ViewTypeOK'
    BY <1>1 DEF SInv, TypeOK, ViewTypeOK, ForgetPasswordPressed, DismissAlert, ShowSettings,
       ShowUserSettings, Back, SettingsDisappeared, HudFades, Alerts, Screens
  <1>5. AlertBelongs'
    BY <1>2 DEF SInv, AlertBelongs, ForgetPasswordPressed, DismissAlert, ShowSettings,
       ShowUserSettings, Back, SettingsDisappeared, HudFades, SettingsAlerts, CanTouch, Inside
  <1>6. ChainsOfScreen'
    BY <1>1, <1>2, <1>3, ChainsKept DEF SInv, LoginWork, SettingsWork
  <1>. QED
    BY <1>4, <1>5, <1>6 DEF ViewInv

-----------------------------------------------------------------------------
(* Blocks of the main thread.                                              *)

(* Work ends, or goes on in a block that only reports a completion.        *)
LEMMA ChainsShrink ==
  ASSUME ChainsOfScreen,
         \A d \in Calls : calls'[d].kind \in {calls[d].kind, "none"},
         \A w \in Elements(writes') : w.kind = "set" => w \in Elements(writes),
         \A b \in Elements(mainQueue') : b.kind # "completion" => b \in Elements(mainQueue),
         \A d \in Calls : live'[d] => live[d],
         screen' = screen
  PROVE  ChainsOfScreen'
  <1>1. \A d \in Calls : LoginWork(d)' => LoginWork(d)
    BY DEF LoginWork
  <1>2. \A d \in Calls : SettingsWork(d)' => SettingsWork(d)
    BY DEF SettingsWork
  <1>. QED
    BY <1>1, <1>2, ChainsKept

LEMMA AlertPresented ==
  ASSUME AlertBelongs, screen' = screen,
         \/ alert' = alert
         \/ alert' = "resetStatus" /\ screen = "login"
         \/ alert' \in SettingsAlerts /\ screen \in Inside
  PROVE  AlertBelongs'
  BY DEF AlertBelongs, SettingsAlerts

(* What every handler finds: the block it runs is the oldest one.          *)
LEMMA NextBlockProperties ==
  ASSUME TypeOK, mainQueue # <<>>, NextBlock
  PROVE  mainQueue' \in Seq(Block) /\ Elements(mainQueue') \subseteq Elements(mainQueue)
  BY HeadTailElements DEF TypeOK, NextBlock

LEMMA ReleaseProperties ==
  ASSUME TypeOK, NEW c \in Calls, Release(c) \/ UNCHANGED live
  PROVE  live' \in [Calls -> BOOLEAN] /\ \A d \in Calls : live'[d] => live[d]
  BY DEF TypeOK, Release

LEMMA LoginCompletedInv ==
  ASSUME SInv, mainQueue # <<>>, NEW c \in Calls, LoginCompleted(c)
  PROVE  ViewInv'
  <1>1. TypeOK /\ Auth!TypeOK /\ Auth!Complete(c) /\ NextBlock
    BY DEF SInv, TypeOK, LoginCompleted
  <1>2. UNCHANGED <<profiles, writes>> /\ hud' \in {"off", "spin", "error"}
    BY DEF LoginCompleted, dbVars, viewVars, SInv, TypeOK
  <1>3. mainQueue' \in Seq(Block) /\ Elements(mainQueue') \subseteq Elements(mainQueue)
    BY <1>1, NextBlockProperties
  <1>4. CASE Release(c) /\ UNCHANGED <<screen, leaving, alert>>
    <2>1. live' \in [Calls -> BOOLEAN] /\ \A d \in Calls : live'[d] => live[d]
      BY <1>1, <1>4, ReleaseProperties
    <2>2. ChainsOfScreen'
      BY <1>1, <1>2, <1>3, <1>4, <2>1, CompleteKinds, ChainsShrink DEF SInv
    <2>3. ViewTypeOK' /\ AlertBelongs'
      BY <1>1, <1>2, <1>3, <1>4, <2>1, AlertPresented DEF SInv, TypeOK, ViewTypeOK
    <2>. QED
      BY <2>2, <2>3 DEF ViewInv
  <1>5. CASE SetHomeScreenAsRoot(user)
    <2>1. PICK root \in {"login", "home"} : ReplaceRoot(root)
      BY <1>5 DEF SetHomeScreenAsRoot, SetLoginScreenAsRoot
    <2>2. profiles' \subseteq Users /\ writes' \in Seq(Write)
      BY <1>1, <1>2 DEF TypeOK
    <2>. QED
      BY <1>2, <1>3, <2>1, <2>2, RootReplaced
  <1>. QED
    BY <1>4, <1>5 DEF LoginCompleted, viewVars

LEMMA RegisterCompletedInv ==
  ASSUME SInv, mainQueue # <<>>, NEW c \in Calls, RegisterCompleted(c)
  PROVE  ViewInv'
  <1>1. TypeOK /\ Auth!TypeOK /\ Auth!Complete(c) /\ NextBlock
    BY DEF SInv, TypeOK, RegisterCompleted
  <1>2. UNCHANGED <<profiles, screen, leaving, alert>> /\ hud' \in {"off", "spin", "error"}
    BY DEF RegisterCompleted, SInv, TypeOK
  <1>3. mainQueue' \in Seq(Block) /\ Elements(mainQueue') \subseteq Elements(mainQueue)
    BY <1>1, NextBlockProperties
  <1>4. live' \in [Calls -> BOOLEAN] /\ \A d \in Calls : live'[d] => live[d]
    BY <1>1, ReleaseProperties DEF RegisterCompleted
  <1>5. \A d \in Calls : calls'[d].kind = IF d = c THEN "none" ELSE calls[d].kind
    BY <1>1, CompleteKinds
  <1>6. AlertBelongs'
    BY <1>2, AlertPresented DEF SInv
  <1>7. CASE UNCHANGED writes
    <2>1. ChainsOfScreen'
      BY <1>2, <1>3, <1>4, <1>5, <1>7, ChainsShrink DEF SInv
    <2>2. ViewTypeOK'
      BY <1>1, <1>2, <1>3, <1>4, <1>7 DEF TypeOK, ViewTypeOK
    <2>. QED
      BY <1>6, <2>1, <2>2 DEF ViewInv
  <1>8. CASE /\ calls[c].phase = "doneOk"
             /\ writes' = Append(writes, [kind |-> "set", uid |-> calls[c].uid, call |-> c])
    <2>. DEFINE w == [kind |-> "set", uid |-> calls[c].uid, call |-> c]
    <2>1. calls[c].kind = "create"
      BY DEF RegisterCompleted
    <2>2. calls[c].uid \in Users
      BY <1>1, <1>8, <2>1 DEF SInv, Client!IInv, Client!CreationsNamed, Auth!TypeOK, Auth!Call,
         Auth!UserOrNone
    <2>3. w \in Write /\ writes \in Seq(Write)
      BY <1>1, <2>2 DEF Write, TypeOK
    <2>4. writes' \in Seq(Write) /\ Elements(writes') \subseteq Elements(writes) \cup {w}
      BY <1>8, <2>3, AppendElements
    <2>5. \A d \in Calls : SettingsWork(d)' => SettingsWork(d)
      BY <1>3, <1>5 DEF SettingsWork
    <2>6. LoginWork(c)
      BY <2>1 DEF LoginWork
    <2>7. \A d \in Calls : LoginWork(d)' => LoginWork(d)
      <3>1. \A d \in Calls : d # c /\ LoginWork(d)' => LoginWork(d)
        BY <1>3, <1>5, <2>4 DEF LoginWork
      <3>. QED
        BY <2>6, <3>1
    <2>8. ChainsOfScreen'
      BY <1>2, <1>4, <2>5, <2>7, ChainsKept DEF SInv
    <2>9. ViewTypeOK'
      BY <1>1, <1>2, <1>3, <1>4, <2>4 DEF TypeOK, ViewTypeOK
    <2>. QED
      BY <1>6, <2>8, <2>9 DEF ViewInv
  <1>. QED
    BY <1>7, <1>8 DEF RegisterCompleted

(* A closure that reaches its view reports where the chain was started.    *)
LEMMA AttachedScreen ==
  ASSUME ChainsOfScreen, NEW c \in Calls, Attached(c)
  PROVE  /\ LoginWork(c) => screen = "login"
         /\ SettingsWork(c) => screen \in Inside
  BY DEF ChainsOfScreen, Attached

(* Handlers that end a chain and may present an alert.                     *)
LEMMA ChainEnded ==
  ASSUME SInv, mainQueue # <<>>, NEW c \in Calls, NextBlock,
         Release(c) \/ UNCHANGED live,
         \A d \in Calls : calls'[d].kind \in {calls[d].kind, "none"},
         \A w \in Elements(writes') : w.kind = "set" => w \in Elements(writes),
         writes' \in Seq(Write), hud' \in {"off", "spin", "error"},
         UNCHANGED <<profiles, screen, leaving>>,
         \/ alert' = alert
         \/ alert' = "resetStatus" /\ screen = "login"
         \/ alert' \in SettingsAlerts /\ screen \in Inside
  PROVE  ViewInv'
  <1>1. mainQueue' \in Seq(Block) /\ Elements(mainQueue') \subseteq Elements(mainQueue)
    BY NextBlockProperties DEF SInv
  <1>2. live' \in [Calls -> BOOLEAN] /\ \A d \in Calls : live'[d] => live[d]
    BY ReleaseProperties DEF SInv
  <1>3. ChainsOfScreen'
    BY <1>1, <1>2, ChainsShrink DEF SInv
  <1>4. ViewTypeOK'
    BY <1>1, <1>2 DEF SInv, TypeOK, ViewTypeOK, Alerts, SettingsAlerts
  <1>5. AlertBelongs'
    BY AlertPresented DEF SInv
  <1>. QED
    BY <1>3, <1>4, <1>5 DEF ViewInv

LEMMA ForgotCompletedInv ==
  ASSUME SInv, mainQueue # <<>>, NEW c \in Calls, ForgotCompleted(c)
  PROVE  ViewInv'
  <1>1. \A d \in Calls : calls'[d].kind \in {calls[d].kind, "none"}
    BY CompleteKinds DEF ForgotCompleted, SInv, TypeOK
  <1>2. Attached(c) => screen = "login"
    BY AttachedScreen DEF SInv, ForgotCompleted, LoginWork
  <1>3. /\ NextBlock /\ Release(c) /\ UNCHANGED <<profiles, writes, screen, leaving>>
        /\ hud' \in {"off", "spin", "error"} /\ writes' \in Seq(Write)
        /\ alert' = alert \/ (alert' = "resetStatus" /\ screen = "login")
    BY <1>2 DEF ForgotCompleted, dbVars, SInv, TypeOK, Present
  <1>. QED
    BY <1>1, <1>3, ChainEnded

LEMMA DeleteCompletedInv ==
  ASSUME SInv, mainQueue # <<>>, NEW c \in Calls, DeleteCompleted(c)
  PROVE  ViewInv'
  <1>1. \A d \in Calls : calls'[d].kind \in {calls[d].kind, "none"}
    BY CompleteKinds DEF DeleteCompleted, SInv, TypeOK
  <1>2. Attached(c) => screen \in Inside
    BY AttachedScreen DEF SInv, DeleteCompleted, SettingsWork
  <1>3. /\ NextBlock /\ Release(c) /\ UNCHANGED <<profiles, writes, screen, leaving>>
        /\ hud' \in {"off", "spin", "error"} /\ writes' \in Seq(Write)
        /\ alert' = alert \/ (alert' \in SettingsAlerts /\ screen \in Inside)
    BY <1>2 DEF DeleteCompleted, dbVars, SInv, TypeOK, Present, SettingsAlerts
  <1>. QED
    BY <1>1, <1>3, ChainEnded

LEMMA ProfileNotSavedInv ==
  ASSUME SInv, mainQueue # <<>>, NEW c \in Calls, ProfileNotSaved(c)
  PROVE  ViewInv'
  <1>1. /\ NextBlock /\ Release(c) /\ UNCHANGED <<calls, profiles, writes, screen, leaving, alert>>
        /\ hud' \in {"off", "spin", "error"} /\ writes' \in Seq(Write)
    BY DEF ProfileNotSaved, dbVars, authVars, viewVars, SInv, TypeOK
  <1>. QED
    BY <1>1, ChainEnded

LEMMA ProfileSavedInv ==
  ASSUME SInv, mainQueue # <<>>, NEW c \in Calls, ProfileSaved(c)
  PROVE  ViewInv'
  <1>1. /\ NextBlock /\ UNCHANGED <<calls, profiles, writes>>
        /\ hud' \in {"off", "spin", "error"} /\ writes' \in Seq(Write) /\ profiles' \subseteq Users
    BY DEF ProfileSaved, dbVars, authVars, viewVars, SInv, TypeOK
  <1>2. CASE Release(c) /\ UNCHANGED viewVars
    BY <1>1, <1>2, ChainEnded DEF viewVars
  <1>3. CASE SetHomeScreenAsRoot(user)
    <2>1. PICK root \in {"login", "home"} : ReplaceRoot(root)
      BY <1>3 DEF SetHomeScreenAsRoot, SetLoginScreenAsRoot
    <2>2. mainQueue' \in Seq(Block)
      BY <1>1, NextBlockProperties DEF SInv
    <2>. QED
      BY <1>1, <2>1, <2>2, RootReplaced
  <1>. QED
    BY <1>2, <1>3 DEF ProfileSaved

LEMMA PresentRowAlertInv ==
  ASSUME SInv, mainQueue # <<>>, NEW c \in Calls, NEW row \in {"deactivate", "logout"},
         Head(mainQueue).kind = row, Head(mainQueue).call = c, PresentRowAlert(c, row)
  PROVE  ViewInv'
  <1>1. Head(mainQueue) \in Elements(mainQueue)
    BY HeadTailElements DEF SInv, TypeOK
  <1>2. Attached(c) => screen \in Inside
    BY <1>1, AttachedScreen DEF SInv, SettingsWork
  <1>3. /\ NextBlock /\ Release(c) /\ UNCHANGED <<calls, profiles, writes, screen, leaving, hud>>
        /\ hud' \in {"off", "spin", "error"} /\ writes' \in Seq(Write)
        /\ alert' = alert \/ (alert' \in SettingsAlerts /\ screen \in Inside)
    BY <1>2 DEF PresentRowAlert, dbVars, authVars, SInv, TypeOK, Present, SettingsAlerts
  <1>. QED
    BY <1>3, ChainEnded

LEMMA FinishDeactivateInv ==
  ASSUME SInv, mainQueue # <<>>, NEW c \in Calls, Head(mainQueue).kind = "finishDeactivate",
         Head(mainQueue).call = c, FinishDeactivate(c)
  PROVE  ViewInv'
  <1>1. Head(mainQueue) \in Elements(mainQueue)
    BY HeadTailElements DEF SInv, TypeOK
  <1>2. Attached(c) => screen \in Inside
    BY <1>1, AttachedScreen DEF SInv, SettingsWork
  <1>3. /\ NextBlock /\ (Release(c) \/ UNCHANGED live)
        /\ UNCHANGED <<calls, profiles, screen, leaving, hud>> /\ hud' \in {"off", "spin", "error"}
        /\ alert' = alert \/ (alert' \in SettingsAlerts /\ screen \in Inside)
    BY <1>2 DEF FinishDeactivate, dbVars, authVars, SInv, TypeOK, Present, SettingsAlerts
  <1>4. writes' \in Seq(Write) /\ \A w \in Elements(writes') : w.kind = "set" => w \in Elements(writes)
    <2>1. CASE UNCHANGED writes
      BY <2>1 DEF SInv, TypeOK
    <2>2. CASE user # NoUser /\ writes' = Append(writes, [kind |-> "remove", uid |-> user, call |-> c])
      <3>. DEFINE w == [kind |-> "remove", uid |-> user, call |-> c]
      <3>1. w \in Write /\ w.kind # "set" /\ writes \in Seq(Write)
        BY <2>2 DEF SInv, TypeOK, Auth!TypeOK, Auth!UserOrNone, Write
      <3>. QED
        BY <2>2, <3>1, AppendElements
    <2>. QED
      BY <2>1, <2>2 DEF FinishDeactivate
  <1>. QED
    BY <1>3, <1>4, ChainEnded

LEMMA ReauthCompletedInv ==
  ASSUME SInv, mainQueue # <<>>, NEW c \in Calls, ReauthCompleted(c)
  PROVE  ViewInv'
  <1>1. TypeOK /\ Auth!TypeOK /\ calls[c].kind = "reauth"
    BY DEF SInv, TypeOK, ReauthCompleted
  <1>2. /\ UNCHANGED <<profiles, writes, screen, leaving>> /\ hud' \in {"off", "spin", "error"}
        /\ writes' \in Seq(Write)
    BY <1>1 DEF ReauthCompleted, dbVars, TypeOK
  <1>3. SettingsWork(c)
    BY <1>1 DEF SettingsWork
  <1>4. CASE /\ Auth!Complete(c) /\ NextBlock /\ Release(c)
             /\ IF Attached(c) THEN Present("failure") ELSE UNCHANGED alert
    <2>1. \A d \in Calls : calls'[d].kind \in {calls[d].kind, "none"}
      BY <1>1, <1>4, CompleteKinds
    <2>2. alert' = alert \/ (alert' \in SettingsAlerts /\ screen \in Inside)
      BY <1>3, <1>4, AttachedScreen DEF SInv, Present, SettingsAlerts
    <2>. QED
      BY <1>2, <1>4, <2>1, <2>2, ChainEnded
  <1>5. CASE /\ Auth!Delete(c) \/ (user = NoUser /\ Auth!Complete(c))
             /\ mainQueue' = <<[kind |-> "finishDeactivate", call |-> c]>> \o Tail(mainQueue)
             /\ UNCHANGED <<live, alert>>
    <2>. DEFINE b == [kind |-> "finishDeactivate", call |-> c]
    <2>1. PICK kind \in {"delete", "none"} :
            \A d \in Calls : calls'[d].kind = IF d = c THEN kind ELSE calls[d].kind
      BY <1>1, <1>5, SendKinds, CompleteKinds DEF Auth!Delete
    <2>2. Tail(mainQueue) \in Seq(Block) /\ Elements(Tail(mainQueue)) \subseteq Elements(mainQueue)
      BY <1>1, HeadTailElements DEF TypeOK
    <2>3. b \in Block
      BY DEF Block
    <2>4. mainQueue' \in Seq(Block) /\ Elements(mainQueue') \subseteq Elements(mainQueue) \cup {b}
      <3>1. /\ <<b>> \o Tail(mainQueue) \in Seq(Block)
            /\ Elements(<<b>> \o Tail(mainQueue)) \subseteq Elements(Tail(mainQueue)) \cup {b}
        <4>. HIDE DEF b
        <4>. QED
          BY <2>2, <2>3, ConsElements
      <3>. QED
        BY <1>5, <2>2, <3>1
    <2>5. \A d \in Calls : LoginWork(d)' => LoginWork(d)
      BY <1>2, <2>1, <2>4 DEF LoginWork
    <2>6. \A d \in Calls : SettingsWork(d)' => SettingsWork(d)
      <3>1. \A d \in Calls : d # c /\ SettingsWork(d)' => SettingsWork(d)
        BY <2>1, <2>4 DEF SettingsWork
      <3>. QED
        BY <1>3, <3>1
    <2>7. ChainsOfScreen'
      BY <1>2, <1>5, <2>5, <2>6, ChainsKept DEF SInv
    <2>8. ViewTypeOK' /\ AlertBelongs'
      BY <1>1, <1>2, <1>5, <2>4, AlertPresented DEF SInv, TypeOK, ViewTypeOK
    <2>. QED
      BY <2>7, <2>8 DEF ViewInv
  <1>. QED
    BY <1>4, <1>5 DEF ReauthCompleted

LEMMA RunBlockInv ==
  ASSUME SInv, RunBlock
  PROVE  ViewInv'
  <1>1. mainQueue # <<>> /\ Head(mainQueue).call \in Calls
    BY HeadIsBlock DEF RunBlock, SInv
  <1>2. PICK c \in Calls : c = Head(mainQueue).call
    BY <1>1
  <1>. QED
    BY <1>1, <1>2, LoginCompletedInv, RegisterCompletedInv, ForgotCompletedInv, ReauthCompletedInv,
       DeleteCompletedInv, FinishDeactivateInv, ProfileSavedInv, ProfileNotSavedInv,
       PresentRowAlertInv DEF RunBlock

-----------------------------------------------------------------------------
(* The other threads and machines.                                         *)

LEMMA OthersInv ==
  ASSUME SInv,
         \/ \E c \in Calls : BackendStep(c) \/ ReceiveAnswer(c)
         \/ TokenRejected
  PROVE  ViewInv'
  <1>1. TypeOK /\ Auth!TypeOK
    BY DEF SInv, TypeOK
  <1>2. UNCHANGED <<profiles, writes, screen, leaving, alert, hud, live>>
    BY DEF BackendStep, ReceiveAnswer, TokenRejected, dbVars, viewVars
  <1>3. \A d \in Calls : calls'[d].kind \in {calls[d].kind, "none"}
    BY <1>1, ReceiveKinds, OtherKinds DEF BackendStep, ReceiveAnswer, TokenRejected
  <1>4. /\ mainQueue' \in Seq(Block)
        /\ \A b \in Elements(mainQueue') : b.kind # "completion" => b \in Elements(mainQueue)
    <2>1. CASE UNCHANGED mainQueue
      BY <1>1, <2>1 DEF TypeOK
    <2>2. ASSUME NEW c \in Calls,
                 mainQueue' = Append(mainQueue, [kind |-> "completion", call |-> c])
          PROVE  /\ mainQueue' \in Seq(Block)
                 /\ \A b \in Elements(mainQueue') : b.kind # "completion" => b \in Elements(mainQueue)
      <3>1. [kind |-> "completion", call |-> c] \in Block /\ mainQueue \in Seq(Block)
        BY <1>1 DEF Block, TypeOK
      <3>. QED
        BY <2>2, <3>1, AppendElements
    <2>. QED
      BY <2>1, <2>2 DEF BackendStep, ReceiveAnswer, TokenRejected
  <1>5. ChainsOfScreen'
    BY <1>2, <1>3, <1>4, ChainsShrink DEF SInv
  <1>6. ViewTypeOK' /\ AlertBelongs'
    BY <1>1, <1>2, <1>4, AlertPresented DEF SInv, TypeOK, ViewTypeOK
  <1>. QED
    BY <1>5, <1>6 DEF ViewInv

LEMMA HandleWriteInv ==
  ASSUME SInv, HandleWrite
  PROVE  ViewInv'
  <1>1. /\ TypeOK /\ writes # <<>> /\ writes' = Tail(writes)
        /\ UNCHANGED <<calls, screen, leaving, alert, hud, live>>
    BY DEF HandleWrite, SInv, authVars, viewVars
  <1>2. /\ Head(writes) \in Write /\ Head(writes) \in Elements(writes)
        /\ writes' \in Seq(Write) /\ Elements(writes') \subseteq Elements(writes)
    BY <1>1, HeadTailElements DEF TypeOK
  <1>3. profiles' \subseteq Users
    BY <1>1, <1>2 DEF HandleWrite, TypeOK, Write
  <1>4. \A d \in Calls : SettingsWork(d)' => SettingsWork(d)
    <2>1. \A b \in Elements(mainQueue') : b.kind \notin {"saved", "unsaved"} => b \in Elements(mainQueue)
      <3>1. CASE UNCHANGED mainQueue
        BY <3>1
      <3>2. ASSUME NEW kind \in {"saved", "unsaved"},
                   mainQueue' = Append(mainQueue, [kind |-> kind, call |-> Head(writes).call])
            PROVE  \A b \in Elements(mainQueue') :
                     b.kind \notin {"saved", "unsaved"} => b \in Elements(mainQueue)
        <4>1. [kind |-> kind, call |-> Head(writes).call] \in Block /\ mainQueue \in Seq(Block)
          BY <1>1, <1>2 DEF Block, Write, TypeOK
        <4>. QED
          BY <3>2, <4>1, AppendElements
      <3>. QED
        BY <3>1, <3>2 DEF HandleWrite
    <2>. QED
      BY <1>1, <2>1 DEF SettingsWork
  <1>5. /\ mainQueue' \in Seq(Block)
        /\ \A d \in Calls : LoginWork(d)' => LoginWork(d)
    <2>1. CASE UNCHANGED mainQueue
      BY <1>1, <1>2, <2>1 DEF TypeOK, LoginWork
    <2>2. ASSUME NEW kind \in {"saved", "unsaved"}, Head(writes).kind = "set",
                 mainQueue' = Append(mainQueue, [kind |-> kind, call |-> Head(writes).call])
          PROVE  /\ mainQueue' \in Seq(Block)
                 /\ \A d \in Calls : LoginWork(d)' => LoginWork(d)
      <3>. DEFINE b == [kind |-> kind, call |-> Head(writes).call]
      <3>1. b \in Block /\ mainQueue \in Seq(Block)
        BY <1>1, <1>2 DEF Block, Write, TypeOK
      <3>2. mainQueue' \in Seq(Block) /\ Elements(mainQueue') \subseteq Elements(mainQueue) \cup {b}
        BY <2>2, <3>1, AppendElements
      <3>3. LoginWork(Head(writes).call)
        BY <1>2, <2>2 DEF LoginWork
      <3>4. \A d \in Calls : d # Head(writes).call /\ LoginWork(d)' => LoginWork(d)
        BY <1>1, <1>2, <3>2 DEF LoginWork
      <3>. QED
        BY <3>2, <3>3, <3>4
    <2>. QED
      BY <2>1, <2>2 DEF HandleWrite
  <1>6. ChainsOfScreen'
    BY <1>1, <1>4, <1>5, ChainsKept DEF SInv
  <1>7. ViewTypeOK' /\ AlertBelongs'
    BY <1>1, <1>2, <1>3, <1>5, AlertPresented DEF SInv, TypeOK, ViewTypeOK
  <1>. QED
    BY <1>6, <1>7 DEF ViewInv

LEMMA RelaunchInv ==
  ASSUME SInv, Relaunch
  PROVE  ViewInv'
  <1>1. PICK root \in {"login", "home"} : ReplaceRoot(root)
    BY DEF Relaunch, SetHomeScreenAsRoot, SetLoginScreenAsRoot
  <1>2. /\ hud' \in {"off", "spin", "error"} /\ profiles' \subseteq Users
        /\ writes' \in Seq(Write) /\ mainQueue' \in Seq(Block)
    BY EmptySeq DEF Relaunch, SInv, TypeOK
  <1>. QED
    BY <1>1, <1>2, RootReplaced

-----------------------------------------------------------------------------
LEMMA SessionInit == Init => SInv
  <1>1. SUFFICES ASSUME Init
                 PROVE  SInv
    OBVIOUS
  <1>2. Client!IInv
    BY <1>1, ClientInit
  <1>3. Auth!TypeOK
    BY <1>2, SameTypes DEF Client!IInv
  <1>4. ViewTypeOK
    BY <1>1, EmptySeq DEF Init, ViewTypeOK, Screens, Alerts
  <1>5. ChainsOfScreen /\ AlertBelongs
    BY <1>1 DEF Init, ChainsOfScreen, AlertBelongs, SettingsAlerts
  <1>. QED
    BY <1>2, <1>3, <1>4, <1>5, Typing DEF SInv

LEMMA SessionNext == SInv /\ [Next]_vars => SInv'
  <1>1. SUFFICES ASSUME SInv, [Next]_vars
                 PROVE  SInv'
    OBVIOUS
  <1>2. Client!IInv'
    BY <1>1, ClientNext DEF SInv
  <1>3. Auth!TypeOK'
    <2>1. Client!TypeOK'
      BY <1>2 DEF Client!IInv
    <2>. QED
      BY <2>1, SameTypes, PTL
  <1>4. ViewInv'
    <2>1. CASE Touch
      BY <1>1, <2>1, CallTouches, ConfirmDeactivateInv, SelectRowInv, LogOutInv, NavigationInv
         DEF Touch
    <2>2. CASE RunBlock
      BY <1>1, <2>2, RunBlockInv
    <2>3. CASE Environment
      BY <1>1, <2>3, OthersInv, HandleWriteInv, NavigationInv DEF Environment
    <2>4. CASE Relaunch
      BY <1>1, <2>4, RelaunchInv
    <2>5. CASE UNCHANGED vars
      BY <1>1, <2>5 DEF vars, SInv, TypeOK, ViewInv, ViewTypeOK, ChainsOfScreen, LoginWork,
         SettingsWork, AlertBelongs
    <2>. QED
      BY <1>1, <2>1, <2>2, <2>3, <2>4, <2>5 DEF Next
  <1>5. TypeOK'
    BY <1>3, <1>4 DEF ViewInv, ViewTypeOK, TypeOK
  <1>. QED
    BY <1>2, <1>4, <1>5 DEF SInv, ViewInv

(* The inductive invariant, in every behaviour of the session.             *)
THEOREM Invariance == Spec => []SInv
  BY SessionInit, SessionNext, PTL DEF Spec

(* Every queue, view and call keeps its type: in particular no nil uid     *)
(* ever names a profile to write or to remove.                             *)
THEOREM Typed == Spec => []TypeOK
  <1>1. SInv => TypeOK
    BY DEF SInv
  <1>. QED
    BY <1>1, Invariance, PTL

(* No alert comes up over a screen it was not made for, however late the   *)
(* completion that presents it runs.                                       *)
THEOREM AlertsBelong == Spec => []AlertBelongs
  <1>1. SInv => AlertBelongs
    BY DEF SInv
  <1>. QED
    BY <1>1, Invariance, PTL

-----------------------------------------------------------------------------
(* A session that ends inside the application.                             *)

(* No account was created and then not found.                              *)
LookupsSucceed == \A c \in Calls : calls[c].phase # "noUser"

LEMMA LookupsKept ==
  ASSUME "lookup" \notin Faults, Auth!TypeOK, LookupsSucceed, [Auth!AuthNext]_authVars
  PROVE  LookupsSucceed'
  <1>1. ASSUME NEW c \in Calls, NEW p \in Auth!Phases \ {"noUser"},
               \/ calls' = Auth!Finish(c, p)
               \/ calls' = Auth!Replaced(Auth!Finish(c, p))
        PROVE  LookupsSucceed'
    <2>1. \A d \in Calls : /\ Auth!Finish(c, p)[d].phase = IF d = c THEN p ELSE calls[d].phase
                           /\ [Auth!Finish(c, p)[d] EXCEPT !.own = FALSE].phase
                                = Auth!Finish(c, p)[d].phase
      <3>1. \A d \in Calls : Auth!Finish(c, p)[d] = IF d = c
                               THEN [calls[d] EXCEPT !.phase = p, !.own = FALSE] ELSE calls[d]
        BY DEF Auth!TypeOK, Auth!Finish
      <3>2. \A r \in Auth!Call : /\ [r EXCEPT !.phase = p, !.own = FALSE].phase = p
                                 /\ [[r EXCEPT !.phase = p, !.own = FALSE] EXCEPT !.own = FALSE].phase = p
                                 /\ [r EXCEPT !.own = FALSE].phase = r.phase
        BY DEF Auth!Call
      <3>. QED
        BY <3>1, <3>2 DEF Auth!TypeOK
    <2>. QED
      BY <1>1, <2>1 DEF LookupsSucceed, Auth!Replaced
  <1>2. ASSUME NEW c \in Calls, Auth!Receive(c)
        PROVE  LookupsSucceed'
    <2>1. PICK p \in Auth!Phases \ {"noUser"} : \/ calls' = Auth!Finish(c, p)
                                                \/ calls' = Auth!Replaced(Auth!Finish(c, p))
      BY <1>2 DEF Auth!Receive, Auth!ReceiveError, Auth!ReceiveReset, Auth!ReceiveSession,
         Auth!ReceiveReauth, Auth!ReceiveDelete, Auth!UpdateCurrentUser, Auth!ForceSignOut,
         Auth!Phases, Auth!Done
    <2>. QED
      BY <1>1, <2>1
  <1>3. ASSUME NEW c \in Calls, Auth!Backend(c)
        PROVE  LookupsSucceed'
    <2>1. Auth!AnswerOf(calls[c].kind) = {"ok", "failed"}
      BY DEF Auth!AnswerOf
    <2>2. CASE Auth!BackendAccepts(c)
      BY <2>1, <2>2 DEF Auth!BackendAccepts, Auth!TypeOK, Auth!Call, Auth!NoCall, LookupsSucceed
    <2>3. CASE Auth!BackendRefuses(c)
      BY <2>3 DEF Auth!BackendRefuses, Auth!TypeOK, Auth!Call, Auth!NoCall, LookupsSucceed
    <2>. QED
      BY <1>3, <2>2, <2>3 DEF Auth!Backend
  <1>4. ASSUME NEW c \in Calls, Auth!CallStep(c), ~Auth!Receive(c), ~Auth!Backend(c)
        PROVE  LookupsSucceed'
    BY <1>4 DEF Auth!CallStep, Auth!SignIn, Auth!Reauthenticate, Auth!CreateUser,
       Auth!SendPasswordReset, Auth!Delete, Auth!Send, Auth!Complete, Auth!NoCall, Auth!TypeOK,
       LookupsSucceed
  <1>5. CASE Auth!RejectToken \/ Auth!SignOut
    <2>1. \A r \in Auth!Call : [r EXCEPT !.own = FALSE].phase = r.phase
      BY DEF Auth!Call
    <2>2. calls' = calls \/ calls' = Auth!Replaced(calls)
      BY <1>5 DEF Auth!RejectToken, Auth!SignOut, Auth!ForceSignOut
    <2>3. \A d \in Calls : calls'[d].phase = calls[d].phase
      BY <2>1, <2>2 DEF Auth!Replaced, Auth!TypeOK
    <2>. QED
      BY <2>3 DEF LookupsSucceed
  <1>6. CASE Auth!Restart
    BY <1>6 DEF Auth!Restart, Auth!NoCall, Auth!TypeOK, Auth!Call, LookupsSucceed
  <1>7. CASE UNCHANGED authVars
    BY <1>7 DEF authVars, LookupsSucceed
  <1>. QED
    BY <1>2, <1>3, <1>4, <1>5, <1>6, <1>7 DEF Auth!AuthNext

LEMMA ReceiveEnds ==
  ASSUME Client!IInv, LookupsSucceed, NEW c \in Calls, Auth!Receive(c),
         user # NoUser, user' = NoUser
  PROVE  account[user] = "deleted"
  <1>1. PICK stored \in Auth!Stored : Auth!ReceiveSession(c, stored) \/ Auth!ReceiveDelete(c, stored)
    BY DEF Auth!Receive, Auth!ReceiveError, Auth!ReceiveReset, Auth!ReceiveReauth
  <1>2. CASE Auth!ReceiveSession(c, stored)
    <2>1. calls[c].phase = "ok" /\ calls[c].kind \in {"signIn", "create"}
      BY <1>2 DEF Auth!ReceiveSession, LookupsSucceed
    <2>2. user' = calls[c].uid \/ user' = user
      BY <1>2, <2>1 DEF Auth!ReceiveSession, Auth!UpdateCurrentUser, LookupsSucceed
    <2>3. calls[c].uid # NoUser
      BY <2>1 DEF Client!IInv, Client!TypeOK, Client!Call, Client!CreationsNamed
    <2>. QED
      BY <2>2, <2>3
  <1>3. CASE Auth!ReceiveDelete(c, stored)
    BY <1>3 DEF Auth!ReceiveDelete, Client!IInv, Client!OwnIsCurrent, Client!DeletionsHappened
  <1>. QED
    BY <1>1, <1>2, <1>3

(* Inside the application a session ends without leaving for the login     *)
(* screen only if the signed-in account itself has been deleted: unless    *)
(* the backend revokes tokens of accounts that exist, or creates an        *)
(* account and then does not find it, whatever else fails.                 *)
THEOREM InsideKept ==
  ASSUME {"lookup", "revoke"} \cap Faults = {}
  PROVE  Spec => InsideKeepsSession
  <1>1. Init => LookupsSucceed
    BY DEF Init, Auth!AuthInit, Auth!NoCall, LookupsSucceed
  <1>2. SInv /\ LookupsSucceed /\ [Next]_vars => LookupsSucceed'
    BY NextRefines, LookupsKept DEF SInv, TypeOK
  <1>3. ASSUME SInv, LookupsSucceed, Next, screen \in Inside, screen' \in Inside,
               user # NoUser, user' = NoUser
        PROVE  account[user] = "deleted"
    <2>1. screen' # "login"
      BY <1>3 DEF Inside
    <2>2. CASE Touch
      <3>1. CASE LogOut
        BY <1>3, <2>1, <3>1 DEF LogOut, SetLoginScreenAsRoot, ReplaceRoot, authVars
      <3>2. CASE ~LogOut
        BY <1>3, <2>2, <3>2 DEF Touch, PressedLogin, ConfirmDeactivate, PressedRegister, ConfirmForgot,
           SelectRow, ForgetPasswordPressed, DismissAlert, ShowSettings, ShowUserSettings, Back,
           Auth!SignIn, Auth!Reauthenticate, Auth!CreateUser, Auth!SendPasswordReset, Auth!Send,
           authVars
      <3>. QED
        BY <3>1, <3>2
    <2>3. CASE RunBlock
      BY <1>3, <2>3 DEF RunBlock, LoginCompleted, RegisterCompleted, ForgotCompleted,
         ReauthCompleted, DeleteCompleted, FinishDeactivate, ProfileSaved, ProfileNotSaved,
         PresentRowAlert, Auth!Complete, Auth!Delete, Auth!Send, authVars
    <2>4. CASE Environment
      <3>1. ASSUME NEW c \in Calls, ReceiveAnswer(c)
            PROVE  account[user] = "deleted"
        BY <1>3, <3>1, ReceiveEnds DEF ReceiveAnswer, SInv
      <3>2. CASE TokenRejected
        BY <3>2 DEF TokenRejected, Auth!RejectToken
      <3>3. ASSUME \/ \E c \in Calls : BackendStep(c)
                   \/ HandleWrite \/ SettingsDisappeared \/ HudFades
            PROVE  user' = user
        BY <3>3 DEF BackendStep, HandleWrite, SettingsDisappeared, HudFades, Auth!Backend,
           Auth!BackendAccepts, Auth!BackendRefuses, authVars
      <3>. QED
        BY <1>3, <2>4, <3>1, <3>2, <3>3 DEF Environment
    <2>5. CASE Relaunch
      BY <1>3, <2>1, <2>5 DEF Relaunch, SetHomeScreenAsRoot, SetLoginScreenAsRoot, ReplaceRoot
    <2>. QED
      BY <1>3, <2>2, <2>3, <2>4, <2>5 DEF Next
  <1>4. SInv /\ LookupsSucceed /\ [Next]_vars =>
          [/\ screen \in Inside
           /\ screen' \in Inside
           /\ user # NoUser
           /\ user' = NoUser
           => account[user] = "deleted"]_vars
    BY <1>3
  <1>. QED
    BY <1>1, <1>2, <1>4, Invariance, PTL DEF Spec, InsideKeepsSession

=============================================================================
