------------------------------ MODULE Session ------------------------------
(***************************************************************************)
(* The account life cycle of the application: launch, login, registration, *)
(* password reset, settings, log-out and deactivation.  Composes           *)
(*   - AuthClient, the authentication client and its backend;              *)
(*   - the profile database, a FIFO of writes on one connection;           *)
(*   - the main thread: the FIFO of blocks dispatched to it, one run at a  *)
(*     time, and between two blocks the touches of the user;               *)
(*   - the view controllers: what is on screen, whether a presenter still  *)
(*     has its view, the alert that is up and the one HUD all views share. *)
(*                                                                         *)
(* A slot of Calls stands for one closure chain: the call, the database    *)
(* write its completion may start, or an alert waiting to be presented.    *)
(***************************************************************************)
EXTENDS Naturals, Sequences, FiniteSets

CONSTANTS
  Users, NoUser, Calls, Faults,   \* as in AuthClient
  MaxWrites                       \* writes that may wait when a user acts

VARIABLES
  account, user, keychain, calls, \* as in AuthClient
  profiles,   \* database: uids that have a record under users/
  writes,     \* database: writes not yet handled, oldest first
  mainQueue,  \* blocks dispatched to the main thread, oldest first
  screen,     \* top of the navigation stack, which determines the rest of it
  leaving,    \* the settings view is on its way out, not yet disappeared
  live,       \* the view controller that started the closure still exists
  alert,      \* the alert that is presented
  hud         \* what the progress HUD was last asked to show

Auth == INSTANCE AuthClient

ASSUME SessionAssumption ==
  /\ NoUser \notin Users
  /\ Faults \subseteq Auth!AllFaults

authVars == <<account, user, keychain, calls>>
dbVars == <<profiles, writes>>
viewVars == <<screen, leaving, alert, hud>>
vars == <<account, user, keychain, calls, profiles, writes, mainQueue,
          screen, leaving, live, alert, hud>>

Screens == {"login", "home", "settings", "userSettings"}
Inside == Screens \ {"login"}
SettingsAlerts == {"deactivate", "logout", "success", "failure"}
Alerts == {"none", "noNet", "forgot", "resetStatus"} \cup SettingsAlerts

Write == [kind : {"set", "remove"}, uid : Users, call : Calls]
Block == [kind : {"completion", "finishDeactivate", "saved", "unsaved",
                  "deactivate", "logout"},
          call : Calls]

TypeOK ==
  /\ Auth!TypeOK
  /\ profiles \subseteq Users
  /\ writes \in Seq(Write)
  /\ mainQueue \in Seq(Block)
  /\ screen \in Screens
  /\ leaving \in BOOLEAN
  /\ live \in [Calls -> BOOLEAN]
  /\ alert \in Alerts
  /\ hud \in {"off", "spin", "error"}

Init ==
  /\ Auth!AuthInit
  /\ profiles = {u \in Users : account[u] = "open"}
  /\ writes = <<>>
  /\ mainQueue = <<>>
  /\ screen = "login"
  /\ leaving = FALSE
  /\ live = [c \in Calls |-> FALSE]
  /\ alert = "none"
  /\ hud = "off"

-----------------------------------------------------------------------------
(* Views                                                                   *)

(* Mutant: the presenters are not detached when the root is replaced.      *)
Attached_NoDetach(c) == screen \in {"login", "settings"} \/ leaving

(* presenter.view is set: attached in viewWillAppear, detached when the    *)
(* view has disappeared or is deallocated.                                 *)
Attached(c) == live[c] /\ (screen \in {"login", "settings"} \/ leaving)

(* UIKit presents one alert at a time and drops the others.                *)
Present(a) == alert' = IF alert = "none" THEN a ELSE alert

(* Setting the root controller frees the old screens and what they show.   *)
(* The new root looks for a network in viewDidLoad.                        *)
ReplaceRoot(root) ==
  /\ screen' = root
  /\ leaving' = FALSE
  /\ live' = [c \in Calls |-> FALSE]
  /\ alert' \in {"none", "noNet"}

SetLoginScreenAsRoot == ReplaceRoot("login")

(* HomeViewController.viewDidLoad goes back to login without a user.       *)
SetHomeScreenAsRoot(uid) ==
  IF uid # NoUser THEN ReplaceRoot("home") ELSE SetLoginScreenAsRoot

-----------------------------------------------------------------------------
(* Touches.  The HUD does not block them, an alert, a transition or a main *)
(* thread that is inside a handler does.                                   *)

InHandler == mainQueue # <<>> /\ Head(mainQueue).kind = "finishDeactivate"
CanTouch == alert = "none" /\ ~leaving /\ ~InHandler
CanAnswer(a) == alert = a /\ ~leaving /\ ~InHandler

Free(c) ==
  /\ calls[c] = Auth!NoCall
  /\ \A i \in DOMAIN writes : ~(writes[i].kind = "set" /\ writes[i].call = c)
  /\ \A i \in DOMAIN mainQueue : mainQueue[i].call # c

Begin(c) ==
  /\ Free(c)
  /\ Len(writes) < MaxWrites
  /\ live' = [live EXCEPT ![c] = TRUE]

PressedLogin(c, uid) ==
  /\ screen = "login" /\ CanTouch /\ Begin(c)
  /\ hud' = "spin"
  /\ Auth!SignIn(c, uid)
  /\ UNCHANGED <<dbVars, mainQueue, screen, leaving, alert>>

PressedRegister(c) ==
  /\ screen = "login" /\ CanTouch /\ Begin(c)
  /\ hud' = "spin"
  /\ Auth!CreateUser(c)
  /\ UNCHANGED <<dbVars, mainQueue, screen, leaving, alert>>

ForgetPasswordPressed ==
  /\ screen = "login" /\ CanTouch
  /\ alert' = "forgot"
  /\ UNCHANGED <<authVars, dbVars, mainQueue, screen, leaving, live, hud>>

ConfirmForgot(c) ==
  /\ CanAnswer("forgot") /\ Begin(c)
  /\ alert' = "none"
  /\ hud' = "spin"
  /\ Auth!SendPasswordReset(c)
  /\ UNCHANGED <<dbVars, mainQueue, screen, leaving>>

(* Cancel, No, and the OK of an alert that only informs.                   *)
DismissAlert ==
  /\ \E a \in {"forgot", "resetStatus", "deactivate", "logout", "failure"} : CanAnswer(a)
  /\ alert' = "none"
  /\ UNCHANGED <<authVars, dbVars, mainQueue, screen, leaving, live, hud>>

ShowSettings ==
  /\ screen = "home" /\ CanTouch
  /\ screen' = "settings"
  /\ UNCHANGED <<authVars, dbVars, mainQueue, leaving, live, alert, hud>>

ShowUserSettings ==
  /\ screen = "settings" /\ CanTouch
  /\ screen' = "userSettings"
  /\ leaving' = TRUE
  /\ UNCHANGED <<authVars, dbVars, mainQueue, live, alert, hud>>

Back ==
  /\ CanTouch
  /\ \/ screen = "settings" /\ screen' = "home" /\ leaving' = TRUE
     \/ screen = "userSettings" /\ screen' = "settings" /\ UNCHANGED leaving
  /\ UNCHANGED <<authVars, dbVars, mainQueue, live, alert, hud>>

(* viewDidDisappear at the end of a transition, and deinit if it was a pop. *)
SettingsDisappeared ==
  /\ leaving
  /\ leaving' = FALSE
  /\ live' = IF screen = "home" THEN [c \in Calls |-> FALSE] ELSE live
  /\ UNCHANGED <<authVars, dbVars, mainQueue, screen, alert, hud>>

(* The rows Deactivate and Log Out present their alert with main.async.    *)
SelectRow(c, a) ==
  /\ screen = "settings" /\ CanTouch /\ Begin(c)
  /\ mainQueue' = Append(mainQueue, [kind |-> a, call |-> c])
  /\ UNCHANGED <<authVars, dbVars, viewVars>>

ConfirmDeactivate(c, uid) ==
  /\ CanAnswer("deactivate")
  /\ alert' = "none"
  /\ IF screen \in {"settings", "userSettings"}
       THEN /\ hud' = IF screen = "settings" THEN "spin" ELSE hud
            /\ \/ Begin(c) /\ Auth!Reauthenticate(c, uid)
               \/ user = NoUser /\ UNCHANGED <<authVars, live>>
       ELSE UNCHANGED <<authVars, live, hud>>
  /\ UNCHANGED <<dbVars, mainQueue, screen, leaving>>

(* Mutant: the login screen is shown, the user is not signed out.          *)
LogOut_ScreenOnly ==
  /\ \E a \in {"logout", "success"} : CanAnswer(a)
  /\ IF screen \in {"settings", "userSettings"}
       THEN SetLoginScreenAsRoot
       ELSE alert' = "none" /\ UNCHANGED <<screen, leaving, live>>
  /\ UNCHANGED <<authVars, dbVars, mainQueue, hud>>

(* The login screen is set first and the user signed out after it; the OK  *)
(* of the success alert and the Yes of the log-out alert do the same.      *)
LogOut ==
  /\ \E a \in {"logout", "success"} : CanAnswer(a)
  /\ IF screen \in {"settings", "userSettings"}
       THEN SetLoginScreenAsRoot /\ Auth!SignOut
       ELSE alert' = "none" /\ UNCHANGED <<authVars, screen, leaving, live>>
  /\ UNCHANGED <<dbVars, mainQueue, hud>>

HudFades ==
  /\ hud = "error"
  /\ hud' = "off"
  /\ UNCHANGED <<authVars, dbVars, mainQueue, screen, leaving, live, alert>>

-----------------------------------------------------------------------------
(* The main thread runs the oldest block.  Each handler below is the body  *)
(* of one completion closure; a view that is gone is a nil it messages.    *)

Release(c) == live' = [live EXCEPT ![c] = FALSE]
NextBlock == mainQueue' = Tail(mainQueue)

(* Mutant: an error returns before the HUD is touched.                     *)
LoginCompleted_SilentError(c) ==
  /\ calls[c].kind = "signIn" /\ Auth!Complete(c) /\ NextBlock
  /\ IF Attached(c) /\ calls[c].phase = "doneOk"
       THEN hud' = "off" /\ SetHomeScreenAsRoot(user)
       ELSE Release(c) /\ UNCHANGED viewVars
  /\ UNCHANGED dbVars

LoginCompleted(c) ==
  /\ calls[c].kind = "signIn" /\ Auth!Complete(c) /\ NextBlock
  /\ \/ ~Attached(c) /\ Release(c) /\ UNCHANGED viewVars
     \/ /\ Attached(c) /\ calls[c].phase = "doneError"
        /\ hud' = "error"
        /\ Release(c)
        /\ UNCHANGED <<screen, leaving, alert>>
     \/ /\ Attached(c) /\ calls[c].phase = "doneOk"
        /\ hud' = "off"
        /\ SetHomeScreenAsRoot(user)
  /\ UNCHANGED dbVars

(* An error replaces the spinner, a nil user leaves it there (or crashes:  *)
(* Relaunch), and the profile is written whether or not the view is alive. *)
RegisterCompleted(c) ==
  /\ calls[c].kind = "create" /\ Auth!Complete(c) /\ NextBlock
  /\ \/ /\ calls[c].phase = "doneError"
        /\ hud' = IF Attached(c) THEN "error" ELSE hud
        /\ Release(c)
        /\ UNCHANGED writes
     \/ /\ calls[c].phase = "doneNil"
        /\ Release(c)
        /\ UNCHANGED <<hud, writes>>
     \/ /\ calls[c].phase = "doneOk"
        /\ writes' = Append(writes, [kind |-> "set", uid |-> calls[c].uid, call |-> c])
        /\ UNCHANGED <<hud, live>>
  /\ UNCHANGED <<profiles, screen, leaving, alert>>

ForgotCompleted(c) ==
  /\ calls[c].kind = "reset" /\ Auth!Complete(c) /\ NextBlock
  /\ IF Attached(c) THEN hud' = "off" /\ Present("resetStatus")
                    ELSE UNCHANGED <<hud, alert>>
  /\ Release(c)
  /\ UNCHANGED <<dbVars, screen, leaving>>

(* First half of the deactivation closure, up to and including the call of *)
(* delete on whoever is the current user by now.  The second half runs     *)
(* next on this thread, but the work queue does not wait for it.           *)
ReauthCompleted(c) ==
  /\ calls[c].kind = "reauth"
  /\ hud' = IF Attached(c) THEN "off" ELSE hud
  /\ \/ /\ calls[c].phase = "doneError"
        /\ Auth!Complete(c) /\ NextBlock /\ Release(c)
        /\ IF Attached(c) THEN Present("failure") ELSE UNCHANGED alert
     \/ /\ calls[c].phase = "doneOk"
        /\ Auth!Delete(c) \/ (user = NoUser /\ Auth!Complete(c))
        /\ mainQueue' = <<[kind |-> "finishDeactivate", call |-> c]>> \o Tail(mainQueue)
        /\ UNCHANGED <<live, alert>>
  /\ UNCHANGED <<dbVars, screen, leaving>>

(* Mutant: the guard on the uid is gone.                                   *)
FinishDeactivate_NoGuard(c) ==
  /\ NextBlock
  /\ writes' = Append(writes, [kind |-> "remove", uid |-> user, call |-> c])
  /\ IF Attached(c) THEN Present("success") ELSE UNCHANGED alert
  /\ IF calls[c] = Auth!NoCall THEN Release(c) ELSE UNCHANGED live
  /\ UNCHANGED <<authVars, profiles, screen, leaving, hud>>

(* Second half: currentUser is read again, its profile removed, and the    *)
(* success reported without waiting for the deletion or for the removal.   *)
FinishDeactivate(c) ==
  /\ NextBlock
  /\ \/ user = NoUser /\ UNCHANGED <<writes, alert>>
     \/ /\ user # NoUser
        /\ writes' = Append(writes, [kind |-> "remove", uid |-> user, call |-> c])
        /\ IF Attached(c) THEN Present("success") ELSE UNCHANGED alert
  /\ IF calls[c] = Auth!NoCall THEN Release(c) ELSE UNCHANGED live
  /\ UNCHANGED <<authVars, profiles, screen, leaving, hud>>

DeleteCompleted(c) ==
  /\ calls[c].kind = "delete" /\ Auth!Complete(c) /\ NextBlock
  /\ IF calls[c].phase = "doneError" /\ Attached(c)
       THEN Present("failure") ELSE UNCHANGED alert
  /\ Release(c)
  /\ UNCHANGED <<dbVars, screen, leaving, hud>>

(* Completion of the profile write: an error is only printed.              *)
ProfileSaved(c) ==
  /\ NextBlock
  /\ IF Attached(c) THEN hud' = "off" /\ SetHomeScreenAsRoot(user)
                    ELSE Release(c) /\ UNCHANGED viewVars
  /\ UNCHANGED <<authVars, dbVars>>

ProfileNotSaved(c) ==
  /\ NextBlock
  /\ Release(c)
  /\ UNCHANGED <<authVars, dbVars, viewVars>>

PresentRowAlert(c, a) ==
  /\ NextBlock
  /\ IF Attached(c) THEN Present(a) ELSE UNCHANGED alert
  /\ Release(c)
  /\ UNCHANGED <<authVars, dbVars, screen, leaving, hud>>

RunBlock ==
  /\ mainQueue # <<>>
  /\ LET kind == Head(mainQueue).kind
         c    == Head(mainQueue).call
     IN \/ /\ kind = "completion"
           /\ \/ LoginCompleted(c)
              \/ RegisterCompleted(c)
              \/ ForgotCompleted(c)
              \/ ReauthCompleted(c)
              \/ DeleteCompleted(c)
        \/ kind = "finishDeactivate" /\ FinishDeactivate(c)
        \/ kind = "saved" /\ ProfileSaved(c)
        \/ kind = "unsaved" /\ ProfileNotSaved(c)
        \/ kind \in {"deactivate", "logout"} /\ PresentRowAlert(c, kind)

-----------------------------------------------------------------------------
(* The other threads and machines.                                         *)

BackendStep(c) ==
  /\ Auth!Backend(c)
  /\ UNCHANGED <<dbVars, mainQueue, viewVars, live>>

ReceiveAnswer(c) ==
  /\ Auth!Receive(c)
  /\ mainQueue' = Append(mainQueue, [kind |-> "completion", call |-> c])
  /\ UNCHANGED <<dbVars, viewVars, live>>

TokenRejected ==
  /\ Auth!RejectToken
  /\ UNCHANGED <<dbVars, mainQueue, viewVars, live>>

(* The database handles writes in order; only set has a completion.        *)
HandleWrite ==
  /\ writes # <<>>
  /\ writes' = Tail(writes)
  /\ LET w == Head(writes)
         Tell(kind) == IF w.kind = "set"
                         THEN mainQueue' = Append(mainQueue, [kind |-> kind, call |-> w.call])
                         ELSE UNCHANGED mainQueue
     IN \/ /\ profiles' = IF w.kind = "set" THEN profiles \cup {w.uid}
                                           ELSE profiles \ {w.uid}
           /\ Tell("saved")
        \/ "write" \in Faults /\ UNCHANGED profiles /\ Tell("unsaved")
  /\ UNCHANGED <<authVars, viewVars, live>>

(* The process ends (killed, crashed, or exit(1) from the no-network       *)
(* alert) and is launched again: didFinishLaunching asks the client        *)
(* whether a user is logged in.  Writes still queued are not persisted.    *)
Relaunch ==
  /\ Auth!Restart
  /\ writes' = <<>>
  /\ mainQueue' = <<>>
  /\ hud' = "off"
  /\ SetHomeScreenAsRoot(user')
  /\ UNCHANGED profiles

-----------------------------------------------------------------------------
Touch ==
  \/ \E c \in Calls :
       \/ \E uid \in Users : PressedLogin(c, uid) \/ ConfirmDeactivate(c, uid)
       \/ PressedRegister(c)
       \/ ConfirmForgot(c)
       \/ \E row \in {"deactivate", "logout"} : SelectRow(c, row)
  \/ ForgetPasswordPressed
  \/ DismissAlert
  \/ ShowSettings
  \/ ShowUserSettings
  \/ Back
  \/ LogOut

Environment ==
  \/ \E c \in Calls : BackendStep(c) \/ ReceiveAnswer(c)
  \/ TokenRejected
  \/ HandleWrite
  \/ SettingsDisappeared
  \/ HudFades

Next == Touch \/ RunBlock \/ Environment \/ Relaunch

(* Auth requests are answered or time out, the work queue and the main     *)
(* thread drain and transitions end.  Not so a database write, which       *)
(* waits for a connection for ever, nor anything the user might do.        *)
Fairness ==
  /\ WF_vars(RunBlock)
  /\ WF_vars(SettingsDisappeared)
  /\ \A c \in Calls : WF_vars(BackendStep(c)) /\ WF_vars(ReceiveAnswer(c))

Spec == Init /\ [][Next]_vars
FairSpec == Spec /\ Fairness

-----------------------------------------------------------------------------
(* Properties                                                              *)

(* No alert of one screen comes up over another after the screen has been  *)
(* left: completions of closed screens are silent.                         *)
AlertBelongs ==
  /\ alert \in {"forgot", "resetStatus"} => screen = "login"
  /\ alert \in SettingsAlerts => screen \in Inside

(* Inside the application a session ends without leaving for the login     *)
(* screen only if the signed-in account itself has been deleted.           *)
InsideKeepsSession ==
  [][/\ screen \in Inside
     /\ screen' \in Inside
     /\ user # NoUser
     /\ user' = NoUser
     => account[user] = "deleted"]_vars

(* The account a deactivation deletes is the one whose password was        *)
(* checked for it: "Deactivate your account", says the alert that asks for *)
(* e-mail and password (SettingsViewController 80).  A sign-in that is     *)
(* answered in between makes it another.                                   *)
DeletesWhoWasVerified ==
  [][\A c \in Calls :
       calls[c].kind = "reauth" /\ calls'[c].kind = "delete"
         => calls'[c].uid = calls[c].uid]_vars

(* With nothing in flight the login screen is shown to nobody who is       *)
(* still signed in.                                                        *)
Quiet == mainQueue = <<>> /\ writes = <<>> /\ \A c \in Calls : calls[c] = Auth!NoCall
LoginMeansSignedOut == Quiet /\ screen = "login" => user = NoUser

(* The spinner of a sign-in ends, with an error or with the login screen.  *)
SignInSpinnerEnds ==
  \A c \in Calls :
    calls[c].kind = "signIn" /\ live[c] /\ hud = "spin" ~> hud # "spin"

(* SettingsViewController 105 tells "Your account has been deactivated.":  *)
(* while it does, the signed-in account is gone or a deletion has not been *)
(* heard of yet.                                                           *)
SuccessIsTrue ==
  alert = "success" /\ user # NoUser =>
    \/ account[user] = "deleted"
    \/ \E c \in Calls : calls[c].kind = "delete"

=============================================================================
