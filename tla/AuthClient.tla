----------------------------- MODULE AuthClient -----------------------------
(***************************************************************************)
(* The authentication client the application signs users in with: the     *)
(* part of FIRAuth and FIRUser that the screens reach, together with the   *)
(* backend that owns the accounts.                                         *)
(*                                                                         *)
(* The client is a state machine on one serial work queue.  A call is      *)
(* sent, the backend answers it, the work queue receives the answer        *)
(* (and only then changes the signed-in user), and the completion block    *)
(* of the call is handed to the main queue.  Each of the four is a step of *)
(* its own here, since anything may happen between two of them.            *)
(***************************************************************************)
EXTENDS Naturals, FiniteSets

CONSTANTS
  Users,      \* the uids the backend can give to an account
  NoUser,     \* no uid: nobody is signed in, or the call names nobody
  Calls,      \* slots for calls whose completion block has not run yet
  Faults      \* the failures the environment may produce, see AllFaults

AllFaults ==
  {"store",    \* the keychain refuses to write or to remove the item
   "load",     \* the keychain refuses to read it at launch
   "lookup",   \* a new account is created, but reading it back fails
   "revoke",   \* the backend revokes the token of an account that exists
   "write"}    \* the database rejects a write (used by Session)

ASSUME NoUserAssumption == NoUser \notin Users
ASSUME FaultsAssumption == Faults \subseteq AllFaults

VARIABLES
  account,    \* backend: the life of each uid
  user,       \* client: uid of _currentUser
  keychain,   \* device: uid of the archived user
  calls       \* client and network: the calls in flight

authVars == <<account, user, keychain, calls>>

UserOrNone == Users \cup {NoUser}
Kinds == {"none", "signIn", "create", "reset", "reauth", "delete"}

(***************************************************************************)
(* "sent"     the request is on its way, the backend has not acted on it   *)
(* "ok"       the backend accepted and its answer has reached the device   *)
(* "noUser"   as "ok" for a creation whose account lookup then failed      *)
(* "failed"   an error has reached the device, whatever the backend did    *)
(* "done.."   the work queue has handled the answer and has dispatched     *)
(*            the completion block, with a result, with a result whose     *)
(*            user is nil, or with an error                                *)
(* "orphan"   the process that sent the request is gone, the request not   *)
(***************************************************************************)
Done == {"doneOk", "doneNil", "doneError"}
Answered == {"ok", "noUser", "failed"}
Phases == {"idle", "sent", "orphan"} \cup Answered \cup Done

Call ==
  {c \in [kind : Kinds, uid : UserOrNone, phase : Phases, own : BOOLEAN] :
     /\ c.phase = "idle" <=> c.kind = "none"
     /\ c.phase \in {"noUser", "doneNil"} => c.kind = "create"
     /\ c.own => c.kind = "delete"
     /\ c.kind \in {"signIn", "reauth", "delete"} => c.uid # NoUser}

NoCall == [kind |-> "none", uid |-> NoUser, phase |-> "idle", own |-> FALSE]

TypeOK ==
  /\ account \in [Users -> {"unused", "open", "deleted"}]
  /\ user \in UserOrNone
  /\ keychain \in UserOrNone
  /\ calls \in [Calls -> Call]

AuthInit ==
  /\ account \in [Users -> {"unused", "open"}]
  /\ user = NoUser
  /\ keychain = NoUser
  /\ calls = [c \in Calls |-> NoCall]

-----------------------------------------------------------------------------
(* Calls the application makes.  A slot may be reused by the very          *)
(* completion block that frees it.                                         *)

Send(c, kind, uid, own) ==
  /\ calls[c].phase \in {"idle"} \cup Done
  /\ calls' = [calls EXCEPT ![c] =
       [kind |-> kind, uid |-> uid, phase |-> "sent", own |-> own]]
  /\ UNCHANGED <<account, user, keychain>>

SignIn(c, uid) == Send(c, "signIn", uid, FALSE)

CreateUser(c) == Send(c, "create", NoUser, FALSE)

SendPasswordReset(c) == Send(c, "reset", NoUser, FALSE)

(* Both are messages to currentUser: with nobody signed in there is no call. *)
Reauthenticate(c, uid) == user # NoUser /\ Send(c, "reauth", uid, FALSE)

Delete(c) == user # NoUser /\ Send(c, "delete", user, TRUE)

-----------------------------------------------------------------------------
(* The backend.  It may act on a request and lose the answer.              *)

Accept(c, uid) ==
  \/ /\ calls[c].kind \in {"signIn", "reauth"}
     /\ uid = calls[c].uid
     /\ account[uid] = "open"
     /\ UNCHANGED account
  \/ /\ calls[c].kind = "reset"
     /\ uid = NoUser
     /\ UNCHANGED account
  \/ /\ calls[c].kind = "create"
     /\ uid \in Users
     /\ account[uid] = "unused"
     /\ account' = [account EXCEPT ![uid] = "open"]
  \/ /\ calls[c].kind = "delete"
     /\ uid = calls[c].uid
     /\ account[uid] = "open"
     /\ account' = [account EXCEPT ![uid] = "deleted"]

AnswerOf(kind) ==
  {"ok", "failed"} \cup
  (IF kind = "create" /\ "lookup" \in Faults THEN {"noUser"} ELSE {})

BackendAccepts(c) ==
  \E uid \in UserOrNone :
    /\ Accept(c, uid)
    /\ \/ /\ calls[c].phase = "sent"
          /\ \E answer \in AnswerOf(calls[c].kind) :
               calls' = [calls EXCEPT ![c].uid = uid, ![c].phase = answer]
       \/ /\ calls[c].phase = "orphan"
          /\ calls' = [calls EXCEPT ![c] = NoCall]
    /\ UNCHANGED <<user, keychain>>

BackendRefuses(c) ==
  /\ \/ /\ calls[c].phase = "sent"
        /\ calls' = [calls EXCEPT ![c].phase = "failed"]
     \/ /\ calls[c].phase = "orphan"
        /\ calls' = [calls EXCEPT ![c] = NoCall]
  /\ UNCHANGED <<account, user, keychain>>

Backend(c) == BackendAccepts(c) \/ BackendRefuses(c)

-----------------------------------------------------------------------------
(* The work queue.  Replacing _currentUser makes every FIRUser object a    *)
(* pending call holds a different object than the current one: own is      *)
(* FALSE from then on, even if the same uid signs in again.                *)

Finish(c, phase) == [calls EXCEPT ![c].phase = phase, ![c].own = FALSE]

(* Mutant: a replaced FIRUser object still passes for the current one.     *)
Replaced_SameUid(table) == table

Replaced(table) == [c \in Calls |-> [table[c] EXCEPT !.own = FALSE]]

Stored == IF "store" \in Faults THEN BOOLEAN ELSE {TRUE}

(* Mutant: the new user is kept although it could not be saved.            *)
UpdateCurrentUser_Forced(c, uid, result, stored) ==
  /\ user' = uid
  /\ keychain' = IF stored THEN uid ELSE keychain
  /\ calls' = Replaced(Finish(c, IF stored THEN result ELSE "doneError"))

(* updateCurrentUser:byForce:NO savingToDisk:YES, then the completion.     *)
UpdateCurrentUser(c, uid, result, stored) ==
  \/ /\ uid = NoUser /\ user = NoUser
     /\ calls' = Finish(c, result)
     /\ UNCHANGED <<user, keychain>>
  \/ /\ ~(uid = NoUser /\ user = NoUser)
     /\ stored
     /\ user' = uid
     /\ keychain' = uid
     /\ calls' = Replaced(Finish(c, result))
  \/ /\ ~(uid = NoUser /\ user = NoUser)
     /\ ~stored
     /\ calls' = Finish(c, "doneError")
     /\ UNCHANGED <<user, keychain>>

(* updateCurrentUser:nil byForce:YES savingToDisk:YES: the user is gone    *)
(* from memory even when the keychain keeps the item.                      *)
ForceSignOut(table, stored) ==
  /\ user' = NoUser
  /\ keychain' = IF stored THEN NoUser ELSE keychain
  /\ calls' = Replaced(table)

(* Mutant: errors reach the caller of sign-in flows only.                  *)
ReceiveError_SignInOnly(c) ==
  /\ calls[c].phase = "failed"
  /\ calls[c].kind \in {"signIn", "create"}
  /\ calls' = Finish(c, "doneError")
  /\ UNCHANGED <<account, user, keychain>>

ReceiveError(c) ==
  /\ calls[c].phase = "failed"
  /\ calls' = Finish(c, "doneError")
  /\ UNCHANGED <<account, user, keychain>>

ReceiveSession(c, stored) ==
  /\ calls[c].kind \in {"signIn", "create"}
  /\ \/ /\ calls[c].phase = "ok"
        /\ UpdateCurrentUser(c, calls[c].uid, "doneOk", stored)
     \/ /\ calls[c].phase = "noUser"
        /\ UpdateCurrentUser(c, NoUser, "doneNil", stored)
  /\ UNCHANGED account

ReceiveReset(c) ==
  /\ calls[c].kind = "reset"
  /\ calls[c].phase = "ok"
  /\ calls' = Finish(c, "doneOk")
  /\ UNCHANGED <<account, user, keychain>>

(* The credentials count only if they are those of the user of now, and    *)
(* saving the fresh token may fail.                                        *)
ReceiveReauth(c, stored) ==
  /\ calls[c].kind = "reauth"
  /\ calls[c].phase = "ok"
  /\ calls' = Finish(c, IF calls[c].uid = user /\ stored
                          THEN "doneOk" ELSE "doneError")
  /\ UNCHANGED <<account, user, keychain>>

(* Mutant: the forced sign-out does not look at whose account is gone.     *)
ReceiveDelete_AnyUser(c, stored) ==
  /\ calls[c].kind = "delete"
  /\ calls[c].phase = "ok"
  /\ ForceSignOut(Finish(c, "doneOk"), stored)
  /\ UNCHANGED account

(* signOutByForceWithUserID: compares uids by identity of the string, so   *)
(* only the object the deletion was called on counts as the current user.  *)
ReceiveDelete(c, stored) ==
  /\ calls[c].kind = "delete"
  /\ calls[c].phase = "ok"
  /\ \/ /\ calls[c].own
        /\ ForceSignOut(Finish(c, IF stored THEN "doneOk" ELSE "doneError"), stored)
     \/ /\ ~calls[c].own
        /\ calls' = Finish(c, "doneOk")
        /\ UNCHANGED <<user, keychain>>
  /\ UNCHANGED account

Receive(c) ==
  \/ ReceiveError(c)
  \/ ReceiveReset(c)
  \/ \E stored \in Stored :
       \/ ReceiveSession(c, stored)
       \/ ReceiveReauth(c, stored)
       \/ ReceiveDelete(c, stored)

(* A token refresh of the current user is refused by the backend.          *)
RejectToken ==
  /\ user # NoUser
  /\ account[user] = "deleted" \/ "revoke" \in Faults
  /\ \E stored \in Stored : ForceSignOut(calls, stored)
  /\ UNCHANGED account

-----------------------------------------------------------------------------
(* Mutant: the slot is released, what the call was stays in it.            *)
Complete_PhaseOnly(c) ==
  /\ calls[c].phase \in Done
  /\ calls' = [calls EXCEPT ![c].phase = "idle"]
  /\ UNCHANGED <<account, user, keychain>>

(* The completion block of c has run to its end.                           *)
Complete(c) ==
  /\ calls[c].phase \in Done
  /\ calls' = [calls EXCEPT ![c] = NoCall]
  /\ UNCHANGED <<account, user, keychain>>

(* signOut:, answered at once; a keychain failure leaves everything as is. *)
SignOut ==
  /\ \/ /\ user # NoUser
        /\ user' = NoUser
        /\ keychain' = NoUser
        /\ calls' = Replaced(calls)
     \/ /\ user = NoUser \/ "store" \in Faults
        /\ UNCHANGED <<user, keychain, calls>>
  /\ UNCHANGED account

(* The process ends, at any point, and is launched again: the user comes   *)
(* from the keychain, and what the backend has not seen yet it may see     *)
(* later.                                                                  *)
Restart ==
  /\ \/ user' = keychain
     \/ user' = NoUser /\ "load" \in Faults
  /\ calls' = [c \in Calls |->
       IF /\ calls[c].phase \in {"sent", "orphan"}
          /\ calls[c].kind \in {"create", "delete"}
         THEN [calls[c] EXCEPT !.phase = "orphan", !.own = FALSE]
         ELSE NoCall]
  /\ UNCHANGED <<account, keychain>>

-----------------------------------------------------------------------------
CallStep(c) ==
  \/ \E uid \in Users : SignIn(c, uid) \/ Reauthenticate(c, uid)
  \/ CreateUser(c)
  \/ SendPasswordReset(c)
  \/ Delete(c)
  \/ Backend(c)
  \/ Receive(c)
  \/ Complete(c)

AuthNext ==
  \/ \E c \in Calls : CallStep(c)
  \/ RejectToken
  \/ SignOut
  \/ Restart

(* The backend answers or the request times out, and the work queue and    *)
(* the main queue drain.  Nothing obliges a user to do anything.           *)
AuthFairness ==
  \A c \in Calls :
    /\ WF_authVars(Backend(c))
    /\ WF_authVars(Receive(c))
    /\ WF_authVars(Complete(c))

AuthSpec == AuthInit /\ [][AuthNext]_authVars
FairAuthSpec == AuthSpec /\ AuthFairness

-----------------------------------------------------------------------------
(* Properties                                                              *)

(* Whoever is signed in is also the user in the keychain, so a restart     *)
(* never brings back a different session than the one that was lost        *)
(* (updateCurrentUser saves before it assigns _currentUser).               *)
SessionPersisted == user # NoUser => keychain = user

(* A deletion that still holds the current FIRUser object is a deletion of *)
(* the signed-in uid; this is what makes the forced sign-out safe.         *)
OwnIsCurrent ==
  \A c \in Calls : calls[c].own =>
    /\ calls[c].kind = "delete"
    /\ user # NoUser
    /\ calls[c].uid = user

(* Handling an answer ends a session only if the answer says that this     *)
(* very account has been deleted: a late answer about one account never    *)
(* signs out another (signOutByForceWithUserID).  The creation whose       *)
(* lookup failed is excepted: it makes nobody the current user (phase      *)
(* noUser, FIRAuth.m 988), whoever was signed in.                          *)
EndsOnlyOwnSession ==
  [][\A c \in Calls :
       /\ calls[c].phase \in Answered \ {"noUser"}
       /\ calls'[c].phase \in Done
       /\ user # NoUser
       /\ user' = NoUser
       => /\ calls[c].kind = "delete"
          /\ calls[c].uid = user
          /\ account[user] = "deleted"]_authVars

(* Every request that left the device ends in a completion or with the     *)
(* process: no callback of a call is dropped on the way.                   *)
CallsComplete ==
  \A c \in Calls : calls[c].phase = "sent" ~> calls[c].phase \in Done \cup {"idle", "orphan"}

=============================================================================
