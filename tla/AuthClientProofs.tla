-------------------------- MODULE AuthClientProofs --------------------------
(***************************************************************************)
(* AuthClient, for every set of accounts, calls and faults: its type       *)
(* invariant, that the signed-in user is the saved one, and that no answer *)
(* ends the session of another account.                                    *)
(***************************************************************************)
EXTENDS AuthClient, TLAPS

(* A deletion reported to the device has happened at the backend.          *)
DeletionsHappened ==
  \A c \in Calls :
    calls[c].kind = "delete" /\ calls[c].phase = "ok" => account[calls[c].uid] = "deleted"

(* A creation reported as a success names the account it made.             *)
CreationsNamed ==
  \A c \in Calls :
    calls[c].kind = "create" /\ calls[c].phase \in {"ok", "doneOk"} => calls[c].uid # NoUser

(* The inductive invariant: what answers may be trusted for.               *)
IInv ==
  /\ TypeOK
  /\ SessionPersisted
  /\ OwnIsCurrent
  /\ DeletionsHappened
  /\ CreationsNamed

LEMMA NoCallTyped == NoCall \in Call
  BY NoUserAssumption DEF NoCall, Call, Kinds, UserOrNone, Phases, Done, Answered

(* What Call says of a record, field by field, and back.                   *)
LEMMA CallFields ==
  \A c \in Call :
    /\ c = [kind |-> c.kind, uid |-> c.uid, phase |-> c.phase, own |-> c.own]
    /\ c.kind \in Kinds /\ c.uid \in UserOrNone /\ c.phase \in Phases /\ c.own \in BOOLEAN
    /\ c.phase = "idle" <=> c.kind = "none"
    /\ c.phase \in {"noUser", "doneNil"} => c.kind = "create"
    /\ c.own => c.kind = "delete"
    /\ c.kind \in {"signIn", "reauth", "delete"} => c.uid # NoUser
  BY DEF Call

(* The records the work queue and the backend put in the table are calls.  *)
LEMMA FinishTyped ==
  ASSUME TypeOK, NEW c \in Calls, NEW p \in Done,
         calls[c].kind # "none", p = "doneNil" => calls[c].kind = "create"
  PROVE  Finish(c, p) \in [Calls -> Call]
  <1>1. [calls[c] EXCEPT !.phase = p, !.own = FALSE] \in Call
    BY DEF TypeOK, Call, Phases, Done
  <1>. QED
    BY <1>1 DEF TypeOK, Finish

LEMMA ReplacedTyped ==
  ASSUME NEW table \in [Calls -> Call]
  PROVE  Replaced(table) \in [Calls -> Call]
  <1>1. \A r \in Call : [r EXCEPT !.own = FALSE] \in Call
    BY DEF Call
  <1>. QED
    BY <1>1 DEF Replaced

LEMMA InitInv == AuthInit => IInv
  BY NoCallTyped DEF AuthInit, IInv, TypeOK, SessionPersisted, OwnIsCurrent,
     DeletionsHappened, CreationsNamed, UserOrNone, NoCall

-----------------------------------------------------------------------------
(* Making, answering and completing calls.                                 *)

LEMMA SendInv ==
  ASSUME IInv, NEW c \in Calls, NEW kind \in Kinds \ {"none"},
         NEW uid \in UserOrNone, NEW own \in BOOLEAN,
         own => kind = "delete" /\ uid = user,
         kind \in {"signIn", "reauth", "delete"} => uid # NoUser,
         Send(c, kind, uid, own)
  PROVE  IInv'
  <1>1. [kind |-> kind, uid |-> uid, phase |-> "sent", own |-> own] \in Call
    BY DEF Call, Kinds, Phases, Done, Answered
  <1>2. TypeOK'
    BY <1>1 DEF IInv, TypeOK, Send
  <1>3. SessionPersisted'
    BY DEF IInv, SessionPersisted, Send
  <1>4. OwnIsCurrent'
    BY DEF IInv, TypeOK, OwnIsCurrent, Send
  <1>5. DeletionsHappened'
    BY DEF IInv, TypeOK, DeletionsHappened, Send
  <1>6. CreationsNamed'
    BY DEF IInv, TypeOK, CreationsNamed, Send
  <1>. QED
    BY <1>2, <1>3, <1>4, <1>5, <1>6 DEF IInv

LEMMA BackendInv ==
  ASSUME IInv, NEW c \in Calls, Backend(c)
  PROVE  IInv'
  <1>1. CASE BackendAccepts(c)
    <2>1. PICK uid \in UserOrNone :
            /\ Accept(c, uid)
            /\ \/ /\ calls[c].phase = "sent"
                  /\ \E answer \in AnswerOf(calls[c].kind) :
                       calls' = [calls EXCEPT ![c].uid = uid, ![c].phase = answer]
               \/ /\ calls[c].phase = "orphan"
                  /\ calls' = [calls EXCEPT ![c] = NoCall]
            /\ UNCHANGED <<user, keychain>>
      BY <1>1 DEF BackendAccepts
    <2>2. account' \in [Users -> {"unused", "open", "deleted"}]
      BY <2>1 DEF IInv, TypeOK, Accept
    <2>3. \A u \in Users : account[u] = "deleted" => account'[u] = "deleted"
      BY <2>1 DEF IInv, TypeOK, Accept
    <2>4. CASE /\ calls[c].phase = "orphan"
               /\ calls' = [calls EXCEPT ![c] = NoCall]
      <3>1. TypeOK'
        BY <2>1, <2>2, <2>4, NoCallTyped DEF IInv, TypeOK
      <3>2. SessionPersisted' /\ OwnIsCurrent'
        BY <2>1, <2>4 DEF IInv, TypeOK, SessionPersisted, OwnIsCurrent, NoCall
      <3>3. DeletionsHappened'
        BY <2>3, <2>4 DEF IInv, TypeOK, DeletionsHappened, NoCall, Call, UserOrNone
      <3>4. CreationsNamed'
        BY <2>4 DEF IInv, TypeOK, CreationsNamed, NoCall
      <3>. QED
        BY <3>1, <3>2, <3>3, <3>4 DEF IInv
    <2>5. CASE /\ calls[c].phase = "sent"
               /\ \E answer \in AnswerOf(calls[c].kind) :
                    calls' = [calls EXCEPT ![c].uid = uid, ![c].phase = answer]
      <3>1. PICK answer \in AnswerOf(calls[c].kind) :
              calls' = [calls EXCEPT ![c] = [[@ EXCEPT !.uid = uid] EXCEPT !.phase = answer]]
        BY <2>5
      <3>2. [[calls[c] EXCEPT !.uid = uid] EXCEPT !.phase = answer] \in Call
        BY <2>1, <2>5 DEF IInv, TypeOK, Call, Accept, AnswerOf, Phases, Answered, Kinds
      <3>3. TypeOK'
        BY <2>1, <2>2, <3>1, <3>2 DEF IInv, TypeOK
      <3>4. SessionPersisted'
        BY <2>1 DEF IInv, SessionPersisted
      <3>5. OwnIsCurrent'
        BY <2>1, <3>1 DEF IInv, TypeOK, OwnIsCurrent, Accept, Call
      <3>6. DeletionsHappened'
        <4>1. SUFFICES ASSUME NEW d \in Calls, calls'[d].kind = "delete", calls'[d].phase = "ok"
                       PROVE  account'[calls'[d].uid] = "deleted"
          BY DEF DeletionsHappened
        <4>2. CASE d = c
          <5>1. calls[c].kind = "delete" /\ calls'[c].uid = uid
            BY <3>1, <4>1, <4>2 DEF IInv, TypeOK, Call
          <5>2. uid \in Users
            BY <2>1, <5>1, CallFields DEF IInv, TypeOK, Accept, UserOrNone
          <5>. QED
            BY <2>1, <4>2, <5>1, <5>2 DEF IInv, TypeOK, Accept
        <4>3. CASE d # c
          <5>1. calls'[d] = calls[d]
            BY <3>1, <4>3 DEF IInv, TypeOK
          <5>2. calls[d].uid \in Users
            BY <4>1, <5>1, CallFields DEF IInv, TypeOK, UserOrNone
          <5>. QED
            BY <2>3, <4>1, <5>1, <5>2 DEF IInv, DeletionsHappened
        <4>. QED
          BY <4>2, <4>3
      <3>7. CreationsNamed'
        BY <2>1, <3>1, NoUserAssumption DEF IInv, TypeOK, CreationsNamed, Accept, Call
      <3>. QED
        BY <3>3, <3>4, <3>5, <3>6, <3>7 DEF IInv
    <2>. QED
      BY <2>1, <2>4, <2>5
  <1>2. CASE BackendRefuses(c)
    <2>1. \A r \in Call : r.phase = "sent" => [r EXCEPT !.phase = "failed"] \in Call
      BY DEF Call, Phases, Answered
    <2>2. TypeOK'
      BY <1>2, <2>1, NoCallTyped DEF IInv, TypeOK, BackendRefuses
    <2>3. SessionPersisted' /\ OwnIsCurrent' /\ DeletionsHappened' /\ CreationsNamed'
      BY <1>2 DEF IInv, TypeOK, SessionPersisted, OwnIsCurrent, DeletionsHappened, CreationsNamed,
         BackendRefuses, NoCall, Call
    <2>. QED
      BY <2>2, <2>3 DEF IInv
  <1>. QED
    BY <1>1, <1>2 DEF Backend

LEMMA CompleteInv ==
  ASSUME IInv, NEW c \in Calls, Complete(c)
  PROVE  IInv'
  BY NoCallTyped DEF IInv, TypeOK, SessionPersisted, OwnIsCurrent, DeletionsHappened,
     CreationsNamed, Complete, NoCall

-----------------------------------------------------------------------------
(* Replacing the current user.                                             *)

(* A table that claims no more success of a call than it has had.          *)
Follows(table) ==
  \A d \in Calls :
    /\ table[d].kind = calls[d].kind
    /\ table[d].uid = calls[d].uid
    /\ table[d].phase = "ok" => calls[d].phase = "ok"
    /\ table[d].kind = "create" /\ table[d].phase = "doneOk" => calls[d].phase \in {"ok", "doneOk"}

LEMMA ReplaceInv ==
  ASSUME IInv, NEW table \in [Calls -> Call], NEW uid \in UserOrNone,
         Follows(table),
         calls' = Replaced(table), user' = uid,
         keychain' \in UserOrNone, uid # NoUser => keychain' = uid,
         UNCHANGED account
  PROVE  IInv'
  <1>1. TypeOK'
    BY ReplacedTyped DEF IInv, TypeOK
  <1>2. SessionPersisted'
    BY DEF SessionPersisted
  <1>3. \A d \in Calls : /\ calls'[d].own = FALSE
                         /\ calls'[d].kind = calls[d].kind
                         /\ calls'[d].uid = calls[d].uid
                         /\ calls'[d].phase = table[d].phase
    BY DEF Replaced, Call, Follows
  <1>4. OwnIsCurrent' /\ DeletionsHappened' /\ CreationsNamed'
    BY <1>3 DEF IInv, OwnIsCurrent, DeletionsHappened, CreationsNamed, Follows
  <1>. QED
    BY <1>1, <1>2, <1>4 DEF IInv

-----------------------------------------------------------------------------
(* What the work queue does with an answer.                                *)

(* Finish touches one call, and only its phase and ownership.              *)
LEMMA FinishInv ==
  ASSUME IInv, NEW c \in Calls, NEW p \in Done,
         calls[c].kind # "none", p = "doneNil" => calls[c].kind = "create",
         p = "doneOk" /\ calls[c].kind = "create" => calls[c].phase = "ok",
         calls' = Finish(c, p), UNCHANGED <<account, user, keychain>>
  PROVE  IInv'
  <1>1. TypeOK'
    BY FinishTyped DEF IInv, TypeOK
  <1>2. SessionPersisted'
    BY DEF IInv, SessionPersisted
  <1>3. OwnIsCurrent' /\ DeletionsHappened' /\ CreationsNamed'
    BY DEF IInv, TypeOK, OwnIsCurrent, DeletionsHappened, CreationsNamed, Finish, Done, Call
  <1>. QED
    BY <1>1, <1>2, <1>3 DEF IInv

(* The same table, seen by the lemmas that replace the user.               *)
LEMMA FinishFollows ==
  ASSUME TypeOK, NEW c \in Calls, NEW p \in Done,
         p = "doneOk" /\ calls[c].kind = "create" => calls[c].phase = "ok"
  PROVE  Follows(Finish(c, p))
  BY DEF TypeOK, Call, Finish, Done, Follows

LEMMA UpdateCurrentUserInv ==
  ASSUME IInv, NEW c \in Calls, NEW uid \in UserOrNone, NEW result \in Done,
         NEW stored \in BOOLEAN, calls[c].kind # "none",
         result = "doneNil" => calls[c].kind = "create",
         result = "doneOk" => calls[c].phase = "ok",
         UpdateCurrentUser(c, uid, result, stored), UNCHANGED account
  PROVE  IInv'
  <1>1. "doneError" \in Done
    BY DEF Done
  <1>2. CASE calls' = Finish(c, result) /\ UNCHANGED <<user, keychain>>
    BY <1>2, FinishInv
  <1>3. CASE calls' = Finish(c, "doneError") /\ UNCHANGED <<user, keychain>>
    BY <1>1, <1>3, FinishInv
  <1>4. CASE user' = uid /\ keychain' = uid /\ calls' = Replaced(Finish(c, result))
    <2>1. Finish(c, result) \in [Calls -> Call]
      BY FinishTyped DEF IInv
    <2>2. TypeOK
      BY DEF IInv
    <2>. QED
      BY <1>4, <2>1, <2>2, FinishFollows, ReplaceInv
  <1>. QED
    BY <1>2, <1>3, <1>4 DEF UpdateCurrentUser

LEMMA ForceSignOutInv ==
  ASSUME IInv, NEW table \in [Calls -> Call], NEW stored \in BOOLEAN,
         Follows(table),
         ForceSignOut(table, stored), UNCHANGED account
  PROVE  IInv'
  <1>1. keychain' \in UserOrNone /\ user' = NoUser /\ NoUser \in UserOrNone
    BY DEF ForceSignOut, IInv, TypeOK, UserOrNone
  <1>2. calls' = Replaced(table)
    BY DEF ForceSignOut
  <1>. QED
    BY <1>1, <1>2, ReplaceInv

LEMMA ReceiveInv ==
  ASSUME IInv, NEW c \in Calls, Receive(c)
  PROVE  IInv'
  <1>1. /\ "doneOk" \in Done /\ "doneNil" \in Done /\ "doneError" \in Done
        /\ TypeOK /\ calls[c] \in Call
    BY DEF Done, IInv, TypeOK
  <1>2. CASE ReceiveError(c)
    <2>1. calls[c].kind # "none"
      BY <1>1, <1>2 DEF ReceiveError, Call
    <2>. QED
      BY <1>1, <1>2, <2>1, FinishInv DEF ReceiveError
  <1>3. CASE ReceiveReset(c)
    BY <1>1, <1>3, FinishInv DEF ReceiveReset
  <1>4. ASSUME NEW stored \in Stored, ReceiveSession(c, stored)
        PROVE  IInv'
    <2>1. stored \in BOOLEAN /\ calls[c].uid \in UserOrNone /\ NoUser \in UserOrNone
      BY <1>1 DEF Stored, Call, UserOrNone
    <2>2. calls[c].kind # "none" /\ UNCHANGED account
      BY <1>4 DEF ReceiveSession
    <2>3. CASE calls[c].phase = "ok" /\ UpdateCurrentUser(c, calls[c].uid, "doneOk", stored)
      BY <1>1, <2>1, <2>2, <2>3, UpdateCurrentUserInv
    <2>4. CASE calls[c].phase = "noUser" /\ UpdateCurrentUser(c, NoUser, "doneNil", stored)
      <3>1. calls[c].kind = "create"
        BY <1>1, <2>4 DEF Call
      <3>. QED
        BY <1>1, <2>1, <2>2, <2>4, <3>1, UpdateCurrentUserInv
    <2>. QED
      BY <1>4, <2>3, <2>4 DEF ReceiveSession
  <1>5. ASSUME NEW stored \in Stored, ReceiveReauth(c, stored)
        PROVE  IInv'
    <2>1. PICK p \in {"doneOk", "doneError"} : calls' = Finish(c, p)
      BY <1>5 DEF ReceiveReauth
    <2>2. p \in Done /\ p # "doneNil" /\ calls[c].kind = "reauth"
      BY <1>5 DEF Done, ReceiveReauth
    <2>. QED
      BY <1>5, <2>1, <2>2, FinishInv DEF ReceiveReauth
  <1>6. ASSUME NEW stored \in Stored, ReceiveDelete(c, stored)
        PROVE  IInv'
    <2>1. stored \in BOOLEAN /\ calls[c].kind = "delete" /\ UNCHANGED account
      BY <1>6 DEF Stored, ReceiveDelete
    <2>2. CASE calls' = Finish(c, "doneOk") /\ UNCHANGED <<user, keychain>>
      BY <1>1, <2>1, <2>2, FinishInv
    <2>3. CASE ForceSignOut(Finish(c, IF stored THEN "doneOk" ELSE "doneError"), stored)
      <3>1. PICK p \in Done : /\ p # "doneNil"
                              /\ ForceSignOut(Finish(c, p), stored)
        BY <1>1, <2>3
      <3>2. Finish(c, p) \in [Calls -> Call]
        BY <1>1, <2>1, <3>1, FinishTyped
      <3>. QED
        BY <1>1, <2>1, <3>1, <3>2, FinishFollows, ForceSignOutInv
    <2>. QED
      BY <1>6, <2>2, <2>3 DEF ReceiveDelete
  <1>. QED
    BY <1>2, <1>3, <1>4, <1>5, <1>6 DEF Receive

-----------------------------------------------------------------------------
(* What happens without a call.                                            *)

LEMMA RejectTokenInv ==
  ASSUME IInv, RejectToken
  PROVE  IInv'
  <1>1. PICK stored \in Stored : ForceSignOut(calls, stored) /\ UNCHANGED account
    BY DEF RejectToken
  <1>2. stored \in BOOLEAN /\ calls \in [Calls -> Call] /\ Follows(calls)
    BY DEF Stored, IInv, TypeOK, Follows
  <1>. QED
    BY <1>1, <1>2, ForceSignOutInv

LEMMA SignOutInv ==
  ASSUME IInv, SignOut
  PROVE  IInv'
  <1>1. CASE user' = NoUser /\ keychain' = NoUser /\ calls' = Replaced(calls)
    <2>1. /\ calls \in [Calls -> Call] /\ NoUser \in UserOrNone
          /\ Follows(calls) /\ UNCHANGED account
      BY DEF SignOut, IInv, TypeOK, UserOrNone, Follows
    <2>. QED
      BY <1>1, <2>1, ReplaceInv
  <1>2. CASE UNCHANGED <<user, keychain, calls>>
    BY <1>2 DEF SignOut, IInv, TypeOK, SessionPersisted, OwnIsCurrent, DeletionsHappened, CreationsNamed
  <1>. QED
    BY <1>1, <1>2 DEF SignOut

LEMMA RestartInv ==
  ASSUME IInv, Restart
  PROVE  IInv'
  <1>1. \A r \in Call : r.kind \in {"create", "delete"} =>
          [r EXCEPT !.phase = "orphan", !.own = FALSE] \in Call
    BY DEF Call, Phases, Done
  <1>2. TypeOK'
    BY <1>1, NoCallTyped DEF IInv, TypeOK, Restart, UserOrNone
  <1>3. SessionPersisted'
    BY DEF IInv, SessionPersisted, Restart
  <1>4. \A d \in Calls : calls'[d].own = FALSE /\ calls'[d].phase \notin {"ok", "doneOk"}
    BY DEF IInv, TypeOK, Restart, NoCall, Call
  <1>5. OwnIsCurrent' /\ DeletionsHappened' /\ CreationsNamed'
    BY <1>4 DEF OwnIsCurrent, DeletionsHappened, CreationsNamed
  <1>. QED
    BY <1>2, <1>3, <1>5 DEF IInv

LEMMA CallStepInv ==
  ASSUME IInv, NEW c \in Calls, CallStep(c)
  PROVE  IInv'
  <1>1. ASSUME NEW uid \in Users, SignIn(c, uid) \/ Reauthenticate(c, uid)
        PROVE  IInv'
    <2>1. uid \in UserOrNone /\ uid # NoUser
      BY NoUserAssumption DEF UserOrNone
    <2>2. PICK kind \in {"signIn", "reauth"} : Send(c, kind, uid, FALSE)
      BY <1>1 DEF SignIn, Reauthenticate
    <2>3. kind \in Kinds \ {"none"}
      BY DEF Kinds
    <2>. QED
      BY <2>1, <2>2, <2>3, SendInv
  <1>2. CASE CreateUser(c) \/ SendPasswordReset(c)
    <2>1. PICK kind \in {"create", "reset"} : Send(c, kind, NoUser, FALSE)
      BY <1>2 DEF CreateUser, SendPasswordReset
    <2>2. kind \in Kinds \ {"none"} /\ NoUser \in UserOrNone
      BY DEF Kinds, UserOrNone
    <2>. QED
      BY <2>1, <2>2, SendInv
  <1>3. CASE Delete(c)
    <2>1. user \in UserOrNone /\ user # NoUser /\ Send(c, "delete", user, TRUE)
      BY <1>3 DEF Delete, IInv, TypeOK
    <2>2. "delete" \in Kinds \ {"none"}
      BY DEF Kinds
    <2>. QED
      BY <2>1, <2>2, SendInv
  <1>. QED
    BY <1>1, <1>2, <1>3, BackendInv, ReceiveInv, CompleteInv DEF CallStep

LEMMA NextInv == IInv /\ [AuthNext]_authVars => IInv'
  <1>1. SUFFICES ASSUME IInv, [AuthNext]_authVars
                 PROVE  IInv'
    OBVIOUS
  <1>2. CASE UNCHANGED authVars
    BY <1>1, <1>2 DEF authVars, IInv, TypeOK, SessionPersisted, OwnIsCurrent, DeletionsHappened, CreationsNamed
  <1>. QED
    BY <1>1, <1>2, CallStepInv, RejectTokenInv, SignOutInv, RestartInv DEF AuthNext

-----------------------------------------------------------------------------
(* The invariant of every behaviour, and what it implies.                  *)

(* IInv holds throughout every behaviour of the client and the backend.    *)
THEOREM Invariance == AuthSpec => []IInv
  BY InitInv, NextInv, PTL DEF AuthSpec

(* The four variables keep their types.                                    *)
THEOREM Typed == AuthSpec => []TypeOK
  <1>1. IInv => TypeOK
    BY DEF IInv
  <1>. QED
    BY <1>1, Invariance, PTL

(* Whoever is signed in is the user that is saved: updateCurrentUser and   *)
(* the two sign-outs never leave a session that a launch would replace.    *)
THEOREM Persisted == AuthSpec => []SessionPersisted
  <1>1. IInv => SessionPersisted
    BY DEF IInv
  <1>. QED
    BY <1>1, Invariance, PTL

(* A deletion that may still force a sign-out is one of the signed-in uid. *)
THEOREM Owned == AuthSpec => []OwnIsCurrent
  <1>1. IInv => OwnIsCurrent
    BY DEF IInv
  <1>. QED
    BY <1>1, Invariance, PTL

-----------------------------------------------------------------------------
(* What handling an answer may do to the session.                          *)

EndsOwn(c) ==
  /\ calls[c].phase \in Answered \ {"noUser"}
  /\ calls'[c].phase \in Done
  /\ user # NoUser
  /\ user' = NoUser
  => /\ calls[c].kind = "delete"
     /\ calls[c].uid = user
     /\ account[user] = "deleted"

(* Handling the answer of one call leaves the phase of the others alone.   *)
LEMMA ReceiveKeepsOthers ==
  ASSUME TypeOK, NEW c \in Calls, Receive(c), NEW d \in Calls, d # c
  PROVE  calls'[d].phase = calls[d].phase
  <1>1. PICK p \in Phases : \/ calls' = Finish(c, p)
                           \/ calls' = Replaced(Finish(c, p))
    BY DEF Receive, ReceiveError, ReceiveReset, ReceiveSession, ReceiveReauth,
       ReceiveDelete, UpdateCurrentUser, ForceSignOut, Phases, Done
  <1>2. Finish(c, p)[d] = calls[d]
    BY DEF TypeOK, Finish
  <1>3. Replaced(Finish(c, p))[d] = [calls[d] EXCEPT !.own = FALSE]
    BY <1>2 DEF Replaced
  <1>4. [calls[d] EXCEPT !.own = FALSE].phase = calls[d].phase
    BY DEF TypeOK, Call
  <1>. QED
    BY <1>1, <1>2, <1>3, <1>4

LEMMA ReceiveEndsOwn ==
  ASSUME IInv, NEW c \in Calls, Receive(c)
  PROVE  EndsOwn(c)
  <1>1. SUFFICES ASSUME calls[c].phase \in Answered \ {"noUser"}, user # NoUser, user' = NoUser
                 PROVE  /\ calls[c].kind = "delete"
                        /\ calls[c].uid = user
                        /\ account[user] = "deleted"
    BY DEF EndsOwn
  <1>2. PICK stored \in Stored : ReceiveSession(c, stored) \/ ReceiveDelete(c, stored)
    BY <1>1 DEF Receive, ReceiveError, ReceiveReset, ReceiveReauth
  <1>3. CASE ReceiveSession(c, stored)
    <2>1. user' = calls[c].uid \/ user' = user
      BY <1>1, <1>3 DEF ReceiveSession, UpdateCurrentUser
    <2>2. calls[c].kind = "signIn" => calls[c].uid # NoUser
      BY CallFields DEF IInv, TypeOK
    <2>3. calls[c].kind = "create" /\ calls[c].phase = "ok" => calls[c].uid # NoUser
      BY DEF IInv, CreationsNamed
    <2>. QED
      BY <1>1, <1>3, <2>1, <2>2, <2>3 DEF ReceiveSession
  <1>4. CASE ReceiveDelete(c, stored)
    BY <1>1, <1>4 DEF ReceiveDelete, IInv, OwnIsCurrent, DeletionsHappened, CreationsNamed
  <1>. QED
    BY <1>2, <1>3, <1>4

(* No answer ends the session of another account: EndsOnlyOwnSession, for  *)
(* every number of accounts and of calls in flight.                        *)
THEOREM EndsOnlyOwn == AuthSpec => EndsOnlyOwnSession
  <1>1. ASSUME IInv, [AuthNext]_authVars, NEW c \in Calls
        PROVE  EndsOwn(c) \/ UNCHANGED authVars
    <2>1. CASE \E d \in Calls : Receive(d)
      <3>1. PICK d \in Calls : Receive(d)
        BY <2>1
      <3>2. CASE d = c
        BY <1>1, <3>1, <3>2, ReceiveEndsOwn
      <3>3. CASE d # c
        <4>1. calls'[c].phase = calls[c].phase
          BY <1>1, <3>1, <3>3, ReceiveKeepsOthers DEF IInv
        <4>. QED
          BY <4>1 DEF EndsOwn, Done, Answered
      <3>. QED
        BY <3>2, <3>3
    <2>2. CASE RejectToken \/ SignOut
      <3>1. calls'[c].phase = calls[c].phase
        BY <1>1, <2>2 DEF IInv, TypeOK, RejectToken, SignOut, ForceSignOut, Replaced, Call
      <3>. QED
        BY <3>1 DEF EndsOwn, Done, Answered
    <2>3. CASE Restart
      <3>1. calls'[c].phase \notin Done
        BY <1>1, <2>3 DEF IInv, TypeOK, Restart, NoCall, Call, Done
      <3>. QED
        BY <3>1 DEF EndsOwn
    <2>4. ASSUME NEW d \in Calls, CallStep(d), ~Receive(d)
          PROVE  EndsOwn(c)
      <3>1. user' = user
        BY <2>4 DEF CallStep, SignIn, Reauthenticate, CreateUser, SendPasswordReset, Delete,
           Send, Backend, BackendAccepts, BackendRefuses, Complete
      <3>. QED
        BY <3>1 DEF EndsOwn
    <2>. QED
      BY <1>1, <2>1, <2>2, <2>3, <2>4 DEF AuthNext
  <1>2. IInv /\ [AuthNext]_authVars =>
          [\A c \in Calls :
             /\ calls[c].phase \in Answered \ {"noUser"}
             /\ calls'[c].phase \in Done
             /\ user # NoUser
             /\ user' = NoUser
             => /\ calls[c].kind = "delete"
                /\ calls[c].uid = user
                /\ account[user] = "deleted"]_authVars
    BY <1>1 DEF EndsOwn
  <1>. QED
    BY <1>2, Invariance, PTL DEF AuthSpec, EndsOnlyOwnSession
=============================================================================
