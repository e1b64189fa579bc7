--------------------------- MODULE SessionProofs ---------------------------
(***************************************************************************)
(* Proofs about Session, for any number of operations and users and any    *)
(* life of a token.                                                        *)
(*                                                                         *)
(* A token that may still get into the storage is held by an operation     *)
(* that is Storing, so a quiet logout leaves none behind (UserInv).  And   *)
(* no token outlives the last one issued to its user (LifeInv).            *)
(***************************************************************************)
EXTENDS Session, TLAPS

(* Who an operation acts for: a login its user, a refresh and all others   *)
(* the user of the token they were sent with.                              *)
ActsFor(o) ==
  /\ reply[o] \in Token =>
       /\ kind[o] = "login" => reply[o].sub = user[o]
       /\ kind[o] = "refresh" => sent[o] # None /\ reply[o].sub = sent[o].sub
  /\ ran[o] \in Users => sent[o] # None /\ ran[o] = sent[o].sub

UserInv ==
  /\ stored # None => stored.sub \in since
  /\ \A o \in Ops :
       /\ ActsFor(o)
       /\ recent[o] /\ sent[o] # None => sent[o].sub \in since
       /\ Storing(o) /\ kind[o] = "login" => user[o] \in since
       /\ Storing(o) /\ kind[o] = "refresh" => sent[o].sub \in since
       /\ at[o] \in {"idle", "ask"} =>
            net[o] = "none" /\ reply[o] = None /\ ran[o] = None
       /\ at[o] = "body" \/ net[o] = "reply" => reply[o] # None

Lives(t) == t \in Token => t.exp <= issued[t.sub] + TTL

LifeInv ==
  /\ Lives(stored)
  /\ \A o \in Ops : Lives(sent[o]) /\ Lives(reply[o])
  /\ \A u \in Users : issued[u] <= now

SessionInv == TypeOK /\ UserInv /\ LifeInv

LEMMA Initial == Init => SessionInv
<1> USE SessionAssumption DEF Init
<1>1. Init => TypeOK
  BY DEF TypeOK, Place, Waiting, Kinds
<1>2. Init => UserInv
  BY DEF UserInv, ActsFor, Storing, Waiting
<1>3. Init => LifeInv
  BY DEF LifeInv, Lives
<1> QED BY <1>1, <1>2, <1>3 DEF SessionInv

LEMMA IssueType ==
  ASSUME TypeOK, NEW u \in Users
  PROVE  issueToken(u) \in Token /\ issueToken(u).sub = u /\ issueToken(u).exp = now + TTL
BY SessionAssumption DEF issueToken, Token, TypeOK

-----------------------------------------------------------------------------
(* The operations of the client *)

LEMMA StartKeeps == ASSUME SessionInv, NEW o \in Ops, Start(o) PROVE SessionInv'
<1> USE SessionAssumption
    DEF Begin, Goto, request, server, history, Place, Waiting, Kinds, WithToken
<1>1. TypeOK'
  <2>1. ASSUME NEW u \in Users, login(o, u) PROVE TypeOK'
    BY <2>1 DEF login, SessionInv, TypeOK, UserInv
  <2>2. CASE refreshToken(o) \/ logout(o) \/ me(o)
    BY <2>2 DEF refreshToken, logout, me, SessionInv, TypeOK, UserInv
  <2>3. ASSUME NEW s \in BOOLEAN, call(o, s) PROVE TypeOK'
    BY <2>3 DEF call, SessionInv, TypeOK, UserInv
  <2> QED BY <2>1, <2>2, <2>3 DEF Start
<1>2. UserInv'
  <2>1. ASSUME NEW u \in Users, login(o, u) PROVE UserInv'
    BY <2>1 DEF login, SessionInv, TypeOK, UserInv, ActsFor, Storing
  <2>2. CASE refreshToken(o) \/ logout(o) \/ me(o)
    BY <2>2 DEF refreshToken, logout, me, SessionInv, TypeOK, UserInv, ActsFor, Storing
  <2>3. ASSUME NEW s \in BOOLEAN, call(o, s) PROVE UserInv'
    BY <2>3 DEF call, SessionInv, TypeOK, UserInv, ActsFor, Storing
  <2> QED BY <2>1, <2>2, <2>3 DEF Start
<1>3. LifeInv'
  BY DEF Start, login, refreshToken, logout, me, call, SessionInv, LifeInv, Lives
<1> QED BY <1>1, <1>2, <1>3 DEF SessionInv

LEMMA SendKeeps == ASSUME SessionInv, NEW o \in Ops, Send(o) PROVE SessionInv'
<1> USE SessionAssumption DEF Send, Goto, request, server, SessionInv
<1>1. PICK token \in {stored, None} : sent' = [sent EXCEPT ![o] = token]
  OBVIOUS
<1>2. TypeOK'
  BY <1>1 DEF TypeOK, Place, Waiting
<1>3. UserInv'
  BY <1>1 DEF TypeOK, UserInv, ActsFor, Storing, Place, Waiting
<1>4. LifeInv'
  BY <1>1 DEF TypeOK, LifeInv, Lives
<1> QED BY <1>2, <1>3, <1>4

(* What an operation that ends does to the storage: it removes the token,  *)
(* leaves it, or stores the one that it was answered with.                 *)
EndsWith(o, token) ==
  /\ at[o] \in Waiting
  /\ Ends(o)
  /\ stored' = token
  /\ kind[o] = "logout" => token = None
  /\ kind[o] # "logout" => token = stored \/ (token = reply[o] /\ token \in Token)
  /\ UNCHANGED <<now, request, net, sent, server>>

LEMMA EndsKeeps ==
  ASSUME SessionInv, NEW o \in Ops, NEW token, EndsWith(o, token)
  PROVE  SessionInv'
<1> USE SessionAssumption DEF EndsWith, Ends, Goto, request, server, history, SessionInv
<1>1. TypeOK'
  <2>1. stored' \in Token \union {None}
    BY DEF TypeOK
  <2>2. since' \in SUBSET Users /\ recent' \in [Ops -> BOOLEAN]
    BY DEF TypeOK
  <2>3. /\ at' \in [Ops -> Place]
        /\ \A p \in Ops : at'[p] # "idle" => kind[p] \in Kinds
    BY DEF TypeOK, Place, Waiting
  <2>4. UNCHANGED <<now, kind, user, signal, net, sent, reply, ran, issued>>
    OBVIOUS
  <2> QED BY <2>1, <2>2, <2>3, <2>4 DEF TypeOK
<1>2. CASE kind[o] = "logout" /\ \A p \in Ops : ~Storing(p)
  <2>1. UserInv'
    BY <1>2 DEF TypeOK, UserInv, ActsFor, Storing, Waiting, Place
  <2>2. LifeInv'
    BY <1>2 DEF TypeOK, LifeInv, Lives
  <2> QED BY <1>1, <2>1, <2>2
<1>3. CASE ~(kind[o] = "logout" /\ \A p \in Ops : ~Storing(p))
  <2>1. UNCHANGED <<since, recent>>
    BY <1>3
  <2>2. token # None => token.sub \in since
    BY DEF TypeOK, UserInv, ActsFor, Storing, Waiting, WithToken
  <2>3. UserInv'
    BY <2>1, <2>2 DEF TypeOK, UserInv, ActsFor, Storing, Waiting, Place
  <2>4. LifeInv'
    BY DEF TypeOK, LifeInv, Lives
  <2> QED BY <1>1, <2>3, <2>4
<1> QED BY <1>2, <1>3

LEMMA ClientKeeps ==
  ASSUME SessionInv, NEW o \in Ops,
         Headers(o) \/ Settle(o) \/ FetchFails(o) \/ TimeOut(o) \/ Abort(o)
  PROVE  SessionInv'
<1>1. CASE Headers(o)
  BY <1>1 DEF Headers, Goto, request, server, history, SessionInv, TypeOK, UserInv, ActsFor,
     Storing, LifeInv, Lives, Waiting, Place
<1>2. CASE FetchFails(o)
  <2>1. PICK token : token = stored'
    OBVIOUS
  <2>2. EndsWith(o, token)
    BY <1>2, <2>1 DEF FetchFails, EndsWith
  <2> QED BY <2>2, EndsKeeps
<1>3. CASE TimeOut(o) \/ Abort(o)
  <2>1. PICK token : token = stored
    OBVIOUS
  <2>2. EndsWith(o, token)
    BY <1>3, <2>1 DEF TimeOut, Abort, EndsWith, Waiting
  <2> QED BY <2>2, EndsKeeps
<1>4. CASE Settle(o)
  <2>1. PICK token : token = stored'
    OBVIOUS
  <2>2. reply[o] \notin {Done, Refused} => reply[o] \in Token
    BY <1>4 DEF Settle, SessionInv, TypeOK, UserInv
  <2>3. EndsWith(o, token)
    BY <1>4, <2>1, <2>2 DEF Settle, EndsWith, Waiting
  <2> QED BY <2>3, EndsKeeps
<1> QED BY <1>1, <1>2, <1>3, <1>4

-----------------------------------------------------------------------------
(* The servers *)

LEMMA ServerKeeps == ASSUME SessionInv, NEW o \in Ops, ServerStep(o) PROVE SessionInv'
<1> USE SessionAssumption
    DEF Answer, Issue, request, server, history, SessionInv
<1>1. CASE handleAuthLogin(o)
  <2>1. user[o] \in Users
    BY <1>1 DEF handleAuthLogin, TypeOK
  <2>2. PICK token : /\ token = issueToken(user[o]) /\ token \in Token
                     /\ token.sub = user[o] /\ token.exp = now + TTL
    BY <2>1, IssueType
  <2>3. TypeOK'
    BY <1>1, <2>1, <2>2 DEF handleAuthLogin, TypeOK, WithToken
  <2>4. UserInv'
    BY <1>1, <2>2 DEF handleAuthLogin, TypeOK, UserInv, ActsFor, Storing, Waiting
  <2>5. LifeInv'
    BY <1>1, <2>1, <2>2 DEF handleAuthLogin, TypeOK, LifeInv, Lives, Token
  <2> QED BY <2>3, <2>4, <2>5
<1>2. CASE handleAuthRefresh(o)
  <2>1. sent[o] \in Token /\ sent[o].sub \in Users
    BY <1>2 DEF handleAuthRefresh, verifyToken, TypeOK, Token
  <2>2. PICK token : /\ token = issueToken(sent[o].sub) /\ token \in Token
                     /\ token.sub = sent[o].sub /\ token.exp = now + TTL
    BY <2>1, IssueType
  <2>3. TypeOK'
    BY <1>2, <2>1, <2>2 DEF handleAuthRefresh, TypeOK, WithToken
  <2>4. UserInv'
    BY <1>2, <2>1, <2>2 DEF handleAuthRefresh, TypeOK, UserInv, ActsFor, Storing, Waiting
  <2>5. LifeInv'
    BY <1>2, <2>1, <2>2 DEF handleAuthRefresh, TypeOK, LifeInv, Lives, Token
  <2> QED BY <2>3, <2>4, <2>5
<1>3. CASE handleAuthLogout(o) \/ Unauthorized(o) \/ CallRefused(o)
  <2>1. TypeOK'
    BY <1>3 DEF handleAuthLogout, Unauthorized, CallRefused, TypeOK
  <2>2. UserInv'
    BY <1>3 DEF handleAuthLogout, Unauthorized, CallRefused, TypeOK, UserInv, ActsFor,
       Storing, Waiting
  <2>3. LifeInv'
    BY <1>3 DEF handleAuthLogout, Unauthorized, CallRefused, TypeOK, LifeInv, Lives
  <2> QED BY <2>1, <2>2, <2>3
<1>4. CASE handleAuthMe(o) \/ handleCall(o)
  <2>1. PICK u \in Users \union {Anonymous} :
          /\ ran' = [ran EXCEPT ![o] = u]
          /\ u \in Users => sent[o] # None /\ u = sent[o].sub
    BY <1>4 DEF handleAuthMe, handleCall, verifyToken, authenticateRequest, TypeOK, Token
  <2>2. TypeOK'
    BY <1>4, <2>1 DEF handleAuthMe, handleCall, TypeOK
  <2>3. UserInv'
    BY <1>4, <2>1 DEF handleAuthMe, handleCall, TypeOK, UserInv, ActsFor, Storing, Waiting
  <2>4. LifeInv'
    BY <1>4 DEF handleAuthMe, handleCall, TypeOK, LifeInv, Lives
  <2> QED BY <2>2, <2>3, <2>4
<1> QED BY <1>1, <1>2, <1>3, <1>4 DEF ServerStep

LEMMA Inductive == SessionInv /\ [Next]_vars => SessionInv'
<1> SUFFICES ASSUME SessionInv, [Next]_vars PROVE SessionInv'
  OBVIOUS
<1>1. CASE Tick
  BY <1>1, SessionAssumption DEF Tick, request, server, history, SessionInv, TypeOK, UserInv,
     ActsFor, Storing, LifeInv, Lives
<1>2. CASE UNCHANGED vars
  BY <1>2 DEF vars, request, server, history, SessionInv, TypeOK, UserInv, ActsFor, Storing,
     LifeInv, Lives
<1> QED BY <1>1, <1>2, StartKeeps, SendKeeps, ClientKeeps, ServerKeeps DEF Next, ClientStep

-----------------------------------------------------------------------------
(* The theorems *)

(* The variables keep their types: no error of a server gets into the      *)
(* token storage.                                                          *)
THEOREM TypeCorrect == Spec => []TypeOK
<1>1. SessionInv => TypeOK
  BY DEF SessionInv
<1> QED BY <1>1, Initial, Inductive, PTL DEF Spec

(* After a quiet logout only those act, and have a token stored, who have  *)
(* logged in since.                                                        *)
THEOREM LogoutHolds == Spec => []LoggedOutStaysOut
<1>1. SessionInv => LoggedOutStaysOut
  BY DEF SessionInv, UserInv, ActsFor, LoggedOutStaysOut
<1> QED BY <1>1, Initial, Inductive, PTL DEF Spec

(* The servers act for a user within the life of the last token issued.    *)
THEOREM ExpiryHolds == Spec => ExpiredIsOver
<1>1. SessionInv /\ [Next]_vars =>
        [\A o \in Ops : ran'[o] # ran[o] /\ ran'[o] \in Users =>
           now <= issued[ran'[o]] + TTL]_vars
  <2> SUFFICES ASSUME SessionInv, Next, NEW o \in Ops,
                      ran'[o] # ran[o], ran'[o] \in Users
               PROVE  now <= issued[ran'[o]] + TTL
    BY DEF vars, server
  <2>1. /\ sent[o] \in Token /\ ran'[o] = sent[o].sub
        /\ now <= sent[o].exp
    <3>1. handleAuthRefresh(o) \/ handleAuthMe(o) \/ handleCall(o)
      BY DEF Next, Start, login, refreshToken, logout, me, call, ClientStep, Send, Headers,
         TimeOut, ServerStep, handleAuthLogin, handleAuthRefresh, handleAuthLogout,
         handleAuthMe, Unauthorized, handleCall, CallRefused, Settle, FetchFails, Abort, Tick,
         server, SessionInv, TypeOK
    <3> QED BY <3>1, SessionAssumption DEF handleAuthRefresh, handleAuthMe, handleCall,
         verifyToken, authenticateRequest, SessionInv, TypeOK, Token
  <2>2. sent[o].exp <= issued[sent[o].sub] + TTL
    BY <2>1 DEF SessionInv, LifeInv, Lives
  <2>3. now \in Nat /\ TTL \in Nat /\ sent[o].exp \in Nat /\ issued[sent[o].sub] \in Nat
    BY <2>1, SessionAssumption DEF SessionInv, TypeOK, Token
  <2> QED BY <2>1, <2>2, <2>3
<1> QED BY <1>1, Initial, Inductive, PTL DEF Spec, ExpiredIsOver

(* An operation goes one way in the client, from its request to its end,   *)
(* by each of its steps; no answer, however late, and no other operation   *)
(* takes it back.                                                          *)
ClientRank(place) ==
  CASE place = "idle" -> 0
    [] place = "ask" -> 1
    [] place = "wait" -> 2
    [] place = "body" -> 3
    [] OTHER -> 4
ClientSteps ==
  \A o \in Ops :
    /\ ClientStep(o) => ClientRank(at'[o]) > ClientRank(at[o])
    /\ at'[o] # at[o] => ClientRank(at'[o]) > ClientRank(at[o])

(* No operation of the client goes back.                                   *)
THEOREM OperationsMoveOn == Spec => [][ClientSteps]_vars
<1>1. TypeOK /\ [Next]_vars => [ClientSteps]_vars
  <2> SUFFICES ASSUME TypeOK, Next, NEW o \in Ops
               PROVE  /\ ClientStep(o) => ClientRank(at'[o]) > ClientRank(at[o])
                      /\ at'[o] # at[o] => ClientRank(at'[o]) > ClientRank(at[o])
    BY DEF ClientSteps
  <2> USE DEF TypeOK, Goto, ClientRank
  <2> DEFINE Own == Settle(o) \/ FetchFails(o) \/ Abort(o)
  <2>1. ClientStep(o) => ClientRank(at'[o]) > ClientRank(at[o])
    BY DEF ClientStep, Send, Headers, TimeOut, Ends
  <2>2. Start(o) \/ Own => ClientRank(at'[o]) > ClientRank(at[o])
    BY DEF Start, Begin, login, refreshToken, logout, me, call, Settle, FetchFails, Abort,
       Ends, Waiting
  <2>3. ASSUME at'[o] # at[o] PROVE Start(o) \/ ClientStep(o) \/ Own
    <3>1. \A p \in Ops \ {o} : ~Start(p) /\ ~ClientStep(p)
      BY <2>3 DEF Start, Begin, login, refreshToken, logout, me, call, ClientStep, Send,
         Headers, TimeOut, Ends
    <3>2. \A p \in Ops \ {o} : ~Settle(p) /\ ~FetchFails(p) /\ ~Abort(p)
      BY <2>3 DEF Settle, FetchFails, Abort, Ends
    <3>3. \A p \in Ops : ~ServerStep(p)
      BY <2>3 DEF ServerStep, handleAuthLogin, handleAuthRefresh, handleAuthLogout,
         handleAuthMe, Unauthorized, handleCall, CallRefused, vars
    <3>4. ~Tick
      BY <2>3 DEF Tick
    <3> QED
      BY <3>1, <3>2, <3>3, <3>4 DEF Next
  <2> QED
    BY <2>1, <2>2, <2>3
<1>2. SessionInv => TypeOK
  BY DEF SessionInv
<1> QED BY <1>1, <1>2, Initial, Inductive, PTL DEF Spec
=============================================================================
