------------------------------ MODULE Session -------------------------------
(***************************************************************************)
(* The session of an application: the operations of the client SDK (login  *)
(* and register, refresh, logout, me, and calls of logic) over one token   *)
(* storage, the Hub's /auth handlers and the Bridge's check of a token.    *)
(*                                                                         *)
(* Neither server keeps sessions.  A token is the name of its user and the *)
(* second it expires, signed; a logout only empties the client's storage.  *)
(* Every operation reads the storage once, sends what it found, and stores *)
(* the token it is answered with: answers come in any order, late, after   *)
(* an error, or never.                                                     *)
(*                                                                         *)
(* A call has a timer, which is cleared when the answer's headers are      *)
(* there: its body is read after that.  The /auth requests have no timer.  *)
(*                                                                         *)
(* The Hub's signing secret and the Bridge's key are taken to be the same, *)
(* as otherwise every token is foreign to the Bridge.                      *)
(***************************************************************************)
EXTENDS Naturals

CONSTANTS
  Ops,       \* operations of the application, each made once
  Users,
  Wide,      \* the users whose payload has a - or _ in its base64url text
  TTL,       \* the life of a token
  MaxNow,    \* bound: the clock
  None,      \* no token, no user, not answered yet
  Anonymous, \* a caller without a token the Bridge takes
  Done,      \* an answer with status 200 that carries no token
  Refused    \* an answer with another status

Token == [sub : Users, exp : 0 .. (MaxNow + TTL)]
Kinds == {"login", "refresh", "logout", "me", "call"}

ASSUME SessionAssumption ==
  /\ TTL \in Nat /\ MaxNow \in Nat
  /\ Wide \subseteq Users
  /\ None \notin Kinds
  /\ None \notin Users /\ Anonymous \notin Users /\ None # Anonymous
  /\ None \notin Token /\ Done \notin Token /\ Refused \notin Token
  /\ None # Done /\ None # Refused /\ Done # Refused

VARIABLES
  now,    \* the clock, in seconds
  stored, \* the TokenStorage
  kind,   \* kind[o]: which operation o is
  user,   \* user[o]: the credentials of a login
  signal, \* signal[o]: the caller gave the call an AbortSignal of its own
  at,     \* at[o]: where o is in the client
  net,    \* net[o]: where its request is
  sent,   \* sent[o]: the token in its header
  reply,  \* reply[o]: what the server answers
  ran,    \* ran[o]: as whom the server has executed o
  issued, \* history: issued[u], when the Hub issued a token of u last
  since,  \* history: who has logged in since the last quiet logout
  recent  \* history: recent[o], o has read the storage since then

request == <<kind, user, signal>>
server == <<reply, ran, issued>>
history == <<since, recent>>
vars == <<now, stored, request, at, net, sent, server, history>>

Waiting == {"wait", "body"}
Place == Waiting \union {"idle", "ask", "ended"}
WithToken == {"login", "refresh"}

TypeOK ==
  /\ now \in 0 .. MaxNow
  /\ stored \in Token \union {None}
  /\ kind \in [Ops -> Kinds \union {None}]
  /\ user \in [Ops -> Users \union {None}]
  /\ signal \in [Ops -> BOOLEAN]
  /\ at \in [Ops -> Place]
  /\ net \in [Ops -> {"none", "request", "reply"}]
  /\ sent \in [Ops -> Token \union {None}]
  /\ reply \in [Ops -> Token \union {None, Done, Refused}]
  /\ ran \in [Ops -> Users \union {None, Anonymous}]
  /\ issued \in [Users -> 0 .. MaxNow]
  /\ since \in SUBSET Users
  /\ recent \in [Ops -> BOOLEAN]
  /\ \A o \in Ops : at[o] # "idle" => kind[o] \in Kinds
  /\ \A o \in Ops : kind[o] = "login" => user[o] \in Users
  /\ \A o \in Ops : reply[o] \in Token => kind[o] \in WithToken

Init ==
  /\ now = 0
  /\ stored = None
  /\ kind = [o \in Ops |-> None]
  /\ user = [o \in Ops |-> None]
  /\ signal = [o \in Ops |-> FALSE]
  /\ at = [o \in Ops |-> "idle"]
  /\ net = [o \in Ops |-> "none"]
  /\ sent = [o \in Ops |-> None]
  /\ reply = [o \in Ops |-> None]
  /\ ran = [o \in Ops |-> None]
  /\ issued = [u \in Users |-> 0]
  /\ since = {}
  /\ recent = [o \in Ops |-> FALSE]

Goto(o, place) == at' = [at EXCEPT ![o] = place]

-----------------------------------------------------------------------------
(* The client *)

Begin(o, k) == at[o] = "idle" /\ kind' = [kind EXCEPT ![o] = k]

(* login and register: their handlers differ in what they do without an    *)
(* e-mail address.                                                         *)
login(o, u) ==
  /\ Begin(o, "login") /\ Goto(o, "ask")
  /\ user' = [user EXCEPT ![o] = u]
  /\ since' = since \union {u}
  /\ UNCHANGED <<now, stored, signal, net, sent, server, recent>>

refreshToken(o) ==
  /\ Begin(o, "refresh") /\ Goto(o, "ask")
  /\ UNCHANGED <<now, stored, user, signal, net, sent, server, history>>

logout(o) ==
  /\ Begin(o, "logout") /\ Goto(o, "ask")
  /\ UNCHANGED <<now, stored, user, signal, net, sent, server, history>>

(* me, also for isAuthenticated: no request without a token.               *)
me(o) ==
  /\ Begin(o, "me")
  /\ Goto(o, IF stored = None THEN "ended" ELSE "ask")
  /\ UNCHANGED <<now, stored, user, signal, net, sent, server, history>>

call(o, s) ==
  /\ Begin(o, "call") /\ Goto(o, "ask")
  /\ signal' = [signal EXCEPT ![o] = s]
  /\ UNCHANGED <<now, stored, user, net, sent, server, history>>

(* The storage is read, and the request sent with what it held; a call     *)
(* with skipAuth sends no token.                                           *)
Send(o) ==
  /\ at[o] = "ask"
  /\ \E token \in {stored} \union {t \in {None} : kind[o] = "call"} :
       sent' = [sent EXCEPT ![o] = token]
  /\ Goto(o, "wait")
  /\ net' = [net EXCEPT ![o] = "request"]
  /\ recent' = [recent EXCEPT ![o] = TRUE]
  /\ UNCHANGED <<now, stored, request, server, since>>

(* o may still store a token: a refresh needs one to get one.              *)
Storing(o) ==
  \/ kind[o] = "login" /\ at[o] \in Waiting \union {"ask"}
  \/ kind[o] = "refresh" /\ at[o] \in Waiting /\ sent[o] # None

(* The history after o: a logout that ends while nobody may store a token  *)
(* is quiet, and what came before it is over.                              *)
Ends(o) ==
  /\ Goto(o, "ended")
  /\ IF kind[o] = "logout" /\ \A p \in Ops : ~Storing(p)
       THEN since' = {} /\ recent' = [p \in Ops |-> FALSE]
       ELSE UNCHANGED history

(* The headers of the answer to a call are there.                          *)
Headers(o) ==
  /\ kind[o] = "call"
  /\ at[o] = "wait" /\ net[o] = "reply"
  /\ Goto(o, "body")
  /\ UNCHANGED <<now, stored, request, net, sent, server, history>>

(* Mutant: what a refresh is answered with is stored, also an error.       *)
SettleUnchecked(o) ==
  /\ at[o] = "body" \/ (kind[o] # "call" /\ at[o] = "wait" /\ net[o] = "reply")
  /\ Ends(o)
  /\ stored' = IF kind[o] = "logout" THEN None
               ELSE IF kind[o] \in WithToken THEN reply[o] ELSE stored
  /\ UNCHANGED <<now, request, net, sent, server>>

(* The answer is complete: a login and a refresh store the token they got, *)
(* and a logout removes whatever token is there.                           *)
Settle(o) ==
  /\ at[o] = "body" \/ (kind[o] # "call" /\ at[o] = "wait" /\ net[o] = "reply")
  /\ Ends(o)
  /\ stored' = IF kind[o] = "logout" THEN None
               ELSE IF reply[o] \in {Done, Refused} THEN stored ELSE reply[o]
  /\ UNCHANGED <<now, request, net, sent, server>>

(* Mutant: the token is only removed when the Hub has answered.            *)
FetchFailsKeeping(o) ==
  /\ at[o] \in Waiting
  /\ Ends(o)
  /\ UNCHANGED <<now, stored, request, net, sent, server>>

(* fetch, or the reading of the body, throws; the server may get, or have  *)
(* got, the request all the same.  A logout removes the token nonetheless. *)
FetchFails(o) ==
  /\ at[o] \in Waiting
  /\ Ends(o)
  /\ stored' = IF kind[o] = "logout" THEN None ELSE stored
  /\ UNCHANGED <<now, request, net, sent, server>>

(* Mutant: the timer is cleared when the request has been sent.            *)
TimeOutCleared(o) ==
  /\ kind[o] = "call" /\ ~signal[o]
  /\ at[o] = "body" /\ reply[o] = Refused
  /\ Ends(o)
  /\ UNCHANGED <<now, stored, request, net, sent, server>>

(* The timer aborts the client's side of a call: before the headers, or    *)
(* while the text of an error is read, which is awaited.  It is not used   *)
(* when the caller has given a signal of its own.                          *)
TimeOut(o) ==
  /\ kind[o] = "call" /\ ~signal[o]
  /\ at[o] = "wait" \/ (at[o] = "body" /\ reply[o] = Refused)
  /\ Ends(o)
  /\ UNCHANGED <<now, stored, request, net, sent, server>>

(* The caller's own signal.                                                *)
Abort(o) ==
  /\ kind[o] = "call" /\ signal[o] /\ at[o] \in Waiting
  /\ Ends(o)
  /\ UNCHANGED <<now, stored, request, net, sent, server>>

-----------------------------------------------------------------------------
(* The servers *)

issueToken(u) == [sub |-> u, exp |-> now + TTL]

(* Mutant: the signature alone is checked.                                 *)
verifyTokenSignature(t) == t # None

verifyToken(t) == t # None /\ now <= t.exp

(* Mutant: the Bridge does not look at exp.                                *)
authenticateRequestForever(t) ==
  IF t = None THEN {Anonymous} ELSE {t.sub}

(* The Bridge decodes the payload with atob, which throws on - and _, and  *)
(* compares a clock with fractions: in the last second either may happen.  *)
authenticateRequest(t) ==
  IF t = None \/ t.sub \in Wide \/ now > t.exp THEN {Anonymous}
  ELSE IF now = t.exp THEN {Anonymous, t.sub}
  ELSE {t.sub}

Answer(o, r) ==
  /\ net[o] = "request"
  /\ net' = [net EXCEPT ![o] = "reply"]
  /\ reply' = [reply EXCEPT ![o] = r]

Issue(o, u) ==
  /\ Answer(o, issueToken(u))
  /\ issued' = [issued EXCEPT ![u] = now]

handleAuthLogin(o) ==
  /\ kind[o] = "login"
  /\ Issue(o, user[o])
  /\ UNCHANGED <<now, stored, request, at, sent, ran, history>>

handleAuthRefresh(o) ==
  /\ kind[o] = "refresh"
  /\ verifyToken(sent[o])
  /\ Issue(o, sent[o].sub)
  /\ ran' = [ran EXCEPT ![o] = sent[o].sub]
  /\ UNCHANGED <<now, stored, request, at, sent, history>>

handleAuthLogout(o) ==
  /\ kind[o] = "logout"
  /\ Answer(o, Done)
  /\ UNCHANGED <<now, stored, request, at, sent, ran, issued, history>>

handleAuthMe(o) ==
  /\ kind[o] = "me"
  /\ verifyToken(sent[o])
  /\ Answer(o, Done)
  /\ ran' = [ran EXCEPT ![o] = sent[o].sub]
  /\ UNCHANGED <<now, stored, request, at, sent, issued, history>>

(* 401 from the Hub; and 400 to a register without an e-mail address.      *)
Unauthorized(o) ==
  /\ kind[o] \in {"login", "refresh", "me"}
  /\ kind[o] # "login" => ~verifyToken(sent[o])
  /\ Answer(o, Refused)
  /\ UNCHANGED <<now, stored, request, at, sent, ran, issued, history>>

(* The Bridge executes the logic as whoever the token says; for Anonymous  *)
(* the logic has to be public.                                             *)
handleCall(o) ==
  /\ kind[o] = "call"
  /\ \E u \in authenticateRequest(sent[o]) : ran' = [ran EXCEPT ![o] = u]
  /\ Answer(o, Done)
  /\ UNCHANGED <<now, stored, request, at, sent, issued, history>>

(* 403 from the Bridge, and every error of a logic.                        *)
CallRefused(o) ==
  /\ kind[o] = "call"
  /\ Answer(o, Refused)
  /\ UNCHANGED <<now, stored, request, at, sent, ran, issued, history>>

Tick ==
  /\ now < MaxNow
  /\ now' = now + 1
  /\ UNCHANGED <<stored, request, at, net, sent, server, history>>

-----------------------------------------------------------------------------

Start(o) ==
  \/ \E u \in Users : login(o, u)
  \/ refreshToken(o) \/ logout(o) \/ me(o)
  \/ \E s \in BOOLEAN : call(o, s)

ServerStep(o) ==
  \/ handleAuthLogin(o) \/ handleAuthRefresh(o) \/ handleAuthLogout(o)
  \/ handleAuthMe(o) \/ Unauthorized(o) \/ handleCall(o) \/ CallRefused(o)

ClientStep(o) == Send(o) \/ Headers(o) \/ TimeOut(o)

Next ==
  \/ \E o \in Ops :
       \/ Start(o) \/ ClientStep(o) \/ ServerStep(o)
       \/ Settle(o) \/ FetchFails(o) \/ Abort(o)
  \/ Tick

(* The client's event loop runs, with its timers; servers and the network  *)
(* owe nothing.                                                            *)
Spec == Init /\ [][Next]_vars /\ \A o \in Ops : WF_vars(ClientStep(o))

-----------------------------------------------------------------------------
(* Properties *)

(* After a logout that ends while no login and no refresh is under way,    *)
(* nobody comes back without a login: not by a refresh, a timed-out call   *)
(* or an answer that was late.  The token in the storage is of a user who  *)
(* has logged in since then, and so is whoever an operation acts as that   *)
(* has read the storage since then.                                        *)
LoggedOutStaysOut ==
  /\ stored # None => stored.sub \in since
  /\ \A o \in Ops : recent[o] /\ ran[o] \in Users => ran[o] \in since

(* The servers act for a user within the life of the last token the Hub    *)
(* has issued to the user, and a refresh is no exception: once it is over  *)
(* only a login brings the user back.                                      *)
ExpiredIsOver ==
  [][\A o \in Ops : ran'[o] # ran[o] /\ ran'[o] \in Users =>
       now <= issued[ran'[o]] + TTL]_vars

(* A call without a signal of its own does not wait for ever for a server  *)
(* that does not answer.                                                   *)
HeadersOrTimeOut ==
  \A o \in Ops :
    at[o] = "wait" /\ kind[o] = "call" /\ ~signal[o] ~> at[o] # "wait"

(* packages/client/src/types/config.ts:8 and :34: requests have a timeout. *)
(* So a call without a signal of its own ends, whatever the server does.   *)
CallsTimeOut ==
  \A o \in Ops :
    at[o] = "wait" /\ kind[o] = "call" /\ ~signal[o] ~> at[o] = "ended"
=============================================================================
