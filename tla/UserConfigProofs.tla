-------------------------- MODULE UserConfigProofs ---------------------------
(***************************************************************************)
(* That the configuration file of the CLI stays usable, for any number of  *)
(* commands, profiles, Hubs and tokens.                                    *)
(*                                                                         *)
(* A save is overlapped or interrupted at most once before it shows: while *)
(* nothing is spoiled one command writes at a time, and over an empty file *)
(* (WriteInv).  Whatever is loaded, changed and saved has its current      *)
(* profile (CurrentInv), and a login that gets to the file has asked its   *)
(* own Hub about the token (TokenInv).                                     *)
(***************************************************************************)
EXTENDS UserConfig, TLAPS

HasCurrent(cfg) == cfg.current # None => cfg.profiles[cfg.current] # None

CurrentInv ==
  /\ file \in Config => HasCurrent(file)
  /\ \A c \in Commands : at[c] \in {"save", "write"} => HasCurrent(mem[c])

WriteInv ==
  /\ \A c \in Commands : at[c] = "write" /\ file # Truncated => spoiled
  /\ \A c, d \in Commands :
       at[c] = "write" /\ at[d] = "write" /\ c # d => spoiled

TokenInv ==
  \A c \in Commands : at[c] = "load" /\ IsLogin(c) => tok[c] \in Accepts[op[c].hub]

ConfigInv ==
  /\ TypeOK
  /\ CurrentInv
  /\ WriteInv /\ UnreadableOnlyWhenSpoiled
  /\ TokenInv /\ LoginSavesItsHubsToken

-----------------------------------------------------------------------------
(* The changes *)

(* The fields of an operation have the types of its kind.                  *)
LEMMA OperationFields ==
  ASSUME NEW o \in Operations
  PROVE  /\ o.kind \in {"login", "set", "use", "project", "auth"}
         /\ o.kind = "login" => o.hub \in Hubs
         /\ o.kind = "set" =>
              /\ o.name \in Names /\ o.hubURL \in Hubs \union {None}
              /\ o.projectID \in Projects \union {None}
              /\ o.token \in Tokens \union {None}
         /\ o.kind = "use" => o.name \in Names
         /\ o.kind = "project" => o.projectID \in Projects
         /\ o.kind = "auth" => o.token \in Tokens
  BY DEF Operations

(* A configuration with a profile replaced is a configuration; it has its  *)
(* current profile if that is the new one or was there.                    *)
LEMMA WithIsSound ==
  ASSUME NEW cfg \in Config, NEW n \in Names, NEW p \in Profile,
         NEW cur \in Names \union {None},
         cur = n \/ cur = None \/ cfg.profiles[cur] # None
  PROVE  /\ With(cfg, n, p, cur) \in Config
         /\ HasCurrent(With(cfg, n, p, cur))
BY ConfigAssumption DEF With, Config, HasCurrent

LEMMA BlankType == Blank \in Profile
BY DEF Blank, Profile

(* What each command makes of a configuration that has its current profile *)
(* has its current profile too.                                            *)
LEMMA LoggedInIsSound ==
  ASSUME NEW cfg \in Config, NEW hub \in Hubs, NEW token \in Tokens \union {None}
  PROVE  /\ LoggedIn(cfg, hub, token) \in Config
         /\ HasCurrent(LoggedIn(cfg, hub, token))
         /\ LoggedIn(cfg, hub, token).profiles[Default].hubURL = hub
         /\ LoggedIn(cfg, hub, token).profiles[Default].token = token
<1> DEFINE p == [hubURL |-> hub, projectID |-> None, token |-> token]
<1>1. p \in Profile
  BY DEF Profile
<1>2. LoggedIn(cfg, hub, token).profiles[Default] = p
  BY ConfigAssumption DEF LoggedIn, With, Config
<1>3. With(cfg, Default, p, Default) \in Config /\ HasCurrent(With(cfg, Default, p, Default))
  BY <1>1, WithIsSound, ConfigAssumption
<1> QED BY <1>2, <1>3 DEF LoggedIn

LEMMA WithProfileIsSound ==
  ASSUME NEW cfg \in Config, HasCurrent(cfg),
         NEW o \in Operations, o.kind = "set"
  PROVE  /\ WithProfile(cfg, o) \in Config
         /\ HasCurrent(WithProfile(cfg, o))
<1> DEFINE old == IF cfg.profiles[o.name] = None THEN Blank ELSE cfg.profiles[o.name]
           p == [hubURL |-> Or(o.hubURL, old.hubURL),
                 projectID |-> Or(o.projectID, old.projectID),
                 token |-> Or(o.token, old.token)]
           cur == Or(cfg.current, o.name)
<1>1. old \in Profile
  BY OperationFields, BlankType DEF Config
<1>2. p \in Profile
  <2> HIDE DEF old
  <2> QED BY <1>1, OperationFields DEF Profile, Or
<1>3. /\ cur \in Names \union {None}
      /\ cur = o.name \/ cur = None \/ cfg.profiles[cur] # None
  BY OperationFields DEF Or, Config, HasCurrent
<1> HIDE DEF p, cur
<1>4. /\ With(cfg, o.name, p, cur) \in Config
      /\ HasCurrent(With(cfg, o.name, p, cur))
  BY <1>2, <1>3, OperationFields, WithIsSound
<1> QED BY <1>4 DEF WithProfile, p, cur

LEMMA UseIsSound ==
  ASSUME NEW cfg \in Config, NEW n \in Names, cfg.profiles[n] # None
  PROVE  LET new == [current |-> n, profiles |-> cfg.profiles]
         IN  new \in Config /\ HasCurrent(new)
BY DEF Config, HasCurrent

LEMMA WithFieldsIsSound ==
  ASSUME NEW cfg \in Config, CurrentProfile(cfg) # None,
         NEW id \in Projects \union {None}, NEW token \in Tokens \union {None}
  PROVE  /\ WithProject(cfg, id) \in Config
         /\ HasCurrent(WithProject(cfg, id))
         /\ WithToken(cfg, token) \in Config
         /\ HasCurrent(WithToken(cfg, token))
<1>1. cfg.current \in Names /\ CurrentProfile(cfg) \in Profile
  BY DEF CurrentProfile, Config
<1>2. PICK p : p = CurrentProfile(cfg)
  OBVIOUS
<1> DEFINE p1 == [hubURL |-> p.hubURL, projectID |-> id, token |-> p.token]
           p2 == [hubURL |-> p.hubURL, projectID |-> p.projectID, token |-> token]
<1>3. p1 \in Profile /\ p2 \in Profile
  BY <1>1, <1>2 DEF Profile
<1>4. WithProject(cfg, id) = With(cfg, cfg.current, p1, cfg.current)
  BY <1>2 DEF WithProject
<1>5. WithToken(cfg, token) = With(cfg, cfg.current, p2, cfg.current)
  BY <1>2 DEF WithToken
<1> HIDE DEF p1, p2
<1> QED BY <1>1, <1>3, <1>4, <1>5, WithIsSound

-----------------------------------------------------------------------------
(* The steps *)

(* What a command loads has its current profile, and so has what it makes  *)
(* of it; a login makes of it what its Hub has accepted.                   *)
LEMMA LoadKeeps ==
  ASSUME ConfigInv, NEW c \in Commands, Load(c)
  PROVE  \E new \in Config :
           /\ mem' = [mem EXCEPT ![c] = new]
           /\ HasCurrent(new)
           /\ IsLogin(c) => /\ new.profiles[Default].hubURL = op[c].hub
                            /\ new.profiles[Default].token = tok[c]
<1>1. op[c] \in Operations /\ tok[c] \in Tokens \union {None}
  BY ConfigAssumption DEF ConfigInv, TypeOK, Load
<1>2. Loaded \in Config /\ HasCurrent(Loaded)
  BY ConfigAssumption DEF ConfigInv, TypeOK, CurrentInv, Load, Loaded, NoConfig,
     Config, HasCurrent
<1>3. Change(c, Loaded, op[c]) /\ Applies(op[c], Loaded)
  BY DEF Load
<1>4. PICK o, cfg : o = op[c] /\ cfg = Loaded
  OBVIOUS
<1>5. CASE o.kind = "login"
  <2>1. mem' = [mem EXCEPT ![c] = LoggedIn(cfg, o.hub, tok[c])]
    BY <1>3, <1>4, <1>5 DEF Change, Keep
  <2>2. o.hub \in Hubs /\ tok[c] \in Tokens \union {None} /\ cfg \in Config
    BY <1>1, <1>2, <1>4, <1>5, OperationFields
  <2> DEFINE new == LoggedIn(cfg, o.hub, tok[c])
  <2>3. /\ new \in Config /\ HasCurrent(new)
        /\ new.profiles[Default].hubURL = op[c].hub
        /\ new.profiles[Default].token = tok[c]
    BY <1>4, <2>2, LoggedInIsSound
  <2> HIDE DEF new
  <2> QED BY <2>1, <2>3 DEF new
<1>6. CASE o.kind = "set"
  <2>1. mem' = [mem EXCEPT ![c] = WithProfile(cfg, o)]
    BY <1>3, <1>4, <1>6 DEF Change, Keep
  <2> QED BY <1>1, <1>2, <1>4, <1>6, <2>1, WithProfileIsSound DEF IsLogin
<1>7. CASE o.kind = "use"
  <2>1. mem' = [mem EXCEPT ![c] = [current |-> o.name, profiles |-> cfg.profiles]]
    BY <1>3, <1>4, <1>7 DEF Change, Keep
  <2>2. cfg.profiles[o.name] # None
    BY <1>3, <1>4, <1>7 DEF Applies
  <2> QED BY <1>1, <1>2, <1>4, <1>7, <2>1, <2>2, UseIsSound, OperationFields DEF IsLogin
<1>8. CASE o.kind = "project"
  <2>1. mem' = [mem EXCEPT ![c] = WithProject(cfg, o.projectID)]
    BY <1>3, <1>4, <1>8 DEF Change, Keep
  <2>2. CurrentProfile(cfg) # None
    BY <1>3, <1>4, <1>8 DEF Applies
  <2> QED BY <1>1, <1>2, <1>4, <1>8, <2>1, <2>2, WithFieldsIsSound, OperationFields DEF IsLogin
<1>9. CASE o.kind = "auth"
  <2>1. mem' = [mem EXCEPT ![c] = WithToken(cfg, o.token)]
    BY <1>3, <1>4, <1>9 DEF Change, Keep
  <2>2. CurrentProfile(cfg) # None
    BY <1>3, <1>4, <1>9 DEF Applies
  <2> QED BY <1>1, <1>2, <1>4, <1>9, <2>1, <2>2, WithFieldsIsSound, OperationFields DEF IsLogin
<1> QED BY <1>1, <1>4, <1>5, <1>6, <1>7, <1>8, <1>9, OperationFields

LEMMA StepKeeps ==
  ASSUME ConfigInv, NEW c \in Commands, CommandStep(c) \/ Interrupted(c)
  PROVE  ConfigInv'
<1> USE ConfigAssumption
    DEF ConfigInv, TypeOK, CurrentInv, WriteInv, UnreadableOnlyWhenSpoiled, TokenInv,
        LoginSavesItsHubsToken, Goto, Freed, Place, IsLogin
<1>1. CASE GiveUp(c)
  BY <1>1 DEF GiveUp
<1>2. CASE TakeToken(c)
  BY <1>2 DEF TakeToken
<1>3. CASE getUserInfo(c)
  BY <1>3 DEF getUserInfo
<1>4. CASE Load(c)
  <2>1. PICK new \in Config :
          /\ mem' = [mem EXCEPT ![c] = new]
          /\ HasCurrent(new)
          /\ IsLogin(c) => /\ new.profiles[Default].hubURL = op[c].hub
                           /\ new.profiles[Default].token = tok[c]
    BY <1>4, LoadKeeps
  <2> QED BY <1>4, <2>1 DEF Load
<1>5. CASE Truncate(c)
  BY <1>5 DEF Truncate
<1>6. CASE Write(c)
  BY <1>6 DEF Write
<1>7. CASE LoadFails(c)
  BY <1>7 DEF LoadFails
<1>8. CASE Interrupted(c)
  <2>1. TypeOK'
    BY <1>8 DEF Interrupted
  <2>2. CurrentInv' /\ TokenInv' /\ LoginSavesItsHubsToken'
    BY <1>8 DEF Interrupted
  <2>3. WriteInv' /\ UnreadableOnlyWhenSpoiled'
    BY <1>8 DEF Interrupted
  <2> QED BY <2>1, <2>2, <2>3
<1> QED BY <1>1, <1>2, <1>3, <1>4, <1>5, <1>6, <1>7, <1>8 DEF CommandStep

LEMMA Inductive == ConfigInv /\ [Next]_vars => ConfigInv'
<1> SUFFICES ASSUME ConfigInv, [Next]_vars PROVE ConfigInv'
  OBVIOUS
<1> USE DEF ConfigInv, TypeOK, CurrentInv, WriteInv, UnreadableOnlyWhenSpoiled, TokenInv,
        LoginSavesItsHubsToken, Goto, Place, IsLogin
<1>1. ASSUME NEW c \in Commands, NEW o \in Offered, StartLogin(c, o) PROVE ConfigInv'
  BY <1>1, ConfigAssumption, OperationFields DEF StartLogin
<1>2. ASSUME NEW c \in Commands, NEW o \in Offered, Start(c, o) PROVE ConfigInv'
  BY <1>2, ConfigAssumption DEF Start
<1>3. ASSUME NEW h \in Hubs, NEW t \in Tokens, Callback(h, t) PROVE ConfigInv'
  BY <1>3, ConfigAssumption DEF Callback
<1>4. CASE UNCHANGED vars
  BY <1>4 DEF vars
<1> QED BY <1>1, <1>2, <1>3, <1>4, StepKeeps DEF Next

LEMMA Initial == Init => ConfigInv
<1> USE ConfigAssumption DEF Init
<1>1. NoConfig \in Config
  BY DEF NoConfig, Config
<1>2. Init => TypeOK
  BY <1>1 DEF TypeOK, Place
<1>3. Init => CurrentInv /\ WriteInv /\ UnreadableOnlyWhenSpoiled
  BY DEF CurrentInv, WriteInv, UnreadableOnlyWhenSpoiled
<1>4. Init => TokenInv /\ LoginSavesItsHubsToken
  BY DEF TokenInv, LoginSavesItsHubsToken
<1> QED BY <1>2, <1>3, <1>4 DEF ConfigInv

-----------------------------------------------------------------------------
(* The theorems *)

(* The variables keep their types, and only a waiting login holds the port. *)
THEOREM TypeCorrect == Spec => []TypeOK
<1>1. ConfigInv => TypeOK
  BY DEF ConfigInv
<1> QED BY <1>1, Initial, Inductive, PTL DEF Spec

(* A file that parses has its current profile, whatever commands overlap.  *)
THEOREM CurrentIsThere == Spec => []CurrentIsAProfile
<1>1. ConfigInv => CurrentIsAProfile
  BY DEF ConfigInv, CurrentInv, HasCurrent, CurrentIsAProfile
<1> QED BY <1>1, Initial, Inductive, PTL DEF Spec

(* Without an overlap or an interruption the file parses between the saves. *)
THEOREM Readable == Spec => []UnreadableOnlyWhenSpoiled
<1>1. ConfigInv => UnreadableOnlyWhenSpoiled
  BY DEF ConfigInv
<1> QED BY <1>1, Initial, Inductive, PTL DEF Spec

(* A login saves a token that its own Hub accepts, wherever it came from.  *)
THEOREM LoginsMatch == Spec => []LoginSavesItsHubsToken
<1>1. ConfigInv => LoginSavesItsHubsToken
  BY DEF ConfigInv
<1> QED BY <1>1, Initial, Inductive, PTL DEF Spec

(* Every step of a command takes it nearer to its end, by one of at most   *)
(* five, and no step of anybody else takes it back: neither a callback nor *)
(* the port.                                                               *)
StepsLeft(place) ==
  CASE place = "waiting" -> 5
    [] place = "verify" -> 4
    [] place = "load" -> 3
    [] place = "save" -> 2
    [] place = "write" -> 1
    [] OTHER -> 0
StepsTaken ==
  \A c \in Commands : at[c] # "idle" =>
    /\ CommandStep(c) => StepsLeft(at'[c]) < StepsLeft(at[c])
    /\ at'[c] # at[c] => StepsLeft(at'[c]) < StepsLeft(at[c])

(* No command goes round in circles.                                       *)
THEOREM CommandsMoveOn == Spec => [][StepsTaken]_vars
<1>1. TypeOK /\ [Next]_vars => [StepsTaken]_vars
  <2> SUFFICES ASSUME TypeOK, Next, NEW c \in Commands, at[c] # "idle"
               PROVE  /\ CommandStep(c) => StepsLeft(at'[c]) < StepsLeft(at[c])
                      /\ at'[c] # at[c] => StepsLeft(at'[c]) < StepsLeft(at[c])
    BY DEF StepsTaken
  <2> USE DEF TypeOK, Place, Goto, StepsLeft
  <2>1. CommandStep(c) => StepsLeft(at'[c]) < StepsLeft(at[c])
    BY DEF CommandStep, GiveUp, TakeToken, getUserInfo, Load, LoadFails, Truncate, Write
  <2>2. ASSUME at'[c] # at[c]
        PROVE  CommandStep(c) \/ (at'[c] = "ended" /\ at[c] # "ended")
    <3>1. \A d \in Commands, o \in Offered : ~StartLogin(d, o) /\ ~Start(d, o)
      BY <2>2 DEF StartLogin, Start
    <3>2. \A d \in Commands \ {c} : ~CommandStep(d) /\ ~Interrupted(d)
      BY <2>2 DEF CommandStep, GiveUp, TakeToken, getUserInfo, Load, LoadFails, Truncate,
         Write, Interrupted
    <3>3. \A h \in Hubs, t \in Tokens : ~Callback(h, t)
      BY <2>2 DEF Callback
    <3>4. Interrupted(c) => at'[c] = "ended" /\ at[c] # "ended"
      BY DEF Interrupted
    <3> QED
      BY <3>1, <3>2, <3>3, <3>4 DEF Next
  <2> QED
    BY <2>1, <2>2
<1>2. ConfigInv => TypeOK
  BY DEF ConfigInv
<1> QED BY <1>1, <1>2, Initial, Inductive, PTL DEF Spec
=============================================================================
