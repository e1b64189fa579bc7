----------------------------- MODULE UserConfig ------------------------------
(***************************************************************************)
(* The commands of the CLI that change ~/.santokit/config.json: `stk       *)
(* login`, `profile set`, `profile use`, `project set` and `project auth   *)
(* set`, several of them at once in several terminals.                     *)
(*                                                                         *)
(* Every one of them loads the whole file, changes one profile or the      *)
(* current one in memory, and saves the whole file; nothing locks it.  The *)
(* save is os.WriteFile, which truncates the file and then writes: two     *)
(* saves can interleave, and a command can end between the two.  A file    *)
(* that does not parse ends the command that loads it.                     *)
(*                                                                         *)
(* Before that a login listens on the one callback port of the machine,    *)
(* opens the browser at its Hub, and waits for a token, an error or its    *)
(* timeout.  The browser's pages know the port and not the login.          *)
(***************************************************************************)
EXTENDS Naturals

CONSTANTS
  Commands, \* runs of the CLI, each made once
  Names,    \* names of profiles
  Default,  \* "default", the profile of a login
  Hubs,
  Tokens,
  Projects,
  Issues,   \* Issues[h]: the tokens the login page of Hub h gives out
  Accepts,  \* Accepts[h]: the tokens with which /auth/me of Hub h answers 200
  Offered,  \* the commands that are made
  None,     \* "": no current profile, a field that is not set, no profile
  Truncated,\* a file of length zero
  Torn      \* a file with parts of two saves

Profile ==
  [hubURL : Hubs \union {None}, projectID : Projects \union {None},
   token : Tokens \union {None}]
Config == [current : Names \union {None}, profiles : [Names -> Profile \union {None}]]

Operations ==
  [kind : {"login"}, hub : Hubs]
    \union [kind : {"set"}, name : Names, hubURL : Hubs \union {None},
            projectID : Projects \union {None}, token : Tokens \union {None}]
    \union [kind : {"use"}, name : Names]
    \union [kind : {"project"}, projectID : Projects]
    \union [kind : {"auth"}, token : Tokens]

ASSUME ConfigAssumption ==
  /\ Default \in Names
  /\ None \notin Names /\ None \notin Profile /\ None \notin Commands
  /\ None \notin Tokens
  /\ Issues \in [Hubs -> SUBSET Tokens]
  /\ Accepts \in [Hubs -> SUBSET Tokens]
  /\ Offered \subseteq Operations
  /\ Truncated \notin Config /\ Torn \notin Config /\ None \notin Config
  /\ Truncated # Torn /\ None \notin {Truncated, Torn}

VARIABLES
  file,    \* config.json; None when it does not exist
  at,      \* at[c]: where command c is
  op,      \* op[c]: which command c is
  mem,     \* mem[c]: the configuration c is going to save
  port,    \* the login that listens on port 8765
  opened,  \* the Hubs whose login page is open in the browser
  tok,     \* tok[c]: tokenChan, and then the token c verifies
  spoiled  \* history: two saves overlapped, or one was interrupted

vars == <<file, at, op, mem, port, opened, tok, spoiled>>

Place == {"idle", "waiting", "verify", "load", "save", "write", "ended"}
IsLogin(c) == op[c].kind = "login"

Blank == [hubURL |-> None, projectID |-> None, token |-> None]
NoConfig == [current |-> None, profiles |-> [n \in Names |-> None]]

TypeOK ==
  /\ file \in Config \union {None, Truncated, Torn}
  /\ at \in [Commands -> Place]
  /\ op \in [Commands -> Offered \union {None}]
  /\ \A c \in Commands : at[c] \notin {"idle", "ended"} => op[c] \in Offered
  /\ \A c \in Commands : at[c] \in {"waiting", "verify"} => IsLogin(c)
  /\ mem \in [Commands -> Config]
  /\ port \in Commands \union {None}
  /\ port # None => at[port] = "waiting"
  /\ opened \in SUBSET Hubs
  /\ tok \in [Commands -> Tokens \union {None}]
  /\ spoiled \in BOOLEAN

Init ==
  /\ file = None
  /\ at = [c \in Commands |-> "idle"]
  /\ op = [c \in Commands |-> None]
  /\ mem = [c \in Commands |-> NoConfig]
  /\ port = None
  /\ opened = {}
  /\ tok = [c \in Commands |-> None]
  /\ spoiled = FALSE

Goto(c, place) == at' = [at EXCEPT ![c] = place]
(* A process that ends frees the port.                                     *)
Freed(c) == IF port = c THEN None ELSE port

-----------------------------------------------------------------------------
(* Login *)

(* The callback server and the browser are started; with the port taken    *)
(* the browser is opened all the same, and then the login fails.           *)
StartLogin(c, o) ==
  /\ at[c] = "idle" /\ o.kind = "login"
  /\ op' = [op EXCEPT ![c] = o]
  /\ opened' = opened \union {o.hub}
  /\ Goto(c, IF port = None THEN "waiting" ELSE "ended")
  /\ port' = IF port = None THEN c ELSE port
  /\ UNCHANGED <<file, mem, tok, spoiled>>

(* A page redirects to the port with a token of its Hub: whichever login   *)
(* listens takes the first one.                                            *)
Callback(h, t) ==
  /\ h \in opened /\ t \in Issues[h]
  /\ port # None /\ tok[port] = None
  /\ tok' = [tok EXCEPT ![port] = t]
  /\ UNCHANGED <<file, at, op, mem, port, opened, spoiled>>

(* Mutant: a login waits for its callback and nothing else.                *)
GiveUpNever(c) ==
  /\ at[c] = "waiting" /\ tok[c] # None
  /\ Goto(c, "ended")
  /\ port' = Freed(c)
  /\ UNCHANGED <<file, op, mem, opened, tok, spoiled>>

(* The five minutes have passed, or a callback came without a token; the   *)
(* select takes any case that is ready.                                    *)
GiveUp(c) ==
  /\ at[c] = "waiting"
  /\ Goto(c, "ended")
  /\ port' = Freed(c)
  /\ UNCHANGED <<file, op, mem, opened, tok, spoiled>>

(* The callback server is shut down.                                       *)
TakeToken(c) ==
  /\ at[c] = "waiting" /\ tok[c] # None
  /\ Goto(c, "verify")
  /\ port' = Freed(c)
  /\ UNCHANGED <<file, op, mem, opened, tok, spoiled>>

(* Mutant: the token is not tried.                                         *)
getUserInfoSkipped(c) ==
  /\ at[c] = "verify"
  /\ Goto(c, "load")
  /\ UNCHANGED <<file, op, mem, port, opened, tok, spoiled>>

(* The Hub of this login is asked who the token's user is.                 *)
getUserInfo(c) ==
  /\ at[c] = "verify"
  /\ Goto(c, IF tok[c] \in Accepts[op[c].hub] THEN "load" ELSE "ended")
  /\ UNCHANGED <<file, op, mem, port, opened, tok, spoiled>>

-----------------------------------------------------------------------------
(* Load, change, save *)

Start(c, o) ==
  /\ at[c] = "idle" /\ o.kind # "login"
  /\ op' = [op EXCEPT ![c] = o]
  /\ Goto(c, "load")
  /\ UNCHANGED <<file, mem, port, opened, tok, spoiled>>

Or(given, old) == IF given = None THEN old ELSE given

(* The configuration with p as its profile name and cur as its current one. *)
With(cfg, name, p, cur) ==
  [current |-> cur, profiles |-> [cfg.profiles EXCEPT ![name] = p]]

(* A login replaces the profile default: its project is gone.              *)
LoggedIn(cfg, hub, token) ==
  With(cfg, Default, [hubURL |-> hub, projectID |-> None, token |-> token], Default)

(* `profile set` keeps the fields it is not given, and is the current      *)
(* profile when there is none.                                             *)
WithProfile(cfg, o) ==
  LET old == IF cfg.profiles[o.name] = None THEN Blank ELSE cfg.profiles[o.name]
  IN  With(cfg, o.name,
        [hubURL |-> Or(o.hubURL, old.hubURL),
         projectID |-> Or(o.projectID, old.projectID),
         token |-> Or(o.token, old.token)],
        Or(cfg.current, o.name))

CurrentProfile(cfg) == IF cfg.current = None THEN None ELSE cfg.profiles[cfg.current]

(* `project set` and `project auth set` change the current profile.        *)
WithProject(cfg, id) ==
  LET p == CurrentProfile(cfg) IN
  With(cfg, cfg.current,
    [hubURL |-> p.hubURL, projectID |-> id, token |-> p.token], cfg.current)
WithToken(cfg, token) ==
  LET p == CurrentProfile(cfg) IN
  With(cfg, cfg.current,
    [hubURL |-> p.hubURL, projectID |-> p.projectID, token |-> token], cfg.current)

(* Mutant: the profile to use is not looked for.                           *)
AppliesUnchecked(o, cfg) ==
  o.kind \in {"project", "auth"} => CurrentProfile(cfg) # None

(* Whether the command finds what it is about.                             *)
Applies(o, cfg) ==
  /\ o.kind = "use" => cfg.profiles[o.name] # None
  /\ o.kind \in {"project", "auth"} => CurrentProfile(cfg) # None

(* What Load returns; a file that is not there is an empty configuration.  *)
Loaded == IF file = None THEN NoConfig ELSE file

Keep(c, cfg) == mem' = [mem EXCEPT ![c] = cfg]

(* The change each command makes.                                          *)
Change(c, cfg, o) ==
  \/ o.kind = "login" /\ Keep(c, LoggedIn(cfg, o.hub, tok[c]))
  \/ o.kind = "set" /\ Keep(c, WithProfile(cfg, o))
  \/ o.kind = "use" /\ Keep(c, [current |-> o.name, profiles |-> cfg.profiles])
  \/ o.kind = "project" /\ Keep(c, WithProject(cfg, o.projectID))
  \/ o.kind = "auth" /\ Keep(c, WithToken(cfg, o.token))

(* The file is read and parsed, and the change is made in memory.          *)
Load(c) ==
  /\ at[c] = "load"
  /\ file \notin {Truncated, Torn}
  /\ Applies(op[c], Loaded)
  /\ Change(c, Loaded, op[c])
  /\ Goto(c, "save")
  /\ UNCHANGED <<file, op, port, opened, tok, spoiled>>

(* The file does not parse, or what the command is about is not there.     *)
LoadFails(c) ==
  /\ at[c] = "load"
  /\ file \notin {Truncated, Torn} => ~Applies(op[c], Loaded)
  /\ Goto(c, "ended")
  /\ UNCHANGED <<file, op, mem, port, opened, tok, spoiled>>

(* Mutant: the write alone, over the old text.                             *)
TruncateNot(c) ==
  /\ at[c] = "save"
  /\ Goto(c, "write")
  /\ spoiled' = (spoiled \/ \E d \in Commands : at[d] = "write")
  /\ UNCHANGED <<file, op, mem, port, opened, tok>>

(* os.WriteFile opens the file with O_TRUNC...                             *)
Truncate(c) ==
  /\ at[c] = "save"
  /\ Goto(c, "write")
  /\ file' = Truncated
  /\ spoiled' = (spoiled \/ \E d \in Commands : at[d] = "write")
  /\ UNCHANGED <<op, mem, port, opened, tok>>

(* ...and writes from its start: over another save's longer text this      *)
(* leaves the end of that one.                                             *)
Write(c) ==
  /\ at[c] = "write"
  /\ file' \in IF file = Truncated THEN {mem[c]} ELSE {mem[c], Torn}
  /\ Goto(c, "ended")
  /\ UNCHANGED <<op, mem, port, opened, tok, spoiled>>

(* Mutant: the port of a process that has ended stays taken.               *)
InterruptedHolding(c) ==
  /\ at[c] \notin {"idle", "ended"}
  /\ Goto(c, "ended")
  /\ spoiled' = (spoiled \/ at[c] = "write")
  /\ UNCHANGED <<file, op, mem, port, opened, tok>>

(* Ctrl-C, a full disk, a Hub that does not answer getUserInfo.            *)
Interrupted(c) ==
  /\ at[c] \notin {"idle", "ended"}
  /\ Goto(c, "ended")
  /\ port' = Freed(c)
  /\ spoiled' = (spoiled \/ at[c] = "write")
  /\ UNCHANGED <<file, op, mem, opened, tok>>

CommandStep(c) ==
  \/ GiveUp(c) \/ TakeToken(c) \/ getUserInfo(c)
  \/ Load(c) \/ LoadFails(c) \/ Truncate(c) \/ Write(c)

Next ==
  \/ \E c \in Commands :
       \/ \E o \in Offered : StartLogin(c, o) \/ Start(c, o)
       \/ CommandStep(c)
       \/ Interrupted(c)
  \/ \E h \in Hubs, t \in Tokens : Callback(h, t)

(* A process that is not blocked runs, and its timeouts fire.              *)
Spec == Init /\ [][Next]_vars /\ \A c \in Commands : WF_vars(CommandStep(c))

-----------------------------------------------------------------------------
(* Properties *)

(* The current profile is one of the file's profiles, however the saves of *)
(* several commands drop each other's changes: project set, project auth   *)
(* set and the communicator look it up.                                    *)
CurrentIsAProfile ==
  file \in Config /\ file.current # None => file.profiles[file.current] # None

(* The file does not parse only while a command saves it, or after two     *)
(* saves have overlapped or one was interrupted.                           *)
UnreadableOnlyWhenSpoiled ==
  file \in {Truncated, Torn} => spoiled \/ \E c \in Commands : at[c] = "write"

(* What a login saves is a token that the Hub it saves with it accepts,    *)
(* also when the token came from the page that another login had opened at *)
(* another Hub.                                                            *)
LoginSavesItsHubsToken ==
  \A c \in Commands : at[c] \in {"save", "write"} /\ IsLogin(c) =>
    LET p == mem[c].profiles[Default] IN
    p.hubURL = op[c].hub /\ p.token \in Accepts[p.hubURL]

(* Every command ends, also a login that gets no callback.                 *)
CommandsEnd == \A c \in Commands : at[c] # "idle" ~> at[c] = "ended"
=============================================================================
