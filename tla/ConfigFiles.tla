------------------------------ MODULE ConfigFiles ------------------------------
(***************************************************************************)
(* config.yaml and credentials.env of the data directory, and who writes   *)
(* them: the Settings page, filled by the window and by the poller; a      *)
(* sign-in of the app, which saves a token and then the connection; a      *)
(* `task-timer-daemon -connect` in a terminal; a person with an editor.    *)
(* The daemon reads both when it starts.  No file is locked.               *)
(*                                                                         *)
(* One provider, the gateway, stands for all.  A token is named after the  *)
(* backend that issued it.                                                 *)
(***************************************************************************)
EXTENDS Naturals, FiniteSets

CONSTANTS
    Conn,              \* sign-ins of the app
    Window, Poller, Terminal, Daemon,
    Form,              \* the copy of the file that the page shows
    Url, None,
    Var, DefaultVar,   \* names for the variable that holds the token
    Note, NoNote,      \* values of a key that no form renders
    Whatever,               \* no value is owed
    Changed,           \* settings that people change, on the page or by hand (bound)
    MaxTyped,          \* fields typed between two fills of the page (bound)
    MaxSaves,          \* presses of Save (bound)
    MaxEdits           \* edits by hand (bound)

Proc == Conn \cup {Window, Poller, Terminal, Daemon}
Writer == Conn \cup {Window}          \* of config.yaml
SignIn == Conn \cup {Terminal}        \* writers of credentials.env
MaybeUrl == Url \cup {None}

Config == [url : MaybeUrl, on : BOOLEAN, env : Var, note : Note]
Values == [url |-> MaybeUrl, on |-> BOOLEAN, env |-> Var, note |-> Note]
Field == DOMAIN Values
OnForm == Field \ {"note"}
Tokens == [Var -> MaybeUrl]

ASSUME ConfigAssumption ==
    /\ DefaultVar \in Var
    /\ NoNote \in Note
    /\ Changed \subseteq Field
    /\ None \notin Url \cup Config \cup Tokens
    /\ Whatever \notin MaybeUrl \cup Var \cup Note \cup BOOLEAN
    /\ MaxTyped \in Nat /\ MaxSaves \in Nat /\ MaxEdits \in Nat
    /\ Window \notin SignIn \cup {Poller, Daemon}
    /\ Daemon \notin SignIn \cup {Poller}
    /\ Terminal \notin Conn /\ Poller \notin SignIn
    /\ Form \notin Proc

VARIABLES
    config,            \* config.yaml, None when there is no file
    broken,            \* it does not parse
    env                \* credentials.env

VARIABLES
    pc,
    absent,            \* processes that found no config.yaml
    held,              \* the config a writer has loaded
    heldEnv,           \* the lines a sign-in, or the daemon, has read
    target, name,      \* of a sign-in: the backend, and the variable for its token
    form, edited,      \* the page, and the fields typed since it was filled
    saves, edits

\* Observability variables.
VARIABLES
    behind, envBehind, \* copies the file has moved on from
    asked,             \* what was last asked of each field; Whatever once a stale copy was saved
    saved,             \* the token last saved under each name; Whatever once it may be lost
    signedIn           \* names under which a sign-in of the app was completed

files == <<config, broken, env>>
locals == <<pc, absent, held, heldEnv, target, name>>
page == <<form, edited, saves>>
configHistory == <<behind, asked>>
envHistory == <<envBehind, saved, signedIn>>
vars == <<files, locals, page, edits, configHistory, envHistory>>

\* exampleConfig: the defaults of providers.yaml, disabled.
Example == [url |-> None, on |-> FALSE, env |-> DefaultVar, note |-> NoNote]
NoTokens == [v \in Var |-> None]

TypeOK ==
    /\ config \in Config \cup {None} /\ broken \in BOOLEAN /\ env \in Tokens
    /\ pc \in [Proc -> {"idle", "write", "browser", "env", "truncate", "put",
                        "load", "link", "done", "config"}]
    /\ absent \subseteq Proc
    /\ held \in [Writer -> Config \cup {None}]
    /\ heldEnv \in [SignIn \cup {Daemon} -> Tokens \cup {None}]
    /\ target \in [SignIn -> MaybeUrl]
    /\ name \in [SignIn -> Var \cup {None}]
    /\ form \in Config /\ edited \subseteq OnForm
    /\ saves \in 0..MaxSaves /\ edits \in 0..MaxEdits
    /\ behind \subseteq Proc \cup {Form} /\ envBehind \subseteq SignIn \cup {Daemon}
    /\ \A f \in Field : asked[f] \in Values[f] \cup {Whatever}
    /\ saved \in [Var -> MaybeUrl \cup {Whatever}]
    /\ signedIn \subseteq Var

Init ==
    /\ config \in {None, Example}
    /\ broken = FALSE
    /\ env = NoTokens
    /\ pc = [p \in Proc |-> "idle"]
    /\ absent = {}
    /\ held = [p \in Writer |-> None]
    /\ heldEnv = [p \in SignIn \cup {Daemon} |-> None]
    /\ target = [p \in SignIn |-> None]
    /\ name = [p \in SignIn |-> None]
    /\ form = Example
    /\ edited = {}
    /\ saves = 0
    /\ edits = 0
    /\ behind = {Form}             \* the page has not been filled
    /\ envBehind = {}
    /\ asked = Example
    /\ saved = NoTokens
    /\ signedIn = {}

-----------------------------------------------------------------------------
(* LoadConfig and SaveConfig. *)

Goto(p, l) == pc' = [pc EXCEPT ![p] = l]

\* While a sign-in waits for the browser its dialog covers the window.
Waiting == \E c \in Conn : pc[c] \in {"browser", "env", "truncate", "put"}

\* The processes whose next step is LoadConfig.
Loading(p) ==
    \/ p = Window /\ pc[p] = "idle" /\ ~Waiting
    \/ p = Poller
    \/ p \in Conn /\ pc[p] \in {"browser", "load"}
    \/ p = Terminal /\ pc[p] = "idle"
    \/ p = Daemon /\ pc[p] = "config"

\* The copies of config.yaml in hand.
Copies == {Form} \cup absent \cup {p \in Writer : held[p] # None}

FindNoConfig(p) ==
    /\ Loading(p) /\ p \notin absent
    /\ config = None
    /\ absent' = absent \cup {p}
    /\ UNCHANGED <<files, pc, held, heldEnv, target, name, page, edits, configHistory, envHistory>>

\* writeExample writes over whatever is there by now.
WriteExample(p) ==
    /\ Loading(p) /\ p \in absent
    /\ config' = Example
    /\ absent' = absent \ {p}
    /\ asked' = IF p \in behind THEN [f \in Field |-> Whatever] ELSE asked

\* Cut short, it leaves a file that does not parse; an empty one reads as Example.
WriteExampleFails(p) ==
    /\ WriteExample(p)
    /\ broken' = TRUE
    /\ behind' = Copies \ {p}
    /\ UNCHANGED <<env, pc, held, heldEnv, target, name, page, edits, envHistory>>

\* What LoadConfig returns, and the step it takes; the copies in fresh are the file from
\* now on.
Loaded(p) == IF p \in absent THEN Example ELSE config

LoadConfig(p, fresh) ==
    \/ /\ Loading(p) /\ p \notin absent
       /\ config # None /\ ~broken
       /\ behind' = behind \ fresh
       /\ UNCHANGED <<config, broken, absent, asked>>
    \/ /\ WriteExample(p)
       /\ broken' = FALSE
       /\ behind' = Copies \ (fresh \cup {p})

\* The rename. What is in own was asked for; what is in stale may undo an older wish.
SaveConfig(p, c, own, stale) ==
    /\ config' = c
    /\ broken' = FALSE
    /\ held' = [held EXCEPT ![p] = None]
    /\ behind' = Copies \ {p}
    /\ asked' = [f \in Field |-> IF f \in own THEN c[f]
                                 ELSE IF f \in stale THEN Whatever ELSE asked[f]]

-----------------------------------------------------------------------------
(* The Settings page. *)

\* selectPage and Discard fill it, and the poller does so every five seconds.
Refresh(p) ==
    /\ p \in {Window, Poller}
    /\ LoadConfig(p, {Form})
    /\ form' = [Loaded(p) EXCEPT !.note = NoNote]
    /\ edited' = {}
    /\ UNCHANGED <<env, pc, held, heldEnv, target, name, saves, edits, envHistory>>

Type(f, v) ==
    /\ pc[Window] = "idle" /\ Window \notin absent /\ ~Waiting
    /\ form[f] # v
    /\ form' = [form EXCEPT ![f] = v]
    /\ edited' = edited \cup {f}
    /\ Cardinality(edited') <= MaxTyped
    /\ UNCHANGED <<files, locals, saves, edits, configHistory, envHistory>>

\* save reads the file again, for what the form does not render.
Save ==
    /\ saves < MaxSaves
    /\ LoadConfig(Window, {Window})
    /\ held' = [held EXCEPT ![Window] = Loaded(Window)]
    /\ Goto(Window, "write")
    /\ UNCHANGED <<env, heldEnv, target, name, page, edits, envHistory>>

SaveWrite ==
    /\ pc[Window] = "write"
    /\ SaveConfig(Window, [form EXCEPT !.note = held[Window].note], edited,
                  (IF Form \in behind THEN OnForm ELSE {})
                      \cup (IF Window \in behind THEN {"note"} ELSE {}))
    /\ edited' = {}
    /\ saves' = saves + 1
    /\ Goto(Window, "idle")
    /\ UNCHANGED <<env, absent, heldEnv, target, name, form, edits, envHistory>>

-----------------------------------------------------------------------------
(* Sign-ins.  What passes between the browser and the server is module SignIn. *)

Forget(p) ==
    /\ target' = [q \in SignIn |-> IF q = p THEN None ELSE target[q]]
    /\ name' = [q \in SignIn |-> IF q = p THEN None ELSE name[q]]

\* Log in, with the backend of the form or of the dialog.
RunConnect(c, u) ==
    /\ pc[c] = "idle"
    /\ pc[Window] = "idle" /\ Window \notin absent /\ ~Waiting
    /\ Goto(c, "browser")
    /\ target' = [target EXCEPT ![c] = u]
    /\ UNCHANGED <<files, absent, held, heldEnv, name, page, edits, configHistory, envHistory>>

\* Seeded fault: without a config there is no name.
ConfiguredConfigBare(c) ==
    /\ pc[c] = "browser"
    /\ \/ /\ LoadConfig(c, {c})
          /\ name' = [name EXCEPT ![c] = Loaded(c).env]
       \/ /\ broken /\ config # None /\ c \notin absent
          /\ name' = name
          /\ UNCHANGED <<config, broken, absent, configHistory>>
    /\ Goto(c, "env")
    /\ UNCHANGED <<env, held, heldEnv, target, page, edits, envHistory>>

\* connect has its token, and asks the config for the name to save it under; a config
\* that does not load names none.
ConfiguredConfig(c) ==
    /\ pc[c] = "browser"
    /\ \/ /\ LoadConfig(c, {c})
          /\ name' = [name EXCEPT ![c] = Loaded(c).env]
       \/ /\ broken /\ config # None /\ c \notin absent
          /\ name' = [name EXCEPT ![c] = DefaultVar]
          /\ UNCHANGED <<config, broken, absent, configHistory>>
    /\ Goto(c, "env")
    /\ UNCHANGED <<env, held, heldEnv, target, page, edits, envHistory>>

\* -connect takes backend and name from the file before it opens a browser.
ConnectGateway ==
    /\ LoadConfig(Terminal, {Terminal})
    /\ target' = [target EXCEPT ![Terminal] = Loaded(Terminal).url]
    /\ IF Loaded(Terminal).url = None
       THEN Goto(Terminal, "done") /\ name' = name
       ELSE Goto(Terminal, "env")
            /\ name' = [name EXCEPT ![Terminal] = Loaded(Terminal).env]
    /\ UNCHANGED <<env, held, heldEnv, page, edits, envHistory>>

EnvCopies == {p \in SignIn \cup {Daemon} : heldEnv[p] # None}

\* Seeded fault: a credentials.env that cannot be read is passed over.
PassOver(p) ==
    /\ pc[p] = "env"
    /\ Goto(p, IF p = Terminal THEN "done" ELSE "load")
    /\ UNCHANGED <<files, absent, held, heldEnv, target, name, page, edits, configHistory,
                   envHistory>>

\* SetEnvVar: read, then os.WriteFile, which empties the file before it writes.
ReadEnv(p) ==
    /\ pc[p] = "env"
    /\ heldEnv' = [heldEnv EXCEPT ![p] = env]
    /\ Goto(p, "truncate")
    /\ UNCHANGED <<files, absent, held, target, name, page, edits, configHistory, envHistory>>

Truncate(p) ==
    /\ pc[p] = "truncate"
    /\ env' = NoTokens
    /\ envBehind' = (envBehind \cap {p}) \cup (EnvCopies \ {p})
    /\ Goto(p, "put")
    /\ UNCHANGED <<config, broken, absent, held, heldEnv, target, name, page, edits,
                   configHistory, saved, signedIn>>

\* Seeded fault: the file is written anew.
PutAlone(p) ==
    /\ pc[p] = "put"
    /\ env' = [NoTokens EXCEPT ![name[p]] = target[p]]
    /\ heldEnv' = [heldEnv EXCEPT ![p] = None]
    /\ envBehind' = EnvCopies \ {p}
    /\ saved' = [v \in Var |-> IF v = name[p] THEN target[p]
                               ELSE IF p \in envBehind THEN Whatever ELSE saved[v]]
    /\ IF p = Terminal THEN Goto(p, "done") /\ Forget(p)
       ELSE Goto(p, "load") /\ UNCHANGED <<target, name>>
    /\ UNCHANGED <<config, broken, absent, held, page, edits, configHistory, signedIn>>

\* A copy that was behind takes the tokens saved since with it. -connect is done.
Put(p) ==
    /\ pc[p] = "put"
    /\ env' = [heldEnv[p] EXCEPT ![name[p]] = target[p]]
    /\ heldEnv' = [heldEnv EXCEPT ![p] = None]
    /\ envBehind' = EnvCopies \ {p}
    /\ saved' = [v \in Var |-> IF v = name[p] THEN target[p]
                               ELSE IF p \in envBehind THEN Whatever ELSE saved[v]]
    /\ IF p = Terminal THEN Goto(p, "done") /\ Forget(p)
       ELSE Goto(p, "load") /\ UNCHANGED <<target, name>>
    /\ UNCHANGED <<config, broken, absent, held, page, edits, configHistory, signedIn>>

\* saveConnection.
ConnectionLoad(c) ==
    /\ pc[c] = "load"
    /\ LoadConfig(c, {c})
    /\ held' = [held EXCEPT ![c] = Loaded(c)]
    /\ Goto(c, "link")
    /\ UNCHANGED <<env, heldEnv, target, name, page, edits, envHistory>>

\* Seeded fault: the connection is saved with the defaults.
SaveConnectionAnew(c) ==
    /\ pc[c] = "link"
    /\ SaveConfig(c, [Example EXCEPT !.url = target[c], !.on = TRUE], {"url", "on"},
                  IF c \in behind THEN {"env", "note"} ELSE {})
    /\ signedIn' = signedIn \cup {name[c]}
    /\ Goto(c, "done")
    /\ Forget(c)
    /\ UNCHANGED <<env, absent, heldEnv, page, edits, envBehind, saved>>

SaveConnection(c) ==
    /\ pc[c] = "link"
    /\ SaveConfig(c, [held[c] EXCEPT !.url = target[c], !.on = TRUE], {"url", "on"},
                  IF c \in behind THEN {"env", "note"} ELSE {})
    /\ signedIn' = signedIn \cup {name[c]}
    /\ Goto(c, "done")
    /\ Forget(c)
    /\ UNCHANGED <<env, absent, heldEnv, page, edits, envBehind, saved>>

\* An error, or the death of the process, which is this for each of its goroutines.
Fail(p) ==
    /\ pc[p] \notin {"idle", "done"} \/ p \in absent
    /\ Goto(p, IF p \in SignIn THEN "done" ELSE "idle")
    /\ absent' = absent \ {p}
    /\ held' = [q \in Writer |-> IF q = p THEN None ELSE held[q]]
    /\ heldEnv' = [q \in SignIn \cup {Daemon} |-> IF q = p THEN None ELSE heldEnv[q]]
    /\ behind' = behind \ {p}
    /\ envBehind' = envBehind \ {p}
    /\ saved' = IF pc[p] = "put" THEN [v \in Var |-> Whatever] ELSE saved
    /\ Forget(p)
    /\ UNCHANGED <<files, page, edits, asked, signedIn>>

-----------------------------------------------------------------------------
(* A person with an editor, who saves a file that parses or one that does not. *)

EditConfig(f, v) ==
    /\ edits < MaxEdits
    /\ config # None
    /\ config' = [config EXCEPT ![f] = v]
    /\ broken' \in BOOLEAN
    /\ asked' = [asked EXCEPT ![f] = v]
    /\ behind' = Copies
    /\ edits' = edits + 1
    /\ UNCHANGED <<env, locals, page, envHistory>>

-----------------------------------------------------------------------------
(* The daemon reads credentials.env, then config.yaml, and neither again. *)

LoadEnv ==
    /\ pc[Daemon] = "idle"
    /\ heldEnv' = [heldEnv EXCEPT ![Daemon] = env]
    /\ Goto(Daemon, "config")
    /\ UNCHANGED <<files, absent, held, target, name, page, edits, configHistory, envHistory>>

\* run: what the two files held decides whether it goes on.
DaemonLoad ==
    /\ LoadConfig(Daemon, {Daemon})
    /\ Goto(Daemon, "idle")
    /\ heldEnv' = [heldEnv EXCEPT ![Daemon] = None]
    /\ envBehind' = envBehind \ {Daemon}
    /\ UNCHANGED <<env, held, target, name, page, edits, saved, signedIn>>

\* New and resolveToken: an enabled provider needs its backend and its token.
Refuses(c, tokens) == c.on /\ (c.url = None \/ tokens[c.env] = None)

-----------------------------------------------------------------------------

Settings ==
    \/ \E p \in {Window, Poller} : Refresh(p)
    \/ \E f \in OnForm \cap Changed : \E v \in Values[f] : Type(f, v)
    \/ Save \/ SaveWrite

Connecting ==
    \/ \E c \in Conn :
        \/ \E u \in Url : RunConnect(c, u)
        \/ ConfiguredConfig(c) \/ ConnectionLoad(c) \/ SaveConnection(c)
    \/ ConnectGateway
    \/ \E p \in SignIn : ReadEnv(p) \/ Truncate(p) \/ Put(p)

Next ==
    \/ Settings
    \/ Connecting
    \/ \E p \in Proc : FindNoConfig(p) \/ WriteExampleFails(p) \/ Fail(p)
    \/ \E f \in Changed : \E v \in Values[f] : EditConfig(f, v)
    \/ LoadEnv \/ DaemonLoad

Spec == Init /\ [][Next]_vars

-----------------------------------------------------------------------------

\* Each setting of the file is the last one asked for it, on the page, by a sign-in or
\* by hand, unless it was since saved from a copy that was behind the file (save,
\* saveConnection, writeExample).
LastWordHolds ==
    config # None => \A f \in Field : asked[f] \in {config[f], Whatever}

\* The last token saved under a name is in credentials.env, unless a rewrite is under
\* way, was cut short, or started from a copy that was behind (SetEnvVar).
TokensSurvive ==
    (\A p \in SignIn : pc[p] # "put") => \A v \in Var : saved[v] \in {env[v], Whatever}

\* "Config and token writes are atomic (temp file + rename, mode 0600)" (DEVELOPER.md):
\* whoever reads credentials.env, at whatever moment, finds the last token saved under each
\* name (SetEnvVar).
TokenWritesAreAtomic == \A v \in Var : saved[v] \in {env[v], Whatever}

\* A daemon misses the token of a provider only if no sign-in was completed under the
\* name in the config, or the file was rewritten since the daemon read it, or lost it.
RefusalIsExplained ==
    pc[Daemon] = "config" /\ Loaded(Daemon) # None =>
        LET c == Loaded(Daemon)
        IN  Refuses(c, heldEnv[Daemon]) /\ c.url # None =>
                \/ c.env \notin signedIn
                \/ saved[c.env] = Whatever
                \/ Daemon \in envBehind
                \/ \E p \in SignIn : pc[p] = "put"

=============================================================================
