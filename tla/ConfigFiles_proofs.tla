-------------------------- MODULE ConfigFiles_proofs --------------------------
(***************************************************************************)
(* Proofs about ConfigFiles, for any sign-ins, backends, names and bounds.  *)
(* The invariant has two halves, one a file.  Copied says of config.yaml     *)
(* that a copy is the file unless it is behind, so that what a writer takes   *)
(* over from its copy is what was asked for.  Kept says of credentials.env    *)
(* that a copy holds every token saved, unless it is behind or the file is    *)
(* just being rewritten by somebody else.                                    *)
(***************************************************************************)
EXTENDS ConfigFiles, TLAPS

USE ConfigAssumption DEF MaybeUrl

Stage == {"idle", "write", "browser", "env", "truncate", "put", "load", "link", "done", "config"}

\* The records of Config, as functions on its fields.
LEMMA Fields == Field = {"url", "on", "env", "note"}
  BY DEF Field, Values

LEMMA FieldValues ==
  /\ Values["url"] = MaybeUrl /\ Values["on"] = BOOLEAN
  /\ Values["env"] = Var /\ Values["note"] = Note
  BY DEF Values

LEMMA ExampleIsConfig == Example \in Config
  BY DEF Example, Config

LEMMA ConfigFields ==
  ASSUME NEW c \in Config, NEW f \in Field
  PROVE  DOMAIN c = Field /\ c[f] \in Values[f]
  BY Fields, FieldValues DEF Config

LEMMA ConfigExcept ==
  ASSUME NEW c \in Config, NEW f \in Field, NEW v \in Values[f]
  PROVE  /\ [c EXCEPT ![f] = v] \in Config
         /\ \A g \in Field : [c EXCEPT ![f] = v][g] = IF g = f THEN v ELSE c[g]
  <1>1. CASE f = "url"
    BY <1>1, Fields, FieldValues DEF Config
  <1>2. CASE f = "on"
    BY <1>2, Fields, FieldValues DEF Config
  <1>3. CASE f = "env"
    BY <1>3, Fields, FieldValues DEF Config
  <1>4. CASE f = "note"
    BY <1>4, Fields, FieldValues DEF Config
  <1> QED BY <1>1, <1>2, <1>3, <1>4, Fields

LEMMA ConfigNote ==
  ASSUME NEW c \in Config, NEW n \in Note
  PROVE  /\ [c EXCEPT !.note = n] \in Config
         /\ [c EXCEPT !.note = n].note = n
         /\ \A g \in OnForm : [c EXCEPT !.note = n][g] = c[g]
  BY Fields DEF Config, OnForm

LEMMA ConfigConnection ==
  ASSUME NEW c \in Config, NEW u \in MaybeUrl
  PROVE  /\ [c EXCEPT !.url = u, !.on = TRUE] \in Config
         /\ \A g \in {"env", "note"} : [c EXCEPT !.url = u, !.on = TRUE][g] = c[g]
  BY DEF Config

LEMMA TokensExcept ==
  ASSUME NEW t \in Tokens, NEW v \in Var, NEW u \in MaybeUrl
  PROVE  /\ [t EXCEPT ![v] = u] \in Tokens
         /\ \A w \in Var : [t EXCEPT ![v] = u][w] = IF w = v THEN u ELSE t[w]
  BY DEF Tokens

-----------------------------------------------------------------------------
(* The invariant. *)

\* asked is a function on the fields, and its values those of the fields.
Asked(a) == DOMAIN a = Field /\ \A f \in Field : a[f] \in Values[f] \cup {Whatever}

\* config.yaml.
Copied ==
    /\ Asked(asked)
    /\ config = None => asked = Example
    /\ config # None => absent \subseteq behind
    /\ \A w \in Writer :
         /\ held[w] # None <=> pc[w] \in {"write", "link"}
         /\ pc[w] \in {"write", "link"} => w \notin absent /\ config # None
         /\ held[w] # None /\ w \notin behind => held[w] = config
    /\ pc[Window] \in {"write", "link"} => saves < MaxSaves
    /\ Form \notin behind => config # None /\ \A f \in OnForm \ edited : form[f] = config[f]
    /\ LastWordHolds

\* The copy t lacks no saved token.
Whole(t) == \A v \in Var : saved[v] \in {t[v], Whatever}

\* credentials.env.
Kept ==
    /\ \A p \in SignIn :
         /\ pc[p] \in {"browser", "env", "truncate", "put", "load", "link"} => target[p] # None
         /\ pc[p] \in {"env", "truncate", "put", "load", "link"} => name[p] \in Var
         /\ pc[p] \in {"truncate", "put"} => heldEnv[p] # None
         /\ p \in Conn /\ pc[p] \in {"load", "link"} => saved[name[p]] # None
    /\ pc[Daemon] = "config" => heldEnv[Daemon] # None
    /\ \A p \in SignIn \cup {Daemon} :
         heldEnv[p] # None /\ p \notin envBehind =>
            (\E q \in SignIn \ {p} : pc[q] = "put") \/ Whole(heldEnv[p])
    /\ \A v \in signedIn : saved[v] # None
    /\ TokensSurvive

IInv == TypeOK /\ Copied /\ Kept

LEMMA Initially == Init => IInv
  <1> SUFFICES ASSUME Init PROVE IInv
    OBVIOUS
  <1>1. TypeOK
    <2>1. NoTokens \in Tokens
      BY DEF NoTokens, Tokens
    <2>2. \A f \in Field : asked[f] \in Values[f] \cup {Whatever}
      BY ExampleIsConfig, ConfigFields DEF Init
    <2>3. saved \in [Var -> MaybeUrl \cup {Whatever}]
      BY DEF Init, NoTokens
    <2>4. /\ pc \in [Proc -> Stage] /\ held \in [Writer -> Config \cup {None}]
          /\ heldEnv \in [SignIn \cup {Daemon} -> Tokens \cup {None}]
          /\ target \in [SignIn -> MaybeUrl] /\ name \in [SignIn -> Var \cup {None}]
      BY DEF Init, Stage
    <2>5. saves \in 0..MaxSaves /\ edits \in 0..MaxEdits
      BY DEF Init
    <2> QED BY <2>1, <2>2, <2>3, <2>4, <2>5, ExampleIsConfig DEF Init, TypeOK, Stage
  <1>2. Copied
    <2>1. Asked(asked)
      <3>1. DOMAIN Example = Field
        BY ExampleIsConfig, ConfigFields, Fields
      <3> QED BY <3>1, ExampleIsConfig, ConfigFields DEF Init, Asked
    <2>2. LastWordHolds
      BY DEF Init, LastWordHolds
    <2> QED BY <2>1, <2>2 DEF Init, Copied, Proc, Writer
  <1>3. Kept
    BY DEF Init, Kept, TokensSurvive, Whole, Proc, SignIn, NoTokens
  <1> QED BY <1>1, <1>2, <1>3 DEF IInv

-----------------------------------------------------------------------------
(* Steps that touch one of the halves only. *)

\* The writers at their rename are the same before and after.
SameWriters == \A w \in Writer : pc'[w] \in {"write", "link"} <=> pc[w] \in {"write", "link"}

LEMMA CopiedStays ==
  ASSUME Copied, SameWriters, UNCHANGED <<config, absent, held, page, behind, asked>>
  PROVE  Copied'
  BY DEF Copied, SameWriters, Writer, page, Asked, LastWordHolds

\* The sign-ins at their rewrite are the same, and none is further than before.
SameSignIns ==
    /\ \A p \in SignIn :
         \/ pc'[p] = pc[p]
         \/ pc[p] # "put"
            /\ pc'[p] \notin {"browser", "env", "truncate", "put", "load", "link"}
    /\ pc'[Daemon] = "config" => pc[Daemon] = "config"

LEMMA KeptStays ==
  ASSUME Kept, SameSignIns,
         UNCHANGED <<env, heldEnv, target, name, envHistory>>
  PROVE  Kept'
  <1>1. \A p \in SignIn : pc[p] = "put" <=> pc'[p] = "put"
    BY DEF SameSignIns
  <1> QED BY <1>1 DEF Kept, SameSignIns, envHistory, TokensSurvive, Whole

-----------------------------------------------------------------------------
(* LoadConfig. *)

LEMMA Loads ==
  ASSUME IInv, NEW p \in Proc, NEW fresh \in SUBSET {Form, p}, LoadConfig(p, fresh)
  PROVE  /\ config' \in Config /\ config' # None /\ config' = Loaded(p)
         /\ broken' \in BOOLEAN
         /\ absent' = absent \ {p}
         /\ behind' \subseteq Proc \cup {Form}
         /\ absent' \subseteq behind'
         /\ Asked(asked')
         /\ \A f \in Field : asked'[f] \in {config'[f], Whatever}
         /\ \A w \in Writer : w \notin behind' \cup fresh /\ held[w] # None => held[w] = config'
         /\ Form \notin behind' \cup fresh => \A f \in OnForm \ edited : form[f] = config'[f]
  <1> USE DEF IInv
  <1>1. CASE /\ Loading(p) /\ p \notin absent
             /\ config # None /\ ~broken
             /\ behind' = behind \ fresh
             /\ UNCHANGED <<config, broken, absent, asked>>
    <2>1. absent' \subseteq behind'
      BY <1>1 DEF Copied, TypeOK
    <2> QED BY <1>1, <2>1 DEF Copied, TypeOK, Loaded, LastWordHolds
  <1>2. CASE /\ WriteExample(p)
             /\ broken' = FALSE
             /\ behind' = Copies \ (fresh \cup {p})
    <2>1. /\ config' = Example /\ absent' = absent \ {p} /\ p \in absent
          /\ asked' = IF p \in behind THEN [f \in Field |-> Whatever] ELSE asked
          /\ Loading(p)
      BY <1>2 DEF WriteExample
    <2>2. config' \in Config /\ config' # None
      BY <2>1, ExampleIsConfig
    <2>3. p \in Writer => held[p] = None
      BY <2>1 DEF Copied
    <2>4. Copies \subseteq Proc \cup {Form}
      BY DEF Copies, TypeOK, Writer, Proc
    <2>5. absent' \subseteq behind' /\ behind' \subseteq Proc \cup {Form}
      BY <1>2, <2>1, <2>4 DEF Copies, TypeOK
    <2>6. \A w \in Writer : w \notin behind' \cup fresh => held[w] = None
      BY <1>2, <2>3 DEF Copies
    <2>7. Form \in behind' \cup fresh
      BY <1>2 DEF Copies
    <2>8. Asked(asked') /\ \A f \in Field : asked'[f] \in {config'[f], Whatever}
      <3>1. CASE p \in behind
        BY <3>1, <2>1 DEF Asked
      <3>2. CASE p \notin behind
        BY <3>2, <2>1 DEF Copied
      <3> QED BY <3>1, <3>2
    <2> QED BY <1>2, <2>1, <2>2, <2>5, <2>6, <2>7, <2>8 DEF Loaded
  <1> QED BY <1>1, <1>2 DEF LoadConfig

LEMMA FindNoConfigKeeps ==
  ASSUME IInv, NEW p \in Proc, FindNoConfig(p)
  PROVE  IInv'
  <1>1. TypeOK'
    BY DEF FindNoConfig, IInv, TypeOK, files, page, configHistory, envHistory
  <1>2. Copied'
    <2>1. \A w \in Writer : pc[w] \in {"write", "link"} => w # p
      BY DEF FindNoConfig, Loading, Writer, SignIn
    <2> QED BY <2>1 DEF FindNoConfig, IInv, Copied, Asked, LastWordHolds, files, page,
                        configHistory, envHistory
  <1>3. Kept'
    BY KeptStays DEF FindNoConfig, IInv, SameSignIns, files, page, configHistory, envHistory
  <1> QED BY <1>1, <1>2, <1>3 DEF IInv

LEMMA WriteExampleFailsKeeps ==
  ASSUME IInv, NEW p \in Proc, WriteExampleFails(p)
  PROVE  IInv'
  <1>1. /\ config' = Example /\ absent' = absent \ {p} /\ p \in absent
        /\ asked' = IF p \in behind THEN [f \in Field |-> Whatever] ELSE asked
        /\ Loading(p)
        /\ broken' = TRUE
        /\ behind' = Copies \ {p}
        /\ UNCHANGED <<env, pc, held, heldEnv, target, name, page, edits, envHistory>>
    BY DEF WriteExampleFails, WriteExample
  <1>2. config' \in Config /\ config' # None
    BY <1>1, ExampleIsConfig
  <1>3. Asked(asked') /\ \A f \in Field : asked'[f] \in {config'[f], Whatever}
    <2>1. CASE p \in behind
      BY <2>1, <1>1 DEF Asked
    <2>2. CASE p \notin behind
      BY <2>2, <1>1 DEF IInv, Copied
    <2> QED BY <2>1, <2>2
  <1>4. behind' \subseteq Proc \cup {Form}
    BY <1>1 DEF IInv, TypeOK, Copies, Writer, Proc
  <1>5. TypeOK'
    BY <1>1, <1>2, <1>3, <1>4 DEF IInv, TypeOK, Asked, page, envHistory
  <1>6. Copied'
    <2>1. \A w \in Writer : pc[w] \in {"write", "link"} => w # p
      BY <1>1 DEF Loading, Writer, SignIn
    <2>2. absent' \subseteq behind' /\ Form \in behind'
      BY <1>1 DEF Copies
    <2>3. \A w \in Writer : held[w] # None => w \in behind'
      BY <1>1, <2>1 DEF IInv, Copied, Copies
    <2> QED BY <1>1, <1>2, <1>3, <2>1, <2>2, <2>3 DEF IInv, Copied, LastWordHolds, page
  <1>7. Kept'
    BY <1>1, KeptStays DEF IInv, SameSignIns
  <1> QED BY <1>5, <1>6, <1>7 DEF IInv

\* A load whose copy nobody keeps, or the page does not: Copied holds when the copies in
\* fresh are dropped or are replaced by what was loaded.
LEMMA CopiedAfterLoad ==
  ASSUME IInv, NEW p \in Proc, NEW fresh \in SUBSET {Form, p}, LoadConfig(p, fresh),
         \A w \in Writer : (held'[w] # None) <=> (pc'[w] \in {"write", "link"}),
         \A w \in Writer : pc'[w] \in {"write", "link"} =>
            w = p \/ pc[w] \in {"write", "link"},
         \A w \in Writer : held'[w] = (IF w \in fresh THEN held'[w] ELSE held[w]),
         \A w \in Writer \cap fresh : held'[w] \in {None, Loaded(p)},
         Form \in fresh => \A f \in OnForm : form'[f] = Loaded(p)[f],
         Form \notin fresh => form' = form /\ edited' = edited,
         pc'[Window] \in {"write", "link"} => saves' < MaxSaves
  PROVE  Copied'
  <1>1. /\ config' \in Config /\ config' # None /\ config' = Loaded(p)
        /\ absent' = absent \ {p}
        /\ absent' \subseteq behind'
        /\ Asked(asked')
        /\ \A f \in Field : asked'[f] \in {config'[f], Whatever}
        /\ \A w \in Writer : w \notin behind' \cup fresh /\ held[w] # None => held[w] = config'
        /\ Form \notin behind' \cup fresh => \A f \in OnForm \ edited : form[f] = config'[f]
    BY Loads
  <1>2. \A w \in Writer : pc'[w] \in {"write", "link"} => w \notin absent'
    BY <1>1 DEF IInv, Copied
  <1>3. \A w \in Writer : held'[w] # None /\ w \notin behind' => held'[w] = config'
    <2> SUFFICES ASSUME NEW w \in Writer, held'[w] # None, w \notin behind'
                 PROVE  held'[w] = config'
      OBVIOUS
    <2>1. CASE w \in fresh
      BY <2>1, <1>1
    <2>2. CASE w \notin fresh
      BY <2>2, <1>1
    <2> QED BY <2>1, <2>2
  <1>4. Form \notin behind' => \A f \in OnForm \ edited' : form'[f] = config'[f]
    BY <1>1
  <1>5. LastWordHolds'
    BY <1>1 DEF LastWordHolds
  <1> QED BY <1>1, <1>2, <1>3, <1>4, <1>5 DEF Copied

-----------------------------------------------------------------------------
(* The page. *)

LEMMA RefreshKeeps ==
  ASSUME IInv, NEW p \in {Window, Poller}, Refresh(p)
  PROVE  IInv'
  <1>1. /\ LoadConfig(p, {Form})
        /\ form' = [Loaded(p) EXCEPT !.note = NoNote] /\ edited' = {}
        /\ UNCHANGED <<env, pc, held, heldEnv, target, name, saves, edits, envHistory>>
    BY DEF Refresh
  <1>2. p \in Proc /\ {Form} \in SUBSET {Form, p} /\ p \notin SignIn
    BY DEF Proc, SignIn
  <1>3. /\ config' \in Config /\ config' = Loaded(p) /\ broken' \in BOOLEAN
        /\ absent' = absent \ {p} /\ behind' \subseteq Proc \cup {Form} /\ Asked(asked')
    BY <1>1, <1>2, Loads
  <1>4. form' \in Config /\ \A f \in OnForm : form'[f] = Loaded(p)[f]
    BY <1>1, <1>3, ConfigNote
  <1>5. TypeOK'
    BY <1>1, <1>3, <1>4 DEF IInv, TypeOK, Asked, envHistory
  <1>6. Copied'
    <2>1. Writer \cap {Form} = {}
      BY DEF Writer, Proc
    <2> QED BY <1>1, <1>2, <1>4, <2>1, CopiedAfterLoad DEF IInv, Copied
  <1>7. Kept'
    BY <1>1, KeptStays DEF IInv, SameSignIns
  <1> QED BY <1>5, <1>6, <1>7 DEF IInv

LEMMA TypeKeeps ==
  ASSUME IInv, NEW f \in OnForm, NEW v \in Values[f], Type(f, v)
  PROVE  IInv'
  <1>1. /\ form' = [form EXCEPT ![f] = v] /\ edited' = edited \cup {f}
        /\ UNCHANGED <<files, locals, saves, edits, configHistory, envHistory>>
    BY DEF Type
  <1>2. f \in Field
    BY DEF OnForm
  <1>3. form' \in Config /\ \A g \in Field : form'[g] = IF g = f THEN v ELSE form[g]
    <2>1. form \in Config
      BY DEF IInv, TypeOK
    <2>2. /\ [form EXCEPT ![f] = v] \in Config
          /\ \A g \in Field : [form EXCEPT ![f] = v][g] = IF g = f THEN v ELSE form[g]
      BY <1>2, <2>1, ConfigExcept
    <2> QED BY <1>1, <2>2
  <1>4. TypeOK'
    BY <1>1, <1>3 DEF IInv, TypeOK, files, locals, configHistory, envHistory
  <1>5. Copied'
    <2>1. \A g \in OnForm \ edited' : form'[g] = form[g] /\ g \in OnForm \ edited
      BY <1>1, <1>3 DEF OnForm
    <2> QED BY <1>1, <2>1 DEF IInv, Copied, Asked, LastWordHolds, files, locals, configHistory
  <1>6. Kept'
    BY <1>1, KeptStays DEF IInv, SameSignIns, files, locals
  <1> QED BY <1>4, <1>5, <1>6 DEF IInv

LEMMA SaveKeeps ==
  ASSUME IInv, Save
  PROVE  IInv'
  <1>1. /\ LoadConfig(Window, {Window})
        /\ held' = [held EXCEPT ![Window] = Loaded(Window)]
        /\ pc' = [pc EXCEPT ![Window] = "write"]
        /\ UNCHANGED <<env, heldEnv, target, name, page, edits, envHistory>>
    BY DEF Save, Goto
  <1>8. saves < MaxSaves
    BY DEF Save
  <1>2. /\ Window \in Proc /\ Window \in Writer /\ {Window} \in SUBSET {Form, Window}
        /\ Window \notin SignIn \cup {Daemon} /\ Form # Window
    BY DEF Proc, Writer
  <1>3. /\ config' \in Config /\ config' # None /\ config' = Loaded(Window)
        /\ broken' \in BOOLEAN
        /\ absent' = absent \ {Window} /\ behind' \subseteq Proc \cup {Form} /\ Asked(asked')
    BY <1>1, <1>2, Loads
  <1>4. TypeOK'
    BY <1>1, <1>2, <1>3 DEF IInv, TypeOK, Asked, page, envHistory
  <1>5. Copied'
    <2>1. \A w \in Writer : held'[w] = IF w = Window THEN Loaded(Window) ELSE held[w]
      BY <1>1, <1>2 DEF IInv, TypeOK
    <2>2. \A w \in Writer : pc'[w] = IF w = Window THEN "write" ELSE pc[w]
      BY <1>1, <1>2 DEF IInv, TypeOK, Proc, Writer
    <2>3. \A w \in Writer : (held[w] # None) <=> (pc[w] \in {"write", "link"})
      BY DEF IInv, Copied
    <2>4. \A w \in Writer : (held'[w] # None) <=> (pc'[w] \in {"write", "link"})
      BY <1>3, <2>1, <2>2, <2>3
    <2> QED BY <1>1, <1>2, <1>8, <2>1, <2>2, <2>4, CopiedAfterLoad DEF page
  <1>6. Kept'
    BY <1>1, <1>2, KeptStays DEF IInv, TypeOK, SameSignIns, Proc, SignIn
  <1> QED BY <1>4, <1>5, <1>6 DEF IInv

\* The rename: what the writer took over from a copy that is not behind is the file.
LEMMA SaveConfigCopies ==
  ASSUME IInv, NEW p \in Writer, NEW c \in Config, NEW own \in SUBSET Field, NEW stale,
         SaveConfig(p, c, own, stale),
         pc[p] \in {"write", "link"}, pc' = [pc EXCEPT ![p] = pc'[p]],
         pc'[p] \notin {"write", "link"}, absent' = absent,
         \A f \in Field \ (own \cup stale) : c[f] = config[f],
         p = Window \/ saves' = saves
  PROVE  Copied' /\ behind' \subseteq Proc \cup {Form} /\ Asked(asked')
  <1>1. /\ config' = c /\ held' = [held EXCEPT ![p] = None]
        /\ behind' = Copies \ {p}
        /\ asked' = [f \in Field |-> IF f \in own THEN c[f]
                                     ELSE IF f \in stale THEN Whatever ELSE asked[f]]
    BY DEF SaveConfig
  <1>2. p \notin absent /\ config # None /\ c # None /\ p # Form
    BY DEF IInv, Copied, Writer, Proc
  <1>3. Asked(asked')
    <2>1. \A f \in Field : c[f] \in Values[f]
      BY ConfigFields
    <2> QED BY <1>1, <2>1 DEF IInv, Copied, Asked
  <1>4. \A f \in Field : asked'[f] \in {c[f], Whatever}
    BY <1>1, <1>2 DEF IInv, Copied, LastWordHolds
  <1>5. behind' \subseteq Proc \cup {Form}
    BY <1>1 DEF IInv, TypeOK, Copies, Writer, Proc
  <1>6. \A w \in Writer : held'[w] = IF w = p THEN None ELSE held[w]
    BY <1>1 DEF IInv, TypeOK
  <1>7. \A w \in Writer : w # p => pc'[w] = pc[w]
    BY DEF IInv, TypeOK, Writer, Proc
  <1>8. absent' \subseteq behind' /\ Form \in behind'
    BY <1>1, <1>2 DEF Copies
  <1>9. \A w \in Writer : held'[w] # None => w \in behind'
    BY <1>1, <1>6 DEF Copies
  <1>10. \A w \in Writer : (held'[w] # None) <=> (pc'[w] \in {"write", "link"})
    BY <1>6, <1>7 DEF IInv, Copied
  <1>11. \A w \in Writer : pc'[w] \in {"write", "link"} => w \notin absent'
    BY <1>7 DEF IInv, Copied
  <1>12. pc'[Window] \in {"write", "link"} => saves' < MaxSaves
    BY <1>7 DEF IInv, Copied, Writer
  <1>13. LastWordHolds' /\ config' # None
    BY <1>1, <1>2, <1>4 DEF LastWordHolds
  <1>14. \A w \in Writer :
           /\ held'[w] # None <=> pc'[w] \in {"write", "link"}
           /\ pc'[w] \in {"write", "link"} => w \notin absent' /\ config' # None
           /\ held'[w] # None /\ w \notin behind' => held'[w] = config'
    BY <1>9, <1>10, <1>11, <1>13
  <1> QED BY <1>3, <1>5, <1>8, <1>12, <1>13, <1>14 DEF Copied

LEMMA SaveWriteKeeps ==
  ASSUME IInv, SaveWrite
  PROVE  IInv'
  <1> DEFINE c == [form EXCEPT !.note = held[Window].note]
             stale == (IF Form \in behind THEN OnForm ELSE {})
                        \cup (IF Window \in behind THEN {"note"} ELSE {})
  <1>1. /\ pc[Window] = "write" /\ SaveConfig(Window, c, edited, stale)
        /\ edited' = {} /\ saves' = saves + 1
        /\ pc' = [pc EXCEPT ![Window] = "idle"]
        /\ UNCHANGED <<env, absent, heldEnv, target, name, form, edits, envHistory>>
    BY DEF SaveWrite, Goto
  <1>2. Window \in Proc /\ Window \in Writer /\ Window \notin SignIn \cup {Daemon}
    BY DEF Proc, Writer
  <1>3. held[Window] \in Config /\ held[Window].note \in Note
    BY <1>1, <1>2 DEF IInv, Copied, TypeOK, Config
  <1>4. c \in Config /\ c.note = held[Window].note /\ \A f \in OnForm : c[f] = form[f]
    BY <1>3, ConfigNote DEF IInv, TypeOK
  <1>5. edited \in SUBSET Field
    BY DEF IInv, TypeOK, OnForm
  <1>6. \A f \in Field \ (edited \cup stale) : c[f] = config[f]
    <2> SUFFICES ASSUME NEW f \in Field, f \notin edited, f \notin stale
                 PROVE  c[f] = config[f]
      OBVIOUS
    <2>1. CASE f = "note"
      <3>1. held[Window] = config
        BY <1>1, <1>2, <2>1 DEF IInv, Copied
      <3>2. c["note"] = c.note /\ held[Window]["note"] = held[Window].note
        BY <1>3, <1>4 DEF Config
      <3> QED BY <2>1, <3>1, <3>2, <1>4
    <2>2. CASE f # "note"
      BY <2>2, <1>4 DEF IInv, Copied, OnForm
    <2> QED BY <2>1, <2>2
  <1>7. pc' = [pc EXCEPT ![Window] = pc'[Window]] /\ pc'[Window] = "idle"
    BY <1>1, <1>2 DEF IInv, TypeOK
  <1>8. Copied' /\ behind' \subseteq Proc \cup {Form} /\ Asked(asked')
    <2> HIDE DEF c, stale
    <2> QED BY <1>1, <1>2, <1>4, <1>5, <1>6, <1>7, SaveConfigCopies
  <1>9. TypeOK'
    <2>1. /\ config' = c /\ broken' = FALSE /\ held' = [held EXCEPT ![Window] = None]
          /\ saves' \in 0..MaxSaves
      BY <1>1, <1>2 DEF SaveConfig, IInv, Copied, TypeOK
    <2> QED BY <1>1, <1>2, <1>4, <1>8, <2>1 DEF IInv, TypeOK, Asked, envHistory
  <1>10. Kept'
    BY <1>1, <1>2, KeptStays DEF IInv, TypeOK, SameSignIns, Proc, SignIn
  <1> QED BY <1>8, <1>9, <1>10 DEF IInv

-----------------------------------------------------------------------------
(* Sign-ins. *)

\* A sign-in that goes on to the browser or to credentials.env, or gives up.
LEMMA KeptMoves ==
  ASSUME Kept, NEW p \in SignIn, pc[p] # "put",
         UNCHANGED <<env, heldEnv, envHistory>>,
         \A q \in SignIn \ {p} : pc'[q] = pc[q] /\ target'[q] = target[q] /\ name'[q] = name[q],
         pc'[Daemon] = pc[Daemon],
         pc'[p] \in {"browser", "env", "done"},
         pc'[p] \in {"browser", "env"} => target'[p] # None,
         pc'[p] = "env" => name'[p] \in Var
  PROVE  Kept'
  <1>1. \A q \in SignIn : pc[q] = "put" <=> pc'[q] = "put"
    OBVIOUS
  <1>2. \A q \in SignIn \cup {Daemon} :
          heldEnv'[q] # None /\ q \notin envBehind' =>
             (\E r \in SignIn \ {q} : pc'[r] = "put") \/ Whole(heldEnv[q])'
    BY <1>1 DEF Kept, Whole, envHistory
  <1>3. TokensSurvive'
    BY <1>1 DEF Kept, TokensSurvive, envHistory
  <1>4. \A q \in SignIn :
          /\ pc'[q] \in {"browser", "env", "truncate", "put", "load", "link"} => target'[q] # None
          /\ pc'[q] \in {"env", "truncate", "put", "load", "link"} => name'[q] \in Var
          /\ pc'[q] \in {"truncate", "put"} => heldEnv'[q] # None
          /\ q \in Conn /\ pc'[q] \in {"load", "link"} => saved'[name'[q]] # None
    <2> SUFFICES ASSUME NEW q \in SignIn
                 PROVE
          /\ pc'[q] \in {"browser", "env", "truncate", "put", "load", "link"} => target'[q] # None
          /\ pc'[q] \in {"env", "truncate", "put", "load", "link"} => name'[q] \in Var
          /\ pc'[q] \in {"truncate", "put"} => heldEnv'[q] # None
          /\ q \in Conn /\ pc'[q] \in {"load", "link"} => saved'[name'[q]] # None
      OBVIOUS
    <2>1. CASE q = p
      BY <2>1
    <2>2. CASE q # p
      BY <2>2 DEF Kept, envHistory
    <2> QED BY <2>1, <2>2
  <1> QED BY <1>2, <1>3, <1>4 DEF Kept, envHistory

LEMMA RunConnectKeeps ==
  ASSUME IInv, NEW c \in Conn, NEW u \in Url, RunConnect(c, u)
  PROVE  IInv'
  <1>1. /\ pc[c] = "idle" /\ pc' = [pc EXCEPT ![c] = "browser"]
        /\ target' = [target EXCEPT ![c] = u]
        /\ UNCHANGED <<files, absent, held, heldEnv, name, page, edits, configHistory, envHistory>>
    BY DEF RunConnect, Goto
  <1>2. c \in SignIn /\ c \in Writer /\ c # Daemon /\ c \in Proc /\ Daemon \in Proc
    BY DEF SignIn, Writer, Proc
  <1>3. TypeOK'
    BY <1>1, <1>2 DEF IInv, TypeOK, files, page, configHistory, envHistory
  <1>4. Copied'
    BY <1>1, CopiedStays DEF IInv, TypeOK, SameWriters, Proc, Writer, files, configHistory
  <1>5. Kept'
    <2>1. \A q \in SignIn \ {c} : pc'[q] = pc[q] /\ target'[q] = target[q] /\ name'[q] = name[q]
      BY <1>1 DEF IInv, TypeOK, SignIn, Proc
    <2>2. pc'[Daemon] = pc[Daemon] /\ pc'[c] = "browser" /\ target'[c] # None
      BY <1>1, <1>2 DEF IInv, TypeOK
    <2> QED BY <1>1, <1>2, <2>1, <2>2, KeptMoves DEF IInv, files
  <1> QED BY <1>3, <1>4, <1>5 DEF IInv

LEMMA ConfiguredConfigKeeps ==
  ASSUME IInv, NEW c \in Conn, ConfiguredConfig(c)
  PROVE  IInv'
  <1>1. /\ pc[c] = "browser" /\ pc' = [pc EXCEPT ![c] = "env"]
        /\ UNCHANGED <<env, held, heldEnv, target, page, edits, envHistory>>
    BY DEF ConfiguredConfig, Goto
  <1>2. /\ c \in SignIn /\ c \in Writer /\ c # Daemon /\ c \in Proc /\ c # Form /\ c # Window
        /\ {c} \in SUBSET {Form, c} /\ Daemon \in Proc
    BY DEF SignIn, Writer, Proc
  <1>3. held[c] = None
    BY <1>1, <1>2 DEF IInv, Copied
  <1>4. /\ \A w \in Writer : pc'[w] = IF w = c THEN "env" ELSE pc[w]
        /\ \A q \in SignIn \ {c} : pc'[q] = pc[q]
        /\ pc'[Daemon] = pc[Daemon] /\ pc'[c] = "env"
    BY <1>1, <1>2 DEF IInv, TypeOK, Writer, SignIn, Proc
  <1>5. TypeOK' /\ Copied' /\ \E v \in Var : name' = [name EXCEPT ![c] = v]
    <2>1. CASE LoadConfig(c, {c}) /\ name' = [name EXCEPT ![c] = Loaded(c).env]
      <3>1. /\ config' \in Config /\ config' = Loaded(c) /\ broken' \in BOOLEAN
            /\ absent' = absent \ {c} /\ behind' \subseteq Proc \cup {Form} /\ Asked(asked')
        BY <1>2, <2>1, Loads
      <3>2. Loaded(c).env \in Var
        BY <3>1 DEF Config
      <3>3. TypeOK'
        BY <1>1, <1>2, <2>1, <3>1, <3>2 DEF IInv, TypeOK, Asked, page, envHistory
      <3>4. Copied'
        <4>1. \A w \in Writer : (held'[w] # None) <=> (pc'[w] \in {"write", "link"})
          BY <1>1, <1>3, <1>4 DEF IInv, Copied
        <4>2. pc'[Window] \in {"write", "link"} => saves' < MaxSaves
          BY <1>1, <1>2, <1>4 DEF IInv, Copied, page, Writer
        <4> QED BY <1>1, <1>2, <1>3, <1>4, <2>1, <4>1, <4>2, CopiedAfterLoad DEF page
      <3> QED BY <2>1, <3>2, <3>3, <3>4
    <2>2. CASE name' = [name EXCEPT ![c] = DefaultVar]
               /\ UNCHANGED <<config, broken, absent, configHistory>>
      <3>1. TypeOK'
        BY <1>1, <1>2, <2>2 DEF IInv, TypeOK, page, envHistory, configHistory
      <3>2. Copied'
        BY <1>1, <1>4, <2>2, CopiedStays DEF IInv, SameWriters, configHistory
      <3> QED BY <2>2, <3>1, <3>2
    <2> QED BY <2>1, <2>2 DEF ConfiguredConfig
  <1>6. Kept'
    <2>1. target[c] # None
      BY <1>1, <1>2 DEF IInv, Kept
    <2>2. \A q \in SignIn \ {c} : name'[q] = name[q]
      BY <1>5 DEF IInv, TypeOK
    <2>3. name'[c] \in Var
      BY <1>2, <1>5 DEF IInv, TypeOK
    <2> QED BY <1>1, <1>2, <1>4, <2>1, <2>2, <2>3, KeptMoves DEF IInv
  <1> QED BY <1>5, <1>6 DEF IInv

LEMMA ConnectGatewayKeeps ==
  ASSUME IInv, ConnectGateway
  PROVE  IInv'
  <1>1. /\ LoadConfig(Terminal, {Terminal})
        /\ target' = [target EXCEPT ![Terminal] = Loaded(Terminal).url]
        /\ IF Loaded(Terminal).url = None
           THEN pc' = [pc EXCEPT ![Terminal] = "done"] /\ name' = name
           ELSE pc' = [pc EXCEPT ![Terminal] = "env"]
                /\ name' = [name EXCEPT ![Terminal] = Loaded(Terminal).env]
        /\ UNCHANGED <<env, held, heldEnv, page, edits, envHistory>>
    BY DEF ConnectGateway, Goto
  <1>2. /\ Terminal \in SignIn /\ Terminal \notin Writer /\ Terminal # Daemon /\ Daemon \in Proc
        /\ Terminal \in Proc /\ {Terminal} \in SUBSET {Form, Terminal} /\ Terminal # Form
        /\ Window \in Writer
    BY DEF SignIn, Writer, Proc
  <1>3. /\ config' \in Config /\ config' = Loaded(Terminal) /\ broken' \in BOOLEAN
        /\ absent' = absent \ {Terminal} /\ behind' \subseteq Proc \cup {Form} /\ Asked(asked')
    BY <1>1, <1>2, Loads
  <1>4. Loaded(Terminal).url \in MaybeUrl /\ Loaded(Terminal).env \in Var
    BY <1>3 DEF Config
  <1>5. /\ \A w \in Writer : pc'[w] = pc[w]
        /\ \A q \in SignIn \ {Terminal} :
             pc'[q] = pc[q] /\ target'[q] = target[q] /\ name'[q] = name[q]
        /\ pc'[Daemon] = pc[Daemon] /\ pc'[Terminal] \in {"done", "env"}
    BY <1>1, <1>2 DEF IInv, TypeOK, Writer, SignIn, Proc
  <1>6. pc[Terminal] # "put"
    <2>1. Loading(Terminal)
      BY <1>1 DEF LoadConfig, WriteExample
    <2> QED BY <2>1, <1>2 DEF Loading, SignIn
  <1>7. TypeOK'
    <2>1. pc' \in [Proc -> Stage]
      BY <1>1, <1>2 DEF IInv, TypeOK, Stage
    <2>2. target' \in [SignIn -> MaybeUrl] /\ name' \in [SignIn -> Var \cup {None}]
      BY <1>1, <1>2, <1>4 DEF IInv, TypeOK
    <2> QED BY <1>1, <1>3, <2>1, <2>2 DEF IInv, TypeOK, Asked, page, envHistory, Stage
  <1>8. Copied'
    <2>1. \A w \in Writer : (held'[w] # None) <=> (pc'[w] \in {"write", "link"})
      BY <1>1, <1>5 DEF IInv, Copied
    <2>2. pc'[Window] \in {"write", "link"} => saves' < MaxSaves
      BY <1>1, <1>2, <1>5 DEF IInv, Copied, page
    <2>3. Writer \cap {Terminal} = {}
      BY <1>2
    <2> QED BY <1>1, <1>2, <1>5, <2>1, <2>2, <2>3, CopiedAfterLoad DEF page
  <1>9. Kept'
    <2>1. pc'[Terminal] = "env" => target'[Terminal] # None /\ name'[Terminal] \in Var
      BY <1>1, <1>2, <1>4 DEF IInv, TypeOK
    <2>2. pc'[Terminal] # "browser"
      BY <1>5
    <2> QED BY <1>1, <1>2, <1>5, <1>6, <2>1, <2>2, KeptMoves DEF IInv
  <1> QED BY <1>7, <1>8, <1>9 DEF IInv

LEMMA ConnectionLoadKeeps ==
  ASSUME IInv, NEW c \in Conn, ConnectionLoad(c)
  PROVE  IInv'
  <1>1. /\ pc[c] = "load" /\ LoadConfig(c, {c})
        /\ held' = [held EXCEPT ![c] = Loaded(c)]
        /\ pc' = [pc EXCEPT ![c] = "link"]
        /\ UNCHANGED <<env, heldEnv, target, name, page, edits, envHistory>>
    BY DEF ConnectionLoad, Goto
  <1>2. /\ c \in SignIn /\ c \in Writer /\ c # Daemon /\ c \in Proc /\ c # Form /\ c # Window
        /\ {c} \in SUBSET {Form, c} /\ Daemon \in Proc
    BY DEF SignIn, Writer, Proc
  <1>3. /\ config' \in Config /\ config' # None /\ config' = Loaded(c) /\ broken' \in BOOLEAN
        /\ absent' = absent \ {c} /\ behind' \subseteq Proc \cup {Form} /\ Asked(asked')
    BY <1>1, <1>2, Loads
  <1>4. /\ \A w \in Writer : pc'[w] = IF w = c THEN "link" ELSE pc[w]
        /\ \A q \in SignIn : pc'[q] = IF q = c THEN "link" ELSE pc[q]
        /\ pc'[Daemon] = pc[Daemon]
        /\ \A w \in Writer : held'[w] = IF w = c THEN Loaded(c) ELSE held[w]
    BY <1>1, <1>2 DEF IInv, TypeOK, Writer, SignIn, Proc
  <1>5. TypeOK'
    BY <1>1, <1>2, <1>3 DEF IInv, TypeOK, Asked, page, envHistory
  <1>6. Copied'
    <2>1. \A w \in Writer : (held[w] # None) <=> (pc[w] \in {"write", "link"})
      BY DEF IInv, Copied
    <2>2. \A w \in Writer : (held'[w] # None) <=> (pc'[w] \in {"write", "link"})
      BY <1>3, <1>4, <2>1
    <2>3. pc'[Window] \in {"write", "link"} => saves' < MaxSaves
      BY <1>1, <1>2, <1>4 DEF IInv, Copied, page, Writer
    <2> QED BY <1>1, <1>2, <1>4, <2>2, <2>3, CopiedAfterLoad DEF page
  <1>7. Kept'
    <2>1. \A q \in SignIn : pc[q] = "put" <=> pc'[q] = "put"
      BY <1>1, <1>4
    <2>2. TokensSurvive'
      BY <1>1, <2>1 DEF IInv, Kept, TokensSurvive, envHistory
    <2>3. \A q \in SignIn \cup {Daemon} :
            heldEnv'[q] # None /\ q \notin envBehind' =>
               (\E r \in SignIn \ {q} : pc'[r] = "put") \/ Whole(heldEnv[q])'
      BY <1>1, <2>1 DEF IInv, Kept, Whole, envHistory
    <2> QED BY <1>1, <1>2, <1>4, <2>2, <2>3 DEF IInv, Kept, envHistory
  <1> QED BY <1>5, <1>6, <1>7 DEF IInv

LEMMA ForgetType ==
  ASSUME TypeOK, NEW p \in Proc, Forget(p)
  PROVE  /\ target' \in [SignIn -> MaybeUrl] /\ name' \in [SignIn -> Var \cup {None}]
         /\ \A q \in SignIn \ {p} : target'[q] = target[q] /\ name'[q] = name[q]
  BY DEF Forget, TypeOK

LEMMA SaveConnectionKeeps ==
  ASSUME IInv, NEW c \in Conn, SaveConnection(c)
  PROVE  IInv'
  <1> DEFINE new == [held[c] EXCEPT !.url = target[c], !.on = TRUE]
             own == {"url", "on"}
             stale == IF c \in behind THEN {"env", "note"} ELSE {}
  <1>1. /\ pc[c] = "link" /\ SaveConfig(c, new, own, stale)
        /\ signedIn' = signedIn \cup {name[c]}
        /\ pc' = [pc EXCEPT ![c] = "done"]
        /\ Forget(c)
        /\ UNCHANGED <<env, absent, heldEnv, page, edits, envBehind, saved>>
    BY DEF SaveConnection, Goto
  <1>2. /\ c \in SignIn /\ c \in Writer /\ c # Daemon /\ c \in Proc /\ c # Window
        /\ Daemon \in Proc
    BY DEF SignIn, Writer, Proc
  <1>3. held[c] \in Config /\ target[c] \in MaybeUrl
    BY <1>1, <1>2 DEF IInv, Copied, TypeOK
  <1>4. new \in Config /\ \A f \in {"env", "note"} : new[f] = held[c][f]
    BY <1>3, ConfigConnection
  <1>5. own \in SUBSET Field
    BY Fields
  <1>6. \A f \in Field \ (own \cup stale) : new[f] = config[f]
    <2> SUFFICES ASSUME NEW f \in Field, f \notin own, f \notin stale
                 PROVE  new[f] = config[f]
      OBVIOUS
    <2>1. f \in {"env", "note"} /\ c \notin behind
      BY Fields
    <2>2. held[c] = config
      BY <1>1, <1>2, <2>1 DEF IInv, Copied
    <2> QED BY <1>4, <2>1, <2>2
  <1>7. pc' = [pc EXCEPT ![c] = pc'[c]] /\ pc'[c] = "done"
    BY <1>1, <1>2 DEF IInv, TypeOK
  <1>8. Copied' /\ behind' \subseteq Proc \cup {Form} /\ Asked(asked')
    <2> HIDE DEF new, own, stale
    <2> QED BY <1>1, <1>2, <1>4, <1>5, <1>6, <1>7, SaveConfigCopies DEF page
  <1>9. TypeOK'
    <2>1. config' = new /\ broken' = FALSE /\ held' = [held EXCEPT ![c] = None]
      BY <1>1 DEF SaveConfig
    <2>2. signedIn' \subseteq Var
      BY <1>1, <1>2 DEF IInv, TypeOK, Kept
    <2>3. target' \in [SignIn -> MaybeUrl] /\ name' \in [SignIn -> Var \cup {None}]
      BY <1>1, <1>2, ForgetType DEF IInv
    <2> HIDE DEF new
    <2> QED BY <1>1, <1>2, <1>4, <1>8, <2>1, <2>2, <2>3 DEF IInv, TypeOK, Asked, page
  <1>10. Kept'
    <2>1. \A q \in SignIn : pc'[q] = IF q = c THEN "done" ELSE pc[q]
      BY <1>1, <1>2 DEF IInv, TypeOK, SignIn, Proc
    <2>2. \A q \in SignIn \ {c} : target'[q] = target[q] /\ name'[q] = name[q]
      BY <1>1, <1>2, ForgetType DEF IInv
    <2>3. pc'[Daemon] = pc[Daemon]
      BY <1>1, <1>2 DEF IInv, TypeOK
    <2>4. \A q \in SignIn : pc[q] = "put" <=> pc'[q] = "put"
      BY <1>1, <2>1
    <2>5. TokensSurvive'
      BY <1>1, <2>4 DEF IInv, Kept, TokensSurvive
    <2>6. \A q \in SignIn \cup {Daemon} :
            heldEnv'[q] # None /\ q \notin envBehind' =>
               (\E r \in SignIn \ {q} : pc'[r] = "put") \/ Whole(heldEnv[q])'
      BY <1>1, <2>4 DEF IInv, Kept, Whole
    <2>7. \A v \in signedIn' : saved'[v] # None
      BY <1>1, <1>2 DEF IInv, Kept
    <2> QED BY <1>1, <2>1, <2>2, <2>3, <2>5, <2>6, <2>7 DEF IInv, Kept
  <1> QED BY <1>8, <1>9, <1>10 DEF IInv

-----------------------------------------------------------------------------
(* credentials.env. *)

LEMMA ReadEnvKeeps ==
  ASSUME IInv, NEW p \in SignIn, ReadEnv(p)
  PROVE  IInv'
  <1>1. /\ pc[p] = "env" /\ pc' = [pc EXCEPT ![p] = "truncate"]
        /\ heldEnv' = [heldEnv EXCEPT ![p] = env]
        /\ UNCHANGED <<files, absent, held, target, name, page, edits, configHistory, envHistory>>
    BY DEF ReadEnv, Goto
  <1>2. p \in Proc /\ p # Daemon /\ Daemon \in Proc /\ p # Window
    BY DEF SignIn, Proc
  <1>3. TypeOK'
    BY <1>1, <1>2 DEF IInv, TypeOK, files, page, configHistory, envHistory
  <1>4. Copied'
    BY <1>1, CopiedStays DEF IInv, TypeOK, SameWriters, Proc, Writer, files, configHistory
  <1>5. Kept'
    <2>1. \A q \in SignIn : pc'[q] = IF q = p THEN "truncate" ELSE pc[q]
      BY <1>1 DEF IInv, TypeOK, SignIn, Proc
    <2>2. pc'[Daemon] = pc[Daemon]
      BY <1>1, <1>2 DEF IInv, TypeOK
    <2>3. \A q \in SignIn \cup {Daemon} : heldEnv'[q] = IF q = p THEN env ELSE heldEnv[q]
      BY <1>1 DEF IInv, TypeOK
    <2>4. env # None
      BY DEF IInv, TypeOK
    <2>5. \A q \in SignIn : pc[q] = "put" <=> pc'[q] = "put"
      BY <1>1, <2>1
    <2>6. TokensSurvive'
      BY <1>1, <2>5 DEF IInv, Kept, TokensSurvive, envHistory, files
    <2>7. (\E r \in SignIn \ {p} : pc'[r] = "put") \/ Whole(env)'
      BY <1>1, <2>1, <2>6 DEF TokensSurvive, Whole, files
    <2>8. \A q \in SignIn \cup {Daemon} :
            heldEnv'[q] # None /\ q \notin envBehind' =>
               (\E r \in SignIn \ {q} : pc'[r] = "put") \/ Whole(heldEnv[q])'
      <3> SUFFICES ASSUME NEW q \in SignIn \cup {Daemon}, heldEnv'[q] # None, q \notin envBehind'
                   PROVE  (\E r \in SignIn \ {q} : pc'[r] = "put") \/ Whole(heldEnv[q])'
        OBVIOUS
      <3>1. CASE q = p
        BY <3>1, <1>1, <2>3, <2>7 DEF Whole, files
      <3>2. CASE q # p
        BY <3>2, <1>1, <2>3, <2>5 DEF IInv, Kept, Whole, envHistory
      <3> QED BY <3>1, <3>2
    <2> QED BY <1>1, <2>1, <2>2, <2>3, <2>4, <2>6, <2>8 DEF IInv, Kept, envHistory
  <1> QED BY <1>3, <1>4, <1>5 DEF IInv

LEMMA LoadEnvKeeps ==
  ASSUME IInv, LoadEnv
  PROVE  IInv'
  <1>1. /\ pc' = [pc EXCEPT ![Daemon] = "config"]
        /\ heldEnv' = [heldEnv EXCEPT ![Daemon] = env]
        /\ UNCHANGED <<files, absent, held, target, name, page, edits, configHistory, envHistory>>
    BY DEF LoadEnv, Goto
  <1>2. Daemon \in Proc /\ Daemon \notin SignIn /\ Daemon \notin Writer
    BY DEF Proc, SignIn, Writer
  <1>3. TypeOK'
    BY <1>1, <1>2 DEF IInv, TypeOK, files, page, configHistory, envHistory
  <1>4. Copied'
    BY <1>1, <1>2, CopiedStays DEF IInv, TypeOK, SameWriters, Proc, Writer, files, configHistory
  <1>5. Kept'
    <2>1. \A q \in SignIn : pc'[q] = pc[q]
      BY <1>1, <1>2 DEF IInv, TypeOK, SignIn, Proc
    <2>2. \A q \in SignIn \cup {Daemon} : heldEnv'[q] = IF q = Daemon THEN env ELSE heldEnv[q]
      BY <1>1 DEF IInv, TypeOK
    <2>3. env # None
      BY DEF IInv, TypeOK
    <2>4. TokensSurvive'
      BY <1>1, <2>1 DEF IInv, Kept, TokensSurvive, envHistory, files
    <2>5. (\E r \in SignIn \ {Daemon} : pc'[r] = "put") \/ Whole(env)'
      BY <1>1, <1>2, <2>4 DEF TokensSurvive, Whole, files
    <2>6. \A q \in SignIn \cup {Daemon} :
            heldEnv'[q] # None /\ q \notin envBehind' =>
               (\E r \in SignIn \ {q} : pc'[r] = "put") \/ Whole(heldEnv[q])'
      <3> SUFFICES ASSUME NEW q \in SignIn \cup {Daemon}, heldEnv'[q] # None, q \notin envBehind'
                   PROVE  (\E r \in SignIn \ {q} : pc'[r] = "put") \/ Whole(heldEnv[q])'
        OBVIOUS
      <3>1. CASE q = Daemon
        BY <3>1, <1>1, <2>2, <2>5 DEF Whole, files
      <3>2. CASE q # Daemon
        BY <3>2, <1>1, <2>1, <2>2 DEF IInv, Kept, Whole, envHistory
      <3> QED BY <3>1, <3>2
    <2> QED BY <1>1, <1>2, <2>1, <2>2, <2>3, <2>4, <2>6 DEF IInv, Kept, envHistory
  <1> QED BY <1>3, <1>4, <1>5 DEF IInv

LEMMA TruncateKeeps ==
  ASSUME IInv, NEW p \in SignIn, Truncate(p)
  PROVE  IInv'
  <1>1. /\ pc[p] = "truncate" /\ pc' = [pc EXCEPT ![p] = "put"]
        /\ env' = NoTokens
        /\ envBehind' = (envBehind \cap {p}) \cup (EnvCopies \ {p})
        /\ UNCHANGED <<config, broken, absent, held, heldEnv, target, name, page, edits,
                       configHistory, saved, signedIn>>
    BY DEF Truncate, Goto
  <1>2. p \in Proc /\ p # Daemon /\ Daemon \in Proc /\ p # Window
    BY DEF SignIn, Proc
  <1>3. TypeOK'
    <2>1. NoTokens \in Tokens
      BY DEF NoTokens, Tokens
    <2> QED BY <1>1, <1>2, <2>1 DEF IInv, TypeOK, EnvCopies, page, configHistory
  <1>4. Copied'
    BY <1>1, CopiedStays DEF IInv, TypeOK, SameWriters, Proc, Writer, configHistory
  <1>5. Kept'
    <2>1. \A q \in SignIn : pc'[q] = IF q = p THEN "put" ELSE pc[q]
      BY <1>1 DEF IInv, TypeOK, SignIn, Proc
    <2>2. pc'[Daemon] = pc[Daemon]
      BY <1>1, <1>2 DEF IInv, TypeOK
    <2>3. TokensSurvive'
      BY <2>1 DEF TokensSurvive
    <2>4. \A q \in SignIn \cup {Daemon} :
            heldEnv'[q] # None /\ q \notin envBehind' =>
               (\E r \in SignIn \ {q} : pc'[r] = "put") \/ Whole(heldEnv[q])'
      <3> SUFFICES ASSUME NEW q \in SignIn \cup {Daemon}, heldEnv'[q] # None, q \notin envBehind'
                   PROVE  (\E r \in SignIn \ {q} : pc'[r] = "put") \/ Whole(heldEnv[q])'
        OBVIOUS
      <3>1. q = p /\ p \notin envBehind
        BY <1>1 DEF EnvCopies
      <3> QED BY <3>1, <1>1, <2>1 DEF IInv, Kept, Whole
    <2> QED BY <1>1, <2>1, <2>2, <2>3, <2>4 DEF IInv, Kept
  <1> QED BY <1>3, <1>4, <1>5 DEF IInv

LEMMA PutKeeps ==
  ASSUME IInv, NEW p \in SignIn, Put(p)
  PROVE  IInv'
  <1>1. /\ pc[p] = "put"
        /\ env' = [heldEnv[p] EXCEPT ![name[p]] = target[p]]
        /\ heldEnv' = [heldEnv EXCEPT ![p] = None]
        /\ envBehind' = EnvCopies \ {p}
        /\ saved' = [v \in Var |-> IF v = name[p] THEN target[p]
                                   ELSE IF p \in envBehind THEN Whatever ELSE saved[v]]
        /\ UNCHANGED <<config, broken, absent, held, page, edits, configHistory, signedIn>>
    BY DEF Put
  <1>2. p \in Proc /\ p # Daemon /\ Daemon \in Proc /\ p # Window
    BY DEF SignIn, Proc
  <1>3. /\ pc' = [pc EXCEPT ![p] = IF p = Terminal THEN "done" ELSE "load"]
        /\ \A q \in SignIn \ {p} : target'[q] = target[q] /\ name'[q] = name[q]
        /\ target' \in [SignIn -> MaybeUrl] /\ name' \in [SignIn -> Var \cup {None}]
        /\ p # Terminal => target' = target /\ name' = name
    <2>1. CASE p = Terminal
      BY <2>1, <1>2, ForgetType DEF Put, Goto, IInv
    <2>2. CASE p # Terminal
      BY <2>2 DEF Put, Goto, IInv, TypeOK
    <2> QED BY <2>1, <2>2
  <1>4. heldEnv[p] \in Tokens /\ name[p] \in Var /\ target[p] \in MaybeUrl /\ target[p] # None
    BY <1>1 DEF IInv, Kept, TypeOK
  <1>5. env' \in Tokens /\ \A v \in Var : env'[v] = IF v = name[p] THEN target[p] ELSE heldEnv[p][v]
    BY <1>1, <1>4, TokensExcept
  <1>6. /\ saved' \in [Var -> MaybeUrl \cup {Whatever}]
        /\ \A v \in Var : saved[v] # None => saved'[v] # None
        /\ saved'[name[p]] # None
    BY <1>1, <1>4 DEF IInv, TypeOK
  <1>7. TypeOK'
    BY <1>1, <1>2, <1>3, <1>5, <1>6 DEF IInv, TypeOK, EnvCopies, page, configHistory
  <1>8. Copied'
    BY <1>1, <1>3, CopiedStays DEF IInv, TypeOK, SameWriters, Proc, Writer, configHistory
  <1>9. Kept'
    <2>1. \A q \in SignIn :
            pc'[q] = IF q = p THEN (IF p = Terminal THEN "done" ELSE "load") ELSE pc[q]
      BY <1>3 DEF IInv, TypeOK, SignIn, Proc
    <2>2. pc'[Daemon] = pc[Daemon]
      BY <1>2, <1>3 DEF IInv, TypeOK
    <2>3. \A q \in SignIn \cup {Daemon} : heldEnv'[q] = IF q = p THEN None ELSE heldEnv[q]
      BY <1>1 DEF IInv, TypeOK
    <2>4. TokensSurvive'
      <3> SUFFICES ASSUME \A q \in SignIn : pc'[q] # "put", NEW v \in Var
                   PROVE  saved'[v] \in {env'[v], Whatever}
        BY DEF TokensSurvive
      <3>1. \A q \in SignIn \ {p} : pc[q] # "put"
        BY <2>1
      <3>2. p \in envBehind \/ Whole(heldEnv[p])
        BY <1>1, <3>1 DEF IInv, Kept
      <3> QED BY <1>1, <1>5, <3>2 DEF Whole
    <2>5. \A q \in SignIn \cup {Daemon} :
            heldEnv'[q] # None /\ q \notin envBehind' =>
               (\E r \in SignIn \ {q} : pc'[r] = "put") \/ Whole(heldEnv[q])'
      BY <1>1, <2>3 DEF EnvCopies
    <2>6. \A q \in SignIn :
            /\ pc'[q] \in {"browser", "env", "truncate", "put", "load", "link"} => target'[q] # None
            /\ pc'[q] \in {"env", "truncate", "put", "load", "link"} => name'[q] \in Var
            /\ pc'[q] \in {"truncate", "put"} => heldEnv'[q] # None
            /\ q \in Conn /\ pc'[q] \in {"load", "link"} => saved'[name'[q]] # None
      <3> SUFFICES ASSUME NEW q \in SignIn
                   PROVE
            /\ pc'[q] \in {"browser", "env", "truncate", "put", "load", "link"} => target'[q] # None
            /\ pc'[q] \in {"env", "truncate", "put", "load", "link"} => name'[q] \in Var
            /\ pc'[q] \in {"truncate", "put"} => heldEnv'[q] # None
            /\ q \in Conn /\ pc'[q] \in {"load", "link"} => saved'[name'[q]] # None
        OBVIOUS
      <3>1. CASE q = p
        BY <3>1, <1>3, <1>4, <1>6, <2>1
      <3>2. CASE q # p
        BY <3>2, <1>3, <1>6, <2>1, <2>3 DEF IInv, Kept
      <3> QED BY <3>1, <3>2
    <2>7. \A v \in signedIn' : saved'[v] # None
      BY <1>1, <1>6 DEF IInv, Kept, TypeOK
    <2> QED BY <1>2, <2>2, <2>3, <2>4, <2>5, <2>6, <2>7 DEF IInv, Kept
  <1> QED BY <1>7, <1>8, <1>9 DEF IInv

\* A process that dies in the middle of a rewrite takes the tokens with it.
LEMMA FailKeeps ==
  ASSUME IInv, NEW p \in Proc, Fail(p)
  PROVE  IInv'
  <1>1. /\ pc' = [pc EXCEPT ![p] = IF p \in SignIn THEN "done" ELSE "idle"]
        /\ absent' = absent \ {p}
        /\ held' = [q \in Writer |-> IF q = p THEN None ELSE held[q]]
        /\ heldEnv' = [q \in SignIn \cup {Daemon} |-> IF q = p THEN None ELSE heldEnv[q]]
        /\ behind' = behind \ {p} /\ envBehind' = envBehind \ {p}
        /\ saved' = IF pc[p] = "put" THEN [v \in Var |-> Whatever] ELSE saved
        /\ Forget(p)
        /\ UNCHANGED <<files, page, edits, asked, signedIn>>
    BY DEF Fail, Goto
  <1>2. p # Form /\ Daemon \in Proc /\ Daemon \notin SignIn
    BY DEF SignIn, Proc
  <1>3. /\ target' \in [SignIn -> MaybeUrl] /\ name' \in [SignIn -> Var \cup {None}]
        /\ \A q \in SignIn \ {p} : target'[q] = target[q] /\ name'[q] = name[q]
    BY <1>1, ForgetType DEF IInv
  <1>4. TypeOK'
    <2>1. saved' \in [Var -> MaybeUrl \cup {Whatever}]
      BY <1>1 DEF IInv, TypeOK
    <2>2. pc' \in [Proc -> Stage]
      BY <1>1 DEF IInv, TypeOK, Stage
    <2>3. held' \in [Writer -> Config \cup {None}]
          /\ heldEnv' \in [SignIn \cup {Daemon} -> Tokens \cup {None}]
      BY <1>1 DEF IInv, TypeOK
    <2> QED BY <1>1, <1>3, <2>1, <2>2, <2>3 DEF IInv, TypeOK, files, page, Stage
  <1>5. \A q \in Proc : pc'[q] = IF q = p THEN (IF p \in SignIn THEN "done" ELSE "idle") ELSE pc[q]
    BY <1>1 DEF IInv, TypeOK
  <1>6. Copied'
    <2>1. \A w \in Writer :
            /\ held'[w] # None <=> pc'[w] \in {"write", "link"}
            /\ pc'[w] \in {"write", "link"} => w \notin absent' /\ config' # None
            /\ held'[w] # None /\ w \notin behind' => held'[w] = config'
      BY <1>1, <1>5 DEF IInv, Copied, Writer, Proc, files
    <2>2. pc'[Window] \in {"write", "link"} => saves' < MaxSaves
      BY <1>1, <1>5 DEF IInv, Copied, Proc, page
    <2>3. Asked(asked') /\ LastWordHolds'
      BY <1>1 DEF IInv, Copied, LastWordHolds, files
    <2>4. Form \notin behind' =>
             config' # None /\ \A f \in OnForm \ edited' : form'[f] = config'[f]
      BY <1>1, <1>2 DEF IInv, Copied, files, page
    <2> QED BY <1>1, <2>1, <2>2, <2>3, <2>4 DEF IInv, Copied, files
  <1>7. Kept'
    <2>1. \A v \in Var : saved[v] # None => saved'[v] # None
      BY <1>1
    <2>2. CASE pc[p] = "put"
      <3>1. \A v \in Var : saved'[v] = Whatever
        BY <1>1, <2>2
      <3>2. TokensSurvive' /\ \A t : Whole(t)'
        BY <3>1 DEF TokensSurvive, Whole
      <3>3. \A q \in SignIn \cup {Daemon} :
              heldEnv'[q] # None /\ q \notin envBehind' =>
                 (\E r \in SignIn \ {q} : pc'[r] = "put") \/ Whole(heldEnv[q])'
        BY <3>1 DEF Whole
      <3> QED BY <1>1, <1>2, <1>3, <1>5, <2>1, <3>2, <3>3 DEF IInv, Kept, TypeOK, SignIn, Proc
    <2>3. CASE pc[p] # "put"
      <3>1. saved' = saved
        BY <1>1, <2>3
      <3>2. \A q \in SignIn : pc[q] = "put" <=> pc'[q] = "put"
        BY <1>5, <2>3 DEF SignIn, Proc
      <3>3. TokensSurvive'
        BY <1>1, <3>1, <3>2 DEF IInv, Kept, TokensSurvive, files
      <3>4. \A q \in SignIn \cup {Daemon} :
              heldEnv'[q] # None /\ q \notin envBehind' =>
                 (\E r \in SignIn \ {q} : pc'[r] = "put") \/ Whole(heldEnv[q])'
        BY <1>1, <3>1, <3>2 DEF IInv, Kept, Whole
      <3> QED BY <1>1, <1>2, <1>3, <1>5, <2>1, <3>1, <3>3, <3>4
              DEF IInv, Kept, TypeOK, SignIn, Proc
    <2> QED BY <2>2, <2>3
  <1> QED BY <1>4, <1>6, <1>7 DEF IInv

-----------------------------------------------------------------------------
(* An editor, and the daemon. *)

LEMMA EditConfigKeeps ==
  ASSUME IInv, NEW f \in Field, NEW v \in Values[f], EditConfig(f, v)
  PROVE  IInv'
  <1>1. /\ config' = [config EXCEPT ![f] = v] /\ config # None /\ broken' \in BOOLEAN
        /\ asked' = [asked EXCEPT ![f] = v]
        /\ behind' = Copies /\ edits < MaxEdits /\ edits' = edits + 1
        /\ UNCHANGED <<env, locals, page, envHistory>>
    BY DEF EditConfig
  <1>2. config \in Config
    BY <1>1 DEF IInv, TypeOK
  <1>3. /\ [config EXCEPT ![f] = v] \in Config
        /\ \A g \in Field : [config EXCEPT ![f] = v][g] = IF g = f THEN v ELSE config[g]
    BY <1>2, ConfigExcept
  <1>4. config' \in Config /\ config' # None
    BY <1>1, <1>3
  <1>5. \A g \in Field : asked'[g] = IF g = f THEN v ELSE asked[g]
    BY <1>1 DEF IInv, Copied, Asked
  <1>6. Asked(asked')
    BY <1>1, <1>5 DEF IInv, Copied, Asked
  <1>7. LastWordHolds'
    BY <1>1, <1>3, <1>5 DEF IInv, Copied, LastWordHolds
  <1>8. TypeOK'
    <2>1. behind' \subseteq Proc \cup {Form} /\ edits' \in 0..MaxEdits
      BY <1>1 DEF IInv, TypeOK, Copies, Writer, Proc
    <2> QED BY <1>1, <1>4, <1>6, <2>1 DEF IInv, TypeOK, Asked, locals, page, envHistory
  <1>9. Copied'
    <2>1. absent' \subseteq behind' /\ Form \in behind'
      BY <1>1 DEF Copies, locals
    <2>2. \A w \in Writer : held'[w] # None => w \in behind'
      BY <1>1 DEF Copies, locals
    <2> QED BY <1>1, <1>4, <1>6, <1>7, <2>1, <2>2 DEF IInv, Copied, locals, page
  <1>10. Kept'
    BY <1>1, KeptStays DEF IInv, SameSignIns, locals
  <1> QED BY <1>8, <1>9, <1>10 DEF IInv

LEMMA DaemonLoadKeeps ==
  ASSUME IInv, DaemonLoad
  PROVE  IInv'
  <1>1. /\ LoadConfig(Daemon, {Daemon})
        /\ pc' = [pc EXCEPT ![Daemon] = "idle"]
        /\ heldEnv' = [heldEnv EXCEPT ![Daemon] = None]
        /\ envBehind' = envBehind \ {Daemon}
        /\ UNCHANGED <<env, held, target, name, page, edits, saved, signedIn>>
    BY DEF DaemonLoad, Goto
  <1>2. /\ Daemon \in Proc /\ {Daemon} \in SUBSET {Form, Daemon} /\ Daemon \notin SignIn
        /\ Daemon \notin Writer /\ Form # Daemon /\ Window \in Writer
    BY DEF Proc, SignIn, Writer
  <1>3. /\ config' \in Config /\ broken' \in BOOLEAN
        /\ absent' = absent \ {Daemon} /\ behind' \subseteq Proc \cup {Form} /\ Asked(asked')
    BY <1>1, <1>2, Loads
  <1>4. /\ \A w \in Writer : pc'[w] = pc[w]
        /\ \A q \in SignIn : pc'[q] = pc[q]
        /\ pc'[Daemon] = "idle"
    BY <1>1, <1>2 DEF IInv, TypeOK, Writer, SignIn, Proc
  <1>5. TypeOK'
    BY <1>1, <1>2, <1>3 DEF IInv, TypeOK, Asked, page
  <1>6. Copied'
    <2>1. \A w \in Writer : (held'[w] # None) <=> (pc'[w] \in {"write", "link"})
      BY <1>1, <1>4 DEF IInv, Copied
    <2>2. pc'[Window] \in {"write", "link"} => saves' < MaxSaves
      BY <1>1, <1>2, <1>4 DEF IInv, Copied, page
    <2>3. Writer \cap {Daemon} = {}
      BY <1>2
    <2> QED BY <1>1, <1>2, <1>4, <2>1, <2>2, <2>3, CopiedAfterLoad DEF page
  <1>7. Kept'
    <2>1. \A q \in SignIn \cup {Daemon} :
            heldEnv'[q] = IF q = Daemon THEN None ELSE heldEnv[q]
      BY <1>1 DEF IInv, TypeOK
    <2>2. \A q \in SignIn \cup {Daemon} :
            heldEnv'[q] # None /\ q \notin envBehind' =>
               (\E r \in SignIn \ {q} : pc'[r] = "put") \/ Whole(heldEnv[q])'
      BY <1>1, <1>4, <2>1 DEF IInv, Kept, Whole
    <2>3. TokensSurvive'
      BY <1>1, <1>4 DEF IInv, Kept, TokensSurvive
    <2> QED BY <1>1, <1>2, <1>4, <2>1, <2>2, <2>3 DEF IInv, Kept
  <1> QED BY <1>5, <1>6, <1>7 DEF IInv

-----------------------------------------------------------------------------

LEMMA NextKeeps ==
  ASSUME IInv, [Next]_vars
  PROVE  IInv'
  <1>1. CASE Settings
    BY <1>1, RefreshKeeps, TypeKeeps, SaveKeeps, SaveWriteKeeps DEF Settings
  <1>2. CASE Connecting
    BY <1>2, RunConnectKeeps, ConfiguredConfigKeeps, ConnectionLoadKeeps, SaveConnectionKeeps,
       ConnectGatewayKeeps, ReadEnvKeeps, TruncateKeeps, PutKeeps DEF Connecting
  <1>3. CASE \E p \in Proc : FindNoConfig(p) \/ WriteExampleFails(p) \/ Fail(p)
    BY <1>3, FindNoConfigKeeps, WriteExampleFailsKeeps, FailKeeps
  <1>4. CASE \E f \in Changed : \E v \in Values[f] : EditConfig(f, v)
    BY <1>4, EditConfigKeeps, ConfigAssumption
  <1>5. CASE LoadEnv \/ DaemonLoad
    BY <1>5, LoadEnvKeeps, DaemonLoadKeeps
  <1>6. CASE UNCHANGED vars
    <2>1. TypeOK'
      BY <1>6 DEF IInv, TypeOK, vars, files, locals, page, configHistory, envHistory
    <2>2. Copied'
      BY <1>6, CopiedStays DEF IInv, SameWriters, vars, files, locals, configHistory
    <2>3. Kept'
      BY <1>6, KeptStays DEF IInv, SameSignIns, vars, files, locals
    <2> QED BY <2>1, <2>2, <2>3 DEF IInv
  <1> QED BY <1>1, <1>2, <1>3, <1>4, <1>5, <1>6 DEF Next

LEMMA Inductive == Spec => []IInv
  <1>1. IInv /\ [Next]_vars => IInv'
    BY NextKeeps
  <1> QED BY <1>1, Initially, PTL DEF Spec

\* Files, copies, the page and what is remembered of them are typed, for any sign-ins,
\* backends and names.
THEOREM ConfigTypeCorrect == Spec => []TypeOK
  <1>1. IInv => TypeOK
    BY DEF IInv
  <1> QED BY <1>1, Inductive, PTL

\* What a person or a sign-in last asked of a setting is in config.yaml until a stale copy
\* is saved over it (save, saveConnection, writeExample).
THEOREM LastWordHoldsAlways == Spec => []LastWordHolds
  <1>1. IInv => LastWordHolds
    BY DEF IInv, Copied
  <1> QED BY <1>1, Inductive, PTL

\* However many sign-ins rewrite credentials.env at once, between rewrites it holds every
\* token saved since the last stale copy or crash (SetEnvVar).
THEOREM TokensSurviveAlways == Spec => []TokensSurvive
  <1>1. IInv => TokensSurvive
    BY DEF IInv, Kept
  <1> QED BY <1>1, Inductive, PTL

\* A starting daemon misses the token its config names only for one of the four reasons
\* (LoadEnv, run, resolveToken).
THEOREM RefusalIsExplainedAlways == Spec => []RefusalIsExplained
  <1>1. IInv => RefusalIsExplained
    <2> SUFFICES ASSUME IInv, pc[Daemon] = "config", Loaded(Daemon) # None,
                        Refuses(Loaded(Daemon), heldEnv[Daemon]), Loaded(Daemon).url # None,
                        Loaded(Daemon).env \in signedIn, saved[Loaded(Daemon).env] # Whatever,
                        Daemon \notin envBehind, \A p \in SignIn : pc[p] # "put"
                 PROVE  FALSE
      BY DEF RefusalIsExplained
    <2>1. Whole(heldEnv[Daemon])
      BY DEF IInv, Kept
    <2>2. Loaded(Daemon).env \in Var
      BY DEF IInv, TypeOK
    <2>3. heldEnv[Daemon][Loaded(Daemon).env] # None
      BY <2>1, <2>2 DEF Whole, IInv, Kept
    <2> QED BY <2>3 DEF Refuses
  <1> QED BY <1>1, Inductive, PTL

=============================================================================
