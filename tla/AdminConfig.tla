---------------------------- MODULE AdminConfig ----------------------------
(***************************************************************************)
(* The requests of the admin API that read and change config.hjson         *)
(* (server/apiAdmin.go, global/config.go, global/fs.go).  Every request    *)
(* is a goroutine: AuthMiddleWare takes the configuration by GetConf, the  *)
(* handler takes it again, changes its section and saves the whole.        *)
(*                                                                         *)
(* GetConf gives the object JSONConfig while there is one, so that its     *)
(* users share it; later each of them loads a copy from the file.  A save  *)
(* truncates the file and then writes it, a load that meets contents it    *)
(* cannot parse renames the file, and nothing excludes the others.         *)
(*                                                                         *)
(* The contents are a value for each section: the request that set it,     *)
(* or Start, Hand (edited by hand) or Zero: absent, or without what its    *)
(* edit goes through, the map post_urls or the first of the servers.       *)
(*                                                                         *)
(* A definition marked "Mutation" is no part of the model: it is a faulty  *)
(* version of the definition after it, which a property must reject.       *)
(***************************************************************************)
EXTENDS Integers, FiniteSets

CONSTANTS
    Requests,            \* the goroutines of the requests
    Sections,            \* the sections a do_config_* changes
    Optional,            \* those that are pointers, nil when absent
    Asked,               \* the kinds of requests there are
    Start, Hand, Zero,   \* the values of sections not set by a request
    Empty, Torn,         \* contents: of no length; that do not parse
    Nil,                 \* no configuration, no contents
    MaxFiles,            \* bound: files that have had the name config.hjson
    MaxHands             \* bound: edits by hand

Values == Requests \cup {Start, Hand, Zero}
Configs == [Sections -> Values]

\* The values of a section, and the contents of a file, can be told apart.
ASSUME ConstantsAssumption ==
    /\ Optional \subseteq Sections
    /\ {Start, Hand, Zero} \cap Requests = {}
    /\ Start # Hand /\ Start # Zero /\ Hand # Zero
    /\ Empty # Torn /\ Empty # Nil /\ Torn # Nil
    /\ {Empty, Torn, Nil} \cap Configs = {}
    /\ "json" \notin Sections /\ "get" \notin Sections /\ "restart" \notin Sections
    /\ MaxFiles \in Nat \ {0} /\ MaxHands \in Nat

VARIABLES
    name,       \* the file that is called config.hjson, or 0
    data,       \* data[f]: the contents of the file f
    live,       \* the object that JSONConfig points to at the start, s.Conf
    shared,     \* JSONConfig # nil: it still is that object
    pc,         \* where each request is
    phase,      \* "auth" in AuthMiddleWare, "serve" in the handler
    kind,       \* what the request asks for
    touched,    \* the sections it changes
    conf,       \* its local variable conf, when that is no shared object; the
                \*    text that it saves, Nil for null
    onLive,     \* GetConf has given it the shared object
    file,       \* the file it has open
    seen,       \* the contents that file has had while it was being read
    hands,      \* how many edits by hand there have been
    typed,      \* the one being saved: its file and its contents, or NoEdit
    alone,      \* ghost: the requests no other one nor a hand overlapped
    before,     \* ghost: the contents of config.hjson when a request began
    after       \* ghost: the requests that had been answered by then

fileVars == <<name, data>>
confVars == <<live, shared>>
requestVars == <<phase, kind, touched>>
ghosts == <<alone, before, after>>
vars == <<fileVars, confVars, pc, requestVars, conf, onLive, file, seen, hands,
          typed, ghosts>>

handVars == <<hands, typed>>
NoEdit == [file |-> 0, text |-> Nil]

Files == 1 .. MaxFiles
Contents == Configs \cup {Empty, Torn, Nil}

\* do_config_json may set any sections, the other edits set their own.
Edits == Sections \cup {"json"}
Kinds == Edits \cup {"get", "restart"}
Touch(k) == CASE k = "json" -> SUBSET Sections
              [] k \in Sections -> {{k}}
              [] OTHER -> {{}}

Ended == {"ok", "refused", "denied", "panicked"}
Active(r) == pc[r] \notin Ended \cup {"idle"}

Whole(value) == [s \in Sections |-> value]

Init ==
    /\ name = 1 /\ data = [f \in Files |-> IF f = 1 THEN Whole(Start) ELSE Nil]
    /\ live = Whole(Start) /\ shared = TRUE
    /\ pc = [r \in Requests |-> "idle"]
    /\ phase = [r \in Requests |-> "auth"]
    /\ kind = [r \in Requests |-> "get"]
    /\ touched = [r \in Requests |-> {}]
    /\ conf = [r \in Requests |-> Nil] /\ onLive = [r \in Requests |-> FALSE]
    /\ file = [r \in Requests |-> 0] /\ seen = [r \in Requests |-> {}]
    /\ hands = 0 /\ typed = NoEdit
    /\ alone = Requests /\ before = [r \in Requests |-> Nil]
    /\ after = [r \in Requests |-> {}]

\* log.Fatalf in one request ends the process.
At(r, label) == pc[r] = label /\ \A q \in Requests : pc[q] # "fatal"

Goto(r, label) == pc' = [pc EXCEPT ![r] = label]

Current == IF name = 0 THEN Nil ELSE data[name]

(* The file system *)

\* The file f gets the contents c, and so do those who are reading it.
Put(f, c) ==
    /\ data' = [data EXCEPT ![f] = c]
    /\ seen' = [r \in Requests |-> IF pc[r] = "read" /\ file[r] = f
                                   THEN seen[r] \cup {c} ELSE seen[r]]

\* The file that opening config.hjson for writing gives.
Opened == IF name # 0 THEN {name}
          ELSE {f \in Files : data[f] = Nil /\ \A g \in Files :
                                 data[g] = Nil => f <= g}

\* What a write of c leaves of a file that was truncated when it was opened,
\* but may have been written since: a longer text keeps its end.
Overlay(f, c) == IF data[f] = Empty THEN {c} ELSE {c, Torn}

\* Mutation: a read takes the first part of a long file for all of it.
ReadingsShort(S) == S \cup {Torn}

\* What a read of a file gives that had the contents S meanwhile: one of
\* them, or a part of one followed by a part of another.
Readings(S) ==
    S \cup IF Cardinality(S) = 1 THEN {}
           ELSE {Torn} \cup {[s \in Sections |-> IF s \in T THEN a[s] ELSE b[s]] :
                                a, b \in S \cap Configs, T \in SUBSET Sections}

(* LoadConfig.  An empty text parses as an object without members. *)

Parse(c) == IF c = Empty THEN Whole(Zero) ELSE c

GetConf(r, is) ==
    /\ onLive' = [onLive EXCEPT ![r] = is]
    /\ conf' = [conf EXCEPT ![r] = Nil]
    /\ Goto(r, IF is THEN "have" ELSE "exists")

\* Mutation: it does not ask whether the file exists.
ExistsAlways(r) ==
    /\ At(r, "exists") /\ Goto(r, "open")
    /\ UNCHANGED <<fileVars, confVars, requestVars, conf, onLive, file, seen,
                   handVars, ghosts>>

Exists(r) ==
    /\ At(r, "exists") /\ Goto(r, IF name = 0 THEN "have" ELSE "open")
    /\ UNCHANGED <<fileVars, confVars, requestVars, conf, onLive, file, seen,
                   handVars, ghosts>>

\* A file that cannot be opened any more gives an empty text.
Open(r) ==
    /\ At(r, "open") /\ Goto(r, "read")
    /\ file' = [file EXCEPT ![r] = name]
    /\ seen' = [seen EXCEPT ![r] = {IF name = 0 THEN Empty ELSE data[name]}]
    /\ UNCHANGED <<fileVars, confVars, requestVars, conf, onLive, handVars, ghosts>>

Read(r) ==
    /\ At(r, "read")
    /\ \E c \in Readings(seen[r]) :
          IF c = Torn THEN Goto(r, "rename") /\ UNCHANGED conf
          ELSE Goto(r, "have") /\ conf' = [conf EXCEPT ![r] = Parse(c)]
    /\ file' = [file EXCEPT ![r] = 0] /\ seen' = [seen EXCEPT ![r] = {}]
    /\ UNCHANGED <<fileVars, confVars, requestVars, onLive, handVars, ghosts>>

\* The file is renamed that has the name now.
Rename(r) ==
    /\ At(r, "rename") /\ Goto(r, "have")
    /\ name' = 0
    /\ UNCHANGED <<data, confVars, requestVars, conf, onLive, file, seen, handVars,
                   ghosts>>

(* AuthMiddleWare and the choice of the handler *)

Begin(r, k) ==
    /\ At(r, "idle")
    /\ kind' = [kind EXCEPT ![r] = k]
    /\ \E T \in Touch(k) : touched' = [touched EXCEPT ![r] = T]
    /\ GetConf(r, shared)
    /\ LET busy == {q \in Requests : Active(q)}
       IN alone' = IF busy = {} /\ typed = NoEdit THEN alone
                   ELSE alone \ (busy \cup {r})
    /\ before' = [before EXCEPT ![r] = Current]
    /\ after' = [after EXCEPT ![r] = {q \in Requests : pc[q] = "ok"}]
    /\ UNCHANGED <<fileVars, confVars, phase, file, seen, handVars>>

HasConf(r) == onLive[r] \/ conf[r] # Nil

\* The token, the method and the body are as they should be, or are not;
\* without a configuration there is no token to compare with.  (A header
\* Authorization is taken to consist of two words.)
Authorize(r) ==
    /\ At(r, "have") /\ phase[r] = "auth"
    /\ \/ /\ HasConf(r)
          /\ phase' = [phase EXCEPT ![r] = "serve"]
          /\ shared' = (shared /\ kind[r] # "restart")
          /\ GetConf(r, shared')
       \/ /\ Goto(r, IF HasConf(r) THEN "denied" ELSE "panicked")
          /\ UNCHANGED <<phase, shared, conf, onLive>>
    /\ UNCHANGED <<fileVars, live, kind, touched, file, seen, handVars, ghosts>>

Serve(r) == At(r, "have") /\ phase[r] = "serve"

\* get_config_json answers null when there is none, a hot restart panics.
Answer(r) ==
    /\ Serve(r) /\ kind[r] \in {"get", "restart"}
    /\ Goto(r, IF kind[r] = "get" \/ HasConf(r) THEN "ok" ELSE "panicked")
    /\ UNCHANGED <<fileVars, confVars, requestVars, conf, onLive, file, seen,
                   handVars, ghosts>>

(* do_config_base, do_config_http, do_config_ws, do_config_reverse and      *)
(* do_config_json                                                           *)

With(c, g) == [s \in Sections |-> IF s \in DOMAIN g THEN g[s] ELSE c[s]]

\* The object that conf points to, if any.
Object(r) == IF onLive[r] THEN live ELSE conf[r]

Lacks(r, s) == s \in Optional /\ HasConf(r) /\ Object(r)[s] = Zero

\* What r sets the sections T to.  A null in the text makes a section nil.  An
\* edit that needs no post_urls leaves them lacking.
Given(r, T) ==
    {g \in [T -> {r, Zero}] :
        \A s \in T : IF kind[r] = "json" THEN g[s] = Zero => s \in Optional
                     ELSE g[s] = Zero <=> Lacks(r, s)}

\* Mutation: the text is unmarshalled into an object of its own.
AssignFresh(r, g) ==
    conf' = [conf EXCEPT ![r] = With(Whole(Zero), g)] /\ UNCHANGED live

\* Mutation: a loaded configuration shares its sections with the first one.
AssignShallow(r, g) ==
    /\ live' = With(live, g)
    /\ conf' = [conf EXCEPT ![r] = IF @ = Nil THEN @ ELSE With(@, g)]

\* The sections of the object that conf points to are set as g gives them.
\* Unmarshal makes an object when there is none.
Assign(r, g) ==
    IF onLive[r] THEN live' = With(live, g) /\ UNCHANGED conf
    ELSE /\ conf' = [conf EXCEPT ![r] = With(IF @ = Nil THEN Whole(Zero) ELSE @, g)]
         /\ UNCHANGED live

\* Through a nil pointer, of the configuration or of its section, into a nil
\* map or beyond the end of the servers.
Dereferences(r) == kind[r] # "json" /\ (~HasConf(r) \/ Lacks(r, kind[r]))

\* The text null makes the pointer conf nil, and leaves the object alone.
Edit(r) ==
    /\ Serve(r) /\ kind[r] \in Edits
    /\ \/ Dereferences(r) /\ Goto(r, "panicked") /\ UNCHANGED <<live, conf>>
       \/ /\ HasConf(r) \/ kind[r] = "json"
          /\ \E g \in Given(r, touched[r]) : Assign(r, g)
          /\ Goto(r, "edited")
       \/ kind[r] = "json" /\ Goto(r, "nulled") /\ UNCHANGED <<live, conf>>
    /\ UNCHANGED <<fileVars, shared, requestVars, onLive, file, seen, handVars,
                   ghosts>>

\* Unmarshal reports a value of a wrong type when it has set the others.
Refuse(r) ==
    /\ Serve(r) /\ kind[r] = "json"
    /\ \E T \in SUBSET touched[r] : \E g \in Given(r, T) : Assign(r, g)
    /\ Goto(r, "refused")
    /\ UNCHANGED <<fileVars, shared, requestVars, onLive, file, seen, handVars,
                   ghosts>>

(* Save: WriteFile opens, which truncates, and writes. *)

Truncate(r) ==
    /\ \/ At(r, "edited") /\ conf' = [conf EXCEPT ![r] = Object(r)]
       \/ At(r, "nulled") /\ conf' = [conf EXCEPT ![r] = Nil]
    /\ Goto(r, "write")
    /\ name' \in Opened /\ file' = [file EXCEPT ![r] = name']
    /\ Put(name', Empty)
    /\ UNCHANGED <<confVars, requestVars, onLive, handVars, ghosts>>

\* The text null parses as an object without members, or does not parse.
TextsOf(c) == IF c = Nil THEN {Whole(Zero), Torn} ELSE {c}

Write(r) ==
    /\ At(r, "write") /\ Goto(r, "saved")
    /\ \E t \in TextsOf(conf[r]) : \E c \in Overlay(file[r], t) : Put(file[r], c)
    /\ file' = [file EXCEPT ![r] = 0]
    /\ UNCHANGED <<name, confVars, requestVars, conf, onLive, handVars, ghosts>>

\* The file cannot be opened, or not all of the text can be written.
SaveFails(r) ==
    /\ \/ (At(r, "edited") \/ At(r, "nulled")) /\ UNCHANGED <<data, seen>>
       \/ At(r, "write") /\ \E c \in {data[file[r]], Torn} : Put(file[r], c)
    /\ Goto(r, "fatal")
    /\ UNCHANGED <<name, confVars, requestVars, conf, onLive, file, handVars, ghosts>>

\* Mutation: JSONConfig is not set to nil.
AckKeeps(r) ==
    /\ At(r, "saved") /\ Goto(r, "ok")
    /\ UNCHANGED <<fileVars, confVars, requestVars, conf, onLive, file, seen,
                   handVars, ghosts>>

Ack(r) ==
    /\ At(r, "saved") /\ Goto(r, "ok")
    /\ shared' = FALSE
    /\ UNCHANGED <<fileVars, live, requestVars, conf, onLive, file, seen, handVars,
                   ghosts>>

\* Someone sets a section by hand or takes it out, or writes a new file when it
\* is broken; the editor truncates the file as well, and then writes it.
HandOpens ==
    /\ hands < MaxHands /\ hands' = hands + 1 /\ typed = NoEdit
    /\ name' \in Opened /\ Put(name', Empty)
    /\ \E s \in Sections : \E v \in {Hand} \cup (IF s \in Optional THEN {Zero} ELSE {}) :
          typed' = [file |-> name', text |-> IF Current \in Configs
                                             THEN [Current EXCEPT ![s] = v]
                                             ELSE Whole(Hand)]
    /\ alone' = {r \in alone : ~Active(r)}
    /\ UNCHANGED <<confVars, pc, requestVars, conf, onLive, file, before, after>>

HandWrites ==
    /\ typed # NoEdit /\ typed' = NoEdit
    /\ \E c \in Overlay(typed.file, typed.text) : Put(typed.file, c)
    /\ UNCHANGED <<name, confVars, pc, requestVars, conf, onLive, file, hands, ghosts>>

Request(r) ==
    \/ \E k \in Asked \cap Kinds : Begin(r, k)
    \/ Exists(r) \/ Open(r) \/ Read(r) \/ Rename(r)
    \/ Authorize(r) \/ Answer(r) \/ Edit(r) \/ Refuse(r)
    \/ Truncate(r) \/ Write(r) \/ SaveFails(r) \/ Ack(r)

Next == HandOpens \/ HandWrites \/ \E r \in Requests : Request(r)

Spec == Init /\ [][Next]_vars

-----------------------------------------------------------------------------

\* The section s may be what a refused do_config_json left in the shared object.
Leftover(s, v) ==
    \E q \in Requests : pc[q] = "refused" /\ s \in touched[q] /\ v \in {q, Zero}

\* A save that nothing overlapped, but of the text null, changes its own sections
\* of the file and no other: a lost or wiped section takes two requests, or a
\* hand, at one time (do_config_* and Save).  While JSONConfig is the shared
\* object, an edit by hand is overwritten and what a refused request left in the
\* object is saved.
AloneExact ==
    \A r \in alone : pc[r] = "saved" /\ conf[r] # Nil =>
        /\ Current \in Configs /\ Parse(before[r]) \in Configs
        /\ \A s \in Sections :
              \/ s \in touched[r] /\ Current[s] = r
              \/ s \in touched[r] \cap Optional /\ Current[s] = Zero
              \/ s \notin touched[r] /\ Current[s] = Parse(before[r])[s]
              \/ /\ onLive[r]
                 /\ before[r][s] # Start \/ Leftover(s, Current[s])

\* A request that nothing overlapped panics only when it found the file gone,
\* unreadable, or without the section it edits, or when a refused do_config_json
\* has touched that section of the object JSONConfig (GetConf, do_config_*).
AlonePanic ==
    \A r \in alone : pc[r] = "panicked" =>
        \/ before[r] \in {Nil, Torn}
        \/ /\ kind[r] \in Optional
           /\ IF onLive[r] THEN Leftover(kind[r], Zero)
              ELSE Parse(before[r])[kind[r]] = Zero

\* What a refused do_config_json has set gets into a file only by the object
\* JSONConfig that it shared with others (AdminDoConfigJSON, 631-636).
RefusedStaysOut ==
    \A r \in Requests : pc[r] = "refused" /\ ~onLive[r] =>
        /\ \A f \in Files, s \in Sections :
              data[f] \in Configs => data[f][s] # r
        /\ \A s \in Sections : live[s] # r

\* After the first acknowledged edit, get_config_json shows what the file
\* holds, edits by hand included, unless something overlaps it (GetConf).
FreshAfterEdit ==
    \A r \in alone :
        (/\ pc[r] = "ok" /\ kind[r] = "get" /\ before[r] # Nil
         /\ \E q \in after[r] : kind[q] \in Edits)
            => conf[r] = Parse(before[r])

\* The file has been renamed away and no request is past the point where it
\* needs it.
Gone ==
    /\ name = 0 /\ ~shared
    /\ \A r \in Requests : Active(r) =>
          phase[r] = "auth" /\ pc[r] \in {"exists", "have"} /\ ~HasConf(r)

\* Then no request brings it back, not even do_config_json: they all panic in
\* AuthMiddleWare until someone writes the file by hand.
GoneForGood ==
    [][Gone => \/ hands' # hands
               \/ name' = 0 /\ \A r \in Requests : pc'[r] = pc[r]
                                   \/ pc'[r] \in {"exists", "have", "panicked"}]_vars
=============================================================================
