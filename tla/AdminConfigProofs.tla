------------------------- MODULE AdminConfigProofs -------------------------
(***************************************************************************)
(* What the requests of the admin API do to config.hjson, for any number   *)
(* of requests, sections, files and edits by hand.                         *)
(*                                                                         *)
(* Two invariants carry the properties.  HiddenOK follows the values that  *)
(* a request has not published, through the files, the texts being read    *)
(* and the objects of the others.  AloneOK says, for a request that        *)
(* nothing has overlapped, what it knows of the file at each of its steps. *)
(***************************************************************************)
EXTENDS AdminConfig, FiniteSetTheorems, TLAPS

Loads == {"exists", "open", "read", "rename"}
Labels == Loads \cup Ended \cup
          {"idle", "have", "edited", "nulled", "write", "saved", "fatal"}

FileTypes == name \in 0 .. MaxFiles /\ data \in [Files -> Contents]

ConfTypes ==
    /\ live \in Configs /\ shared \in BOOLEAN
    /\ conf \in [Requests -> Configs \cup {Nil}] /\ onLive \in [Requests -> BOOLEAN]

RequestTypes ==
    /\ phase \in [Requests -> {"auth", "serve"}] /\ kind \in [Requests -> Kinds]
    /\ touched \in [Requests -> SUBSET Sections]

PcTypes == pc \in [Requests -> Labels]

ReadTypes ==
    /\ file \in [Requests -> 0 .. MaxFiles]
    /\ seen \in [Requests -> SUBSET Contents]
    /\ \A r \in Requests : pc[r] = "write" => file[r] \in Files

HandTypes ==
    /\ hands \in Nat
    /\ typed \in {NoEdit} \cup [file : Files, text : Configs]

GhostTypes ==
    /\ alone \subseteq Requests /\ before \in [Requests -> Contents]
    /\ after \in [Requests -> SUBSET Requests]

\* Every variable has its type, and whoever writes has a file open.
TypeOK ==
    /\ FileTypes /\ ConfTypes /\ RequestTypes /\ PcTypes /\ ReadTypes /\ HandTypes
    /\ GhostTypes

\* The contents c have nothing that r has set.
Clean(c, r) == c \in Configs => \A s \in Sections : c[s] # r

\* r has set nothing that another could have got hold of.
Hidden(r) ==
    \/ pc[r] \in Loads \cup {"idle", "have", "nulled", "denied", "panicked"}
    \/ pc[r] \in {"edited", "refused"} /\ ~onLive[r]

CleanLive(r) == Clean(live, r)
CleanFiles(r) == \A f \in Files : Clean(data[f], r)
CleanSeen(r) == \A q \in Requests : \A c \in seen[q] : Clean(c, r)
CleanConf(r) == \A q \in Requests \ {r} : Clean(conf[q], r)
CleanTyped(r) == typed # NoEdit => Clean(typed.text, r)

HiddenOK ==
    \A r \in Requests : Hidden(r) =>
        /\ CleanLive(r) /\ CleanFiles(r) /\ CleanSeen(r) /\ CleanConf(r)
        /\ CleanTyped(r)

\* What only hands have written.
Original == [Sections -> {Start, Hand, Zero}]

Saving(r) == pc[r] \in {"write", "saved", "fatal"}

\* What the object of the start holds when nobody is editing or saving it.
Old(s) == live[s] = Start \/ Leftover(s, live[s])

\* While JSONConfig is the object of the start, nobody has loaded the file, and
\* nobody but hands has changed it, save those who are saving it.
AllShare == \A r \in Requests : pc[r] # "idle" => onLive[r] /\ pc[r] \notin Loads

NoneAcked == \A r \in Requests : pc[r] = "ok" => kind[r] \notin Edits

ObjectOld ==
    (\A r \in Requests : pc[r] # "edited" /\ ~Saving(r)) =>
       \A s \in Sections : Old(s)

FileOld ==
    (\A r \in Requests : ~Saving(r)) =>
       /\ name \in Files
       /\ typed = NoEdit => data[name] \in Original
       /\ typed # NoEdit =>
             typed.file = name /\ data[name] = Empty /\ typed.text \in Original

SharedOK == shared => AllShare /\ NoneAcked /\ ObjectOld /\ FileOld

\* Those that had been answered stay so, and who has not begun has not passed
\* AuthMiddleWare.
OrderOK ==
    \A r \in Requests : /\ \A q \in after[r] : pc[q] = "ok"
                        /\ pc[r] = "idle" => phase[r] = "auth"

\* The contents c are those of the file before r, with what r has set.
Result(r, c) ==
    /\ c \in Configs /\ Parse(before[r]) \in Configs
    /\ \A s \in Sections :
          \/ s \in touched[r] /\ c[s] = r
          \/ s \in touched[r] \cap Optional /\ c[s] = Zero
          \/ s \notin touched[r] /\ c[s] = Parse(before[r])[s]
          \/ onLive[r] /\ (before[r][s] # Start \/ Leftover(s, c[s]))

\* The shared object that r has got is the one of the start.
KnowsObject(r) ==
    onLive[r] =>
       /\ before[r] \in Original /\ pc[r] \notin Loads
       /\ kind[r] # "restart" => shared
       /\ pc[r] = "have" => /\ Current = before[r]
                            /\ \A s \in Sections : Old(s)

\* The configuration that r has got is the one in the file.
KnowsFile(r) ==
    ~onLive[r] =>
       /\ ~shared
       /\ phase[r] = "serve" /\ kind[r] # "restart" => before[r] \notin {Nil, Torn}
       /\ pc[r] \in Loads => conf[r] = Nil
       /\ pc[r] \in {"exists", "open", "read"} => Current = before[r]
       /\ pc[r] \in {"open", "read"} => name # 0
       /\ pc[r] = "read" => seen[r] = {before[r]}
       /\ pc[r] = "rename" => before[r] = Torn
       /\ pc[r] = "have" =>
             \/ conf[r] = Nil /\ before[r] \in {Nil, Torn}
             \/ conf[r] = Parse(before[r]) /\ Current = before[r]

Saves(r) ==
    /\ pc[r] \in {"edited", "nulled", "write", "saved"} => kind[r] \in Edits
    /\ pc[r] = "edited" => Result(r, Object(r))
    /\ pc[r] = "write" => /\ conf[r] # Nil => Result(r, conf[r])
                          /\ file[r] = name /\ name \in Files /\ data[name] = Empty
    /\ pc[r] = "saved" /\ conf[r] # Nil => Result(r, Current)

Lonely(r) == typed = NoEdit /\ \A q \in Requests \ {r} : ~Active(q)

AloneOK ==
    \A r \in alone : Active(r) =>
        Lonely(r) /\ KnowsObject(r) /\ KnowsFile(r) /\ Saves(r)

IInv ==
    /\ TypeOK /\ HiddenOK /\ OrderOK /\ SharedOK /\ AloneOK /\ AlonePanic
    /\ FreshAfterEdit

(***************************************************************************)
(* The operators                                                           *)
(***************************************************************************)

\* The objects made by the operators are configurations.
LEMMA Texts ==
  /\ \A v \in Values : Whole(v) \in Configs
  /\ \A c \in Configs : \A g :
        (\A s \in DOMAIN g : g[s] \in Values) => With(c, g) \in Configs
  /\ \A c \in Contents : Parse(c) \in Contents
  /\ \A c \in Contents \ {Torn} : Parse(c) \in Configs \cup {Nil}
  /\ Start \in Values /\ Hand \in Values /\ Zero \in Values
<1>1. Zero \in Values
  BY DEF Values
<1>2. \A v \in Values : Whole(v) \in Configs
  BY DEF Whole, Configs
<1>3. \A c \in Configs : \A g :
         (\A s \in DOMAIN g : g[s] \in Values) => With(c, g) \in Configs
  BY DEF With, Configs
<1>4. /\ \A c \in Contents : Parse(c) \in Contents
      /\ \A c \in Contents \ {Torn} : Parse(c) \in Configs \cup {Nil}
  BY <1>1, <1>2 DEF Parse, Contents
<1> QED  BY <1>2, <1>3, <1>4 DEF Values

\* A read of a file that nobody has changed meanwhile gives what it holds.
LEMMA ReadingOne == \A x : Readings({x}) = {x}
<1>1. \A x : Cardinality({x}) = 1
  BY FS_Singleton
<1> QED  BY <1>1 DEF Readings

\* A read gives contents, and in them what one of those had that it has seen.
LEMMA ReadingOf ==
  ASSUME NEW S \in SUBSET Contents, NEW c \in Readings(S)
  PROVE  /\ c \in Contents
         /\ \A r \in Requests : (\A x \in S : Clean(x, r)) => Clean(c, r)
<1>1. CASE c \in S
  BY <1>1
<1>2. CASE c = Torn
  BY <1>2, ConstantsAssumption DEF Contents, Clean
<1>3. CASE c \notin S /\ c # Torn
  <2>1. PICK a \in S \cap Configs, b \in S \cap Configs, T \in SUBSET Sections :
           c = [s \in Sections |-> IF s \in T THEN a[s] ELSE b[s]]
    BY <1>3 DEF Readings
  <2>2. c \in Configs
    BY <2>1 DEF Configs
  <2>3. ASSUME NEW r \in Requests, \A x \in S : Clean(x, r) PROVE Clean(c, r)
    BY <2>1, <2>3 DEF Clean
  <2> QED  BY <2>2, <2>3 DEF Contents
<1> QED  BY <1>1, <1>2, <1>3

\* What a request sets is its value, or nothing in a section that is a pointer.
LEMMA GivenIs ==
  ASSUME NEW r \in Requests, NEW T, NEW g \in Given(r, T)
  PROVE  /\ DOMAIN g = T
         /\ \A s \in T : g[s] = r \/ (g[s] = Zero /\ s \in Optional)
         /\ \A s \in T : g[s] \in Values
<1>1. g \in [T -> {r, Zero}] /\ \A s \in T : g[s] = Zero => s \in Optional
  BY DEF Given, Lacks
<1> QED  BY <1>1 DEF Values

\* What a request saves is a configuration or one of two contents for null.
LEMMA TextIs ==
  ASSUME ConfTypes, NEW r \in Requests, NEW t \in TextsOf(conf[r])
  PROVE  t \in Contents /\ (conf[r] # Nil => t = conf[r])
BY Texts DEF ConfTypes, TextsOf, Contents

LEMMA OpenedIsAFile ==
  /\ Opened \subseteq IF name # 0 THEN {name} ELSE Files
  /\ FileTypes => Opened \subseteq Files
BY DEF Opened, FileTypes, Files

(***************************************************************************)
(* Types                                                                   *)
(***************************************************************************)

LEMMA TypeInit == Init => TypeOK
<1> SUFFICES ASSUME Init PROVE TypeOK
  OBVIOUS
<1>n. /\ 1 \in Files /\ 1 \in 0 .. MaxFiles /\ 0 \in 0 .. MaxFiles
      /\ Whole(Start) \in Contents /\ Nil \in Contents /\ Whole(Start) \in Configs
  BY ConstantsAssumption, Texts DEF Files, Contents
<1>1. FileTypes
  BY <1>n DEF Init, FileTypes
<1>2. ConfTypes
  BY <1>n DEF Init, ConfTypes
<1>3. RequestTypes /\ PcTypes
  BY DEF Init, RequestTypes, PcTypes, Kinds, Labels
<1>4. ReadTypes
  BY <1>n DEF Init, ReadTypes
<1>5. HandTypes /\ GhostTypes
  BY <1>n DEF Init, HandTypes, GhostTypes
<1> QED  BY <1>1, <1>2, <1>3, <1>4, <1>5 DEF TypeOK

\* A step of r to a label at which it does not write.
LEMMA GotoTypes ==
  ASSUME PcTypes, ReadTypes, NEW r \in Requests, NEW label \in Labels, Goto(r, label)
  PROVE  /\ PcTypes'
         /\ label # "write" /\ UNCHANGED <<file, seen>> => ReadTypes'
BY DEF PcTypes, ReadTypes, Goto

LEMMA PutTypes ==
  ASSUME FileTypes, ReadTypes, NEW f \in Files, NEW c \in Contents, Put(f, c)
  PROVE  data' \in [Files -> Contents] /\ seen' \in [Requests -> SUBSET Contents]
BY DEF FileTypes, ReadTypes, Put

LEMMA GetConfTypes ==
  ASSUME TypeOK, NEW r \in Requests, NEW is \in BOOLEAN, GetConf(r, is)
  PROVE  /\ conf' \in [Requests -> Configs \cup {Nil}]
         /\ onLive' \in [Requests -> BOOLEAN]
         /\ PcTypes'
         /\ UNCHANGED <<file, seen>> => ReadTypes'
<1>1. /\ conf' \in [Requests -> Configs \cup {Nil}]
      /\ onLive' \in [Requests -> BOOLEAN]
  BY DEF TypeOK, ConfTypes, GetConf
<1>2. PICK label \in {"have", "exists"} : Goto(r, label)
  BY DEF GetConf
<1> QED  BY <1>1, <1>2, GotoTypes DEF TypeOK, Labels, Loads

LEMMA AssignTypes ==
  ASSUME ConfTypes, NEW r \in Requests, NEW T, NEW g \in Given(r, T), Assign(r, g),
         UNCHANGED <<shared, onLive>>
  PROVE  ConfTypes'
<1>1. (\A s \in DOMAIN g : g[s] \in Values) /\ Whole(Zero) \in Configs
  BY GivenIs, Texts
<1>2. CASE onLive[r]
  BY <1>1, <1>2, Texts DEF ConfTypes, Assign
<1>3. CASE ~onLive[r]
  <2>1. With(IF conf[r] = Nil THEN Whole(Zero) ELSE conf[r], g) \in Configs
    BY <1>1, Texts DEF ConfTypes
  <2> QED  BY <1>3, <2>1 DEF ConfTypes, Assign
<1> QED  BY <1>2, <1>3

\* Each step leaves every variable in its type.
LEMMA TypeStep == TypeOK /\ [Next]_vars => TypeOK'
<1> SUFFICES ASSUME TypeOK, [Next]_vars PROVE TypeOK'
  OBVIOUS
<1> USE DEF TypeOK, At, Serve
<1>n. 0 \in 0 .. MaxFiles /\ \A f \in Files : f \in 0 .. MaxFiles
  BY ConstantsAssumption DEF Files
<1>u. /\ UNCHANGED fileVars => FileTypes'
      /\ UNCHANGED <<confVars, conf, onLive>> => ConfTypes'
      /\ UNCHANGED requestVars => RequestTypes'
      /\ UNCHANGED <<pc, file, seen>> => PcTypes' /\ ReadTypes'
      /\ UNCHANGED handVars => HandTypes'
      /\ UNCHANGED ghosts => GhostTypes'
  BY DEF fileVars, confVars, requestVars, handVars, ghosts, FileTypes, ConfTypes,
         RequestTypes, PcTypes, ReadTypes, HandTypes, GhostTypes
<1>1. ASSUME NEW r \in Requests, NEW k \in Kinds, Begin(r, k) PROVE TypeOK'
  <2>1. RequestTypes'
    <3>1. PICK T \in Touch(k) : touched' = [touched EXCEPT ![r] = T]
      BY <1>1 DEF Begin
    <3>2. T \in SUBSET Sections
      BY <3>1 DEF Touch
    <3> QED  BY <1>1, <3>1, <3>2 DEF Begin, RequestTypes
  <2>2. PcTypes' /\ ReadTypes' /\ ConfTypes'
    BY <1>1, GetConfTypes DEF Begin, ConfTypes, confVars
  <2>3. GhostTypes'
    <3>1. Current \in Contents
      BY DEF Current, FileTypes, Files, Contents
    <3>2. alone' \subseteq Requests
      BY <1>1 DEF Begin, GhostTypes
    <3>3. /\ before' \in [Requests -> Contents]
          /\ after' \in [Requests -> SUBSET Requests]
      BY <1>1, <3>1 DEF Begin, GhostTypes
    <3> QED  BY <3>2, <3>3 DEF GhostTypes
  <2> QED  BY <1>1, <1>u, <2>1, <2>2, <2>3 DEF Begin
<1>2. ASSUME NEW r \in Requests, Exists(r) PROVE TypeOK'
  <2>1. PcTypes' /\ ReadTypes'
    BY <1>2, GotoTypes DEF Exists, Labels, Loads
  <2> QED  BY <1>2, <1>u, <2>1 DEF Exists
<1>3. ASSUME NEW r \in Requests, Open(r) PROVE TypeOK'
  <2>1. PcTypes'
    BY <1>3, GotoTypes DEF Open, Labels, Loads
  <2>2. (IF name = 0 THEN Empty ELSE data[name]) \in Contents
    BY DEF FileTypes, Files, Contents
  <2>3. ReadTypes'
    BY <1>3, <2>2 DEF Open, Goto, FileTypes, PcTypes, ReadTypes
  <2> QED  BY <1>3, <1>u, <2>1, <2>3 DEF Open
<1>4. ASSUME NEW r \in Requests, Read(r) PROVE TypeOK'
  <2>1. PICK c \in Readings(seen[r]) :
           IF c = Torn THEN Goto(r, "rename") /\ UNCHANGED conf
           ELSE Goto(r, "have") /\ conf' = [conf EXCEPT ![r] = Parse(c)]
    BY <1>4 DEF Read
  <2>2. c \in Contents
    BY <2>1, ReadingOf DEF ReadTypes
  <2>3. PcTypes'
    BY <2>1, GotoTypes DEF Labels, Loads
  <2>4. ReadTypes'
    BY <1>4, <1>n, <2>1 DEF Read, Goto, PcTypes, ReadTypes
  <2>5. ConfTypes'
    <3>1. c # Torn => Parse(c) \in Configs \cup {Nil}
      BY <2>2, Texts
    <3> QED  BY <1>4, <2>1, <3>1 DEF Read, ConfTypes, confVars
  <2> QED  BY <1>4, <1>u, <2>3, <2>4, <2>5 DEF Read
<1>5. ASSUME NEW r \in Requests, Rename(r) PROVE TypeOK'
  <2>1. PcTypes' /\ ReadTypes'
    BY <1>5, GotoTypes DEF Rename, Labels
  <2>2. FileTypes'
    BY <1>5, <1>n DEF Rename, FileTypes
  <2> QED  BY <1>5, <1>u, <2>1, <2>2 DEF Rename
<1>6. ASSUME NEW r \in Requests, Authorize(r) PROVE TypeOK'
  <2>1. ConfTypes' /\ PcTypes' /\ ReadTypes'
    <3>1. CASE shared' = (shared /\ kind[r] # "restart") /\ GetConf(r, shared')
      <4>1. shared' \in BOOLEAN
        BY <3>1 DEF ConfTypes
      <4> QED  BY <1>6, <3>1, <4>1, GetConfTypes DEF Authorize, ConfTypes
    <3>2. CASE /\ Goto(r, IF HasConf(r) THEN "denied" ELSE "panicked")
               /\ UNCHANGED <<phase, shared, conf, onLive>>
      <4>1. PICK label \in {"denied", "panicked"} : Goto(r, label)
        BY <3>2
      <4>2. label \in Labels /\ label # "write"
        BY <4>1 DEF Labels, Ended
      <4> QED  BY <1>6, <1>u, <3>2, <4>1, <4>2, GotoTypes DEF Authorize, confVars
    <3> QED  BY <1>6, <3>1, <3>2 DEF Authorize
  <2>2. RequestTypes'
    BY <1>6 DEF Authorize, RequestTypes
  <2> QED  BY <1>6, <1>u, <2>1, <2>2 DEF Authorize
<1>7. ASSUME NEW r \in Requests, Answer(r) PROVE TypeOK'
  <2>1. PICK label \in {"ok", "panicked"} : Goto(r, label)
    BY <1>7 DEF Answer
  <2>2. PcTypes' /\ ReadTypes'
    BY <1>7, <2>1, GotoTypes DEF Answer, Labels, Ended
  <2> QED  BY <1>7, <1>u, <2>2 DEF Answer
<1>8. ASSUME NEW r \in Requests, Edit(r) PROVE TypeOK'
  <2>1. PICK label \in {"edited", "nulled", "panicked"} : Goto(r, label)
    BY <1>8 DEF Edit
  <2>2. PcTypes' /\ ReadTypes'
    BY <1>8, <2>1, GotoTypes DEF Edit, Labels, Ended
  <2>3. ConfTypes'
    <3>1. CASE UNCHANGED <<live, conf>>
      BY <1>8, <1>u, <3>1 DEF Edit, confVars
    <3>2. CASE \E g \in Given(r, touched[r]) : Assign(r, g)
      BY <1>8, <3>2, AssignTypes DEF Edit
    <3> QED  BY <1>8, <3>1, <3>2 DEF Edit
  <2> QED  BY <1>8, <1>u, <2>2, <2>3 DEF Edit
<1>9. ASSUME NEW r \in Requests, Refuse(r) PROVE TypeOK'
  <2>1. PcTypes' /\ ReadTypes'
    BY <1>9, GotoTypes DEF Refuse, Labels, Ended
  <2>2. ConfTypes'
    BY <1>9, AssignTypes DEF Refuse
  <2> QED  BY <1>9, <1>u, <2>1, <2>2 DEF Refuse
<1>10. ASSUME NEW r \in Requests, Truncate(r) PROVE TypeOK'
  <2>1. name' \in Files /\ name' \in 0 .. MaxFiles
    BY <1>10, <1>n, OpenedIsAFile DEF Truncate
  <2>2. data' \in [Files -> Contents] /\ seen' \in [Requests -> SUBSET Contents]
    <3>1. Put(name', Empty) /\ Empty \in Contents
      BY <1>10 DEF Truncate, Contents
    <3> QED  BY <2>1, <3>1, PutTypes
  <2>3. PcTypes'
    BY <1>10, GotoTypes DEF Truncate, Labels
  <2>4. ReadTypes'
    BY <1>10, <2>1, <2>2 DEF Truncate, Goto, PcTypes, ReadTypes
  <2>5. ConfTypes'
    BY <1>10 DEF Truncate, Object, ConfTypes, confVars
  <2> QED  BY <1>10, <1>u, <2>1, <2>2, <2>3, <2>4, <2>5 DEF Truncate, FileTypes
<1>11. ASSUME NEW r \in Requests, Write(r) PROVE TypeOK'
  <2>1. PICK t \in TextsOf(conf[r]) : \E c \in Overlay(file[r], t) : Put(file[r], c)
    BY <1>11 DEF Write
  <2>c. PICK c \in Overlay(file[r], t) : Put(file[r], c)
    BY <2>1
  <2>2. file[r] \in Files /\ c \in Contents
    BY <1>11, <2>c, TextIs DEF Write, ReadTypes, Overlay, Contents
  <2>3. data' \in [Files -> Contents] /\ seen' \in [Requests -> SUBSET Contents]
    BY <2>c, <2>2, PutTypes
  <2>4. PcTypes'
    BY <1>11, GotoTypes DEF Write, Labels
  <2>5. ReadTypes'
    BY <1>11, <1>n, <2>3 DEF Write, Goto, PcTypes, ReadTypes
  <2> QED  BY <1>11, <1>u, <2>3, <2>4, <2>5 DEF Write, FileTypes
<1>12. ASSUME NEW r \in Requests, SaveFails(r) PROVE TypeOK'
  <2>1. data' \in [Files -> Contents] /\ seen' \in [Requests -> SUBSET Contents]
    <3>1. CASE UNCHANGED <<data, seen>>
      BY <3>1 DEF FileTypes, ReadTypes
    <3>2. CASE At(r, "write") /\ \E c \in {data[file[r]], Torn} : Put(file[r], c)
      <4>1. file[r] \in Files
        BY <3>2 DEF ReadTypes
      <4>2. data[file[r]] \in Contents /\ Torn \in Contents
        BY <4>1 DEF FileTypes, Contents
      <4> QED  BY <3>2, <4>1, <4>2, PutTypes
    <3> QED  BY <1>12, <3>1, <3>2 DEF SaveFails
  <2>2. PcTypes'
    BY <1>12, GotoTypes DEF SaveFails, Labels
  <2>3. ReadTypes'
    BY <1>12, <2>1 DEF SaveFails, Goto, PcTypes, ReadTypes
  <2> QED  BY <1>12, <1>u, <2>1, <2>2, <2>3 DEF SaveFails, FileTypes
<1>13. ASSUME NEW r \in Requests, Ack(r) PROVE TypeOK'
  <2>1. PcTypes' /\ ReadTypes'
    BY <1>13, GotoTypes DEF Ack, Labels, Ended
  <2>2. ConfTypes'
    BY <1>13 DEF Ack, ConfTypes
  <2> QED  BY <1>13, <1>u, <2>1, <2>2 DEF Ack
<1>14. ASSUME HandOpens PROVE TypeOK'
  <2>1. name' \in Files /\ name' \in 0 .. MaxFiles
    BY <1>14, <1>n, OpenedIsAFile DEF HandOpens
  <2>2. data' \in [Files -> Contents] /\ seen' \in [Requests -> SUBSET Contents]
    <3>1. Put(name', Empty) /\ Empty \in Contents
      BY <1>14 DEF HandOpens, Contents
    <3> QED  BY <2>1, <3>1, PutTypes
  <2>3. PcTypes' /\ ReadTypes'
    BY <1>14, <2>2 DEF HandOpens, PcTypes, ReadTypes
  <2>4. HandTypes'
    <3>1. PICK s \in Sections, v \in {Hand, Zero} :
             typed' = [file |-> name', text |-> IF Current \in Configs
                                                THEN [Current EXCEPT ![s] = v]
                                                ELSE Whole(Hand)]
      BY <1>14 DEF HandOpens
    <3>2. typed'.text \in Configs
      BY <3>1, Texts DEF Configs
    <3>3. typed' \in [file : Files, text : Configs]
      BY <2>1, <3>1, <3>2
    <3>4. hands' \in Nat
      BY <1>14 DEF HandOpens, HandTypes
    <3> QED  BY <3>3, <3>4 DEF HandTypes
  <2>5. GhostTypes'
    BY <1>14 DEF HandOpens, GhostTypes
  <2> QED  BY <1>14, <1>u, <2>1, <2>2, <2>3, <2>4, <2>5 DEF HandOpens, FileTypes
<1>15. ASSUME HandWrites PROVE TypeOK'
  <2>1. PICK c \in Overlay(typed.file, typed.text) : Put(typed.file, c)
    BY <1>15 DEF HandWrites
  <2>2. typed.file \in Files /\ typed.text \in Configs
    BY <1>15 DEF HandWrites, HandTypes
  <2>3. c \in Contents
    BY <2>1, <2>2 DEF Overlay, Contents
  <2>4. data' \in [Files -> Contents] /\ seen' \in [Requests -> SUBSET Contents]
    BY <2>1, <2>2, <2>3, PutTypes
  <2>5. PcTypes' /\ ReadTypes'
    BY <1>15, <2>4 DEF HandWrites, PcTypes, ReadTypes
  <2>6. HandTypes'
    BY <1>15 DEF HandWrites, HandTypes
  <2> QED  BY <1>15, <1>u, <2>4, <2>5, <2>6 DEF HandWrites, FileTypes
<1>16. CASE UNCHANGED vars
  BY <1>16, <1>u DEF vars, handVars
<1> QED  BY <1>1, <1>2, <1>3, <1>4, <1>5, <1>6, <1>7, <1>8, <1>9, <1>10, <1>11,
            <1>12, <1>13, <1>14, <1>15, <1>16 DEF Next, Request

(***************************************************************************)
(* The steps                                                               *)
(***************************************************************************)

\* A step of r leaves the local state of the others alone.
LEMMA Others ==
  ASSUME TypeOK, NEW r \in Requests, Request(r), NEW q \in Requests \ {r}
  PROVE  /\ UNCHANGED <<pc[q], phase[q], kind[q], touched[q], conf[q], onLive[q],
                        file[q], before[q], after[q]>>
         /\ Active(q)' = Active(q) /\ HasConf(q)' = HasConf(q)
<1> USE DEF TypeOK, ConfTypes, RequestTypes, PcTypes, ReadTypes, GhostTypes, Goto,
        GetConf, At, ghosts, requestVars, Active, HasConf
<1>1. CASE \E k \in Asked \cap Kinds : Begin(r, k)
  BY <1>1 DEF Begin
<1>2. CASE Exists(r) \/ Open(r) \/ Rename(r)
  BY <1>2 DEF Exists, Open, Rename
<1>3. CASE Read(r)
  BY <1>3 DEF Read
<1>4. CASE Authorize(r)
  BY <1>4 DEF Authorize
<1>5. CASE Answer(r)
  BY <1>5 DEF Answer
<1>6. CASE Edit(r)
  BY <1>6 DEF Edit, Assign
<1>7. CASE Refuse(r)
  BY <1>7 DEF Refuse, Assign
<1>8. CASE Truncate(r)
  BY <1>8 DEF Truncate
<1>9. CASE Write(r) \/ SaveFails(r) \/ Ack(r)
  BY <1>9 DEF Write, SaveFails, Ack
<1> QED  BY <1>1, <1>2, <1>3, <1>4, <1>5, <1>6, <1>7, <1>8, <1>9 DEF Request

\* A value that is out stays out.
LEMMA HiddenBefore ==
  ASSUME TypeOK, [Next]_vars, NEW x \in Requests, Hidden(x)'
  PROVE  Hidden(x)
<1> USE DEF TypeOK, PcTypes, Goto, At, Serve, Hidden, Loads, Ended
<1>1. CASE UNCHANGED <<pc, onLive>>
  BY <1>1
<1>2. CASE HandOpens \/ HandWrites \/ UNCHANGED vars
  BY <1>1, <1>2 DEF HandOpens, HandWrites, vars
<1>3. ASSUME NEW r \in Requests \ {x}, Request(r) PROVE Hidden(x)
  BY <1>3, Others
<1>4. CASE Request(x)
  <2>1. CASE pc[x] \in Loads \cup {"idle", "have", "nulled", "denied", "panicked"}
    BY <2>1
  <2>2. CASE pc[x] \notin Loads \cup {"idle", "have", "nulled", "denied", "panicked"}
    <3>1. Truncate(x) \/ Write(x) \/ SaveFails(x) \/ Ack(x)
      BY <1>4, <2>2 DEF Request, Begin, Exists, Open, Read, Rename, Authorize, Answer,
                        Edit, Refuse
    <3>2. pc'[x] \in {"write", "saved", "fatal", "ok"}
      BY <3>1 DEF Truncate, Write, SaveFails, Ack
    <3> QED  BY <3>2
  <2> QED  BY <2>1, <2>2
<1> QED  BY <1>2, <1>3, <1>4 DEF Next

LEMMA PutClean ==
  ASSUME FileTypes, ReadTypes, NEW x \in Requests, CleanFiles(x), CleanSeen(x),
         NEW f \in Files, NEW c, Clean(c, x), Put(f, c)
  PROVE  CleanFiles(x)' /\ CleanSeen(x)'
BY DEF FileTypes, ReadTypes, CleanFiles, CleanSeen, Clean, Put

\* What is made of clean contents without x is clean.
LEMMA CleanMakes ==
  ASSUME NEW x \in Requests
  PROVE  /\ Clean(Empty, x) /\ Clean(Torn, x) /\ Clean(Nil, x)
         /\ Clean(Whole(Zero), x) /\ Clean(Whole(Hand), x)
         /\ \A c : Clean(c, x) => Clean(Parse(c), x)
         /\ \A c \in Configs : \A g :
               Clean(c, x) /\ (\A s \in DOMAIN g : g[s] # x) => Clean(With(c, g), x)
<1>1. Clean(Empty, x) /\ Clean(Torn, x) /\ Clean(Nil, x)
  BY ConstantsAssumption DEF Clean
<1>2. Clean(Whole(Zero), x) /\ Clean(Whole(Hand), x)
  BY ConstantsAssumption DEF Clean, Whole
<1>3. \A c : Clean(c, x) => Clean(Parse(c), x)
  BY <1>2 DEF Parse
<1>4. \A c \in Configs : \A g :
         Clean(c, x) /\ (\A s \in DOMAIN g : g[s] # x) => Clean(With(c, g), x)
  BY DEF Clean, With
<1> QED  BY <1>1, <1>2, <1>3, <1>4

\* An assignment by another request, or to an object of one's own.
LEMMA AssignClean ==
  ASSUME ConfTypes, NEW x \in Requests, NEW r \in Requests, NEW T,
         NEW g \in Given(r, T), Assign(r, g), r # x \/ ~onLive[r],
         CleanLive(x), CleanConf(x)
  PROVE  CleanLive(x)' /\ CleanConf(x)'
<1>0. r # x => \A s \in DOMAIN g : g[s] # x
  BY GivenIs, ConstantsAssumption
<1>1. CASE onLive[r]
  <2>1. (\A s \in DOMAIN g : g[s] # x) /\ live \in Configs
    BY <1>0, <1>1 DEF ConfTypes
  <2>2. CleanLive(x)'
    BY <1>1, <2>1, CleanMakes DEF Assign, CleanLive
  <2> QED  BY <1>1, <2>2 DEF Assign, CleanConf
<1>2. CASE ~onLive[r]
  <2> DEFINE c == IF conf[r] = Nil THEN Whole(Zero) ELSE conf[r]
  <2>1. /\ conf' = [conf EXCEPT ![r] = With(c, g)] /\ UNCHANGED live
    BY <1>2 DEF Assign
  <2>2. r # x => Clean(With(c, g), x)
    <3> SUFFICES ASSUME r # x PROVE Clean(With(c, g), x)
      OBVIOUS
    <3>1. (\A s \in DOMAIN g : g[s] # x) /\ c \in Configs
      BY <1>0, Texts DEF ConfTypes
    <3>2. Clean(c, x)
      BY CleanMakes DEF CleanConf
    <3> QED  BY <3>1, <3>2, CleanMakes
  <2> HIDE DEF c
  <2> QED  BY <2>1, <2>2 DEF ConfTypes, CleanLive, CleanConf, Clean
<1> QED  BY <1>1, <1>2

LEMMA HiddenStep == TypeOK /\ HiddenOK /\ [Next]_vars => HiddenOK'
<1> SUFFICES ASSUME TypeOK, HiddenOK, [Next]_vars, NEW x \in Requests, Hidden(x)'
             PROVE  /\ CleanLive(x)' /\ CleanFiles(x)' /\ CleanSeen(x)' /\ CleanConf(x)'
                    /\ CleanTyped(x)'
  BY DEF HiddenOK
<1> USE DEF TypeOK, At, Serve
<1>h. /\ CleanLive(x) /\ CleanFiles(x) /\ CleanSeen(x) /\ CleanConf(x)
      /\ CleanTyped(x)
  BY HiddenBefore DEF HiddenOK
<1>u. /\ UNCHANGED live => CleanLive(x)'
      /\ UNCHANGED fileVars => CleanFiles(x)'
      /\ UNCHANGED data => CleanFiles(x)'
      /\ UNCHANGED seen => CleanSeen(x)'
      /\ UNCHANGED conf => CleanConf(x)'
      /\ UNCHANGED typed => CleanTyped(x)'
  BY <1>h DEF fileVars, CleanLive, CleanFiles, CleanSeen, CleanConf, CleanTyped, Clean
<1>p. ASSUME NEW r \in Requests, pc'[r] \in {"write", "saved", "fatal", "ok"}
      PROVE  r # x
  BY <1>p DEF Hidden, Loads
<1>m. Clean(Empty, x) /\ Clean(Torn, x) /\ Clean(Nil, x)
  BY CleanMakes
<1>g. ASSUME NEW r \in Requests, NEW is, GetConf(r, is) PROVE CleanConf(x)'
  BY <1>g, <1>h, <1>m DEF GetConf, ConfTypes, CleanConf, Clean
<1>1. ASSUME NEW r \in Requests, NEW k, Begin(r, k)
      PROVE  /\ CleanLive(x)' /\ CleanFiles(x)' /\ CleanSeen(x)' /\ CleanConf(x)'
             /\ CleanTyped(x)'
  BY <1>1, <1>g, <1>u DEF Begin, confVars, handVars
<1>2. ASSUME NEW r \in Requests, Exists(r) \/ Rename(r) \/ Answer(r) \/ Ack(r)
      PROVE  /\ CleanLive(x)' /\ CleanFiles(x)' /\ CleanSeen(x)' /\ CleanConf(x)'
             /\ CleanTyped(x)'
  BY <1>2, <1>u DEF Exists, Rename, Answer, Ack, confVars, handVars
<1>3. ASSUME NEW r \in Requests, Open(r)
      PROVE  /\ CleanLive(x)' /\ CleanFiles(x)' /\ CleanSeen(x)' /\ CleanConf(x)'
             /\ CleanTyped(x)'
  <2>1. Clean(IF name = 0 THEN Empty ELSE data[name], x)
    BY <1>h, <1>m DEF FileTypes, CleanFiles, Files
  <2>2. CleanSeen(x)'
    BY <1>3, <1>h, <2>1 DEF Open, ReadTypes, CleanSeen, Clean
  <2> QED  BY <1>3, <1>u, <2>2 DEF Open, confVars, handVars
<1>4. ASSUME NEW r \in Requests, Read(r)
      PROVE  /\ CleanLive(x)' /\ CleanFiles(x)' /\ CleanSeen(x)' /\ CleanConf(x)'
             /\ CleanTyped(x)'
  <2>1. PICK c \in Readings(seen[r]) :
           IF c = Torn THEN UNCHANGED conf
           ELSE conf' = [conf EXCEPT ![r] = Parse(c)]
    BY <1>4 DEF Read
  <2>2. Clean(Parse(c), x)
    BY <1>h, <2>1, ReadingOf, CleanMakes DEF ReadTypes, CleanSeen
  <2>3. CleanConf(x)'
    BY <1>h, <1>u, <2>1, <2>2 DEF ConfTypes, CleanConf, Clean
  <2>4. CleanSeen(x)'
    BY <1>4, <1>h DEF Read, ReadTypes, CleanSeen, Clean
  <2> QED  BY <1>4, <1>u, <2>3, <2>4 DEF Read, confVars, handVars
<1>5. ASSUME NEW r \in Requests, Authorize(r)
      PROVE  /\ CleanLive(x)' /\ CleanFiles(x)' /\ CleanSeen(x)' /\ CleanConf(x)'
             /\ CleanTyped(x)'
  <2>1. CleanConf(x)'
    BY <1>5, <1>g, <1>u DEF Authorize
  <2> QED  BY <1>5, <1>u, <2>1 DEF Authorize, handVars
<1>6. ASSUME NEW r \in Requests, Edit(r)
      PROVE  /\ CleanLive(x)' /\ CleanFiles(x)' /\ CleanSeen(x)' /\ CleanConf(x)'
             /\ CleanTyped(x)'
  <2>1. CASE UNCHANGED <<live, conf>>
    BY <1>6, <1>u, <2>1 DEF Edit, handVars
  <2>2. CASE Goto(r, "edited") /\ \E g \in Given(r, touched[r]) : Assign(r, g)
    <3>1. r # x \/ ~onLive[r]
      BY <1>6, <2>2 DEF Edit, Hidden, Goto, PcTypes, Loads
    <3> QED  BY <1>6, <1>h, <1>u, <2>2, <3>1, AssignClean DEF Edit, handVars
  <2> QED  BY <1>6, <2>1, <2>2 DEF Edit
<1>7. ASSUME NEW r \in Requests, Refuse(r)
      PROVE  /\ CleanLive(x)' /\ CleanFiles(x)' /\ CleanSeen(x)' /\ CleanConf(x)'
             /\ CleanTyped(x)'
  <2>1. r # x \/ ~onLive[r]
    BY <1>7 DEF Refuse, Hidden, Goto, PcTypes, Loads
  <2>2. PICK T \in SUBSET touched[r] : \E g \in Given(r, T) : Assign(r, g)
    BY <1>7 DEF Refuse
  <2> QED  BY <1>7, <1>h, <1>u, <2>1, <2>2, AssignClean DEF Refuse, handVars
<1>8. ASSUME NEW r \in Requests, Truncate(r)
      PROVE  /\ CleanLive(x)' /\ CleanFiles(x)' /\ CleanSeen(x)' /\ CleanConf(x)'
             /\ CleanTyped(x)'
  <2>1. CleanConf(x)'
    BY <1>8, <1>h, <1>m DEF Truncate, Object, ConfTypes, CleanConf, CleanLive, Clean
  <2>2. name' \in Files /\ Put(name', Empty)
    BY <1>8, OpenedIsAFile DEF Truncate
  <2> QED  BY <1>8, <1>h, <1>m, <1>u, <2>1, <2>2, PutClean
           DEF Truncate, confVars, handVars
<1>9. ASSUME NEW r \in Requests, Write(r)
      PROVE  /\ CleanLive(x)' /\ CleanFiles(x)' /\ CleanSeen(x)' /\ CleanConf(x)'
             /\ CleanTyped(x)'
  <2>1. r # x /\ file[r] \in Files
    BY <1>9, <1>p DEF Write, Goto, PcTypes, ReadTypes
  <2>2. PICK c \in {conf[r], Whole(Zero), Torn} : Put(file[r], c)
    BY <1>9 DEF Write, Overlay, TextsOf
  <2>3. Clean(c, x)
    BY <1>h, <1>m, <2>1, <2>2, CleanMakes DEF CleanConf
  <2> QED  BY <1>9, <1>h, <1>u, <2>1, <2>2, <2>3, PutClean
           DEF Write, confVars, handVars
<1>10. ASSUME NEW r \in Requests, SaveFails(r)
      PROVE  /\ CleanLive(x)' /\ CleanFiles(x)' /\ CleanSeen(x)' /\ CleanConf(x)'
             /\ CleanTyped(x)'
  <2>1. CleanFiles(x)' /\ CleanSeen(x)'
    <3>1. CASE UNCHANGED <<data, seen>>
      BY <1>u, <3>1
    <3>2. CASE At(r, "write") /\ \E c \in {data[file[r]], Torn} : Put(file[r], c)
      <4>1. file[r] \in Files
        BY <3>2 DEF ReadTypes
      <4>2. Clean(data[file[r]], x)
        BY <1>h, <4>1 DEF CleanFiles
      <4> QED  BY <1>h, <1>m, <3>2, <4>1, <4>2, PutClean
    <3> QED  BY <1>10, <3>1, <3>2 DEF SaveFails
  <2> QED  BY <1>10, <1>u, <2>1 DEF SaveFails, confVars, handVars
<1>11. CASE HandOpens
  <2>1. name' \in Files /\ Put(name', Empty)
    BY <1>11, OpenedIsAFile DEF HandOpens
  <2>2. PICK s \in Sections, v \in {Hand, Zero} :
             typed' = [file |-> name', text |-> IF Current \in Configs
                                                THEN [Current EXCEPT ![s] = v]
                                                ELSE Whole(Hand)]
    BY <1>11 DEF HandOpens
  <2>3. Clean(Current, x) /\ Hand # x /\ Zero # x
    BY <1>h, <1>m, ConstantsAssumption DEF Current, FileTypes, CleanFiles, Files
  <2>4. Clean(typed'.text, x)
    BY <2>2, <2>3, CleanMakes DEF Clean, Configs
  <2>5. CleanTyped(x)'
    BY <2>4 DEF CleanTyped, Clean
  <2> QED  BY <1>11, <1>h, <1>m, <1>u, <2>1, <2>5, PutClean DEF HandOpens, confVars
<1>12. CASE HandWrites
  <2>1. PICK c \in {typed.text, Torn} : Put(typed.file, c)
    BY <1>12 DEF HandWrites, Overlay
  <2>2. typed.file \in Files
    BY <1>12 DEF HandWrites, HandTypes
  <2>3. Clean(c, x)
    BY <1>12, <1>h, <1>m, <2>1 DEF HandWrites, CleanTyped
  <2>4. CleanTyped(x)'
    BY <1>12 DEF HandWrites, CleanTyped, NoEdit
  <2> QED  BY <1>12, <1>h, <1>u, <2>1, <2>2, <2>3, <2>4, PutClean
           DEF HandWrites, confVars
<1>13. CASE UNCHANGED vars
  BY <1>13, <1>u DEF vars, confVars, handVars
<1> QED  BY <1>1, <1>2, <1>3, <1>4, <1>5, <1>6, <1>7, <1>8, <1>9, <1>10, <1>11,
            <1>12, <1>13 DEF Next, Request

LEMMA OrderStep == TypeOK /\ OrderOK /\ [Next]_vars => OrderOK'
<1> SUFFICES ASSUME TypeOK, OrderOK, [Next]_vars PROVE OrderOK'
  OBVIOUS
<1> USE DEF TypeOK, PcTypes, RequestTypes, GhostTypes, OrderOK, At, Serve, Goto
<1>1. CASE HandOpens \/ HandWrites \/ UNCHANGED vars
  BY <1>1 DEF HandOpens, HandWrites, vars, requestVars, ghosts
<1>2. ASSUME NEW r \in Requests, Request(r) PROVE OrderOK'
  <2>1. ASSUME NEW q \in Requests, pc[q] = "ok" PROVE pc'[q] = "ok"
    <3>1. CASE q # r
      BY <1>2, <2>1, <3>1, Others
    <3>2. CASE q = r
      BY <1>2, <2>1, <3>2 DEF Request, Begin, Exists, Open, Read, Rename, Authorize,
                             Answer, Edit, Refuse, Truncate, Write, SaveFails, Ack
    <3> QED  BY <3>1, <3>2
  <2>2. pc'[r] # "idle"
    BY <1>2 DEF Request, Begin, GetConf, Exists, Open, Read, Rename, Authorize,
                Answer, Edit, Refuse, Truncate, Write, SaveFails, Ack
  <2>3. ASSUME NEW q \in Requests, pc'[q] = "idle" PROVE phase'[q] = "auth"
    BY <1>2, <2>2, <2>3, Others
  <2>4. after'[r] \in {after[r], {q \in Requests : pc[q] = "ok"}}
    BY <1>2 DEF Request, Begin, Exists, Open, Read, Rename, Authorize, ghosts,
                Answer, Edit, Refuse, Truncate, Write, SaveFails, Ack
  <2>5. ASSUME NEW q \in Requests, NEW p \in after'[q] PROVE pc'[p] = "ok"
    <3>1. p \in Requests /\ pc[p] = "ok"
      BY <1>2, <2>4, <2>5, Others
    <3> QED  BY <2>1, <3>1
  <2> QED  BY <2>3, <2>5
<1> QED  BY <1>1, <1>2 DEF Next

\* The kinds of requests are told apart.
LEMMA KindsApart == "get" \notin Edits /\ "restart" \notin Edits
BY ConstantsAssumption DEF Edits

\* A hand sets sections of what hands have written.
LEMMA HandsOnly ==
  /\ Original \subseteq Configs /\ Original \subseteq Contents
  /\ \A c \in Original : Parse(c) = c
  /\ \A c \in Original, s \in Sections, v \in {Hand, Zero} :
        [c EXCEPT ![s] = v] \in Original
<1>1. Original \subseteq Configs
  BY DEF Original, Configs, Values
<1>2. \A c \in Original : Parse(c) = c
  BY <1>1, ConstantsAssumption DEF Parse
<1>3. \A c \in Original, s \in Sections, v \in {Hand, Zero} :
         [c EXCEPT ![s] = v] \in Original
  BY DEF Original
<1> QED  BY <1>1, <1>2, <1>3 DEF Contents

\* A refused request stays refused.
LEMMA RefusedStays ==
  ASSUME TypeOK, [Next]_vars, NEW q \in Requests, pc[q] = "refused"
  PROVE  pc'[q] = "refused" /\ touched'[q] = touched[q]
<1>1. CASE HandOpens \/ HandWrites \/ UNCHANGED vars
  BY <1>1 DEF HandOpens, HandWrites, vars, requestVars
<1>2. ASSUME NEW r \in Requests, Request(r) PROVE UNCHANGED <<pc[q], touched[q]>>
  <2>1. r # q
    BY <1>2 DEF Request, Begin, Exists, Open, Read, Rename, Authorize, Answer,
           Edit, Refuse, Truncate, Write, SaveFails, Ack, At, Serve
  <2> QED  BY <1>2, <2>1, Others
<1> QED  BY <1>1, <1>2 DEF Next

\* And so does what it has left in the object of the start.
LEMMA OldStays ==
  ASSUME TypeOK, [Next]_vars, NEW s, Old(s), UNCHANGED live[s]
  PROVE  Old(s)'
BY RefusedStays DEF Old, Leftover

LEMMA SharedStep == TypeOK /\ SharedOK /\ [Next]_vars => SharedOK'
<1> SUFFICES ASSUME TypeOK, SharedOK, [Next]_vars, shared'
             PROVE  AllShare' /\ NoneAcked' /\ ObjectOld' /\ FileOld'
  BY DEF SharedOK
<1> USE DEF TypeOK, PcTypes, RequestTypes, At, Serve
<1>s. shared
  BY DEF Next, Request, HandOpens, HandWrites, Begin, Exists, Open, Read, Rename,
         Authorize, Answer, Edit, Refuse, Truncate, Write, SaveFails, Ack, vars,
         confVars, ConfTypes
<1>h. AllShare /\ NoneAcked /\ ObjectOld /\ FileOld
  BY <1>s DEF SharedOK
<1>u. /\ UNCHANGED <<pc, onLive>> => AllShare'
      /\ UNCHANGED <<pc, kind>> => NoneAcked'
      /\ UNCHANGED <<live, pc>> => ObjectOld'
      /\ UNCHANGED <<fileVars, typed, pc>> => FileOld'
  <2>1. UNCHANGED <<live, pc>> => ObjectOld'
    BY <1>h, OldStays DEF ObjectOld, Saving
  <2> QED  BY <1>h, <2>1 DEF AllShare, NoneAcked, FileOld, Saving, fileVars
\* A step of r that neither saves, edits nor is refused.
<1>o. ASSUME NEW r \in Requests, NEW label \in Labels, Goto(r, label),
             pc[r] \in {"idle", "have"},
             label \in {"have", "ok", "denied", "panicked"},
             UNCHANGED <<live, fileVars, typed>>
      PROVE  ObjectOld' /\ FileOld'
  <2>1. ASSUME NEW s \in Sections, Old(s) PROVE Old(s)'
    BY <1>o, <2>1, OldStays
  <2>2. /\ \A q \in Requests : Saving(q)' = Saving(q)
        /\ \A q \in Requests : (pc'[q] = "edited") = (pc[q] = "edited")
    BY <1>o DEF Saving, Goto
  <2> QED  BY <1>h, <1>o, <2>1, <2>2 DEF ObjectOld, FileOld, fileVars
\* A step of r that leaves one saving.
<1>w. ASSUME NEW r \in Requests, NEW label \in {"write", "saved", "fatal"},
             Goto(r, label), pc[r] # "idle", UNCHANGED <<onLive, kind>>
      PROVE  AllShare' /\ NoneAcked' /\ ObjectOld' /\ FileOld'
  <2>1. Saving(r)'
    BY <1>w DEF Saving, Goto
  <2>2. AllShare' /\ NoneAcked'
    BY <1>h, <1>w DEF AllShare, NoneAcked, Goto, Loads
  <2> QED  BY <2>1, <2>2 DEF ObjectOld, FileOld
<1>1. ASSUME NEW r \in Requests, NEW k \in Kinds, Begin(r, k)
      PROVE  AllShare' /\ NoneAcked' /\ ObjectOld' /\ FileOld'
  <2>1. Goto(r, "have") /\ onLive' = [onLive EXCEPT ![r] = TRUE]
    BY <1>1, <1>s DEF Begin, GetConf
  <2>2. AllShare'
    BY <1>h, <2>1 DEF AllShare, Goto, Loads, ConfTypes
  <2>3. NoneAcked'
    BY <1>1, <1>h, <2>1 DEF Begin, NoneAcked, Goto
  <2> QED  BY <1>1, <1>o, <2>1, <2>2, <2>3 DEF Begin, Labels, confVars, handVars
<1>2. ASSUME NEW r \in Requests, Exists(r) \/ Open(r) \/ Read(r) \/ Rename(r)
      PROVE  FALSE
  BY <1>2, <1>h DEF Exists, Open, Read, Rename, AllShare, Loads
<1>3. ASSUME NEW r \in Requests, Authorize(r)
      PROVE  AllShare' /\ NoneAcked' /\ ObjectOld' /\ FileOld'
  <2>1. onLive[r] /\ HasConf(r)
    BY <1>3, <1>h DEF Authorize, AllShare, HasConf
  <2>2. PICK label \in {"have", "denied"} : Goto(r, label)
    BY <1>3, <2>1 DEF Authorize, GetConf
  <2>3. onLive' = [onLive EXCEPT ![r] = TRUE]
    BY <1>3, <2>1 DEF Authorize, GetConf, ConfTypes
  <2>4. AllShare'
    BY <1>h, <2>2, <2>3 DEF AllShare, Goto, Loads, ConfTypes
  <2>5. NoneAcked'
    BY <1>3, <1>h, <2>2 DEF Authorize, NoneAcked, Goto
  <2> QED  BY <1>3, <1>o, <2>2, <2>4, <2>5 DEF Authorize, Labels, Ended, handVars
<1>4. ASSUME NEW r \in Requests, Answer(r)
      PROVE  AllShare' /\ NoneAcked' /\ ObjectOld' /\ FileOld'
  <2>1. PICK label \in {"ok", "panicked"} : Goto(r, label)
    BY <1>4 DEF Answer
  <2>2. AllShare' /\ NoneAcked'
    BY <1>4, <1>h, <2>1, KindsApart
       DEF Answer, AllShare, NoneAcked, Goto, Loads, requestVars
  <2> QED  BY <1>4, <1>o, <2>1, <2>2 DEF Answer, Labels, Ended, handVars, confVars
<1>5. ASSUME NEW r \in Requests, Edit(r)
      PROVE  AllShare' /\ NoneAcked' /\ ObjectOld' /\ FileOld'
  <2>1. PICK label \in {"edited", "nulled", "panicked"} : Goto(r, label)
    BY <1>5 DEF Edit
  <2>2. AllShare' /\ NoneAcked'
    BY <1>5, <1>h, <2>1 DEF Edit, AllShare, NoneAcked, Goto, Loads, requestVars
  <2>3. ObjectOld'
    <3>1. CASE label = "edited"
      BY <2>1, <3>1 DEF ObjectOld, Goto
    <3>2. CASE label # "edited"
      <4>1. UNCHANGED live
        BY <1>5, <2>1, <3>2 DEF Edit, Goto
      <4>2. /\ \A q \in Requests : Saving(q)' = Saving(q)
            /\ \A q \in Requests : (pc'[q] = "edited") = (pc[q] = "edited")
        BY <1>5, <2>1, <3>2 DEF Edit, Saving, Goto
      <4> QED  BY <1>h, <4>1, <4>2, OldStays DEF ObjectOld
    <3> QED  BY <3>1, <3>2
  <2>4. FileOld'
    BY <1>5, <1>h, <2>1 DEF Edit, FileOld, Goto, Saving, fileVars, handVars
  <2> QED  BY <2>2, <2>3, <2>4
<1>6. ASSUME NEW r \in Requests, Refuse(r)
      PROVE  AllShare' /\ NoneAcked' /\ ObjectOld' /\ FileOld'
  <2>1. Goto(r, "refused") /\ onLive[r]
    BY <1>6, <1>h DEF Refuse, AllShare
  <2>2. AllShare' /\ NoneAcked'
    BY <1>6, <1>h, <2>1 DEF Refuse, AllShare, NoneAcked, Goto, Loads, requestVars
  <2>t. PICK T \in SUBSET touched[r] : \E g \in Given(r, T) : live' = With(live, g)
    BY <1>6, <2>1 DEF Refuse, Assign
  <2>3. PICK g \in Given(r, T) : live' = With(live, g)
    BY <2>t
  <2>4. ASSUME NEW s \in T PROVE Old(s)'
    <3>1. live'[s] \in {r, Zero}
      BY <2>3, GivenIs DEF With
    <3>2. pc'[r] = "refused" /\ s \in touched'[r]
      BY <1>6, <2>1 DEF Refuse, Goto, requestVars
    <3> QED  BY <3>1, <3>2 DEF Old, Leftover
  <2>5. ASSUME \A q \in Requests : pc'[q] # "edited" /\ ~Saving(q)'
        PROVE  \A q \in Requests : pc[q] # "edited" /\ ~Saving(q)
    BY <1>6, <2>1, <2>5 DEF Refuse, Saving, Goto
  <2>6. ASSUME NEW s \in Sections \ T, Old(s) PROVE Old(s)'
    <3>1. live'[s] = live[s]
      BY <2>3, GivenIs DEF With
    <3> QED  BY <2>6, <3>1, OldStays
  <2>o. ObjectOld'
    BY <1>h, <2>4, <2>5, <2>6 DEF ObjectOld
  <2>7. FileOld'
    BY <1>6, <1>h, <2>1 DEF Refuse, FileOld, Goto, Saving, fileVars, handVars
  <2> QED  BY <2>2, <2>7, <2>o
<1>7. ASSUME NEW r \in Requests, Truncate(r) \/ Write(r) \/ SaveFails(r)
      PROVE  AllShare' /\ NoneAcked' /\ ObjectOld' /\ FileOld'
  <2>1. PICK label \in {"write", "saved", "fatal"} : Goto(r, label)
    BY <1>7 DEF Truncate, Write, SaveFails
  <2> QED  BY <1>7, <1>w, <2>1 DEF Truncate, Write, SaveFails, requestVars
<1>8. ASSUME NEW r \in Requests, Ack(r) PROVE FALSE
  BY <1>8 DEF Ack
<1>9. CASE HandOpens
  <2>1. FileOld'
    <3> SUFFICES ASSUME \A r \in Requests : ~Saving(r)
                 PROVE  /\ name' \in Files /\ typed' # NoEdit
                        /\ typed'.file = name' /\ data'[name'] = Empty
                        /\ typed'.text \in Original
      BY <1>9 DEF FileOld, HandOpens, Saving
    <3>1. name \in Files /\ typed = NoEdit /\ data[name] \in Original
      BY <1>9, <1>h DEF FileOld, HandOpens
    <3>2. name # 0
      BY <3>1 DEF Files
    <3>3. name' = name /\ Put(name, Empty)
      BY <1>9, <3>2 DEF HandOpens, Opened
    <3>4. data'[name] = Empty
      BY <3>1, <3>3 DEF Put, FileTypes
    <3>5. Current \in Original /\ Current \in Configs
      BY <3>1, <3>2, HandsOnly DEF Current
    <3>6. PICK s \in Sections, v \in {Hand, Zero} :
             typed' = [file |-> name', text |-> [Current EXCEPT ![s] = v]]
      BY <1>9, <3>5 DEF HandOpens
    <3>7. typed'.text \in Original /\ typed'.file = name'
      BY <3>5, <3>6, HandsOnly
    <3>8. typed' # NoEdit
      BY <3>2, <3>3, <3>7 DEF NoEdit
    <3> QED  BY <3>1, <3>3, <3>4, <3>7, <3>8
  <2> QED  BY <1>9, <1>u, <2>1 DEF HandOpens, confVars, requestVars
<1>10. CASE HandWrites
  <2>1. FileOld'
    <3> SUFFICES ASSUME \A r \in Requests : ~Saving(r)
                 PROVE  name' \in Files /\ data'[name'] \in Original
      BY <1>10 DEF FileOld, HandWrites, Saving
    <3>1. /\ name \in Files /\ typed.file = name /\ data[name] = Empty
          /\ typed.text \in Original
      BY <1>10, <1>h DEF FileOld, HandWrites
    <3>2. Put(name, typed.text) /\ name' = name
      BY <1>10, <3>1 DEF HandWrites, Overlay
    <3> QED  BY <3>1, <3>2 DEF Put, FileTypes
  <2> QED  BY <1>10, <1>u, <2>1 DEF HandWrites, confVars, requestVars
<1>11. CASE UNCHANGED vars
  BY <1>11, <1>u DEF vars, confVars, requestVars
<1> QED  BY <1>1, <1>2, <1>3, <1>4, <1>5, <1>6, <1>7, <1>8, <1>9, <1>10, <1>11
         DEF Next, Request

\* A request that nothing has overlapped moves by itself.
LEMMA AloneMoves ==
  ASSUME TypeOK, AloneOK, [Next]_vars, NEW x \in alone', Active(x)'
  PROVE  /\ x \in alone /\ x \in Requests /\ Lonely(x) /\ Lonely(x)'
         /\ \/ UNCHANGED vars
            \/ \E k \in Asked \cap Kinds : Begin(x, k) /\ ~Active(x)
            \/ Active(x) /\ Request(x)
<1> USE DEF TypeOK, At, Serve, GhostTypes
<1>0. x \in alone /\ x \in Requests
  BY DEF Next, Request, HandOpens, HandWrites, Begin, Exists, Open, Read, Rename,
         Authorize, Answer, Edit, Refuse, Truncate, Write, SaveFails, Ack, vars,
         ghosts
<1>1. CASE ~Active(x)
  <2>1. ~(UNCHANGED pc)
    BY <1>1 DEF Active
  <2>2. Request(x)
    BY <1>0, <1>1, <2>1, Others DEF Next, HandOpens, HandWrites, vars
  <2>3. PICK k \in Asked \cap Kinds : Begin(x, k)
    BY <1>1, <2>2 DEF Request, Begin, Exists, Open, Read, Rename, Authorize, Answer,
           Edit, Refuse, Truncate, Write, SaveFails, Ack, Active, Ended
  <2>4. {q \in Requests : Active(q)} = {} /\ typed = NoEdit
    BY <1>0, <2>3 DEF Begin
  <2>5. typed' = NoEdit
    BY <2>3, <2>4 DEF Begin, handVars
  <2> QED  BY <1>0, <1>1, <2>2, <2>3, <2>4, <2>5, Others DEF Lonely
<1>2. CASE Active(x)
  <2>1. Lonely(x)
    BY <1>0, <1>2 DEF AloneOK
  <2>2. ~HandOpens /\ ~HandWrites
    BY <1>2, <2>1 DEF HandOpens, HandWrites, Lonely
  <2>3. ASSUME NEW r \in Requests \ {x}, Request(r) PROVE FALSE
    <3>1. ~Active(r)
      BY <2>1 DEF Lonely
    <3>2. \E k \in Asked \cap Kinds : Begin(r, k)
      BY <2>3, <3>1 DEF Request, Begin, Exists, Open, Read, Rename, Authorize, Answer,
             Edit, Refuse, Truncate, Write, SaveFails, Ack, Active, Ended
    <3>3. x \notin alone'
      BY <1>0, <1>2, <3>2 DEF Begin
    <3> QED  BY <3>3
  <2>4. CASE UNCHANGED vars
    BY <1>0, <2>1, <2>4 DEF vars, handVars, Lonely, Active
  <2>5. CASE Request(x)
    <3>1. typed' = typed
      BY <2>5 DEF Request, Begin, Exists, Open, Read, Rename, Authorize, Answer,
                  Edit, Refuse, Truncate, Write, SaveFails, Ack, handVars
    <3> QED  BY <1>0, <1>2, <2>1, <2>5, <3>1, Others DEF Lonely
  <2> QED  BY <2>2, <2>3, <2>4, <2>5 DEF Next
<1> QED  BY <1>1, <1>2

\* What is known of the configuration at the end of GetConf.
LEMMA HasTheFile ==
  ASSUME TypeOK, NEW x \in Requests, KnowsFile(x), pc[x] = "have", ~onLive[x]
  PROVE  /\ conf[x] = Nil => before[x] \in {Nil, Torn}
         /\ conf[x] # Nil => /\ before[x] \notin {Nil, Torn}
                             /\ conf[x] = Parse(before[x]) /\ conf[x] \in Configs
                             /\ Current = before[x]
<1>1. conf[x] \in Configs \cup {Nil} /\ before[x] \in Contents
  BY DEF TypeOK, ConfTypes, GhostTypes
<1>2. Parse(Nil) = Nil /\ Parse(Torn) = Torn /\ Whole(Zero) # Nil
  BY ConstantsAssumption, Texts DEF Parse
<1>3. \A c : Parse(c) = Nil => c = Nil
  BY <1>2 DEF Parse
<1>4. Torn \notin Configs \cup {Nil}
  BY ConstantsAssumption
<1> QED  BY <1>1, <1>2, <1>3, <1>4 DEF KnowsFile

\* The edited object differs from the file by what the request has set.
LEMMA EditExact ==
  ASSUME TypeOK, [Next]_vars, NEW x \in Requests, KnowsObject(x), KnowsFile(x),
         Edit(x), pc'[x] = "edited"
  PROVE  (Result(x, Object(x)))'
<1> USE DEF TypeOK, At, Serve
<1>1. PICK g \in Given(x, touched[x]) : Assign(x, g)
  BY DEF Edit, Goto, PcTypes
<1>2. /\ pc[x] = "have" /\ phase[x] = "serve"
      /\ UNCHANGED <<onLive, touched, before>>
  BY DEF Edit, requestVars, ghosts
<1>3. /\ DOMAIN g = touched[x] /\ touched[x] \subseteq Sections
      /\ \A s \in DOMAIN g : g[s] \in Values
      /\ \A s \in touched[x] : g[s] = x \/ (g[s] = Zero /\ s \in Optional)
  BY GivenIs DEF RequestTypes
<1>5. CASE onLive[x]
  <2>1. live' = With(live, g) /\ live' \in Configs /\ Object(x)' = live'
    BY <1>1, <1>2, <1>3, <1>5, Texts DEF Assign, ConfTypes, Object
  <2>2. before[x] \in Original /\ Parse(before[x]) = before[x]
    BY <1>5, HandsOnly DEF KnowsObject
  <2>3. ASSUME NEW s \in Sections
        PROVE  \/ s \in touched[x] /\ live'[s] = x
               \/ s \in touched[x] \cap Optional /\ live'[s] = Zero
               \/ s \notin touched[x] /\ live'[s] = before[x][s]
               \/ before[x][s] # Start \/ Leftover(s, live[s])'
    <3>1. CASE s \in touched[x]
      BY <1>3, <2>1, <3>1 DEF With
    <3>2. CASE s \notin touched[x]
      <4>1. live'[s] = live[s] /\ Old(s)
        BY <1>2, <1>3, <1>5, <2>1, <3>2 DEF With, KnowsObject
      <4>2. (live[s] = Start \/ Leftover(s, live[s]))'
        BY <4>1, OldStays DEF Old
      <4> QED  BY <3>2, <4>1, <4>2
    <3> QED  BY <3>1, <3>2
  <2> QED  BY <1>2, <1>5, <2>1, <2>2, <2>3, HandsOnly DEF Result
<1>6. CASE ~onLive[x]
  <2>1. kind[x] # "restart"
    BY KindsApart DEF Edit
  <2>2. before[x] \notin {Nil, Torn} /\ conf[x] # Nil
    BY <1>2, <1>6, <2>1, HasTheFile DEF KnowsFile
  <2>3. conf[x] = Parse(before[x]) /\ conf[x] \in Configs
    BY <1>2, <1>6, <2>2, HasTheFile
  <2>4. conf'[x] = With(conf[x], g) /\ Object(x)' = conf'[x]
    BY <1>1, <1>2, <1>6, <2>2 DEF Assign, ConfTypes, Object
  <2>5. conf'[x] \in Configs
    BY <1>3, <2>3, <2>4, Texts
  <2>6. \A s \in Sections :
           \/ s \in touched[x] /\ conf'[x][s] = x
           \/ s \in touched[x] \cap Optional /\ conf'[x][s] = Zero
           \/ s \notin touched[x] /\ conf'[x][s] = Parse(before[x])[s]
    BY <1>3, <2>3, <2>4 DEF With
  <2> QED  BY <1>2, <1>6, <2>3, <2>4, <2>5, <2>6 DEF Result
<1> QED  BY <1>5, <1>6

LEMMA AloneStep ==
  TypeOK /\ OrderOK /\ SharedOK /\ AloneOK /\ [Next]_vars => AloneOK'
<1> SUFFICES ASSUME TypeOK, OrderOK, SharedOK, AloneOK, [Next]_vars,
                    NEW x \in alone', Active(x)'
             PROVE  KnowsObject(x)' /\ KnowsFile(x)' /\ Saves(x)'
  BY AloneMoves DEF AloneOK
<1> USE DEF TypeOK, PcTypes, RequestTypes, GhostTypes, At, Serve, Goto, GetConf
<1>0. x \in Requests /\ x \in alone
  BY AloneMoves
<1>h. Active(x) => KnowsObject(x) /\ KnowsFile(x) /\ Saves(x)
  BY <1>0 DEF AloneOK
<1>1. CASE UNCHANGED vars
  <2>1. UNCHANGED <<name, data, live, shared, pc, phase, kind, touched, conf, onLive,
                    file, seen, before>>
    BY <1>1 DEF vars, fileVars, confVars, requestVars, ghosts
  <2>2. Active(x)
    BY <2>1 DEF Active
  <2>3. KnowsObject(x)'
    BY <1>h, <2>1, <2>2, OldStays DEF KnowsObject, Current
  <2>4. KnowsFile(x)'
    BY <1>h, <2>1, <2>2 DEF KnowsFile, Current
  <2>5. Object(x)' = Object(x) /\ Current' = Current
    BY <2>1 DEF Object, Current
  <2>6. Saves(x)'
    BY <1>h, <2>1, <2>2, <2>5 DEF Saves, Result, Leftover
  <2> QED  BY <2>3, <2>4, <2>6
<1>2. ASSUME NEW k \in Asked \cap Kinds, Begin(x, k)
      PROVE  KnowsObject(x)' /\ KnowsFile(x)' /\ Saves(x)'
  <2>1. /\ UNCHANGED <<name, data, live, shared, phase>> /\ Current' = Current
        /\ before'[x] = Current /\ onLive'[x] = shared /\ pc[x] = "idle"
        /\ conf'[x] = Nil
        /\ pc' = [pc EXCEPT ![x] = IF shared THEN "have" ELSE "exists"]
    BY <1>0, <1>2 DEF Begin, fileVars, confVars, Current, ConfTypes
  <2>3. Saves(x)'
    BY <1>0, <2>1 DEF Saves
  <2>4. CASE shared
    <3>1. \A q \in Requests : pc[q] # "edited" /\ ~Saving(q)
      <4>1. ~Active(x) /\ Lonely(x)
        BY <1>2, AloneMoves DEF Request, Begin, Active
      <4> QED  BY <4>1, <2>1 DEF Lonely, Active, Saving, Ended
    <3>2. typed = NoEdit
      BY AloneMoves DEF Lonely
    <3>3. Current \in Original
      BY <2>4, <3>1, <3>2 DEF SharedOK, FileOld, Current, Files
    <3>4. \A s \in Sections : Old(s)'
      BY <2>1, <2>4, <3>1, OldStays DEF SharedOK, ObjectOld
    <3> QED  BY <1>0, <2>1, <2>3, <2>4, <3>3, <3>4 DEF KnowsObject, KnowsFile, Loads
  <2>5. CASE ~shared
    <3>1. phase[x] = "auth"
      BY <1>0, <2>1 DEF OrderOK
    <3> QED  BY <1>0, <2>1, <2>3, <2>5, <3>1 DEF KnowsObject, KnowsFile
  <2> QED  BY <2>4, <2>5
<1>3. ASSUME Active(x), Exists(x) \/ Open(x) \/ Read(x) \/ Rename(x)
      PROVE  KnowsObject(x)' /\ KnowsFile(x)' /\ Saves(x)'
  <2>h. KnowsObject(x) /\ KnowsFile(x)
    BY <1>3, <1>h
  <2>1. pc[x] \in Loads /\ ~onLive[x]
    BY <1>3, <2>h DEF Exists, Open, Read, Rename, KnowsObject, Loads
  <2>2. UNCHANGED <<data, shared, onLive, phase, kind, before>>
    BY <1>3 DEF Exists, Open, Read, Rename, confVars, requestVars, fileVars, ghosts
  <2>3. ~shared /\ conf[x] = Nil
    BY <2>1, <2>h DEF KnowsFile
  <2>4. CASE Exists(x)
    BY <1>0, <2>h, <2>1, <2>2, <2>3, <2>4
       DEF Exists, KnowsObject, KnowsFile, Saves, Current, fileVars, Loads
  <2>5. CASE Open(x)
    BY <1>0, <2>h, <2>1, <2>2, <2>3, <2>5
       DEF Open, KnowsObject, KnowsFile, Saves, Current, fileVars, ReadTypes, Loads
  <2>6. CASE Read(x)
    <3>1. pc[x] = "read" /\ name' = name
      BY <2>6 DEF Read, fileVars
    <3>2. seen[x] = {before[x]} /\ Current = before[x]
      BY <2>h, <2>1, <3>1 DEF KnowsFile
    <3>3. Readings(seen[x]) = {before[x]}
      BY <3>2, ReadingOne
    <3>4. IF before[x] = Torn THEN Goto(x, "rename") /\ UNCHANGED conf
          ELSE Goto(x, "have") /\ conf' = [conf EXCEPT ![x] = Parse(before[x])]
      BY <2>6, <3>3 DEF Read
    <3>5. Current' = Current
      BY <2>2, <3>1 DEF Current
    <3> QED  BY <1>0, <2>h, <2>1, <2>2, <2>3, <3>1, <3>2, <3>4, <3>5
             DEF KnowsObject, KnowsFile, Saves, Loads, ConfTypes
  <2>7. CASE Rename(x)
    BY <1>0, <2>h, <2>1, <2>2, <2>3, <2>7
       DEF Rename, KnowsObject, KnowsFile, Saves, Loads
  <2> QED  BY <1>3, <2>4, <2>5, <2>6, <2>7
<1>4. ASSUME Active(x), Authorize(x)
      PROVE  KnowsObject(x)' /\ KnowsFile(x)' /\ Saves(x)'
  <2>h. KnowsObject(x) /\ KnowsFile(x) /\ pc[x] = "have"
    BY <1>4, <1>h DEF Authorize
  <2>1. pc'[x] \notin {"denied", "panicked"}
    BY DEF Active, Ended
  <2>2. /\ HasConf(x) /\ phase'[x] = "serve"
        /\ shared' = (shared /\ kind[x] # "restart") /\ GetConf(x, shared')
    BY <1>0, <1>4, <2>1 DEF Authorize
  <2>3. /\ pc' = [pc EXCEPT ![x] = IF shared' THEN "have" ELSE "exists"]
        /\ onLive'[x] = shared' /\ conf'[x] = Nil
    BY <1>0, <2>2 DEF ConfTypes
  <2>4. UNCHANGED <<name, data, live, kind, before>> /\ Current' = Current
    BY <1>4 DEF Authorize, fileVars, ghosts, Current
  <2>5. \A s \in Sections : Old(s) => Old(s)'
    BY <2>4, OldStays
  <2>6. Saves(x)'
    BY <1>0, <2>3 DEF Saves
  <2>7. CASE onLive[x]
    BY <1>0, <2>h, <2>2, <2>3, <2>4, <2>5, <2>6, <2>7
       DEF KnowsObject, KnowsFile, Loads
  <2>8. CASE ~onLive[x]
    <3>1. conf[x] # Nil
      BY <2>2, <2>8 DEF HasConf
    <3>2. before[x] \notin {Nil, Torn} /\ Current = before[x]
      BY <1>0, <2>h, <2>8, <3>1, HasTheFile
    <3>3. ~shared /\ shared' = FALSE
      BY <2>h, <2>2, <2>8 DEF KnowsFile
    <3> QED  BY <1>0, <2>3, <2>4, <2>6, <3>2, <3>3 DEF KnowsObject, KnowsFile
  <2> QED  BY <2>7, <2>8
<1>5. ASSUME Active(x), Edit(x)
      PROVE  KnowsObject(x)' /\ KnowsFile(x)' /\ Saves(x)'
  <2>h. KnowsObject(x) /\ KnowsFile(x)
    BY <1>5, <1>h
  <2>1. pc'[x] \in {"edited", "nulled"}
    BY <1>0, <1>5 DEF Edit, Active, Ended
  <2>2. /\ UNCHANGED <<shared, onLive, phase, kind, before>>
        /\ kind[x] \in Edits
    BY <1>5 DEF Edit, requestVars, ghosts
  <2>3. pc'[x] = "edited" => (Result(x, Object(x)))'
    BY <1>0, <1>5, <2>h, <2>1, EditExact
  <2> QED  BY <2>h, <2>1, <2>2, <2>3 DEF KnowsObject, KnowsFile, Saves, Loads
<1>6. ASSUME Active(x), Truncate(x) \/ Write(x) \/ SaveFails(x)
      PROVE  KnowsObject(x)' /\ KnowsFile(x)' /\ Saves(x)'
  <2>h. KnowsObject(x) /\ KnowsFile(x) /\ Saves(x)
    BY <1>6, <1>h
  <2>1. UNCHANGED <<shared, live, onLive, phase, kind, touched, before>>
    BY <1>6 DEF Truncate, Write, SaveFails, requestVars, ghosts, confVars
  <2>2. PICK label \in {"write", "saved", "fatal"} : Goto(x, label)
    BY <1>6 DEF Truncate, Write, SaveFails
  <2>3. KnowsObject(x)' /\ KnowsFile(x)'
    BY <1>0, <2>h, <2>1, <2>2 DEF KnowsObject, KnowsFile, Loads
  <2>7. CASE Truncate(x)
    <3>1. conf'[x] # Nil => Result(x, conf'[x])
      BY <1>0, <2>h, <2>7 DEF Truncate, Saves, ConfTypes
    <3>2. /\ file'[x] = name' /\ name' \in Files /\ data'[name'] = Empty
          /\ pc'[x] = "write"
      BY <1>0, <2>7, OpenedIsAFile DEF Truncate, Put, FileTypes, ReadTypes
    <3>3. kind'[x] \in Edits
      BY <2>h, <2>1, <2>7 DEF Truncate, Saves
    <3>4. conf'[x] # Nil => Result(x, conf[x])'
      BY <2>1, <3>1, RefusedStays DEF Result, Leftover
    <3> QED  BY <2>3, <3>2, <3>3, <3>4 DEF Saves
  <2>8. CASE Write(x)
    <3>1. /\ conf[x] # Nil => Result(x, conf[x])
          /\ file[x] = name /\ name \in Files
          /\ data[name] = Empty /\ kind[x] \in Edits
      BY <2>h, <2>8 DEF Write, Saves
    <3>2. /\ conf[x] # Nil => Put(name, conf[x])
          /\ name' = name /\ pc'[x] = "saved" /\ conf' = conf
      BY <1>0, <2>8, <3>1 DEF Write, Overlay, TextsOf
    <3>3. ASSUME conf[x] # Nil PROVE Current' = conf[x]
      <4>1. data' = [data EXCEPT ![name] = conf[x]]
        BY <3>2, <3>3 DEF Put
      <4>2. data'[name] = conf[x]
        BY <3>1, <4>1 DEF FileTypes
      <4>3. name' # 0
        BY <3>1, <3>2 DEF Files
      <4> QED  BY <3>2, <4>2, <4>3 DEF Current
    <3>4. conf[x] # Nil => Result(x, Current)'
      BY <2>1, <3>1, <3>3, RefusedStays DEF Result, Leftover
    <3> QED  BY <2>1, <2>3, <3>1, <3>2, <3>4 DEF Saves
  <2>9. CASE SaveFails(x)
    BY <1>0, <2>3, <2>9 DEF SaveFails, Saves
  <2> QED  BY <1>6, <2>7, <2>8, <2>9
<1>7. ASSUME Answer(x) \/ Refuse(x) \/ Ack(x) PROVE FALSE
  BY <1>0, <1>7 DEF Answer, Refuse, Ack, Active, Ended
<1> QED  BY <1>1, <1>2, <1>3, <1>4, <1>5, <1>6, <1>7, AloneMoves DEF Request

\* Why x may panic.
Explained(x) ==
    \/ before[x] \in {Nil, Torn}
    \/ /\ kind[x] \in Optional
       /\ IF onLive[x] THEN Leftover(kind[x], Zero)
          ELSE Parse(before[x])[kind[x]] = Zero

LEMMA ExplainedStays ==
  ASSUME TypeOK, [Next]_vars, NEW x \in Requests, Explained(x),
         UNCHANGED <<kind[x], before[x], onLive[x]>>
  PROVE  Explained(x)'
BY RefusedStays DEF Explained, Leftover

LEMMA PanicStep ==
  TypeOK /\ AloneOK /\ AlonePanic /\ [Next]_vars => AlonePanic'
<1> SUFFICES ASSUME TypeOK, AloneOK, AlonePanic, [Next]_vars,
                    NEW x \in alone', pc'[x] = "panicked"
             PROVE  Explained(x)'
  BY DEF AlonePanic, Explained
<1> USE DEF TypeOK, PcTypes, RequestTypes, GhostTypes, At, Serve, Goto
<1>0. x \in alone /\ x \in Requests
  BY DEF Next, Request, HandOpens, HandWrites, Begin, Exists, Open, Read, Rename,
         Authorize, Answer, Edit, Refuse, Truncate, Write, SaveFails, Ack, vars,
         ghosts
<1>1. CASE UNCHANGED <<pc[x], kind[x], before[x], onLive[x]>>
  BY <1>0, <1>1, ExplainedStays DEF AlonePanic, Explained
<1>2. CASE HandOpens \/ HandWrites \/ UNCHANGED vars
  BY <1>1, <1>2 DEF HandOpens, HandWrites, vars, requestVars, ghosts
<1>3. ASSUME NEW r \in Requests \ {x}, Request(r)
      PROVE  UNCHANGED <<pc[x], kind[x], before[x], onLive[x]>>
  BY <1>0, <1>3, Others
<1>4. ASSUME Request(x)
      PROVE  Explained(x)'
  <2>1. Authorize(x) \/ Answer(x) \/ Edit(x)
    BY <1>0, <1>4 DEF Request, Begin, GetConf, Exists, Open, Read, Rename, Refuse,
                      Truncate, Write, SaveFails, Ack
  <2>2. /\ pc[x] = "have" /\ UNCHANGED <<kind, before, onLive>>
        /\ \/ ~HasConf(x)
           \/ HasConf(x) /\ Lacks(x, kind[x])
    BY <1>0, <2>1 DEF Authorize, GetConf, Answer, Edit, Dereferences, requestVars, ghosts
  <2>3. KnowsFile(x) /\ KnowsObject(x)
    BY <1>0, <2>2 DEF AloneOK, Active, Ended
  <2>e. SUFFICES Explained(x)
    BY <1>0, <2>2, ExplainedStays
  <2>4. CASE onLive[x]
    <3>1. kind[x] \in Optional /\ live[kind[x]] = Zero
      BY <2>2, <2>4 DEF HasConf, Lacks, Object
    <3>2. Leftover(kind[x], Zero)
      BY <2>2, <2>3, <2>4, <3>1, ConstantsAssumption DEF KnowsObject, Old
    <3> QED  BY <2>4, <3>1, <3>2 DEF Explained
  <2>5. CASE ~onLive[x] /\ conf[x] = Nil
    BY <1>0, <2>2, <2>3, <2>5, HasTheFile DEF Explained
  <2>6. CASE ~onLive[x] /\ conf[x] # Nil
    <3>1. kind[x] \in Optional /\ conf[x][kind[x]] = Zero
      BY <2>2, <2>6 DEF HasConf, Lacks, Object
    <3> QED  BY <1>0, <2>2, <2>3, <2>6, <3>1, HasTheFile DEF Explained
  <2> QED  BY <2>4, <2>5, <2>6
<1> QED  BY <1>1, <1>2, <1>3, <1>4 DEF Next

LEMMA FreshStep ==
  /\ TypeOK /\ OrderOK /\ SharedOK /\ AloneOK /\ FreshAfterEdit
  /\ [Next]_vars
  => FreshAfterEdit'
<1> SUFFICES ASSUME TypeOK, OrderOK, SharedOK, AloneOK, FreshAfterEdit, [Next]_vars,
                    NEW x \in alone', pc'[x] = "ok", kind'[x] = "get",
                    before'[x] # Nil, NEW q \in after'[x], kind'[q] \in Edits
             PROVE  conf'[x] = Parse(before'[x])
  BY DEF FreshAfterEdit
<1> USE DEF TypeOK, PcTypes, RequestTypes, GhostTypes, At, Serve, Goto
<1>0. x \in alone /\ x \in Requests
  BY DEF Next, Request, HandOpens, HandWrites, Begin, Exists, Open, Read, Rename,
         Authorize, Answer, Edit, Refuse, Truncate, Write, SaveFails, Ack, vars,
         ghosts
<1>1. CASE UNCHANGED <<pc, kind, before, after, conf>>
  BY <1>0, <1>1 DEF FreshAfterEdit
<1>2. CASE HandOpens \/ HandWrites \/ UNCHANGED vars
  BY <1>1, <1>2 DEF HandOpens, HandWrites, vars, requestVars, ghosts
<1>3. ASSUME NEW r \in Requests, Request(r) PROVE conf'[x] = Parse(before'[x])
  <2>1. /\ UNCHANGED <<before[x], after[x], kind[x]>>
        /\ pc[x] # "ok" => x = r
    <3>1. CASE x = r
      BY <1>3, <3>1 DEF Request, Begin, GetConf, Exists, Open, Read, Rename,
             Authorize, Answer, Edit, Refuse, Truncate, Write, SaveFails, Ack,
             requestVars, ghosts
    <3> QED  BY <1>0, <1>3, <3>1, Others
  <2>2. q \in after[x] /\ q \in Requests /\ pc[q] = "ok"
    BY <1>0, <2>1 DEF OrderOK
  <2>3. kind[q] \in Edits
    <3>1. CASE q = r
      BY <1>3, <2>2, <3>1 DEF Request, Begin, Exists, Open, Read, Rename, Authorize,
             Answer, Edit, Refuse, Truncate, Write, SaveFails, Ack
    <3> QED  BY <1>3, <2>2, <3>1, Others
  <2>4. CASE pc[x] = "ok"
    <3>1. conf[x] = Parse(before[x])
      BY <1>0, <2>1, <2>2, <2>3, <2>4 DEF FreshAfterEdit
    <3>2. x # r
      BY <1>3, <2>4 DEF Request, Begin, Exists, Open, Read, Rename, Authorize,
             Answer, Edit, Refuse, Truncate, Write, SaveFails, Ack
    <3> QED  BY <1>0, <1>3, <2>1, <3>1, <3>2, Others
  <2>5. CASE pc[x] # "ok"
    <3>1. Request(x) /\ pc'[x] = "ok"
      BY <1>3, <2>1, <2>5
    <3>2. Answer(x) \/ Ack(x)
      BY <1>0, <3>1 DEF Request, Begin, GetConf, Exists, Open, Read, Rename,
             Authorize, Edit, Refuse, Truncate, Write, SaveFails
    <3>3. KnowsObject(x) /\ KnowsFile(x) /\ Saves(x)
      BY <1>0, <3>2 DEF Answer, Ack, AloneOK, Active, Ended
    <3>4. Answer(x)
      BY <2>1, <3>2, <3>3, KindsApart DEF Ack, Saves
    <3>5. ~onLive[x]
      BY <2>1, <2>2, <2>3, <3>3 DEF KnowsObject, SharedOK, NoneAcked
    <3>6. before[x] \notin {Nil, Torn}
      BY <2>1, <3>3, <3>4, <3>5 DEF Answer, KnowsFile
    <3>7. conf[x] = Parse(before[x])
      BY <1>0, <3>3, <3>4, <3>5, <3>6, HasTheFile DEF Answer
    <3> QED  BY <2>1, <3>4, <3>7 DEF Answer
  <2> QED  BY <2>4, <2>5
<1> QED  BY <1>2, <1>3 DEF Next

(***************************************************************************)
(* The theorems                                                            *)
(***************************************************************************)

LEMMA InitIInv == Init => IInv
<1> SUFFICES ASSUME Init PROVE IInv
  OBVIOUS
<1>1. TypeOK
  BY TypeInit
<1>2. HiddenOK
  <2>1. ASSUME NEW x \in Requests
        PROVE  Clean(Whole(Start), x) /\ Clean(Nil, x)
    BY ConstantsAssumption DEF Clean, Whole
  <2> QED  BY <2>1 DEF Init, HiddenOK, CleanLive, CleanFiles, CleanSeen, CleanConf,
                       CleanTyped
<1>3. OrderOK /\ AlonePanic /\ FreshAfterEdit /\ AloneOK
  BY DEF Init, OrderOK, AlonePanic, FreshAfterEdit, AloneOK, Active
<1>4. SharedOK
  <2>1. 1 \in Files
    BY ConstantsAssumption DEF Files
  <2>2. Whole(Start) \in Original
    BY DEF Whole, Original
  <2>3. \A s \in Sections : Whole(Start)[s] = Start
    BY DEF Whole
  <2> QED  BY <2>1, <2>2, <2>3 DEF Init, SharedOK, AllShare, NoneAcked, ObjectOld,
                                   FileOld, Old
<1> QED  BY <1>1, <1>2, <1>3, <1>4 DEF IInv

LEMMA StepIInv == IInv /\ [Next]_vars => IInv'
BY TypeStep, HiddenStep, OrderStep, SharedStep, AloneStep, PanicStep, FreshStep
   DEF IInv

\* What the requests know of each other, of the object and of the file holds at
\* all times.
THEOREM Invariance == Spec => []IInv
BY InitIInv, StepIInv, PTL DEF Spec

\* Every variable keeps its type, and whoever writes has a file open.
THEOREM TypeCorrect == Spec => []TypeOK
<1>1. IInv => TypeOK
  BY DEF IInv
<1> QED  BY <1>1, Invariance, PTL

\* A save that nothing overlapped, but of the text null, changes its own sections
\* of the file and no other, save for edits by hand and what a refused request
\* left, while JSONConfig is the object of the start.
THEOREM OnlyItsSections == Spec => []AloneExact
<1>1. IInv => AloneExact
  BY DEF IInv, AloneOK, AloneExact, Active, Ended, Saves, Result
<1> QED  BY <1>1, Invariance, PTL

\* A request that nothing overlapped panics only over a file that is gone,
\* unreadable or without the section it edits, or over an object of which a
\* refused do_config_json has touched that section.
THEOREM PanicsExplained == Spec => []AlonePanic
<1>1. IInv => AlonePanic
  BY DEF IInv
<1> QED  BY <1>1, Invariance, PTL

\* What a refused do_config_json has set in an object of its own gets nowhere,
\* whatever the other requests and the hands do.
THEOREM RefusedIsLost == Spec => []RefusedStaysOut
<1>1. IInv => RefusedStaysOut
  <2> SUFFICES ASSUME IInv, NEW r \in Requests, pc[r] = "refused", ~onLive[r]
               PROVE  /\ \A f \in Files, s \in Sections :
                            data[f] \in Configs => data[f][s] # r
                      /\ \A s \in Sections : live[s] # r
    BY DEF RefusedStaysOut
  <2>1. Clean(live, r) /\ \A f \in Files : Clean(data[f], r)
    BY DEF IInv, HiddenOK, Hidden, CleanLive, CleanFiles
  <2>2. live \in Configs
    BY DEF IInv, TypeOK, ConfTypes
  <2> QED  BY <2>1, <2>2 DEF Clean
<1> QED  BY <1>1, Invariance, PTL

\* After the first acknowledged edit, get_config_json shows what the file holds,
\* unless something overlaps it.
THEOREM GetIsFresh == Spec => []FreshAfterEdit
<1>1. IInv => FreshAfterEdit
  BY DEF IInv
<1> QED  BY <1>1, Invariance, PTL

\* A configuration that has been renamed away, with every request still before
\* its authorization, is brought back by nobody but a hand.
THEOREM OnlyAHandRestores == Spec => GoneForGood
<1>1. ASSUME TypeOK, [Next]_vars, Gone
      PROVE  \/ hands' # hands
             \/ name' = 0 /\ \A r \in Requests : pc'[r] = pc[r]
                                 \/ pc'[r] \in {"exists", "have", "panicked"}
  <2> USE DEF TypeOK, PcTypes, At, Serve, Goto
  <2>1. CASE HandOpens
    BY <2>1 DEF HandOpens, HandTypes
  <2>2. CASE HandWrites \/ UNCHANGED vars
    BY <1>1, <2>2 DEF HandWrites, Gone, vars, fileVars
  <2>3. ASSUME NEW r \in Requests, Request(r)
        PROVE  name' = 0 /\ pc'[r] \in {"exists", "have", "panicked"}
    <3>1. \/ \E k \in Asked \cap Kinds : Begin(r, k)
          \/ Exists(r)
          \/ Authorize(r) /\ ~HasConf(r)
      BY <1>1, <2>3 DEF Gone, Active, Ended, Request, Open, Read, Rename, Authorize,
             Answer, Edit, Refuse, Truncate, Write, SaveFails, Ack
    <3> QED  BY <1>1, <3>1 DEF Gone, Begin, GetConf, Exists, Authorize, fileVars
  <2> QED  BY <1>1, <2>1, <2>2, <2>3, Others DEF Next
<1>2. IInv /\ [Next]_vars =>
         (Gone => \/ hands' # hands
                  \/ name' = 0 /\ \A r \in Requests : pc'[r] = pc[r]
                                      \/ pc'[r] \in {"exists", "have", "panicked"})
  BY <1>1 DEF IInv
<1> QED  BY <1>2, Invariance, PTL DEF Spec, GoneForGood
=============================================================================
