--------------------------- MODULE StartupProofs ---------------------------
(***************************************************************************)
(* Startup for any number of starts and any keys.                          *)
(***************************************************************************)
EXTENDS Startup, TLAPS

Labels == {"off", "getConfig", "open", "write", "removeJSON", "default", "import",
           "removeCQ", "args", "device", "encrypt", "decrypt", "askKey", "upgrade",
           "hash", "login", "serving", "update", "removeOld", "retire", "install",
           "clean"}

\* Where a save leads to
Afterwards == {"off", "removeJSON", "default", "removeCQ", "decrypt", "hash"}

\* The types of what the proofs are about.
TypeOK ==
    /\ hjson \in Confs \cup {Absent, Torn}
    /\ json \in {Absent, Torn, Plain(FALSE)}
    /\ env \in BOOLEAN /\ mishap \in BOOLEAN /\ bungled \in BOOLEAN
    /\ pc \in Labels
    /\ args \in [update : BOOLEAN, key : Keys, fast : BOOLEAN]
    /\ conf \in Confs /\ byteKey \in Keys /\ userKey \in Keys
    /\ saving \in [text : Confs, then : Afterwards]
    /\ pc \in {"open", "write"} => saving.then # "off"

LEMMA ConfTypes ==
    /\ Blank \in Confs /\ \A b \in BOOLEAN : Plain(b) \in Confs
    /\ \A sch \in {"tea", "aes"}, of \in {"P", "H", "junk"}, key \in Keys :
          Encrypted(sch, of, key) \in Confs
BY DEF Blank, Plain, Encrypted, Config, NoEnc, Confs, Keys

LEMMA InitTypes == Init => TypeOK
<1> SUFFICES ASSUME Init PROVE TypeOK
  OBVIOUS
<1>1. Key \in Keys /\ NoKey \in Keys
  BY DEF Keys
<1>2. hjson \in Confs \cup {Absent, Torn}
  BY <1>1, ConfTypes DEF Init
<1>3. saving \in [text : Confs, then : Afterwards]
  BY ConfTypes DEF Init, NoSave, Afterwards
<1> QED  BY <1>1, <1>2, <1>3, ConfTypes DEF Init, TypeOK, Labels

LEMMA EndsTypes ==
    ASSUME TypeOK, Ends
    PROVE  /\ pc' = "off" /\ conf' = Blank /\ conf' \in Confs
           /\ args' \in [update : BOOLEAN, key : Keys, fast : BOOLEAN]
           /\ byteKey' \in Keys /\ saving' \in [text : Confs, then : Afterwards]
BY ConfTypes DEF Ends, Goto, NoSave, Afterwards, Keys

LEMMA SaveTypes ==
    ASSUME NEW text \in Confs, NEW label \in Afterwards, Save(text, label), label # "off"
    PROVE  /\ pc' = "open" /\ saving' \in [text : Confs, then : Afterwards]
           /\ saving'.text = text /\ saving'.then = label
BY DEF Save, Goto

LEMMA StartTypes == ASSUME TypeOK, Start \/ StartsChild \/ Killed PROVE TypeOK'
<1>1. CASE Start
  <2>1. args' \in [update : BOOLEAN, key : Keys, fast : BOOLEAN]
    BY <1>1 DEF Start, Keys
  <2>2. byteKey' \in Keys
    BY <1>1, <2>1 DEF Start
  <2>3. pc' = "getConfig" /\ UNCHANGED <<hjson, json, env, mishap, bungled, conf, userKey, saving>>
    BY <1>1 DEF Start, Goto, Runs, confFiles, ghosts
  <2> QED  BY <2>1, <2>2, <2>3 DEF TypeOK, Labels
<1>2. CASE StartsChild
  <2>1. args' \in [update : BOOLEAN, key : Keys, fast : BOOLEAN] /\ byteKey' \in Keys
    BY <1>2 DEF StartsChild, TypeOK
  <2>2. pc' = "getConfig" /\ conf' = Blank
        /\ UNCHANGED <<hjson, json, env, mishap, bungled, userKey, saving>>
    BY <1>2 DEF StartsChild, Goto, confFiles, ghosts
  <2> QED  BY <2>1, <2>2, ConfTypes DEF TypeOK, Labels
<1>3. CASE Killed
  <2>1. Ends /\ mishap' \in BOOLEAN /\ UNCHANGED <<hjson, json, env, bungled, userKey>>
    BY <1>3 DEF Killed, confFiles, outside
  <2> QED  BY <2>1, EndsTypes DEF TypeOK, Labels
<1> QED  BY <1>1, <1>2, <1>3

\* The callers of Save go on, or end, after an error.
LEMMA OutcomeTypes ==
    ASSUME TypeOK, Outcome, mishap' \in BOOLEAN, hjson' \in Confs \cup {Absent, Torn},
           UNCHANGED <<json, env, bungled, userKey>>
    PROVE  TypeOK'
<1>1. CASE Ends
  BY <1>1, EndsTypes DEF TypeOK, Labels
<1>2. CASE Goto(saving.then) /\ UNCHANGED process
  <2>1. pc' \in Afterwards
    BY <1>2 DEF Goto, TypeOK
  <2>2. pc' \in Labels /\ pc' \notin {"open", "write"}
    BY <2>1 DEF Labels, Afterwards
  <2>3. UNCHANGED <<args, conf, byteKey, saving, json, env, bungled, userKey>>
    BY <1>2 DEF process
  <2> QED  BY <2>2, <2>3 DEF TypeOK
<1> QED  BY <1>1, <1>2 DEF Outcome

LEMMA SavingTypes == ASSUME TypeOK, Truncate \/ Write PROVE TypeOK'
<1>1. UNCHANGED <<json, env, bungled, userKey>>
  BY DEF Truncate, Write, outside
<1>2. CASE Truncate
  <2>1. CASE Outcome
    <3>1. mishap' \in BOOLEAN /\ hjson' \in Confs \cup {Absent, Torn}
      BY <1>2, ConfTypes DEF Truncate, TypeOK
    <3> QED  BY <1>1, <2>1, <3>1, OutcomeTypes
  <2>2. CASE ~Outcome
    <3>1. hjson' = Blank /\ pc' = "write" /\ pc = "open" /\ UNCHANGED <<process, mishap>>
      BY <1>2, <2>2 DEF Truncate, Goto
    <3> QED  BY <1>1, <3>1, ConfTypes DEF TypeOK, Labels, process
  <2> QED  BY <2>1, <2>2
<1>3. CASE Write
  <2>1. CASE Outcome
    <3>1. mishap' \in BOOLEAN /\ hjson' \in Confs \cup {Absent, Torn}
      BY <1>3 DEF Write, TypeOK
    <3> QED  BY <1>1, <2>1, <3>1, OutcomeTypes
  <2>2. CASE ~Outcome
    <3>1. hjson' = saving.text /\ pc' = saving.then /\ UNCHANGED <<process, mishap>>
      BY <1>3, <2>2 DEF Write, Goto
    <3>2. pc' \in Afterwards /\ hjson' \in Confs
      BY <3>1 DEF TypeOK
    <3> QED  BY <1>1, <3>1, <3>2 DEF TypeOK, Labels, Afterwards, process
  <2> QED  BY <2>1, <2>2
<1> QED  BY <1>2, <1>3

LEMMA LoadTypes ==
    ASSUME TypeOK, TakesJSON \/ BacksUpJSON \/ GetConfig \/ RemoveJSON \/ Default
    PROVE  TypeOK'
<1>1. CASE TakesJSON
  <2>1. json \in Confs /\ Save(json, "removeJSON") /\ conf' = json
    BY <1>1, ConfTypes DEF TakesJSON, TypeOK
  <2>2. pc' = "open" /\ saving' \in [text : Confs, then : Afterwards]
        /\ saving'.then # "off"
    BY <2>1, SaveTypes DEF Afterwards
  <2> QED  BY <1>1, <2>1, <2>2
           DEF TakesJSON, TypeOK, Labels, confFiles, Rest, outside
<1>2. CASE BacksUpJSON
  <2>1. pc' = "open" /\ saving' \in [text : Confs, then : Afterwards]
        /\ saving'.then # "off"
    BY <1>2, ConfTypes, SaveTypes DEF BacksUpJSON, Afterwards
  <2> QED  BY <1>2, <2>1 DEF BacksUpJSON, TypeOK, Labels, Rest, outside
<1>3. CASE GetConfig
  <2>1. conf' \in Confs /\ hjson' \in Confs \cup {Absent, Torn}
        /\ pc' \in {"default", "import"}
    BY <1>3, ConfTypes DEF GetConfig, TypeOK, Goto
  <2> QED  BY <1>3, <2>1 DEF GetConfig, TypeOK, Labels, Rest, outside
<1>4. CASE RemoveJSON
  BY <1>4 DEF RemoveJSON, TypeOK, Labels, Goto, process, outside, ghosts
<1>5. CASE Default
  <2>1. hjson' \in Confs \cup {Absent, Torn}
    BY <1>5, ConfTypes DEF Default, TypeOK
  <2> QED  BY <1>5, <2>1, EndsTypes DEF Default, TypeOK, Labels, outside, ghosts
<1> QED  BY <1>1, <1>2, <1>3, <1>4, <1>5

LEMMA ImportTypes ==
    ASSUME TypeOK, Import \/ RemoveCQ \/ Args \/ Device
    PROVE  TypeOK'
<1> USE DEF confFiles, outside, ghosts
<1>1. CASE Import
  <2>1. CASE cqhttp = "none"
    BY <1>1, <2>1 DEF Import, TypeOK, Labels, Goto, process
  <2>2. CASE cqhttp = "bad"
    BY <1>1, <2>2, EndsTypes DEF Import, TypeOK, Labels
  <2>3. CASE cqhttp = "good"
    <3>1. pc' = "open" /\ saving' \in [text : Confs, then : Afterwards]
          /\ saving'.then # "off"
      BY <1>1, <2>3, ConfTypes, SaveTypes DEF Import, Afterwards
    <3> QED  BY <1>1, <2>3, <3>1 DEF Import, TypeOK, Labels
  <2> QED  BY <1>1, <2>1, <2>2, <2>3 DEF Import
<1>2. CASE RemoveCQ
  BY <1>2 DEF RemoveCQ, TypeOK, Labels, Goto, process
<1>3. CASE Args
  <2>1. CASE Ends
    BY <1>3, <2>1, EndsTypes DEF Args, TypeOK, Labels
  <2>2. CASE ~Ends
    BY <1>3, <2>2 DEF Args, TypeOK, Labels, Goto, process
  <2> QED  BY <2>1, <2>2
<1>4. CASE Device
  <2>1. CASE Ends
    BY <1>4, <2>1, EndsTypes DEF Device, TypeOK, Labels
  <2>2. CASE ~Ends
    BY <1>4, <2>2 DEF Device, TypeOK, Labels, Goto, process
  <2> QED  BY <2>1, <2>2
<1> QED  BY <1>1, <1>2, <1>3, <1>4

LEMMA KeyTypes ==
    ASSUME TypeOK,
           Encrypt \/ Decrypt \/ AskKey \/ Upgrade \/ DecryptHash \/ WebServerRun
    PROVE  TypeOK'
<1> USE DEF confFiles, outside, ghosts, Goto
<1>1. CASE Encrypt
  <2>1. CASE conf.encrypt /\ conf.enc = NoEnc
    <3>1. byteKey' \in Keys /\ Hashed(conf.plain) \in {"H", "junk"}
      BY <1>1, <2>1 DEF Encrypt, Typed, Keys, Hashed
    <3>2. conf' \in Confs
      BY <1>1, <2>1, <3>1, ConfTypes DEF Encrypt
    <3>3. pc' = "open" /\ saving' \in [text : Confs, then : Afterwards]
          /\ saving'.then # "off"
      BY <1>1, <2>1, <3>2, SaveTypes DEF Encrypt, Afterwards
    <3> QED  BY <1>1, <2>1, <3>1, <3>2, <3>3 DEF Encrypt, TypeOK, Labels
  <2>2. CASE ~(conf.encrypt /\ conf.enc = NoEnc)
    BY <1>1, <2>2 DEF Encrypt, TypeOK, Labels
  <2> QED  BY <2>1, <2>2
<1>2. CASE Decrypt
  <2>1. pc' \in {"login", "askKey", "upgrade"}
    BY <1>2 DEF Decrypt
  <2> QED  BY <1>2, <2>1 DEF Decrypt, TypeOK, Labels
<1>3. CASE AskKey
  BY <1>3 DEF AskKey, Typed, Keys, TypeOK, Labels
<1>4. CASE Upgrade
  <2>1. CASE Ends
    BY <1>4, <2>1, EndsTypes DEF Upgrade, TypeOK, Labels
  <2>2. CASE conf.enc.scheme # "tea"
    BY <1>4, <2>2 DEF Upgrade, TypeOK, Labels, process
  <2>3. CASE conf.enc.scheme = "tea" /\ ~Ends
    <3>1. Upgraded(Opens(conf.enc)) \in {"H", "junk"}
      BY DEF Upgraded, Hashed
    <3>2. conf' \in Confs /\ Save(conf', "hash") /\ mishap' \in BOOLEAN
      BY <1>4, <2>3, <3>1, ConfTypes DEF Upgrade, TypeOK
    <3>3. pc' = "open" /\ saving' \in [text : Confs, then : Afterwards]
          /\ saving'.then # "off"
      BY <3>2, SaveTypes DEF Afterwards
    <3> QED  BY <1>4, <2>3, <3>2, <3>3 DEF Upgrade, TypeOK, Labels
  <2> QED  BY <2>1, <2>2, <2>3
<1>5. CASE DecryptHash
  BY <1>5 DEF DecryptHash, TypeOK, Labels
<1>6. CASE WebServerRun
  <2>1. hjson' \in Confs \cup {Absent, Torn}
    BY <1>6 DEF WebServerRun, TypeOK
  <2>2. CASE Ends
    BY <1>6, <2>1, <2>2, EndsTypes DEF WebServerRun, TypeOK, Labels
  <2>3. CASE ~Ends
    BY <1>6, <2>1, <2>3 DEF WebServerRun, TypeOK, Labels, process
  <2> QED  BY <2>2, <2>3
<1> QED  BY <1>1, <1>2, <1>3, <1>4, <1>5, <1>6

LEMMA UpdateTypes ==
    ASSUME TypeOK, SelfUpdate \/ RemoveOld \/ Retire \/ Install \/ Clean
    PROVE  TypeOK'
<1>1. UNCHANGED <<hjson, json, env, mishap, userKey>> /\ bungled' \in BOOLEAN
  BY DEF TypeOK, SelfUpdate, RemoveOld, Retire, Install, Clean, Others, confFiles, outside
<1>2. CASE Ends
  BY <1>1, <1>2, EndsTypes DEF TypeOK, Labels
<1>3. CASE ~Ends
  <2>1. pc' \in {"device", "removeOld", "retire", "install", "clean"}
        /\ UNCHANGED process
    BY <1>3 DEF SelfUpdate, RemoveOld, Retire, Install, Clean, Goto
  <2> QED  BY <1>1, <2>1 DEF TypeOK, Labels, process
<1> QED  BY <1>2, <1>3

LEMMA NextTypes == TypeOK /\ [Next]_vars => TypeOK'
<1>1. TypeOK /\ UNCHANGED vars => TypeOK'
  BY DEF TypeOK, vars, confFiles, process, outside, ghosts
<1> QED  BY <1>1, StartTypes, SavingTypes, LoadTypes, ImportTypes, KeyTypes,
            UpdateTypes DEF Next, Step

LEMMA Types == Spec => []TypeOK
BY InitTypes, NextTypes, PTL DEF Spec

----------------------------------------------------------------------------
(* The executable                                                          *)

\* Where the executable is while an update replaces it; elsewhere it is in place.
ExecutableSafe ==
    /\ pc = "install" => old \in {"v1", "v2"}
    /\ pc = "clean" => exe = "v2" \/ bungled
    /\ pc \notin {"off", "install", "clean"} => exe \in {"v1", "v2"}
    /\ pc \in {"removeOld", "retire", "install"} => new = "v2" \/ bungled
    /\ ExecutableKept

LEMMA UpdateIsSafe ==
    ASSUME TypeOK, ExecutableSafe,
           SelfUpdate \/ RemoveOld \/ Retire \/ Install \/ Clean
    PROVE  ExecutableSafe'
<1> USE DEF ExecutableSafe, ExecutableKept
<1>1. CASE SelfUpdate
  BY <1>1 DEF SelfUpdate, Ends, Goto
<1>2. CASE RemoveOld
  BY <1>2 DEF RemoveOld, Goto
<1>3. CASE Retire
  BY <1>3 DEF Retire, Ends, Goto
<1>4. CASE Install
  BY <1>4 DEF Install, Ends, Goto, exeFiles
<1>5. CASE Clean
  BY <1>5 DEF Clean, Ends, Goto
<1> QED  BY <1>1, <1>2, <1>3, <1>4, <1>5

\* No other step touches the files, or leads into the middle of an update.
LEMMA OthersAreSafe ==
    ASSUME TypeOK, ExecutableSafe, Next,
           ~(SelfUpdate \/ RemoveOld \/ Retire \/ Install \/ Clean)
    PROVE  ExecutableSafe'
<1> SUFFICES /\ UNCHANGED <<exe, old, new, bungled>>
             /\ pc' \notin {"removeOld", "retire", "install", "clean"}
             /\ pc = "off" /\ pc' # "off" => exe \in {"v1", "v2"}
             /\ pc \in {"install", "clean"} => pc' = "off"
  BY DEF ExecutableSafe, ExecutableKept
<1> USE DEF exeFiles, Goto, ghosts
<1>1. CASE Start \/ StartsChild \/ Killed
  BY <1>1 DEF Start, StartsChild, Killed, Ends, Runs
<1>2. CASE Truncate \/ Write
  BY <1>2 DEF Truncate, Write, Outcome, Ends, TypeOK, Afterwards
<1>3. CASE TakesJSON \/ BacksUpJSON \/ GetConfig \/ RemoveJSON \/ Default
  BY <1>3 DEF TakesJSON, BacksUpJSON, GetConfig, RemoveJSON, Default, Ends, Save, Rest
<1>4. CASE Import \/ RemoveCQ \/ Args \/ Device
  BY <1>4 DEF Import, RemoveCQ, Args, Device, Ends, Save
<1>5. CASE Encrypt \/ Decrypt \/ AskKey \/ Upgrade \/ DecryptHash \/ WebServerRun
  BY <1>5 DEF Encrypt, Decrypt, AskKey, Upgrade, DecryptHash, WebServerRun, Ends, Save
<1> QED  BY <1>1, <1>2, <1>3, <1>4, <1>5 DEF Next, Step

\* An update never leaves the user without an executable that was whole, unless
\* its download or its copy failed: however often it is tried and killed.
THEOREM ExecutableNeverLost == Spec => []ExecutableKept
<1>1. Init => ExecutableSafe
  BY DEF Init, ExecutableSafe, ExecutableKept
<1>2. TypeOK /\ ExecutableSafe /\ [Next]_vars => ExecutableSafe'
  <2>1. ExecutableSafe /\ UNCHANGED vars => ExecutableSafe'
    BY DEF ExecutableSafe, ExecutableKept, vars, exeFiles, ghosts
  <2> QED  BY <2>1, UpdateIsSafe, OthersAreSafe
<1>3. ExecutableSafe => ExecutableKept
  BY DEF ExecutableSafe
<1> QED  BY <1>1, <1>2, <1>3, Types, PTL DEF Spec

----------------------------------------------------------------------------
(* The credential                                                          *)

\* What a configuration holds, unless there was a mishap: what is encrypted can
\* be opened with the key of the user, and is the password or its hash.
Sound(c) ==
    /\ \/ c.enc = NoEnc
       \/ c.enc.key = userKey /\ c.enc.scheme = "tea" /\ c.enc.of = "P"
       \/ c.enc.key = userKey /\ c.enc.scheme = "aes" /\ c.enc.of = "H"
    /\ c.encrypt /\ c.enc = NoEnc => c.plain = "P"

\* A save on its way to label
SavesFor(label) == pc \in {"open", "write"} /\ saving.then = label

\* What is not yet encrypted is still the same in config.hjson, and config.json
\* is there until config.hjson has been written.
Sources ==
    /\ Sound(conf) /\ Sound(saving.text) /\ (hjson \in Confs => Sound(hjson))
    /\ pc \in {"import", "args", "device", "encrypt", "update"}
          /\ conf.encrypt /\ conf.enc = NoEnc => hjson = conf
    /\ SavesFor("removeJSON") =>
          json = Plain(FALSE) /\ conf = Plain(FALSE) /\ saving.text = Plain(FALSE)
    /\ pc = "removeJSON" => conf = Plain(FALSE)
    /\ ~SavesFor("default") /\ ~SavesFor("removeCQ") /\ pc # "removeCQ"

\* Where the credential is.
Somewhere ==
    /\ pc # "write" => Recoverable(hjson) \/ json = Plain(FALSE)
    /\ pc \in {"open", "write"} => Recoverable(saving.text)
    /\ pc = "removeJSON" => Recoverable(hjson)
    /\ pc # "default"

\* What is known of conf on the way to the login.
Known ==
    /\ pc \in {"device", "encrypt", "decrypt"} \/ SavesFor("decrypt") => HasCredential(conf)
    /\ pc \in {"askKey", "upgrade"} => conf.enc # NoEnc
    /\ pc = "hash" \/ SavesFor("hash") => conf.enc.scheme = "aes"
    /\ pc \in {"login", "serving"} /\ (conf.enc # NoEnc => byteKey = userKey) => hash = "H"

IInv == ~mishap => Sources /\ Known /\ (~env => Somewhere)

\* The fields of the configurations
LEMMA Fields ==
    /\ Blank.enc = NoEnc /\ Blank.plain = "none" /\ Blank.encrypt = FALSE
    /\ \A b \in BOOLEAN :
          Plain(b).enc = NoEnc /\ Plain(b).plain = "P" /\ Plain(b).encrypt = b
    /\ \A sch \in {"tea", "aes"}, of \in {"P", "H", "junk"}, key \in Keys :
          LET c == Encrypted(sch, of, key)
          IN /\ c.enc # NoEnc /\ c.plain = "none" /\ c.encrypt = TRUE
             /\ c.enc.scheme = sch /\ c.enc.of = of /\ c.enc.key = key
    /\ NoEnc.of = "none" /\ NoEnc.scheme = "none"
BY DEF Blank, Plain, Encrypted, Config, NoEnc

LEMMA PlainIsRecoverable == \A b \in BOOLEAN : Recoverable(Plain(b)) /\ HasCredential(Plain(b))
BY Fields, ConfTypes, ContentsAssumption DEF Recoverable, HasCredential

LEMMA InitIInv == Init => IInv
<1> SUFFICES ASSUME Init PROVE IInv
  OBVIOUS
<1>1. Sound(Blank) /\ \A b \in BOOLEAN : Sound(Plain(b))
  BY Fields DEF Sound
<1>2. Sound(Encrypted("tea", "P", Key)) /\ Recoverable(Encrypted("tea", "P", Key))
  <2>1. Key \in Keys /\ userKey = Key
    BY DEF Init, Keys
  <2>2. Encrypted("tea", "P", Key) \notin {Absent, Torn}
    BY <2>1, ConfTypes, ContentsAssumption
  <2> HIDE DEF Encrypted
  <2> QED  BY <2>1, <2>2, Fields DEF Sound, Recoverable, HasCredential
<1>3. hjson \in Confs => Sound(hjson)
  BY <1>1, <1>2, ContentsAssumption DEF Init
<1>4. HasCredential(hjson) => Recoverable(hjson)
  BY <1>2, PlainIsRecoverable DEF Init, HasCredential
<1>5. HasCredential(json) => json = Plain(FALSE)
  BY DEF Init, HasCredential
<1>6. conf = Blank /\ saving.text = Blank /\ saving.then = "off" /\ pc = "off"
  BY DEF Init, NoSave
<1>7. Sources
  BY <1>1, <1>3, <1>6, Fields DEF Sources, SavesFor
<1>8. ~env => Somewhere
  BY <1>4, <1>5, <1>6 DEF Init, Somewhere
<1>9. Known
  BY <1>6 DEF Known, SavesFor
<1> QED  BY <1>7, <1>8, <1>9 DEF IInv

\* What it takes to keep the invariant in a step without a mishap.
LEMMA NoMishap ==
    ASSUME IInv, Next, ~mishap' => Sources' /\ Known' /\ (~env' => Somewhere')
    PROVE  IInv'
BY DEF IInv

\* A step that only moves on within main keeps where the credential is.
LEMMA StaysSomewhere ==
    ASSUME Somewhere, UNCHANGED <<hjson, json, userKey>>,
           pc # "write", pc' \notin {"open", "write", "removeJSON", "default"}
    PROVE  Somewhere'
BY DEF Somewhere, Recoverable

LEMMA SourcesKept ==
    ASSUME Sources, UNCHANGED <<hjson, conf, saving, userKey>>,
           pc' \notin {"open", "write", "removeJSON", "removeCQ"},
           pc' \in {"import", "args", "device", "encrypt", "update"} =>
              \/ pc \in {"import", "args", "device", "encrypt", "update"}
              \/ ~conf.encrypt
    PROVE  Sources'
BY DEF Sources, SavesFor, Sound

LEMMA EndsKeepsCredential ==
    ASSUME TypeOK, IInv, ~mishap, Ends, pc # "write", UNCHANGED <<hjson, json, env, userKey>>
    PROVE  Sources' /\ Known' /\ (~env' => Somewhere')
<1>1. pc' = "off" /\ conf' = Blank /\ saving'.text = Blank /\ saving'.then = "off"
  BY DEF Ends, Goto, NoSave
<1>2. Sound(Blank)'
  BY Fields DEF Sound, Blank, Config, NoEnc
<1>3. Sources'
  BY <1>1, <1>2, Fields DEF Sources, SavesFor, Sound, IInv
<1>4. Known'
  BY <1>1 DEF Known, SavesFor
<1> QED  BY <1>1, <1>3, <1>4, StaysSomewhere DEF IInv

LEMMA StartsKeepCredential ==
    ASSUME TypeOK, IInv, ~mishap', Start \/ StartsChild \/ Killed
    PROVE  Sources' /\ Known' /\ (~env' => Somewhere')
<1>1. ~mishap /\ UNCHANGED <<hjson, json, env, userKey>>
  <2>1. ~mishap
    BY DEF Start, StartsChild, Killed, Runs, ghosts, TypeOK
  <2>2. UNCHANGED <<hjson, json, env, userKey>>
    BY DEF Start, StartsChild, Killed, Runs, confFiles, outside
  <2> QED  BY <2>1, <2>2
<1>2. CASE Start
  <2>1. pc = "off" /\ pc' = "getConfig" /\ UNCHANGED <<conf, saving, hash>>
    BY <1>2 DEF Start, Goto, Runs
  <2> QED  BY <1>1, <2>1, StaysSomewhere DEF IInv, Sources, Known, SavesFor, Sound
<1>3. CASE StartsChild
  <2>1. pc = "serving" /\ pc' = "getConfig" /\ conf' = Blank /\ UNCHANGED saving
    BY <1>3 DEF StartsChild, Goto
  <2> QED  BY <1>1, <2>1, Fields, StaysSomewhere DEF IInv, Sources, Known, SavesFor, Sound
<1>4. CASE Killed
  <2>1. Ends
    BY <1>4 DEF Killed
  <2>2. CASE pc # "write"
    BY <1>1, <2>1, <2>2, EndsKeepsCredential
  <2>3. CASE pc = "write"
    <3>1. saving.then = "removeJSON"
      BY <1>4, <2>3 DEF Killed
    <3>2. json = Plain(FALSE)
      BY <1>1, <2>3, <3>1 DEF IInv, Sources, SavesFor
    <3>3. pc' = "off" /\ conf' = Blank /\ saving'.text = Blank /\ saving'.then = "off"
      BY <2>1 DEF Ends, Goto, NoSave
    <3>4. Sources'
      BY <1>1, <3>3, Fields DEF IInv, Sources, SavesFor, Sound
    <3> QED  BY <1>1, <3>2, <3>3, <3>4 DEF Known, Somewhere, SavesFor
  <2> QED  BY <2>2, <2>3
<1> QED  BY <1>2, <1>3, <1>4

LEMMA SavesKeepCredential ==
    ASSUME TypeOK, IInv, ~mishap', Truncate \/ Write
    PROVE  Sources' /\ Known' /\ (~env' => Somewhere')
<1>1. ~mishap /\ UNCHANGED <<json, env, userKey>>
  <2>1. ~mishap
    BY DEF Truncate, Write, TypeOK
  <2>2. UNCHANGED <<json, env, userKey>>
    BY DEF Truncate, Write, outside
  <2> QED  BY <2>1, <2>2
<1>2. saving.then \in {"removeJSON", "decrypt", "hash"}
  BY <1>1 DEF Truncate, Write, IInv, Sources, SavesFor, TypeOK, Afterwards
<1>3. CASE Truncate
  <2>1. pc = "open"
    BY <1>3 DEF Truncate
  <2>2. CASE hjson' = Blank /\ pc' = "write" /\ UNCHANGED process
    <3>1. UNCHANGED <<conf, saving, byteKey, hash>>
      BY <2>2 DEF process
    <3> QED  BY <1>1, <2>1, <2>2, <3>1, Fields
             DEF IInv, Sources, Known, Somewhere, SavesFor, Sound, Recoverable
  <2>3. CASE UNCHANGED hjson /\ Outcome /\ saving.then # "removeJSON"
    <3>1. pc' = saving.then /\ UNCHANGED <<conf, saving, byteKey, hash>>
      BY <1>2, <2>3 DEF Outcome, Goto, process
    <3>2. saving.then \in {"decrypt", "hash"}
      BY <1>2, <2>3
    <3>3. Sources'
      BY <1>1, <2>1, <2>3, <3>1, <3>2 DEF IInv, Sources, SavesFor, Sound
    <3>4. Known'
      BY <1>1, <2>1, <2>3, <3>1, <3>2 DEF IInv, Known, SavesFor
    <3> QED  BY <1>1, <2>1, <2>3, <3>1, <3>2, <3>3, <3>4, StaysSomewhere DEF IInv
  <2> QED  BY <1>3, <2>2, <2>3 DEF Truncate, Goto
<1>4. CASE Write
  <2>1. pc = "write" /\ hjson' = saving.text /\ pc' = saving.then
        /\ UNCHANGED <<conf, saving, byteKey, hash>>
    BY <1>4 DEF Write, Goto, process
  <2>2. Sources'
    BY <1>1, <1>2, <2>1 DEF IInv, Sources, SavesFor, Sound
  <2>3. Known'
    BY <1>1, <1>2, <2>1 DEF IInv, Known, SavesFor
  <2>4. ~env' => Somewhere'
    BY <1>1, <1>2, <2>1 DEF IInv, Somewhere, Recoverable
  <2> QED  BY <2>2, <2>3, <2>4
<1> QED  BY <1>3, <1>4

LEMMA LoadsKeepCredential ==
    ASSUME TypeOK, IInv, ~mishap',
           TakesJSON \/ BacksUpJSON \/ GetConfig \/ RemoveJSON \/ Default
    PROVE  Sources' /\ Known' /\ (~env' => Somewhere')
<1>1. ~mishap /\ ~BacksUpJSON
  <2>1. ~BacksUpJSON
    BY DEF BacksUpJSON
  <2>2. CASE TakesJSON \/ GetConfig
    BY <2>1, <2>2 DEF TakesJSON, GetConfig, TypeOK
  <2>3. CASE RemoveJSON \/ Default
    BY <2>1, <2>3 DEF RemoveJSON, Default, ghosts, TypeOK
  <2> QED  BY <2>1, <2>2, <2>3
<1>2. UNCHANGED <<env, userKey>>
  BY DEF TakesJSON, BacksUpJSON, GetConfig, RemoveJSON, Default, Rest, outside
<1>3. CASE TakesJSON
  <2>1. json = Plain(FALSE) /\ UNCHANGED <<hjson, json>> /\ conf' = Plain(FALSE)
    BY <1>3 DEF TakesJSON, TypeOK, confFiles
  <2>2. pc' = "open" /\ saving'.text = Plain(FALSE) /\ saving'.then = "removeJSON"
    BY <1>3, <2>1 DEF TakesJSON, Save, Goto
  <2>3. Sources'
    <3>1. Sound(Plain(FALSE))'
      BY Fields DEF Sound
    <3>2. hjson' \in Confs => Sound(hjson)'
      BY <1>1, <1>2, <2>1 DEF IInv, Sources, Sound
    <3> QED  BY <2>1, <2>2, <3>1, <3>2 DEF Sources, SavesFor, Sound
  <2>4. Recoverable(Plain(FALSE))'
    BY Fields, PlainIsRecoverable DEF Recoverable, HasCredential
  <2>5. Somewhere'
    BY <2>1, <2>2, <2>4 DEF Somewhere
  <2> QED  BY <2>2, <2>3, <2>5 DEF Known, SavesFor
<1>4. CASE GetConfig
  <2>1. pc = "getConfig" /\ UNCHANGED <<json, saving, hash, byteKey>>
    BY <1>4 DEF GetConfig, Rest
  <2>2. CASE env
    <3>1. pc' = "import" /\ conf' = Plain(FALSE) /\ UNCHANGED hjson
      BY <1>4, <2>2 DEF GetConfig, Goto
    <3>2. Sources'
      BY <1>1, <1>2, <2>1, <3>1, Fields DEF IInv, Sources, SavesFor, Sound
    <3> QED  BY <1>2, <2>2, <3>1, <3>2 DEF Known, SavesFor
  <2>3. CASE ~env
    <3>1. json = Absent /\ Recoverable(hjson)
      <4>1. json = Absent /\ Absent # Plain(FALSE)
        BY <1>4, ConfTypes, ContentsAssumption DEF GetConfig
      <4> QED  BY <1>1, <2>1, <2>3, <4>1 DEF IInv, Somewhere
    <3>2. hjson \notin {Absent, Torn}
      BY <3>1 DEF Recoverable, HasCredential
    <3>3. pc' = "import" /\ conf' = hjson /\ UNCHANGED hjson
      BY <1>4, <2>3, <3>2 DEF GetConfig, Goto
    <3>4. Sound(hjson)
      BY <1>1, <3>2 DEF IInv, Sources, TypeOK
    <3>5. Sources'
      BY <1>1, <1>2, <2>1, <3>3, <3>4 DEF IInv, Sources, SavesFor, Sound
    <3>6. Known'
      BY <3>3 DEF Known, SavesFor
    <3> QED  BY <1>1, <1>2, <2>1, <2>3, <3>3, <3>5, <3>6, StaysSomewhere DEF IInv
  <2> QED  BY <2>2, <2>3
<1>5. CASE RemoveJSON
  <2>1. pc = "removeJSON" /\ pc' = "import" /\ UNCHANGED <<hjson, conf, saving, hash, byteKey>>
    BY <1>5 DEF RemoveJSON, Goto, process
  <2>2. conf = Plain(FALSE) /\ ~conf.encrypt
    <3>1. conf = Plain(FALSE)
      BY <1>1, <2>1 DEF IInv, Sources
    <3>2. Plain(FALSE).encrypt = FALSE
      BY Fields
    <3> QED  BY <3>1, <3>2
  <2>3. Sources'
    BY <1>1, <1>2, <2>1, <2>2, SourcesKept DEF IInv
  <2>4. Known'
    BY <2>1 DEF Known, SavesFor
  <2>5. ~env' => Somewhere'
    BY <1>1, <1>2, <2>1 DEF IInv, Somewhere, Recoverable
  <2> QED  BY <2>3, <2>4, <2>5
<1>6. CASE Default
  <2>1. pc = "default" /\ Ends /\ UNCHANGED json
    BY <1>6 DEF Default
  <2>2. env
    BY <1>1, <2>1 DEF IInv, Somewhere
  <2>3. hjson' \in Confs => Sound(hjson')
    BY <1>1, <1>6, Fields DEF Default, IInv, Sources, Sound
  <2>4. pc' = "off" /\ conf' = Blank /\ saving'.text = Blank /\ saving'.then = "off"
    BY <2>1 DEF Ends, Goto, NoSave
  <2>5. Sources'
    BY <1>1, <1>2, <2>3, <2>4, Fields DEF IInv, Sources, SavesFor, Sound
  <2> QED  BY <1>2, <2>2, <2>4, <2>5 DEF Known, SavesFor
<1> QED  BY <1>1, <1>3, <1>4, <1>5, <1>6

LEMMA ImportsKeepCredential ==
    ASSUME TypeOK, IInv, ~mishap', Import \/ RemoveCQ \/ Args \/ Device
    PROVE  Sources' /\ Known' /\ (~env' => Somewhere')
<1>1. ~mishap
  BY DEF Import, RemoveCQ, Args, Device, ghosts
<1>2. UNCHANGED <<hjson, json, env, userKey>>
  BY DEF Import, RemoveCQ, Args, Device, confFiles, outside
<1>3. ~RemoveCQ
  BY <1>1 DEF RemoveCQ, IInv, Sources
<1>4. pc \in {"import", "args", "device"}
  BY <1>3 DEF Import, Args, Device
<1>5. CASE Ends
  BY <1>1, <1>2, <1>4, <1>5, EndsKeepsCredential
<1>6. CASE ~Ends
  <2>1. /\ UNCHANGED <<conf, saving, hash, byteKey>>
        /\ \/ pc = "import" /\ pc' = "args"
           \/ pc = "args" /\ pc' = "update"
           \/ pc = "args" /\ pc' = "device" /\ HasCredential(conf)
           \/ pc = "device" /\ pc' = "encrypt"
    BY <1>1, <1>3, <1>6 DEF Import, Args, Device, Goto, process
  <2>2. Sources'
    BY <1>1, <1>2, <2>1, SourcesKept DEF IInv
  <2>3. Known'
    BY <1>1, <2>1 DEF IInv, Known, SavesFor
  <2> QED  BY <1>1, <1>2, <1>4, <2>1, <2>2, <2>3, StaysSomewhere DEF IInv
<1> QED  BY <1>5, <1>6

LEMMA UpdatesKeepCredential ==
    ASSUME TypeOK, IInv, ~mishap', SelfUpdate \/ RemoveOld \/ Retire \/ Install \/ Clean
    PROVE  Sources' /\ Known' /\ (~env' => Somewhere')
<1>1. ~mishap
  BY DEF SelfUpdate, RemoveOld, Retire, Install, Clean, Others
<1>2. UNCHANGED <<hjson, json, env, userKey>>
  BY DEF SelfUpdate, RemoveOld, Retire, Install, Clean, Others, confFiles, outside
<1>3. pc \in {"update", "removeOld", "retire", "install", "clean"}
  BY DEF SelfUpdate, RemoveOld, Retire, Install, Clean
<1>4. CASE Ends
  BY <1>1, <1>2, <1>3, <1>4, EndsKeepsCredential
<1>5. CASE ~Ends
  <2>1. /\ UNCHANGED <<conf, saving, hash, byteKey>>
        /\ \/ pc' \in {"removeOld", "retire", "install", "clean"}
           \/ pc = "update" /\ pc' = "device" /\ HasCredential(conf)
    BY <1>5 DEF SelfUpdate, RemoveOld, Retire, Install, Clean, Goto, process
  <2>2. Sources'
    BY <1>1, <1>2, <1>3, <2>1, SourcesKept DEF IInv
  <2>3. Known'
    BY <1>1, <2>1 DEF IInv, Known, SavesFor
  <2> QED  BY <1>1, <1>2, <1>3, <2>1, <2>2, <2>3, StaysSomewhere DEF IInv
<1> QED  BY <1>4, <1>5

LEMMA KeysKeepCredential ==
    ASSUME TypeOK, IInv, ~mishap',
           Encrypt \/ Decrypt \/ AskKey \/ Upgrade \/ DecryptHash \/ WebServerRun
    PROVE  Sources' /\ Known' /\ (~env' => Somewhere')
<1>1. ~mishap
  BY DEF Encrypt, Decrypt, AskKey, Upgrade, DecryptHash, WebServerRun, ghosts, TypeOK
<1>2. Sources /\ Known /\ (~env => Somewhere)
  BY <1>1 DEF IInv
<1>3. UNCHANGED <<json, env>>
  BY DEF Encrypt, Decrypt, AskKey, Upgrade, DecryptHash, WebServerRun, confFiles, outside
<1>4. CASE Encrypt
  <2>1. pc = "encrypt" /\ UNCHANGED <<hjson, hash>> /\ HasCredential(conf)
    BY <1>2, <1>4 DEF Encrypt, confFiles, Known
  <2>2. CASE conf.encrypt /\ conf.enc = NoEnc
    <3>1. conf.plain = "P" /\ hjson = conf
      BY <1>2, <2>1, <2>2 DEF Sources, Sound
    <3>2. byteKey' \in Keys /\ userKey' = byteKey' /\ conf' = Encrypted("aes", "H", byteKey')
      BY <1>4, <2>2, <3>1 DEF Encrypt, Typed, Keys, Hashed
    <3>3. pc' = "open" /\ saving'.text = conf' /\ saving'.then = "decrypt"
      BY <1>4, <2>2 DEF Encrypt, Save, Goto
    <3>4. conf'.enc # NoEnc /\ conf'.enc.key = userKey' /\ conf'.enc.scheme = "aes"
          /\ conf'.enc.of = "H"
      BY <3>2, Fields
    <3>5. conf' \in Confs
      BY <3>2, ConfTypes
    <3>6. HasCredential(conf') /\ Recoverable(conf)' /\ Recoverable(hjson)'
      BY <2>1, <3>1, <3>4, <3>5, ContentsAssumption DEF HasCredential, Recoverable
    <3>7. Sources'
      BY <2>1, <2>2, <3>1, <3>3, <3>4 DEF Sources, SavesFor, Sound
    <3>8. Known'
      BY <3>3, <3>6 DEF Known, SavesFor
    <3>9. Somewhere'
      BY <3>3, <3>6 DEF Somewhere, Recoverable
    <3> QED  BY <3>7, <3>8, <3>9
  <2>3. CASE ~(conf.encrypt /\ conf.enc = NoEnc)
    <3>1. pc' = "decrypt" /\ UNCHANGED <<byteKey, userKey, conf, saving>>
      BY <1>4, <2>3 DEF Encrypt, Goto
    <3>2. Sources'
      BY <1>2, <2>1, <3>1, SourcesKept
    <3>3. Known'
      BY <2>1, <3>1 DEF Known, SavesFor
    <3> QED  BY <1>2, <1>3, <2>1, <3>1, <3>2, <3>3, StaysSomewhere
  <2> QED  BY <2>2, <2>3
<1>5. CASE Decrypt \/ AskKey \/ DecryptHash
  <2>1. UNCHANGED <<hjson, userKey, conf, saving>>
    BY <1>5 DEF Decrypt, AskKey, DecryptHash, confFiles, outside
  <2>2. pc \in {"decrypt", "askKey", "hash"} /\ pc' \in {"login", "askKey", "upgrade"}
    BY <1>5 DEF Decrypt, AskKey, DecryptHash, Goto
  <2>3. Sources'
    BY <1>2, <2>1, <2>2, SourcesKept
  <2>4. CASE Decrypt
    <3>1. pc = "decrypt" /\ UNCHANGED byteKey
      BY <2>4 DEF Decrypt
    <3>2. conf.enc = NoEnc => conf.plain = "P"
      BY <1>2, <3>1 DEF Known, HasCredential, TypeOK, Confs
    <3>3. conf.enc = NoEnc => pc' = "login" /\ hash' = "H"
      BY <2>4, <3>2 DEF Decrypt, Goto, Hashed
    <3>4. conf.enc # NoEnc => pc' \in {"askKey", "upgrade"}
      BY <2>4 DEF Decrypt, Goto
    <3>5. Known'
      BY <2>1, <3>3, <3>4 DEF Known, SavesFor
    <3> QED  BY <1>2, <1>3, <2>1, <2>2, <2>3, <3>5, StaysSomewhere
  <2>5. CASE AskKey
    <3>1. pc' = "upgrade" /\ conf.enc # NoEnc
      BY <1>2, <2>5 DEF AskKey, Goto, Known
    <3>2. Known'
      BY <2>1, <3>1 DEF Known, SavesFor
    <3> QED  BY <1>2, <1>3, <2>1, <2>2, <2>3, <3>2, StaysSomewhere
  <2>6. CASE DecryptHash
    <3>1. pc' = "login" /\ UNCHANGED byteKey /\ conf.enc.scheme = "aes"
      BY <1>2, <2>6 DEF DecryptHash, Goto, Known
    <3>2. conf.enc.key = userKey /\ conf.enc.of = "H"
      BY <1>2, <3>1, Fields DEF Sources, Sound
    <3>3. byteKey = userKey => hash' = "H"
      BY <2>6, <3>2 DEF DecryptHash, Opens
    <3>4. conf.enc # NoEnc
      BY <3>1, Fields
    <3>5. Known'
      BY <2>1, <3>1, <3>3, <3>4 DEF Known, SavesFor
    <3> QED  BY <1>2, <1>3, <2>1, <2>2, <2>3, <3>5, StaysSomewhere
  <2> QED  BY <1>5, <2>4, <2>5, <2>6
<1>6. CASE Upgrade
  <2>1. pc = "upgrade" /\ conf.enc # NoEnc /\ UNCHANGED <<hjson, userKey>>
    BY <1>2, <1>6 DEF Upgrade, Known, confFiles, outside
  <2>2. CASE conf.enc.scheme # "tea"
    <3>1. pc' = "hash" /\ UNCHANGED <<conf, saving>> /\ conf.enc.scheme = "aes"
      BY <1>2, <1>6, <2>1, <2>2 DEF Upgrade, Goto, process, Sources, Sound
    <3>2. Sources'
      BY <1>2, <2>1, <3>1, SourcesKept
    <3>3. Known'
      BY <3>1 DEF Known, SavesFor
    <3> QED  BY <1>2, <1>3, <2>1, <3>1, <3>2, <3>3, StaysSomewhere
  <2>3. CASE Ends
    BY <1>1, <1>3, <2>1, <2>3, EndsKeepsCredential
  <2>4. CASE conf.enc.scheme = "tea" /\ ~Ends
    <3>1. conf.enc.of = "P" /\ conf.enc.key = userKey
      BY <1>2, <2>1, <2>4 DEF Sources, Sound
    <3>2. Opens(conf.enc) # "junk"
      BY <1>6, <2>4 DEF Upgrade, TypeOK
    <3>3. byteKey = userKey /\ Opens(conf.enc) = "P"
      BY <3>1, <3>2 DEF Opens
    <3>4. conf' = Encrypted("aes", "H", userKey)
      BY <1>6, <2>4, <3>3 DEF Upgrade, Upgraded, Hashed
    <3>5. pc' = "open" /\ saving'.text = conf' /\ saving'.then = "hash"
      BY <1>6, <2>4 DEF Upgrade, Save, Goto
    <3>6. userKey \in Keys
      BY DEF TypeOK
    <3>7. conf'.enc # NoEnc /\ conf'.enc.key = userKey' /\ conf'.enc.scheme = "aes"
          /\ conf'.enc.of = "H"
      BY <2>1, <3>4, <3>6, Fields
    <3>8. conf' \in Confs
      BY <3>4, <3>6, ConfTypes
    <3>9. Recoverable(conf)'
      BY <3>7, <3>8, ContentsAssumption DEF HasCredential, Recoverable
    <3>10. Sources'
      BY <1>2, <2>1, <3>5, <3>7 DEF Sources, SavesFor, Sound
    <3>11. Known'
      BY <3>5, <3>7 DEF Known, SavesFor
    <3>12. ~env => Somewhere'
      BY <1>2, <1>3, <2>1, <3>5, <3>7, <3>8, ContentsAssumption
         DEF Somewhere, HasCredential, Recoverable
    <3> QED  BY <1>3, <3>10, <3>11, <3>12
  <2> QED  BY <2>2, <2>3, <2>4
<1>7. CASE WebServerRun
  <2>1. pc = "login" /\ UNCHANGED userKey
    BY <1>7 DEF WebServerRun, outside
  <2>2. CASE hjson' = Absent
    <3>1. Ends
      BY <1>7, <2>2 DEF WebServerRun
    <3>2. pc' = "off" /\ conf' = Blank /\ saving'.text = Blank /\ saving'.then = "off"
      BY <3>1 DEF Ends, Goto, NoSave
    <3>3. hjson \in {Absent, Torn}
      BY <1>7, <2>2 DEF WebServerRun
    <3>4. ~env => json' = Plain(FALSE)
      BY <1>2, <1>3, <2>1, <3>3 DEF Somewhere, Recoverable, HasCredential
    <3>5. Sources'
      BY <2>2, <3>2, Fields, ContentsAssumption DEF Sources, SavesFor, Sound
    <3>6. Known' /\ (~env' => Somewhere')
      BY <1>3, <3>2, <3>4 DEF Known, SavesFor, Somewhere
    <3> QED  BY <3>5, <3>6
  <2>3. CASE hjson' # Absent
    <3>1. pc' = "serving" /\ UNCHANGED <<hjson, conf, byteKey, hash, saving>>
      BY <1>7, <2>3 DEF WebServerRun, Goto, process
    <3>2. Sources'
      BY <1>2, <2>1, <3>1, SourcesKept
    <3>3. Known'
      BY <1>2, <2>1, <3>1 DEF Known, SavesFor
    <3> QED  BY <1>2, <1>3, <2>1, <3>1, <3>2, <3>3, StaysSomewhere
  <2> QED  BY <2>2, <2>3
<1> QED  BY <1>4, <1>5, <1>6, <1>7

LEMMA CredentialInvariant == Spec => []IInv
<1>1. TypeOK /\ IInv /\ UNCHANGED vars => IInv'
  <2> SUFFICES ASSUME TypeOK, IInv, UNCHANGED vars PROVE IInv'
    OBVIOUS
  <2>1. UNCHANGED <<hjson, json, env, pc, conf, byteKey, hash, saving, userKey, mishap>>
    BY DEF vars, confFiles, process, outside, ghosts
  <2>2. Sources => Sources'
    <3> SUFFICES ASSUME Sources PROVE Sources'
      OBVIOUS
    <3>1. Sound(conf)' /\ Sound(saving.text)' /\ (hjson' \in Confs => Sound(hjson)')
      BY <2>1 DEF Sources, Sound
    <3>2. \A label \in {"removeJSON", "default", "removeCQ"} : SavesFor(label)' = SavesFor(label)
      BY <2>1 DEF SavesFor
    <3> QED  BY <2>1, <3>1, <3>2 DEF Sources
  <2>3. Known => Known'
    BY <2>1 DEF Known, SavesFor, HasCredential
  <2>4. Somewhere => Somewhere'
    BY <2>1 DEF Somewhere, Recoverable, HasCredential
  <2> QED  BY <2>1, <2>2, <2>3, <2>4 DEF IInv, TypeOK
<1>2. TypeOK /\ IInv /\ Next => IInv'
  BY StartsKeepCredential, SavesKeepCredential, LoadsKeepCredential,
     ImportsKeepCredential, UpdatesKeepCredential, KeysKeepCredential, NoMishap
     DEF Next, Step
<1> QED  BY <1>1, <1>2, InitIInv, Types, PTL DEF Spec

\* However often the process is started, restarted by a child or killed, between
\* whichever two steps, the password can be had from config.hjson or config.json,
\* unless there was a mishap (getConfig, init, main, JSONConfig.Save).
THEOREM PasswordNeverLost == Spec => []CredentialKept
<1>1. IInv => CredentialKept
  BY PlainIsRecoverable DEF IInv, Somewhere, CredentialKept
<1> QED  BY <1>1, CredentialInvariant, PTL

\* With the right key the login is by the hash of the password, also after any
\* number of upgrades, encryptions and restarts.
THEOREM LoginByHash == Spec => []LoginHash
<1>1. IInv => LoginHash
  BY DEF IInv, Known, LoginHash
<1> QED  BY <1>1, CredentialInvariant, PTL
=============================================================================
