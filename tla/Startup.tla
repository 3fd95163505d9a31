------------------------------ MODULE Startup ------------------------------
(***************************************************************************)
(* From the start of the process to the login (main.go, global/config.go,  *)
(* global/fs.go): the configuration is loaded or imported, the password    *)
(* encrypted or decrypted with a key, or the executable replaced.  The     *)
(* process may be killed between any two steps and be started again, and   *)
(* do_process_restart starts a child that has no console.                  *)
(*                                                                         *)
(* A configuration is reduced to the credential: the password "P" in the   *)
(* clear, or encrypted by the old scheme (TEA, of the password) or the new *)
(* one (AES, of its hash "H") with a key.  What a wrong key yields is      *)
(* "junk".  One without a credential, a text without members, "null" and   *)
(* the default configuration are all Blank.                                *)
(*                                                                         *)
(* A definition marked "Mutation" is no part of the model: it is a faulty  *)
(* version of the definition after it, which a property must reject.       *)
(***************************************************************************)
EXTENDS Naturals

CONSTANTS
    Key, Wrong, NoKey,  \* keys: the user's, another one, and none or Enter
    Absent, Torn,       \* contents: of no file; that do not parse
    MaxStarts           \* bound: starts of a process

ASSUME StartsAssumption == MaxStarts \in Nat

VARIABLES
    hjson,      \* config.hjson
    json,       \* config.json, of an older version
    cqhttp,     \* cqhttp.json, of another program: "none", "good" or "bad"
    device,     \* device.json: "none", "whole" or "torn"
    exe, old,   \* the executable and the files .old and .new beside it: a
    new,        \*   version, "junk", "part" or "none"
    env,        \* the variables UIN and PASS are set
    pc,         \* where the process is; "off": there is none
    args,       \* its arguments: update, the key, and faststart in a child
    conf,       \* the variable conf
    byteKey,    \* the variable byteKey
    hash,       \* global.PasswordHash
    saving,     \* what Save is writing to config.hjson, and the label after it
    starts,     \* how many starts there have been
    userKey,    \* ghost: the key the credential was encrypted with
    mishap,     \* ghost: something has happened that may cost the credential
    bungled     \* ghost: an update was not downloaded or copied completely

confFiles == <<hjson, json, cqhttp, device>>
exeFiles == <<exe, old, new>>
process == <<args, conf, byteKey, hash, saving>>
outside == <<env, starts, userKey>>
ghosts == <<mishap, bungled>>
vars == <<confFiles, exeFiles, pc, process, outside, ghosts>>

\* The configurations, with encrypt_password or without.
NoEnc == [scheme |-> "none", of |-> "none", key |-> NoKey]
Config(plain, enc, encrypt) == [plain |-> plain, enc |-> enc, encrypt |-> encrypt]
Blank == Config("none", NoEnc, FALSE)
Plain(encrypt) == Config("P", NoEnc, encrypt)
Encrypted(scheme, of, key) ==
    Config("none", [scheme |-> scheme, of |-> of, key |-> key], TRUE)

\* The keys, and all configurations
Keys == {Key, Wrong, NoKey}
Confs ==
    [plain : {"none", "P"}, encrypt : BOOLEAN,
     enc : [scheme : {"none", "tea", "aes"}, of : {"none", "P", "H", "junk"}, key : Keys]]

ASSUME ContentsAssumption == Absent \notin Confs /\ Torn \notin Confs

HasCredential(c) == c \notin {Absent, Torn} /\ (c.plain # "none" \/ c.enc # NoEnc)
Hashed(secret) == IF secret = "P" THEN "H" ELSE "junk"

NoSave == [text |-> Blank, then |-> "off"]

\* Whoever installs the program leaves it a credential in one place at least.
Init ==
    /\ hjson \in {Absent, Plain(FALSE), Plain(TRUE), Encrypted("tea", "P", Key)}
    /\ json \in {Absent, Torn, Plain(FALSE)}
    /\ cqhttp \in {"none", "good", "bad"} /\ device = "none"
    /\ exe = "v1" /\ old = "none" /\ new = "none"
    /\ env \in BOOLEAN
    /\ HasCredential(hjson) \/ HasCredential(json) \/ env
    /\ pc = "off" /\ starts = 0
    /\ args = [update |-> FALSE, key |-> NoKey, fast |-> FALSE]
    /\ conf = Blank /\ byteKey = NoKey /\ hash = "none" /\ saving = NoSave
    /\ userKey = Key
    /\ mishap = FALSE /\ bungled = FALSE

Goto(label) == pc' = label

\* The process is no more, and what it had in memory.
Ends ==
    /\ Goto("off")
    /\ args' = [update |-> FALSE, key |-> NoKey, fast |-> FALSE]
    /\ conf' = Blank /\ byteKey' = NoKey /\ hash' = "none" /\ saving' = NoSave

----------------------------------------------------------------------------
(* Starts and ends                                                         *)

Runs == <<confFiles, exeFiles, conf, hash, saving, env, userKey, ghosts>>

Start ==
    /\ pc = "off" /\ exe \in {"v1", "v2"}
    /\ starts < MaxStarts /\ starts' = starts + 1
    /\ \E update \in BOOLEAN, key \in {NoKey, Key, Wrong} :
          args' = [update |-> update, key |-> key, fast |-> FALSE]
    /\ byteKey' = args'.key
    /\ Goto("getConfig")
    /\ UNCHANGED Runs

\* restart: a child with the same arguments; its parent only waits for more.
StartsChild ==
    /\ pc = "serving" /\ exe \in {"v1", "v2"}
    /\ starts < MaxStarts /\ starts' = starts + 1
    /\ args' = [args EXCEPT !.fast = TRUE]
    /\ byteKey' = args.key
    /\ Goto("getConfig") /\ conf' = Blank /\ hash' = "none"
    /\ UNCHANGED <<confFiles, exeFiles, saving, env, userKey, ghosts>>

\* At any step: by a signal, or by the goroutine that waits 45 seconds for a key
\* and then 3 more, even when the key has come by then.  When config.hjson is
\* truncated and not written again, config.json at most has the credential.
Killed ==
    /\ pc # "off" /\ Ends
    /\ mishap' = (mishap \/ (pc = "write" /\ saving.then # "removeJSON"))
    /\ UNCHANGED <<confFiles, exeFiles, outside, bungled>>

----------------------------------------------------------------------------
(* Save: WriteFile truncates config.hjson and writes it.  The callers      *)
(* ignore an error, but for the import of cqhttp.json.                     *)

Save(text, label) == Goto("open") /\ saving' = [text |-> text, then |-> label]

Outcome ==
    IF saving.then = "removeCQ" THEN Ends
    ELSE Goto(saving.then) /\ UNCHANGED process

Truncate ==
    /\ pc = "open"
    /\ \/ hjson' = Blank /\ Goto("write") /\ UNCHANGED <<process, mishap>>
       \/ /\ UNCHANGED hjson /\ Outcome
          /\ mishap' = (mishap \/ saving.then = "removeJSON")
    /\ UNCHANGED <<json, cqhttp, device, exeFiles, outside, bungled>>

Write ==
    /\ pc = "write"
    /\ \/ /\ hjson' = saving.text /\ Goto(saving.then)
          /\ UNCHANGED <<process, mishap>>
       \/ hjson' = Torn /\ Outcome /\ mishap' = TRUE
    /\ UNCHANGED <<json, cqhttp, device, exeFiles, outside, bungled>>

----------------------------------------------------------------------------
(* getConfig and init                                                      *)

Rest == <<exeFiles, args, byteKey, hash, outside, bungled>>

\* Mutation: config.json is removed before config.hjson is written.
RemovesFirst ==
    /\ pc = "getConfig" /\ json \notin {Absent, Torn}
    /\ conf' = json /\ Save(json, "import") /\ json' = Absent
    /\ UNCHANGED <<hjson, cqhttp, device, mishap, Rest>>

\* config.json is taken first.
TakesJSON ==
    /\ pc = "getConfig" /\ json \notin {Absent, Torn}
    /\ conf' = json /\ Save(json, "removeJSON")
    /\ UNCHANGED <<confFiles, mishap, Rest>>

\* One that does not parse is renamed, and what is saved then is nil.
BacksUpJSON ==
    /\ pc = "getConfig" /\ json = Torn /\ json' = Absent
    /\ Save(Blank, "default") /\ mishap' = TRUE
    /\ UNCHANGED <<hjson, cqhttp, device, conf, Rest>>

GetConfig ==
    /\ pc = "getConfig" /\ json = Absent
    /\ \/ /\ env /\ conf' = Plain(FALSE) /\ Goto("import")
          /\ UNCHANGED hjson
       \/ /\ ~env /\ conf' = IF hjson \in {Absent, Torn} THEN Blank ELSE hjson
          /\ hjson' = IF hjson = Torn THEN Absent ELSE hjson
          /\ Goto(IF hjson' = Absent THEN "default" ELSE "import")
    /\ UNCHANGED <<json, cqhttp, device, saving, mishap, Rest>>

\* os.Remove, whose error is ignored
RemoveJSON ==
    /\ pc = "removeJSON" /\ Goto("import")
    /\ json' \in {json, Absent}
    /\ UNCHANGED <<hjson, cqhttp, device, exeFiles, process, outside, ghosts>>

\* There is no configuration: a default one is written, and the process ends.
Default ==
    /\ pc = "default" /\ Ends
    /\ hjson' \in {Blank, hjson}
    /\ UNCHANGED <<json, cqhttp, device, exeFiles, outside, ghosts>>

\* cqhttp.json replaces config.hjson, as the log warns, but not the variable
\* conf of main, which an inner one shadows.
Import ==
    /\ pc = "import"
    /\ \/ cqhttp = "none" /\ Goto("args")
          /\ UNCHANGED <<process, mishap>>
       \/ cqhttp = "bad" /\ Ends /\ UNCHANGED mishap
       \/ cqhttp = "good" /\ Save(Blank, "removeCQ") /\ mishap' = TRUE
          /\ UNCHANGED <<args, conf, byteKey, hash>>
    /\ UNCHANGED <<confFiles, exeFiles, outside, bungled>>

RemoveCQ ==
    /\ pc = "removeCQ" /\ Goto("args")
    /\ cqhttp' \in {cqhttp, "none"}
    /\ UNCHANGED <<hjson, json, device, exeFiles, process, outside, ghosts>>

----------------------------------------------------------------------------
(* main                                                                    *)

Args ==
    /\ pc = "args"
    /\ IF args.update THEN Goto("update") /\ UNCHANGED process
       ELSE IF HasCredential(conf) THEN Goto("device") /\ UNCHANGED process
       ELSE Ends
    /\ UNCHANGED <<confFiles, exeFiles, outside, ghosts>>

\* A new device.json may be left in part; from then on each start ends here.
Device ==
    /\ pc = "device"
    /\ IF device = "torn" THEN Ends /\ UNCHANGED device
       ELSE /\ Goto("encrypt") /\ UNCHANGED process
            /\ device' \in IF device = "none" THEN {"whole", "torn", "none"}
                           ELSE {device}
    /\ UNCHANGED <<hjson, json, cqhttp, exeFiles, outside, ghosts>>

\* What is typed at the console, or nothing in a child.
Typed == IF args.fast THEN {NoKey} ELSE {NoKey, Key, Wrong}

\* The key typed here is the one to remember.
Encrypt ==
    /\ pc = "encrypt"
    /\ IF conf.encrypt /\ conf.enc = NoEnc
       THEN /\ byteKey' \in Typed /\ userKey' = byteKey'
            /\ conf' = Encrypted("aes", Hashed(conf.plain), byteKey')
            /\ Save(conf', "decrypt")
       ELSE Goto("decrypt") /\ UNCHANGED <<byteKey, userKey, conf, saving>>
    /\ UNCHANGED <<confFiles, exeFiles, args, hash, env, starts, ghosts>>

Decrypt ==
    /\ pc = "decrypt"
    /\ IF conf.enc = NoEnc THEN Goto("login") /\ hash' = Hashed(conf.plain)
       ELSE Goto(IF byteKey = NoKey THEN "askKey" ELSE "upgrade") /\ UNCHANGED hash
    /\ UNCHANGED <<confFiles, exeFiles, args, conf, byteKey, saving, outside, ghosts>>

AskKey ==
    /\ pc = "askKey" /\ Goto("upgrade")
    /\ byteKey' \in Typed
    /\ UNCHANGED <<confFiles, exeFiles, args, conf, hash, saving, outside,
                   ghosts>>

\* Decryption by either scheme
Opens(enc) == IF byteKey = enc.key THEN enc.of ELSE "junk"

\* Mutation: the password is encrypted as it is, not its hash.
UpgradedPlain(secret) == secret

Upgraded(secret) == Hashed(secret)

\* The old scheme is replaced by the new one.  A wrong key may be noticed, by a
\* panic of the old cipher.
Upgrade ==
    /\ pc = "upgrade"
    /\ IF conf.enc.scheme = "tea"
       THEN LET secret == Opens(conf.enc)
            IN \/ /\ conf' = Encrypted("aes", Upgraded(secret), byteKey)
                  /\ Save(conf', "hash")
                  /\ mishap' = (mishap \/ secret = "junk")
                  /\ UNCHANGED <<args, byteKey, hash>>
               \/ secret = "junk" /\ Ends /\ UNCHANGED mishap
       ELSE Goto("hash") /\ UNCHANGED <<process, mishap>>
    /\ UNCHANGED <<confFiles, exeFiles, outside, bungled>>

DecryptHash ==
    /\ pc = "hash" /\ Goto("login")
    /\ hash' = Opens(conf.enc)
    /\ UNCHANGED <<confFiles, exeFiles, args, conf, byteKey, saving, outside,
                   ghosts>>

\* WebServer.Run loads config.hjson again, and uses nil when it is not there.
WebServerRun ==
    /\ pc = "login"
    /\ hjson' = IF hjson = Torn THEN Absent ELSE hjson
    /\ IF hjson' = Absent THEN Ends ELSE Goto("serving") /\ UNCHANGED process
    /\ UNCHANGED <<json, cqhttp, device, exeFiles, outside, ghosts>>

----------------------------------------------------------------------------
(* selfUpdate and UpdateFromStream                                         *)

Others == <<confFiles, outside, mishap>>

\* What .new holds after the copy: the executable, the body of an error page, or
\* a part, when the copy fails, which is logged and then forgotten.
Bytes == {"v2", "junk", "part"}

\* Without an answer main goes on; else there is nothing to do, or the user
\* declines (as a child does that has no console), or the download breaks off,
\* or .new is written.
SelfUpdate ==
    /\ pc = "update"
    /\ \/ /\ IF HasCredential(conf) THEN Goto("device") /\ UNCHANGED process
             ELSE Ends
          /\ UNCHANGED <<new, bungled>>
       \/ Ends /\ UNCHANGED <<new, bungled>>
       \/ /\ ~args.fast /\ Goto("removeOld") /\ UNCHANGED process
          /\ new' \in Bytes
          /\ bungled' = (bungled \/ new' # "v2")
    /\ UNCHANGED <<Others, exe, old>>

RemoveOld ==
    /\ pc = "removeOld" /\ Goto("retire")
    /\ old' \in {old, "none"}
    /\ UNCHANGED <<Others, exe, new, process, bungled>>

\* Mutation: .old is removed as soon as the name is free.
RetireDrops ==
    /\ pc = "retire" /\ Goto("install")
    /\ old' = "none" /\ exe' = "none"
    /\ UNCHANGED <<Others, new, process, bungled>>

Retire ==
    /\ pc = "retire"
    /\ \/ Goto("install") /\ old' = exe /\ exe' = "none" /\ UNCHANGED process
       \/ Ends /\ UNCHANGED <<old, exe>>
    /\ UNCHANGED <<Others, new, bungled>>

\* When .new cannot be renamed, .old gets its name back, if it can.
Install ==
    /\ pc = "install"
    /\ \/ Goto("clean") /\ exe' = new /\ new' = "none" /\ UNCHANGED <<old, process>>
       \/ Ends /\ exe' = old /\ old' = "none" /\ UNCHANGED new
       \/ Ends /\ UNCHANGED exeFiles
    /\ UNCHANGED <<Others, bungled>>

Clean ==
    /\ pc = "clean" /\ Ends
    /\ old' \in {old, "none"}
    /\ UNCHANGED <<Others, exe, new, bungled>>

----------------------------------------------------------------------------

Step ==
    \/ Truncate \/ Write
    \/ TakesJSON \/ BacksUpJSON \/ GetConfig \/ RemoveJSON \/ Default \/ Import \/ RemoveCQ
    \/ Args \/ Device \/ Encrypt \/ Decrypt \/ AskKey \/ Upgrade \/ DecryptHash
    \/ WebServerRun
    \/ SelfUpdate \/ RemoveOld \/ Retire \/ Install \/ Clean

Next ==
    \/ Start \/ StartsChild \/ Killed \/ Step

Spec == Init /\ [][Next]_vars

----------------------------------------------------------------------------
(* Properties                                                              *)

\* The user, who knows the key, can get the password from the configuration c.
Recoverable(c) ==
    /\ HasCredential(c)
    /\ c.plain = "P" \/ (c.enc.of \in {"P", "H"} /\ c.enc.key = userKey)

\* Whenever the process may be killed without harm, and after every end, one of
\* the files still holds the password, in the clear or under the key that was
\* typed last to encrypt it, unless there was a mishap: a save cut short or
\* failed, a config.json that does not parse, an import of cqhttp.json, or an
\* upgrade with a wrong key (getConfig, init, main).
CredentialKept ==
    pc # "write" /\ ~env /\ ~mishap => Recoverable(hjson) \/ Recoverable(json)

\* With the right key the bot logs in with the hash of the password, whichever
\* scheme it was stored by and however often it was restarted or upgraded on
\* the way (PasswordHashEncrypt, OldPasswordDecrypt, main).
LoginHash ==
    pc \in {"login", "serving"} /\ ~mishap /\ (conf.enc # NoEnc => byteKey = userKey)
        => hash = "H"

\* However an update ends, a whole executable is there by its name or by the name
\* .old, unless the new one was not downloaded or copied completely: that is
\* installed all the same (UpdateFromStream).
ExecutableKept == {exe, old} \cap {"v1", "v2"} # {} \/ bungled
=============================================================================
