------------------------------- MODULE KeyStore -------------------------------
(***************************************************************************)
(* keystore.json and the commands that load it, may ask for a password,    *)
(* and save the whole of it: identity create / use / export /              *)
(* change-password, contact add, and the start of the daemon.  The save    *)
(* itself is AtomicSave's: one step, or an error and nothing changed.      *)
(*                                                                         *)
(* A key that encrypts is the password and the salt it was derived from    *)
(* (scrypt); fresh random data, a salt or a private key, is named by the   *)
(* command that drew it.  Nothing but the key opens what it encrypted.     *)
(***************************************************************************)
CONSTANTS
    Commands,  \* processes, each runs one command
    Names,     \* nicknames
    Passwords

None == "none"

ASSUME KeyStoreAssumption ==
    /\ None \notin Commands /\ "old" \notin Commands
    /\ None \notin Names
    /\ None \notin Passwords

VARIABLES
    disk,      \* keystore.json
    pc,        \* where each command is
    job,       \* which command it is
    copy,      \* the keystore in its memory
    master,    \* the master key it unlocked the copy with
    stale,     \* commands whose copy another save has made out of date
    lost,      \* whether such a copy has been saved
    owner,     \* the private key each nickname was acknowledged with
    contacts,  \* the acknowledged contacts
    password   \* the password last set with success

vars == <<disk, pc, job, copy, master, stale, lost, owner, contacts, password>>

Jobs    == {"create", "use", "contact", "change", "open"}
Asking  == {"create", "change", "open"}
Secrets == Commands \cup {"old"}
Places  == {"idle", "unlock", "upgrade", "work", "default", "done"}

Keys  == [pw : Passwords, salt : Secrets]
NoKey == [pw |-> None, salt |-> None]

Blobs  == [sk : Secrets, under : Keys \cup {NoKey}]
NoBlob == [sk |-> None, under |-> NoKey]

Stores == [encrypted : BOOLEAN, salt : Secrets \cup {None},
           token     : [under : Keys \cup {NoKey}, legacy : BOOLEAN],
           ids       : [Names -> Blobs \cup {NoBlob}],
           contacts  : SUBSET Names,
           default   : Names \cup {None}]

Empty == [encrypted |-> FALSE, salt |-> None, token |-> [under |-> NoKey, legacy |-> FALSE],
          ids |-> [n \in Names |-> NoBlob], contacts |-> {}, default |-> None]

Present(ks) == {n \in Names : ks.ids[n].sk # None}
Holding     == {p \in Commands : pc[p] \notin {"idle", "done"}}

Goto(p, place) == pc' = [pc EXCEPT ![p] = place]

\* The process ends and its memory is gone.
Finish(p) ==
    /\ Goto(p, "done")
    /\ copy' = [copy EXCEPT ![p] = Empty]
    /\ master' = [master EXCEPT ![p] = NoKey]

Ends(p) ==
    /\ Finish(p)
    /\ stale' = stale \ {p}
    /\ UNCHANGED <<disk, job, lost, owner, contacts, password>>

-----------------------------------------------------------------------------
(* What the commands make of a keystore.                                   *)

\* The current token and that of before the renaming are both accepted.
Verifies(ks, key) == ks.token.under = key

\* createVerification with a fresh salt.
Locked(ks, key) ==
    [ks EXCEPT !.encrypted = TRUE, !.salt = key.salt,
               !.token = [under |-> key, legacy |-> FALSE]]

\* Only the new private key is encrypted, and only when a password is given,
\* which commands.go does for stores that are not yet encrypted.
Created(ks, n, p, pw) ==
    LET key   == [pw |-> pw, salt |-> p]
        store == IF pw = None THEN ks ELSE Locked(ks, key)
    IN  [store EXCEPT
            !.ids[n]  = [sk |-> p, under |-> IF pw = None THEN NoKey ELSE key],
            !.default = IF ks.default = None THEN n ELSE ks.default]

\* Seeded fault: the decrypted keys are saved as they are.
ReencryptedPlain(ks, key) ==
    LET store == Locked(ks, key)
    IN  [store EXCEPT !.ids = [n \in Names |-> [sk |-> ks.ids[n].sk, under |-> NoKey]]]

\* Seeded fault: only the default identity's key is encrypted anew.
ReencryptedDefault(ks, key) ==
    LET store == Locked(ks, key)
    IN  IF ks.default = None THEN store ELSE [store EXCEPT !.ids[ks.default].under = key]

Reencrypted(ks, key) ==
    LET store == Locked(ks, key)
    IN  [store EXCEPT !.ids = [n \in Names |->
            IF n \in Present(ks) THEN [sk |-> ks.ids[n].sk, under |-> key] ELSE NoBlob]]

\* ChangePassword decrypts every key first and gives up on the first it cannot.
Decrypts(ks, key) == \A n \in Present(ks) : ks.ids[n].under = key

-----------------------------------------------------------------------------
(* Load, unlock, save.                                                     *)

Save(p, ks) ==
    /\ disk' = ks
    /\ lost' = (lost \/ p \in stale)
    /\ stale' = Holding \ {p}

Load(p, c) ==
    /\ pc[p] = "idle"
    /\ job' = [job EXCEPT ![p] = c]
    /\ IF c = "open" /\ ~disk.encrypted
       THEN Finish(p)
       ELSE /\ Goto(p, IF disk.encrypted /\ c \in Asking THEN "unlock" ELSE "work")
            /\ copy' = [copy EXCEPT ![p] = disk]
            /\ UNCHANGED master
    /\ UNCHANGED <<disk, stale, lost, owner, contacts, password>>

\* Seeded fault: any failure to read the file counts as no file.
UnreadableIsEmpty(p, c) ==
    /\ pc[p] = "idle"
    /\ job' = [job EXCEPT ![p] = c]
    /\ Goto(p, "work")
    /\ UNCHANGED <<disk, copy, master, stale, lost, owner, contacts, password>>

\* The file cannot be read or parsed.
Unreadable(p, c) ==
    /\ pc[p] = "idle"
    /\ Goto(p, "done")
    /\ job' = [job EXCEPT ![p] = c]
    /\ UNCHANGED <<disk, copy, master, stale, lost, owner, contacts, password>>

\* The password typed at the prompt is right.
Unlock(p, pw) ==
    LET key == [pw |-> pw, salt |-> copy[p].salt]
    IN  /\ pc[p] = "unlock"
        /\ Verifies(copy[p], key)
        /\ IF copy[p].token.legacy
           THEN /\ Goto(p, "upgrade")
                /\ copy' = [copy EXCEPT ![p].token.legacy = FALSE]
                /\ master' = [master EXCEPT ![p] = key]
                /\ UNCHANGED <<disk, job, stale, lost, owner, contacts, password>>
           ELSE IF job[p] = "open" THEN Ends(p)
           ELSE /\ Goto(p, "work")
                /\ master' = [master EXCEPT ![p] = key]
                /\ UNCHANGED <<disk, job, copy, stale, lost, owner, contacts, password>>

\* It is wrong.
Refuse(p, pw) ==
    /\ pc[p] = "unlock"
    /\ ~Verifies(copy[p], [pw |-> pw, salt |-> copy[p].salt])
    /\ Ends(p)

\* upgradeVerificationToken: a save that fails is only warned of.
Upgrade(p) ==
    /\ pc[p] = "upgrade"
    /\ Save(p, copy[p]) \/ UNCHANGED <<disk, lost, stale>>
    /\ IF job[p] = "open"
       THEN Finish(p)
       ELSE Goto(p, "work") /\ UNCHANGED <<copy, master>>
    /\ UNCHANGED <<job, owner, contacts, password>>

\* What else a command saves: the copy as ks, after which it is done or, with
\* --default, saves once more.
SaveAs(p, ks, place) ==
    /\ Save(p, ks)
    /\ IF place = "done"
       THEN Finish(p)
       ELSE /\ Goto(p, place)
            /\ copy' = [copy EXCEPT ![p] = ks]
            /\ UNCHANGED master
    /\ UNCHANGED job

-----------------------------------------------------------------------------
(* The commands.                                                           *)

At(p, c) == pc[p] = "work" /\ job[p] = c

Create(p, n, pw) ==
    /\ At(p, "create")
    /\ n \notin Present(copy[p])
    /\ copy[p].encrypted => pw = None
    /\ \E place \in {"default", "done"} : SaveAs(p, Created(copy[p], n, p, pw), place)
    /\ owner' = [owner EXCEPT ![n] = p]
    /\ password' = IF pw = None THEN password ELSE pw
    /\ UNCHANGED contacts

\* Seeded fault: any nickname can become the default.
UseUnchecked(p, n) ==
    /\ At(p, "use")
    /\ SaveAs(p, [copy[p] EXCEPT !.default = n], "done")
    /\ UNCHANGED <<owner, contacts, password>>

\* SetDefault, by identity use.
Use(p, n) ==
    /\ At(p, "use")
    /\ n \in Present(copy[p])
    /\ SaveAs(p, [copy[p] EXCEPT !.default = n], "done")
    /\ UNCHANGED <<owner, contacts, password>>

\* SetDefault, by identity create --default, for the nickname just created.
CreateDefault(p) ==
    /\ pc[p] = "default"
    /\ \E n \in Names :
          /\ copy[p].ids[n].sk = p
          /\ SaveAs(p, [copy[p] EXCEPT !.default = n], "done")
    /\ UNCHANGED <<owner, contacts, password>>

AddContact(p, n) ==
    /\ At(p, "contact")
    /\ n \notin copy[p].contacts
    /\ SaveAs(p, [copy[p] EXCEPT !.contacts = @ \cup {n}], "done")
    /\ contacts' = contacts \cup {n}
    /\ UNCHANGED <<owner, password>>

\* change-password encrypts a plain store, or re-encrypts an encrypted one.
ChangePassword(p, pw) ==
    /\ At(p, "change")
    /\ copy[p].encrypted => Decrypts(copy[p], master[p])
    /\ SaveAs(p, Reencrypted(copy[p], [pw |-> pw, salt |-> p]), "done")
    /\ password' = pw
    /\ UNCHANGED <<owner, contacts>>

\* The nickname is taken or missing, a key does not decrypt, a save fails, or
\* the process is interrupted or killed.
GiveUp(p) ==
    /\ p \in Holding
    /\ Ends(p)

Command(p) ==
    \/ \E c \in Jobs : Load(p, c) \/ Unreadable(p, c)
    \/ \E pw \in Passwords : Unlock(p, pw) \/ Refuse(p, pw) \/ ChangePassword(p, pw)
    \/ Upgrade(p) \/ CreateDefault(p) \/ GiveUp(p)
    \/ \E n \in Names :
          \/ Use(p, n) \/ AddContact(p, n)
          \/ \E pw \in Passwords \cup {None} : Create(p, n, pw)

\* No file yet; a plain store; or one encrypted by this version or by one from
\* before the renaming.
Init ==
    /\ \E ns \in SUBSET Names, pw \in Passwords, legacy \in BOOLEAN :
          LET key == [pw |-> pw, salt |-> "old"]
              Old(k) == [n \in Names |-> IF n \in ns THEN [sk |-> "old", under |-> k] ELSE NoBlob]
              plain == [Empty EXCEPT !.ids = Old(NoKey)]
              coded == [Locked(Empty, key) EXCEPT !.ids = Old(key), !.token.legacy = legacy]
          IN  \E store \in {plain, coded}, n \in ns \cup {None} :
                 /\ n = None <=> ns = {}
                 /\ disk = [store EXCEPT !.default = n]
                 /\ password = IF store = coded THEN pw ELSE None
    /\ owner = [n \in Names |-> disk.ids[n].sk]
    /\ pc = [p \in Commands |-> "idle"]
    /\ job = [p \in Commands |-> None]
    /\ copy = [p \in Commands |-> Empty]
    /\ master = [p \in Commands |-> NoKey]
    /\ stale = {}
    /\ lost = FALSE
    /\ contacts = {}

Next == \E p \in Commands : Command(p)

Spec == Init /\ [][Next]_vars

-----------------------------------------------------------------------------
(* Properties.                                                             *)

\* The default is an identity of the store, and the rest are types.
TypeOK ==
    /\ disk \in Stores /\ copy \in [Commands -> Stores]
    /\ disk.default \in Present(disk) \cup {None}
    /\ pc \in [Commands -> Places] /\ job \in [Commands -> Jobs \cup {None}]
    /\ master \in [Commands -> Keys \cup {NoKey}]
    /\ stale \subseteq Commands /\ lost \in BOOLEAN
    /\ owner \in [Names -> Secrets \cup {None}]
    /\ contacts \subseteq Names /\ password \in Passwords \cup {None}

\* One key is behind a store: the token, and every encrypted private key, are
\* under it, and it is derived from the stored salt.  A store that says it is
\* plain has no encrypted key.
UnderOneKey(ks) ==
    /\ ks.encrypted =>
          /\ ks.token.under \in Keys
          /\ ks.token.under.salt = ks.salt
    /\ \A n \in Present(ks) : ks.ids[n].under \in
          {NoKey} \cup (IF ks.encrypted THEN {ks.token.under} ELSE {})

\* However commands overlap and overwrite each other, whatever fails or is
\* interrupted, one password opens the file and all that is encrypted in it.
OneKeyOpensAll == UnderOneKey(disk)

\* The private key that ks and a password give for a nickname.
Recovered(ks, n, pw) ==
    IF ks.ids[n].under \in {NoKey, [pw |-> pw, salt |-> ks.salt]} THEN ks.ids[n].sk ELSE None

\* "There is no keystore backup anywhere": unless a command saved a copy that
\* another's save had made stale, every private key a command reported as
\* created can be got back from the file with the password last set, and that
\* password is accepted.  So can every contact.
KeysSurvive == ~lost =>
    /\ \A n \in Names : owner[n] # None => Recovered(disk, n, password) = owner[n]
    /\ disk.encrypted => Verifies(disk, [pw |-> password, salt |-> disk.salt])
    /\ contacts \subseteq disk.contacts

\* A private key that is encrypted on disk does not come back in the clear,
\* unless a stale copy is saved.
StaysEncrypted ==
    [][~lost' => \A n \in Present(disk) :
          disk.ids[n].under # NoKey => disk'.ids[n].under # NoKey]_vars

\* docs/agent/spec.md:54: the nsec in keystore.json is encrypted (of a store
\* that has a password).
NoPlainKey == disk.encrypted => \A n \in Present(disk) : disk.ids[n].under # NoKey

=============================================================================
