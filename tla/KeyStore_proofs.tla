--------------------------- MODULE KeyStore_proofs ---------------------------
(***************************************************************************)
(* Theorems about KeyStore, for any number of commands, nicknames and      *)
(* passwords.                                                              *)
(*                                                                         *)
(* Every keystore there is, the file and the copies in memory, is sound;   *)
(* whatever is saved is then sound too.  A copy no other save has made     *)
(* stale says what the file says, so that a command that saves such a copy *)
(* takes nothing away.                                                     *)
(***************************************************************************)
EXTENDS KeyStore, TLAPS

\* A keystore with its types, a default that exists, and one key behind it.
Sound(ks) ==
    /\ ks \in Stores
    /\ ks.default \in Present(ks) \cup {None}
    /\ UnderOneKey(ks)

\* The variables that the file and the processes are made of.
FilesOK ==
    /\ Sound(disk)
    /\ copy \in [Commands -> Stores]
    /\ \A p \in Commands : Sound(copy[p])
    /\ pc \in [Commands -> Places]
    /\ job \in [Commands -> Jobs \cup {None}]
    /\ master \in [Commands -> Keys \cup {NoKey}]
    /\ stale \subseteq Commands
    /\ lost \in BOOLEAN

\* What was acknowledged to the users.
AcknowledgedOK ==
    /\ owner \in [Names -> Secrets \cup {None}]
    /\ contacts \subseteq Names
    /\ password \in Passwords \cup {None}

SoundInv == FilesOK /\ AcknowledgedOK

\* Two keystores that differ at most in the form of the token.
Same(a, b) ==
    /\ a.encrypted = b.encrypted
    /\ a.salt = b.salt
    /\ a.token.under = b.token.under
    /\ a.ids = b.ids
    /\ a.contacts = b.contacts
    /\ a.default = b.default

\* A copy that is not stale is what the file is.
Current == \A p \in Holding \ stale : Same(copy[p], disk)

\* ks gives back everything that was acknowledged.
Faithful(ks) ==
    /\ \A n \in Names : owner[n] # None => Recovered(ks, n, password) = owner[n]
    /\ ks.encrypted => Verifies(ks, [pw |-> password, salt |-> ks.salt])
    /\ contacts \subseteq ks.contacts

\* The inductive invariant of KeysSurvive.
SurvivalInv == SoundInv /\ Current /\ (~lost => Faithful(disk))

-----------------------------------------------------------------------------
(* What the commands make of a sound keystore is sound.                    *)

\* The name of nobody is nobody's.
LEMMA NoneIsNobody == None \notin Secrets /\ None \notin Passwords /\ None \notin Names
BY KeyStoreAssumption DEF Secrets, None

\* No key is the absence of a key.
LEMMA KeysAreKeys == NoKey \notin Keys
BY NoneIsNobody DEF Keys, NoKey

\* Before the first identity there is nothing, soundly.
LEMMA EmptySound == Sound(Empty)
<1>1. Empty \in Stores
  BY DEF Empty, Stores, NoBlob, Blobs
<1>2. Present(Empty) = {}
  BY DEF Present, Empty, NoBlob
<1> QED
  BY <1>1, <1>2 DEF Sound, UnderOneKey, Empty

\* createVerification gives a typed store whose token and salt are the key's.
LEMMA LockedType ==
    ASSUME NEW ks \in Stores, NEW key \in Keys
    PROVE  /\ Locked(ks, key) \in Stores
           /\ Locked(ks, key).encrypted
           /\ Locked(ks, key).salt = key.salt
           /\ Locked(ks, key).token = [under |-> key, legacy |-> FALSE]
           /\ Locked(ks, key).ids = ks.ids
           /\ Locked(ks, key).contacts = ks.contacts
           /\ Locked(ks, key).default = ks.default
BY DEF Locked, Stores, Keys

\* The parts of what CreateIdentity makes of a store.
LEMMA CreatedParts ==
    ASSUME NEW ks \in Stores, NEW n \in Names, NEW p \in Commands,
           NEW pw \in Passwords \cup {None}
    PROVE  LET key == [pw |-> pw, salt |-> p]
               new == Created(ks, n, p, pw)
           IN  /\ new \in Stores
               /\ new.ids = [ks.ids EXCEPT ![n] =
                                [sk |-> p, under |-> IF pw = None THEN NoKey ELSE key]]
               /\ new.default = IF ks.default = None THEN n ELSE ks.default
               /\ new.contacts = ks.contacts
               /\ pw = None => /\ new.encrypted = ks.encrypted
                               /\ new.salt = ks.salt
                               /\ new.token = ks.token
               /\ pw # None => /\ new.encrypted
                               /\ new.salt = p
                               /\ new.token = [under |-> key, legacy |-> FALSE]
<1> DEFINE key   == [pw |-> pw, salt |-> p]
           under == IF pw = None THEN NoKey ELSE key
           store == IF pw = None THEN ks ELSE Locked(ks, key)
           ids   == [ks.ids EXCEPT ![n] = [sk |-> p, under |-> under]]
           def   == IF ks.default = None THEN n ELSE ks.default
           new   == [store EXCEPT !.ids = ids, !.default = def]
<1>1. p \in Secrets
  BY DEF Secrets
<1>2. pw # None => key \in Keys
  BY <1>1 DEF Keys
<1>3. /\ store \in Stores
      /\ store.ids = ks.ids
      /\ store.default = ks.default
      /\ store.contacts = ks.contacts
  <2>1. CASE pw = None
    BY <2>1
  <2>2. CASE pw # None
    BY <2>2, <1>2, LockedType
  <2> QED
    BY <2>1, <2>2
<1>4. pw # None => store.encrypted /\ store.salt = p
                   /\ store.token = [under |-> key, legacy |-> FALSE]
  BY <1>2, LockedType
<1>5. [sk |-> p, under |-> under] \in Blobs
  BY <1>1, <1>2 DEF Blobs
<1>6. ids \in [Names -> Blobs \cup {NoBlob}]
  BY <1>5 DEF Stores
<1>7. def \in Names \cup {None}
  BY DEF Stores
<1>8. Created(ks, n, p, pw) = [[store EXCEPT !.ids = [store.ids EXCEPT ![n] = [sk |-> p, under |-> under]]]
                                  EXCEPT !.default = def]
  BY DEF Created
<1>9. Created(ks, n, p, pw) = new
  BY <1>3, <1>8 DEF Stores
<1> HIDE DEF key, under, store, ids, def
<1>10. /\ new \in Stores
       /\ new.ids = ids
       /\ new.default = def
       /\ new.contacts = store.contacts
       /\ new.encrypted = store.encrypted
       /\ new.salt = store.salt
       /\ new.token = store.token
  BY <1>3, <1>6, <1>7 DEF Stores
<1> QED
  BY <1>3, <1>4, <1>9, <1>10 DEF key, under, store, ids, def

\* CreateIdentity encrypts only in a store that was plain.
LEMMA CreatedSound ==
    ASSUME NEW ks, Sound(ks), NEW n \in Names, NEW p \in Commands,
           NEW pw \in Passwords \cup {None}, ks.encrypted => pw = None
    PROVE  Sound(Created(ks, n, p, pw))
<1> DEFINE key == [pw |-> pw, salt |-> p]
           new == Created(ks, n, p, pw)
<1>1. ks \in Stores
  BY DEF Sound
<1>2. p \in Secrets /\ p # None
  BY NoneIsNobody DEF Secrets
<1>3. pw # None => key \in Keys
  BY <1>2 DEF Keys
<1>4. /\ new \in Stores
      /\ new.ids = [ks.ids EXCEPT ![n] =
                       [sk |-> p, under |-> IF pw = None THEN NoKey ELSE key]]
      /\ new.default = IF ks.default = None THEN n ELSE ks.default
      /\ pw = None => /\ new.encrypted = ks.encrypted
                      /\ new.salt = ks.salt
                      /\ new.token = ks.token
      /\ pw # None => /\ new.encrypted
                      /\ new.salt = p
                      /\ new.token = [under |-> key, legacy |-> FALSE]
  BY <1>1, CreatedParts
<1>5. ks.ids \in [Names -> Blobs \cup {NoBlob}]
  BY <1>1 DEF Stores
<1> HIDE DEF new, key
<1>6. Present(new) = Present(ks) \cup {n}
  BY <1>2, <1>4, <1>5 DEF Present
<1>7. new.default \in Present(new) \cup {None}
  BY <1>4, <1>6 DEF Sound
<1>8. UnderOneKey(new)
  <2>1. CASE pw = None
    BY <2>1, <1>4, <1>5, <1>6 DEF Sound, UnderOneKey
  <2>2. CASE pw # None
    <3>1. \A m \in Present(ks) : ks.ids[m].under = NoKey
      BY <2>2 DEF Sound, UnderOneKey
    <3>2. new.token.under = key /\ new.token.under.salt = new.salt /\ new.encrypted
      BY <2>2, <1>4 DEF key
    <3>3. \A m \in Present(new) : new.ids[m].under \in {NoKey, key}
      BY <2>2, <3>1, <1>4, <1>5, <1>6
    <3> QED
      BY <3>2, <3>3, <1>3, <2>2 DEF UnderOneKey
  <2> QED
    BY <2>1, <2>2
<1> QED
  BY <1>4, <1>7, <1>8 DEF Sound, new

\* ChangePassword: the private keys as they were, all under the new key.
LEMMA ReencryptedParts ==
    ASSUME NEW ks \in Stores, NEW key \in Keys
    PROVE  LET new == Reencrypted(ks, key)
           IN  /\ new \in Stores
               /\ new.encrypted
               /\ new.salt = key.salt
               /\ new.token = [under |-> key, legacy |-> FALSE]
               /\ \A n \in Names : new.ids[n].sk = ks.ids[n].sk
               /\ \A n \in Present(ks) : new.ids[n].under = key
               /\ Present(new) = Present(ks)
               /\ new.contacts = ks.contacts
               /\ new.default = ks.default
<1> DEFINE blob(n) == IF n \in Present(ks) THEN [sk |-> ks.ids[n].sk, under |-> key] ELSE NoBlob
           ids     == [n \in Names |-> blob(n)]
           store   == Locked(ks, key)
           new     == [store EXCEPT !.ids = ids]
<1>1. ks.ids \in [Names -> Blobs \cup {NoBlob}]
  BY DEF Stores
<1>2. ASSUME NEW n \in Names
      PROVE  /\ blob(n) \in Blobs \cup {NoBlob}
             /\ blob(n).sk = ks.ids[n].sk
             /\ n \in Present(ks) => blob(n).under = key
  <2>1. CASE n \in Present(ks)
    <3>1. ks.ids[n] \in Blobs
      BY <1>1, <2>1 DEF Present, NoBlob
    <3> QED
      BY <2>1, <3>1 DEF Blobs
  <2>2. CASE n \notin Present(ks)
    BY <2>2 DEF Present, NoBlob
  <2> QED
    BY <2>1, <2>2
<1>3. ids \in [Names -> Blobs \cup {NoBlob}]
  BY <1>2
<1>4. /\ store \in Stores
      /\ store.encrypted
      /\ store.salt = key.salt
      /\ store.token = [under |-> key, legacy |-> FALSE]
      /\ store.contacts = ks.contacts
      /\ store.default = ks.default
  BY LockedType
<1>5. Reencrypted(ks, key) = new
  BY DEF Reencrypted
<1> HIDE DEF ids, store
<1>6. /\ new \in Stores
      /\ new.ids = ids
      /\ new.encrypted = store.encrypted
      /\ new.salt = store.salt
      /\ new.token = store.token
      /\ new.contacts = store.contacts
      /\ new.default = store.default
  BY <1>3, <1>4 DEF Stores
<1>7. \A n \in Names : ids[n] = blob(n)
  BY DEF ids
<1> HIDE DEF blob, new
<1>8. Present(new) = Present(ks)
  BY <1>2, <1>6, <1>7 DEF Present
<1>9. \A n \in Present(ks) : n \in Names
  BY DEF Present
<1> QED
  BY <1>2, <1>4, <1>5, <1>6, <1>7, <1>8, <1>9

\* ... which is one key.
LEMMA ReencryptedSound ==
    ASSUME NEW ks, Sound(ks), NEW key \in Keys
    PROVE  Sound(Reencrypted(ks, key))
<1> DEFINE new == Reencrypted(ks, key)
<1>1. ks \in Stores
  BY DEF Sound
<1>2. /\ new \in Stores
      /\ new.encrypted
      /\ new.salt = key.salt
      /\ new.token = [under |-> key, legacy |-> FALSE]
      /\ \A n \in Present(ks) : new.ids[n].under = key
      /\ Present(new) = Present(ks)
      /\ new.default = ks.default
  BY <1>1, ReencryptedParts
<1> HIDE DEF new
<1>3. UnderOneKey(new)
  BY <1>2 DEF UnderOneKey
<1> QED
  BY <1>2, <1>3 DEF Sound, new

\* Another default that exists, another contact.
LEMMA EditedSound ==
    ASSUME NEW ks, Sound(ks), NEW n \in Names
    PROVE  /\ n \in Present(ks) => Sound([ks EXCEPT !.default = n])
           /\ Sound([ks EXCEPT !.contacts = @ \cup {n}])
<1>1. ks \in Stores
  BY DEF Sound
<1>2. ASSUME n \in Present(ks) PROVE Sound([ks EXCEPT !.default = n])
  <2> DEFINE new == [ks EXCEPT !.default = n]
  <2>1. /\ new \in Stores
        /\ new.encrypted = ks.encrypted
        /\ new.salt = ks.salt
        /\ new.token = ks.token
        /\ new.ids = ks.ids
        /\ new.default = n
    BY <1>1 DEF Stores
  <2> HIDE DEF new
  <2>2. Present(new) = Present(ks)
    BY <2>1 DEF Present
  <2> QED
    BY <1>2, <2>1, <2>2 DEF Sound, UnderOneKey, new
<1>3. Sound([ks EXCEPT !.contacts = @ \cup {n}])
  <2> DEFINE new == [ks EXCEPT !.contacts = @ \cup {n}]
  <2>1. /\ new \in Stores
        /\ new.encrypted = ks.encrypted
        /\ new.salt = ks.salt
        /\ new.token = ks.token
        /\ new.ids = ks.ids
        /\ new.default = ks.default
    BY <1>1 DEF Stores
  <2> HIDE DEF new
  <2>2. Present(new) = Present(ks)
    BY <2>1 DEF Present
  <2> QED
    BY <2>1, <2>2 DEF Sound, UnderOneKey, new
<1> QED
  BY <1>2, <1>3

\* Another form of the token.
LEMMA UpgradedSound ==
    ASSUME NEW ks, Sound(ks)
    PROVE  Sound([ks EXCEPT !.token.legacy = FALSE])
<1> DEFINE new == [ks EXCEPT !.token.legacy = FALSE]
<1>1. /\ new \in Stores
      /\ new.encrypted = ks.encrypted
      /\ new.salt = ks.salt
      /\ new.token.under = ks.token.under
      /\ new.ids = ks.ids
      /\ new.default = ks.default
  BY DEF Sound, Stores
<1> HIDE DEF new
<1>2. Present(new) = Present(ks)
  BY <1>1 DEF Present
<1> QED
  BY <1>1, <1>2 DEF Sound, UnderOneKey, new

-----------------------------------------------------------------------------
(* Steps that finish, that only move, and that save.                       *)

\* A process that finishes leaves nothing behind but the file.
LEMMA FinishOK ==
    ASSUME FilesOK, NEW p \in Commands, Finish(p)
    PROVE  /\ pc' \in [Commands -> Places]
           /\ copy' \in [Commands -> Stores]
           /\ \A q \in Commands : Sound(copy'[q])
           /\ master' \in [Commands -> Keys \cup {NoKey}]
<1>1. Empty \in Stores
  BY EmptySound DEF Sound
<1> QED
  BY <1>1, EmptySound DEF FilesOK, Finish, Goto, Places

\* So does one that gives up.
LEMMA EndsOK ==
    ASSUME FilesOK, NEW p \in Commands, Ends(p)
    PROVE  FilesOK'
BY FinishOK DEF FilesOK, Ends

\* A sound store is saved, by a command that ends or goes on with it.
LEMMA SaveAsOK ==
    ASSUME FilesOK, NEW p \in Commands, NEW ks, Sound(ks),
           NEW place \in {"default", "done"}, SaveAs(p, ks, place)
    PROVE  FilesOK'
<1>1. disk' = ks /\ lost' \in BOOLEAN /\ stale' \subseteq Commands /\ job' = job
  BY DEF SaveAs, Save, Holding
<1>2. CASE place = "done"
  BY <1>1, <1>2, FinishOK DEF SaveAs, FilesOK
<1>3. CASE place # "done"
  <2>1. /\ Goto(p, place)
        /\ copy' = [copy EXCEPT ![p] = ks]
        /\ UNCHANGED master
    BY <1>3 DEF SaveAs
  <2>2. ks \in Stores
    BY DEF Sound
  <2> QED
    BY <1>1, <2>1, <2>2 DEF FilesOK, Goto, Places
<1> QED
  BY <1>2, <1>3

-----------------------------------------------------------------------------
(* The types and the one key.                                              *)

\* keystore.json as it is at first: plain, or with one key behind it.
LEMMA InitParts ==
    ASSUME Init
    PROVE  /\ disk \in Stores
           /\ password \in Passwords \cup {None}
           /\ \E ns \in SUBSET Names, key \in Keys :
                 /\ disk.default \in ns \cup {None}
                 /\ \A n \in ns : disk.ids[n].sk = "old"
                 /\ \A n \in Names \ ns : disk.ids[n] = NoBlob
                 /\ \/ /\ ~disk.encrypted
                       /\ \A n \in ns : disk.ids[n].under = NoKey
                    \/ /\ disk.encrypted
                       /\ key = [pw |-> password, salt |-> disk.salt]
                       /\ disk.token.under = key
                       /\ \A n \in ns : disk.ids[n].under = key
<1>1. PICK ns \in SUBSET Names, pw \in Passwords, legacy \in BOOLEAN :
          LET key == [pw |-> pw, salt |-> "old"]
              Old(k) == [n \in Names |-> IF n \in ns THEN [sk |-> "old", under |-> k] ELSE NoBlob]
              plain == [Empty EXCEPT !.ids = Old(NoKey)]
              coded == [Locked(Empty, key) EXCEPT !.ids = Old(key), !.token.legacy = legacy]
          IN  \E store \in {plain, coded}, n \in ns \cup {None} :
                 /\ n = None <=> ns = {}
                 /\ disk = [store EXCEPT !.default = n]
                 /\ password = IF store = coded THEN pw ELSE None
  BY DEF Init
<1> DEFINE key == [pw |-> pw, salt |-> "old"]
           Old(k) == [n \in Names |-> IF n \in ns THEN [sk |-> "old", under |-> k] ELSE NoBlob]
           plain == [Empty EXCEPT !.ids = Old(NoKey)]
           coded == [Locked(Empty, key) EXCEPT !.ids = Old(key), !.token.legacy = legacy]
<1>2. PICK store \in {plain, coded}, d \in ns \cup {None} :
          /\ disk = [store EXCEPT !.default = d]
          /\ password = IF store = coded THEN pw ELSE None
  BY <1>1
<1>3. key \in Keys /\ "old" \in Secrets
  BY DEF Keys, Secrets
<1>4. Empty \in Stores
  BY EmptySound DEF Sound
<1>5. ASSUME NEW k \in {key, NoKey}
      PROVE  /\ Old(k) \in [Names -> Blobs \cup {NoBlob}]
             /\ \A n \in ns : Old(k)[n].under = k /\ Old(k)[n].sk = "old"
             /\ \A n \in Names \ ns : Old(k)[n] = NoBlob
  BY <1>3 DEF Blobs
<1> HIDE DEF Old
<1>6. CASE store = coded
  <2>1. /\ Locked(Empty, key) \in Stores
        /\ Locked(Empty, key).encrypted
        /\ Locked(Empty, key).salt = key.salt
        /\ Locked(Empty, key).token = [under |-> key, legacy |-> FALSE]
    BY <1>3, <1>4, LockedType
  <2> DEFINE locked == Locked(Empty, key)
             filled == [locked EXCEPT !.ids = Old(key)]
  <2>2. password = key.pw /\ key.salt = "old"
    BY <1>2, <1>6
  <2> HIDE DEF key, locked
  <2>3. coded = [filled EXCEPT !.token.legacy = legacy]
    BY DEF key, locked
  <2>4. /\ filled \in Stores
        /\ filled.ids = Old(key)
        /\ filled.encrypted
        /\ filled.salt = key.salt
        /\ filled.token.under = key
    BY <1>5, <2>1 DEF Stores, locked
  <2> HIDE DEF filled, coded
  <2>5. /\ disk \in Stores
        /\ disk.ids = Old(key)
        /\ disk.default = d
        /\ disk.encrypted
        /\ disk.salt = key.salt
        /\ disk.token.under = key
    BY <1>2, <1>6, <2>3, <2>4 DEF Stores
  <2>6. key = [pw |-> password, salt |-> disk.salt]
    BY <2>2, <2>5 DEF key
  <2>7. password \in Passwords
    BY <2>2 DEF key
  <2>8. /\ \A n \in ns : disk.ids[n].sk = "old" /\ disk.ids[n].under = key
        /\ \A n \in Names \ ns : disk.ids[n] = NoBlob
    BY <1>5, <2>5
  <2> QED
    BY <1>3, <2>5, <2>6, <2>7, <2>8
<1>7. CASE store # coded
  <2>1. /\ disk \in Stores
        /\ disk.ids = Old(NoKey)
        /\ disk.default = d
        /\ disk.encrypted = FALSE
        /\ password = None
    BY <1>2, <1>4, <1>5, <1>7 DEF Stores, Empty
  <2> HIDE DEF key
  <2> QED
    BY <1>3, <1>5, <2>1
<1> QED
  BY <1>6, <1>7

\* Whatever keystore.json there is at first, it is sound.
LEMMA InitSound == Init => SoundInv
<1> SUFFICES ASSUME Init PROVE SoundInv
  OBVIOUS
<1>1. disk \in Stores /\ password \in Passwords \cup {None}
  BY InitParts
<1>2. PICK ns \in SUBSET Names, key \in Keys :
          /\ disk.default \in ns \cup {None}
          /\ \A n \in ns : disk.ids[n].sk = "old"
          /\ \A n \in Names \ ns : disk.ids[n] = NoBlob
          /\ \/ /\ ~disk.encrypted
                /\ \A n \in ns : disk.ids[n].under = NoKey
             \/ /\ disk.encrypted
                /\ key = [pw |-> password, salt |-> disk.salt]
                /\ disk.token.under = key
                /\ \A n \in ns : disk.ids[n].under = key
  BY InitParts
<1>3. Present(disk) = ns
  BY <1>2, NoneIsNobody DEF Present, NoBlob, Secrets
<1>4. Sound(disk)
  BY <1>1, <1>2, <1>3 DEF Sound, UnderOneKey
<1>5. owner \in [Names -> Secrets \cup {None}]
  <2>1. \A n \in Names : disk.ids[n] \in Blobs \cup {NoBlob}
    BY <1>1 DEF Stores
  <2>2. \A n \in Names : disk.ids[n].sk \in Secrets \cup {None}
    BY <2>1 DEF Blobs, NoBlob
  <2> QED
    BY <2>2 DEF Init
<1>6. FilesOK
  <2>1. Empty \in Stores
    BY EmptySound DEF Sound
  <2> QED
    BY <1>4, <2>1, EmptySound DEF Init, FilesOK, Places
<1> QED
  BY <1>1, <1>5, <1>6 DEF Init, SoundInv, AcknowledgedOK

\* A command that has the right password has the one key.
LEMMA UnlockSound ==
    ASSUME SoundInv, NEW p \in Commands, NEW pw \in Passwords, Unlock(p, pw)
    PROVE  SoundInv'
<1> DEFINE key == [pw |-> pw, salt |-> copy[p].salt]
<1>1. copy[p] \in Stores /\ Sound(copy[p])
  BY DEF SoundInv, FilesOK
<1>2. key \in Keys
  <2>1. copy[p].token.under \in Keys \cup {NoKey}
    BY <1>1 DEF Stores
  <2>2. copy[p].token.under = key
    BY DEF Unlock, Verifies
  <2>3. key.pw # None
    BY NoneIsNobody
  <2>4. key # NoKey
    BY <2>3 DEF NoKey
  <2> HIDE DEF key
  <2> QED
    BY <2>1, <2>2, <2>4
<1>3. CASE copy[p].token.legacy
  <2>1. /\ Goto(p, "upgrade")
        /\ copy' = [copy EXCEPT ![p] = [copy[p] EXCEPT !.token.legacy = FALSE]]
        /\ master' = [master EXCEPT ![p] = key]
        /\ UNCHANGED <<disk, job, stale, lost, owner, contacts, password>>
    BY <1>3 DEF Unlock, SoundInv, FilesOK
  <2> DEFINE new == [copy[p] EXCEPT !.token.legacy = FALSE]
  <2>2. Sound(new)
    BY <1>1, UpgradedSound
  <2>3. new \in Stores
    BY <2>2 DEF Sound
  <2> HIDE DEF key, new
  <2> QED
    BY <1>2, <2>1, <2>2, <2>3 DEF SoundInv, FilesOK, AcknowledgedOK, Goto, Places, new
<1>4. CASE ~copy[p].token.legacy /\ job[p] = "open"
  BY <1>4, EndsOK DEF Unlock, Ends, SoundInv, AcknowledgedOK
<1>5. CASE ~copy[p].token.legacy /\ job[p] # "open"
  <2>1. /\ Goto(p, "work")
        /\ master' = [master EXCEPT ![p] = key]
        /\ UNCHANGED <<disk, job, copy, stale, lost, owner, contacts, password>>
    BY <1>5 DEF Unlock
  <2> HIDE DEF key
  <2> QED
    BY <1>2, <2>1 DEF SoundInv, FilesOK, AcknowledgedOK, Goto, Places
<1> QED
  BY <1>3, <1>4, <1>5

\* Loading takes what is on disk.
LEMMA LoadSound ==
    ASSUME SoundInv, NEW p \in Commands, NEW c \in Jobs, Load(p, c) \/ Unreadable(p, c)
    PROVE  SoundInv'
<1>1. CASE Unreadable(p, c)
  BY <1>1 DEF SoundInv, FilesOK, AcknowledgedOK, Unreadable, Goto, Places
<1>2. CASE Load(p, c) /\ c = "open" /\ ~disk.encrypted
  BY <1>2, FinishOK DEF SoundInv, FilesOK, AcknowledgedOK, Load
<1>3. CASE Load(p, c) /\ ~(c = "open" /\ ~disk.encrypted)
  <2>1. disk \in Stores
    BY DEF SoundInv, FilesOK, Sound
  <2>2. PICK place \in {"unlock", "work"} : Goto(p, place)
    BY <1>3 DEF Load
  <2> QED
    BY <1>3, <2>1, <2>2 DEF SoundInv, FilesOK, AcknowledgedOK, Load, Goto, Places
<1> QED
  BY <1>1, <1>2, <1>3

\* So does the rewriting of an old token, whether or not it is saved.
LEMMA UpgradeSound ==
    ASSUME SoundInv, NEW p \in Commands, Upgrade(p)
    PROVE  SoundInv'
<1>1. /\ Sound(disk') /\ lost' \in BOOLEAN /\ stale' \subseteq Commands
      /\ UNCHANGED <<job, owner, contacts, password>>
  BY DEF Upgrade, Save, Holding, SoundInv, FilesOK
<1>2. CASE job[p] = "open"
  BY <1>1, <1>2, FinishOK DEF Upgrade, SoundInv, FilesOK, AcknowledgedOK
<1>3. CASE job[p] # "open"
  BY <1>1, <1>3 DEF Upgrade, SoundInv, FilesOK, AcknowledgedOK, Goto, Places
<1> QED
  BY <1>2, <1>3

\* Every command leaves everything sound.
LEMMA CommandSound ==
    ASSUME SoundInv, NEW p \in Commands, Command(p)
    PROVE  SoundInv'
<1> USE DEF SoundInv
<1>1. Sound(copy[p]) /\ copy[p] \in Stores /\ p \in Secrets
  BY DEF FilesOK, Secrets
<1>2. ASSUME NEW c \in Jobs, Load(p, c) \/ Unreadable(p, c) PROVE SoundInv'
  BY <1>2, LoadSound
<1>3. ASSUME NEW pw \in Passwords, Unlock(p, pw) PROVE SoundInv'
  BY <1>3, UnlockSound
<1>4. ASSUME NEW pw \in Passwords, Refuse(p, pw) PROVE SoundInv'
  BY <1>4, EndsOK DEF Refuse, Ends, AcknowledgedOK
<1>5. ASSUME NEW pw \in Passwords, ChangePassword(p, pw) PROVE SoundInv'
  <2> DEFINE key == [pw |-> pw, salt |-> p]
  <2>1. key \in Keys
    BY <1>1 DEF Keys
  <2>2. Sound(Reencrypted(copy[p], key))
    BY <1>1, <2>1, ReencryptedSound
  <2>3. SaveAs(p, Reencrypted(copy[p], key), "done")
    BY <1>5 DEF ChangePassword
  <2>4. FilesOK'
    BY <2>2, <2>3, SaveAsOK
  <2> QED
    BY <1>5, <2>4 DEF ChangePassword, AcknowledgedOK
<1>6. ASSUME Upgrade(p) PROVE SoundInv'
  BY <1>6, UpgradeSound
<1>7. ASSUME CreateDefault(p) PROVE SoundInv'
  <2>1. PICK n \in Names : /\ copy[p].ids[n].sk = p
                           /\ SaveAs(p, [copy[p] EXCEPT !.default = n], "done")
    BY <1>7 DEF CreateDefault
  <2>2. n \in Present(copy[p])
    BY <1>1, <2>1, NoneIsNobody DEF Present
  <2>3. Sound([copy[p] EXCEPT !.default = n])
    BY <1>1, <2>2, EditedSound
  <2>4. FilesOK'
    BY <2>1, <2>3, SaveAsOK
  <2> QED
    BY <1>7, <2>4 DEF CreateDefault, AcknowledgedOK
<1>8. ASSUME GiveUp(p) PROVE SoundInv'
  BY <1>8, EndsOK DEF GiveUp, Ends, AcknowledgedOK
<1>9. ASSUME NEW n \in Names, Use(p, n) PROVE SoundInv'
  <2>1. Sound([copy[p] EXCEPT !.default = n])
    BY <1>1, <1>9, EditedSound DEF Use
  <2>2. FilesOK'
    BY <1>9, <2>1, SaveAsOK DEF Use
  <2> QED
    BY <1>9, <2>2 DEF Use, AcknowledgedOK
<1>10. ASSUME NEW n \in Names, AddContact(p, n) PROVE SoundInv'
  <2>1. Sound([copy[p] EXCEPT !.contacts = @ \cup {n}])
    BY <1>1, EditedSound
  <2>2. FilesOK'
    BY <1>10, <2>1, SaveAsOK DEF AddContact
  <2> QED
    BY <1>10, <2>2 DEF AddContact, AcknowledgedOK
<1>11. ASSUME NEW n \in Names, NEW pw \in Passwords \cup {None}, Create(p, n, pw) PROVE SoundInv'
  <2>1. PICK place \in {"default", "done"} : SaveAs(p, Created(copy[p], n, p, pw), place)
    BY <1>11 DEF Create
  <2>2. Sound(Created(copy[p], n, p, pw))
    BY <1>1, <1>11, CreatedSound DEF Create
  <2>3. FilesOK'
    BY <2>1, <2>2, SaveAsOK
  <2> QED
    BY <1>1, <1>11, <2>3 DEF Create, AcknowledgedOK
<1> QED
  BY <1>2, <1>3, <1>4, <1>5, <1>6, <1>7, <1>8, <1>9, <1>10, <1>11 DEF Command

\* A step of nothing keeps everything sound.
LEMMA SoundStutter == SoundInv /\ UNCHANGED vars => SoundInv'
BY DEF SoundInv, FilesOK, AcknowledgedOK, vars

\* SoundInv is inductive.
LEMMA SoundStep == SoundInv /\ [Next]_vars => SoundInv'
BY CommandSound, SoundStutter DEF Next

\* The types of KeyStore hold in every state.
THEOREM TypesHold == Spec => []TypeOK
<1>1. SoundInv => TypeOK
  BY DEF SoundInv, FilesOK, AcknowledgedOK, Sound, TypeOK
<1> QED
  BY InitSound, SoundStep, <1>1, PTL DEF Spec

\* One password opens keystore.json and all that is encrypted in it.
THEOREM OneKey == Spec => []OneKeyOpensAll
<1>1. SoundInv => OneKeyOpensAll
  BY DEF SoundInv, FilesOK, Sound, OneKeyOpensAll
<1> QED
  BY InitSound, SoundStep, <1>1, PTL DEF Spec

-----------------------------------------------------------------------------
(* Nothing acknowledged is lost.                                           *)

\* The form of the token makes no difference to what a keystore gives back.
LEMMA SameFaithful ==
    ASSUME NEW a, NEW b, Same(a, b), Faithful(b)
    PROVE  Faithful(a)
BY DEF Same, Faithful, Recovered, Verifies

\* At first the file is all there is.
LEMMA InitSurvival == Init => SurvivalInv
<1> SUFFICES ASSUME Init PROVE SurvivalInv
  OBVIOUS
<1>1. SoundInv
  BY InitSound
<1>2. Current
  BY DEF Init, Current, Holding
<1>3. Faithful(disk)
  <2>1. PICK ns \in SUBSET Names, key \in Keys :
            /\ \A n \in ns : disk.ids[n].sk = "old"
            /\ \A n \in Names \ ns : disk.ids[n] = NoBlob
            /\ \/ /\ ~disk.encrypted
                  /\ \A n \in ns : disk.ids[n].under = NoKey
               \/ /\ disk.encrypted
                  /\ key = [pw |-> password, salt |-> disk.salt]
                  /\ disk.token.under = key
                  /\ \A n \in ns : disk.ids[n].under = key
    BY InitParts
  <2>2. contacts = {} /\ \A n \in Names : owner[n] = disk.ids[n].sk
    BY DEF Init
  <2> QED
    BY <2>1, <2>2 DEF Faithful, Recovered, Verifies, NoBlob
<1> QED
  BY <1>1, <1>2, <1>3 DEF SurvivalInv

\* A save makes every other copy stale.
LEMMA SaveAsCurrent ==
    ASSUME SoundInv, NEW p \in Commands, NEW ks, NEW place \in {"default", "done"},
           SaveAs(p, ks, place)
    PROVE  Current'
<1> SUFFICES ASSUME NEW q \in Holding', q \notin stale' PROVE Same(copy[q], disk)'
  BY DEF Current
<1>1. disk' = ks /\ stale' = Holding \ {p}
  BY DEF SaveAs, Save
<1>2. pc' = [pc EXCEPT ![p] = place]
  BY DEF SaveAs, Finish, Goto
<1>3. q = p
  BY <1>1, <1>2 DEF Holding, SoundInv, FilesOK
<1>4. place # "done"
  BY <1>2, <1>3 DEF Holding, SoundInv, FilesOK
<1>5. copy' = [copy EXCEPT ![p] = ks]
  BY <1>4 DEF SaveAs
<1>6. copy'[q] = ks
  BY <1>3, <1>5 DEF SoundInv, FilesOK
<1> QED
  BY <1>1, <1>6 DEF Same

\* Who saves and makes nothing stale vanish had what the file says.
LEMMA SaverCurrent ==
    ASSUME SurvivalInv, NEW p \in Holding, NEW ks, Save(p, ks), ~lost'
    PROVE  ~lost /\ Faithful(disk) /\ Same(copy[p], disk) /\ disk' = ks
BY DEF SurvivalInv, Save, Current, SoundInv, FilesOK, Holding

\* Steps that leave the file alone, and copies as they are or as the file is.
LEMMA QuietSurvival ==
    ASSUME SurvivalInv, NEW p \in Commands, SoundInv',
           UNCHANGED <<disk, lost, owner, contacts, password>>,
           stale' \in {stale, stale \ {p}},
           \A q \in Commands \ {p} : copy'[q] = copy[q] /\ pc'[q] = pc[q],
           p \in Holding' => Same(copy[p], disk)' \/ p \in stale'
    PROVE  SurvivalInv'
<1>1. Current'
  <2> SUFFICES ASSUME NEW q \in Holding', q \notin stale' PROVE Same(copy[q], disk)'
    BY DEF Current
  <2>1. CASE q = p
    BY <2>1
  <2>2. CASE q # p
    <3>1. q \in Holding \ stale
      BY <2>2 DEF Holding
    <3> QED
      BY <2>2, <3>1 DEF Current, SurvivalInv, Same, Holding
  <2> QED
    BY <2>1, <2>2
<1>2. ~lost' => Faithful(disk)'
  BY DEF SurvivalInv, Faithful, Recovered, Verifies
<1> QED
  BY <1>1, <1>2 DEF SurvivalInv

\* A process that ends without saving.
LEMMA EndsSurvival ==
    ASSUME SurvivalInv, SoundInv', NEW p \in Commands, Ends(p)
    PROVE  SurvivalInv'
<1>1. /\ UNCHANGED <<disk, lost, owner, contacts, password>>
      /\ stale' = stale \ {p}
      /\ \A q \in Commands \ {p} : copy'[q] = copy[q] /\ pc'[q] = pc[q]
      /\ p \notin Holding'
  BY DEF Ends, Finish, Goto, Holding, SurvivalInv, SoundInv, FilesOK
<1> QED
  BY <1>1, QuietSurvival

\* Unlocking changes at most the form of the token in a copy.
LEMMA UnlockSurvival ==
    ASSUME SurvivalInv, SoundInv', NEW p \in Commands, NEW pw \in Passwords, Unlock(p, pw)
    PROVE  SurvivalInv'
<1>1. pc[p] = "unlock" /\ p \in Holding
  BY DEF Unlock, Holding
<1>2. CASE copy[p].token.legacy
  <2>1. /\ Goto(p, "upgrade")
        /\ copy' = [copy EXCEPT ![p] = [copy[p] EXCEPT !.token.legacy = FALSE]]
        /\ UNCHANGED <<disk, job, stale, lost, owner, contacts, password>>
    BY <1>2 DEF Unlock, SurvivalInv, SoundInv, FilesOK
  <2>2. copy[p] \in Stores
    BY DEF SurvivalInv, SoundInv, FilesOK
  <2>3. copy'[p] = [copy[p] EXCEPT !.token.legacy = FALSE]
    BY <2>1 DEF SurvivalInv, SoundInv, FilesOK
  <2>4. Same(copy'[p], copy[p])
    BY <2>2, <2>3 DEF Same, Stores
  <2>5. p \in stale \/ Same(copy[p], disk)
    BY <1>1 DEF SurvivalInv, Current
  <2>6. Same(copy[p], disk)' \/ p \in stale'
    BY <2>1, <2>4, <2>5 DEF Same
  <2>7. \A q \in Commands \ {p} : copy'[q] = copy[q] /\ pc'[q] = pc[q]
    BY <2>1 DEF Goto, SurvivalInv, SoundInv, FilesOK
  <2> QED
    BY <2>1, <2>6, <2>7, QuietSurvival
<1>3. CASE ~copy[p].token.legacy /\ job[p] = "open"
  BY <1>3, EndsSurvival DEF Unlock
<1>4. CASE ~copy[p].token.legacy /\ job[p] # "open"
  <2>1. /\ Goto(p, "work")
        /\ UNCHANGED <<disk, job, copy, stale, lost, owner, contacts, password>>
    BY <1>4 DEF Unlock
  <2>2. Same(copy[p], disk)' \/ p \in stale'
    BY <1>1, <2>1 DEF SurvivalInv, Current, Same
  <2>3. \A q \in Commands \ {p} : copy'[q] = copy[q] /\ pc'[q] = pc[q]
    BY <2>1 DEF Goto, SurvivalInv, SoundInv, FilesOK
  <2> QED
    BY <2>1, <2>2, <2>3, QuietSurvival
<1> QED
  BY <1>2, <1>3, <1>4

\* What is loaded is what the file is.
LEMMA LoadSurvival ==
    ASSUME SurvivalInv, SoundInv', NEW p \in Commands, NEW c \in Jobs,
           Load(p, c) \/ Unreadable(p, c)
    PROVE  SurvivalInv'
<1>1. UNCHANGED <<disk, stale, lost, owner, contacts, password>>
  BY DEF Load, Unreadable
<1>2. \A q \in Commands \ {p} : copy'[q] = copy[q] /\ pc'[q] = pc[q]
  BY DEF Load, Unreadable, Finish, Goto, SurvivalInv, SoundInv, FilesOK
<1>3. p \in Holding' => Same(copy[p], disk)'
  <2>1. CASE Unreadable(p, c) \/ (Load(p, c) /\ c = "open" /\ ~disk.encrypted)
    BY <2>1 DEF Load, Unreadable, Finish, Goto, Holding, SurvivalInv, SoundInv, FilesOK
  <2>2. CASE Load(p, c) /\ ~(c = "open" /\ ~disk.encrypted)
    <3>1. copy' = [copy EXCEPT ![p] = disk] /\ disk' = disk
      BY <2>2 DEF Load
    <3>2. copy'[p] = disk'
      BY <3>1 DEF SurvivalInv, SoundInv, FilesOK
    <3> QED
      BY <3>2 DEF Same
  <2> QED
    BY <2>1, <2>2
<1> QED
  BY <1>1, <1>2, <1>3, QuietSurvival

\* A saved upgrade changes the form of the token in the file.
LEMMA UpgradeSurvival ==
    ASSUME SurvivalInv, SoundInv', NEW p \in Commands, Upgrade(p)
    PROVE  SurvivalInv'
<1>1. p \in Holding
  BY DEF Upgrade, Holding
<1>2. \A q \in Commands \ {p} : copy'[q] = copy[q] /\ pc'[q] = pc[q]
  BY DEF Upgrade, Finish, Goto, SurvivalInv, SoundInv, FilesOK
<1>3. p \in Holding' => copy'[p] = copy[p]
  <2>1. CASE job[p] = "open"
    BY <2>1 DEF Upgrade, Finish, Goto, Holding, SurvivalInv, SoundInv, FilesOK
  <2>2. CASE job[p] # "open"
    BY <2>2 DEF Upgrade
  <2> QED
    BY <2>1, <2>2
<1>4. CASE UNCHANGED <<disk, lost, stale>>
  <2>1. p \in Holding' => Same(copy[p], disk)' \/ p \in stale'
    BY <1>1, <1>3, <1>4 DEF SurvivalInv, Current, Same
  <2>2. UNCHANGED <<owner, contacts, password>>
    BY DEF Upgrade
  <2> QED
    BY <1>2, <1>4, <2>1, <2>2, QuietSurvival
<1>5. CASE Save(p, copy[p])
  <2>1. disk' = copy[p] /\ stale' = Holding \ {p}
    BY <1>5 DEF Save
  <2>2. Current'
    <3> SUFFICES ASSUME NEW q \in Holding', q \notin stale' PROVE Same(copy[q], disk)'
      BY DEF Current
    <3>1. q = p
      BY <1>2, <2>1 DEF Holding
    <3> QED
      BY <1>3, <2>1, <3>1 DEF Same
  <2>3. ASSUME ~lost' PROVE Faithful(disk)'
    <3>1. Faithful(disk) /\ Same(copy[p], disk)
      BY <1>1, <1>5, <2>3, SaverCurrent
    <3>2. Faithful(copy[p])
      BY <3>1, SameFaithful
    <3>3. UNCHANGED <<owner, contacts, password>>
      BY DEF Upgrade
    <3> QED
      BY <2>1, <3>2, <3>3 DEF Faithful, Recovered, Verifies
  <2> QED
    BY <2>2, <2>3 DEF SurvivalInv
<1> QED
  BY <1>4, <1>5 DEF Upgrade

\* Another default loses nothing.
LEMMA DefaultSurvival ==
    ASSUME SurvivalInv, SoundInv', NEW p \in Holding, NEW n \in Names,
           SaveAs(p, [copy[p] EXCEPT !.default = n], "done"),
           UNCHANGED <<owner, contacts, password>>
    PROVE  SurvivalInv'
<1> DEFINE new == [copy[p] EXCEPT !.default = n]
<1>1. p \in Commands /\ copy[p] \in Stores
  BY DEF Holding, SurvivalInv, SoundInv, FilesOK
<1>2. Current'
  BY <1>1, SaveAsCurrent DEF SurvivalInv
<1>3. ASSUME ~lost' PROVE Faithful(disk)'
  <2>1. Save(p, new)
    BY DEF SaveAs
  <2>2. /\ new.encrypted = copy[p].encrypted
        /\ new.salt = copy[p].salt
        /\ new.token = copy[p].token
        /\ new.ids = copy[p].ids
        /\ new.contacts = copy[p].contacts
    BY <1>1 DEF Stores
  <2> HIDE DEF new
  <2>3. Faithful(disk) /\ Same(copy[p], disk) /\ disk' = new
    BY <1>3, <2>1, SaverCurrent
  <2> QED
    BY <2>2, <2>3 DEF Same, Faithful, Recovered, Verifies
<1> QED
  BY <1>2, <1>3 DEF SurvivalInv

\* Nor does another contact.
LEMMA ContactSurvival ==
    ASSUME SurvivalInv, SoundInv', NEW p \in Commands, NEW n \in Names, AddContact(p, n)
    PROVE  SurvivalInv'
<1> DEFINE new == [copy[p] EXCEPT !.contacts = @ \cup {n}]
<1>1. p \in Holding /\ copy[p] \in Stores
  BY DEF AddContact, At, Holding, SurvivalInv, SoundInv, FilesOK
<1>2. SaveAs(p, new, "done")
  BY DEF AddContact
<1>3. Current'
  BY <1>2, SaveAsCurrent DEF SurvivalInv
<1>4. ASSUME ~lost' PROVE Faithful(disk)'
  <2>1. Save(p, new)
    BY <1>2 DEF SaveAs
  <2>2. /\ new.encrypted = copy[p].encrypted
        /\ new.salt = copy[p].salt
        /\ new.token = copy[p].token
        /\ new.ids = copy[p].ids
        /\ new.contacts = copy[p].contacts \cup {n}
    BY <1>1 DEF Stores
  <2> HIDE DEF new
  <2>3. Faithful(disk) /\ Same(copy[p], disk) /\ disk' = new
    BY <1>1, <1>4, <2>1, SaverCurrent
  <2>4. contacts' = contacts \cup {n} /\ UNCHANGED <<owner, password>>
    BY DEF AddContact
  <2> QED
    BY <2>2, <2>3, <2>4 DEF Same, Faithful, Recovered, Verifies
<1> QED
  BY <1>3, <1>4 DEF SurvivalInv

\* A new identity keeps the others; when it brings a password there was none
\* they could have been under.
LEMMA CreateSurvival ==
    ASSUME SurvivalInv, SoundInv', NEW p \in Commands, NEW n \in Names,
           NEW pw \in Passwords \cup {None}, Create(p, n, pw)
    PROVE  SurvivalInv'
<1> DEFINE key == [pw |-> pw, salt |-> p]
           new == Created(copy[p], n, p, pw)
<1>1. p \in Holding /\ copy[p] \in Stores /\ Sound(copy[p])
  BY DEF Create, At, Holding, SurvivalInv, SoundInv, FilesOK
<1>2. PICK place \in {"default", "done"} : SaveAs(p, new, place)
  BY DEF Create
<1>3. Current'
  BY <1>2, SaveAsCurrent DEF SurvivalInv
<1>4. ASSUME ~lost' PROVE Faithful(disk)'
  <2>1. Save(p, new)
    BY <1>2 DEF SaveAs
  <2>2. /\ new.ids = [copy[p].ids EXCEPT ![n] =
                         [sk |-> p, under |-> IF pw = None THEN NoKey ELSE key]]
        /\ new.contacts = copy[p].contacts
        /\ pw = None => /\ new.encrypted = copy[p].encrypted
                        /\ new.salt = copy[p].salt
                        /\ new.token = copy[p].token
        /\ pw # None => /\ new.encrypted
                        /\ new.salt = p
                        /\ new.token = [under |-> key, legacy |-> FALSE]
    BY <1>1, CreatedParts
  <2>3. copy[p].ids \in [Names -> Blobs \cup {NoBlob}]
    BY <1>1 DEF Stores
  <2> HIDE DEF new, key
  <2>4. Faithful(disk) /\ Same(copy[p], disk) /\ disk' = new
    BY <1>1, <1>4, <2>1, SaverCurrent
  <2>5. Faithful(copy[p])
    BY <2>4, SameFaithful
  <2>6. /\ owner' = [owner EXCEPT ![n] = p]
        /\ password' = IF pw = None THEN password ELSE pw
        /\ contacts' = contacts
        /\ copy[p].encrypted => pw = None
    BY DEF Create
  <2>7. owner \in [Names -> Secrets \cup {None}]
    BY DEF SurvivalInv, SoundInv, AcknowledgedOK
  <2>8. CASE pw = None
    <3>1. ASSUME NEW m \in Names, owner'[m] # None
          PROVE  Recovered(new, m, password') = owner'[m]
      <4>1. CASE m = n
        BY <2>2, <2>3, <2>6, <2>7, <2>8, <4>1 DEF Recovered
      <4>2. CASE m # n
        BY <2>2, <2>3, <2>5, <2>6, <2>7, <2>8, <3>1, <4>2 DEF Recovered, Faithful
      <4> QED
        BY <4>1, <4>2
    <3> QED
      BY <2>2, <2>4, <2>5, <2>6, <2>8, <3>1 DEF Faithful, Verifies, Recovered
  <2>9. CASE pw # None
    <3>1. \A m \in Present(copy[p]) : copy[p].ids[m].under = NoKey
      BY <1>1, <2>6, <2>9 DEF Sound, UnderOneKey
    <3>2. ASSUME NEW m \in Names, owner'[m] # None
          PROVE  Recovered(new, m, password') = owner'[m]
      <4>1. CASE m = n
        BY <2>2, <2>3, <2>6, <2>7, <2>9, <4>1 DEF Recovered, key
      <4>2. CASE m # n
        <5>1. Recovered(copy[p], m, password) = owner[m] /\ owner[m] # None
          BY <2>5, <2>6, <2>7, <3>2, <4>2 DEF Faithful
        <5>2. copy[p].ids[m].sk = owner[m] /\ m \in Present(copy[p])
          BY <5>1 DEF Recovered, Present
        <5>3. new.ids[m].sk = owner'[m] /\ new.ids[m].under = NoKey
          BY <2>2, <2>3, <2>6, <2>7, <3>1, <4>2, <5>2
        <5> QED
          BY <5>3 DEF Recovered
      <4> QED
        BY <4>1, <4>2
    <3>3. new.token.under = [pw |-> password', salt |-> new.salt]
      BY <2>2, <2>6, <2>9 DEF key
    <3> QED
      BY <2>2, <2>4, <2>5, <2>6, <3>2, <3>3 DEF Faithful, Verifies, Recovered
  <2> QED
    BY <2>8, <2>9
<1> QED
  BY <1>3, <1>4 DEF SurvivalInv

\* change-password puts every private key under the new password.
LEMMA ChangeSurvival ==
    ASSUME SurvivalInv, SoundInv', NEW p \in Commands, NEW pw \in Passwords,
           ChangePassword(p, pw)
    PROVE  SurvivalInv'
<1> DEFINE key == [pw |-> pw, salt |-> p]
           new == Reencrypted(copy[p], key)
<1>1. p \in Holding /\ copy[p] \in Stores
  BY DEF ChangePassword, At, Holding, SurvivalInv, SoundInv, FilesOK
<1>2. SaveAs(p, new, "done")
  BY DEF ChangePassword
<1>3. Current'
  BY <1>2, SaveAsCurrent DEF SurvivalInv
<1>4. ASSUME ~lost' PROVE Faithful(disk)'
  <2>1. Save(p, new)
    BY <1>2 DEF SaveAs
  <2>2. key \in Keys
    BY DEF Keys, Secrets
  <2>3. /\ new.encrypted
        /\ new.salt = key.salt
        /\ new.token = [under |-> key, legacy |-> FALSE]
        /\ \A n \in Names : new.ids[n].sk = copy[p].ids[n].sk
        /\ \A n \in Present(copy[p]) : new.ids[n].under = key
        /\ new.contacts = copy[p].contacts
    BY <1>1, <2>2, ReencryptedParts
  <2>4. password' = pw /\ UNCHANGED <<owner, contacts>>
    BY DEF ChangePassword
  <2> HIDE DEF new
  <2>5. Faithful(disk) /\ Same(copy[p], disk) /\ disk' = new
    BY <1>1, <1>4, <2>1, SaverCurrent
  <2>6. Faithful(copy[p])
    BY <2>5, SameFaithful
  <2>7. key = [pw |-> password', salt |-> new.salt]
    BY <2>3, <2>4
  <2> HIDE DEF key
  <2>8. ASSUME NEW n \in Names, owner'[n] # None
        PROVE  Recovered(new, n, password') = owner'[n]
    <3>1. copy[p].ids[n].sk = owner[n] /\ n \in Present(copy[p])
      BY <2>4, <2>6, <2>8 DEF Faithful, Recovered, Present
    <3> QED
      BY <2>3, <2>4, <2>7, <3>1 DEF Recovered
  <2> QED
    BY <2>3, <2>4, <2>5, <2>6, <2>7, <2>8 DEF Faithful, Verifies, Recovered
<1> QED
  BY <1>3, <1>4 DEF SurvivalInv

\* The default given at creation is an identity of the copy.
LEMMA CreateDefaultSurvival ==
    ASSUME SurvivalInv, SoundInv', NEW p \in Commands, CreateDefault(p)
    PROVE  SurvivalInv'
BY DefaultSurvival DEF CreateDefault, Holding

\* SurvivalInv is inductive.
LEMMA SurvivalStep == SurvivalInv /\ [Next]_vars => SurvivalInv'
<1> SUFFICES ASSUME SurvivalInv, [Next]_vars PROVE SurvivalInv'
  OBVIOUS
<1>1. SoundInv'
  BY SoundStep DEF SurvivalInv
<1>2. CASE UNCHANGED vars
  <2>1. UNCHANGED <<disk, pc, copy, stale, lost, owner, contacts, password>>
    BY <1>2 DEF vars
  <2>2. Current'
    BY <2>1 DEF SurvivalInv, Current, Holding, Same
  <2> QED
    BY <1>1, <2>1, <2>2 DEF SurvivalInv, Faithful, Recovered, Verifies
<1>3. ASSUME NEW p \in Commands, Command(p) PROVE SurvivalInv'
  <2>1. ASSUME NEW c \in Jobs, Load(p, c) \/ Unreadable(p, c) PROVE SurvivalInv'
    BY <1>1, <2>1, LoadSurvival
  <2>2. ASSUME NEW pw \in Passwords, Unlock(p, pw) PROVE SurvivalInv'
    BY <1>1, <2>2, UnlockSurvival
  <2>3. ASSUME NEW pw \in Passwords, Refuse(p, pw) PROVE SurvivalInv'
    BY <1>1, <2>3, EndsSurvival DEF Refuse
  <2>4. ASSUME NEW pw \in Passwords, ChangePassword(p, pw) PROVE SurvivalInv'
    BY <1>1, <2>4, ChangeSurvival
  <2>5. ASSUME Upgrade(p) PROVE SurvivalInv'
    BY <1>1, <2>5, UpgradeSurvival
  <2>6. ASSUME CreateDefault(p) PROVE SurvivalInv'
    BY <1>1, <2>6, CreateDefaultSurvival
  <2>7. ASSUME GiveUp(p) PROVE SurvivalInv'
    BY <1>1, <2>7, EndsSurvival DEF GiveUp
  <2>8. ASSUME NEW n \in Names, Use(p, n) PROVE SurvivalInv'
    BY <1>1, <2>8, DefaultSurvival DEF Use, At, Holding
  <2>9. ASSUME NEW n \in Names, AddContact(p, n) PROVE SurvivalInv'
    BY <1>1, <2>9, ContactSurvival
  <2>10. ASSUME NEW n \in Names, NEW pw \in Passwords \cup {None}, Create(p, n, pw)
         PROVE  SurvivalInv'
    BY <1>1, <2>10, CreateSurvival
  <2> QED
    BY <1>3, <2>1, <2>2, <2>3, <2>4, <2>5, <2>6, <2>7, <2>8, <2>9, <2>10 DEF Command
<1> QED
  BY <1>2, <1>3 DEF Next

\* As long as no command has saved a copy that another's save had made stale,
\* the password last set gives back every private key a command acknowledged.
THEOREM Survival == Spec => []KeysSurvive
<1>1. SurvivalInv => KeysSurvive
  BY DEF SurvivalInv, Faithful, KeysSurvive
<1> QED
  BY InitSurvival, SurvivalStep, <1>1, PTL DEF Spec

-----------------------------------------------------------------------------
(* No private key comes back in the clear.                                 *)

Covered == ~lost' => \A n \in Present(disk) :
               disk.ids[n].under # NoKey => disk'.ids[n].under # NoKey

\* A command that creates adds to the identities, or is refused.
LEMMA CreateCovered ==
    ASSUME SurvivalInv, NEW p \in Commands, NEW n \in Names,
           NEW pw \in Passwords \cup {None}, Create(p, n, pw)
    PROVE  Covered
<1> SUFFICES ASSUME ~lost', NEW m \in Present(disk), disk.ids[m].under # NoKey
             PROVE  disk'.ids[m].under # NoKey
  BY DEF Covered
<1> DEFINE new == Created(copy[p], n, p, pw)
<1>1. p \in Holding /\ copy[p] \in Stores
  BY DEF Create, At, Holding, SurvivalInv, SoundInv, FilesOK
<1>2. Save(p, new)
  BY DEF Create, SaveAs
<1>3. Same(copy[p], disk) /\ disk' = new
  BY <1>1, <1>2, SaverCurrent
<1>4. m \in Present(copy[p]) /\ m # n
  BY <1>3 DEF Same, Present, Create
<1> DEFINE key == [pw |-> pw, salt |-> p]
<1>5. /\ new.ids = [copy[p].ids EXCEPT ![n] =
                      [sk |-> p, under |-> IF pw = None THEN NoKey ELSE key]]
      /\ new.contacts = copy[p].contacts
      /\ pw = None => /\ new.encrypted = copy[p].encrypted
                      /\ new.salt = copy[p].salt
                      /\ new.token = copy[p].token
      /\ pw # None => /\ new.encrypted
                      /\ new.salt = p
                      /\ new.token = [under |-> key, legacy |-> FALSE]
  BY <1>1, CreatedParts
<1>6. copy[p].ids \in [Names -> Blobs \cup {NoBlob}] /\ m \in Names
  BY <1>1 DEF Stores, Present
<1> HIDE DEF new, key
<1>7. new.ids[m] = copy[p].ids[m]
  BY <1>4, <1>5, <1>6
<1> QED
  BY <1>3, <1>7 DEF Same

\* change-password leaves none in the clear.
LEMMA ChangeCovered ==
    ASSUME SurvivalInv, NEW p \in Commands, NEW pw \in Passwords, ChangePassword(p, pw)
    PROVE  Covered
<1> SUFFICES ASSUME ~lost', NEW m \in Present(disk)
             PROVE  disk'.ids[m].under # NoKey
  BY DEF Covered
<1> DEFINE key == [pw |-> pw, salt |-> p]
           new == Reencrypted(copy[p], key)
<1>1. p \in Holding /\ copy[p] \in Stores
  BY DEF ChangePassword, At, Holding, SurvivalInv, SoundInv, FilesOK
<1>2. Save(p, new)
  BY DEF ChangePassword, SaveAs
<1>3. Same(copy[p], disk) /\ disk' = new
  BY <1>1, <1>2, SaverCurrent
<1>4. m \in Present(copy[p])
  BY <1>3 DEF Same, Present
<1>5. key \in Keys
  BY DEF Keys, Secrets
<1>6. \A n \in Present(copy[p]) : new.ids[n].under = key
  BY <1>1, <1>5, ReencryptedParts
<1> HIDE DEF new, key
<1> QED
  BY <1>3, <1>4, <1>5, <1>6, KeysAreKeys

\* All other steps leave the identities of the file as they are.
LEMMA OthersCovered ==
    ASSUME SurvivalInv, NEW p \in Commands,
           \/ \E c \in Jobs : Load(p, c) \/ Unreadable(p, c)
           \/ \E pw \in Passwords : Unlock(p, pw) \/ Refuse(p, pw)
           \/ Upgrade(p) \/ CreateDefault(p) \/ GiveUp(p)
           \/ \E n \in Names : Use(p, n) \/ AddContact(p, n)
    PROVE  Covered
<1> SUFFICES ASSUME ~lost' PROVE disk'.ids = disk.ids
  BY DEF Covered
<1>1. copy[p] \in Stores
  BY DEF SurvivalInv, SoundInv, FilesOK
<1>2. CASE UNCHANGED disk
  BY <1>2
<1>3. ASSUME NEW ks, p \in Holding, Save(p, ks), ks.ids = copy[p].ids
      PROVE  disk'.ids = disk.ids
  BY <1>3, SaverCurrent DEF Same
<1>4. CASE \E c \in Jobs : Load(p, c) \/ Unreadable(p, c)
  BY <1>2, <1>4 DEF Load, Unreadable
<1>5. CASE \E pw \in Passwords : Unlock(p, pw) \/ Refuse(p, pw)
  BY <1>2, <1>5 DEF Unlock, Refuse, Ends
<1>6. CASE Upgrade(p)
  BY <1>2, <1>3, <1>6 DEF Upgrade, Holding
<1>7. CASE GiveUp(p)
  BY <1>2, <1>7 DEF GiveUp, Ends
<1>8. ASSUME NEW n \in Names, p \in Holding,
             SaveAs(p, [copy[p] EXCEPT !.default = n], "done")
      PROVE  disk'.ids = disk.ids
  <2> DEFINE new == [copy[p] EXCEPT !.default = n]
  <2>1. new.ids = copy[p].ids
    BY <1>1 DEF Stores
  <2>2. Save(p, new)
    BY <1>8 DEF SaveAs
  <2> HIDE DEF new
  <2> QED
    BY <1>3, <1>8, <2>1, <2>2
<1>9. CASE CreateDefault(p)
  BY <1>8, <1>9 DEF CreateDefault, Holding
<1>10. ASSUME NEW n \in Names, Use(p, n) PROVE disk'.ids = disk.ids
  BY <1>8, <1>10 DEF Use, At, Holding
<1>11. ASSUME NEW n \in Names, AddContact(p, n) PROVE disk'.ids = disk.ids
  <2> DEFINE new == [copy[p] EXCEPT !.contacts = @ \cup {n}]
  <2>1. new.ids = copy[p].ids
    BY <1>1 DEF Stores
  <2>2. Save(p, new) /\ p \in Holding
    BY <1>11 DEF AddContact, SaveAs, At, Holding
  <2> HIDE DEF new
  <2> QED
    BY <1>3, <2>1, <2>2
<1> QED
  BY <1>4, <1>5, <1>6, <1>7, <1>9, <1>10, <1>11

\* No step uncovers a key, but one that saves a stale copy.
LEMMA StepCovered == SurvivalInv /\ [Next]_vars => Covered
<1> SUFFICES ASSUME SurvivalInv, [Next]_vars PROVE Covered
  OBVIOUS
<1>1. CASE UNCHANGED vars
  BY <1>1 DEF vars, Covered
<1>2. ASSUME NEW p \in Commands, Command(p) PROVE Covered
  BY <1>2, CreateCovered, ChangeCovered, OthersCovered DEF Command
<1> QED
  BY <1>1, <1>2 DEF Next

\* No step takes the encryption off a private key, unless a stale copy is saved.
THEOREM Encryption == Spec => StaysEncrypted
<1>1. SurvivalInv /\ [Next]_vars =>
        [~lost' => \A n \in Present(disk) :
            disk.ids[n].under # NoKey => disk'.ids[n].under # NoKey]_vars
  BY StepCovered DEF Covered
<1> QED
  BY InitSurvival, SurvivalStep, <1>1, PTL DEF Spec, StaysEncrypted
=============================================================================
