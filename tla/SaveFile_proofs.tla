--------------------------- MODULE SaveFile_proofs ---------------------------
(***************************************************************************)
(* SaveFile implements AtomicSave, for any number of writers and any       *)
(* documents: SaveKeyStore always, SaveOutbox when one process saves at a  *)
(* time.                                                                   *)
(*                                                                         *)
(* The argument: no two names, of the file or of a temporary file, are     *)
(* bound to the same inode, so that a writer fills an inode that only it   *)
(* has; and what it renames is complete and was synced.                    *)
(***************************************************************************)
EXTENDS SaveFile, FiniteSetTheorems, TLAPS

Active == {"write", "sync", "close", "rename", "remove"}

\* The types, and the fields that are empty for a process that is not saving.
Shape ==
    /\ scheme \in {"unique", "fixed"}
    /\ live \in Inodes /\ durable \in Inodes
    /\ temp \in [TempNames -> Inodes \cup {0}]
    /\ bytes = [i \in Inodes |-> bytes[i]]
    /\ pc \in [Writers -> Active \cup {"idle"}]
    /\ fd \in [Writers -> Inodes \cup {0}]
    /\ doc \in [Writers -> Docs]
    /\ result = [p \in Writers |-> result[p]]

\* The names of the other scheme are not bound.
Names ==
    /\ scheme = "unique" => /\ temp["tmp"] = 0
                            /\ \A p \in Writers : pc[p] = "idle" => temp[p] = 0
    /\ scheme = "fixed" => \A p \in Writers : temp[p] = 0

\* One writer at a time, or each with a name of its own.
Alone == \/ scheme = "unique"
         \/ /\ ~Overlap
            /\ \A p, q \in Writers : pc[p] # "idle" /\ pc[q] # "idle" => p = q

\* No two names are bound to one inode.
Apart ==
    /\ \A n \in TempNames : temp[n] \notin {live, durable}
    /\ \A m, n \in TempNames : temp[m] = temp[n] /\ temp[m] # 0 => m = n

\* How far a writer has come with its inode.
ProgressOf(p) ==
    LET i == temp[Temp(p)]
    IN  /\ pc[p] \in {"write", "sync", "close"} => fd[p] = i
        /\ pc[p] \in {"rename", "remove", "idle"} => fd[p] = 0
        /\ pc[p] \in {"write", "sync", "close", "rename"} => i # 0
        /\ pc[p] = "write" => bytes[i] = <<>>
        /\ pc[p] \in {"sync", "close", "rename"} => bytes[i] = Blocks(doc[p])
        /\ pc[p] \in {"close", "rename"} => i \in synced

Progress == \A p \in Writers : ProgressOf(p)

\* What the file's name is bound to, in memory and on disk.
Published ==
    /\ live \in synced /\ durable \in synced
    /\ Whole(bytes[live]) /\ Whole(bytes[durable])

Inv == Shape /\ Names /\ Alone /\ Apart /\ Progress /\ Published

-----------------------------------------------------------------------------
(* Documents and inodes.                                                   *)

\* Zero is no inode, and the shared name is no writer's.
LEMMA Assumed ==
    /\ 0 \notin Inodes
    /\ "tmp" \notin Writers
    /\ "nothing" \notin Docs
    /\ \A d \in Docs : Size[d] \in Nat \ {0}
BY SaveFileAssumption

\* A document is told by its blocks.
LEMMA BlocksTell ==
    ASSUME NEW d \in Docs, NEW e \in Docs, Blocks(d) = Blocks(e)
    PROVE  d = e
<1>1. Size[d] \in Nat \ {0} /\ Size[e] \in Nat \ {0}
  BY Assumed
<1>2. 1 \in 1 .. Size[d] /\ 1 \in 1 .. Size[e]
  BY <1>1
<1>3. Blocks(d)[1] = d /\ Blocks(e)[1] = e
  BY <1>2 DEF Blocks
<1> QED
  BY <1>3

\* DocOf gives the document back.
LEMMA DocOfBlocks ==
    ASSUME NEW d \in Docs
    PROVE  DocOf(Blocks(d)) = d
<1>1. Whole(Blocks(d))
  BY DEF Whole
<1>2. DocOf(Blocks(d)) = CHOOSE e \in Docs : Blocks(d) = Blocks(e)
  BY <1>1 DEF DocOf
<1>3. \A e \in Docs : Blocks(d) = Blocks(e) => e = d
  BY BlocksTell
<1> QED
  BY <1>2, <1>3

\* Writing into an empty file gives the document.
LEMMA WriteGivesDoc ==
    ASSUME NEW d \in Docs
    PROVE  Overwritten(<<>>, d) = Blocks(d)
<1>1. Size[d] \in Nat \ {0}
  BY Assumed
<1>2. Len(<<>>) = 0 /\ ~(0 > Size[d])
  BY <1>1
<1>3. Overwritten(<<>>, d) = [i \in 1 .. Size[d] |-> IF i <= Size[d] THEN d ELSE <<>>[i]]
  BY <1>2 DEF Overwritten
<1>4. \A i \in 1 .. Size[d] : i <= Size[d]
  BY <1>1
<1> QED
  BY <1>3, <1>4 DEF Blocks

\* The temporary name of a writer is one of the names.
LEMMA TempIsName ==
    ASSUME NEW p \in Writers
    PROVE  Temp(p) \in TempNames
BY DEF Temp, TempNames

\* One more makes one more at most.
LEMMA OneMore ==
    ASSUME NEW S, IsFiniteSet(S), NEW x
    PROVE  /\ IsFiniteSet(S \cup {x})
           /\ Cardinality(S) \in Nat
           /\ Cardinality(S \cup {x}) \in Nat
           /\ Cardinality(S \cup {x}) <= Cardinality(S) + 1
<1>1. Cardinality(S) \in Nat
  BY FS_CardinalityType
<1>2. IsFiniteSet(S \cup {x})
  BY FS_AddElement
<1>3. Cardinality(S \cup {x}) \in {Cardinality(S), Cardinality(S) + 1}
  BY FS_AddElement
<1> QED
  BY <1>1, <1>2, <1>3

\* While one writer is idle and has no temporary file there is an inode left.
LEMMA InodeLeft ==
    ASSUME Shape, Names, Alone, Progress,
           NEW p \in Writers, pc[p] = "idle", temp[Temp(p)] = 0,
           scheme = "unique" \/ \A q \in Writers : pc[q] = "idle"
    PROVE  Unused \in Inodes \ InUse
<1> DEFINE others == Writers \ {p}
           theirs == {temp[q] : q \in others}
           taken  == (theirs \cup {live}) \cup {durable}
<1>1. InUse \ {0} \subseteq taken
  <2>1. \A n \in TempNames : temp[n] \in theirs \cup {0}
    <3>1. CASE scheme = "unique"
      BY <3>1 DEF Names, TempNames, Temp
    <3>2. CASE scheme = "fixed"
      BY <3>2 DEF Names, TempNames, Temp
    <3> QED
      BY <3>1, <3>2 DEF Shape
  <2>2. \A q \in Writers : fd[q] \in {0, temp[Temp(q)]}
    BY DEF Progress, ProgressOf, Shape, Active
  <2>3. \A q \in Writers : fd[q] \in theirs \cup {0}
    BY <2>1, <2>2, TempIsName
  <2> HIDE DEF theirs
  <2> QED
    BY <2>1, <2>3 DEF InUse
<1>2. IsFiniteSet(taken) /\ Cardinality(taken) <= Cardinality(Writers) + 1
  <2>1. /\ IsFiniteSet(others)
        /\ Cardinality(Writers) \in Nat
        /\ Cardinality(others) \in Nat
        /\ Cardinality(others) = Cardinality(Writers) - 1
    BY SaveFileAssumption, FS_RemoveElement, FS_CardinalityType
  <2>2. IsFiniteSet(theirs) /\ Cardinality(theirs) <= Cardinality(others)
    <3> DEFINE f == [q \in others |-> temp[q]]
    <3>1. f \in Surjection(others, theirs)
      BY DEF Surjection
    <3> HIDE DEF f, theirs
    <3> QED
      BY <2>1, <3>1, FS_Surjection
  <2> HIDE DEF others, theirs
  <2>3. /\ Cardinality(theirs) \in Nat
        /\ IsFiniteSet(theirs \cup {live})
        /\ Cardinality(theirs \cup {live}) \in Nat
        /\ Cardinality(theirs \cup {live}) <= Cardinality(theirs) + 1
    BY <2>2, OneMore
  <2>4. /\ IsFiniteSet(taken)
        /\ Cardinality(taken) \in Nat
        /\ Cardinality(taken) <= Cardinality(theirs \cup {live}) + 1
    BY <2>3, OneMore
  <2> QED
    BY <2>1, <2>2, <2>3, <2>4
<1>3. ~(Inodes \subseteq taken)
  <2> HIDE DEF taken
  <2> SUFFICES ASSUME Inodes \subseteq taken PROVE FALSE
    OBVIOUS
  <2>1. /\ Cardinality(Inodes) <= Cardinality(taken)
        /\ Cardinality(taken) \in Nat /\ Cardinality(Inodes) \in Nat
        /\ Cardinality(Writers) \in Nat
    BY <1>2, SaveFileAssumption, FS_Subset, FS_CardinalityType
  <2> QED
    BY <1>2, <2>1, SaveFileAssumption
<1>4. \E i \in Inodes : i \notin InUse
  BY <1>1, <1>3, Assumed
<1> QED
  BY <1>4 DEF Unused

\* The inode that Open fills is nobody else's.
LEMMA OpenInode ==
    ASSUME Inv, NEW p \in Writers, MayStart(p)
    PROVE  LET i == Temporary(p)
           IN  /\ i \in Inodes /\ i # 0
               /\ i \notin {live, durable}
               /\ \A n \in TempNames : n # Temp(p) => temp[n] # i
               /\ \A q \in Writers : fd[q] # i
<1> DEFINE i == Temporary(p)
<1>1. pc[p] = "idle" /\ (scheme = "unique" \/ \A q \in Writers : pc[q] = "idle")
  BY DEF MayStart, Inv, Alone
<1>2. Temp(p) \in TempNames
  BY TempIsName
<1>3. CASE temp[Temp(p)] = 0
  <2>1. i \in Inodes \ InUse
    BY <1>1, <1>3, InodeLeft DEF Temporary, Inv
  <2> HIDE DEF i
  <2> QED
    BY <2>1, Assumed DEF InUse, i
<1>4. CASE temp[Temp(p)] # 0
  <2>1. i = temp[Temp(p)] /\ i \in Inodes
    BY <1>2, <1>4 DEF Temporary, Inv, Shape
  <2>2. scheme = "fixed"
    BY <1>1, <1>4 DEF Inv, Names, Temp, Shape
  <2>3. \A q \in Writers : fd[q] = 0
    BY <1>1, <2>2 DEF Inv, Progress, ProgressOf
  <2> HIDE DEF i
  <2> QED
    BY <1>2, <1>4, <2>1, <2>3, Assumed DEF Inv, Apart, i
<1> QED
  BY <1>3, <1>4

\* The inode of a writer is not published, and no other writer's.
LEMMA OwnInode ==
    ASSUME Inv, NEW p \in Writers, pc[p] \in {"write", "sync", "close"}
    PROVE  /\ fd[p] = temp[Temp(p)]
           /\ fd[p] \in Inodes
           /\ fd[p] \notin {live, durable}
           /\ \A q \in Writers \ {p} : pc[q] # "idle" => temp[Temp(q)] # fd[p]
<1>1. fd[p] = temp[Temp(p)] /\ temp[Temp(p)] # 0 /\ Temp(p) \in TempNames
  BY TempIsName DEF Inv, Progress, ProgressOf
<1>2. ASSUME NEW q \in Writers \ {p}, pc[q] # "idle" PROVE temp[Temp(q)] # temp[Temp(p)]
  <2>1. scheme = "unique"
    BY <1>2 DEF Inv, Alone
  <2>2. Temp(p) = p /\ Temp(q) = q
    BY <2>1 DEF Temp
  <2> QED
    BY <1>1, <2>2, TempIsName DEF Inv, Apart
<1> QED
  BY <1>1, <1>2 DEF Inv, Apart, Shape

\* A step of one writer leaves the others where they were, when it touches
\* neither their names nor their inodes.
LEMMA OthersProgress ==
    ASSUME Inv, NEW p \in Writers, scheme' = scheme,
           NEW q \in Writers \ {p},
           pc'[q] = pc[q], fd'[q] = fd[q], doc'[q] = doc[q],
           pc[q] # "idle" =>
               /\ temp'[Temp(q)] = temp[Temp(q)]
               /\ temp[Temp(q)] # 0 => bytes'[temp[Temp(q)]] = bytes[temp[Temp(q)]]
               /\ temp[Temp(q)] \in synced => temp[Temp(q)] \in synced'
    PROVE  ProgressOf(q)'
<1>1. Temp(q)' = Temp(q)
  BY DEF Temp
<1>2. ProgressOf(q) /\ pc[q] \in Active \cup {"idle"}
  BY DEF Inv, Progress, Shape
<1>3. CASE pc[q] = "idle"
  BY <1>2, <1>3 DEF ProgressOf
<1>4. CASE pc[q] # "idle"
  BY <1>1, <1>2, <1>4 DEF ProgressOf
<1> QED
  BY <1>3, <1>4

\* While a writer saves, the others that save have names of their own.
LEMMA OwnName ==
    ASSUME Inv, NEW p \in Writers, NEW q \in Writers \ {p},
           pc[p] # "idle", pc[q] # "idle"
    PROVE  /\ scheme = "unique"
           /\ Temp(p) = p /\ Temp(q) = q
           /\ temp[p] # 0 => temp[p] # temp[q]
<1>1. scheme = "unique"
  BY DEF Inv, Alone
<1>2. p \in TempNames /\ q \in TempNames
  BY DEF TempNames
<1> QED
  BY <1>1, <1>2 DEF Temp, Inv, Apart

-----------------------------------------------------------------------------
(* The invariant, action by action.                                        *)

\* Initially only the file exists, with a complete document.
LEMMA InvInit ==
    ASSUME Init, ~Overlap \/ Schemes \subseteq {"unique"}
    PROVE  Inv
<1>1. \E i \in Inodes : TRUE
  <2> SUFFICES ASSUME Inodes = {} PROVE FALSE
    OBVIOUS
  <2>1. Cardinality(Inodes) = 0
    BY FS_EmptySet
  <2>2. Cardinality(Writers) \in Nat
    BY SaveFileAssumption, FS_CardinalityType
  <2> QED
    BY <2>1, <2>2, SaveFileAssumption
<1>2. live \in Inodes /\ durable = live /\ live # 0
  BY <1>1, Assumed DEF Init
<1>3. scheme \in {"unique", "fixed"} /\ (scheme = "unique" \/ ~Overlap)
  BY SaveFileAssumption DEF Init
<1>4. PICK d \in Docs : bytes = [i \in Inodes |-> IF i = live THEN Blocks(d) ELSE <<>>]
  BY DEF Init
<1>5. Shape
  BY <1>2, <1>3, <1>4 DEF Init, Shape
<1>6. \A n \in TempNames : temp[n] = 0
  BY DEF Init
<1>7. Names /\ Alone
  BY <1>3, <1>6 DEF Init, Names, Alone, TempNames
<1>8. Apart
  BY <1>2, <1>6 DEF Apart
<1>9. Progress
  BY DEF Init, Progress, ProgressOf
<1>10. Published
  BY <1>2, <1>4 DEF Init, Published, Whole
<1> QED
  BY <1>5, <1>7, <1>8, <1>9, <1>10 DEF Inv

\* Open fills an inode that nobody else has.
LEMMA InvOpen ==
    ASSUME Inv, NEW p \in Writers, NEW d \in Docs, Open(p, d), scheme' = scheme
    PROVE  Inv'
<1> DEFINE i == Temporary(p)
<1>1. MayStart(p) /\ pc[p] = "idle"
  BY DEF Open, MayStart
<1>2. /\ i \in Inodes /\ i # 0
      /\ i \notin {live, durable}
      /\ \A n \in TempNames : n # Temp(p) => temp[n] # i
      /\ \A q \in Writers : fd[q] # i
  BY <1>1, OpenInode
<1>3. /\ temp' = [temp EXCEPT ![Temp(p)] = i]
      /\ bytes' = [bytes EXCEPT ![i] = <<>>]
      /\ synced' = synced \ {i}
      /\ fd' = [fd EXCEPT ![p] = i]
      /\ doc' = [doc EXCEPT ![p] = d]
      /\ result' = [result EXCEPT ![p] = "none"]
      /\ pc' = [pc EXCEPT ![p] = "write"]
      /\ live' = live /\ durable' = durable
  BY DEF Open, Goto
<1> HIDE DEF i
<1>4. Temp(p) \in TempNames /\ Temp(p)' = Temp(p)
  BY TempIsName DEF Temp
<1>5. Shape'
  BY <1>2, <1>3, <1>4 DEF Inv, Shape, Active
<1>6. Names'
  <2>1. CASE scheme = "unique"
    BY <2>1, <1>3, <1>5, Assumed DEF Inv, Names, Temp, Shape, TempNames
  <2>2. CASE scheme = "fixed"
    BY <2>2, <1>3, Assumed DEF Inv, Names, Temp, Shape, TempNames
  <2> QED
    BY <2>1, <2>2 DEF Names
<1>7. Alone'
  <2>1. CASE scheme # "unique"
    <3>1. \A q \in Writers : pc[q] = "idle"
      BY <1>1, <2>1 DEF MayStart, Inv, Alone
    <3> QED
      BY <2>1, <3>1, <1>3 DEF Inv, Alone, Shape
  <2> QED
    BY <2>1 DEF Alone
<1>8. Apart'
  BY <1>2, <1>3, <1>4 DEF Inv, Apart, Shape
<1>9. Progress'
  <2>1. ProgressOf(p)'
    BY <1>2, <1>3, <1>4 DEF Inv, Shape, ProgressOf
  <2>2. ASSUME NEW q \in Writers \ {p} PROVE ProgressOf(q)'
    <3>1. pc'[q] = pc[q] /\ fd'[q] = fd[q] /\ doc'[q] = doc[q]
      BY <1>3 DEF Inv, Shape
    <3>2. ASSUME pc[q] # "idle" PROVE Temp(q) \in TempNames /\ Temp(q) # Temp(p)
      <4>1. scheme = "unique"
        BY <1>1, <3>2 DEF MayStart, Inv, Alone
      <4> QED
        BY <4>1, TempIsName DEF Temp
    <3>3. ASSUME pc[q] # "idle"
          PROVE /\ temp'[Temp(q)] = temp[Temp(q)] /\ temp[Temp(q)] # i
                /\ temp[Temp(q)] # 0 => bytes'[temp[Temp(q)]] = bytes[temp[Temp(q)]]
                /\ temp[Temp(q)] \in synced => temp[Temp(q)] \in synced'
      BY <3>2, <3>3, <1>2, <1>3 DEF Inv, Shape
    <3> QED
      BY <3>1, <3>3, OthersProgress
  <2> QED
    BY <2>1, <2>2 DEF Progress
<1>10. Published'
  BY <1>2, <1>3 DEF Inv, Shape, Published
<1> QED
  BY <1>5, <1>6, <1>7, <1>8, <1>9, <1>10 DEF Inv

\* A step that binds no name, and touches no bytes but those of the writer's
\* own inode, disturbs its own progress at most.
LEMMA InvInside ==
    ASSUME Inv, NEW p \in Writers, scheme' = scheme, pc[p] # "idle", pc'[p] # "idle",
           UNCHANGED <<live, durable, temp, doc, result>>,
           pc' = [pc EXCEPT ![p] = pc'[p]], pc'[p] \in Active,
           fd' = [fd EXCEPT ![p] = fd'[p]], fd'[p] \in Inodes \cup {0},
           bytes' = [i \in Inodes |-> bytes'[i]],
           \A i \in Inodes : i # fd[p] =>
               bytes'[i] = bytes[i] /\ (i \in synced => i \in synced'),
           fd[p] # 0 => pc[p] \in {"write", "sync", "close"},
           ProgressOf(p)'
    PROVE  Inv'
<1>1. Shape'
  BY DEF Inv, Shape
<1>2. \A q \in Writers \ {p} : pc'[q] = pc[q] /\ fd'[q] = fd[q]
  BY DEF Inv, Shape
<1>3. Names'
  BY <1>2 DEF Inv, Names
<1>4. Alone'
  BY <1>2 DEF Inv, Alone
<1>5. Apart'
  BY DEF Inv, Apart
<1>6. fd[p] \notin {live, durable} /\ live \in Inodes /\ durable \in Inodes
  BY OwnInode, Assumed DEF Inv, Shape
<1>7. Published'
  BY <1>6 DEF Inv, Published
<1>8. ASSUME NEW q \in Writers \ {p} PROVE ProgressOf(q)'
  <2>1. ASSUME pc[q] # "idle"
        PROVE  /\ temp[Temp(q)] # 0 => bytes'[temp[Temp(q)]] = bytes[temp[Temp(q)]]
               /\ temp[Temp(q)] \in synced => temp[Temp(q)] \in synced' \/ temp[Temp(q)] = 0
    <3>1. temp[Temp(q)] \in Inodes \cup {0}
      BY TempIsName DEF Inv, Shape
    <3>2. temp[Temp(q)] # 0 => temp[Temp(q)] # fd[p]
      BY <2>1, OwnInode DEF Inv, Shape
    <3> QED
      BY <3>1, <3>2
  <2>2. Temp(q)' = Temp(q) /\ ProgressOf(q) /\ pc[q] \in Active \cup {"idle"}
    BY DEF Temp, Inv, Progress, Shape
  <2>3. CASE pc[q] = "idle"
    BY <1>2, <2>2, <2>3 DEF ProgressOf
  <2>4. CASE pc[q] # "idle"
    BY <1>2, <2>1, <2>2, <2>4 DEF ProgressOf
  <2> QED
    BY <2>3, <2>4
<1>9. Progress'
  BY <1>8 DEF Progress
<1> QED
  BY <1>1, <1>3, <1>4, <1>5, <1>7, <1>9 DEF Inv

\* Write fills the writer's own inode with its document.
LEMMA InvWrite ==
    ASSUME Inv, NEW p \in Writers, Write(p), scheme' = scheme
    PROVE  Inv'
<1>1. /\ pc[p] = "write" /\ pc' = [pc EXCEPT ![p] = "sync"] /\ pc'[p] = "sync"
      /\ bytes' = [bytes EXCEPT ![fd[p]] = Overwritten(@, doc[p])]
      /\ synced' = synced \ {fd[p]}
      /\ UNCHANGED <<live, durable, temp, fd, doc, result>>
  BY DEF Write, Goto, Inv, Shape
<1>2. fd[p] = temp[Temp(p)] /\ fd[p] \in Inodes
  BY <1>1, OwnInode
<1>3. bytes[fd[p]] = <<>> /\ doc[p] \in Docs
  BY <1>1, <1>2 DEF Inv, Progress, ProgressOf, Shape
<1>4. bytes'[fd[p]] = Blocks(doc[p])
  <2>1. bytes'[fd[p]] = Overwritten(bytes[fd[p]], doc[p])
    BY <1>1, <1>2 DEF Inv, Shape
  <2> QED
    BY <2>1, <1>3, WriteGivesDoc
<1>5. ProgressOf(p)'
  <2>1. Temp(p)' = Temp(p) /\ fd[p] # 0
    BY <1>2, Assumed DEF Temp
  <2> QED
    BY <2>1, <1>1, <1>2, <1>4 DEF ProgressOf
<1>6. \A i \in Inodes : i # fd[p] => bytes'[i] = bytes[i] /\ (i \in synced => i \in synced')
  BY <1>1 DEF Inv, Shape
<1>7. bytes' = [i \in Inodes |-> bytes'[i]]
  BY <1>1 DEF Inv, Shape
<1>8. pc' = [pc EXCEPT ![p] = pc'[p]] /\ pc'[p] \in Active
  BY <1>1 DEF Active
<1>9. fd' = [fd EXCEPT ![p] = fd'[p]]
  BY <1>1 DEF Inv, Shape
<1> QED
  BY <1>1, <1>2, <1>5, <1>6, <1>7, <1>8, <1>9, InvInside

\* Sync puts the writer's document on disk.
LEMMA InvSync ==
    ASSUME Inv, NEW p \in Writers, Sync(p), scheme' = scheme
    PROVE  Inv'
<1>1. /\ pc[p] = "sync" /\ pc' = [pc EXCEPT ![p] = "close"] /\ pc'[p] = "close"
      /\ synced' = synced \cup {fd[p]}
      /\ UNCHANGED <<live, durable, temp, bytes, fd, doc, result>>
  BY DEF Sync, Goto, Inv, Shape
<1>2. fd[p] = temp[Temp(p)] /\ fd[p] \in Inodes
  BY <1>1, OwnInode
<1>3. ProgressOf(p)'
  <2>1. Temp(p)' = Temp(p) /\ ProgressOf(p)
    BY DEF Temp, Inv, Progress
  <2> QED
    BY <2>1, <1>1, <1>2 DEF ProgressOf
<1>4. pc' = [pc EXCEPT ![p] = pc'[p]] /\ pc'[p] \in Active
  BY <1>1 DEF Active
<1>5. /\ fd' = [fd EXCEPT ![p] = fd'[p]]
      /\ bytes' = [i \in Inodes |-> bytes'[i]]
  BY <1>1 DEF Inv, Shape
<1> QED
  BY <1>1, <1>2, <1>3, <1>4, <1>5, InvInside

\* Close gives up the descriptor.
LEMMA InvClose ==
    ASSUME Inv, NEW p \in Writers, Close(p), scheme' = scheme
    PROVE  Inv'
<1>1. /\ pc[p] = "close" /\ pc' = [pc EXCEPT ![p] = "rename"] /\ pc'[p] = "rename"
      /\ fd' = [fd EXCEPT ![p] = 0] /\ fd'[p] = 0
      /\ UNCHANGED <<live, durable, temp, bytes, synced, doc, result>>
  BY DEF Close, Goto, Inv, Shape
<1>2. ProgressOf(p)'
  <2>1. Temp(p)' = Temp(p) /\ ProgressOf(p)
    BY DEF Temp, Inv, Progress
  <2> QED
    BY <2>1, <1>1 DEF ProgressOf
<1>3. pc' = [pc EXCEPT ![p] = pc'[p]] /\ pc'[p] \in Active
  BY <1>1 DEF Active
<1>4. bytes' = [i \in Inodes |-> bytes'[i]]
  BY <1>1 DEF Inv, Shape
<1> QED
  BY <1>1, <1>2, <1>3, <1>4, InvInside

\* A failed call leaves its mark on the writer's own inode at most.
LEMMA InvFail ==
    ASSUME Inv, NEW p \in Writers, Fail(p), scheme' = scheme
    PROVE  Inv'
<1>1. /\ pc[p] \in {"write", "sync", "close", "rename"}
      /\ pc' = [pc EXCEPT ![p] = "remove"] /\ pc'[p] = "remove"
      /\ fd' = [fd EXCEPT ![p] = 0] /\ fd'[p] = 0
      /\ UNCHANGED <<live, durable, temp, doc, result>>
  BY DEF Fail, Goto, Inv, Shape
<1>2. PICK n \in 0 .. Size[doc[p]] - 1 :
          /\ bytes' = IF n = 0 THEN bytes
                      ELSE [bytes EXCEPT ![fd[p]] = SubSeq(Blocks(doc[p]), 1, n) \o
                                                    SubSeq(@, n + 1, Len(@))]
          /\ synced' = IF n = 0 THEN synced ELSE synced \ {fd[p]}
  BY DEF Fail
<1>3. /\ \A i \in Inodes : i # fd[p] =>
             bytes'[i] = bytes[i] /\ (i \in synced => i \in synced')
      /\ bytes' = [i \in Inodes |-> bytes'[i]]
  <2>1. CASE n = 0
    BY <1>2, <2>1 DEF Inv, Shape
  <2>2. CASE n # 0
    BY <1>2, <2>2 DEF Inv, Shape
  <2> QED
    BY <2>1, <2>2
<1>4. fd[p] # 0 => pc[p] \in {"write", "sync", "close"}
  BY <1>1 DEF Inv, Progress, ProgressOf
<1>5. ProgressOf(p)'
  BY <1>1 DEF ProgressOf
<1>6. pc' = [pc EXCEPT ![p] = pc'[p]] /\ pc'[p] \in Active
  BY <1>1 DEF Active
<1> QED
  BY <1>1, <1>3, <1>4, <1>5, <1>6, InvInside

\* Rename, Remove and Crash give up a name: no other writer notices.
LEMMA InvRelease ==
    ASSUME Inv, NEW p \in Writers, scheme' = scheme, pc[p] # "idle",
           UNCHANGED <<durable, bytes, synced, doc>>,
           NEW n \in TempNames, n = Temp(p) \/ scheme = "fixed",
           scheme = "unique" => n = p,
           temp' = [temp EXCEPT ![n] = 0],
           pc' = [pc EXCEPT ![p] = "idle"],
           fd' = [fd EXCEPT ![p] = 0],
           result' = [q \in Writers |-> result'[q]],
           live' = live \/ (live' = temp[n] /\ temp[n] # 0 /\ pc[p] = "rename" /\ n = Temp(p))
    PROVE  Inv'
<1>1. temp[n] \in Inodes \cup {0}
  BY DEF Inv, Shape
<1>2. Shape'
  BY <1>1 DEF Inv, Shape
<1>3. Names'
  <2>1. CASE scheme = "unique"
    BY <2>1 DEF Inv, Names, Shape, TempNames
  <2>2. CASE scheme = "fixed"
    BY <2>2 DEF Inv, Names, Shape, TempNames
  <2> QED
    BY <2>1, <2>2 DEF Inv, Shape
<1>4. Alone'
  BY DEF Inv, Alone, Shape
<1>5. Apart'
  <2>1. \A m \in TempNames : temp'[m] = IF m = n THEN 0 ELSE temp[m]
    BY DEF Inv, Shape
  <2>2. 0 \notin {live', durable'}
    BY Assumed DEF Inv, Shape
  <2> QED
    BY <2>1, <2>2 DEF Inv, Apart
<1>6. Published'
  <2>1. CASE live' = live
    BY <2>1 DEF Inv, Published, Whole
  <2>2. CASE live' # live
    <3>1. live' = temp[Temp(p)] /\ pc[p] = "rename"
      BY <2>2
    <3>2. bytes[live'] = Blocks(doc[p]) /\ live' \in synced /\ doc[p] \in Docs
      BY <3>1 DEF Inv, Progress, ProgressOf, Shape
    <3> QED
      BY <3>2 DEF Inv, Published, Whole
  <2> QED
    BY <2>1, <2>2
<1>7. ProgressOf(p)'
  BY DEF Inv, Shape, ProgressOf
<1>8. ASSUME NEW q \in Writers \ {p} PROVE ProgressOf(q)'
  <2>1. pc'[q] = pc[q] /\ fd'[q] = fd[q] /\ doc'[q] = doc[q]
    BY DEF Inv, Shape
  <2>2. ASSUME pc[q] # "idle" PROVE temp'[Temp(q)] = temp[Temp(q)]
    <3>1. scheme = "unique" /\ Temp(q) = q
      BY <2>2, OwnName
    <3> QED
      BY <3>1 DEF Inv, Shape, TempNames
  <2> QED
    BY <2>1, <2>2, OthersProgress
<1>9. Progress'
  BY <1>7, <1>8 DEF Progress
<1> QED
  BY <1>2, <1>3, <1>4, <1>5, <1>6, <1>9 DEF Inv

\* The renamed document is complete and on disk.
LEMMA InvRename ==
    ASSUME Inv, NEW p \in Writers, Rename(p), scheme' = scheme
    PROVE  Inv'
<1>1. /\ pc[p] = "rename" /\ temp[Temp(p)] # 0
      /\ live' = temp[Temp(p)] /\ temp' = [temp EXCEPT ![Temp(p)] = 0]
      /\ pc' = [pc EXCEPT ![p] = "idle"]
      /\ UNCHANGED <<durable, bytes, synced, fd, doc>>
  BY DEF Rename, Goto
<1>2. fd' = [fd EXCEPT ![p] = 0]
  BY <1>1 DEF Inv, Shape, Progress, ProgressOf
<1>3. result' = [q \in Writers |-> result'[q]]
  BY DEF Rename, Inv, Shape
<1>4. Temp(p) \in TempNames /\ (scheme = "unique" => Temp(p) = p)
  BY TempIsName DEF Temp
<1> QED
  BY <1>1, <1>2, <1>3, <1>4, InvRelease

\* Remove gives the failed temporary file up.
LEMMA InvRemove ==
    ASSUME Inv, NEW p \in Writers, Remove(p), scheme' = scheme
    PROVE  Inv'
<1>1. /\ pc[p] = "remove"
      /\ temp' = [temp EXCEPT ![Temp(p)] = 0]
      /\ pc' = [pc EXCEPT ![p] = "idle"]
      /\ UNCHANGED <<live, durable, bytes, synced, fd, doc>>
  BY DEF Remove, Goto
<1>2. fd' = [fd EXCEPT ![p] = 0]
  BY <1>1 DEF Inv, Shape, Progress, ProgressOf
<1>3. result' = [q \in Writers |-> result'[q]]
  BY DEF Remove, Inv, Shape
<1>4. Temp(p) \in TempNames /\ (scheme = "unique" => Temp(p) = p)
  BY TempIsName DEF Temp
<1> QED
  BY <1>1, <1>2, <1>3, <1>4, InvRelease

\* A crashed writer holds nothing any more.
LEMMA InvCrash ==
    ASSUME Inv, NEW p \in Writers, Crash(p), scheme' = scheme
    PROVE  Inv'
<1>1. /\ pc[p] # "idle"
      /\ temp' = [temp EXCEPT ![p] = 0]
      /\ pc' = [pc EXCEPT ![p] = "idle"]
      /\ fd' = [fd EXCEPT ![p] = 0]
      /\ UNCHANGED <<live, durable, bytes, synced, doc, result>>
  BY DEF Crash, Goto
<1>2. p \in TempNames /\ (p = Temp(p) \/ scheme = "fixed")
  BY DEF TempNames, Temp, Inv, Shape
<1>3. result' = [q \in Writers |-> result'[q]]
  BY <1>1 DEF Inv, Shape
<1> QED
  BY <1>1, <1>2, <1>3, InvRelease

\* The directory on disk catches up with the one in memory.
LEMMA InvWriteBack ==
    ASSUME Inv, WriteBack, scheme' = scheme
    PROVE  Inv'
<1>1. /\ durable' = live
      /\ UNCHANGED <<live, temp, bytes, synced, pc, fd, doc, result>>
  BY DEF WriteBack
<1>2. Shape' /\ Names' /\ Alone'
  BY <1>1 DEF Inv, Shape, Names, Alone
<1>3. Apart' /\ Published'
  BY <1>1 DEF Inv, Apart, Published, Whole
<1>4. Progress'
  BY <1>1 DEF Inv, Progress, ProgressOf, Temp
<1> QED
  BY <1>2, <1>3, <1>4 DEF Inv

\* A failed open changes what it returns, and a step of nothing nothing.
LEMMA InvSame ==
    ASSUME Inv, UNCHANGED <<scheme, live, durable, temp, bytes, synced, pc, fd, doc>>,
           result' = [q \in Writers |-> result'[q]]
    PROVE  Inv'
<1>1. Shape' /\ Names' /\ Alone'
  BY DEF Inv, Shape, Names, Alone
<1>2. Apart' /\ Published'
  BY DEF Inv, Apart, Published, Whole
<1>3. Progress'
  BY DEF Inv, Progress, ProgressOf, Temp
<1> QED
  BY <1>1, <1>2, <1>3 DEF Inv

\* What a power loss leaves of the published file was synced.
LEMMA InvPowerLoss ==
    ASSUME Inv, PowerLoss, scheme' = scheme
    PROVE  Inv'
<1>1. /\ live' = durable /\ durable' = durable /\ doc' = doc
      /\ pc' = [p \in Writers |-> "idle"]
      /\ fd' = [p \in Writers |-> 0]
      /\ result' = [p \in Writers |-> "none"]
  BY DEF PowerLoss
<1>2. PICK i \in {0} \cup (IF scheme = "unique" THEN {} ELSE InUse \ {durable}) :
          temp' = [n \in TempNames |-> IF n = "tmp" THEN i ELSE 0]
  BY DEF PowerLoss
<1>3. /\ durable \in synced'
      /\ bytes'[durable] = bytes[durable]
      /\ bytes' = [j \in Inodes |-> bytes'[j]]
  <2> DEFINE reachable == {durable} \cup {temp'[n] : n \in TempNames}
  <2>1. PICK kept \in SUBSET reachable :
            /\ synced' = synced \cap reachable
            /\ bytes' = [j \in Inodes |-> IF j \in synced' \cup kept THEN bytes[j] ELSE <<>>]
    BY DEF PowerLoss
  <2>2. durable \in synced' /\ durable \in Inodes
    BY <2>1 DEF Inv, Published, Shape
  <2> HIDE DEF reachable
  <2> QED
    BY <2>1, <2>2
<1>4. i \in Inodes \cup {0} /\ i # durable /\ (scheme = "unique" => i = 0)
  BY <1>2, Assumed DEF InUse, Inv, Shape
<1>5. Shape'
  BY <1>1, <1>2, <1>3, <1>4 DEF Inv, Shape
<1>6. Names' /\ Alone'
  BY <1>1, <1>2, <1>4, Assumed DEF Inv, Names, Alone, TempNames
<1>7. Apart'
  BY <1>1, <1>2, <1>4, <1>5, Assumed DEF Apart, Shape
<1>8. Published'
  BY <1>1, <1>3 DEF Inv, Published, Whole
<1>9. Progress'
  BY <1>1 DEF Progress, ProgressOf
<1> QED
  BY <1>5, <1>6, <1>7, <1>8, <1>9 DEF Inv

\* The invariant is inductive.
LEMMA InvStep ==
    ASSUME Inv, [Next]_vars
    PROVE  Inv'
<1>1. CASE UNCHANGED vars
  <2>1. result' = [q \in Writers |-> result'[q]]
    BY <1>1 DEF vars, Inv, Shape
  <2> QED
    BY <1>1, <2>1, InvSame DEF vars
<1>2. ASSUME Next PROVE Inv'
  <2> USE <1>2
  <2>1. scheme' = scheme
    BY DEF Next
  <2>2. ASSUME NEW p \in Writers, NEW d \in Docs, Open(p, d) PROVE Inv'
    BY <2>1, <2>2, InvOpen
  <2>3. ASSUME NEW p \in Writers, OpenFails(p) PROVE Inv'
    <3>1. UNCHANGED <<live, durable, temp, bytes, synced, pc, fd, doc>>
      BY <2>3 DEF OpenFails
    <3>2. result' = [q \in Writers |-> result'[q]]
      BY <2>3 DEF OpenFails, Inv, Shape
    <3> QED
      BY <2>1, <3>1, <3>2, InvSame
  <2>4. ASSUME NEW p \in Writers, Write(p) PROVE Inv'
    BY <2>1, <2>4, InvWrite
  <2>5. ASSUME NEW p \in Writers, Sync(p) PROVE Inv'
    BY <2>1, <2>5, InvSync
  <2>6. ASSUME NEW p \in Writers, Close(p) PROVE Inv'
    BY <2>1, <2>6, InvClose
  <2>7. ASSUME NEW p \in Writers, Rename(p) PROVE Inv'
    BY <2>1, <2>7, InvRename
  <2>8. ASSUME NEW p \in Writers, Fail(p) PROVE Inv'
    BY <2>1, <2>8, InvFail
  <2>9. ASSUME NEW p \in Writers, Remove(p) PROVE Inv'
    BY <2>1, <2>9, InvRemove
  <2>10. ASSUME NEW p \in Writers, Crash(p) PROVE Inv'
    BY <2>1, <2>10, InvCrash
  <2>11. CASE WriteBack
    BY <2>1, <2>11, InvWriteBack
  <2>12. CASE PowerLoss
    BY <2>1, <2>12, InvPowerLoss
  <2> QED
    BY <2>2, <2>3, <2>4, <2>5, <2>6, <2>7, <2>8, <2>9, <2>10, <2>11, <2>12 DEF Next
<1> QED
  BY <1>1, <1>2

-----------------------------------------------------------------------------
(* What follows from the invariant.                                        *)

\* The steps of the writers touch no published bytes.
LEMMA PublishedUntouched ==
    ASSUME Inv, NEW p \in Writers,
           \/ \E d \in Docs : Open(p, d)
           \/ OpenFails(p) \/ Write(p) \/ Sync(p) \/ Close(p) \/ Rename(p)
           \/ Fail(p) \/ Remove(p) \/ Crash(p)
    PROVE  durable' = durable /\ bytes'[live] = bytes[live] /\ bytes'[durable] = bytes[durable]
<1>1. live \in Inodes /\ durable \in Inodes /\ live # 0 /\ durable # 0
  BY Assumed DEF Inv, Shape
<1>2. ASSUME NEW d \in Docs, Open(p, d)
      PROVE  durable' = durable /\ bytes'[live] = bytes[live] /\ bytes'[durable] = bytes[durable]
  <2>1. MayStart(p)
    BY <1>2 DEF Open
  <2>2. Temporary(p) \notin {live, durable}
    BY <2>1, OpenInode
  <2>3. bytes' = [bytes EXCEPT ![Temporary(p)] = <<>>] /\ durable' = durable
    BY <1>2 DEF Open
  <2> QED
    BY <1>1, <2>2, <2>3 DEF Inv, Shape
<1>3. CASE Write(p)
  <2>1. fd[p] \notin {live, durable}
    BY <1>3, OwnInode DEF Write
  <2> QED
    BY <1>1, <1>3, <2>1 DEF Write, Inv, Shape
<1>4. CASE Fail(p)
  <2>1. fd[p] \notin {live, durable}
    <3>1. CASE pc[p] \in {"write", "sync", "close"}
      BY <3>1, OwnInode
    <3>2. CASE pc[p] = "rename"
      BY <1>1, <3>2 DEF Inv, Progress, ProgressOf
    <3> QED
      BY <1>4, <3>1, <3>2 DEF Fail
  <2>2. PICK n \in 0 .. Size[doc[p]] - 1 :
            bytes' = IF n = 0 THEN bytes
                     ELSE [bytes EXCEPT ![fd[p]] = SubSeq(Blocks(doc[p]), 1, n) \o
                                                   SubSeq(@, n + 1, Len(@))]
    BY <1>4 DEF Fail
  <2>3. bytes'[live] = bytes[live] /\ bytes'[durable] = bytes[durable]
    <3>1. CASE n = 0
      BY <2>2, <3>1
    <3>2. CASE n # 0
      BY <1>1, <2>1, <2>2, <3>2 DEF Inv, Shape
    <3> QED
      BY <3>1, <3>2
  <2> QED
    BY <1>4, <2>3 DEF Fail
<1>5. CASE OpenFails(p) \/ Sync(p) \/ Close(p) \/ Rename(p) \/ Remove(p) \/ Crash(p)
  BY <1>5 DEF OpenFails, Sync, Close, Rename, Remove, Crash
<1> QED
  BY <1>2, <1>3, <1>4, <1>5

\* What a power loss keeps.
LEMMA PowerLossKeeps ==
    ASSUME Inv, PowerLoss
    PROVE  live' = durable /\ durable' = durable /\ bytes'[durable] = bytes[durable]
<1> DEFINE reachable == {durable} \cup {temp'[n] : n \in TempNames}
<1>1. PICK kept \in SUBSET reachable :
          /\ synced' = synced \cap reachable
          /\ bytes' = [j \in Inodes |-> IF j \in synced' \cup kept THEN bytes[j] ELSE <<>>]
  BY DEF PowerLoss
<1>2. durable \in synced' /\ durable \in Inodes
  BY <1>1 DEF Inv, Published, Shape
<1> HIDE DEF reachable
<1> QED
  BY <1>1, <1>2 DEF PowerLoss

\* While saves under the shared name do not overlap, the file is a complete
\* document of one writer at every moment, and after a power loss.
THEOREM Complete ==
    ASSUME ~Overlap \/ Schemes \subseteq {"unique"}
    PROVE  Spec => []NeverTorn
<1>1. Init => Inv
  BY InvInit
<1>2. Inv /\ [Next]_vars => Inv'
  BY InvStep
<1>3. Inv => NeverTorn
  BY DEF Inv, Published, NeverTorn
<1> QED
  BY <1>1, <1>2, <1>3, PTL DEF Spec

\* Under the same condition no step of any writer changes the bytes of the
\* published file.
THEOREM Final ==
    ASSUME ~Overlap \/ Schemes \subseteq {"unique"}
    PROVE  Spec => PublishedIsFinal
<1>1. Init => Inv
  BY InvInit
<1>2. Inv /\ [Next]_vars => Inv'
  BY InvStep
<1>3. Inv /\ [Next]_vars => [live' = live => bytes'[live] = bytes[live]]_vars
  <2> SUFFICES ASSUME Inv, Next, live' = live PROVE bytes'[live] = bytes[live]
    BY DEF vars
  <2>1. CASE WriteBack
    BY <2>1 DEF WriteBack
  <2>2. CASE PowerLoss
    BY <2>2, PowerLossKeeps
  <2> QED
    BY <2>1, <2>2, PublishedUntouched DEF Next
<1> QED
  BY <1>1, <1>2, <1>3, PTL DEF Spec, PublishedIsFinal

-----------------------------------------------------------------------------
(* The refinement.                                                         *)

\* In a state of the invariant what is on disk counts.
LEMMA KeptIsDurable ==
    ASSUME Inv
    PROVE  Kept = DocOf(bytes[durable])
BY DEF Inv, Published, Kept

\* It stays the same with the binding on disk and the bytes there.
LEMMA KeptSame ==
    ASSUME Inv, Inv', durable' = durable, bytes'[durable] = bytes[durable]
    PROVE  Kept' = Kept
<1>1. durable \in synced /\ durable' \in synced'
  BY DEF Inv, Published
<1> QED
  BY <1>1 DEF Kept, DocOf, Whole, Blocks

\* Saving of a writer.
LEMMA SavingOf ==
    ASSUME Inv, NEW p \in Writers
    PROVE  Saving[p] = (IF pc[p] = "idle" THEN "nothing" ELSE doc[p]) /\ doc[p] \in Docs
BY DEF Saving, Inv, Shape

\* A writer that goes from one place to another changes its own entry.
LEMMA SavingStep ==
    ASSUME Inv, NEW p \in Writers, NEW place, NEW d,
           pc' = [pc EXCEPT ![p] = place],
           doc' = [doc EXCEPT ![p] = d]
    PROVE  Saving' = [Saving EXCEPT ![p] = IF place = "idle" THEN "nothing" ELSE d]
<1>1. \A q \in Writers : /\ pc'[q] = IF q = p THEN place ELSE pc[q]
                         /\ doc'[q] = IF q = p THEN d ELSE doc[q]
  BY DEF Inv, Shape
<1>2. Saving' = [q \in Writers |-> IF pc'[q] = "idle" THEN "nothing" ELSE doc'[q]]
  BY DEF Saving
<1>3. [Saving EXCEPT ![p] = IF place = "idle" THEN "nothing" ELSE d]
        = [q \in Writers |-> IF q = p THEN IF place = "idle" THEN "nothing" ELSE d
                             ELSE Saving[q]]
  BY DEF Saving
<1>4. \A q \in Writers : (IF pc'[q] = "idle" THEN "nothing" ELSE doc'[q])
                           = IF q = p THEN IF place = "idle" THEN "nothing" ELSE d
                             ELSE Saving[q]
  BY <1>1, SavingOf
<1> QED
  BY <1>2, <1>3, <1>4

\* A step inside a save is not visible.
LEMMA InsideIsStutter ==
    ASSUME Inv, Inv', NEW p \in Writers, Write(p) \/ Sync(p) \/ Close(p) \/ Fail(p)
    PROVE  UNCHANGED <<Value, Kept, Saving, result>>
<1>1. durable' = durable /\ bytes'[live] = bytes[live] /\ bytes'[durable] = bytes[durable]
  BY PublishedUntouched
<1>2. live' = live /\ doc' = doc /\ result' = result
  BY DEF Write, Sync, Close, Fail
<1>3. Value' = Value
  BY <1>1, <1>2 DEF Value, DocOf, Whole, Blocks
<1>4. Kept' = Kept
  BY <1>1, KeptSame
<1>5. Saving' = Saving
  <2>1. \A q \in Writers : pc'[q] = "idle" <=> pc[q] = "idle"
    BY DEF Write, Sync, Close, Fail, Goto, Inv, Shape
  <2> QED
    BY <1>2, <2>1 DEF Saving
<1> QED
  BY <1>2, <1>3, <1>4, <1>5

\* Every step is a step of AtomicSave, or none.
LEMMA StepRefines ==
    ASSUME Inv, Inv', [Next]_vars
    PROVE  Atomic!Next \/ UNCHANGED Atomic!vars
<1> USE DEF Atomic!vars, Atomic!Next
<1>1. CASE UNCHANGED vars
  BY <1>1 DEF vars, Value, Kept, Saving, DocOf, Whole, Blocks
<1>2. ASSUME NEW p \in Writers,
             \/ \E d \in Docs : Open(p, d)
             \/ OpenFails(p) \/ Rename(p) \/ Remove(p) \/ Crash(p)
      PROVE  Atomic!Next
  <2>1. durable' = durable /\ bytes'[live] = bytes[live] /\ bytes'[durable] = bytes[durable]
    BY <1>2, PublishedUntouched
  <2>2. Kept' = Kept
    BY <2>1, KeptSame
  <2>3. live' = live => Value' = Value
    BY <2>1 DEF Value, DocOf, Whole, Blocks
  <2>4. doc' = [doc EXCEPT ![p] = doc'[p]] /\ doc[p] \in Docs
    BY <1>2 DEF Inv, Shape, Open, OpenFails, Rename, Remove, Crash
  <2>5. ASSUME NEW d \in Docs, Open(p, d) PROVE Atomic!Begin(p, d)
    <3>1. Saving[p] = "nothing"
      BY <2>5, SavingOf DEF Open, MayStart
    <3>2. Saving' = [Saving EXCEPT ![p] = d]
      <4>1. pc' = [pc EXCEPT ![p] = "write"] /\ doc' = [doc EXCEPT ![p] = d]
        BY <2>5 DEF Open, Goto
      <4> QED
        BY <4>1, SavingStep
    <3> QED
      BY <2>2, <2>3, <2>5, <3>1, <3>2 DEF Open, Atomic!Begin
  <2>6. CASE OpenFails(p)
    <3>1. Saving[p] = "nothing"
      BY <2>6, SavingOf DEF OpenFails, MayStart
    <3>2. Saving' = Saving
      BY <2>6 DEF OpenFails, Saving
    <3>3. Atomic!Refuse(p)
      BY <2>2, <2>3, <2>6, <3>1, <3>2 DEF OpenFails, Atomic!Refuse
    <3> QED
      BY <3>3
  <2>7. ASSUME Rename(p) \/ Remove(p) \/ Crash(p)
        PROVE  Saving' = [Saving EXCEPT ![p] = "nothing"]
    <3>1. pc' = [pc EXCEPT ![p] = "idle"]
      BY <2>7 DEF Rename, Remove, Crash, Goto
    <3> QED
      BY <2>4, <3>1, SavingStep
  <2>8. ASSUME Rename(p) \/ Remove(p) PROVE Saving[p] = doc[p] /\ Saving[p] # "nothing"
    <3>1. pc[p] # "idle"
      BY <2>8 DEF Rename, Remove
    <3> QED
      BY <2>4, <3>1, SavingOf, Assumed
  <2>9. CASE Rename(p)
    <3>1. bytes[temp[Temp(p)]] = Blocks(doc[p])
      BY <2>9 DEF Rename, Inv, Progress, ProgressOf
    <3>2. live' = temp[Temp(p)] /\ bytes' = bytes
      BY <2>9 DEF Rename
    <3>3. Value' = DocOf(Blocks(doc[p]))
      BY <3>1, <3>2 DEF Value, DocOf, Whole, Blocks
    <3>4. Value' = Saving[p]
      BY <2>4, <2>8, <2>9, <3>3, DocOfBlocks
    <3>5. Atomic!Commit(p)
      BY <2>2, <2>7, <2>8, <2>9, <3>4 DEF Rename, Atomic!Commit, Atomic!Return
    <3> QED
      BY <3>5
  <2>10. CASE Remove(p)
    <3>1. Atomic!Abort(p)
      BY <2>2, <2>3, <2>7, <2>8, <2>10 DEF Remove, Atomic!Abort, Atomic!Return
    <3> QED
      BY <3>1
  <2>11. CASE Crash(p)
    <3>1. Atomic!Crash(p)
      BY <2>2, <2>3, <2>7, <2>11 DEF Crash, Atomic!Crash
    <3> QED
      BY <3>1
  <2> QED
    BY <1>2, <2>5, <2>6, <2>9, <2>10, <2>11
<1>3. CASE WriteBack
  <2>1. UNCHANGED <<live, bytes, synced, pc, doc, result>> /\ durable' = live
    BY <1>3 DEF WriteBack
  <2>2. Value' = Value /\ Saving' = Saving
    BY <2>1 DEF Value, Saving, DocOf, Whole, Blocks
  <2>3. Kept' = Value
    BY <2>1 DEF Inv, Published, Kept, Value, DocOf, Whole, Blocks
  <2>4. Atomic!Flush
    BY <2>1, <2>2, <2>3 DEF Atomic!Flush
  <2> QED
    BY <2>4
<1>4. CASE PowerLoss
  <2>1. live' = durable /\ durable' = durable /\ bytes'[durable] = bytes[durable]
    BY <1>4, PowerLossKeeps
  <2>2. durable \in synced /\ durable' \in synced'
    BY DEF Inv, Published
  <2>3. Value' = Kept /\ Kept' = Kept
    BY <2>1, <2>2 DEF Value, Kept, DocOf, Whole, Blocks
  <2>4. Saving' = [p \in Writers |-> "nothing"]
    BY <1>4 DEF PowerLoss, Saving
  <2>5. Atomic!PowerLoss
    BY <1>4, <2>3, <2>4 DEF PowerLoss, Atomic!PowerLoss
  <2> QED
    BY <2>5
<1>5. ASSUME NEW p \in Writers, Write(p) \/ Sync(p) \/ Close(p) \/ Fail(p)
      PROVE  UNCHANGED Atomic!vars
  BY <1>5, InsideIsStutter
<1> QED
  BY <1>1, <1>2, <1>3, <1>4, <1>5 DEF Next

\* SaveKeyStore for any number of processes, and SaveOutbox while one process
\* saves at a time, replace the file whole or leave it alone.
THEOREM Implements ==
    ASSUME ~Overlap \/ Schemes \subseteq {"unique"}
    PROVE  Spec => SavesAtomically
<1>1. Init => Inv
  BY InvInit
<1>2. Inv /\ [Next]_vars => Inv'
  BY InvStep
<1>3. Init => Atomic!Init
  <2> SUFFICES ASSUME Init PROVE Atomic!Init
    OBVIOUS
  <2>1. Inv
    BY InvInit
  <2>2. PICK d \in Docs : bytes[live] = Blocks(d)
    BY <2>1 DEF Inv, Published, Whole
  <2>3. Value = d /\ Kept = d
    BY <2>1, <2>2, DocOfBlocks, KeptIsDurable DEF Init, Value
  <2>4. Saving = [p \in Writers |-> "nothing"]
    BY DEF Init, Saving
  <2> QED
    BY <2>3, <2>4 DEF Init, Atomic!Init
<1>4. Inv /\ Inv' /\ [Next]_vars => [Atomic!Next]_(Atomic!vars)
  BY StepRefines
<1> QED
  BY <1>1, <1>2, <1>3, <1>4, PTL DEF Spec, SavesAtomically, Atomic!Spec

=============================================================================
