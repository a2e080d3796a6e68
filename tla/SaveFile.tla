------------------------------- MODULE SaveFile -------------------------------
(***************************************************************************)
(* SaveOutbox and SaveKeyStore, system call by system call: open a         *)
(* temporary file beside the target, write, fsync, close, rename; on any   *)
(* error remove the temporary file and return the error.  They differ in   *)
(* the temporary file: outbox.json.tmp for every writer, opened with       *)
(* O_TRUNC, or a new file of its own from os.CreateTemp.                   *)
(*                                                                         *)
(* The file system (external) is POSIX: names are bound to inodes, an open *)
(* file stays on its inode when the name moves on, write starts at the     *)
(* descriptor's own offset and truncates nothing, rename is atomic.  After *)
(* a power loss the directory is as last written back, and an inode that   *)
(* was written after its last fsync may have lost its bytes.               *)
(***************************************************************************)
EXTENDS Naturals, Sequences, FiniteSets

CONSTANTS
    Writers,  \* the processes that save the file
    Schemes,  \* "unique" (SaveKeyStore), "fixed" (SaveOutbox) or both
    Overlap,  \* whether SaveOutbox calls may overlap
    Docs,     \* the documents they save
    Size,     \* how many blocks each document has
    Inodes

\* When a file is created, the file's binding in memory, the one on disk and
\* the open file of every other writer are in use.
ASSUME SaveFileAssumption ==
    /\ Schemes \subseteq {"unique", "fixed"}
    /\ Overlap \in BOOLEAN
    /\ Size \in [Docs -> Nat \ {0}]
    /\ IsFiniteSet(Writers) /\ IsFiniteSet(Inodes)
    /\ Cardinality(Inodes) >= Cardinality(Writers) + 2
    /\ 0 \notin Inodes
    /\ "tmp" \notin Writers /\ "nothing" \notin Docs

VARIABLES
    scheme,   \* which of the two functions saves this file
    live,     \* the inode the file's name is bound to
    durable,  \* the same, in the directory on disk
    temp,     \* the inode each temporary name is bound to, 0 for none
    bytes,    \* the blocks of each inode, each block named by its document
    synced,   \* inodes whose bytes an fsync has put on disk
    pc,       \* where each writer is
    fd,       \* the inode each writer has open, 0 for none
    doc,      \* the document each writer saves
    result    \* how its last save returned

vars == <<scheme, live, durable, temp, bytes, synced, pc, fd, doc, result>>

TempNames == Writers \cup {"tmp"}
Temp(p)   == IF scheme = "unique" THEN p ELSE "tmp"

Blocks(d) == [i \in 1 .. Size[d] |-> d]
Whole(b)  == \E d \in Docs : b = Blocks(d)

\* write(2) at offset 0.
Overwritten(b, d) ==
    [i \in 1 .. (IF Len(b) > Size[d] THEN Len(b) ELSE Size[d]) |->
        IF i <= Size[d] THEN d ELSE b[i]]

InUse  == {live, durable} \cup {temp[n] : n \in TempNames} \cup {fd[p] : p \in Writers}
Unused == CHOOSE i \in Inodes : i \notin InUse

Temporary(p) == IF temp[Temp(p)] = 0 THEN Unused ELSE temp[Temp(p)]

\* Nothing keeps two processes from saving at once, but their user may.
MayStart(p) ==
    /\ pc[p] = "idle"
    /\ scheme = "unique" \/ Overlap \/ \A q \in Writers : pc[q] = "idle"

Goto(p, place) == pc' = [pc EXCEPT ![p] = place]

-----------------------------------------------------------------------------
\* Seeded fault: an old temporary file is opened as it is (no O_TRUNC).
OpenKeeping(p, d) ==
    LET i == Temporary(p)
    IN  /\ MayStart(p)
        /\ temp' = [temp EXCEPT ![Temp(p)] = i]
        /\ synced' = synced \ {i}
        /\ fd' = [fd EXCEPT ![p] = i]
        /\ doc' = [doc EXCEPT ![p] = d]
        /\ result' = [result EXCEPT ![p] = "none"]
        /\ Goto(p, "write")
        /\ UNCHANGED <<live, durable, bytes>>

\* Seeded fault: the file itself is opened and written in place.
OpenInPlace(p, d) ==
    /\ MayStart(p)
    /\ temp' = [temp EXCEPT ![Temp(p)] = live]
    /\ bytes' = [bytes EXCEPT ![live] = <<>>]
    /\ synced' = synced \ {live}
    /\ fd' = [fd EXCEPT ![p] = live]
    /\ doc' = [doc EXCEPT ![p] = d]
    /\ result' = [result EXCEPT ![p] = "none"]
    /\ Goto(p, "write")
    /\ UNCHANGED <<live, durable>>

\* O_CREATE|O_TRUNC on the shared name reuses what is bound to it; CreateTemp
\* makes a new file under a new name.
Open(p, d) ==
    LET i == Temporary(p)
    IN  /\ MayStart(p)
        /\ temp' = [temp EXCEPT ![Temp(p)] = i]
        /\ bytes' = [bytes EXCEPT ![i] = <<>>]
        /\ synced' = synced \ {i}
        /\ fd' = [fd EXCEPT ![p] = i]
        /\ doc' = [doc EXCEPT ![p] = d]
        /\ result' = [result EXCEPT ![p] = "none"]
        /\ Goto(p, "write")
        /\ UNCHANGED <<live, durable>>

\* The temporary file cannot be opened, and is not removed either.
OpenFails(p) ==
    /\ MayStart(p)
    /\ result' = [result EXCEPT ![p] = "error"]
    /\ UNCHANGED <<live, durable, temp, bytes, synced, pc, fd, doc>>

Write(p) ==
    /\ pc[p] = "write"
    /\ bytes' = [bytes EXCEPT ![fd[p]] = Overwritten(@, doc[p])]
    /\ synced' = synced \ {fd[p]}
    /\ Goto(p, "sync")
    /\ UNCHANGED <<live, durable, temp, fd, doc, result>>

Sync(p) ==
    /\ pc[p] = "sync"
    /\ synced' = synced \cup {fd[p]}
    /\ Goto(p, "close")
    /\ UNCHANGED <<live, durable, temp, bytes, fd, doc, result>>

Close(p) ==
    /\ pc[p] = "close"
    /\ fd' = [fd EXCEPT ![p] = 0]
    /\ Goto(p, "rename")
    /\ UNCHANGED <<live, durable, temp, bytes, synced, doc, result>>

Rename(p) ==
    /\ pc[p] = "rename"
    /\ temp[Temp(p)] # 0
    /\ live' = temp[Temp(p)]
    /\ temp' = [temp EXCEPT ![Temp(p)] = 0]
    /\ result' = [result EXCEPT ![p] = "ok"]
    /\ Goto(p, "idle")
    /\ UNCHANGED <<durable, bytes, synced, fd, doc>>

\* Write (after some blocks), Sync, Close or Rename returns an error.
Fail(p) ==
    /\ pc[p] \in {"write", "sync", "close", "rename"}
    /\ \E n \in 0 .. Size[doc[p]] - 1 :
          /\ pc[p] # "write" => n = 0
          /\ bytes' = IF n = 0 THEN bytes
                      ELSE [bytes EXCEPT ![fd[p]] = SubSeq(Blocks(doc[p]), 1, n) \o
                                                    SubSeq(@, n + 1, Len(@))]
          /\ synced' = IF n = 0 THEN synced ELSE synced \ {fd[p]}
    /\ fd' = [fd EXCEPT ![p] = 0]
    /\ Goto(p, "remove")
    /\ UNCHANGED <<live, durable, temp, doc, result>>

\* Seeded fault: the error of the failed call is dropped.
RemoveSilently(p) ==
    /\ pc[p] = "remove"
    /\ temp' = [temp EXCEPT ![Temp(p)] = 0]
    /\ result' = [result EXCEPT ![p] = "ok"]
    /\ Goto(p, "idle")
    /\ UNCHANGED <<live, durable, bytes, synced, fd, doc>>

\* os.Remove of the temporary name; the save returns the error.
Remove(p) ==
    /\ pc[p] = "remove"
    /\ temp' = [temp EXCEPT ![Temp(p)] = 0]
    /\ result' = [result EXCEPT ![p] = "error"]
    /\ Goto(p, "idle")
    /\ UNCHANGED <<live, durable, bytes, synced, fd, doc>>

\* The temporary file stays behind; under CreateTemp's name nobody finds it.
Crash(p) ==
    /\ pc[p] # "idle"
    /\ fd' = [fd EXCEPT ![p] = 0]
    /\ temp' = [temp EXCEPT ![p] = 0]
    /\ Goto(p, "idle")
    /\ UNCHANGED <<live, durable, bytes, synced, doc, result>>

WriteBack ==
    /\ durable # live
    /\ durable' = live
    /\ UNCHANGED <<live, temp, bytes, synced, pc, fd, doc, result>>

\* The shared temporary name may come back bound to anything but the file
\* itself; CreateTemp never returns a name that is taken.
PowerLoss ==
    /\ live' = durable
    /\ \E i \in {0} \cup (IF scheme = "unique" THEN {} ELSE InUse \ {durable}) :
          temp' = [n \in TempNames |-> IF n = "tmp" THEN i ELSE 0]
    /\ LET reachable == {durable} \cup {temp'[n] : n \in TempNames}
       IN  \E kept \in SUBSET reachable :
             /\ synced' = synced \cap reachable
             /\ bytes' = [i \in Inodes |-> IF i \in synced' \cup kept THEN bytes[i] ELSE <<>>]
    /\ pc' = [p \in Writers |-> "idle"]
    /\ fd' = [p \in Writers |-> 0]
    /\ result' = [p \in Writers |-> "none"]
    /\ UNCHANGED <<durable, doc>>

Init ==
    /\ scheme \in Schemes
    /\ live = CHOOSE i \in Inodes : TRUE
    /\ durable = live
    /\ \E d \in Docs : bytes = [i \in Inodes |-> IF i = live THEN Blocks(d) ELSE <<>>]
    /\ synced = {live}
    /\ temp = [n \in TempNames |-> 0]
    /\ pc = [p \in Writers |-> "idle"]
    /\ fd = [p \in Writers |-> 0]
    /\ doc \in [Writers -> Docs]
    /\ result = [p \in Writers |-> "none"]

Next ==
    /\ \/ \E p \in Writers :
             \/ \E d \in Docs : Open(p, d)
             \/ OpenFails(p)
             \/ Write(p) \/ Sync(p) \/ Close(p) \/ Rename(p)
             \/ Fail(p) \/ Remove(p) \/ Crash(p)
       \/ WriteBack
       \/ PowerLoss
    /\ UNCHANGED scheme

Spec == Init /\ [][Next]_vars

-----------------------------------------------------------------------------
(* Properties.                                                             *)

\* The file is a complete document of one writer at every moment, and would
\* be after a power loss: "never a half-written outbox.json".
NeverTorn ==
    /\ Whole(bytes[live])
    /\ Whole(bytes[durable]) /\ durable \in synced

\* No writer touches the bytes of the published file, which a LoadOutbox or
\* LoadKeyStore may be reading: it is replaced, never rewritten.
PublishedIsFinal == [][live' = live => bytes'[live] = bytes[live]]_vars

-----------------------------------------------------------------------------
(* SaveFile as an implementation of AtomicSave.                            *)

DocOf(b) == IF Whole(b) THEN CHOOSE d \in Docs : b = Blocks(d) ELSE "torn"

Value  == DocOf(bytes[live])
Kept   == IF durable \in synced THEN DocOf(bytes[durable]) ELSE "torn"
Saving == [p \in Writers |-> IF pc[p] = "idle" THEN "nothing" ELSE doc[p]]

Atomic == INSTANCE AtomicSave WITH value <- Value, durable <- Kept, saving <- Saving

\* SaveOutbox while one process saves at a time, and SaveKeyStore for any
\* number of processes, do what their callers count on.
SavesAtomically == Atomic!Spec

=============================================================================
