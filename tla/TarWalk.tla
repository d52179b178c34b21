------------------------------- MODULE TarWalk -------------------------------
(***************************************************************************)
(* The loops of lib/tar.c, entry by entry.  tar_add_or_delete walks the    *)
(* archive in factory_buffer, copies what it keeps to factory_buffer2, and *)
(* copies the result back; the RTK header that a save left behind the      *)
(* archive is met by the walk like any other entry.  The module Tar says   *)
(* what the walk computes; the variable im holds what Tar computes for the *)
(* same calls, and the properties compare the two.                         *)
(***************************************************************************)
EXTENDS Tar, Sequences, FiniteSetsExt

CONSTANTS
    Root,      \* the name of the RTK header, "tmp/factory/"
    EnvPath,   \* the paths below "tmp/factory/env/"
    TmpLen     \* tmp_buf_length: blocks of factory_buffer and factory_buffer2

ASSUME WalkAssumption ==
    /\ Root \notin Path
    /\ EnvPath \subseteq Path
    /\ TmpLen \in Nat /\ TmpLen > Padding

VARIABLES
    buf,       \* dst_tar_buf: the entries of the archive
    tail,      \* a copy of the first header lies behind them
    tmp,       \* tmp_buf: the entries copied so far
    i,         \* the entry that the walk looks at
    done,      \* the file is already in tmp_buf
    call,      \* the arguments of the call
    pc,        \* "idle" or "walk"
    im         \* the archive according to Tar

vars == <<buf, tail, tmp, i, done, call, pc, im>>

\* rtk: the header carries the signature "RTK".
Entry == [name : Path \cup {Root}, data : Data \cup {NoFile}, rtk : BOOLEAN]

RootEntry == [name |-> Root, data |-> NoFile, rtk |-> TRUE]

NoCall == [f |-> NoFile, d |-> NoFile, add |-> FALSE]

-----------------------------------------------------------------------------

\* 512 + file_size, in blocks.
EntrySize(e) == 1 + (IF e.name = Root THEN 0 ELSE Blocks[e.data])

\* The blocks that the entries of s take: <<n, k>> is block k of entry n.
Taken(s) == {b \in (DOMAIN s) \X (0..MaxBlocks) : b[2] < EntrySize(s[b[1]])}
Size(s) == Cardinality(Taken(s))

\* The header of e with the RTK fields filled in.
Signed(e) == [name |-> e.name, data |-> e.data, rtk |-> TRUE]

\* The entries that a walk of factory_buffer meets.
Met == IF tail THEN Append(buf, Signed(buf[1])) ELSE buf

\* strstr(header->name, filename) == header->name
Matches(e, f) == IF e.name = Root THEN f \in RootPrefix ELSE <<f, e.name>> \in Prefix

\* factory_write and factory_delete call tar_add_or_delete.
Call(f, d, add) ==
    /\ pc = "idle"
    /\ pc' = "walk"
    /\ call' = [f |-> f, d |-> d, add |-> add]
    /\ tmp' = <<>> /\ i' = 1 /\ done' = FALSE
    /\ im' = IF add THEN tar_add(im, f, d, tail) ELSE tar_delete(im, f, tail)
    /\ UNCHANGED <<buf, tail>>

\* Mutant of CallAdd: the header of the new file is not counted.
CallAdd_NoHeader(f, d) ==
    /\ Blocks[d] + Size(buf) + Padding <= TmpLen
    /\ Call(f, d, TRUE)

CallAdd(f, d) ==
    /\ Blocks[d] + Size(buf) + 1 + Padding <= TmpLen
    /\ Call(f, d, TRUE)

CallDelete(f) == Call(f, NoFile, FALSE)

\* Mutant of WalkMatch: every match is replaced, not only the first.
WalkMatch_NotDone ==
    /\ pc = "walk" /\ i <= Len(Met)
    /\ Matches(Met[i], call.f)
    /\ tmp' = IF call.add
              THEN Append(tmp, [name |-> call.f, data |-> call.d, rtk |-> Met[i].rtk])
              ELSE tmp
    /\ done' = (done \/ call.add)
    /\ i' = i + 1
    /\ UNCHANGED <<buf, tail, call, pc, im>>

\* The entry is one that filename is a prefix of: the first is replaced when
\* adding (its header is rebuilt in place and keeps the RTK fields), the others
\* are dropped.
WalkMatch ==
    /\ pc = "walk" /\ i <= Len(Met)
    /\ Matches(Met[i], call.f)
    /\ tmp' = IF call.add /\ ~done
              THEN Append(tmp, [name |-> call.f, data |-> call.d, rtk |-> Met[i].rtk])
              ELSE tmp
    /\ done' = (done \/ call.add)
    /\ i' = i + 1
    /\ UNCHANGED <<buf, tail, call, pc, im>>

\* Any other entry is kept, but for RTK headers past the first entry.
WalkKeep ==
    /\ pc = "walk" /\ i <= Len(Met)
    /\ ~Matches(Met[i], call.f)
    /\ tmp' = IF NAS /\ Met[i].rtk /\ i > 1 THEN tmp ELSE Append(tmp, Met[i])
    /\ i' = i + 1
    /\ UNCHANGED <<buf, tail, done, call, pc, im>>

\* Past the last entry: a file that replaced nothing is appended, and the
\* result is copied back over the archive and the header behind it.
WalkEnd ==
    /\ pc = "walk" /\ i > Len(Met)
    /\ buf' = IF call.add /\ ~done
              THEN Append(tmp, [name |-> call.f, data |-> call.d, rtk |-> FALSE])
              ELSE tmp
    /\ tmp' = <<>>
    /\ i' = 1 /\ done' = FALSE /\ call' = NoCall
    /\ tail' = FALSE
    /\ pc' = "idle"
    /\ UNCHANGED im

\* A save that failed, or a boot, leaves the first header, with the RTK fields
\* filled in, behind the archive.
LeaveTail ==
    /\ pc = "idle"
    /\ ~tail
    /\ buf # <<>>
    /\ tail' = TRUE
    /\ buf' = [buf EXCEPT ![1] = Signed(@)]
    /\ UNCHANGED <<tmp, i, done, call, pc, im>>

Init ==
    /\ buf = <<RootEntry>>
    /\ tail = FALSE
    /\ tmp = <<>> /\ i = 1 /\ done = FALSE /\ call = NoCall
    /\ pc = "idle"
    /\ im = EmptyImage

Next ==
    \/ \E f \in Path, d \in Data : CallAdd(f, d)
    \/ \E f \in Path : CallDelete(f)
    \/ WalkMatch
    \/ WalkKeep
    \/ WalkEnd
    \/ LeaveTail

Spec == Init /\ [][Next]_vars

-----------------------------------------------------------------------------
(* Reading: tar_read and tar_read_by_index *)

\* Mutants of read and EnvEntries: prefixes are compared as in
\* tar_add_or_delete; every entry counts.
read_Prefix(f) == LET hits == {n \in DOMAIN Met : Matches(Met[n], f)}
                  IN  IF hits = {} THEN NoFile ELSE Met[Min(hits)].data
EnvEntries_CountsAll == DOMAIN Met

\* The first entry called f.
read(f) == LET hits == {n \in DOMAIN Met : Met[n].name = f}
           IN  IF hits = {} THEN NoFile ELSE Met[Min(hits)].data

\* The entries below "tmp/factory/env/".
EnvEntries == {n \in DOMAIN Met : Met[n].name \in EnvPath}

\* The entry that tar_read_by_index stops at when it has counted index down:
\* the one with index such entries before it; none if there are not so many.
by_index(index) ==
    {n \in EnvEntries : Cardinality({m \in EnvEntries : m < n}) = index}

-----------------------------------------------------------------------------
(* Properties *)

\* The archive that the entries of s stand for.
Abs(s) ==
    [rooted |-> s # <<>> /\ s[1].name = Root,
     files  |-> [f \in Path |->
                   IF \E n \in DOMAIN s : s[n].name = f
                   THEN s[CHOOSE n \in DOMAIN s : s[n].name = f].data ELSE NoFile],
     dups   |-> Cardinality({n \in DOMAIN s : n > 1 /\ s[n].name = Root})]

\* No path has two entries.
NamesOnce(s) == \A m, n \in DOMAIN s : s[m].name = s[n].name => m = n

\* tar_add_or_delete computes what Tar says: the same files with the same
\* data, no path twice, and a return value that is the size of the archive.
WalkComputesTar ==
    pc = "idle" => Abs(buf) = im /\ Size(buf) = tar_size(im) /\ NamesOnce(buf)

\* tar_read finds every file of the archive, with its data, and no other, even
\* with a header left behind the archive.
ReadsBack == pc = "idle" => \A f \in Path : read(f) = tar_read(im, f)

\* tar_read_by_index enumerates every environment file once, with its data, and
\* finds nothing for an index past the last one.
IndexEnumerates ==
    pc = "idle" /\ im.rooted =>
      LET files == {f \in EnvPath : im.files[f] # NoFile}
          index == 0..(Cardinality(files) - 1)
      IN  /\ by_index(Cardinality(files)) = {}
          /\ \A k \in index : \E n \in by_index(k) :
                by_index(k) = {n} /\ Met[n].data = im.files[Met[n].name]
          /\ \A f \in files : \E k \in index : \E n \in by_index(k) : Met[n].name = f

\* The walk never runs over the end of factory_buffer2, and leaves room there
\* for the padding that ends an archive on flash.
TmpFits == Size(tmp) <= TmpLen - Padding /\ Size(buf) <= TmpLen - Padding
=============================================================================
