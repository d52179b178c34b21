--------------------------------- MODULE Tar ---------------------------------
(***************************************************************************)
(* The tar archive that the boot loader keeps its configuration files in   *)
(* (lib/tar.c).  An archive is the RTK directory header "tmp/factory/",    *)
(* followed by the files.  The order of the files is abstracted away (the  *)
(* loops that walk the archive are modelled in TarWalk, and shown there to *)
(* compute what this module says); what is kept is                         *)
(*   rooted  the directory header is the first entry,                      *)
(*   files   the data of every file, NoFile for a path with no entry,      *)
(*   dups    how many redundant RTK headers were archived as if they were  *)
(*           files.                                                        *)
(* Sizes are counted in 512-byte blocks, the unit of a tar archive.        *)
(***************************************************************************)
EXTENDS Naturals, FiniteSets

CONSTANTS
    Path,        \* the paths that callers pass to the store
    Data,        \* the contents a file may have
    NoFile,      \* marks a path that has no entry
    Blocks,      \* Blocks[d]: length of d rounded up to 512-byte blocks
    MaxBlocks,   \* the longest file
    Prefix,      \* <<f, n>>: the string f is a prefix of the path n
    RootPrefix,  \* the paths that are a prefix of "tmp/factory/" itself
    NAS          \* built with NAS_ENABLE

ASSUME TarAssumption ==
    /\ IsFiniteSet(Path)
    /\ NoFile \notin Data
    /\ MaxBlocks \in Nat
    /\ Blocks \in [Data -> 0..MaxBlocks]
    /\ Prefix \subseteq Path \X Path
    /\ \A f \in Path : <<f, f>> \in Prefix
    /\ RootPrefix \subseteq Path
    /\ NAS \in BOOLEAN

Image == [rooted : BOOLEAN, files : [Path -> Data \cup {NoFile}], dups : Nat]

\* An archive that holds nothing but the directory header.
EmptyImage == [rooted |-> TRUE, files |-> [n \in Path |-> NoFile], dups |-> 0]

\* TAR_PADDING_SZ: the blocks of zeros that end an archive on flash.
Padding == IF NAS THEN 2 ELSE 0

\* One header block per file, and the blocks of its data.
tar_blocks(im) ==
    {b \in Path \X (0..MaxBlocks) : /\ im.files[b[1]] # NoFile
                                    /\ b[2] <= Blocks[im.files[b[1]]]}

tar_size(im) ==
    (IF im.rooted THEN 1 ELSE 0) + Cardinality(tar_blocks(im)) + im.dups

\* Mutant of Unmatched: the header behind the archive is archived.
Unmatched_KeepsTail(im, f, tail) ==
    [rooted |-> im.rooted /\ f \notin RootPrefix,
     files  |-> [n \in Path |-> IF <<f, n>> \in Prefix THEN NoFile
                                                       ELSE im.files[n]],
     dups   |-> im.dups + (IF tail THEN 1 ELSE 0)]

\* The entries that a walk looking for f keeps.  strstr(name, f) == name
\* compares prefixes, so every path that f is a prefix of goes.  The walk
\* also meets the RTK header that a save left behind the archive (tail): the
\* NAS build skips such headers, the other builds archive it.
Unmatched(im, f, tail) ==
    [rooted |-> im.rooted /\ f \notin RootPrefix,
     files  |-> [n \in Path |-> IF <<f, n>> \in Prefix THEN NoFile
                                                       ELSE im.files[n]],
     dups   |-> IF NAS \/ f \in RootPrefix THEN 0
                ELSE im.dups + (IF tail THEN 1 ELSE 0)]

\* tar_add_or_delete with addordel = 0 and with addordel = 1.
tar_delete(im, f, tail) == Unmatched(im, f, tail)
tar_add(im, f, d, tail) == [Unmatched(im, f, tail) EXCEPT !.files[f] = d]

\* tar_read compares whole names.
tar_read(im, f) == im.files[f]
=============================================================================
