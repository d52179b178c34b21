--------------------------- MODULE FactoryStoreInv ---------------------------
(***************************************************************************)
(* Inductive invariants of the factory store: PingPong, why saves are      *)
(* atomic on a medium that is erased before it is written, as long as      *)
(* factory_reset is not used; WholeInv and ResetInv, what remains of it    *)
(* with resets and every fault; EmmcInv, why saves are atomic on an eMMC.  *)
(***************************************************************************)
EXTENDS FactoryStore

Inc(n) == (n + 1) % SeqMod

\* A header on flash never points past the end of its own copy.
HeadersInside(fl) ==
    \A s \in Slot : fl[s][0].k = "hdr" => fl[s][0].len < Half

\* A copy that a boot accepts is the copy of one archive, block by block.
WholeCopy(fl, s) ==
    Valid(fl, s) => /\ Intact(fl, s)
                    /\ Content(fl, s) \in Image
                    /\ Content(fl, s).rooted
                    /\ tar_size(Content(fl, s)) = fl[s][0].len

\* Even numbers go to copy 0, odd ones to copy 1, ...
Parity(fl) == \A s \in Slot : Valid(fl, s) => fl[s][0].seq % 2 = s

\* ... and two copies are one save apart.  Together these make the comparison
\* of sequence numbers right even when they wrap around.
Adjacent(fl) == Valid(fl, 0) /\ Valid(fl, 1) =>
                    \/ fl[1][0].seq = Inc(fl[0][0].seq)
                    \/ fl[0][0].seq = Inc(fl[1][0].seq)

FlashOK(fl) == /\ HeadersInside(fl)
               /\ \A s \in Slot : WholeCopy(fl, s)
               /\ Parity(fl)
               /\ Adjacent(fl)

\* The current copy and sequence number, as the boot loader knows them,
\* describe the flash; before the first save there is no current copy.
Agrees(fl, pp, n) ==
    /\ n % 2 = pp
    /\ IF Valid(fl, pp) THEN fl[pp][0].seq = n
       ELSE /\ pp = 0 /\ n = 0
            /\ Valid(fl, 1) => fl[1][0].seq = 1

\* How far the save in progress has come.
Progress ==
    /\ header = Hdr(Inc(factory_seq_num), factory_tarsize, TRUE)
    /\ ~TooBig
    /\ \A i \in 0..(Half - 1) :
         /\ i < pos => flash[next_pp][i] = IF pc = "erase" THEN Blank
                                                          ELSE BufferBlock(i)
         /\ pc = "write" /\ pos <= i /\ i < total_len => flash[next_pp][i] = Blank

\* The copies on flash are whole, one save apart, and known to the running
\* boot loader; the copy being saved is the only one touched and is not valid
\* until its last header is in place.
PingPong ==
    /\ FlashOK(flash)
    /\ factory_buffer.rooted
    /\ pc # "reset" /\ caller = "api"
    /\ pc = "off" => factory_current_pp = 0 /\ factory_seq_num = 0
    /\ pc # "off" => Agrees(flash, factory_current_pp, factory_seq_num)
    /\ pc \in {"erase", "write"} => Progress

-----------------------------------------------------------------------------
(* What remains of it with factory_reset, read errors, remapped blocks and   *)
(* archives that lost their directory header: on the same media the copies   *)
(* are still whole, although their numbers may mean nothing.                 *)

\* How far a save has come when a page of it may have been remapped: the
\* front header is gone then, and is not written again.
Underway ==
    /\ header = Hdr(next_seqnum, factory_tarsize, factory_buffer.rooted)
    /\ factory_tarsize > 0
    /\ ~TooBig
    /\ \/ pc = "write" /\ pos > 0 /\ flash[next_pp][0] = Blank
       \/ \A i \in 0..(Half - 1) :
            /\ i < pos => flash[next_pp][i] = IF pc = "erase" THEN Blank
                                                             ELSE BufferBlock(i)
            /\ pc = "write" /\ pos <= i /\ i < total_len =>
                  flash[next_pp][i] = Blank

WholeInv ==
    /\ HeadersInside(flash)
    /\ \A s \in Slot : WholeCopy(flash, s)
    /\ pc \in {"erase", "write"} => Underway

\* Without faults, the boot loader knows the number of its current copy except
\* while a reset makes its first save, and a reset empties one copy after the
\* other.
ResetInv ==
    /\ pc # "off" /\ caller # "reset1" /\ Valid(flash, factory_current_pp) =>
          flash[factory_current_pp][0].seq = factory_seq_num
    /\ caller # "api" => factory_buffer = EmptyImage
    /\ caller = "reset2" => /\ Valid(flash, factory_current_pp)
                            /\ Content(flash, factory_current_pp) = EmptyImage
    /\ pc = "reset" => caller # "api"
    /\ caller # "api" => pc \in {"reset", "erase", "write"}
    /\ pc \in {"erase", "write"} => factory_seq_num < MaxSeq
    /\ pc = "write" /\ pos > 0 => flash[next_pp][0] # Blank
    /\ RootPrefix = {} => factory_buffer.rooted

-----------------------------------------------------------------------------
(* An eMMC is overwritten in place: what keeps a save atomic there, without  *)
(* factory_reset and write errors, is that no block the save has not reached *)
(* yet can be taken for the header behind its archive.                       *)

\* The sequence number of the copy that a boot takes.
CurrentSeq(fl) == IF AnyValid(fl) THEN fl[Chosen(fl)][0].seq ELSE 0

\* Headers inside a copy are of saves up to the last one that took effect.
OldHeaders(fl) ==
    \A s \in Slot : \A i \in 1..(Half - 1) :
        fl[s][i].k = "hdr" => fl[s][i].seq <= CurrentSeq(fl)

\* How far the save in progress has come.  The block past the end of copy 0
\* is written from header2, with what is there already.
Overwriting ==
    /\ factory_seq_num < MaxSeq
    /\ header = Hdr(Inc(factory_seq_num), factory_tarsize, TRUE)
    /\ Valid(flash, factory_current_pp) => header2 = flash[factory_current_pp][0]
    /\ CurrentSeq(flash) = IF pos > factory_tarsize THEN Inc(factory_seq_num)
                                                    ELSE factory_seq_num
    /\ \A i \in 0..(Half - 1) : i < pos => flash[next_pp][i] = BufferBlock(i)

\* Between saves the boot loader holds the header of its current copy, a second
\* time in factory_buffer2 once the archive was edited, and a clean archive is
\* the one on flash.
Resting ==
    /\ CurrentSeq(flash) = factory_seq_num
    /\ Valid(flash, factory_current_pp) => header = flash[factory_current_pp][0]
    /\ IF factory_dirty THEN header2 = header ELSE Visible = factory_buffer

EmmcInv ==
    /\ FlashOK(flash)
    /\ OldHeaders(flash)
    /\ \A s \in Slot : Valid(flash, s) => flash[s][0].len + Padding <= Half
    /\ factory_buffer.rooted
    /\ factory_tarsize + Padding <= Half
    /\ pc \in {"off", "idle", "write"} /\ caller = "api"
    /\ pc = "off" => factory_current_pp = 0 /\ factory_seq_num = 0 /\ ~factory_dirty
    /\ pc # "off" => Agrees(flash, factory_current_pp, factory_seq_num)
    /\ pc = "idle" => Resting
    /\ pc = "write" => Overwriting
=============================================================================
