----------------------------- MODULE FactoryStore -----------------------------
(***************************************************************************)
(* The factory store of the RTD1195 boot loader (factorylib.c): a tar      *)
(* archive of configuration files, edited in RAM and saved to two          *)
(* ping-pong copies on flash.  A save writes the copy that is not current, *)
(* with a sequence number one higher, an RTK header in front and the same  *)
(* header behind it; a boot takes the newer of the copies whose two        *)
(* headers agree.  The power can fail between any two units of an erase or *)
(* of a write.                                                             *)
(***************************************************************************)
EXTENDS Tar

CONSTANTS
    Flash,     \* boot_flash_type: "SPI", "NAND" or "EMMC"
    Half,      \* blocks in one copy, CONFIG_FACTORY_SIZE / 2
    Erase,     \* blocks in one erase unit of the medium
    Page,      \* blocks that one program operation writes
    SeqMod,    \* 2^32: rtk_seqnum is an unsigned int
    SeqWrap,   \* 0xFFFFFFF0: a distance above it is a wrapped number
    MaxSeq,    \* bound: no save starts from a sequence number >= MaxSeq
    Faults     \* how the medium may fail: "read", "erase", "write", "remap"

ASSUME FactoryAssumption ==
    /\ Flash \in {"SPI", "NAND", "EMMC"}
    /\ Erase \in Nat \ {0} /\ Page \in Nat \ {0}
    /\ Half \in Nat
    /\ Flash = "NAND" => Erase >= 3 /\ Half > Erase
    /\ Half >= 2 + Padding
    /\ Half % Erase = 0 /\ Half % Page = 0
    /\ Flash # "NAND" => Page = 1
    /\ SeqMod \in Nat /\ SeqMod >= 4 /\ SeqMod % 2 = 0
    /\ SeqWrap \in 1..(SeqMod - 2)
    /\ MaxSeq \in 0..SeqMod
    /\ Faults \subseteq {"read", "erase", "write", "remap"}
    /\ Flash = "SPI" => Faults = {}
    /\ Flash = "EMMC" => Faults \subseteq {"read", "write"}

VARIABLES
    flash,               \* flash[s][i]: block i of copy s
    factory_buffer,      \* the archive in RAM
    header,              \* the RTK header at the front of factory_buffer
    header2,             \* the first block of factory_buffer2
    tail,                \* an RTK header lies behind the archive in RAM
    factory_dirty,
    factory_current_pp,
    factory_seq_num,
    pc,                  \* "off", "idle", "erase", "write" or "reset"
    pos,                 \* the next block to erase or to write
    caller               \* who called factory_save: "api", "reset1", "reset2"

ram  == <<factory_buffer, header, header2, tail>>
ctl  == <<pc, pos, caller>>
vars == <<flash, ram, factory_dirty, factory_current_pp, factory_seq_num, ctl>>

Slot == {0, 1}
Seq32 == 0..(SeqMod - 1)

-----------------------------------------------------------------------------
(* Blocks on flash *)

Blank == [k |-> "blank"]     \* erased, never written, or cut short by a fault
Zero  == [k |-> "zero"]
Body(im, i) == [k |-> "body", img |-> im, i |-> i]
Hdr(seq, len, root) == [k |-> "hdr", seq |-> seq, len |-> len, root |-> root]

HdrCell == [k : {"hdr"}, seq : Seq32, len : Nat, root : BOOLEAN]
Cell == {Blank, Zero} \cup HdrCell \cup [k : {"body"}, img : Image, i : Nat]

-----------------------------------------------------------------------------
(* What a boot makes of the flash: factory_check_sanity_from_SPI, _NAND and *)
(* _eMMC                                                                    *)

\* Block i counted from the start of copy s; copy 1 follows copy 0.
At(fl, s, i) == IF i < Half THEN fl[s][i]
                ELSE IF s = 0 /\ i < 2 * Half THEN fl[1][i - Half]
                ELSE Blank

\* The bound on rtk_tarsize; the SPI one compares with both halves.
TarsizeLimit == IF Flash = "SPI" THEN 2 * Half - 1 ELSE Half - 1

\* Mutant of Valid: the header behind the archive is not compared.
Valid_NoTail(fl, s) == /\ fl[s][0].k = "hdr"
                       /\ fl[s][0].root
                       /\ fl[s][0].len >= 1
                       /\ fl[s][0].len < TarsizeLimit

\* pp_ok: a good header, and the same header behind the archive.
Valid(fl, s) == /\ fl[s][0].k = "hdr"
                /\ fl[s][0].root
                /\ fl[s][0].len >= 1
                /\ fl[s][0].len < TarsizeLimit
                /\ At(fl, s, fl[s][0].len) = fl[s][0]

AnyValid(fl) == Valid(fl, 0) \/ Valid(fl, 1)

\* Mutant of Newer: the wrap-around of the numbers is forgotten.
Newer_NoWrap(s0, s1) == IF s1 > s0 THEN 1 ELSE 0

\* Which of two copies is current.  s1 - s0 is an unsigned difference.
Newer(s0, s1) == IF s1 > s0 /\ ~(s1 - s0 > SeqWrap) THEN 1 ELSE 0

Chosen(fl) == IF Valid(fl, 0) /\ Valid(fl, 1) THEN Newer(fl[0][0].seq, fl[1][0].seq)
              ELSE IF Valid(fl, 0) THEN 0 ELSE 1

\* The blocks between the two headers are of one save.
Intact(fl, s) ==
    \/ fl[s][0].len = 1
    \/ /\ At(fl, s, 1).k = "body"
       /\ \A i \in 1..(fl[s][0].len - 1) :
             At(fl, s, i) = Body(At(fl, s, 1).img, i)

Torn == [torn |-> TRUE]

\* The archive that copy s holds.
Content(fl, s) == IF fl[s][0].len = 1 THEN EmptyImage
                  ELSE IF Intact(fl, s) THEN At(fl, s, 1).img ELSE Torn

\* The archive that a boot finds.
Found(fl) == IF AnyValid(fl) THEN Content(fl, Chosen(fl)) ELSE EmptyImage

\* The archives that a boot may load from copy s: a torn copy gives some mix
\* of the files of the saves its blocks are from.
Loaded(fl, s) ==
    IF Intact(fl, s) THEN {Content(fl, s)}
    ELSE {[EmptyImage EXCEPT !.files = g] :
            g \in {h \in [Path -> Data \cup {NoFile}] :
                     \A n \in Path : \E i \in 1..(fl[s][0].len - 1) :
                        /\ At(fl, s, i).k = "body"
                        /\ h[n] = At(fl, s, i).img.files[n]}}

\* A NAND boot reads whole pages: the header behind the archive comes along
\* unless the archive ends on a page boundary.
LoadsTail(len) == Flash = "NAND" /\ len % Page # 0

-----------------------------------------------------------------------------
(* Editing the archive in RAM *)

factory_tarsize == tar_size(factory_buffer)

\* Mutant of factory_write: the dirty flag is not set.
factory_write_Clean(f, d) ==
    /\ pc = "idle"
    /\ Blocks[d] + factory_tarsize + 1 + Padding <= Half
    /\ factory_buffer' = tar_add(factory_buffer, f, d, tail)
    /\ header2' = header
    /\ tail' = FALSE
    /\ UNCHANGED <<flash, header, factory_dirty, factory_current_pp,
                   factory_seq_num, ctl>>

\* factory_write, when it does not return "too big".
factory_write(f, d) ==
    /\ pc = "idle"
    /\ Blocks[d] + factory_tarsize + 1 + Padding <= Half
    /\ factory_buffer' = tar_add(factory_buffer, f, d, tail)
    /\ header2' = header
    /\ tail' = FALSE
    /\ factory_dirty' = TRUE
    /\ UNCHANGED <<flash, header, factory_current_pp, factory_seq_num, ctl>>

factory_delete(f) ==
    /\ pc = "idle"
    /\ factory_buffer' = tar_delete(factory_buffer, f, tail)
    /\ header2' = header
    /\ tail' = FALSE
    /\ factory_dirty' = TRUE
    /\ UNCHANGED <<flash, header, factory_current_pp, factory_seq_num, ctl>>

-----------------------------------------------------------------------------
(* Saving: factory_save and factory_save_to_SPI, _NAND, _eMMC *)

\* Mutants of next_pp and next_seqnum: no ping-pong, one copy too many, no
\* increment.
next_pp_Same       == factory_current_pp
next_pp_NoMod      == factory_current_pp + 1
next_seqnum_Stale  == factory_seq_num

next_pp     == (factory_current_pp + 1) % 2
next_seqnum == (factory_seq_num + 1) % SeqMod

\* len + sizeof(posix_header) + TAR_PADDING_SZ
total_len == factory_tarsize + 1 + Padding

TooBig == \/ Flash = "SPI"  /\ total_len > Half
          \/ Flash = "NAND" /\ factory_tarsize > Half - Erase
          \/ Flash = "EMMC" /\ factory_tarsize > Half - 1

\* factory_save returns to its caller; the dirty flag is cleared whatever
\* the outcome.  factory_reset calls it twice and looks at neither result.
Return ==
    /\ factory_dirty' = FALSE
    /\ pos' = 0
    /\ pc' = IF caller = "reset1" THEN "reset" ELSE "idle"
    /\ caller' = IF caller = "reset1" THEN "reset2" ELSE "api"

\* The call, up to the first access to the flash: the header is filled in
\* and copied behind the archive before the size is checked.
BeginSave(who) ==
    /\ factory_seq_num < MaxSeq
    /\ factory_tarsize > 0
    /\ header' = Hdr(next_seqnum, factory_tarsize, factory_buffer.rooted)
    /\ tail' = TRUE
    /\ ~TooBig
    /\ factory_dirty' = TRUE
    /\ pc' = IF Flash = "EMMC" THEN "write" ELSE "erase"
    /\ pos' = 0
    /\ caller' = who
    /\ UNCHANGED <<flash, factory_buffer, header2, factory_current_pp,
                   factory_seq_num>>

factory_save ==
    /\ pc = "idle"
    /\ factory_dirty
    /\ BeginSave("api")

\* Nothing is written: the archive is empty ("no change"), or it does not fit
\* and the error return leaves the header behind it.
factory_save_Rejected ==
    /\ pc = "idle"
    /\ factory_dirty
    /\ IF factory_tarsize = 0
       THEN UNCHANGED <<header, tail>>
       ELSE /\ TooBig
            /\ header' = Hdr(next_seqnum, factory_tarsize, factory_buffer.rooted)
            /\ tail' = TRUE
    /\ factory_dirty' = FALSE
    /\ UNCHANGED <<flash, factory_buffer, header2, factory_current_pp,
                   factory_seq_num, ctl>>

\* The flash with the erase unit at pos, of the copy being saved, erased.
Erased == [flash EXCEPT ![next_pp] =
              [i \in 0..(Half - 1) |->
                  IF i >= pos /\ i < pos + Erase THEN Blank ELSE @[i]]]

\* One erase unit of the copy, lowest address first.
EraseUnit ==
    /\ pc = "erase"
    /\ flash' = Erased
    /\ IF pos + Erase < total_len THEN pos' = pos + Erase /\ pc' = pc
                                  ELSE pos' = 0 /\ pc' = "write"
    /\ UNCHANGED <<ram, factory_dirty, factory_current_pp, factory_seq_num,
                   caller>>

\* Block i of what is written, counted from factory_buffer; factory_buffer2
\* follows factory_buffer in memory.
BufferBlock(i) == IF i = 0 \/ i = factory_tarsize THEN header
                  ELSE IF i < factory_tarsize THEN Body(factory_buffer, i)
                  ELSE IF i < Half THEN Zero
                  ELSE header2

\* The flash after one program operation at pos.  A block past the end of copy
\* 0 is the first block of copy 1; one past the end of copy 1 is outside the
\* store.
Written == [s \in Slot |-> [i \in 0..(Half - 1) |->
               IF s = next_pp /\ i >= pos /\ i < pos + Page THEN BufferBlock(i)
               ELSE IF s = 1 /\ next_pp = 0 /\ i = 0 /\ pos = Half
                 THEN BufferBlock(Half)
               ELSE flash[s][i]]]

WriteUnit ==
    /\ pc = "write"
    /\ pos < total_len
    /\ flash' = Written
    /\ pos' = pos + Page
    /\ UNCHANGED <<ram, factory_dirty, factory_current_pp, factory_seq_num,
                   pc, caller>>

\* Mutant of SaveDone: the copy just written does not become the current one.
SaveDone_KeepsPP ==
    /\ pc = "write"
    /\ pos >= total_len
    /\ tail' = FALSE
    /\ factory_seq_num' = next_seqnum
    /\ Return
    /\ UNCHANGED <<flash, factory_buffer, header, header2, factory_current_pp>>

\* Everything is written: the header behind the archive in RAM is removed and
\* the copy becomes the current one.
SaveDone ==
    /\ pc = "write"
    /\ pos >= total_len
    /\ tail' = FALSE
    /\ factory_current_pp' = next_pp
    /\ factory_seq_num' = next_seqnum
    /\ Return
    /\ UNCHANGED <<flash, factory_buffer, header, header2>>

\* nand->erase fails: the unit is as it was, or no longer readable.
EraseFails ==
    /\ "erase" \in Faults
    /\ pc = "erase"
    /\ \/ UNCHANGED flash
       \/ flash' = Erased
    /\ Return
    /\ UNCHANGED <<ram, factory_current_pp, factory_seq_num>>

\* write_ecc or rtk_eMMC_write reports an error, after any part of the data;
\* an eMMC may report it when all of the data is in place.
WriteFails ==
    /\ "write" \in Faults
    /\ pc = "write"
    /\ Flash = "EMMC" \/ pos < total_len
    /\ Return
    /\ UNCHANGED <<flash, ram, factory_current_pp, factory_seq_num>>

\* nand_write_ecc when a page cannot be programmed: the first erase block of
\* the write (page_ppb) is remapped to an erased spare one, the copying of its
\* pages and of the failed page is compiled out, and the write goes on.
PageRemapped ==
    /\ "remap" \in Faults
    /\ pc = "write"
    /\ pos < total_len
    /\ flash' = [flash EXCEPT ![next_pp] =
                    [i \in 0..(Half - 1) |->
                        IF i < Erase \/ (i >= pos /\ i < pos + Page)
                          THEN Blank ELSE @[i]]]
    /\ pos' = pos + Page
    /\ UNCHANGED <<ram, factory_dirty, factory_current_pp, factory_seq_num,
                   pc, caller>>

-----------------------------------------------------------------------------
(* factory_reset: an empty archive is saved twice, to overwrite both copies *)

factory_reset ==
    /\ pc = "idle"
    /\ factory_seq_num' = 0
    /\ factory_buffer' = EmptyImage
    /\ header' = Hdr(0, 1, TRUE)
    /\ tail' = FALSE
    /\ pc' = "reset"
    /\ caller' = "reset1"
    /\ UNCHANGED <<flash, header2, factory_dirty, factory_current_pp, pos>>

ResetSaves == pc = "reset" /\ BeginSave(caller)

-----------------------------------------------------------------------------
(* Power *)

\* The RAM is lost; the variables hold their initial values again.
PowerFails ==
    /\ pc # "off"
    /\ pc' = "off" /\ pos' = 0 /\ caller' = "api"
    /\ factory_buffer' = EmptyImage
    /\ header' = Hdr(0, 1, TRUE) /\ header2' = Blank /\ tail' = FALSE
    /\ factory_dirty' = FALSE
    /\ factory_current_pp' = 0
    /\ factory_seq_num' = 0
    /\ UNCHANGED flash

\* The boot found copy s.
Adopt(s) ==
    /\ factory_current_pp' = s
    /\ factory_seq_num' = flash[s][0].seq
    /\ factory_buffer' \in Loaded(flash, s)
    /\ header' = flash[s][0]
    /\ tail' = LoadsTail(flash[s][0].len)

\* The boot found no copy: the variables keep their initial values.
AdoptNothing ==
    /\ factory_buffer' = EmptyImage
    /\ UNCHANGED <<header, tail, factory_current_pp, factory_seq_num>>

factory_init ==
    /\ pc = "off"
    /\ IF AnyValid(flash) THEN Adopt(Chosen(flash)) ELSE AdoptNothing
    /\ pc' = "idle"
    /\ UNCHANGED <<flash, header2, factory_dirty, pos, caller>>

\* A header cannot be read.  ret = -1 is not reset for the second copy, so an
\* error on the front header of copy 0 discards both copies and one on copy 1
\* discards copy 1.  On an eMMC an error on the header behind copy 0 goes
\* unnoticed, and discards copy 0 only.
factory_init_ReadError ==
    /\ "read" \in Faults
    /\ pc = "off"
    /\ \/ AdoptNothing
       \/ \E s \in Slot : /\ s = 0 \/ Flash = "EMMC"
                         /\ Valid(flash, s)
                         /\ Adopt(s)
    /\ pc' = "idle"
    /\ UNCHANGED <<flash, header2, factory_dirty, pos, caller>>

-----------------------------------------------------------------------------

\* A device whose store was never written.
Init ==
    /\ flash = [s \in Slot |-> [i \in 0..(Half - 1) |-> Blank]]
    /\ factory_buffer = EmptyImage
    /\ header = Hdr(0, 1, TRUE) /\ header2 = Blank /\ tail = FALSE
    /\ factory_dirty = FALSE
    /\ factory_current_pp = 0
    /\ factory_seq_num = 0
    /\ pc = "off" /\ pos = 0 /\ caller = "api"

\* The console command "factory reset" is left out of NextNoReset.
NextNoReset ==
    \/ \E f \in Path, d \in Data : factory_write(f, d)
    \/ \E f \in Path : factory_delete(f)
    \/ factory_save
    \/ factory_save_Rejected
    \/ EraseUnit
    \/ WriteUnit
    \/ SaveDone
    \/ EraseFails
    \/ WriteFails
    \/ PageRemapped
    \/ PowerFails
    \/ factory_init
    \/ factory_init_ReadError

Next == NextNoReset \/ factory_reset \/ ResetSaves

SpecNoReset == Init /\ [][NextNoReset]_vars
Spec == Init /\ [][Next]_vars

-----------------------------------------------------------------------------
(* Properties *)

\* The variables of the store hold values of their C types: in particular the
\* sequence number stays in its 32 bits and the current copy is 0 or 1.
TypeOK ==
    /\ flash \in [Slot -> [0..(Half - 1) -> Cell]]
    /\ factory_buffer \in Image
    /\ header \in HdrCell
    /\ header2 \in HdrCell \cup {Blank}
    /\ tail \in BOOLEAN
    /\ factory_dirty \in BOOLEAN
    /\ factory_current_pp \in Slot
    /\ factory_seq_num \in Seq32
    /\ pc \in {"off", "idle", "erase", "write", "reset"}
    /\ pos \in Nat
    /\ caller \in {"api", "reset1", "reset2"}

\* The archive that the next boot will find, were the power to fail now.
Visible == Found(flash)

\* The archive of the copy that the running boot loader believes current.
Committed == IF Valid(flash, factory_current_pp)
             THEN Content(flash, factory_current_pp) ELSE EmptyImage

\* The store as its callers see it.
Store == INSTANCE AtomicStore WITH
    Archive <- Image,
    Empty   <- EmptyImage,
    want    <- factory_buffer,
    visible <- Visible,
    good    <- IF pc = "off" THEN Visible ELSE Committed,
    saving  <- pc \in {"erase", "write"}

\* Whenever the power fails, the next boot finds the archive of the last
\* successful save or that of the save that was interrupted, whole; a save
\* that returns 0 is the one found.  This is what the two ping-pong copies and
\* their sequence numbers are for.
SavesAreAtomic == Store!Spec

\* The header that factory_save_to_* copies behind the archive "for data
\* check" works: no copy that the sanity check accepts, at any moment that the
\* power may fail, mixes blocks of two saves.
NoTornCopy == \A s \in Slot : Valid(flash, s) => Intact(flash, s)

\* No step, of a save, of a reset or of a boot, gives the next boot anything
\* but what it would have found before the step, the archive in RAM, or that
\* of the current copy.
OldOrNew ==
    [][Visible' \in {Visible, factory_buffer, Committed}]_vars

\* A save that takes its success path (factory_current_pp moves) has made the
\* archive in RAM the one the next boot finds.
SaveOkIsVisible ==
    [][(/\ pc = "write" /\ pc' = "idle" /\ caller = "api"
        /\ factory_current_pp' # factory_current_pp)
           => Visible' = factory_buffer]_vars

\* When factory_reset returns, neither copy holds anything of before: the next
\* boot cannot bring old files back, whichever copy it takes.
ResetClearsBoth ==
    [][caller = "reset2" /\ caller' = "api" /\ pc' = "idle"
        => \A s \in Slot : /\ Valid(flash, s)'
                           /\ Content(flash, s)' = EmptyImage]_vars

\* A clean archive is a saved one: with factory_dirty clear, where
\* factory_save answers "no change", the next boot finds what is in RAM.
CleanIsSaved == pc = "idle" /\ ~factory_dirty => Visible = factory_buffer

\* The header behind the archive never becomes a file of the archive
\* ("remove the RTK header at the end of tar file to prevent side effect").
NoRedundantHeader == factory_buffer.dups = 0

\* A save writes no block past the end of its own copy.
StaysInCopy == pc = "write" => pos <= Half
=============================================================================
