------------------------- MODULE FactoryStoreProofs -------------------------
(***************************************************************************)
(* The factory store when everything that may happen does: resets, read,   *)
(* erase and write errors, remapped blocks, archives without their         *)
(* directory header, and power failures at any moment.                     *)
(*   - Type correctness, and that no redundant header is archived, for     *)
(*     every medium;                                                       *)
(*   - what is kept on the media that are erased before they are written   *)
(*     (SPI, NAND).                                                        *)
(***************************************************************************)
EXTENDS FactoryStoreInv, FiniteSetTheorems, TLAPS

-----------------------------------------------------------------------------
(* Archives *)

\* The size of an archive is a number of blocks, and at least one if the
\* directory header is there (the sum that tar_add_or_delete returns).
LEMMA TarSizeType ==
    ASSUME NEW im \in Image
    PROVE  /\ tar_size(im) \in Nat
           /\ im.rooted => tar_size(im) >= 1
           /\ IsFiniteSet(tar_blocks(im))
<1>1. IsFiniteSet(0..MaxBlocks)
  BY FS_Interval, TarAssumption
<1>2. IsFiniteSet(Path \X (0..MaxBlocks))
  BY <1>1, FS_Product, TarAssumption
<1>3. IsFiniteSet(tar_blocks(im))
  BY <1>2, FS_Subset DEF tar_blocks
<1>4. Cardinality(tar_blocks(im)) \in Nat
  BY <1>3, FS_CardinalityType
<1>5. im.dups \in Nat /\ im.rooted \in BOOLEAN
  BY DEF Image
<1> QED
  BY <1>3, <1>4, <1>5 DEF tar_size

LEMMA EmptyImageType == EmptyImage \in Image
BY DEF EmptyImage, Image

\* Only the empty archive is one block long, so a copy with nothing between
\* its two headers is a copy of it.
LEMMA OneBlockIsEmpty ==
    ASSUME NEW im \in Image, im.rooted, tar_size(im) = 1
    PROVE  im = EmptyImage
<1>1. /\ IsFiniteSet(tar_blocks(im))
      /\ Cardinality(tar_blocks(im)) \in Nat
  BY TarSizeType, FS_CardinalityType
<1>2. im.dups = 0 /\ Cardinality(tar_blocks(im)) = 0
  <2>1. im.dups \in Nat
    BY DEF Image
  <2> QED
    BY <1>1, <2>1 DEF tar_size
<1>3. tar_blocks(im) = {}
  BY <1>1, <1>2, FS_EmptySet
<1>4. ASSUME NEW n \in Path
      PROVE  im.files[n] = NoFile
  <2>1. SUFFICES ASSUME im.files[n] # NoFile
                 PROVE  FALSE
    OBVIOUS
  <2>2. im.files[n] \in Data
    BY <2>1 DEF Image
  <2>3. Blocks[im.files[n]] \in 0..MaxBlocks
    BY <2>2, TarAssumption
  <2>4. <<n, 0>> \in Path \X (0..MaxBlocks)
    BY TarAssumption
  <2>5. <<n, 0>> \in tar_blocks(im)
    BY <2>1, <2>3, <2>4 DEF tar_blocks
  <2> QED
    BY <2>5, <1>3
<1>5. im.files = [n \in Path |-> NoFile]
  BY <1>4 DEF Image
<1> QED
  BY <1>2, <1>5 DEF Image, EmptyImage

\* Adding and deleting files makes archives of archives.
LEMMA TarEditType ==
    ASSUME NEW im \in Image, NEW f \in Path, NEW t \in BOOLEAN
    PROVE  /\ tar_delete(im, f, t) \in Image
           /\ \A d \in Data : tar_add(im, f, d, t) \in Image
           /\ f \notin RootPrefix /\ im.rooted =>
                 /\ tar_delete(im, f, t).rooted
                 /\ \A d \in Data : tar_add(im, f, d, t).rooted
<1>1. Unmatched(im, f, t) \in Image
  BY TarAssumption DEF Image, Unmatched
<1>2. f \notin RootPrefix /\ im.rooted => Unmatched(im, f, t).rooted
  BY DEF Unmatched
<1> QED
  BY <1>1, <1>2 DEF Image, tar_delete, tar_add

-----------------------------------------------------------------------------
(* Type correctness *)

FlashType == [Slot -> [0..(Half - 1) -> Cell]]

\* What the provers need to know of the constants.
LEMMA Sizes ==
    /\ Half \in Nat /\ Half >= 2 /\ Erase \in Nat /\ Erase >= 1
    /\ Page \in Nat /\ Page >= 1
    /\ Padding \in {0, 2}
    /\ SeqMod \in Nat /\ SeqMod >= 4
    /\ 0 \in Seq32
BY FactoryAssumption, TarAssumption DEF Padding, Seq32

LEMMA SlotIsValid ==
    ASSUME NEW fl \in FlashType, AnyValid(fl)
    PROVE  Chosen(fl) \in Slot /\ Valid(fl, Chosen(fl))
BY DEF AnyValid, Chosen, Newer, Slot

\* A block whose first field says so is a header, or a block of an archive.
LEMMA CellKinds ==
    ASSUME NEW c \in Cell
    PROVE  /\ c.k = "hdr" => c \in HdrCell
           /\ c.k = "body" => c.img \in Image
BY DEF Cell, HdrCell, Blank, Zero

LEMMA AtType ==
    ASSUME NEW fl \in FlashType, NEW s \in Slot, NEW i \in Nat
    PROVE  At(fl, s, i) \in Cell
BY Sizes DEF FlashType, Slot, At, Cell

\* A boot loads an archive, and a header, from a copy it accepts.
LEMMA LoadType ==
    ASSUME NEW fl \in FlashType, NEW s \in Slot, Valid(fl, s)
    PROVE  /\ fl[s][0] \in HdrCell
           /\ Loaded(fl, s) \subseteq Image
<1>1. fl[s][0] \in Cell
  BY Sizes DEF FlashType
<1>2. fl[s][0] \in HdrCell
  BY <1>1, CellKinds DEF Valid
<1>3. Content(fl, s) \in Image \/ ~Intact(fl, s)
  <2>1. CASE fl[s][0].len = 1
    BY <2>1, EmptyImageType DEF Content
  <2>2. CASE fl[s][0].len # 1 /\ Intact(fl, s)
    <3>1. At(fl, s, 1).k = "body"
      BY <2>2 DEF Intact
    <3>2. At(fl, s, 1).img \in Image
      BY <3>1, AtType, CellKinds
    <3> QED
      BY <2>2, <3>2 DEF Content
  <2> QED
    BY <2>1, <2>2
<1>4. CASE Intact(fl, s)
  BY <1>2, <1>3, <1>4 DEF Loaded
<1>5. CASE ~Intact(fl, s)
  <2>1. ASSUME NEW g \in [Path -> Data \cup {NoFile}]
        PROVE  [EmptyImage EXCEPT !.files = g] \in Image
    BY DEF Image, EmptyImage
  <2>2. ASSUME NEW im \in Loaded(fl, s)
        PROVE  \E g \in [Path -> Data \cup {NoFile}] :
                  im = [EmptyImage EXCEPT !.files = g]
    BY <1>5, <2>2, Zenon DEF Loaded
  <2> QED
    BY <1>2, <2>1, <2>2
<1> QED
  BY <1>4, <1>5

\* The header that a save puts around the archive is a header.
LEMMA HdrType ==
    ASSUME TypeOK
    PROVE  /\ next_pp \in Slot /\ next_pp # factory_current_pp
           /\ next_seqnum \in Seq32
           /\ factory_tarsize \in Nat /\ total_len \in Nat
           /\ Hdr(next_seqnum, factory_tarsize, factory_buffer.rooted) \in HdrCell
           /\ Hdr(0, 1, TRUE) \in HdrCell
<1>1. next_pp \in Slot /\ next_pp # factory_current_pp
  BY DEF TypeOK, Slot, next_pp
<1>2. next_seqnum \in Seq32
  BY Sizes DEF TypeOK, Seq32, next_seqnum
<1>3. factory_tarsize \in Nat
  BY TarSizeType DEF TypeOK, factory_tarsize
<1>4. total_len \in Nat
  BY <1>3, Sizes DEF total_len
<1>5. factory_buffer.rooted \in BOOLEAN
  BY DEF TypeOK, Image
<1>6. Hdr(next_seqnum, factory_tarsize, factory_buffer.rooted) \in HdrCell
  BY <1>2, <1>3, <1>5 DEF Hdr, HdrCell
<1>7. Hdr(0, 1, TRUE) \in HdrCell
  BY Sizes DEF Hdr, HdrCell
<1> QED
  BY <1>1, <1>2, <1>3, <1>4, <1>6, <1>7

LEMMA BufferBlockType ==
    ASSUME TypeOK, NEW i \in Nat
    PROVE  BufferBlock(i) \in Cell
<1>1. /\ header \in Cell /\ header2 \in Cell
      /\ Zero \in Cell
      /\ Body(factory_buffer, i) \in Cell
  BY DEF TypeOK, Cell, Zero, Blank, Body
<1> QED
  BY <1>1, HdrType DEF BufferBlock

\* The types hold initially and every step keeps them.
LEMMA TypeInit == Init => TypeOK
<1>1. Hdr(0, 1, TRUE) \in HdrCell
  BY Sizes DEF Hdr, HdrCell
<1>2. Blank \in Cell
  BY DEF Cell
<1>3. ASSUME Init
      PROVE  flash \in [Slot -> [0..(Half - 1) -> Cell]]
  BY <1>2, <1>3 DEF Init
<1>4. ASSUME Init
      PROVE  factory_current_pp \in Slot /\ factory_seq_num \in Seq32
  BY <1>4, Sizes DEF Init, Slot
<1>5. ASSUME Init
      PROVE  tail \in BOOLEAN /\ factory_dirty \in BOOLEAN
  BY <1>5 DEF Init
<1>6. ASSUME Init
      PROVE  /\ factory_buffer \in Image /\ header \in HdrCell
             /\ header2 \in HdrCell \cup {Blank}
  BY <1>1, <1>6, EmptyImageType DEF Init
<1>7. ASSUME Init
      PROVE  /\ pc \in {"off", "idle", "erase", "write", "reset"}
             /\ pos \in Nat
             /\ caller \in {"api", "reset1", "reset2"}
  BY <1>7 DEF Init
<1> QED
  BY <1>3, <1>4, <1>5, <1>6, <1>7 DEF TypeOK

LEMMA TypeNext == TypeOK /\ [Next]_vars => TypeOK'
<1> SUFFICES ASSUME TypeOK, [Next]_vars
             PROVE  TypeOK'
  OBVIOUS
<1>u. USE DEF ram, ctl
<1>0. flash \in FlashType
  BY DEF TypeOK, FlashType
<1>1. ASSUME NEW f \in Path, NEW d \in Data, factory_write(f, d)
      PROVE  TypeOK'
  BY <1>1, TarEditType DEF factory_write, TypeOK
<1>2. ASSUME NEW f \in Path, factory_delete(f)
      PROVE  TypeOK'
  BY <1>2, TarEditType DEF factory_delete, TypeOK
<1>3. ASSUME NEW w \in {"api", "reset1", "reset2"}, BeginSave(w)
      PROVE  TypeOK'
  BY <1>3, HdrType DEF BeginSave, TypeOK
<1>4. CASE factory_save
  BY <1>4, <1>3 DEF factory_save
<1>5. CASE factory_save_Rejected
  BY <1>5, HdrType DEF factory_save_Rejected, TypeOK
<1>6. CASE EraseUnit
  <2>1. flash' \in [Slot -> [0..(Half - 1) -> Cell]]
    BY <1>6, HdrType, Sizes DEF EraseUnit, Erased, TypeOK, Cell
  <2>2. pos' \in Nat /\ pc' \in {"erase", "write"}
    BY <1>6, Sizes DEF EraseUnit, TypeOK
  <2> QED
    BY <1>6, <2>1, <2>2 DEF EraseUnit, TypeOK
<1>7. CASE WriteUnit
  <2>1. flash' \in [Slot -> [0..(Half - 1) -> Cell]]
    BY <1>7, BufferBlockType, Sizes DEF WriteUnit, Written, TypeOK
  <2>2. pos' \in Nat
    BY <1>7, Sizes DEF WriteUnit, TypeOK
  <2> QED
    BY <1>7, <2>1, <2>2 DEF WriteUnit, TypeOK
<1>8. CASE SaveDone
  BY <1>8, HdrType DEF SaveDone, Return, TypeOK
<1>9. CASE EraseFails
  <2>1. flash' \in [Slot -> [0..(Half - 1) -> Cell]]
    BY <1>9, HdrType, Sizes DEF EraseFails, Erased, TypeOK, Cell
  <2> QED
    BY <1>9, <2>1 DEF EraseFails, Return, TypeOK
<1>10. CASE WriteFails
  BY <1>10 DEF WriteFails, Return, TypeOK
<1>11. CASE PageRemapped
  <2>1. flash' \in [Slot -> [0..(Half - 1) -> Cell]]
    BY <1>11, HdrType, Sizes DEF PageRemapped, TypeOK, Cell
  <2> QED
    BY <1>11, <2>1, Sizes DEF PageRemapped, TypeOK
<1>12. CASE PowerFails
  BY <1>12, HdrType, EmptyImageType, Sizes DEF PowerFails, TypeOK, Slot
<1>13. ASSUME NEW s \in Slot, Valid(flash, s), Adopt(s),
              pc' = "idle", UNCHANGED <<flash, header2, factory_dirty, pos, caller>>
       PROVE  TypeOK'
  <2>1. flash[s][0] \in HdrCell /\ Loaded(flash, s) \subseteq Image
    BY <1>0, <1>13, LoadType
  <2>2. flash[s][0].seq \in Seq32
    BY <2>1 DEF HdrCell
  <2>3. factory_buffer' \in Image
    BY <1>13, <2>1 DEF Adopt
  <2>4. tail' \in BOOLEAN
    BY <1>13 DEF Adopt, LoadsTail
  <2> QED
    BY <1>13, <2>1, <2>2, <2>3, <2>4 DEF Adopt, TypeOK
<1>14. ASSUME AdoptNothing, pc' = "idle",
              UNCHANGED <<flash, header2, factory_dirty, pos, caller>>
       PROVE  TypeOK'
  BY <1>14, EmptyImageType DEF AdoptNothing, TypeOK
<1>15. CASE factory_init
  BY <1>0, <1>13, <1>14, <1>15, SlotIsValid DEF factory_init
<1>16. CASE factory_init_ReadError
  BY <1>13, <1>14, <1>16 DEF factory_init_ReadError, Slot
<1>17. CASE factory_reset
  BY <1>17, HdrType, EmptyImageType, Sizes DEF factory_reset, TypeOK
<1>18. CASE ResetSaves
  BY <1>18, <1>3 DEF ResetSaves, TypeOK
<1>19. CASE UNCHANGED vars
  BY <1>19 DEF vars, TypeOK
<1> QED
  BY <1>1, <1>2, <1>4, <1>5, <1>6, <1>7, <1>8, <1>9, <1>10, <1>11, <1>12,
     <1>15, <1>16, <1>17, <1>18, <1>19 DEF Next, NextNoReset

\* On every medium and under every fault the store's variables keep their
\* types; in particular factory_current_pp names one of the two copies and a
\* header read back from flash at boot is one that a save could have written.
THEOREM TypeCorrect == Spec => []TypeOK
BY TypeInit, TypeNext, PTL DEF Spec

-----------------------------------------------------------------------------
(* Redundant headers *)

\* Neither the archive in RAM nor any block on flash is of an archive with a
\* redundant RTK header in it.
NoHeaderStored ==
    /\ factory_buffer.dups = 0
    /\ \A s \in Slot : \A i \in 0..(Half - 1) :
          flash[s][i].k = "body" => flash[s][i].img.dups = 0

\* Erasing, and what else changes nothing but blocks to blank or to the blocks
\* of the archive in RAM, stores no such archive.
LEMMA StoresNoHeader ==
    ASSUME TypeOK, NoHeaderStored,
           NEW fl \in FlashType,
           \A s \in Slot : \A i \in 0..(Half - 1) :
              \/ fl[s][i] = flash[s][i]
              \/ fl[s][i] = Blank
              \/ fl[s][i] = BufferBlock(i)
              \/ fl[s][i] = BufferBlock(Half)
    PROVE  \A s \in Slot : \A i \in 0..(Half - 1) :
              fl[s][i].k = "body" => fl[s][i].img.dups = 0
<1>1. ASSUME NEW i \in Nat
      PROVE  BufferBlock(i).k = "body" => BufferBlock(i).img.dups = 0
  <2>1. /\ header.k # "body" /\ header2.k # "body" /\ Zero.k # "body"
        /\ Body(factory_buffer, i).img = factory_buffer
    BY DEF TypeOK, HdrCell, Blank, Zero, Body
  <2>2. \/ BufferBlock(i) = header \/ BufferBlock(i) = header2
        \/ BufferBlock(i) = Zero \/ BufferBlock(i) = Body(factory_buffer, i)
    BY Zenon DEF BufferBlock
  <2> QED
    BY <2>1, <2>2 DEF NoHeaderStored
<1>2. Blank.k # "body"
  BY DEF Blank
<1>3. ASSUME NEW s \in Slot, NEW i \in 0..(Half - 1), fl[s][i].k = "body"
      PROVE  fl[s][i].img.dups = 0
  <2>1. i \in Nat /\ Half \in Nat
    BY Sizes
  <2> QED
    BY <1>1, <1>2, <1>3, <2>1 DEF NoHeaderStored
<1> QED
  BY <1>3

\* Editing leaves no redundant header in the NAS build, and a boot loads none.
LEMMA EditsNoHeader ==
    ASSUME NAS, NEW im \in Image, NEW f \in Path, NEW d \in Data, NEW t \in BOOLEAN
    PROVE  tar_delete(im, f, t).dups = 0 /\ tar_add(im, f, d, t).dups = 0
BY DEF tar_delete, tar_add, Unmatched

LEMMA LoadsNoHeader ==
    ASSUME TypeOK, NoHeaderStored, NEW s \in Slot, Valid(flash, s),
           NEW im \in Loaded(flash, s)
    PROVE  im.dups = 0
<1>1. CASE Intact(flash, s)
  <2>1. im = Content(flash, s)
    BY <1>1 DEF Loaded
  <2>2. CASE flash[s][0].len = 1
    BY <2>1, <2>2 DEF Content, EmptyImage
  <2>3. CASE flash[s][0].len # 1
    <3>1. im = At(flash, s, 1).img /\ At(flash, s, 1).k = "body"
      BY <1>1, <2>1, <2>3 DEF Content, Intact
    <3>2. At(flash, s, 1) = flash[s][1] /\ 1 \in 0..(Half - 1)
      BY Sizes DEF At
    <3> QED
      BY <3>1, <3>2 DEF NoHeaderStored
  <2> QED
    BY <2>2, <2>3
<1>2. CASE ~Intact(flash, s)
  <2>1. \E g \in [Path -> Data \cup {NoFile}] : im = [EmptyImage EXCEPT !.files = g]
    BY <1>2, Zenon DEF Loaded
  <2> QED
    BY <2>1 DEF EmptyImage
<1> QED
  BY <1>1, <1>2

LEMMA NoHeaderInit == Init => NoHeaderStored
<1> SUFFICES ASSUME Init
             PROVE  NoHeaderStored
  OBVIOUS
<1>1. \A s \in Slot : \A i \in 0..(Half - 1) : flash[s][i] = Blank
  BY DEF Init
<1>2. Blank.k # "body"
  BY DEF Blank
<1> QED
  BY <1>1, <1>2 DEF Init, NoHeaderStored, EmptyImage

LEMMA NoHeaderNext ==
    ASSUME NAS, TypeOK, NoHeaderStored, [Next]_vars
    PROVE  NoHeaderStored'
<1>u. USE DEF ram, ctl
<1>t. /\ flash \in FlashType /\ factory_buffer \in Image /\ tail \in BOOLEAN
      /\ next_pp \in Slot /\ pos \in Nat
  BY HdrType DEF TypeOK, FlashType
<1>n. TypeOK'
  BY TypeNext
<1>m. flash' \in FlashType
  BY <1>n DEF TypeOK, FlashType
<1>e. EmptyImage.dups = 0
  BY DEF EmptyImage
<1>q. ASSUME flash' = flash, factory_buffer'.dups = 0
      PROVE  NoHeaderStored'
  BY <1>q DEF NoHeaderStored
<1>r. ASSUME factory_buffer' = factory_buffer,
             \A s \in Slot : \A i \in 0..(Half - 1) :
                \/ flash'[s][i] = flash[s][i]
                \/ flash'[s][i] = Blank
                \/ flash'[s][i] = BufferBlock(i)
                \/ flash'[s][i] = BufferBlock(Half)
      PROVE  NoHeaderStored'
  <2>1. \A s \in Slot : \A i \in 0..(Half - 1) :
           flash'[s][i].k = "body" => flash'[s][i].img.dups = 0
    BY <1>m, <1>r, StoresNoHeader
  <2> QED
    BY <1>r, <2>1 DEF NoHeaderStored
<1>1. ASSUME NEW f \in Path, NEW d \in Data, factory_write(f, d)
      PROVE  NoHeaderStored'
  BY <1>1, <1>t, <1>q, EditsNoHeader DEF factory_write
<1>2. ASSUME NEW f \in Path, factory_delete(f)
      PROVE  NoHeaderStored'
  <2>1. factory_buffer'.dups = 0
    BY <1>2 DEF factory_delete, tar_delete, Unmatched
  <2> QED
    BY <1>2, <1>q, <2>1 DEF factory_delete
<1>3. CASE factory_save \/ factory_save_Rejected \/ ResetSaves
  BY <1>3, <1>q DEF factory_save, factory_save_Rejected, ResetSaves, BeginSave,
                    NoHeaderStored
<1>4. ASSUME flash' = Erased, factory_buffer' = factory_buffer
      PROVE  NoHeaderStored'
  <2>1. \A s \in Slot : \A i \in 0..(Half - 1) :
           flash'[s][i] = flash[s][i] \/ flash'[s][i] = Blank
    BY <1>4, <1>t DEF Erased, FlashType
  <2> QED
    BY <1>4, <1>r, <2>1
<1>5. CASE EraseUnit
  BY <1>4, <1>5 DEF EraseUnit
<1>6. CASE WriteUnit
  <2>1. \A s \in Slot : \A i \in 0..(Half - 1) :
           \/ flash'[s][i] = flash[s][i]
           \/ flash'[s][i] = BufferBlock(i)
           \/ flash'[s][i] = BufferBlock(Half)
    BY <1>6, <1>t DEF WriteUnit, Written, FlashType
  <2>2. factory_buffer' = factory_buffer
    BY <1>6 DEF WriteUnit
  <2> QED
    BY <1>r, <2>1, <2>2
<1>7. CASE SaveDone \/ WriteFails
  BY <1>7, <1>q DEF SaveDone, WriteFails, NoHeaderStored
<1>8. CASE EraseFails
  BY <1>4, <1>8, <1>q DEF EraseFails, NoHeaderStored
<1>9. CASE PageRemapped
  <2>1. /\ factory_buffer' = factory_buffer
        /\ flash' = [flash EXCEPT ![next_pp] =
                       [i \in 0..(Half - 1) |->
                           IF i < Erase \/ (i >= pos /\ i < pos + Page)
                             THEN Blank ELSE @[i]]]
    BY <1>9 DEF PageRemapped
  <2>2. \A s \in Slot : \A i \in 0..(Half - 1) :
           flash'[s][i] = flash[s][i] \/ flash'[s][i] = Blank
    BY <2>1, <1>t DEF FlashType
  <2> QED
    BY <1>r, <2>1, <2>2
<1>10. CASE PowerFails
  BY <1>10, <1>e, <1>q DEF PowerFails
<1>11. ASSUME NEW s \in Slot, Valid(flash, s), Adopt(s), flash' = flash
       PROVE  NoHeaderStored'
  BY <1>11, <1>q, LoadsNoHeader DEF Adopt
<1>12. ASSUME AdoptNothing, flash' = flash
       PROVE  NoHeaderStored'
  BY <1>12, <1>e, <1>q DEF AdoptNothing
<1>13. CASE factory_init
  BY <1>t, <1>11, <1>12, <1>13, SlotIsValid DEF factory_init
<1>14. CASE factory_init_ReadError
  BY <1>11, <1>12, <1>14 DEF factory_init_ReadError
<1>15. CASE factory_reset
  BY <1>15, <1>e, <1>q DEF factory_reset
<1>16. CASE UNCHANGED vars
  BY <1>16 DEF vars, NoHeaderStored
<1> QED
  BY <1>1, <1>2, <1>3, <1>5, <1>6, <1>7, <1>8, <1>9, <1>10, <1>13, <1>14, <1>15,
     <1>16 DEF Next, NextNoReset

\* In the NAS build the RTK header that a save leaves behind the archive never
\* becomes a file of the archive, on every medium and under every fault: not
\* even after a failed save, which does not remove it.
THEOREM HeaderNeverArchived ==
    ASSUME NAS
    PROVE  Spec => []NoRedundantHeader
<1>1. Init => TypeOK /\ NoHeaderStored
  BY TypeInit, NoHeaderInit
<1>2. (TypeOK /\ NoHeaderStored) /\ [Next]_vars => (TypeOK /\ NoHeaderStored)'
  BY TypeNext, NoHeaderNext
<1>3. NoHeaderStored => NoRedundantHeader
  BY DEF NoHeaderStored, NoRedundantHeader
<1> QED
  BY <1>1, <1>2, <1>3, PTL DEF Spec

-----------------------------------------------------------------------------
(* Copies *)

LEMMA CopiesEqual ==
    ASSUME NEW f \in [0..(Half - 1) -> Cell], NEW g \in [0..(Half - 1) -> Cell],
           \A i \in 0..(Half - 1) : f[i] = g[i]
    PROVE  f = g
<1>1. /\ f = [i \in 0..(Half - 1) |-> f[i]]
      /\ g = [i \in 0..(Half - 1) |-> g[i]]
  OBVIOUS
<1>2. [i \in 0..(Half - 1) |-> f[i]] = [i \in 0..(Half - 1) |-> g[i]]
  BY Zenon
<1> QED
  BY <1>1, <1>2, Zenon

\* With its header inside the copy, nothing but the copy's own blocks decides
\* whether a boot accepts it and what the boot finds in it.
LEMMA CopyIsLocal ==
    ASSUME NEW fl \in FlashType, NEW gl \in FlashType, NEW s \in Slot,
           gl[s] = fl[s],
           fl[s][0].k = "hdr" => fl[s][0].len < Half
    PROVE  /\ Valid(gl, s) <=> Valid(fl, s)
           /\ Valid(fl, s) => /\ Intact(gl, s) <=> Intact(fl, s)
                              /\ Content(gl, s) = Content(fl, s)
<1>1. ASSUME NEW i \in Nat, i < Half
      PROVE  At(fl, s, i) = fl[s][i] /\ At(gl, s, i) = fl[s][i]
  BY <1>1 DEF At
<1>2. ASSUME fl[s][0].k = "hdr"
      PROVE  fl[s][0].len \in Nat /\ fl[s][0].len < Half
  <2>1. fl[s][0] \in Cell
    BY Sizes DEF FlashType
  <2>2. fl[s][0] \in HdrCell
    BY <1>2, <2>1, CellKinds
  <2> QED
    BY <1>2, <2>2 DEF HdrCell
<1>3. Valid(gl, s) <=> Valid(fl, s)
  <2>1. CASE fl[s][0].k = "hdr"
    <3>1. At(fl, s, fl[s][0].len) = At(gl, s, fl[s][0].len)
      BY <1>1, <1>2, <2>1
    <3> QED
      BY <3>1 DEF Valid
  <2>2. CASE fl[s][0].k # "hdr"
    BY <2>2 DEF Valid
  <2> QED
    BY <2>1, <2>2
<1>4. ASSUME Valid(fl, s)
      PROVE  /\ Intact(gl, s) <=> Intact(fl, s)
             /\ Content(gl, s) = Content(fl, s)
  <2>1. /\ fl[s][0].len \in Nat /\ fl[s][0].len < Half
        /\ fl[s][0].len >= 1
    BY <1>2, <1>4 DEF Valid
  <2>2. At(gl, s, 1) = At(fl, s, 1)
    BY <1>1, Sizes
  <2>3. \A i \in 1..(fl[s][0].len - 1) : At(gl, s, i) = At(fl, s, i)
    BY <1>1, <2>1, Sizes
  <2>4. Intact(gl, s) <=> Intact(fl, s)
    BY <2>2, <2>3 DEF Intact
  <2> QED
    BY <2>2, <2>4 DEF Content
<1> QED
  BY <1>3, <1>4

\* Copy s holds the archive im, saved with number n: its blocks, between two
\* headers that say so.
CopyOf(fl, s, n, im) ==
    /\ im.rooted
    /\ tar_size(im) < Half /\ tar_size(im) < TarsizeLimit
    /\ fl[s][0] = Hdr(n, tar_size(im), TRUE)
    /\ fl[s][tar_size(im)] = fl[s][0]
    /\ \A i \in 1..(tar_size(im) - 1) : fl[s][i] = Body(im, i)

\* While the copy that is not current is not valid, the next boot finds the
\* current one, or the empty archive if there is none, whatever their numbers.
LEMMA OtherGone ==
    ASSUME NEW fl \in FlashType, NEW gl \in FlashType,
           NEW pp \in Slot, NEW o \in Slot, o # pp,
           HeadersInside(fl), WholeCopy(fl, pp), gl[pp] = fl[pp],
           gl[o][0].k # "hdr" \/ gl[o][0].len < Half,
           ~Valid(gl, o)
    PROVE  /\ HeadersInside(gl)
           /\ \A s \in Slot : WholeCopy(gl, s)
           /\ Valid(gl, pp) <=> Valid(fl, pp)
           /\ Valid(fl, pp) => Content(gl, pp) = Content(fl, pp)
           /\ Found(gl) = IF Valid(fl, pp) THEN Content(fl, pp) ELSE EmptyImage
<1>1. /\ Valid(gl, pp) <=> Valid(fl, pp)
      /\ Valid(fl, pp) => /\ Intact(gl, pp) <=> Intact(fl, pp)
                          /\ Content(gl, pp) = Content(fl, pp)
  BY CopyIsLocal DEF HeadersInside
<1>2. Slot = {pp, o} /\ ((pp = 0 /\ o = 1) \/ (pp = 1 /\ o = 0))
  BY DEF Slot
<1>3. HeadersInside(gl)
  BY <1>2 DEF HeadersInside
<1>4. WholeCopy(gl, pp) /\ WholeCopy(gl, o)
  BY <1>1 DEF WholeCopy
<1>5. Found(gl) = IF Valid(gl, pp) THEN Content(gl, pp) ELSE EmptyImage
  BY <1>2 DEF Found, AnyValid, Chosen
<1> QED
  BY <1>1, <1>2, <1>3, <1>4, <1>5

\* Once the archive im is in the copy that is not current, a boot accepts the
\* copy and finds im or the current copy.
LEMMA OtherWhole ==
    ASSUME NEW fl \in FlashType, NEW gl \in FlashType,
           NEW pp \in Slot, NEW o \in Slot, o # pp, NEW n \in Seq32,
           HeadersInside(fl), WholeCopy(fl, pp), gl[pp] = fl[pp],
           NEW im \in Image, CopyOf(gl, o, n, im)
    PROVE  /\ HeadersInside(gl)
           /\ \A s \in Slot : WholeCopy(gl, s)
           /\ Valid(gl, o)
           /\ Content(gl, o) = im
           /\ gl[o][0].seq = n
           /\ Valid(gl, pp) <=> Valid(fl, pp)
           /\ Valid(fl, pp) => Content(gl, pp) = Content(fl, pp)
           /\ \/ Found(gl) = im
              \/ Valid(fl, pp) /\ Found(gl) = Content(fl, pp)
<1>c. /\ im.rooted
      /\ tar_size(im) < Half /\ tar_size(im) < TarsizeLimit
      /\ gl[o][0] = Hdr(n, tar_size(im), TRUE)
      /\ gl[o][tar_size(im)] = gl[o][0]
      /\ \A i \in 1..(tar_size(im) - 1) : gl[o][i] = Body(im, i)
  BY DEF CopyOf
<1>1. /\ Valid(gl, pp) <=> Valid(fl, pp)
      /\ Valid(fl, pp) => /\ Intact(gl, pp) <=> Intact(fl, pp)
                          /\ Content(gl, pp) = Content(fl, pp)
  BY CopyIsLocal DEF HeadersInside
<1>2. Slot = {pp, o} /\ ((pp = 0 /\ o = 1) \/ (pp = 1 /\ o = 0))
  BY DEF Slot
<1>3. tar_size(im) \in Nat /\ tar_size(im) >= 1
  BY <1>c, TarSizeType
<1>h. /\ gl[o][0].k = "hdr" /\ gl[o][0].root
      /\ gl[o][0].len = tar_size(im) /\ gl[o][0].seq = n
  BY <1>c DEF Hdr
<1>a. \A i \in 0..(Half - 1) : At(gl, o, i) = gl[o][i]
  BY Sizes DEF At
<1>4. Valid(gl, o)
  <2>1. tar_size(im) \in 0..(Half - 1)
    BY <1>c, <1>3, Sizes
  <2>2. At(gl, o, tar_size(im)) = gl[o][0]
    BY <2>1, <1>a, <1>c
  <2> QED
    BY <2>2, <1>c, <1>3, <1>h DEF Valid
<1>5. Intact(gl, o) /\ Content(gl, o) = im
  <2>1. CASE tar_size(im) = 1
    BY <2>1, <1>c, <1>h, OneBlockIsEmpty DEF Intact, Content
  <2>2. CASE tar_size(im) # 1
    <3>1. At(gl, o, 1) = Body(im, 1)
      BY <2>2, <1>c, <1>3, <1>a, Sizes
    <3>2. At(gl, o, 1).k = "body" /\ At(gl, o, 1).img = im
      BY <3>1 DEF Body
    <3>3. \A i \in 1..(tar_size(im) - 1) : At(gl, o, i) = Body(im, i)
      BY <1>c, <1>3, <1>a, Sizes
    <3> QED
      BY <2>2, <3>2, <3>3, <1>h DEF Intact, Content
  <2> QED
    BY <2>1, <2>2
<1>6. HeadersInside(gl)
  BY <1>2, <1>c, <1>h DEF HeadersInside
<1>7. WholeCopy(gl, pp) /\ WholeCopy(gl, o)
  BY <1>1, <1>5, <1>c, <1>h DEF WholeCopy
<1>8. \/ Found(gl) = Content(gl, o)
      \/ Valid(gl, pp) /\ Found(gl) = Content(gl, pp)
  <2>1. AnyValid(gl)
    BY <1>2, <1>4 DEF AnyValid
  <2>2. Chosen(gl) \in Slot /\ Valid(gl, Chosen(gl))
    BY <2>1, SlotIsValid
  <2> QED
    BY <1>2, <2>1, <2>2 DEF Found
<1> QED
  BY <1>1, <1>2, <1>4, <1>5, <1>6, <1>7, <1>8, <1>h

-----------------------------------------------------------------------------
(* One step of a save *)

\* The archive that is being saved, with its two headers and the padding, fits
\* in one copy, and a boot accepts its size.
LEMMA ArchiveFits ==
    ASSUME TypeOK, Flash # "EMMC", ~TooBig, factory_tarsize > 0
    PROVE  /\ total_len <= Half
           /\ factory_tarsize >= 1 /\ factory_tarsize < total_len
           /\ factory_tarsize < TarsizeLimit
<1>1. factory_tarsize \in Nat /\ factory_tarsize >= 1
  BY TarSizeType DEF TypeOK, factory_tarsize
<1>2. factory_tarsize < total_len
  BY <1>1, Sizes DEF total_len
<1>3. CASE Flash = "SPI"
  BY <1>1, <1>2, <1>3, Sizes DEF TooBig, TarsizeLimit, total_len
<1>4. CASE Flash = "NAND"
  <2>1. Erase >= 3
    BY <1>4, FactoryAssumption
  <2>2. factory_tarsize <= Half - Erase
    BY <1>4 , <1>1, Sizes DEF TooBig
  <2> QED
    BY <1>1, <1>2, <1>4, <2>1, <2>2, Sizes DEF TarsizeLimit, total_len
<1> QED
  BY <1>1, <1>2, <1>3, <1>4, FactoryAssumption

\* What a save does to the flash fl that it leaves, when it keeps the current
\* copy and its own copy is without a front header or written up to block p.
LEMMA SaveLeaves ==
    ASSUME TypeOK, Flash # "EMMC",
           HeadersInside(flash), WholeCopy(flash, factory_current_pp),
           header = Hdr(next_seqnum, factory_tarsize, factory_buffer.rooted),
           factory_tarsize > 0, ~TooBig,
           NEW fl \in FlashType, NEW p \in Nat, p >= 1,
           fl[factory_current_pp] = flash[factory_current_pp],
           \/ fl[next_pp][0] = Blank
           \/ \A i \in 0..(Half - 1) :
                 /\ i < p => fl[next_pp][i] = BufferBlock(i)
                 /\ p <= i /\ i < total_len => fl[next_pp][i] = Blank
    PROVE  /\ HeadersInside(fl)
           /\ \A s \in Slot : WholeCopy(fl, s)
           /\ Valid(fl, factory_current_pp) <=> Valid(flash, factory_current_pp)
           /\ Valid(fl, factory_current_pp) =>
                 Content(fl, factory_current_pp) = Content(flash, factory_current_pp)
           /\ Found(fl) \in {factory_buffer, Committed}
           /\ factory_buffer.rooted /\ fl[next_pp][0] # Blank /\ factory_tarsize < p
                 => /\ Valid(fl, next_pp)
                    /\ Content(fl, next_pp) = factory_buffer
           /\ Valid(fl, next_pp) => fl[next_pp][0].seq = next_seqnum
<1>1. /\ factory_tarsize \in Nat /\ factory_tarsize >= 1
      /\ factory_tarsize < total_len /\ total_len <= Half
      /\ factory_tarsize < TarsizeLimit
      /\ next_pp \in Slot /\ factory_current_pp \in Slot
      /\ next_pp # factory_current_pp
      /\ next_seqnum \in Seq32
      /\ flash \in FlashType /\ factory_buffer \in Image
      /\ total_len \in Nat
  BY ArchiveFits, HdrType DEF TypeOK, FlashType
<1>2. factory_tarsize < Half /\ factory_tarsize \in 0..(Half - 1)
  BY <1>1, Sizes
<1>3. Blank.k # "hdr"
  BY DEF Blank
<1>4. /\ header.k = "hdr" /\ header.len = factory_tarsize
      /\ header.root = factory_buffer.rooted /\ header.seq = next_seqnum
  BY DEF Hdr
<1>5. ASSUME ~Valid(fl, next_pp),
             fl[next_pp][0].k # "hdr" \/ fl[next_pp][0].len < Half
      PROVE  /\ HeadersInside(fl)
             /\ \A s \in Slot : WholeCopy(fl, s)
             /\ Valid(fl, factory_current_pp) <=> Valid(flash, factory_current_pp)
             /\ Valid(fl, factory_current_pp) =>
                   Content(fl, factory_current_pp) = Content(flash, factory_current_pp)
             /\ Found(fl) = Committed
  BY <1>1, <1>5, OtherGone DEF Committed
<1>6. CASE fl[next_pp][0] = Blank
  <2>1. ~Valid(fl, next_pp)
    BY <1>3, <1>6 DEF Valid
  <2> QED
    BY <1>3, <1>5, <1>6, <2>1
<1>7. CASE fl[next_pp][0] # Blank
  <2>1. \A i \in 0..(Half - 1) :
           /\ i < p => fl[next_pp][i] = BufferBlock(i)
           /\ p <= i /\ i < total_len => fl[next_pp][i] = Blank
    BY <1>7
  <2>b. /\ BufferBlock(0) = header /\ BufferBlock(factory_tarsize) = header
        /\ \A i \in 1..(factory_tarsize - 1) :
              BufferBlock(i) = Body(factory_buffer, i)
    <3>1. BufferBlock(0) = header /\ BufferBlock(factory_tarsize) = header
      BY Zenon DEF BufferBlock
    <3>2. ASSUME NEW i \in 1..(factory_tarsize - 1)
          PROVE  BufferBlock(i) = Body(factory_buffer, i)
      <4>1. i # 0 /\ i # factory_tarsize /\ i < factory_tarsize
        BY <1>1
      <4> QED
        BY <4>1, Zenon DEF BufferBlock
    <3> QED
      BY <3>1, <3>2
  <2>2. fl[next_pp][0] = header
    <3>1. 0 \in 0..(Half - 1) /\ 0 < p
      BY Sizes
    <3> QED
      BY <3>1, <2>1, <2>b
  <2>3. CASE ~factory_buffer.rooted \/ factory_tarsize >= p
    <3>1. ~Valid(fl, next_pp)
      <4>1. CASE ~factory_buffer.rooted
        BY <4>1, <2>2, <1>4 DEF Valid
      <4>2. CASE factory_tarsize >= p
        <5>1. At(fl, next_pp, factory_tarsize) = fl[next_pp][factory_tarsize]
          BY <1>2 DEF At
        <5>2. fl[next_pp][factory_tarsize] = Blank
          BY <4>2, <2>1, <1>1, <1>2
        <5>3. header # Blank
          BY <1>3, <1>4
        <5> QED
          BY <5>1, <5>2, <5>3, <2>2, <1>4 DEF Valid
      <4> QED
        BY <2>3, <4>1, <4>2
    <3>2. fl[next_pp][0].len < Half
      BY <2>2, <1>2, <1>4
    <3> QED
      BY <2>3, <3>1, <3>2, <1>1, <1>5
  <2>4. CASE factory_buffer.rooted /\ factory_tarsize < p
    <3>1. fl[next_pp][factory_tarsize] = header
      BY <2>1, <2>4, <2>b, <1>2
    <3>2. \A i \in 1..(factory_tarsize - 1) : i \in 0..(Half - 1) /\ i < p
      BY <1>1, <1>2, <2>4, Sizes
    <3>3. \A i \in 1..(factory_tarsize - 1) : fl[next_pp][i] = Body(factory_buffer, i)
      BY <3>2, <2>1, <2>b
    <3>4. factory_buffer.rooted = TRUE
      BY <1>1, <2>4 DEF Image
    <3>5. header = Hdr(next_seqnum, factory_tarsize, TRUE)
      BY <3>4, Zenon
    <3>6. CopyOf(fl, next_pp, next_seqnum, factory_buffer)
      BY <3>1, <3>3, <3>5, <2>2, <2>4, <1>1, <1>2 DEF factory_tarsize, CopyOf
    <3>7. /\ HeadersInside(fl)
          /\ \A s \in Slot : WholeCopy(fl, s)
          /\ Valid(fl, next_pp)
          /\ Content(fl, next_pp) = factory_buffer
          /\ fl[next_pp][0].seq = next_seqnum
          /\ Valid(fl, factory_current_pp) <=> Valid(flash, factory_current_pp)
          /\ Valid(flash, factory_current_pp) =>
                Content(fl, factory_current_pp) = Content(flash, factory_current_pp)
          /\ \/ Found(fl) = factory_buffer
             \/ /\ Valid(flash, factory_current_pp)
                /\ Found(fl) = Content(flash, factory_current_pp)
      BY <3>6, <1>1, OtherWhole
    <3> QED
      BY <3>7 DEF Committed
  <2> QED
    BY <1>1, <2>3, <2>4
<1> QED
  BY <1>6, <1>7

\* What every step of a save knows.
LEMMA SaveKnows ==
    ASSUME TypeOK, Flash # "EMMC", WholeInv, pc \in {"erase", "write"}
    PROVE  /\ next_pp \in Slot /\ factory_current_pp \in Slot
           /\ next_pp # factory_current_pp
           /\ flash \in FlashType /\ pos \in Nat
           /\ factory_tarsize \in Nat /\ total_len \in Nat /\ total_len <= Half
           /\ factory_tarsize < total_len
           /\ HeadersInside(flash) /\ WholeCopy(flash, factory_current_pp)
           /\ header = Hdr(next_seqnum, factory_tarsize, factory_buffer.rooted)
           /\ factory_tarsize > 0 /\ ~TooBig
           /\ Underway
<1>1. Underway
  BY DEF WholeInv
<1> QED
  BY <1>1, ArchiveFits, HdrType DEF WholeInv, Underway, TypeOK, FlashType

\* An erase takes the front header of the copy first.
LEMMA EraseLeaves ==
    ASSUME TypeOK, Flash # "EMMC", WholeInv, pc = "erase"
    PROVE  /\ Erased \in FlashType
           /\ Erased[factory_current_pp] = flash[factory_current_pp]
           /\ Erased[next_pp][0] = Blank
           /\ \A i \in 0..(Half - 1) :
                 i < pos + Erase => Erased[next_pp][i] = Blank
<1>1. /\ next_pp \in Slot /\ factory_current_pp \in Slot
      /\ next_pp # factory_current_pp
      /\ flash \in FlashType /\ pos \in Nat
      /\ Underway
  BY SaveKnows
<1>2. Erased \in FlashType
  BY <1>1, Sizes DEF Erased, FlashType, Cell
<1>3. Erased[factory_current_pp] = flash[factory_current_pp]
  BY <1>1 DEF Erased, FlashType
<1>4. \A i \in 0..(Half - 1) : i < pos => flash[next_pp][i] = Blank
  BY <1>1 DEF Underway
<1>5. \A i \in 0..(Half - 1) : i < pos + Erase => Erased[next_pp][i] = Blank
  BY <1>1, <1>4, Sizes DEF Erased, FlashType
<1>6. Erased[next_pp][0] = Blank
  BY <1>5, <1>1, Sizes
<1> QED
  BY <1>2, <1>3, <1>5, <1>6

\* A write stays inside its copy; a front header lost to a remapped block is
\* not written again.
LEMMA WriteLeaves ==
    ASSUME TypeOK, Flash # "EMMC", WholeInv, pc = "write", pos < total_len
    PROVE  /\ Written \in FlashType
           /\ Written[factory_current_pp] = flash[factory_current_pp]
           /\ \/ pos > 0 /\ flash[next_pp][0] = Blank /\ Written[next_pp][0] = Blank
              \/ \A i \in 0..(Half - 1) :
                    /\ i < pos + Page => Written[next_pp][i] = BufferBlock(i)
                    /\ pos + Page <= i /\ i < total_len =>
                          Written[next_pp][i] = Blank
<1>1. /\ next_pp \in Slot /\ factory_current_pp \in Slot
      /\ next_pp # factory_current_pp
      /\ flash \in FlashType /\ pos \in Nat /\ total_len \in Nat
      /\ total_len <= Half
      /\ Underway
  BY SaveKnows
<1>2. pos < Half
  BY <1>1, Sizes
<1>3. Written \in FlashType
  BY <1>1, BufferBlockType, Sizes DEF Written, FlashType
<1>4. Written[factory_current_pp] = flash[factory_current_pp]
  <2>1. \A i \in 0..(Half - 1) :
           Written[factory_current_pp][i] = flash[factory_current_pp][i]
    BY <1>1, <1>2, Sizes DEF Written
  <2>2. /\ Written[factory_current_pp] \in [0..(Half - 1) -> Cell]
        /\ flash[factory_current_pp] \in [0..(Half - 1) -> Cell]
    BY <1>1, <1>3 DEF FlashType
  <2> QED
    BY <2>1, <2>2, CopiesEqual
<1>5. \A i \in 0..(Half - 1) :
         Written[next_pp][i] = IF i >= pos /\ i < pos + Page THEN BufferBlock(i)
                               ELSE flash[next_pp][i]
  BY <1>1, <1>2 DEF Written
<1>6. CASE pos > 0 /\ flash[next_pp][0] = Blank
  BY <1>1, <1>3, <1>4, <1>5, <1>6, Sizes
<1>7. CASE \A i \in 0..(Half - 1) :
              /\ i < pos => flash[next_pp][i] = BufferBlock(i)
              /\ pos <= i /\ i < total_len => flash[next_pp][i] = Blank
  <2>1. \A i \in 0..(Half - 1) :
           /\ i < pos + Page => Written[next_pp][i] = BufferBlock(i)
           /\ pos + Page <= i /\ i < total_len => Written[next_pp][i] = Blank
    BY <1>1, <1>5, <1>7, Sizes
  <2> QED
    BY <1>3, <1>4, <2>1
<1>8. \/ pos > 0 /\ flash[next_pp][0] = Blank
      \/ \A i \in 0..(Half - 1) :
            /\ i < pos => flash[next_pp][i] = BufferBlock(i)
            /\ pos <= i /\ i < total_len => flash[next_pp][i] = Blank
  BY <1>1 DEF Underway
<1> QED
  BY <1>6, <1>7, <1>8

-----------------------------------------------------------------------------
(* The invariant *)

LEMMA WholeInit == Init => WholeInv
<1> SUFFICES ASSUME Init
             PROVE  WholeInv
  OBVIOUS
<1>1. \A s \in Slot : flash[s][0] = Blank
  BY Sizes DEF Init
<1>2. Blank.k # "hdr"
  BY DEF Blank
<1>3. \A s \in Slot : flash[s][0].k # "hdr" /\ ~Valid(flash, s)
  BY <1>1, <1>2 DEF Valid
<1> QED
  BY <1>3 DEF Init, WholeInv, HeadersInside, WholeCopy

\* Every step keeps the copies whole, and one that changes the flash leaves the
\* next boot the archive in RAM or that of the current copy.
LEMMA WholeNext ==
    ASSUME Flash # "EMMC", TypeOK, WholeInv, [Next]_vars
    PROVE  /\ WholeInv'
           /\ flash' # flash => Found(flash') \in {factory_buffer, Committed}
<1>u. USE DEF ram, ctl
<1>i. HeadersInside(flash) /\ \A s \in Slot : WholeCopy(flash, s)
  BY DEF WholeInv
<1>q. ASSUME flash' = flash, pc' \notin {"erase", "write"}
      PROVE  /\ WholeInv'
             /\ flash' # flash => Found(flash') \in {factory_buffer, Committed}
  BY <1>i, <1>q DEF WholeInv
<1>1. ASSUME NEW f \in Path, NEW d \in Data, factory_write(f, d)
      PROVE  flash' = flash /\ pc' \notin {"erase", "write"}
  BY <1>1 DEF factory_write
<1>2. ASSUME NEW f \in Path, factory_delete(f)
      PROVE  flash' = flash /\ pc' \notin {"erase", "write"}
  BY <1>2 DEF factory_delete
<1>3. ASSUME NEW w, BeginSave(w)
      PROVE  WholeInv' /\ flash' = flash
  <2>1. /\ header' = Hdr(next_seqnum, factory_tarsize, factory_buffer.rooted)
        /\ factory_tarsize > 0 /\ ~TooBig
        /\ pc' = "erase" /\ pos' = 0
        /\ UNCHANGED <<flash, factory_buffer, factory_current_pp, factory_seq_num>>
    BY <1>3 DEF BeginSave
  <2>2. Underway'
    BY <2>1 DEF Underway, TooBig, factory_tarsize, total_len, next_seqnum
  <2> QED
    BY <1>i, <2>1, <2>2 DEF WholeInv
<1>4. CASE factory_save \/ ResetSaves
  BY <1>3, <1>4 DEF factory_save, ResetSaves
<1>5. CASE factory_save_Rejected
  BY <1>5, <1>q DEF factory_save_Rejected
<1>6. ASSUME NEW fl \in FlashType, fl[factory_current_pp] = flash[factory_current_pp],
             pc \in {"erase", "write"},
             \/ fl[next_pp][0] = Blank
             \/ \E p \in Nat :
                   /\ p >= 1
                   /\ \A i \in 0..(Half - 1) :
                         /\ i < p => fl[next_pp][i] = BufferBlock(i)
                         /\ p <= i /\ i < total_len => fl[next_pp][i] = Blank
      PROVE  /\ HeadersInside(fl)
             /\ \A s \in Slot : WholeCopy(fl, s)
             /\ Found(fl) \in {factory_buffer, Committed}
  <2>1. CASE fl[next_pp][0] = Blank
    BY <1>6, <2>1, SaveKnows, SaveLeaves
  <2>2. CASE \E p \in Nat :
                /\ p >= 1
                /\ \A i \in 0..(Half - 1) :
                      /\ i < p => fl[next_pp][i] = BufferBlock(i)
                      /\ p <= i /\ i < total_len => fl[next_pp][i] = Blank
    BY <1>6, <2>2, SaveKnows, SaveLeaves
  <2> QED
    BY <1>6, <2>1, <2>2
<1>7. CASE EraseUnit
  <2>1. /\ pc = "erase" /\ flash' = Erased
        /\ UNCHANGED <<factory_buffer, header, factory_current_pp, factory_seq_num>>
    BY <1>7 DEF EraseUnit
  <2>2. /\ HeadersInside(flash')
        /\ \A s \in Slot : WholeCopy(flash', s)
        /\ Found(flash') \in {factory_buffer, Committed}
    BY <2>1, <1>6, EraseLeaves
  <2>3. \A i \in 0..(Half - 1) : i < pos + Erase => flash'[next_pp][i] = Blank
    BY <2>1, EraseLeaves
  <2>4. /\ next_pp' = next_pp /\ total_len' = total_len
        /\ factory_tarsize' = factory_tarsize /\ TooBig' = TooBig
        /\ next_seqnum' = next_seqnum
    BY <2>1 DEF next_pp, total_len, factory_tarsize, TooBig, next_seqnum
  <2>5. Underway /\ pos \in Nat /\ total_len \in Nat
    BY <2>1, SaveKnows
  <2>6. CASE pos + Erase < total_len
    <3>1. pos' = pos + Erase /\ pc' = "erase"
      BY <1>7, <2>1, <2>6 DEF EraseUnit
    <3>2. Underway'
      BY <3>1, <2>1, <2>3, <2>4, <2>5 DEF Underway
    <3> QED
      BY <3>2, <2>2 DEF WholeInv
  <2>7. CASE ~(pos + Erase < total_len)
    <3>1. pos' = 0 /\ pc' = "write"
      BY <1>7, <2>7 DEF EraseUnit
    <3>2. \A i \in 0..(Half - 1) : i < total_len => flash'[next_pp][i] = Blank
      BY <2>3, <2>5, <2>7, Sizes
    <3>3. Underway'
      BY <3>1, <3>2, <2>1, <2>4, <2>5 DEF Underway
    <3> QED
      BY <3>3, <2>2 DEF WholeInv
  <2> QED
    BY <2>6, <2>7
<1>8. ASSUME pc = "write", pos < total_len, pos' = pos + Page, pc' = pc,
             UNCHANGED <<factory_buffer, header, header2, factory_current_pp,
                         factory_seq_num>>,
             flash' \in FlashType,
             flash'[factory_current_pp] = flash[factory_current_pp],
             \/ flash'[next_pp][0] = Blank
             \/ \A i \in 0..(Half - 1) :
                   /\ i < pos + Page => flash'[next_pp][i] = BufferBlock(i)
                   /\ pos + Page <= i /\ i < total_len => flash'[next_pp][i] = Blank
      PROVE  WholeInv' /\ Found(flash') \in {factory_buffer, Committed}
  <2>1. Underway /\ pos + Page \in Nat /\ pos + Page >= 1
    BY <1>8, SaveKnows, Sizes
  <2>2. /\ HeadersInside(flash')
        /\ \A s \in Slot : WholeCopy(flash', s)
        /\ Found(flash') \in {factory_buffer, Committed}
    BY <1>6, <1>8, <2>1
  <2>3. /\ next_pp' = next_pp /\ total_len' = total_len
        /\ factory_tarsize' = factory_tarsize /\ TooBig' = TooBig
        /\ next_seqnum' = next_seqnum
        /\ \A i \in 0..(Half - 1) : BufferBlock(i)' = BufferBlock(i)
    BY <1>8 DEF next_pp, total_len, factory_tarsize, TooBig, next_seqnum, BufferBlock
  <2>4. Underway'
    BY <1>8, <2>1, <2>3 DEF Underway
  <2> QED
    BY <2>2, <2>4 DEF WholeInv
<1>9. CASE WriteUnit
  <2>1. /\ pc = "write" /\ pos < total_len /\ flash' = Written /\ pos' = pos + Page
        /\ pc' = pc
        /\ UNCHANGED <<factory_buffer, header, header2, factory_current_pp,
                       factory_seq_num>>
    BY <1>9 DEF WriteUnit
  <2> QED
    BY <2>1, <1>8, WriteLeaves
<1>10. CASE PageRemapped
  <2>1. /\ pc = "write" /\ pos < total_len /\ pos' = pos + Page
        /\ flash' = [flash EXCEPT ![next_pp] =
                       [i \in 0..(Half - 1) |->
                           IF i < Erase \/ (i >= pos /\ i < pos + Page)
                             THEN Blank ELSE @[i]]]
        /\ pc' = pc
        /\ UNCHANGED <<factory_buffer, header, header2, factory_current_pp,
                       factory_seq_num>>
    BY <1>10 DEF PageRemapped
  <2>2. /\ next_pp \in Slot /\ factory_current_pp \in Slot
        /\ next_pp # factory_current_pp /\ flash \in FlashType
    BY <2>1, SaveKnows
  <2>3. flash' \in FlashType
    BY <2>1, <2>2, Sizes DEF FlashType, Cell
  <2>4. /\ flash'[factory_current_pp] = flash[factory_current_pp]
        /\ flash'[next_pp][0] = Blank
    BY <2>1, <2>2, Sizes DEF FlashType
  <2> QED
    BY <2>1, <2>3, <2>4, <1>8
<1>11. ASSUME Return
       PROVE  pc' \notin {"erase", "write"}
  BY <1>11 DEF Return
<1>12. CASE SaveDone
  BY <1>11, <1>12, <1>q DEF SaveDone
<1>13. CASE EraseFails
  <2>1. pc = "erase" /\ pc' \notin {"erase", "write"} /\ (flash' = flash \/ flash' = Erased)
    BY <1>11, <1>13 DEF EraseFails
  <2>2. CASE flash' = Erased
    <3>1. /\ HeadersInside(flash')
          /\ \A s \in Slot : WholeCopy(flash', s)
          /\ Found(flash') \in {factory_buffer, Committed}
      BY <2>1, <2>2, <1>6, EraseLeaves
    <3> QED
      BY <3>1, <2>1 DEF WholeInv
  <2> QED
    BY <2>1, <2>2, <1>q
<1>14. CASE WriteFails
  BY <1>11, <1>14, <1>q DEF WriteFails
<1>15. CASE PowerFails
  BY <1>15, <1>q DEF PowerFails
<1>16. CASE factory_init
  BY <1>16, <1>q DEF factory_init
<1>17. CASE factory_init_ReadError
  BY <1>17, <1>q DEF factory_init_ReadError
<1>18. CASE factory_reset
  BY <1>18, <1>q DEF factory_reset
<1>19. CASE UNCHANGED vars
  <2>1. Underway' = Underway
    BY <1>19 DEF vars, Underway, TooBig, factory_tarsize, total_len, next_pp,
                 next_seqnum, BufferBlock
  <2> QED
    BY <1>19, <2>1, <1>i DEF vars, WholeInv
<1> QED
  BY <1>1, <1>2, <1>4, <1>5, <1>7, <1>9, <1>10, <1>12, <1>13, <1>14, <1>15,
     <1>16, <1>17, <1>18, <1>19, <1>q DEF Next, NextNoReset

-----------------------------------------------------------------------------
(* Resets, on a medium without faults *)

\* A save that has written everything leaves its copy valid, with the number
\* that becomes the current one.
LEMMA DoneLeaves ==
    ASSUME Flash # "EMMC", TypeOK, WholeInv, ResetInv, pc = "write", pos >= total_len
    PROVE  /\ Valid(flash, next_pp) => flash[next_pp][0].seq = next_seqnum
           /\ factory_buffer.rooted =>
                 /\ Valid(flash, next_pp)
                 /\ Content(flash, next_pp) = factory_buffer
<1>1. /\ next_pp \in Slot /\ factory_current_pp \in Slot
      /\ next_pp # factory_current_pp
      /\ flash \in FlashType /\ pos \in Nat
      /\ factory_tarsize \in Nat /\ total_len \in Nat
      /\ factory_tarsize < total_len
      /\ Underway
  BY SaveKnows
<1>2. pos >= 1 /\ factory_tarsize < pos
  BY <1>1
<1>3. flash[next_pp][0] # Blank
  BY <1>1, <1>2 DEF ResetInv
<1>4. \A i \in 0..(Half - 1) :
         /\ i < pos => flash[next_pp][i] = BufferBlock(i)
         /\ pos <= i /\ i < total_len => flash[next_pp][i] = Blank
  BY <1>1, <1>3 DEF Underway
<1> QED
  BY <1>1, <1>2, <1>3, <1>4, SaveKnows, SaveLeaves

LEMMA ResetInit == Init => ResetInv
<1> SUFFICES ASSUME Init
             PROVE  ResetInv
  OBVIOUS
<1>1. factory_buffer.rooted
  BY DEF Init, EmptyImage
<1> QED
  BY <1>1 DEF Init, ResetInv

LEMMA ResetNext ==
    ASSUME Flash # "EMMC", Faults = {}, TypeOK, WholeInv, ResetInv, [Next]_vars
    PROVE  ResetInv'
<1>u. USE DEF ram, ctl
<1>t. /\ flash \in FlashType /\ factory_buffer \in Image /\ tail \in BOOLEAN
      /\ factory_current_pp \in Slot /\ next_pp \in Slot
      /\ next_pp # factory_current_pp
  BY HdrType DEF TypeOK, FlashType
<1>e. EmptyImage.rooted
  BY DEF EmptyImage
<1>1. ASSUME NEW f \in Path, NEW d \in Data, factory_write(f, d)
      PROVE  ResetInv'
  <2>1. RootPrefix = {} => factory_buffer'.rooted
    BY <1>1, <1>t, TarEditType DEF factory_write, ResetInv
  <2> QED
    BY <1>1, <2>1 DEF factory_write, ResetInv
<1>2. ASSUME NEW f \in Path, factory_delete(f)
      PROVE  ResetInv'
  <2>1. RootPrefix = {} => factory_buffer'.rooted
    BY <1>2, <1>t, TarEditType DEF factory_delete, ResetInv
  <2> QED
    BY <1>2, <2>1 DEF factory_delete, ResetInv
<1>3. ASSUME NEW w, BeginSave(w), pc \in {"idle", "reset"},
             w = IF pc = "reset" THEN caller ELSE "api"
      PROVE  ResetInv'
  <2>1. /\ factory_seq_num < MaxSeq
        /\ pc' = "erase" /\ caller' = w
        /\ UNCHANGED <<flash, factory_buffer, factory_current_pp, factory_seq_num>>
    BY <1>3 DEF BeginSave
  <2> QED
    BY <1>3, <2>1 DEF ResetInv
<1>4. CASE factory_save
  BY <1>3, <1>4 DEF factory_save
<1>5. CASE ResetSaves
  BY <1>3, <1>5 DEF ResetSaves
<1>6. CASE factory_save_Rejected
  BY <1>6 DEF factory_save_Rejected, ResetInv
<1>7. ASSUME pc \in {"erase", "write"}, pc' \in {"erase", "write"},
             UNCHANGED <<factory_buffer, header, factory_current_pp,
                         factory_seq_num, caller>>,
             flash' \in FlashType,
             flash'[factory_current_pp] = flash[factory_current_pp],
             pc' = "write" /\ pos' > 0 => flash'[next_pp][0] # Blank,
             \/ flash'[next_pp][0] = Blank
             \/ \E p \in Nat :
                   /\ p >= 1
                   /\ \A i \in 0..(Half - 1) :
                         /\ i < p => flash'[next_pp][i] = BufferBlock(i)
                         /\ p <= i /\ i < total_len => flash'[next_pp][i] = Blank
      PROVE  ResetInv'
  <2>1. /\ Valid(flash', factory_current_pp) <=> Valid(flash, factory_current_pp)
        /\ Valid(flash', factory_current_pp) =>
              Content(flash', factory_current_pp) = Content(flash, factory_current_pp)
    <3>1. CASE flash'[next_pp][0] = Blank
      BY <1>7, <3>1, SaveKnows, SaveLeaves
    <3>2. CASE \E p \in Nat :
                  /\ p >= 1
                  /\ \A i \in 0..(Half - 1) :
                        /\ i < p => flash'[next_pp][i] = BufferBlock(i)
                        /\ p <= i /\ i < total_len => flash'[next_pp][i] = Blank
      BY <1>7, <3>2, SaveKnows, SaveLeaves
    <3> QED
      BY <1>7, <3>1, <3>2
  <2>2. next_pp' = next_pp
    BY <1>7 DEF next_pp
  <2> QED
    BY <1>7, <2>1, <2>2 DEF ResetInv
<1>8. CASE EraseUnit
  <2>1. /\ pc = "erase" /\ flash' = Erased /\ pc' \in {"erase", "write"}
        /\ pc' = "write" => pos' = 0
        /\ UNCHANGED <<factory_buffer, header, factory_current_pp,
                       factory_seq_num, caller>>
    BY <1>8 DEF EraseUnit
  <2> QED
    BY <2>1, <1>7, EraseLeaves
<1>9. CASE WriteUnit
  <2>1. /\ pc = "write" /\ pos < total_len /\ flash' = Written /\ pc' = "write"
        /\ UNCHANGED <<factory_buffer, header, factory_current_pp,
                       factory_seq_num, caller>>
    BY <1>9 DEF WriteUnit
  <2>2. ~(pos > 0 /\ flash[next_pp][0] = Blank)
    BY <2>1 DEF ResetInv
  <2>3. /\ flash' \in FlashType
        /\ flash'[factory_current_pp] = flash[factory_current_pp]
        /\ \A i \in 0..(Half - 1) :
              /\ i < pos + Page => flash'[next_pp][i] = BufferBlock(i)
              /\ pos + Page <= i /\ i < total_len => flash'[next_pp][i] = Blank
    BY <2>1, <2>2, WriteLeaves
  <2>4. pos + Page \in Nat /\ pos + Page >= 1
    BY Sizes DEF TypeOK
  <2>5. flash'[next_pp][0] # Blank
    <3>1. flash'[next_pp][0] = BufferBlock(0)
      BY <2>3, <2>4, Sizes
    <3>2. BufferBlock(0) = header
      BY Zenon DEF BufferBlock
    <3>3. header \in HdrCell
      BY DEF TypeOK
    <3> QED
      BY <3>1, <3>2, <3>3 DEF HdrCell, Blank
  <2>6. \E p \in Nat :
           /\ p >= 1
           /\ \A i \in 0..(Half - 1) :
                 /\ i < p => flash'[next_pp][i] = BufferBlock(i)
                 /\ p <= i /\ i < total_len => flash'[next_pp][i] = Blank
    BY <2>3, <2>4
  <2> QED
    BY <2>1, <2>3, <2>5, <2>6, <1>7
<1>10. CASE SaveDone
  <2>1. /\ pc = "write" /\ pos >= total_len
        /\ pc' = IF caller = "reset1" THEN "reset" ELSE "idle"
        /\ caller' = IF caller = "reset1" THEN "reset2" ELSE "api"
        /\ factory_current_pp' = next_pp /\ factory_seq_num' = next_seqnum
        /\ UNCHANGED <<flash, factory_buffer>>
    BY <1>10 DEF SaveDone, Return
  <2>2. /\ Valid(flash, next_pp) => flash[next_pp][0].seq = next_seqnum
        /\ factory_buffer.rooted =>
              /\ Valid(flash, next_pp)
              /\ Content(flash, next_pp) = factory_buffer
    BY <2>1, DoneLeaves
  <2>3. caller # "api" => factory_buffer = EmptyImage /\ factory_buffer.rooted
    BY <1>e DEF ResetInv
  <2> QED
    BY <2>1, <2>2, <2>3 DEF ResetInv
<1>11. CASE PowerFails
  BY <1>11, <1>e DEF PowerFails, ResetInv
<1>12. CASE factory_init
  <2>0. pc = "off" /\ pc' = "idle" /\ flash' = flash /\ caller' = caller
    BY <1>12 DEF factory_init
  <2>1. caller = "api"
    BY <2>0 DEF ResetInv
  <2>2. CASE AnyValid(flash)
    <3> DEFINE c == Chosen(flash)
    <3>1. c \in Slot /\ Valid(flash, c)
      BY <2>2, <1>t, SlotIsValid
    <3>2. /\ factory_current_pp' = c /\ factory_seq_num' = flash[c][0].seq
          /\ factory_buffer' \in Loaded(flash, c)
      BY <1>12, <2>2 DEF factory_init, Adopt
    <3> HIDE DEF c
    <3>3. factory_buffer'.rooted
      BY <3>1, <3>2 DEF Loaded, WholeInv, WholeCopy
    <3> QED
      BY <2>0, <2>1, <3>2, <3>3 DEF ResetInv
  <2>3. CASE ~AnyValid(flash)
    <3>1. factory_current_pp' = factory_current_pp /\ factory_buffer' = EmptyImage
      BY <1>12, <2>3 DEF factory_init, AdoptNothing
    <3>2. ~Valid(flash, factory_current_pp)
      BY <2>3, <1>t DEF AnyValid, Slot
    <3> QED
      BY <2>0, <2>1, <3>1, <3>2, <1>e DEF ResetInv
  <2> QED
    BY <2>2, <2>3
<1>13. CASE factory_reset
  BY <1>13, <1>e DEF factory_reset, ResetInv
<1>14. ~EraseFails /\ ~WriteFails /\ ~PageRemapped /\ ~factory_init_ReadError
  BY DEF EraseFails, WriteFails, PageRemapped, factory_init_ReadError
<1>15. CASE UNCHANGED vars
  BY <1>15 DEF vars, ResetInv, next_pp
<1> QED
  BY <1>1, <1>2, <1>4, <1>5, <1>6, <1>8, <1>9, <1>10, <1>11, <1>12, <1>13, <1>14,
     <1>15 DEF Next, NextNoReset

\* Of a copy and one with the next number, and no wrap-around, the comparison
\* of factory_check_sanity picks the later one.
LEMMA LaterWins ==
    ASSUME NEW fl, NEW pp \in Slot, NEW o \in Slot, o # pp,
           NEW n \in Seq32, n + 1 \in Seq32,
           Valid(fl, o), fl[o][0].seq = n + 1,
           Valid(fl, pp) => fl[pp][0].seq = n
    PROVE  Found(fl) = Content(fl, o)
<1>1. (pp = 0 /\ o = 1) \/ (pp = 1 /\ o = 0)
  BY DEF Slot
<1>2. SeqWrap \in Nat /\ SeqWrap >= 1 /\ SeqMod \in Nat
  BY FactoryAssumption
<1>3. Newer(n, n + 1) = 1 /\ Newer(n + 1, n) = 0
  BY <1>2 DEF Newer, Seq32
<1>4. Chosen(fl) = o
  BY <1>1, <1>3 DEF Chosen
<1> QED
  BY <1>1, <1>4 DEF Found, AnyValid

-----------------------------------------------------------------------------
(* Theorems *)

\* On a medium that is erased before it is written the copies stay whole,
\* whatever happens: a copy that factory_check_sanity accepts is one archive
\* between its two headers, inside its half of the store.
THEOREM WholeInvariant ==
    ASSUME Flash # "EMMC"
    PROVE  Spec => [](TypeOK /\ WholeInv)
<1>1. Init => TypeOK /\ WholeInv
  BY TypeInit, WholeInit
<1>2. (TypeOK /\ WholeInv) /\ [Next]_vars => (TypeOK /\ WholeInv)'
  BY TypeNext, WholeNext
<1> QED
  BY <1>1, <1>2, PTL DEF Spec

\* There, the header that a save puts behind the archive "for data check" does
\* its work: no order of saves, resets, read, erase and write errors, remapped
\* blocks and power failures makes a boot accept a copy that mixes two saves.
THEOREM CopiesAreWhole ==
    ASSUME Flash # "EMMC"
    PROVE  Spec => []NoTornCopy
<1>1. WholeInv => NoTornCopy
  BY DEF WholeInv, WholeCopy, NoTornCopy
<1> QED
  BY <1>1, WholeInvariant, PTL

\* There, no step of a save, of a reset or of a boot leaves the next boot
\* anything but what it would have found before, the archive in RAM or that of
\* the current copy.
THEOREM StepsAreOldOrNew ==
    ASSUME Flash # "EMMC"
    PROVE  Spec => OldOrNew
<1>1. TypeOK /\ WholeInv /\ [Next]_vars
         => [Visible' \in {Visible, factory_buffer, Committed}]_vars
  <2> SUFFICES ASSUME TypeOK, WholeInv, [Next]_vars
               PROVE  Visible' \in {Visible, factory_buffer, Committed}
    OBVIOUS
  <2>1. CASE flash' = flash
    BY <2>1 DEF Visible
  <2>2. CASE flash' # flash
    BY <2>2, WholeNext DEF Visible
  <2> QED
    BY <2>1, <2>2
<1> QED
  BY <1>1, WholeInvariant, PTL DEF Spec, OldOrNew

\* Without faults a reset empties one copy after the other, and the boot loader
\* knows the number of its current copy except during the first save of a reset.
THEOREM ResetInvariant ==
    ASSUME Flash # "EMMC", Faults = {}
    PROVE  Spec => [](TypeOK /\ WholeInv /\ ResetInv)
<1>1. Init => TypeOK /\ WholeInv /\ ResetInv
  BY TypeInit, WholeInit, ResetInit
<1>2. (TypeOK /\ WholeInv /\ ResetInv) /\ [Next]_vars => (TypeOK /\ WholeInv /\ ResetInv)'
  BY TypeNext, WholeNext, ResetNext
<1> QED
  BY <1>1, <1>2, PTL DEF Spec

\* Without faults, when factory_reset returns both copies are valid and empty:
\* the next boot cannot bring back old files, whichever copy it takes.
THEOREM ResetEmptiesBoth ==
    ASSUME Flash # "EMMC", Faults = {}
    PROVE  Spec => ResetClearsBoth
<1> DEFINE Done == caller = "reset2" /\ caller' = "api" /\ pc' = "idle"
           Clear == \A s \in Slot : /\ Valid(flash, s)'
                                    /\ Content(flash, s)' = EmptyImage
<1>1. TypeOK /\ WholeInv /\ ResetInv /\ [Next]_vars => [Done => Clear]_vars
  <2> SUFFICES ASSUME TypeOK, WholeInv, ResetInv, [Next]_vars, Done
               PROVE  Clear
    OBVIOUS
  <2>1. SaveDone
    <3> USE DEF ram, ctl
    <3>1. caller' # caller /\ pc' = "idle" /\ caller' = "api" /\ pc # "idle"
      BY DEF ResetInv
    <3>2. \A f \in Path, d \in Data : ~factory_write(f, d)
      BY <3>1 DEF factory_write
    <3>3. \A f \in Path : ~factory_delete(f)
      BY <3>1 DEF factory_delete
    <3>4. ~factory_save /\ ~factory_save_Rejected /\ ~factory_reset
      BY <3>1 DEF factory_save, factory_save_Rejected, factory_reset
    <3>5. ~EraseUnit /\ ~WriteUnit /\ ~PageRemapped /\ ~ResetSaves
      BY <3>1 DEF EraseUnit, WriteUnit, PageRemapped, ResetSaves, BeginSave
    <3>6. ~PowerFails /\ ~factory_init /\ ~factory_init_ReadError
      BY <3>1 DEF PowerFails, factory_init, factory_init_ReadError
    <3>7. ~EraseFails /\ ~WriteFails
      BY DEF EraseFails, WriteFails
    <3>8. ~(UNCHANGED vars)
      BY <3>1 DEF vars
    <3> QED
      BY <3>2, <3>3, <3>4, <3>5, <3>6, <3>7, <3>8 DEF Next, NextNoReset
  <2>2. pc = "write" /\ pos >= total_len /\ flash' = flash
    BY <2>1 DEF SaveDone
  <2>3. factory_buffer = EmptyImage /\ EmptyImage.rooted
    BY DEF ResetInv, EmptyImage
  <2>4. Valid(flash, next_pp) /\ Content(flash, next_pp) = EmptyImage
    BY <2>2, <2>3, DoneLeaves
  <2>5. /\ Valid(flash, factory_current_pp)
        /\ Content(flash, factory_current_pp) = EmptyImage
    BY DEF ResetInv
  <2>6. Slot = {factory_current_pp, next_pp}
    BY HdrType DEF TypeOK, Slot
  <2> QED
    BY <2>2, <2>4, <2>5, <2>6
<1> QED
  BY <1>1, ResetInvariant, PTL DEF Spec, ResetClearsBoth

\* Without faults, also after resets, a save that returns 0 has made the
\* archive in RAM the one the next boot finds, as long as the sequence number
\* does not wrap around: a reset may leave the odd numbers to copy 0, and the
\* comparison of factory_check_sanity foresees a wrap from copy 1 to copy 0 only.
THEOREM SaveOkAfterReset ==
    ASSUME Flash # "EMMC", Faults = {}, RootPrefix = {}, MaxSeq < SeqMod
    PROVE  Spec => SaveOkIsVisible
<1> DEFINE Ok == /\ pc = "write" /\ pc' = "idle" /\ caller = "api"
                 /\ factory_current_pp' # factory_current_pp
<1>1. TypeOK /\ WholeInv /\ ResetInv /\ [Next]_vars
         => [Ok => Visible' = factory_buffer]_vars
  <2> SUFFICES ASSUME TypeOK, WholeInv, ResetInv, [Next]_vars, Ok
               PROVE  Visible' = factory_buffer
    OBVIOUS
  <2>1. SaveDone
    <3> USE DEF ram, ctl
    <3>2. \A f \in Path, d \in Data : ~factory_write(f, d)
      BY DEF factory_write
    <3>3. \A f \in Path : ~factory_delete(f)
      BY DEF factory_delete
    <3>4. ~factory_save /\ ~factory_save_Rejected /\ ~factory_reset
      BY DEF factory_save, factory_save_Rejected, factory_reset
    <3>5. ~EraseUnit /\ ~WriteUnit /\ ~PageRemapped /\ ~ResetSaves
      BY DEF EraseUnit, WriteUnit, PageRemapped, ResetSaves
    <3>6. ~PowerFails /\ ~factory_init /\ ~factory_init_ReadError
      BY DEF PowerFails, factory_init, factory_init_ReadError
    <3>7. ~EraseFails /\ ~WriteFails
      BY DEF EraseFails, WriteFails
    <3>8. ~(UNCHANGED vars)
      BY DEF vars
    <3> QED
      BY <3>2, <3>3, <3>4, <3>5, <3>6, <3>7, <3>8 DEF Next, NextNoReset
  <2>2. pos >= total_len /\ flash' = flash
    BY <2>1 DEF SaveDone
  <2>3. factory_buffer.rooted /\ factory_seq_num < MaxSeq
    BY DEF ResetInv
  <2>4. /\ Valid(flash, next_pp) /\ Content(flash, next_pp) = factory_buffer
        /\ flash[next_pp][0].seq = next_seqnum
    BY <2>2, <2>3, DoneLeaves
  <2>5. /\ factory_seq_num \in Seq32 /\ factory_seq_num + 1 \in Seq32
        /\ next_seqnum = factory_seq_num + 1
    <3>1. SeqMod \in Nat /\ SeqMod >= 4 /\ MaxSeq \in Nat /\ factory_seq_num \in Seq32
      BY FactoryAssumption DEF TypeOK
    <3>2. factory_seq_num + 1 \in 0..(SeqMod - 1)
      BY <2>3, <3>1 DEF Seq32
    <3> QED
      BY <3>1, <3>2 DEF next_seqnum, Seq32
  <2>6. Valid(flash, factory_current_pp) =>
           flash[factory_current_pp][0].seq = factory_seq_num
    BY DEF ResetInv
  <2>7. /\ next_pp \in Slot /\ factory_current_pp \in Slot
        /\ next_pp # factory_current_pp
    BY HdrType DEF TypeOK
  <2>8. Found(flash) = factory_buffer
    BY <2>4, <2>5, <2>6, <2>7, LaterWins
  <2> QED
    BY <2>2, <2>8 DEF Visible
<1> QED
  BY <1>1, ResetInvariant, PTL DEF Spec, SaveOkIsVisible
=============================================================================
