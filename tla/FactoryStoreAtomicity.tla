----------------------- MODULE FactoryStoreAtomicity -----------------------
(***************************************************************************)
(* The saves of the factory store are atomic for every size of the store   *)
(* and every set of files, however often the power fails:                  *)
(*   - on the media that are erased before they are written (SPI, NAND),   *)
(*     for every size of their erase units and pages, when the sequence    *)
(*     numbers wrap around and whichever erase or write reports an error;  *)
(*   - on an eMMC, which overwrites a copy in place and may write one      *)
(*     block past its end, as long as no write fails and the numbers do    *)
(*     not wrap around.                                                    *)
(* Neither holds across a factory_reset.  What saveenv and delete_env      *)
(* report can be relied on follows: a step changes what is on flash only   *)
(* to the archive of the current copy or to the one in RAM.                *)
(***************************************************************************)
EXTENDS FactoryEnv, FactoryStoreProofs

-----------------------------------------------------------------------------
(* Sequence numbers *)

LEMMA IncValue ==
    ASSUME NEW n \in Seq32
    PROVE  /\ Inc(n) \in Seq32
           /\ Inc(n) = IF n = SeqMod - 1 THEN 0 ELSE n + 1
           /\ Inc(n) % 2 = (n + 1) % 2
<1>1. SeqMod \in Nat /\ SeqMod >= 4 /\ SeqMod % 2 = 0
  BY FactoryAssumption
<1>2. Inc(n) = IF n = SeqMod - 1 THEN 0 ELSE n + 1
  <2>1. CASE n = SeqMod - 1
    BY <1>1, <2>1 DEF Inc, Seq32
  <2>2. CASE n # SeqMod - 1
    <3>1. n + 1 \in 0..(SeqMod - 1)
      BY <1>1, <2>2 DEF Seq32
    <3> QED
      BY <1>1, <2>2, <3>1 DEF Inc
  <2> QED
    BY <2>1, <2>2
<1> QED
  BY <1>1, <1>2 DEF Seq32

\* Of two numbers one save apart, the even one in copy 0 and the odd one in
\* copy 1, the comparison of factory_check_sanity picks the later, also when
\* the numbers have wrapped around.
LEMMA NewerIsLater ==
    ASSUME NEW a \in Seq32, NEW b \in Seq32, a % 2 = 0, b % 2 = 1
    PROVE  /\ b = Inc(a) => Newer(a, b) = 1
           /\ a = Inc(b) => Newer(a, b) = 0
<1>1. /\ SeqMod \in Nat /\ SeqMod >= 4 /\ SeqMod % 2 = 0
      /\ SeqWrap \in Nat /\ SeqWrap >= 1 /\ SeqWrap <= SeqMod - 2
  BY FactoryAssumption
<1>2. ASSUME b = Inc(a)
      PROVE  Newer(a, b) = 1
  <2>1. b = a + 1
    BY <1>1, <1>2, IncValue DEF Seq32
  <2> QED
    BY <1>1, <2>1 DEF Newer, Seq32
<1>3. ASSUME a = Inc(b)
      PROVE  Newer(a, b) = 0
  <2>1. \/ a = b + 1
        \/ a = 0 /\ b = SeqMod - 1
    BY <1>1, <1>3, IncValue DEF Seq32
  <2> QED
    BY <1>1, <2>1 DEF Newer, Seq32
<1> QED
  BY <1>2, <1>3

-----------------------------------------------------------------------------
(* Copies *)

\* While the copy that is not current is not valid, the next boot finds the
\* current one, or the empty archive if there is none.
LEMMA OtherInvalid ==
    ASSUME NEW fl \in FlashType, NEW gl \in FlashType,
           NEW pp \in Slot, NEW o \in Slot, o # pp, NEW n \in Seq32,
           FlashOK(fl), Agrees(fl, pp, n),
           gl[pp] = fl[pp], gl[o][0].k # "hdr" \/ gl[o][0].len < Half,
           ~Valid(gl, o)
    PROVE  /\ FlashOK(gl)
           /\ Agrees(gl, pp, n)
           /\ Valid(gl, pp) <=> Valid(fl, pp)
           /\ Valid(fl, pp) => Content(gl, pp) = Content(fl, pp)
           /\ Found(gl) = IF Valid(fl, pp) THEN Content(fl, pp) ELSE EmptyImage
<1>1. /\ HeadersInside(gl)
      /\ \A s \in Slot : WholeCopy(gl, s)
      /\ Valid(gl, pp) <=> Valid(fl, pp)
      /\ Valid(fl, pp) => Content(gl, pp) = Content(fl, pp)
      /\ Found(gl) = IF Valid(fl, pp) THEN Content(fl, pp) ELSE EmptyImage
  BY OtherGone DEF FlashOK
<1>2. Slot = {pp, o} /\ ((pp = 0 /\ o = 1) \/ (pp = 1 /\ o = 0))
  BY DEF Slot
<1>3. Parity(gl)
  BY <1>1, <1>2 DEF Parity, FlashOK
<1>4. Adjacent(gl)
  BY <1>2 DEF Adjacent
<1>5. Agrees(gl, pp, n)
  BY <1>1, <1>2 DEF Agrees
<1> QED
  BY <1>1, <1>3, <1>4, <1>5 DEF FlashOK

\* Once both headers of the archive im are in place in the copy that was not
\* current, the next boot finds im.
LEMMA OtherLands ==
    ASSUME NEW fl \in FlashType, NEW gl \in FlashType,
           NEW pp \in Slot, NEW o \in Slot, o # pp, NEW n \in Seq32,
           FlashOK(fl), Agrees(fl, pp, n), gl[pp] = fl[pp],
           NEW im \in Image, CopyOf(gl, o, Inc(n), im)
    PROVE  /\ FlashOK(gl)
           /\ Valid(gl, o)
           /\ Content(gl, o) = im
           /\ Agrees(gl, pp, n)
           /\ Agrees(gl, o, Inc(n))
           /\ Valid(gl, pp) <=> Valid(fl, pp)
           /\ Valid(fl, pp) => Content(gl, pp) = Content(fl, pp)
           /\ Chosen(gl) = o
           /\ Found(gl) = im
<1>1. Inc(n) \in Seq32
  BY IncValue
<1>2. /\ HeadersInside(gl)
      /\ \A s \in Slot : WholeCopy(gl, s)
      /\ Valid(gl, o)
      /\ Content(gl, o) = im
      /\ gl[o][0].seq = Inc(n)
      /\ Valid(gl, pp) <=> Valid(fl, pp)
      /\ Valid(fl, pp) => Content(gl, pp) = Content(fl, pp)
  BY <1>1, OtherWhole DEF FlashOK
<1>3. Slot = {pp, o} /\ ((pp = 0 /\ o = 1) \/ (pp = 1 /\ o = 0))
  BY DEF Slot
<1>4. Inc(n) % 2 = o
  BY <1>3, IncValue DEF Agrees, Seq32
<1>5. Parity(gl)
  BY <1>2, <1>3, <1>4 DEF Parity, FlashOK
<1>6. Valid(gl, pp) => gl[pp][0].seq = n
  BY <1>2 DEF Agrees
<1>7. Adjacent(gl)
  BY <1>2, <1>3, <1>6 DEF Adjacent
<1>8. Agrees(gl, pp, n)
  <2>1. CASE Valid(gl, pp)
    BY <2>1, <1>2 DEF Agrees
  <2>2. CASE ~Valid(gl, pp)
    <3>1. pp = 0 /\ n = 0 /\ o = 1
      BY <2>2, <1>2, <1>3 DEF Agrees
    <3>2. Inc(n) = 1
      BY <3>1, IncValue, Sizes
    <3> QED
      BY <2>2, <3>1, <3>2, <1>2 DEF Agrees
  <2> QED
    BY <2>1, <2>2
<1>9. Agrees(gl, o, Inc(n))
  BY <1>2, <1>4 DEF Agrees
<1>10. Chosen(gl) = o
  <2>1. CASE Valid(gl, pp)
    <3>1. gl[pp][0].seq = n /\ n % 2 = pp
      BY <2>1, <1>6 DEF Agrees
    <3>2. CASE pp = 0 /\ o = 1
      <4>1. Newer(n, Inc(n)) = 1
        BY <3>1, <3>2, <1>1, <1>4, NewerIsLater
      <4> QED
        BY <3>1, <3>2, <4>1, <2>1, <1>2 DEF Chosen
    <3>3. CASE pp = 1 /\ o = 0
      <4>1. Newer(Inc(n), n) = 0
        BY <3>1, <3>3, <1>1, <1>4, NewerIsLater
      <4> QED
        BY <3>1, <3>3, <4>1, <2>1, <1>2 DEF Chosen
    <3> QED
      BY <1>3, <3>2, <3>3
  <2>2. CASE ~Valid(gl, pp)
    BY <2>2, <1>2, <1>3 DEF Chosen
  <2> QED
    BY <2>1, <2>2
<1>11. Found(gl) = im
  BY <1>2, <1>3, <1>10 DEF Found, AnyValid
<1> QED
  BY <1>2, <1>5, <1>7, <1>8, <1>9, <1>10, <1>11 DEF FlashOK

-----------------------------------------------------------------------------
(* The invariant *)

LEMMA SaveFits ==
    ASSUME TypeOK, Flash # "EMMC", ~TooBig, factory_buffer.rooted
    PROVE  /\ total_len <= Half
           /\ factory_tarsize >= 1 /\ factory_tarsize < total_len
           /\ factory_tarsize < TarsizeLimit
<1>1. factory_tarsize > 0
  BY TarSizeType DEF TypeOK, factory_tarsize
<1> QED
  BY <1>1, ArchiveFits

LEMMA PingPongInit == Init => PingPong
<1> SUFFICES ASSUME Init
             PROVE  PingPong
  OBVIOUS
<1>1. \A s \in Slot : flash[s][0] = Blank
  BY Sizes DEF Init
<1>2. Blank.k # "hdr"
  BY DEF Blank
<1>3. \A s \in Slot : flash[s][0].k # "hdr" /\ ~Valid(flash, s)
  BY <1>1, <1>2 DEF Valid
<1>4. FlashOK(flash)
  BY <1>3 DEF FlashOK, HeadersInside, WholeCopy, Parity, Adjacent, Slot
<1> QED
  BY <1>4 DEF Init, PingPong, EmptyImage

\* What is on flash of the archive being saved, when the blocks up to p are
\* written: a copy that is not valid before the header behind the archive is
\* in place, and the archive from then on.
LEMMA Landing ==
    ASSUME TypeOK, Flash # "EMMC", factory_buffer.rooted, ~TooBig,
           header = Hdr(Inc(factory_seq_num), factory_tarsize, TRUE),
           FlashOK(flash), Agrees(flash, factory_current_pp, factory_seq_num),
           NEW fl \in FlashType, NEW p \in Nat, p >= 1,
           fl[factory_current_pp] = flash[factory_current_pp],
           \A i \in 0..(Half - 1) :
              /\ i < p => fl[next_pp][i] = BufferBlock(i)
              /\ p <= i /\ i < total_len => fl[next_pp][i] = Blank
    PROVE  /\ FlashOK(fl)
           /\ Agrees(fl, factory_current_pp, factory_seq_num)
           /\ Valid(fl, factory_current_pp) <=> Valid(flash, factory_current_pp)
           /\ Valid(fl, factory_current_pp) =>
                 Content(fl, factory_current_pp) = Content(flash, factory_current_pp)
           /\ factory_tarsize < p =>
                 /\ Valid(fl, next_pp)
                 /\ Content(fl, next_pp) = factory_buffer
                 /\ Agrees(fl, next_pp, Inc(factory_seq_num))
                 /\ Found(fl) = factory_buffer
           /\ factory_tarsize >= p =>
                 Found(fl) = IF Valid(fl, factory_current_pp)
                             THEN Content(fl, factory_current_pp) ELSE EmptyImage
<1>1. /\ factory_tarsize \in Nat /\ factory_tarsize >= 1
      /\ factory_tarsize < total_len /\ total_len <= Half
      /\ factory_tarsize < TarsizeLimit
      /\ next_pp \in Slot /\ factory_current_pp \in Slot
      /\ next_pp # factory_current_pp
      /\ factory_seq_num \in Seq32
      /\ flash \in FlashType /\ factory_buffer \in Image
      /\ total_len \in Nat
  BY SaveFits, HdrType DEF TypeOK, FlashType
<1>b. /\ BufferBlock(0) = header /\ BufferBlock(factory_tarsize) = header
      /\ \A i \in 1..(factory_tarsize - 1) : BufferBlock(i) = Body(factory_buffer, i)
  <2>1. BufferBlock(0) = header /\ BufferBlock(factory_tarsize) = header
    BY Zenon DEF BufferBlock
  <2>2. ASSUME NEW i \in 1..(factory_tarsize - 1)
        PROVE  BufferBlock(i) = Body(factory_buffer, i)
    <3>1. i # 0 /\ i # factory_tarsize /\ i < factory_tarsize
      BY <1>1
    <3> QED
      BY <3>1, Zenon DEF BufferBlock
  <2> QED
    BY <2>1, <2>2
<1>2. fl[next_pp][0] = header
  <2>1. 0 \in 0..(Half - 1) /\ 0 < p
    BY Sizes
  <2> QED
    BY <2>1, <1>b
<1>3. header.k = "hdr" /\ header.len = factory_tarsize
  BY DEF Hdr
<1>4. factory_tarsize < Half /\ factory_tarsize \in 0..(Half - 1)
  BY <1>1, Sizes
<1>5. CASE factory_tarsize < p
  <2>1. fl[next_pp][factory_tarsize] = header
    BY <1>b, <1>4, <1>5
  <2>2. \A i \in 1..(factory_tarsize - 1) : i \in 0..(Half - 1) /\ i < p
    BY <1>1, <1>4, <1>5, Sizes
  <2>3. \A i \in 1..(factory_tarsize - 1) : fl[next_pp][i] = Body(factory_buffer, i)
    BY <2>2, <1>b
  <2>4. /\ FlashOK(fl)
        /\ Valid(fl, next_pp)
        /\ Content(fl, next_pp) = factory_buffer
        /\ Agrees(fl, factory_current_pp, factory_seq_num)
        /\ Agrees(fl, next_pp, Inc(factory_seq_num))
        /\ Valid(fl, factory_current_pp) <=> Valid(flash, factory_current_pp)
        /\ Valid(flash, factory_current_pp) =>
              Content(fl, factory_current_pp) = Content(flash, factory_current_pp)
        /\ Found(fl) = factory_buffer
    <3>1. CopyOf(fl, next_pp, Inc(factory_seq_num), factory_buffer)
      BY <2>1, <2>3, <1>1, <1>2, <1>4 DEF factory_tarsize, CopyOf
    <3> QED
      BY <3>1, <1>1, OtherLands
  <2> QED
    BY <2>4, <1>1, <1>5
<1>6. CASE factory_tarsize >= p
  <2>1. fl[next_pp][factory_tarsize] = Blank
    BY <1>1, <1>4, <1>6, Sizes
  <2>2. At(fl, next_pp, factory_tarsize) # header
    <3>1. At(fl, next_pp, factory_tarsize) = Blank
      BY <2>1, <1>4 DEF At
    <3>2. Blank.k # "hdr"
      BY DEF Blank
    <3> QED
      BY <3>1, <3>2, <1>3, Zenon
  <2>3. ~Valid(fl, next_pp)
    BY <2>2, <1>2, <1>3 DEF Valid
  <2>4. fl[next_pp][0].len < Half
    BY <1>2, <1>3, <1>4
  <2> QED
    BY <2>3, <2>4, <1>1, <1>6, OtherInvalid
<1> QED
  BY <1>1, <1>5, <1>6

\* An erase takes the front header of the copy first: from then on the next
\* boot finds the current copy.
LEMMA Erasing ==
    ASSUME TypeOK, PingPong, pc = "erase"
    PROVE  /\ Erased \in FlashType
           /\ FlashOK(Erased)
           /\ Agrees(Erased, factory_current_pp, factory_seq_num)
           /\ Valid(Erased, factory_current_pp) <=> Valid(flash, factory_current_pp)
           /\ Valid(flash, factory_current_pp) =>
                 Content(Erased, factory_current_pp) = Content(flash, factory_current_pp)
           /\ Found(Erased) = Committed
           /\ \A i \in 0..(Half - 1) :
                 i < pos + Erase => Erased[next_pp][i] = Blank
<1>1. /\ next_pp \in Slot /\ factory_current_pp \in Slot
      /\ next_pp # factory_current_pp
      /\ factory_seq_num \in Seq32
      /\ flash \in FlashType /\ pos \in Nat
  BY HdrType DEF TypeOK, FlashType
<1>2. Erased \in FlashType
  BY <1>1, Sizes DEF Erased, FlashType, Cell
<1>3. Erased[factory_current_pp] = flash[factory_current_pp]
  BY <1>1 DEF Erased, FlashType
<1>4. \A i \in 0..(Half - 1) : i < pos => flash[next_pp][i] = Blank
  BY DEF PingPong, Progress
<1>5. \A i \in 0..(Half - 1) : i < pos + Erase => Erased[next_pp][i] = Blank
  BY <1>1, <1>4, Sizes DEF Erased, FlashType
<1>6. Erased[next_pp][0] = Blank
  BY <1>5, <1>1, Sizes
<1>7. Erased[next_pp][0].k # "hdr"
  BY <1>6 DEF Blank
<1>8. ~Valid(Erased, next_pp)
  BY <1>7 DEF Valid
<1> QED
  BY <1>1, <1>2, <1>3, <1>5, <1>7, <1>8, OtherInvalid DEF PingPong, Committed

LEMMA Writing ==
    ASSUME TypeOK, PingPong, Flash # "EMMC", pc = "write", pos < total_len
    PROVE  /\ Written \in FlashType
           /\ Written[factory_current_pp] = flash[factory_current_pp]
           /\ \A i \in 0..(Half - 1) :
                 /\ i < pos + Page => Written[next_pp][i] = BufferBlock(i)
                 /\ pos + Page <= i /\ i < total_len => Written[next_pp][i] = Blank
<1>1. /\ next_pp \in Slot /\ factory_current_pp \in Slot
      /\ next_pp # factory_current_pp
      /\ flash \in FlashType /\ pos \in Nat /\ total_len \in Nat
  BY HdrType DEF TypeOK, FlashType
<1>2. total_len <= Half
  BY SaveFits DEF PingPong, Progress
<1>3. pos < Half
  BY <1>1, <1>2, Sizes
<1>4. Written \in FlashType
  BY <1>1, BufferBlockType, Sizes DEF Written, FlashType
<1>5. Written[factory_current_pp] = flash[factory_current_pp]
  <2>1. \A i \in 0..(Half - 1) :
           Written[factory_current_pp][i] = flash[factory_current_pp][i]
    BY <1>1, <1>3, Sizes DEF Written
  <2>2. /\ Written[factory_current_pp] \in [0..(Half - 1) -> Cell]
        /\ flash[factory_current_pp] \in [0..(Half - 1) -> Cell]
    BY <1>1, <1>4 DEF FlashType
  <2> QED
    BY <2>1, <2>2, CopiesEqual
<1>6. \A i \in 0..(Half - 1) :
         /\ i < pos => flash[next_pp][i] = BufferBlock(i)
         /\ pos <= i /\ i < total_len => flash[next_pp][i] = Blank
  BY DEF PingPong, Progress
<1>7. \A i \in 0..(Half - 1) :
         Written[next_pp][i] = IF i >= pos /\ i < pos + Page THEN BufferBlock(i)
                               ELSE flash[next_pp][i]
  BY <1>1, <1>3 DEF Written
<1>8. \A i \in 0..(Half - 1) :
         /\ i < pos + Page => Written[next_pp][i] = BufferBlock(i)
         /\ pos + Page <= i /\ i < total_len => Written[next_pp][i] = Blank
  BY <1>1, <1>6, <1>7, Sizes
<1> QED
  BY <1>4, <1>5, <1>8

\* Every step but those of factory_reset keeps the invariant.
LEMMA PingPongNext ==
    ASSUME Flash # "EMMC", Faults \subseteq {"erase", "write"}, RootPrefix = {},
           TypeOK, PingPong, [NextNoReset]_vars
    PROVE  PingPong'
<1>u. USE DEF ram, ctl
<1>t. /\ flash \in FlashType /\ factory_buffer \in Image /\ tail \in BOOLEAN
      /\ factory_current_pp \in Slot /\ factory_seq_num \in Seq32
      /\ pos \in Nat /\ factory_tarsize \in Nat /\ total_len \in Nat
      /\ next_pp \in Slot /\ next_pp # factory_current_pp
  BY HdrType DEF TypeOK, FlashType
<1>p. /\ FlashOK(flash)
      /\ factory_buffer.rooted
      /\ pc # "reset" /\ caller = "api"
      /\ pc # "off" => Agrees(flash, factory_current_pp, factory_seq_num)
      /\ pc \in {"erase", "write"} => Progress
  BY DEF PingPong
<1>1. ASSUME NEW f \in Path, NEW d \in Data, factory_write(f, d)
      PROVE  PingPong'
  <2>1. factory_buffer'.rooted
    BY <1>1, <1>t, <1>p, TarEditType DEF factory_write
  <2> QED
    BY <1>1, <1>p, <2>1 DEF factory_write, PingPong
<1>2. ASSUME NEW f \in Path, factory_delete(f)
      PROVE  PingPong'
  <2>1. factory_buffer'.rooted
    BY <1>2, <1>t, <1>p, TarEditType DEF factory_delete
  <2> QED
    BY <1>2, <1>p, <2>1 DEF factory_delete, PingPong
<1>3. CASE factory_save
  <2>1. header' = Hdr(Inc(factory_seq_num), factory_tarsize, TRUE)
    <3>1. factory_buffer.rooted = TRUE
      BY <1>p, <1>t DEF Image
    <3>2. header' = Hdr(next_seqnum, factory_tarsize, factory_buffer.rooted)
      BY <1>3 DEF factory_save, BeginSave
    <3> QED
      BY <3>1, <3>2, Zenon DEF next_seqnum, Inc
  <2>2. /\ pc' = "erase" /\ pos' = 0 /\ caller' = "api" /\ ~TooBig /\ pc = "idle"
        /\ UNCHANGED <<flash, factory_buffer, factory_current_pp, factory_seq_num>>
    BY <1>3 DEF factory_save, BeginSave
  <2>3. Progress'
    BY <2>1, <2>2 DEF Progress, TooBig, factory_tarsize, total_len
  <2> QED
    BY <1>p, <2>2, <2>3 DEF PingPong
<1>4. CASE factory_save_Rejected
  BY <1>4, <1>p DEF factory_save_Rejected, PingPong
<1>5. CASE EraseUnit
  <2>1. /\ pc = "erase" /\ flash' = Erased /\ caller' = caller
        /\ UNCHANGED <<factory_buffer, header, factory_current_pp, factory_seq_num>>
    BY <1>5 DEF EraseUnit
  <2>2. /\ FlashOK(flash')
        /\ Agrees(flash', factory_current_pp, factory_seq_num)
        /\ \A i \in 0..(Half - 1) : i < pos + Erase => flash'[next_pp][i] = Blank
    BY <2>1, Erasing
  <2>3. header' = Hdr(Inc(factory_seq_num'), factory_tarsize', TRUE) /\ ~TooBig'
    BY <2>1, <1>p DEF Progress, TooBig, factory_tarsize, total_len
  <2>4. next_pp' = next_pp /\ total_len' = total_len
    BY <2>1 DEF next_pp, total_len, factory_tarsize
  <2>5. CASE pos + Erase < total_len
    <3>1. pos' = pos + Erase /\ pc' = "erase"
      BY <1>5, <2>1, <2>5 DEF EraseUnit
    <3>2. Progress'
      BY <3>1, <2>2, <2>3, <2>4 DEF Progress
    <3> QED
      BY <3>1, <3>2, <2>1, <2>2, <1>p DEF PingPong
  <2>6. CASE ~(pos + Erase < total_len)
    <3>1. pos' = 0 /\ pc' = "write"
      BY <1>5, <2>6 DEF EraseUnit
    <3>2. \A i \in 0..(Half - 1) : i < total_len => flash'[next_pp][i] = Blank
      BY <2>2, <2>6, <1>t, Sizes
    <3>3. Progress'
      BY <3>1, <3>2, <2>3, <2>4 DEF Progress
    <3> QED
      BY <3>1, <3>3, <2>1, <2>2, <1>p DEF PingPong
  <2> QED
    BY <2>5, <2>6
<1>6. CASE WriteUnit
  <2>1. /\ pc = "write" /\ pos < total_len /\ flash' = Written /\ pos' = pos + Page
        /\ pc' = pc /\ caller' = caller
        /\ UNCHANGED <<factory_buffer, header, header2, factory_current_pp,
                       factory_seq_num>>
    BY <1>6 DEF WriteUnit
  <2>2. /\ flash' \in FlashType
        /\ flash'[factory_current_pp] = flash[factory_current_pp]
        /\ \A i \in 0..(Half - 1) :
              /\ i < pos + Page => flash'[next_pp][i] = BufferBlock(i)
              /\ pos + Page <= i /\ i < total_len => flash'[next_pp][i] = Blank
    BY <2>1, Writing
  <2>3. /\ header = Hdr(Inc(factory_seq_num), factory_tarsize, TRUE) /\ ~TooBig
    BY <2>1, <1>p DEF Progress
  <2>4. pos + Page \in Nat /\ pos + Page >= 1
    BY <1>t, Sizes
  <2>5. /\ FlashOK(flash')
        /\ Agrees(flash', factory_current_pp, factory_seq_num)
    BY <2>1, <2>2, <2>3, <2>4, <1>p, Landing
  <2>6. /\ next_pp' = next_pp /\ total_len' = total_len
        /\ factory_tarsize' = factory_tarsize /\ TooBig' = TooBig
        /\ \A i \in 0..(Half - 1) : BufferBlock(i)' = BufferBlock(i)
    BY <2>1 DEF next_pp, total_len, factory_tarsize, TooBig, BufferBlock
  <2>7. Progress'
    BY <2>1, <2>2, <2>3, <2>6 DEF Progress
  <2> QED
    BY <2>1, <2>5, <2>7, <1>p DEF PingPong
<1>7. CASE SaveDone
  <2>1. /\ pc = "write" /\ pos >= total_len /\ pc' = "idle" /\ caller' = "api"
        /\ factory_current_pp' = next_pp /\ factory_seq_num' = Inc(factory_seq_num)
        /\ UNCHANGED <<flash, factory_buffer>>
    BY <1>7, <1>p DEF SaveDone, Return, next_seqnum, Inc
  <2>2. /\ header = Hdr(Inc(factory_seq_num), factory_tarsize, TRUE) /\ ~TooBig
        /\ \A i \in 0..(Half - 1) :
              /\ i < pos => flash[next_pp][i] = BufferBlock(i)
              /\ pos <= i /\ i < total_len => flash[next_pp][i] = Blank
    BY <2>1, <1>p DEF Progress
  <2>3. pos >= 1 /\ factory_tarsize < pos
    BY <1>t, <2>1, Sizes DEF total_len
  <2>4. Agrees(flash, next_pp, Inc(factory_seq_num))
    BY <2>1, <2>2, <2>3, <1>t, <1>p, Landing
  <2> QED
    BY <2>1, <2>4, <1>p DEF PingPong
<1>8. CASE EraseFails
  <2>1. /\ pc = "erase" /\ pc' = "idle" /\ caller' = "api"
        /\ flash' = flash \/ flash' = Erased
        /\ UNCHANGED <<factory_buffer, factory_current_pp, factory_seq_num>>
    BY <1>8, <1>p DEF EraseFails, Return
  <2>2. FlashOK(flash') /\ Agrees(flash', factory_current_pp, factory_seq_num)
    BY <2>1, <1>p, Erasing
  <2> QED
    BY <2>1, <2>2, <1>p DEF PingPong
<1>9. CASE WriteFails
  <2>1. /\ pc = "write" /\ pc' = "idle" /\ caller' = "api"
        /\ UNCHANGED <<flash, factory_buffer, factory_current_pp, factory_seq_num>>
    BY <1>9, <1>p DEF WriteFails, Return
  <2> QED
    BY <2>1, <1>p DEF PingPong
<1>10. CASE PowerFails
  BY <1>10, <1>p DEF PowerFails, PingPong, EmptyImage
<1>11. CASE factory_init
  <2>0. pc = "off" /\ pc' = "idle" /\ flash' = flash /\ caller' = "api"
    BY <1>11, <1>p DEF factory_init
  <2>1. CASE AnyValid(flash)
    <3> DEFINE c == Chosen(flash)
    <3>1. c \in Slot /\ Valid(flash, c)
      BY <2>1, <1>t, SlotIsValid
    <3>2. /\ factory_current_pp' = c /\ factory_seq_num' = flash[c][0].seq
          /\ factory_buffer' \in Loaded(flash, c)
      BY <1>11, <2>1 DEF factory_init, Adopt
    <3> HIDE DEF c
    <3>3. Intact(flash, c) /\ Content(flash, c).rooted /\ flash[c][0].seq % 2 = c
      BY <3>1, <1>p DEF FlashOK, WholeCopy, Parity
    <3>4. factory_buffer' = Content(flash, c)
      BY <3>2, <3>3 DEF Loaded
    <3>5. Agrees(flash, c, flash[c][0].seq)
      BY <3>1, <3>3 DEF Agrees
    <3> QED
      BY <2>0, <3>2, <3>3, <3>4, <3>5, <1>p DEF PingPong
  <2>2. CASE ~AnyValid(flash)
    <3>1. /\ factory_current_pp' = 0 /\ factory_seq_num' = 0
          /\ factory_buffer' = EmptyImage
      BY <1>11, <2>2, <2>0 DEF factory_init, AdoptNothing, PingPong
    <3>2. Agrees(flash, 0, 0)
      BY <2>2 DEF Agrees, AnyValid
    <3> QED
      BY <2>0, <3>1, <3>2, <1>p DEF PingPong, EmptyImage
  <2> QED
    BY <2>1, <2>2
<1>12. ~PageRemapped /\ ~factory_init_ReadError
  BY DEF PageRemapped, factory_init_ReadError
<1>13. CASE UNCHANGED vars
  <2>1. Progress' = Progress
    BY <1>13 DEF vars, Progress, TooBig, factory_tarsize, total_len, next_pp,
                 BufferBlock
  <2> QED
    BY <1>13, <2>1, <1>p DEF vars, PingPong
<1> QED
  BY <1>1, <1>2, <1>3, <1>4, <1>5, <1>6, <1>7, <1>8, <1>9, <1>10, <1>11, <1>12,
     <1>13 DEF NextNoReset

-----------------------------------------------------------------------------
(* The detailed store implements the atomic one *)

LEMMA StoreInit == Init => Store!Init
<1> SUFFICES ASSUME Init
             PROVE  Store!Init
  OBVIOUS
<1>1. \A s \in Slot : flash[s][0] = Blank
  BY Sizes DEF Init
<1>2. Blank.k # "hdr"
  BY DEF Blank
<1>3. ~Valid(flash, 0) /\ ~Valid(flash, 1)
  BY <1>1, <1>2 DEF Valid, Slot
<1>4. Visible = EmptyImage
  BY <1>3 DEF Visible, Found, AnyValid
<1> QED
  BY <1>4 DEF Init, Store!Init

\* A save that returns 0 succeeds, and a boot finds what is visible.
LEMMA DoneSucceeds ==
    ASSUME Flash # "EMMC", Faults \subseteq {"erase", "write"}, RootPrefix = {},
           TypeOK, PingPong, SaveDone
    PROVE  Store!Succeed
<1>u. USE DEF ram, ctl, Visible
<1>t. /\ flash \in FlashType /\ factory_buffer \in Image
      /\ factory_seq_num \in Seq32
      /\ pos \in Nat /\ factory_tarsize \in Nat /\ total_len \in Nat
  BY HdrType DEF TypeOK, FlashType
<1>p. /\ FlashOK(flash)
      /\ factory_buffer.rooted
      /\ pc # "reset" /\ caller = "api"
      /\ pc # "off" => Agrees(flash, factory_current_pp, factory_seq_num)
      /\ pc \in {"erase", "write"} => Progress
  BY DEF PingPong
<1>c. Committed' = IF Valid(flash', factory_current_pp')
                   THEN Content(flash', factory_current_pp') ELSE EmptyImage
  BY DEF Committed
<1>1. /\ pc = "write" /\ pos >= total_len /\ pc' = "idle"
      /\ factory_current_pp' = next_pp
      /\ UNCHANGED <<flash, factory_buffer>>
  BY <1>p DEF SaveDone, Return
<1>2. /\ header = Hdr(Inc(factory_seq_num), factory_tarsize, TRUE) /\ ~TooBig
      /\ \A i \in 0..(Half - 1) :
            /\ i < pos => flash[next_pp][i] = BufferBlock(i)
            /\ pos <= i /\ i < total_len => flash[next_pp][i] = Blank
  BY <1>1, <1>p DEF Progress
<1>3. pos >= 1 /\ factory_tarsize < pos
  BY <1>t, <1>1, Sizes DEF total_len
<1>4. /\ Valid(flash, next_pp) /\ Content(flash, next_pp) = factory_buffer
      /\ Found(flash) = factory_buffer
  BY <1>1, <1>2, <1>3, <1>t, <1>p, Landing
<1>5. Committed' = factory_buffer
  BY <1>1, <1>4, <1>c
<1> QED
  BY <1>1, <1>4, <1>5 DEF Store!Succeed

LEMMA InitBoots ==
    ASSUME Flash # "EMMC", Faults \subseteq {"erase", "write"}, RootPrefix = {},
           TypeOK, PingPong, factory_init
    PROVE  Store!Boot
<1>u. USE DEF ram, ctl, Visible
<1>t. /\ flash \in FlashType /\ factory_buffer \in Image
      /\ factory_seq_num \in Seq32
      /\ pos \in Nat /\ factory_tarsize \in Nat /\ total_len \in Nat
  BY HdrType DEF TypeOK, FlashType
<1>p. /\ FlashOK(flash)
      /\ factory_buffer.rooted
      /\ pc # "reset" /\ caller = "api"
      /\ pc # "off" => Agrees(flash, factory_current_pp, factory_seq_num)
      /\ pc \in {"erase", "write"} => Progress
  BY DEF PingPong
<1>c. Committed' = IF Valid(flash', factory_current_pp')
                   THEN Content(flash', factory_current_pp') ELSE EmptyImage
  BY DEF Committed
<1>0. pc = "off" /\ pc' = "idle" /\ flash' = flash
  BY DEF factory_init
<1>1. CASE AnyValid(flash)
  <2> DEFINE c == Chosen(flash)
  <2>1. /\ c \in Slot /\ Valid(flash, c)
        /\ Found(flash) = Content(flash, c)
    BY <1>1, <1>t, SlotIsValid DEF Found
  <2>2. factory_current_pp' = c /\ factory_buffer' \in Loaded(flash, c)
    BY <1>1 DEF factory_init, Adopt
  <2> HIDE DEF c
  <2>3. factory_buffer' = Content(flash, c)
    BY <2>1, <2>2, <1>p DEF Loaded, FlashOK, WholeCopy
  <2>4. Committed' = Content(flash, c)
    BY <1>0, <2>1, <2>2, <1>c
  <2> QED
    BY <1>0, <2>1, <2>3, <2>4 DEF Store!Boot
<1>2. CASE ~AnyValid(flash)
  <2>1. factory_current_pp' = 0 /\ factory_buffer' = EmptyImage
    BY <1>2, <1>0 DEF factory_init, AdoptNothing, PingPong
  <2>2. Found(flash) = EmptyImage /\ Committed' = EmptyImage
    BY <1>0, <1>2, <2>1, <1>c DEF Found, AnyValid
  <2> QED
    BY <1>0, <2>1, <2>2 DEF Store!Boot
<1> QED
  BY <1>1, <1>2

LEMMA StoreNext ==
    ASSUME Flash # "EMMC", Faults \subseteq {"erase", "write"}, RootPrefix = {},
           TypeOK, PingPong, [NextNoReset]_vars
    PROVE  [Store!Next]_(Store!vars)
<1>u. USE DEF ram, ctl, Visible
<1>t. /\ flash \in FlashType /\ factory_buffer \in Image /\ tail \in BOOLEAN
      /\ factory_current_pp \in Slot /\ factory_seq_num \in Seq32
      /\ pos \in Nat /\ factory_tarsize \in Nat /\ total_len \in Nat
      /\ next_pp \in Slot /\ next_pp # factory_current_pp
  BY HdrType DEF TypeOK, FlashType
<1>p. /\ FlashOK(flash)
      /\ factory_buffer.rooted
      /\ pc # "reset" /\ caller = "api"
      /\ pc # "off" => Agrees(flash, factory_current_pp, factory_seq_num)
      /\ pc \in {"erase", "write"} => Progress
  BY DEF PingPong
<1>c. Committed' = IF Valid(flash', factory_current_pp')
                   THEN Content(flash', factory_current_pp') ELSE EmptyImage
  BY DEF Committed
<1>s. flash' = flash /\ factory_current_pp' = factory_current_pp
         => Committed' = Committed
  BY DEF Committed
<1>1. ASSUME NEW f \in Path, NEW d \in Data, factory_write(f, d)
      PROVE  Store!Edit
  <2>1. factory_buffer' \in Image
    BY <1>1, <1>t, TarEditType DEF factory_write
  <2> QED
    BY <1>1, <1>s, <2>1 DEF factory_write, Store!Edit
<1>2. ASSUME NEW f \in Path, factory_delete(f)
      PROVE  Store!Edit
  <2>1. factory_buffer' \in Image
    BY <1>2, <1>t, TarEditType DEF factory_delete
  <2> QED
    BY <1>2, <1>s, <2>1 DEF factory_delete, Store!Edit
<1>3. CASE factory_save
  <2>1. Store!Begin
    BY <1>3, <1>s DEF factory_save, BeginSave, Store!Begin
  <2> QED
    BY <2>1 DEF Store!Next
<1>4. CASE factory_save_Rejected
  BY <1>4, <1>s DEF factory_save_Rejected, Store!vars
<1>5. ASSUME pc = "erase", flash' = Erased,
             UNCHANGED <<factory_buffer, factory_current_pp, factory_seq_num>>,
             pc' \in {"erase", "write", "idle"}
      PROVE  Store!Discard
  <2>1. Found(flash') = Committed /\ Committed' = Committed
    BY <1>5, <1>c, Erasing DEF Committed
  <2>2. pc # "off" /\ pc' # "off"
    BY <1>5
  <2>3. (pc' \in {"erase", "write"}) \in BOOLEAN /\ pc \in {"erase", "write"}
    BY <1>5
  <2> QED
    BY <1>5, <2>1, <2>2, <2>3 DEF Store!Discard
<1>6. CASE EraseUnit
  <2>1. Store!Discard
    BY <1>5, <1>6 DEF EraseUnit
  <2> QED
    BY <2>1 DEF Store!Next
<1>7. CASE EraseFails
  <2>1. pc' = "idle"
    BY <1>7, <1>p DEF EraseFails, Return
  <2>2. CASE flash' = flash
    <3>1. Store!Fail
      BY <1>7, <1>s, <2>1, <2>2 DEF EraseFails, Store!Fail
    <3> QED
      BY <3>1 DEF Store!Next
  <2>3. CASE flash' = Erased
    <3>1. Store!Discard
      BY <1>5, <1>7, <2>1, <2>3 DEF EraseFails
    <3> QED
      BY <3>1 DEF Store!Next
  <2> QED
    BY <1>7, <2>2, <2>3 DEF EraseFails
<1>8. CASE WriteUnit
  <2>1. /\ pc = "write" /\ pos < total_len /\ flash' = Written /\ pc' = pc
        /\ UNCHANGED <<factory_buffer, factory_current_pp, factory_seq_num>>
    BY <1>8 DEF WriteUnit
  <2>2. /\ flash' \in FlashType
        /\ flash'[factory_current_pp] = flash[factory_current_pp]
        /\ \A i \in 0..(Half - 1) :
              /\ i < pos + Page => flash'[next_pp][i] = BufferBlock(i)
              /\ pos + Page <= i /\ i < total_len => flash'[next_pp][i] = Blank
    BY <2>1, Writing
  <2>3. /\ header = Hdr(Inc(factory_seq_num), factory_tarsize, TRUE) /\ ~TooBig
        /\ \A i \in 0..(Half - 1) :
              /\ i < pos => flash[next_pp][i] = BufferBlock(i)
              /\ pos <= i /\ i < total_len => flash[next_pp][i] = Blank
    BY <2>1, <1>p DEF Progress
  <2>4. pos + Page \in Nat /\ pos + Page >= 1
    BY <1>t, Sizes
  <2>5. /\ Valid(flash', factory_current_pp) <=> Valid(flash, factory_current_pp)
        /\ Valid(flash', factory_current_pp) =>
              Content(flash', factory_current_pp) = Content(flash, factory_current_pp)
        /\ factory_tarsize < pos + Page => Found(flash') = factory_buffer
        /\ factory_tarsize >= pos + Page =>
              Found(flash') = IF Valid(flash', factory_current_pp)
                              THEN Content(flash', factory_current_pp)
                              ELSE EmptyImage
    BY <2>1, <2>2, <2>3, <2>4, <1>p, Landing
  <2>6. Committed' = Committed
    BY <2>1, <2>5, <1>c DEF Committed
  <2>7. CASE factory_tarsize < pos + Page
    <3>1. Store!Land
      BY <2>1, <2>5, <2>6, <2>7 DEF Store!Land
    <3> QED
      BY <3>1 DEF Store!Next
  <2>8. CASE factory_tarsize >= pos + Page
    <3>1. Store!Discard
      BY <2>1, <2>5, <2>6, <2>8, <1>c DEF Store!Discard
    <3> QED
      BY <3>1 DEF Store!Next
  <2> QED
    BY <1>t, <2>4, <2>7, <2>8
<1>9. CASE SaveDone
  BY <1>9, DoneSucceeds DEF Store!Next
<1>10. CASE WriteFails
  <2>1. Store!Fail
    BY <1>10, <1>p, <1>s DEF WriteFails, Return, Store!Fail
  <2> QED
    BY <2>1 DEF Store!Next
<1>11. CASE PowerFails
  <2>1. Store!PowerLoss
    BY <1>11 DEF PowerFails, Store!PowerLoss
  <2> QED
    BY <2>1 DEF Store!Next
<1>12. CASE factory_init
  BY <1>12, InitBoots DEF Store!Next
<1>13. ~PageRemapped /\ ~factory_init_ReadError
  BY DEF PageRemapped, factory_init_ReadError
<1>14. CASE UNCHANGED vars
  BY <1>14, <1>s DEF vars, Store!vars
<1> QED
  BY <1>1, <1>2, <1>3, <1>4, <1>6, <1>7, <1>8, <1>9, <1>10, <1>11, <1>12, <1>13,
     <1>14 DEF NextNoReset, Store!Next

-----------------------------------------------------------------------------
(* Theorems for the media that are erased first *)

\* On a medium that is erased before it is written, and as long as
\* factory_reset is not used, the two ping-pong copies of the store stay whole,
\* one save apart, and known to the running boot loader, whatever power
\* failures, erase errors and write errors happen (factorylib.c).
THEOREM PingPongInvariant ==
    ASSUME Flash # "EMMC", Faults \subseteq {"erase", "write"}, RootPrefix = {}
    PROVE  SpecNoReset => [](TypeOK /\ PingPong)
<1>1. Init => TypeOK /\ PingPong
  BY TypeInit, PingPongInit
<1>2. (TypeOK /\ PingPong) /\ [NextNoReset]_vars => (TypeOK /\ PingPong)'
  <2>1. [NextNoReset]_vars => [Next]_vars
    BY DEF Next
  <2> QED
    BY <2>1, TypeNext, PingPongNext
<1> QED
  BY <1>1, <1>2, PTL DEF SpecNoReset

\* There, the store implements AtomicStore: at every moment the next boot finds
\* the archive of the last save that succeeded or of one that failed since,
\* never anything else, and always that of a save that has just returned 0.
THEOREM AtomicSaves ==
    ASSUME Flash # "EMMC", Faults \subseteq {"erase", "write"}, RootPrefix = {}
    PROVE  SpecNoReset => SavesAreAtomic
<1>1. Init => Store!Init
  BY StoreInit
<1>2. TypeOK /\ PingPong /\ [NextNoReset]_vars => [Store!Next]_(Store!vars)
  BY StoreNext
<1>3. SpecNoReset => [](TypeOK /\ PingPong)
  BY PingPongInvariant
<1> QED
  BY <1>1, <1>2, <1>3, PTL DEF SpecNoReset, SavesAreAtomic, Store!Spec

\* There, a save that takes its success path has made the archive in RAM the
\* one the next boot finds, also when the sequence number wraps around.
THEOREM SaveOkAfterFaults ==
    ASSUME Flash # "EMMC", Faults \subseteq {"erase", "write"}, RootPrefix = {}
    PROVE  SpecNoReset => SaveOkIsVisible
<1> DEFINE Ok == /\ pc = "write" /\ pc' = "idle" /\ caller = "api"
                 /\ factory_current_pp' # factory_current_pp
<1>1. TypeOK /\ PingPong /\ [NextNoReset]_vars => [Ok => Visible' = factory_buffer]_vars
  <2> SUFFICES ASSUME TypeOK, PingPong, [NextNoReset]_vars, Ok
               PROVE  Visible' = factory_buffer
    OBVIOUS
  <2>1. SaveDone
    <3> USE DEF ram, ctl
    <3>2. \A f \in Path, d \in Data : ~factory_write(f, d)
      BY DEF factory_write
    <3>3. \A f \in Path : ~factory_delete(f)
      BY DEF factory_delete
    <3>4. ~factory_save /\ ~factory_save_Rejected
      BY DEF factory_save, factory_save_Rejected
    <3>5. ~EraseUnit /\ ~WriteUnit /\ ~PageRemapped
      BY DEF EraseUnit, WriteUnit, PageRemapped
    <3>6. ~PowerFails /\ ~factory_init /\ ~factory_init_ReadError
      BY DEF PowerFails, factory_init, factory_init_ReadError
    <3>7. ~EraseFails /\ ~WriteFails
      BY DEF EraseFails, WriteFails
    <3>8. ~(UNCHANGED vars)
      BY DEF vars
    <3> QED
      BY <3>2, <3>3, <3>4, <3>5, <3>6, <3>7, <3>8 DEF NextNoReset
  <2>2. Store!Succeed
    BY <2>1, DoneSucceeds
  <2> QED
    BY <2>2 DEF Store!Succeed
<1> QED
  BY <1>1, PingPongInvariant, PTL DEF SpecNoReset, SaveOkIsVisible

-----------------------------------------------------------------------------
(* eMMC *)

\* The instances that the proofs from here on are about: the NAS build of the boot loader
\* on an eMMC that reports no errors.
Emmc == /\ Flash = "EMMC" /\ Faults = {}
        /\ RootPrefix = {} /\ NAS
        /\ MaxSeq < SeqMod

-----------------------------------------------------------------------------
(* The size of an archive *)

LEMMA EmptySize == tar_size(EmptyImage) = 1
<1>1. tar_blocks(EmptyImage) = {}
  BY DEF tar_blocks, EmptyImage
<1>2. Cardinality(tar_blocks(EmptyImage)) = 0
  BY <1>1, FS_EmptySet
<1>3. EmptyImage.rooted = TRUE /\ EmptyImage.dups = 0
  BY DEF EmptyImage
<1> QED
  BY <1>2, <1>3 DEF tar_size

\* Deleting makes an archive no longer, and adding a file makes it longer by
\* its header and its data at most (NAS build).
LEMMA TarEditSize ==
    ASSUME NAS, NEW im \in Image, NEW f \in Path, NEW t \in BOOLEAN, im.rooted
    PROVE  /\ tar_size(tar_delete(im, f, t)) <= tar_size(im)
           /\ \A d \in Data :
                 tar_size(tar_add(im, f, d, t)) <= tar_size(im) + 1 + Blocks[d]
<1>1. /\ IsFiniteSet(tar_blocks(im)) /\ Cardinality(tar_blocks(im)) \in Nat
      /\ im.dups \in Nat
  BY TarSizeType, FS_CardinalityType DEF Image
<1>2. tar_size(im) = 1 + Cardinality(tar_blocks(im)) + im.dups
  BY DEF tar_size
<1>3. tar_size(tar_delete(im, f, t)) <= tar_size(im)
  <2> DEFINE im2 == tar_delete(im, f, t)
  <2>1. im2.dups = 0
    BY DEF tar_delete, Unmatched
  <2>2. tar_blocks(im2) \subseteq tar_blocks(im)
    BY DEF tar_blocks, tar_delete, Unmatched
  <2>3. im2 \in Image
    BY TarEditType
  <2> HIDE DEF im2
  <2>4. Cardinality(tar_blocks(im2)) <= Cardinality(tar_blocks(im))
    BY <1>1, <2>2, FS_Subset
  <2>5. Cardinality(tar_blocks(im2)) \in Nat
    BY <2>3, TarSizeType, FS_CardinalityType
  <2>6. tar_size(im2) <= 1 + Cardinality(tar_blocks(im2))
    BY <2>1, <2>5 DEF tar_size
  <2>7. tar_size(im2) \in Nat
    BY <2>3, TarSizeType
  <2>8. tar_size(im2) <= tar_size(im)
    BY <1>1, <1>2, <2>4, <2>5, <2>6, <2>7
  <2> QED
    BY <2>8 DEF im2
<1>4. ASSUME NEW d \in Data
      PROVE  tar_size(tar_add(im, f, d, t)) <= tar_size(im) + 1 + Blocks[d]
  <2> DEFINE im2 == tar_add(im, f, d, t)
             new == {f} \X (0..Blocks[d])
  <2>0. Blocks[d] \in Nat /\ Blocks[d] <= MaxBlocks
    BY TarAssumption
  <2>1. im2.dups = 0 /\ im2 \in Image
    BY TarEditType DEF tar_add, Unmatched
  <2>2. \A n \in Path : im2.files[n] = IF n = f THEN d
                                       ELSE IF <<f, n>> \in Prefix THEN NoFile
                                       ELSE im.files[n]
    BY DEF tar_add, Unmatched
  <2> HIDE DEF im2
  <2>3. tar_blocks(im2) \subseteq tar_blocks(im) \cup new
    <3> SUFFICES ASSUME NEW b \in tar_blocks(im2), b \notin tar_blocks(im)
                 PROVE  b \in new
      OBVIOUS
    <3>1. /\ b \in Path \X (0..MaxBlocks) /\ im2.files[b[1]] # NoFile
          /\ b[2] <= Blocks[im2.files[b[1]]]
      BY DEF tar_blocks
    <3>2. b[1] \in Path /\ b[2] \in 0..MaxBlocks /\ b = <<b[1], b[2]>>
      BY <3>1
    <3>3. CASE b[1] = f
      <4>1. im2.files[b[1]] = d
        BY <2>2, <3>2, <3>3
      <4>2. b[2] \in 0..Blocks[d]
        BY <2>0, <3>1, <3>2, <4>1
      <4> QED
        BY <3>2, <3>3, <4>2
    <3>4. CASE b[1] # f
      <4>1. im2.files[b[1]] = im.files[b[1]]
        BY <2>2, <3>1, <3>2, <3>4
      <4> QED
        BY <3>1, <4>1 DEF tar_blocks
    <3> QED
      BY <3>3, <3>4
  <2>4. IsFiniteSet(new) /\ Cardinality(new) = 1 + Blocks[d]
    <3>1. IsFiniteSet({f}) /\ Cardinality({f}) = 1
      BY FS_Singleton
    <3>2. IsFiniteSet(0..Blocks[d]) /\ Cardinality(0..Blocks[d]) = Blocks[d] + 1
      BY <2>0, FS_Interval
    <3>3. IsFiniteSet(new) /\ Cardinality(new) = Cardinality({f}) * Cardinality(0..Blocks[d])
      BY <3>1, <3>2, FS_Product, Zenon
    <3> QED
      BY <2>0, <3>1, <3>2, <3>3
  <2> HIDE DEF new
  <2>5. /\ IsFiniteSet(tar_blocks(im) \cup new)
        /\ Cardinality(tar_blocks(im) \cup new)
              <= Cardinality(tar_blocks(im)) + 1 + Blocks[d]
    <3>1. IsFiniteSet(tar_blocks(im) \cup new) /\ IsFiniteSet(tar_blocks(im) \cap new)
      BY <1>1, <2>4, FS_Union, FS_Intersection
    <3>2. Cardinality(tar_blocks(im) \cup new) =
             Cardinality(tar_blocks(im)) + Cardinality(new)
               - Cardinality(tar_blocks(im) \cap new)
      BY <1>1, <2>4, FS_Union
    <3>3. Cardinality(tar_blocks(im) \cap new) \in Nat
      BY <3>1, FS_CardinalityType
    <3> QED
      BY <1>1, <2>0, <2>4, <3>1, <3>2, <3>3
  <2>6. Cardinality(tar_blocks(im2)) <= Cardinality(tar_blocks(im) \cup new)
    BY <2>3, <2>5, FS_Subset
  <2>7. /\ Cardinality(tar_blocks(im2)) \in Nat
        /\ Cardinality(tar_blocks(im) \cup new) \in Nat
        /\ tar_size(im2) \in Nat
    BY <2>1, <2>5, TarSizeType, FS_CardinalityType
  <2>8. tar_size(im2) <= 1 + Cardinality(tar_blocks(im2))
    BY <2>1, <2>7 DEF tar_size
  <2>9. tar_size(im2) <= tar_size(im) + 1 + Blocks[d]
    BY <1>1, <1>2, <2>0, <2>5, <2>6, <2>7, <2>8
  <2> QED
    BY <2>9 DEF im2
<1> QED
  BY <1>3, <1>4

-----------------------------------------------------------------------------
(* One block of a save *)

\* While the copy that is not current is not valid, a boot takes the current
\* number, or none.
LEMMA GoneSeq ==
    ASSUME NEW fl, NEW pp \in Slot, NEW o \in Slot, o # pp, NEW n \in Seq32,
           Agrees(fl, pp, n), ~Valid(fl, o)
    PROVE  CurrentSeq(fl) = n
<1>1. (pp = 0 /\ o = 1) \/ (pp = 1 /\ o = 0)
  BY DEF Slot
<1> QED
  BY <1>1 DEF CurrentSeq, AnyValid, Chosen, Agrees

\* What a save in progress knows.
LEMMA OverwriteKnows ==
    ASSUME Emmc, TypeOK, EmmcInv, pc = "write"
    PROVE  /\ factory_tarsize \in Nat /\ factory_tarsize >= 1
           /\ factory_tarsize + 2 <= Half
           /\ total_len = factory_tarsize + 3
           /\ factory_tarsize < TarsizeLimit
           /\ next_pp \in Slot /\ factory_current_pp \in Slot
           /\ next_pp # factory_current_pp
           /\ factory_seq_num \in Seq32
           /\ Inc(factory_seq_num) = factory_seq_num + 1
           /\ Inc(factory_seq_num) \in Seq32
           /\ flash \in FlashType /\ factory_buffer \in Image /\ pos \in Nat
           /\ header.k = "hdr" /\ header.len = factory_tarsize
           /\ header.seq = Inc(factory_seq_num)
           /\ Overwriting
<1>1. Overwriting /\ factory_buffer.rooted /\ factory_tarsize + Padding <= Half
  BY DEF EmmcInv
<1>2. Padding = 2
  BY DEF Emmc, Padding
<1>3. factory_tarsize \in Nat /\ factory_tarsize >= 1
  BY <1>1, TarSizeType DEF TypeOK, factory_tarsize
<1>4. Inc(factory_seq_num) = factory_seq_num + 1 /\ Inc(factory_seq_num) \in Seq32
  <2>1. factory_seq_num \in Seq32 /\ MaxSeq \in Nat /\ SeqMod \in Nat
    BY FactoryAssumption DEF TypeOK
  <2>2. factory_seq_num < SeqMod - 1
    BY <1>1, <2>1 DEF Overwriting, Emmc, Seq32
  <2> QED
    BY <2>1, <2>2, IncValue DEF Seq32
<1>5. TarsizeLimit = Half - 1
  BY DEF TarsizeLimit, Emmc
<1>6. /\ header.k = "hdr" /\ header.len = factory_tarsize
      /\ header.seq = Inc(factory_seq_num)
  BY <1>1 DEF Overwriting, Hdr
<1>7. total_len = factory_tarsize + 3
  BY <1>2, <1>3 DEF total_len
<1>8. factory_tarsize + 2 <= Half /\ factory_tarsize < TarsizeLimit
  BY <1>1, <1>2, <1>3, <1>5, Sizes
<1>9. /\ next_pp \in Slot /\ factory_current_pp \in Slot
      /\ next_pp # factory_current_pp
      /\ factory_seq_num \in Seq32
      /\ flash \in FlashType /\ factory_buffer \in Image /\ pos \in Nat
  BY HdrType DEF TypeOK, FlashType
<1> QED
  BY <1>1, <1>3, <1>4, <1>6, <1>7, <1>8, <1>9

LEMMA OverwriteBlocks ==
    ASSUME Emmc, TypeOK, EmmcInv, pc = "write"
    PROVE  /\ BufferBlock(0) = header /\ BufferBlock(factory_tarsize) = header
           /\ BufferBlock(Half) = header2
           /\ \A i \in 1..(factory_tarsize - 1) :
                 BufferBlock(i) = Body(factory_buffer, i)
           /\ \A i \in 0..(Half - 1) :
                 i > factory_tarsize => BufferBlock(i) = Zero
<1>1. factory_tarsize \in Nat /\ factory_tarsize >= 1 /\ factory_tarsize + 2 <= Half
  BY OverwriteKnows
<1>2. BufferBlock(0) = header /\ BufferBlock(factory_tarsize) = header
  BY Zenon DEF BufferBlock
<1>3. BufferBlock(Half) = header2
  <2>1. Half # 0 /\ Half # factory_tarsize /\ ~(Half < factory_tarsize) /\ ~(Half < Half)
    BY <1>1, Sizes
  <2> QED
    BY <2>1, Zenon DEF BufferBlock
<1>4. ASSUME NEW i \in 1..(factory_tarsize - 1)
      PROVE  BufferBlock(i) = Body(factory_buffer, i)
  <2>1. i # 0 /\ i # factory_tarsize /\ i < factory_tarsize
    BY <1>1
  <2> QED
    BY <2>1, Zenon DEF BufferBlock
<1>5. ASSUME NEW i \in 0..(Half - 1), i > factory_tarsize
      PROVE  BufferBlock(i) = Zero
  <2>1. i # 0 /\ i # factory_tarsize /\ ~(i < factory_tarsize) /\ i < Half
    BY <1>1, <1>5, Sizes
  <2> QED
    BY <2>1, Zenon DEF BufferBlock
<1> QED
  BY <1>2, <1>3, <1>4, <1>5

\* A write keeps the current copy: the block past the end of copy 0 gets what
\* it holds already.
LEMMA OverwriteStays ==
    ASSUME Emmc, TypeOK, EmmcInv, pc = "write", pos < total_len
    PROVE  /\ Written \in FlashType
           /\ Written[factory_current_pp] = flash[factory_current_pp]
           /\ \A i \in 0..(Half - 1) :
                 /\ i < pos + 1 => Written[next_pp][i] = BufferBlock(i)
                 /\ i >= pos + 1 => Written[next_pp][i] = flash[next_pp][i]
<1>1. /\ next_pp \in Slot /\ factory_current_pp \in Slot
      /\ next_pp # factory_current_pp
      /\ flash \in FlashType /\ pos \in Nat
      /\ Overwriting
  BY OverwriteKnows
<1>2. Page = 1
  BY FactoryAssumption DEF Emmc
<1>3. Written \in FlashType
  BY <1>1, BufferBlockType, Sizes DEF Written, FlashType
<1>4. \A i \in 0..(Half - 1) :
         Written[factory_current_pp][i] = flash[factory_current_pp][i]
  <2>1. CASE factory_current_pp = 0
    BY <1>1, <2>1, Sizes DEF Written
  <2>2. CASE factory_current_pp = 1
    <3>1. Valid(flash, factory_current_pp)
      BY <2>2 DEF EmmcInv, Agrees
    <3>2. header2 = flash[1][0]
      BY <1>1, <2>2, <3>1 DEF Overwriting
    <3>3. BufferBlock(Half) = flash[1][0]
      BY <3>2, OverwriteBlocks
    <3> QED
      BY <1>1, <2>2, <3>3 DEF Written
  <2> QED
    BY <1>1, <2>1, <2>2 DEF Slot
<1>5. Written[factory_current_pp] = flash[factory_current_pp]
  <2>1. /\ Written[factory_current_pp] \in [0..(Half - 1) -> Cell]
        /\ flash[factory_current_pp] \in [0..(Half - 1) -> Cell]
    BY <1>1, <1>3 DEF FlashType
  <2> QED
    BY <1>4, <2>1, CopiesEqual
<1>6. \A i \in 0..(Half - 1) : i < pos => flash[next_pp][i] = BufferBlock(i)
  BY <1>1 DEF Overwriting
<1>7. \A i \in 0..(Half - 1) :
         Written[next_pp][i] = IF i >= pos /\ i < pos + 1 THEN BufferBlock(i)
                               ELSE flash[next_pp][i]
  BY <1>1, <1>2, Sizes DEF Written
<1>8. \A i \in 0..(Half - 1) :
         /\ i < pos + 1 => Written[next_pp][i] = BufferBlock(i)
         /\ i >= pos + 1 => Written[next_pp][i] = flash[next_pp][i]
  BY <1>1, <1>6, <1>7, Sizes
<1> QED
  BY <1>3, <1>5, <1>8

\* What a save leaves on flash when the blocks before p are written: before the
\* header behind the archive is in place the copy is not valid, because no
\* header on flash has the number of this save; from then on it is the archive.
LEMMA OverwriteLeaves ==
    ASSUME Emmc, TypeOK, EmmcInv, pc = "write",
           NEW fl \in FlashType, NEW p \in Nat, p >= 1, p = pos \/ p = pos + 1,
           fl[factory_current_pp] = flash[factory_current_pp],
           \A i \in 0..(Half - 1) :
              /\ i < p => fl[next_pp][i] = BufferBlock(i)
              /\ i >= p => fl[next_pp][i] = flash[next_pp][i]
    PROVE  /\ FlashOK(fl)
           /\ OldHeaders(fl)
           /\ \A s \in Slot : Valid(fl, s) => fl[s][0].len + Padding <= Half
           /\ Agrees(fl, factory_current_pp, factory_seq_num)
           /\ Valid(fl, factory_current_pp) <=> Valid(flash, factory_current_pp)
           /\ Valid(fl, factory_current_pp) =>
                 Content(fl, factory_current_pp) = Content(flash, factory_current_pp)
           /\ fl[next_pp][0] = header
           /\ factory_tarsize < p =>
                 /\ Valid(fl, next_pp)
                 /\ Content(fl, next_pp) = factory_buffer
                 /\ Agrees(fl, next_pp, Inc(factory_seq_num))
                 /\ CurrentSeq(fl) = Inc(factory_seq_num)
                 /\ Found(fl) = factory_buffer
           /\ factory_tarsize >= p =>
                 /\ CurrentSeq(fl) = factory_seq_num
                 /\ Found(fl) = Committed
<1>1. /\ factory_tarsize \in Nat /\ factory_tarsize >= 1
      /\ factory_tarsize + 2 <= Half
      /\ factory_tarsize < TarsizeLimit
      /\ next_pp \in Slot /\ factory_current_pp \in Slot
      /\ next_pp # factory_current_pp
      /\ factory_seq_num \in Nat /\ factory_seq_num \in Seq32
      /\ Inc(factory_seq_num) = factory_seq_num + 1
      /\ Inc(factory_seq_num) \in Seq32
      /\ flash \in FlashType /\ factory_buffer \in Image /\ pos \in Nat
      /\ header.k = "hdr" /\ header.len = factory_tarsize
      /\ header.seq = Inc(factory_seq_num)
      /\ Overwriting
  BY OverwriteKnows DEF Seq32
<1>2. /\ FlashOK(flash) /\ OldHeaders(flash) /\ factory_buffer.rooted
      /\ \A s \in Slot : Valid(flash, s) => flash[s][0].len + Padding <= Half
      /\ Agrees(flash, factory_current_pp, factory_seq_num)
  BY DEF EmmcInv
<1>3. factory_tarsize < Half /\ factory_tarsize \in 1..(Half - 1) /\ Padding = 2
  BY <1>1, Sizes DEF Emmc, Padding
<1>4. fl[next_pp][0] = header
  <2>1. 0 \in 0..(Half - 1) /\ 0 < p
    BY Sizes
  <2> QED
    BY <2>1, OverwriteBlocks
<1>5. Slot = {factory_current_pp, next_pp}
  BY <1>1 DEF Slot
<1>6. /\ CurrentSeq(flash) <= Inc(factory_seq_num)
      /\ factory_tarsize >= p => CurrentSeq(flash) = factory_seq_num
      /\ CurrentSeq(flash) \in Nat
  BY <1>1 DEF Overwriting
\* Only the header behind the archive is new among the headers inside copies.
<1>7. ASSUME NEW s \in Slot, NEW i \in 1..(Half - 1), fl[s][i].k = "hdr"
      PROVE  \/ fl[s][i] = flash[s][i]
             \/ factory_tarsize < p /\ fl[s][i] = header
  <2>1. CASE s = factory_current_pp
    BY <2>1
  <2>2. CASE s = next_pp
    <3>1. CASE i >= p
      BY <2>2, <3>1, Sizes
    <3>2. CASE i < p
      <4>1. fl[s][i] = BufferBlock(i)
        BY <2>2, <3>2, Sizes
      <4>2. CASE i = factory_tarsize
        BY <3>2, <4>1, <4>2, OverwriteBlocks
      <4>3. CASE i < factory_tarsize
        <5>1. BufferBlock(i) = Body(factory_buffer, i)
          BY <4>3, <1>1, OverwriteBlocks
        <5> QED
          BY <1>7, <4>1, <5>1 DEF Body
      <4>4. CASE i > factory_tarsize
        <5>1. BufferBlock(i) = Zero
          BY <4>4, Sizes, OverwriteBlocks
        <5> QED
          BY <1>7, <4>1, <5>1 DEF Zero
      <4> QED
        BY <1>1, <4>2, <4>3, <4>4
    <3> QED
      BY <3>1, <3>2
  <2> QED
    BY <1>5, <2>1, <2>2
<1>8. ASSUME NEW s \in Slot, NEW i \in 1..(Half - 1), flash[s][i].k = "hdr"
      PROVE  flash[s][i].seq \in Nat /\ flash[s][i].seq <= CurrentSeq(flash)
  <2>1. flash[s][i] \in Cell
    BY <1>1, Sizes DEF FlashType
  <2>2. flash[s][i] \in HdrCell
    BY <1>8, <2>1, CellKinds
  <2> QED
    BY <1>2, <1>8, <2>2 DEF OldHeaders, HdrCell, Seq32
<1>9. ASSUME factory_tarsize < p
      PROVE  /\ FlashOK(fl)
             /\ Valid(fl, next_pp)
             /\ Content(fl, next_pp) = factory_buffer
             /\ Agrees(fl, factory_current_pp, factory_seq_num)
             /\ Agrees(fl, next_pp, Inc(factory_seq_num))
             /\ Valid(fl, factory_current_pp) <=> Valid(flash, factory_current_pp)
             /\ Valid(flash, factory_current_pp) =>
                   Content(fl, factory_current_pp) = Content(flash, factory_current_pp)
             /\ CurrentSeq(fl) = Inc(factory_seq_num)
             /\ Found(fl) = factory_buffer
  <2>1. fl[next_pp][factory_tarsize] = header
    BY <1>3, <1>9, OverwriteBlocks, Sizes
  <2>2. \A i \in 1..(factory_tarsize - 1) : i \in 0..(Half - 1) /\ i < p
    BY <1>1, <1>3, <1>9, Sizes
  <2>3. \A i \in 1..(factory_tarsize - 1) : fl[next_pp][i] = Body(factory_buffer, i)
    BY <2>2, OverwriteBlocks
  <2>4. CopyOf(fl, next_pp, Inc(factory_seq_num), factory_buffer)
    BY <2>1, <2>3, <1>1, <1>2, <1>3, <1>4 DEF factory_tarsize, CopyOf, Overwriting
  <2>5. /\ FlashOK(fl)
        /\ Valid(fl, next_pp)
        /\ Content(fl, next_pp) = factory_buffer
        /\ Agrees(fl, factory_current_pp, factory_seq_num)
        /\ Agrees(fl, next_pp, Inc(factory_seq_num))
        /\ Valid(fl, factory_current_pp) <=> Valid(flash, factory_current_pp)
        /\ Valid(flash, factory_current_pp) =>
              Content(fl, factory_current_pp) = Content(flash, factory_current_pp)
        /\ Chosen(fl) = next_pp
        /\ Found(fl) = factory_buffer
    BY <2>4, <1>1, <1>2, OtherLands
  <2>6. CurrentSeq(fl) = Inc(factory_seq_num)
    BY <2>5, <1>1, <1>4 DEF CurrentSeq, AnyValid, Slot
  <2> QED
    BY <2>5, <2>6
<1>10. ASSUME factory_tarsize >= p
       PROVE  /\ FlashOK(fl)
              /\ ~Valid(fl, next_pp)
              /\ Agrees(fl, factory_current_pp, factory_seq_num)
              /\ Valid(fl, factory_current_pp) <=> Valid(flash, factory_current_pp)
              /\ Valid(flash, factory_current_pp) =>
                    Content(fl, factory_current_pp) = Content(flash, factory_current_pp)
              /\ CurrentSeq(fl) = factory_seq_num
              /\ Found(fl) = Committed
  <2>1. fl[next_pp][factory_tarsize] # header
    <3>1. fl[next_pp][factory_tarsize] = flash[next_pp][factory_tarsize]
      BY <1>3, <1>10, Sizes
    <3>2. CASE flash[next_pp][factory_tarsize].k = "hdr"
      BY <3>1, <3>2, <1>1, <1>3, <1>6, <1>8, <1>10
    <3>3. CASE flash[next_pp][factory_tarsize].k # "hdr"
      BY <3>1, <3>3, <1>1
    <3> QED
      BY <3>2, <3>3
  <2>2. At(fl, next_pp, factory_tarsize) = fl[next_pp][factory_tarsize]
    BY <1>3, Sizes DEF At
  <2>3. ~Valid(fl, next_pp)
    BY <2>1, <2>2, <1>1, <1>4 DEF Valid
  <2>4. fl[next_pp][0].len < Half
    BY <1>1, <1>3, <1>4
  <2>5. /\ FlashOK(fl)
        /\ Agrees(fl, factory_current_pp, factory_seq_num)
        /\ Valid(fl, factory_current_pp) <=> Valid(flash, factory_current_pp)
        /\ Valid(flash, factory_current_pp) =>
              Content(fl, factory_current_pp) = Content(flash, factory_current_pp)
        /\ Found(fl) = Committed
    BY <2>3, <2>4, <1>1, <1>2, OtherInvalid DEF Committed
  <2>6. CurrentSeq(fl) = factory_seq_num
    BY <2>3, <2>5, <1>1, GoneSeq
  <2> QED
    BY <2>3, <2>5, <2>6
<1>11. OldHeaders(fl)
  <2>1. ASSUME NEW s \in Slot, NEW i \in 1..(Half - 1), fl[s][i].k = "hdr"
        PROVE  fl[s][i].seq <= CurrentSeq(fl)
    <3>1. CASE factory_tarsize < p
      BY <3>1, <2>1, <1>1, <1>6, <1>7, <1>8, <1>9
    <3>2. CASE factory_tarsize >= p
      BY <3>2, <2>1, <1>1, <1>6, <1>7, <1>8, <1>10
    <3> QED
      BY <1>1, <3>1, <3>2
  <2> QED
    BY <2>1 DEF OldHeaders
<1>12. ASSUME NEW s \in Slot, Valid(fl, s)
       PROVE  fl[s][0].len + Padding <= Half
  <2>1. CASE s = factory_current_pp
    BY <2>1, <1>2, <1>9, <1>10, <1>12, <1>1
  <2>2. CASE s = next_pp
    BY <2>2, <1>1, <1>3, <1>4
  <2> QED
    BY <1>5, <2>1, <2>2
<1> QED
  BY <1>1, <1>4, <1>9, <1>10, <1>11, <1>12

-----------------------------------------------------------------------------
(* The invariant on an eMMC *)

LEMMA EmmcInit ==
    ASSUME Emmc, Init
    PROVE  EmmcInv
<1>1. \A s \in Slot : \A i \in 0..(Half - 1) : flash[s][i] = Blank
  BY DEF Init
<1>2. Blank.k # "hdr"
  BY DEF Blank
<1>3. \A s \in Slot : flash[s][0].k # "hdr" /\ ~Valid(flash, s)
  BY <1>1, <1>2, Sizes DEF Valid
<1>4. FlashOK(flash)
  BY <1>3 DEF FlashOK, HeadersInside, WholeCopy, Parity, Adjacent, Slot
<1>5. OldHeaders(flash)
  BY <1>1, <1>2, Sizes DEF OldHeaders
<1>6. factory_buffer = EmptyImage /\ EmptyImage.rooted /\ tar_size(EmptyImage) = 1
  BY EmptySize DEF Init, EmptyImage
<1>7. factory_tarsize + Padding <= Half
  BY <1>6, Sizes, FactoryAssumption DEF factory_tarsize
<1> QED
  BY <1>3, <1>4, <1>5, <1>6, <1>7 DEF Init, EmmcInv

\* What holds whenever the store is at rest or being edited.
LEMMA RestKnows ==
    ASSUME Emmc, TypeOK, EmmcInv
    PROVE  /\ factory_tarsize \in Nat /\ factory_tarsize >= 1
           /\ ~TooBig
           /\ Padding = 2 /\ Half \in Nat
           /\ flash \in FlashType /\ factory_buffer \in Image /\ tail \in BOOLEAN
<1>1. factory_buffer.rooted /\ factory_tarsize + Padding <= Half
  BY DEF EmmcInv
<1>2. factory_tarsize \in Nat /\ factory_tarsize >= 1
  BY <1>1, TarSizeType DEF TypeOK, factory_tarsize
<1>3. Padding = 2 /\ Half \in Nat
  BY Sizes DEF Padding, Emmc
<1>4. ~TooBig
  BY <1>1, <1>2, <1>3 DEF TooBig, Emmc
<1> QED
  BY <1>2, <1>3, <1>4 DEF TypeOK, FlashType

\* A save is never rejected, so that the dirty flag is only cleared when the
\* archive is on flash.
LEMMA NeverRejected ==
    ASSUME Emmc, TypeOK, EmmcInv
    PROVE  ~factory_save_Rejected
<1>1. factory_tarsize # 0 /\ ~TooBig
  BY RestKnows
<1> QED
  BY <1>1 DEF factory_save_Rejected

\* An edit keeps the room that a save needs.
LEMMA EditKeepsRoom ==
    ASSUME Emmc, TypeOK, EmmcInv, pc = "idle", NEW f \in Path,
           \/ factory_delete(f)
           \/ \E d \in Data : factory_write(f, d)
    PROVE  EmmcInv'
<1>u. USE DEF ram, ctl
<1>1. /\ factory_tarsize \in Nat /\ Padding = 2 /\ Half \in Nat
      /\ factory_buffer \in Image /\ tail \in BOOLEAN
  BY RestKnows
<1>2. factory_buffer.rooted /\ factory_tarsize + Padding <= Half /\ NAS
      /\ f \notin RootPrefix
  BY DEF EmmcInv, Emmc
<1>3. /\ factory_buffer' \in Image /\ factory_buffer'.rooted
      /\ factory_tarsize' + Padding <= Half
  <2>1. CASE factory_delete(f)
    <3>1. factory_buffer' = tar_delete(factory_buffer, f, tail)
      BY <2>1 DEF factory_delete
    <3>2. /\ factory_buffer' \in Image /\ factory_buffer'.rooted
          /\ tar_size(factory_buffer') <= tar_size(factory_buffer)
      BY <3>1, <1>1, <1>2, TarEditType, TarEditSize
    <3>3. tar_size(factory_buffer') \in Nat
      BY <3>2, TarSizeType
    <3> QED
      BY <3>2, <3>3, <1>1, <1>2 DEF factory_tarsize
  <2>2. ASSUME NEW d \in Data, factory_write(f, d)
        PROVE  /\ factory_buffer' \in Image /\ factory_buffer'.rooted
               /\ factory_tarsize' + Padding <= Half
    <3>1. /\ factory_buffer' = tar_add(factory_buffer, f, d, tail)
          /\ Blocks[d] + factory_tarsize + 1 + Padding <= Half
      BY <2>2 DEF factory_write
    <3>2. /\ factory_buffer' \in Image /\ factory_buffer'.rooted
          /\ tar_size(factory_buffer') <= tar_size(factory_buffer) + 1 + Blocks[d]
      BY <3>1, <1>1, <1>2, TarEditType, TarEditSize
    <3>3. tar_size(factory_buffer') \in Nat /\ Blocks[d] \in Nat
      BY <3>2, TarSizeType, TarAssumption
    <3> QED
      BY <3>1, <3>2, <3>3, <1>1 DEF factory_tarsize
  <2> QED
    BY <2>1, <2>2
<1>4. /\ UNCHANGED <<flash, header, factory_current_pp, factory_seq_num, ctl>>
      /\ header2' = header /\ factory_dirty'
  BY DEF factory_delete, factory_write
<1>5. Resting'
  BY <1>4 DEF EmmcInv, Resting
<1> QED
  BY <1>3, <1>4, <1>5 DEF EmmcInv

\* What a boot finds is what it loads.
LEMMA BootLoads ==
    ASSUME Emmc, TypeOK, EmmcInv, factory_init
    PROVE  EmmcInv' /\ factory_buffer' = Visible /\ Committed' = Visible
<1>u. USE DEF ram, ctl
<1>0. /\ pc = "off" /\ pc' = "idle" /\ flash' = flash /\ caller' = caller
      /\ factory_dirty' = factory_dirty
  BY DEF factory_init
<1>1. /\ FlashOK(flash) /\ OldHeaders(flash)
      /\ \A s \in Slot : Valid(flash, s) => flash[s][0].len + Padding <= Half
      /\ caller = "api" /\ ~factory_dirty
      /\ factory_current_pp = 0 /\ factory_seq_num = 0
  BY <1>0 DEF EmmcInv
<1>c. Committed' = IF Valid(flash', factory_current_pp')
                   THEN Content(flash', factory_current_pp') ELSE EmptyImage
  BY DEF Committed
<1>2. CASE AnyValid(flash)
  <2> DEFINE c == Chosen(flash)
  <2>1. /\ c \in Slot /\ Valid(flash, c)
        /\ Found(flash) = Content(flash, c)
        /\ CurrentSeq(flash) = flash[c][0].seq
    BY <1>2, SlotIsValid DEF Found, CurrentSeq, TypeOK, FlashType
  <2>2. /\ factory_current_pp' = c /\ factory_seq_num' = flash[c][0].seq
        /\ factory_buffer' \in Loaded(flash, c) /\ header' = flash[c][0]
    BY <1>2 DEF factory_init, Adopt
  <2> HIDE DEF c
  <2>3. /\ Intact(flash, c) /\ Content(flash, c).rooted
        /\ tar_size(Content(flash, c)) = flash[c][0].len
        /\ flash[c][0].seq % 2 = c
    BY <2>1, <1>1 DEF FlashOK, WholeCopy, Parity
  <2>4. factory_buffer' = Content(flash, c)
    BY <2>2, <2>3 DEF Loaded
  <2>5. Agrees(flash, c, flash[c][0].seq)
    BY <2>1, <2>3 DEF Agrees
  <2>6. factory_tarsize' + Padding <= Half
    BY <2>1, <2>3, <2>4, <1>1 DEF factory_tarsize
  <2>7. Resting'
    BY <1>0, <1>1, <2>1, <2>2, <2>4 DEF Resting, Visible
  <2>8. EmmcInv'
    BY <1>0, <1>1, <2>2, <2>3, <2>4, <2>5, <2>6, <2>7 DEF EmmcInv
  <2> QED
    BY <1>0, <1>c, <2>1, <2>2, <2>4, <2>8 DEF Visible
<1>3. CASE ~AnyValid(flash)
  <2>1. /\ factory_current_pp' = 0 /\ factory_seq_num' = 0
        /\ factory_buffer' = EmptyImage
    BY <1>1, <1>3 DEF factory_init, AdoptNothing
  <2>2. ~Valid(flash, 0) /\ ~Valid(flash, 1)
    BY <1>3 DEF AnyValid
  <2>3. Found(flash) = EmptyImage /\ CurrentSeq(flash) = 0 /\ Agrees(flash, 0, 0)
    BY <1>3, <2>2 DEF Found, CurrentSeq, Agrees
  <2>4. EmptyImage.rooted /\ factory_tarsize' + Padding <= Half
    BY <2>1, EmptySize, Sizes, FactoryAssumption DEF factory_tarsize, EmptyImage
  <2>5. Resting'
    BY <1>0, <1>1, <2>1, <2>2, <2>3 DEF Resting, Visible
  <2>6. EmmcInv'
    BY <1>0, <1>1, <2>1, <2>3, <2>4, <2>5 DEF EmmcInv
  <2> QED
    BY <1>0, <1>c, <2>1, <2>2, <2>3, <2>6 DEF Visible
<1> QED
  BY <1>2, <1>3

\* One block of a save: the store stays consistent, and the next boot finds the
\* archive in RAM once the header behind it is in place, the current copy before.
LEMMA BlockWritten ==
    ASSUME Emmc, TypeOK, EmmcInv, WriteUnit
    PROVE  /\ EmmcInv'
           /\ Committed' = Committed
           /\ \/ Visible' = factory_buffer
              \/ Visible' = Committed
<1>u. USE DEF ram, ctl
<1>1. /\ pc = "write" /\ pos < total_len /\ flash' = Written /\ pos' = pos + Page
      /\ UNCHANGED <<factory_buffer, header, header2, factory_current_pp,
                     factory_seq_num, pc, caller, factory_dirty>>
  BY DEF WriteUnit
<1>2. Page = 1
  BY FactoryAssumption DEF Emmc
<1>3. /\ flash' \in FlashType
      /\ flash'[factory_current_pp] = flash[factory_current_pp]
      /\ \A i \in 0..(Half - 1) :
            /\ i < pos + 1 => flash'[next_pp][i] = BufferBlock(i)
            /\ i >= pos + 1 => flash'[next_pp][i] = flash[next_pp][i]
  BY <1>1, OverwriteStays
<1>4. pos \in Nat /\ pos + 1 \in Nat /\ pos + 1 >= 1 /\ factory_tarsize \in Nat /\ Overwriting
  BY <1>1, OverwriteKnows
<1>5. /\ FlashOK(flash')
      /\ OldHeaders(flash')
      /\ \A s \in Slot : Valid(flash', s) => flash'[s][0].len + Padding <= Half
      /\ Agrees(flash', factory_current_pp, factory_seq_num)
      /\ Valid(flash', factory_current_pp) <=> Valid(flash, factory_current_pp)
      /\ Valid(flash', factory_current_pp) =>
            Content(flash', factory_current_pp) = Content(flash, factory_current_pp)
      /\ factory_tarsize < pos + 1 =>
            /\ CurrentSeq(flash') = Inc(factory_seq_num)
            /\ Found(flash') = factory_buffer
      /\ factory_tarsize >= pos + 1 =>
            /\ CurrentSeq(flash') = factory_seq_num
            /\ Found(flash') = Committed
  BY <1>1, <1>3, <1>4, OverwriteLeaves
<1>6. /\ next_pp' = next_pp /\ factory_tarsize' = factory_tarsize
      /\ \A i \in 0..(Half - 1) : BufferBlock(i)' = BufferBlock(i)
  BY <1>1 DEF next_pp, factory_tarsize, BufferBlock
<1>7. Overwriting'
  <2>1. CurrentSeq(flash') = IF pos' > factory_tarsize THEN Inc(factory_seq_num)
                                                       ELSE factory_seq_num
    BY <1>1, <1>2, <1>4, <1>5
  <2>2. \A i \in 0..(Half - 1) : i < pos' => flash'[next_pp][i] = BufferBlock(i)
    BY <1>1, <1>2, <1>3
  <2>3. Valid(flash', factory_current_pp) => header2 = flash'[factory_current_pp][0]
    BY <1>3, <1>4, <1>5 DEF Overwriting
  <2> QED
    BY <1>1, <1>4, <1>6, <2>1, <2>2, <2>3 DEF Overwriting
<1>8. EmmcInv'
  BY <1>1, <1>5, <1>6, <1>7 DEF EmmcInv
<1>9. Committed' = Committed
  BY <1>1, <1>5 DEF Committed
<1> QED
  BY <1>4, <1>5, <1>8, <1>9 DEF Visible

\* A save that is done has made its archive visible, and current.
LEMMA SaveIsDone ==
    ASSUME Emmc, TypeOK, EmmcInv, SaveDone
    PROVE  EmmcInv' /\ Visible = factory_buffer /\ Committed' = factory_buffer
<1>u. USE DEF ram, ctl
<1>1. /\ pc = "write" /\ pos >= total_len
      /\ pc' = "idle" /\ caller' = "api" /\ ~factory_dirty'
      /\ factory_current_pp' = next_pp /\ factory_seq_num' = Inc(factory_seq_num)
      /\ UNCHANGED <<flash, factory_buffer, header>>
  BY DEF SaveDone, Return, next_seqnum, Inc, EmmcInv
<1>2. /\ pos \in Nat /\ factory_tarsize \in Nat /\ factory_tarsize < pos /\ pos >= 1
      /\ flash \in FlashType /\ Overwriting
  BY <1>1, OverwriteKnows
<1>3. \A i \in 0..(Half - 1) : i < pos => flash[next_pp][i] = BufferBlock(i)
  BY <1>2 DEF Overwriting
<1>4. /\ Valid(flash, next_pp)
      /\ Content(flash, next_pp) = factory_buffer
      /\ Agrees(flash, next_pp, Inc(factory_seq_num))
      /\ CurrentSeq(flash) = Inc(factory_seq_num)
      /\ Found(flash) = factory_buffer
      /\ flash[next_pp][0] = header
  BY <1>1, <1>2, <1>3, OverwriteLeaves
<1>5. Resting'
  BY <1>1, <1>4 DEF Resting, Visible
<1>6. factory_tarsize' = factory_tarsize
  BY <1>1 DEF factory_tarsize
<1>7. EmmcInv'
  BY <1>1, <1>4, <1>5, <1>6 DEF EmmcInv
<1> QED
  BY <1>1, <1>4, <1>7 DEF Visible, Committed

\* Every step but those of factory_reset keeps the invariant, and is a step of
\* the atomic store.
LEMMA EmmcNext ==
    ASSUME Emmc, TypeOK, EmmcInv, [NextNoReset]_vars
    PROVE  EmmcInv' /\ [Store!Next]_(Store!vars)
<1>u. USE DEF ram, ctl
<1>n. TypeOK'
  <2>1. [NextNoReset]_vars => [Next]_vars
    BY DEF Next
  <2> QED
    BY <2>1, TypeNext
<1>s. flash' = flash /\ factory_current_pp' = factory_current_pp
         => Committed' = Committed /\ Visible' = Visible
  BY DEF Committed, Visible
<1>1. ASSUME NEW f \in Path,
             factory_delete(f) \/ \E d \in Data : factory_write(f, d)
      PROVE  EmmcInv' /\ Store!Edit
  <2>1. /\ pc = "idle" /\ pc' = pc
        /\ UNCHANGED <<flash, factory_current_pp>>
    BY <1>1 DEF factory_delete, factory_write
  <2>2. factory_buffer' \in Image
    BY <1>n DEF TypeOK
  <2> QED
    BY <1>1, <1>s, <2>1, <2>2, EditKeepsRoom DEF Store!Edit
<1>2. CASE factory_save
  <2>1. /\ pc = "idle" /\ factory_dirty /\ factory_seq_num < MaxSeq
        /\ header' = Hdr(next_seqnum, factory_tarsize, factory_buffer.rooted)
        /\ pc' = "write" /\ pos' = 0 /\ caller' = "api"
        /\ UNCHANGED <<flash, factory_buffer, header2, factory_current_pp,
                       factory_seq_num>>
    BY <1>2 DEF factory_save, BeginSave, Emmc
  <2>2. factory_buffer.rooted = TRUE
    BY DEF EmmcInv, TypeOK, Image
  <2>3. header' = Hdr(Inc(factory_seq_num), factory_tarsize, TRUE)
    BY <2>1, <2>2, Zenon DEF next_seqnum, Inc
  <2>4. factory_tarsize' = factory_tarsize /\ factory_tarsize \in Nat
    BY <2>1, RestKnows DEF factory_tarsize
  <2>5. Resting
    BY <2>1 DEF EmmcInv
  <2>6. Overwriting'
    BY <2>1, <2>3, <2>4, <2>5 DEF Overwriting, Resting
  <2>7. EmmcInv'
    BY <2>1, <2>4, <2>6 DEF EmmcInv
  <2>8. Store!Begin
    BY <2>1, <1>s DEF Store!Begin
  <2> QED
    BY <2>7, <2>8 DEF Store!Next
<1>3. ~factory_save_Rejected
  BY NeverRejected
<1>4. CASE WriteUnit
  <2>1. /\ EmmcInv' /\ Committed' = Committed
        /\ Visible' = factory_buffer \/ Visible' = Committed
    BY <1>4, BlockWritten
  <2>2. pc = "write" /\ pc' = "write" /\ factory_buffer' = factory_buffer
    BY <1>4 DEF WriteUnit
  <2>3. Store!Land \/ Store!Discard
    BY <2>1, <2>2 DEF Store!Land, Store!Discard
  <2> QED
    BY <2>1, <2>3 DEF Store!Next
<1>5. CASE SaveDone
  <2>1. EmmcInv' /\ Visible = factory_buffer /\ Committed' = factory_buffer
    BY <1>5, SaveIsDone
  <2>2. /\ pc = "write" /\ pc' = "idle"
        /\ UNCHANGED <<flash, factory_buffer>>
    BY <1>5 DEF SaveDone, Return, EmmcInv
  <2>3. Visible' = Visible
    BY <2>2 DEF Visible
  <2>4. Store!Succeed
    BY <2>1, <2>2, <2>3 DEF Store!Succeed
  <2> QED
    BY <2>1, <2>4 DEF Store!Next
<1>6. CASE PowerFails
  <2>1. /\ pc' = "off" /\ caller' = "api" /\ flash' = flash
        /\ factory_buffer' = EmptyImage /\ ~factory_dirty'
        /\ factory_current_pp' = 0 /\ factory_seq_num' = 0
    BY <1>6 DEF PowerFails
  <2>2. EmptyImage.rooted /\ factory_tarsize' + Padding <= Half
    BY <2>1, EmptySize, Sizes, FactoryAssumption DEF factory_tarsize, EmptyImage
  <2>3. EmmcInv'
    BY <2>1, <2>2 DEF EmmcInv
  <2>4. Visible' = Visible
    BY <2>1 DEF Visible
  <2>5. Store!PowerLoss
    BY <2>1, <2>4 DEF Store!PowerLoss
  <2> QED
    BY <2>3, <2>5 DEF Store!Next
<1>7. CASE factory_init
  <2>1. EmmcInv' /\ factory_buffer' = Visible /\ Committed' = Visible
    BY <1>7, BootLoads
  <2>2. pc = "off" /\ pc' = "idle" /\ Visible' = Visible
    BY <1>7 DEF factory_init, Visible
  <2>3. Store!Boot
    BY <2>1, <2>2 DEF Store!Boot
  <2> QED
    BY <2>1, <2>3 DEF Store!Next
<1>8. /\ ~EraseFails /\ ~WriteFails /\ ~PageRemapped /\ ~factory_init_ReadError
      /\ ~EraseUnit
  BY DEF EraseFails, WriteFails, PageRemapped, factory_init_ReadError, EraseUnit,
         Emmc, EmmcInv
<1>9. CASE UNCHANGED vars
  <2>1. Resting' = Resting /\ Overwriting' = Overwriting
    BY <1>9 DEF vars, Resting, Overwriting, Visible, factory_tarsize, next_pp,
                BufferBlock
  <2>2. EmmcInv'
    BY <1>9, <2>1 DEF vars, EmmcInv, factory_tarsize
  <2> QED
    BY <1>9, <1>s, <2>2 DEF vars, Store!vars
<1> QED
  BY <1>1, <1>2, <1>3, <1>4, <1>5, <1>6, <1>7, <1>8, <1>9 DEF NextNoReset, Store!Next

-----------------------------------------------------------------------------
(* Theorems for an eMMC *)

\* On an eMMC the store keeps its invariant: in particular no header that lies
\* inside a copy has a number that the next save could take for its own
\* (factory_save_to_eMMC).
THEOREM EmmcInvariant ==
    ASSUME Emmc
    PROVE  SpecNoReset => [](TypeOK /\ EmmcInv)
<1>1. Init => TypeOK /\ EmmcInv
  BY TypeInit, EmmcInit
<1>2. (TypeOK /\ EmmcInv) /\ [NextNoReset]_vars => (TypeOK /\ EmmcInv)'
  <2>1. [NextNoReset]_vars => [Next]_vars
    BY DEF Next
  <2> QED
    BY <2>1, TypeNext, EmmcNext
<1> QED
  BY <1>1, <1>2, PTL DEF SpecNoReset

\* On an eMMC the store implements AtomicStore, although a save overwrites the
\* older copy in place and may write one block past the end of copy 0.
THEOREM EmmcSavesAreAtomic ==
    ASSUME Emmc
    PROVE  SpecNoReset => SavesAreAtomic
<1>1. Init => Store!Init
  BY StoreInit
<1>2. TypeOK /\ EmmcInv /\ [NextNoReset]_vars => [Store!Next]_(Store!vars)
  BY EmmcNext
<1> QED
  BY <1>1, <1>2, EmmcInvariant, PTL DEF SpecNoReset, SavesAreAtomic, Store!Spec

\* On an eMMC, when factory_save would answer "no change" the next boot finds
\* the archive in RAM: what factory_write accepts is never too big to save.
THEOREM EmmcCleanIsSaved ==
    ASSUME Emmc
    PROVE  SpecNoReset => []CleanIsSaved
<1>1. EmmcInv => CleanIsSaved
  BY DEF EmmcInv, Resting, CleanIsSaved
<1> QED
  BY <1>1, EmmcInvariant, PTL

-----------------------------------------------------------------------------
(* The environment in the factory store *)

\* Every step of the boot loader is one of the store's, or leaves it alone.
LEMMA EnvStep ==
    ASSUME env \in Data, [EnvNext]_allvars
    PROVE  [NextNoReset]_vars
<1>1. CASE Running
  <2>1. CASE Booted
    BY <2>1 DEF Booted, NextNoReset
  <2>2. CASE env_relocate_spec \/ saveenv_TooBig
    BY <2>2 DEF env_relocate_spec, saveenv_TooBig
  <2>3. CASE saveenv
    BY <2>3, EnvAssumption DEF saveenv, NextNoReset
  <2>4. CASE SaveBegins
    BY <2>4 DEF SaveBegins, NextNoReset
  <2>5. CASE SaveStep
    BY <2>5 DEF SaveStep, NextNoReset
  <2>6. CASE SaveSucceeds
    BY <2>6 DEF SaveSucceeds, NextNoReset
  <2>7. CASE SaveFails
    BY <2>7 DEF SaveFails, NextNoReset
  <2> QED
    BY <1>1, <2>1, <2>2, <2>3, <2>4, <2>5, <2>6, <2>7 DEF Running
<1>2. CASE Command
  <2>1. ASSUME NEW v \in Data, setenv(v)
        PROVE  UNCHANGED vars
    BY <2>1 DEF setenv
  <2>2. CASE do_env_save
    BY <2>2 DEF do_env_save
  <2>3. CASE delete_env
    BY <2>3, EnvAssumption DEF delete_env, NextNoReset
  <2>4. CASE factory_command
    BY <2>4 DEF factory_command, NextNoReset
  <2> QED
    BY <1>2, <2>1, <2>2, <2>3, <2>4 DEF Command
<1>3. CASE PowerCut
  BY <1>3 DEF PowerCut, NextNoReset
<1>4. CASE UNCHANGED allvars
  BY <1>4 DEF allvars
<1> QED
  BY <1>1, <1>2, <1>3, <1>4 DEF EnvNext

\* What a step can do to the archives, from the refinement of AtomicStore.
LEMMA StoreMoves ==
    ASSUME [Store!Next]_(Store!vars), pc # "off", pc' # "off"
    PROVE  /\ Visible' \in {Visible, factory_buffer, Committed}
           /\ Committed' \in {Visible, factory_buffer, Committed}
  BY DEF Store!Next, Store!vars, Store!Edit, Store!Begin, Store!Land,
         Store!Discard, Store!Succeed, Store!Fail, Store!PowerLoss, Store!Boot

\* The archive in RAM holds a file of every path, or none.
LEMMA FileInArchive ==
    ASSUME TypeOK
    PROVE  /\ EnvFile \in Path
           /\ stored = factory_buffer.files[EnvFile]
           /\ stored \in Data \cup {NoFile}
           /\ NoFile \notin Data
  BY EnvAssumption, TarAssumption DEF TypeOK, Image, stored, tar_read

\* Edits of other files leave the environment's alone; a write and a delete of
\* the environment's do what they say.
LEMMA EditedFile ==
    ASSUME TypeOK, NEW f \in Path, NEW d \in Data
    PROVE  /\ tar_add(factory_buffer, EnvFile, d, tail).files[EnvFile] = d
           /\ tar_delete(factory_buffer, EnvFile, tail).files[EnvFile] = NoFile
           /\ <<f, EnvFile>> \notin Prefix =>
                 /\ tar_add(factory_buffer, f, d, tail).files[EnvFile] = stored
                 /\ tar_delete(factory_buffer, f, tail).files[EnvFile] = stored
<1>1. EnvFile \in Path /\ <<EnvFile, EnvFile>> \in Prefix
  BY EnvAssumption, TarAssumption
<1>2. stored = factory_buffer.files[EnvFile]
  BY FileInArchive
<1>3. ASSUME NEW g \in Path
      PROVE  /\ Unmatched(factory_buffer, g, tail).files \in [Path -> Data \cup {NoFile}]
             /\ Unmatched(factory_buffer, g, tail).files[EnvFile]
                  = IF <<g, EnvFile>> \in Prefix THEN NoFile ELSE stored
  BY <1>1, <1>2 DEF Unmatched, TypeOK, Image
<1>4. ASSUME NEW g \in Path, NEW b \in Data
      PROVE  tar_add(factory_buffer, g, b, tail).files[EnvFile]
               = IF g = EnvFile THEN b
                 ELSE Unmatched(factory_buffer, g, tail).files[EnvFile]
  <2>1. tar_add(factory_buffer, g, b, tail).files
          = [Unmatched(factory_buffer, g, tail).files EXCEPT ![g] = b]
    BY DEF tar_add, Unmatched
  <2> QED
    BY <2>1, <1>1, <1>3
<1>5. <<f, EnvFile>> \notin Prefix => f # EnvFile
  BY <1>1
<1> QED
  BY <1>1, <1>3, <1>4, <1>5 DEF tar_delete

-----------------------------------------------------------------------------

LEMMA EnvInvInit == EnvInit => EnvInv
<1> SUFFICES ASSUME EnvInit
             PROVE  EnvInv
  OBVIOUS
<1>1. Store!Init
  BY StoreInit DEF EnvInit
<1>2. Visible = EmptyImage
  BY <1>1 DEF Store!Init
<1>3. Visible.files[EnvFile] = NoFile
  BY <1>2, EnvAssumption DEF EmptyImage
<1> QED
  BY <1>3, EnvAssumption DEF EnvInit, EnvInv, EnvOnFlash, Init, Saving

\* What the environment needs of the store, on any medium: every step is one of
\* the atomic store's, a save that returns 0 has made the archive in RAM visible
\* and current, and a boot loads what is visible.
StoreKeeps ==
    /\ caller = "api"
    /\ [Store!Next]_(Store!vars)
    /\ SaveDone => Visible' = factory_buffer /\ Committed' = factory_buffer
    /\ factory_init => /\ Visible' = Visible
                       /\ factory_buffer' = Visible
                       /\ Committed' = Visible

\* On media that are erased the store does this ...
LEMMA ErasedStoreKeeps ==
    ASSUME Flash # "EMMC", Faults \subseteq {"erase", "write"}, RootPrefix = {},
           TypeOK, PingPong, [NextNoReset]_vars
    PROVE  StoreKeeps
<1>1. [Store!Next]_(Store!vars)
  BY StoreNext
<1>2. ASSUME SaveDone
      PROVE  Visible' = factory_buffer /\ Committed' = factory_buffer
  <2>1. Store!Succeed
    BY <1>2, DoneSucceeds
  <2>2. pc = "write" /\ pc' = "idle" /\ factory_buffer' = factory_buffer
    BY <1>2 DEF SaveDone, Return, PingPong
  <2> QED
    BY <2>1, <2>2 DEF Store!Succeed
<1>3. ASSUME factory_init
      PROVE  Visible' = Visible /\ factory_buffer' = Visible /\ Committed' = Visible
  <2>1. Store!Boot
    BY <1>3, InitBoots
  <2>2. pc = "off" /\ pc' = "idle"
    BY <1>3 DEF factory_init
  <2> QED
    BY <2>1, <2>2 DEF Store!Boot
<1> QED
  BY <1>1, <1>2, <1>3 DEF StoreKeeps, PingPong

\* ... and on an eMMC too.
LEMMA EmmcKeeps ==
    ASSUME Emmc, TypeOK, EmmcInv, [NextNoReset]_vars
    PROVE  StoreKeeps
<1>1. [Store!Next]_(Store!vars)
  BY EmmcNext
<1>2. ASSUME SaveDone
      PROVE  Visible' = factory_buffer /\ Committed' = factory_buffer
  <2>1. flash' = flash
    BY <1>2 DEF SaveDone, Return, EmmcInv
  <2> QED
    BY <1>2, <2>1, SaveIsDone DEF Visible
<1>3. ASSUME factory_init
      PROVE  Visible' = Visible /\ factory_buffer' = Visible /\ Committed' = Visible
  <2>1. flash' = flash
    BY <1>3 DEF factory_init
  <2> QED
    BY <1>3, <2>1, BootLoads DEF Visible
<1> QED
  BY <1>1, <1>2, <1>3 DEF StoreKeeps, EmmcInv

\* One case per action.  Where the store moves, StoreMoves says what can be on
\* flash after the step; SaveDone and factory_init are known exactly.
LEMMA EnvInvNext ==
    ASSUME TypeOK, StoreKeeps, EnvInv, [EnvNext]_allvars
    PROVE  EnvInv'
<1>i. /\ Visible.files[EnvFile] \in maybe
      /\ env \in Data
      /\ pc = "off" <=> task = "boot"
      /\ task # "boot" => Committed.files[EnvFile] \in maybe /\ stored \in maybe
      /\ task = "relocate" => factory_buffer = Visible /\ Committed = Visible
      /\ pc \in {"erase", "write"} => task \in Saving
      /\ task = "write_env" => stored = env
      /\ task = "delete_env" => stored = NoFile
  BY DEF EnvInv, EnvOnFlash
<1>f. /\ EnvFile \in Path
      /\ stored = factory_buffer.files[EnvFile]
      /\ stored \in Data \cup {NoFile}
      /\ NoFile \notin Data
  BY FileInArchive
<1>g. stored' = factory_buffer'.files[EnvFile]
  BY DEF stored, tar_read
<1>m. pc # "off" /\ pc' # "off" =>
         /\ Visible'.files[EnvFile] \in maybe
         /\ Committed'.files[EnvFile] \in maybe
  <2>1. pc # "off" /\ pc' # "off" =>
         /\ Visible' \in {Visible, factory_buffer, Committed}
         /\ Committed' \in {Visible, factory_buffer, Committed}
    BY StoreMoves DEF StoreKeeps
  <2> QED
    BY <2>1, <1>i, <1>f
<1>s. UNCHANGED vars => /\ Visible' = Visible /\ Committed' = Committed
                        /\ pc' = pc /\ stored' = stored
                        /\ factory_buffer' = factory_buffer
  BY DEF vars, ram, ctl, Visible, Committed, stored
<1>1. CASE Booted
  <2>2. pc = "off" /\ pc' = "idle"
    BY <1>1 DEF Booted, factory_init
  <2>3. Visible' = Visible /\ factory_buffer' = Visible /\ Committed' = Visible
    BY <1>1 DEF Booted, StoreKeeps
  <2>4. task' = "relocate" /\ env' = env /\ maybe' = maybe
    BY <1>1 DEF Booted
  <2> QED
    BY <2>2, <2>3, <2>4, <1>i, <1>g DEF EnvInv, EnvOnFlash
<1>2. CASE env_relocate_spec
  <2>1. /\ task = "relocate" /\ maybe' = {stored}
        /\ task' \in {"saveenv", "idle"} /\ UNCHANGED vars
        /\ env' \in Data
    BY <1>2, <1>f, EnvAssumption DEF env_relocate_spec
  <2>2. Visible.files[EnvFile] = stored /\ Committed.files[EnvFile] = stored
    BY <2>1, <1>i, <1>f
  <2>3. pc \notin {"erase", "write", "off"}
    BY <2>1, <1>i DEF Saving
  <2> QED
    BY <2>1, <2>2, <2>3, <1>s DEF EnvInv, EnvOnFlash
<1>3. ASSUME UNCHANGED vars, maybe' = maybe, env' \in Data,
             task \notin {"boot", "relocate"}, pc \notin {"erase", "write"},
             task' \in {"saveenv", "idle", "console"}
      PROVE  EnvInv'
  BY <1>3, <1>s, <1>i DEF EnvInv, EnvOnFlash
<1>4. CASE saveenv_TooBig \/ do_env_save \/ \E v \in Data : setenv(v)
  <2>1. /\ UNCHANGED vars /\ maybe' = maybe /\ env' \in Data
        /\ task \in {"saveenv", "idle"} /\ task' \in {"saveenv", "idle"}
    BY <1>4, <1>i DEF saveenv_TooBig, do_env_save, setenv
  <2>2. pc \notin {"erase", "write"}
    BY <2>1, <1>i DEF Saving
  <2> QED
    BY <2>1, <2>2, <1>3
<1>5. CASE saveenv
  <2>1. /\ pc = "idle" /\ pc' = "idle" /\ flash' = flash
        /\ factory_current_pp' = factory_current_pp
        /\ factory_buffer' = tar_add(factory_buffer, EnvFile, env, tail)
        /\ task' = "write_env" /\ maybe' = maybe \cup {env} /\ env' = env
    BY <1>5 DEF saveenv, factory_write, ctl
  <2>2. stored' = env
    BY <2>1, <1>g, <1>i, <1>f, EditedFile
  <2> QED
    BY <2>1, <2>2, <1>m, <1>i DEF EnvInv, EnvOnFlash
<1>6. CASE delete_env
  <2>1. /\ pc = "idle" /\ pc' = "idle" /\ flash' = flash
        /\ factory_current_pp' = factory_current_pp
        /\ factory_buffer' = tar_delete(factory_buffer, EnvFile, tail)
        /\ task' = "delete_env" /\ maybe' = maybe \cup {NoFile} /\ env' = env
    BY <1>6 DEF delete_env, factory_delete, ctl
  <2>2. stored' = NoFile
    BY <2>1, <1>g, <1>i, <1>f, EditedFile
  <2> QED
    BY <2>1, <2>2, <1>m, <1>i DEF EnvInv, EnvOnFlash
<1>7. CASE factory_command
  <2>0. task = "idle" /\ env' = env /\ maybe' = maybe
    BY <1>7 DEF factory_command
  <2>1. ASSUME pc = "idle", pc' = "idle", stored' = stored, task' = task
        PROVE  EnvInv'
    BY <2>0, <2>1, <1>m, <1>i DEF EnvInv, EnvOnFlash
  <2>2. ASSUME NEW f \in Path, NEW d \in Data, <<f, EnvFile>> \notin Prefix,
               factory_write(f, d)
        PROVE  pc = "idle" /\ pc' = "idle" /\ stored' = stored
    BY <2>2, <1>g, EditedFile DEF factory_write, ctl
  <2>3. ASSUME NEW f \in Path, <<f, EnvFile>> \notin Prefix, factory_delete(f)
        PROVE  pc = "idle" /\ pc' = "idle" /\ stored' = stored
    BY <2>3, <1>g, <1>i, EditedFile DEF factory_delete, ctl
  <2>4. CASE task' = "console" /\ UNCHANGED vars
    <3>1. pc \notin {"erase", "write"}
      BY <2>0, <1>i DEF Saving
    <3> QED
      BY <2>0, <2>4, <3>1, <1>i, <1>3
  <2> QED
    BY <1>7, <2>1, <2>2, <2>3, <2>4 DEF factory_command
<1>8. ASSUME pc # "off", pc' # "off", stored' = stored, task \in Saving,
             pc' \in {"erase", "write"} => task' \in Saving,
             task' \in {task, "idle"}, env' = env, maybe' = maybe
      PROVE  EnvInv'
  BY <1>8, <1>m, <1>i DEF EnvInv, EnvOnFlash, Saving
<1>9. CASE SaveBegins \/ SaveStep
  <2>1. /\ factory_buffer' = factory_buffer
        /\ pc # "off" /\ pc' # "off"
        /\ task' = task /\ env' = env /\ maybe' = maybe
        /\ task \in Saving
    BY <1>9, <1>i DEF SaveBegins, SaveStep, factory_save, BeginSave, EraseUnit,
                      WriteUnit, ram, envvars
  <2> QED
    BY <2>1, <1>8, <1>f, <1>g
<1>10. CASE SaveSucceeds
  <2>2. /\ pc = "write" /\ pc' = "idle" /\ factory_buffer' = factory_buffer
        /\ task' = "idle" /\ env' = env
        /\ maybe' = IF task = "write_env" THEN {env}
                    ELSE IF task = "delete_env" THEN {NoFile} ELSE maybe
    BY <1>10 DEF SaveSucceeds, SaveDone, Return, StoreKeeps
  <2>3. Visible' = factory_buffer /\ Committed' = factory_buffer
    BY <1>10 DEF SaveSucceeds, StoreKeeps
  <2>4. stored \in maybe' /\ stored' = stored
    BY <2>2, <1>i, <1>f, <1>g DEF Saving
  <2> QED
    BY <2>2, <2>3, <2>4, <1>i, <1>f DEF EnvInv, EnvOnFlash
<1>11. CASE SaveFails
  <2>1. /\ factory_buffer' = factory_buffer
        /\ pc # "off" /\ pc' = "idle"
        /\ task' = "idle" /\ env' = env /\ maybe' = maybe
        /\ task \in Saving
    BY <1>11 DEF SaveFails, factory_save_Rejected, EraseFails, WriteFails, Return,
                 ram, ctl, StoreKeeps
  <2> QED
    BY <2>1, <1>8, <1>f, <1>g
<1>12. CASE PowerCut
  <2>1. /\ pc' = "off" /\ flash' = flash
        /\ task' = "boot" /\ env' = Default /\ maybe' = maybe
    BY <1>12 DEF PowerCut, PowerFails
  <2>2. Visible' = Visible
    BY <2>1 DEF Visible
  <2> QED
    BY <2>1, <2>2, <1>i, EnvAssumption DEF EnvInv, EnvOnFlash
<1>13. CASE UNCHANGED allvars
  <2>1. UNCHANGED vars /\ task' = task /\ env' = env /\ maybe' = maybe
    BY <1>13 DEF allvars, envvars
  <2> QED
    BY <2>1, <1>s, <1>i DEF EnvInv, EnvOnFlash
<1> QED
  BY <1>1, <1>2, <1>4, <1>5, <1>6, <1>7, <1>9, <1>10, <1>11, <1>12, <1>13
     DEF EnvNext, Running, Command

-----------------------------------------------------------------------------
(* Theorems *)

\* The inductive invariant of the environment (env_factory.c) on a medium that
\* is erased before it is written: while the archive is edited in RAM, saved,
\* lost with the power and loaded again, its env.txt on flash and in RAM is one
\* that the results of saveenv and delete_env so far allow for.
THEOREM EnvInvariant ==
    ASSUME Flash # "EMMC", Faults \subseteq {"erase", "write"}, RootPrefix = {}
    PROVE  EnvSpec => []EnvInv
<1> DEFINE IInv == TypeOK /\ PingPong /\ EnvInv
<1>1. EnvInit => IInv
  BY TypeInit, PingPongInit, EnvInvInit DEF EnvInit
<1>2. IInv /\ [EnvNext]_allvars => IInv'
  <2> SUFFICES ASSUME IInv, [EnvNext]_allvars
               PROVE  IInv'
    OBVIOUS
  <2>1. [NextNoReset]_vars
    BY EnvStep DEF EnvInv
  <2>2. [Next]_vars
    BY <2>1 DEF Next
  <2> QED
    BY <2>1, <2>2, TypeNext, PingPongNext, ErasedStoreKeeps, EnvInvNext
<1>3. IInv => EnvInv
  OBVIOUS
<1> QED
  BY <1>1, <1>2, <1>3, PTL DEF EnvSpec

\* On a medium that is erased before it is written, after saveenv (env_factory.c)
\* has answered "done" every boot finds that environment until the next saveenv
\* or delete_env, and after one that failed the environment of before or of that
\* call, whatever power failures, errors and saves of other files come between.
THEOREM EnvIsKept ==
    ASSUME Flash # "EMMC", Faults \subseteq {"erase", "write"}, RootPrefix = {}
    PROVE  EnvSpec => []EnvOnFlash
<1>1. EnvSpec => []EnvInv
  BY EnvInvariant
<1>2. EnvInv => EnvOnFlash
  BY DEF EnvInv
<1> QED
  BY <1>1, <1>2, PTL

\* The same invariant on an eMMC, where a save overwrites the older copy in
\* place and may be cut off with half of it new.
THEOREM EmmcEnvInvariant ==
    ASSUME Emmc
    PROVE  EnvSpec => []EnvInv
<1> DEFINE IInv == TypeOK /\ EmmcInv /\ EnvInv
<1>1. EnvInit => IInv
  BY TypeInit, EmmcInit, EnvInvInit DEF EnvInit
<1>2. IInv /\ [EnvNext]_allvars => IInv'
  <2> SUFFICES ASSUME IInv, [EnvNext]_allvars
               PROVE  IInv'
    OBVIOUS
  <2>1. [NextNoReset]_vars
    BY EnvStep DEF EnvInv
  <2>2. [Next]_vars
    BY <2>1 DEF Next
  <2> QED
    BY <2>1, <2>2, TypeNext, EmmcNext, EmmcKeeps, EnvInvNext
<1>3. IInv => EnvInv
  OBVIOUS
<1> QED
  BY <1>1, <1>2, <1>3, PTL DEF EnvSpec

\* On an eMMC too, what saveenv and delete_env (env_factory.c) report holds at
\* every later boot until the next of these calls.
THEOREM EmmcEnvIsKept ==
    ASSUME Emmc
    PROVE  EnvSpec => []EnvOnFlash
<1>1. EnvSpec => []EnvInv
  BY EmmcEnvInvariant
<1>2. EnvInv => EnvOnFlash
  BY DEF EnvInv
<1> QED
  BY <1>1, <1>2, PTL
=============================================================================
