# The factory store, the mesh daemon and the IGMP proxy, in TLA+

This directory models the parts of the TerraMaster / Realtek firmware tree that
carry logic of their own and are hard to test:

* how the boot loader of the RTD1195 NAS keeps its configuration: a tar archive
  in RAM, saved to two ping-pong copies on SPI flash, NAND or eMMC, and the
  U-Boot environment stored in it. Its failure bricks a device or silently loses
  its settings, and its hard cases (the power fails between two blocks of a
  write, a sequence number wraps around, an error is reported half way) a test
  hardly reaches;
* the 802.11s path selection daemon: nodes that set up paths by flooding requests
  over lossy links, elect a root among the portals, and run an event loop driven
  by signals;
* the IGMP proxy: groups and members in static tables, timers that live inside
  the table's slots, and a kernel routing table that has to follow.

## 1. Inventory

The repository is an OpenWrt tree: build rules, packages, kernel patches and
two boot loaders. Most of it is third-party code. The parts with logic of their
own:

| component | where | state | operations | with whom |
|---|---|---|---|---|
| factory store | `u-boot32/arch/arm/cpu/armv7/rtd1195/factorylib.c` | the archive in RAM, dirty flag, current copy, sequence number; two copies on flash | `factory_init`, `factory_write`, `factory_delete`, `factory_read`, `factory_save`, `factory_reset` | called by the environment, by the panel settings and by the console; calls tar and the flash drivers |
| tar archive | `u-boot32/lib/tar.c` | none of its own; walks and rewrites the archive in place | `tar_add_or_delete`, `tar_read`, `tar_read_by_index`, `tar_check_header` | called by the store |
| flash drivers | `cmd_rtkspi.c`, `nand_base_rtk.c`, `rtkmmc.c` | the flash | erase and write in units, error reports, remapping of a bad NAND page | called by the store |
| environment in the store | `u-boot32/common/env_factory.c`, `env_common.c` | the variables in RAM, `env.txt` in the archive | `env_relocate_spec`, `saveenv`, `delete_env` | `factory_write`, `factory_delete`, `factory_save` |
| boot parameters, panel settings | `bootparam.c`, `env_panel.c`, `customized_feature.c` | copies of files of the archive | parsing; `env_panel.c` also writes one file | `factory_read` |
| boot flow, firmware table | `u-boot32/common/cmd_boot.c` | table of firmware parts | choose, load, fall back to rescue | reads flash, starts Linux |
| mesh on-demand paths | `mesh-pathsel/src/11s-PathSelection/Path_OnDemand.c`, `util_PathUpdate.c` | per node: table of paths (in the driver), `My_SeqNum` | `gen_rreq`, `recv_rreq`, `forward_rreq`, `gen_rrep`, `recv_rrep`, `gen_rerr`, `recv_rerr`, `updatePathByFreshness` | frames between nodes; the wireless driver |
| mesh portals and root | `Tree_Proactive.c`, `Tree.h`, `init_root` and `callback_usr2` of `pathselection.c` | kind of device, root entry, pool of portals, retransmission buffers, counters | `gen_pann`, `gen_rann`, `recv_pann`, `recv_rann`, `tbl_pann`, `tbl_rann`, `root_decision`, `pann_handler` | announcements between nodes, a one-second alarm, SIGUSR2 from the bridge |
| mesh event loop | `pathselection.c` | `gHasData`, disposition of SIGUSR1 | `main`, `do_daemon`, `dequeue_from_driver`, `callback_usr1`, `TimerFunc` | driver's event queue, signals |
| IGMP proxy | `package/network/services/rtk-igmpproxy/files` | tables of groups and members, callout list | `igmp_accept`, `add_group_and_src`, `del_group_and_src`, the query timers, `timeout`, `calltimeout` | IGMP packets, kernel memberships and routes, SIGUSR2 |
| upgrade scripts | `target/linux/rtd1295` | flash partitions | check and write an image | boot flow |

The boot loader is one thread with no interrupts that touch this state, so
there is no concurrency inside the store. What is hard there is failure and
history: the power fails between any two units; an operation of a driver fails
and the caller goes on; a save is tried again; a number is compared with one that
was written long before; a buffer still holds what an earlier step left in it. In
the mesh, copies of one request overtake each other, frames are lost or come
twice, nodes restart with their numbers at 1, and information about a node that
is gone lives on at the others for a while; in the daemons, signals cut in
between any two steps, and a timer expires when what it was started for has
changed. What makes each component correct:

* **store**: whenever the power fails, the next boot finds the archive of the
  last successful save or that of the interrupted one, whole; a save that
  returns 0 is found; a reset leaves nothing behind; a clean archive is a saved
  one; a save stays in its copy.
* **tar**: after an add or a delete the archive holds what it should, whatever
  order the files are in and whatever lies behind the archive; a read finds what
  was written; the temporary buffer is not overrun.
* **environment**: what `saveenv` and `delete_env` report is what every later
  boot finds; a device without an environment gets one.
* **on-demand paths**: next hops never form a loop; a path leads to a node that
  has one; a request is answered.
* **portals and root**: after a fault every connected part of the mesh settles on
  one root, the running candidate with the smallest address, and everybody knows
  it and the portals in reach.
* **event loop**: no order of events and signals makes the daemon sleep for good
  or lets its handler interrupt the draining of the queue; signalled events are
  taken.
* **IGMP proxy**: the kernel routes exactly the groups that are listed, each of
  which is watched by a timer; a timer drops a group only after asking for it;
  groups whose hosts are gone go too; no slot of a table is lost.

## 2. Modules

| module | contents |
|---|---|
| `Tar` | the archive as a value: root header present, files, redundant headers; what an add and a delete make of it; sizes in 512-byte blocks |
| `TarWalk` | the loops of `tar.c`, entry by entry, over a sequence of entries |
| `AtomicStore` | what the store promises its callers: an archive edited in RAM and saved in one step |
| `FactoryStore` | `factorylib.c` on any of the three media, block by block; extends `Tar`, instantiates `AtomicStore` |
| `FactoryStoreInv` | the store's inductive invariants: `PingPong`, `WholeInv`, `ResetInv`, `EmmcInv` |
| `FactoryEnv` | `env_factory.c` and the console's `factory` command, composed with `FactoryStore` |
| `PathTable` | an entry of the path table and when `updatePathByFreshness` takes a record for it; shared by the next two |
| `MeshOnDemand` | `Path_OnDemand.c` at every node, with ordered links that lose and repeat frames |
| `MeshRoot` | `Tree_Proactive.c` with `init_root` and `callback_usr2`, in rounds of a second |
| `MeshDaemon` | the event loop of one daemon, step by step, with its signals |
| `IgmpProxy` | `main.c` and `timeout.c` of the proxy |
| `FactoryStoreProofs` | theorems of the store with everything that can happen: for every medium and fault, and for erased media with reset and faults |
| `FactoryStoreAtomicity` | atomicity of the store, on erased media and on eMMC, and the theorems of `FactoryEnv` that rest on it |
| `TarWalkProofs`, `MeshDaemonProofs`, `MeshOnDemandProofs`, `MeshRootProofs`, `IgmpProxyProofs` | theorems of the modules they are named after |
| `NaturalsLemmas` | a set of numbers has a least member, a bounded one a greatest |
| `MCFactoryStore`, `MCFactoryEnv`, `MCTarWalk`, `MCMeshOnDemand`, `MCMeshRoot`, `MCIgmpProxy` | constants for TLC |

`MeshOnDemand` and `MeshRoot` are separate because the two protocols share only
the format of the path table: announcements fill the entries of portals, requests
and replies those of the nodes that ask and answer. Both take a handler as one
step; `MeshDaemon` is where the steps of the loop around the handlers, and the
signals between them, are looked at.

### State and actions of FactoryStore

`flash[s][i]` is block `i` (512 bytes) of copy `s`. A block is blank, zero, an
RTK header (number, size, and whether the archive starts with the root header)
or block `i` of an archive. A block cut short by a fault is blank, that is, it
is no header and no part of an archive. `factory_buffer` is the archive in RAM,
`header` its first block, `tail` whether an RTK header lies behind it, `header2`
the first block of `factory_buffer2`, which follows in memory. `pc`, `pos` and
`caller` say where in `factory_save` the boot loader is.

| action | code |
|---|---|
| `factory_write`, `factory_delete` | the functions of that name, and `tar_add_or_delete` under them |
| `factory_save`, `factory_save_Rejected` | `factory_save` and `factory_save_to_*` up to the first access to flash, or to the error return |
| `EraseUnit`, `WriteUnit` | one erase unit, one program operation of the drivers (eMMC is not erased) |
| `SaveDone` | the success path: the trailing header removed from RAM, the copy made current |
| `EraseFails`, `WriteFails` | the error returns after any part of the work |
| `PageRemapped` | what `nand_write_ecc` does when a page cannot be programmed |
| `factory_reset`, `ResetSaves` | `factory_reset`: an empty archive, saved twice |
| `PowerFails`, `factory_init` | the RAM is lost; the sanity check of the two copies and the load |
| `factory_init_ReadError` | a header that cannot be read; `ret = -1` is not reset for the second copy |

A boot is `Valid` (a good header and the same header behind the archive),
`Newer` (the comparison of sequence numbers, with its wrap-around test) and
`Loaded`. `Found(flash)` is what a boot would find now; the properties are about
it. `NAS_ENABLE` is defined for every RTD1195 board, so the runs have
`NAS = TRUE`; the definitions keep the other build. `Prefix` and `RootPrefix`
say which path strings are prefixes of others: `tar_add_or_delete` matches with
`strstr(name, path) == name`.

### FactoryEnv

`env` is the environment in RAM, `task` what the boot loader is doing, `ret`
what the last `saveenv` of this boot printed, and `maybe` a history variable:
what `env.txt` may be at the next boot, judged only from the results of
`saveenv` and `delete_env`. Every action is an action of the store together with
what the environment does around it, so that a power failure or an error cuts in
at every unit of flash.

### TarWalk

A call of `tar_add_or_delete` is one step per entry: a matching entry is
replaced (the first time, when adding) or dropped, another one is kept, a
redundant RTK header is skipped by the NAS build, and the end appends the file
and copies back. A header may lie behind the archive (`LeaveTail`), as a failed
save leaves it. `read` and `by_index` are the two readers: `by_index(k)` holds the
place of the entry that `tar_read_by_index` stops at, the one with `k` environment
entries before it. The size of a run of entries is the number of blocks they take
(`Taken`, a set of pairs of entry and block), and `im` is the archive that `Tar`
computes for the same calls.

### MeshOnDemand

`table[n][d]` is `n`'s path to `d`, `seq` every node's `My_SeqNum`, `chan[l]` the
frames on link `l`, `found` what the drivers were told. `gen_rreq` and `gen_rerr`
are the events that the driver gives the daemon; `Receive` takes the next frame
of a link and is `recv_rreq` (dropped, answered or forwarded), `recv_rrep` or
`recv_rerr`. The metric of a hop is reported by the driver with the frame.
`Lose`, a frame that stays in its queue, and `Restart` are the faults.
`Accepts` (in `PathTable`) is `updatePathByFreshness`: it decides by number,
metric, hop count and previous hop. The next hop of a unicast frame is looked up
by the driver in the table after the handler has changed it.

### MeshRoot

`node[n]` holds the static variables of a daemon. In a round every running node's
`TimerFunc` runs once, in any order: the counters of `pann_handler`, what it
generates, what it retransmits, and the timeouts of pool and root, in the order
of the code. Its frames are handled at the neighbours in the same step: handling
an announcement sends nothing (it fills a buffer that the next alarm sends), so
deliveries at different nodes commute. `portals` are the nodes started with `-P`, one
of the `Setups`. `Crash` and `Start` are power cycles.

SIGUSR2, the bridge changing its port, is not masked inside the handlers.
`callback_usr2` is a signal between two of them. `recv_rann_Interrupted` is one inside
`recv_rann`, at any point from the test of `isRoot` to the change of the root entry:
`Verdicts` are the results that the tests of the entry can have when it changes
before, between or after them. `root_decision_Interrupted` is one inside
`root_decision`, which has decided that the node is root and not yet written it down.
`torn` is a history variable, the nodes one of whose handlers was interrupted in one
of these ways. At another point of a handler a signal counts as one before or after
it, and a handler is interrupted once.

### MeshDaemon

`pc` is the place in `main` and `do_daemon`; `callback_usr1` and `TimerFunc` may run
at every one of them, and the driver's `Arrive` signals only when it knows the
daemon's pid and the signal is not ignored.

### IgmpProxy

`mcft[s]` is a slot of `mcft_entry_tbl`, with the timer in it; `valid` are the slots
in use and `mcpq` those in the list of groups. The two differ: a leave starts the
timer of a slot it has just freed, and `add_mcft` keeps the slot it took when no
member entry is left. A timer is its time left, or `Off` when it is not in the
callout list. `igmp_accept` is one packet (reports with several records are taken
one by one), `calltimeout` one callback, `Tick` a second. Callbacks of different
slots commute, so the order of the callout list is left out; the one thing that
depends on its pointers, a timer lost when SIGUSR2 changes the list inside
`timeout` or `untimeout`, is a choice in `callback_usr2`. The clock is set forward and
back (`ClockSet`), which brings timers closer or moves them away; by how much one is
overdue is not kept, it counts as due now. `asked` is a history variable: the queries tried for a group since its
last report. `igmp_query` may fail to send one, and its result is ignored; nothing
in the proxy depends on it. `del_mr` leaves a group that was never joined, where
`IP_DROP_MEMBERSHIP` fails, as it is.

## 3. Runs

| run | configuration | shows |
|---|---|---|
| `spi` | serial flash, reset, power failures | `TypeOK`, `OldOrNew`, `SaveOkIsVisible`, `ResetClearsBoth` |
| `nand_faults` | NAND, read, erase and write errors, remapped pages, reset, a path that is a prefix of the root header | `NoTornCopy` |
| `emmc` | eMMC, overwritten in place, no reset | `SavesAreAtomic` (the store implements `AtomicStore`), `CleanIsSaved` |
| `env` | the environment on the store, NAND with erase and write errors, wrapping numbers | `PingPong`, `NoRedundantHeader`, `EnvOnFlash`, `EnvInv`, `BootStoresEnv` |
| `tarwalk` | up to the entries that fit, prefixes, a stale header | `WalkComputesTar`, `ReadsBack`, `IndexEnumerates`, `TmpFits` |
| `mesh` | a triangle with a portal and its station, loss, repetition, restarts | `TypeOK`, `LoopFree`, `NoBlackHole`, `PathShape`, `Answered` |
| `root` | a line of three nodes, two candidates, one or two portals, one crash (with or without a start) or change of a port, also inside `recv_rann`, and one more inside `root_decision` | `TypeOK`, `DeviceKind`, `Elected`, `PortalsKnown` |
| `daemon` | the event loop with a queue of 12 | `TypeOK`, `NeverDeaf`, `NoDoubleCatch`, `Drained` |
| `igmp` | two hosts, two groups, tables that fill up, a clock set both ways | `TypeOK`, `RoutesFollowGroups`, `Watched`, `AskedTwice`, `NoSlotLost`, `Quiesces` |
| `emmc_torn`, `emmc_overflow`, `nand_remap` | | expected violations, below |

**Bounds.** A copy has 7 or 8 blocks: room for the root header, two files, the
trailing header and the padding, and small enough that archives at and over the
size limits occur. NAND has two erase units of two pages per copy, so that a
power failure falls between erase units, between pages of a unit and across
them (in `env`, whose subject is the caller, a page is as large as a unit); the
eMMC runs have a file of three blocks, so that a copy is torn inside a file.
`SeqMod` stands for 2^32: in `env` all numbers are used and the comparison is met
on both sides of the wrap; the other runs cannot reach a wrap before `MaxSeq` saves, which is enough there because their
subject is the media or the reset. Two contents suffice to tell one save from
another, as no definition compares more than two copies and the archive in RAM.
`Data` is symmetric in `nand_faults`, which checks an invariant only.

In `mesh` three events, requests and faults together, fall anywhere: two
overlapping requests and a loss, a request with a frame that comes twice, a
restart between two requests. The triangle has a direct link that costs more than
the way over the third node, the smallest mesh in which the copies of a request
overtake each other and a reply can go back another way than the request came.
The ttl is as long as the longest way round. In `root` the timeouts are scaled
down and keep the order the code has, announcement interval (1) < timeout (4) <
arbitration time (5), for 1, 17 and 20 seconds; `Settle` covers the timeout, the arbitration and the way
of an announcement through the line, and after it the state repeats. One candidate
is a portal in only one of the two `Setups`, so that a change of its port falls on a
root, on a portal and on a node that can become root inside `recv_rann`. The signal
inside `root_decision` may be a second fault, since a node decides only after the loss
of a root; `DeviceKind` covers what follows, whereas `MaxTime` ends before `Elected`
speaks again. The ttl of
announcements is larger than any mesh checked and left out. In `igmp` the tables
have two entries each, so that the table of members is full while a slot of
groups is free and the other way round; the query counts of a
group are the code's (2 and 3), and its two intervals are scaled down in their
order. The general queries change nothing but their own timers, so their
intervals and counts are as small as possible. `RetryMod` stands for 2^32. The clock
goes forward by any interval and back by `MaxBack`. Five
packets, signals, changes of the clock and restarts fall anywhere between the
timers.

**Fairness.** `FactoryStore` has none: its properties are safety properties, and
the power may fail at any time. `FairEnvSpec` has weak fairness of `Running`, the
steps that the boot loader takes by itself: it is one thread that does not wait
for anything in these functions. Commands and power failures are not fair.
`MeshOnDemand` has weak fairness of every `Receive(l)`: a frame in a driver's queue
is handled in the end. The loop takes what is signalled (`Drained`), and in this mesh
the portal's announcements, one a second, see to it that something is. `MeshDaemon`
has it for the loop, the delivery of its signal and the alarm, which `TimerFunc` sets
again. It has none for `Arrive`: only portals and roots announce themselves
(`Tree_Proactive.c:124-153`), so in a mesh without a portal no event need come.
`Drained` therefore claims nothing of an event that
arrives between the driver's "queue is empty" and the installation of the handler: it
is not signalled and waits for the next one. `IgmpProxy` has it for `Tick` or
`calltimeout`: the main loop wakes ten times a second. Packets, signals, losses and
restarts are not fair. Deadlock is not checked in `mesh` and `root`, where nothing
is left to do once the bounds on events and time are used up.

### Expected violations

* `emmc_torn`: `factory_reset` starts the numbers at 1 again and an eMMC copy is
  overwritten in place. A later save can have the number and the size of the one
  it overwrites; its front header then equals the stale trailing header, and if
  the power fails between the two the copy is accepted although it mixes two
  archives. Without reset (`emmc`) two successive saves to a copy differ by 2, and
  the trailing header works.
* `emmc_overflow`: `factory_write` and `factory_save_to_eMMC` both accept an
  archive of `CONFIG_FACTORY_SIZE/2 - TAR_PADDING_SZ` bytes; with the trailing
  header and the padding the save writes a block past its copy.
* `nand_remap`: `nand_write_ecc` answers a failing page by remapping the first
  block of the write, without the pages already written, and reports success;
  the front header is lost, and the copy that `factory_save_to_NAND` takes for
  current is not valid.

### Observations

What the code does in cases that the properties above leave out, met while
modelling. None is claimed by a run.

* *Size check on NAND* (`factorylib.c:1007`): it leaves out the trailing header and
  the padding, so a save of the largest archive writes the erase block that the
  comment at 1005 calls reserved. Nothing else uses that block.
* *Wrap-around after a reset* (`factorylib.c:175`, `435`, `800`): the comparison of
  sequence numbers takes a number in copy 1 that exceeds the one in copy 0 by more
  than `0xFFFFFFF0` for a wrap. A reset starts at 1 again in the copy that is not current,
  which may be copy 0; odd numbers then go to copy 0, and the wrap comes from copy
  0 to copy 1, where the test does not look for it. The save that wraps returns 0
  and the next boot takes the older copy. It takes 2^32 saves. Met as the
  counterexample to a proof of `SaveOkIsVisible` with reset and wrap, and seen in
  TLC with `SeqMod = MaxSeq = 4`.
* *Freshness of requests* (`util_PathUpdate.c:241-304`): a fresher record with a
  worse metric from another neighbour is dropped (the comment, case 3e, has it
  update the path, "pending"); an equally fresh one with a worse metric from the
  next hop in use is taken (case 3a has it dropped); a rebooted node's smaller
  numbers are dropped until they have caught up (Exception 1 lists the case).
  The comment above `recv_rreq` compares requests per pair of issuer and
  destination, the code per issuer.
* *Answers* (`Path_OnDemand.c:504`): only portals answer, for themselves and their
  stations; a request for another mesh point is flooded and not answered, where
  the comment (4a) has every destination answer. `Answered` is about portals.
* *Restarts in the mesh*: a node that restarts has an empty table and may take an
  old copy of a request that came through the very node that uses it, which
  closes a loop; `LoopFree` and `NoBlackHole` make no claim after a restart. Nor
  does `LoopFree` for metrics that change from frame to frame, or for paths to
  portals, which replies set up too. An RERR of a restarted node may not reach
  the source, as the node has no path to it.
* *Two crashes* (`Tree_Proactive.c:222`): if the root and the next candidate die
  within a few seconds, the survivor decides while its pool still holds the
  second one, leaves the root to it, and never decides again, since only the
  timeout of a root clears `rootDecision`. `Elected` is checked with one fault.
* *SIGUSR2 inside `recv_rann`* (`Tree_Proactive.c:698-732`): the bridge gives a
  candidate its port between the test of `isRoot` and the copy of the address. The
  node is root, and its root entry names the other root, whose announcements it
  ignores if its own address is the smaller one. The others take it for their root
  all the same. A second change of the port then finds an entry that is not
  the node's own and leaves `isRoot` set with `isPortal` clear, a node without timers.
* *SIGUSR2 inside `root_decision`* (`Tree_Proactive.c:238`, `259`): the bridge takes
  the port of a node that has just decided to be root; `init_root` finds no root
  entry to clear, and `isRoot` is set after it. Again a node without timers.
* *An event that is not signalled* (`pathselection.c:523-525`): an event that arrives
  after "Queue is empty" and before SIGUSR1 is caught again stays in the queue until
  the next one is signalled. The alarm wakes the loop, but `gHasData` is 0.
* *IGMP, the last known member leaves* (`main.c:1398`): the group is dropped at
  once. Rule 4 of the comment at 773 asks twice first; with version 2 hosts, which
  keep silent when another one reports, the last known member need not be the
  last one, and the group is missing until the next report.
* *IGMP, full tables* (`main.c:483`): a report for a new group that finds the table
  of members full takes a slot of the table of groups for good.
* *IGMP, version 3 reports of the current state* (`main.c:1521`) are not recorded for
  a group that is not listed, so a host that only answers queries is not seen
  after a restart of the proxy.
* *IGMP, a join that fails* (`main.c:1231`) is ignored: the group is listed and
  routed, and later reports do not join again.
* *IGMP, a drop that fails* (`main.c:1195-1243`) is ignored too: when SIGUSR1 has
  changed the address of the upstream interface, `IP_DROP_MEMBERSHIP` names another
  interface than the join did, and the group stays joined.
* *IGMP, a query that is not sent* (`main.c:1727-1802`, no interface or a failing
  `sendto`) counts as asked: the group is dropped although its hosts heard nothing.

## 4. Proofs

Everything here holds for every value of the constants under `TarAssumption`,
`WalkAssumption`, `FactoryAssumption`, `EnvAssumption`, `QueueAssumption`,
`PathTableAssumption`, `MeshAssumption`, `MeshRootAssumption` and `IgmpAssumption`,
and under what the table lists. "Erased" is a medium that is
erased before it is written (SPI or NAND); "rooted" is that no path is a prefix of
the root header (`RootPrefix = {}`).

| theorem | states | of | assumes |
|---|---|---|---|
| `TypeCorrect` | `TypeOK` | `FactoryStore` | |
| `HeaderNeverArchived` | `NoRedundantHeader` | | the NAS build |
| `WholeInvariant` | `WholeInv` | | erased |
| `CopiesAreWhole` | `NoTornCopy` | | erased |
| `StepsAreOldOrNew` | `OldOrNew` | | erased |
| `ResetInvariant`, `ResetEmptiesBoth` | `ResetInv`, `ResetClearsBoth` | | erased, no driver errors |
| `SaveOkAfterReset` | `SaveOkIsVisible` | | erased, no driver errors, rooted, no wrap |
| `PingPongInvariant` | `PingPong` | | erased, erase and write errors, rooted, no reset |
| `AtomicSaves` | `SavesAreAtomic` (refines `AtomicStore`) | | the same |
| `SaveOkAfterFaults` | `SaveOkIsVisible` | | the same |
| `EmmcInvariant` | `EmmcInv` | | eMMC, NAS build, no driver errors, rooted, no reset, no wrap |
| `EmmcSavesAreAtomic` | `SavesAreAtomic` | | the same |
| `EmmcCleanIsSaved` | `CleanIsSaved` | | the same |
| `EnvInvariant`, `EnvIsKept` | `EnvInv`, `EnvOnFlash` | `FactoryEnv` | as `PingPongInvariant` |
| `EmmcEnvInvariant`, `EmmcEnvIsKept` | `EnvInv`, `EnvOnFlash` | | as `EmmcInvariant` |
| `WalkComputes` | `WalkComputesTar` | `TarWalk` | the NAS build |
| `WalkFits` | `TmpFits` | | the same |
| `WalkReadsBack`, `WalkEnumerates` | `ReadsBack`, `IndexEnumerates` | | the same |
| `TypeCorrect`, `PathsHaveShape` | `TypeOK`, `PathShape` | `MeshOnDemand` | |
| `NoBlackHoles` | `NoBlackHole` | | (the property is about runs without a restart) |
| `NoLoops` | `LoopFree` | | (and with steady metrics) |
| `RootTypeCorrect` | `TypeOK` | `MeshRoot` | |
| `RootIsPortal` | `DeviceKind` | | (any number of faults) |
| `DaemonTypeCorrect`, `DaemonNeverDeaf`, `DaemonNoDoubleCatch` | `TypeOK`, `NeverDeaf`, `NoDoubleCatch` | `MeshDaemon` | |
| `TypeCorrect` | `TypeOK` | `IgmpProxy` | |
| `RoutesAreTheGroups`, `GroupsAreWatched` | `RoutesFollowGroups`, `Watched` | | |
| `DroppedAfterAsking`, `SlotsAreKept` | `AskedTwice`, `NoSlotLost` | | |

The assumptions on the store are needed. `nand_remap` and `emmc_torn` show what
happens with remapped pages and with a reset on eMMC. There a write error does the
same harm as a reset: the save that is tried again has the number of the failed
one, whose trailing header is still in place. After a path such as `tmp` is
deleted the root header is gone and no saved copy is accepted. A read error at boot or an error inside a reset leaves the boot loader
with a number below that of its current copy, so that a later save that returns 0
is not the newer one. "No wrap" is `MaxSeq < SeqMod`: fewer than 2^32 saves; the
observation on the wrap above says why `SaveOkAfterReset` has it, and on eMMC it
makes "older" a plain comparison of numbers.
`CleanIsSaved` holds neither on SPI and NAND, where `factory_write` accepts an
archive that the save then rejects as too big, nor after a driver error: both
clear the dirty flag.

### The store, erased media

*With everything that can happen.* `WholeInv` says that a header on flash points
inside its copy, that an accepted copy is one archive block by block, and how far
the save in progress has come (`Underway`): before `pos` the copy is the buffer,
after it blank, or else its front header has been lost to a remapped page and
will not be written again. Nothing is said about numbers, which mean little after
resets and read errors, and nothing is needed: a copy that is blank from `pos` on
has no trailing header, so it is accepted only once it is complete, and a step
changes one copy only (`CopyIsLocal`).

*Reset.* `ResetInv` adds, without driver errors, that the boot loader knows the
number of its current copy except during the first save of a reset, and that
after it the current copy is empty. The second save leaves that copy alone.

*Atomicity.* That the next boot finds the old or the new archive is not
inductive. `PingPong` adds what makes it so: an accepted copy is whole and its
header points inside it (`FlashOK`); even numbers go to copy 0 and odd ones to
copy 1 (`Parity`) and two accepted copies are one save apart (`Adjacent`), which
is why one comparison with a wrap-around test suffices (`NewerIsLater`); the
running boot loader's copy and number describe the flash (`Agrees`); and during a
save the copy being saved is blank from `pos` on and equal to the buffer before
it (`Progress`). The copy becomes valid in the one write that places the trailing
header (`OtherLands`, `Landing`); until then it is not (`OtherInvalid`), and the
other copy is not touched. That write is `Land` of `AtomicStore`,
an erase is `Discard` (a copy that a failed save had made visible goes) and
`SaveDone` is `Succeed`.

### The store, eMMC

Here the copy being saved holds the previous archive beyond `pos`, trailing
header included. `EmmcInv` keeps `FlashOK` and says that every header inside a
copy has a number no larger than that of the copy a boot takes (`OldHeaders`), so
that none can be taken for the one behind the new archive: the copy lands in the
write of that header and not before. Copy 0 may write one block into copy 1; that
block comes from `factory_buffer2`, and `Overwriting` and `Resting` say that it
holds the header of the current copy, so that the write changes nothing. What
`factory_write` accepts always fits (`factory_tarsize + Padding <= Half`), which
is why a clean archive is a saved one.

### The environment

The proof uses the refinement of `AtomicStore` and no detail of the flash: a
step changes what is visible only to the archive of the current copy or to the
one in RAM (`StoreMoves`), and `EnvInv` says that the environments of both are in
`maybe`. What it needs of the store is `StoreKeeps` (every step is one of
`AtomicStore`, a save that returns 0 has made its archive visible, a boot loads
what is visible); erased media (`ErasedStoreKeeps`) and the eMMC (`EmmcKeeps`) both
provide it, so that one step lemma (`EnvInvNext`) serves both. `EnvIsKept` and
`EmmcEnvIsKept` are the first conjunct of the invariant.

### The walk of tar

`WalkComputesTar` speaks of the state between calls. The invariant `IInv` of the
proof says in addition what the walk has done so far: the archive is well formed
(`WellFormed`: no name twice, and only the first entry may be the root header or
carry the RTK fields), `tmp` holds the entries before `i` that the call keeps and
the new file once it has replaced one, nothing else, and the first entry, if kept,
comes first (`Copied`); `im` is the archive before the call with the call's effect
(`Result`). Each step of the walk extends `Copied` by one entry, so that no
induction over the sequence of entries is needed. `CopyIsResult`
then reads the files off the entries, and `SizeIsTar` compares sizes: `Size` and
`tar_size` count sets of blocks, one indexed by the place of an entry and one by
its name, and a bijection between them makes the counts equal. `CopyFits` bounds
`tmp` by the archive plus the new file, which is what `factory_write` checked.
For the enumeration, `Places` counts: the number of environment entries before an
entry is different for each of the `c` entries and below `c`, so all of 0 to
`c - 1` occur.

The theorems are about the NAS build, the one the boards have. The other one
copies the header left behind an archive into it as a further entry, which
`WellFormed` excludes.

### On-demand paths

`ShapeInv` is about single frames and entries: a frame under way has a ttl of at
least 1 and has made no hop exactly if its sender is its origin; next hops are
neighbours. It survives every fault. Without restarts a node that sends a request
or reply on has a path to its origin (`NoGap`), and then no path ends at a node
that knows no way on (`PathsHold`). `LoopInv` is about a destination `d` that is
no portal, so that only requests of `d` write entries for it: the frames of `d` on
a link are ordered, the one sent later being at least as good (`Ordered`); the
sender of such a frame is `d` or has an entry as good as the frame (`SentFrom`);
and what a node's next hop knows, and what is still under way from it, is, with the
cost of the link added, as good as the node's own entry (`Downhill`). The pair of
number and metric thus gets strictly better along next hops. A set of nodes whose next hops stay inside it would have a member with the
largest number and, among these, the smallest metric, whose next hop is better
still (`NoCircle`). No induction over paths is needed, and the mesh may have any
size.

### Portals and root

`TypeInv` is `TypeOK` with the type of every variable of a daemon. Each timer function
and each receiver has a lemma that says what it keeps; the frames a timer sends are
handled one after the other (`AfterFrames`), and a first frame after which the type
was lost is refuted (`AfterFramesIn`). When the bridge takes the port from a root,
`init_root` clears `isRoot` only if the root entry names the node itself, so that
`isRoot => isPortal` alone is not inductive: `DeviceKind`, and `KindInv` for nodes that
are down, claim the entry too. Every function keeps both as long as it runs to its
end before a signal. An interrupted `recv_rann` or `root_decision` puts the node
into `torn`, of which only that it may be root is claimed, and a crash takes it out
again; the other nodes are not affected, so the number of faults does not matter.

### The event loop

Its two properties are inductive together with `Agree`: a signal is
pending only while it is caught, `gHasData` is set while the queue is drained and
clear when the handler is installed again, and the driver knows the daemon only
after the start.

### The IGMP proxy

`TypeOK`, `RoutesFollowGroups` and `Watched` are inductive together with `Asks`: the
queries tried for a listed group since its last report and the retries left exceed
the number of queries it takes to drop it. `Watched` is needed for
`RoutesFollowGroups`: the timer of a freed slot drops groups by address, and only
because it finds no member does it drop none. The two action properties follow
from the invariant step by step.

### Only model-checked

* `MeshRoot`: `Elected` and `PortalsKnown` are about rounds counted from the last
  fault, liveness in disguise. They hold for a `Settle` that fits the mesh and its
  timeouts, and for one fault (the observation on two crashes says why), so there
  is no statement for every value of the constants to prove.
* Liveness, which the provers do not do: `BootStoresEnv`, `Answered`, `Drained`,
  `Quiesces`.

## 5. What is left out

* Inside the drivers: registers, timing, retries, bad-block tables. The erase of
  an SPI chip of unsupported size, which the driver skips without an error, and
  the remapping of a block that fails to erase in the middle of a copy.
* An error while the data of the chosen copy is read: the NAND and eMMC loads
  ignore it and go on with what is in the buffer.
* The text of headers, their checksum and the CRC of the environment. A header
  is good or it is not; only `saveenv` writes `env.txt`, so its CRC is right.
* `factory_check_sanity_from_NAND_old` and its companions, which nothing calls, and
  the commands that only print.
* In the mesh: the ttl of announcements, more portals than the pool has slots, the
  driver's table and queue beyond what the daemon sees of them, the build that
  uses a FIFO instead of signals, logging and arguments. SIGALRM inside a handler
  of a request: both increment `My_SeqNum`, so two frames may carry one number.
  SIGUSR2 at the points of the handlers of announcements that section 2 does not name:
  between two timers of `pann_handler`, or inside the copy of an address.
* In the IGMP proxy: the builds with several WANs, version 3 tables
  (`igmpv3.c`) and querier selection, which this target does not set; the flag for
  multicast-to-unicast that start and `hup` write to `/proc/br_igmpProxy`
  (`main.c:242-260`), which the proxy does not read; the parsing of packets, packets
  that change nothing, and the signal (SIGUSR1) that updates interface addresses,
  after which a drop can fail (section 3).
* Of the console (`cmd_nvedit.c`): the checks of names and the hash table behind `setenv`,
  which is a change of the one value `env`.
* The components marked `not_modelled` in `PROJECT.json`.

## 6. Plan

Done: tar, the store on the three media, its atomicity, the environment; the
mesh daemon's three parts; the IGMP proxy.

Proofs done: every safety property of the passing runs but `Elected` and
`PortalsKnown`, in the cases that the table of section 4 lists.

Left is modelling: the panel settings as a further client of the store
(`env_panel.c` writes a file and saves); the boot flow, the choice of kernel and
rescue system from the firmware table, with the upgrade scripts.
