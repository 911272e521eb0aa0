# A TLA+ verification of the Fire3 boot path

The repository holds bare-metal programs for the NanoPi Fire3 (Samsung S5P6818,
eight Cortex-A53 cores) and what gets them onto the board: a U-Boot that boots
over the network, a USB loader and an ELF wrapper for the host, and small demo
programs. This project models the parts that keep state and can go wrong in ways
a test hardly reaches, checks them with TLC on small instances, and proves the
most important results with TLAPS.

Paths below are relative to the repository root. U-Boot is modelled as it is
built for the board: `U-Boot/configs/artik710_raptor_defconfig` with
`U-Boot/include/configs/artik710_raptor.h` (DHCP, ping, TFTP download, the
DesignWare Ethernet driver under driver model; no NFS, TFTPPUT, netconsole, DNS).

## 1. Inventory

How a boot goes: U-Boot's `bootcmd` gives the command `dhcp 0x40000000`, which
runs `net_loop` with DHCP; its ACK starts a TFTP download of `fire3.bin`, the
first packet of which waits for ARP; every packet goes through `eth_send` and
`eth_rx` and the rings of the driver; every timeout is measured with
`get_timer`. The command and its settings are variables of the environment, which
`setenv` changes and `saveenv` writes to the card. The program loaded is then
started, for instance `Timer`, which takes over the GIC and the timers as U-Boot
left them.

| part | source | state | operations that change it | what makes it hard |
|---|---|---|---|---|
| TFTP client | `U-Boot/net/tftp.c` | state, block numbers, wrap offset, block size, ports, timeout count, the image | send; receive OACK, DATA, ERROR; timeout; start | repeated and late packets, 16 bit block numbers that wrap, retries |
| network loop | `U-Boot/net/net.c`, `common/cmd_net.c` | `net_state`, handlers, timer, try count, result | command, poll, timer, start again, ctrl-C, return | handlers left from one command to the next, results by side effect |
| ARP | `U-Boot/net/arp.c` | who is waited for, tries, the packet waiting | request, reply, timeout | one shared packet buffer; the wait stops the other timers |
| DHCP client | `U-Boot/net/bootp.c` | state, id cache, backoff | DISCOVER, OFFER, REQUEST, ACK, NAK, timeouts | late answers to earlier requests, two servers |
| ping | `U-Boot/net/ping.c` | host asked | start, reply, timeout | replies to an earlier ping |
| Ethernet driver | `U-Boot/drivers/net/designware.c`, `net/eth.c` | two rings of descriptors, each owned by CPU or DMA | init, halt, send, recv, free | the DMA engine runs beside the driver; restarts from a handler |
| clock | `U-Boot/arch/arm/mach-nexell/timer.c` | time stamp, last counter value | `get_timer`, `__udelay` | 32 bit counter that rolls over, read only when asked |
| environment | `U-Boot/lib/hashtable.c`, `common/cmd_nvedit.c`, `common/env_common.c`, `common/env_mmc.c` | hash table and its counter, the copy on the card | set, delete, reset, save, load | marks of deleted entries, a full table, failures of the card and of the power during a save |
| Timer program | `Timer/` | GIC and timer registers, count, UART FIFO | set-up, print, interrupt | the interrupt comes anywhere, and prints on the same UART |
| printf | `Timer/printf.c`, `Hello1/printf.c` | none | formatting | digits and field widths |
| USB loader | `USB_loader/loader.c` | a buffer | read, pad, send | buffer edges, short transfers |
| ELF wrapper | `Arm_wrap/arm_wrap.c` | none | layout | offsets and sizes |
| demos | `Blink32`, `Blink64`, `BlinkEL`, `Mini`, `Hello1` | a GPIO bit | blink | start of several cores (`Blink64`) |
| boot stages | `Bootrom`, `Boot1`, `Boot_NSIH` | | | disassemblies, not source |
| SD card images | `SDcard` | the environment | | binary |
| rest of U-Boot | `U-Boot` | | | not on this path, or not built |

What must be right: the image in memory is the file, and `dhcp` or `tftpboot`
says "loaded" only when it is; every command ends; retransmission never stops
while something is waited for; the address used is one that was offered; frames
are neither lost with room in the ring, nor reordered, nor overwritten while in
use; a delay or timeout is never early; a variable that was set is found with its
value, and a start finds a whole environment; every timer interrupt is counted once
and nothing but the timer interrupts. `PROJECT.json` lists the hazards of the
code, each at its line, with the properties that cover it.

## 2. Modules

| module | models | properties and proofs |
|---|---|---|
| `FileTransfer` | the promise of a download, abstractly | refined by `Tftp` |
| `Tftp` | `tftp.c` with the part of `net_loop` it runs in; server and network external | 7 properties, 6 proved (in `TftpProofs`, `TftpShortFile`, `TftpIntegrity`) |
| `TftpTimely` | the same on a network that answers in time, losses counted | 1 property |
| `NetLoop` | `net_loop` over several commands, ARP, DHCP, ping | 10 properties, 9 proved (`NetLoopProofs`) |
| `DwEth` | the driver's rings, `eth_rx`, `eth_send`; DMA engine external | 10 properties, 7 proved (`DwEthProofs`); 1 that fails |
| `NexellTimer` | the clock, delays and timeouts | 3 properties, all proved (`NexellTimerProofs`) |
| `NameStore` | the promise of the environment, abstractly | refined by `Environment` |
| `Environment`, `MCEnvironment` | the hash table, the commands on it, its copy on the card; power supply external | 3 properties, all proved (`EnvironmentProofs`); 1 that fails |
| `TimerDemo`, `MCTimerDemo` | the Timer program; timer, GIC and UART external | 5 properties, 4 proved (`TimerDemoProofs`) |

Definitions keep the names of the C functions and variables. A definition whose
comment begins with "Mutant" is a plausible bug of one that follows it; put in
its place, it must break the property that `PROJECT.json` names.

### Tftp

The file is abstracted to positions: unit `i` of the file has the value `i`, and
a DATA packet carries `len` units from position `from`. `mem` is memory from
`load_addr` on, with a margin at both ends so that a misplaced block is seen
rather than lost. Block numbers are taken modulo `TFTP_SEQUENCE_SIZE` (65536 in
the code). `tftp_state`, `tftp_cur_block`, `tftp_prev_block`,
`tftp_block_wrap_offset`, `tftp_block_size`, `timeout_count` and the rest are the
variables of the C file.

`ClientReceive` is one call of `tftp_handler` (with the checks of
`net_process_received_packet` before it), `TftpTimeout` one of
`tftp_timeout_handler`, `StartAgainTimeout` of `start_again_timeout_handler`;
`NetLoopReturn` is the switch on `net_state` at the end of the loop, `CtrlC` the
check for it. The server is any that follows RFC 1350 and the option extension:
it answers an RRQ with DATA, with an OACK with or without `blksize`, or with an
error, opens a new transfer for each RRQ it sees, repeats its current packet
whenever it likes, and may send an error in any transfer at any time
(`ServerError`). `eth_rx` hands up packets even after the last block, so an error
heard then turns SUCCESS into FAIL; the image stays. The network loses anything, and with `Reorder` delivers in
any order.

### NetLoop

Time is explicit: `Tick` is one unit of `get_timer`, and an expired timer runs
before time goes on because `net_loop` polls. Everything sent is kept in `sent`
and any answer to any of it may arrive at any time, repeatedly or never, which
covers loss, delay, duplication and reordering at once. DHCP servers lease one
address each, named after the server, so an address or router from the wrong
server is seen. An answer has a router option or not (`routed`); the servers of
`Routers` always send one. Where the option is missing, `dhcp_process_options` leaves
the router of an earlier answer in place (`Gateway`). A command may end before anything
is sent, because `eth_init` fails or an address is missing (`Refuse`). The TFTP transfer itself is `Tftp`; here it ends in one of its
three ways (`TftpEnds`).

### DwEth

Each descriptor is owned by `"cpu"` or `"dma"`. `FrameArrives` and `FrameLeaves`
are the DMA engine. `eth_rx` is three steps (`Recv`, processing, `Free`) so that
frames come in between; a packet handler may send, stop the interface, or restart
it as `net_start_again` does. A length is the set of its binary digits, so that
the or of two lengths is a union.

### NexellTimer

`now` is the hardware counter (counting up, as `timer_read` turns it round).
`get_timer_masked` is a part of every action that asks for the time. `elapsed`,
`polledAt`, `rolls`, `from` and `since` are history: true time, which the code does
not have; `wraps` and `wrapsThen` count the roll-overs of the counter itself, now and
at the last reading.

### Environment

A bucket of `table` is free, deleted or an entry, by the `used` field of `_ENTRY`.
`path[n]` is the sequence of buckets `hsearch_r` looks at for the name `n` (first and
second hash, counting down and wrapping), `Find` its search, `Room` the bucket where it
would enter the name. `Set` and `Delete` are `setenv` with and without a value,
including the entry that is made first and taken back when flags or a callback refuse
it, `set_default_vars` is `env default` of a name, and `Import` and `ImportEntry` are
`himport_r`, one variable per step. `saveenv` exports the table and `WriteBlock` writes
it block by block over the only copy; `WriteFails` and `PowerFails` may come before
every block. A block that was being written may be torn. A checksum is the contents it
was computed from, so it fits exactly those.

The table size is assumed to be prime, since `hcreate_r` takes the first prime from the
size asked for (`hashtable.c:112`). Its `isprime` refuses 3, so the smallest table of the
code has 5 buckets; the runs have 3, of which every name's path still visits all.

### TimerDemo

`main` and the interrupt handler print one character per step, in two steps for
`main` (look at the FIFO, write), because the interrupt may come between them.
The GIC has software-generated (`Sgis`), private (`Ppis`) and shared (`Spis`)
interrupts, because `gic_init` treats them differently: it makes the shared ones level
triggered and leaves the private ones as they were, disables all but the
software-generated ones, and clears the pending state of all but those, whose pending
state the registers it writes do not reach. The initial state leaves open which
interrupts U-Boot leaves enabled or pending, how they are triggered, and the state of the
timer; none is active, since U-Boot takes no interrupt. `left` is history: the
software-generated interrupts left pending and not handled yet.

## 3. Runs

Runs that pass:

| run | what it shows |
|---|---|
| `tftp_fifo` | in-order network, losses, repetitions, wraps, restarts, ctrl-C: the image is the file, success means all of it, nothing is acknowledged before it is stored, the command returns, and `Tftp` implements `FileTransfer` |
| `tftp_reorder` | the same integrity under reordering, for a file shorter than a wrap |
| `tftp_losses` | up to `tftp_timeout_count_max` losses, wherever they fall, are repaired |
| `netloop_boot` | a `dhcp` with a restart and two servers: DHCP is never silent too long, gives up in time, is always timed by the protocol that listens, trusts only its own ids, and uses the router of the server that leased the address if that server names one |
| `netloop_session` | three commands one after the other, late answers of one reaching the next: each returns, the timers of one are not stopped by another, ARP releases the frame that waited, and without `netretry` and an earlier ping a non-negative result means the file is loaded |
| `dweth_rx`, `dweth_tx` | order, ownership and progress of the two rings beside the DMA engine |
| `nexell_timer` | what the time stamp loses at a roll-over; delays and timeouts are never early |
| `environment` | any order of commands in a table that fills up, refusals, failures of card and power: every entry is found, the counter is right, and `Environment` implements `NameStore` |
| `timer_demo` | every expiration counted once, no interrupt handled but the timer's and what U-Boot left pending, what two writers lose on one UART |

Runs whose property, taken from a comment or a document of the repository, the
code does not keep (the quotations are in `PROJECT.json`, "findings"):

| run | disagreement |
|---|---|
| `dweth_length` | lengths are or-ed into a descriptor that is used again |
| `env_evicts` | when every bucket is in use or marked deleted, a new variable overwrites another |

Some properties that pass are stated for less than one might expect. Each of these
limits is a constant or a hypothesis of the model, and each is there because the
property does not hold beyond it:

* `Reorder` with a file that wraps: a repeated packet of block 0 delivered late counts
  as a second wrap (`tftp.c:296`). `FirstBlockIsOne` needs `~Reorder` too: a late OACK
  makes the next block a "first" one (`tftp.c:526`). `ImplementsFileTransfer` does as
  well: after the last block a late OACK and then a late first block are stored once
  more, at their place, although the file was loaded already.
* `RouterFromLessor` is about servers that always name a router. With one that does not,
  the router of another server's OFFER stays (`bootp.c:800`), and the board would send
  through a router its own lease does not mention.
* `RetryCnt` above 1 (`netretry` set): a fatal TFTP error makes `net_loop` return
  `eth_init`'s 0 (`net.c:605`), hence `OkMeansLoaded` is about `netretry` unset.
* `OkMeansLoadedUnlessPinged`: `ping_receive` takes a late reply for the end of whatever
  command runs (`ping.c:92`).
* `KeepsSendingUnlessWaitLeft`: when ARP gives up (`arp.c:115`),
  `net_arp_wait_packet_ip` stays set. In a later `dhcp`, `arp_timeout_check` then
  returns 1 on every turn, `net_loop` starts the timer over on every turn
  (`net.c:545`), and no DISCOVER is repeated. A late echo reply that ends a command
  waiting for ARP leaves the wait in the same way. `Returns` holds nevertheless.
* `IdCacheSound` says that the newest id and only ids of this attempt are in the
  cache. It does not say that the cache holds the newest ones: a full cache moves
  too few bytes (`bootp.c:96`, 4 and 8 byte types) and drops the second newest id.
* `ImplementsNameStore` needs a bucket that was never used, which `MaxEnters` at most
  `size` guarantees; `env_evicts`, with one entry more, shows that the bound is exact.
* `NetRetry` in `DwEth`: a restart from a packet handler leaves the driver one
  descriptor ahead of the DMA engine (`eth.c:469`), so `dweth_rx` has it FALSE.

### Bounds, and why they are enough

* `Tftp`: sequence numbers modulo 3 or 4 and a file of 4 or 5 blocks, so that the
  number wraps within one transfer and the last block is short or empty
  depending on the block size negotiated (1 or 2 units). `Cap` = 2 packets in
  flight each way is one old and one new packet, which the inductive invariant
  of section 5 shows to be all that matters in order; `MaxTid` = 2 or 3 allows
  the RRQ to be repeated and served twice. `RetryCnt` = 2 gives a restart. In
  `tftp_reorder` errors are of the retried class only.
* `NetLoop`: timeouts are 1 to 12 units, chosen so that the backoff doubles, the
  id cache (2 or 4 entries) overflows, and DHCP's overall limit is reached. A session
  is three commands: one sends what is answered late, the second is ended by the
  late answer, and the third runs with what the second left behind. With two the
  hypothesis about pings in `KeepsSendingUnlessWaitLeft` would seem superfluous. Retries and
  restarts are those of `netloop_boot`; the proofs of section 5 have no bound.
* `DwEth`: rings of 1 to 3 descriptors wrap several times in 9 frames; `RX_BATCH`
  of 2 or 3 ends in the middle of a full ring. In `dweth_tx` arrivals never stop
  (their numbers are used again), so that progress does not rest on the bound.
* `NexellTimer`: a counter of 4 values rolls over three times in 13 ticks, and looks
  at it may be so far apart that whole rounds are missed. `Thousand` = 2 makes a
  delay of 5 microseconds two whole milliseconds and a part, a shorter one none.
* `Environment`: 4 names in 3 buckets, so that a table may be full, paths cross, and
  a name may be entered in place of a deleted one. At most `MaxEnters` = `size` entries
  are made in one table, so that a new entry always finds a bucket never used; in
  `env_evicts` it is one more. Two blocks are enough for a copy of which one
  part is old and one is new, and a block may be torn besides. A new table (reset,
  restart) starts the count again.
* `TimerDemo`: a FIFO of 2 characters, three expirations, texts with and without
  a newline (which is two characters on the wire), one software-generated, one private
  and two shared interrupts.

`CHECK_DEADLOCK FALSE` is given where the system really stops: a command has
returned and no more are given, the interface is off, `main` has printed all.
No symmetry is used.

### Fairness

* `Tftp`, `NetLoop`: weak fairness of the timers and of `net_loop`'s return, never
  of the network or of the server. The loop polls, so an expired timer is seen.
  `NetLoop` adds fairness of the clock and of the end of a TFTP transfer, which
  is what `tftp_fifo`'s `Returns` establishes.
* `TftpTimely`: also fairness of delivery and of the server, since
  `LossesAreRepaired` is about a network that loses only a bounded number.
* `DwEth`: the driver's steps, as `net_loop` calls `eth_rx` on every turn, and
  transmission by the DMA engine. Arrival of frames is not fair.
* `Environment`: no fairness, since nothing is promised to happen there.
* `TimerDemo`: the steps of `main` and of the handler (the CPU runs), and the
  UART's draining. The timer is not fair: `TickIsNoticed` is about ticks that come.

## 4. The abstract specifications

`FileTransfer` says what a download promises, with nothing of blocks, packets or
timers: unit `p` of the file goes to address `p` and nowhere else, the reported
size never exceeds what is stored, a new attempt reports from zero, and "loaded"
means the whole file, which then stays; only an error may still follow. `Tftp` implements it under the mapping
`image <- mem`, `size <- net_boot_file_size`, and a status read off `net_state`;
`tftp_fifo` checks this as the property `ImplementsFileTransfer`, which includes
`StoredInPlace`, and section 5 proves it; `tftp_reorder` checks `StoredInPlace` by itself.

`NameStore` says what the environment promises, with nothing of buckets, marks or
blocks: a map that changes one name at a time, and a copy on the card that is whole or
lost, lost only while it is being replaced; a start takes the copy or the default
environment. `Environment` implements it under the mapping of `vars` to what `getenv`
finds, `kept` to the copy whose checksum fits, and `mode` to the program counter; it
is checked as `ImplementsNameStore` and proved.

## 5. Proofs

All proofs hold for every value of the constants that the named assumptions of
the modules allow; nothing is assumed beyond them and the hypotheses stated here.

**`TftpProofs!TypeCorrect`** : `Spec => []TypeOK`, on any network (reordering,
reused ports). The invariant proved is `TypeInv`, which adds to `TypeOK` that the
client's remote port is one of the server's transfers once there is one, and
that the packets in flight name transfers that exist.

**`TftpShortFile!ShortFileIntegrity`** : for a file that ends before the block number
wraps whatever the block size (`NoWrap`), `StoredInPlace`, `CompleteImage` and
`AckedIsStored` hold on every network, with packets lost, repeated, delayed and overtaken,
and even when a retry draws the UDP port of an earlier attempt, provided attempts that may
share a port use one block size (`OneBlockSize`; always true with fresh ports).
`tftp_reorder` is an instance of it.

Without a wrap a block number says where its block belongs, however late the packet is.
Memory is never unwritten, so what an ACK or a transfer of the server says of it (these
units are stored) stays true and needs neither order nor ports. The inductive invariant
`RInv` therefore says of every transfer, every packet in flight and the client's own block
numbers that memory `Holds` what they acknowledge or presuppose. Ports are needed for one
thing only: the client multiplies a block number by the block size it has agreed on, so
the transfer it listens to must use that size (`ClientInv`).

**`TftpIntegrity`** : on an in-order network (`~Reorder`) with a fresh UDP port
per attempt (`~PortReuse`), for every file size, block size, width of the
block number, number of retries and capacity of the network:

* `ImageIntegrity`: every unit stored is at its place (`StoredInPlace`) and
  SUCCESS means the whole file with its exact size (`CompleteImage`);
* `AcknowledgedIsStored`: the server is at most one block ahead of the image;
* `AssertionHolds`: the first DATA packet of a transfer is block 1;
* `DownloadIsATransfer`: `Tftp` implements `FileTransfer` (`ImplementsFileTransfer`): a
  packet stores a part of the file at its place, ends the transfer or is not seen, a
  restart starts over, and nothing happens to the image once it is loaded, even if an
  error then turns the result into a failure.

None of these is inductive: whether a packet is stored at the right place depends on how
old it can be, since its number is only known modulo 65536. The inductive invariant
`IInv` says that the two ends are in step. Either the client waits for an answer to its
RRQ, and every transfer the server has opened for it is at its first packet
(`WaitingInv`); or the client follows one transfer and has stored the blocks up to some
`c`, where the server is at `c` or `c + 1`, all DATA in flight is of these two blocks
with the old before the new, and all ACKs are of `c` or the one before, likewise in
order (`FollowingInv`). `PortInv` keeps the packets of earlier attempts apart by their
ports, `SessionInv` keeps the server within the file. `TftpProofs` has the facts about
sequences and division that the argument uses, `TftpIntegrity` the steps that move
neither end, those of the server and those of the client, one lemma per action, and the
theorems. Both hypotheses are needed: section 3 says what reordering does to a file that
wraps and to a late OACK. Fresh ports are an assumption about the code, which draws one
of 3072 ports from the timer (`tftp.c:820`).

**`NetLoopProofs`** : for every number of commands and servers, all timeouts, every
size of the id cache from 2 on, and every loss, delay, repetition and order of answers:

* `TypeCorrect`, `IdsAreOwn`, `RouterIsLessors`, `ReleasedIsWhatWaited`:
  `TypeOK`, `IdCacheSound`, `RouterFromLessor`, `ReleasesWhatWaits`;
* `OkIsLoaded`: `OkMeansLoadedUnlessPinged`, if `netretry` is not set (`RetryCnt <= 1`);
* `AlwaysTimed`: `TimedByListener`;
* `KeepsOnSending`: `KeepsSendingUnlessWaitLeft`;
* `FirstCommandKeepsSending`: `KeepsSending` and `GivesUpInTime` while the first command
  runs, which is what `netloop_boot` checks, with no hypothesis on ARP or ping;
* `GivenUpInTime`: `GivesUpInTime`, in sessions where no ARP wait has given up and no
  ping was sent.

`AInv` adds to the types that the board has no address while DHCP runs
(`Addressless`) and that a frame that waits is still in the one transmit buffer
(`Held`): DHCP, which builds its frames there too, has given up the address first. Then
`NextSteps` sorts the steps by what they do (start a command, retry, give up, select,
bind...), and every further invariant is shown for these kinds: `DInv` (ids and
parameters), `LInv` (SUCCESS only with a file or an echo reply), `WInv` (which handlers
go together, and where no ARP wait can be pending) and, resting on it, `Times` (how long
the current wait and the whole attempt have lasted). `KeepsSending` is not inductive
without `WInv`: a pending ARP wait holds the timer at 0 while the silence grows. For the
first command `FInv` says why no wait left behind can do so: if that command is `dhcp`, no
echo request was sent, and an ARP wait that gives up is that of the download, when DHCP is
over and will not be started again (`DhcpIsOver`); any other command sets no DHCP handler
(`OnlyDhcp`).

**`DwEthProofs`** : for rings and batches of every size, over all stops and starts:

* `FramesLeaveInOrder` (`SendsInOrder`), `RefusedOnlyWhenFull`, `TypeCorrect`, even
  with restarts from a packet handler;
* `FramesAreSeen`, `PacketsStay`, `DroppedOnlyWhenFull`, `DeliveredInOrder`
  (`RecvSeesFrames`, `PacketStays`, `DropsOnlyWhenFull`, `DeliversInOrder`) if no handler
  restarts the interface (`~NetRetry`; `DeliveredInOrder` numbers all arrivals, that is
  `~Unending`).

The inductive invariants say that the descriptors of one side are one window of the
ring (`Span`), from the consumer's index up to the producer's, and that they hold the
frames not yet consumed, in order (`TxInv`; `RxInv` and `OInv`). The hypothesis is
needed: after a restart from a handler `eth_rx` frees a descriptor of the new ring,
and the window no longer begins at the driver's index.

**`NexellTimerProofs`** : for every width of the counter, all delays and timeouts,
and any time between two looks at the counter:

* `DelayTheorem`: `__udelay` never returns early, but for the part of a millisecond
  that it drops from delays of more than one;
* `TimeoutTheorem`: a timeout of `net_loop` never comes early;
* `AccurateTheorem`: the time stamp is the time of the last reading less one tick for
  each roll-over seen and a whole round for each one not seen;
* `TypeCorrect`.

The inductive invariant `SlowInv` says that the counter is never further ahead of
its last reading than time is (`Behind`), so that a look adds no more to the time
stamp than has passed, and carries this from the moment a delay (`DelayInv`) or a
timeout (`TimeoutInv`) began. For accuracy `ClockInv`
balances true time, the counter, its last reading and the roll-overs at every moment,
and `StampInv` is what a look at the counter makes of it.

**`EnvironmentProofs`** : for every table size, hash function, default environment, set of
refusals and layout of the card, and for any number of entries:

* `EntriesAreFound` (`Findable`) and `TypeCorrect`, in every behaviour;
* `EnvironmentIsAStore` (`ImplementsNameStore`) and `EntriesAreCounted`
  (`FilledCounts`), if at most `size` entries are made in one table and the default
  environment fits into it;
* `StoreWhileRoomy`: both, for any number of entries, in behaviours in which every search
  still meets a bucket that was never used (`[]Roomy`).

`Findable` follows from `Reach` (every entry lies on the path of its name with no free
bucket before it, which is why a deletion must leave a mark) and `Unique` (no name has
two entries), which are inductive together (`IInv`). For the refinement `RInv` adds that the
counter is right, that only accepted values are in use or on the card, how far an
import has come, and that the image being written is of the variables as they are.
That a search meets a bucket never used is where the prime size comes in. `Prime` is
Euclid's lemma for `size`; by it the steps of a path are distinct (`PathInjective`), and as
many distinct buckets as the table has are all of them (`PathCovers`). `UInv` counts: the
buckets ever used are no more than the entries made, those an import still has to make
included (`Used`, `Has`). So before an entry is made some bucket was never used, and it is
on the path (`RoomSpared`). `env_evicts` shows that one entry more is too many.

**`TimerDemoProofs`** : for every depth of the FIFO, all texts, all interrupts of the
three kinds and whatever U-Boot leaves in the GIC and the timer: `EveryTickAccounted`
(`TicksAccounted`), `NoStrayInterrupts` (`NoStrayInterrupt`), `LinesAreWhole`
(`HandlerLineWhole`) and `LittleIsLost` (`LosesLittle`). `CInv` follows the set-up (what
is enabled after each step of it) and the sum of ticks counted, merged and pending;
`OInv` follows the UART: a character of `main` that saw room may be lost only if an
interrupt has come since, and the handler's characters follow each other in the FIFO.

Only model-checked: liveness (`Returns`, `LossesAreRepaired`, `FrameIsTaken`,
`EthRxReturns`, `TakenIsSent`, `TickIsNoticed`), which TLAPS does not do under
fairness. Every safety property of the passing runs is proved, under the hypotheses given
above.

## 6. What is abstracted or left out

* Packet formats, checksums, fragments, text options and printing. Malformed
  packets, which the code drops, are not sent.
* In `Tftp` one attempt's port is a number that grows with the attempt, unless
  `PortReuse`; the error codes are two classes, fatal or retried, as the handler
  treats them. A server's transfers are bounded by `MaxTid`.
* In `NetLoop` there is one network interface, so the rotation to another never
  happens; answering others' ARP requests changes no state.
* In `DwEth` caches, the PHY and the register set-up are left out; a failing start
  may fail before or after the rings are initialised.
* In `NexellTimer` PCLK is taken to be a multiple of 1 MHz, and the time stamp not to
  overflow 64 bits.
* In `TimerDemo` the panic path, the board reset and functions nobody calls are
  left out, and `printf` is the text it prints.
* In `Environment` what flags and callbacks refuse is a constant set; the hash is any
  function; a table is always created with the same size (the code takes it from the
  size of the environment); each variable lies in one block of the
  card; memory never runs out.

## 7. Not modelled

`PROJECT.json` lists every part with its status. The source tree is for the greatest
part U-Boot as it was taken over: about 1.79 million lines, nearly all of them other
architectures, boards, drivers, file systems and header files that are not built for
this board, or that a network boot does not run. The modules stand for the parts that a
boot of this board passes through and that keep state between events, which is a
fraction of a percent of the lines. The rest:

* `USB_loader`, `Arm_wrap`: host tools that make one sequential pass over a file;
  nothing runs beside them, and a test with a file of each boundary size reaches every
  case.
* `Blink32`, `Blink64`, `BlinkEL`, `Mini`: delay loops. `Blink64/start.S` is written for
  several cores, but by `Blink64/boot.c:72` the others do not start, and how they would
  come to it is not in the repository.
* `printf` (`Timer`, `Hello1`): formatting, of which no property depends on the digits.
* `Bootrom`, `Boot1`, `Boot_NSIH`, `SDcard`: disassemblies and images, not source.
* U-Boot's command interpreter, console, storage, USB and display: sequential, or not
  on the path of a network boot. The commands and `ctrl-C` are inputs of the models.
* A composition of `NetLoop` with `Tftp` and `DwEth` in one state space is out of TLC's
  reach. They are joined by what each shows of the other: `tftp_fifo`'s `Returns` is the
  fairness of `TftpEnds` in `NetLoop`, and rings that lose and reorder nothing but by
  dropping when full are an instance of the lossy channel of `Tftp`.
