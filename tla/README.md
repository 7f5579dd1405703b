# A verification project for qsfp28-fmc-zircon

The repository is a 100G Ethernet NIC for FPGA boards: SystemVerilog that
stores, classifies, strips, echoes, times and transmits frames
(`src/Vivado/src/hdl/`), the firmware that drives it over DMA and registers and
runs an lwIP echo server on top (`src/Vitis/common/src/`), and Python tools that
build it, configure it and test it (`src/build.py`, `src/Vitis/py/`,
`src/config/`, `src/scripts/`, `src/Vivado/src/hdl/tb/`). This directory holds TLA+ modules that model it, TLC configurations
that check them on small instances, and proofs checked by TLAPS.

## 1. The system: inventory

| component | source | state | operations | hard behaviour |
|---|---|---|---|---|
| Receive front end | `zircon_nic_core.sv` 385-710, `hdr_trunc.sv`, `rx_meta_capture.sv` | MAC-side frame FIFO, packet FIFO, len FIFO, header FIFO, record FIFO | store or drop a frame, broadcast a beat, measure, truncate, parse, record | two branches joined only by counting; one output without back-pressure; a MAC reset in mid frame |
| RX dispatcher | `rx_dispatch.sv`, echo queue in `zircon_nic_core.sv` 838-867 | FSM, classification and strip registers, output register, echo FIFO, its delayed level | capture, classify in 5 cycles, commit, forward raw / stripped / dropped | byte-exact stripping at beat boundaries; a level read two cycles late; no head-of-line blocking |
| TX path | `raw_tx_desc_strip.sv`, `tx_len_guard.sv`, `tx_meta_builder.sv`, `tx_mac_out.sv` | length guard, descriptor records, header builder, output skid | guard, strip a descriptor, build headers, pad, drop when disabled | three record FIFOs joined by counting; whole-frame drop |
| PTP TX tagger | `ptp_tx_tagger.sv` | SOF gate, sequence number, pending table, two-stage lookup | tag a frame, match a returned timestamp, count | reallocation during a lookup; timestamps from before a reset |
| Latency statistics | `latency_stats.sv`, `ts_gray_sync.sv` | live and shadow banks, histogram RAM, FSM | clear, snapshot, record a sample | a snapshot that is coherent while samples arrive; command handshakes between clocks |
| Register file | `zircon_regs.sv`, `zircon_cdc_snapshot.sv` | control bits, command toggles, sticky bits, 64-bit read halves | read, write, write-one-to-clear | set and clear in the same cycle; a word torn between clocks |
| UDP generator, checker | `udp_gen.sv`, `udp_chk.sv` | PRBS state, sequence expected, counters | generate, check, resynchronise | gaps and duplicates; clears while running |
| Rate meter | `rate_meter.sv` | window counters and their latches | count, roll over | windows that do not lose a beat |
| MRMAC adapters | `mrmac_rx_packer.v`, `mrmac_axis_adapter.v` | accumulator of 16-byte quarters, FIFO, PTP pairing | pack, drop on overflow, pop a PTP record at SOF | a record late for its frame |
| UltraScale+ MAC shim | `zircon_cmac_us_core.sv` | AXI-Lite to APB FSM, PTP FIFO | register accesses, records | a bus that must always answer |
| DMA driver | `zdma.c` | descriptor rings, pbufs | post, harvest, send, recover | ring full, error recovery, ownership of buffers |
| Port and link | `port.c`, `mrmac.c`, `cmac_taxi.c` | address state, link state machine, FEC | poll, bring up, retry | timeouts racing link events |
| Network interface, echo | `zircon_netif.c`, `tcp_echo.c`, `sock_demo.c` | transmit arming, connection state | send, receive, echo with back-pressure | partial writes, aborted connections |
| Loopback and latency tests | `loopback.c`, `latency.c` | test state machines | arm, poll, report | use of hardware commands that can be busy |
| Main, console, register driver | `main.c`, `console.c`, `zircon.c` | line buffer, options | parse, poll | bounded buffers |
| Build runner | `build.py` | lock files, the artifacts on disk with their times, the Yocto stamp and done-marker | run stages, skip what is done, clean, clean --keep-boot, loop over targets | several runs at once; tools that fail or are killed in the middle; decisions by presence and time |
| Vitis scripts | `build-vitis.py`, `make-boot.py`, `pre_platform_build.py` | workspace, local driver repository, linker script, boot file | detect the processor, overlay drivers, create, link, build, embed | tools that report success wrongly; an API that rewrites the linker script; two scripts with rules of their own |
| Configuration generator | `config/update.py` | the generated parts of three files | rewrite between markers | a stop in the middle of a file |
| Host test scripts | `zircon_prbs_tool.py`, `zircon_echo_test.py`, `echo_test.py` | datagrams received | send, listen, verdict | loss, order and damage that must not pass |
| Test bench vectors | `tb/gen_vectors.py` | the model's IPv4 identification and sequence number | write scripts of stimulus and expected frames | any selection of tests has to predict the core's counters |
| Documentation generators | `docs/source/` | none | draw diagrams | none |

**How they interact.** MAC beats enter the *receive front end* in the MAC's
clock, cross to the core clock in a frame FIFO, and reach the *dispatcher* as
three FIFO heads (frame, len record, header record). The dispatcher sends each
frame to one of four ports: RAW and SOCK (to the CPU by DMA), ECHO (turned
around in hardware, through an echo payload FIFO and an echo-metadata FIFO to
the *TX path*), CHK (to the checker). The TX path joins echo, CPU and generator
frames with their records and crosses to the MAC's transmit clock, where the
*PTP TX tagger* puts one record ahead of each frame; timestamps that come back
are matched with the frame's arrival time and become samples of the *latency
statistics*. The *firmware* reads and commands all of it through the *register
file*, whose command bits cross clocks as toggles. On the host, `build.py` runs
the vendor tools stage by stage under a lock per target and calls the *Vitis
scripts* for the application and its boot file; the files on disk are all that
two runs know of each other. The *configuration generator*, the *test vectors*
and the *test scripts* are used by hand.

**What makes each component correct** (the properties the plan aims at):

- Receive front end: the n-th frame, len record and header record are the same
  frame's; no len record is lost; a frame cut by a reset is dropped as bad and
  shifts nothing; the two branches never wait for each other for ever; together
  they are a queue of whole frames.
- Dispatcher: each port gets exactly the promised bytes with `tlast` on the
  last; the echo FIFO never fills; a path nobody reads blocks no other.
- TX path: every frame leaves with its own record, padded, whole or not at all.
- PTP tagger: a match is the frame's own; every tag and return has one outcome;
  the record precedes its frame and the gate always opens.
- Latency statistics and register file: what software reads is the state at one
  instant, no event is lost between a counter and its sticky bit, commands finish.
- Firmware: buffers have one owner, rings never over-run, the state machines
  leave every transient state.
- Build runner: one builder for a target; no lock nobody will release; what is
  packaged was made from what is there now; a second 'all' does nothing; a stamp
  names the inputs the images were really built from; exit codes tell the truth.
- Host tools: a reported boot file holds the new application, in the processor it
  was built for, linked where it can be embedded, with whole drivers; predictions
  and verdicts are never wrong.

The file `PROJECT.json` lists every component with its status, and under
`hazards` every behaviour that is hard to test, at its line, with the properties
that cover it.

## 2. Modules

| module | models |
|---|---|
| `RxPath` | the receive front end, one action per handshake |
| `RxFrameQueue` | the abstract specification of the front end: a queue of whole frames |
| `RxPathProofs` | theorems about `RxPath` |
| `RxDispatch` | `rx_dispatch` and the echo FIFOs behind it, one step per clock cycle |
| `RxDispatchProofs` | theorems about `RxDispatch` |
| `PtpTxTagger` | `ptp_tx_tagger`, one step per clock cycle |
| `PtpTxTaggerProofs` | theorems about `PtpTxTagger` |
| `LatencyStats` | `latency_stats`, its commands and bin registers through the register file and two crossings, and the firmware that uses them |
| `RateMeter` | `rate_meter` and the counters that feed it |
| `ZirconSticky` | the sticky bits of `zircon_regs` (STATUS, LAT_STATUS) and STAT_CLR |
| `ZirconReads` | the read channel of `zircon_regs`: 64-bit counters, rate registers, the snapshot RAM |
| `Port` | the addressing of the ports in `port.c`, with the polls of the main loop |
| `PortProofs` | theorems about `Port` and, as lemmas, `Loopback` |
| `PortLink` | the link poll of `port.c`: MAC resets, the FEC fallback, the FEC key |
| `PortLinkProofs` | theorems about `PortLink` and `Firmware` |
| `Loopback` | the loopback tests of `loopback.c` and the console commands of `main.c`, on top of `Port` |
| `Firmware` | `PortLink` and `Loopback`, of which one moves at a time |
| `StatsBlocks` | the four blocks above behind the register file, each run by itself |
| `StatsBlocksProofs` | theorems about `StatsBlocks` |
| `BuildLock` | the lock of a target, and the loop over targets that takes it, for several processes on several hosts |
| `BuildFiles` | the artifacts `build.py` decides by: which exist, which is newer than which, and which are out of date |
| `BuildRun` | one run of `build.py`: its command and the stages and tools left to do |
| `YoctoStage` | `stage_yocto`: the stamp, the done-marker, the sequence of scripts |
| `Build` | all stages, the tools with their failures, clean and clean --keep-boot |
| `BuildProofs` | theorems about `BuildLock`, `YoctoStage` and `Build` |
| `HostChecksum` | the checksum folds of `gen_vectors.py` |
| `TestVectors` | the transmit side of the test vectors against the counters of the core |
| `PrbsTool` | the PRBS sender and listener with a faulty network between them |
| `ConfigUpdate` | `update.py`, line by line |
| `AppCore`, `LinkerScript`, `EmbeddedSw` | the choice of the processor, the linker script, the local driver repository |
| `VitisApp` | one application after the other through `build-vitis.py` and `make-boot.py` |
| `HostTools`, `HostToolsProofs` | these tools, each by itself, and theorems about them |
| `MC...` | the instances TLC checks |

### RxPath

State: `macIn`, `macDrop`, `macOcc`, `macq`, `rdBeats` are the MAC-side frame
FIFO (`mac_rx_fifo_inst`, a vendored asynchronous FIFO whose contents are not in
the repository: modelled from the parameters it is given); `pktq`, `lenq` the
packet FIFO and the len FIFO; `hdrq`, `parse`, `recq` the header branch; `disp`
the heads `rx_dispatch` holds. The numbers carried by beats and records are
ghosts: the hardware pairs the FIFO heads by position only, and `Aligned` says
that this is right. `BroadcastBeat` is the lockstep of `rx_bcast_inst` with the
length unit's record on the last beat, whose FIFO cannot push back. `MacReset`
is the reset of the MAC receive side: the FIFO is emptied and a frame that was
being read out ends with one terminate beat marked bad. What the FIFO's two
pointers do in the cycles around that reset (the gate of lines 463-504, which
holds the read side in reset between frames) is not in this module: the restart
is taken as clean.

`RxFrameQueue` is the promise: accepted frames come out whole, in order, once;
a reset may lose the youngest or cut one, which is then marked bad.
`ImplementsQueue` is checked with the refinement mapping *frame held by the
dispatcher, then frames by the len FIFO's records, then frames of the MAC-side
FIFO*: the length unit's account, not the packet FIFO's beats, is what the
queue is made of, so a lost or doubled record breaks it.

### RxDispatch

One step is one clock cycle. `state` is the FSM; `o` the output register; `cls`,
`route`, `desc` the registers of the classification; `first`, `rem`, `carry` the
strip engine. `Cycle` is what happens in every cycle besides the FSM's action:
the output register hands its beat on, the transmit side may take a beat of an
echo payload (never before the payload is whole: the FIFO is a frame FIFO) and
the record of a payload it has, and `depth` and `free` follow the FIFO's level
one and two cycles late (`echo_depth`, `echo_free_beats`). A byte is its offset
in the frame, so that `PayloadExact` can say which bytes left; checksums are a
verdict the frame carries, addresses and ports a set of candidate ports.
Registers that nothing reads before they are written again are blanked.

### PtpTxTagger

One step is one clock cycle. `SofGate` is the gate that holds a frame's first
beat until its record is pushed; `PtpFifo` the record FIFO; `PendingTable`,
`StageA`, `Hit` the table and its two-cycle lookup; `Pipeline` and `Counters`
what follows. The MAC is external: it may return the timestamp of a tagged frame
in any order, at any time or never, also after a reset of `mac_tx`; it is not
later than the 2^16 tags of the sequence number. An *age* (`allocs` when the
tag was taken) tells two uses of the same tag apart, which the hardware cannot.

### LatencyStats

`Software` is `zircon_lat_*`: set the bin registers, write LAT_CTRL, poll BUSY,
read the shadow copy. `CfgSample`, `CfgDeliver` and `AckCross` are the crossings
of `zircon_cdc_snapshot` (a FIFO of whole words written when the value changed)
and of the acknowledge toggle. `Engine` is the FSM of `latency_stats.sv`, one
action per state, with the sweep after reset (`ClrSweep`), the four pipeline
stages of a sample and the copy of scalars and bins to the shadow. A sample is
its bank and bin; sums, minimum, maximum and the arithmetic of the bin number
are left out. The firmware's `lat_wait` gives up after 10000 polls; that path is
left out because a command takes a few hundred core cycles (see the hazard at
`zircon.c:365`).

### RateMeter, ZirconSticky, ZirconReads

`RateMeter` is the window counter, priming and the latch of the differences
(`Cycle`), with frames in any cycle and transmit counts that cross late and
restart with the MAC (`Traffic`). The windows it publishes are compared with the
frames that were really there between the two ticks.

`ZirconSticky` models how a counter in a MAC clock becomes a sticky bit: it
crosses as words of which some are skipped, `Moved` compares each word with the
one before, and `StatusAfter` and `LatAfter` are the two ways the code merges a
write-one-to-clear with a bit set in that cycle.

`ZirconReads` is the read channel: reads are accepted back to back, the snapshot
RAM answers a cycle later (`r_sh_pend_reg`), a read of a LO word holds the HI
word, and reading the first rate register holds the rest. `Master` is any
AXI4-Lite master that runs the firmware's sequences (`zrd64`,
`zircon_rate_read`), whose ready comes and goes.

### Port, Loopback

`Port` holds each port's `port_t` with its netif and its DHCP client as one
record, and the functions of `port.c` are functions from record to record. The
DHCP client of lwIP is not in the repository; the model assumes only what
`port.c` relies on: it starts or not (`dhcp_start`), is released, and between
those, in the network part of a pass, it may give the netif an address, another
one or none. A pass of the main loop is the cycle of stages *net, link, addr,
lb, console*, with the polls' own timers; time is counted in periods of the link
poll and a pass takes none or one of them, and the clock wraps at `CLOCK` as
`now_ms()` does at 2^32. `bare` and `asking` are ghosts: the true time a port
has had link and no address, and since it last tried to start its client. The
netif's link flag and `link_up` are one (both are set in `port_link_poll`). Not
in the model: ports that failed to start (`ok`, `netif_ok`), printing, the
unreachable branch of `port.c:319`, a build without DHCP.

`Loopback` extends `Port`, replaces its stages *lb* and *console* and adds the
`struct lb` of `loopback.c`: `lb_start` gives each port an address up to the
first that refuses, then fixes where each generator sends. `autostart_poll`,
the auto-start check of `tick` and the commands `l`, `e`, `L`, `p` and `i` are
complete for `LOOPBACK_AUTOSTART` 0; the traffic and the verdict are not
modelled. The auto-start check, which the code makes after 3 s, may come at any
poll.

### PortLink

`link` holds the link fields of each `port_t`, `fec_mode` the chosen mode of
`port.c`, `mac` and `peer` the MAC and what is at the other end of its cable: a
station forced to one mode, the other port, or nothing. A pass that polls the
links is `LinkPoll(0)`, `LinkPoll(1)`, then the key, then `NextPass`; each port's
poll is a step of its own, because a port's reset changes what the next one sees.
The MRMAC is external: a receiver aligns within `ALIGN` on a signal that was
there at its last reset, if the two FEC modes match; a moved cable or a glitch
(`Plug`, `Glitch`, at any moment) ends that until the next reset, which is why
the poll resets at all; the reset of the partner only interrupts the alignment,
since two ports cabled to each other do link (`testing.md:440`). `waited` and
`tried` are ghosts: the true time a port is without link although its partner can
be reached, and in one FEC mode. `Init` is the state after the setup and the wait
for the links in `main`, whose time `now` is. Not in the model: ports that failed
to start (`ok`), printing, `LINK_DIAG`, the CMAC of the UltraScale+ boards. The
address part of `port_link_poll` is in `Port`.

`Firmware` puts `PortLink` beside `Loopback`: nothing but `link_up` passes from
one to the other, and `Loopback`'s may change at any time, so one of them moves
and the other stays as it started.

### BuildLock

A process is one run of `build.py`; `at` is where it is in `BuildLock.acquire`,
in the stages or in the release. Every call on the lock file is a step: `Look`
(`exists`), `Read` (`read_text` and the test of the pid), `Reclaim` (unlink of a
stale lock), `Create` and `Write` (the open that creates or empties the file, and
what `write_text` puts into it: between the two the file is there and empty; where
another process has written in between, the two texts may be mixed, and then no host
is read off the file: `Garbled`).
`Locked` is the code's test: a pid that lives, on this host; a pid of another
host is never seen alive, and one that was given to another program is (`Reuse`).
`Interrupt` is Ctrl-C, `Kill` a death without `finally`. A process in `KeepBootRuns`
is a `clean --keep-boot`, which takes the same lock; the others are the `Builders`.
`NothingLeftOut` keeps them apart: removing files is not building, so a target that
every builder skipped while a clean held its lock was not built, and the builders'
exit code 3 is what says so. `met` is a history variable: the targets two processes
ever tried to take at the same time.

### BuildFiles, BuildRun, YoctoStage, Build

`files` are the artifacts that exist, and `newer` the pairs of them of which the
first was written after the second: all the runner ever asks of a time. `stale` is
a history variable with those that were not made from the present version of their
inputs, which the runner cannot see. A run is a stack of stages and tools: `RunStage` takes the
decision of the stage function at the top (skip, call other stages, start a tool,
fail), `RunTool` is a tool that ends well, `CutShort` one that fails or is killed
after part of its output, `Refuses` one without its inputs. A stage function that
calls another in the middle is two entries (`stage_bootfile` and `stage_boot`,
`stage_cfgmem` and `stage_flash`). `Clean` is `clean` for each scope, which takes
no lock and so may come at any step of a run; `PlanKeepBoot` and `KeepBoot` are
the two halves of a keep-boot clean, with the question to the user between them:
the plan is a set of paths, removed in the order `keep_boot_plan` and `prune_paths`
list them, up to one that is gone by then or a kill on the way (`KeepBootKilled`).

`stage_yocto` hashes texts. The user may edit an input at any step, also while the
images are built, and an edit may bring back a text that was there before (`git
checkout`), so the model has both: `y.text` is the text of each edit, which is what the
stamp and the present inputs are compared by, and the number of the edit tells what the
images are really made of. The XSA has a number only, as no build of it comes out the
same again. The inputs are of three kinds, by who reads them: the recipes, which bitbake
reads; the board configuration (`local.conf.append`, `bblayers-extra.txt`), which
`configure-build.sh` reads and whose time makes it run again; and the port-config
overlay, which is hashed and given to that script (build.py:1053), but whose time nobody
looks at (1048). The scripts under `Yocto/` are not in the repository; that the overlay
is read when the build directory is configured is taken from the argument passed.
A kill in the copy of the handoff leaves half an XSA with the time of now, on which the
configure script fails from then on.

`taint` remembers what a stamp cannot know: a configuration edited while the configure
script read it, or removed, or an overlay changed, behind the marker's back (`conf`, and
`image` for images built so); images of two builds (`package`); images that were there
without a stamp (`unstamped`); and two things it may forget, that an input was edited
since the running build hashed it (`edit`), and that the images are not of the build that
wrote the stamp (`apart`). `YoctoTruthful` says of images that would be reported as up to
date that they hold what the inputs hold, whatever was edited and undone, where neither
`image`, `package` nor `unstamped` applies. With `apart` it asks that the inputs *are*
those of the stamp, edit by edit: an edit made while bitbake runs and undone afterwards
has the texts of the stamp, and images that may hold the edited ones (the comment at
build.py:1008 promises that such an edit reads as a change; undone, it does not).
Not modelled: files put back with an old time (`cp -p`, an unpacked archive), a workspace
of which an ordinary clean has removed one half when it is killed.
The IP and the project are made from checked-in
sources, which are constant. `has_vitis_flow`, an existing `cfgmem.tcl`, the
missing `.prm`, and the Windows path limit are taken as given.

`settled` remembers that an undisturbed 'all' ended well and that nothing but
keep-boot cleans and runs that found nothing to do came since. It is what
`ShippedFresh` and `NoopWhenSettled` speak of.

### The host tools

`HostTools` puts five modules side by side; a behaviour is of one tool, because
they are used one at a time and share nothing but files none of the others
writes. `HostChecksum` keeps the words' width as a constant. `TestVectors` runs a
selection of tests: a test is the sequence of its commands as far as they send
frames, predict frames or wait, a `DRAIN` waits until every expected frame has
come, and the core serves echo, socket, generator and raw traffic in any order;
test bodies that only receive are left out, numbers of frames are scaled to `N`.
`PrbsTool` has a network that loses, doubles, swaps, damages and cuts short datagrams
up to a bound; what is cut off behind the number passes, because the listener compares
the pattern as far as a datagram goes. `ConfigUpdate` handles one line per step, may be stopped at any of them and
started again with other data. `VitisApp` is the main function of `build-vitis.py`
with every point where it dies, the workspace removal of `build.py`, and
`make-boot.py`; the results of the vendor tools are any combination of exit code,
error text and file written (`Outcomes`).

## 3. Runs and bounds

| run | question | bounds |
|---|---|---|
| `rx_path` | alignment, cut frames, deadlock, refinement | 5 frames, FIFOs of 3/3/1 beats, 1 reset: frames of 1-4 beats fill, overflow and straddle every FIFO; one frame more than all of them hold |
| `rx_dispatch` | exact bytes, stale room, blocking | beats of 3 bytes with 2 stripped (the code's proportion: carry < half a beat), 13 frames that end at every place relative to beat and carry, in any order, unbounded in number |
| `ptp_tx_tagger` | accounting and ownership of timestamps, the gate opens | table of 2, 4 tags, 5 frames, 1 reset: the tag space wraps and every entry is reused |
| `stats_blocks` | rate windows exact; no false or lost sticky bit; a snapshot is one fresh moment, bins add up, BUSY ends; no torn or mixed read | rate: windows of 3 cycles after 2 of priming, frames of up to 6 bytes, 1 restart, 2 windows (the first, whose reference priming takes, and a later one). Sticky: 2 STATUS bits and 1 LAT_STATUS bit, 2 events each, 1 STAT_CLR, counters modulo 4. Latency: 2 banks of 2 bins, 2 samples at any cycle, 3 operations of the firmware: a sample can fall into every state of a clear or a snapshot. Reads: 2 counters of 2 halves of 1 bit that carry at any cycle, 2 rate words, 2 windows, 3 reads |
| `zircon_sticky_lat` | (violation) no LAT_STATUS bit is lost | the sticky bits of `stats_blocks` |
| `port` | modes, register, timeouts | 1 port (ports do not interact in `port.c`), 2 leases, 1 that ends, timeout 3, address poll 2, clock modulo 8 (just above the longest timer, so waits meet the wrap), 2 commands, 2 link changes |
| `firmware` | links in time in either mode, each mode its time, only chosen modes; a running test's addresses, the automatic start | links: 2 ports, of which one may be cabled to stations in the chosen mode or without FEC; the application starts without FEC, where ports cabled to each other have no fallback, and the key takes it to a mode that has one; retry 5, fallback 6 (not a multiple of the retry, which looks at it), alignment 2, the longest that fits (`TimersFit`: with more, retries at the two ends can fall into each other's alignments again and again), polls 1 or 2 apart, 2 events, clock modulo 12 (just above the longest wait of a timer, so waits meet the wrap). Tests: 2 ports, 1 lease that may end, 1 link change, 2 commands, automatic start after 2 periods, clock modulo 4 |
| `build_lock` | one builder, no orphaned lock, nothing left out | 3 processes on 2 hosts, one of them a keep-boot clean, 2 targets, 1 reused pid: two on one host can race, and the third finds what they left from where it cannot see their pids |
| `build_lock_race` | (violation) there is never more than one builder | the same without keep-boot cleans and reuse |
| `build` | shipped files fresh, 'all' a no-op, the Yocto stamp truthful | 6 designs: the two targets of `data.json` and one of each kind the runner also knows (HLS cores, board IP, Yocto, PetaLinux, Windows, none); 3 runs of any command, 1 tool or clean cut short, 2 edits and cleans together, 2 texts of an input, 2 XSAs: a build, a failure, clean or edit, a rebuild that meets what they left; an edit during the build and its undoing |
| `build_keep_boot` | (violation) keep-boot keeps the tree of a failed Yocto build | the same |
| `host_tools` | the checksum, the vectors, the verdict, the generated files, drivers, linker script, boot file, processor | words of 32 values with every payload and header sum; 2^8 choices of the tests the numbers depend on, with the other tests and without, identifications modulo 7, bursts of 2; 5 datagrams sent, 3 to receive, 2 faults; 4 files with and without markers, 2 versions of `data.json`, 3 starts; 12 hardware images, 3 linker scripts, 2 applications |

`CHECK_DEADLOCK FALSE` is set for `rx_path`, `stats_blocks`, the build runs and
`host_tools`, whose systems stop when the bounded number of frames, operations,
windows or runs is through. The sizes stay small because every property is about
the relation of a level to a depth, or of one event to the next, never about the
depth.

**Fairness.** `RxPath`: weak fairness of the core-side handshakes, because the
core clock runs and each unit acts whenever its handshake is complete; none of
the MAC, which owes nothing. `RxDispatch`: weak fairness of each FSM action for
the same reason and of taking a beat (the packet FIFO's head frame is complete,
so its next beat comes); none of the transmit side, which is the point of
`NeverBlocked`. `PtpTxTagger`: weak fairness of a cycle in which the MAC and the
adapter accept (`FramesPass` says nothing of a MAC that stops). `LatencyStats`:
weak fairness of the engine and of the crossings, because both clocks run; none
of the firmware. `Port`, `PortLink` and `Loopback` assume none: what must happen in time is
stated as a bound on the ghost ages. The build and host modules assume none: a
user, a tool or a network owes nothing.

### Disagreements found

The violation runs show where a document or a comment says more than the code
does. Each quotes its line in `PROJECT.json`.

- `zircon_sticky_lat`: clearing one LAT_STATUS bit loses another that is set in
  the same cycle, because the write assigns the whole register (STATUS, a few
  lines above, is written bit by bit and does not).
- `build_lock_race`: two runs that look for a lock before either has written it
  both build the target; `acquire` looks, reads, unlinks and writes in separate
  steps.
- `build_keep_boot`: `clean --keep-boot` takes the images of an earlier Yocto
  build for those of the last one and removes the work tree of a build that
  failed.

More behaviours are worth knowing; the properties are stated around them. A
restarted transmit counter that passes its old byte count within a window is not
noticed, although `DESIGN_SPEC.md:1241` says every restart is (`WindowsExact`
leaves that window out: `hidden`). A lease given up before the next address poll
does not switch the automatic start off, although `echo_server.md:489` says any
lease does.
After STAT_CLR a counter that returns to the value the register file saw last
sets no sticky bit (`StatusNotLost` is about runs without STAT_CLR). A port in
mode auto whose lease ends waits without an address and without the fallback
(`AddressInTime` leaves a port that holds a lease out). A lease that changes
under a running test leaves a generator on the old address (`TestAddressed`
leaves leased addresses out, except on a port that became static). PetaLinux
images are skipped by presence and never compared with the XSA, so a rebuilt XSA
ships the old ones (`ShippedFresh` leaves that zip out; the Makefile had the same
rule). A Yocto configuration edited while the configure script runs, or removed,
is hidden by the done-marker, as is a changed port-config overlay, which build.py:1048
does not list: the images are built on the old one and stamped as current. Images
packaged but not yet stamped when the run dies are adopted with the inputs of the next
run, and an edit made while bitbake runs and undone afterwards leaves images that hold
it and count as up to date (`YoctoTruthful` leaves these out: `taint`). An IP with "r5"
in its name (a ddr5 controller's has it) and none with "a72" or "a53" makes
`make-boot.py` (179, 182) put the application of a Versal or a Zynq UltraScale+ into the
R5, while `build-vitis.py` (475-478) builds it for the A72 or A53; no block design of
the repository has such an IP, and `PlacedToRun` leaves the case out (`Conventional`). A file a tool wrote before it failed counts as made. A stop of
`update.py` in the middle of a file leaves it cut, and its markers may be gone
for good (`FilesAgree` leaves that file out: `torn`). Test 83 followed by test 32
without 30 or 31 expects sequence numbers the generator has passed (`SeqLost`).
The hardware's UDP checksum is 0, "none", for a few sums within the header's carry.

## 4. Proofs

`RxPathProofs` proves, for all depths, numbers of frames and resets:

- `TypeCorrect`: `TypeOK`;
- `RecordsAligned`: `Aligned`;
- `LenFifoNeverOverflows`: `NoMetaErr`, no len record is lost;
- `FramesDispatchedWhole`: `DispatchedWhole`;
- `ImplementsFrameQueue`: `ImplementsQueue`, the refinement of `RxFrameQueue`.

None of them but the type is inductive. The strengthening `IInv` adds where every
frame is: the numbers of the len FIFO are consecutive and end at `started` (less
one while a frame is crossing), those of the record FIFO, the parser and the
header FIFO are consecutive and end at `started`, both sequences start at the
same number, and the packet FIFO holds at least one beat for each len record.
From that, both branches' heads have the same number, and a full len FIFO of
twice the packet FIFO's depth would need more beats than the packet FIFO and
its pipeline hold. The assumption used is the sizing `RxPathAssumption`
(`LEN_PIPE <= PKT_FIFO_BEATS`). For whole frames `WInv` adds how many beats of
each frame are where: a record of the len FIFO or of the dispatcher has the frame's
own length (`RecordsWhole`, `HandWhole`), and the MAC-side FIFO holds the frames
that have none yet, the one being read out less the beats it gave (`MacWhole`). The
refinement maps to one sequence of frames (`Owed`: in hand, by record, in the
MAC-side FIFO). A lemma for each action says what it does to that sequence: it
accepts at the end, delivers at the front, loses or cuts one at a reset, or leaves
it; the theorem maps those four to the actions of `RxFrameQueue` and stutters.

`RxDispatchProofs` proves, for any beat width, header length, depths and frames
(`RxDispatchAssumption`):

- `PortsGetTheFrame`: `PayloadExact`;
- `EchoNeverWaits`: `EchoReady`.

For the bytes the invariant `DInv` says what each state knows of its frame
(`Placed`), what the carry register holds of the beat before (`Carried`), and that
what was handed out ends at the place the FSM has reached in what the port should
get (`Delivered`); a beat is then the next piece. For the echo, `Room` says that the
free level, though two cycles old, covers the beats of the payload in hand still to
come, because it can only be too low but for what was loaded since, which an
admission counts; `Records` counts the records of the echo metadata against the ends
of payloads, wherever these are.

`StatsBlocksProofs` proves, for any counters, widths, windows, banks, bins and bounds:

- `NoFalseAlarms` and `StickyBitsExact`: `StickyExact`. The second assumes
  `MaxEvents < CNT_MOD`: a counter that makes a full turn between two words that
  cross loses its bit, and TLC shows so with `CNT_MOD` = `MaxEvents` = 2;
- `WindowsAreExact`: `WindowsExact`;
- `ReadsAreExact`: `ReadsExact`;
- `SnapshotsAreExact`: `SnapshotExact`;
- `ClearsSeparate`: `ClearSeparates`.

Each block has an invariant of its own (`StickyInv`, `MeterInv`, `ReadsInv`, `LatInv`), and a
step of one leaves the others' variables alone. The words on their way from the MAC
clock are ordered, and a set bit has an event after the write that cleared it. What
a window will report is the growth since the last publication, modulo the width of
the count. The accesses answered, in flight and planned are one plan, and each answer
is that plan's wherever it is, so a value read in two halves is one value.

The latency statistics need the most. The four toggles of the handshake say that a
request is on its way (`Requested`), being served (`Serving`) or acknowledged and not
yet seen (`Crossing`); no two hold at once and the firmware polls all that time, which
is what BUSY shows (`BusyIs`). The word with the request is the last one on its way to
the core, so once the engine has taken it the core's registers are the firmware's until
the firmware writes again (`Words`): every sample counted between the taking of a clear
and its return is binned with both registers of the new geometry (`Clean`), and the
scalars copied are those of the snapshot. While a snapshot is served the banks rest and
each word the sweep has passed is the image's, the pending word of the write port
included (`Copied`). Until its image is taken no count goes down: the only sweep that can
run then is the one after reset, over empty banks (`Recent`, `Served`). And every bank
but the one being swept adds up (`Sums`). That one more in a bin is one more in
the sum (`TotalBumped`) is an induction over the number of bins summed: the fold of the
library is unfolded to a function on sets of bins, whose existence has to be proved first
(`SumsExist`). `LatInv` was checked by TLC on the run's instance, and with a deeper FIFO
and one more command.

`PortProofs` proves, for any number of ports and leases and any timers whose
longest sum stays below the wrap of the clock (`PortAssumption`):

- `TypeCorrect`: `TypeOK`;
- `ModesMeanWhatTheySay`: `ModeKept`;
- `RegisterInStep`: `InStep`;
- `EveryPollSyncs`: `PollSyncs`, after a poll the register is lwIP's address;
- `WaitNeverCutShort`: `DhcpGetsItsTime`, under the further hypothesis that the
  ghost counts for as long as the clock takes to wrap (`CLOCK - 1 <= MaxWatch`);
- `WaitsEnd`: `AddressInTime`.

`ModeKept` and `InStep` are not inductive: that a static address has no client
behind it depends on which states a client can run in. The invariant `IInv` says
per port (`StateOK`) what each address state implies: in NONE there is no address
and no client, in DHCP_WAIT and DHCP a client and no static address, in STATIC
the static address in netif and register and no client. Each function of
`port.c` gets a lemma that it takes a port that satisfies this to one that does;
the steps of the main loop only apply them. `WaitNeverCutShort` adds `TimeOK`:
while a port waits, the true time since its client was started is no less than
what the clock shows, because when the clock advances by one no difference of two
readings, taken modulo its width, grows by more (`NeverFaster`). `WaitsEnd` is the
opposite bound, and so needs that a difference of readings *is* the age until the
clock has gone round (`Aging`). The invariant `AgesOK` (checked with TLC first) says
that the addresses are polled in time (`Polled`), and for each port how its two ghost
ages are bounded by the time since its client was started and since the last poll
(`Waits`): a port in NONE has been bare only since the last poll, or its client
failed and the wait for another try is running; a port in DHCP_WAIT that may fall
back was bare at most one poll before its client was started.

The loopback tests are proved about on top of it, as lemmas, for any number of ports.
`LoopInv` (checked with TLC first: it is an invariant of an instance with two ports)
says that a test has generators and these send to ports of the test (so a command
that readdresses any other port does not concern it), at an address the port answers
for or a leased one; and that, until anything was started, the wait of the automatic
start is no more than the true time of calm.

`PortLinkProofs` proves, for one or two ports, any partners, and any timers with
polls at most `CLOCK` apart (`PortLinkAssumption`):

- `TypeCorrect`: `TypeOK`;
- `ChosenModeKept`: `FecAsChosen`;
- `FallbackNeverEarly`: `EachModeGetsItsTime`;
- `LinksInTime`: `LinkInTime`, if `TimersFit`.

`FecAsChosen` is inductive with `TypeOK`. For the third the invariant says, as
above, that the true time without link in a mode is no less than the clock shows
since `last_fec_switch`: every step that sets the ghost back stamps the timer.

`LinkInTime` bounds how long a port whose partner can be reached stays without link
(`Patience`). `TimersFit` says what it needs of the timers: a receiver aligns within
a retry period, with two ports within a good half of it, and no timer wraps before it
is due. With the code's values (a retry every 4 polls, no fallback, a clock of 2^32
ms) that is an alignment of up to 2 polls if the main loop keeps the poll, or of 1 if
it may be as late as a whole one; `MCFirmware` assumes `TimersFit` of its instance.
The invariant `OnTime` (checked with TLC first, on instances with one and two ports,
with and without fallback, fixed FEC, and a start later than the first retry) gives
the reason a port has no link: it has not retried since its partner came (`Waits`), it
is in the wrong mode, which the other mode will follow (`Wrong`, `WrongMode`), it is
aligning since its last retry (`Aligning`), or the port at the other end has retried
since (`Interrupted`). The last two keep both ports from retrying before the alignment
has ended (`RetryInterruptsNothing`). What bounds the whole is `Companion`: of two ports
cabled to each other, the one that has not yet retried is at most one poll behind the
other's wait, because only a loss of link it had yet to see can have stamped its timer
later. Without the wrap of a timer (`Exactly`) a pass adds the same to every age.

Of `Firmware`, which runs the tests on these ports, it proves

- `TestsAddressed`: `TestAddressed`;
- `AutomaticStartIsCalm`: `StartsWhenCalm`,

by instantiating `PortProofs` with the board's ports: a behaviour of `Firmware` is
one of `Loopback`, whichever of the two moves.

`PtpTxTaggerProofs` proves, for any table size, any tag space that is a larger
multiple of it and any FIFO depth (`PtpTxTaggerAssumption`):

- `TypeCorrect`: `TypeOK`;
- `TagsAndReturnsAccounted`: `Accounted`;
- `MatchesAreOwn`: `MatchIsOwn`;
- `EntriesKept`: `EntryKept`;
- `RecordsPrecedeFrames`: `RecordPrecedesFrame`.

A tag repeats, so ownership is a statement about ages. The invariant `IInv` says
that a tag is the remainder of its age by `TAGS`; that an entry in use is at most
`TABLE` tags old and the remainder of its age by `TABLE` is its index; that each
tag is in one place only, the record FIFO, the MAC or stage A; and that what
stage A latched is still in the table. Two ages less than `TAGS` apart with the
same entry and the same `tag[15:6]` are then equal (`SameTag`), so a match is the
frame's own; and nobody but an allocation `TABLE` tags later (`SameRemainder`)
takes away an entry whose timestamp is still to come. Both need the bound the
model puts on the MAC, that a timestamp comes back before `TAGS` further tags
were taken. The division lemmas are proved first, from the definition of quotient
and remainder.

`BuildProofs` proves, for any processes, hosts and targets (`LockAssumption`), of
`BuildLock`

- `TypeCorrect`: `TypeOK`;
- `NoLockOutlives`: `NoOrphan`, which is inductive with `TypeOK`;
- `OneBuilderWhenApart`: `OneWhenApart`;
- `NoTargetLeftOut`: `NothingLeftOut`.

`OneWhenApart` speaks of the targets outside `met`. The invariant `Apart` says of
those that at most one process is taking the lock, that a process that keeps it
is named in the file, that a half-written file is the taker's, and that a taker
who meets a keeper is still reading. A keeper that leaves and a taker that comes
are the two steps with work in them (`ApartByLeaving`, `ApartKept`).
`NothingLeftOut` needs to know why a target may be skipped: `Ledger` says that
each loop has booked a result for every target behind it, that a lock which names
a process that ended is that of a killed one, that a skipped target is being
built or cleaned, was, or a process was killed, and that a file with two texts in it has
had writers who went on (`GarbledSettled`). What an ended process has booked is then
also what its exit code was made of.

For any designs, any number of HLS cores and any bounds (`DesignsAssumption`,
`CoresAssumption`; the bounds only limit when a step may be taken) it proves of `Build`

- `StampedImagesAreTrue`: `YoctoTruthful`;
- `ShippedIsFresh`: `ShippedFresh`;
- `AllIsNoop`: `NoopWhenSettled`.

All begin with the stack of a run. `RunOK` says which entries may be in front of
which: every entry has a rank, a stack is in the order of its ranks (`Sorted`), and
what a stage puts on the stack fits before what is behind it (`Expands`). The steps
of an image build are on the stack together, and in order (`ImagesInOrder`), so
"what the build has done so far" can be read off the stack: it has hashed its inputs
(`Hashed`), copied the handoff (`Handed`), configured, baked, packaged. `YoctoInv`
says for each of these phases which inputs the build has seen, by the number of the
edit that made them. An input that was edited never has its number again, though it may
have its text again; that is why "if what was hashed still is the configuration, then it
is what the configure script read" (`Same`) survives an edit at any time, and why
recipes, which are only ever read later than they are hashed, are never older than their
stamp. A handoff that is not older than the XSA is the present one's or torn
(`HandoffFits`), a marker that is older than neither configuration nor handoff is of
both, if the build directory it stands for is still there (`MarkerFits`), and `StampFits`
says what follows for images and stamp once the build is over: images of the build that
wrote their stamp are of its very edits, so that equal texts are enough
(`"apart" \notin taint`); of others the numbers have to agree. `YoctoTruthful` is read
off it (`ImagesAreTrue`).

`ShippedFresh` asks three questions of a run. Is what is out of date *found* out of
date? The runner compares times only, so `FilesInv` says of each artifact on the way
to an archive that, if it is stale and what it is made from is there and is not, it
fails the test of times its stage makes. This holds whatever failed or was removed in
between, because what is written together (`Ordered`) and what leaves together
(`Together`) does not take an input away from under a stale output unseen. Is what a
stage needs right *when it runs*? `TodoInv`: a workspace is made only where there is
none, and ahead of the boot file made of it; the boot file is made from an application
that is not stale; the XSA is done before both. And is it *done*? `AllInv` says of an
undisturbed run of all stages that each archive and each thing it is made from is up to
date, or a step that will make it so is still on the stack (`XsaDue`, `BootDue`,
`McsDue`, `FlashDue`, `ZipDue`, `ImagesDue`), so that an empty stack leaves nothing
stale. Skips are where the difficulty is: a stage that skips takes its step off the
stack, and `FilesInv` with `TodoInv` must show that what it would have made is fresh.
The conjunction, `ShipInv`, is inductive.

`NoopWhenSettled` needs more than that what is shipped is fresh: each stage has its
own reasons to run, and an 'all' may leave none of them. `Quiet` collects what the
stages want to find to be skipped: the XSA, a workspace and a boot file that pass
their tests of times (`BootGood`), the flash image (`McsGood`), the images with a stamp
that has all inputs (`Stamped`), and of each zip that it is current or that there is nothing to
put in it (`ZipGood`). `AllDone` says of an undisturbed run that each of these is so
already or a step that makes it so is still on the stack; for the images also that
what was hashed is still what the inputs are (`PhasesDone`), since nobody edits them in
such a run. On an empty stack that is `Quiet`, and on a quiet target a run of all
stages has nothing but stages on its stack, never a tool (`OnlyLooks`). Two points were
not obvious. A keep-boot clean takes workspace and application together
(`KeepBootTakes`), and then the stage compares the boot file with the XSA instead of
with the application: `BootAbove` says that a boot file that passed the one test passes
the other. And the stage that takes images for current may still write: it adopts a
stamp that is not there or lacks the XSA. The XSA has to be there whenever an 'all'
comes to that stage or stamps what it built, so that it leaves nothing to adopt. `QuietInv` is inductive together with `ShipInv`.

`HostToolsProofs` proves, for words of any width above 16 and any header sum
with a carry below 16:

- `HardwareChecksum`: the adjusted sum makes the deparser's single fold come out
  as the complement, or as 0 within the carry;
- `ChecksumsRight`: `ChecksumRight`, from it and the loop's invariant that a fold
  keeps the sum modulo the largest word (`FoldKeeps`);
- `CornerPayloadHits`: the corner payloads hit their corner.

For any hardware images (for `PlacedToRun` those of `Conventional`), patches,
installation and linker scripts it proves
`DriversAreWhole`: `DriversWhole`, `BootsAreNew`: `BootIsNew` and
`ApplicationsArePlaced`: `PlacedToRun`.
The first rests on `RepositoryWhole`, a statement about the functions that overlay
and fill the repository, and on the invariant that nothing touches it afterwards. The last asks
two things of what comes before: that the modification made after the sizes is the
last word on each section (`ScriptAsAsked`), whatever the API did in between, and that
the two ways of reading the XSA find the same processor in the designs both are made
for (`SameProcessor`); `Conventional` names those, and needs the hard processors to be
in the top description too, and a name of the application processor beside one of the
R5.

For any number of datagrams, faults and patterns it proves `PassesAreClean`:
`PassMeansClean`. What the listener keeps after each datagram it accepts is a
neighbour of the one before, by `in_order` (`Passed`); that the accepted ones are then a run of what
was sent is an induction over their number, made with the least number that fails
(`LeastNumber`), because the library's induction theorems cannot be instantiated.

For any data and any files, as long as no generated line reads like a marker
(`UpdateAssumption`), it proves `FilesOfOneData`: `FilesAgree`. A file that was
updated before is its own lines with something else in the blocks (`Variant`: each own
line has a text that stands in its place), and the lemmas about the folds over lines
(`FlattenIs`, `RemainderExists`) say that a file can be read off that table from the
front, what was written, and from the back, what is still to be read. The loop's
invariant is then that what it wrote is the rendering of the own lines it has passed
and what it still has to read stands for the rest, with a remainder of one block's old
lines while it is inside (`Rewriting`, `WriteSteps`). It gives at the end the same text
whatever stood in the blocks before, which is why running the script again, with other
data or after a stop between two files, needs no case of its own.

Only model-checked: the liveness properties (`NoWedge`, `NeverBlocked`, `FramesPass`,
`BusyEnds`), which need ENABLED; and `VectorsMatch`, a comparison of two enumerated
tables of test data.

## 5. What could follow

In the order of what it would add:

1. TX path: `TxMacOut` (refines a FIFO of whole frames), `TxPath` (guard,
   descriptor strip, builder, record pairing), `MrmacRxPacker`.
2. `UdpGenChk`, `MrmacTxAdapter`, `CmacShim`.
3. Firmware: `Zdma`, `TcpEcho`, the verdict of a loopback test, `LatencyTest` composed with
   `LatencyStats`.

## 6. Not modelled

The vendored MAC and FIFO cores (a git submodule, not in the repository) are
modelled from their use, as external definitions. Clock and voltage setup over
I2C, block designs and constraints have no control logic a model would say
anything of. Metastability is not modelled: a synchroniser is a register that
takes the new value a cycle earlier or later.

The TX path, the generator and checker, the MAC adapters and shim, the DMA driver
and the network interface are not modelled; `PROJECT.json` lists them. Two ports
cabled to each other with the fallback on may alternate in opposite phase and
never meet, as `app_config.h:156` says; `Reachable` asks for no link there.

Of the host tools: finding the vendor tools and the settings of their shells
(`find_tool`, `find_petalinux_settings`), the submodule check before a build
(`ensure_submodules`), parsing of command lines and printing of status, lists and
sizes, the wording of the readme files in the zips; in `build-vitis.py` the edits
of CMake files (`sync_cmake_sources`, `set_gc_sections`,
`set_compile_optimization`, `set_axipcie_port_type`), which are replacements of
one line of text each, and `report_local_mem_use`, which prints; the target
prompts of the scripts; the echo tests `zircon_echo_test.py` and `echo_test.py`,
which are one request and one answer at a time; `check_sources` of `update.py`,
which prints; the bytes of the frames in `gen_vectors.py` and the receive-only
tests; the diagram generators and `conf.py` under `docs/`, which draw.
