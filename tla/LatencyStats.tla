---------------------------- MODULE LatencyStats ----------------------------
(***************************************************************************)
(* The latency statistics and the handshake that commands them: the        *)
(* firmware (zircon_lat_set_bins, zircon_lat_clear, zircon_lat_snapshot,   *)
(* zircon_lat_read), LAT_CTRL in the register file, the configuration word *)
(* that crosses to the core clock, the engine of latency_stats core cycle  *)
(* by core cycle, its shadow RAM, and the acknowledge that crosses back.   *)
(*                                                                         *)
(* The two clocks are interleaved: a step is one core cycle, one register  *)
(* access or one crossing. BASE and WIDTH are numbered by the writes that  *)
(* set them; a bank remembers the pairs its samples were binned with.      *)
(* The low and the high half of a 48-bit bin are two shadow words that     *)
(* hold the number they are halves of. Sums, minimum and maximum follow    *)
(* COUNT cycle for cycle and are left out.                                 *)
(***************************************************************************)
EXTENDS Integers, Sequences, Functions

CONSTANTS
    LAT_BANKS,
    NBINS,         \* bins of a bank (64)
    CDC_DEPTH,     \* words in the configuration FIFO (8)
    MaxSamples,    \* bound: samples that arrive
    MaxCommands    \* bound: operations of the firmware

\* What the constants have to be (assumed in StatsBlocks).
LatencyStatsAssumption ==
    /\ LAT_BANKS \in Nat \ {0} /\ NBINS \in Nat \ {0} /\ CDC_DEPTH \in Nat \ {0}
    /\ MaxSamples \in Nat /\ MaxCommands \in Nat

Banks == 0 .. LAT_BANKS - 1
Bins == 0 .. NBINS - 1
Scalars == 0 .. 3
COUNT == 0
IMPLAUSIBLE == 1
BIN_BASE == 2
BIN_WIDTH == 3

VARIABLES
    ui,        \* LAT_CTRL and the bin registers: [req, snap, clr, base, width]
    cfgq,      \* configuration words on their way to the core clock
    cfg,       \* the core's copy
    ackUi,     \* lat_ack_toggle in the register file's clock
    state,     \* the engine's FSM
    sweep,     \* sw_bank_reg, sw_idx_reg
    wr,        \* the bin word read in the last cycle, to be written to the shadow
    seen,      \* command toggles seen
    cmd,       \* the command being served: [req, snap, clr]
    ack,       \* cmd_ack_toggle
    smp,       \* the sample in the pipeline
    live,      \* the banks: [cnt, imp, bins, geos]
    shadow,    \* the shadow RAM
    samples,   \* samples that arrived
    sw,        \* the firmware: what it does, [pc, op, clr]
    ops,       \* its operations so far
    image,     \* the banks as they were when a snapshot command was taken
    atWrite    \* and when it was written; both empty when no snapshot is under way

uiVars == <<ui, ackUi, sw, ops, atWrite>>
cdcVars == <<cfgq, cfg>>
cmdVars == <<seen, cmd, ack, image>>
vars == <<ui, cfgq, cfg, ackUi, state, sweep, wr, seen, cmd, ack, smp, live,
          shadow, samples, sw, ops, image, atWrite>>

Off == [b \in Banks |-> FALSE]
EmptyBank == [cnt |-> 0, imp |-> 0, bins |-> [i \in Bins |-> 0], geos |-> {}]
Empty == [b \in Banks |-> EmptyBank]
Start == [bank |-> 0, idx |-> 0]
NoWord == [valid |-> FALSE, bank |-> 0, idx |-> 0, val |-> 0]
NoSample == [bank |-> 0, bin |-> 0, base |-> 0, width |-> 0, q |-> 0]
Word == [req |-> FALSE, snap |-> FALSE, clr |-> Off, base |-> 0, width |-> 0]
ShadowReset == [b \in Banks |-> [sc |-> [w \in Scalars |-> 0],
                                 bins |-> [i \in 0 .. 2 * NBINS - 1 |-> 0]]]
Resting == [pc |-> "idle", op |-> "none", clr |-> Off]

\* The bin RAM has no reset: the engine starts with a sweep of every bank.
Init ==
    /\ ui = Word /\ cfgq = <<>> /\ cfg = Word /\ ackUi = FALSE
    /\ state = "CLR" /\ sweep = Start /\ wr = NoWord
    /\ seen = [req |-> FALSE, snap |-> FALSE, clr |-> Off]
    /\ cmd = [req |-> FALSE, snap |-> FALSE, clr |-> [b \in Banks |-> TRUE]]
    /\ ack = FALSE
    /\ smp = NoSample
    /\ live = Empty /\ shadow = ShadowReset /\ samples = 0
    /\ sw = Resting /\ ops = 0 /\ image = Empty /\ atWrite = Empty

-----------------------------------------------------------------------------
(* The firmware and the registers.                                         *)

Busy == ui.req # ackUi

\* zircon_lat_set_bins: one register, then the other.
SetBase ==
    /\ sw.pc = "idle" /\ ops < MaxCommands
    /\ ops' = ops + 1
    /\ ui' = [ui EXCEPT !.base = @ + 1]
    /\ sw' = [sw EXCEPT !.pc = "width"]
    /\ UNCHANGED <<ackUi, atWrite, cdcVars, state, sweep, wr, cmdVars, smp, live, shadow, samples>>

SetWidth ==
    /\ sw.pc = "width"
    /\ ui' = [ui EXCEPT !.width = @ + 1]
    /\ sw' = Resting
    /\ UNCHANGED <<ackUi, ops, atWrite, cdcVars, state, sweep, wr, cmdVars, smp, live, shadow, samples>>

\* zircon_lat_clear and zircon_lat_snapshot: the first lat_wait.
Call ==
    /\ sw.pc = "idle" /\ ops < MaxCommands
    /\ ops' = ops + 1
    /\ \/ \E c \in [Banks -> BOOLEAN] :
             c # Off /\ sw' = [pc |-> "write", op |-> "clear", clr |-> c]
       \/ sw' = [pc |-> "write", op |-> "snap", clr |-> Off]
    /\ UNCHANGED <<ui, ackUi, atWrite, cdcVars, state, sweep, wr, cmdVars, smp, live, shadow, samples>>

\* Fault seed: SNAP does not toggle the request.
WriteCommandSilentSnap ==
    /\ sw.pc = "write" /\ ~Busy
    /\ ui' = [ui EXCEPT !.req = IF sw.op = "snap" THEN @ ELSE ~@,
                        !.snap = IF sw.op = "snap" THEN ~@ ELSE @,
                        !.clr = [b \in Banks |-> @[b] # sw.clr[b]]]
    /\ sw' = [sw EXCEPT !.pc = "poll"]
    /\ atWrite' = IF sw.op = "snap" THEN live ELSE Empty
    /\ UNCHANGED <<ackUi, ops, cdcVars, state, sweep, wr, cmdVars, smp, live, shadow, samples>>

\* The LAT_CTRL write: each command bit toggles, and the request with them.
WriteCommand ==
    /\ sw.pc = "write" /\ ~Busy
    /\ ui' = [ui EXCEPT !.req = ~@,
                        !.snap = IF sw.op = "snap" THEN ~@ ELSE @,
                        !.clr = [b \in Banks |-> @[b] # sw.clr[b]]]
    /\ sw' = [sw EXCEPT !.pc = "poll"]
    /\ atWrite' = IF sw.op = "snap" THEN live ELSE Empty
    /\ UNCHANGED <<ackUi, ops, cdcVars, state, sweep, wr, cmdVars, smp, live, shadow, samples>>

\* The second lat_wait: BUSY reads 0. A snapshot is then read.
PollDone ==
    /\ sw.pc = "poll" /\ ~Busy
    /\ sw' = IF sw.op = "snap" THEN [sw EXCEPT !.pc = "read"] ELSE Resting
    /\ UNCHANGED <<ui, ackUi, ops, atWrite, cdcVars, state, sweep, wr, cmdVars, smp, live, shadow, samples>>

\* zircon_lat_read takes as long as it takes.
ReadDone ==
    /\ sw.pc = "read"
    /\ sw' = Resting
    /\ atWrite' = Empty /\ image' = Empty
    /\ UNCHANGED <<ui, ackUi, ops, cdcVars, state, sweep, wr, seen, cmd, ack, smp, live, shadow, samples>>

Software == SetBase \/ SetWidth \/ Call \/ WriteCommand \/ PollDone \/ ReadDone

-----------------------------------------------------------------------------
(* The crossings: whole words, in order, some of them skipped when the     *)
(* FIFO is full; a word equal to the one before it changes nothing.        *)

LastSent == IF cfgq = <<>> THEN cfg ELSE cfgq[Len(cfgq)]

CfgSample ==
    /\ Len(cfgq) < CDC_DEPTH /\ ui # LastSent
    /\ cfgq' = Append(cfgq, ui)
    /\ UNCHANGED <<uiVars, cfg, state, sweep, wr, cmdVars, smp, live, shadow, samples>>

\* Fault seed: the bits of the word cross one by one, the width last.
CfgDeliverTorn ==
    /\ cfgq # <<>>
    /\ IF [Head(cfgq) EXCEPT !.width = cfg.width] # cfg
       THEN cfg' = [Head(cfgq) EXCEPT !.width = cfg.width] /\ UNCHANGED cfgq
       ELSE cfg' = Head(cfgq) /\ cfgq' = Tail(cfgq)
    /\ UNCHANGED <<uiVars, state, sweep, wr, cmdVars, smp, live, shadow, samples>>

CfgDeliver ==
    /\ cfgq # <<>>
    /\ cfg' = Head(cfgq)
    /\ cfgq' = Tail(cfgq)
    /\ UNCHANGED <<uiVars, state, sweep, wr, cmdVars, smp, live, shadow, samples>>

AckCross ==
    /\ ackUi # ack
    /\ ackUi' = ack
    /\ UNCHANGED <<ui, sw, ops, atWrite, cdcVars, state, sweep, wr, cmdVars, smp, live, shadow, samples>>

-----------------------------------------------------------------------------
(* The engine, one core cycle per step.                                    *)

Pending == cfg.req # seen.req

\* The bin word read in the cycle before is written in this one, in any state.
ShadowBin ==
    IF wr.valid THEN [shadow EXCEPT ![wr.bank].bins[wr.idx] = wr.val] ELSE shadow

LastBank == sweep.bank = LAT_BANKS - 1

NextBank == [bank |-> IF LastBank THEN 0 ELSE sweep.bank + 1, idx |-> 0]

Accept ==
    /\ state = "IDLE" /\ ~Pending /\ samples < MaxSamples
    /\ samples' = samples + 1
    /\ \E b \in Banks :
          \/ \* implausible: counted, and not pipelined
             /\ live' = [live EXCEPT ![b].imp = @ + 1]
             /\ UNCHANGED <<state, smp>>
          \/ \E i \in Bins : smp' = [NoSample EXCEPT !.bank = b, !.bin = i]
             /\ state' = "P1"
             /\ UNCHANGED live
    /\ sweep' = Start /\ wr' = NoWord /\ shadow' = ShadowBin
    /\ UNCHANGED <<uiVars, cdcVars, cmdVars>>

\* P1 subtracts BASE, P2 shifts by WIDTH: each reads its register in its cycle.
SubtractBase ==
    /\ state = "P1" /\ state' = "P2"
    /\ smp' = [smp EXCEPT !.base = cfg.base]
    /\ UNCHANGED <<uiVars, cdcVars, sweep, wr, cmdVars, live, shadow, samples>>

ShiftWidth ==
    /\ state = "P2" /\ state' = "P3"
    /\ smp' = [smp EXCEPT !.width = cfg.width]
    /\ UNCHANGED <<uiVars, cdcVars, sweep, wr, cmdVars, live, shadow, samples>>

ReadBin ==
    /\ state = "P3" /\ state' = "P4"
    /\ smp' = [smp EXCEPT !.q = live[smp.bank].bins[smp.bin]]
    /\ UNCHANGED <<uiVars, cdcVars, sweep, wr, cmdVars, live, shadow, samples>>

Count ==
    /\ state = "P4" /\ state' = "IDLE"
    /\ live' = [live EXCEPT ![smp.bank].bins[smp.bin] = smp.q + 1,
                            ![smp.bank].cnt = @ + 1,
                            ![smp.bank].geos = @ \cup {<<smp.base, smp.width>>}]
    /\ smp' = NoSample
    /\ UNCHANGED <<uiVars, cdcVars, sweep, wr, cmdVars, shadow, samples>>

Take ==
    /\ state = "IDLE" /\ Pending
    /\ state' = "CMD" /\ sweep' = Start
    /\ wr' = NoWord /\ shadow' = ShadowBin
    /\ UNCHANGED <<uiVars, cdcVars, cmdVars, smp, live, samples>>

Latch ==
    LET clr == [b \in Banks |-> cfg.clr[b] # seen.clr[b]]
        snap == cfg.snap # seen.snap
    IN /\ state = "CMD"
       /\ seen' = [req |-> cfg.req, snap |-> cfg.snap, clr |-> cfg.clr]
       /\ cmd' = [req |-> cfg.req, snap |-> snap, clr |-> clr]
       /\ image' = IF snap THEN live ELSE image
       /\ state' = CASE clr # Off -> "CLR" [] clr = Off /\ snap -> "SNAP_SC" [] OTHER -> "ACK"
       /\ sweep' = Start
       /\ UNCHANGED <<uiVars, cdcVars, ack, wr, smp, live, shadow, samples>>

\* The bank's bins one by one, its scalars with the last.
Swept ==
    IF ~cmd.clr[sweep.bank] THEN live
    ELSE [live EXCEPT ![sweep.bank] =
             IF sweep.idx = NBINS - 1 THEN EmptyBank
             ELSE [@ EXCEPT !.bins[sweep.idx] = 0]]

\* Fault seed: a command that only clears is not acknowledged.
ClrSweepNoAck ==
    /\ state = "CLR"
    /\ live' = Swept
    /\ IF sweep.idx < NBINS - 1
       THEN /\ sweep' = [sweep EXCEPT !.idx = @ + 1]
            /\ UNCHANGED <<state, cmd>>
       ELSE /\ sweep' = NextBank
            /\ cmd' = IF LastBank THEN [cmd EXCEPT !.clr = Off] ELSE cmd
            /\ state' = IF ~LastBank THEN "CLR" ELSE IF cmd.snap THEN "SNAP_SC" ELSE "IDLE"
    /\ UNCHANGED <<uiVars, cdcVars, wr, seen, ack, image, smp, shadow, samples>>

ClrSweep ==
    /\ state = "CLR"
    /\ live' = Swept
    /\ IF sweep.idx < NBINS - 1
       THEN /\ sweep' = [sweep EXCEPT !.idx = @ + 1]
            /\ UNCHANGED <<state, cmd>>
       ELSE /\ sweep' = NextBank
            /\ cmd' = IF LastBank THEN [cmd EXCEPT !.clr = Off] ELSE cmd
            /\ state' = CASE ~LastBank -> "CLR"
                          [] LastBank /\ cmd.snap -> "SNAP_SC"
                          [] LastBank /\ ~cmd.snap /\ cmd.req # ack -> "ACK"
                          [] OTHER -> "IDLE"
    /\ UNCHANGED <<uiVars, cdcVars, wr, seen, ack, image, smp, shadow, samples>>

ScalarWord(b, w) ==
    CASE w = COUNT -> live[b].cnt
      [] w = IMPLAUSIBLE -> live[b].imp
      [] w = BIN_BASE -> cfg.base
      [] w = BIN_WIDTH -> cfg.width

\* The write port takes the previous bank's last bin first.
SnapScalar ==
    /\ state = "SNAP_SC"
    /\ IF wr.valid
       THEN /\ shadow' = ShadowBin
            /\ UNCHANGED <<state, sweep>>
       ELSE /\ shadow' = [shadow EXCEPT ![sweep.bank].sc[sweep.idx] =
                             ScalarWord(sweep.bank, sweep.idx)]
            /\ state' = IF sweep.idx = BIN_WIDTH THEN "SNAP_BIN" ELSE state
            /\ sweep' = [sweep EXCEPT !.idx = IF @ = BIN_WIDTH THEN 0 ELSE @ + 1]
    /\ wr' = NoWord
    /\ UNCHANGED <<uiVars, cdcVars, cmdVars, smp, live, samples>>

SnapBin ==
    /\ state = "SNAP_BIN"
    /\ shadow' = ShadowBin
    /\ wr' = [valid |-> TRUE, bank |-> sweep.bank, idx |-> sweep.idx,
              val |-> live[sweep.bank].bins[sweep.idx \div 2]]
    /\ IF sweep.idx < 2 * NBINS - 1
       THEN /\ sweep' = [sweep EXCEPT !.idx = @ + 1]
            /\ UNCHANGED <<state, cmd>>
       ELSE /\ sweep' = NextBank
            /\ state' = IF LastBank THEN "ACK" ELSE "SNAP_SC"
            /\ cmd' = IF LastBank THEN [cmd EXCEPT !.snap = FALSE] ELSE cmd
    /\ UNCHANGED <<uiVars, cdcVars, seen, ack, image, smp, live, samples>>

Ack ==
    /\ state = "ACK" /\ state' = "IDLE"
    /\ ack' = cmd.req
    /\ shadow' = ShadowBin /\ wr' = NoWord
    /\ UNCHANGED <<uiVars, cdcVars, sweep, seen, cmd, image, smp, live, samples>>

Engine ==
    SubtractBase \/ ShiftWidth \/ ReadBin \/ Count \/ Take \/ Latch \/ ClrSweep \/ SnapScalar \/ SnapBin \/ Ack

Next == Software \/ CfgSample \/ CfgDeliver \/ AckCross \/ Accept \/ Engine

\* Both clocks run. Samples need not arrive, and the firmware need not call.
Fairness == WF_vars(CfgSample) /\ WF_vars(CfgDeliver) /\ WF_vars(AckCross) /\ WF_vars(Engine)

Spec == Init /\ [][Next]_vars /\ Fairness

-----------------------------------------------------------------------------
Toggles == [Banks -> BOOLEAN]
WordType == [req : BOOLEAN, snap : BOOLEAN, clr : Toggles, base : Nat, width : Nat]
BankType == [cnt : Nat, imp : Nat, bins : [Bins -> Nat], geos : SUBSET (Nat \X Nat)]

\* Every register has its type; the sweep stays inside the RAMs.
TypeOK ==
    /\ ui \in WordType /\ cfg \in WordType /\ cfgq \in Seq(WordType)
    /\ Len(cfgq) <= CDC_DEPTH
    /\ ackUi \in BOOLEAN /\ ack \in BOOLEAN
    /\ state \in {"CLR", "IDLE", "P1", "P2", "P3", "P4", "CMD", "SNAP_SC", "SNAP_BIN", "ACK"}
    /\ sweep.bank \in Banks
    /\ sweep.idx \in CASE state = "SNAP_SC" -> Scalars
                       [] state = "SNAP_BIN" -> 0 .. 2 * NBINS - 1
                       [] OTHER -> Bins
    /\ live \in [Banks -> BankType]
    /\ shadow \in [Banks -> [sc : [Scalars -> Nat], bins : [0 .. 2 * NBINS - 1 -> Nat]]]
    /\ sw.pc \in {"idle", "width", "write", "poll", "read"}

Total(bins) == FoldFunction(+, 0, bins)

\* "All values of a snapshot belong to the same set of samples (the histogram adds
\* up to COUNT)": whatever samples and commands come while the firmware reads, the
\* shadow holds the banks as they were when the command was taken, both halves of
\* every bin, and nothing is being written to it.
SnapshotCoherent ==
    sw.pc = "read" =>
        /\ ~wr.valid /\ state \notin {"SNAP_SC", "SNAP_BIN"}
        /\ \A b \in Banks :
              /\ shadow[b].sc[COUNT] = image[b].cnt
              /\ shadow[b].sc[IMPLAUSIBLE] = image[b].imp
              /\ \A i \in Bins : /\ shadow[b].bins[2 * i] = image[b].bins[i]
                                 /\ shadow[b].bins[2 * i + 1] = image[b].bins[i]
              /\ Total(image[b].bins) = image[b].cnt

\* A snapshot is not an old one: it has every sample counted before SNAP was
\* written, and in every bank "the geometry at snapshot time".
SnapshotFresh ==
    sw.pc = "read" =>
        \A b \in Banks : /\ shadow[b].sc[COUNT] >= atWrite[b].cnt
                         /\ shadow[b].sc[IMPLAUSIBLE] >= atWrite[b].imp
                         /\ shadow[b].sc[BIN_BASE] = ui.base
                         /\ shadow[b].sc[BIN_WIDTH] = ui.width

\* "Clear the banks after changing them": once zircon_lat_clear returns, no sample
\* binned with an earlier geometry, or with BASE of one and WIDTH of another, is
\* left in a bank it cleared (nor is one added while the geometry stays).
CleanClear ==
    sw.pc = "poll" /\ sw.op = "clear" /\ sw'.pc = "idle" =>
        \A b \in Banks : sw.clr[b] => live[b].geos \subseteq {<<ui.base, ui.width>>}

ClearSeparates == [][CleanClear]_vars

\* Between samples and commands the bins of a bank add up to its COUNT.
BinsAddUp == state = "IDLE" => \A b \in Banks : Total(live[b].bins) = live[b].cnt
=============================================================================
