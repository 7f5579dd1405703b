----------------------------- MODULE StatsBlocks -----------------------------
(***************************************************************************)
(* What the register file reports: the rate meter, the sticky error bits,  *)
(* the latency statistics and the reads of values wider than a register.   *)
(* The four share the bus and nothing else, so each is run by itself; the  *)
(* variables of the others have no value then.                             *)
(***************************************************************************)
EXTENDS Integers, Sequences

CONSTANTS
    WINDOW, PRIME, PKTS_MOD, FrameBytes, MaxBytes, MaxRestarts, MaxSeq,
    StatusBits, LatBits, CNT_MOD, CDC_DEPTH, MaxEvents, MaxClears,
    LAT_BANKS, NBINS, MaxSamples, MaxCommands,
    Counters, RateWords, HALF, MaxCount, MaxWindows, MaxReads,
    None            \* the value of a variable of a block that is not run

VARIABLES
    block,          \* the block that is run
    rx, tx, txView, cnt, tick, prime, out, seq, unseen, wnd, restarted, last,
    hidden, restarts,
    src, fifo, word, sticky, clrUi, clrSrc, clears, known,
    ui, cfgq, cfg, ackUi, state, sweep, wr, seen, cmd, ack, smp, shadow,
    samples, ops, image, atWrite,
    window, hold, rateHold, ar, rValid, rData, shPend, ramQ, rready, start,
    lastSeq, reads,
    prev,           \* of the rate meter, or of the sticky bits
    live, sw        \* of the latency statistics, or of the reads

rateOnly == <<rx, tx, txView, cnt, tick, prime, out, seq, unseen, wnd, restarted,
              last, hidden, restarts>>
stickyOnly == <<src, fifo, word, sticky, clrUi, clrSrc, clears, known>>
latOnly == <<ui, cfgq, cfg, ackUi, state, sweep, wr, seen, cmd, ack, smp, shadow,
             samples, ops, image, atWrite>>
readsOnly == <<window, hold, rateHold, ar, rValid, rData, shPend, ramQ, rready, start,
               lastSeq, reads>>
svars == <<block, rateOnly, stickyOnly, latOnly, readsOnly, prev, live, sw>>

Meter == INSTANCE RateMeter
Sticky == INSTANCE ZirconSticky
Lat == INSTANCE LatencyStats
Reads == INSTANCE ZirconReads

ASSUME StatsAssumption ==
    /\ Meter!RateMeterAssumption /\ Sticky!ZirconStickyAssumption
    /\ Lat!LatencyStatsAssumption /\ Reads!ZirconReadsAssumption

NoRate ==
    /\ rx = None /\ tx = None /\ txView = None /\ cnt = None /\ tick = None
    /\ prime = None /\ out = None /\ seq = None /\ unseen = None /\ wnd = None
    /\ restarted = None /\ last = None /\ hidden = None /\ restarts = None

NoSticky ==
    /\ src = None /\ fifo = None /\ word = None /\ sticky = None /\ clrUi = None
    /\ clrSrc = None /\ clears = None /\ known = None

NoLat ==
    /\ ui = None /\ cfgq = None /\ cfg = None /\ ackUi = None /\ state = None
    /\ sweep = None /\ wr = None /\ seen = None /\ cmd = None /\ ack = None
    /\ smp = None /\ shadow = None /\ samples = None /\ ops = None
    /\ image = None /\ atWrite = None

NoReads ==
    /\ window = None /\ hold = None /\ rateHold = None /\ ar = None /\ rValid = None
    /\ rData = None /\ shPend = None /\ ramQ = None /\ rready = None /\ start = None
    /\ lastSeq = None /\ reads = None

Init ==
    \/ /\ block = "rate" /\ Meter!Init
       /\ NoSticky /\ NoLat /\ NoReads /\ live = None /\ sw = None
    \/ /\ block = "sticky" /\ Sticky!Init
       /\ NoRate /\ NoLat /\ NoReads /\ live = None /\ sw = None
    \/ /\ block = "lat" /\ Lat!Init
       /\ NoRate /\ NoSticky /\ NoReads /\ prev = None
    \/ /\ block = "reads" /\ Reads!Init
       /\ NoRate /\ NoSticky /\ NoLat /\ prev = None

MeterStep ==
    /\ block = "rate" /\ Meter!Next
    /\ UNCHANGED <<block, stickyOnly, latOnly, readsOnly, live, sw>>

StickyStep ==
    /\ block = "sticky" /\ Sticky!Next
    /\ UNCHANGED <<block, rateOnly, latOnly, readsOnly, live, sw>>

LatMoves(A) == block = "lat" /\ A /\ UNCHANGED <<block, rateOnly, stickyOnly, readsOnly, prev>>

LatStep == LatMoves(Lat!Next)

ReadsStep ==
    /\ block = "reads" /\ Reads!Next
    /\ UNCHANGED <<block, rateOnly, stickyOnly, latOnly, prev>>

Next == MeterStep \/ StickyStep \/ LatStep \/ ReadsStep

\* The fairness of LatencyStats: the clocks run, so words and the acknowledge cross
\* and the engine moves.
Fairness ==
    /\ WF_svars(LatMoves(Lat!CfgSample)) /\ WF_svars(LatMoves(Lat!CfgDeliver))
    /\ WF_svars(LatMoves(Lat!AckCross)) /\ WF_svars(LatMoves(Lat!Engine))

Spec == Init /\ [][Next]_svars /\ Fairness

-----------------------------------------------------------------------------
\* Each window the rate meter publishes has exactly the frames received, and the
\* frames sent, between its two ticks (RateMeter).
WindowsExact == block = "rate" => Meter!WindowsExact

\* No sticky bit is set without an event, and no STATUS bit is lost although words
\* are skipped and other bits are cleared in the same cycle (ZirconSticky).
StickyExact == block = "sticky" => Sticky!NoFalseAlarm /\ Sticky!StatusNotLost

\* A snapshot read after BUSY is one moment of the banks, not older than the command
\* that asked for it, and the bins of a bank add up to its count (LatencyStats).
SnapshotExact ==
    block = "lat" => Lat!SnapshotCoherent /\ Lat!SnapshotFresh /\ Lat!BinsAddUp

\* A cleared bank never mixes samples of two bin geometries (LatencyStats).
ClearSeparates == [][block = "lat" => Lat!CleanClear]_svars

\* Every command of the latency statistics ends: BUSY does not stay up.
BusyEnds == block = "lat" /\ Lat!Busy ~> block = "lat" /\ ~Lat!Busy

\* A 64-bit counter read in two halves is never torn, the registers of the rate
\* window are of the window whose number was read, and each access gets its own
\* response (ZirconReads).
ReadsExact == block = "reads" => Reads!NotTorn /\ Reads!OneWindow /\ Reads!ResponsePaired
=============================================================================
