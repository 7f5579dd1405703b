----------------------------- MODULE PtpTxTagger -----------------------------
(***************************************************************************)
(* ptp_tx_tagger clock cycle by clock cycle: the start-of-frame gate that  *)
(* puts one PTP record ahead of every transmitted frame, the allocation of *)
(* tags in the pending table, the two-stage lookup of a returned timestamp *)
(* and the sample pipeline behind it. The MAC is external: it returns the  *)
(* timestamp of a tagged frame in any order, at any time, or never, and    *)
(* keeps those of frames sent before a reset.                              *)
(***************************************************************************)
EXTENDS Integers, Sequences, FiniteSets

CONSTANTS
    TABLE,            \* entries of the pending table (64)
    TAGS,             \* tags of the sequence number (2^16), a multiple of TABLE
    PTP_FIFO_DEPTH,
    MaxFrames,        \* bound: frames offered
    MaxResets         \* bound: mac_tx resets

ASSUME PtpTxTaggerAssumption ==
    /\ TABLE \in Nat \ {0} /\ TAGS \in Nat \ {0}
    /\ TAGS % TABLE = 0 /\ TAGS > TABLE
    /\ PTP_FIFO_DEPTH \in Nat \ {0}
    /\ MaxFrames \in Nat /\ MaxResets \in Nat

VARIABLES
    frame,      \* the frame on s_axis: number n, want, beats left; None
    frames,     \* frames offered so far
    sof,        \* sof_reg: the next input beat is a frame's first
    pushed,     \* pushed_reg: that frame's record is in the FIFO
    seq,        \* seq_reg: the next tag
    allocs,     \* tags allocated ever: an age for the tag, which can repeat
    ptp,        \* the PTP record FIFO: 0 (op NONE) or the age of the frame's tag
    mac,        \* timestamps the MAC may still return: tag and its age
    valid,      \* pend_valid: the table's entries in use
    pend,       \* pend_ram: tag[15:6] and the age of the tag
    a,          \* stage A registers
    pipe,       \* v1..v4: samples in the latency pipeline
    err,        \* err_cnt: LOST, STALE, OVF
    open,       \* since the last clear: tags allocated less timestamps matched,
    unmatched,  \* timestamps returned less timestamps matched,
    unsampled,  \* timestamps matched less samples delivered; and
    ahead,      \* records pushed less frames released
    floor,      \* allocs at the last reset
    resets

table == <<seq, allocs, valid, pend>>
counts == <<err, open, unmatched, unsampled>>
vars == <<frame, frames, sof, pushed, seq, allocs, ptp, mac, valid, pend, a,
          pipe, err, open, unmatched, unsampled, ahead, floor, resets>>

None == [n |-> 0, want |-> FALSE, left |-> 0]
NoEntry == [hi |-> 0, age |-> 0]
NoReturn == [valid |-> FALSE, vld |-> FALSE, tag |-> 0, age |-> 0, ent |-> NoEntry]
NoErr == [lost |-> 0, stale |-> 0, ovf |-> 0]
Idle == [i \in 1 .. 4 |-> FALSE]

Index(tag) == tag % TABLE
High(tag) == tag \div TABLE
One(b) == IF b THEN 1 ELSE 0
InPipe(p) == Cardinality({i \in 1 .. 4 : p[i]})

Init ==
    /\ frame = None /\ frames = 0
    /\ sof = TRUE /\ pushed = FALSE
    /\ seq = 0 /\ allocs = 0 /\ ptp = <<>> /\ mac = {}
    /\ valid = {} /\ pend = [i \in 0 .. TABLE - 1 |-> NoEntry]
    /\ a = NoReturn /\ pipe = Idle
    /\ err = NoErr /\ open = 0 /\ unmatched = 0 /\ unsampled = 0 /\ ahead = 0
    /\ floor = 0 /\ resets = 0

-----------------------------------------------------------------------------
(* Combinational signals.                                                  *)

\* Fault seed: the gate never opens for a first beat.
GateClosed == ~sof

Gate == ~sof \/ pushed

Push == frame # None /\ sof /\ ~pushed /\ Len(ptp) < PTP_FIFO_DEPTH
Alloc == Push /\ frame.want

\* A returned timestamp matches the entry read for it the cycle before.
Hit == a.valid /\ a.vld /\ a.ent.hi = High(a.tag)
HitIndex == Index(a.tag)

\* The frame is stripped of a beat; a new one may follow at once.
NextFrame ==
    IF frames = MaxFrames THEN {None}
    ELSE {None} \cup [n : {frames + 1}, want : BOOLEAN, left : {1, 2}]

-----------------------------------------------------------------------------
(* What the registers do in a cycle without reset.                         *)

\* Fault seed: the mark stays set behind a frame's first beat.
SofGateSticky(mready) ==
    LET take == frame # None /\ Gate /\ mready
    IN /\ pushed' = (pushed \/ Push)
       /\ sof' = IF take THEN frame.left = 1 ELSE sof
       /\ ahead' = ahead + One(Push) - One(take /\ sof)
       /\ IF frame = None \/ (take /\ frame.left = 1)
          THEN frame' \in NextFrame
          ELSE frame' = IF take THEN [frame EXCEPT !.left = @ - 1] ELSE frame
       /\ frames' = IF frame' # None /\ frame'.n > frames THEN frame'.n ELSE frames

\* The gate: the frame's first beat waits until its record has been pushed.
SofGate(mready) ==
    LET take == frame # None /\ Gate /\ mready
    IN /\ pushed' = ((pushed \/ Push) /\ ~(take /\ sof))
       /\ sof' = IF take THEN frame.left = 1 ELSE sof
       /\ ahead' = ahead + One(Push) - One(take /\ sof)
       /\ IF frame = None \/ (take /\ frame.left = 1)
          THEN frame' \in NextFrame
          ELSE frame' = IF take THEN [frame EXCEPT !.left = @ - 1] ELSE frame
       /\ frames' = IF frame' # None /\ frame'.n > frames THEN frame'.n ELSE frames

\* The record FIFO, and the frame in the MAC once the adapter took its record. A
\* timestamp is not later than the tag space is large.
PtpFifo(pready, ret) ==
    LET pop == pready /\ ptp # <<>>
        tagged == IF pop /\ Head(ptp).op THEN {[tag |-> Head(ptp).tag, age |-> Head(ptp).age]} ELSE {}
    IN /\ ptp' = (IF pop THEN Tail(ptp) ELSE ptp)
                 \o (IF Push THEN <<[op |-> frame.want, tag |-> IF frame.want THEN seq ELSE 0,
                                     age |-> IF frame.want THEN allocs ELSE 0]>> ELSE <<>>)
       /\ mac' = {t \in (mac \ ret) \cup tagged : allocs' - t.age < TAGS}

\* Fault seed: an allocation in the cycle of the table read is not seen.
StageAUnmasked(ret) ==
    a' = IF ret = {} THEN NoReturn
         ELSE LET t == CHOOSE t \in ret : TRUE
                  i == Index(t.tag)
              IN [valid |-> TRUE, vld |-> i \in valid,
                  tag |-> t.tag, age |-> t.age, ent |-> pend[i]]

\* Stage A: the entry of the returned tag; an entry that is being replaced in
\* this cycle counts as gone.
StageA(ret) ==
    a' = IF ret = {} THEN NoReturn
         ELSE LET t == CHOOSE t \in ret : TRUE
                  i == Index(t.tag)
              IN [valid |-> TRUE, vld |-> i \in valid /\ ~(Alloc /\ Index(seq) = i),
                  tag |-> t.tag, age |-> t.age, ent |-> pend[i]]

\* Fault seed: the return wins against an allocation of the same entry.
PendingTableReturnWins ==
    /\ valid' = (valid \cup (IF Alloc THEN {Index(seq)} ELSE {}))
                \ (IF Hit THEN {HitIndex} ELSE {})
    /\ pend' = IF Alloc THEN [pend EXCEPT ![Index(seq)] = [hi |-> High(seq), age |-> allocs]] ELSE pend
    /\ seq' = IF Alloc THEN (seq + 1) % TAGS ELSE seq
    /\ allocs' = allocs + One(Alloc)

\* Stage B clears a matched entry; an allocation of the same entry wins.
PendingTable ==
    /\ valid' = (valid \ (IF Hit THEN {HitIndex} ELSE {}))
                \cup (IF Alloc THEN {Index(seq)} ELSE {})
    /\ pend' = IF Alloc THEN [pend EXCEPT ![Index(seq)] = [hi |-> High(seq), age |-> allocs]] ELSE pend
    /\ seq' = IF Alloc THEN (seq + 1) % TAGS ELSE seq
    /\ allocs' = allocs + One(Alloc)

\* An allocation replaces an entry whose timestamp never came back.
Loses == Alloc /\ Index(seq) \in valid /\ ~(Hit /\ HitIndex = Index(seq))

Misses == a.valid /\ ~Hit

\* The counters, cleared by stat_clr even in a cycle that counts.
Counters(clr, sready) ==
    LET full == pipe[4] /\ ~sready
    IN IF clr
       THEN /\ err' = NoErr
            /\ open' = Cardinality(valid')
            /\ unmatched' = One(a'.valid)
            /\ unsampled' = InPipe(pipe')
       ELSE /\ err' = [lost |-> err.lost + One(Loses), stale |-> err.stale + One(Misses),
                       ovf |-> err.ovf + One(full)]
            /\ open' = open + One(Alloc) - One(Hit)
            /\ unmatched' = unmatched + One(a'.valid) - One(Hit)
            /\ unsampled' = unsampled + One(Hit) - One(pipe[4] /\ sready)

Pipeline == pipe' = <<Hit, pipe[1], pipe[2], pipe[3]>>

Clock(mready, pready, sready, clr, ret) ==
    /\ SofGate(mready)
    /\ PendingTable
    /\ PtpFifo(pready, ret)
    /\ StageA(ret)
    /\ Pipeline
    /\ Counters(clr, sready)
    /\ UNCHANGED <<floor, resets>>

\* At most one timestamp returns in a cycle.
Returns == {{}} \cup {{t} : t \in mac}

\* A ready that nothing waits for makes no difference.
Ready(waiting) == IF waiting THEN BOOLEAN ELSE {TRUE}

Cycle ==
    \E mready \in Ready(frame # None /\ Gate), pready \in Ready(ptp # <<>>),
       sready \in Ready(pipe[4]), clr \in BOOLEAN, ret \in Returns :
        Clock(mready, pready, sready, clr, ret)

\* The MAC sends a tagged frame without ever returning its timestamp.
MacForgets ==
    /\ \E t \in mac : mac' = mac \ {t}
    /\ UNCHANGED <<frame, frames, sof, pushed, table, ptp, a, pipe, counts, ahead, floor, resets>>

\* Fault seed: the sequence number restarts with the rest.
ResetWithSeq ==
    /\ resets < MaxResets
    /\ resets' = resets + 1
    /\ frame' = None /\ sof' = TRUE /\ pushed' = FALSE /\ ahead' = 0
    /\ ptp' = <<>> /\ valid' = {} /\ pipe' = Idle /\ a' = NoReturn
    /\ err' = NoErr /\ open' = 0 /\ unmatched' = 0 /\ unsampled' = 0
    /\ seq' = 0 /\ floor' = allocs
    /\ UNCHANGED <<frames, allocs, pend, mac>>

\* A mac_tx reset: everything but the sequence number, and what the MAC may
\* still return. The frame source restarts with a whole frame; a push in this
\* very cycle still takes a tag.
Reset ==
    /\ resets < MaxResets
    /\ resets' = resets + 1
    /\ frame' = None /\ sof' = TRUE /\ pushed' = FALSE /\ ahead' = 0
    /\ ptp' = <<>> /\ valid' = {} /\ pipe' = Idle /\ a' = NoReturn
    /\ err' = NoErr /\ open' = 0 /\ unmatched' = 0 /\ unsampled' = 0
    /\ seq' = IF Alloc THEN (seq + 1) % TAGS ELSE seq
    /\ allocs' = allocs + One(Alloc) /\ floor' = allocs'
    /\ pend' = IF Alloc THEN [pend EXCEPT ![Index(seq)] = [hi |-> High(seq), age |-> allocs]] ELSE pend
    /\ mac' = {t \in mac : allocs' - t.age < TAGS}
    /\ UNCHANGED frames

Next == Cycle \/ MacForgets \/ Reset

\* The MAC takes beats, and the adapter records, again and again.
ReadyCycle ==
    \E sready \in Ready(pipe[4]), clr \in BOOLEAN, ret \in Returns :
        Clock(TRUE, TRUE, sready, clr, ret)

Spec == Init /\ [][Next]_vars /\ WF_vars(ReadyCycle)

-----------------------------------------------------------------------------
Record == [op : BOOLEAN, tag : 0 .. TAGS - 1, age : Nat]
Stamp == [tag : 0 .. TAGS - 1, age : Nat]
Entry == [hi : Nat, age : Nat]

SourceTypeOK ==
    /\ frame \in [n : Nat, want : BOOLEAN, left : 0 .. 2] /\ frames \in Nat
    /\ sof \in BOOLEAN /\ pushed \in BOOLEAN
    /\ ptp \in Seq(Record) /\ Len(ptp) <= PTP_FIFO_DEPTH

TableTypeOK ==
    /\ seq \in 0 .. TAGS - 1 /\ allocs \in Nat
    /\ valid \subseteq 0 .. TABLE - 1
    /\ pend \in [0 .. TABLE - 1 -> Entry]
    /\ mac \subseteq Stamp
    /\ a \in [valid : BOOLEAN, vld : BOOLEAN, tag : 0 .. TAGS - 1, age : Nat, ent : Entry]

CountTypeOK ==
    /\ pipe \in [1 .. 4 -> BOOLEAN]
    /\ err \in [lost : Nat, stale : Nat, ovf : Nat]
    /\ open \in Int /\ unmatched \in Int /\ unsampled \in Int /\ ahead \in Int
    /\ floor \in Nat /\ resets \in Nat

\* Every register has its type; the record FIFO never holds more than its depth.
TypeOK == SourceTypeOK /\ TableTypeOK /\ CountTypeOK

\* Every tag allocated is pending, matched, or counted LOST: none is counted
\* twice or forgotten when a return and an allocation meet in one entry.
TagsAccounted == open = Cardinality(valid) + err.lost

\* Every timestamp returned is matched, counted STALE, or in stage A; every match
\* becomes a sample, is counted OVF, or is in the pipeline.
ReturnsAccounted ==
    /\ unmatched = err.stale + One(a.valid)
    /\ unsampled = err.ovf + InPipe(pipe)

\* Nothing is forgotten and nothing counted twice, from tag to sample.
Accounted == TagsAccounted /\ ReturnsAccounted

\* A match is the frame's own: the entry holds the arrival time of the frame the
\* timestamp is of, also for "late timestamps of pre-reset frames".
MatchIsOwn == Hit => a.age = a.ent.age

\* A timestamp is never refused while it could be used: as long as fewer than
\* TABLE further tags were taken since (and no reset), its entry is there.
Waiting == mac \cup {[tag |-> r.tag, age |-> r.age] :
                        r \in {ptp[i] : i \in {j \in DOMAIN ptp : ptp[j].op}}}
Usable(age) == floor <= age /\ allocs - age <= TABLE
EntryKept ==
    /\ \A t \in Waiting : Usable(t.age) =>
          Index(t.tag) \in valid /\ pend[Index(t.tag)].age = t.age
    /\ a.valid /\ Usable(a.age) => Hit

\* "The record always precedes the frame": one record per frame, pushed before
\* its first beat is let through, whatever the MAC and the FIFO stall.
RecordPrecedesFrame ==
    /\ ahead = One(pushed)
    /\ pushed => sof /\ frame # None

\* The gate never holds a frame for ever: its record is pushed even if the FIFO
\* was full, and then its first beat is let through.
FramesPass ==
    /\ frame # None /\ sof ~> pushed \/ frame = None
    /\ pushed ~> ~pushed
=============================================================================
