----------------------------- MODULE TestVectors -----------------------------
(***************************************************************************)
(* The transmit side of the vectors gen_vectors.py writes for the test     *)
(* bench: which frames a test makes the core send, and which frames the    *)
(* script expects at the MAC. An expected frame carries the IPv4           *)
(* identification and the generator sequence number that class Model and   *)
(* gen_expect counted, while the core counts its own; echo, socket,        *)
(* generator and raw traffic reach the MAC in an order the core decides.   *)
(* The script is written first and run afterwards; as nothing flows back,  *)
(* the two take their steps here together. Numbers of frames are scaled.   *)
(***************************************************************************)
EXTENDS Naturals, Sequences

CONSTANTS
    Ids,            \* number of IPv4 identifications (2^16)
    Selections,     \* the sets of tests ZIRCON_TESTS may ask for
    N,              \* frames in a burst
    None            \* no number

ASSUME IdsAssumption == Ids \in Nat \ {0}

VARIABLE bench


Kinds == {"echo", "sock", "gen", "raw"}

-----------------------------------------------------------------------------
(* The commands of a script, and the tests, in the order of the source.     *)

Times(n, ops) == [i \in 1 .. n * Len(ops) |-> ops[((i - 1) % Len(ops)) + 1]]

Sent(kind) == <<"sent", kind>>          \* stimulus and expected frame
Sink(kind) == <<"sink", kind>>          \* stimulus, the frame is only collected
Drain == <<"drain">>                    \* DRAIN: everything expected has come
GenClr == <<"clr">>                     \* GEN_CTRL.CLR
GenExpect == <<"expect">>               \* an expected generator frame
GenRun(n) == <<"run", n>>               \* GEN_CTRL.EN with GEN_COUNT = n
Collect(on) == <<"collect", on>>
Advance(n) == <<"advance", n>>          \* m.ip_id advanced by hand
OutOfStep == <<"forget">>               \* m.ip_id = None

\* Echo requests; one with a wrong checksum goes RAW and is not answered.
Test3 == Times(N, <<Sent("echo")>>) \o <<Drain>>

Test5 == Times(N, <<Sent("sock")>>) \o <<Drain>>

\* Fault seed: no DRAIN behind an echo, which then races the UI transmit.
Test11_NoDrain ==
    {x \o y : x, y \in {<<Sent("echo")>>} \cup {<<Sent(kind), Drain>> : kind \in {"raw", "sock"}}}

\* Mixed traffic, drawn at random: a frame is waited for before the next.
Test11 ==
    {x \o y : x, y \in {<<Sent(kind), Drain>> : kind \in {"echo", "raw", "sock"}}}

Test12 == Times(N, <<Sent("echo"), Drain>>) \o Times(N, <<Sent("sock"), Drain>>)

\* RAW and SOCK receive paths stalled, the echo flows.
Test15 == Times(N, <<Sent("echo")>>) \o <<Drain>>

Test18 == Times(N, <<Sent("echo"), Drain>>)

\* Oversize transfers of the UI are dropped before a header is built.
Test19 == <<Sent("raw"), Sent("raw"), Drain, <<"oversize">>, Sent("sock"), Drain>>

Test80 == Times(2, Times(N, <<Sent("echo")>>) \o <<Drain>>)

Test81 == Times(N, <<Sent("raw")>>) \o <<Drain>>

Test83 ==
    <<Collect(TRUE), GenRun(1)>> \o Times(N, <<Sink("echo"), Sink("raw")>>) \o <<Sink("sock")>>
    \o <<Drain, Collect(FALSE), Advance(N + 2)>>

\* The MAC transmit side is reset on the way: every header was built.
Test84 ==
    <<Collect(TRUE)>> \o Times(N, <<Sink("echo")>>) \o <<Drain, Advance(N), Collect(FALSE)>>
    \o Times(N, <<Sent("echo")>>) \o <<Drain>>

Test85 ==
    <<Sent("raw"), Drain, Collect(TRUE)>> \o Times(N, <<Sink("echo")>>)
    \o <<Drain, Advance(N), Collect(FALSE)>>

gen_expect(n) == Times(n, <<GenExpect>>)

Test30 == <<GenClr>> \o gen_expect(N) \o <<GenRun(N), Drain>>

Test31(wanted) ==
    (IF 30 \in wanted THEN <<>> ELSE <<GenClr>>)
    \o Times(2, gen_expect(N) \o <<GenRun(N), Drain>>)

Test32 == gen_expect(N) \o <<GenRun(N), Drain>>

\* Continuous mode: a prefix of the candidates is sent, nobody knows how long.
Test34 == <<GenClr>> \o gen_expect(N) \o <<OutOfStep, <<"continuous">>>>

\* The transmit side is stalled and echo requests are dropped: how many
\* replies come is not predicted. Raw frames still pass afterwards.
Test16 == <<Collect(TRUE), <<"flood">>, Drain, Collect(FALSE), Sent("raw"), Drain>>

Order == <<3, 5, 11, 12, 15, 18, 19, 80, 81, 83, 84, 85, 30, 31, 32, 34, 16>>

Scripts(n, wanted) ==
    CASE n = 3 -> {Test3}
      [] n = 5 -> {Test5}
      [] n = 11 -> Test11
      [] n = 12 -> {Test12}
      [] n = 15 -> {Test15}
      [] n = 18 -> {Test18}
      [] n = 19 -> {Test19}
      [] n = 80 -> {Test80}
      [] n = 81 -> {Test81}
      [] n = 83 -> {Test83}
      [] n = 84 -> {Test84}
      [] n = 85 -> {Test85}
      [] n = 30 -> {Test30}
      [] n = 31 -> {Test31(wanted)}
      [] n = 32 -> {Test32}
      [] n = 34 -> {Test34}
      [] n = 16 -> {Test16}

-----------------------------------------------------------------------------
NoBench ==
    [wanted |-> {}, at |-> 0, ops |-> <<>>, ip_id |-> 0, gen_seq |-> 0, exp |-> <<>>,
     collect |-> FALSE, id |-> 0, seq |-> 0, todo |-> [k \in Kinds |-> 0], wrong |-> FALSE]

\* Test 1 programs the addresses and sends nothing.
StartBench == {[NoBench EXCEPT !.at = 1, !.wanted = w] : w \in Selections}

\* if sel(n): the test's commands are written; a test not asked for leaves no
\* trace, in the model or in the script.
NextTest ==
    /\ bench.at \in DOMAIN Order /\ bench.ops = <<>>
    /\ LET n == Order[bench.at] IN
       \E ops \in IF n \in bench.wanted THEN Scripts(n, bench.wanted) ELSE {<<>>} :
           bench' = [bench EXCEPT !.at = @ + 1, !.ops = ops]

Done(b) == [b EXCEPT !.ops = Tail(@)]
At(name) == bench.ops # <<>> /\ Head(bench.ops)[1] = name
Arg == Head(bench.ops)[2]

\* Model.next_id, which asserts that the model is in step.
Predicts(b, kind, seq) ==
    [b EXCEPT !.exp = Append(@, [kind |-> kind, id |-> IF kind = "raw" THEN None ELSE b.ip_id,
                                 seq |-> seq]),
              !.ip_id = IF kind = "raw" \/ @ = None THEN @ ELSE (@ + 1) % Ids,
              !.wrong = @ \/ (kind # "raw" /\ b.ip_id = None)]

echo_or_tx ==
    /\ At("sent")
    /\ bench' = [Predicts(Done(bench), Arg, None) EXCEPT !.todo[Arg] = @ + 1]

sink ==
    /\ At("sink")
    /\ bench' = [Done(bench) EXCEPT !.todo[Arg] = @ + 1]

gen_tx ==
    /\ At("expect")
    /\ bench' = [Predicts(Done(bench), "gen", bench.gen_seq) EXCEPT !.gen_seq = @ + 1]

\* Commands that only change a register or the model.
control ==
    \/ At("run") /\ bench' = [Done(bench) EXCEPT !.todo["gen"] = @ + Arg]
    \/ At("clr") /\ bench' = [Done(bench) EXCEPT !.gen_seq = 0, !.seq = 0]
    \/ At("collect") /\ bench' = [Done(bench) EXCEPT !.collect = Arg]
    \/ At("advance") /\ bench' = [Done(bench) EXCEPT !.ip_id = (@ + Arg) % Ids]
    \/ At("forget") /\ bench' = [Done(bench) EXCEPT !.ip_id = None]
    \/ At("oversize") /\ bench' = Done(bench)

Idle(b) == \A k \in Kinds : b.todo[k] = 0

DRAIN == At("drain") /\ Idle(bench) /\ bench.exp = <<>> /\ bench' = Done(bench)

Frame(kind) ==
    [kind |-> kind, id |-> IF kind = "raw" THEN None ELSE bench.id,
     seq |-> IF kind = "gen" THEN bench.seq ELSE None]

\* The core sends the oldest frame of a kind; the bench compares it with the
\* oldest it expects.
Core(kind) ==
    /\ bench.todo[kind] > 0
    /\ bench' = [bench EXCEPT
           !.todo[kind] = @ - 1,
           !.id = IF kind = "raw" THEN @ ELSE (@ + 1) % Ids,
           !.seq = IF kind = "gen" THEN @ + 1 ELSE @,
           !.exp = IF bench.collect \/ @ = <<>> THEN @ ELSE Tail(@),
           !.wrong = @ \/ (~bench.collect
                           /\ (bench.exp = <<>> \/ Head(bench.exp) # Frame(kind)))]

\* The generator runs until it is disabled: PREFIX holds what came against as
\* many of the candidates, SUBSEQ drops the rest.
Continuous ==
    /\ At("continuous")
    /\ \E n \in 1 .. Len(bench.exp) :
        bench' = [Done(bench) EXCEPT
            !.wrong = @ \/ \E i \in 1 .. n :
                bench.exp[i] # [kind |-> "gen", id |-> (bench.id + i - 1) % Ids,
                                seq |-> bench.seq + i - 1],
            !.id = (@ + n) % Ids, !.seq = @ + n, !.exp = <<>>]

\* RXCNT: as many replies as requests were not dropped.
Flood ==
    /\ At("flood")
    /\ \E n \in 1 .. N : bench' = [Done(bench) EXCEPT !.todo["echo"] = @ + n]

BenchNext ==
    \/ NextTest \/ echo_or_tx \/ sink \/ gen_tx \/ control \/ DRAIN \/ Continuous \/ Flood
    \/ \E kind \in Kinds : Core(kind)

-----------------------------------------------------------------------------
\* The selections that run the generator for test 83 and then test 32, without
\* one of the tests that clear its sequence number in between.
SeqLost(wanted) == {83, 32} \subseteq wanted /\ wanted \cap {30, 31} = {}

\* Whatever tests are asked for ("tests are skipped at generation time so the
\* model's IPv4 ID counter stays in step with the hardware"), and in whatever
\* order the core serves its traffic, every frame at the MAC is the one the
\* script expects, and next_id is never called out of step; but for the
\* selections above, which leave the generator's number behind.
VectorsMatch == bench.wrong => SeqLost(bench.wanted)
=============================================================================
