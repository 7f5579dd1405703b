---------------------------- MODULE RxPathProofs ----------------------------
(*******************************************************************************)
(* The receive front end, for all depths of its FIFOs and any frames: it is    *)
(* well typed, the records always belong to the frame they are used for, the   *)
(* len FIFO, which has no back-pressure, never overflows, the dispatcher       *)
(* gets whole frames only, and the whole implements RxFrameQueue, a queue of   *)
(* frames, step by step.                                                       *)
(*                                                                             *)
(* IInv relates the three branches a frame takes through the core (header      *)
(* records, length records, beats) by counting frames; the proofs of the       *)
(* last two claims add, for each frame on its way, how many of its beats       *)
(* are where.                                                                  *)
(*******************************************************************************)
EXTENDS RxPath, SequenceTheorems, TLAPS

\* Frames popped by the dispatcher, and frames that crossed the broadcast whole.
InHand == IF disp.state = "FWD" THEN 1 ELSE 0
Popped == out.n + InHand
Ended == IF rdBeats > 0 THEN started - 1 ELSE started
InParse == IF parse = 0 THEN 0 ELSE 1

\* The header branch holds the records of frames Popped+1 .. started, in order.
HeaderChain ==
    /\ started = Popped + Len(recq) + InParse + Len(hdrq)
    /\ \A i \in 1 .. Len(recq) : recq[i] = Popped + i
    /\ parse # 0 => parse = Popped + Len(recq) + 1
    /\ \A i \in 1 .. Len(hdrq) : hdrq[i] = Popped + Len(recq) + InParse + i

\* The len FIFO holds the records of frames Popped+1 .. Ended, in order.
LenChain ==
    /\ Ended = Popped + Len(lenq)
    /\ \A i \in 1 .. Len(lenq) : lenq[i].id = Popped + i

\* The packet FIFO holds consecutive frames, the dispatcher's first, and every
\* frame in it takes at least one beat.
PacketChain ==
    /\ pktq = <<>> => started = out.n /\ rdBeats = 0
    /\ pktq # <<>> => /\ pktq[1].id = out.n + 1
                      /\ pktq[Len(pktq)].id = started
                      /\ pktq[Len(pktq)].last <=> rdBeats = 0
    /\ \A i \in 1 .. Len(pktq) - 1 :
          pktq[i + 1].id = IF pktq[i].last THEN pktq[i].id + 1 ELSE pktq[i].id
    /\ \A i \in 1 .. Len(pktq) : started - pktq[i].id <= Len(pktq) - i

\* The frame in hand is the one at the head of the packet FIFO.
HandChain ==
    disp.state = "FWD" =>
        /\ disp.pkt = out.n + 1 /\ disp.len = out.n + 1 /\ disp.rec = out.n + 1

IInv ==
    /\ TypeOK
    /\ NoMetaErr
    /\ HeaderChain
    /\ LenChain
    /\ PacketChain
    /\ HandChain

-----------------------------------------------------------------------------
\* The MAC side's steps keep the types; they touch nothing of the core side.
LEMMA MacStep ==
    ASSUME TypeOK, MacBeat \/ MacCommit \/ MacReject \/ MacReset
    PROVE  /\ MacTypeOK'
           /\ UNCHANGED <<rdBeats, started, disp, out, pktVars, hdrVars>>
  <1> DEFINE Same == UNCHANGED <<rdBeats, started, disp, out, pktVars, hdrVars>>
  <1> USE DEF TypeOK, MacTypeOK
  <1>1. CASE MacBeat
    <2>1. Same
      BY <1>1 DEF MacBeat
    <2>2. macDrop' \in BOOLEAN
      BY <1>1 DEF MacBeat
    <2>3. MacTypeOK'
      BY <1>1, <2>2 DEF MacBeat
    <2> QED BY <2>1, <2>3
  <1>2. CASE MacCommit
    <2>1. Same
      BY <1>2 DEF MacCommit
    <2>2. [beats |-> macIn + 1, bad |-> FALSE, cut |-> FALSE] \in Frame
      BY DEF Frame
    <2>3. macq' \in Seq(Frame)
      BY <1>2, <2>2, AppendProperties DEF MacCommit
    <2>4. MacTypeOK'
      BY <1>2, <2>3 DEF MacCommit
    <2> QED BY <2>1, <2>4
  <1>3. CASE MacReject
    <2>1. Same
      BY <1>3 DEF MacReject
    <2>2. macDrop' \in BOOLEAN
      BY <1>3 DEF MacReject
    <2>3. MacTypeOK'
      BY <1>3, <2>2 DEF MacReject
    <2> QED BY <2>1, <2>3
  <1>4. CASE MacReset
    <2>1. Same
      BY <1>4 DEF MacReset
    <2>2. [beats |-> rdBeats + 1, bad |-> TRUE, cut |-> TRUE] \in Frame
      BY DEF Frame
    <2>3. macq' \in Seq(Frame)
      BY <1>4, <2>2 DEF MacReset
    <2>4. macDrop' \in BOOLEAN
      BY <1>4 DEF MacReset
    <2>5. MacTypeOK'
      BY <1>4, <2>3, <2>4 DEF MacReset
    <2> QED BY <2>1, <2>5
  <1> QED BY <1>1, <1>2, <1>3, <1>4

\* A step that leaves the core side alone preserves the invariant's core parts.
LEMMA CoreUnchanged ==
    ASSUME IInv, MacTypeOK', UNCHANGED <<rdBeats, started, disp, out, pktVars, hdrVars>>
    PROVE  IInv'
  <1>1. /\ pktq' = pktq /\ lenq' = lenq /\ hdrq' = hdrq /\ recq' = recq
        /\ parse' = parse /\ metaErr' = metaErr /\ disp' = disp /\ out' = out
        /\ rdBeats' = rdBeats /\ started' = started
    BY DEF pktVars, hdrVars
  <1>2. Popped' = Popped /\ Ended' = Ended /\ InParse' = InParse
    BY <1>1 DEF Popped, InHand, Ended, InParse
  <1>3. HeaderChain' /\ LenChain'
    BY <1>1, <1>2 DEF IInv, HeaderChain, LenChain
  <1>4. PacketChain' /\ HandChain' /\ NoMetaErr'
    BY <1>1 DEF IInv, PacketChain, HandChain, NoMetaErr
  <1>5. TypeOK'
    BY <1>1 DEF IInv, TypeOK, PktTypeOK, HdrTypeOK, DispTypeOK
  <1> QED BY <1>3, <1>4, <1>5 DEF IInv

\* The initial state satisfies the invariant.
LEMMA InitIInv == Init => IInv
  <1> SUFFICES ASSUME Init PROVE IInv
    OBVIOUS
  <1>1. TypeOK
    <2>1. macDrop \in BOOLEAN /\ metaErr \in BOOLEAN
      BY DEF Init
    <2>2. MacTypeOK /\ PktTypeOK /\ HdrTypeOK
      BY <2>1, RxPathAssumption DEF Init, MacTypeOK, PktTypeOK, HdrTypeOK, RecFifoDepth
    <2>3. DispTypeOK
      BY DEF Init, DispTypeOK, Idle
    <2> QED BY <2>2, <2>3 DEF TypeOK
  <1>5. NoMetaErr
    BY DEF Init, NoMetaErr
  <1>2. Popped = 0 /\ Ended = 0 /\ InParse = 0
    BY DEF Init, Popped, InHand, Ended, InParse, Idle
  <1>3. HeaderChain /\ LenChain
    BY <1>2 DEF Init, HeaderChain, LenChain
  <1>4. PacketChain /\ HandChain
    BY DEF Init, PacketChain, HandChain, Idle
  <1> QED BY <1>1, <1>3, <1>4, <1>5 DEF IInv

\* Every frame that is whole in the packet FIFO takes a beat of it, so the len
\* FIFO never holds more records than the packet FIFO holds beats.
LEMMA LenBound ==
    ASSUME IInv
    PROVE  Len(lenq) <= Len(pktq)
  <1>1. /\ started \in Nat /\ out.n \in Nat /\ rdBeats \in Nat
        /\ pktq \in Seq(Beat) /\ Len(pktq) \in Nat /\ Len(lenq) \in Nat
    BY LenProperties DEF IInv, TypeOK, MacTypeOK, PktTypeOK, DispTypeOK
  <1>2. Ended <= started /\ Popped >= out.n /\ Ended \in Int /\ Popped \in Int
    BY <1>1 DEF Ended, Popped, InHand
  <1>3. Ended = Popped + Len(lenq)
    BY DEF IInv, LenChain
  <1>4. started - out.n <= Len(pktq)
    <2>1. CASE pktq = <<>>
      BY <1>1, <2>1 DEF IInv, PacketChain
    <2>2. CASE pktq # <<>>
      <3>1. 1 \in 1 .. Len(pktq)
        BY <1>1, <2>2, EmptySeq
      <3>2. pktq[1].id = out.n + 1 /\ started - pktq[1].id <= Len(pktq) - 1
        BY <2>2, <3>1 DEF IInv, PacketChain
      <3> QED BY <1>1, <3>2
    <2> QED BY <2>1, <2>2
  <1> QED BY <1>1, <1>2, <1>3, <1>4

\* A beat crosses the broadcast: the frame's number continues both chains, and
\* the len record finds room.
LEMMA BroadcastStep ==
    ASSUME IInv, BroadcastBeat
    PROVE  IInv'
  <1> DEFINE b == [id |-> FrameId, last |-> Last, cut |-> Last /\ Head(macq).cut]
             r == [id |-> FrameId, beats |-> rdBeats + 1, bad |-> Head(macq).bad]
  <1>1. TypeOK /\ MacTypeOK /\ PktTypeOK /\ HdrTypeOK /\ DispTypeOK
    BY DEF IInv, TypeOK
  <1>2. /\ started \in Nat /\ rdBeats \in Nat /\ out.n \in Nat /\ parse \in Nat
        /\ pktq \in Seq(Beat) /\ lenq \in Seq(LenRec) /\ hdrq \in Seq(Nat)
        /\ recq \in Seq(Nat) /\ macq \in Seq(Frame)
        /\ Len(pktq) \in Nat /\ Len(lenq) \in Nat /\ Len(hdrq) \in Nat /\ Len(recq) \in Nat
    BY <1>1, LenProperties DEF MacTypeOK, PktTypeOK, HdrTypeOK, DispTypeOK
  <1>3. FrameId \in Nat /\ Popped \in Nat /\ InParse \in Nat
    BY <1>2 DEF FrameId, Popped, InHand, InParse
  <1>4. Head(macq) \in Frame /\ Tail(macq) \in Seq(Frame)
    BY <1>2, HeadTailProperties DEF BroadcastBeat
  <1>5. b \in Beat /\ r \in LenRec
    <2>1. Last \in BOOLEAN /\ (Last /\ Head(macq).cut) \in BOOLEAN
      BY DEF Last
    <2>2. Head(macq).bad \in BOOLEAN /\ rdBeats + 1 \in Nat
      BY <1>2, <1>4 DEF Frame
    <2> QED BY <1>3, <2>1, <2>2 DEF Beat, LenRec
  <1>6. /\ pktq' = Append(pktq, b) /\ started' = FrameId
        /\ UNCHANGED <<disp, out, recq, parse>>
        /\ hdrq' = IF First THEN Append(hdrq, FrameId) ELSE hdrq
    BY DEF BroadcastBeat
  <1>8. /\ Last => rdBeats' = 0 /\ macq' = Tail(macq) /\ PushLen(r)
        /\ ~Last => rdBeats' = rdBeats + 1 /\ UNCHANGED <<macq, lenq, metaErr>>
    BY DEF BroadcastBeat
  <1>fields. b.id = FrameId /\ (b.last <=> Last) /\ r.id = FrameId
    OBVIOUS
  <1> HIDE DEF b, r
  <1>7. /\ pktq' \in Seq(Beat) /\ Len(pktq') = Len(pktq) + 1 /\ pktq' # <<>>
        /\ \A i \in 1 .. Len(pktq) : pktq'[i] = pktq[i]
        /\ pktq'[Len(pktq) + 1] = b
    BY <1>2, <1>5, <1>6, AppendProperties
  <1>9. Popped' = Popped /\ InParse' = InParse
    BY <1>6 DEF Popped, InHand, InParse
  <1>10. ~metaErr
    BY DEF IInv, NoMetaErr
  \* The len FIFO has room: fewer records than beats, and the packet branch is ready.
  <1>11. Len(lenq) < LenFifoDepth
    <2>1. Len(lenq) <= Len(pktq)
      BY LenBound
    <2>2. Len(pktq) < PKT_FIFO_BEATS + LEN_PIPE
      BY DEF BroadcastBeat, PacketReady
    <2> QED BY <1>2, <2>1, <2>2, RxPathAssumption DEF LenFifoDepth
  <1>12. Last => lenq' = Append(lenq, r) /\ metaErr' = metaErr
    BY <1>8, <1>11 DEF PushLen
  <1>13. NoMetaErr'
    BY <1>8, <1>10, <1>12 DEF NoMetaErr
  <1>14. lenq' \in Seq(LenRec)
    <2>1. CASE Last
      <3>1. lenq' = Append(lenq, r)
        BY <1>12, <2>1
      <3> QED BY <1>2, <1>5, <3>1, AppendProperties
    <2>2. CASE ~Last
      BY <1>2, <1>8, <2>2
    <2> QED BY <2>1, <2>2
  <1>15. TypeOK'
    <2>1. macDrop' = macDrop /\ macIn' = macIn /\ macOcc' = macOcc - 1
          /\ UNCHANGED <<arrived, resets>>
      BY DEF BroadcastBeat
    <2>2. macq' \in Seq(Frame) /\ rdBeats' \in Nat
      <3>1. CASE Last
        BY <1>4, <1>8, <3>1
      <3>2. CASE ~Last
        BY <1>2, <1>8, <3>2
      <3> QED BY <3>1, <3>2
    <2>3. MacTypeOK'
      BY <1>1, <2>1, <2>2 DEF MacTypeOK
    <2>4. metaErr' \in BOOLEAN
      <3>1. metaErr' = metaErr
        BY <1>8, <1>12
      <3> QED BY <1>1, <3>1 DEF PktTypeOK
    <2>5. PktTypeOK'
      BY <1>3, <1>6, <1>7, <1>14, <2>4 DEF PktTypeOK
    <2>6. hdrq' \in Seq(Nat) /\ Len(hdrq') <= HDR_FIFO_BEATS
      <3>1. CASE First
        <4>1. Len(hdrq) < HDR_FIFO_BEATS
          BY <3>1 DEF BroadcastBeat, HeaderReady
        <4> QED BY <1>2, <1>3, <1>6, <3>1, <4>1, RxPathAssumption, AppendProperties
      <3>2. CASE ~First
        BY <1>1, <1>6, <3>2 DEF HdrTypeOK
      <3> QED BY <3>1, <3>2
    <2>7. HdrTypeOK' /\ DispTypeOK'
      BY <1>1, <1>6, <2>6 DEF HdrTypeOK, DispTypeOK, RecFifoDepth
    <2> QED BY <2>3, <2>5, <2>7 DEF TypeOK
  <1>16. HeaderChain'
    <2>1. CASE First
      <3>1. FrameId = started + 1 /\ hdrq' = Append(hdrq, FrameId)
        BY <1>6, <2>1 DEF FrameId
      <3>2. /\ Len(hdrq') = Len(hdrq) + 1
            /\ \A i \in 1 .. Len(hdrq) : hdrq'[i] = hdrq[i]
            /\ hdrq'[Len(hdrq) + 1] = FrameId
        BY <1>2, <1>3, <3>1, AppendProperties
      <3>3. started = Popped + Len(recq) + InParse + Len(hdrq)
        BY DEF IInv, HeaderChain
      <3>4. \A i \in 1 .. Len(hdrq') : hdrq'[i] = Popped + Len(recq) + InParse + i
        <4>1. \A i \in 1 .. Len(hdrq) : hdrq'[i] = Popped + Len(recq) + InParse + i
          BY <3>2 DEF IInv, HeaderChain
        <4>2. hdrq'[Len(hdrq) + 1] = Popped + Len(recq) + InParse + (Len(hdrq) + 1)
          BY <1>2, <1>3, <3>1, <3>2, <3>3
        <4>3. \A i \in 1 .. Len(hdrq) + 1 : i \in 1 .. Len(hdrq) \/ i = Len(hdrq) + 1
          BY <1>2
        <4> QED BY <3>2, <4>1, <4>2, <4>3
      <3>5. started' = Popped + Len(recq) + InParse + Len(hdrq')
        <4>1. started' = started + 1
          BY <1>6, <3>1
        <4> QED BY <1>2, <1>3, <3>2, <3>3, <4>1
      <3> QED BY <1>6, <1>9, <3>4, <3>5 DEF IInv, HeaderChain
    <2>2. CASE ~First
      <3>1. started' = started /\ hdrq' = hdrq
        BY <1>6, <2>2 DEF FrameId
      <3> QED BY <1>6, <1>9, <3>1 DEF IInv, HeaderChain
    <2> QED BY <2>1, <2>2
  <1>17. Ended = IF First THEN started ELSE started - 1
    BY <1>2 DEF Ended, First
  <1>18. Ended' = IF Last THEN FrameId ELSE FrameId - 1
    BY <1>2, <1>6, <1>8 DEF Ended
  <1>19. FrameId = Ended + 1
    BY <1>2, <1>17 DEF FrameId
  <1>20. LenChain'
    <2>1. Ended = Popped + Len(lenq)
      BY DEF IInv, LenChain
    <2>2. CASE Last
      <3>0. lenq' = Append(lenq, r) /\ lenq \in Seq(LenRec) /\ r \in LenRec
        BY <1>2, <1>5, <1>12, <2>2
      <3>1. /\ Len(lenq') = Len(lenq) + 1
            /\ \A i \in 1 .. Len(lenq) : lenq'[i] = lenq[i]
            /\ lenq'[Len(lenq) + 1] = r
        BY <3>0, AppendProperties
      <3>2. Ended' = Popped + Len(lenq')
        BY <1>2, <1>3, <1>18, <1>19, <2>1, <2>2, <3>1
      <3>3. \A i \in 1 .. Len(lenq) : lenq'[i].id = Popped + i
        BY <3>1 DEF IInv, LenChain
      <3>4. lenq'[Len(lenq) + 1].id = Popped + (Len(lenq) + 1)
        BY <1>2, <1>3, <1>19, <1>fields, <2>1, <3>1
      <3>5. \A i \in 1 .. Len(lenq) + 1 : i \in 1 .. Len(lenq) \/ i = Len(lenq) + 1
        BY <1>2
      <3>6. \A i \in 1 .. Len(lenq') : lenq'[i].id = Popped + i
        BY <3>1, <3>3, <3>4, <3>5
      <3> QED BY <1>9, <3>2, <3>6 DEF LenChain
    <2>3. CASE ~Last
      <3>1. lenq' = lenq /\ Ended' = Ended
        BY <1>2, <1>3, <1>8, <1>18, <1>19, <2>3, <1>17
      <3> QED BY <1>9, <3>1 DEF IInv, LenChain
    <2> QED BY <2>2, <2>3
  <1>21. PacketChain'
    <2>1. pktq'[1].id = out.n + 1
      <3>1. CASE pktq = <<>>
        BY <1>2, <1>7, <1>fields, <3>1 DEF IInv, PacketChain, FrameId, First
      <3>2. CASE pktq # <<>>
        <4>1. 1 \in 1 .. Len(pktq)
          BY <1>2, <3>2, EmptySeq
        <4> QED BY <1>7, <3>2, <4>1 DEF IInv, PacketChain
      <3> QED BY <3>1, <3>2
    <2>2. pktq'[Len(pktq')].id = started' /\ (pktq'[Len(pktq')].last <=> rdBeats' = 0)
      <3>1. b.last <=> rdBeats' = 0
        BY <1>2, <1>8, <1>fields
      <3> QED BY <1>2, <1>6, <1>7, <1>fields, <3>1
    <2>3. \A i \in 1 .. Len(pktq') - 1 :
             pktq'[i + 1].id = IF pktq'[i].last THEN pktq'[i].id + 1 ELSE pktq'[i].id
      <3>1. \A i \in 1 .. Len(pktq) - 1 :
               pktq'[i + 1].id = IF pktq'[i].last THEN pktq'[i].id + 1 ELSE pktq'[i].id
        <4> TAKE i \in 1 .. Len(pktq) - 1
        <4>1. i \in 1 .. Len(pktq) /\ i + 1 \in 1 .. Len(pktq)
          BY <1>2
        <4> QED BY <1>7, <4>1 DEF IInv, PacketChain
      <3>2. ASSUME pktq # <<>>
            PROVE  LET n == Len(pktq)
                   IN pktq'[n + 1].id = IF pktq'[n].last THEN pktq'[n].id + 1 ELSE pktq'[n].id
        <4>1. Len(pktq) \in 1 .. Len(pktq)
          BY <1>2, <3>2, EmptySeq
        <4>2. pktq[Len(pktq)].id = started /\ (pktq[Len(pktq)].last <=> First)
          BY <3>2 DEF IInv, PacketChain, First
        <4> QED BY <1>7, <1>fields, <4>1, <4>2 DEF FrameId
      <3>3. Len(pktq) > 0 => pktq # <<>>
        BY <1>2
      <3>4. \A i \in 1 .. Len(pktq) : i \in 1 .. Len(pktq) - 1 \/ i = Len(pktq)
        BY <1>2
      <3>5. Len(pktq') - 1 = Len(pktq) /\ (1 .. Len(pktq) # {} => Len(pktq) > 0)
        BY <1>2, <1>7
      <3> QED BY <3>1, <3>2, <3>3, <3>4, <3>5
    <2>4. \A i \in 1 .. Len(pktq') : started' - pktq'[i].id <= Len(pktq') - i
      <3>1. ASSUME NEW i \in 1 .. Len(pktq)
            PROVE  started' - pktq'[i].id <= Len(pktq') - i
        <4>1. started - pktq[i].id <= Len(pktq) - i
          BY DEF IInv, PacketChain
        <4>2. started' <= started + 1
          BY <1>2, <1>6 DEF FrameId
        <4>3. pktq[i].id \in Nat
          <5>1. pktq[i] \in Beat
            BY <1>2, ElementOfSeq
          <5> QED BY <5>1 DEF Beat
        <4> QED BY <1>2, <1>3, <1>6, <1>7, <4>1, <4>2, <4>3
      <3>2. started' - pktq'[Len(pktq) + 1].id <= Len(pktq') - (Len(pktq) + 1)
        BY <1>2, <1>3, <1>6, <1>7, <1>fields
      <3>3. \A i \in 1 .. Len(pktq) + 1 : i \in 1 .. Len(pktq) \/ i = Len(pktq) + 1
        BY <1>2
      <3> QED BY <1>7, <3>1, <3>2, <3>3
    <2> QED BY <1>6, <1>7, <2>1, <2>2, <2>3, <2>4 DEF PacketChain
  <1>22. HandChain'
    BY <1>6 DEF IInv, HandChain
  <1> QED BY <1>13, <1>15, <1>16, <1>20, <1>21, <1>22 DEF IInv

\* A frame moves from the header FIFO into the parser.
LEMMA ParseStartStep ==
    ASSUME IInv, ParseStart
    PROVE  IInv'
  <1>1. /\ hdrq \in Seq(Nat) /\ recq \in Seq(Nat) /\ hdrq # <<>> /\ parse = 0
        /\ parse' = Head(hdrq) /\ hdrq' = Tail(hdrq)
        /\ UNCHANGED <<rdBeats, started, disp, out, pktq, lenq, metaErr, recq>>
        /\ UNCHANGED <<macIn, macDrop, macOcc, macq, arrived, resets>>
    BY DEF IInv, TypeOK, HdrTypeOK, ParseStart, macVars, pktVars
  <1>2. /\ Head(hdrq) \in Nat /\ Tail(hdrq) \in Seq(Nat) /\ Head(hdrq) = hdrq[1]
        /\ Len(hdrq') = Len(hdrq) - 1 /\ Len(hdrq) \in Nat \ {0} /\ Len(recq) \in Nat
        /\ \A i \in 1 .. Len(hdrq) - 1 : hdrq'[i] = hdrq[i + 1]
    BY <1>1, HeadTailProperties, EmptySeq, LenProperties
  <1>3. out.n \in Nat /\ Popped \in Nat /\ started \in Nat
    BY DEF IInv, TypeOK, DispTypeOK, PktTypeOK, Popped, InHand
  <1>4. /\ started = Popped + Len(recq) + Len(hdrq)
        /\ \A i \in 1 .. Len(recq) : recq[i] = Popped + i
        /\ \A i \in 1 .. Len(hdrq) : hdrq[i] = Popped + Len(recq) + i
    BY <1>1, <1>2, <1>3 DEF IInv, HeaderChain, InParse
  <1>5. parse' = Popped + Len(recq) + 1 /\ parse' # 0
    <2>1. 1 \in 1 .. Len(hdrq)
      BY <1>2
    <2>2. hdrq[1] = Popped + Len(recq) + 1
      BY <1>4, <2>1
    <2> QED BY <1>1, <1>2, <1>3, <2>2
  <1>6. InParse' = 1 /\ Popped' = Popped /\ Ended' = Ended
    BY <1>1, <1>5 DEF InParse, Popped, InHand, Ended
  <1>7. \A i \in 1 .. Len(hdrq') : hdrq'[i] = Popped + Len(recq) + 1 + i
    <2> TAKE i \in 1 .. Len(hdrq')
    <2>1. i \in 1 .. Len(hdrq) - 1 /\ i + 1 \in 1 .. Len(hdrq)
      BY <1>2
    <2>2. hdrq'[i] = Popped + Len(recq) + (i + 1)
      BY <1>2, <1>4, <2>1
    <2> QED BY <1>2, <1>3, <2>1, <2>2
  <1>8. HeaderChain'
    <2>1. started = Popped + Len(recq) + 1 + Len(hdrq')
      BY <1>2, <1>3, <1>4
    <2> QED BY <1>1, <1>4, <1>5, <1>6, <1>7, <2>1 DEF HeaderChain
  <1>9. LenChain' /\ PacketChain' /\ HandChain' /\ NoMetaErr'
    BY <1>1, <1>6 DEF IInv, LenChain, PacketChain, HandChain, NoMetaErr
  <1>10. TypeOK'
    <2>1. HdrTypeOK'
      <3>1. Len(hdrq) <= HDR_FIFO_BEATS /\ Len(recq) <= RecFifoDepth
        BY DEF IInv, TypeOK, HdrTypeOK
      <3> QED BY <1>1, <1>2, <3>1, RxPathAssumption DEF HdrTypeOK, RecFifoDepth
    <2>2. MacTypeOK' /\ PktTypeOK' /\ DispTypeOK'
      BY <1>1 DEF IInv, TypeOK, MacTypeOK, PktTypeOK, DispTypeOK
    <2> QED BY <2>1, <2>2 DEF TypeOK
  <1> QED BY <1>8, <1>9, <1>10 DEF IInv

\* The parser's record is the next one of the record FIFO.
LEMMA ParseDoneStep ==
    ASSUME IInv, ParseDone
    PROVE  IInv'
  <1>1. /\ recq \in Seq(Nat) /\ hdrq \in Seq(Nat) /\ parse \in Nat /\ parse # 0
        /\ recq' = Append(recq, parse) /\ parse' = 0
        /\ UNCHANGED <<rdBeats, started, disp, out, pktq, lenq, metaErr, hdrq>>
        /\ UNCHANGED <<macIn, macDrop, macOcc, macq, arrived, resets>>
    BY DEF IInv, TypeOK, HdrTypeOK, ParseDone, macVars, pktVars
  <1>2. /\ recq' \in Seq(Nat) /\ Len(recq') = Len(recq) + 1 /\ Len(recq) \in Nat
        /\ \A i \in 1 .. Len(recq) : recq'[i] = recq[i]
        /\ recq'[Len(recq) + 1] = parse /\ Len(hdrq) \in Nat
    BY <1>1, AppendProperties, LenProperties
  <1>3. out.n \in Nat /\ Popped \in Nat /\ started \in Nat
    BY DEF IInv, TypeOK, DispTypeOK, PktTypeOK, Popped, InHand
  <1>4. /\ started = Popped + Len(recq) + 1 + Len(hdrq)
        /\ \A i \in 1 .. Len(recq) : recq[i] = Popped + i
        /\ parse = Popped + Len(recq) + 1
        /\ \A i \in 1 .. Len(hdrq) : hdrq[i] = Popped + Len(recq) + 1 + i
    BY <1>1 DEF IInv, HeaderChain, InParse
  <1>5. InParse' = 0 /\ Popped' = Popped /\ Ended' = Ended
    BY <1>1 DEF InParse, Popped, InHand, Ended
  <1>6. \A i \in 1 .. Len(recq') : recq'[i] = Popped + i
    <2>1. \A i \in 1 .. Len(recq) + 1 : i \in 1 .. Len(recq) \/ i = Len(recq) + 1
      BY <1>2
    <2>2. recq'[Len(recq) + 1] = Popped + (Len(recq) + 1)
      BY <1>2, <1>3, <1>4
    <2> QED BY <1>2, <1>4, <2>1, <2>2
  <1>7. \A i \in 1 .. Len(hdrq) : hdrq[i] = Popped + Len(recq') + 0 + i
    BY <1>2, <1>3, <1>4
  <1>8. HeaderChain'
    <2>1. started = Popped + Len(recq') + 0 + Len(hdrq)
      BY <1>2, <1>3, <1>4
    <2> QED BY <1>1, <1>5, <1>6, <1>7, <2>1 DEF HeaderChain
  <1>9. LenChain' /\ PacketChain' /\ HandChain' /\ NoMetaErr'
    BY <1>1, <1>5 DEF IInv, LenChain, PacketChain, HandChain, NoMetaErr
  <1>10. TypeOK'
    <2>1. HdrTypeOK'
      <3>1. Len(hdrq) <= HDR_FIFO_BEATS /\ Len(recq) < RecFifoDepth
        BY DEF IInv, TypeOK, HdrTypeOK, ParseDone
      <3> QED BY <1>1, <1>2, <3>1, RxPathAssumption DEF HdrTypeOK, RecFifoDepth
    <2>2. MacTypeOK' /\ PktTypeOK' /\ DispTypeOK'
      BY <1>1 DEF IInv, TypeOK, MacTypeOK, PktTypeOK, DispTypeOK
    <2> QED BY <2>1, <2>2 DEF TypeOK
  <1> QED BY <1>8, <1>9, <1>10 DEF IInv

\* The dispatcher takes a frame and its two records: all are number out.n + 1.
LEMMA CommitStep ==
    ASSUME IInv, DispatchCommit
    PROVE  IInv'
  <1>1. /\ disp.state = "IDLE" /\ PktValid /\ lenq # <<>> /\ recq # <<>>
        /\ lenq' = Tail(lenq) /\ recq' = Tail(recq)
        /\ UNCHANGED <<rdBeats, started, out, pktq, metaErr, hdrq, parse>>
        /\ UNCHANGED <<macIn, macDrop, macOcc, macq, arrived, resets>>
    BY DEF DispatchCommit, HeadsValid, macVars
  <1>2. disp' = [state |-> "FWD", pkt |-> Head(pktq).id, len |-> Head(lenq).id,
                 rec |-> Head(recq), beats |-> Head(lenq).beats, bad |-> Head(lenq).bad,
                 got |-> 0]
    BY DEF DispatchCommit
  <1>3. /\ pktq \in Seq(Beat) /\ lenq \in Seq(LenRec) /\ recq \in Seq(Nat)
        /\ hdrq \in Seq(Nat) /\ parse \in Nat /\ started \in Nat /\ rdBeats \in Nat
        /\ out.n \in Nat
    BY DEF IInv, TypeOK, MacTypeOK, PktTypeOK, HdrTypeOK, DispTypeOK
  <1>4. pktq # <<>>
    BY <1>1, <1>3 DEF PktValid
  <1>5. /\ Head(pktq) \in Beat /\ Head(pktq) = pktq[1]
        /\ Head(lenq) \in LenRec /\ Head(lenq) = lenq[1] /\ Tail(lenq) \in Seq(LenRec)
        /\ Head(recq) \in Nat /\ Head(recq) = recq[1] /\ Tail(recq) \in Seq(Nat)
    BY <1>1, <1>3, <1>4, HeadTailProperties
  <1>6. /\ Len(lenq') = Len(lenq) - 1 /\ Len(lenq) \in Nat \ {0}
        /\ \A i \in 1 .. Len(lenq) - 1 : lenq'[i] = lenq[i + 1]
    BY <1>1, <1>3, HeadTailProperties, EmptySeq
  <1>7. /\ Len(recq') = Len(recq) - 1 /\ Len(recq) \in Nat \ {0}
        /\ \A i \in 1 .. Len(recq) - 1 : recq'[i] = recq[i + 1]
    BY <1>1, <1>3, HeadTailProperties, EmptySeq
  <1>8. Popped = out.n /\ Popped' = out.n + 1 /\ Ended' = Ended /\ InParse' = InParse
    BY <1>1, <1>2, <1>3 DEF Popped, InHand, Ended, InParse
  <1>popped. Popped \in Nat /\ Popped' = Popped + 1
    BY <1>3, <1>8
  <1>9. InParse \in Nat /\ Ended \in Int /\ Len(hdrq) \in Nat
    BY <1>3, LenProperties DEF InParse, Ended
  <1>10. HandChain'
    <2>1. pktq[1].id = out.n + 1
      BY <1>4 DEF IInv, PacketChain
    <2>2. lenq[1].id = Popped + 1
      BY <1>6 DEF IInv, LenChain
    <2>3. recq[1] = Popped + 1
      BY <1>7 DEF IInv, HeaderChain
    <2> QED BY <1>1, <1>2, <1>5, <1>8, <2>1, <2>2, <2>3 DEF HandChain
  <1>11. LenChain'
    <2>1. Ended = Popped' + Len(lenq')
      BY <1>3, <1>6, <1>8, <1>9 DEF IInv, LenChain
    <2>2. ASSUME NEW i \in 1 .. Len(lenq')
          PROVE  lenq'[i].id = Popped' + i
      <3>1. i \in 1 .. Len(lenq) - 1 /\ i + 1 \in 1 .. Len(lenq)
        BY <1>6
      <3>2. lenq[i + 1].id = Popped + (i + 1)
        BY <3>1 DEF IInv, LenChain
      <3>3. lenq'[i] = lenq[i + 1]
        BY <1>6, <3>1
      <3>4. i \in Int
        BY <1>6, <1>7, <3>1
      <3>5. Popped + (i + 1) = Popped' + i
        BY <1>popped, <3>4
      <3> QED BY <3>2, <3>3, <3>5
    <2> QED BY <1>8, <2>1, <2>2 DEF LenChain
  <1>12. HeaderChain'
    <2>1. started = Popped' + Len(recq') + InParse + Len(hdrq)
      BY <1>3, <1>7, <1>8, <1>9 DEF IInv, HeaderChain
    <2>2. ASSUME NEW i \in 1 .. Len(recq')
          PROVE  recq'[i] = Popped' + i
      <3>1. i \in 1 .. Len(recq) - 1 /\ i + 1 \in 1 .. Len(recq)
        BY <1>7
      <3>2. recq[i + 1] = Popped + (i + 1)
        BY <3>1 DEF IInv, HeaderChain
      <3>3. recq'[i] = recq[i + 1]
        BY <1>7, <3>1
      <3>4. i \in Int
        BY <1>6, <1>7, <3>1
      <3>5. Popped + (i + 1) = Popped' + i
        BY <1>popped, <3>4
      <3> QED BY <3>2, <3>3, <3>5
    <2>3. Popped' + Len(recq') = Popped + Len(recq)
      BY <1>3, <1>7, <1>8
    <2>4. /\ parse # 0 => parse = Popped' + Len(recq') + 1
          /\ \A i \in 1 .. Len(hdrq) : hdrq[i] = Popped' + Len(recq') + InParse + i
      BY <2>3 DEF IInv, HeaderChain
    <2> QED BY <1>1, <1>8, <2>1, <2>2, <2>4 DEF HeaderChain
  <1>13. PacketChain' /\ NoMetaErr'
    BY <1>1 DEF IInv, PacketChain, NoMetaErr
  <1>14. TypeOK'
    <2>1. MacTypeOK' /\ HdrTypeOK'
      <3>1. Len(recq') <= Len(recq)
        BY <1>7
      <3> QED BY <1>1, <1>3, <1>5, <1>7, <3>1, RxPathAssumption DEF IInv, TypeOK, MacTypeOK, HdrTypeOK, RecFifoDepth
    <2>2. PktTypeOK'
      BY <1>1, <1>5 DEF IInv, TypeOK, PktTypeOK
    <2>3. DispTypeOK'
      BY <1>1, <1>2, <1>5 DEF IInv, TypeOK, DispTypeOK, Beat, LenRec
    <2> QED BY <2>1, <2>2, <2>3 DEF TypeOK
  <1> QED BY <1>10, <1>11, <1>12, <1>13, <1>14 DEF IInv

\* A complete frame with a beat that is not its last has another one behind it.
LEMMA BeatBehind ==
    ASSUME IInv, PktValid, pktq # <<>>, ~pktq[1].last
    PROVE  Len(pktq) >= 2
  <1>1. pktq \in Seq(Beat) /\ Len(pktq) \in Nat
    BY LenProperties DEF IInv, TypeOK, PktTypeOK
  <1>2. PICK i \in DOMAIN pktq : pktq[i].last
    BY DEF PktValid
  <1>3. i \in 1 .. Len(pktq) /\ i # 1
    BY <1>1, <1>2
  <1> QED BY <1>1, <1>3

\* A beat leaves: the head of the packet FIFO stays the frame in hand, or is the next.
LEMMA BeatStep ==
    ASSUME IInv, DispatchBeat
    PROVE  IInv'
  <1>1. /\ disp.state = "FWD" /\ PktValid /\ pktq' = Tail(pktq)
        /\ UNCHANGED <<macIn, macDrop, macOcc, arrived, macq, rdBeats, resets, started,
                       lenq, metaErr, hdrq, parse, recq>>
    BY DEF DispatchBeat, macVars, hdrVars
  <1>2. /\ pktq \in Seq(Beat) /\ started \in Nat /\ rdBeats \in Nat /\ out.n \in Nat
        /\ disp.got \in Nat /\ disp.bad \in BOOLEAN
    BY DEF IInv, TypeOK, MacTypeOK, PktTypeOK, DispTypeOK
  <1>3. pktq # <<>>
    BY <1>1, <1>2 DEF PktValid
  <1>4. /\ Tail(pktq) \in Seq(Beat) /\ Len(pktq') = Len(pktq) - 1
        /\ Len(pktq) \in Nat \ {0} /\ Head(pktq) = pktq[1]
        /\ \A i \in 1 .. Len(pktq) - 1 : pktq'[i] = pktq[i + 1]
    BY <1>1, <1>2, <1>3, HeadTailProperties, EmptySeq
  <1>drained. pktq' = <<>> => Len(pktq) = 1
    <2>1. pktq' = <<>> => Len(pktq') = 0
      OBVIOUS
    <2> QED BY <1>4, <2>1
  <1>longer. pktq' # <<>> => Len(pktq) > 1
    <2>1. Len(pktq') = 0 => pktq' = <<>>
      BY <1>1, <1>4, EmptySeq
    <2> QED BY <1>4, <2>1
  <1>5. pktq[1].id = out.n + 1 /\ pktq[Len(pktq)].id = started
        /\ (pktq[Len(pktq)].last <=> rdBeats = 0)
    BY <1>3 DEF IInv, PacketChain
  <1> DEFINE NextHead ==
               /\ DispTypeOK' /\ HandChain'
               /\ Popped' = Popped /\ Ended' = Ended /\ InParse' = InParse
               /\ Len(pktq) = 1 => started = out'.n /\ rdBeats = 0
               /\ Len(pktq) > 1 => pktq'[1].id = out'.n + 1
  <1>6. ASSUME Head(pktq).last PROVE NextHead
    <2>1. disp' = Idle /\ out' = [n |-> out.n + 1, beats |-> disp.got + 1, bad |-> disp.bad]
      BY <1>6 DEF DispatchBeat
    <2>2. out'.n = out.n + 1 /\ disp'.state = "IDLE"
      BY <2>1 DEF Idle
    <2>3. Popped' = Popped /\ Ended' = Ended /\ InParse' = InParse
      BY <1>1, <1>2, <2>2 DEF Popped, InHand, Ended, InParse
    <2>4. Len(pktq) > 1 => pktq[2].id = out.n + 2
      <3>1. ASSUME Len(pktq) > 1 PROVE pktq[2].id = pktq[1].id + 1
        <4>1. 1 \in 1 .. Len(pktq) - 1
          BY <1>4, <3>1
        <4> QED BY <1>4, <1>6, <4>1 DEF IInv, PacketChain
      <3> QED BY <1>2, <1>5, <3>1
    <2>5. Len(pktq) = 1 => started = out'.n /\ rdBeats = 0
      BY <1>4, <1>5, <1>6, <2>2
    <2>6. Len(pktq) > 1 => pktq'[1].id = out'.n + 1
      <3>1. Len(pktq) > 1 => 1 \in 1 .. Len(pktq) - 1
        BY <1>4
      <3> QED BY <1>2, <1>4, <2>2, <2>4, <3>1
    <2>7. DispTypeOK'
      BY <1>2, <2>1 DEF DispTypeOK, Idle
    <2>8. HandChain'
      BY <2>2 DEF HandChain
    <2> QED BY <2>3, <2>5, <2>6, <2>7, <2>8
  <1>7. ASSUME ~Head(pktq).last PROVE NextHead
    <2>1. disp' = [disp EXCEPT !.got = @ + 1] /\ out' = out
      BY <1>7 DEF DispatchBeat
    <2>2. DispTypeOK'
      BY <2>1 DEF IInv, TypeOK, DispTypeOK
    <2>3. /\ disp'.state = disp.state /\ disp'.pkt = disp.pkt
          /\ disp'.len = disp.len /\ disp'.rec = disp.rec
      BY <2>1 DEF IInv, TypeOK, DispTypeOK
    <2>4. Popped' = Popped /\ Ended' = Ended /\ InParse' = InParse
      BY <1>1, <2>1, <2>3 DEF Popped, InHand, Ended, InParse
    <2>5. HandChain'
      BY <2>1, <2>3 DEF IInv, HandChain
    <2>6. Len(pktq) >= 2
      BY <1>1, <1>3, <1>4, <1>7, BeatBehind
    <2>7. pktq'[1].id = out'.n + 1
      <3>1. 1 \in 1 .. Len(pktq) - 1
        BY <1>4, <2>6
      <3>2. pktq[1 + 1].id = pktq[1].id
        BY <1>4, <1>7, <3>1 DEF IInv, PacketChain
      <3> QED BY <1>4, <1>5, <2>1, <3>1, <3>2
    <2> QED BY <1>4, <2>2, <2>4, <2>5, <2>6, <2>7
  <1>8. NextHead
    BY <1>6, <1>7
  <1>9. PacketChain'
    <2>1. ASSUME Len(pktq) > 1
          PROVE  pktq'[Len(pktq')].id = started /\ (pktq'[Len(pktq')].last <=> rdBeats = 0)
      <3>1. Len(pktq) - 1 \in 1 .. Len(pktq) - 1 /\ (Len(pktq) - 1) + 1 = Len(pktq)
        BY <1>4, <2>1
      <3>2. pktq'[Len(pktq')] = pktq[Len(pktq)]
        BY <1>4, <3>1
      <3> QED BY <1>5, <3>2
    <2>2. ASSUME NEW i \in 1 .. Len(pktq') - 1
          PROVE  pktq'[i + 1].id = IF pktq'[i].last THEN pktq'[i].id + 1 ELSE pktq'[i].id
      <3>1. i \in 1 .. Len(pktq) - 1 /\ i + 1 \in 1 .. Len(pktq) - 1
        BY <1>4
      <3>2. pktq'[i] = pktq[i + 1] /\ pktq'[i + 1] = pktq[(i + 1) + 1]
        BY <1>4, <3>1
      <3> QED BY <3>1, <3>2 DEF IInv, PacketChain
    <2>3. ASSUME NEW i \in 1 .. Len(pktq')
          PROVE  started - pktq'[i].id <= Len(pktq') - i
      <3>1. i \in 1 .. Len(pktq) - 1 /\ i + 1 \in 1 .. Len(pktq)
        BY <1>4
      <3>2. started - pktq[i + 1].id <= Len(pktq) - (i + 1)
        BY <3>1 DEF IInv, PacketChain
      <3>3. pktq'[i] = pktq[i + 1]
        BY <1>4, <3>1
      <3> QED BY <1>4, <3>1, <3>2, <3>3
    <2>4. Len(pktq) = 1 \/ Len(pktq) > 1
      BY <1>4
    <2> QED BY <1>1, <1>4, <1>drained, <1>longer, <1>8, <2>1, <2>2, <2>3, <2>4 DEF PacketChain
  <1>10. HeaderChain' /\ LenChain' /\ NoMetaErr'
    BY <1>1, <1>8 DEF IInv, HeaderChain, LenChain, NoMetaErr
  <1>11. TypeOK'
    <2>1. MacTypeOK' /\ HdrTypeOK'
      BY <1>1 DEF IInv, TypeOK, MacTypeOK, HdrTypeOK
    <2>2. PktTypeOK'
      BY <1>1, <1>4 DEF IInv, TypeOK, PktTypeOK
    <2> QED BY <1>8, <2>1, <2>2 DEF TypeOK
  <1> QED BY <1>8, <1>9, <1>10, <1>11 DEF IInv

-----------------------------------------------------------------------------
\* The strengthened invariant holds in every reachable state.
LEMMA Inductive == Spec => []IInv
  <1>1. Init => IInv
    BY InitIInv
  <1>2. IInv /\ [Next]_vars => IInv'
    <2> SUFFICES ASSUME IInv, [Next]_vars PROVE IInv'
      OBVIOUS
    <2>1. CASE MacBeat \/ MacCommit \/ MacReject \/ MacReset
      BY <2>1, MacStep, CoreUnchanged DEF IInv
    <2>2. CASE BroadcastBeat
      BY <2>2, BroadcastStep
    <2>3. CASE ParseStart
      BY <2>3, ParseStartStep
    <2>4. CASE ParseDone
      BY <2>4, ParseDoneStep
    <2>5. CASE DispatchCommit
      BY <2>5, CommitStep
    <2>6. CASE DispatchBeat
      BY <2>6, BeatStep
    <2>7. CASE UNCHANGED vars
      <3>1. /\ UNCHANGED <<rdBeats, started, disp, out, pktVars, hdrVars>>
            /\ UNCHANGED <<macIn, macDrop, macOcc, macq, arrived, resets>>
        BY <2>7 DEF vars, pktVars, hdrVars
      <3>2. MacTypeOK'
        BY <3>1 DEF IInv, TypeOK, MacTypeOK
      <3> QED BY <3>1, <3>2, CoreUnchanged
    <2> QED BY <2>1, <2>2, <2>3, <2>4, <2>5, <2>6, <2>7 DEF Next
  <1> QED BY <1>1, <1>2, PTL DEF Spec

\* RxPath is type correct: every FIFO of the receive path, whatever its depth,
\* holds beats and records of its kind.
THEOREM TypeCorrect == Spec => []TypeOK
  <1>1. IInv => TypeOK
    BY DEF IInv
  <1> QED BY <1>1, Inductive, PTL

\* For all FIFO depths with PKT_FIFO_BEATS >= RX_FIFO_BEATS, the frame rx_dispatch
\* forwards and the two records it pops with it are the same frame's.
THEOREM RecordsAligned == Spec => []Aligned
  <1>1. IInv => Aligned
    BY DEF IInv, HandChain, Aligned
  <1> QED BY <1>1, Inductive, PTL

\* For all depths, the len FIFO's 2 * PKT_FIFO_BEATS records suffice: no record
\* of the length unit is lost, STATUS.RX_META_ERR stays 0.
THEOREM LenFifoNeverOverflows == Spec => []NoMetaErr
  <1>1. IInv => NoMetaErr
    BY DEF IInv
  <1> QED BY <1>1, Inductive, PTL

-----------------------------------------------------------------------------
(* What the records say of the frames they are popped with.                *)

\* Frame id is whole in a packet FIFO q: its n beats lie together, the last one
\* ends it, and that one says that the frame was cut exactly if bad does.
FrameIn(q, id, n, bad) ==
    \E e \in 1 .. Len(q) :
        /\ n \in 1 .. e
        /\ \A j \in 1 .. Len(q) : q[j].id = id <=> j \in e - n + 1 .. e
        /\ \A j \in e - n + 1 .. e : q[j].last <=> j = e
        /\ q[e].cut <=> bad

\* Every record in the len FIFO describes a frame of the packet FIFO.
RecordsWhole ==
    \A k \in 1 .. Len(lenq) : FrameIn(pktq, lenq[k].id, lenq[k].beats, lenq[k].bad)

\* So does the record in hand, less the beats that already left.
HandWhole ==
    disp.state = "FWD" =>
        /\ disp.got < disp.beats
        /\ FrameIn(pktq, disp.pkt, disp.beats - disp.got, disp.bad)

\* The frame at the broadcast has its first rdBeats beats at the end of the packet
\* FIFO, and no later frame is there.
Unfinished ==
    /\ rdBeats <= Len(pktq)
    /\ \A j \in 1 .. Len(pktq) :
          /\ pktq[j].id <= started
          /\ rdBeats > 0 => (pktq[j].id = started <=> j > Len(pktq) - rdBeats)
          /\ j > Len(pktq) - rdBeats => ~pktq[j].last

\* In the MAC-side FIFO the bad mark tells the truth about cut frames, and the
\* frame being read has beats left.
MacWhole ==
    /\ \A i \in 1 .. Len(macq) : macq[i].beats > 0 /\ (macq[i].cut <=> macq[i].bad)
    /\ rdBeats > 0 => macq # <<>> /\ rdBeats < macq[1].beats

WInv ==
    /\ IInv
    /\ RecordsWhole
    /\ HandWhole
    /\ Unfinished
    /\ MacWhole

\* A beat of another frame at the end of the FIFO leaves a whole frame whole.
LEMMA FrameAppended ==
    ASSUME NEW q \in Seq(Beat), NEW b \in Beat, NEW id, NEW n, NEW bad,
           FrameIn(q, id, n, bad), b.id # id
    PROVE  FrameIn(Append(q, b), id, n, bad)
  <1> DEFINE s == Append(q, b)
  <1>1. /\ Len(q) \in Nat /\ Len(s) = Len(q) + 1
        /\ \A i \in 1 .. Len(q) : s[i] = q[i]
        /\ s[Len(q) + 1] = b
    BY AppendProperties, LenProperties
  <1>2. PICK e \in 1 .. Len(q) :
          /\ n \in 1 .. e
          /\ \A j \in 1 .. Len(q) : q[j].id = id <=> j \in e - n + 1 .. e
          /\ \A j \in e - n + 1 .. e : q[j].last <=> j = e
          /\ q[e].cut <=> bad
    BY DEF FrameIn
  <1> HIDE DEF s
  <1>3. \A j \in 1 .. Len(s) : s[j].id = id <=> j \in e - n + 1 .. e
    <2> TAKE j \in 1 .. Len(s)
    <2>1. CASE j \in 1 .. Len(q)
      BY <1>1, <1>2, <2>1
    <2>2. CASE j = Len(q) + 1
      BY <1>1, <1>2, <2>2
    <2> QED BY <1>1, <2>1, <2>2
  <1>4. \A j \in e - n + 1 .. e : s[j].last <=> j = e
    BY <1>1, <1>2
  <1>5. e \in 1 .. Len(s) /\ n \in 1 .. e /\ (s[e].cut <=> bad)
    BY <1>1, <1>2
  <1>6. FrameIn(s, id, n, bad)
    BY <1>3, <1>4, <1>5 DEF FrameIn
  <1> QED BY <1>6 DEF s

\* A beat of another frame leaves at the head: the frame moves up by one.
LEMMA FrameShifted ==
    ASSUME NEW q \in Seq(Beat), q # <<>>, NEW id, NEW n, NEW bad,
           FrameIn(q, id, n, bad), q[1].id # id
    PROVE  FrameIn(Tail(q), id, n, bad)
  <1> DEFINE s == Tail(q)
  <1>1. /\ Len(q) \in Nat \ {0} /\ Len(s) = Len(q) - 1
        /\ \A i \in 1 .. Len(q) - 1 : s[i] = q[i + 1]
    BY HeadTailProperties, EmptySeq
  <1>2. PICK e \in 1 .. Len(q) :
          /\ n \in 1 .. e
          /\ \A j \in 1 .. Len(q) : q[j].id = id <=> j \in e - n + 1 .. e
          /\ \A j \in e - n + 1 .. e : q[j].last <=> j = e
          /\ q[e].cut <=> bad
    BY DEF FrameIn
  <1> HIDE DEF s
  <1>3. e - n >= 1
    <2>1. 1 \in 1 .. Len(q) /\ 1 \notin e - n + 1 .. e
      BY <1>1, <1>2
    <2> QED BY <1>1, <1>2, <2>1
  <1>4. \A j \in 1 .. Len(s) : s[j].id = id <=> j \in (e - 1) - n + 1 .. e - 1
    <2> TAKE j \in 1 .. Len(s)
    <2>1. j + 1 \in 1 .. Len(q) /\ s[j] = q[j + 1]
      BY <1>1
    <2>2. q[j + 1].id = id <=> j + 1 \in e - n + 1 .. e
      BY <1>2, <2>1
    <2> QED BY <1>1, <1>2, <2>1, <2>2
  <1>5. \A j \in (e - 1) - n + 1 .. e - 1 : s[j].last <=> j = e - 1
    <2> TAKE j \in (e - 1) - n + 1 .. e - 1
    <2>1. j + 1 \in e - n + 1 .. e /\ s[j] = q[j + 1]
      BY <1>1, <1>2, <1>3
    <2>2. q[j + 1].last <=> j + 1 = e
      BY <1>2, <2>1
    <2> QED BY <1>1, <1>2, <2>1, <2>2
  <1>6. e - 1 \in 1 .. Len(s) /\ n \in 1 .. e - 1 /\ (s[e - 1].cut <=> bad)
    <2>1. e - 1 \in 1 .. Len(q) - 1 /\ (e - 1) + 1 = e
      BY <1>1, <1>2, <1>3
    <2> QED BY <1>1, <1>2, <1>3, <2>1
  <1>7. FrameIn(s, id, n, bad)
    BY <1>4, <1>5, <1>6 DEF FrameIn
  <1> QED BY <1>7 DEF s

\* Frame id lies at the head of q with all the n beats it has left.
FrameFirst(q, id, n, bad) ==
    /\ n \in 1 .. Len(q)
    /\ \A j \in 1 .. Len(q) : q[j].id = id <=> j \in 1 .. n
    /\ \A j \in 1 .. n : q[j].last <=> j = n
    /\ q[n].cut <=> bad

\* The frame whose beat is at the head lies there with all the beats it has left.
LEMMA FrameAtHead ==
    ASSUME NEW q \in Seq(Beat), q # <<>>, NEW id, NEW n, NEW bad,
           FrameIn(q, id, n, bad), q[1].id = id
    PROVE  FrameFirst(q, id, n, bad)
  <1>1. Len(q) \in Nat \ {0}
    BY EmptySeq
  <1>2. PICK e \in 1 .. Len(q) :
          /\ n \in 1 .. e
          /\ \A j \in 1 .. Len(q) : q[j].id = id <=> j \in e - n + 1 .. e
          /\ \A j \in e - n + 1 .. e : q[j].last <=> j = e
          /\ q[e].cut <=> bad
    BY DEF FrameIn
  <1>3. e = n
    <2>1. 1 \in e - n + 1 .. e
      BY <1>1, <1>2
    <2> QED BY <1>1, <1>2, <2>1
  <1>4. e - n + 1 = 1
    BY <1>1, <1>2, <1>3
  <1> QED BY <1>2, <1>3, <1>4 DEF FrameFirst

\* A beat of the frame at the head leaves, and it is not the last one.
LEMMA FrameShortened ==
    ASSUME NEW q \in Seq(Beat), q # <<>>, NEW id, NEW n, NEW bad,
           FrameIn(q, id, n, bad), q[1].id = id, ~q[1].last
    PROVE  n > 1 /\ FrameIn(Tail(q), id, n - 1, bad)
  <1> DEFINE s == Tail(q)
  <1>1. /\ Len(q) \in Nat \ {0} /\ Len(s) = Len(q) - 1
        /\ \A i \in 1 .. Len(q) - 1 : s[i] = q[i + 1]
    BY HeadTailProperties, EmptySeq
  <1> HIDE DEF s
  <1>2. /\ n \in 1 .. Len(q)
        /\ \A j \in 1 .. Len(q) : q[j].id = id <=> j \in 1 .. n
        /\ \A j \in 1 .. n : q[j].last <=> j = n
        /\ q[n].cut <=> bad
    <2>1. FrameFirst(q, id, n, bad)
      BY FrameAtHead
    <2> QED BY <2>1 DEF FrameFirst
  <1>3. n > 1
    BY <1>1, <1>2
  <1>4. \A j \in 1 .. Len(s) : s[j].id = id <=> j \in (n - 1) - (n - 1) + 1 .. n - 1
    <2> TAKE j \in 1 .. Len(s)
    <2>1. j + 1 \in 1 .. Len(q) /\ s[j] = q[j + 1]
      BY <1>1
    <2>2. q[j + 1].id = id <=> j + 1 \in 1 .. n
      BY <1>2, <2>1
    <2> QED BY <1>1, <1>2, <2>1, <2>2
  <1>5. \A j \in (n - 1) - (n - 1) + 1 .. n - 1 : s[j].last <=> j = n - 1
    <2> TAKE j \in (n - 1) - (n - 1) + 1 .. n - 1
    <2>1. j + 1 \in 1 .. n /\ s[j] = q[j + 1]
      BY <1>1, <1>2
    <2>2. q[j + 1].last <=> j + 1 = n
      BY <1>2, <2>1
    <2> QED BY <1>1, <1>2, <2>1, <2>2
  <1>6. n - 1 \in 1 .. Len(s) /\ (s[n - 1].cut <=> bad)
    <2>1. n - 1 \in 1 .. Len(q) - 1 /\ (n - 1) + 1 = n
      BY <1>1, <1>2, <1>3
    <2> QED BY <1>1, <1>2, <2>1
  <1>7. FrameIn(s, id, n - 1, bad)
    <2>1. n - 1 \in 1 .. n - 1
      BY <1>1, <1>2, <1>3
    <2> QED BY <1>4, <1>5, <1>6, <2>1 DEF FrameIn
  <1> QED BY <1>3, <1>7 DEF s

\* The initial state has no frame anywhere.
LEMMA InitWhole == Init => WInv
  <1> SUFFICES ASSUME Init PROVE WInv
    OBVIOUS
  <1>1. IInv
    BY InitIInv
  <1>2. RecordsWhole /\ HandWhole
    BY DEF Init, RecordsWhole, HandWhole, Idle
  <1>3. Unfinished /\ MacWhole
    BY DEF Init, Unfinished, MacWhole
  <1> QED BY <1>1, <1>2, <1>3 DEF WInv

\* The MAC side keeps its marks truthful, and never shortens the frame being read
\* below what was read of it.
LEMMA MacStepWhole ==
    ASSUME WInv, MacBeat \/ MacCommit \/ MacReject \/ MacReset
    PROVE  WInv'
  <1>1. MacTypeOK' /\ UNCHANGED <<rdBeats, started, disp, out, pktVars, hdrVars>>
    BY MacStep DEF WInv, IInv
  <1>2. IInv'
    BY <1>1, CoreUnchanged DEF WInv
  <1>3. RecordsWhole' /\ HandWhole' /\ Unfinished'
    BY <1>1 DEF WInv, RecordsWhole, HandWhole, Unfinished, pktVars
  <1>4. MacWhole'
    <2>1. macq \in Seq(Frame) /\ macIn \in Nat /\ rdBeats \in Nat /\ Len(macq) \in Nat
      BY LenProperties DEF WInv, IInv, TypeOK, MacTypeOK
    <2>2. CASE MacBeat \/ MacReject
      <3>1. macq' = macq
        BY <2>2 DEF MacBeat, MacReject
      <3> QED BY <1>1, <3>1 DEF WInv, MacWhole
    <2>3. CASE MacCommit
      <3> DEFINE f == [beats |-> macIn + 1, bad |-> FALSE, cut |-> FALSE]
      <3>1. f \in Frame /\ f.beats > 0 /\ (f.cut <=> f.bad)
        BY <2>1 DEF Frame
      <3>2. macq' = Append(macq, f)
        BY <2>3 DEF MacCommit
      <3> HIDE DEF f
      <3>3. /\ macq' # <<>> /\ Len(macq') = Len(macq) + 1
            /\ \A i \in 1 .. Len(macq) : macq'[i] = macq[i]
            /\ macq'[Len(macq) + 1] = f
        BY <2>1, <3>1, <3>2, AppendProperties
      <3>4. \A i \in 1 .. Len(macq) + 1 : i \in 1 .. Len(macq) \/ i = Len(macq) + 1
        BY <2>1
      <3>5. \A i \in 1 .. Len(macq') : macq'[i].beats > 0 /\ (macq'[i].cut <=> macq'[i].bad)
        BY <3>1, <3>3, <3>4 DEF WInv, MacWhole
      <3>6. rdBeats > 0 => rdBeats < macq'[1].beats
        <4>1. macq # <<>> => 1 \in 1 .. Len(macq)
          BY <2>1, EmptySeq
        <4> QED BY <3>3, <4>1 DEF WInv, MacWhole
      <3> QED BY <1>1, <3>3, <3>5, <3>6 DEF MacWhole
    <2>4. CASE MacReset
      <3>1. CASE rdBeats > 0
        <4>1. macq' = <<[beats |-> rdBeats + 1, bad |-> TRUE, cut |-> TRUE]>>
          BY <2>4, <3>1 DEF MacReset
        <4>2. /\ Len(macq') = 1 /\ macq'[1].beats = rdBeats + 1 /\ macq' # <<>>
              /\ macq'[1].cut = TRUE /\ macq'[1].bad = TRUE
          BY <4>1
        <4> QED BY <1>1, <2>1, <4>2 DEF MacWhole
      <3>2. CASE ~(rdBeats > 0)
        <4>1. macq' = <<>>
          BY <2>4, <3>2 DEF MacReset
        <4> QED BY <1>1, <3>2, <4>1 DEF MacWhole
      <3> QED BY <3>1, <3>2
    <2> QED BY <2>2, <2>3, <2>4
  <1> QED BY <1>2, <1>3, <1>4 DEF WInv

\* The parser's steps touch neither the packet branch nor the dispatcher.
LEMMA ParseStepWhole ==
    ASSUME WInv, ParseStart \/ ParseDone
    PROVE  WInv'
  <1>1. UNCHANGED <<pktq, lenq, disp, rdBeats, started, macq>>
    BY DEF ParseStart, ParseDone, pktVars
  <1>2. IInv'
    BY ParseStartStep, ParseDoneStep DEF WInv
  <1>3. RecordsWhole' /\ HandWhole' /\ Unfinished' /\ MacWhole'
    BY <1>1 DEF WInv, RecordsWhole, HandWhole, Unfinished, MacWhole
  <1> QED BY <1>2, <1>3 DEF WInv

\* A step that changes no variable keeps the invariant.
LEMMA StutterWhole ==
    ASSUME WInv, UNCHANGED vars
    PROVE  WInv'
  <1>1. /\ UNCHANGED <<rdBeats, started, disp, out, pktVars, hdrVars, macq>>
        /\ UNCHANGED <<pktq, lenq, disp, rdBeats, started, macq>>
        /\ UNCHANGED <<macIn, macDrop, macOcc, macq, arrived, resets>>
    BY DEF vars, pktVars, hdrVars
  <1>2. IInv'
    <2>1. MacTypeOK'
      BY <1>1 DEF WInv, IInv, TypeOK, MacTypeOK
    <2> QED BY <1>1, <2>1, CoreUnchanged DEF WInv
  <1>3. RecordsWhole' /\ HandWhole' /\ Unfinished' /\ MacWhole'
    BY <1>1 DEF WInv, RecordsWhole, HandWhole, Unfinished, MacWhole
  <1> QED BY <1>2, <1>3 DEF WInv

\* The dispatcher's record is the first of the len FIFO.
LEMMA CommitStepWhole ==
    ASSUME WInv, DispatchCommit
    PROVE  WInv'
  <1>1. /\ disp.state = "IDLE" /\ lenq # <<>> /\ lenq' = Tail(lenq)
        /\ UNCHANGED <<pktq, rdBeats, started, macq>>
        /\ disp' = [state |-> "FWD", pkt |-> Head(pktq).id, len |-> Head(lenq).id,
                    rec |-> Head(recq), beats |-> Head(lenq).beats, bad |-> Head(lenq).bad,
                    got |-> 0]
    BY DEF DispatchCommit, HeadsValid
  <1>2. IInv'
    BY CommitStep DEF WInv
  <1>3. /\ lenq \in Seq(LenRec) /\ Len(lenq) \in Nat \ {0}
        /\ Len(lenq') = Len(lenq) - 1 /\ Head(lenq) = lenq[1]
        /\ \A i \in 1 .. Len(lenq) - 1 : lenq'[i] = lenq[i + 1]
    BY <1>1, HeadTailProperties, EmptySeq DEF WInv, IInv, TypeOK, PktTypeOK
  <1>4. RecordsWhole'
    <2> SUFFICES ASSUME NEW k \in 1 .. Len(lenq')
                 PROVE  FrameIn(pktq, lenq'[k].id, lenq'[k].beats, lenq'[k].bad)
      BY <1>1 DEF RecordsWhole
    <2>1. k + 1 \in 1 .. Len(lenq) /\ lenq'[k] = lenq[k + 1]
      BY <1>3
    <2> QED BY <2>1 DEF WInv, RecordsWhole
  <1>5. HandWhole'
    <2>1. FrameIn(pktq, lenq[1].id, lenq[1].beats, lenq[1].bad)
      BY <1>3 DEF WInv, RecordsWhole
    <2>2. disp'.pkt = lenq[1].id
      <3>1. disp'.pkt = disp'.len
        BY <1>1, <1>2 DEF IInv, HandChain
      <3> QED BY <1>1, <1>3, <3>1
    <2>3. lenq[1].beats \in Nat
      <3>1. lenq[1] \in LenRec
        BY <1>3, ElementOfSeq
      <3> QED BY <3>1 DEF LenRec
    <2>4. lenq[1].beats > 0 /\ lenq[1].beats - 0 = lenq[1].beats
      BY <2>1, <2>3 DEF FrameIn
    <2>5. disp'.beats = lenq[1].beats /\ disp'.bad = lenq[1].bad /\ disp'.got = 0
      BY <1>1, <1>3
    <2> QED BY <1>1, <2>1, <2>2, <2>4, <2>5 DEF HandWhole
  <1>6. Unfinished' /\ MacWhole'
    BY <1>1 DEF WInv, Unfinished, MacWhole
  <1> QED BY <1>2, <1>4, <1>5, <1>6 DEF WInv

\* The frame in hand lies at the head of the packet FIFO.
LEMMA HandFirst ==
    ASSUME WInv, disp.state = "FWD", PktValid
    PROVE  /\ pktq # <<>> /\ pktq[1].id = disp.pkt
           /\ FrameFirst(pktq, disp.pkt, disp.beats - disp.got, disp.bad)
  <1>1. pktq \in Seq(Beat)
    BY DEF WInv, IInv, TypeOK, PktTypeOK
  <1>2. pktq # <<>>
    BY <1>1 DEF PktValid
  <1>3. pktq[1].id = disp.pkt
    BY <1>2 DEF WInv, IInv, PacketChain, HandChain
  <1>4. FrameIn(pktq, disp.pkt, disp.beats - disp.got, disp.bad)
    BY DEF WInv, HandWhole
  <1> QED BY <1>1, <1>2, <1>3, <1>4, FrameAtHead

\* A beat leaves: the frame in hand has one beat less, the others move up.
LEMMA BeatStepWhole ==
    ASSUME WInv, DispatchBeat
    PROVE  WInv'
  <1>1. /\ disp.state = "FWD" /\ PktValid /\ pktq' = Tail(pktq)
        /\ UNCHANGED <<lenq, rdBeats, started, macq>>
    BY DEF DispatchBeat
  <1>2. IInv'
    BY BeatStep DEF WInv
  <1>3. /\ pktq \in Seq(Beat) /\ lenq \in Seq(LenRec) /\ Len(lenq) \in Nat
        /\ rdBeats \in Nat /\ started \in Nat /\ out.n \in Nat
        /\ disp.beats \in Nat /\ disp.got \in Nat
    BY LenProperties DEF WInv, IInv, TypeOK, MacTypeOK, PktTypeOK, DispTypeOK
  <1>4. pktq # <<>> /\ pktq[1].id = disp.pkt /\ disp.pkt = out.n + 1
    BY <1>1, HandFirst DEF WInv, IInv, HandChain
  <1>5. /\ Len(pktq) \in Nat \ {0} /\ Len(pktq') = Len(pktq) - 1 /\ Head(pktq) = pktq[1]
        /\ \A i \in 1 .. Len(pktq) - 1 : pktq'[i] = pktq[i + 1]
    BY <1>1, <1>3, <1>4, HeadTailProperties, EmptySeq
  <1>6. RecordsWhole'
    <2> SUFFICES ASSUME NEW k \in 1 .. Len(lenq)
                 PROVE  FrameIn(Tail(pktq), lenq[k].id, lenq[k].beats, lenq[k].bad)
      BY <1>1 DEF RecordsWhole
    <2>1. FrameIn(pktq, lenq[k].id, lenq[k].beats, lenq[k].bad)
      BY DEF WInv, RecordsWhole
    <2>2. lenq[k].id = out.n + 1 + k
      BY <1>1, <1>3 DEF WInv, IInv, LenChain, Popped, InHand
    <2>3. pktq[1].id # lenq[k].id
      BY <1>3, <1>4, <2>2
    <2> QED BY <1>3, <1>4, <2>1, <2>3, FrameShifted
  <1>7. HandWhole'
    <2>1. CASE Head(pktq).last
      <3>1. disp' = Idle
        BY <2>1 DEF DispatchBeat
      <3> QED BY <3>1 DEF HandWhole, Idle
    <2>2. CASE ~Head(pktq).last
      <3>1. disp' = [disp EXCEPT !.got = @ + 1]
        BY <2>2 DEF DispatchBeat
      <3>2. /\ disp'.got = disp.got + 1 /\ disp'.beats = disp.beats
            /\ disp'.bad = disp.bad /\ disp'.pkt = disp.pkt
        BY <3>1 DEF WInv, IInv, TypeOK, DispTypeOK
      <3>3. FrameIn(pktq, disp.pkt, disp.beats - disp.got, disp.bad)
        BY <1>1 DEF WInv, HandWhole
      <3>4. /\ disp.beats - disp.got > 1
            /\ FrameIn(Tail(pktq), disp.pkt, (disp.beats - disp.got) - 1, disp.bad)
        BY <1>3, <1>4, <1>5, <2>2, <3>3, FrameShortened
      <3>5. (disp.beats - disp.got) - 1 = disp.beats - (disp.got + 1)
        BY <1>3
      <3>6. FrameIn(pktq', disp'.pkt, disp'.beats - disp'.got, disp'.bad)
        BY <1>1, <3>2, <3>4, <3>5
      <3>7. disp'.got < disp'.beats
        BY <1>3, <3>2, <3>4
      <3> QED BY <3>6, <3>7 DEF HandWhole
    <2> QED BY <2>1, <2>2
  <1>8. Unfinished'
    <2>1. rdBeats <= Len(pktq) - 1
      <3>1. PICK i \in DOMAIN pktq : pktq[i].last
        BY <1>1 DEF PktValid
      <3>2. i \in 1 .. Len(pktq)
        BY <1>3, <3>1
      <3>3. ~(i > Len(pktq) - rdBeats)
        BY <3>1, <3>2 DEF WInv, Unfinished
      <3> QED BY <1>3, <1>5, <3>2, <3>3
    <2>2. ASSUME NEW j \in 1 .. Len(pktq')
          PROVE  /\ pktq'[j].id <= started
                 /\ rdBeats > 0 => (pktq'[j].id = started <=> j > Len(pktq') - rdBeats)
                 /\ j > Len(pktq') - rdBeats => ~pktq'[j].last
      <3>1. j + 1 \in 1 .. Len(pktq) /\ pktq'[j] = pktq[j + 1]
        BY <1>5
      <3>2. /\ pktq[j + 1].id <= started
            /\ rdBeats > 0 => (pktq[j + 1].id = started <=> j + 1 > Len(pktq) - rdBeats)
            /\ j + 1 > Len(pktq) - rdBeats => ~pktq[j + 1].last
        BY <3>1 DEF WInv, Unfinished
      <3>3. j + 1 > Len(pktq) - rdBeats <=> j > Len(pktq') - rdBeats
        BY <1>3, <1>5
      <3> QED BY <3>1, <3>2, <3>3
    <2> QED BY <1>1, <1>5, <2>1, <2>2 DEF Unfinished
  <1>9. MacWhole'
    BY <1>1 DEF WInv, MacWhole
  <1> QED BY <1>2, <1>6, <1>7, <1>8, <1>9 DEF WInv

\* A beat crosses the broadcast: no frame counted so far changes, and the last
\* beat's record counts the beats that lie at the end of the packet FIFO.
LEMMA BroadcastStepWhole ==
    ASSUME WInv, BroadcastBeat
    PROVE  WInv'
  <1> DEFINE b == [id |-> FrameId, last |-> Last, cut |-> Last /\ Head(macq).cut]
             r == [id |-> FrameId, beats |-> rdBeats + 1, bad |-> Head(macq).bad]
  <1>1. IInv /\ IInv'
    BY BroadcastStep DEF WInv
  <1>2. /\ started \in Nat /\ rdBeats \in Nat /\ out.n \in Nat /\ disp.pkt \in Nat
        /\ pktq \in Seq(Beat) /\ lenq \in Seq(LenRec) /\ macq \in Seq(Frame)
        /\ Len(pktq) \in Nat /\ Len(lenq) \in Nat /\ Len(macq) \in Nat
    BY <1>1, LenProperties DEF IInv, TypeOK, MacTypeOK, PktTypeOK, DispTypeOK
  <1>3. /\ macq # <<>> /\ Len(macq) > 0 /\ Head(macq) = macq[1] /\ macq[1] \in Frame
        /\ macq[1].beats > rdBeats /\ (macq[1].cut <=> macq[1].bad)
    <2>1. macq # <<>>
      BY DEF BroadcastBeat
    <2>2. 1 \in 1 .. Len(macq)
      BY <1>2, <2>1, EmptySeq
    <2>3. macq[1] \in Frame
      BY <1>2, <2>2, ElementOfSeq
    <2>4. macq[1].beats > 0 /\ (macq[1].cut <=> macq[1].bad)
          /\ (rdBeats > 0 => rdBeats < macq[1].beats)
      BY <2>2 DEF WInv, MacWhole
    <2> QED BY <1>2, <2>1, <2>2, <2>3, <2>4 DEF Frame
  <1>4. FrameId \in Nat /\ FrameId = Ended + 1 /\ Ended <= started
    BY <1>2 DEF FrameId, First, Ended
  <1>5. b \in Beat /\ r \in LenRec
    <2>1. Last \in BOOLEAN /\ (Last /\ Head(macq).cut) \in BOOLEAN
      BY DEF Last
    <2>2. Head(macq).bad \in BOOLEAN /\ rdBeats + 1 \in Nat
      BY <1>2, <1>3 DEF Frame
    <2> QED BY <1>4, <2>1, <2>2 DEF Beat, LenRec
  <1>6. /\ pktq' = Append(pktq, b) /\ started' = FrameId /\ disp' = disp
        /\ Last => rdBeats' = 0 /\ macq' = Tail(macq) /\ PushLen(r)
        /\ ~Last => rdBeats' = rdBeats + 1 /\ macq' = macq /\ lenq' = lenq
    BY DEF BroadcastBeat
  <1>7. /\ b.id = FrameId /\ (b.last <=> Last) /\ (b.cut <=> Last /\ macq[1].cut)
        /\ r.id = FrameId /\ r.beats = rdBeats + 1 /\ r.bad = macq[1].bad
    BY <1>3
  <1> HIDE DEF b, r
  <1>8. /\ Len(pktq') = Len(pktq) + 1 /\ pktq'[Len(pktq) + 1] = b
        /\ \A i \in 1 .. Len(pktq) : pktq'[i] = pktq[i]
    BY <1>2, <1>5, <1>6, AppendProperties
  <1>9. Last => lenq' = Append(lenq, r)
    <2>1. ~metaErr'
      BY <1>1 DEF IInv, NoMetaErr
    <2>2. Last => Len(lenq) < LenFifoDepth
      BY <1>6, <2>1 DEF PushLen
    <2> QED BY <1>6, <2>2 DEF PushLen
  \* The beats of the frame at the broadcast, this one included.
  <1>10. \A j \in 1 .. Len(pktq') : pktq'[j].id = FrameId <=> j > Len(pktq) - rdBeats
    <2> TAKE j \in 1 .. Len(pktq')
    <2>1. CASE j = Len(pktq) + 1
      BY <1>2, <1>7, <1>8, <2>1
    <2>2. CASE j \in 1 .. Len(pktq) /\ First
      <3>1. pktq'[j].id <= started /\ rdBeats = 0 /\ FrameId = started + 1
        BY <1>8, <2>2 DEF WInv, Unfinished, First, FrameId
      <3>2. pktq'[j].id \in Nat
        <4>1. pktq[j] \in Beat
          BY <1>2, <2>2, ElementOfSeq
        <4> QED BY <1>8, <2>2, <4>1 DEF Beat
      <3> QED BY <1>2, <2>2, <3>1, <3>2
    <2>3. CASE j \in 1 .. Len(pktq) /\ ~First
      <3>1. rdBeats > 0 /\ FrameId = started
        BY <1>2, <2>3 DEF First, FrameId
      <3> QED BY <1>8, <2>3, <3>1 DEF WInv, Unfinished
    <2> QED BY <1>2, <1>8, <2>1, <2>2, <2>3
  <1>11. \A j \in 1 .. Len(pktq') : j > Len(pktq) - rdBeats =>
             (pktq'[j].last <=> j = Len(pktq) + 1 /\ Last)
    <2> TAKE j \in 1 .. Len(pktq')
    <2>1. CASE j = Len(pktq) + 1
      BY <1>7, <1>8, <2>1
    <2>2. CASE j \in 1 .. Len(pktq)
      BY <1>2, <1>8, <2>2 DEF WInv, Unfinished
    <2> QED BY <1>2, <1>8, <2>1, <2>2
  <1>12. RecordsWhole'
    <2>1. ASSUME NEW k \in 1 .. Len(lenq)
          PROVE  FrameIn(pktq', lenq[k].id, lenq[k].beats, lenq[k].bad)
      <3>1. FrameIn(pktq, lenq[k].id, lenq[k].beats, lenq[k].bad)
        BY DEF WInv, RecordsWhole
      <3>2. lenq[k].id = Popped + k /\ Ended = Popped + Len(lenq)
        BY <1>1 DEF IInv, LenChain
      <3>3. Popped \in Nat /\ Ended \in Int
        BY <1>2 DEF Popped, InHand, Ended
      <3>4. b.id # lenq[k].id
        BY <1>2, <1>4, <1>7, <3>2, <3>3
      <3> QED BY <1>2, <1>5, <1>6, <3>1, <3>4, FrameAppended
    <2>2. CASE Last
      <3>1. /\ Len(lenq') = Len(lenq) + 1 /\ lenq'[Len(lenq) + 1] = r
            /\ \A k \in 1 .. Len(lenq) : lenq'[k] = lenq[k]
        BY <1>2, <1>5, <1>9, <2>2, AppendProperties
      <3>2. FrameIn(pktq', r.id, r.beats, r.bad)
        <4> DEFINE e == Len(pktq) + 1
        <4>1. e \in 1 .. Len(pktq') /\ e - r.beats + 1 = Len(pktq) - rdBeats + 1
          BY <1>2, <1>7, <1>8
        <4>2. r.beats \in 1 .. e
          BY <1>2, <1>7 DEF WInv, Unfinished
        <4>3. \A j \in 1 .. Len(pktq') : pktq'[j].id = r.id <=> j \in e - r.beats + 1 .. e
          BY <1>2, <1>7, <1>8, <1>10, <4>1
        <4>4. \A j \in e - r.beats + 1 .. e : pktq'[j].last <=> j = e
          <5> TAKE j \in e - r.beats + 1 .. e
          <5>1. j \in 1 .. Len(pktq') /\ j > Len(pktq) - rdBeats
            BY <1>2, <1>7, <1>8, <4>1, <4>2
          <5> QED BY <1>11, <2>2, <5>1
        <4>5. pktq'[e].cut <=> r.bad
          BY <1>3, <1>7, <1>8, <2>2
        <4> QED BY <4>1, <4>2, <4>3, <4>4, <4>5 DEF FrameIn
      <3>3. \A k \in 1 .. Len(lenq) + 1 : k \in 1 .. Len(lenq) \/ k = Len(lenq) + 1
        BY <1>2
      <3> QED BY <2>1, <3>1, <3>2, <3>3 DEF RecordsWhole
    <2>3. CASE ~Last
      BY <1>6, <2>1, <2>3 DEF RecordsWhole
    <2> QED BY <2>2, <2>3
  <1>13. HandWhole'
    <2> SUFFICES ASSUME disp.state = "FWD"
                 PROVE  /\ disp.got < disp.beats
                        /\ FrameIn(pktq', disp.pkt, disp.beats - disp.got, disp.bad)
      BY <1>6 DEF HandWhole
    <2>1. disp.got < disp.beats /\ FrameIn(pktq, disp.pkt, disp.beats - disp.got, disp.bad)
      BY DEF WInv, HandWhole
    <2>2. disp.pkt = out.n + 1 /\ Ended = out.n + 1 + Len(lenq)
      BY <1>1, <1>2 DEF IInv, HandChain, LenChain, Popped, InHand
    <2>3. b.id # disp.pkt
      BY <1>2, <1>4, <1>7, <2>2
    <2> QED BY <1>2, <1>5, <1>6, <2>1, <2>3, FrameAppended
  <1>14. Unfinished'
    <2>1. \A j \in 1 .. Len(pktq') : pktq'[j].id <= FrameId
      <3> TAKE j \in 1 .. Len(pktq')
      <3>1. CASE j = Len(pktq) + 1
        BY <1>4, <1>7, <1>8, <3>1
      <3>2. CASE j \in 1 .. Len(pktq)
        <4>1. pktq[j] \in Beat
          BY <1>2, <3>2, ElementOfSeq
        <4>2. pktq[j].id \in Nat /\ pktq[j].id <= started
          BY <3>2, <4>1 DEF WInv, Unfinished, Beat
        <4> QED BY <1>2, <1>8, <3>2, <4>2 DEF FrameId
      <3> QED BY <1>2, <1>8, <3>1, <3>2
    <2>2. CASE Last
      <3>1. rdBeats' = 0
        BY <1>6, <2>2
      <3> QED BY <1>2, <1>6, <1>8, <2>1, <3>1 DEF Unfinished
    <2>3. CASE ~Last
      <3>1. rdBeats' = rdBeats + 1 /\ Len(pktq') - rdBeats' = Len(pktq) - rdBeats
        BY <1>2, <1>6, <1>8, <2>3
      <3>2. rdBeats' <= Len(pktq')
        BY <1>2, <1>8, <3>1 DEF WInv, Unfinished
      <3> QED BY <1>6, <1>10, <1>11, <2>1, <2>3, <3>1, <3>2 DEF Unfinished
    <2> QED BY <2>2, <2>3
  <1>15. MacWhole'
    <2>1. CASE Last
      <3>1. /\ rdBeats' = 0 /\ Len(macq') = Len(macq) - 1
            /\ \A i \in 1 .. Len(macq) - 1 : macq'[i] = macq[i + 1]
        BY <1>2, <1>3, <1>6, <2>1, HeadTailProperties
      <3>2. \A i \in 1 .. Len(macq) - 1 : i + 1 \in 1 .. Len(macq)
        BY <1>2
      <3> QED BY <3>1, <3>2 DEF WInv, MacWhole
    <2>2. CASE ~Last
      <3>1. rdBeats' = rdBeats + 1 /\ macq' = macq
        BY <1>6, <2>2
      <3>2. rdBeats + 1 < macq[1].beats
        BY <1>2, <1>3, <2>2 DEF Last, Frame
      <3> QED BY <1>3, <3>1, <3>2 DEF WInv, MacWhole
    <2> QED BY <2>1, <2>2
  <1> QED BY <1>1, <1>12, <1>13, <1>14, <1>15 DEF WInv

\* The records stay truthful in every reachable state.
LEMMA WholeInductive == Spec => []WInv
  <1>1. Init => WInv
    BY InitWhole
  <1>2. WInv /\ [Next]_vars => WInv'
    <2> SUFFICES ASSUME WInv, [Next]_vars PROVE WInv'
      OBVIOUS
    <2>1. CASE MacBeat \/ MacCommit \/ MacReject \/ MacReset
      BY <2>1, MacStepWhole
    <2>2. CASE BroadcastBeat
      BY <2>2, BroadcastStepWhole
    <2>3. CASE ParseStart \/ ParseDone
      BY <2>3, ParseStepWhole
    <2>4. CASE DispatchCommit
      BY <2>4, CommitStepWhole
    <2>5. CASE DispatchBeat
      BY <2>5, BeatStepWhole
    <2>6. CASE UNCHANGED vars
      BY <2>6, StutterWhole
    <2> QED BY <2>1, <2>2, <2>3, <2>4, <2>5, <2>6 DEF Next
  <1> QED BY <1>1, <1>2, PTL DEF Spec

\* For all FIFO depths and any number of MAC-side resets, what rx_dispatch forwards
\* is the frame the length unit counted, and it is called bad exactly when it was
\* cut short.
THEOREM FramesDispatchedWhole == Spec => []DispatchedWhole
  <1>1. WInv => DispatchedWhole
    <2> SUFFICES ASSUME WInv, disp.state = "FWD"
                 PROVE  /\ LET left == disp.beats - disp.got
                           IN /\ left \in 1 .. Len(pktq)
                              /\ pktq[left].last
                              /\ \A i \in 1 .. left - 1 : ~pktq[i].last
                        /\ \A i \in DOMAIN pktq :
                              pktq[i].last /\ pktq[i].id = disp.pkt => (pktq[i].cut <=> disp.bad)
      BY DEF DispatchedWhole, LenMatchesFrame, CutIsBad
    <2> DEFINE left == disp.beats - disp.got
    <2>1. pktq \in Seq(Beat)
      BY DEF WInv, IInv, TypeOK, PktTypeOK
    <2>2. FrameIn(pktq, disp.pkt, left, disp.bad)
      BY DEF WInv, HandWhole
    <2>3. pktq # <<>> /\ pktq[1].id = disp.pkt
      <3>1. pktq # <<>>
        BY <2>1, <2>2, EmptySeq DEF FrameIn
      <3> QED BY <3>1 DEF WInv, IInv, PacketChain, HandChain
    <2>4. FrameFirst(pktq, disp.pkt, left, disp.bad)
      BY <2>1, <2>2, <2>3, FrameAtHead
    <2> HIDE DEF left
    <2>5. left \in 1 .. Len(pktq) /\ DOMAIN pktq = 1 .. Len(pktq) /\ Len(pktq) \in Nat
      BY <2>1, <2>4, LenProperties DEF FrameFirst
    <2>6. pktq[left].last /\ \A i \in 1 .. left - 1 : ~pktq[i].last
      BY <2>4, <2>5 DEF FrameFirst
    <2>7. \A i \in DOMAIN pktq :
             pktq[i].last /\ pktq[i].id = disp.pkt => (pktq[i].cut <=> disp.bad)
      BY <2>4, <2>5 DEF FrameFirst
    <2> QED BY <2>5, <2>6, <2>7 DEF left
  <1> QED BY <1>1, WholeInductive, PTL

-----------------------------------------------------------------------------
(* RxPath implements RxFrameQueue.                                         *)

QFrame == [beats : Nat, bad : BOOLEAN]

\* The frames of a FIFO as the abstract queue sees them.
QRec(x) == [beats |-> x.beats, bad |-> x.bad]
QSeq(s) == [i \in DOMAIN s |-> QRec(s[i])]

\* The abstract queue: the frame in hand, the counted ones, the accepted ones.
Joined(h, l, m) == h \o QSeq(l) \o QSeq(m)
Hand == IF disp.state = "FWD" THEN <<QRec(disp)>> ELSE <<>>
Owed == Joined(Hand, lenq, macq)

\* A FIFO keeps its length and its order in the abstract queue.
LEMMA QSeqProperties ==
    ASSUME NEW S, NEW s \in Seq(S), \A x \in S : x.beats \in Nat /\ x.bad \in BOOLEAN
    PROVE  /\ QSeq(s) \in Seq(QFrame)
           /\ Len(QSeq(s)) = Len(s)
           /\ \A i \in 1 .. Len(s) : QSeq(s)[i] = QRec(s[i])
  <1>1. Len(s) \in Nat /\ DOMAIN s = 1 .. Len(s) /\ \A i \in 1 .. Len(s) : s[i] \in S
    BY LenProperties, ElementOfSeq
  <1>2. \A i \in 1 .. Len(s) : QRec(s[i]) \in QFrame
    BY <1>1 DEF QRec, QFrame
  <1>3. QSeq(s) = [i \in 1 .. Len(s) |-> QRec(s[i])]
    BY <1>1 DEF QSeq
  <1>4. QSeq(s) \in [1 .. Len(s) -> QFrame]
    BY <1>2, <1>3
  <1>5. QSeq(s) \in Seq(QFrame)
    BY <1>1, <1>4, SeqDef
  <1>6. Len(QSeq(s)) = Len(s)
    BY <1>1, <1>4, <1>5, LenProperties
  <1> QED BY <1>3, <1>5, <1>6

\* Where the frames of the three parts are in the abstract queue.
LEMMA JoinedProperties ==
    ASSUME NEW h \in Seq(QFrame), NEW l \in Seq(LenRec), NEW m \in Seq(Frame)
    PROVE  /\ Joined(h, l, m) \in Seq(QFrame)
           /\ Len(Joined(h, l, m)) = Len(h) + Len(l) + Len(m)
           /\ \A i \in 1 .. Len(h) : Joined(h, l, m)[i] = h[i]
           /\ \A i \in 1 .. Len(l) : Joined(h, l, m)[Len(h) + i] = QRec(l[i])
           /\ \A i \in 1 .. Len(m) : Joined(h, l, m)[Len(h) + Len(l) + i] = QRec(m[i])
  <1> DEFINE ql == QSeq(l)
             qm == QSeq(m)
             hl == h \o ql
  <1>1. /\ ql \in Seq(QFrame) /\ Len(ql) = Len(l)
        /\ \A i \in 1 .. Len(l) : ql[i] = QRec(l[i])
    <2>1. \A x \in LenRec : x.beats \in Nat /\ x.bad \in BOOLEAN
      BY DEF LenRec
    <2> QED BY <2>1, QSeqProperties
  <1>2. /\ qm \in Seq(QFrame) /\ Len(qm) = Len(m)
        /\ \A i \in 1 .. Len(m) : qm[i] = QRec(m[i])
    <2>1. \A x \in Frame : x.beats \in Nat /\ x.bad \in BOOLEAN
      BY DEF Frame
    <2> QED BY <2>1, QSeqProperties
  <1>3. Len(h) \in Nat /\ Len(l) \in Nat /\ Len(m) \in Nat
    BY LenProperties
  <1>5. Joined(h, l, m) = hl \o qm
    BY DEF Joined
  <1> HIDE DEF ql, qm
  <1>4. /\ hl \in Seq(QFrame) /\ Len(hl) = Len(h) + Len(l)
        /\ \A i \in 1 .. Len(h) + Len(l) : hl[i] = IF i <= Len(h) THEN h[i] ELSE ql[i - Len(h)]
    <2>1. /\ h \o ql \in Seq(QFrame) /\ Len(h \o ql) = Len(h) + Len(ql)
          /\ \A i \in 1 .. Len(h) + Len(ql) :
                (h \o ql)[i] = IF i <= Len(h) THEN h[i] ELSE ql[i - Len(h)]
      BY <1>1, ConcatProperties
    <2> QED BY <1>1, <2>1
  <1> HIDE DEF hl
  <1>6. /\ Joined(h, l, m) \in Seq(QFrame) /\ Len(Joined(h, l, m)) = Len(hl) + Len(m)
        /\ \A i \in 1 .. Len(hl) + Len(m) :
              Joined(h, l, m)[i] = IF i <= Len(hl) THEN hl[i] ELSE qm[i - Len(hl)]
    <2>0. hl \in Seq(QFrame) /\ qm \in Seq(QFrame)
      BY <1>2, <1>4
    <2>1. /\ hl \o qm \in Seq(QFrame) /\ Len(hl \o qm) = Len(hl) + Len(qm)
          /\ \A i \in 1 .. Len(hl) + Len(qm) :
                (hl \o qm)[i] = IF i <= Len(hl) THEN hl[i] ELSE qm[i - Len(hl)]
      BY <2>0, ConcatProperties
    <2> QED BY <1>2, <1>5, <2>1
  <1>7. \A i \in 1 .. Len(h) : Joined(h, l, m)[i] = h[i]
    BY <1>3, <1>4, <1>6
  <1>8. ASSUME NEW i \in 1 .. Len(l)
        PROVE  Joined(h, l, m)[Len(h) + i] = QRec(l[i])
    <2>1. /\ Len(h) + i \in 1 .. Len(hl) + Len(m) /\ Len(h) + i <= Len(hl)
          /\ Len(h) + i \in 1 .. Len(h) + Len(l) /\ ~(Len(h) + i <= Len(h))
          /\ (Len(h) + i) - Len(h) = i
      BY <1>3, <1>4
    <2>2. hl[Len(h) + i] = ql[i]
      BY <1>4, <2>1
    <2> QED BY <1>1, <1>6, <2>1, <2>2
  <1>9. ASSUME NEW i \in 1 .. Len(m)
        PROVE  Joined(h, l, m)[Len(h) + Len(l) + i] = QRec(m[i])
    <2>1. /\ Len(h) + Len(l) + i \in 1 .. Len(hl) + Len(m)
          /\ ~(Len(h) + Len(l) + i <= Len(hl))
          /\ (Len(h) + Len(l) + i) - Len(hl) = i
      BY <1>3, <1>4
    <2> QED BY <1>2, <1>6, <2>1
  <1> QED BY <1>3, <1>4, <1>6, <1>7, <1>8, <1>9

\* A frame that moves from the head of one part to the tail of the part before it
\* stays where it is in the abstract queue.
LEMMA HeadMoves ==
    ASSUME NEW h \in Seq(QFrame), NEW l \in Seq(LenRec), NEW m \in Seq(Frame),
           m # <<>>, NEW r \in LenRec, QRec(r) = QRec(Head(m))
    PROVE  Joined(h, Append(l, r), Tail(m)) = Joined(h, l, m)
  <1> DEFINE l2 == Append(l, r)
             m2 == Tail(m)
  <1>1. /\ l2 \in Seq(LenRec) /\ Len(l2) = Len(l) + 1 /\ l2[Len(l) + 1] = r
        /\ \A i \in 1 .. Len(l) : l2[i] = l[i]
    BY AppendProperties
  <1>2. /\ m2 \in Seq(Frame) /\ Len(m2) = Len(m) - 1 /\ Len(m) \in Nat \ {0}
        /\ Head(m) = m[1] /\ \A i \in 1 .. Len(m) - 1 : m2[i] = m[i + 1]
    BY HeadTailProperties, EmptySeq
  <1>3. Len(h) \in Nat /\ Len(l) \in Nat
    BY LenProperties
  <1> HIDE DEF l2, m2
  <1>4. /\ Joined(h, l, m) \in Seq(QFrame)
        /\ Len(Joined(h, l, m)) = Len(h) + Len(l) + Len(m)
        /\ \A i \in 1 .. Len(h) : Joined(h, l, m)[i] = h[i]
        /\ \A i \in 1 .. Len(l) : Joined(h, l, m)[Len(h) + i] = QRec(l[i])
        /\ \A i \in 1 .. Len(m) : Joined(h, l, m)[Len(h) + Len(l) + i] = QRec(m[i])
    BY JoinedProperties
  <1>5. /\ Joined(h, l2, m2) \in Seq(QFrame)
        /\ Len(Joined(h, l2, m2)) = Len(h) + Len(l2) + Len(m2)
        /\ \A i \in 1 .. Len(h) : Joined(h, l2, m2)[i] = h[i]
        /\ \A i \in 1 .. Len(l2) : Joined(h, l2, m2)[Len(h) + i] = QRec(l2[i])
        /\ \A i \in 1 .. Len(m2) : Joined(h, l2, m2)[Len(h) + Len(l2) + i] = QRec(m2[i])
    BY <1>1, <1>2, JoinedProperties
  <1>6. Len(Joined(h, l2, m2)) = Len(Joined(h, l, m))
    BY <1>1, <1>2, <1>3, <1>4, <1>5
  <1>7. ASSUME NEW i \in 1 .. Len(Joined(h, l2, m2))
        PROVE  Joined(h, l2, m2)[i] = Joined(h, l, m)[i]
    <2>1. CASE i <= Len(h)
      <3>1. i \in 1 .. Len(h)
        BY <1>3, <2>1
      <3> QED BY <1>4, <1>5, <3>1
    <2>2. CASE i > Len(h) /\ i <= Len(h) + Len(l)
      <3>1. PICK k \in 1 .. Len(l) : i = Len(h) + k
        <4>1. i - Len(h) \in 1 .. Len(l) /\ i = Len(h) + (i - Len(h))
          BY <1>3, <2>2
        <4> QED BY <4>1
      <3>2. k \in 1 .. Len(l2)
        BY <1>1, <1>3
      <3> QED BY <1>1, <1>4, <1>5, <3>1, <3>2
    <2>3. CASE i = Len(h) + Len(l) + 1
      <3>1. 1 \in 1 .. Len(m) /\ Len(l) + 1 \in 1 .. Len(l2) /\ i = Len(h) + (Len(l) + 1)
        BY <1>1, <1>2, <1>3, <2>3
      <3>2. Joined(h, l, m)[i] = QRec(m[1])
        BY <1>4, <2>3, <3>1
      <3>3. Joined(h, l2, m2)[i] = QRec(r)
        BY <1>1, <1>5, <3>1
      <3> QED BY <1>2, <3>2, <3>3
    <2>4. CASE i > Len(h) + Len(l) + 1
      <3>1. PICK k \in 1 .. Len(m2) : i = Len(h) + Len(l2) + k
        <4>1. i - (Len(h) + Len(l2)) \in 1 .. Len(m2)
              /\ i = Len(h) + Len(l2) + (i - (Len(h) + Len(l2)))
          BY <1>1, <1>2, <1>3, <1>5, <2>4
        <4> QED BY <4>1
      <3>2. k + 1 \in 1 .. Len(m) /\ i = Len(h) + Len(l) + (k + 1) /\ m2[k] = m[k + 1]
        BY <1>1, <1>2, <1>3, <3>1
      <3>3. Joined(h, l, m)[i] = QRec(m[k + 1])
        BY <1>4, <3>2
      <3>4. Joined(h, l2, m2)[i] = QRec(m2[k])
        BY <1>5, <3>1
      <3> QED BY <3>2, <3>3, <3>4
    <2> QED BY <1>3, <1>5, <2>1, <2>2, <2>3, <2>4
  <1>8. Joined(h, l2, m2) = Joined(h, l, m)
    BY <1>4, <1>5, <1>6, <1>7, SeqEqual
  <1> QED BY <1>8 DEF l2, m2

\* So does the frame the dispatcher takes in hand.
LEMMA HeadTaken ==
    ASSUME NEW l \in Seq(LenRec), NEW m \in Seq(Frame), l # <<>>
    PROVE  Joined(<<QRec(Head(l))>>, Tail(l), m) = Joined(<<>>, l, m)
  <1> DEFINE l2 == Tail(l)
             h2 == <<QRec(Head(l))>>
             h == <<>>
  <1>1. /\ l2 \in Seq(LenRec) /\ Len(l2) = Len(l) - 1 /\ Len(l) \in Nat \ {0}
        /\ Head(l) = l[1] /\ l[1] \in LenRec /\ \A i \in 1 .. Len(l) - 1 : l2[i] = l[i + 1]
    BY HeadTailProperties, EmptySeq
  <1>2. h2 \in Seq(QFrame) /\ Len(h2) = 1 /\ h2[1] = QRec(l[1])
    <2>1. QRec(l[1]) \in QFrame
      BY <1>1 DEF QRec, QFrame, LenRec
    <2> QED BY <1>1, <2>1
  <1>3. h \in Seq(QFrame) /\ Len(h) = 0 /\ Len(m) \in Nat
    BY EmptySeq, LenProperties
  <1> HIDE DEF l2, h2, h
  <1>4. /\ Joined(h, l, m) \in Seq(QFrame)
        /\ Len(Joined(h, l, m)) = Len(h) + Len(l) + Len(m)
        /\ \A i \in 1 .. Len(l) : Joined(h, l, m)[Len(h) + i] = QRec(l[i])
        /\ \A i \in 1 .. Len(m) : Joined(h, l, m)[Len(h) + Len(l) + i] = QRec(m[i])
    BY <1>3, JoinedProperties
  <1>5. /\ Joined(h2, l2, m) \in Seq(QFrame)
        /\ Len(Joined(h2, l2, m)) = Len(h2) + Len(l2) + Len(m)
        /\ \A i \in 1 .. Len(h2) : Joined(h2, l2, m)[i] = h2[i]
        /\ \A i \in 1 .. Len(l2) : Joined(h2, l2, m)[Len(h2) + i] = QRec(l2[i])
        /\ \A i \in 1 .. Len(m) : Joined(h2, l2, m)[Len(h2) + Len(l2) + i] = QRec(m[i])
    BY <1>1, <1>2, JoinedProperties
  <1>6. Len(Joined(h2, l2, m)) = Len(Joined(h, l, m))
    BY <1>1, <1>2, <1>3, <1>4, <1>5
  <1>7. ASSUME NEW i \in 1 .. Len(Joined(h2, l2, m))
        PROVE  Joined(h2, l2, m)[i] = Joined(h, l, m)[i]
    <2>1. CASE i = 1
      <3>1. 1 \in 1 .. Len(h2) /\ 1 \in 1 .. Len(l) /\ i = Len(h) + 1
        BY <1>1, <1>2, <1>3, <2>1
      <3>2. Joined(h, l, m)[i] = QRec(l[1])
        BY <1>4, <3>1
      <3> QED BY <1>2, <1>5, <2>1, <3>1, <3>2
    <2>2. CASE i > 1 /\ i <= Len(l)
      <3>1. PICK k \in 1 .. Len(l2) : i = Len(h2) + k
        <4>1. i - Len(h2) \in 1 .. Len(l2) /\ i = Len(h2) + (i - Len(h2))
          BY <1>1, <1>2, <2>2
        <4> QED BY <4>1
      <3>2. k + 1 \in 1 .. Len(l) /\ i = Len(h) + (k + 1) /\ l2[k] = l[k + 1]
        BY <1>1, <1>2, <1>3, <3>1
      <3> QED BY <1>4, <1>5, <3>1, <3>2
    <2>3. CASE i > Len(l)
      <3>1. PICK k \in 1 .. Len(m) : i = Len(h2) + Len(l2) + k
        <4>1. i - (Len(h2) + Len(l2)) \in 1 .. Len(m)
              /\ i = Len(h2) + Len(l2) + (i - (Len(h2) + Len(l2)))
          BY <1>1, <1>2, <1>3, <1>5, <2>3
        <4> QED BY <4>1
      <3>2. i = Len(h) + Len(l) + k
        BY <1>1, <1>2, <1>3, <3>1
      <3> QED BY <1>4, <1>5, <3>1, <3>2
    <2> QED BY <1>1, <1>2, <1>5, <2>1, <2>2, <2>3
  <1>8. Joined(h2, l2, m) = Joined(h, l, m)
    BY <1>4, <1>5, <1>6, <1>7, SeqEqual
  <1> QED BY <1>8 DEF l2, h2, h

\* Accepting a frame appends it to the abstract queue.
LEMMA TailAccepted ==
    ASSUME NEW h \in Seq(QFrame), NEW l \in Seq(LenRec), NEW m \in Seq(Frame), NEW f \in Frame
    PROVE  LET p == Joined(h, l, m)
               q == Joined(h, l, Append(m, f))
           IN /\ Len(q) = Len(p) + 1
              /\ SubSeq(q, 1, Len(p)) = p
              /\ q[Len(q)] = QRec(f)
  <1> DEFINE m2 == Append(m, f)
             p == Joined(h, l, m)
             q == Joined(h, l, m2)
  <1>1. /\ m2 \in Seq(Frame) /\ Len(m2) = Len(m) + 1 /\ m2[Len(m) + 1] = f
        /\ \A i \in 1 .. Len(m) : m2[i] = m[i]
    BY AppendProperties
  <1>2. Len(h) \in Nat /\ Len(l) \in Nat /\ Len(m) \in Nat
    BY LenProperties
  <1> HIDE DEF m2
  <1>3. /\ p \in Seq(QFrame)
        /\ Len(p) = Len(h) + Len(l) + Len(m)
        /\ \A i \in 1 .. Len(h) : p[i] = h[i]
        /\ \A i \in 1 .. Len(l) : p[Len(h) + i] = QRec(l[i])
        /\ \A i \in 1 .. Len(m) : p[Len(h) + Len(l) + i] = QRec(m[i])
    BY JoinedProperties
  <1>4. /\ q \in Seq(QFrame)
        /\ Len(q) = Len(h) + Len(l) + Len(m2)
        /\ \A i \in 1 .. Len(h) : q[i] = h[i]
        /\ \A i \in 1 .. Len(l) : q[Len(h) + i] = QRec(l[i])
        /\ \A i \in 1 .. Len(m2) : q[Len(h) + Len(l) + i] = QRec(m2[i])
    BY <1>1, JoinedProperties
  <1> HIDE DEF p, q
  <1>5. Len(q) = Len(p) + 1 /\ q[Len(q)] = QRec(f)
    <2>1. Len(m) + 1 \in 1 .. Len(m2) /\ Len(q) = Len(h) + Len(l) + (Len(m) + 1)
      BY <1>1, <1>2, <1>4
    <2> QED BY <1>1, <1>2, <1>3, <1>4, <2>1
  <1>6. ASSUME NEW i \in 1 .. Len(p)
        PROVE  q[i] = p[i]
    <2>1. CASE i <= Len(h)
      <3>1. i \in 1 .. Len(h)
        BY <1>2, <2>1
      <3> QED BY <1>3, <1>4, <3>1
    <2>2. CASE i > Len(h) /\ i <= Len(h) + Len(l)
      <3>1. PICK k \in 1 .. Len(l) : i = Len(h) + k
        <4>1. i - Len(h) \in 1 .. Len(l) /\ i = Len(h) + (i - Len(h))
          BY <1>2, <2>2
        <4> QED BY <4>1
      <3> QED BY <1>3, <1>4, <3>1
    <2>3. CASE i > Len(h) + Len(l)
      <3>1. PICK k \in 1 .. Len(m) : i = Len(h) + Len(l) + k
        <4>1. i - (Len(h) + Len(l)) \in 1 .. Len(m)
              /\ i = Len(h) + Len(l) + (i - (Len(h) + Len(l)))
          BY <1>2, <1>3, <2>3
        <4> QED BY <4>1
      <3>2. k \in 1 .. Len(m2) /\ m2[k] = m[k]
        BY <1>1, <1>2
      <3> QED BY <1>3, <1>4, <3>1, <3>2
    <2> QED BY <1>2, <1>3, <2>1, <2>2, <2>3
  <1>7. SubSeq(q, 1, Len(p)) = p
    <2>1. Len(p) \in Nat /\ \A i \in 1 .. Len(p) : q[i] \in QFrame
      BY <1>3, <1>6, ElementOfSeq, LenProperties
    <2>2. /\ SubSeq(q, 1, Len(p)) \in Seq(QFrame)
          /\ Len(SubSeq(q, 1, Len(p))) = IF 1 <= Len(p) THEN Len(p) - 1 + 1 ELSE 0
          /\ \A i \in 1 .. Len(p) - 1 + 1 : SubSeq(q, 1, Len(p))[i] = q[1 + i - 1]
      BY <2>1, SubSeqProperties
    <2>3. Len(SubSeq(q, 1, Len(p))) = Len(p)
      BY <2>1, <2>2
    <2>4. \A i \in 1 .. Len(p) : SubSeq(q, 1, Len(p))[i] = p[i]
      <3> TAKE i \in 1 .. Len(p)
      <3>1. i \in 1 .. Len(p) - 1 + 1 /\ 1 + i - 1 = i
        BY <2>1
      <3> QED BY <1>6, <2>2, <3>1
    <2> QED BY <1>3, <2>2, <2>3, <2>4, SeqEqual
  <1> QED BY <1>5, <1>7 DEF p, q, m2

\* Dropping the accepted frames keeps those in hand and counted, as a prefix.
LEMMA AcceptedDropped ==
    ASSUME NEW h \in Seq(QFrame), NEW l \in Seq(LenRec), NEW m \in Seq(Frame)
    PROVE  Joined(h, l, <<>>) = SubSeq(Joined(h, l, m), 1, Len(h) + Len(l))
  <1> DEFINE p == Joined(h, l, m)
             q == Joined(h, l, <<>>)
             n == Len(h) + Len(l)
             s == SubSeq(p, 1, n)
  <1>1. Len(h) \in Nat /\ Len(l) \in Nat /\ Len(m) \in Nat /\ n \in Nat
    BY LenProperties
  <1>2. <<>> \in Seq(Frame) /\ Len(<<>>) = 0
    BY EmptySeq
  <1>3. /\ p \in Seq(QFrame)
        /\ Len(p) = Len(h) + Len(l) + Len(m)
        /\ \A i \in 1 .. Len(h) : p[i] = h[i]
        /\ \A i \in 1 .. Len(l) : p[Len(h) + i] = QRec(l[i])
    BY JoinedProperties
  <1>4. /\ q \in Seq(QFrame)
        /\ Len(q) = Len(h) + Len(l) + Len(<<>>)
        /\ \A i \in 1 .. Len(h) : q[i] = h[i]
        /\ \A i \in 1 .. Len(l) : q[Len(h) + i] = QRec(l[i])
    BY <1>2, JoinedProperties
  <1> HIDE DEF p, q
  <1>5. Len(q) = n
    BY <1>1, <1>2, <1>4
  <1>6. ASSUME NEW i \in 1 .. n
        PROVE  q[i] = p[i]
    <2>1. CASE i <= Len(h)
      <3>1. i \in 1 .. Len(h)
        BY <1>1, <2>1
      <3> QED BY <1>3, <1>4, <3>1
    <2>2. CASE i > Len(h)
      <3>1. PICK k \in 1 .. Len(l) : i = Len(h) + k
        <4>1. i - Len(h) \in 1 .. Len(l) /\ i = Len(h) + (i - Len(h))
          BY <1>1, <2>2
        <4> QED BY <4>1
      <3> QED BY <1>3, <1>4, <3>1
    <2> QED BY <1>1, <2>1, <2>2
  <1>7. \A i \in 1 .. n : p[i] \in QFrame
    BY <1>1, <1>3, ElementOfSeq
  <1> HIDE DEF n
  <1>8. /\ s \in Seq(QFrame)
        /\ Len(s) = IF 1 <= n THEN n - 1 + 1 ELSE 0
        /\ \A i \in 1 .. n - 1 + 1 : s[i] = p[1 + i - 1]
    BY <1>1, <1>7, SubSeqProperties
  <1> HIDE DEF s
  <1>9. Len(s) = n
    BY <1>1, <1>8
  <1>10. \A i \in 1 .. n : q[i] = s[i]
    <2> TAKE i \in 1 .. n
    <2>1. i \in 1 .. n - 1 + 1 /\ 1 + i - 1 = i
      BY <1>1
    <2> QED BY <1>6, <1>8, <2>1
  <1>11. q = s
    BY <1>4, <1>5, <1>8, <1>9, <1>10, SeqEqual
  <1> QED BY <1>11 DEF p, q, s, n

\* One frame behind what is in hand and counted is that prefix with one more frame.
LEMMA AcceptedCut ==
    ASSUME NEW h \in Seq(QFrame), NEW l \in Seq(LenRec), NEW f \in Frame
    PROVE  Joined(h, l, <<f>>) = Append(Joined(h, l, <<>>), QRec(f))
  <1>1. DOMAIN <<f>> = 1 .. 1 /\ <<f>>[1] = f /\ DOMAIN <<>> = {}
    OBVIOUS
  <1>2. QSeq(<<f>>) = <<QRec(f)>>
    BY <1>1 DEF QSeq
  <1>3. QSeq(<<>>) = <<>>
    BY <1>1 DEF QSeq
  <1>4. h \o QSeq(l) \in Seq(QFrame)
    <2>1. \A x \in LenRec : x.beats \in Nat /\ x.bad \in BOOLEAN
      BY DEF LenRec
    <2>2. QSeq(l) \in Seq(QFrame)
      BY <2>1, QSeqProperties
    <2> QED BY <2>2, ConcatProperties
  <1>5. QRec(f) \in QFrame
    BY DEF QRec, QFrame, Frame
  <1> DEFINE hl == h \o QSeq(l)
  <1>6. Joined(h, l, <<f>>) = hl \o <<QRec(f)>> /\ Joined(h, l, <<>>) = hl \o <<>>
    BY <1>2, <1>3 DEF Joined
  <1> HIDE DEF hl
  <1>7. hl \o <<>> = hl /\ Append(hl, QRec(f)) = hl \o <<QRec(f)>>
    BY <1>4, <1>5, ConcatEmptySeq, AppendIsConcat DEF hl
  <1> QED BY <1>6, <1>7

\* The abstract steps, on the abstract queue.
Accepts == /\ Len(Owed') = Len(Owed) + 1
           /\ SubSeq(Owed', 1, Len(Owed)) = Owed
           /\ ~Owed'[Len(Owed')].bad
           /\ UNCHANGED out
Delivers == /\ Owed # <<>>
            /\ out' = [n |-> out.n + 1, beats |-> Head(Owed).beats, bad |-> Head(Owed).bad]
            /\ Owed' = Tail(Owed)
Loses == /\ UNCHANGED out
         /\ \E k \in 0 .. Len(Owed) :
               \/ Owed' = SubSeq(Owed, 1, k)
               \/ /\ k < Len(Owed)
                  /\ \E b \in 1 .. Owed[k + 1].beats :
                        Owed' = Append(SubSeq(Owed, 1, k), [beats |-> b, bad |-> TRUE])

\* They are RxFrameQueue's, under the mapping of RxPath's instance of it.
LEMMA AbstractSteps ==
    /\ Accepts => Queue!Accept
    /\ Delivers => Queue!Deliver
    /\ Loses => Queue!Reset
  <1>1. Accepts => Queue!Accept
    BY Zenon DEF Accepts, Queue!Accept, Owed, Joined, Hand, QSeq, QRec
  <1>2. Delivers => Queue!Deliver
    BY Zenon DEF Delivers, Queue!Deliver, Owed, Joined, Hand, QSeq, QRec
  <1>3. Loses => Queue!Reset
    BY Zenon DEF Loses, Queue!Reset, Owed, Joined, Hand, QSeq, QRec
  <1> QED BY <1>1, <1>2, <1>3

\* The three parts have their types.
LEMMA PartTypes ==
    TypeOK => Hand \in Seq(QFrame) /\ lenq \in Seq(LenRec) /\ macq \in Seq(Frame)
  <1> SUFFICES ASSUME TypeOK
               PROVE  Hand \in Seq(QFrame) /\ lenq \in Seq(LenRec) /\ macq \in Seq(Frame)
    OBVIOUS
  <1>1. lenq \in Seq(LenRec) /\ macq \in Seq(Frame) /\ DispTypeOK
    BY DEF TypeOK, PktTypeOK, MacTypeOK
  <1>2. QRec(disp) \in QFrame
    BY <1>1 DEF DispTypeOK, QRec, QFrame
  <1>3. <<QRec(disp)>> \in Seq(QFrame) /\ <<>> \in Seq(QFrame)
    BY <1>2
  <1> QED BY <1>1, <1>3 DEF Hand

\* A step that leaves the three parts alone leaves the abstract queue alone.
LEMMA OwedSame ==
    ASSUME Hand' = Hand, lenq' = lenq, macq' = macq
    PROVE  Owed' = Owed
  BY DEF Owed, Joined, QSeq

\* The MAC side accepts whole frames; a reset keeps what is in hand and counted.
LEMMA MacRefines ==
    ASSUME WInv, MacBeat \/ MacCommit \/ MacReject \/ MacReset
    PROVE  Accepts \/ Loses \/ (Owed' = Owed /\ out' = out)
  <1>1. UNCHANGED <<rdBeats, disp, out, lenq>>
    BY MacStep DEF WInv, IInv, pktVars
  <1>2. Hand' = Hand
    BY <1>1 DEF Hand
  <1>3. Hand \in Seq(QFrame) /\ lenq \in Seq(LenRec) /\ macq \in Seq(Frame)
    BY PartTypes DEF WInv, IInv
  <1>4. macIn \in Nat /\ rdBeats \in Nat
    BY DEF WInv, IInv, TypeOK, MacTypeOK
  <1>5. CASE MacBeat \/ MacReject
    <2>1. macq' = macq
      BY <1>5 DEF MacBeat, MacReject
    <2> QED BY <1>1, <1>2, <2>1, OwedSame
  <1>6. CASE MacCommit
    <2> DEFINE f == [beats |-> macIn + 1, bad |-> FALSE, cut |-> FALSE]
    <2>1. f \in Frame /\ QRec(f).bad = FALSE
      BY <1>4 DEF Frame, QRec
    <2>2. macq' = Append(macq, f)
      BY <1>6 DEF MacCommit
    <2> HIDE DEF f
    <2>3. Owed' = Joined(Hand, lenq, Append(macq, f))
      BY <1>1, <1>2, <2>2 DEF Owed, Joined, QSeq
    <2>4. /\ Len(Owed') = Len(Owed) + 1
          /\ SubSeq(Owed', 1, Len(Owed)) = Owed
          /\ Owed'[Len(Owed')] = QRec(f)
      BY <1>3, <2>1, <2>3, TailAccepted DEF Owed
    <2> QED BY <1>1, <2>1, <2>4 DEF Accepts
  <1>7. CASE MacReset
    <2> DEFINE n == Len(Hand) + Len(lenq)
               cutq == Joined(Hand, lenq, <<>>)
    <2>1. Len(Hand) \in Nat /\ Len(lenq) \in Nat /\ Len(macq) \in Nat
      BY <1>3, LenProperties
    <2>2. cutq = SubSeq(Owed, 1, n)
      BY <1>3, AcceptedDropped DEF Owed
    <2>3. /\ Len(Owed) = n + Len(macq)
          /\ \A i \in 1 .. Len(macq) : Owed[n + i] = QRec(macq[i])
      BY <1>3, JoinedProperties DEF Owed
    <2>4. n \in 0 .. Len(Owed)
      BY <2>1, <2>3
    <2>5. CASE rdBeats > 0
      <3> DEFINE f == [beats |-> rdBeats + 1, bad |-> TRUE, cut |-> TRUE]
      <3>1. f \in Frame /\ QRec(f) = [beats |-> rdBeats + 1, bad |-> TRUE]
        BY <1>4 DEF Frame, QRec
      <3>2. macq' = <<f>>
        BY <1>7, <2>5 DEF MacReset
      <3> HIDE DEF f
      <3>3. Owed' = Joined(Hand, lenq, <<f>>)
        BY <1>1, <1>2, <3>2 DEF Owed, Joined, QSeq
      <3>4. Owed' = Append(cutq, [beats |-> rdBeats + 1, bad |-> TRUE])
        BY <1>3, <3>1, <3>3, AcceptedCut
      <3>5. macq # <<>> /\ rdBeats < macq[1].beats
        BY <2>5 DEF WInv, MacWhole
      <3>6. 1 \in 1 .. Len(macq) /\ n < Len(Owed)
        BY <1>3, <2>1, <2>3, <3>5, EmptySeq
      <3>7. Owed[n + 1].beats = macq[1].beats /\ macq[1].beats \in Nat
        <4>1. macq[1] \in Frame
          BY <1>3, <3>6, ElementOfSeq
        <4>2. Owed[n + 1] = QRec(macq[1])
          BY <2>3, <3>6
        <4> HIDE DEF n
        <4> QED BY <4>1, <4>2 DEF QRec, Frame
      <3>8. rdBeats + 1 \in 1 .. Owed[n + 1].beats
        BY <1>4, <3>5, <3>7
      <3> HIDE DEF n, cutq
      <3> QED BY <1>1, <2>2, <2>4, <3>4, <3>6, <3>8 DEF Loses
    <2>6. CASE ~(rdBeats > 0)
      <3>1. macq' = <<>>
        BY <1>7, <2>6 DEF MacReset
      <3>2. Owed' = cutq
        BY <1>1, <1>2, <3>1 DEF Owed, Joined, QSeq
      <3> HIDE DEF n, cutq
      <3> QED BY <1>1, <2>2, <2>4, <3>2 DEF Loses
    <2> QED BY <2>5, <2>6
  <1> QED BY <1>5, <1>6, <1>7

\* A beat crosses the broadcast: only its frame's last one moves the frame, from
\* the accepted frames to the counted ones.
LEMMA BroadcastRefines ==
    ASSUME WInv, WInv', BroadcastBeat
    PROVE  Owed' = Owed /\ out' = out
  <1>1. disp' = disp /\ out' = out /\ macq # <<>>
    BY DEF BroadcastBeat
  <1>2. Hand' = Hand
    BY <1>1 DEF Hand
  <1>3. Hand \in Seq(QFrame) /\ lenq \in Seq(LenRec) /\ macq \in Seq(Frame)
    BY PartTypes DEF WInv, IInv
  <1>4. CASE Last
    <2> DEFINE r == [id |-> FrameId, beats |-> rdBeats + 1, bad |-> Head(macq).bad]
    <2>1. macq' = Tail(macq) /\ PushLen(r)
      BY <1>4 DEF BroadcastBeat
    <2>2. r \in LenRec
      <3>1. Head(macq) \in Frame
        BY <1>1, <1>3, HeadTailProperties
      <3>2. FrameId \in Nat /\ rdBeats + 1 \in Nat
        BY DEF WInv, IInv, TypeOK, PktTypeOK, MacTypeOK, FrameId
      <3> QED BY <3>1, <3>2 DEF LenRec, Frame
    <2>3. QRec(r) = QRec(Head(macq))
      BY <1>4 DEF QRec, Last
    <2> HIDE DEF r
    <2>4. lenq' = Append(lenq, r)
      BY <2>1 DEF PushLen, WInv, IInv, NoMetaErr
    <2>5. Owed' = Joined(Hand, Append(lenq, r), Tail(macq))
      BY <1>2, <2>1, <2>4 DEF Owed, Joined, QSeq
    <2>6. Owed' = Owed
      BY <1>1, <1>3, <2>2, <2>3, <2>5, HeadMoves DEF Owed
    <2> QED BY <1>1, <2>6
  <1>5. CASE ~Last
    <2>1. macq' = macq /\ lenq' = lenq
      BY <1>5 DEF BroadcastBeat
    <2> QED BY <1>1, <1>2, <2>1, OwedSame
  <1> QED BY <1>4, <1>5

\* The dispatcher takes the first counted frame in hand.
LEMMA CommitRefines ==
    ASSUME WInv, DispatchCommit
    PROVE  Owed' = Owed /\ out' = out
  <1>1. /\ disp.state = "IDLE" /\ lenq # <<>> /\ lenq' = Tail(lenq)
        /\ macq' = macq /\ out' = out
        /\ disp'.state = "FWD" /\ disp'.beats = Head(lenq).beats /\ disp'.bad = Head(lenq).bad
    BY DEF DispatchCommit, HeadsValid
  <1>2. Hand = <<>> /\ Hand' = <<QRec(Head(lenq))>>
    BY <1>1 DEF Hand, QRec
  <1>3. lenq \in Seq(LenRec) /\ macq \in Seq(Frame)
    BY PartTypes DEF WInv, IInv
  <1>4. Owed' = Joined(<<QRec(Head(lenq))>>, Tail(lenq), macq)
    BY <1>1, <1>2 DEF Owed, Joined, QSeq
  <1>5. Owed = Joined(<<>>, lenq, macq)
    BY <1>2 DEF Owed
  <1> QED BY <1>1, <1>3, <1>4, <1>5, HeadTaken

\* The frame in hand leaves with its last beat, with the length and the mark of
\* its record.
LEMMA BeatRefines ==
    ASSUME WInv, DispatchBeat
    PROVE  Delivers \/ (Owed' = Owed /\ out' = out)
  <1>1. disp.state = "FWD" /\ PktValid /\ UNCHANGED <<lenq, macq>>
    BY DEF DispatchBeat
  <1>2. lenq \in Seq(LenRec) /\ macq \in Seq(Frame) /\ pktq \in Seq(Beat) /\ DispTypeOK
    BY PartTypes DEF WInv, IInv, TypeOK, PktTypeOK
  <1>3. CASE Head(pktq).last
    <2>1. disp' = Idle /\ out' = [n |-> out.n + 1, beats |-> disp.got + 1, bad |-> disp.bad]
      BY <1>3 DEF DispatchBeat
    <2>2. disp.beats = disp.got + 1
      <3> DEFINE n == disp.beats - disp.got
      <3>1. pktq # <<>> /\ FrameFirst(pktq, disp.pkt, n, disp.bad)
        BY <1>1, HandFirst
      <3> HIDE DEF n
      <3>2. n \in 1 .. Len(pktq) /\ (pktq[1].last <=> 1 = n)
        BY <3>1 DEF FrameFirst
      <3>3. n = 1
        BY <1>3, <3>1, <3>2
      <3> QED BY <1>2, <3>3 DEF n, DispTypeOK
    <2>3. Hand = <<QRec(disp)>> /\ Hand' = <<>>
      BY <1>1, <2>1 DEF Hand, Idle
    <2> DEFINE f == QRec(disp)
               rest == QSeq(lenq) \o QSeq(macq)
    <2>4. f \in QFrame /\ f.beats = disp.got + 1 /\ f.bad = disp.bad
      BY <1>2, <2>2 DEF QRec, QFrame, DispTypeOK
    <2>5. QSeq(lenq) \in Seq(QFrame) /\ QSeq(macq) \in Seq(QFrame)
      <3>1. \A x \in LenRec : x.beats \in Nat /\ x.bad \in BOOLEAN
        BY DEF LenRec
      <3>2. \A x \in Frame : x.beats \in Nat /\ x.bad \in BOOLEAN
        BY DEF Frame
      <3>3. QSeq(lenq) \in Seq(QFrame)
        BY <1>2, <3>1, QSeqProperties
      <3>4. QSeq(macq) \in Seq(QFrame)
        BY <1>2, <3>2, QSeqProperties
      <3> QED BY <3>3, <3>4
    <2>6. rest \in Seq(QFrame)
      BY <2>5, ConcatProperties
    <2>7. Owed = <<f>> \o rest
      <3>1. Owed = <<f>> \o QSeq(lenq) \o QSeq(macq)
        BY <2>3 DEF Owed, Joined
      <3>2. <<f>> \in Seq(QFrame)
        BY <2>4
      <3> QED BY <2>5, <3>1, <3>2, ConcatAssociative
    <2>8. Owed' = rest
      <3>1. Owed' = <<>> \o QSeq(lenq) \o QSeq(macq)
        BY <1>1, <2>3 DEF Owed, Joined, QSeq
      <3> QED BY <2>5, <3>1, ConcatEmptySeq
    <2> HIDE DEF f, rest
    <2>9. Owed # <<>> /\ Head(Owed) = f /\ Tail(Owed) = rest
      <3>1. <<f>> \in Seq(QFrame) /\ Len(<<f>>) = 1 /\ <<f>>[1] = f
        BY <2>4
      <3>2. Len(rest) \in Nat
        BY <2>6, LenProperties
      <3>3. /\ Owed \in Seq(QFrame) /\ Len(Owed) = Len(<<f>>) + Len(rest)
            /\ \A i \in 1 .. Len(<<f>>) + Len(rest) :
                  Owed[i] = IF i <= Len(<<f>>) THEN <<f>>[i] ELSE rest[i - Len(<<f>>)]
        BY <2>6, <2>7, <3>1, ConcatProperties
      <3>4. Owed # <<>> /\ Owed[1] = f
        BY <3>1, <3>2, <3>3, EmptySeq
      <3>5. /\ Tail(Owed) \in Seq(QFrame) /\ Len(Tail(Owed)) = Len(Owed) - 1
            /\ \A i \in 1 .. Len(Tail(Owed)) : Tail(Owed)[i] = Owed[i + 1]
        BY <3>3, <3>4, HeadTailProperties
      <3>6. Len(Tail(Owed)) = Len(rest)
        BY <3>1, <3>2, <3>3, <3>5
      <3>7. \A i \in 1 .. Len(Tail(Owed)) : Tail(Owed)[i] = rest[i]
        <4> TAKE i \in 1 .. Len(Tail(Owed))
        <4>1. /\ i + 1 \in 1 .. Len(<<f>>) + Len(rest) /\ ~(i + 1 <= Len(<<f>>))
              /\ (i + 1) - Len(<<f>>) = i
          BY <3>1, <3>2, <3>6
        <4>2. Owed[i + 1] = rest[i]
          BY <3>3, <4>1
        <4> QED BY <3>5, <4>2
      <3>8. Tail(Owed) = rest
        BY <2>6, <3>5, <3>6, <3>7, SeqEqual
      <3> QED BY <3>3, <3>4, <3>8
    <2> QED BY <2>1, <2>4, <2>8, <2>9 DEF Delivers
  <1>4. CASE ~Head(pktq).last
    <2>1. disp' = [disp EXCEPT !.got = @ + 1] /\ out' = out
      BY <1>4 DEF DispatchBeat
    <2>2. disp'.state = disp.state /\ disp'.beats = disp.beats /\ disp'.bad = disp.bad
      BY <1>2, <2>1 DEF DispTypeOK
    <2>3. Hand' = Hand
      BY <2>2 DEF Hand, QRec
    <2> QED BY <1>1, <2>1, <2>3, OwedSame
  <1> QED BY <1>3, <1>4

\* Every step is a step of the abstract queue or leaves it alone.
LEMMA StepRefines ==
    ASSUME WInv, WInv', [Next]_vars
    PROVE  Accepts \/ Delivers \/ Loses \/ (Owed' = Owed /\ out' = out)
  <1>1. CASE MacBeat \/ MacCommit \/ MacReject \/ MacReset
    BY <1>1, MacRefines
  <1>2. CASE BroadcastBeat
    BY <1>2, BroadcastRefines
  <1>3. CASE ParseStart \/ ParseDone \/ UNCHANGED vars
    <2>1. UNCHANGED <<disp, lenq, macq, out>>
      BY <1>3 DEF ParseStart, ParseDone, pktVars, vars
    <2>2. Hand' = Hand
      BY <2>1 DEF Hand
    <2> QED BY <2>1, <2>2, OwedSame
  <1>4. CASE DispatchCommit
    BY <1>4, CommitRefines
  <1>5. CASE DispatchBeat
    BY <1>5, BeatRefines
  <1> QED BY <1>1, <1>2, <1>3, <1>4, <1>5 DEF Next

\* The two branches, their three FIFOs and the dispatcher implement one queue of
\* whole frames: what the MAC-side FIFO accepted comes out in order, once, with the
\* length it came with, and a reset of the MAC side only takes the youngest frames,
\* leaving at most one cut frame behind that is marked bad.
THEOREM ImplementsFrameQueue == Spec => ImplementsQueue
  <1>1. Init => Queue!Init
    <2> SUFFICES ASSUME Init PROVE Queue!Init
      OBVIOUS
    <2>1. /\ Hand = <<>> /\ lenq = <<>> /\ macq = <<>>
          /\ out = [n |-> 0, beats |-> 0, bad |-> FALSE]
      BY DEF Init, Hand, Idle
    <2>2. Owed = <<>>
      BY <2>1 DEF Owed, Joined, QSeq
    <2> QED BY Zenon, <2>1, <2>2 DEF Queue!Init, Owed, Joined, Hand, QSeq, QRec
  <1>2. WInv /\ WInv' /\ [Next]_vars => [Queue!Next]_<<Owed, out>>
    <2> SUFFICES ASSUME WInv, WInv', [Next]_vars PROVE [Queue!Next]_<<Owed, out>>
      OBVIOUS
    <2>1. Accepts \/ Delivers \/ Loses => Queue!Next
      BY Zenon, AbstractSteps DEF Queue!Next
    <2> QED BY Zenon, <2>1, StepRefines
  <1> QED BY <1>1, <1>2, WholeInductive, PTL
       DEF Spec, ImplementsQueue, Queue!Spec, Owed, Joined, Hand, QSeq, QRec
=============================================================================
