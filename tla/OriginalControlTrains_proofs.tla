-------------------- MODULE OriginalControlTrains_proofs --------------------
(***************************************************************************)
(* The packet trains of the original programs: the arrivals from which     *)
(* get_adr takes the dispersion are those of the train it calls good,      *)
(* though the receiver's socket may hold packets of earlier receivers,     *)
(* random data of recvfrom_latency and packets of other trains. What makes *)
(* it so is the exchange of words (OriginalControlWords_proofs): no packet *)
(* of a stream is sent to a receiver before its trains are over.           *)
(***************************************************************************)
EXTENDS OriginalControlWords_proofs

-----------------------------------------------------------------------------
(* The inductive invariant.                                                *)

Early == {"size", "latency", "train"}

\* The data recvfrom_latency left behind in place of older packets.
RandomLeft == \E p \in udp : p[1] = session /\ p[2] = 0

\* No stream is sent to a receiver before its trains are over.
StreamsLater == r_pc \in Early => \A p \in udp : p[1] = session => p[2] # 2

\* The first receiver finds nothing to leave random data for.
FirstSession ==
    /\ session = 1 => \A p \in udp : p[2] # 0
    /\ session = 0 \/ (session = 1 /\ r_pc = "size") => udp = {}

\* On a path that keeps the order packets of earlier receivers are followed by random
\* data, which spoils the train that reads it.
OldRead ==
    setup.in_order /\ r_pc \in {"latency", "train"} =>
        \/ \A p \in udp : p[1] = session
        \/ RandomLeft
        \/ r_pc = "train" /\ bad_train

\* A train that is not spoilt has come packet by packet, and the last packet read is
\* its last.
TrainSoFar ==
    r_pc = "train" /\ ~bad_train =>
        /\ pack_id = rcvd - 1
        /\ OwnPackets /\ ~RandomLeft =>
             \A k \in 0..rcvd-1 : arrv_tv[k] = TrainPacket(session, exp_train_id, k)

TrainInv == StreamsLater /\ FirstSession /\ OldRead /\ TrainSoFar /\ AdrOfOneTrain

-----------------------------------------------------------------------------
(* The steps, by what they do to the packets of trains.                    *)

Late == {"params", "recv_fleet", "stream"}

\* What a step may do to the packets under way and the receiver's trains.
LEMMA TrainSteps ==
    ASSUME [Next]_vars
    PROVE  \/ SendTrain \/ SendStream
           \/ UNCHANGED <<setup, session, r_pc, udp, trainVars>>
           \/ r_pc' = "exited" /\ udp' = {} /\ UNCHANGED session
           \/ /\ r_pc \in Late /\ r_pc' \in Late /\ udp' \subseteq udp
              /\ UNCHANGED <<setup, session, trainVars>>
           \/ ReceiverStart \/ ReceiverGetSize \/ ReceiverGetLatency
           \/ ReadTrainPacket \/ EndOfTrain
<1> USE DEF notSender, notReceiver, rcvVars
<1>1. CASE SenderNext
    BY <1>1 DEF SenderNext, Accept, GetSize, GetAdrRequest, GetVerdict,
                GetRate, GetParam, GetOrder, GetAnswer
<1>2. CASE SizeAlarm \/ ReceiverDies \/ EndSearch \/ TrainPacketInFleet \/ Alarm \/ Crash
    BY <1>2 DEF SizeAlarm, ReceiverDies, EndSearch, TrainPacketInFleet, Alarm, Crash,
                ReceiverExits
<1>3. CASE AskForFleet
    BY <1>3 DEF AskForFleet, Late
<1>4. CASE AwaitRecvFleet
    BY <1>4 DEF AwaitRecvFleet, ExpectStream, Late
<1>5. CASE ReadStreamPacket
    BY <1>5 DEF ReadStreamPacket, Late
<1>6. CASE EndOfStream
    BY <1>6 DEF EndOfStream, ExpectStream, fleetVars, Late
<1>7. CASE UNCHANGED vars
    BY <1>7 DEF vars
<1> QED
    BY <1>1, <1>2, <1>3, <1>4, <1>5, <1>6, <1>7 DEF Next, ReceiverNext

\* The packets the sender sends, and to whom.
LEMMA SentPackets ==
    ASSUME DataInv, WordInv, SendTrain \/ SendStream
    PROVE  /\ UNCHANGED <<setup, session, r_pc, trainVars>>
           /\ udp \subseteq udp'
           /\ \A p \in udp' : p \in udp \/ (p[1] = Served /\ p[2] \in {1, 2})
           /\ SendTrain => \A p \in udp' : p \in udp \/ p[2] = 1
           /\ session \in Nat /\ Served \in Nat \ {0}
           /\ Served = session \/ (Served = session - 1 /\ backlog # "none")
           /\ r_pc = "size" => Served # session
           /\ SendStream /\ r_pc \in Early => Served # session
<1> USE DEF notSender, rcvVars
<1>1. UNCHANGED <<setup, session, r_pc, trainVars>> /\ s_pc \in {"train", "stream"}
    BY DEF SendTrain, SendStream
<1>2. udp \subseteq udp'
    BY DEF SendTrain, SendStream, Probe
<1>3. /\ \A p \in udp' : p \in udp \/ (p[1] = Served /\ p[2] \in {1, 2})
      /\ SendTrain => \A p \in udp' : p \in udp \/ p[2] = 1
  <2>1. CASE SendTrain
    <3>1. Probe({TrainPacket(Served, train_id, k) : k \in 0..TrainLen(train_id)})
        BY <2>1 DEF SendTrain
    <3>2. \A p \in udp' : p \in udp \/ (p[1] = Served /\ p[2] = 1)
        BY <3>1, ProbeEffect DEF TrainPacket
    <3> QED
        BY <3>2
  <2>2. CASE SendStream
    <3>1. \A p \in udp' : p \in udp \/ (p[1] = Served /\ p[2] = 2)
      <4>1. CASE UNCHANGED udp
          BY <4>1
      <4>2. CASE Probe({StreamPacket(Served, fleet_id, s_stream_cnt, k) : k \in 0..StreamLen-1})
          BY <4>2, ProbeEffect DEF StreamPacket
      <4> QED
          BY <2>2, <4>1, <4>2 DEF SendStream
    <3>2. SendTrain => FALSE
        BY <2>2 DEF SendTrain, SendStream
    <3> QED
        BY <3>1, <3>2
  <2> QED
      BY <2>1, <2>2
<1>4. session \in Nat /\ Served \in Nat \ {0}
      /\ (Served = session \/ (Served = session - 1 /\ backlog # "none"))
  <2>1. session \in Nat /\ Served >= 1
      BY <1>1, ConstantFacts DEF DataInv, SessionOK
  <2> QED
      BY <2>1 DEF Served
<1>5. ASSUME Served = session, r_pc \in Early
      PROVE  Trains \/ TrainTooMany
  <2>1. backlog = "none"
      BY <1>4, <1>5 DEF Served
  <2>2. link = "open"
      BY <1>1, <1>5, <2>1
         DEF WordInv, LinkInv, Gone, Early, DataInv, ChannelsOK
  <2> QED
      BY <1>1, <1>5, <2>2
         DEF WordInv, Dialogue, Phases, Handshake, FleetRequest, StreamUnderWay,
             StreamJudged, Early
<1>6. r_pc = "size" => Served # session
    BY <1>5 DEF Trains, TrainTooMany, Asks, Early
<1>7. SendStream /\ r_pc \in Early => Served # session
    BY <1>5 DEF Trains, TrainTooMany, SendStream
<1> QED
    BY <1>1, <1>2, <1>3, <1>4, <1>6, <1>7

-----------------------------------------------------------------------------
(* Each part of the invariant is kept.                                     *)

\* The sender's packets: those of a train do no harm, and those of a stream go to a
\* receiver that has its trains behind it.
LEMMA SentKeeps ==
    ASSUME DataInv, WordInv, TrainInv, SendTrain \/ SendStream
    PROVE  TrainInv'
<1>1. /\ UNCHANGED <<setup, session, r_pc, trainVars>>
      /\ udp \subseteq udp'
      /\ \A p \in udp' : p \in udp \/ (p[1] = Served /\ p[2] \in {1, 2})
      /\ SendTrain => \A p \in udp' : p \in udp \/ p[2] = 1
      /\ session \in Nat /\ Served \in Nat \ {0}
      /\ Served = session \/ (Served = session - 1 /\ backlog # "none")
      /\ r_pc = "size" => Served # session
      /\ SendStream /\ r_pc \in Early => Served # session
    BY SentPackets
<1>2. RandomLeft' <=> RandomLeft
    BY <1>1 DEF RandomLeft
<1>3. StreamsLater'
  <2>1. CASE SendTrain
      BY <1>1, <2>1 DEF TrainInv, StreamsLater
  <2>2. CASE SendStream
      BY <1>1, <2>2 DEF TrainInv, StreamsLater
  <2> QED
      BY <2>1, <2>2
<1>4. FirstSession'
  <2>1. session = 1 => \A p \in udp' : p[2] # 0
      BY <1>1 DEF TrainInv, FirstSession
  <2>2. session # 0 /\ ~(session = 1 /\ r_pc = "size")
      BY <1>1
  <2> QED
      BY <1>1, <2>1, <2>2 DEF FirstSession
<1>5. OldRead'
  <2>1. r_pc \in {"latency", "train"} => Served = session
      BY <1>1 DEF DataInv, SessionOK, ChannelsOK
  <2> QED
      BY <1>1, <1>2, <2>1 DEF TrainInv, OldRead, trainVars
<1>6. TrainSoFar'
    BY <1>1, <1>2 DEF TrainInv, TrainSoFar, OwnPackets, trainVars
<1>7. AdrOfOneTrain'
    BY <1>1 DEF TrainInv, AdrOfOneTrain, OwnPackets, trainVars
<1> QED
    BY <1>3, <1>4, <1>5, <1>6, <1>7 DEF TrainInv

\* Steps that have nothing to do with trains, the end of a receiver, and the fleets.
LEMMA OthersKeep ==
    ASSUME DataInv, TrainInv,
           \/ UNCHANGED <<setup, session, r_pc, udp, trainVars>>
           \/ r_pc' = "exited" /\ udp' = {} /\ UNCHANGED session
           \/ /\ r_pc \in Late /\ r_pc' \in Late /\ udp' \subseteq udp
              /\ UNCHANGED <<setup, session, trainVars>>
    PROVE  TrainInv'
<1>1. CASE UNCHANGED <<setup, session, r_pc, udp, trainVars>>
  <2>1. StreamsLater' /\ FirstSession'
      BY <1>1 DEF TrainInv, StreamsLater, FirstSession
  <2>2. OldRead' /\ TrainSoFar'
      BY <1>1 DEF TrainInv, OldRead, TrainSoFar, RandomLeft, OwnPackets, trainVars
  <2>3. AdrOfOneTrain'
      BY <1>1 DEF TrainInv, AdrOfOneTrain, OwnPackets, trainVars
  <2> QED
      BY <2>1, <2>2, <2>3 DEF TrainInv
<1>2. CASE r_pc' = "exited" /\ udp' = {} /\ UNCHANGED session
    BY <1>2 DEF TrainInv, StreamsLater, FirstSession, OldRead, TrainSoFar, AdrOfOneTrain,
                Early
<1>3. CASE /\ r_pc \in Late /\ r_pc' \in Late /\ udp' \subseteq udp
           /\ UNCHANGED <<setup, session, trainVars>>
  <2>1. StreamsLater' /\ OldRead' /\ TrainSoFar'
      BY <1>3 DEF StreamsLater, OldRead, TrainSoFar, Early, Late
  <2>2. FirstSession'
      BY <1>3 DEF TrainInv, FirstSession, Late
  <2>3. AdrOfOneTrain'
      BY <1>3 DEF TrainInv, AdrOfOneTrain, OwnPackets, trainVars, Late
  <2> QED
      BY <2>1, <2>2, <2>3 DEF TrainInv
<1> QED
    BY <1>1, <1>2, <1>3

\* Nothing was sent to a receiver that is just started.
LEMMA StartKeeps ==
    ASSUME DataInv, TrainInv, ReceiverStart
    PROVE  TrainInv'
<1>1. /\ session' = session + 1 /\ r_pc' = "size" /\ udp' = udp /\ session \in Nat
    BY ConstantFacts DEF ReceiverStart, DataInv, SessionOK
<1>2. StreamsLater'
    BY <1>1 DEF DataInv, PathOK, StreamsLater
<1>3. FirstSession'
    BY <1>1 DEF TrainInv, FirstSession
<1>4. OldRead' /\ TrainSoFar' /\ AdrOfOneTrain'
    BY <1>1 DEF OldRead, TrainSoFar, AdrOfOneTrain
<1> QED
    BY <1>2, <1>3, <1>4 DEF TrainInv

\* What recvfrom_latency leaves is the receiver's, or begins with random data.
LEMMA LatencyKeeps ==
    ASSUME DataInv, TrainInv, ReceiverGetSize
    PROVE  TrainInv'
<1>1. /\ r_pc = "size" /\ r_pc' = "latency" /\ UNCHANGED <<setup, session, trainVars>>
      /\ session \in Nat \ {0}
    BY ConstantFacts DEF ReceiverGetSize, notReceiver, DataInv, SessionOK
<1>2. PICK old \in SUBSET udp :
         /\ setup.in_order /\ old # udp => Cardinality(old) = LatencyProbes
         /\ udp' = (udp \ old) \cup {<<session, 0, 0, 0, k>> : k \in 1..Cardinality(old)}
    BY DEF ReceiverGetSize, recvfrom_latency
<1>3. StreamsLater'
  <2>1. \A k : <<session, 0, 0, 0, k>>[2] = 0
      OBVIOUS
  <2> QED
      BY <1>1, <1>2, <2>1 DEF TrainInv, StreamsLater, Early
<1>4. FirstSession'
  <2>1. CASE session = 1
    <3>1. udp = {} /\ old = {}
        BY <1>1, <1>2, <2>1 DEF TrainInv, FirstSession
    <3>2. Cardinality(old) = 0
        BY <3>1, FS_EmptySet
    <3>3. udp' = {}
        BY <1>2, <3>1, <3>2
    <3> QED
        BY <3>3 DEF FirstSession
  <2>2. CASE session # 1
      BY <1>1, <2>2 DEF FirstSession
  <2> QED
      BY <2>1, <2>2
<1>5. OldRead'
  <2>1. ASSUME setup.in_order, old # udp PROVE RandomLeft'
    <3>1. Cardinality(old) = LatencyProbes
        BY <1>2, <2>1
    <3>2. 1 \in 1..Cardinality(old)
        BY <3>1, ConstantFacts
    <3>3. <<session, 0, 0, 0, 1>> \in udp'
        BY <1>2, <3>2
    <3> QED
        BY <1>1, <3>3 DEF RandomLeft
  <2>2. ASSUME old = udp PROVE \A p \in udp' : p[1] = session'
      BY <1>1, <1>2, <2>2
  <2> QED
      BY <1>1, <2>1, <2>2 DEF OldRead
<1>6. TrainSoFar' /\ AdrOfOneTrain'
    BY <1>1 DEF TrainSoFar, AdrOfOneTrain
<1> QED
    BY <1>3, <1>4, <1>5, <1>6 DEF TrainInv

\* The first train begins.
LEMMA FirstTrainKeeps ==
    ASSUME DataInv, TrainInv, ReceiverGetLatency
    PROVE  TrainInv'
<1>1. /\ r_pc = "latency" /\ r_pc' = "train" /\ UNCHANGED <<setup, session, udp>>
      /\ rcvd' = 0 /\ pack_id' = -1
    BY DEF ReceiverGetLatency, BeginTrain, notReceiver
<1>2. StreamsLater' /\ FirstSession'
    BY <1>1 DEF TrainInv, StreamsLater, FirstSession, Early
<1>3. OldRead'
    BY <1>1 DEF TrainInv, OldRead, RandomLeft
<1>4. TrainSoFar' /\ AdrOfOneTrain'
    BY <1>1 DEF TrainSoFar, AdrOfOneTrain
<1> QED
    BY <1>2, <1>3, <1>4 DEF TrainInv

\* A packet that is counted is the train's next one; any other spoils the train.
LEMMA PacketKeeps ==
    ASSUME DataInv, TrainInv, ReadTrainPacket
    PROVE  TrainInv'
<1> DEFINE pack(p) == IF p[2] = 1 THEN p[5] ELSE p[4]
           fits(p) == p[2] # 0 /\ p[3] = exp_train_id /\ pack(p) = rcvd /\ rcvd <= TRAIN_LEN
<1>1. PICK p \in udp :
         /\ udp' = udp \ {p}
         /\ pack_id' = IF p[2] = 0 THEN -1 ELSE pack(p)
         /\ IF fits(p)
            THEN /\ rcvd' = rcvd + 1 /\ arrv_tv' = [arrv_tv EXCEPT ![pack(p)] = p]
                 /\ UNCHANGED bad_train
            ELSE bad_train' = TRUE /\ UNCHANGED <<rcvd, arrv_tv>>
    BY DEF ReadTrainPacket, Readable
<1>2. /\ r_pc = "train" /\ UNCHANGED <<setup, session, r_pc, exp_train_id>>
    BY DEF ReadTrainPacket, notReceiver
<1>3. StreamsLater' /\ FirstSession' /\ AdrOfOneTrain'
  <2>1. StreamsLater' /\ FirstSession'
      BY <1>1, <1>2 DEF TrainInv, StreamsLater, FirstSession
  <2>2. AdrOfOneTrain'
      BY <1>2 DEF AdrOfOneTrain
  <2> QED
      BY <2>1, <2>2
<1>4. p[2] # 0 => (RandomLeft' <=> RandomLeft)
    BY <1>1, <1>2 DEF RandomLeft
<1>5. p[2] = 0 => bad_train' = TRUE
    BY <1>1
<1>6. bad_train => bad_train'
    BY <1>1
<1>7. OldRead'
    BY <1>1, <1>2, <1>4, <1>5, <1>6 DEF TrainInv, OldRead
<1>8. TrainSoFar'
  <2> SUFFICES ASSUME ~bad_train'
               PROVE  /\ pack_id' = rcvd' - 1
                      /\ OwnPackets' /\ ~RandomLeft' =>
                           \A k \in 0..rcvd'-1 :
                              arrv_tv'[k] = TrainPacket(session', exp_train_id', k)
      BY <1>2 DEF TrainSoFar
  <2>1. fits(p) /\ ~bad_train
      BY <1>1, <1>6
  <2>2. rcvd' = rcvd + 1 /\ arrv_tv' = [arrv_tv EXCEPT ![rcvd] = p] /\ pack_id' = rcvd
      BY <1>1, <2>1
  <2>3. rcvd \in 0..TRAIN_LEN /\ arrv_tv \in [0..TRAIN_LEN+1 -> Packets \cup {NoPacket, Stamp}]
      BY <2>1, ConstantFacts DEF DataInv, ReceiverOK
  <2>4. pack_id' = rcvd' - 1
      BY <2>2, <2>3
  <2>5. ASSUME OwnPackets', ~RandomLeft', NEW k \in 0..rcvd'-1
        PROVE  arrv_tv'[k] = TrainPacket(session', exp_train_id', k)
    <3>1. OwnPackets /\ ~RandomLeft
        BY <1>2, <1>4, <2>1, <2>5 DEF OwnPackets
    <3>2. p \in Packets /\ p[1] \in 1..session /\ (p[2] = 1 => p[4] = 0)
        BY DEF DataInv, PathOK
    <3>3. p[1] = session
      <4>1. CASE setup.in_order
          BY <1>2, <2>1, <3>1, <4>1 DEF TrainInv, OldRead
      <4>2. CASE session = 1
          BY <3>2, <4>2
      <4> QED
          BY <3>1, <4>1, <4>2 DEF OwnPackets
    <3>4. p[2] = 1
      <4>1. p[2] # 2
          BY <1>2, <3>3 DEF TrainInv, StreamsLater, Early
      <4>2. p[2] \in 0..2
          BY <3>2, PacketFacts
      <4> QED
          BY <2>1, <4>1, <4>2
    <3>5. p = TrainPacket(session, exp_train_id, rcvd)
      <4>1. p = <<p[1], p[2], p[3], p[4], p[5]>>
          BY <3>2, PacketFacts
      <4>2. p[5] = rcvd /\ p[4] = 0 /\ p[3] = exp_train_id
          BY <2>1, <3>2, <3>4
      <4> QED
          BY <3>3, <3>4, <4>1, <4>2 DEF TrainPacket
    <3>6. CASE k = rcvd
      <4>1. rcvd \in 0..TRAIN_LEN+1
          BY <2>3, ConstantFacts
      <4>2. arrv_tv'[rcvd] = p
          BY <2>2, <2>3, <4>1
      <4>3. session' = session /\ exp_train_id' = exp_train_id
          BY <1>2
      <4> QED
          BY <3>5, <3>6, <4>2, <4>3
    <3>7. CASE k # rcvd
      <4>1. k \in 0..rcvd-1 /\ k \in 0..TRAIN_LEN+1
          BY <2>2, <2>3, <2>5, <3>7, ConstantFacts
      <4>2. arrv_tv[k] = TrainPacket(session, exp_train_id, k)
          BY <1>2, <2>1, <3>1, <4>1 DEF TrainInv, TrainSoFar
      <4> QED
          BY <1>2, <2>2, <2>3, <3>7, <4>1, <4>2
    <3> QED
        BY <3>6, <3>7
  <2> QED
      BY <2>4, <2>5
<1> QED
    BY <1>3, <1>7, <1>8 DEF TrainInv

\* The end of a train: the stamp of a good one is written behind its packets.
LEMMA EndKeeps ==
    ASSUME DataInv, TrainInv, EndOfTrain
    PROVE  TrainInv'
<1> DEFINE good == ~bad_train /\ rcvd = TrainLen(exp_train_id) + 1
<1>1. /\ r_pc = "train" /\ UNCHANGED <<setup, session, udp>>
      /\ setup.in_order => udp = {}
      /\ StampEnd
      /\ IF good \/ exp_train_id = MAX_TRAIN - 1
         THEN r_pc' = "params" /\ UNCHANGED <<exp_train_id, rcvd, bad_train, pack_id>>
         ELSE BeginTrain(exp_train_id + 1)
    BY DEF EndOfTrain, ReceiverReads, notReceiver
<1>2. r_pc' \in {"params", "train"}
    BY <1>1 DEF BeginTrain
<1>3. StreamsLater' /\ FirstSession'
    BY <1>1, <1>2 DEF TrainInv, StreamsLater, FirstSession, Early
<1>4. OldRead'
    BY <1>1 DEF OldRead
<1>5. TrainSoFar'
  <2> SUFFICES ASSUME r_pc' = "train" PROVE pack_id' = -1 /\ rcvd' = 0
      BY DEF TrainSoFar
  <2> QED
      BY <1>1 DEF BeginTrain
<1>6. AdrOfOneTrain'
  <2> SUFFICES ASSUME r_pc' \in Late, OwnPackets',
                      ~bad_train', rcvd' = TrainLen(exp_train_id') + 1,
                      NEW k \in 0..TrainLen(exp_train_id')
               PROVE  arrv_tv'[k] = TrainPacket(session', exp_train_id', k)
      BY DEF AdrOfOneTrain, Late
  <2>1. UNCHANGED <<exp_train_id, rcvd, bad_train, pack_id>> /\ good
      BY <1>1 DEF BeginTrain, Late
  <2>2. TrainLen(exp_train_id) \in 1..TRAIN_LEN
      BY TrainLengths DEF DataInv, ReceiverOK
  <2>3. ~RandomLeft /\ OwnPackets
    <3>1. OwnPackets
        BY <1>1 DEF OwnPackets
    <3>2. CASE setup.in_order
        BY <1>1, <3>1, <3>2 DEF RandomLeft
    <3>3. CASE session = 1
        BY <3>1, <3>3 DEF TrainInv, FirstSession, RandomLeft
    <3> QED
        BY <3>1, <3>2, <3>3 DEF OwnPackets
  <2>4. /\ pack_id = rcvd - 1
        /\ \A j \in 0..rcvd-1 : arrv_tv[j] = TrainPacket(session, exp_train_id, j)
      BY <1>1, <2>1, <2>3 DEF TrainInv, TrainSoFar
  <2>5. pack_id = TrainLen(exp_train_id) /\ pack_id \in 0..TRAIN_LEN
      BY <2>1, <2>2, <2>4, ConstantFacts
  <2>6. arrv_tv' = [arrv_tv EXCEPT ![pack_id + 1] = Stamp]
      BY <1>1, <2>5 DEF StampEnd
  <2>7. k \in 0..TrainLen(exp_train_id)
      BY <2>1
  <2>8. k \in 0..rcvd-1 /\ k \in 0..TRAIN_LEN+1 /\ k # pack_id + 1
      BY <2>1, <2>2, <2>5, <2>7, ConstantFacts
  <2>9. arrv_tv'[k] = arrv_tv[k]
      BY <2>6, <2>8 DEF DataInv, ReceiverOK
  <2> QED
      BY <1>1, <2>1, <2>4, <2>8, <2>9
<1> QED
    BY <1>3, <1>4, <1>5, <1>6 DEF TrainInv

-----------------------------------------------------------------------------
(* The theorem.                                                            *)

\* There are no packets at first.
LEMMA InitTrains == Init => TrainInv
    BY DEF Init, TrainInv, StreamsLater, FirstSession, OldRead, TrainSoFar,
           AdrOfOneTrain, Early

\* Every step keeps the invariant.
LEMMA NextTrains == DataInv /\ WordInv /\ TrainInv /\ [Next]_vars => TrainInv'
    BY TrainSteps, SentKeeps, OthersKeep, StartKeeps, LatencyKeeps, FirstTrainKeeps,
       PacketKeeps, EndKeeps

\* recv_train and get_adr, pathload-original-receiver-func.cc: the arrivals of a train
\* that is called good are those of its own packets, all of them.
THEOREM AdrCorrect == Spec => []AdrOfOneTrain
<1>1. Spec => []TrainInv
    BY WordInvariant, InitTrains, NextTrains, PTL DEF Spec
<1>2. TrainInv => AdrOfOneTrain
    BY DEF TrainInv
<1> QED
    BY <1>1, <1>2, PTL
=============================================================================
