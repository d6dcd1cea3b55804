---------------------- MODULE OriginalControl_proofs ----------------------
(***************************************************************************)
(* The data of the original programs: types, where the packets of a stream *)
(* come from, and what counts as lost, for every number of trains, streams,*)
(* packets, fleets and receivers, for every loss and every order in which  *)
(* packets arrive, for receivers that are killed and networks that fail.   *)
(***************************************************************************)
EXTENDS OriginalControl, FiniteSetTheorems, SequenceTheorems, TLAPS

-----------------------------------------------------------------------------
(* The inductive invariant.                                                *)

\* The sender; s_word counts the words of a fleet it has read, and the stream it
\* sends is one of the fleet.
SenderOK ==
    /\ s_pc \in CONTROL /\ s_word \in 1..5 /\ done \in BOOLEAN /\ s_slow \in BOOLEAN
    /\ train_id \in Nat /\ fleet_id \in Nat /\ s_stream_cnt \in 0..NumStream
    /\ outages \in Nat
    /\ s_pc = "param" => s_word \in 2..4
    /\ s_pc \in {"stream", "answer"} => s_stream_cnt < NumStream

ChannelsOK ==
    /\ backlog \in {"none", "live", "dead"}
    /\ link \in {"none", "open", "fin", "resetting", "left"}
    /\ toRcv \in Seq(Words) /\ toSnd \in Seq(Words)

\* Who has been started, and that the sender only serves a receiver there is.
SessionOK ==
    /\ setup \in Setups /\ crashes \in Nat /\ session \in 0..MaxSessions
    /\ backlog = "live" => r_pc = "size"
    /\ backlog = "dead" => r_pc = "exited"
    /\ r_pc # "off" => session >= 1
    /\ s_pc \notin {"accept", "exited"} => Served >= 1

\* The receiver; there is room for the fleet and the stream it waits for.
ReceiverOK ==
    /\ r_pc \in {"off", "size", "latency", "train", "params", "recv_fleet", "stream", "exited"}
    /\ exp_train_id \in 0..MAX_TRAIN-1 /\ rcvd \in 0..TRAIN_LEN+1
    /\ bad_train \in BOOLEAN /\ pack_id \in Nat \cup {-1}
    /\ arrv_tv \in [0..TRAIN_LEN+1 -> Packets \cup {NoPacket, Stamp}]
    /\ exp_fleet_id \in 0..MaxFleets /\ r_stream_cnt \in 0..NumStream
    /\ lossy_stream \in 0..r_stream_cnt /\ r_slow \in BOOLEAN
    /\ exp_pkt_id \in 0..StreamLen /\ pkt_lost \in 0..StreamLen
    /\ snd_tv \in [0..StreamLen-1 -> Packets \cup {NoPacket}]
    /\ r_pc \in {"recv_fleet", "stream"} => exp_fleet_id < MaxFleets
    /\ r_pc = "stream" => r_stream_cnt < NumStream /\ pkt_lost <= exp_pkt_id

\* The packets under way are such as a sender sends to a receiver started so far.
PathOK ==
    \A p \in udp :
        /\ p \in Packets /\ p[1] \in 1..session
        /\ p[2] = 1 => p[4] = 0
        /\ p[2] = 2 => p[5] \in 0..StreamLen-1

\* On a path that keeps the order the trains wash out what earlier receivers left.
OldGone ==
    setup.in_order /\ r_pc \in {"params", "recv_fleet", "stream"} =>
        \A p \in udp : p[1] = session

DataInv == SenderOK /\ ChannelsOK /\ SessionOK /\ ReceiverOK /\ PathOK /\ OldGone

-----------------------------------------------------------------------------
(* Facts about constants, words and packets.                               *)

\* What the assumptions say of the numbers.
LEMMA ConstantFacts ==
    /\ MAX_TRAIN \in Nat \ {0} /\ TRAIN_LEN \in Nat /\ TrainCut \in Nat
    /\ NumStream \in Nat \ {0} /\ StreamLen \in Nat \ {0}
    /\ LatencyProbes \in Nat \ {0} /\ MaxFleets \in Nat \ {0} /\ MaxSessions \in Nat \ {0}
    BY TrainAssumption, FleetAssumption

\* The lengths of the trains the receiver is ready for.
LEMMA TrainLengths ==
    \A id \in 0..MAX_TRAIN-1 : TrainLen(id) \in 1..TRAIN_LEN
    BY TrainAssumption

\* A word is a code or a number.
LEMMA WordTypes ==
    /\ \A op \in Codes : Word(op) \in Words
    /\ Word("SIZE") \in Words /\ Word("LATENCY") \in Words
    /\ \A op \in Numbers, n \in Nat : Number(op, n) \in Words
    BY DEF Word, Number, Words, Codes, Numbers

\* Channels of a few words, and channels with words taken off or put on.
LEMMA WordSequences ==
    /\ <<>> \in Seq(Words)
    /\ \A v, w \in Words : <<v>> \in Seq(Words) /\ <<v, w>> \in Seq(Words)
    /\ \A s, t \in Seq(Words) : s \o t \in Seq(Words)
    /\ \A s \in Seq(Words) : s # <<>> => Tail(s) \in Seq(Words) /\ Head(s) \in Words
    OBVIOUS

\* A packet is not an empty cell, and is known by its five numbers.
LEMMA PacketFacts ==
    \A p \in Packets :
        /\ p # NoPacket /\ p # Stamp
        /\ p = <<p[1], p[2], p[3], p[4], p[5]>>
        /\ p[1] \in Nat /\ p[2] \in 0..2 /\ p[3] \in Nat /\ p[4] \in Nat /\ p[5] \in Nat
<1> SUFFICES ASSUME NEW p \in Packets
             PROVE  /\ p # NoPacket /\ p # Stamp
                    /\ p = <<p[1], p[2], p[3], p[4], p[5]>>
                    /\ p[1] \in Nat /\ p[2] \in 0..2 /\ p[3] \in Nat
                    /\ p[4] \in Nat /\ p[5] \in Nat
    OBVIOUS
<1>1. PICK a \in Nat, b \in 0..2, c \in Nat, d \in Nat, e \in Nat :
         p = <<a, b, c, d, e>>
    BY DEF Packets
<1>2. /\ p[1] = a /\ p[2] = b /\ p[3] = c /\ p[4] = d /\ p[5] = e
    BY <1>1
<1>3. DOMAIN p = 1..5 /\ DOMAIN NoPacket = {} /\ DOMAIN Stamp = 1..1
    BY <1>1 DEF NoPacket, Stamp
<1>4. 2 \in 1..5 /\ 2 \notin 1..1
    OBVIOUS
<1> QED
    BY <1>1, <1>2, <1>3, <1>4

-----------------------------------------------------------------------------
(* What the building blocks of the actions do.                             *)

\* Sending moves the sender on or ends it.
LEMMA SenderSendsEffect ==
    ASSUME ChannelsOK, NEW words \in Seq(Words), NEW next,
           SenderSends(words, next)
    PROVE  /\ toRcv' \in Seq(Words)
           /\ link' \in {"none", "open", "fin", "resetting", "left"}
           /\ s_pc' \in {next, "exited"}
    BY WordSequences DEF SenderSends, SenderExits, ChannelsOK

\* What a word read by the sender changes: its own channel and the outages, nothing more.
LEMMA SenderReadsEffect ==
    ASSUME ChannelsOK, outages \in Nat, NEW pc, NEW word, SenderReads(pc, word)
    PROVE  /\ s_pc = pc /\ toSnd' \in Seq(Words) /\ outages' \in Nat
           /\ outages' <= outages
    BY WordSequences DEF SenderReads, ChannelsOK

\* Packets that are sent arrive or do not.
LEMMA ProbeEffect ==
    ASSUME NEW packets, Probe(packets)
    PROVE  udp' \subseteq udp \cup packets
    BY DEF Probe

-----------------------------------------------------------------------------
(* The sender's actions preserve the invariant.                            *)

\* A step of the sender that leaves the path alone.
LEMMA SenderStep ==
    ASSUME DataInv, s_pc \notin {"accept", "exited"}, UNCHANGED <<notSender, udp>>,
           SenderOK', link' \in {"none", "open", "fin", "resetting", "left"},
           toRcv' \in Seq(Words), toSnd' \in Seq(Words)
    PROVE  DataInv'
<1> USE DEF notSender, rcvVars, trainVars, fleetVars, streamVars
<1>1. ChannelsOK'
    BY DEF DataInv, ChannelsOK
<1>2. SessionOK'
    BY DEF DataInv, SessionOK, Served
<1>3. ReceiverOK'
    BY DEF DataInv, ReceiverOK
<1>4. PathOK' /\ OldGone'
    BY DEF DataInv, PathOK, OldGone
<1> QED
    BY <1>1, <1>2, <1>3, <1>4 DEF DataInv

\* A step of the sender that sends packets to the receiver it serves.
LEMMA SenderProbes ==
    ASSUME DataInv, s_pc \notin {"accept", "exited"},
           UNCHANGED <<notSender, toSnd, outages, sndData>>,
           NEW packets, udp' \subseteq udp \cup packets,
           \A p \in packets :
              /\ p \in Packets /\ p[1] = Served
              /\ p[2] = 1 => p[4] = 0
              /\ p[2] = 2 => p[5] \in 0..StreamLen-1,
           s_pc' \in CONTROL, s_pc' # "param", s_pc' # "stream",
           s_pc' = "answer" => s_pc = "stream",
           toRcv' \in Seq(Words), link' \in {"none", "open", "fin", "resetting", "left"}
    PROVE  DataInv'
<1> USE DEF notSender, rcvVars, trainVars, fleetVars, streamVars
<1>1. ChannelsOK'
    BY DEF DataInv, ChannelsOK
<1>2. SessionOK'
    BY DEF DataInv, SessionOK, Served
<1>3. ReceiverOK'
    BY DEF DataInv, ReceiverOK
<1>4. SenderOK'
    BY DEF DataInv, SenderOK, sndData
<1>5. session \in Nat /\ Served \in 1..session /\ (backlog = "none" => Served = session)
    BY ConstantFacts DEF DataInv, SessionOK, Served
<1>6. PathOK'
    BY <1>5 DEF DataInv, PathOK
<1>7. OldGone'
  <2>1. r_pc \in {"params", "recv_fleet", "stream"} => backlog = "none"
      BY DEF DataInv, SessionOK, ChannelsOK
  <2> QED
      BY <1>5, <2>1 DEF DataInv, OldGone
<1> QED
    BY <1>1, <1>2, <1>3, <1>4, <1>6, <1>7 DEF DataInv

\* The accept fills or empties the channels, it sends no probe packet.
LEMMA AcceptData == DataInv /\ Accept => DataInv'
<1> SUFFICES ASSUME DataInv, Accept PROVE DataInv'
    OBVIOUS
<1> USE DEF Accept, rcvVars, trainVars, fleetVars, streamVars, sndData
<1>1. SenderOK'
    BY DEF DataInv, SenderOK, CONTROL
<1>2. ChannelsOK'
  <2>1. <<Word("SIZE")>> \in Seq(Words) /\ <<Word("TERMINATE")>> \in Seq(Words)
        /\ <<>> \in Seq(Words)
      BY WordTypes, WordSequences DEF Codes
  <2> QED
      BY <2>1 DEF DataInv, ChannelsOK
<1>3. SessionOK'
    BY ConstantFacts DEF DataInv, SessionOK, Served
<1>4. ReceiverOK'
    BY DEF DataInv, ReceiverOK
<1>5. PathOK' /\ OldGone'
    BY DEF DataInv, PathOK, OldGone
<1> QED
    BY <1>1, <1>2, <1>3, <1>4, <1>5 DEF DataInv

\* The packet size only moves the sender on or ends its session.
LEMMA GetSizeData == DataInv /\ GetSize => DataInv'
<1> SUFFICES ASSUME DataInv, GetSize PROVE DataInv'
    OBVIOUS
<1>1. PICK word \in Readings :
         /\ SenderReads("size", word)
         /\ \/ word = Fail /\ UNCHANGED <<s_pc, link, toRcv>>
            \/ word = Word("SIZE") /\ SenderSends(<<Word("LATENCY")>>, "adr")
            \/ word \notin {Fail, Word("SIZE")} /\ SenderExits /\ UNCHANGED toRcv
    BY DEF GetSize
<1>2. UNCHANGED <<notSender, udp, sndData>>
    BY DEF GetSize
<1>3. s_pc = "size" /\ toSnd' \in Seq(Words) /\ outages' \in Nat
    BY <1>1, SenderReadsEffect DEF DataInv, SenderOK
<1>4. /\ toRcv' \in Seq(Words)
      /\ link' \in {"none", "open", "fin", "resetting", "left"}
      /\ s_pc' \in {"size", "adr", "exited"}
  <2>1. <<Word("LATENCY")>> \in Seq(Words)
      BY WordTypes, WordSequences
  <2> QED
      BY <1>1, <1>3, <2>1, SenderSendsEffect DEF DataInv, ChannelsOK, SenderExits
<1>5. SenderOK'
    BY <1>2, <1>3, <1>4 DEF DataInv, SenderOK, sndData, CONTROL
<1> QED
    BY <1>2, <1>3, <1>4, <1>5, SenderStep

\* Words that only change where the sender goes on.
LEMMA GetAdrRequestData == DataInv /\ GetAdrRequest => DataInv'
<1> SUFFICES ASSUME DataInv, GetAdrRequest PROVE DataInv'
    OBVIOUS
<1>1. PICK word \in Readings :
         /\ SenderReads("adr", word)
         /\ \/ /\ word = Fail
               /\ SenderExits /\ UNCHANGED <<train_id, fleet_id, s_word>>
            \/ /\ word = Word("SEND_TRAIN")
               /\ s_pc' = "train" /\ train_id' = 0
               /\ UNCHANGED <<link, fleet_id, s_word>>
            \/ /\ word \notin {Fail, Word("SEND_TRAIN")}
               /\ BeginFleets /\ UNCHANGED train_id
    BY DEF GetAdrRequest
<1>2. UNCHANGED <<notSender, udp, toRcv, done, s_stream_cnt, s_slow>>
    BY DEF GetAdrRequest
<1>3. s_pc = "adr" /\ toSnd' \in Seq(Words) /\ outages' \in Nat
    BY <1>1, SenderReadsEffect DEF DataInv, SenderOK
<1>4. SenderOK' /\ link' \in {"none", "open", "fin", "resetting", "left"}
    BY <1>1, <1>2, <1>3
       DEF DataInv, SenderOK, ChannelsOK, CONTROL, SenderExits, BeginFleets, Hangup
<1> QED
    BY <1>2, <1>3, <1>4, SenderStep DEF DataInv, ChannelsOK

\* A train adds the packets of one number to the path and one word to the channel.
LEMMA SendTrainData == DataInv /\ SendTrain => DataInv'
<1> SUFFICES ASSUME DataInv, SendTrain PROVE DataInv'
    OBVIOUS
<1> DEFINE packets == {TrainPacket(Served, train_id, k) : k \in 0..TrainLen(train_id)}
<1>1. s_pc = "train" /\ UNCHANGED <<notSender, outages, toSnd, sndData>>
    BY DEF SendTrain
<1>2. udp' \subseteq udp \cup packets
    BY ProbeEffect DEF SendTrain
<1>3. \A p \in packets : p \in Packets /\ p[1] = Served /\ p[2] = 1 /\ p[4] = 0
  <2>1. Served \in Nat /\ train_id \in Nat
      BY <1>1, ConstantFacts DEF DataInv, SessionOK, SenderOK, Served
  <2>2. TrainLen(train_id) \in Int
      BY <2>1, ConstantFacts DEF TrainLen
  <2> QED
      BY <2>1, <2>2 DEF TrainPacket, Packets
<1>4. /\ toRcv' \in Seq(Words)
      /\ link' \in {"none", "open", "fin", "resetting", "left"}
      /\ s_pc' \in {"verdict", "exited"}
  <2>1. <<Word("FINISHED_TRAIN")>> \in Seq(Words)
      BY WordTypes, WordSequences DEF Codes
  <2> QED
      BY <2>1, SenderSendsEffect DEF SendTrain, DataInv
<1> HIDE DEF packets
<1> QED
    BY <1>1, <1>2, <1>3, <1>4, SenderProbes DEF CONTROL

\* The verdict on a train either counts it or ends the train phase.
LEMMA GetVerdictData == DataInv /\ GetVerdict => DataInv'
<1> SUFFICES ASSUME DataInv, GetVerdict PROVE DataInv'
    OBVIOUS
<1>1. PICK word \in Readings :
         /\ SenderReads("verdict", word)
         /\ \/ /\ word = Fail
               /\ \/ setup.iterate /\ s_pc' = "accept" /\ link' = "left"
                  \/ ~setup.iterate /\ SenderExits
               /\ UNCHANGED <<train_id, fleet_id, s_word>>
            \/ /\ word = Word("BAD_TRAIN") /\ MoreTrains
               /\ s_pc' = "train" /\ train_id' = train_id + 1
               /\ UNCHANGED <<link, fleet_id, s_word>>
            \/ /\ word # Fail /\ ~(word = Word("BAD_TRAIN") /\ MoreTrains)
               /\ BeginFleets /\ UNCHANGED train_id
    BY DEF GetVerdict
<1>2. UNCHANGED <<notSender, udp, toRcv, done, s_stream_cnt, s_slow>>
    BY DEF GetVerdict
<1>3. s_pc = "verdict" /\ toSnd' \in Seq(Words) /\ outages' \in Nat
    BY <1>1, SenderReadsEffect DEF DataInv, SenderOK
<1>4. SenderOK' /\ link' \in {"none", "open", "fin", "resetting", "left"}
    BY <1>1, <1>2, <1>3
       DEF DataInv, SenderOK, ChannelsOK, CONTROL, SenderExits, BeginFleets, Hangup
<1> QED
    BY <1>2, <1>3, <1>4, SenderStep DEF DataInv, ChannelsOK

\* The first word of a fleet's order is counted or ends the session.
LEMMA GetRateData == DataInv /\ GetRate => DataInv'
<1> SUFFICES ASSUME DataInv, GetRate PROVE DataInv'
    OBVIOUS
<1>1. PICK word \in Readings :
         /\ SenderReads("rate", word)
         /\ \/ /\ word = Word("TERMINATE")
               /\ done' = TRUE /\ Hangup /\ UNCHANGED s_word
            \/ word = Fail /\ Hangup /\ UNCHANGED <<done, s_word>>
            \/ /\ word \notin {Fail, Word("TERMINATE")}
               /\ s_pc' = "param" /\ s_word' = 2
               /\ UNCHANGED <<done, link>>
    BY DEF GetRate
<1>2. UNCHANGED <<notSender, udp, toRcv, train_id, fleet_id, s_stream_cnt, s_slow>>
    BY DEF GetRate
<1>3. s_pc = "rate" /\ toSnd' \in Seq(Words) /\ outages' \in Nat
    BY <1>1, SenderReadsEffect DEF DataInv, SenderOK
<1>4. SenderOK' /\ link' \in {"none", "open", "fin", "resetting", "left"}
  <2>1. done' \in BOOLEAN
      BY <1>1 DEF DataInv, SenderOK
  <2>2. /\ s_word' \in 1..5 /\ s_pc' \in {"accept", "exited", "param"}
        /\ s_pc' = "param" => s_word' = 2
        /\ link' \in {"none", "open", "fin", "resetting", "left"}
      BY <1>1 DEF DataInv, SenderOK, ChannelsOK, Hangup
  <2> QED
      BY <1>2, <1>3, <2>1, <2>2 DEF DataInv, SenderOK, CONTROL
<1> QED
    BY <1>2, <1>3, <1>4, SenderStep DEF DataInv, ChannelsOK

\* The third of the numbers ends them.
LEMMA GetParamData == DataInv /\ GetParam => DataInv'
<1> SUFFICES ASSUME DataInv, GetParam PROVE DataInv'
    OBVIOUS
<1>1. PICK word \in Readings :
         /\ SenderReads("param", word)
         /\ \/ /\ word.op \notin Numbers
               /\ Hangup /\ UNCHANGED <<s_word, s_slow>>
            \/ /\ word.op \in Numbers
               /\ s_word' = s_word + 1
               /\ s_slow' = IF s_word = 4 THEN word.n = 1 ELSE s_slow
               /\ s_pc' = IF s_word = 4 THEN "order" ELSE "param"
               /\ UNCHANGED link
    BY DEF GetParam
<1>2. UNCHANGED <<notSender, udp, toRcv, done, train_id, fleet_id, s_stream_cnt>>
    BY DEF GetParam
<1>3. s_pc = "param" /\ toSnd' \in Seq(Words) /\ outages' \in Nat
    BY <1>1, SenderReadsEffect DEF DataInv, SenderOK
<1>4. SenderOK' /\ link' \in {"none", "open", "fin", "resetting", "left"}
  <2>1. s_word \in 2..4 /\ s_slow \in BOOLEAN
      BY <1>3 DEF DataInv, SenderOK
  <2>2. CASE word.op \notin Numbers
      BY <1>1, <1>2, <1>3, <2>2 DEF DataInv, SenderOK, ChannelsOK, CONTROL, Hangup
  <2>3. CASE word.op \in Numbers
    <3>1. s_slow' \in BOOLEAN
        BY <1>1, <2>1, <2>3
    <3>2. s_word' \in 1..5 /\ s_pc' \in {"order", "param"}
          /\ (s_pc' = "param" => s_word' \in 2..4)
        BY <1>1, <2>1, <2>3
    <3> QED
        BY <1>1, <1>2, <1>3, <2>3, <3>1, <3>2 DEF DataInv, SenderOK, ChannelsOK, CONTROL
  <2> QED
      BY <2>2, <2>3
<1> QED
    BY <1>2, <1>3, <1>4, SenderStep DEF DataInv, ChannelsOK

\* The last word of the order starts the count of streams.
LEMMA GetOrderData == DataInv /\ GetOrder => DataInv'
<1> SUFFICES ASSUME DataInv, GetOrder PROVE DataInv'
    OBVIOUS
<1>1. PICK word \in Readings :
         /\ SenderReads("order", word)
         /\ \/ word = Fail /\ Hangup /\ UNCHANGED <<s_stream_cnt, toRcv>>
            \/ /\ word # Fail
               /\ \/ SenderSends(<<Word("RECV_FLEET")>>, "stream")
                  \/ link = "resetting" /\ Hangup /\ UNCHANGED toRcv
               /\ s_stream_cnt' = 0
    BY DEF GetOrder
<1>2. UNCHANGED <<notSender, udp, s_word, done, train_id, fleet_id, s_slow>>
    BY DEF GetOrder
<1>3. s_pc = "order" /\ toSnd' \in Seq(Words) /\ outages' \in Nat
    BY <1>1, SenderReadsEffect DEF DataInv, SenderOK
<1>4. /\ toRcv' \in Seq(Words)
      /\ link' \in {"none", "open", "fin", "resetting", "left"}
      /\ s_pc' \in {"accept", "exited"} \/ (s_pc' = "stream" /\ s_stream_cnt' = 0)
  <2>1. <<Word("RECV_FLEET")>> \in Seq(Words)
      BY WordTypes, WordSequences DEF Codes
  <2> QED
      BY <1>1, <2>1, SenderSendsEffect DEF DataInv, ChannelsOK, Hangup
<1>5. SenderOK'
    BY <1>1, <1>2, <1>3, <1>4, ConstantFacts DEF DataInv, SenderOK, CONTROL
<1> QED
    BY <1>2, <1>3, <1>4, <1>5, SenderStep

\* A stream adds its packets to the path and its word to the channel.
LEMMA SendStreamData == DataInv /\ SendStream => DataInv'
<1> SUFFICES ASSUME DataInv, SendStream PROVE DataInv'
    OBVIOUS
<1> DEFINE packets ==
      {StreamPacket(Served, fleet_id, s_stream_cnt, k) : k \in 0..StreamLen-1}
<1>1. s_pc = "stream" /\ UNCHANGED <<notSender, outages, toSnd, sndData>>
    BY DEF SendStream
<1>2. udp' \subseteq udp \cup packets
    BY ProbeEffect DEF SendStream
<1>3. \A p \in packets : /\ p \in Packets /\ p[1] = Served
                         /\ p[2] = 2 /\ p[5] \in 0..StreamLen-1
  <2>1. Served \in Nat /\ fleet_id \in Nat /\ s_stream_cnt \in Nat
      BY <1>1, ConstantFacts DEF DataInv, SessionOK, SenderOK, Served
  <2> QED
      BY <2>1, ConstantFacts DEF StreamPacket, Packets
<1>4. /\ toRcv' \in Seq(Words)
      /\ link' \in {"none", "open", "fin", "resetting", "left"}
      /\ s_pc' \in {"answer", "accept", "exited"}
  <2>1. <<Word("FINISHED_STREAM"), Number("ID", s_stream_cnt)>> \in Seq(Words)
      BY WordTypes, WordSequences DEF Codes, Numbers, DataInv, SenderOK
  <2> QED
      BY <2>1, SenderSendsEffect DEF SendStream, DataInv, ChannelsOK, Hangup, SenderExits
<1> HIDE DEF packets
<1> QED
    BY <1>1, <1>2, <1>3, <1>4, SenderProbes DEF CONTROL

\* The sender goes on to another stream only while the fleet has one.
LEMMA GetAnswerData == DataInv /\ GetAnswer => DataInv'
<1> SUFFICES ASSUME DataInv, GetAnswer PROVE DataInv'
    OBVIOUS
<1>1. PICK word \in Readings :
         /\ SenderReads("answer", word)
         /\ \/ /\ word = Fail
               /\ Hangup /\ UNCHANGED <<s_stream_cnt, fleet_id, s_word>>
            \/ /\ word = Word("ABORT_FLEET")
               /\ NextFleet /\ UNCHANGED s_stream_cnt
            \/ /\ word \notin {Fail, Word("ABORT_FLEET")}
               /\ s_stream_cnt' = IF word = Word("CONTINUE_STREAM")
                                  THEN s_stream_cnt + 1 ELSE s_stream_cnt
               /\ IF LastStream(s_stream_cnt')
                  THEN NextFleet
                  ELSE s_pc' = "stream" /\ UNCHANGED <<fleet_id, s_word, link>>
    BY DEF GetAnswer
<1>2. UNCHANGED <<notSender, udp, toRcv, done, train_id, s_slow>>
    BY DEF GetAnswer
<1>3. s_pc = "answer" /\ toSnd' \in Seq(Words) /\ outages' \in Nat
    BY <1>1, SenderReadsEffect DEF DataInv, SenderOK
<1>4. s_stream_cnt \in 0..NumStream-1
    BY <1>3, ConstantFacts DEF DataInv, SenderOK
<1>5. s_stream_cnt' \in 0..NumStream
    BY <1>1, <1>4, ConstantFacts
<1>6. s_pc' \in {"accept", "exited", "rate", "stream"}
      /\ (s_pc' = "stream" => s_stream_cnt' < NumStream)
    BY <1>1, <1>5, ConstantFacts DEF LastStream, NextFleet, Hangup
<1>7. SenderOK' /\ link' \in {"none", "open", "fin", "resetting", "left"}
    BY <1>1, <1>2, <1>3, <1>5, <1>6
       DEF DataInv, SenderOK, ChannelsOK, CONTROL, Hangup, NextFleet
<1> QED
    BY <1>2, <1>3, <1>7, SenderStep DEF DataInv, ChannelsOK
-----------------------------------------------------------------------------
(* The receiver's actions preserve the invariant.                          *)

\* A step of the receiver, given what it does to its own state and the channels.
LEMMA ReceiverStep ==
    ASSUME DataInv, UNCHANGED notReceiver, crashes' \in Nat, r_pc # "off",
           backlog' = backlog \/ (backlog = "live" /\ backlog' = "dead"),
           backlog' = "live" => r_pc' = "size",
           backlog' = "dead" => r_pc' = "exited",
           link' \in {"none", "open", "fin", "resetting", "left"},
           toRcv' \in Seq(Words), toSnd' \in Seq(Words),
           ReceiverOK', PathOK', OldGone'
    PROVE  DataInv'
<1> USE DEF notReceiver, sndData
<1>1. SenderOK'
    BY DEF DataInv, SenderOK
<1>2. ChannelsOK'
    BY DEF DataInv, ChannelsOK
<1>3. SessionOK'
    BY DEF DataInv, SessionOK, Served
<1> QED
    BY <1>1, <1>2, <1>3 DEF DataInv

\* A step of the receiver by which only packets disappear.
LEMMA PathShrinks ==
    ASSUME DataInv, udp' \subseteq udp, UNCHANGED <<setup, session>>,
           r_pc' \in {"params", "recv_fleet", "stream"} =>
              \/ r_pc \in {"params", "recv_fleet", "stream"}
              \/ setup.in_order => udp' = {}
    PROVE  PathOK' /\ OldGone'
<1>1. PathOK'
    BY DEF DataInv, PathOK
<1>2. OldGone'
    BY DEF DataInv, OldGone
<1> QED
    BY <1>1, <1>2

\* The receiver's process ends.
LEMMA ExitData ==
    ASSUME DataInv, NEW words \in Seq(Words), ReceiverExits(words), Listening,
           UNCHANGED <<notReceiver, trainVars, fleetVars>>, crashes' \in Nat
    PROVE  DataInv'
<1>1. r_pc' = "exited" /\ udp' = {} /\ toRcv' \in Seq(Words)
    BY WordSequences DEF ReceiverExits
<1>2. /\ backlog' = backlog \/ (backlog = "live" /\ backlog' = "dead")
      /\ backlog' # "live"
      /\ link' \in {"none", "open", "fin", "resetting", "left"}
      /\ toSnd' \in Seq(Words)
    BY WordSequences DEF ReceiverExits, DataInv, ChannelsOK
<1>3. r_pc # "off"
    BY DEF Listening, Gone
<1>4. ReceiverOK'
    BY <1>1 DEF DataInv, ReceiverOK, trainVars, fleetVars, streamVars
<1>5. PathOK' /\ OldGone'
    BY <1>1 DEF PathOK, OldGone
<1> QED
    BY <1>1, <1>2, <1>3, <1>4, <1>5, ReceiverStep

\* What the receiver sends arrives or is lost with the connection.
LEMMA ReceiverSendsEffect ==
    ASSUME ChannelsOK, NEW words \in Seq(Words), ReceiverSends(words)
    PROVE  /\ toSnd' \in Seq(Words) /\ UNCHANGED <<backlog, link>>
           /\ link' \in {"none", "open", "fin", "resetting", "left"}
    BY WordSequences DEF ReceiverSends, ChannelsOK

\* A word that is read leaves the channel.
LEMMA ReceiverReadsEffect ==
    ASSUME ChannelsOK, NEW word, ReceiverReads(word)
    PROVE  /\ backlog = "none" /\ word = Head(toRcv)
           /\ Tail(toRcv) \in Seq(Words)
           /\ SubSeq(toRcv, 2, Len(toRcv)) \in Seq(Words)
           /\ SubSeq(toRcv, 3, Len(toRcv)) \in Seq(Words)
           /\ setup.in_order /\ r_pc \in {"train", "stream"} => udp = {}
<1>1. toRcv # <<>> /\ toRcv \in Seq(Words)
    BY DEF ReceiverReads, ChannelsOK
<1>2. \A s \in Seq(Words) : /\ SubSeq(s, 2, Len(s)) \in Seq(Words)
                           /\ SubSeq(s, 3, Len(s)) \in Seq(Words)
    OBVIOUS
<1> QED
    BY <1>1, <1>2, WordSequences DEF ReceiverReads

\* The words of a fleet have the type of words.
LEMMA ParamsType ==
    /\ \A slow \in BOOLEAN : Params(slow) \in Seq(Words) /\ Len(Params(slow)) = 5
    /\ \A k \in 0..4 : SubSeq(Params(FALSE), 1, k) \o <<Word("TERMINATE")>> \in Seq(Words)
<1>1. \A slow \in BOOLEAN : Params(slow) \in Seq(Words) /\ Len(Params(slow)) = 5
  <2>1. /\ Number("R", 1) \in Words /\ Number("L", 1) \in Words
        /\ Number("K", 1) \in Words /\ Word("SEND_FLEET") \in Words
        /\ Number("T", 1) \in Words /\ Number("T", 0) \in Words
      BY WordTypes DEF Numbers, Codes
  <2> QED
      BY <2>1 DEF Params
<1>2. Word("TERMINATE") \in Words
    BY WordTypes DEF Codes
<1>3. \A k \in 0..4 : SubSeq(Params(FALSE), 1, k) \in Seq(Words)
  <2> DEFINE words == Params(FALSE)
  <2>1. words = <<Number("R", 1), Number("L", 1), Number("K", 1),
                  Number("T", 0), Word("SEND_FLEET")>>
      BY DEF Params
  <2>2. /\ Number("R", 1) \in Words /\ Number("L", 1) \in Words
        /\ Number("K", 1) \in Words /\ Word("SEND_FLEET") \in Words
        /\ Number("T", 0) \in Words
      BY WordTypes DEF Numbers, Codes
  <2> HIDE DEF words
  <2>3. words \in Seq(Words) /\ Len(words) = 5
      BY <2>1, <2>2
  <2>4. ASSUME NEW k \in 0..4 PROVE SubSeq(words, 1, k) \in Seq(Words)
    <3>1. \A i \in 1..k : words[i] \in Words
        BY <2>3
    <3>2. 1 \in Int /\ k \in Int
        OBVIOUS
    <3> QED
        BY <3>1, <3>2, SubSeqProperties
  <2> QED
      BY <2>4 DEF words
<1> QED
    BY <1>1, <1>2, <1>3, WordSequences

\* A new receiver joins with a session of its own.
LEMMA ReceiverStartData == DataInv /\ ReceiverStart => DataInv'
<1> SUFFICES ASSUME DataInv, ReceiverStart PROVE DataInv'
    OBVIOUS
<1> USE DEF ReceiverStart, trainVars, streamVars, sndData
<1>1. SenderOK'
    BY DEF DataInv, SenderOK
<1>2. ChannelsOK'
    BY DEF DataInv, ChannelsOK
<1>3. SessionOK'
    BY ConstantFacts DEF DataInv, SessionOK, Served
<1>4. ReceiverOK'
    BY ConstantFacts DEF DataInv, ReceiverOK
<1>5. PathOK' /\ OldGone'
    BY ConstantFacts DEF DataInv, SessionOK, PathOK, OldGone
<1> QED
    BY <1>1, <1>2, <1>3, <1>4, <1>5 DEF DataInv

\* The alarm of the packet size ends the receiver with a word of goodbye.
LEMMA SizeAlarmData == DataInv /\ SizeAlarm => DataInv'
<1> SUFFICES ASSUME DataInv, SizeAlarm PROVE DataInv'
    OBVIOUS
<1>1. <<Word("TERMINATE")>> \in Seq(Words)
    BY WordTypes, WordSequences DEF Codes
<1>2. Listening /\ crashes' \in Nat
    BY DEF SizeAlarm, Listening, Gone, DataInv, SessionOK
<1> QED
    BY <1>1, <1>2, ExitData DEF SizeAlarm

\* The packets that take the place of older ones are the receiver's own.
LEMMA ReceiverGetSizeData == DataInv /\ ReceiverGetSize => DataInv'
<1> SUFFICES ASSUME DataInv, ReceiverGetSize PROVE DataInv'
    OBVIOUS
<1>1. /\ r_pc = "size" /\ ReceiverReads(Word("SIZE")) /\ recvfrom_latency
      /\ ReceiverSends(<<Word("SIZE")>>) /\ toRcv' = Tail(toRcv) /\ r_pc' = "latency"
      /\ UNCHANGED <<notReceiver, crashes, trainVars, fleetVars>>
    BY DEF ReceiverGetSize
<1>2. backlog' = "none" /\ backlog = "none" /\ toRcv' \in Seq(Words) /\ toSnd' \in Seq(Words)
      /\ link' \in {"none", "open", "fin", "resetting", "left"}
  <2>1. <<Word("SIZE")>> \in Seq(Words)
      BY WordTypes, WordSequences
  <2> QED
      BY <1>1, <2>1, ReceiverSendsEffect, ReceiverReadsEffect DEF DataInv
<1>3. ReceiverOK'
    BY <1>1 DEF DataInv, ReceiverOK, trainVars, fleetVars, streamVars
<1>4. PathOK'
  <2>1. PICK old \in SUBSET udp :
           udp' = (udp \ old) \cup {<<session, 0, 0, 0, k>> : k \in 1..Cardinality(old)}
      BY <1>1 DEF recvfrom_latency
  <2>2. session \in Nat /\ session >= 1 /\ session' = session
      BY <1>1, ConstantFacts DEF DataInv, SessionOK, notReceiver
  <2>3. \A k \in 1..Cardinality(old) : <<session, 0, 0, 0, k>> \in Packets
    <3>1. \A n, k : k \in 1..n => k \in Nat
        OBVIOUS
    <3> QED
        BY <2>2, <3>1 DEF Packets
  <2>4. ASSUME NEW p \in udp'
        PROVE  /\ p \in Packets /\ p[1] \in 1..session
               /\ p[2] = 1 => p[4] = 0
               /\ p[2] = 2 => p[5] \in 0..StreamLen-1
    <3>1. CASE p \in udp
        BY <3>1 DEF DataInv, PathOK
    <3>2. CASE p \notin udp
        BY <2>1, <2>2, <2>3, <3>2
    <3> QED
        BY <3>1, <3>2
  <2> QED
      BY <2>2, <2>4 DEF PathOK
<1>5. OldGone'
    BY <1>1 DEF OldGone
<1> QED
    BY <1>1, <1>2, <1>3, <1>4, <1>5, ReceiverStep DEF DataInv, SessionOK

\* The measured latency begins the first train with empty samples.
LEMMA ReceiverGetLatencyData == DataInv /\ ReceiverGetLatency => DataInv'
<1> SUFFICES ASSUME DataInv, ReceiverGetLatency PROVE DataInv'
    OBVIOUS
<1>1. /\ r_pc = "latency" /\ ReceiverReads(Word("LATENCY"))
      /\ toRcv' = Tail(toRcv) /\ BeginTrain(0) /\ arrv_tv' = NoArrivals
      /\ ReceiverSends(<<Word("SEND_TRAIN")>>)
      /\ UNCHANGED <<notReceiver, crashes, udp, fleetVars>>
    BY DEF ReceiverGetLatency
<1>2. backlog' = "none" /\ backlog = "none" /\ toRcv' \in Seq(Words) /\ toSnd' \in Seq(Words)
      /\ link' \in {"none", "open", "fin", "resetting", "left"}
  <2>1. <<Word("SEND_TRAIN")>> \in Seq(Words)
      BY WordTypes, WordSequences DEF Codes
  <2> QED
      BY <1>1, <2>1, ReceiverSendsEffect, ReceiverReadsEffect DEF DataInv
<1>3. ReceiverOK'
    BY <1>1, ConstantFacts
       DEF DataInv, ReceiverOK, BeginTrain, NoArrivals, fleetVars, streamVars
<1>4. PathOK' /\ OldGone'
    BY <1>1, PathShrinks DEF BeginTrain, notReceiver
<1> QED
    BY <1>1, <1>2, <1>3, <1>4, ReceiverStep DEF DataInv, SessionOK

\* A packet is counted only into a cell of arrv_tv.
LEMMA ReadTrainPacketData == DataInv /\ ReadTrainPacket => DataInv'
<1> SUFFICES ASSUME DataInv, ReadTrainPacket PROVE DataInv'
    OBVIOUS
<1> DEFINE pack(p) == IF p[2] = 1 THEN p[5] ELSE p[4]
<1>1. PICK p \in udp :
         /\ udp' = udp \ {p}
         /\ pack_id' = IF p[2] = 0 THEN -1 ELSE pack(p)
         /\ IF p[2] # 0 /\ p[3] = exp_train_id /\ pack(p) = rcvd /\ rcvd <= TRAIN_LEN
            THEN /\ rcvd' = rcvd + 1 /\ arrv_tv' = [arrv_tv EXCEPT ![pack(p)] = p]
                 /\ UNCHANGED bad_train
            ELSE bad_train' = TRUE /\ UNCHANGED <<rcvd, arrv_tv>>
    BY DEF ReadTrainPacket, Readable
<1>2. /\ r_pc = "train"
      /\ UNCHANGED <<notReceiver, crashes, r_pc, exp_train_id, link, backlog, toRcv,
                     toSnd, fleetVars>>
    BY DEF ReadTrainPacket
<1>3. p \in Packets /\ pack(p) \in Nat
    BY PacketFacts DEF DataInv, PathOK
<1>4. pack_id' \in Nat \cup {-1}
    BY <1>1, <1>3
<1>5. /\ rcvd' \in 0..TRAIN_LEN+1 /\ bad_train' \in BOOLEAN
      /\ arrv_tv' \in [0..TRAIN_LEN+1 -> Packets \cup {NoPacket, Stamp}]
  <2>1. CASE p[2] # 0 /\ p[3] = exp_train_id /\ pack(p) = rcvd /\ rcvd <= TRAIN_LEN
    <3>1. rcvd' = rcvd + 1 /\ UNCHANGED bad_train
          /\ arrv_tv' = [arrv_tv EXCEPT ![rcvd] = p]
        BY <1>1, <2>1
    <3> QED
        BY <1>3, <2>1, <3>1, ConstantFacts DEF DataInv, ReceiverOK
  <2>2. CASE ~(p[2] # 0 /\ p[3] = exp_train_id /\ pack(p) = rcvd /\ rcvd <= TRAIN_LEN)
    <3>1. bad_train' = TRUE /\ UNCHANGED <<rcvd, arrv_tv>>
        BY <1>1, <2>2
    <3> QED
        BY <3>1 DEF DataInv, ReceiverOK
  <2> QED
      BY <2>1, <2>2
<1>6. ReceiverOK'
    BY <1>2, <1>4, <1>5 DEF DataInv, ReceiverOK, fleetVars, streamVars
<1>7. PathOK' /\ OldGone'
    BY <1>1, <1>2, PathShrinks DEF notReceiver
<1> QED
    BY <1>2, <1>6, <1>7, ReceiverStep DEF DataInv, SessionOK, ChannelsOK

\* A stamp is written into the array, or the program does not get that far.
LEMMA StampEndType ==
    ASSUME ReceiverOK, StampEnd
    PROVE  arrv_tv' \in [0..TRAIN_LEN+1 -> Packets \cup {NoPacket, Stamp}]
<1>1. CASE pack_id \in 0..TRAIN_LEN
    BY <1>1, ConstantFacts DEF StampEnd, ReceiverOK
<1>2. CASE pack_id \notin 0..TRAIN_LEN
    BY <1>2 DEF StampEnd, ReceiverOK
<1> QED
    BY <1>1, <1>2

\* The end of a train writes the stamp behind the packets of a good one.
LEMMA EndOfTrainData == DataInv /\ EndOfTrain => DataInv'
<1> SUFFICES ASSUME DataInv, EndOfTrain PROVE DataInv'
    OBVIOUS
<1> DEFINE good == ~bad_train /\ rcvd = TrainLen(exp_train_id) + 1
<1>1. /\ r_pc = "train" /\ ReceiverReads(Word("FINISHED_TRAIN"))
      /\ toRcv' = Tail(toRcv) /\ StampEnd
      /\ ReceiverSends(<<Word(IF good THEN "GOOD_TRAIN" ELSE "BAD_TRAIN")>>)
      /\ IF good \/ exp_train_id = MAX_TRAIN - 1
         THEN r_pc' = "params" /\ UNCHANGED <<exp_train_id, rcvd, bad_train, pack_id>>
         ELSE BeginTrain(exp_train_id + 1)
      /\ UNCHANGED <<notReceiver, crashes, udp, fleetVars>>
    BY DEF EndOfTrain
<1> HIDE DEF good
<1>2. backlog' = "none" /\ backlog = "none" /\ toRcv' \in Seq(Words) /\ toSnd' \in Seq(Words)
      /\ link' \in {"none", "open", "fin", "resetting", "left"}
      /\ (setup.in_order => udp = {})
  <2>1. <<Word("GOOD_TRAIN")>> \in Seq(Words) /\ <<Word("BAD_TRAIN")>> \in Seq(Words)
      BY WordTypes, WordSequences DEF Codes
  <2>2. <<Word(IF good THEN "GOOD_TRAIN" ELSE "BAD_TRAIN")>> \in Seq(Words)
      BY <2>1
  <2> QED
      BY <1>1, <2>2, ReceiverSendsEffect, ReceiverReadsEffect DEF DataInv
<1>3. ReceiverOK'
  <2>1. arrv_tv' \in [0..TRAIN_LEN+1 -> Packets \cup {NoPacket, Stamp}]
      BY <1>1, StampEndType DEF DataInv
  <2>2. r_pc' \in {"params", "train"} /\ exp_train_id' \in 0..MAX_TRAIN-1
        /\ rcvd' \in 0..TRAIN_LEN+1 /\ bad_train' \in BOOLEAN
        /\ pack_id' \in Nat \cup {-1}
    <3>1. CASE good \/ exp_train_id = MAX_TRAIN - 1
        BY <1>1, <3>1 DEF DataInv, ReceiverOK
    <3>2. CASE ~(good \/ exp_train_id = MAX_TRAIN - 1)
        BY <1>1, <3>2, ConstantFacts DEF DataInv, ReceiverOK, BeginTrain
    <3> QED
        BY <3>1, <3>2
  <2> QED
      BY <1>1, <2>1, <2>2 DEF DataInv, ReceiverOK, fleetVars, streamVars
<1>4. PathOK' /\ OldGone'
    BY <1>1, <1>2, PathShrinks DEF notReceiver
<1> QED
    BY <1>1, <1>2, <1>3, <1>4, ReceiverStep DEF DataInv, SessionOK

\* The receiver answers the latency and the ends of trains and streams, and asks.
LEMMA AnswersWhen ==
    AboutToSend => r_pc \in {"params", "latency", "train", "stream"}
<1>1. ASSUME NEW i \in 1..3
      PROVE  <<"latency", "train", "stream">>[i] \in {"latency", "train", "stream"}
  <2>1. i = 1 \/ i = 2 \/ i = 3
      OBVIOUS
  <2> QED
      BY <2>1
<1> QED
    BY <1>1 DEF AboutToSend

\* The ways a receiver ends keep the samples.
LEMMA ExitsData ==
    DataInv /\ (ReceiverDies \/ EndSearch \/ TrainPacketInFleet \/ Alarm \/ Crash)
        => DataInv'
<1> SUFFICES ASSUME DataInv, ReceiverDies \/ EndSearch \/ TrainPacketInFleet \/ Alarm \/ Crash
             PROVE  DataInv'
    OBVIOUS
<1>1. Word("TERMINATE") \in Words /\ <<>> \in Seq(Words)
    BY WordTypes, WordSequences DEF Codes
<1>2. PICK words \in Seq(Words) : ReceiverExits(words)
  <2>1. CASE ReceiverDies \/ TrainPacketInFleet \/ Crash
      BY <1>1, <2>1 DEF ReceiverDies, TrainPacketInFleet, Crash
  <2>2. CASE EndSearch
    <3>1. \A n \in 1..2 : [i \in 1..n |-> Word("TERMINATE")] \in Seq(Words)
        BY <1>1
    <3> QED
        BY <2>2, <3>1 DEF EndSearch
  <2>3. CASE Alarm
    <3>1. <<Word("TERMINATE")>> \in Seq(Words)
        BY <1>1
    <3> QED
        BY <2>3, <3>1, ParamsType DEF Alarm
  <2> QED
      BY <2>1, <2>2, <2>3
<1>3. Listening
    BY AnswersWhen
       DEF ReceiverDies, EndSearch, TrainPacketInFleet, Alarm, Crash, Listening, Gone
<1>4. UNCHANGED <<notReceiver, trainVars, fleetVars>>
    BY DEF ReceiverDies, EndSearch, TrainPacketInFleet, Alarm, Crash
<1>5. crashes \in Nat
    BY DEF DataInv, SessionOK
<1>6. crashes' \in Nat
  <2>1. CASE Crash
      BY <1>5, <2>1 DEF Crash
  <2>2. CASE ~Crash
      BY <1>5, <2>2 DEF ReceiverDies, EndSearch, TrainPacketInFleet, Alarm
  <2> QED
      BY <2>1, <2>2
<1> QED
    BY <1>2, <1>3, <1>4, <1>6, ExitData

\* The receiver asks only for fleets the bound allows.
LEMMA AskForFleetData == DataInv /\ AskForFleet => DataInv'
<1> SUFFICES ASSUME DataInv, AskForFleet PROVE DataInv'
    OBVIOUS
<1>1. PICK slow \in BOOLEAN : r_slow' = slow /\ ReceiverSends(Params(slow))
    BY DEF AskForFleet
<1>2. /\ r_pc = "params" /\ exp_fleet_id < MaxFleets /\ r_pc' = "recv_fleet"
      /\ UNCHANGED <<notReceiver, crashes, udp, toRcv, trainVars, exp_fleet_id,
                     r_stream_cnt, lossy_stream, streamVars>>
    BY DEF AskForFleet
<1>3. Params(slow) \in Seq(Words)
    BY ParamsType
<1> DEFINE words == Params(slow)
<1> HIDE DEF words
<1>4. /\ toSnd' \in Seq(Words) /\ UNCHANGED <<backlog, link>>
      /\ link' \in {"none", "open", "fin", "resetting", "left"}
  <2>1. words \in Seq(Words) /\ ReceiverSends(words)
      BY <1>1, <1>3 DEF words
  <2> QED
      BY <2>1, ReceiverSendsEffect DEF DataInv
<1>5. ReceiverOK'
  <2>1. r_slow' \in BOOLEAN
      BY <1>1
  <2> QED
      BY <1>2, <2>1 DEF DataInv, ReceiverOK, trainVars, streamVars
<1>6. PathOK' /\ OldGone'
    BY <1>2, PathShrinks DEF notReceiver
<1>7. backlog' # "live" /\ (backlog' = "dead" => r_pc' = "exited")
    BY <1>2, <1>4 DEF DataInv, SessionOK
<1>8. toRcv' \in Seq(Words)
    BY <1>2 DEF DataInv, ChannelsOK
<1> QED
    BY <1>2, <1>4, <1>5, <1>6, <1>7, <1>8, ReceiverStep DEF DataInv, SessionOK

\* RECV_FLEET starts the first stream of the fleet that was asked for.
LEMMA AwaitRecvFleetData == DataInv /\ AwaitRecvFleet => DataInv'
<1> SUFFICES ASSUME DataInv, AwaitRecvFleet PROVE DataInv'
    OBVIOUS
<1>1. PICK word \in Range(toRcv) :
         /\ ReceiverReads(word)
         /\ toRcv' = SubSeq(toRcv, IF word = Word("FINISHED_STREAM") THEN 3 ELSE 2, Len(toRcv))
         /\ IF word = Word("RECV_FLEET")
            THEN r_stream_cnt' = 0 /\ lossy_stream' = 0 /\ ExpectStream
            ELSE UNCHANGED <<r_pc, r_stream_cnt, lossy_stream, streamVars>>
    BY DEF AwaitRecvFleet
<1>2. /\ r_pc = "recv_fleet"
      /\ UNCHANGED <<notReceiver, crashes, backlog, link, toSnd, udp, trainVars,
                     exp_fleet_id, r_slow>>
    BY DEF AwaitRecvFleet
<1>3. toRcv' \in Seq(Words) /\ backlog = "none"
    BY <1>1, ReceiverReadsEffect DEF DataInv
<1>4. ReceiverOK' /\ r_pc' \in {"recv_fleet", "stream"}
  <2>1. CASE word = Word("RECV_FLEET")
      BY <1>1, <1>2, <2>1, ConstantFacts
         DEF DataInv, ReceiverOK, ExpectStream, NoStamps, trainVars
  <2>2. CASE word # Word("RECV_FLEET")
      BY <1>1, <1>2, <2>2 DEF DataInv, ReceiverOK, trainVars, streamVars
  <2> QED
      BY <2>1, <2>2
<1>5. PathOK' /\ OldGone'
    BY <1>2, PathShrinks DEF notReceiver
<1> QED
    BY <1>2, <1>3, <1>4, <1>5, ReceiverStep DEF DataInv, SessionOK, ChannelsOK

\* A packet is counted only into a cell of the stream, and what lies between it and
\* the last one is lost.
LEMMA ReadStreamPacketData == DataInv /\ ReadStreamPacket => DataInv'
<1> SUFFICES ASSUME DataInv, ReadStreamPacket PROVE DataInv'
    OBVIOUS
<1>1. PICK p \in udp :
         /\ udp' = udp \ {p}
         /\ IF p[2] = 2 /\ p[3] = exp_fleet_id /\ p[4] = r_stream_cnt /\ p[5] >= exp_pkt_id
            THEN /\ snd_tv' = [snd_tv EXCEPT ![p[5]] = p]
                 /\ pkt_lost' = pkt_lost + (p[5] - exp_pkt_id)
                 /\ exp_pkt_id' = p[5] + 1
            ELSE UNCHANGED streamVars
    BY DEF ReadStreamPacket, Readable
<1>2. /\ r_pc = "stream"
      /\ UNCHANGED <<notReceiver, crashes, r_pc, backlog, link, toRcv, toSnd, trainVars,
                     exp_fleet_id, r_stream_cnt, lossy_stream, r_slow>>
    BY DEF ReadStreamPacket
<1>3. p \in Packets /\ (p[2] = 2 => p[5] \in 0..StreamLen-1)
    BY DEF DataInv, PathOK
<1>4. /\ exp_pkt_id' \in 0..StreamLen /\ pkt_lost' \in 0..StreamLen
      /\ snd_tv' \in [0..StreamLen-1 -> Packets \cup {NoPacket}]
      /\ pkt_lost' <= exp_pkt_id'
  <2>1. /\ exp_pkt_id \in 0..StreamLen /\ pkt_lost \in 0..StreamLen
        /\ snd_tv \in [0..StreamLen-1 -> Packets \cup {NoPacket}]
        /\ pkt_lost <= exp_pkt_id
      BY <1>2 DEF DataInv, ReceiverOK
  <2>2. CASE p[2] = 2 /\ p[3] = exp_fleet_id /\ p[4] = r_stream_cnt /\ p[5] >= exp_pkt_id
    <3>1. /\ snd_tv' = [snd_tv EXCEPT ![p[5]] = p]
          /\ pkt_lost' = pkt_lost + (p[5] - exp_pkt_id)
          /\ exp_pkt_id' = p[5] + 1
        BY <1>1, <2>2
    <3>2. p[5] \in 0..StreamLen-1 /\ p[5] >= exp_pkt_id
        BY <1>3, <2>2
    <3> QED
        BY <1>3, <2>1, <3>1, <3>2, ConstantFacts
  <2>3. CASE ~(p[2] = 2 /\ p[3] = exp_fleet_id /\ p[4] = r_stream_cnt /\ p[5] >= exp_pkt_id)
    <3>1. UNCHANGED streamVars
        BY <1>1, <2>3
    <3> QED
        BY <2>1, <3>1 DEF streamVars
  <2> QED
      BY <2>2, <2>3
<1>5. ReceiverOK'
    BY <1>2, <1>4 DEF DataInv, ReceiverOK, trainVars
<1>6. PathOK' /\ OldGone'
    BY <1>1, <1>2, PathShrinks DEF notReceiver
<1> QED
    BY <1>2, <1>5, <1>6, ReceiverStep DEF DataInv, SessionOK, ChannelsOK

\* The losses at the end of a stream are packets of the stream.
LEMMA LossTypes ==
    ASSUME DataInv, r_pc = "stream"
    PROVE  LostInAll \in 0..StreamLen
    BY ConstantFacts DEF DataInv, ReceiverOK, LostInAll

\* What recv_fleet does at the end of the stream it waits for.
LEMMA EndOfStreamCases ==
    ASSUME DataInv, EndOfStream
    PROVE  \/ UNCHANGED <<r_pc, backlog, link, toSnd, fleetVars>>
           \/ /\ r_stream_cnt' = r_stream_cnt + 1
              /\ lossy_stream' \in {lossy_stream, lossy_stream + 1}
              /\ \E word \in {Word("ABORT_FLEET"), Word("CONTINUE_STREAM")} :
                    ReceiverSends(<<word>>)
              /\ \/ /\ r_pc' = "params" /\ exp_fleet_id' = exp_fleet_id + 1
                    /\ pkt_lost' = LostInAll /\ exp_pkt_id' = 0 /\ UNCHANGED snd_tv
                 \/ /\ r_stream_cnt + 1 # NumStream
                    /\ ExpectStream /\ UNCHANGED exp_fleet_id
              /\ UNCHANGED r_slow
    BY DEF EndOfStream

\* The end of a stream.
LEMMA EndOfStreamData == DataInv /\ EndOfStream => DataInv'
<1> SUFFICES ASSUME DataInv, EndOfStream PROVE DataInv'
    OBVIOUS
<1>1. /\ r_pc = "stream" /\ ReceiverReads(Word("FINISHED_STREAM"))
      /\ toRcv' = SubSeq(toRcv, 3, Len(toRcv))
      /\ UNCHANGED <<notReceiver, crashes, udp, trainVars>>
    BY DEF EndOfStream
<1>2. toRcv' \in Seq(Words) /\ backlog = "none"
    BY <1>1, ReceiverReadsEffect DEF DataInv
<1>3. PathOK' /\ OldGone'
    BY <1>1, PathShrinks DEF notReceiver
<1>4. CASE UNCHANGED <<r_pc, backlog, link, toSnd, fleetVars>>
  <2>1. ReceiverOK'
      BY <1>1, <1>4 DEF DataInv, ReceiverOK, trainVars, fleetVars, streamVars
  <2> QED
      BY <1>1, <1>2, <1>3, <1>4, <2>1, ReceiverStep DEF DataInv, SessionOK, ChannelsOK
<1>5. CASE /\ r_stream_cnt' = r_stream_cnt + 1
           /\ lossy_stream' \in {lossy_stream, lossy_stream + 1}
           /\ \E word \in {Word("ABORT_FLEET"), Word("CONTINUE_STREAM")} :
                 ReceiverSends(<<word>>)
           /\ \/ /\ r_pc' = "params" /\ exp_fleet_id' = exp_fleet_id + 1
                 /\ pkt_lost' = LostInAll /\ exp_pkt_id' = 0 /\ UNCHANGED snd_tv
              \/ /\ r_stream_cnt + 1 # NumStream
                 /\ ExpectStream /\ UNCHANGED exp_fleet_id
           /\ UNCHANGED r_slow
  <2>1. /\ toSnd' \in Seq(Words) /\ UNCHANGED <<backlog, link>>
        /\ link' \in {"none", "open", "fin", "resetting", "left"}
    <3>1. \A word \in {Word("ABORT_FLEET"), Word("CONTINUE_STREAM")} : <<word>> \in Seq(Words)
        BY WordTypes, WordSequences DEF Codes
    <3> QED
        BY <1>5, <3>1, ReceiverSendsEffect DEF DataInv
  <2>2. /\ r_stream_cnt \in 0..NumStream-1 /\ lossy_stream \in 0..r_stream_cnt
        /\ exp_fleet_id \in 0..MaxFleets-1
      BY <1>1, ConstantFacts DEF DataInv, ReceiverOK
  <2>3. r_stream_cnt' \in 0..NumStream /\ lossy_stream' \in 0..r_stream_cnt'
      BY <1>5, <2>2, ConstantFacts
  <2>4. ReceiverOK' /\ r_pc' \in {"params", "stream"}
    <3>1. CASE /\ r_pc' = "params" /\ exp_fleet_id' = exp_fleet_id + 1
               /\ pkt_lost' = LostInAll /\ exp_pkt_id' = 0 /\ UNCHANGED snd_tv
        BY <1>1, <1>5, <2>2, <2>3, <3>1, LossTypes, ConstantFacts
           DEF DataInv, ReceiverOK, trainVars
    <3>2. CASE r_stream_cnt + 1 # NumStream /\ ExpectStream /\ UNCHANGED exp_fleet_id
        BY <1>1, <1>5, <2>2, <2>3, <3>2, ConstantFacts
           DEF DataInv, ReceiverOK, trainVars, ExpectStream, NoStamps
    <3> QED
        BY <1>5, <3>1, <3>2
  <2> QED
      BY <1>1, <1>2, <1>3, <2>1, <2>4, ReceiverStep DEF DataInv, SessionOK
<1> QED
    BY <1>4, <1>5, EndOfStreamCases

-----------------------------------------------------------------------------
(* The invariant holds, and with it the types.                             *)

\* Nothing has happened at first.
LEMMA InitData == Init => DataInv
<1> SUFFICES ASSUME Init PROVE DataInv
    OBVIOUS
<1>1. setup \in SetupType
    BY SetupAssumption DEF Init
<1>2. SenderOK
  <2>1. done \in BOOLEAN /\ s_slow \in BOOLEAN
      BY DEF Init
  <2>2. setup.outages \in Nat
      BY <1>1 DEF SetupType
  <2> QED
      BY <2>1, <2>2, ConstantFacts DEF Init, SenderOK, CONTROL
<1>3. ChannelsOK
    BY DEF Init, ChannelsOK
<1>4. SessionOK
    BY <1>1, ConstantFacts DEF Init, SessionOK, SetupType
<1>5. ReceiverOK
    BY ConstantFacts DEF Init, ReceiverOK, NoArrivals, NoStamps
<1>6. PathOK /\ OldGone
    BY DEF Init, PathOK, OldGone
<1> QED
    BY <1>2, <1>3, <1>4, <1>5, <1>6 DEF DataInv

\* Every step keeps the invariant.
LEMMA NextData == DataInv /\ [Next]_vars => DataInv'
<1> SUFFICES ASSUME DataInv, [Next]_vars PROVE DataInv'
    OBVIOUS
<1>1. CASE SenderNext
    BY <1>1, AcceptData, GetSizeData, GetAdrRequestData, SendTrainData, GetVerdictData,
       GetRateData, GetParamData, GetOrderData, SendStreamData, GetAnswerData
       DEF SenderNext
<1>2. CASE ReceiverNext
    BY <1>2, SizeAlarmData, ReceiverGetSizeData, ReceiverGetLatencyData,
       ReadTrainPacketData, EndOfTrainData, ExitsData, AskForFleetData,
       AwaitRecvFleetData, ReadStreamPacketData, EndOfStreamData
       DEF ReceiverNext
<1>3. CASE ReceiverStart \/ Crash
    BY <1>3, ReceiverStartData, ExitsData
<1>4. CASE UNCHANGED vars
  <2> USE <1>4 DEF vars, notSender, rcvVars, trainVars, fleetVars, streamVars, sndData
  <2>1. SenderOK' /\ ChannelsOK'
      BY DEF DataInv, SenderOK, ChannelsOK
  <2>2. SessionOK'
      BY DEF DataInv, SessionOK, Served
  <2>3. ReceiverOK'
      BY DEF DataInv, ReceiverOK
  <2>4. PathOK' /\ OldGone'
      BY DEF DataInv, PathOK, OldGone
  <2> QED
      BY <2>1, <2>2, <2>3, <2>4 DEF DataInv
<1> QED
    BY <1>1, <1>2, <1>3, <1>4 DEF Next

\* The invariant holds in every reachable state.
LEMMA DataInvariant == Spec => []DataInv
    BY InitData, NextData, PTL DEF Spec

\* No count of trains, fleets, streams, packets or losses leaves its range, and no
\* time stamp is written outside of its array, unless the program dies of it
\* (ReceiverDies, TrainPacketInFleet).
THEOREM TypeCorrect == Spec => []TypeOK
<1>1. DataInv => TypeOK
  <2> SUFFICES ASSUME DataInv PROVE TypeOK
      OBVIOUS
  <2>1. lossy_stream \in 0..NumStream
      BY ConstantFacts DEF DataInv, ReceiverOK
  <2>2. udp \subseteq Packets
      BY DEF DataInv, PathOK
  <2> QED
      BY <2>1, <2>2
         DEF DataInv, SenderOK, ChannelsOK, SessionOK, ReceiverOK, TypeOK
<1> QED
    BY <1>1, DataInvariant, PTL

-----------------------------------------------------------------------------
(* The time stamps and losses of a stream.                                 *)

\* While a receiver takes a stream, a step reads a packet, begins with the next
\* stream or has nothing to do with it.
LEMMA StreamSteps ==
    ASSUME [Next]_vars, r_pc' = "stream"
    PROVE  /\ UNCHANGED <<setup, session>>
           /\ \/ ReadStreamPacket
              \/ UNCHANGED <<r_pc, exp_fleet_id, r_stream_cnt, streamVars>>
              \/ snd_tv' = NoStamps /\ exp_pkt_id' = 0 /\ pkt_lost' = 0
<1> USE DEF notSender, notReceiver, rcvVars, fleetVars
<1>1. CASE SenderNext
    BY <1>1 DEF SenderNext, Accept, GetSize, GetAdrRequest, SendTrain, GetVerdict,
                GetRate, GetParam, GetOrder, SendStream, GetAnswer
<1>2. CASE ReceiverNext
  <2>1. CASE SizeAlarm \/ ReceiverDies \/ EndSearch \/ TrainPacketInFleet \/ Alarm
      BY <2>1 DEF SizeAlarm, ReceiverDies, EndSearch, TrainPacketInFleet, Alarm,
                  ReceiverExits
  <2>2. CASE ReceiverGetSize \/ ReceiverGetLatency \/ ReadTrainPacket \/ AskForFleet
      BY <2>2 DEF ReceiverGetSize, ReceiverGetLatency, ReadTrainPacket, AskForFleet,
                  BeginTrain
  <2>3. CASE EndOfTrain
      BY <2>3 DEF EndOfTrain, BeginTrain
  <2>4. CASE AwaitRecvFleet
      BY <2>4 DEF AwaitRecvFleet, ExpectStream
  <2>5. CASE EndOfStream
      BY <2>5 DEF EndOfStream, ExpectStream
  <2>6. CASE ReadStreamPacket
      BY <2>6 DEF ReadStreamPacket
  <2> QED
      BY <1>2, <2>1, <2>2, <2>3, <2>4, <2>5, <2>6 DEF ReceiverNext
<1>3. CASE ReceiverStart \/ Crash
    BY <1>3 DEF ReceiverStart, Crash, ReceiverExits
<1>4. CASE UNCHANGED vars
    BY <1>4 DEF vars
<1> QED
    BY <1>1, <1>2, <1>3, <1>4 DEF Next

\* The packet that is stored is the one its cell is for.
LEMMA StoredPacket ==
    ASSUME DataInv, ReadStreamPacket
    PROVE  /\ UNCHANGED <<r_pc, setup, session, exp_fleet_id, r_stream_cnt>>
           /\ r_pc = "stream"
           /\ \/ UNCHANGED streamVars
              \/ \E p \in udp :
                   /\ p \in Packets /\ p[5] \in exp_pkt_id..StreamLen-1
                   /\ OwnPackets => p = StreamPacket(session, exp_fleet_id, r_stream_cnt, p[5])
                   /\ snd_tv' = [snd_tv EXCEPT ![p[5]] = p]
                   /\ pkt_lost' = pkt_lost + (p[5] - exp_pkt_id)
                   /\ exp_pkt_id' = p[5] + 1
<1>1. PICK p \in udp :
         /\ udp' = udp \ {p}
         /\ IF p[2] = 2 /\ p[3] = exp_fleet_id /\ p[4] = r_stream_cnt /\ p[5] >= exp_pkt_id
            THEN /\ snd_tv' = [snd_tv EXCEPT ![p[5]] = p]
                 /\ pkt_lost' = pkt_lost + (p[5] - exp_pkt_id)
                 /\ exp_pkt_id' = p[5] + 1
            ELSE UNCHANGED streamVars
    BY DEF ReadStreamPacket, Readable
<1>2. /\ r_pc = "stream"
      /\ UNCHANGED <<r_pc, setup, session, exp_fleet_id, r_stream_cnt>>
    BY DEF ReadStreamPacket, notReceiver
<1>3. /\ p \in Packets /\ p[1] \in 1..session
      /\ p[2] = 2 => p[5] \in 0..StreamLen-1
    BY DEF DataInv, PathOK
<1>4. OwnPackets => p[1] = session
    BY <1>2, <1>3 DEF DataInv, OldGone, OwnPackets
<1>5. CASE p[2] = 2 /\ p[3] = exp_fleet_id /\ p[4] = r_stream_cnt /\ p[5] >= exp_pkt_id
  <2>1. p = <<p[1], p[2], p[3], p[4], p[5]>>
      BY <1>3, PacketFacts
  <2>2. OwnPackets => p = StreamPacket(session, exp_fleet_id, r_stream_cnt, p[5])
      BY <1>4, <1>5, <2>1 DEF StreamPacket
  <2>3. exp_pkt_id \in Nat
      BY DEF DataInv, ReceiverOK
  <2>4. p[5] \in exp_pkt_id..StreamLen-1
      BY <1>3, <1>5, <2>3, ConstantFacts
  <2> QED
      BY <1>1, <1>2, <1>3, <1>5, <2>2, <2>4
<1> QED
    BY <1>1, <1>2, <1>5

\* The time stamps stay those of the stream.
LEMMA SamplesKept ==
    DataInv /\ SamplesOfOwnStream /\ [Next]_vars => SamplesOfOwnStream'
<1> SUFFICES ASSUME DataInv, SamplesOfOwnStream, [Next]_vars, r_pc' = "stream", OwnPackets',
                    NEW k \in DOMAIN snd_tv'
             PROVE  snd_tv'[k] \in
                      {NoPacket, StreamPacket(session', exp_fleet_id', r_stream_cnt', k)}
    BY DEF SamplesOfOwnStream
<1>1. UNCHANGED <<setup, session>> /\ OwnPackets
    BY StreamSteps DEF OwnPackets
<1>2. CASE ReadStreamPacket
  <2>1. CASE UNCHANGED streamVars
      BY <1>1, <1>2, <2>1, StoredPacket DEF SamplesOfOwnStream, streamVars
  <2>2. CASE ~UNCHANGED streamVars
    <3>1. PICK p \in udp :
             /\ p = StreamPacket(session, exp_fleet_id, r_stream_cnt, p[5])
             /\ snd_tv' = [snd_tv EXCEPT ![p[5]] = p]
        BY <1>1, <1>2, <2>2, StoredPacket
    <3>2. r_pc = "stream" /\ UNCHANGED <<session, exp_fleet_id, r_stream_cnt>>
        BY <1>2, StoredPacket
    <3>3. DOMAIN snd_tv' = DOMAIN snd_tv /\ snd_tv'[k] \in {snd_tv[k], p}
          /\ (k # p[5] => snd_tv'[k] = snd_tv[k])
        BY <3>1 DEF DataInv, ReceiverOK
    <3> QED
        BY <1>1, <3>1, <3>2, <3>3 DEF SamplesOfOwnStream
  <2> QED
      BY <2>1, <2>2
<1>3. CASE UNCHANGED <<r_pc, exp_fleet_id, r_stream_cnt, streamVars>>
    BY <1>1, <1>3 DEF SamplesOfOwnStream, streamVars
<1>4. CASE snd_tv' = NoStamps
    BY <1>4 DEF NoStamps
<1> QED
    BY <1>2, <1>3, <1>4, StreamSteps

\* recv_fleet, pathload-original-receiver-func.cc: the delays of a stream are those of
\* its own packets, of any number of receivers on a path that keeps the order, and of
\* the first receiver on any path.
THEOREM SamplesCorrect == Spec => []SamplesOfOwnStream
<1>1. Init => SamplesOfOwnStream
    BY DEF Init, SamplesOfOwnStream
<1> QED
    BY <1>1, SamplesKept, DataInvariant, PTL DEF Spec

\* The number of cells between two numbers.
LEMMA CellsBetween ==
    ASSUME NEW a \in Nat, NEW b \in Nat, a <= b
    PROVE  IsFiniteSet(a..b-1) /\ Cardinality(a..b-1) = b - a
<1>1. a \in Int /\ b - 1 \in Int
    OBVIOUS
<1>2. IsFiniteSet(a..b-1)
      /\ Cardinality(a..b-1) = IF a > b - 1 THEN 0 ELSE (b - 1) - a + 1
    BY <1>1, FS_Interval
<1> QED
    BY <1>2

\* A packet that comes leaves as many more cells without a stamp as it jumps over.
LEMMA JumpCounted ==
    ASSUME DataInv, LossCounted, r_pc = "stream", NEW p,
           p \in Packets, p[5] \in exp_pkt_id..StreamLen-1,
           snd_tv' = [snd_tv EXCEPT ![p[5]] = p],
           pkt_lost' = pkt_lost + (p[5] - exp_pkt_id),
           exp_pkt_id' = p[5] + 1
    PROVE  /\ pkt_lost' = Cardinality({k \in 0..exp_pkt_id'-1 : snd_tv'[k] = NoPacket})
           /\ \A k \in exp_pkt_id'..StreamLen-1 : snd_tv'[k] = NoPacket
<1> DEFINE Old  == {k \in 0..exp_pkt_id-1 : snd_tv[k] = NoPacket}
           Jump == exp_pkt_id..p[5]-1
           New  == {k \in 0..exp_pkt_id'-1 : snd_tv'[k] = NoPacket}
<1>1. exp_pkt_id \in Nat /\ p[5] \in Nat /\ exp_pkt_id <= p[5] /\ p[5] < StreamLen
      /\ snd_tv \in [0..StreamLen-1 -> Packets \cup {NoPacket}]
    BY ConstantFacts DEF DataInv, ReceiverOK
<1>2. p # NoPacket
    BY PacketFacts
<1>3. pkt_lost = Cardinality(Old) /\ \A k \in exp_pkt_id..StreamLen-1 : snd_tv[k] = NoPacket
    BY DEF LossCounted
<1>4. \A k \in 0..StreamLen-1 : snd_tv'[k] = IF k = p[5] THEN p ELSE snd_tv[k]
    BY <1>1
<1>5. New = Old \cup Jump
  <2>1. \A k \in New : k \in Old \cup Jump
    <3> SUFFICES ASSUME NEW k \in New PROVE k \in Old \cup Jump
        OBVIOUS
    <3>1. k \in 0..p[5] /\ snd_tv'[k] = NoPacket /\ k \in 0..StreamLen-1
        BY <1>1, ConstantFacts
    <3>2. k # p[5] /\ snd_tv[k] = NoPacket
        BY <1>2, <1>4, <3>1
    <3> QED
        BY <1>1, <3>1, <3>2
  <2>2. \A k \in Old : k \in New
    <3> SUFFICES ASSUME NEW k \in Old PROVE k \in New
        OBVIOUS
    <3>1. k \in 0..exp_pkt_id-1 /\ snd_tv[k] = NoPacket
        OBVIOUS
    <3>2. k \in 0..StreamLen-1 /\ k # p[5] /\ k \in 0..exp_pkt_id'-1
        BY <1>1, <3>1, ConstantFacts
    <3> QED
        BY <1>4, <3>1, <3>2
  <2>3. \A k \in Jump : k \in New
    <3> SUFFICES ASSUME NEW k \in Jump PROVE k \in New
        OBVIOUS
    <3>1. k \in exp_pkt_id..StreamLen-1 /\ k # p[5]
          /\ k \in 0..StreamLen-1 /\ k \in 0..exp_pkt_id'-1
        BY <1>1, ConstantFacts
    <3> QED
        BY <1>3, <1>4, <3>1
  <2> QED
      BY <2>1, <2>2, <2>3
<1>6. IsFiniteSet(Old)
  <2>1. IsFiniteSet(0..exp_pkt_id-1) /\ Old \subseteq 0..exp_pkt_id-1
      BY <1>1, CellsBetween
  <2> QED
      BY <2>1, FS_Subset
<1>7. IsFiniteSet(Jump) /\ Cardinality(Jump) = p[5] - exp_pkt_id
    BY <1>1, CellsBetween
<1>8. Old \cap Jump = {} /\ Cardinality(Old \cap Jump) = 0
  <2>1. Old \cap Jump = {}
      BY <1>1
  <2> QED
      BY <2>1, FS_EmptySet
<1>9. Cardinality(Old) \in Nat
    BY <1>6, FS_CardinalityType
<1>10. Cardinality(New) = Cardinality(Old) + (p[5] - exp_pkt_id)
  <2> HIDE DEF Old, Jump, New
  <2>1. Cardinality(Old \cup Jump) =
           Cardinality(Old) + Cardinality(Jump) - Cardinality(Old \cap Jump)
      BY <1>6, <1>7, FS_Union
  <2> QED
      BY <1>1, <1>5, <1>7, <1>8, <1>9, <2>1
<1>11. \A k \in exp_pkt_id'..StreamLen-1 : snd_tv'[k] = NoPacket
  <2> SUFFICES ASSUME NEW k \in exp_pkt_id'..StreamLen-1 PROVE snd_tv'[k] = NoPacket
      OBVIOUS
  <2>1. k \in exp_pkt_id..StreamLen-1 /\ k # p[5] /\ k \in 0..StreamLen-1
      BY <1>1, ConstantFacts
  <2> QED
      BY <1>3, <1>4, <2>1
<1> QED
    BY <1>3, <1>10, <1>11

\* The count of losses stays that of the cells without a stamp.
LEMMA LossKept ==
    DataInv /\ LossCounted /\ [Next]_vars => LossCounted'
<1> SUFFICES ASSUME DataInv, LossCounted, [Next]_vars, r_pc' = "stream"
             PROVE  /\ pkt_lost' = Cardinality({k \in 0..exp_pkt_id'-1 : snd_tv'[k] = NoPacket})
                    /\ \A k \in exp_pkt_id'..StreamLen-1 : snd_tv'[k] = NoPacket
    BY DEF LossCounted
<1>1. CASE ReadStreamPacket /\ ~UNCHANGED streamVars
  <2>1. PICK p \in udp :
           /\ p \in Packets /\ p[5] \in exp_pkt_id..StreamLen-1
           /\ snd_tv' = [snd_tv EXCEPT ![p[5]] = p]
           /\ pkt_lost' = pkt_lost + (p[5] - exp_pkt_id)
           /\ exp_pkt_id' = p[5] + 1
      BY <1>1, StoredPacket
  <2>2. r_pc = "stream"
      BY <1>1, StoredPacket
  <2> QED
      BY <2>1, <2>2, JumpCounted
<1>2. CASE r_pc = "stream" /\ UNCHANGED streamVars
    BY <1>2 DEF LossCounted, streamVars
<1>3. CASE snd_tv' = NoStamps /\ exp_pkt_id' = 0 /\ pkt_lost' = 0
  <2>1. {k \in 0..exp_pkt_id'-1 : snd_tv'[k] = NoPacket} = {}
      BY <1>3
  <2>2. Cardinality({}) = 0
      BY FS_EmptySet
  <2>3. \A k \in 0..StreamLen-1 : snd_tv'[k] = NoPacket
      BY <1>3 DEF NoStamps
  <2> QED
      BY <1>3, <2>1, <2>2, <2>3
<1> QED
    BY <1>1, <1>2, <1>3, StreamSteps, StoredPacket

\* recv_fleet adds up the losses of a stream packet by packet; at any time the sum is
\* the number of cells without a time stamp up to the last packet that came.
THEOREM LossCorrect == Spec => []LossCounted
<1>1. Init => LossCounted
    BY DEF Init, LossCounted
<1> QED
    BY <1>1, LossKept, DataInvariant, PTL DEF Spec
=============================================================================
