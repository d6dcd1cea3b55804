-------------------------- MODULE OriginalControl --------------------------
(***************************************************************************)
(* The original programs pathload_snd and pathload_rcv, as two processes   *)
(* that exchange control words over TCP and probe packets over UDP: the    *)
(* handshake, the packet trains get_adr asks for, and the fleets the rate  *)
(* search asks for, with lost packets, aborted fleets, receivers that are  *)
(* killed or run into their alarm, and a sender that serves one receiver   *)
(* after another.                                                          *)
(*                                                                         *)
(* What the rate search and the trend of a stream decide (RateAdjustment,  *)
(* TrendMetrics) is left open: after every stream the receiver may abort    *)
(* the fleet, after every fleet it may end.                                *)
(***************************************************************************)
EXTENDS Integers, Sequences, FiniteSets, Functions

CONSTANTS
    Setups,             \* the situations looked at, see SetupType
    MAX_TRAIN,          \* trains the receiver is ready to ask for (5)
    TRAIN_LEN,          \* last packet id of the first train (50)
    TrainCut,           \* packets the next train is shorter by (15)
    NumStream,          \* streams of a fleet (12)
    StreamLen,          \* packets of a stream (100)
    HIGH_LOSS_RATE,     \* per cent lost that abort a fleet (15)
    MEDIUM_LOSS_RATE,   \* per cent lost that make a stream lossy (3)
    LatencyProbes,      \* packets recvfrom_latency sends to itself (50)
    MaxFleets,          \* bound: fleets the search of one receiver may take
    MaxSessions         \* bound: receivers that are started one after another

\* iterate and timed are the options -i of the sender and -t of the receiver.
\* The path loses up to `losses` packets of one train or stream and keeps the
\* order or not. crashes and outages bound how often a receiver is killed and
\* how often the network is down for longer than the sender waits.
SetupType ==
    [iterate : BOOLEAN, timed : BOOLEAN, in_order : BOOLEAN,
     losses : Nat, crashes : Nat, outages : Nat]

\* train_len of a train: shorter every time, 3 after 5.
TrainLen(id) ==
    IF id > 0 /\ TRAIN_LEN - (id - 1) * TrainCut = 5
    THEN 3 ELSE TRAIN_LEN - id * TrainCut

ASSUME SetupAssumption == Setups \subseteq SetupType
ASSUME TrainAssumption ==
    /\ MAX_TRAIN \in Nat \ {0} /\ TRAIN_LEN \in Nat /\ TrainCut \in Nat
    /\ \A id \in 0..MAX_TRAIN-1 : TrainLen(id) \in 1..TRAIN_LEN
ASSUME FleetAssumption ==
    /\ NumStream \in Nat \ {0} /\ StreamLen \in Nat \ {0}
    /\ HIGH_LOSS_RATE \in Nat /\ MEDIUM_LOSS_RATE \in Nat
    /\ 0 < MEDIUM_LOSS_RATE /\ MEDIUM_LOSS_RATE < HIGH_LOSS_RATE
    /\ LatencyProbes \in Nat \ {0} /\ MaxFleets \in Nat \ {0} /\ MaxSessions \in Nat \ {0}

MAX_LOSSY_STREAM_FRACTION == 50

VARIABLES
    setup, crashes, outages,
    session,        \* the receivers started so far
    backlog,        \* a connection the sender has not accepted: "none", "live",
                    \* "dead" if its receiver is gone already
    link,           \* the connection the sender serves, as its kernel knows it
    toRcv, toSnd,   \* control words under way
    udp,            \* probe packets under way or in the receiver's socket
    \* the sender
    s_pc, s_word, done, train_id, fleet_id, s_stream_cnt, s_slow,
    \* the receiver
    r_pc, exp_train_id, rcvd, bad_train, pack_id, arrv_tv,
    exp_fleet_id, r_stream_cnt, exp_pkt_id, pkt_lost, lossy_stream, r_slow,
    snd_tv

sndData   == <<s_word, done, train_id, fleet_id, s_stream_cnt, s_slow>>
trainVars == <<exp_train_id, rcvd, bad_train, pack_id, arrv_tv>>
streamVars == <<exp_pkt_id, pkt_lost, snd_tv>>
fleetVars == <<exp_fleet_id, r_stream_cnt, lossy_stream, r_slow, streamVars>>
rcvVars   == <<r_pc, trainVars, fleetVars>>
\* What a step of the one process leaves alone of the other.
notSender   == <<setup, crashes, session, backlog, rcvVars>>
notReceiver == <<setup, outages, session, s_pc, sndData>>
vars == <<notSender, outages, s_pc, sndData, link, toRcv, toSnd, udp>>
-----------------------------------------------------------------------------
(* Words and packets.                                                      *)

\* A control word: a code, or a number that stands for what it tells. Of a number
\* n matters in "ID", the stream, and in "T", 1 for a stream of half a second or more.
Word(op)      == [op |-> op, n |-> 0]
Number(op, n) == [op |-> op, n |-> n]

Codes   == {"SEND_TRAIN", "GOOD_TRAIN", "BAD_TRAIN", "FINISHED_TRAIN", "SEND_FLEET",
            "RECV_FLEET", "FINISHED_STREAM", "CONTINUE_STREAM", "ABORT_FLEET",
            "TERMINATE"}
Numbers == {"SIZE", "LATENCY", "R", "L", "K", "T", "ID"}
Words   == [op : Codes \cup Numbers, n : Nat]

\* What recv_ctr_mesg of the sender returns besides: the word 0 when the
\* connection was closed, -1 when nothing came for 50 seconds or it was reset.
EOF  == Word("EOF")
Fail == Word("FAIL")

\* A packet <<session, phase, id, stream, packet>> carries the last three: phase 0
\* is the receiver's own random data, 1 a train (the id is that of the train,
\* there is no stream), 2 a stream (the id is that of the fleet).
Packets == Nat \X (0..2) \X Nat \X Nat \X Nat
NoPacket == <<>>
Stamp == <<0>>              \* the end of a train, stored behind its last packet

\* The session of the receiver the sender serves.
Served == IF backlog = "none" THEN session ELSE session - 1
TrainPacket(s, id, k)       == <<s, 1, id, 0, k>>
StreamPacket(s, id, cnt, k) == <<s, 2, id, cnt, k>>

SentBefore(q, p) ==
    \E i \in 1..5 : q[i] < p[i] /\ \A j \in 1..i-1 : q[j] = p[j]

\* Packets that can be the next one the receiver reads.
Readable == {p \in udp : setup.in_order => \A q \in udp : ~SentBefore(q, p)}

\* word is the next control word. On a path that keeps the order a receiver that
\* takes probe packets has read those that were sent before the word.
ReceiverReads(word) ==
    /\ backlog = "none" /\ toRcv # <<>>
    /\ setup.in_order /\ r_pc \in {"train", "stream"} => udp = {}
    /\ word = Head(toRcv)

NoArrivals == [k \in 0..TRAIN_LEN+1 |-> NoPacket]       \* all zero
NoStamps   == [k \in 0..StreamLen-1 |-> NoPacket]

Gone == {"off", "exited"}
Listening == r_pc \notin Gone           \* the receiver's UDP port is open

\* The packets get through, except for some; nobody gets them on a closed port.
Probe(packets) ==
    IF Listening
    THEN \E lost \in SUBSET packets :
            /\ Cardinality(lost) <= setup.losses
            /\ udp' = udp \cup (packets \ lost)
    ELSE UNCHANGED udp
-----------------------------------------------------------------------------
Init ==
    /\ setup \in Setups
    /\ crashes = setup.crashes /\ outages = setup.outages
    /\ session = 0 /\ backlog = "none" /\ link = "none"
    /\ toRcv = <<>> /\ toSnd = <<>> /\ udp = {}
    /\ s_pc = "accept" /\ s_word = 1 /\ done = FALSE
    /\ train_id = 0 /\ fleet_id = 0 /\ s_stream_cnt = 0 /\ s_slow = FALSE
    /\ r_pc = "off"
    /\ exp_train_id = 0 /\ rcvd = 0 /\ bad_train = FALSE /\ pack_id = -1
    /\ arrv_tv = NoArrivals
    /\ exp_fleet_id = 0 /\ r_stream_cnt = 0 /\ lossy_stream = 0 /\ r_slow = FALSE
    /\ exp_pkt_id = 0 /\ pkt_lost = 0 /\ snd_tv = NoStamps
-----------------------------------------------------------------------------
(* The sender. Its program counter is what it is about to do: wait for a    *)
(* connection or a word, or send.                                           *)

\* The program ends.
SenderExits == s_pc' = "exited" /\ link' = "none"

\* close(ctr_strm) and the end of the outer loop.
Hangup ==
    /\ s_pc' = IF setup.iterate THEN "accept" ELSE "exited"
    /\ link' = "none"

\* Words nobody will read are dropped. The first of them makes the other end reset
\* the connection; a word sent after that raises SIGPIPE.
SenderSends(words, next) ==
    \/ /\ link = "open"
       /\ toRcv' = toRcv \o words /\ s_pc' = next
       /\ UNCHANGED link
    \/ /\ link \in {"fin", "resetting"}
       /\ link' = "resetting" /\ s_pc' = next
       /\ UNCHANGED toRcv
    \/ /\ link = "resetting" \/ (link = "fin" /\ Len(words) > 1)
       /\ SenderExits
       /\ UNCHANGED toRcv

NeverGivesUp == FALSE                                   \* mutant of NothingWillCome

\* Nobody is going to send the sender a word.
NothingWillCome ==
    toRcv = <<>> /\ r_pc \in {"latency", "train", "recv_fleet", "stream"}

\* The sender waits at pc, and recv_ctr_mesg returns word. It fails on a connection
\* that was reset, when nothing is going to come, or during an outage.
SenderReads(pc, word) ==
    /\ s_pc = pc
    /\ \/ /\ toSnd # <<>>
          /\ word = Head(toSnd) /\ toSnd' = Tail(toSnd)
          /\ UNCHANGED outages
       \/ /\ toSnd = <<>>
          /\ \/ link \in {"fin", "resetting"} /\ word = EOF
             \/ link = "resetting" /\ word = Fail
             \/ link = "open" /\ NothingWillCome /\ word = Fail
          /\ UNCHANGED <<toSnd, outages>>
       \/ /\ link = "open" /\ outages > 0
          /\ word = Fail /\ outages' = outages - 1
          /\ UNCHANGED toSnd

Readings == Range(toSnd) \cup {EOF, Fail}

\* accept, and the sender tells its packet size. A receiver that had gone by then
\* may have left its TERMINATE.
Accept ==
    /\ s_pc = "accept"
    /\ \/ /\ backlog = "live" /\ link' = "open"
          /\ toRcv' = <<Word("SIZE")>> /\ toSnd' = <<>>
       \/ /\ backlog = "dead" /\ link' = "resetting"
          /\ toRcv' = <<>> /\ toSnd' \in {<<>>, <<Word("TERMINATE")>>}
    /\ backlog' = "none" /\ s_pc' = "size"
    /\ UNCHANGED <<setup, crashes, session, rcvVars, outages, udp, sndData>>

\* The receiver's packet size. Without one recv_ctr_mesg is called again; with 0
\* or a negative one send_latency cannot allocate its packet and exits.
GetSize ==
    /\ \E word \in Readings :
         /\ SenderReads("size", word)
         /\ \/ word = Fail /\ UNCHANGED <<s_pc, link, toRcv>>
            \/ word = Word("SIZE") /\ SenderSends(<<Word("LATENCY")>>, "adr")
            \/ word \notin {Fail, Word("SIZE")} /\ SenderExits /\ UNCHANGED toRcv
    /\ UNCHANGED <<notSender, udp, sndData>>

\* The loop over the fleets, which `done` ends at once.
BeginFleets ==
    /\ fleet_id' = 0 /\ s_word' = 1
    /\ \/ done /\ Hangup
       \/ ~done /\ s_pc' = "rate" /\ UNCHANGED link

\* SEND_TRAIN starts the trains; without any answer the program ends, also one
\* that was to go on with the next receiver.
GetAdrRequest ==
    /\ \E word \in Readings :
         /\ SenderReads("adr", word)
         /\ \/ /\ word = Fail
               /\ SenderExits /\ UNCHANGED <<train_id, fleet_id, s_word>>
            \/ /\ word = Word("SEND_TRAIN")
               /\ s_pc' = "train" /\ train_id' = 0
               /\ UNCHANGED <<link, fleet_id, s_word>>
            \/ /\ word \notin {Fail, Word("SEND_TRAIN")}
               /\ BeginFleets /\ UNCHANGED train_id
    /\ UNCHANGED <<notSender, udp, toRcv, done, s_stream_cnt, s_slow>>

\* A packet train and FINISHED_TRAIN.
SendTrain ==
    /\ s_pc = "train"
    /\ Probe({TrainPacket(Served, train_id, k) : k \in 0..TrainLen(train_id)})
    /\ SenderSends(<<Word("FINISHED_TRAIN")>>, "verdict")
    /\ UNCHANGED <<notSender, outages, toSnd, sndData>>

MoreTrainsLessOne == train_id + 2 < MAX_TRAIN - 1       \* mutant of MoreTrains

\* The sender asked for another train sends one, MAX_TRAIN-1 in all.
MoreTrains == train_id + 1 < MAX_TRAIN - 1

\* BAD_TRAIN asks for a shorter train. Without an answer the sender turns to the
\* next receiver and leaves the connection open.
GetVerdict ==
    /\ \E word \in Readings :
         /\ SenderReads("verdict", word)
         /\ \/ /\ word = Fail
               /\ \/ setup.iterate /\ s_pc' = "accept" /\ link' = "left"
                  \/ ~setup.iterate /\ SenderExits
               /\ UNCHANGED <<train_id, fleet_id, s_word>>
            \/ /\ word = Word("BAD_TRAIN") /\ MoreTrains
               /\ s_pc' = "train" /\ train_id' = train_id + 1
               /\ UNCHANGED <<link, fleet_id, s_word>>
            \/ /\ word # Fail /\ ~(word = Word("BAD_TRAIN") /\ MoreTrains)
               /\ BeginFleets /\ UNCHANGED train_id
    /\ UNCHANGED <<notSender, udp, toRcv, done, s_stream_cnt, s_slow>>

\* The first word of a fleet: its rate, or TERMINATE.
GetRate ==
    /\ \E word \in Readings :
         /\ SenderReads("rate", word)
         /\ \/ /\ word = Word("TERMINATE")
               /\ done' = TRUE /\ Hangup /\ UNCHANGED s_word
            \/ word = Fail /\ Hangup /\ UNCHANGED <<done, s_word>>
            \/ /\ word \notin {Fail, Word("TERMINATE")}
               /\ s_pc' = "param" /\ s_word' = 2
               /\ UNCHANGED <<done, link>>
    /\ UNCHANGED <<notSender, udp, toRcv, train_id, fleet_id, s_stream_cnt, s_slow>>

\* The next three must be positive. 0 and every code are not.
GetParam ==
    /\ \E word \in Readings :
         /\ SenderReads("param", word)
         /\ \/ /\ word.op \notin Numbers
               /\ Hangup /\ UNCHANGED <<s_word, s_slow>>
            \/ /\ word.op \in Numbers
               /\ s_word' = s_word + 1
               /\ s_slow' = IF s_word = 4 THEN word.n = 1 ELSE s_slow
               /\ s_pc' = IF s_word = 4 THEN "order" ELSE "param"
               /\ UNCHANGED link
    /\ UNCHANGED <<notSender, udp, toRcv, done, train_id, fleet_id, s_stream_cnt>>

\* "Control code received just above should be SEND_FLEET", but any will do.
GetOrder ==
    /\ \E word \in Readings :
         /\ SenderReads("order", word)
         /\ \/ word = Fail /\ Hangup /\ UNCHANGED <<s_stream_cnt, toRcv>>
            \/ /\ word # Fail
               /\ \/ SenderSends(<<Word("RECV_FLEET")>>, "stream")
                  \/ link = "resetting" /\ Hangup /\ UNCHANGED toRcv
               /\ s_stream_cnt' = 0
    /\ UNCHANGED <<notSender, udp, s_word, done, train_id, fleet_id, s_slow>>

\* A stream, then FINISHED_STREAM and the stream's number, which the receiver reads
\* as one. By then a connection that was being reset is; and a closed port has
\* answered the first packets.
SendStream ==
    /\ s_pc = "stream"
    /\ \/ /\ link # "resetting"
          /\ Probe({StreamPacket(Served, fleet_id, s_stream_cnt, k) : k \in 0..StreamLen-1})
          /\ SenderSends(<<Word("FINISHED_STREAM"), Number("ID", s_stream_cnt)>>, "answer")
       \/ /\ link = "resetting"
          /\ Probe({StreamPacket(Served, fleet_id, s_stream_cnt, k) : k \in 0..StreamLen-1})
          /\ Hangup \/ SenderExits
          /\ UNCHANGED toRcv
       \/ ~Listening /\ Hangup /\ UNCHANGED <<udp, toRcv>>
    /\ UNCHANGED <<notSender, outages, toSnd, sndData>>

NextFleetSameId ==                                      \* mutant of NextFleet
    /\ s_pc' = "rate" /\ s_word' = 1
    /\ UNCHANGED <<fleet_id, link>>

\* The fleet is over and the next one may begin.
NextFleet ==
    /\ fleet_id' = fleet_id + 1 /\ s_pc' = "rate" /\ s_word' = 1
    /\ UNCHANGED link

LastStreamAnyLink(cnt) == cnt = NumStream               \* mutant of LastStream

\* On a slow link a fleet has one stream.
LastStream(cnt) == s_slow \/ cnt = NumStream

\* A word that is neither CONTINUE_STREAM nor ABORT_FLEET has the same stream sent
\* again.
GetAnswer ==
    /\ \E word \in Readings :
         /\ SenderReads("answer", word)
         /\ \/ /\ word = Fail
               /\ Hangup /\ UNCHANGED <<s_stream_cnt, fleet_id, s_word>>
            \/ /\ word = Word("ABORT_FLEET")
               /\ NextFleet /\ UNCHANGED s_stream_cnt
            \/ /\ word \notin {Fail, Word("ABORT_FLEET")}
               /\ s_stream_cnt' = IF word = Word("CONTINUE_STREAM")
                                  THEN s_stream_cnt + 1 ELSE s_stream_cnt
               /\ IF LastStream(s_stream_cnt')
                  THEN NextFleet
                  ELSE s_pc' = "stream" /\ UNCHANGED <<fleet_id, s_word, link>>
    /\ UNCHANGED <<notSender, udp, toRcv, done, train_id, s_slow>>
-----------------------------------------------------------------------------
(* The receiver.                                                            *)

\* The receiver's process ends, `words` being the last it wrote. Words it did not
\* read make its end reset the connection at once.
ReceiverExits(words) ==
    /\ r_pc' = "exited"
    /\ udp' = {} /\ toRcv' = <<>>
    /\ IF backlog = "live"
       THEN backlog' = "dead" /\ UNCHANGED <<link, toSnd>>
       ELSE /\ link' = IF link = "open"
                       THEN IF toRcv = <<>> THEN "fin" ELSE "resetting"
                       ELSE link
            /\ toSnd' = IF link = "open" THEN toSnd \o words ELSE toSnd
            /\ UNCHANGED backlog

\* Words on a connection the sender does not serve any more are lost. If it has
\* closed it, writing to it ends the receiver sooner or later.
ReceiverSends(words) ==
    /\ toSnd' = IF link = "open" THEN toSnd \o words ELSE toSnd
    /\ UNCHANGED <<backlog, link>>

ReceiverStart ==
    /\ r_pc \in Gone /\ session < MaxSessions
    /\ backlog = "none" /\ s_pc # "exited"
    /\ session' = session + 1 /\ backlog' = "live"
    /\ r_pc' = "size"
    /\ exp_fleet_id' = 0
    /\ UNCHANGED <<setup, crashes, outages, s_pc, sndData, link, toRcv, toSnd, udp,
                   trainVars, r_stream_cnt, lossy_stream, r_slow, streamVars>>

SizeAlarmTimed ==                                       \* mutant of SizeAlarm
    /\ setup.timed
    /\ r_pc = "size" /\ (backlog = "live" \/ toRcv = <<>>)
    /\ ReceiverExits(<<Word("TERMINATE")>>)
    /\ UNCHANGED <<notReceiver, crashes, trainVars, fleetVars>>

\* No packet size for 60 seconds.
SizeAlarm ==
    /\ r_pc = "size" /\ (backlog = "live" \/ toRcv = <<>>)
    /\ ReceiverExits(<<Word("TERMINATE")>>)
    /\ UNCHANGED <<notReceiver, crashes, trainVars, fleetVars>>

\* Packets are sent to the receiver's own port and as many are read: if older
\* packets are there, it reads those.
recvfrom_latency ==
    \E old \in SUBSET udp :
        /\ Cardinality(old) <= LatencyProbes
        /\ setup.in_order /\ old # udp => Cardinality(old) = LatencyProbes
        /\ \A p \in old, q \in udp \ old : setup.in_order => SentBefore(p, q)
        /\ udp' = (udp \ old) \cup {<<session, 0, 0, 0, k>> : k \in 1..Cardinality(old)}

\* The sizes are exchanged.
ReceiverGetSize ==
    /\ r_pc = "size" /\ ReceiverReads(Word("SIZE"))
    /\ recvfrom_latency
    /\ ReceiverSends(<<Word("SIZE")>>)
    /\ toRcv' = Tail(toRcv)
    /\ r_pc' = "latency"
    /\ UNCHANGED <<notReceiver, crashes, trainVars, fleetVars>>

\* recv_train is called for train id.
BeginTrain(id) ==
    /\ r_pc' = "train"
    /\ exp_train_id' = id /\ rcvd' = 0 /\ bad_train' = FALSE /\ pack_id' = -1

\* The sender's latency arrives, get_adr asks for trains.
ReceiverGetLatency ==
    /\ r_pc = "latency" /\ ReceiverReads(Word("LATENCY"))
    /\ toRcv' = Tail(toRcv)
    /\ BeginTrain(0) /\ arrv_tv' = NoArrivals
    /\ ReceiverSends(<<Word("SEND_TRAIN")>>)
    /\ UNCHANGED <<notReceiver, crashes, udp, fleetVars>>

\* A probe packet during a train. One of a stream is read as packet "stream id" of
\* train "fleet id"; random data fits no train and leaves its number in pack_id.
ReadTrainPacket ==
    /\ r_pc = "train"
    /\ \E p \in Readable :
         LET pack == IF p[2] = 1 THEN p[5] ELSE p[4] IN
         /\ udp' = udp \ {p}
         /\ pack_id' = IF p[2] = 0 THEN -1 ELSE pack
         /\ IF p[2] # 0 /\ p[3] = exp_train_id /\ pack = rcvd /\ rcvd <= TRAIN_LEN
            THEN /\ rcvd' = rcvd + 1 /\ arrv_tv' = [arrv_tv EXCEPT ![pack] = p]
                 /\ UNCHANGED bad_train
            ELSE bad_train' = TRUE /\ UNCHANGED <<rcvd, arrv_tv>>
    /\ UNCHANGED <<notReceiver, crashes, r_pc, exp_train_id, link, backlog, toRcv,
                   toSnd, fleetVars>>

StampLast ==                                            \* mutant of StampEnd
    \/ pack_id \in 0..TRAIN_LEN /\ arrv_tv' = [arrv_tv EXCEPT ![pack_id] = Stamp]
    \/ pack_id \notin 0..TRAIN_LEN /\ UNCHANGED arrv_tv

\* time[pack_id+1] is set to the end of the train. When no packet was read, or random
\* data last, pack_id may be anything: that may be a cell, or harm nobody.
StampEnd ==
    \/ /\ pack_id \in 0..TRAIN_LEN
       /\ arrv_tv' = [arrv_tv EXCEPT ![pack_id + 1] = Stamp]
    \/ /\ pack_id \notin 0..TRAIN_LEN
       /\ \/ \E k \in DOMAIN arrv_tv : arrv_tv' = [arrv_tv EXCEPT ![k] = Stamp]
          \/ UNCHANGED arrv_tv

\* FINISHED_TRAIN. A train is good if its packets have come in order and no others.
\* A bad one is answered by BAD_TRAIN, and get_adr expects the next while there is
\* one left to try.
EndOfTrain ==
    LET good == ~bad_train /\ rcvd = TrainLen(exp_train_id) + 1 IN
    /\ r_pc = "train" /\ ReceiverReads(Word("FINISHED_TRAIN"))
    /\ toRcv' = Tail(toRcv)
    /\ StampEnd
    /\ ReceiverSends(<<Word(IF good THEN "GOOD_TRAIN" ELSE "BAD_TRAIN")>>)
    /\ IF good \/ exp_train_id = MAX_TRAIN - 1
       THEN r_pc' = "params" /\ UNCHANGED <<exp_train_id, rcvd, bad_train, pack_id>>
       ELSE BeginTrain(exp_train_id + 1)
    /\ UNCHANGED <<notReceiver, crashes, udp, fleetVars>>

\* The receiver has read what it answers by a word of its own.
AboutToSend ==
    \/ r_pc = "params"
    \/ \E i \in 1..3 : /\ r_pc = <<"latency", "train", "stream">>[i]
                      /\ ReceiverReads(Word(<<"LATENCY", "FINISHED_TRAIN", "FINISHED_STREAM">>[i]))

\* Writes to a connection the sender has closed, or time[pack_id+1] out of bounds.
ReceiverDies ==
    /\ \/ AboutToSend /\ link = "none"
       \/ AboutToSend /\ r_pc = "train" /\ pack_id \notin 0..TRAIN_LEN
    /\ ReceiverExits(<<>>)
    /\ UNCHANGED <<notReceiver, crashes, trainVars, fleetVars>>

\* The five words of a fleet.
Params(slow) == <<Number("R", 1), Number("L", 1), Number("K", 1),
                  Number("T", IF slow THEN 1 ELSE 0), Word("SEND_FLEET")>>

AskForFleet ==
    /\ r_pc = "params" /\ exp_fleet_id < MaxFleets
    /\ r_pc' = "recv_fleet"
    /\ \E slow \in BOOLEAN : r_slow' = slow /\ ReceiverSends(Params(slow))
    /\ UNCHANGED <<notReceiver, crashes, udp, toRcv, trainVars, exp_fleet_id,
                   r_stream_cnt, lossy_stream, streamVars>>

\* The search is over: terminate_gracefully, before which a failed calc_param sends
\* TERMINATE as well.
EndSearch ==
    /\ r_pc = "params"
    /\ \E n \in 1..2 : ReceiverExits([i \in 1..n |-> Word("TERMINATE")])
    /\ UNCHANGED <<notReceiver, crashes, trainVars, fleetVars>>

ExpectStreamLossKept ==                                 \* mutant of ExpectStream
    /\ r_pc' = "stream"
    /\ exp_pkt_id' = 0 /\ snd_tv' = NoStamps /\ UNCHANGED pkt_lost
ExpectStreamStampsKept ==                               \* mutant of ExpectStream
    /\ r_pc' = "stream"
    /\ exp_pkt_id' = 0 /\ pkt_lost' = 0 /\ UNCHANGED snd_tv

\* recv_fleet is about to receive the next stream.
ExpectStream ==
    /\ r_pc' = "stream"
    /\ exp_pkt_id' = 0 /\ pkt_lost' = 0 /\ snd_tv' = NoStamps

\* Words other than RECV_FLEET are dropped, the end of a stream with its number.
AwaitRecvFleet ==
    /\ r_pc = "recv_fleet"
    /\ \E word \in Range(toRcv) :
         /\ ReceiverReads(word)
         /\ toRcv' = SubSeq(toRcv, IF word = Word("FINISHED_STREAM") THEN 3 ELSE 2, Len(toRcv))
         /\ IF word = Word("RECV_FLEET")
            THEN r_stream_cnt' = 0 /\ lossy_stream' = 0 /\ ExpectStream
            ELSE UNCHANGED <<r_pc, r_stream_cnt, lossy_stream, streamVars>>
    /\ UNCHANGED <<notReceiver, crashes, backlog, link, toSnd, udp, trainVars,
                   exp_fleet_id, r_slow>>

\* A probe packet during a fleet. A train's packet is read as one of stream "packet
\* id" of fleet "train id" and carries random data for the rest: at worst its
\* packet number is outside of arrv_tv.
ReadStreamPacket ==
    /\ r_pc = "stream"
    /\ \E p \in Readable :
         /\ udp' = udp \ {p}
         /\ IF p[2] = 2 /\ p[3] = exp_fleet_id /\ p[4] = r_stream_cnt /\ p[5] >= exp_pkt_id
            THEN /\ snd_tv' = [snd_tv EXCEPT ![p[5]] = p]
                 /\ pkt_lost' = pkt_lost + (p[5] - exp_pkt_id)
                 /\ exp_pkt_id' = p[5] + 1
            ELSE UNCHANGED streamVars
    /\ UNCHANGED <<notReceiver, crashes, r_pc, backlog, link, toRcv, toSnd, trainVars,
                   exp_fleet_id, r_stream_cnt, lossy_stream, r_slow>>

TrainPacketInFleet ==
    /\ r_pc = "stream"
    /\ \E p \in Readable : p[2] = 1 /\ p[3] = exp_fleet_id /\ p[5] = r_stream_cnt
    /\ ReceiverExits(<<>>)
    /\ UNCHANGED <<notReceiver, crashes, trainVars, fleetVars>>

LostInAllOfAll == pkt_lost + StreamLen                  \* mutant of LostInAll

\* The losses up to the last packet that came, and the packets behind it.
LostInAll == pkt_lost + (StreamLen - exp_pkt_id)

\* The share of the stream's packets that did not come in order is at least rate.
LostAtLeast(lost, rate) == lost * 100 >= rate * StreamLen

\* FINISHED_STREAM and the number of the stream; another number is ignored. Too
\* many losses, or what check_intr_coalescence found, abort the fleet.
EndOfStream ==
    LET lost  == LostInAll
        cnt   == r_stream_cnt + 1
        lossy == IF LostAtLeast(lost, MEDIUM_LOSS_RATE) /\ ~LostAtLeast(lost, HIGH_LOSS_RATE)
                 THEN lossy_stream + 1 ELSE lossy_stream
        tooLossy == \/ LostAtLeast(lost, HIGH_LOSS_RATE)
                    \/ cnt >= NumStream /\ lossy * 100 >= MAX_LOSSY_STREAM_FRACTION * cnt
    IN
    /\ r_pc = "stream" /\ ReceiverReads(Word("FINISHED_STREAM")) /\ Len(toRcv) > 1
    /\ toRcv' = SubSeq(toRcv, 3, Len(toRcv))
    /\ IF toRcv[2] # Number("ID", r_stream_cnt)
       THEN UNCHANGED <<r_pc, backlog, link, toSnd, fleetVars>>
       ELSE /\ r_stream_cnt' = cnt /\ lossy_stream' = lossy
            /\ \/ /\ ReceiverSends(<<Word("ABORT_FLEET")>>)
                  /\ r_pc' = "params" /\ exp_fleet_id' = exp_fleet_id + 1
                  /\ pkt_lost' = lost /\ exp_pkt_id' = 0 /\ UNCHANGED snd_tv
               \/ /\ ~tooLossy
                  /\ ReceiverSends(<<Word("CONTINUE_STREAM")>>)
                  /\ IF r_slow \/ cnt = NumStream
                     THEN /\ r_pc' = "params" /\ exp_fleet_id' = exp_fleet_id + 1
                          /\ pkt_lost' = lost /\ exp_pkt_id' = 0 /\ UNCHANGED snd_tv
                     ELSE ExpectStream /\ UNCHANGED exp_fleet_id
            /\ UNCHANGED r_slow
    /\ UNCHANGED <<notReceiver, crashes, udp, trainVars>>

\* Option -t: the alarm rings in the loop over the fleets, maybe between the words
\* of Params.
Alarm ==
    /\ setup.timed
    /\ \/ /\ r_pc \in {"recv_fleet", "stream"}
          /\ ReceiverExits(<<Word("TERMINATE")>>)
       \/ /\ r_pc = "params" /\ exp_fleet_id < MaxFleets
          /\ \E k \in 0..4 :
               ReceiverExits(SubSeq(Params(FALSE), 1, k) \o <<Word("TERMINATE")>>)
    /\ UNCHANGED <<notReceiver, crashes, trainVars, fleetVars>>

\* Somebody kills the receiver.
Crash ==
    /\ crashes > 0 /\ Listening
    /\ crashes' = crashes - 1
    /\ ReceiverExits(<<>>)
    /\ UNCHANGED <<notReceiver, trainVars, fleetVars>>
-----------------------------------------------------------------------------
SenderNext ==
    \/ Accept \/ GetSize \/ GetAdrRequest \/ SendTrain \/ GetVerdict
    \/ GetRate \/ GetParam \/ GetOrder \/ SendStream \/ GetAnswer

ReceiverNext ==
    \/ SizeAlarm \/ ReceiverGetSize \/ ReceiverGetLatency
    \/ ReadTrainPacket \/ EndOfTrain \/ ReceiverDies
    \/ AskForFleet \/ EndSearch \/ AwaitRecvFleet
    \/ ReadStreamPacket \/ TrainPacketInFleet \/ EndOfStream \/ Alarm

Next == SenderNext \/ ReceiverNext \/ ReceiverStart \/ Crash

Spec == Init /\ [][Next]_vars

\* A process that can go on does, and so do the alarms it has set. Nobody has to
\* start or kill a receiver.
FairSpec == Spec /\ WF_vars(SenderNext) /\ WF_vars(ReceiverNext)
-----------------------------------------------------------------------------
(* Properties.                                                              *)

CONTROL == {"accept", "size", "adr", "train", "verdict", "rate", "param", "order",
            "stream", "answer", "exited"}

\* Every variable has its type.
TypeOK ==
    /\ setup \in Setups /\ crashes \in Nat /\ outages \in Nat /\ session \in 0..MaxSessions
    /\ backlog \in {"none", "live", "dead"}
    /\ link \in {"none", "open", "fin", "resetting", "left"}
    /\ toRcv \in Seq(Words) /\ toSnd \in Seq(Words)
    /\ udp \subseteq Packets
    /\ s_pc \in CONTROL /\ s_word \in 1..5 /\ done \in BOOLEAN /\ s_slow \in BOOLEAN
    /\ train_id \in Nat /\ fleet_id \in Nat /\ s_stream_cnt \in 0..NumStream
    /\ r_pc \in {"off", "size", "latency", "train", "params", "recv_fleet", "stream", "exited"}
    /\ exp_train_id \in 0..MAX_TRAIN-1 /\ rcvd \in 0..TRAIN_LEN+1
    /\ bad_train \in BOOLEAN /\ pack_id \in Nat \cup {-1}
    /\ arrv_tv \in [0..TRAIN_LEN+1 -> Packets \cup {NoPacket, Stamp}]
    /\ exp_fleet_id \in 0..MaxFleets /\ r_stream_cnt \in 0..NumStream
    /\ lossy_stream \in 0..NumStream /\ r_slow \in BOOLEAN
    /\ exp_pkt_id \in 0..StreamLen /\ pkt_lost \in 0..StreamLen
    /\ snd_tv \in [0..StreamLen-1 -> Packets \cup {NoPacket}]

\* While the sender serves a receiver, both count fleets and streams alike, whatever
\* is lost or aborted: the number behind FINISHED_STREAM is always the one recv_fleet
\* waits for, so the stream ends there, and the words are never out of step with it.
StreamIdsAgree ==
    r_pc = "stream" /\ toRcv # <<>> =>
        /\ toRcv = <<Word("FINISHED_STREAM"), Number("ID", r_stream_cnt)>>
        /\ link = "open" => fleet_id = exp_fleet_id /\ s_stream_cnt = r_stream_cnt

\* A delay of a stream comes from the packet of that number, that stream, that fleet
\* and this session, though packets are told apart by fleet and stream only and both
\* begin at 0 again with every receiver. Only a path that lets packets overtake the
\* next receiver's handshake and trains breaks that.
OwnPackets == setup.in_order \/ session = 1

SamplesOfOwnStream ==
    r_pc = "stream" /\ OwnPackets =>
        \A k \in DOMAIN snd_tv :
            snd_tv[k] \in {NoPacket, StreamPacket(session, exp_fleet_id, r_stream_cnt, k)}

\* The packets that count as lost are those without a time stamp: what recv_fleet adds
\* up as it goes, jump by jump, and at the end for the rest, comes to their number.
LossCounted ==
    r_pc = "stream" =>
        /\ pkt_lost = Cardinality({k \in 0..exp_pkt_id-1 : snd_tv[k] = NoPacket})
        /\ \A k \in exp_pkt_id..StreamLen-1 : snd_tv[k] = NoPacket

\* A train that is called good gave the dispersion: the arrivals get_adr uses are all
\* of this train, none is left from a worse one before or is a packet of other kind.
AdrOfOneTrain ==
    r_pc \in {"params", "recv_fleet", "stream"} /\ OwnPackets
        /\ ~bad_train /\ rcvd = TrainLen(exp_train_id) + 1 =>
        \A k \in 0..TrainLen(exp_train_id) :
            arrv_tv[k] = TrainPacket(session, exp_train_id, k)

\* The sender turns its back on a receiver that is still at work only after an outage,
\* in the train too many, or once it was told to terminate by an earlier receiver.
DesertedOnlyThen ==
    backlog = "none" /\ Listening /\ link \in {"none", "left"} =>
        \/ outages < setup.outages
        \/ r_pc = "train" /\ exp_train_id = MAX_TRAIN - 1
        \/ done

\* A stream is sent a second time only to a receiver that has gone.
ResendOnlyToNobody ==
    [][s_pc = "answer" /\ s_pc' = "stream" /\ s_stream_cnt' = s_stream_cnt => link # "open"]_vars

\* A sender that has accepted a receiver comes to the end of it.
SenderReturns == s_pc = "size" ~> s_pc \in {"accept", "exited"}

\* A receiver that is started does not wait for the sender's packet size for ever, and
\* once the sizes are exchanged it ends, unless the sender deserts it.
ReceiverEnds ==
    /\ r_pc = "size" ~> r_pc # "size"
    /\ r_pc = "latency" ~> (r_pc = "exited" \/ link \in {"none", "left"})
-----------------------------------------------------------------------------
(* What the program says of itself and does not do.                         *)

\* "-i : run sender in iterative "persistent" mode": a receiver that asks a persistent
\* sender for a fleet gets it, the second as well as the first.
FleetIsSent == r_pc = "recv_fleet" ~> r_pc \in {"stream", "exited"}
=============================================================================
