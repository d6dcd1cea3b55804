-------------------- MODULE OriginalControlWords_proofs --------------------
(***************************************************************************)
(* The control words of the original programs: what the two processes may  *)
(* be doing while they are connected, and that follows from it, however    *)
(* many trains, streams, fleets and receivers there are: both sides count  *)
(* fleets and streams alike, no stream is sent twice to a receiver that is *)
(* there, and none is deserted but for an outage, in the train too many,   *)
(* or by a sender that was told to terminate.                              *)
(***************************************************************************)
EXTENDS OriginalControl_proofs

-----------------------------------------------------------------------------
(* The inductive invariant.                                                *)

\* The states of a connection and of its two ends.
LinkInv ==
    /\ link = "open" => backlog = "none" /\ Listening
    /\ link \in {"fin", "resetting"} => r_pc \in Gone \/ backlog = "live"
    /\ link \in {"none", "left"} <=> s_pc \in {"accept", "exited"}

StreamEnd(cnt) == <<Word("FINISHED_STREAM"), Number("ID", cnt)>>

\* What can be under way to the receiver, on a connection or left of one.
RcvWords ==
    /\ r_pc \in Gone \cup {"params"} \/ backlog = "live" => toRcv = <<>>
    /\ r_pc = "size" /\ backlog = "none" => toRcv = <<Word("SIZE")>>
    /\ r_pc = "latency" => toRcv \in {<<>>, <<Word("LATENCY")>>}
    /\ r_pc = "train" => toRcv \in {<<>>, <<Word("FINISHED_TRAIN")>>}
    /\ r_pc = "recv_fleet" =>
         toRcv \in {<<>>, <<Word("RECV_FLEET")>>, <<Word("RECV_FLEET")>> \o StreamEnd(0)}
    /\ r_pc = "stream" => toRcv \in {<<>>, StreamEnd(r_stream_cnt)}

\* The receiver has sent words, and may have asked for a fleet after them.
Asks(words) ==
    \/ r_pc = "params" /\ toSnd = words
    \/ r_pc = "recv_fleet" /\ toSnd = words \o Params(r_slow)

SameFleet == fleet_id = exp_fleet_id /\ s_slow = r_slow

\* The phases of a connection, as both sides and the words under way tell them.
Handshake ==
    \/ /\ s_pc = "size" /\ r_pc = "size"
       /\ toRcv = <<Word("SIZE")>> /\ toSnd = <<>>
    \/ /\ s_pc = "size" /\ r_pc = "latency"
       /\ toRcv = <<>> /\ toSnd = <<Word("SIZE")>>
    \/ /\ s_pc = "adr" /\ r_pc = "latency"
       /\ toRcv = <<Word("LATENCY")>> /\ toSnd = <<>>

Trains ==
    \/ /\ s_pc = "adr" /\ r_pc = "train" /\ exp_train_id = 0
       /\ toRcv = <<>> /\ toSnd = <<Word("SEND_TRAIN")>>
    \/ /\ s_pc = "train" /\ r_pc = "train" /\ exp_train_id = train_id
       /\ toRcv = <<>> /\ toSnd = <<>>
    \/ /\ s_pc = "verdict" /\ r_pc = "train" /\ exp_train_id = train_id
       /\ toRcv = <<Word("FINISHED_TRAIN")>> /\ toSnd = <<>>
    \/ /\ s_pc = "verdict" /\ r_pc = "train" /\ exp_train_id = train_id + 1
       /\ toRcv = <<>> /\ toSnd = <<Word("BAD_TRAIN")>>
    \/ /\ s_pc = "verdict" /\ exp_fleet_id = 0 /\ toRcv = <<>>
       /\ \/ Asks(<<Word("GOOD_TRAIN")>>)
          \/ ~MoreTrains /\ Asks(<<Word("BAD_TRAIN")>>)

\* The receiver waits for a train the sender has no mind to send.
TrainTooMany ==
    /\ s_pc = "rate" /\ r_pc = "train" /\ exp_train_id = MAX_TRAIN - 1
    /\ toRcv = <<>> /\ toSnd = <<>>

FleetRequest ==
    \/ s_pc = "rate" /\ fleet_id = exp_fleet_id /\ toRcv = <<>> /\ Asks(<<>>)
    \/ /\ s_pc = "param" /\ r_pc = "recv_fleet" /\ fleet_id = exp_fleet_id
       /\ toRcv = <<>> /\ toSnd = SubSeq(Params(r_slow), s_word, 5)
    \/ /\ s_pc = "order" /\ r_pc = "recv_fleet" /\ SameFleet
       /\ toRcv = <<>> /\ toSnd = <<Word("SEND_FLEET")>>

StreamUnderWay ==
    /\ SameFleet /\ toSnd = <<>>
    /\ \/ /\ r_pc = "recv_fleet" /\ s_stream_cnt = 0
          /\ \/ s_pc = "stream" /\ toRcv = <<Word("RECV_FLEET")>>
             \/ s_pc = "answer" /\ toRcv = <<Word("RECV_FLEET")>> \o StreamEnd(0)
       \/ /\ r_pc = "stream" /\ s_stream_cnt = r_stream_cnt
          /\ \/ s_pc = "stream" /\ toRcv = <<>>
             \/ s_pc = "answer" /\ toRcv = StreamEnd(s_stream_cnt)

\* A slow link has one stream in a fleet: both sides have the word for it.
StreamJudged ==
    /\ s_pc = "answer" /\ toRcv = <<>>
    /\ \/ /\ r_pc = "stream" /\ SameFleet /\ r_stream_cnt = s_stream_cnt + 1
          /\ ~LastStream(s_stream_cnt + 1) /\ toSnd = <<Word("CONTINUE_STREAM")>>
       \/ /\ fleet_id + 1 = exp_fleet_id
          /\ \/ LastStream(s_stream_cnt + 1) /\ Asks(<<Word("CONTINUE_STREAM")>>)
             \/ Asks(<<Word("ABORT_FLEET")>>)

Phases == \/ Handshake \/ Trains \/ TrainTooMany
          \/ FleetRequest \/ StreamUnderWay \/ StreamJudged

Dialogue == link = "open" => Phases

\* The cases in which the receiver is left alone.
Excused ==
    \/ outages < setup.outages
    \/ r_pc = "train" /\ exp_train_id = MAX_TRAIN - 1 /\ toRcv = <<>>
    \/ done

Deserted ==
    /\ setup.outages \in Nat /\ outages <= setup.outages
    /\ backlog = "none" /\ Listening /\ link \in {"none", "left"} => Excused

FirstFleet == r_pc \in {"size", "latency", "train"} => exp_fleet_id = 0

WordInv == LinkInv /\ RcvWords /\ Dialogue /\ Deserted /\ FirstFleet

-----------------------------------------------------------------------------
(* Words and sequences of words.                                           *)

\* Words are told apart by their codes, numbers by what they tell as well.
LEMMA WordFields ==
    /\ \A op : Word(op).op = op /\ Word(op).n = 0
    /\ \A op, n : Number(op, n).op = op /\ Number(op, n).n = n
    BY DEF Word, Number

\* Sequences of one word and of two.
LEMMA ShortSequences ==
    ASSUME NEW w \in Words, NEW v \in Words
    PROVE  /\ <<w>> # <<>> /\ Head(<<w>>) = w /\ Tail(<<w>>) = <<>>
           /\ <<>> \o <<w>> = <<w>> /\ <<>> \o <<w, v>> = <<w, v>>
           /\ <<w, v>> # <<>> /\ Head(<<w, v>>) = w
           /\ SubSeq(<<w>>, 2, Len(<<w>>)) = <<>>
           /\ SubSeq(<<w, v>>, 3, Len(<<w, v>>)) = <<>>
    OBVIOUS

\* Five words, read one after another.
LEMMA FiveWords ==
    ASSUME NEW a \in Words, NEW b \in Words, NEW c \in Words, NEW d \in Words,
           NEW e \in Words, NEW p, p = <<a, b, c, d, e>>
    PROVE  /\ p # <<>> /\ Head(p) = a /\ Tail(p) = SubSeq(p, 2, 5)
           /\ SubSeq(p, 2, 5) # <<>> /\ Head(SubSeq(p, 2, 5)) = b
           /\ Tail(SubSeq(p, 2, 5)) = SubSeq(p, 3, 5)
           /\ SubSeq(p, 3, 5) # <<>> /\ Head(SubSeq(p, 3, 5)) = c
           /\ Tail(SubSeq(p, 3, 5)) = SubSeq(p, 4, 5)
           /\ SubSeq(p, 4, 5) # <<>> /\ Head(SubSeq(p, 4, 5)) = d
           /\ Tail(SubSeq(p, 4, 5)) = <<e>>
           /\ <<>> \o p = p
<1>1. p \in Seq(Words) /\ Len(p) = 5
      /\ p[1] = a /\ p[2] = b /\ p[3] = c /\ p[4] = d /\ p[5] = e
    OBVIOUS
<1>2. ASSUME NEW i \in 1..4
      PROVE  /\ SubSeq(p, i, 5) # <<>> /\ Head(SubSeq(p, i, 5)) = p[i]
             /\ Tail(SubSeq(p, i, 5)) = SubSeq(p, i+1, 5)
  <2>1. /\ Head(SubSeq(p, i, 5)) = p[i]
        /\ Tail(SubSeq(p, i, 5)) = SubSeq(p, i+1, 5)
    <3>1. i \in 1..Len(p) /\ 5 \in i..Len(p)
        BY <1>1
    <3> QED
        BY <1>1, <3>1, HeadTailOfSubSeq
  <2>2. Len(SubSeq(p, i, 5)) = 6 - i
    <3>1. i \in Int /\ 5 \in Int /\ i <= 5 /\ \A j \in i..5 : p[j] \in Words
        BY <1>1
    <3> QED
        BY <3>1, SubSeqProperties
  <2> QED
      BY <2>1, <2>2
<1>3. SubSeq(p, 1, 5) = p
    BY <1>1, SubSeqFull
<1>4. SubSeq(p, 5, 5) = <<e>>
  <2>1. 5 \in Int /\ \A j \in 5..5 : p[j] \in Words
      BY <1>1
  <2>2. /\ SubSeq(p, 5, 5) \in Seq(Words) /\ Len(SubSeq(p, 5, 5)) = 1
        /\ \A j \in 1..1 : SubSeq(p, 5, 5)[j] = p[5+j-1]
      BY <2>1, SubSeqProperties
  <2>3. SubSeq(p, 5, 5)[1] = e
      BY <1>1, <2>2
  <2> DEFINE last == SubSeq(p, 5, 5)
             one  == <<e>>
  <2>4. /\ last \in Seq(Words) /\ one \in Seq(Words) /\ Len(last) = Len(one)
        /\ Len(last) = 1 /\ last[1] = one[1]
      BY <2>2, <2>3
  <2> HIDE DEF last, one
  <2>5. \A j \in 1..Len(last) : last[j] = one[j]
      BY <2>4
  <2>6. last = one
      BY <2>4, <2>5, SeqEqual
  <2> QED
      BY <2>6 DEF last, one
<1>5. 1 \in 1..4 /\ 2 \in 1..4 /\ 3 \in 1..4 /\ 4 \in 1..4
      /\ 1 + 1 = 2 /\ 2 + 1 = 3 /\ 3 + 1 = 4 /\ 4 + 1 = 5
    OBVIOUS
<1>6. /\ p # <<>> /\ Head(p) = a /\ Tail(p) = SubSeq(p, 2, 5)
      /\ SubSeq(p, 2, 5) # <<>> /\ Head(SubSeq(p, 2, 5)) = b
      /\ Tail(SubSeq(p, 2, 5)) = SubSeq(p, 3, 5)
    BY <1>1, <1>2, <1>3, <1>5
<1>7. /\ SubSeq(p, 3, 5) # <<>> /\ Head(SubSeq(p, 3, 5)) = c
      /\ Tail(SubSeq(p, 3, 5)) = SubSeq(p, 4, 5)
      /\ SubSeq(p, 4, 5) # <<>> /\ Head(SubSeq(p, 4, 5)) = d
      /\ Tail(SubSeq(p, 4, 5)) = <<e>>
    BY <1>1, <1>2, <1>4, <1>5
<1>8. <<>> \o p = p
    BY <1>1
<1> QED
    BY <1>6, <1>7, <1>8

\* Words in front of others are read first.
LEMMA WordInFront ==
    ASSUME NEW w \in Words, NEW p \in Seq(Words)
    PROVE  <<w>> \o p # <<>> /\ Head(<<w>> \o p) = w /\ Tail(<<w>> \o p) = p
    OBVIOUS

\* The words of a fleet, read one after another: numbers, the last of which tells
\* whether the link is slow.
LEMMA ParamsRead ==
    ASSUME NEW slow \in BOOLEAN, NEW p, p = Params(slow)
    PROVE  /\ p \in Seq(Words) /\ <<>> \o p = p
           /\ p # <<>> /\ Head(p).op = "R" /\ Tail(p) = SubSeq(p, 2, 5)
           /\ SubSeq(p, 2, 5) # <<>> /\ Head(SubSeq(p, 2, 5)).op = "L"
           /\ Tail(SubSeq(p, 2, 5)) = SubSeq(p, 3, 5)
           /\ SubSeq(p, 3, 5) # <<>> /\ Head(SubSeq(p, 3, 5)).op = "K"
           /\ Tail(SubSeq(p, 3, 5)) = SubSeq(p, 4, 5)
           /\ SubSeq(p, 4, 5) # <<>> /\ Head(SubSeq(p, 4, 5)).op = "T"
           /\ (Head(SubSeq(p, 4, 5)).n = 1) = slow
           /\ Tail(SubSeq(p, 4, 5)) = <<Word("SEND_FLEET")>>
<1>1. PICK t \in Words : t.op = "T" /\ (t.n = 1) = slow
        /\ p = <<Number("R", 1), Number("L", 1), Number("K", 1), t, Word("SEND_FLEET")>>
  <2>1. CASE slow = TRUE
    <3>1. Number("T", 1) \in Words
        BY WordTypes DEF Numbers
    <3>2. p = <<Number("R", 1), Number("L", 1), Number("K", 1), Number("T", 1), Word("SEND_FLEET")>>
        BY <2>1 DEF Params
    <3> QED
        BY <2>1, <3>1, <3>2, WordFields
  <2>2. CASE slow = FALSE
    <3>1. Number("T", 0) \in Words
        BY WordTypes DEF Numbers
    <3>2. p = <<Number("R", 1), Number("L", 1), Number("K", 1), Number("T", 0), Word("SEND_FLEET")>>
        BY <2>2 DEF Params
    <3> QED
        BY <2>2, <3>1, <3>2, WordFields
  <2> QED
      BY <2>1, <2>2
<1>2. /\ Number("R", 1) \in Words /\ Number("L", 1) \in Words
      /\ Number("K", 1) \in Words /\ Word("SEND_FLEET") \in Words
    BY WordTypes DEF Numbers, Codes
<1>3. /\ p # <<>> /\ Head(p) = Number("R", 1) /\ Tail(p) = SubSeq(p, 2, 5)
      /\ SubSeq(p, 2, 5) # <<>> /\ Head(SubSeq(p, 2, 5)) = Number("L", 1)
      /\ Tail(SubSeq(p, 2, 5)) = SubSeq(p, 3, 5)
      /\ SubSeq(p, 3, 5) # <<>> /\ Head(SubSeq(p, 3, 5)) = Number("K", 1)
      /\ Tail(SubSeq(p, 3, 5)) = SubSeq(p, 4, 5)
      /\ SubSeq(p, 4, 5) # <<>> /\ Head(SubSeq(p, 4, 5)) = t
      /\ Tail(SubSeq(p, 4, 5)) = <<Word("SEND_FLEET")>>
      /\ <<>> \o p = p
    BY <1>1, <1>2, FiveWords
<1>4. (Head(SubSeq(p, 4, 5)).n = 1) = slow
    BY <1>1, <1>3
<1>5. p \in Seq(Words)
    BY ParamsType
<1> QED
    BY <1>1, <1>3, <1>4, <1>5, WordFields

\* The words of the dialogue are words.
LEMMA DialogueWords ==
    /\ Word("SIZE") \in Words /\ Word("LATENCY") \in Words
    /\ Word("SEND_TRAIN") \in Words /\ Word("GOOD_TRAIN") \in Words
    /\ Word("BAD_TRAIN") \in Words /\ Word("FINISHED_TRAIN") \in Words
    /\ Word("SEND_FLEET") \in Words /\ Word("RECV_FLEET") \in Words
    /\ Word("FINISHED_STREAM") \in Words /\ Word("CONTINUE_STREAM") \in Words
    /\ Word("ABORT_FLEET") \in Words
    /\ \A cnt \in Nat : Number("ID", cnt) \in Words
    BY WordTypes DEF Codes, Numbers

-----------------------------------------------------------------------------
(* The sender's steps.                                                     *)

Waiting == {"size", "adr", "verdict", "rate", "param", "order", "answer"}

\* While connected, no more comes only in the train too many.
LEMMA SilenceMeans ==
    ASSUME DataInv, Phases, s_pc \in Waiting, toSnd = <<>>, NothingWillCome
    PROVE  TrainTooMany
<1>1. toRcv = <<>> /\ r_pc \in {"latency", "train", "recv_fleet", "stream"}
    BY DEF NothingWillCome
<1>2. \A w \in Words : <<w>> # <<>>
    OBVIOUS
<1>3. r_slow \in BOOLEAN
    BY DEF DataInv, ReceiverOK
<1>4. ASSUME NEW w \in Words PROVE ~Asks(<<w>>)
  <2>1. <<w>> \o Params(r_slow) # <<>>
      BY <1>3, ParamsRead, WordInFront
  <2> QED
      BY <1>2, <2>1 DEF Asks
<1>5. ~Asks(<<>>)
  <2>1. <<>> \o Params(r_slow) # <<>>
      BY <1>3, ParamsRead
  <2> QED
      BY <1>1, <2>1 DEF Asks
<1>6. ~Handshake
    BY <1>1, <1>2, DialogueWords DEF Handshake
<1>7. ~Trains
    BY <1>1, <1>2, <1>4, DialogueWords DEF Trains, Waiting
<1>8. ~FleetRequest
  <2>1. s_pc = "param" => s_word \in 2..4
      BY DEF DataInv, SenderOK
  <2>2. \A i \in 2..4 : SubSeq(Params(r_slow), i, 5) # <<>>
    <3>1. \A i \in 2..4 : i = 2 \/ i = 3 \/ i = 4
        OBVIOUS
    <3> QED
        BY <1>3, <3>1, ParamsRead
  <2> QED
      BY <1>2, <1>5, <2>1, <2>2, DialogueWords DEF FleetRequest
<1>9. ~StreamUnderWay
  <2>1. \A cnt \in Nat : StreamEnd(cnt) # <<>> /\ <<Word("RECV_FLEET")>> \o StreamEnd(cnt) # <<>>
      BY DialogueWords, ShortSequences, WordSequences, WordInFront DEF StreamEnd
  <2>2. s_stream_cnt \in Nat
      BY DEF DataInv, SenderOK
  <2> QED
      BY <1>1, <2>1, <2>2 DEF StreamUnderWay, Waiting
<1>10. ~StreamJudged
    BY <1>2, <1>4, DialogueWords DEF StreamJudged
<1> QED
    BY <1>6, <1>7, <1>8, <1>9, <1>10 DEF Phases

\* What the sender reads on an open connection.
LEMMA ReadsWhileOpen ==
    ASSUME DataInv, WordInv, link = "open", NEW pc \in Waiting, NEW word,
           SenderReads(pc, word)
    PROVE  /\ s_pc = pc /\ Phases
           /\ \/ toSnd # <<>> /\ word = Head(toSnd) /\ toSnd' = Tail(toSnd) /\ word # Fail
              \/ word = Fail /\ (outages' < setup.outages \/ TrainTooMany)
                 /\ UNCHANGED toSnd
<1>1. s_pc = pc /\ Phases
    BY DEF SenderReads, WordInv, Dialogue
<1>2. toSnd # <<>> => Head(toSnd) # Fail
  <2>1. toSnd # <<>> => Head(toSnd) \in Words
      BY WordSequences DEF DataInv, ChannelsOK
  <2>2. \A w \in Words : w.op # "FAIL"
      BY DEF Words, Codes, Numbers
  <2> QED
      BY <2>1, <2>2, WordFields DEF Fail
<1>3. CASE toSnd # <<>> /\ word = Head(toSnd) /\ toSnd' = Tail(toSnd)
    BY <1>1, <1>2, <1>3
<1>4. CASE toSnd = <<>> /\ NothingWillCome /\ word = Fail /\ UNCHANGED toSnd
    BY <1>1, <1>4, SilenceMeans
<1>5. CASE outages > 0 /\ word = Fail /\ outages' = outages - 1 /\ UNCHANGED toSnd
  <2>1. outages \in Nat /\ setup.outages \in Nat /\ outages <= setup.outages
      BY DEF WordInv, Deserted, DataInv, SenderOK
  <2> QED
      BY <1>1, <1>5, <2>1
<1> QED
    BY <1>1, <1>3, <1>4, <1>5 DEF SenderReads

\* The phase tells what is under way to the receiver.
LEMMA PhaseWords ==
    ASSUME Phases', backlog' = "none"
    PROVE  RcvWords'
<1>1. r_pc' \notin Gone /\ (r_pc' = "params" => toRcv' = <<>>)
    BY DEF Phases, Handshake, Trains, TrainTooMany, FleetRequest, StreamUnderWay,
           StreamJudged, Asks, Gone
<1>2. r_pc' = "size" => toRcv' = <<Word("SIZE")>>
    BY DEF Phases, Handshake, Trains, TrainTooMany, FleetRequest, StreamUnderWay,
           StreamJudged, Asks
<1>3. r_pc' = "latency" => toRcv' \in {<<>>, <<Word("LATENCY")>>}
    BY DEF Phases, Handshake, Trains, TrainTooMany, FleetRequest, StreamUnderWay,
           StreamJudged, Asks
<1>4. r_pc' = "train" => toRcv' \in {<<>>, <<Word("FINISHED_TRAIN")>>}
    BY DEF Phases, Handshake, Trains, TrainTooMany, FleetRequest, StreamUnderWay,
           StreamJudged, Asks
<1>5. r_pc' = "recv_fleet" =>
        toRcv' \in {<<>>, <<Word("RECV_FLEET")>>, <<Word("RECV_FLEET")>> \o StreamEnd(0)}
    BY DEF Phases, Handshake, Trains, TrainTooMany, FleetRequest, StreamUnderWay,
           StreamJudged, Asks
<1>6. r_pc' = "stream" => toRcv' \in {<<>>, StreamEnd(r_stream_cnt')}
    BY DEF Phases, Handshake, Trains, TrainTooMany, FleetRequest, StreamUnderWay,
           StreamJudged, Asks
<1> QED
    BY <1>1, <1>2, <1>3, <1>4, <1>5, <1>6 DEF RcvWords

\* A step of the sender, given what it does to the connection and the phase.
LEMMA SenderWordStep ==
    ASSUME DataInv, WordInv, UNCHANGED notSender, s_pc \notin {"accept", "exited"},
           outages' \in Nat, outages' <= outages, done => done',
           link' \in {"none", "left"} <=> s_pc' \in {"accept", "exited"},
           link' = "open" => link = "open" /\ Phases',
           link' # "open" => UNCHANGED toRcv,
           link' \in {"fin", "resetting"} => link \in {"fin", "resetting"},
           link = "open" /\ link' \in {"none", "left"} => Excused'
    PROVE  WordInv'
<1> USE DEF notSender, rcvVars, trainVars, fleetVars, streamVars
<1>1. LinkInv'
    BY DEF WordInv, LinkInv, Listening
<1>2. RcvWords'
  <2>1. CASE link' = "open"
      BY <2>1, PhaseWords DEF WordInv, LinkInv
  <2>2. CASE link' # "open"
      BY <2>2 DEF WordInv, RcvWords
  <2> QED
      BY <2>1, <2>2
<1>3. Dialogue'
    BY DEF Dialogue
<1>4. Deserted'
  <2>1. setup.outages \in Nat /\ outages <= setup.outages /\ outages \in Nat
      BY DEF WordInv, Deserted, DataInv, SenderOK
  <2>2. setup'.outages \in Nat /\ outages' <= setup'.outages
      BY <2>1
  <2>3. ASSUME backlog' = "none", Listening', link' \in {"none", "left"} PROVE Excused'
    <3>1. backlog = "none" /\ Listening
        BY <2>3 DEF Listening
    <3>2. link = "open"
        BY <3>1 DEF WordInv, LinkInv, DataInv, ChannelsOK, Listening
    <3> QED
        BY <2>3, <3>2
  <2> QED
      BY <2>2, <2>3 DEF Deserted
<1>5. FirstFleet'
    BY DEF WordInv, FirstFleet
<1> QED
    BY <1>1, <1>2, <1>3, <1>4, <1>5 DEF WordInv

\* Sending on an open connection, and on one the receiver has closed.
LEMMA SendsMean ==
    ASSUME DataInv, WordInv, s_pc \notin {"accept", "exited"}, NEW words, NEW next,
           next \notin {"accept", "exited"}, SenderSends(words, next)
    PROVE  /\ link = "open" => UNCHANGED link /\ toRcv' = toRcv \o words /\ s_pc' = next
           /\ link # "open" => UNCHANGED toRcv /\ link \in {"fin", "resetting"}
           /\ link' \in {"none", "left"} <=> s_pc' \in {"accept", "exited"}
           /\ link' \in {"open", "none", "fin", "resetting"}
           /\ link' \in {"fin", "resetting"} => link \in {"fin", "resetting"}
           /\ link' = "open" => link = "open"
    BY DEF SenderSends, SenderExits, DataInv, ChannelsOK, WordInv, LinkInv

\* The sizes: the sender is told the receiver's and sends its latency.
LEMMA GetSizeWords == DataInv /\ WordInv /\ GetSize => WordInv'
<1> SUFFICES ASSUME DataInv, WordInv, GetSize PROVE WordInv'
    OBVIOUS
<1>1. PICK word \in Readings :
         /\ SenderReads("size", word)
         /\ \/ word = Fail /\ UNCHANGED <<s_pc, link, toRcv>>
            \/ word = Word("SIZE") /\ SenderSends(<<Word("LATENCY")>>, "adr")
            \/ word \notin {Fail, Word("SIZE")} /\ SenderExits /\ UNCHANGED toRcv
    BY DEF GetSize
<1>2. UNCHANGED <<notSender, udp, sndData>>
    BY DEF GetSize
<1>3. s_pc = "size" /\ outages' \in Nat /\ outages' <= outages /\ (done => done')
    BY <1>1, <1>2, SenderReadsEffect DEF DataInv, SenderOK, sndData
<1>4. CASE link = "open"
  <2>1. /\ s_pc = "size" /\ Phases
        /\ \/ toSnd # <<>> /\ word = Head(toSnd) /\ toSnd' = Tail(toSnd) /\ word # Fail
           \/ word = Fail /\ UNCHANGED toSnd
      BY <1>1, <1>4, ReadsWhileOpen DEF Waiting
  <2>2. Handshake
      BY <2>1 DEF Phases, Trains, TrainTooMany, FleetRequest, StreamUnderWay, StreamJudged
  <2>3. CASE word = Fail
    <3>1. UNCHANGED <<s_pc, link, toRcv, toSnd>>
        BY <1>1, <2>1, <2>3, WordFields DEF Fail
    <3>2. Handshake'
        BY <1>2, <2>2, <3>1 DEF Handshake, notSender, rcvVars
    <3> QED
        BY <1>2, <1>3, <1>4, <3>1, <3>2, SenderWordStep DEF Phases
  <2>4. CASE word # Fail
    <3>1. r_pc = "latency" /\ toRcv = <<>> /\ toSnd = <<Word("SIZE")>>
        BY <2>1, <2>2, <2>4 DEF Handshake
    <3>2. word = Word("SIZE") /\ toSnd' = <<>>
        BY <2>1, <2>4, <3>1, ShortSequences, DialogueWords
    <3>3. SenderSends(<<Word("LATENCY")>>, "adr")
        BY <1>1, <2>4, <3>2
    <3>4. UNCHANGED link /\ toRcv' = <<Word("LATENCY")>> /\ s_pc' = "adr"
        BY <1>3, <1>4, <3>1, <3>3, SendsMean, ShortSequences, DialogueWords
    <3>5. Handshake'
        BY <1>2, <3>1, <3>2, <3>4 DEF Handshake, notSender, rcvVars
    <3> QED
        BY <1>2, <1>3, <1>4, <3>4, <3>5, SenderWordStep DEF Phases
  <2> QED
      BY <2>3, <2>4
<1>5. CASE link # "open"
  <2>1. /\ UNCHANGED toRcv /\ link' # "open"
        /\ link' \in {"none", "left"} <=> s_pc' \in {"accept", "exited"}
        /\ link' \in {"fin", "resetting"} => link \in {"fin", "resetting"}
    <3>1. CASE SenderSends(<<Word("LATENCY")>>, "adr")
        BY <1>3, <1>5, <3>1, SendsMean
    <3>2. CASE UNCHANGED <<s_pc, link, toRcv>> \/ (SenderExits /\ UNCHANGED toRcv)
        BY <1>3, <1>5, <3>2 DEF SenderExits, WordInv, LinkInv
    <3> QED
        BY <1>1, <3>1, <3>2
  <2> QED
      BY <1>2, <1>3, <1>5, <2>1, SenderWordStep
<1> QED
    BY <1>4, <1>5

\* A sender that gives up does so for one of the reasons there are.
LEMMA GivesUp ==
    ASSUME outages' < setup.outages \/ TrainTooMany, UNCHANGED notSender, UNCHANGED toRcv
    PROVE  Excused'
    BY DEF Excused, TrainTooMany, notSender, rcvVars, trainVars

\* The first word of an answer is read, and what the receiver asked for is left.
LEMMA AnswerRead ==
    ASSUME DataInv, NEW w \in Words, Asks(<<w>>), toSnd' = Tail(toSnd),
           UNCHANGED notSender
    PROVE  Head(toSnd) = w /\ Asks(<<>>)'
<1> USE DEF notSender, rcvVars, fleetVars
<1>1. r_slow \in BOOLEAN
    BY DEF DataInv, ReceiverOK
<1>2. CASE r_pc = "params" /\ toSnd = <<w>>
    BY <1>2, ShortSequences DEF Asks
<1>3. CASE r_pc = "recv_fleet" /\ toSnd = <<w>> \o Params(r_slow)
  <2> DEFINE p == Params(r_slow)
  <2>1. p \in Seq(Words) /\ <<>> \o p = p
      BY <1>1, ParamsRead
  <2>2. Head(toSnd) = w /\ toSnd' = p
      BY <1>3, <2>1, WordInFront
  <2> QED
      BY <1>3, <2>1, <2>2 DEF Asks
<1> QED
    BY <1>2, <1>3 DEF Asks

\* SEND_TRAIN starts the trains.
LEMMA GetAdrRequestWords == DataInv /\ WordInv /\ GetAdrRequest => WordInv'
<1> SUFFICES ASSUME DataInv, WordInv, GetAdrRequest PROVE WordInv'
    OBVIOUS
<1>1. PICK word \in Readings :
         /\ SenderReads("adr", word)
         /\ \/ /\ word = Fail
               /\ SenderExits /\ UNCHANGED <<train_id, fleet_id, s_word>>
            \/ /\ word = Word("SEND_TRAIN")
               /\ s_pc' = "train" /\ train_id' = 0
               /\ UNCHANGED <<link, fleet_id, s_word>>
            \/ /\ word \notin {Fail, Word("SEND_TRAIN")}
               /\ BeginFleets /\ UNCHANGED train_id
    BY DEF GetAdrRequest
<1>2. UNCHANGED <<notSender, udp, toRcv, done, s_stream_cnt, s_slow>>
    BY DEF GetAdrRequest
<1>3. s_pc = "adr" /\ outages' \in Nat /\ outages' <= outages /\ (done => done')
    BY <1>1, <1>2, SenderReadsEffect DEF DataInv, SenderOK
<1>4. CASE link = "open"
  <2>1. /\ Phases
        /\ \/ toSnd # <<>> /\ word = Head(toSnd) /\ toSnd' = Tail(toSnd) /\ word # Fail
           \/ word = Fail /\ (outages' < setup.outages \/ TrainTooMany) /\ UNCHANGED toSnd
      BY <1>1, <1>4, ReadsWhileOpen DEF Waiting
  <2>2. CASE word = Fail
    <3>1. link' = "none" /\ s_pc' = "exited"
        BY <1>1, <2>2, WordFields DEF SenderExits, Fail
    <3>2. Excused'
        BY <1>2, <2>1, <2>2, GivesUp
    <3> QED
        BY <1>2, <1>3, <1>4, <3>1, <3>2, SenderWordStep
  <2>3. CASE word # Fail
    <3>1. /\ r_pc = "train" /\ exp_train_id = 0 /\ toRcv = <<>>
          /\ toSnd = <<Word("SEND_TRAIN")>>
        BY <1>3, <2>1, <2>3
           DEF Phases, Handshake, Trains, TrainTooMany, FleetRequest, StreamUnderWay,
               StreamJudged
    <3>2. word = Word("SEND_TRAIN") /\ toSnd' = <<>>
        BY <2>1, <2>3, <3>1, ShortSequences, DialogueWords
    <3>3. s_pc' = "train" /\ train_id' = 0 /\ UNCHANGED link
        BY <1>1, <2>3, <3>2
    <3>4. Trains'
        BY <1>2, <3>1, <3>2, <3>3 DEF Trains, notSender, rcvVars, trainVars
    <3> QED
        BY <1>2, <1>3, <1>4, <3>3, <3>4, SenderWordStep DEF Phases
  <2> QED
      BY <2>2, <2>3
<1>5. CASE link # "open"
  <2>1. /\ link' # "open"
        /\ link' \in {"none", "left"} <=> s_pc' \in {"accept", "exited"}
        /\ link' \in {"fin", "resetting"} => link \in {"fin", "resetting"}
      BY <1>1, <1>3, <1>5 DEF SenderExits, BeginFleets, Hangup, WordInv, LinkInv
  <2> QED
      BY <1>2, <1>3, <1>5, <2>1, SenderWordStep
<1> QED
    BY <1>4, <1>5

\* A train and its end.
LEMMA SendTrainWords == DataInv /\ WordInv /\ SendTrain => WordInv'
<1> SUFFICES ASSUME DataInv, WordInv, SendTrain PROVE WordInv'
    OBVIOUS
<1>1. /\ s_pc = "train" /\ SenderSends(<<Word("FINISHED_TRAIN")>>, "verdict")
      /\ UNCHANGED <<notSender, outages, toSnd, sndData>>
    BY DEF SendTrain
<1>2. outages' \in Nat /\ outages' <= outages /\ (done => done')
    BY <1>1 DEF DataInv, SenderOK, sndData
<1>3. CASE link = "open"
  <2>1. /\ r_pc = "train" /\ exp_train_id = train_id /\ toRcv = <<>> /\ toSnd = <<>>
      BY <1>1, <1>3
         DEF WordInv, Dialogue, Phases, Handshake, Trains, TrainTooMany, FleetRequest,
             StreamUnderWay, StreamJudged
  <2>2. UNCHANGED link /\ toRcv' = <<Word("FINISHED_TRAIN")>> /\ s_pc' = "verdict"
      BY <1>1, <1>3, <2>1, SendsMean, ShortSequences, DialogueWords
  <2>3. Trains'
      BY <1>1, <2>1, <2>2 DEF Trains, notSender, rcvVars, trainVars, sndData
  <2> QED
      BY <1>1, <1>2, <1>3, <2>2, <2>3, SenderWordStep DEF Phases
<1>4. CASE link # "open"
  <2>1. /\ UNCHANGED toRcv /\ link' # "open"
        /\ link' \in {"none", "left"} <=> s_pc' \in {"accept", "exited"}
        /\ link' \in {"fin", "resetting"} => link \in {"fin", "resetting"}
      BY <1>1, <1>4, SendsMean
  <2> QED
      BY <1>1, <1>2, <1>4, <2>1, SenderWordStep
<1> QED
    BY <1>3, <1>4

\* BAD_TRAIN has another train sent, or the fleets begin while the receiver waits for
\* the train too many.
LEMMA GetVerdictWords == DataInv /\ WordInv /\ GetVerdict => WordInv'
<1> SUFFICES ASSUME DataInv, WordInv, GetVerdict PROVE WordInv'
    OBVIOUS
<1>1. PICK word \in Readings :
         /\ SenderReads("verdict", word)
         /\ \/ /\ word = Fail
               /\ \/ setup.iterate /\ s_pc' = "accept" /\ link' = "left"
                  \/ ~setup.iterate /\ SenderExits
               /\ UNCHANGED <<train_id, fleet_id, s_word>>
            \/ /\ word = Word("BAD_TRAIN") /\ MoreTrains
               /\ s_pc' = "train" /\ train_id' = train_id + 1
               /\ UNCHANGED <<link, fleet_id, s_word>>
            \/ /\ word # Fail /\ ~(word = Word("BAD_TRAIN") /\ MoreTrains)
               /\ BeginFleets /\ UNCHANGED train_id
    BY DEF GetVerdict
<1>2. UNCHANGED <<notSender, udp, toRcv, done, s_stream_cnt, s_slow>>
    BY DEF GetVerdict
<1>3. s_pc = "verdict" /\ outages' \in Nat /\ outages' <= outages /\ (done => done')
    BY <1>1, <1>2, SenderReadsEffect DEF DataInv, SenderOK
<1>4. CASE link = "open"
  <2>1. /\ Phases
        /\ \/ toSnd # <<>> /\ word = Head(toSnd) /\ toSnd' = Tail(toSnd) /\ word # Fail
           \/ word = Fail /\ (outages' < setup.outages \/ TrainTooMany) /\ UNCHANGED toSnd
      BY <1>1, <1>4, ReadsWhileOpen DEF Waiting
  <2>2. CASE word = Fail
    <3>1. link' \in {"left", "none"} /\ s_pc' \in {"accept", "exited"}
      <4>1. Word("BAD_TRAIN") # Fail
          BY WordFields DEF Fail
      <4> QED
          BY <1>1, <2>2, <4>1 DEF SenderExits
    <3>2. Excused'
        BY <1>2, <2>1, <2>2, GivesUp
    <3> QED
        BY <1>2, <1>3, <1>4, <3>1, <3>2, SenderWordStep
  <2>3. ASSUME BeginFleets, done PROVE WordInv'
    <3>1. link' = "none" /\ s_pc' \in {"accept", "exited"}
        BY <2>3 DEF BeginFleets, Hangup
    <3>2. Excused'
        BY <1>2, <2>3 DEF Excused
    <3> QED
        BY <1>2, <1>3, <1>4, <3>1, <3>2, SenderWordStep
  <2>4. CASE /\ word # Fail /\ r_pc = "train" /\ exp_train_id = train_id + 1
             /\ toRcv = <<>> /\ toSnd = <<Word("BAD_TRAIN")>>
    <3>1. word = Word("BAD_TRAIN") /\ toSnd' = <<>>
        BY <2>1, <2>4, ShortSequences, DialogueWords
    <3>2. CASE MoreTrains
      <4>1. s_pc' = "train" /\ train_id' = train_id + 1 /\ UNCHANGED link
          BY <1>1, <2>4, <3>1, <3>2
      <4>2. Trains'
          BY <1>2, <2>4, <3>1, <4>1 DEF Trains, notSender, rcvVars, trainVars
      <4> QED
          BY <1>2, <1>3, <1>4, <4>1, <4>2, SenderWordStep DEF Phases
    <3>3. CASE ~MoreTrains /\ ~done
      <4>1. s_pc' = "rate" /\ UNCHANGED link
          BY <1>1, <2>4, <3>1, <3>3 DEF BeginFleets
      <4>2. exp_train_id = MAX_TRAIN - 1
        <5>1. train_id \in Nat /\ exp_train_id \in 0..MAX_TRAIN-1
            BY DEF DataInv, SenderOK, ReceiverOK
        <5> QED
            BY <2>4, <3>3, <5>1, ConstantFacts DEF MoreTrains
      <4>3. TrainTooMany'
          BY <1>2, <2>4, <3>1, <4>1, <4>2 DEF TrainTooMany, notSender, rcvVars, trainVars
      <4> QED
          BY <1>2, <1>3, <1>4, <4>1, <4>3, SenderWordStep DEF Phases
    <3>4. CASE ~MoreTrains /\ done
        BY <1>1, <2>3, <2>4, <3>1, <3>4
    <3> QED
        BY <3>2, <3>3, <3>4
  <2>5. CASE /\ word # Fail /\ exp_fleet_id = 0 /\ toRcv = <<>>
             /\ \/ Asks(<<Word("GOOD_TRAIN")>>)
                \/ ~MoreTrains /\ Asks(<<Word("BAD_TRAIN")>>)
    <3>1. Asks(<<>>)' /\ ~(word = Word("BAD_TRAIN") /\ MoreTrains)
      <4>1. toSnd' = Tail(toSnd) /\ word = Head(toSnd)
          BY <2>1, <2>5
      <4>2. CASE Asks(<<Word("GOOD_TRAIN")>>)
        <5>1. Word("GOOD_TRAIN") # Word("BAD_TRAIN")
            BY WordFields
        <5> QED
            BY <1>2, <4>1, <4>2, <5>1, AnswerRead, DialogueWords
      <4>3. CASE ~MoreTrains /\ Asks(<<Word("BAD_TRAIN")>>)
          BY <1>2, <4>1, <4>3, AnswerRead, DialogueWords
      <4> QED
          BY <2>5, <4>2, <4>3
    <3>2. BeginFleets
        BY <1>1, <2>5, <3>1
    <3>3. CASE ~done
      <4>1. s_pc' = "rate" /\ UNCHANGED link /\ fleet_id' = 0
          BY <3>2, <3>3 DEF BeginFleets
      <4>2. FleetRequest'
          BY <1>2, <2>5, <3>1, <4>1 DEF FleetRequest, notSender, rcvVars, fleetVars
      <4> QED
          BY <1>2, <1>3, <1>4, <4>1, <4>2, SenderWordStep DEF Phases
    <3> QED
        BY <2>3, <3>2, <3>3
  <2> QED
      BY <1>3, <2>1, <2>2, <2>4, <2>5
         DEF Phases, Handshake, Trains, TrainTooMany, FleetRequest, StreamUnderWay,
             StreamJudged
<1>5. CASE link # "open"
  <2>1. /\ link' # "open"
        /\ link' \in {"none", "left"} <=> s_pc' \in {"accept", "exited"}
        /\ link' \in {"fin", "resetting"} => link \in {"fin", "resetting"}
      BY <1>1, <1>3, <1>5 DEF SenderExits, BeginFleets, Hangup, WordInv, LinkInv
  <2> QED
      BY <1>2, <1>3, <1>5, <2>1, SenderWordStep
<1> QED
    BY <1>4, <1>5

\* The first word of a fleet.
LEMMA GetRateWords == DataInv /\ WordInv /\ GetRate => WordInv'
<1> SUFFICES ASSUME DataInv, WordInv, GetRate PROVE WordInv'
    OBVIOUS
<1>1. PICK word \in Readings :
         /\ SenderReads("rate", word)
         /\ \/ /\ word = Word("TERMINATE")
               /\ done' = TRUE /\ Hangup /\ UNCHANGED s_word
            \/ word = Fail /\ Hangup /\ UNCHANGED <<done, s_word>>
            \/ /\ word \notin {Fail, Word("TERMINATE")}
               /\ s_pc' = "param" /\ s_word' = 2
               /\ UNCHANGED <<done, link>>
    BY DEF GetRate
<1>2. UNCHANGED <<notSender, udp, toRcv, train_id, fleet_id, s_stream_cnt, s_slow>>
    BY DEF GetRate
<1>3. s_pc = "rate" /\ outages' \in Nat /\ outages' <= outages
    BY <1>1, <1>2, SenderReadsEffect DEF DataInv, SenderOK
<1>4. done => done'
    BY <1>1
<1>5. CASE link = "open"
  <2>1. /\ Phases
        /\ \/ toSnd # <<>> /\ word = Head(toSnd) /\ toSnd' = Tail(toSnd) /\ word # Fail
           \/ word = Fail /\ (outages' < setup.outages \/ TrainTooMany) /\ UNCHANGED toSnd
      BY <1>1, <1>5, ReadsWhileOpen DEF Waiting
  <2>2. CASE word = Fail
    <3>1. link' = "none" /\ s_pc' \in {"accept", "exited"}
        BY <1>1, <2>2 DEF Hangup
    <3>2. Excused'
        BY <1>2, <2>1, <2>2, GivesUp
    <3> QED
        BY <1>2, <1>3, <1>4, <1>5, <3>1, <3>2, SenderWordStep
  <2>3. CASE word # Fail
    <3>1. fleet_id = exp_fleet_id /\ toRcv = <<>> /\ Asks(<<>>)
        BY <1>3, <2>1, <2>3
           DEF Phases, Handshake, Trains, TrainTooMany, FleetRequest, StreamUnderWay,
               StreamJudged
    <3>2. r_slow \in BOOLEAN
        BY DEF DataInv, ReceiverOK
    <3> DEFINE p == Params(r_slow)
    <3>3. p \in Seq(Words) /\ <<>> \o p = p /\ Head(p).op = "R" /\ Tail(p) = SubSeq(p, 2, 5)
        BY <3>2, ParamsRead
    <3>4. r_pc = "recv_fleet" /\ toSnd = p
        BY <2>1, <2>3, <3>1, <3>3 DEF Asks
    <3>5. word.op = "R" /\ toSnd' = SubSeq(p, 2, 5)
        BY <2>1, <2>3, <3>3, <3>4
    <3>6. s_pc' = "param" /\ s_word' = 2 /\ UNCHANGED link
        BY <1>1, <2>3, <3>5, WordFields
    <3>7. FleetRequest'
        BY <1>2, <3>1, <3>4, <3>5, <3>6 DEF FleetRequest, notSender, rcvVars, fleetVars
    <3> QED
        BY <1>2, <1>3, <1>4, <1>5, <3>6, <3>7, SenderWordStep DEF Phases
  <2> QED
      BY <2>2, <2>3
<1>6. CASE link # "open"
  <2>1. /\ link' # "open"
        /\ link' \in {"none", "left"} <=> s_pc' \in {"accept", "exited"}
        /\ link' \in {"fin", "resetting"} => link \in {"fin", "resetting"}
      BY <1>1, <1>3, <1>6 DEF Hangup, WordInv, LinkInv
  <2> QED
      BY <1>2, <1>3, <1>4, <1>6, <2>1, SenderWordStep
<1> QED
    BY <1>5, <1>6

\* The numbers of a fleet.
LEMMA GetParamWords == DataInv /\ WordInv /\ GetParam => WordInv'
<1> SUFFICES ASSUME DataInv, WordInv, GetParam PROVE WordInv'
    OBVIOUS
<1>1. PICK word \in Readings :
         /\ SenderReads("param", word)
         /\ \/ /\ word.op \notin Numbers
               /\ Hangup /\ UNCHANGED <<s_word, s_slow>>
            \/ /\ word.op \in Numbers
               /\ s_word' = s_word + 1
               /\ s_slow' = IF s_word = 4 THEN word.n = 1 ELSE s_slow
               /\ s_pc' = IF s_word = 4 THEN "order" ELSE "param"
               /\ UNCHANGED link
    BY DEF GetParam
<1>2. UNCHANGED <<notSender, udp, toRcv, done, train_id, fleet_id, s_stream_cnt>>
    BY DEF GetParam
<1>3. s_pc = "param" /\ outages' \in Nat /\ outages' <= outages /\ (done => done')
    BY <1>1, <1>2, SenderReadsEffect DEF DataInv, SenderOK
<1>4. CASE link = "open"
  <2>1. /\ Phases
        /\ \/ toSnd # <<>> /\ word = Head(toSnd) /\ toSnd' = Tail(toSnd) /\ word # Fail
           \/ word = Fail /\ (outages' < setup.outages \/ TrainTooMany) /\ UNCHANGED toSnd
      BY <1>1, <1>4, ReadsWhileOpen DEF Waiting
  <2>2. CASE word = Fail
    <3>1. word.op \notin Numbers
        BY <2>2, WordFields DEF Fail, Numbers
    <3>2. link' = "none" /\ s_pc' \in {"accept", "exited"}
        BY <1>1, <3>1 DEF Hangup
    <3>3. Excused'
        BY <1>2, <2>1, <2>2, GivesUp
    <3> QED
        BY <1>2, <1>3, <1>4, <3>2, <3>3, SenderWordStep
  <2>3. CASE word # Fail
    <3>1. /\ r_pc = "recv_fleet" /\ fleet_id = exp_fleet_id
          /\ toRcv = <<>> /\ toSnd = SubSeq(Params(r_slow), s_word, 5)
        BY <1>3, <2>1, <2>3
           DEF Phases, Handshake, Trains, TrainTooMany, FleetRequest, StreamUnderWay,
               StreamJudged
    <3>2. r_slow \in BOOLEAN /\ s_word \in 2..4
        BY <1>3 DEF DataInv, ReceiverOK, SenderOK
    <3> DEFINE p == Params(r_slow)
    <3>3. /\ Head(SubSeq(p, 2, 5)).op = "L" /\ Tail(SubSeq(p, 2, 5)) = SubSeq(p, 3, 5)
          /\ Head(SubSeq(p, 3, 5)).op = "K" /\ Tail(SubSeq(p, 3, 5)) = SubSeq(p, 4, 5)
          /\ Head(SubSeq(p, 4, 5)).op = "T"
          /\ (Head(SubSeq(p, 4, 5)).n = 1) = r_slow
          /\ Tail(SubSeq(p, 4, 5)) = <<Word("SEND_FLEET")>>
        BY <3>2, ParamsRead
    <3>4. CASE s_word \in 2..3
      <4>1. /\ word.op \in Numbers /\ toSnd' = SubSeq(p, s_word + 1, 5)
        <5>1. CASE s_word = 2
          <6>1. toSnd = SubSeq(p, 2, 5) /\ s_word + 1 = 3
              BY <3>1, <5>1
          <6> QED
              BY <2>1, <2>3, <3>3, <6>1 DEF Numbers
        <5>2. CASE s_word = 3
          <6>1. toSnd = SubSeq(p, 3, 5) /\ s_word + 1 = 4
              BY <3>1, <5>2
          <6> HIDE DEF p
          <6> QED
              BY <2>1, <2>3, <3>3, <6>1 DEF Numbers
        <5> QED
            BY <3>4, <5>1, <5>2
      <4>2. s_pc' = "param" /\ s_word' = s_word + 1 /\ UNCHANGED link
          BY <1>1, <3>4, <4>1
      <4>3. FleetRequest'
          BY <1>2, <3>1, <4>1, <4>2 DEF FleetRequest, notSender, rcvVars, fleetVars
      <4> QED
          BY <1>2, <1>3, <1>4, <4>2, <4>3, SenderWordStep DEF Phases
    <3>5. CASE s_word = 4
      <4>1. /\ word.op \in Numbers /\ (word.n = 1) = r_slow
            /\ toSnd' = <<Word("SEND_FLEET")>>
          BY <2>1, <2>3, <3>1, <3>3, <3>5 DEF Numbers
      <4>2. s_pc' = "order" /\ s_slow' = (word.n = 1) /\ UNCHANGED link
          BY <1>1, <3>5, <4>1
      <4>3. FleetRequest'
        <5>1. s_slow' = r_slow'
            BY <1>2, <4>1, <4>2 DEF notSender, rcvVars, fleetVars
        <5> QED
            BY <1>2, <3>1, <4>1, <4>2, <5>1
               DEF FleetRequest, SameFleet, notSender, rcvVars, fleetVars
      <4> QED
          BY <1>2, <1>3, <1>4, <4>2, <4>3, SenderWordStep DEF Phases
    <3> QED
        BY <3>2, <3>4, <3>5
  <2> QED
      BY <2>2, <2>3
<1>5. CASE link # "open"
  <2>1. /\ link' # "open"
        /\ link' \in {"none", "left"} <=> s_pc' \in {"accept", "exited"}
        /\ link' \in {"fin", "resetting"} => link \in {"fin", "resetting"}
      BY <1>1, <1>3, <1>5 DEF Hangup, WordInv, LinkInv
  <2> QED
      BY <1>2, <1>3, <1>5, <2>1, SenderWordStep
<1> QED
    BY <1>4, <1>5

\* SEND_FLEET is answered by RECV_FLEET.
LEMMA GetOrderWords == DataInv /\ WordInv /\ GetOrder => WordInv'
<1> SUFFICES ASSUME DataInv, WordInv, GetOrder PROVE WordInv'
    OBVIOUS
<1>1. PICK word \in Readings :
         /\ SenderReads("order", word)
         /\ \/ word = Fail /\ Hangup /\ UNCHANGED <<s_stream_cnt, toRcv>>
            \/ /\ word # Fail
               /\ \/ SenderSends(<<Word("RECV_FLEET")>>, "stream")
                  \/ link = "resetting" /\ Hangup /\ UNCHANGED toRcv
               /\ s_stream_cnt' = 0
    BY DEF GetOrder
<1>2. UNCHANGED <<notSender, udp, s_word, done, train_id, fleet_id, s_slow>>
    BY DEF GetOrder
<1>3. s_pc = "order" /\ outages' \in Nat /\ outages' <= outages /\ (done => done')
    BY <1>1, <1>2, SenderReadsEffect DEF DataInv, SenderOK
<1>4. CASE link = "open"
  <2>1. /\ Phases
        /\ \/ toSnd # <<>> /\ word = Head(toSnd) /\ toSnd' = Tail(toSnd) /\ word # Fail
           \/ word = Fail /\ (outages' < setup.outages \/ TrainTooMany) /\ UNCHANGED toSnd
      BY <1>1, <1>4, ReadsWhileOpen DEF Waiting
  <2>2. CASE word = Fail
    <3>1. link' = "none" /\ s_pc' \in {"accept", "exited"} /\ UNCHANGED toRcv
        BY <1>1, <2>2 DEF Hangup
    <3>2. Excused'
        BY <1>2, <2>1, <2>2, <3>1, GivesUp
    <3> QED
        BY <1>2, <1>3, <1>4, <3>1, <3>2, SenderWordStep
  <2>3. CASE word # Fail
    <3>1. r_pc = "recv_fleet" /\ SameFleet /\ toRcv = <<>> /\ toSnd = <<Word("SEND_FLEET")>>
        BY <1>3, <2>1, <2>3
           DEF Phases, Handshake, Trains, TrainTooMany, FleetRequest, StreamUnderWay,
               StreamJudged
    <3>2. toSnd' = <<>>
        BY <2>1, <2>3, <3>1, ShortSequences, DialogueWords
    <3>3. SenderSends(<<Word("RECV_FLEET")>>, "stream") /\ s_stream_cnt' = 0
        BY <1>1, <1>4, <2>3
    <3>4. UNCHANGED link /\ toRcv' = <<Word("RECV_FLEET")>> /\ s_pc' = "stream"
        BY <1>3, <1>4, <3>1, <3>3, SendsMean, ShortSequences, DialogueWords
    <3>5. StreamUnderWay'
        BY <1>2, <3>1, <3>2, <3>3, <3>4
           DEF StreamUnderWay, SameFleet, notSender, rcvVars, fleetVars
    <3> QED
        BY <1>2, <1>3, <1>4, <3>4, <3>5, SenderWordStep DEF Phases
  <2> QED
      BY <2>2, <2>3
<1>5. CASE link # "open"
  <2>1. /\ UNCHANGED toRcv /\ link' # "open"
        /\ link' \in {"none", "left"} <=> s_pc' \in {"accept", "exited"}
        /\ link' \in {"fin", "resetting"} => link \in {"fin", "resetting"}
    <3>1. CASE SenderSends(<<Word("RECV_FLEET")>>, "stream")
        BY <1>3, <1>5, <3>1, SendsMean
    <3>2. CASE Hangup /\ UNCHANGED toRcv
        BY <1>3, <1>5, <3>2 DEF Hangup
    <3> QED
        BY <1>1, <3>1, <3>2
  <2> QED
      BY <1>2, <1>3, <1>5, <2>1, SenderWordStep
<1> QED
    BY <1>4, <1>5

\* The packets of a stream, its end and its number.
LEMMA SendStreamWords == DataInv /\ WordInv /\ SendStream => WordInv'
<1> SUFFICES ASSUME DataInv, WordInv, SendStream PROVE WordInv'
    OBVIOUS
<1>1. /\ s_pc = "stream"
      /\ \/ SenderSends(StreamEnd(s_stream_cnt), "answer")
         \/ /\ link = "resetting" \/ ~Listening
            /\ Hangup \/ SenderExits
            /\ UNCHANGED toRcv
      /\ UNCHANGED <<notSender, outages, toSnd, sndData>>
    BY DEF SendStream, StreamEnd
<1>2. outages' \in Nat /\ outages' <= outages /\ (done => done')
    BY <1>1 DEF DataInv, SenderOK, sndData
<1>3. CASE link = "open"
  <2>1. SenderSends(StreamEnd(s_stream_cnt), "answer")
      BY <1>1, <1>3 DEF WordInv, LinkInv
  <2>2. UNCHANGED link /\ toRcv' = toRcv \o StreamEnd(s_stream_cnt) /\ s_pc' = "answer"
      BY <1>1, <1>3, <2>1, SendsMean
  <2>3. StreamUnderWay
      BY <1>1, <1>3
         DEF WordInv, Dialogue, Phases, Handshake, Trains, TrainTooMany, FleetRequest,
             StreamJudged
  <2>4. <<>> \o StreamEnd(s_stream_cnt) = StreamEnd(s_stream_cnt)
    <3>1. s_stream_cnt \in Nat
        BY DEF DataInv, SenderOK
    <3> QED
        BY <3>1, ShortSequences, DialogueWords DEF StreamEnd
  <2>5. StreamUnderWay'
      BY <1>1, <2>2, <2>3, <2>4
         DEF StreamUnderWay, SameFleet, notSender, rcvVars, fleetVars, sndData
  <2> QED
      BY <1>1, <1>2, <1>3, <2>2, <2>5, SenderWordStep DEF Phases
<1>4. CASE link # "open"
  <2>1. /\ UNCHANGED toRcv /\ link' # "open"
        /\ link' \in {"none", "left"} <=> s_pc' \in {"accept", "exited"}
        /\ link' \in {"fin", "resetting"} => link \in {"fin", "resetting"}
    <3>1. CASE SenderSends(StreamEnd(s_stream_cnt), "answer")
        BY <1>1, <1>4, <3>1, SendsMean
    <3>2. CASE (Hangup \/ SenderExits) /\ UNCHANGED toRcv
        BY <1>1, <1>4, <3>2 DEF Hangup, SenderExits
    <3> QED
        BY <1>1, <3>1, <3>2
  <2> QED
      BY <1>1, <1>2, <1>4, <2>1, SenderWordStep
<1> QED
    BY <1>3, <1>4

\* What the sender makes of an answer on an open connection.
LEMMA AnswerMeans ==
    ASSUME DataInv, WordInv, GetAnswer, link = "open"
    PROVE  /\ UNCHANGED toRcv
           /\ \/ /\ link' = "none" /\ s_pc' \in {"accept", "exited"}
                 /\ outages' < setup.outages \/ TrainTooMany
              \/ UNCHANGED link /\ s_pc' = "rate" /\ FleetRequest'
              \/ /\ UNCHANGED link /\ s_pc' = "stream" /\ StreamUnderWay'
                 /\ s_stream_cnt' = s_stream_cnt + 1
<1>1. PICK word \in Readings :
         /\ SenderReads("answer", word)
         /\ \/ /\ word = Fail
               /\ Hangup /\ UNCHANGED <<s_stream_cnt, fleet_id, s_word>>
            \/ /\ word = Word("ABORT_FLEET")
               /\ NextFleet /\ UNCHANGED s_stream_cnt
            \/ /\ word \notin {Fail, Word("ABORT_FLEET")}
               /\ s_stream_cnt' = IF word = Word("CONTINUE_STREAM")
                                  THEN s_stream_cnt + 1 ELSE s_stream_cnt
               /\ IF LastStream(s_stream_cnt')
                  THEN NextFleet
                  ELSE s_pc' = "stream" /\ UNCHANGED <<fleet_id, s_word, link>>
    BY DEF GetAnswer
<1>2. UNCHANGED <<notSender, udp, toRcv, done, train_id, s_slow>>
    BY DEF GetAnswer
<1>3. /\ s_pc = "answer" /\ Phases
      /\ \/ toSnd # <<>> /\ word = Head(toSnd) /\ toSnd' = Tail(toSnd) /\ word # Fail
         \/ word = Fail /\ (outages' < setup.outages \/ TrainTooMany) /\ UNCHANGED toSnd
    BY <1>1, ReadsWhileOpen DEF Waiting
<1>4. /\ Word("CONTINUE_STREAM") # Word("ABORT_FLEET") /\ Word("ABORT_FLEET") # Fail
      /\ Word("CONTINUE_STREAM") # Fail
    BY WordFields DEF Fail
<1>5. CASE word = Fail
    BY <1>1, <1>2, <1>3, <1>4, <1>5 DEF Hangup
<1>6. CASE word # Fail
  <2>1. StreamJudged /\ word = Head(toSnd) /\ toSnd' = Tail(toSnd)
      BY <1>3, <1>6
         DEF Phases, Handshake, Trains, TrainTooMany, FleetRequest, StreamUnderWay
  <2>2. CASE /\ r_pc = "stream" /\ SameFleet /\ r_stream_cnt = s_stream_cnt + 1
             /\ ~LastStream(s_stream_cnt + 1) /\ toSnd = <<Word("CONTINUE_STREAM")>>
    <3>1. word = Word("CONTINUE_STREAM") /\ toSnd' = <<>>
        BY <2>1, <2>2, ShortSequences, DialogueWords
    <3>2. s_stream_cnt' = s_stream_cnt + 1
        BY <1>1, <1>4, <3>1
    <3>3. s_pc' = "stream" /\ UNCHANGED <<fleet_id, s_word, link>>
        BY <1>1, <1>4, <2>2, <3>1, <3>2
    <3>4. toRcv = <<>>
        BY <2>1 DEF StreamJudged
    <3>5. StreamUnderWay'
        BY <1>2, <2>2, <3>1, <3>2, <3>3, <3>4
           DEF StreamUnderWay, SameFleet, notSender, rcvVars, fleetVars
    <3> QED
        BY <1>2, <3>2, <3>3, <3>5
  <2>3. ASSUME NextFleet, fleet_id + 1 = exp_fleet_id, Asks(<<>>)'
        PROVE  UNCHANGED link /\ s_pc' = "rate" /\ FleetRequest'
    <3>1. toRcv = <<>>
        BY <2>1 DEF StreamJudged
    <3> QED
        BY <1>2, <2>3, <3>1 DEF NextFleet, FleetRequest, notSender, rcvVars, fleetVars
  <2>4. CASE /\ fleet_id + 1 = exp_fleet_id
             /\ LastStream(s_stream_cnt + 1) /\ Asks(<<Word("CONTINUE_STREAM")>>)
    <3>1. word = Word("CONTINUE_STREAM") /\ Asks(<<>>)'
        BY <1>2, <2>1, <2>4, AnswerRead, DialogueWords
    <3>2. s_stream_cnt' = s_stream_cnt + 1
        BY <1>1, <1>4, <3>1
    <3>3. NextFleet
        BY <1>1, <1>4, <2>4, <3>1, <3>2
    <3> QED
        BY <1>2, <2>3, <2>4, <3>1, <3>3
  <2>5. CASE fleet_id + 1 = exp_fleet_id /\ Asks(<<Word("ABORT_FLEET")>>)
    <3>1. word = Word("ABORT_FLEET") /\ Asks(<<>>)'
        BY <1>2, <2>1, <2>5, AnswerRead, DialogueWords
    <3>2. NextFleet
        BY <1>1, <1>4, <3>1
    <3> QED
        BY <1>2, <2>3, <2>5, <3>1, <3>2
  <2> QED
      BY <2>1, <2>2, <2>4, <2>5 DEF StreamJudged
<1> QED
    BY <1>5, <1>6

\* The answer to a stream: the next one, or the next fleet.
LEMMA GetAnswerWords == DataInv /\ WordInv /\ GetAnswer => WordInv'
<1> SUFFICES ASSUME DataInv, WordInv, GetAnswer PROVE WordInv'
    OBVIOUS
<1>1. PICK word \in Readings : SenderReads("answer", word)
    BY DEF GetAnswer
<1>2. UNCHANGED <<notSender, udp, toRcv, done, train_id, s_slow>>
    BY DEF GetAnswer
<1>3. s_pc = "answer" /\ outages' \in Nat /\ outages' <= outages /\ (done => done')
    BY <1>1, <1>2, SenderReadsEffect DEF DataInv, SenderOK
<1>4. CASE link = "open"
  <2>1. CASE /\ link' = "none" /\ s_pc' \in {"accept", "exited"}
             /\ outages' < setup.outages \/ TrainTooMany
    <3>1. Excused'
        BY <1>2, <2>1, GivesUp
    <3> QED
        BY <1>2, <1>3, <1>4, <2>1, <3>1, SenderWordStep
  <2>2. CASE UNCHANGED link /\ s_pc' = "rate" /\ FleetRequest'
      BY <1>2, <1>3, <1>4, <2>2, SenderWordStep DEF Phases
  <2>3. CASE UNCHANGED link /\ s_pc' = "stream" /\ StreamUnderWay'
      BY <1>2, <1>3, <1>4, <2>3, SenderWordStep DEF Phases
  <2> QED
      BY <1>4, <2>1, <2>2, <2>3, AnswerMeans
<1>5. CASE link # "open"
  <2>1. /\ link' # "open"
        /\ link' \in {"none", "left"} <=> s_pc' \in {"accept", "exited"}
        /\ link' \in {"fin", "resetting"} => link \in {"fin", "resetting"}
    <3>1. Hangup \/ NextFleet \/ (s_pc' = "stream" /\ UNCHANGED link)
        BY DEF GetAnswer
    <3> QED
        BY <1>3, <1>5, <3>1 DEF Hangup, NextFleet, WordInv, LinkInv
  <2> QED
      BY <1>2, <1>3, <1>5, <2>1, SenderWordStep
<1> QED
    BY <1>4, <1>5

\* A connection begins with the sender's packet size.
LEMMA AcceptWords == DataInv /\ WordInv /\ Accept => WordInv'
<1> SUFFICES ASSUME DataInv, WordInv, Accept PROVE WordInv'
    OBVIOUS
<1> USE DEF rcvVars, trainVars, fleetVars, streamVars, sndData
<1>1. /\ backlog' = "none" /\ s_pc' = "size"
      /\ UNCHANGED <<setup, crashes, session, rcvVars, outages, udp, sndData>>
      /\ \/ /\ backlog = "live" /\ link' = "open"
            /\ toRcv' = <<Word("SIZE")>> /\ toSnd' = <<>>
         \/ backlog = "dead" /\ link' = "resetting" /\ toRcv' = <<>>
    BY DEF Accept
<1>2. (backlog = "live" => r_pc = "size") /\ (backlog = "dead" => r_pc = "exited")
    BY DEF DataInv, SessionOK
<1>3. LinkInv'
    BY <1>1, <1>2 DEF LinkInv, Listening, Gone
<1>4. RcvWords'
    BY <1>1, <1>2 DEF RcvWords, Gone
<1>5. Dialogue'
    BY <1>1, <1>2 DEF Dialogue, Phases, Handshake
<1>6. Deserted'
    BY <1>1 DEF WordInv, Deserted
<1>7. FirstFleet'
    BY <1>1 DEF WordInv, FirstFleet
<1> QED
    BY <1>3, <1>4, <1>5, <1>6, <1>7 DEF WordInv

-----------------------------------------------------------------------------
(* The receiver's steps.                                                   *)

\* A step of a receiver that goes on, given what it does to the phase.
LEMMA ReceiverWordStep ==
    ASSUME DataInv, WordInv, UNCHANGED <<notReceiver, backlog, link>>, backlog = "none",
           r_pc \notin Gone, r_pc' \notin Gone, RcvWords', FirstFleet',
           link = "open" => Phases',
           r_pc = "train" /\ exp_train_id = MAX_TRAIN - 1 /\ toRcv = <<>> =>
              r_pc' = "train" /\ exp_train_id' = MAX_TRAIN - 1 /\ toRcv' = <<>>
    PROVE  WordInv'
<1> USE DEF notReceiver, sndData
<1>1. LinkInv'
    BY DEF WordInv, LinkInv, Listening
<1>2. Dialogue'
    BY DEF Dialogue
<1>3. Deserted'
    BY DEF WordInv, Deserted, Excused, Listening
<1> QED
    BY <1>1, <1>2, <1>3 DEF WordInv

\* The receiver's process ends.
LEMMA ExitWords ==
    ASSUME DataInv, WordInv, NEW words, ReceiverExits(words), Listening,
           UNCHANGED notReceiver
    PROVE  WordInv'
<1> USE DEF notReceiver, sndData
<1>1. r_pc' = "exited" /\ toRcv' = <<>> /\ (link' # "open")
    BY DEF ReceiverExits, WordInv, LinkInv
<1>2. LinkInv'
  <2>1. link' = link \/ (link = "open" /\ link' \in {"fin", "resetting"})
      BY DEF ReceiverExits
  <2>2. s_pc' = s_pc /\ (link \in {"none", "left"} <=> s_pc \in {"accept", "exited"})
      BY DEF WordInv, LinkInv
  <2>3. link' \in {"none", "left"} <=> s_pc' \in {"accept", "exited"}
    <3>1. CASE link' = link
        BY <2>2, <3>1
    <3>2. CASE link = "open" /\ link' \in {"fin", "resetting"}
        BY <2>2, <3>2
    <3> QED
        BY <2>1, <3>1, <3>2
  <2>4. r_pc' \in Gone
      BY <1>1 DEF Gone
  <2> QED
      BY <1>1, <2>3, <2>4 DEF LinkInv
<1>3. RcvWords'
    BY <1>1 DEF RcvWords
<1>4. Dialogue'
    BY <1>1 DEF Dialogue
<1>5. Deserted'
    BY <1>1 DEF WordInv, Deserted, Listening, Gone
<1>6. FirstFleet'
    BY <1>1 DEF FirstFleet
<1> QED
    BY <1>2, <1>3, <1>4, <1>5, <1>6 DEF WordInv

\* The steps that end the receiver.
LEMMA ExitsWords ==
    DataInv /\ WordInv
      /\ (SizeAlarm \/ ReceiverDies \/ EndSearch \/ TrainPacketInFleet \/ Alarm \/ Crash)
        => WordInv'
<1> SUFFICES ASSUME DataInv, WordInv,
                    SizeAlarm \/ ReceiverDies \/ EndSearch \/ TrainPacketInFleet
                      \/ Alarm \/ Crash
             PROVE  WordInv'
    OBVIOUS
<1>1. Listening /\ UNCHANGED notReceiver
    BY AnswersWhen
       DEF SizeAlarm, ReceiverDies, EndSearch, TrainPacketInFleet, Alarm, Crash,
           Listening, Gone
<1>2. \E words : ReceiverExits(words)
    BY DEF SizeAlarm, ReceiverDies, EndSearch, TrainPacketInFleet, Alarm, Crash
<1> QED
    BY <1>1, <1>2, ExitWords

\* Another receiver is started and connects.
LEMMA ReceiverStartWords == DataInv /\ WordInv /\ ReceiverStart => WordInv'
<1> SUFFICES ASSUME DataInv, WordInv, ReceiverStart PROVE WordInv'
    OBVIOUS
<1> USE DEF ReceiverStart, sndData, trainVars, streamVars
<1>1. LinkInv'
    BY DEF WordInv, LinkInv, Listening
<1>2. RcvWords'
    BY DEF WordInv, RcvWords, Gone
<1>3. Dialogue'
    BY DEF WordInv, LinkInv, Listening, Dialogue
<1>4. Deserted'
    BY DEF WordInv, Deserted
<1>5. FirstFleet'
    BY DEF FirstFleet
<1> QED
    BY <1>1, <1>2, <1>3, <1>4, <1>5 DEF WordInv

\* The sizes: the receiver answers with its own.
LEMMA ReceiverGetSizeWords == DataInv /\ WordInv /\ ReceiverGetSize => WordInv'
<1> SUFFICES ASSUME DataInv, WordInv, ReceiverGetSize PROVE WordInv'
    OBVIOUS
<1>1. /\ r_pc = "size" /\ ReceiverReads(Word("SIZE"))
      /\ ReceiverSends(<<Word("SIZE")>>) /\ toRcv' = Tail(toRcv) /\ r_pc' = "latency"
      /\ UNCHANGED <<notReceiver, crashes, trainVars, fleetVars>>
    BY DEF ReceiverGetSize
<1>2. backlog = "none" /\ UNCHANGED <<backlog, link>>
    BY <1>1 DEF ReceiverReads, ReceiverSends
<1>3. toRcv = <<Word("SIZE")>> /\ toRcv' = <<>>
  <2>1. toRcv = <<Word("SIZE")>>
      BY <1>1, <1>2 DEF WordInv, RcvWords
  <2> QED
      BY <1>1, <2>1, ShortSequences, DialogueWords
<1>4. RcvWords' /\ FirstFleet'
    BY <1>1, <1>2, <1>3 DEF WordInv, RcvWords, FirstFleet, Gone, fleetVars
<1>5. CASE link = "open"
  <2>1. s_pc = "size" /\ toSnd = <<>>
      BY <1>1, <1>3, <1>5
         DEF WordInv, Dialogue, Phases, Handshake, Trains, TrainTooMany, FleetRequest,
             StreamUnderWay, StreamJudged, Asks
  <2>2. toSnd' = <<Word("SIZE")>>
      BY <1>1, <1>5, <2>1, ShortSequences, DialogueWords DEF ReceiverSends
  <2>3. Handshake'
      BY <1>1, <1>3, <2>1, <2>2 DEF Handshake, notReceiver
  <2> QED
      BY <1>1, <1>2, <1>4, <2>3, ReceiverWordStep DEF Phases, Gone
<1>6. CASE link # "open"
    BY <1>1, <1>2, <1>4, <1>6, ReceiverWordStep DEF Gone
<1> QED
    BY <1>5, <1>6

\* The receiver asks for trains.
LEMMA ReceiverGetLatencyWords == DataInv /\ WordInv /\ ReceiverGetLatency => WordInv'
<1> SUFFICES ASSUME DataInv, WordInv, ReceiverGetLatency PROVE WordInv'
    OBVIOUS
<1>1. /\ r_pc = "latency" /\ ReceiverReads(Word("LATENCY"))
      /\ ReceiverSends(<<Word("SEND_TRAIN")>>) /\ toRcv' = Tail(toRcv)
      /\ r_pc' = "train" /\ exp_train_id' = 0
      /\ UNCHANGED <<notReceiver, crashes, udp, fleetVars>>
    BY DEF ReceiverGetLatency, BeginTrain
<1>2. backlog = "none" /\ UNCHANGED <<backlog, link>>
    BY <1>1 DEF ReceiverReads, ReceiverSends
<1>3. toRcv = <<Word("LATENCY")>> /\ toRcv' = <<>>
  <2>1. toRcv = <<Word("LATENCY")>>
      BY <1>1, <1>2 DEF WordInv, RcvWords, ReceiverReads
  <2> QED
      BY <1>1, <2>1, ShortSequences, DialogueWords
<1>4. RcvWords' /\ FirstFleet'
    BY <1>1, <1>2, <1>3 DEF WordInv, RcvWords, FirstFleet, Gone, fleetVars
<1>5. CASE link = "open"
  <2>1. toRcv # <<>>
      BY <1>1 DEF ReceiverReads
  <2>2. s_pc = "adr" /\ toSnd = <<>>
      BY <1>1, <1>5, <2>1
         DEF WordInv, Dialogue, Phases, Handshake, Trains, TrainTooMany, FleetRequest,
             StreamUnderWay, StreamJudged, Asks
  <2>3. toSnd' = <<Word("SEND_TRAIN")>>
      BY <1>1, <1>5, <2>2, ShortSequences, DialogueWords DEF ReceiverSends
  <2>4. Trains'
      BY <1>1, <1>3, <2>2, <2>3 DEF Trains, notReceiver
  <2> QED
      BY <1>1, <1>2, <1>4, <2>4, ReceiverWordStep DEF Phases, Gone
<1>6. CASE link # "open"
    BY <1>1, <1>2, <1>4, <1>6, ReceiverWordStep DEF Gone
<1> QED
    BY <1>5, <1>6

\* Probe packets are no words.
LEMMA ReadPacketWords ==
    DataInv /\ WordInv /\ (ReadTrainPacket \/ ReadStreamPacket) => WordInv'
<1> SUFFICES ASSUME DataInv, WordInv, ReadTrainPacket \/ ReadStreamPacket PROVE WordInv'
    OBVIOUS
<1> USE DEF notReceiver, sndData, fleetVars, trainVars
<1>1. /\ r_pc \notin Gone
      /\ UNCHANGED <<notReceiver, r_pc, exp_train_id, backlog, link, toRcv, toSnd,
                     exp_fleet_id, r_stream_cnt, r_slow>>
    BY DEF ReadTrainPacket, ReadStreamPacket, Gone
<1>2. LinkInv'
    BY <1>1 DEF WordInv, LinkInv, Listening
<1>3. RcvWords'
    BY <1>1 DEF WordInv, RcvWords
<1>4. Dialogue'
  <2>1. Handshake' <=> Handshake
      BY <1>1 DEF Handshake
  <2>3. Trains' <=> Trains
    <3>1. /\ Asks(<<Word("GOOD_TRAIN")>>)' <=> Asks(<<Word("GOOD_TRAIN")>>)
          /\ Asks(<<Word("BAD_TRAIN")>>)' <=> Asks(<<Word("BAD_TRAIN")>>)
        BY <1>1 DEF Asks
    <3> QED
        BY <1>1, <3>1 DEF Trains, MoreTrains
  <2>4. TrainTooMany' <=> TrainTooMany
      BY <1>1 DEF TrainTooMany
  <2>5. FleetRequest' <=> FleetRequest
    <3>1. Asks(<<>>)' <=> Asks(<<>>)
        BY <1>1 DEF Asks
    <3> QED
        BY <1>1, <3>1 DEF FleetRequest, SameFleet
  <2>6. StreamUnderWay' <=> StreamUnderWay
      BY <1>1 DEF StreamUnderWay, SameFleet
  <2>7. StreamJudged' <=> StreamJudged
    <3>1. /\ Asks(<<Word("CONTINUE_STREAM")>>)' <=> Asks(<<Word("CONTINUE_STREAM")>>)
          /\ Asks(<<Word("ABORT_FLEET")>>)' <=> Asks(<<Word("ABORT_FLEET")>>)
        BY <1>1 DEF Asks
    <3> QED
        BY <1>1, <3>1 DEF StreamJudged, SameFleet, LastStream
  <2> QED
      BY <1>1, <2>1, <2>3, <2>4, <2>5, <2>6, <2>7 DEF WordInv, Dialogue, Phases
<1>5. Deserted'
    BY <1>1 DEF WordInv, Deserted, Excused, Listening
<1>6. FirstFleet'
    BY <1>1 DEF WordInv, FirstFleet
<1> QED
    BY <1>2, <1>3, <1>4, <1>5, <1>6 DEF WordInv

\* The verdict on a train: after the last one the receiver asks for a fleet whatever
\* it was.
LEMMA EndOfTrainWords == DataInv /\ WordInv /\ EndOfTrain => WordInv'
<1> SUFFICES ASSUME DataInv, WordInv, EndOfTrain PROVE WordInv'
    OBVIOUS
<1>1. PICK verdict \in {"GOOD_TRAIN", "BAD_TRAIN"} :
         /\ r_pc = "train" /\ ReceiverReads(Word("FINISHED_TRAIN"))
         /\ toRcv' = Tail(toRcv) /\ ReceiverSends(<<Word(verdict)>>)
         /\ \/ /\ verdict = "GOOD_TRAIN" \/ exp_train_id = MAX_TRAIN - 1
               /\ r_pc' = "params" /\ UNCHANGED exp_train_id
            \/ /\ verdict = "BAD_TRAIN" /\ exp_train_id # MAX_TRAIN - 1
               /\ r_pc' = "train" /\ exp_train_id' = exp_train_id + 1
         /\ UNCHANGED <<notReceiver, crashes, udp, fleetVars>>
  <2>1. CASE ~bad_train /\ rcvd = TrainLen(exp_train_id) + 1
      BY <2>1 DEF EndOfTrain
  <2>2. CASE ~(~bad_train /\ rcvd = TrainLen(exp_train_id) + 1)
      BY <2>2 DEF EndOfTrain, BeginTrain
  <2> QED
      BY <2>1, <2>2
<1>2. backlog = "none" /\ UNCHANGED <<backlog, link>>
    BY <1>1 DEF ReceiverReads, ReceiverSends
<1>3. toRcv = <<Word("FINISHED_TRAIN")>> /\ toRcv' = <<>>
  <2>1. toRcv = <<Word("FINISHED_TRAIN")>>
      BY <1>1, <1>2 DEF WordInv, RcvWords, ReceiverReads
  <2> QED
      BY <1>1, <2>1, ShortSequences, DialogueWords
<1>4. RcvWords' /\ FirstFleet'
    BY <1>1, <1>2, <1>3 DEF WordInv, RcvWords, FirstFleet, Gone, fleetVars
<1>5. CASE link = "open"
  <2>1. toRcv # <<>>
      BY <1>1 DEF ReceiverReads
  <2>2. s_pc = "verdict" /\ exp_train_id = train_id /\ toSnd = <<>>
      BY <1>1, <1>5, <2>1
         DEF WordInv, Dialogue, Phases, Handshake, Trains, TrainTooMany, FleetRequest,
             StreamUnderWay, StreamJudged, Asks
  <2>3. toSnd' = <<Word(verdict)>>
      BY <1>1, <1>5, <2>2, ShortSequences, DialogueWords DEF ReceiverSends
  <2>4. exp_fleet_id = 0
      BY <1>1 DEF WordInv, FirstFleet
  <2>5. CASE r_pc' = "params"
    <3>1. verdict = "BAD_TRAIN" => ~MoreTrains
      <4>1. train_id \in Nat
          BY DEF DataInv, SenderOK
      <4> QED
          BY <1>1, <2>2, <2>5, <4>1, ConstantFacts DEF MoreTrains
    <3>2. UNCHANGED <<s_pc, exp_fleet_id, train_id>>
        BY <1>1 DEF notReceiver, sndData, fleetVars
    <3>3. Asks(<<Word(verdict)>>)'
        BY <2>3, <2>5 DEF Asks
    <3>4. verdict = "BAD_TRAIN" => ~MoreTrains'
        BY <3>1, <3>2 DEF MoreTrains
    <3>5. Trains'
        BY <1>3, <2>2, <2>4, <3>2, <3>3, <3>4 DEF Trains
    <3> QED
        BY <1>1, <1>2, <1>3, <1>4, <2>1, <2>5, <3>5, ReceiverWordStep DEF Phases, Gone
  <2>6. CASE r_pc' = "train" /\ verdict = "BAD_TRAIN" /\ exp_train_id' = exp_train_id + 1
    <3>1. Trains'
        BY <1>1, <1>3, <2>2, <2>3, <2>6 DEF Trains, notReceiver, sndData
    <3> QED
        BY <1>1, <1>2, <1>3, <1>4, <2>1, <2>6, <3>1, ReceiverWordStep DEF Phases, Gone
  <2> QED
      BY <1>1, <2>5, <2>6
<1>6. CASE link # "open"
  <2>1. toRcv # <<>>
      BY <1>1 DEF ReceiverReads
  <2> QED
      BY <1>1, <1>2, <1>4, <1>6, <2>1, ReceiverWordStep DEF Gone
<1> QED
    BY <1>5, <1>6

\* The receiver asks for a fleet, before or after the sender has read its verdict.
LEMMA AskForFleetWords == DataInv /\ WordInv /\ AskForFleet => WordInv'
<1> SUFFICES ASSUME DataInv, WordInv, AskForFleet PROVE WordInv'
    OBVIOUS
<1>1. /\ r_pc = "params" /\ r_pc' = "recv_fleet"
      /\ \E slow \in BOOLEAN : r_slow' = slow /\ ReceiverSends(Params(slow))
      /\ UNCHANGED <<notReceiver, toRcv, trainVars, exp_fleet_id, r_stream_cnt>>
    BY DEF AskForFleet
<1>2. backlog = "none" /\ UNCHANGED <<backlog, link>>
    BY <1>1 DEF ReceiverSends, DataInv, SessionOK, ChannelsOK
<1>3. toRcv = <<>> /\ toRcv' = <<>>
    BY <1>1 DEF WordInv, RcvWords
<1>4. RcvWords' /\ FirstFleet'
    BY <1>1, <1>2, <1>3 DEF RcvWords, FirstFleet, Gone
<1>5. CASE link = "open"
  <2>1. toSnd' = toSnd \o Params(r_slow')
      BY <1>1, <1>5 DEF ReceiverSends
  <2>2. ASSUME NEW words, toSnd = words
        PROVE  /\ r_pc' = "recv_fleet" /\ toSnd' = words \o Params(r_slow')
      BY <1>1, <2>1, <2>2
  <2>3. UNCHANGED <<s_pc, exp_fleet_id, fleet_id, s_stream_cnt, s_slow, train_id>>
      BY <1>1 DEF notReceiver, sndData
  <2>4. CASE /\ s_pc = "verdict" /\ exp_fleet_id = 0
             /\ \/ toSnd = <<Word("GOOD_TRAIN")>>
                \/ ~MoreTrains /\ toSnd = <<Word("BAD_TRAIN")>>
    <3>1. \/ Asks(<<Word("GOOD_TRAIN")>>)'
          \/ ~MoreTrains' /\ Asks(<<Word("BAD_TRAIN")>>)'
        BY <2>2, <2>3, <2>4 DEF Asks, MoreTrains
    <3>2. Trains'
        BY <1>3, <2>3, <2>4, <3>1 DEF Trains
    <3> QED
        BY <1>1, <1>2, <1>4, <3>2, ReceiverWordStep DEF Phases, Gone
  <2>5. CASE s_pc = "rate" /\ fleet_id = exp_fleet_id /\ toSnd = <<>>
    <3>1. Asks(<<>>)'
        BY <2>2, <2>5 DEF Asks
    <3>2. FleetRequest'
        BY <1>3, <2>3, <2>5, <3>1 DEF FleetRequest
    <3> QED
        BY <1>1, <1>2, <1>4, <3>2, ReceiverWordStep DEF Phases, Gone
  <2>6. CASE /\ s_pc = "answer" /\ fleet_id + 1 = exp_fleet_id
             /\ \/ LastStream(s_stream_cnt + 1) /\ toSnd = <<Word("CONTINUE_STREAM")>>
                \/ toSnd = <<Word("ABORT_FLEET")>>
    <3>1. \/ LastStream(s_stream_cnt + 1)' /\ Asks(<<Word("CONTINUE_STREAM")>>)'
          \/ Asks(<<Word("ABORT_FLEET")>>)'
        BY <2>2, <2>3, <2>6 DEF Asks, LastStream
    <3>2. StreamJudged'
        BY <1>3, <2>3, <2>6, <3>1 DEF StreamJudged
    <3> QED
        BY <1>1, <1>2, <1>4, <3>2, ReceiverWordStep DEF Phases, Gone
  <2> QED
      BY <1>1, <1>5, <2>4, <2>5, <2>6
         DEF WordInv, Dialogue, Phases, Handshake, Trains, TrainTooMany, FleetRequest,
             StreamUnderWay, StreamJudged, Asks
<1>6. CASE link # "open"
    BY <1>1, <1>2, <1>4, <1>6, ReceiverWordStep DEF Gone
<1> QED
    BY <1>5, <1>6

\* RECV_FLEET is the only word that comes to a receiver that waits for it.
LEMMA AwaitRecvFleetWords == DataInv /\ WordInv /\ AwaitRecvFleet => WordInv'
<1> SUFFICES ASSUME DataInv, WordInv, AwaitRecvFleet PROVE WordInv'
    OBVIOUS
<1>1. PICK word \in Range(toRcv) :
         /\ ReceiverReads(word)
         /\ toRcv' = SubSeq(toRcv, IF word = Word("FINISHED_STREAM") THEN 3 ELSE 2, Len(toRcv))
         /\ IF word = Word("RECV_FLEET")
            THEN r_stream_cnt' = 0 /\ lossy_stream' = 0 /\ ExpectStream
            ELSE UNCHANGED <<r_pc, r_stream_cnt, lossy_stream, streamVars>>
    BY DEF AwaitRecvFleet
<1>2. /\ r_pc = "recv_fleet"
      /\ UNCHANGED <<notReceiver, crashes, backlog, link, toSnd, udp, trainVars,
                     exp_fleet_id, r_slow>>
    BY DEF AwaitRecvFleet
<1>3. backlog = "none" /\ toRcv # <<>> /\ word = Head(toRcv)
    BY <1>1 DEF ReceiverReads
<1> DEFINE recv == Word("RECV_FLEET")
<1>4. recv \in Words /\ StreamEnd(0) \in Seq(Words)
    BY DialogueWords DEF StreamEnd
<1>5. \/ toRcv = <<recv>> \o <<>>
      \/ toRcv = <<recv>> \o StreamEnd(0)
  <2>1. <<recv>> = <<recv>> \o <<>>
      BY <1>4
  <2> QED
      BY <1>2, <1>3, <2>1 DEF WordInv, RcvWords
<1>6. PICK end \in {<<>>, StreamEnd(0)} : toRcv = <<recv>> \o end
    BY <1>5
<1>7. word = recv
    BY <1>3, <1>4, <1>6, WordInFront
<1>8. recv # Word("FINISHED_STREAM")
    BY WordFields
<1>9. toRcv' = end
  <2>1. toRcv' = SubSeq(toRcv, 2, Len(toRcv))
      BY <1>1, <1>7, <1>8
  <2>2. toRcv \in Seq(Words) /\ end \in Seq(Words)
      BY <1>4, <1>6, WordSequences DEF DataInv, ChannelsOK
  <2>3. SubSeq(toRcv, 2, Len(toRcv)) = Tail(toRcv)
      BY <1>3, <2>2, TailIsSubSeq
  <2> QED
      BY <1>4, <1>6, <2>1, <2>2, <2>3, WordInFront
<1>10. r_pc' = "stream" /\ r_stream_cnt' = 0
    BY <1>1, <1>7 DEF ExpectStream
<1>11. RcvWords' /\ FirstFleet'
    BY <1>2, <1>3, <1>6, <1>9, <1>10 DEF RcvWords, FirstFleet, Gone
<1>12. CASE link = "open"
  <2>1. /\ SameFleet /\ toSnd = <<>> /\ s_stream_cnt = 0
        /\ \/ s_pc = "stream" /\ toRcv = <<recv>>
           \/ s_pc = "answer" /\ toRcv = <<recv>> \o StreamEnd(0)
      BY <1>2, <1>3, <1>12
         DEF WordInv, Dialogue, Phases, Handshake, Trains, TrainTooMany, FleetRequest,
             StreamUnderWay, StreamJudged, Asks
  <2>2. \/ s_pc = "stream" /\ toRcv' = <<>>
        \/ s_pc = "answer" /\ toRcv' = StreamEnd(0)
    <3>1. Len(StreamEnd(0)) = 2
        BY DialogueWords DEF StreamEnd
    <3>2. ASSUME NEW w \in Words, NEW v \in Seq(Words), Len(v) = 2
          PROVE  <<w>> # <<w>> \o v /\ <<w>> \o <<>> = <<w>>
      <4>1. <<w>> \in Seq(Words) /\ v # <<>>
          BY <3>2
      <4>2. <<w>> # <<w>> \o v
          BY <4>1, ConcatEqualIffEmpty
      <4>3. <<w>> \o <<>> = <<w>>
          OBVIOUS
      <4> QED
          BY <4>2, <4>3
    <3>3. <<recv>> # <<recv>> \o StreamEnd(0) /\ <<recv>> \o <<>> = <<recv>>
        BY <1>4, <3>1, <3>2
    <3> QED
        BY <1>6, <1>9, <2>1, <3>3
  <2>3. StreamUnderWay'
      BY <1>2, <1>10, <2>1, <2>2 DEF StreamUnderWay, SameFleet, notReceiver, sndData
  <2> QED
      BY <1>2, <1>3, <1>10, <1>11, <2>3, ReceiverWordStep DEF Phases, Gone
<1>13. CASE link # "open"
    BY <1>2, <1>3, <1>10, <1>11, <1>13, ReceiverWordStep DEF Gone
<1> QED
    BY <1>12, <1>13

\* The end of a stream is the one recv_fleet waits for.
LEMMA StreamEndRead ==
    ASSUME NEW cnt \in Nat
    PROVE  /\ StreamEnd(cnt) # <<>> /\ StreamEnd(cnt)[2] = Number("ID", cnt)
           /\ SubSeq(StreamEnd(cnt), 3, Len(StreamEnd(cnt))) = <<>>
    BY DialogueWords, ShortSequences DEF StreamEnd

\* The receiver's verdict on a stream.
LEMMA EndOfStreamMeans ==
    ASSUME DataInv, WordInv, EndOfStream
    PROVE  /\ r_pc = "stream" /\ toRcv = StreamEnd(r_stream_cnt) /\ toRcv' = <<>>
           /\ backlog = "none"
           /\ UNCHANGED <<notReceiver, backlog, link, trainVars, r_slow>>
           /\ r_stream_cnt' = r_stream_cnt + 1
           /\ \/ /\ ReceiverSends(<<Word("ABORT_FLEET")>>)
                 /\ r_pc' = "params" /\ exp_fleet_id' = exp_fleet_id + 1
              \/ /\ ReceiverSends(<<Word("CONTINUE_STREAM")>>)
                 /\ IF r_slow \/ r_stream_cnt + 1 = NumStream
                    THEN r_pc' = "params" /\ exp_fleet_id' = exp_fleet_id + 1
                    ELSE r_pc' = "stream" /\ UNCHANGED exp_fleet_id
<1>1. /\ r_pc = "stream" /\ toRcv # <<>> /\ backlog = "none"
      /\ toRcv' = SubSeq(toRcv, 3, Len(toRcv)) /\ UNCHANGED <<notReceiver, trainVars>>
    BY DEF EndOfStream, ReceiverReads
<1>2. r_stream_cnt \in Nat
    BY DEF DataInv, ReceiverOK
<1>3. toRcv = StreamEnd(r_stream_cnt)
    BY <1>1 DEF WordInv, RcvWords
<1>4. toRcv[2] = Number("ID", r_stream_cnt) /\ toRcv' = <<>>
    BY <1>1, <1>2, <1>3, StreamEndRead
<1>5. /\ r_stream_cnt' = r_stream_cnt + 1 /\ UNCHANGED r_slow
      /\ \/ /\ ReceiverSends(<<Word("ABORT_FLEET")>>)
            /\ r_pc' = "params" /\ exp_fleet_id' = exp_fleet_id + 1
         \/ /\ ReceiverSends(<<Word("CONTINUE_STREAM")>>)
            /\ IF r_slow \/ r_stream_cnt + 1 = NumStream
               THEN r_pc' = "params" /\ exp_fleet_id' = exp_fleet_id + 1
               ELSE r_pc' = "stream" /\ UNCHANGED exp_fleet_id
    BY <1>4 DEF EndOfStream, ExpectStream
<1>6. UNCHANGED <<backlog, link>>
    BY <1>5 DEF ReceiverSends
<1> QED
    BY <1>1, <1>3, <1>4, <1>5, <1>6

\* Both sides take the last stream of a fleet for the last.
LEMMA EndOfStreamWords == DataInv /\ WordInv /\ EndOfStream => WordInv'
<1> SUFFICES ASSUME DataInv, WordInv, EndOfStream PROVE WordInv'
    OBVIOUS
<1>1. /\ r_pc = "stream" /\ toRcv = StreamEnd(r_stream_cnt) /\ toRcv' = <<>>
      /\ backlog = "none"
      /\ UNCHANGED <<notReceiver, backlog, link, trainVars, r_slow>>
      /\ r_stream_cnt' = r_stream_cnt + 1
      /\ r_pc' \in {"params", "stream"}
    BY EndOfStreamMeans
<1>2. RcvWords' /\ FirstFleet'
    BY <1>1 DEF RcvWords, FirstFleet, Gone
<1>3. CASE link = "open"
  <2>1. toRcv # <<>>
    <3>1. r_stream_cnt \in Nat
        BY DEF DataInv, ReceiverOK
    <3> QED
        BY <1>1, <3>1, StreamEndRead
  <2>2. s_pc = "answer" /\ SameFleet /\ toSnd = <<>> /\ s_stream_cnt = r_stream_cnt
      BY <1>1, <1>3, <2>1
         DEF WordInv, Dialogue, Phases, Handshake, Trains, TrainTooMany, FleetRequest,
             StreamUnderWay, StreamJudged, Asks
  <2>3. UNCHANGED <<s_pc, fleet_id, s_stream_cnt, s_slow, r_slow>>
      BY <1>1 DEF notReceiver, sndData
  <2>4. ASSUME NEW w \in Words, ReceiverSends(<<w>>) PROVE toSnd' = <<w>>
      BY <1>3, <2>2, <2>4, ShortSequences DEF ReceiverSends
  <2>5. LastStream(s_stream_cnt + 1) <=> r_slow \/ r_stream_cnt + 1 = NumStream
      BY <2>2 DEF LastStream, SameFleet
  <2>6. LastStream(s_stream_cnt + 1)' <=> LastStream(s_stream_cnt + 1)
      BY <2>3 DEF LastStream
  <2>7. CASE /\ ReceiverSends(<<Word("ABORT_FLEET")>>)
             /\ r_pc' = "params" /\ exp_fleet_id' = exp_fleet_id + 1
    <3>1. toSnd' = <<Word("ABORT_FLEET")>>
        BY <2>4, <2>7, DialogueWords
    <3>2. Asks(<<Word("ABORT_FLEET")>>)'
        BY <2>7, <3>1 DEF Asks
    <3>3. StreamJudged'
        BY <1>1, <2>2, <2>3, <2>7, <3>2 DEF StreamJudged, SameFleet
    <3> QED
        BY <1>1, <1>2, <3>3, ReceiverWordStep DEF Phases, Gone
  <2>8. CASE /\ ReceiverSends(<<Word("CONTINUE_STREAM")>>)
             /\ r_slow \/ r_stream_cnt + 1 = NumStream
             /\ r_pc' = "params" /\ exp_fleet_id' = exp_fleet_id + 1
    <3>1. toSnd' = <<Word("CONTINUE_STREAM")>>
        BY <2>4, <2>8, DialogueWords
    <3>2. Asks(<<Word("CONTINUE_STREAM")>>)'
        BY <2>8, <3>1 DEF Asks
    <3>3. LastStream(s_stream_cnt + 1)'
        BY <2>5, <2>6, <2>8
    <3>4. StreamJudged'
        BY <1>1, <2>2, <2>3, <2>8, <3>2, <3>3 DEF StreamJudged, SameFleet
    <3> QED
        BY <1>1, <1>2, <3>4, ReceiverWordStep DEF Phases, Gone
  <2>9. CASE /\ ReceiverSends(<<Word("CONTINUE_STREAM")>>)
             /\ ~(r_slow \/ r_stream_cnt + 1 = NumStream)
             /\ r_pc' = "stream" /\ UNCHANGED exp_fleet_id
    <3>1. toSnd' = <<Word("CONTINUE_STREAM")>>
        BY <2>4, <2>9, DialogueWords
    <3>2. ~LastStream(s_stream_cnt + 1)'
        BY <2>5, <2>6, <2>9
    <3>3. StreamJudged'
        BY <1>1, <2>2, <2>3, <2>9, <3>1, <3>2 DEF StreamJudged, SameFleet
    <3> QED
        BY <1>1, <1>2, <3>3, ReceiverWordStep DEF Phases, Gone
  <2> QED
      BY <2>7, <2>8, <2>9, EndOfStreamMeans
<1>4. CASE link # "open"
    BY <1>1, <1>2, <1>4, ReceiverWordStep DEF Gone
<1> QED
    BY <1>3, <1>4

-----------------------------------------------------------------------------
(* The invariant holds, and what follows from it.                          *)

\* Nobody is connected at first.
LEMMA InitWords == Init => WordInv
<1> SUFFICES ASSUME Init PROVE WordInv
    OBVIOUS
<1>1. setup.outages \in Nat
    BY SetupAssumption DEF Init, SetupType
<1>2. LinkInv /\ RcvWords /\ Dialogue /\ FirstFleet
    BY DEF Init, LinkInv, RcvWords, Dialogue, FirstFleet, Gone
<1>3. Deserted
    BY <1>1 DEF Init, Deserted, Listening, Gone
<1> QED
    BY <1>2, <1>3 DEF WordInv

\* A step that changes nothing.
LEMMA StutterWords == WordInv /\ UNCHANGED vars => WordInv'
<1> SUFFICES ASSUME WordInv, UNCHANGED vars PROVE WordInv'
    OBVIOUS
<1> USE DEF vars, notSender, rcvVars, trainVars, fleetVars, streamVars, sndData
<1>1. LinkInv' /\ RcvWords' /\ FirstFleet'
    BY DEF WordInv, LinkInv, RcvWords, FirstFleet, Listening
<1>2. Deserted'
    BY DEF WordInv, Deserted, Excused, Listening
<1>3. Dialogue'
  <2>1. /\ Handshake' <=> Handshake
        /\ TrainTooMany' <=> TrainTooMany
        /\ StreamUnderWay' <=> StreamUnderWay
      BY DEF Handshake, TrainTooMany, StreamUnderWay, SameFleet
  <2>2. Trains' <=> Trains
      BY DEF Trains, Asks, MoreTrains
  <2>3. FleetRequest' <=> FleetRequest
      BY DEF FleetRequest, Asks, SameFleet
  <2>4. StreamJudged' <=> StreamJudged
      BY DEF StreamJudged, Asks, SameFleet, LastStream
  <2> QED
      BY <2>1, <2>2, <2>3, <2>4 DEF WordInv, Dialogue, Phases
<1> QED
    BY <1>1, <1>2, <1>3 DEF WordInv

\* Every step keeps the invariant.
LEMMA NextWords == DataInv /\ WordInv /\ [Next]_vars => WordInv'
<1> SUFFICES ASSUME DataInv, WordInv, [Next]_vars PROVE WordInv'
    OBVIOUS
<1>1. CASE SenderNext
    BY <1>1, AcceptWords, GetSizeWords, GetAdrRequestWords, SendTrainWords, GetVerdictWords,
       GetRateWords, GetParamWords, GetOrderWords, SendStreamWords, GetAnswerWords
       DEF SenderNext
<1>2. CASE ReceiverNext
    BY <1>2, ExitsWords, ReceiverGetSizeWords, ReceiverGetLatencyWords, ReadPacketWords,
       EndOfTrainWords, AskForFleetWords, AwaitRecvFleetWords, EndOfStreamWords
       DEF ReceiverNext
<1>3. CASE ReceiverStart \/ Crash
    BY <1>3, ReceiverStartWords, ExitsWords
<1>4. CASE UNCHANGED vars
    BY <1>4, StutterWords
<1> QED
    BY <1>1, <1>2, <1>3, <1>4 DEF Next

\* The invariants hold in every reachable state.
LEMMA WordInvariant == Spec => [](DataInv /\ WordInv)
    BY InitData, NextData, InitWords, NextWords, PTL DEF Spec

\* recv_fleet and send_fleet, pathload-original-receiver-func.cc and
\* pathload-original-sender.cc: the end of a stream always carries the number the
\* receiver waits for, and both sides count fleets and streams alike.
THEOREM IdsAgree == Spec => []StreamIdsAgree
<1>1. DataInv /\ WordInv => StreamIdsAgree
  <2> SUFFICES ASSUME DataInv, WordInv, r_pc = "stream", toRcv # <<>>
               PROVE  /\ toRcv = StreamEnd(r_stream_cnt)
                      /\ link = "open" =>
                           fleet_id = exp_fleet_id /\ s_stream_cnt = r_stream_cnt
      BY DEF StreamIdsAgree, StreamEnd
  <2>1. toRcv = StreamEnd(r_stream_cnt)
      BY DEF WordInv, RcvWords
  <2>2. link = "open" => StreamUnderWay
      BY DEF WordInv, Dialogue, Phases, Handshake, Trains, TrainTooMany, FleetRequest,
             StreamJudged, Asks
  <2> QED
      BY <2>1, <2>2 DEF StreamUnderWay, SameFleet
<1> QED
    BY <1>1, WordInvariant, PTL

\* The sender's main: it turns its back on a receiver at work only after an outage, in
\* the train too many, or when an earlier receiver has told it to terminate.
THEOREM NeverDeserted == Spec => []DesertedOnlyThen
<1>1. WordInv => DesertedOnlyThen
    BY DEF WordInv, Deserted, Excused, DesertedOnlyThen
<1> QED
    BY <1>1, WordInvariant, PTL

\* send_fleet: a stream is repeated only when the connection is no longer open.
THEOREM NoResend == Spec => ResendOnlyToNobody
<1>1. ASSUME DataInv, WordInv, [Next]_vars
      PROVE  [s_pc = "answer" /\ s_pc' = "stream" /\ s_stream_cnt' = s_stream_cnt
                => link # "open"]_vars
  <2> SUFFICES ASSUME s_pc = "answer", s_pc' = "stream", s_stream_cnt' = s_stream_cnt,
                      link = "open"
               PROVE  FALSE
      OBVIOUS
  <2>1. GetAnswer
    <3>1. s_pc' # s_pc
        OBVIOUS
    <3>2. ~UNCHANGED notReceiver /\ ~UNCHANGED vars
        BY <3>1 DEF notReceiver, vars
    <3>3. ~ReceiverNext /\ ~Crash /\ ~ReceiverStart
        BY <3>2
           DEF ReceiverNext, SizeAlarm, ReceiverGetSize, ReceiverGetLatency,
               ReadTrainPacket, EndOfTrain, ReceiverDies, AskForFleet, EndSearch,
               AwaitRecvFleet, ReadStreamPacket, TrainPacketInFleet, EndOfStream, Alarm,
               Crash, ReceiverStart
    <3>4. SenderNext
        BY <1>1, <3>2, <3>3 DEF Next
    <3> QED
        BY <3>4
           DEF SenderNext, Accept, GetSize, GetAdrRequest, SendTrain, GetVerdict, GetRate,
               GetParam, GetOrder, SendStream, SenderReads
  <2>2. s_stream_cnt' = s_stream_cnt + 1
      BY <1>1, <2>1, AnswerMeans
  <2>3. s_stream_cnt \in Nat
      BY <1>1 DEF DataInv, SenderOK
  <2> QED
      BY <2>2, <2>3
<1> QED
    BY <1>1, WordInvariant, PTL DEF Spec, ResendOnlyToNobody
=============================================================================
