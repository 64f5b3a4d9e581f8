------------------------- MODULE IntegrityCheckProofs -------------------------
(***************************************************************************)
(* What TLAPS proves of the integrity session, for every queue size, every *)
(* amount of data the TMM produces, every capacity of the connection and   *)
(* any number of slave threads.                                            *)
(***************************************************************************)
EXTENDS IntegrityCheck, SequenceTheorems, TLAPS

\* While an end reads a frame, the frame is there.
MidFrame ==
    \A e \in Ends : pc[e] \in FullPcs \cup {"payload"} => headless[e] /\ chan[e] # <<>>

\* When a payload is about to be copied, the receive queue has room for it.
Room ==
    \A e \in Ends : pc[e] = "payload" => recvOff[e] + FrameLen(Head(chan[e])) <= QSize

\* An end that has not begun has sent and read nothing.
Fresh == \A e \in Ends : pc[e] = "setup" => chan[Peer(e)] = <<>> /\ ~ headless[e]

\* Nothing is written to a full connection.
Bounded == \A e \in Ends : Len(chan[e]) <= ChanCap

\* Where an end writes next without having to read before.
WritePcs == {"ioctl", "send", "close"}

\* While both ends are about to write, one frame at least can be sent.
Slack ==
    (\A e \in Ends : pc[e] \in WritePcs /\ ~ headless[e])
        => Len(chan["client"]) + Len(chan["server"]) < 2 * ChanCap

\* The inductive invariant.
IInv == TypeOK /\ MidFrame /\ Room /\ Fresh /\ Bounded /\ Slack /\ FramingKept

\* What the operations on a connection do to it.
LEMMA AppendFrame ==
    ASSUME NEW s \in Seq(Frames), NEW f \in Frames
    PROVE  /\ Append(s, f) \in Seq(Frames)
           /\ Append(s, f) # <<>>
           /\ Len(s) \in Nat /\ Len(Append(s, f)) = Len(s) + 1
           /\ s # <<>> => Head(Append(s, f)) = Head(s)
BY AppendProperties, HeadTailAppend, LenProperties

LEMMA TailFrame ==
    ASSUME NEW s \in Seq(Frames), s # <<>>
    PROVE  /\ Tail(s) \in Seq(Frames)
           /\ Head(s) \in Frames
           /\ Len(s) \in Nat \ {0} /\ Len(Tail(s)) = Len(s) - 1
BY HeadTailProperties, LenProperties, EmptySeq

LEMMA NoFrame ==
    /\ <<>> \in Seq(Frames)
    /\ Len(<<>>) = 0
BY EmptySeq

LEMMA PeerFacts ==
    /\ \A e \in Ends : Peer(e) \in Ends /\ Peer(e) # e /\ Peer(Peer(e)) = e
    /\ \A e, d \in Ends : d = e \/ d = Peer(e)
BY DEF Ends, Peer

LEMMA EndNames ==
    ASSUME NEW e \in Ends, NEW d \in Ends, d = Peer(e)
    PROVE  (e = "client" /\ d = "server") \/ (e = "server" /\ d = "client")
BY DEF Ends, Peer

LEMMA InitIInv == Init => IInv
<1> SUFFICES ASSUME Init PROVE IInv
  OBVIOUS
<1> USE ICAssumption, NoFrame DEF Init
<1>1. TypeOK
  BY DEF TypeOK, Ends, Pcs, Reasons, TsiRet, SlavePcs, Frames
<1>2. MidFrame /\ Room /\ FramingKept
  BY DEF MidFrame, Room, FramingKept, FullPcs
<1>3. Fresh /\ Bounded
  BY PeerFacts DEF Fresh, Bounded
<1>4. Slack
  BY DEF Slack, Ends
<1> QED
  BY <1>1, <1>2, <1>3, <1>4 DEF IInv

\* The types, by what they are the types of.
ControlType ==
    /\ variant \in Variants /\ pc \in [Ends -> Pcs] /\ why \in [Ends -> Reasons]
    /\ lastRet \in [Ends -> TsiRet] /\ headless \in [Ends -> BOOLEAN]
    /\ open \in [Ends -> BOOLEAN] /\ shouldExit \in [Ends -> BOOLEAN]
    /\ delivered \in [Ends -> Nat] /\ notifies \in [Ends -> 0 .. MaxNotify]
QueueType ==
    /\ sendOff \in [Ends -> 0 .. QSize] /\ recvOff \in [Ends -> 0 .. QSize]
    /\ fills \in [Ends -> Nat] /\ \A e \in Ends : fills[e] <= MaxFills[e]
ChanType == chan \in [Ends -> Seq(Frames)]
SlaveType ==
    /\ slavePc \in [Ends -> [Slaves -> SlavePcs]] /\ sem \in [Ends -> [Slaves -> Nat]]
    /\ slaveOk \in [Ends -> [Slaves -> BOOLEAN]] /\ cancelled \in [Ends -> [Slaves -> BOOLEAN]]

LEMMA TypeParts == TypeOK <=> ControlType /\ QueueType /\ ChanType /\ SlaveType
BY DEF TypeOK, ControlType, QueueType, ChanType, SlaveType

\* What the operations that several actions share do to the types.
LEMMA SharedTypes ==
    ASSUME TypeOK, NEW e \in Ends
    PROVE  /\ TmmTouchesQueues(e) => QueueType'
           /\ notify_all_slave_thread(e) => sem' \in [Ends -> [Slaves -> Nat]]
           /\ \A next \in Pcs : send_queue_data(e, next) =>
                 /\ pc' = [pc EXCEPT ![e] = next] /\ ChanType' /\ why' = why
                 /\ sendOff' \in [Ends -> 0 .. QSize]
<1> USE ICAssumption, PeerFacts
<1>0. sendOff[e] \in Frames
  BY DEF TypeOK, Frames
<1>1. /\ chan[Peer(e)] \in Seq(Frames)
      /\ Append(chan[Peer(e)], sendOff[e]) \in Seq(Frames)
  BY <1>0, AppendFrame DEF TypeOK
<1>3. ASSUME TmmTouchesQueues(e) PROVE QueueType'
  <2>1. PICK r \in {0, recvOff[e]} : recvOff' = [recvOff EXCEPT ![e] = r]
    BY <1>3 DEF TmmTouchesQueues
  <2>2. recvOff' \in [Ends -> 0 .. QSize]
    BY <2>1 DEF TypeOK
  <2>3. CASE UNCHANGED <<sendOff, fills>>
    BY <2>2, <2>3 DEF TypeOK, QueueType
  <2>4. CASE /\ sendOff[e] = 0 /\ fills[e] < MaxFills[e]
             /\ \E n \in Fills : sendOff' = [sendOff EXCEPT ![e] = n]
             /\ fills' = [fills EXCEPT ![e] = @ + 1]
    <3>1. PICK n \in Fills : sendOff' = [sendOff EXCEPT ![e] = n]
      BY <2>4
    <3>2. sendOff' \in [Ends -> 0 .. QSize]
      BY <3>1 DEF TypeOK
    <3>3. fills' \in [Ends -> Nat] /\ \A d \in Ends : fills'[d] <= MaxFills[d]
      <4>1. fills \in [Ends -> Nat] /\ MaxFills \in [Ends -> Nat]
        BY DEF TypeOK, Ends
      <4>2. fills' \in [Ends -> Nat]
        BY <2>4, <4>1
      <4>3. ASSUME NEW d \in Ends PROVE fills'[d] <= MaxFills[d]
        <5>1. CASE d = e
          BY <2>4, <4>1, <5>1
        <5>2. CASE d # e
          BY <2>4, <4>1, <5>2 DEF TypeOK
        <5> QED
          BY <5>1, <5>2
      <4> QED
        BY <4>2, <4>3
    <3> QED
      BY <2>2, <3>2, <3>3 DEF QueueType
  <2> QED
    BY <1>3, <2>3, <2>4 DEF TmmTouchesQueues
<1>4. ASSUME notify_all_slave_thread(e) PROVE sem' \in [Ends -> [Slaves -> Nat]]
  <2> DEFINE woken == [i \in Slaves |-> IF i \in Created(e) THEN sem[e][i] + 1 ELSE sem[e][i]]
  <2>1. sem \in [Ends -> [Slaves -> Nat]]
    BY DEF TypeOK
  <2>2. sem[e] \in [Slaves -> Nat]
    BY <2>1
  <2>3. woken \in [Slaves -> Nat]
    BY <2>2
  <2>4. sem' = [sem EXCEPT ![e] = woken]
    BY <1>4 DEF notify_all_slave_thread
  <2> HIDE DEF woken
  <2> QED
    BY <2>1, <2>3, <2>4
<1>5. ASSUME NEW next \in Pcs, send_queue_data(e, next)
      PROVE  /\ pc' = [pc EXCEPT ![e] = next] /\ ChanType' /\ why' = why
             /\ sendOff' \in [Ends -> 0 .. QSize]
  <2>1. CASE sendOff[e] = 0 /\ pc' = [pc EXCEPT ![e] = next] /\ UNCHANGED <<why, chan, sendOff>>
    BY <2>1 DEF TypeOK, ChanType
  <2>2. CASE /\ chan' = [chan EXCEPT ![Peer(e)] = Append(@, sendOff[e])]
             /\ sendOff' = [sendOff EXCEPT ![e] = 0]
             /\ pc' = [pc EXCEPT ![e] = next] /\ UNCHANGED why
    BY <2>2, <1>1, SMTT(30) DEF TypeOK, ChanType
  <2> QED
    BY <1>5, <2>1, <2>2 DEF send_queue_data
<1> QED
  BY <1>3, <1>4, <1>5

\* Every step of a thread keeps the types.
LEMMA TypeStep ==
    ASSUME TypeOK, MidFrame, Room, NEW e \in Ends,
           io_thread(e) \/ \E i \in Slaves : slave_io_thread(e, i)
    PROVE  TypeOK'
<1> USE ICAssumption, PeerFacts
<1> SUFFICES ControlType' /\ QueueType' /\ ChanType' /\ SlaveType'
  BY DEF TypeOK, ControlType, QueueType, ChanType, SlaveType
<1>0. ControlType /\ QueueType /\ ChanType /\ SlaveType
  BY TypeParts
<1>s. /\ TmmTouchesQueues(e) => QueueType'
      /\ notify_all_slave_thread(e) => sem' \in [Ends -> [Slaves -> Nat]]
      /\ \A next \in Pcs : send_queue_data(e, next) =>
            /\ pc' = [pc EXCEPT ![e] = next] /\ ChanType' /\ why' = why
            /\ sendOff' \in [Ends -> 0 .. QSize]
  BY SharedTypes
<1>p. /\ "ioctl" \in Pcs /\ "send" \in Pcs /\ "poll" \in Pcs /\ "payload" \in Pcs
      /\ "full_send" \in Pcs /\ "full_ioctl" \in Pcs /\ "close" \in Pcs /\ "stop" \in Pcs /\ "join" \in Pcs
      /\ "cleanup" \in Pcs /\ "done" \in Pcs /\ "crashed" \in Pcs
      /\ "other" \in Reasons /\ "close_req" \in Reasons /\ "INCOMPLETE" \in TsiRet
  BY DEF Pcs, FullPcs, EndedPcs, Reasons, TsiRet
<1>1. CASE setup_done(e)
  <2>1. ControlType' /\ QueueType' /\ ChanType'
    BY <1>0, <1>1, <1>p DEF setup_done, ControlType, QueueType, ChanType, queueVars
  <2>2. SlaveType'
    BY <1>0, <1>1 DEF setup_done, SlaveType, SlavePcs
  <2> QED
    BY <2>1, <2>2
<1>2. CASE setup_fails(e)
  <2>1. ControlType'
    <3>1. pc' \in [Ends -> Pcs] /\ why' \in [Ends -> Reasons]
      BY <1>0, <1>2, <1>p DEF setup_fails, Leave, ControlType
    <3>2. lastRet' \in [Ends -> TsiRet] /\ headless' \in [Ends -> BOOLEAN] /\ open' \in [Ends -> BOOLEAN]
      BY <1>0, <1>2, <1>p, ZenonT(40) DEF setup_fails, ControlType
    <3> QED
      BY <1>0, <3>1, <3>2, <1>2 DEF setup_fails, ControlType
  <2>2. QueueType' /\ ChanType' /\ SlaveType'
    BY <1>0, <1>2 DEF setup_fails, QueueType, ChanType, SlaveType, queueVars, slaveVars
  <2> QED
    BY <2>1, <2>2
<1>3. CASE master_ioctl(e)
  <2>1. PICK rv \in TsiRet :
          /\ rv = "NOTIFY" => notifies[e] < MaxNotify
          /\ notifies' = [notifies EXCEPT ![e] = IF rv = "NOTIFY" THEN @ + 1 ELSE @]
          /\ IF EndsSession(e, rv)
             THEN LeaveClosing(e) /\ UNCHANGED sem
             ELSE /\ pc' = [pc EXCEPT ![e] = "send"]
                  /\ IF rv = "NOTIFY" THEN notify_all_slave_thread(e) ELSE UNCHANGED sem
                  /\ UNCHANGED why
    BY <1>3 DEF master_ioctl
  <2>2. notifies' \in [Ends -> 0 .. MaxNotify]
    BY <1>0, <2>1 DEF ControlType
  <2>3. ControlType'
    BY <1>0, <1>3, <1>p, <2>1, <2>2 DEF master_ioctl, ControlType, LeaveClosing
  <2>4. ChanType' /\ QueueType' /\ SlaveType'
    BY <1>0, <1>s, <1>3, <2>1 DEF master_ioctl, ChanType, SlaveType
  <2> QED
    BY <2>3, <2>4
<1>4. CASE handle_send_event(e)
  <2>0. send_queue_data(e, "poll") \/ (Leave(e, "other") /\ sendOff' = sendOff /\ ChanType')
    BY <1>0, <1>s, <1>4 DEF handle_send_event, ChanType
  <2>1. ControlType' /\ ChanType' /\ QueueType'
    <3>1. /\ pc' \in [Ends -> Pcs] /\ why' \in [Ends -> Reasons]
          /\ sendOff' \in [Ends -> 0 .. QSize] /\ ChanType'
      <4>1. CASE send_queue_data(e, "poll")
        BY <1>0, <1>s, <1>p, <4>1 DEF ControlType
      <4>2. CASE Leave(e, "other") /\ sendOff' = sendOff /\ ChanType'
        BY <1>0, <1>p, <4>2 DEF ControlType, QueueType, Leave
      <4> QED
        BY <2>0, <4>1, <4>2
    <3> QED
      BY <1>0, <3>1, <1>4 DEF handle_send_event, ControlType, QueueType
  <2>2. SlaveType'
    BY <1>0, <1>4 DEF handle_send_event, SlaveType, slaveVars
  <2> QED
    BY <2>1, <2>2
<1>5. CASE poll_nothing(e)
  BY <1>0, <1>5, <1>p DEF poll_nothing, ControlType, QueueType, ChanType, SlaveType, queueVars, slaveVars
<1>6. CASE poll_hangup(e)
  BY <1>0, <1>6, <1>p DEF poll_hangup, Leave, ControlType, QueueType, ChanType, SlaveType, queueVars, slaveVars
<1>7. CASE recv_header(e)
  <2>1. ControlType'
    <3>0. /\ \/ LeaveClosing(e)
             \/ /\ why' = why
                /\ \/ pc' = [pc EXCEPT ![e] = "ioctl"]
                   \/ pc' = [pc EXCEPT ![e] = "full_send"]
                   \/ pc' = [pc EXCEPT ![e] = "payload"]
          /\ headless' = headless \/ headless' = [headless EXCEPT ![e] = TRUE]
          /\ lastRet' = lastRet \/ lastRet' = [lastRet EXCEPT ![e] = "INCOMPLETE"]
          /\ UNCHANGED open
      BY <1>7 DEF recv_header
    <3>1. pc' \in [Ends -> Pcs] /\ why' \in [Ends -> Reasons]
      BY <1>0, <3>0, <1>p DEF LeaveClosing, ControlType
    <3>2. lastRet' \in [Ends -> TsiRet] /\ open' \in [Ends -> BOOLEAN]
      BY <1>0, <3>0, <1>p DEF ControlType
    <3>3. headless' \in [Ends -> BOOLEAN]
      BY <1>0, <3>0 DEF ControlType
    <3> QED
      BY <1>0, <3>1, <3>2, <3>3, <1>7 DEF recv_header, ControlType
  <2>2. QueueType' /\ SlaveType'
    BY <1>0, <1>7 DEF recv_header, QueueType, SlaveType, queueVars, slaveVars
  <2>3. chan[e] # <<>> => Tail(chan[e]) \in Seq(Frames)
    BY <1>0, TailFrame DEF ChanType
  <2>4. ChanType'
    BY <1>0, <1>7, <2>3 DEF recv_header, ChanType
  <2> QED
    BY <2>1, <2>2, <2>4
<1>8. CASE full_send(e)
  <2>0. send_queue_data(e, "full_ioctl") \/ (LeaveClosing(e) /\ sendOff' = sendOff /\ ChanType')
    BY <1>0, <1>8 DEF full_send, ChanType
  <2>1. ControlType' /\ ChanType' /\ QueueType'
    <3>1. /\ pc' \in [Ends -> Pcs] /\ why' \in [Ends -> Reasons]
          /\ sendOff' \in [Ends -> 0 .. QSize] /\ ChanType'
      <4>1. CASE send_queue_data(e, "full_ioctl")
        BY <1>0, <1>s, <1>p, <4>1 DEF ControlType
      <4>2. CASE LeaveClosing(e) /\ sendOff' = sendOff /\ ChanType'
        BY <1>0, <1>p, <4>2 DEF ControlType, QueueType, LeaveClosing
      <4> QED
        BY <2>0, <4>1, <4>2
    <3> QED
      BY <1>0, <3>1, <1>8 DEF full_send, ControlType, QueueType
  <2>2. SlaveType'
    BY <1>0, <1>8 DEF full_send, SlaveType, slaveVars
  <2> QED
    BY <2>1, <2>2
<1>9. CASE full_ioctl(e)
  <2>1. PICK rv \in TsiRet :
          /\ rv = "NOTIFY" => notifies[e] < MaxNotify
          /\ notifies' = [notifies EXCEPT ![e] = IF rv = "NOTIFY" THEN @ + 1 ELSE @]
          /\ lastRet' = [lastRet EXCEPT ![e] = rv]
          /\ \/ rv = "ERROR_FAILED" /\ AfterFailed(e)
             \/ /\ rv # "ERROR_FAILED"
                /\ pc' = [pc EXCEPT ![e] =
                     IF is_recv_queue_full(recvOff'[e], FrameLen(Head(chan[e])))
                     THEN "full_send" ELSE "payload"]
                /\ UNCHANGED why
    BY <1>9 DEF full_ioctl
  <2>2. notifies' \in [Ends -> 0 .. MaxNotify]
    BY <1>0, <2>1 DEF ControlType
  <2>3. ControlType'
    BY <1>0, <1>9, <1>p, <2>1, <2>2 DEF full_ioctl, ControlType, LeaveClosing, AfterFailed
  <2>4. ChanType' /\ QueueType' /\ SlaveType'
    BY <1>0, <1>s, <1>9 DEF full_ioctl, ChanType, SlaveType, slaveVars
  <2> QED
    BY <2>3, <2>4
<1>10. CASE recv_payload(e)
  <2> DEFINE f == Head(chan[e])
  <2>1. chan[e] # <<>> /\ recvOff[e] + FrameLen(f) <= QSize
    BY <1>10 DEF recv_payload, MidFrame, Room
  <2>2. Tail(chan[e]) \in Seq(Frames) /\ f \in Frames
    BY <1>0, <2>1, TailFrame DEF ChanType
  <2>6. ChanType'
    BY <1>0, <1>10, <2>2 DEF recv_payload, ChanType
  <2>7. ControlType'
    <3>0. /\ \/ Leave(e, "close_req") \/ LeaveClosing(e)
             \/ why' = why /\ pc' = [pc EXCEPT ![e] = "ioctl"]
          /\ delivered' = delivered \/ delivered' = [delivered EXCEPT ![e] = @ + 1]
      BY <1>10 DEF recv_payload
    <3>1. pc' \in [Ends -> Pcs] /\ why' \in [Ends -> Reasons]
      BY <1>0, <3>0, <1>p DEF Leave, LeaveClosing, ControlType
    <3>2. lastRet' \in [Ends -> TsiRet] /\ headless' \in [Ends -> BOOLEAN]
      BY <1>0, <1>10, <1>p DEF recv_payload, ControlType
    <3>3. delivered' \in [Ends -> Nat]
      BY <1>0, <3>0 DEF ControlType
    <3> QED
      BY <1>0, <3>1, <3>2, <3>3, <1>10 DEF recv_payload, ControlType
  <2>8. QueueType'
    <3>1. f # CLOSE_NOTIFY => recvOff[e] + f \in 0 .. QSize
      BY <1>0, <2>1, <2>2 DEF QueueType, FrameLen, Frames
    <3>2. recvOff' = recvOff \/ (f # CLOSE_NOTIFY /\ recvOff' = [recvOff EXCEPT ![e] = @ + f])
      BY <1>10 DEF recv_payload
    <3>3. recvOff' \in [Ends -> 0 .. QSize]
      BY <1>0, <3>1, <3>2 DEF QueueType
    <3> QED
      BY <1>0, <1>10, <3>3 DEF recv_payload, QueueType
  <2>9. SlaveType'
    BY <1>0, <1>s, <1>10 DEF recv_payload, SlaveType
  <2> QED
    BY <2>6, <2>7, <2>8, <2>9
<1>11. CASE stop_all_slave_threads(e)
  BY <1>0, <1>s, <1>p, <1>11 DEF stop_all_slave_threads, ControlType, QueueType, ChanType, SlaveType, queueVars
<1>12. CASE join_slaves(e)
  BY <1>0, <1>p, <1>12 DEF join_slaves, ControlType, QueueType, ChanType, SlaveType, queueVars
<1>13. CASE cleanup_resources(e)
  BY <1>0, <1>p, <1>13, NoFrame DEF cleanup_resources, ControlType, QueueType, ChanType, SlaveType, queueVars, slaveVars
<1>15. CASE recv_payload_fails(e)
  BY <1>0, <1>p, <1>15 DEF recv_payload_fails, LeaveClosing, ControlType, QueueType, ChanType, SlaveType, queueVars, slaveVars
<1>16. CASE send_close_notification(e)
  <2>1. Append(chan[Peer(e)], CLOSE_NOTIFY) \in Seq(Frames)
    <3>1. chan[Peer(e)] \in Seq(Frames) /\ CLOSE_NOTIFY \in Frames
      BY <1>0 DEF ChanType, Frames, CLOSE_NOTIFY
    <3> QED
      BY <3>1, AppendFrame
  <2>2. ChanType'
    BY <1>0, <1>16, <2>1 DEF send_close_notification, ChanType
  <2>3. ControlType' /\ QueueType' /\ SlaveType'
    BY <1>0, <1>p, <1>16 DEF send_close_notification, ControlType, QueueType, SlaveType, queueVars, slaveVars
  <2> QED
    BY <2>2, <2>3
<1>14. ASSUME NEW i \in Slaves, slave_io_thread(e, i)
       PROVE  ControlType' /\ QueueType' /\ ChanType' /\ SlaveType'
  <2>1. QueueType' /\ ChanType'
    BY <1>0, <1>14 DEF slave_io_thread, slave_wakes, slave_calls, slave_dies, QueueType, ChanType, queueVars
  <2>2. ControlType'
    BY <1>0, <1>14, ZenonT(40) DEF slave_io_thread, slave_wakes, slave_calls, slave_dies, ControlType
  <2>3. SlaveType'
    <3>1. CASE slave_wakes(e, i)
      BY <1>0, <3>1 DEF slave_wakes, SlaveType, SlavePcs
    <3>2. CASE slave_calls(e, i)
      <4>1. \E ok \in BOOLEAN, p \in {"call", "exited", "wait"} :
                slaveOk' = [slaveOk EXCEPT ![e][i] = ok] /\ slavePc' = [slavePc EXCEPT ![e][i] = p]
        BY <3>2 DEF slave_calls
      <4> QED
        BY <1>0, <3>2, <4>1 DEF slave_calls, SlaveType, SlavePcs
    <3>3. CASE slave_dies(e, i)
      BY <1>0, <3>3 DEF slave_dies, SlaveType, SlavePcs
    <3> QED
      BY <1>14, <3>1, <3>2, <3>3 DEF slave_io_thread
  <2> QED
    BY <2>1, <2>2, <2>3
<1> QED
  BY <1>1, <1>2, <1>3, <1>4, <1>5, <1>6, <1>7, <1>8, <1>9, <1>10, <1>11, <1>12, <1>13, <1>14, <1>15, <1>16 DEF io_thread

LEMMA SumBelow ==
    ASSUME NEW a \in Nat, NEW b \in Nat, NEW c \in Nat \ {0},
           a <= c, b <= c, a < c \/ b < c \/ a = 0 \/ b = 0
    PROVE  a + b < 2 * c
OBVIOUS

Framed == MidFrame /\ Room /\ Fresh /\ Bounded /\ Slack /\ FramingKept

\* It is enough to look at one end: a step of e changes of its peer's state only
\* what is on its way to the peer, and that where it is written ...
PeerKept(e, d) ==
    /\ pc'[d] = pc[d] /\ headless'[d] = headless[d]
    /\ recvOff'[d] = recvOff[d] /\ lastRet'[d] = lastRet[d]

Sends(e, d) ==
    \/ chan'[d] = chan[d]
    \/ \E f \in Frames : chan'[d] = Append(chan[d], f) /\ Len(chan[d]) < ChanCap

\* ... it may take a frame from what is on its way to e, and leaves e in order.
Keeps(e, d) ==
    /\ Len(chan'[e]) <= Len(chan[e])
    /\ pc'[e] # "setup"
    /\ pc[e] \in EndedPcs => pc'[e] \in EndedPcs
    /\ pc'[e] \in FullPcs \cup {"payload"} => headless'[e] /\ chan'[e] # <<>>
    /\ pc'[e] = "payload" => recvOff'[e] + FrameLen(Head(chan'[e])) <= QSize
    /\ pc'[e] \in {"ioctl", "send", "poll"} /\ headless'[e]
           => e = "server" /\ lastRet'[e] = "ERROR_FAILED"
    /\ pc'[e] \in WritePcs /\ ~ headless'[e] =>
           \/ pc[e] \in WritePcs /\ ~ headless[e] /\ chan' = chan
           \/ Len(chan'[e]) < Len(chan[e])
           \/ chan'[e] = <<>> \/ chan'[d] = <<>>

LEMMA EndStep ==
    ASSUME TypeOK, Framed, TypeOK', NEW e \in Ends, NEW d \in Ends, d = Peer(e),
           PeerKept(e, d), Sends(e, d), Keeps(e, d)
    PROVE  Framed'
<1> USE ICAssumption, PeerFacts DEF Framed, PeerKept, Sends, Keeps
<1>1. /\ chan[e] \in Seq(Frames) /\ chan[d] \in Seq(Frames)
      /\ chan'[e] \in Seq(Frames) /\ chan'[d] \in Seq(Frames)
  BY DEF TypeOK
<1>2. /\ Len(chan[e]) \in Nat /\ Len(chan[d]) \in Nat
      /\ Len(chan'[e]) \in Nat /\ Len(chan'[d]) \in Nat
      /\ chan[e] = <<>> => Len(chan[e]) = 0
      /\ chan'[e] # <<>> => Len(chan'[e]) # 0
      /\ chan'[e] = <<>> => Len(chan'[e]) = 0
      /\ chan'[d] = <<>> => Len(chan'[d]) = 0
  <2>1. \A s \in Seq(Frames) : /\ Len(s) \in Nat
                               /\ s = <<>> => Len(s) = 0
                               /\ s # <<>> => Len(s) # 0
    BY LenProperties, EmptySeq
  <2> QED
    BY <1>1, <2>1
<1>3. /\ chan[d] # <<>> => chan'[d] # <<>> /\ Head(chan'[d]) = Head(chan[d])
      /\ Len(chan[d]) <= ChanCap => Len(chan'[d]) <= ChanCap
  <2>1. CASE chan'[d] = chan[d]
    BY <2>1
  <2>2. ASSUME NEW f \in Frames, chan'[d] = Append(chan[d], f), Len(chan[d]) < ChanCap
        PROVE  <1>3!1 /\ <1>3!2
    BY <2>2, <1>1, <1>2, AppendFrame
  <2> QED
    BY <2>1, <2>2
<1>4. MidFrame'
  BY <1>3 DEF MidFrame
<1>5. Room'
  BY <1>3, <1>4 DEF Room, MidFrame
<1>6. Fresh'
  BY <1>2 DEF Fresh
<1>7. Bounded'
  BY <1>2, <1>3 DEF Bounded
<1>8. FramingKept'
  BY DEF FramingKept
<1>9. Slack'
  <2> DEFINE a == Len(chan'[e])
             b == Len(chan'[d])
  <2>0. a \in Nat /\ b \in Nat /\ ((e = "client" /\ d = "server") \/ (e = "server" /\ d = "client"))
    <3>1. a \in Nat /\ b \in Nat
      BY <1>2
    <3>2. (e = "client" /\ d = "server") \/ (e = "server" /\ d = "client")
      BY EndNames
    <3> QED
      BY <3>1, <3>2
  <2>1. ASSUME pc'[e] \in WritePcs /\ ~ headless'[e],
               pc[d] \in WritePcs /\ ~ headless[d]
        PROVE  a + b < 2 * ChanCap
    <3>1. b <= ChanCap /\ Len(chan[e]) <= ChanCap /\ a <= ChanCap
      BY <1>7 DEF Bounded
    <3>2. CASE pc[e] \in WritePcs /\ ~ headless[e] /\ chan' = chan
      <4>1. Len(chan["client"]) + Len(chan["server"]) < 2 * ChanCap
        BY <2>1, <3>2 DEF Slack
      <4>2. CASE e = "client" /\ d = "server"
        BY <3>2, <4>1, <4>2
      <4>3. CASE e = "server" /\ d = "client"
        <5>1. b + a < 2 * ChanCap
          BY <3>2, <4>1, <4>3
        <5> HIDE DEF a, b
        <5> QED
          BY <2>0, <5>1
      <4> QED
        BY <2>0, <4>2, <4>3
    <3>3. CASE Len(chan'[e]) < Len(chan[e])
      <4>1. a < ChanCap
        BY <3>1, <3>3, <1>2
      <4> HIDE DEF a, b
      <4> QED
        BY <2>0, <3>1, <4>1, SumBelow
    <3>4. CASE chan'[e] = <<>> \/ chan'[d] = <<>>
      <4>1. a = 0 \/ b = 0
        BY <3>4, <1>2
      <4> HIDE DEF a, b
      <4> QED
        BY <2>0, <3>1, <4>1, SumBelow
    <3> QED
      BY <2>1, <3>2, <3>3, <3>4
  <2>2. ASSUME \A c \in Ends : pc'[c] \in WritePcs /\ ~ headless'[c]
        PROVE  Len(chan'["client"]) + Len(chan'["server"]) < 2 * ChanCap
    <3>1. a + b < 2 * ChanCap
      BY <2>1, <2>2
    <3>2. b + a < 2 * ChanCap
      <4> HIDE DEF a, b
      <4> QED
        BY <2>0, <3>1
    <3> QED
      BY <2>0, <3>1, <3>2
  <2> QED
    BY <2>2 DEF Slack
<1> QED
  BY <1>4, <1>5, <1>6, <1>7, <1>8, <1>9

\* An end that leaves its loop has nothing left to keep.
LEMMA LeavingKeeps ==
    ASSUME TypeOK, NEW e \in Ends, NEW d \in Ends, pc'[e] \in EndedPcs \ {"close"},
           chan'[e] = chan[e] \/ chan'[e] = <<>>
    PROVE  Keeps(e, d)
<1>1. chan[e] \in Seq(Frames)
  BY DEF TypeOK
<1>2. Len(chan'[e]) <= Len(chan[e])
  BY <1>1, LenProperties, EmptySeq
<1> QED
  BY <1>2 DEF Keeps, EndedPcs, FullPcs, WritePcs

LEMMA LeaveStep ==
    ASSUME TypeOK, NEW e \in Ends, NEW d \in Ends, d = Peer(e), NEW r,
           Leave(e, r), UNCHANGED <<headless, recvOff, lastRet, chan>>
    PROVE  PeerKept(e, d) /\ Sends(e, d) /\ Keeps(e, d)
<1> USE PeerFacts
<1>1. pc'[e] = "stop" /\ pc'[d] = pc[d]
  BY DEF Leave, TypeOK
<1>2. PeerKept(e, d) /\ Sends(e, d)
  BY <1>1 DEF PeerKept, Sends
<1>3. Keeps(e, d)
  BY <1>1, LeavingKeeps DEF EndedPcs
<1> QED
  BY <1>2, <1>3

\* An end goes to its close notification from the main loop, at the end of the
\* stream, in the middle of a frame, or having just read one.
LEMMA LeaveClosingStep ==
    ASSUME TypeOK, NEW e \in Ends, NEW d \in Ends, d = Peer(e), LeaveClosing(e),
           chan'[e] \in Seq(Frames),
           headless'[d] = headless[d], recvOff'[d] = recvOff[d], lastRet'[d] = lastRet[d],
           chan'[d] = chan[d],
           \/ chan' = chan /\ (headless'[e] \/ chan[e] = <<>>)
           \/ chan' = chan /\ pc[e] \in WritePcs /\ headless'[e] = headless[e]
           \/ Len(chan'[e]) < Len(chan[e])
    PROVE  PeerKept(e, d) /\ Sends(e, d) /\ Keeps(e, d)
<1> USE PeerFacts
<1>1. pc'[e] = "close" /\ pc'[d] = pc[d]
  BY DEF LeaveClosing, TypeOK
<1>2. PeerKept(e, d) /\ Sends(e, d)
  BY <1>1 DEF PeerKept, Sends
<1>3. Len(chan'[e]) <= Len(chan[e])
  <2>1. chan[e] \in Seq(Frames)
    BY DEF TypeOK
  <2>2. Len(chan[e]) \in Nat /\ Len(chan'[e]) \in Nat
    BY <2>1, LenProperties
  <2> QED
    BY <2>2
<1>4. /\ pc'[e] \in EndedPcs /\ pc'[e] # "setup" /\ pc'[e] \notin FullPcs \cup {"payload"}
      /\ pc'[e] \notin {"ioctl", "send", "poll"}
  BY <1>1 DEF EndedPcs, FullPcs
<1>5. ~ headless'[e] =>
           \/ pc[e] \in WritePcs /\ ~ headless[e] /\ chan' = chan
           \/ Len(chan'[e]) < Len(chan[e])
           \/ chan'[e] = <<>>
  OBVIOUS
<1> QED
  BY <1>2, <1>3, <1>4, <1>5 DEF Keeps

\* A frame is sent from the queue only where there is room for it.
LEMMA SendStep ==
    ASSUME TypeOK, NEW e \in Ends, NEW d \in Ends, d = Peer(e), NEW next \in Pcs,
           send_queue_data(e, next), UNCHANGED <<headless, recvOff, lastRet>>
    PROVE  /\ PeerKept(e, d) /\ Sends(e, d)
           /\ pc'[e] = next /\ chan'[e] = chan[e]
<1> USE PeerFacts
<1>1. pc'[e] = next /\ pc'[d] = pc[d]
  BY DEF send_queue_data, TypeOK
<1>2. chan'[e] = chan[e] /\ (chan'[d] = chan[d] \/ (chan'[d] = Append(chan[d], sendOff[e]) /\ Len(chan[d]) < ChanCap))
  BY DEF send_queue_data, TypeOK
<1>3. sendOff[e] \in Frames
  BY DEF TypeOK, Frames
<1> QED
  BY <1>1, <1>2, <1>3 DEF PeerKept, Sends

\* Every step of a master thread is such a step.
LEMMA MasterStep ==
    ASSUME TypeOK, Framed, NEW e \in Ends, NEW d \in Ends, d = Peer(e), io_thread(e)
    PROVE  PeerKept(e, d) /\ Sends(e, d) /\ Keeps(e, d)
<1> USE ICAssumption, PeerFacts DEF Framed
<1>0. /\ chan[e] \in Seq(Frames) /\ chan[d] \in Seq(Frames)
      /\ Len(chan[e]) \in Nat /\ Len(chan[e]) <= Len(chan[e])
      /\ chan[e] # <<>> => Tail(chan[e]) \in Seq(Frames) /\ Len(Tail(chan[e])) < Len(chan[e])
  <2>1. chan[e] \in Seq(Frames) /\ chan[d] \in Seq(Frames)
    BY DEF TypeOK
  <2>2. Len(chan[e]) \in Nat
    BY <2>1, LenProperties
  <2>3. chan[e] # <<>> => Tail(chan[e]) \in Seq(Frames) /\ Len(Tail(chan[e])) < Len(chan[e])
    BY <2>1, TailFrame
  <2> QED
    BY <2>1, <2>2, <2>3
<1>p. {"send", "poll", "full_ioctl"} \subseteq Pcs
  BY DEF Pcs, FullPcs
<1>1. CASE setup_done(e)
  <2>1. /\ pc[e] = "setup" /\ pc'[e] = "ioctl" /\ pc'[d] = pc[d]
        /\ UNCHANGED <<headless, recvOff, lastRet, chan>>
    BY <1>1 DEF setup_done, TypeOK, queueVars
  <2>2. chan[d] = <<>> /\ ~ headless[e]
    BY <2>1 DEF Fresh
  <2> QED
    BY <1>0, <2>1, <2>2 DEF PeerKept, Sends, Keeps, EndedPcs, FullPcs
<1>2. CASE setup_fails(e)
  <2>1. /\ pc'[e] \in EndedPcs \ {"close"} /\ pc'[d] = pc[d]
        /\ UNCHANGED <<headless, recvOff, lastRet, chan>>
    <3>1. \E p \in {"stop", "crashed"} : pc' = [pc EXCEPT ![e] = p]
      BY <1>2 DEF setup_fails, Leave
    <3>2. pc \in [Ends -> Pcs] /\ UNCHANGED <<headless, recvOff, lastRet, chan>>
      BY <1>2 DEF setup_fails, TypeOK, queueVars
    <3> QED
      BY <3>1, <3>2 DEF EndedPcs
  <2> QED
    BY <2>1, LeavingKeeps DEF PeerKept, Sends
<1>t. TmmTouchesQueues(e) => recvOff'[d] = recvOff[d]
  BY DEF TmmTouchesQueues, TypeOK
<1>3. CASE master_ioctl(e)
  <2>1. pc[e] = "ioctl" /\ recvOff'[d] = recvOff[d] /\ UNCHANGED <<headless, lastRet>>
    BY <1>t, <1>3 DEF master_ioctl
  <2>2. (LeaveClosing(e) \/ pc' = [pc EXCEPT ![e] = "send"]) /\ UNCHANGED chan
    BY <1>3 DEF master_ioctl
  <2>3. CASE LeaveClosing(e) /\ UNCHANGED chan
    BY <1>0, <2>1, <2>3, LeaveClosingStep DEF WritePcs
  <2>4. CASE pc' = [pc EXCEPT ![e] = "send"] /\ UNCHANGED chan
    <3>1. pc'[e] = "send" /\ pc'[d] = pc[d]
      BY <2>4 DEF TypeOK
    <3>2. headless[e] => e = "server" /\ lastRet[e] = "ERROR_FAILED"
      BY <2>1 DEF FramingKept
    <3> QED
      BY <1>0, <2>1, <2>4, <3>1, <3>2 DEF PeerKept, Sends, Keeps, EndedPcs, FullPcs, WritePcs
  <2> QED
    BY <2>2, <2>3, <2>4
<1>4. CASE handle_send_event(e)
  <2>1. pc[e] = "send" /\ UNCHANGED <<headless, recvOff, lastRet>>
    BY <1>4 DEF handle_send_event
  <2>2. CASE send_queue_data(e, "poll")
    <3>1. PeerKept(e, d) /\ Sends(e, d) /\ pc'[e] = "poll" /\ chan'[e] = chan[e]
      BY <1>p, <2>1, <2>2, SendStep
    <3>2. headless[e] => e = "server" /\ lastRet[e] = "ERROR_FAILED"
      BY <2>1 DEF FramingKept
    <3> QED
      BY <1>0, <2>1, <3>1, <3>2 DEF Keeps, EndedPcs, FullPcs, WritePcs
  <2>3. CASE Leave(e, "other") /\ UNCHANGED chan
    BY <2>1, <2>3, LeaveStep
  <2> QED
    BY <1>4, <2>2, <2>3 DEF handle_send_event
<1>5. CASE poll_nothing(e)
  <2>1. /\ pc[e] = "poll" /\ chan[e] = <<>> /\ pc'[e] = "ioctl" /\ pc'[d] = pc[d]
        /\ UNCHANGED <<headless, recvOff, lastRet, chan>>
    BY <1>5 DEF poll_nothing, TypeOK, queueVars
  <2>2. headless[e] => e = "server" /\ lastRet[e] = "ERROR_FAILED"
    BY <2>1 DEF FramingKept
  <2> QED
    BY <1>0, <2>1, <2>2 DEF PeerKept, Sends, Keeps, EndedPcs, FullPcs
<1>6. CASE poll_hangup(e)
  BY <1>6, LeaveStep DEF poll_hangup, queueVars
<1>7. CASE recv_header(e)
  <2>1. pc[e] = "poll" /\ UNCHANGED recvOff
    BY <1>7 DEF recv_header, queueVars
  <2>2. CASE /\ (chan[e] = <<>> /\ ~open[Peer(e)]) \/ (chan[e] # <<>> /\ headless[e])
             /\ LeaveClosing(e) /\ UNCHANGED <<chan, headless, lastRet>>
    BY <1>0, <2>1, <2>2, LeaveClosingStep
  <2>5. CASE /\ LeaveClosing(e) /\ headless' = [headless EXCEPT ![e] = TRUE]
             /\ UNCHANGED <<chan, lastRet>>
    <3>1. headless'[e] /\ headless'[d] = headless[d]
      BY <2>5 DEF TypeOK
    <3> QED
      BY <1>0, <2>1, <2>5, <3>1, LeaveClosingStep
  <2>3. CASE /\ chan[e] # <<>> /\ headless[e]
             /\ pc' = [pc EXCEPT ![e] = "ioctl"] /\ chan' = [chan EXCEPT ![e] = Tail(@)]
             /\ UNCHANGED <<headless, lastRet>>
    <3>1. pc'[e] = "ioctl" /\ pc'[d] = pc[d] /\ chan'[e] = Tail(chan[e]) /\ chan'[d] = chan[d]
      BY <2>3 DEF TypeOK
    <3>2. e = "server" /\ lastRet[e] = "ERROR_FAILED"
      BY <2>1, <2>3 DEF FramingKept
    <3>3. Len(chan'[e]) <= Len(chan[e])
      BY <1>0, <2>3, <3>1, TailFrame
    <3> QED
      BY <2>1, <2>3, <3>1, <3>2, <3>3 DEF PeerKept, Sends, Keeps, EndedPcs, FullPcs
  <2>4. CASE /\ chan[e] # <<>>
             /\ headless' = [headless EXCEPT ![e] = TRUE]
             /\ lastRet' = [lastRet EXCEPT ![e] = "INCOMPLETE"]
             /\ pc' = [pc EXCEPT ![e] =
                         IF is_recv_queue_full(recvOff[e], FrameLen(Head(chan[e])))
                         THEN "full_send" ELSE "payload"]
             /\ UNCHANGED chan
    <3>1. /\ pc'[e] \in {"full_send", "payload"} /\ pc'[d] = pc[d]
          /\ pc'[e] = "payload" => ~ is_recv_queue_full(recvOff[e], FrameLen(Head(chan[e])))
          /\ lastRet'[d] = lastRet[d]
      BY <2>4 DEF TypeOK
    <3>2. headless'[e] /\ headless'[d] = headless[d]
      <4>1. headless \in [Ends -> BOOLEAN] /\ headless' = [headless EXCEPT ![e] = TRUE]
        BY <2>4 DEF TypeOK
      <4> QED
        BY <4>1
    <3>3. pc'[e] = "payload" => recvOff[e] + FrameLen(Head(chan[e])) <= QSize
      <4>1. recvOff[e] \in Nat /\ FrameLen(Head(chan[e])) \in Nat
        <5>1. recvOff \in [Ends -> 0 .. QSize] /\ Head(chan[e]) \in 0 .. QSize
          BY <1>0, <2>4, TailFrame DEF TypeOK, Frames
        <5> QED
          BY <5>1 DEF FrameLen, CLOSE_LENGTH
      <4> QED
        BY <3>1, <4>1 DEF is_recv_queue_full
    <3>4. PeerKept(e, d) /\ Sends(e, d)
      BY <2>1, <2>4, <3>1, <3>2 DEF PeerKept, Sends
    <3>5. chan'[e] = chan[e] /\ recvOff'[e] = recvOff[e] /\ chan[e] # <<>>
      BY <2>1, <2>4
    <3> HIDE <2>4
    <3> QED
      BY <1>0, <2>1, <3>1, <3>2, <3>3, <3>4, <3>5 DEF Keeps, EndedPcs, WritePcs
  <2> QED
    BY <1>7, <2>2, <2>3, <2>4, <2>5 DEF recv_header
<1>8. CASE full_send(e)
  <2>1. pc[e] = "full_send" /\ UNCHANGED <<headless, recvOff, lastRet>>
    BY <1>8 DEF full_send
  <2>2. CASE send_queue_data(e, "full_ioctl")
    <3>1. PeerKept(e, d) /\ Sends(e, d) /\ pc'[e] = "full_ioctl" /\ chan'[e] = chan[e]
      BY <1>p, <2>1, <2>2, SendStep
    <3>2. headless[e] /\ chan[e] # <<>>
      BY <2>1 DEF MidFrame, FullPcs
    <3> QED
      BY <1>0, <2>1, <3>1, <3>2 DEF Keeps, EndedPcs, WritePcs
  <2>3. CASE LeaveClosing(e) /\ UNCHANGED chan
    <3>1. headless[e]
      BY <2>1 DEF MidFrame, FullPcs
    <3> QED
      BY <1>0, <2>1, <2>3, <3>1, LeaveClosingStep
  <2> QED
    BY <1>8, <2>2, <2>3 DEF full_send
<1>9. CASE full_ioctl(e)
  <2>1. /\ pc[e] = "full_ioctl" /\ recvOff'[d] = recvOff[d] /\ UNCHANGED <<chan, headless>>
        /\ headless[e] /\ chan[e] # <<>>
    BY <1>t, <1>9 DEF full_ioctl, MidFrame, FullPcs
  <2>2. PICK rv \in TsiRet :
          /\ lastRet' = [lastRet EXCEPT ![e] = rv]
          /\ \/ rv = "ERROR_FAILED" /\ AfterFailed(e)
             \/ pc' = [pc EXCEPT ![e] =
                   IF is_recv_queue_full(recvOff'[e], FrameLen(Head(chan[e])))
                   THEN "full_send" ELSE "payload"]
    BY <1>9 DEF full_ioctl
  <2>3. lastRet'[d] = lastRet[d] /\ lastRet'[e] = rv
    BY <2>2 DEF TypeOK
  <2>4. CASE LeaveClosing(e)
    BY <1>0, <2>1, <2>3, <2>4, LeaveClosingStep
  <2>5. CASE rv = "ERROR_FAILED" /\ e # "client" /\ pc' = [pc EXCEPT ![e] = "ioctl"]
    <3>1. pc'[e] = "ioctl" /\ pc'[d] = pc[d] /\ e = "server"
      BY <2>5 DEF TypeOK, Ends
    <3> QED
      BY <1>0, <2>1, <2>3, <2>5, <3>1 DEF PeerKept, Sends, Keeps, EndedPcs, FullPcs
  <2>6. CASE pc' = [pc EXCEPT ![e] =
                  IF is_recv_queue_full(recvOff'[e], FrameLen(Head(chan[e])))
                  THEN "full_send" ELSE "payload"]
    <3>1. /\ pc'[e] \in {"full_send", "payload"} /\ pc'[d] = pc[d]
          /\ pc'[e] = "payload" => ~ is_recv_queue_full(recvOff'[e], FrameLen(Head(chan[e])))
      BY <2>6 DEF TypeOK
    <3>2. recvOff'[e] \in Nat
      BY <1>9 DEF full_ioctl, TmmTouchesQueues, TypeOK
    <3>3. pc'[e] = "payload" => recvOff'[e] + FrameLen(Head(chan[e])) <= QSize
      <4>1. FrameLen(Head(chan[e])) \in Nat
        BY <1>0, <2>1, TailFrame DEF FrameLen, Frames, CLOSE_LENGTH
      <4> QED
        BY <3>1, <3>2, <4>1 DEF is_recv_queue_full
    <3> QED
      BY <1>0, <2>1, <2>3, <2>6, <3>1, <3>3 DEF PeerKept, Sends, Keeps, EndedPcs, WritePcs
  <2> QED
    BY <2>2, <2>4, <2>5, <2>6 DEF AfterFailed
<1>10. CASE recv_payload(e)
  <2>1. pc[e] = "payload" /\ chan[e] # <<>>
    BY <1>10 DEF recv_payload, MidFrame
  <2>2. /\ headless' = [headless EXCEPT ![e] = FALSE] /\ chan' = [chan EXCEPT ![e] = Tail(@)]
        /\ lastRet' = [lastRet EXCEPT ![e] = "INCOMPLETE"]
        /\ recvOff' = recvOff \/ \E n \in Frames : recvOff' = [recvOff EXCEPT ![e] = @ + n]
    <3>1. Head(chan[e]) \in Frames
      BY <1>0, <2>1, TailFrame
    <3> QED
      BY <1>10, <3>1 DEF recv_payload
  <2>3. /\ ~ headless'[e] /\ headless'[d] = headless[d]
        /\ lastRet'[d] = lastRet[d] /\ recvOff'[d] = recvOff[d]
        /\ chan'[e] = Tail(chan[e]) /\ chan'[d] = chan[d]
    <3>1. d # e
      OBVIOUS
    <3>2. /\ headless \in [Ends -> BOOLEAN] /\ lastRet \in [Ends -> TsiRet]
          /\ recvOff \in [Ends -> 0 .. QSize] /\ chan \in [Ends -> Seq(Frames)]
      BY DEF TypeOK
    <3>3. ~ headless'[e] /\ headless'[d] = headless[d]
      BY <2>2, <3>1, <3>2
    <3>4. lastRet'[d] = lastRet[d] /\ chan'[e] = Tail(chan[e]) /\ chan'[d] = chan[d]
      BY <2>2, <3>1, <3>2
    <3>5. recvOff'[d] = recvOff[d]
      BY <2>2, <3>1, <3>2
    <3> QED
      BY <3>3, <3>4, <3>5
  <2>4. Len(Tail(chan[e])) < Len(chan[e]) /\ Len(Tail(chan[e])) <= Len(chan[e])
    BY <1>0, <2>1, TailFrame
  <2>5. LeaveClosing(e) \/ Leave(e, "close_req") \/ pc' = [pc EXCEPT ![e] = "ioctl"]
    BY <1>10 DEF recv_payload
  <2>6. CASE LeaveClosing(e)
    BY <1>0, <2>1, <2>3, <2>4, <2>6, LeaveClosingStep
  <2>7. CASE Leave(e, "close_req") \/ pc' = [pc EXCEPT ![e] = "ioctl"]
    <3>0. \E p \in {"stop", "ioctl"} : pc' = [pc EXCEPT ![e] = p]
      BY <2>7 DEF Leave
    <3>1. pc'[e] \in {"stop", "ioctl"} /\ pc'[d] = pc[d]
      <4>1. d # e /\ pc \in [Ends -> Pcs]
        BY DEF TypeOK
      <4> QED
        BY <3>0, <4>1
    <3> QED
      BY <2>1, <2>3, <2>4, <3>1 DEF PeerKept, Sends, Keeps, EndedPcs, FullPcs
  <2> QED
    BY <2>5, <2>6, <2>7
<1>14. CASE recv_payload_fails(e)
  <2>1. pc[e] = "payload" /\ LeaveClosing(e) /\ UNCHANGED <<headless, recvOff, lastRet, chan>>
    BY <1>14 DEF recv_payload_fails, queueVars
  <2>2. headless[e]
    BY <2>1 DEF MidFrame
  <2> QED
    BY <1>0, <2>1, <2>2, LeaveClosingStep
<1>15. CASE send_close_notification(e)
  <2>1. /\ pc'[e] = "stop" /\ pc'[d] = pc[d] /\ chan'[e] = chan[e]
        /\ UNCHANGED <<headless, recvOff, lastRet>>
    <3>1. d # e /\ pc \in [Ends -> Pcs] /\ chan \in [Ends -> Seq(Frames)]
      BY DEF TypeOK
    <3>2. pc' = [pc EXCEPT ![e] = "stop"] /\ UNCHANGED <<headless, recvOff, lastRet>>
      BY <1>15 DEF send_close_notification, queueVars
    <3>3. chan' = chan \/ chan' = [chan EXCEPT ![d] = Append(@, CLOSE_NOTIFY)]
      BY <1>15 DEF send_close_notification
    <3>4. pc'[e] = "stop" /\ pc'[d] = pc[d]
      BY <3>1, <3>2
    <3>5. chan'[e] = chan[e]
      BY <3>1, <3>3
    <3> QED
      BY <3>2, <3>4, <3>5
  <2>2. chan'[d] = chan[d] \/ (Len(chan[d]) < ChanCap /\ chan'[d] = Append(chan[d], CLOSE_NOTIFY))
    BY <1>15 DEF send_close_notification, TypeOK
  <2>3. PeerKept(e, d) /\ Sends(e, d)
    BY <2>1, <2>2 DEF PeerKept, Sends, Frames, CLOSE_NOTIFY
  <2> QED
    BY <2>1, <2>3, LeavingKeeps DEF EndedPcs
<1>11. CASE stop_all_slave_threads(e) \/ join_slaves(e)
  <2>1. /\ pc'[e] \in EndedPcs \ {"close"} /\ pc'[d] = pc[d]
        /\ UNCHANGED <<headless, recvOff, lastRet, chan>>
    <3>1. \E p \in {"join", "cleanup"} : pc' = [pc EXCEPT ![e] = p]
      BY <1>11 DEF stop_all_slave_threads, join_slaves
    <3>2. pc \in [Ends -> Pcs] /\ UNCHANGED <<headless, recvOff, lastRet, chan>>
      BY <1>11 DEF stop_all_slave_threads, join_slaves, TypeOK, queueVars
    <3> QED
      BY <3>1, <3>2 DEF EndedPcs
  <2> QED
    BY <2>1, LeavingKeeps DEF PeerKept, Sends
<1>13. CASE cleanup_resources(e)
  <2>1. /\ pc'[e] \in EndedPcs \ {"close"} /\ pc'[d] = pc[d] /\ chan'[e] = <<>> /\ chan'[d] = chan[d]
        /\ UNCHANGED <<headless, recvOff, lastRet>>
    BY <1>13 DEF cleanup_resources, TypeOK, queueVars, EndedPcs
  <2> QED
    BY <2>1, LeavingKeeps DEF PeerKept, Sends
<1> QED
  BY <1>1, <1>2, <1>3, <1>4, <1>5, <1>6, <1>7, <1>8, <1>9, <1>10, <1>11, <1>13, <1>14, <1>15 DEF io_thread

LEMMA FrameKept ==
    ASSUME Framed, UNCHANGED <<pc, headless, recvOff, lastRet, chan>>
    PROVE  Framed'
BY DEF Framed, MidFrame, Room, Fresh, Bounded, Slack, FramingKept

LEMMA NextIInv == IInv /\ [Next]_vars => IInv'
<1> SUFFICES ASSUME IInv, [Next]_vars PROVE IInv'
  OBVIOUS
<1>0. TypeOK /\ Framed /\ MidFrame /\ Room
  BY DEF IInv, Framed
<1>1. ASSUME NEW e \in Ends, io_thread(e) PROVE TypeOK' /\ Framed'
  <2>1. TypeOK'
    BY <1>0, <1>1, TypeStep
  <2>2. Peer(e) \in Ends
    BY PeerFacts
  <2>3. PeerKept(e, Peer(e)) /\ Sends(e, Peer(e)) /\ Keeps(e, Peer(e))
    BY <1>0, <1>1, <2>2, MasterStep
  <2> QED
    BY <1>0, <2>1, <2>2, <2>3, EndStep
<1>2. ASSUME NEW e \in Ends, NEW i \in Slaves, slave_io_thread(e, i) PROVE TypeOK' /\ Framed'
  <2>1. TypeOK'
    BY <1>0, <1>2, TypeStep
  <2>2. UNCHANGED <<pc, headless, recvOff, lastRet, chan>>
    BY <1>2 DEF slave_io_thread, slave_wakes, slave_calls, slave_dies, queueVars
  <2> QED
    BY <1>0, <2>1, <2>2, FrameKept
<1>3. CASE UNCHANGED vars
  <2>1. TypeOK'
    BY <1>0, <1>3 DEF vars, TypeOK
  <2>2. UNCHANGED <<pc, headless, recvOff, lastRet, chan>>
    BY <1>3 DEF vars
  <2> QED
    BY <1>0, <2>1, <2>2, FrameKept DEF Framed, IInv
<1> QED
  BY <1>1, <1>2, <1>3 DEF Next, IInv, Framed

LEMMA AlwaysIInv == Spec => []IInv
BY InitIInv, NextIInv, PTL DEF Spec

\* The state of both ends, their queues, the connection and their slave threads
\* keeps its type: the offsets stay inside QUEUE_SIZE, the semaphores never
\* go below zero.
THEOREM TypeCorrect == Spec => []TypeOK
<1>1. IInv => TypeOK
  BY DEF IInv
<1> QED
  BY <1>1, AlwaysIInv, PTL

\* The copy of handle_recv_event stays inside the shared queue.
THEOREM RoomWhenCopiedHolds == Spec => []RoomWhenCopied
<1>1. IInv => RoomWhenCopied
  BY DEF IInv, Room, RoomWhenCopied
<1> QED
  BY <1>1, AlwaysIInv, PTL

\* The main loop of io_thread is at a frame boundary, except after the
\* TSI_ERROR_FAILED of a server's full-queue loop.
THEOREM FramingHolds == Spec => []FramingKept
<1>1. IInv => FramingKept
  BY DEF IInv
<1> QED
  BY <1>1, AlwaysIInv, PTL

\* Both ends wait for each other to read only when one of them is in the middle
\* of a frame.
THEOREM MutualBlockHolds == Spec => []MutualBlockOnlyMidFrame
<1>1. IInv => MutualBlockOnlyMidFrame
  <2> SUFFICES ASSUME IInv, \A e \in Ends : SendBlocked(e), \A e \in Ends : ~ headless[e]
               PROVE  FALSE
    BY DEF MutualBlockOnlyMidFrame
  <2>1. \A e \in Ends : pc[e] \in WritePcs /\ Len(chan[Peer(e)]) >= ChanCap
    BY DEF IInv, MidFrame, SendBlocked, FullPcs, WritePcs
  <2>2. Len(chan["client"]) + Len(chan["server"]) < 2 * ChanCap
    BY <2>1 DEF IInv, Slack
  <2>3. Len(chan["client"]) >= ChanCap /\ Len(chan["server"]) >= ChanCap
    BY <2>1 DEF Ends, Peer
  <2>4. Len(chan["client"]) \in Nat /\ Len(chan["server"]) \in Nat
    BY LenProperties DEF IInv, TypeOK, Ends
  <2> DEFINE a == Len(chan["client"])
             b == Len(chan["server"])
  <2>5. a \in Nat /\ b \in Nat /\ a >= ChanCap /\ b >= ChanCap /\ a + b < 2 * ChanCap
    BY <2>2, <2>3, <2>4
  <2>6. ChanCap \in Nat
    BY ICAssumption
  <2> HIDE DEF a, b
  <2> QED
    BY <2>5, <2>6
<1> QED
  BY <1>1, AlwaysIInv, PTL

-----------------------------------------------------------------------------
(***************************************************************************)
(* The frames of one direction.  Every amount of data the TMM of the       *)
(* sender d produced has been delivered at e, is on its way, or waits in   *)
(* the send queue.  Nothing is sent after a close notification, so it is   *)
(* the last frame on its way and the others are data.                      *)
(***************************************************************************)
NoClose(s) == \A i \in 1 .. Len(s) : s[i] # CLOSE_NOTIFY

Tidy(s) == \A i \in 1 .. Len(s) : s[i] = CLOSE_NOTIFY => i = Len(s)

Data(s) == Len(s) - (IF s # <<>> /\ s[Len(s)] = CLOSE_NOTIFY THEN 1 ELSE 0)

Waiting(e) == IF sendOff[e] > 0 THEN 1 ELSE 0

\* An end that has left its loop and writes nothing any more.
SilentPcs == EndedPcs \ {"close"}

\* The end has lost its place in the stream, for good.
Astray(e) == headless[e] /\ pc[e] \notin FullPcs \cup {"payload"}

Flowing(e, d) ==
    why[e] = "none" /\ ~ Astray(e) =>
        /\ fills[d] = delivered[e] + Data(chan[e]) + Waiting(d)
        /\ Tidy(chan[e])
        /\ pc[d] \notin SilentPcs => NoClose(chan[e])

Closed(e, d) ==
    why[e] = "close_req" =>
        /\ pc[d] \in SilentPcs
        /\ fills[d] = delivered[e] + Waiting(d)

Left(e) == pc[e] \in EndedPcs <=> why[e] # "none"

FlowInv == \A e \in Ends : Left(e) /\ Flowing(e, Peer(e)) /\ Closed(e, Peer(e))

\* A frame appended before any close notification.
LEMMA DataAppend ==
    ASSUME NEW s \in Seq(Frames), NoClose(s), NEW f \in Frames
    PROVE  /\ f # CLOSE_NOTIFY => NoClose(Append(s, f)) /\ Data(Append(s, f)) = Data(s) + 1
           /\ f = CLOSE_NOTIFY => Data(Append(s, f)) = Data(s)
           /\ Tidy(Append(s, f))
<1> DEFINE t == Append(s, f)
<1>1. /\ Len(s) \in Nat /\ Len(t) = Len(s) + 1 /\ t # <<>>
      /\ \A i \in 1 .. Len(s) : t[i] = s[i]
      /\ t[Len(s) + 1] = f
  BY AppendProperties, LenProperties
<1>2. s # <<>> => Len(s) \in 1 .. Len(s)
  BY <1>1, EmptySeq
<1>3. Data(s) = Len(s)
  BY <1>1, <1>2 DEF Data, NoClose
<1>4. \A i \in 1 .. Len(t) : i \in 1 .. Len(s) \/ i = Len(s) + 1
  BY <1>1
<1> HIDE DEF t
<1>5. t[Len(t)] = f
  BY <1>1
<1>6. f # CLOSE_NOTIFY => NoClose(t) /\ Data(t) = Data(s) + 1
  BY <1>1, <1>3, <1>4, <1>5 DEF NoClose, Data
<1>7. f = CLOSE_NOTIFY => Data(t) = Data(s)
  BY <1>1, <1>3, <1>5 DEF Data
<1>8. Tidy(t)
  BY <1>1, <1>4 DEF NoClose, Tidy
<1> QED
  BY <1>6, <1>7, <1>8 DEF t

\* A frame taken from the head.
LEMMA DataTail ==
    ASSUME NEW s \in Seq(Frames), s # <<>>, Tidy(s)
    PROVE  /\ Head(s) = CLOSE_NOTIFY => Data(s) = 0 /\ ~ NoClose(s)
           /\ Head(s) # CLOSE_NOTIFY => Data(Tail(s)) = Data(s) - 1
           /\ Tidy(Tail(s))
           /\ NoClose(s) => NoClose(Tail(s))
<1> DEFINE t == Tail(s)
<1>1. /\ Len(s) \in Nat \ {0} /\ Len(t) = Len(s) - 1 /\ t \in Seq(Frames)
      /\ \A i \in 1 .. Len(t) : t[i] = s[i + 1]
      /\ Head(s) = s[1]
  BY HeadTailProperties, EmptySeq
<1>2. 1 \in 1 .. Len(s) /\ \A i \in 1 .. Len(t) : i + 1 \in 1 .. Len(s)
  BY <1>1
<1>3. t = <<>> => Len(t) = 0
  BY EmptySeq
<1>4. t # <<>> => Len(t) \in 1 .. Len(t)
  BY <1>1, EmptySeq
<1> HIDE DEF t
<1>5. Head(s) = CLOSE_NOTIFY => Data(s) = 0 /\ ~ NoClose(s)
  BY <1>1, <1>2 DEF Tidy, Data, NoClose
<1>6. ASSUME Head(s) # CLOSE_NOTIFY PROVE Data(t) = Data(s) - 1
  <2>1. CASE t = <<>>
    <3>0. Len(t) = 0 /\ Len(s) = 1
      BY <1>1, <1>3, <2>1
    <3>1. Len(t) = 0 /\ Len(s) = 1 /\ s[Len(s)] # CLOSE_NOTIFY
      BY <1>1, <1>6, <3>0
    <3>2. Data(s) = 1
      BY <3>1 DEF Data
    <3>3. Data(t) = 0
      BY <2>1, <3>1 DEF Data
    <3> QED
      BY <3>2, <3>3
  <2>2. CASE t # <<>>
    <3>1. t[Len(t)] = s[Len(s)]
      BY <1>1, <1>4, <2>2
    <3> QED
      BY <1>1, <2>2, <3>1 DEF Data
  <2> QED
    BY <2>1, <2>2
<1>7. Tidy(t)
  <2> SUFFICES ASSUME NEW i \in 1 .. Len(t), t[i] = CLOSE_NOTIFY PROVE i = Len(t)
    BY DEF Tidy
  <2>1. s[i + 1] = CLOSE_NOTIFY /\ i + 1 \in 1 .. Len(s)
    BY <1>1, <1>2
  <2>2. i + 1 = Len(s)
    BY <2>1 DEF Tidy
  <2> QED
    BY <1>1, <2>2
<1>8. NoClose(s) => NoClose(t)
  BY <1>1, <1>2 DEF NoClose
<1> QED
  BY <1>5, <1>6, <1>7, <1>8 DEF t

\* What a step of the master thread of a does to what it sends ...
Outgoing(a, b) ==
    \/ /\ pc[a] \notin EndedPcs
       /\ sendOff[a] > 0 /\ sendOff'[a] = 0 /\ fills'[a] = fills[a]
       /\ chan'[b] = Append(chan[b], sendOff[a])
    \/ /\ \/ fills'[a] = fills[a] /\ sendOff'[a] = sendOff[a]
          \/ /\ pc[a] \notin EndedPcs
             /\ sendOff[a] = 0 /\ sendOff'[a] > 0 /\ fills'[a] = fills[a] + 1
       /\ \/ chan'[b] = chan[b]
          \/ /\ pc[a] = "close" /\ pc'[a] \in SilentPcs
             /\ chan'[b] = Append(chan[b], CLOSE_NOTIFY)

\* ... to what it receives ...
Incoming(a) ==
    \/ chan'[a] = chan[a] /\ delivered'[a] = delivered[a] /\ why'[a] \in {why[a], "other"}
    \/ /\ pc[a] = "payload" /\ chan'[a] = Tail(chan[a])
       /\ \/ Head(chan[a]) = CLOSE_NOTIFY /\ why'[a] = "close_req" /\ delivered'[a] = delivered[a]
          \/ /\ Head(chan[a]) # CLOSE_NOTIFY /\ why'[a] \in {why[a], "other"}
             /\ delivered'[a] = delivered[a] + 1
    \/ pc[a] = "poll" /\ Astray(a) /\ why'[a] = why[a]
    \/ pc[a] \in EndedPcs /\ delivered'[a] = delivered[a] /\ why'[a] = why[a]

\* ... and to its control point.
Control(a) ==
    /\ Astray(a) => Astray(a)'
    /\ pc[a] \in EndedPcs => pc'[a] \in EndedPcs /\ why'[a] = why[a]
    /\ pc[a] \in SilentPcs => pc'[a] \in SilentPcs
    /\ pc[a] \notin EndedPcs => (pc'[a] \in EndedPcs <=> why'[a] # "none")

Untouched(b) ==
    /\ pc'[b] = pc[b] /\ why'[b] = why[b] /\ headless'[b] = headless[b]
    /\ delivered'[b] = delivered[b] /\ sendOff'[b] = sendOff[b] /\ fills'[b] = fills[b]

\* Such a step keeps the account of both directions.
LEMMA FlowStep ==
    ASSUME IInv, FlowInv, NEW a \in Ends, NEW b \in Ends, b = Peer(a),
           Outgoing(a, b), Incoming(a), Control(a), Untouched(b)
    PROVE  FlowInv'
<1>0. /\ Left(a) /\ Flowing(a, b) /\ Closed(a, b) /\ Left(b) /\ Flowing(b, a) /\ Closed(b, a)
      /\ a = Peer(b)
  BY PeerFacts DEF FlowInv
<1>1. /\ chan[a] \in Seq(Frames) /\ chan[b] \in Seq(Frames) /\ sendOff[a] \in Frames
      /\ fills[a] \in Nat /\ delivered[a] \in Nat /\ fills[b] \in Nat /\ delivered[b] \in Nat
      /\ sendOff[a] \in Nat /\ CLOSE_NOTIFY = 0 /\ CLOSE_NOTIFY \in Frames
  BY ICAssumption DEF IInv, TypeOK, Frames, CLOSE_NOTIFY
<1>2. Data(chan[a]) \in Int /\ Data(chan[b]) \in Int
  BY <1>1, LenProperties DEF Data
<1>3. Left(a)' /\ Left(b)'
  BY <1>0 DEF Left, Control, Untouched
<1>4. Waiting(b)' = Waiting(b) /\ Waiting(b) \in {0, 1} /\ Waiting(a) \in {0, 1} /\ Waiting(a)' \in {0, 1}
  BY DEF Waiting, Untouched
<1>5. Flowing(a, b)'
  <2> SUFFICES ASSUME why'[a] = "none", ~ Astray(a)'
               PROVE  /\ fills'[b] = delivered'[a] + Data(chan'[a]) + Waiting(b)'
                      /\ Tidy(chan'[a])
                      /\ pc'[b] \notin SilentPcs => NoClose(chan'[a])
    BY DEF Flowing
  <2>1. why[a] = "none" /\ ~ Astray(a) /\ pc[a] \notin EndedPcs
    BY <1>0 DEF Control, Left, Incoming
  <2>2. /\ fills[b] = delivered[a] + Data(chan[a]) + Waiting(b)
        /\ Tidy(chan[a])
        /\ pc[b] \notin SilentPcs => NoClose(chan[a])
    BY <1>0, <2>1 DEF Flowing
  <2>3. CASE chan'[a] = chan[a] /\ delivered'[a] = delivered[a]
    BY <1>4, <2>2, <2>3 DEF Untouched
  <2>4. CASE /\ pc[a] = "payload" /\ chan'[a] = Tail(chan[a])
             /\ Head(chan[a]) # CLOSE_NOTIFY /\ delivered'[a] = delivered[a] + 1
    <3>1. chan[a] # <<>>
      BY <2>4 DEF IInv, MidFrame
    <3>2. /\ Data(chan'[a]) = Data(chan[a]) - 1 /\ Tidy(chan'[a])
          /\ NoClose(chan[a]) => NoClose(chan'[a])
      BY <1>1, <2>2, <2>4, <3>1, DataTail
    <3> QED
      BY <1>1, <1>2, <1>4, <2>2, <2>4, <3>2 DEF Untouched
  <2> QED
    BY <2>1, <2>3, <2>4 DEF Incoming
<1>6. Closed(a, b)'
  <2> SUFFICES ASSUME why'[a] = "close_req"
               PROVE  pc'[b] \in SilentPcs /\ fills'[b] = delivered'[a] + Waiting(b)'
    BY DEF Closed
  <2>1. CASE why[a] = "close_req"
    <3>1. pc[a] \in EndedPcs
      BY <1>0, <2>1 DEF Left
    <3>2. delivered'[a] = delivered[a]
      BY <3>1 DEF Incoming, EndedPcs
    <3> QED
      BY <1>0, <1>4, <2>1, <3>2 DEF Closed, Untouched
  <2>2. CASE why[a] # "close_req"
    <3>1. /\ pc[a] = "payload" /\ Head(chan[a]) = CLOSE_NOTIFY /\ delivered'[a] = delivered[a]
      BY <2>2 DEF Incoming
    <3>2. why[a] = "none" /\ ~ Astray(a) /\ chan[a] # <<>>
      BY <1>0, <3>1 DEF Left, Astray, EndedPcs, IInv, MidFrame
    <3>3. Data(chan[a]) = 0 /\ ~ NoClose(chan[a])
      BY <1>0, <1>1, <3>1, <3>2, DataTail DEF Flowing
    <3> QED
      BY <1>0, <1>1, <1>4, <3>1, <3>2, <3>3 DEF Flowing, Untouched
  <2> QED
    BY <2>1, <2>2
<1>7. Flowing(b, a)'
  <2> SUFFICES ASSUME why[b] = "none", ~ Astray(b)
               PROVE  /\ fills'[a] = delivered[b] + Data(chan'[b]) + Waiting(a)'
                      /\ Tidy(chan'[b])
                      /\ pc'[a] \notin SilentPcs => NoClose(chan'[b])
    BY DEF Flowing, Untouched, Astray
  <2>1. /\ fills[a] = delivered[b] + Data(chan[b]) + Waiting(a)
        /\ Tidy(chan[b])
        /\ pc[a] \notin SilentPcs => NoClose(chan[b])
    BY <1>0 DEF Flowing
  <2>2. CASE /\ pc[a] \notin EndedPcs
             /\ sendOff[a] > 0 /\ sendOff'[a] = 0 /\ fills'[a] = fills[a]
             /\ chan'[b] = Append(chan[b], sendOff[a])
    <3>1. sendOff[a] # CLOSE_NOTIFY /\ Waiting(a) = 1 /\ Waiting(a)' = 0
      BY <1>1, <2>2 DEF Waiting
    <3>2. NoClose(chan'[b]) /\ Tidy(chan'[b]) /\ Data(chan'[b]) = Data(chan[b]) + 1
      <4>1. NoClose(chan[b])
        BY <2>1, <2>2 DEF SilentPcs
      <4> QED
        BY <1>1, <2>2, <3>1, <4>1, DataAppend
    <3>3. fills'[a] = delivered[b] + Data(chan[b]) + 1 /\ delivered[b] \in Int /\ Data(chan[b]) \in Int
      BY <1>1, <1>2, <2>1, <2>2, <3>1
    <3>4. fills'[a] = delivered[b] + Data(chan'[b]) + Waiting(a)'
      BY <3>1, <3>2, <3>3
    <3> QED
      BY <3>2, <3>4
  <2>3. CASE /\ \/ fills'[a] = fills[a] /\ sendOff'[a] = sendOff[a]
                \/ /\ pc[a] \notin EndedPcs
                   /\ sendOff[a] = 0 /\ sendOff'[a] > 0 /\ fills'[a] = fills[a] + 1
             /\ \/ chan'[b] = chan[b]
                \/ /\ pc[a] = "close" /\ pc'[a] \in SilentPcs
                   /\ chan'[b] = Append(chan[b], CLOSE_NOTIFY)
    <3>1. fills'[a] - Waiting(a)' = fills[a] - Waiting(a) /\ fills'[a] \in Nat
      BY <1>1, <2>3 DEF Waiting
    <3>2. /\ Data(chan'[b]) = Data(chan[b]) /\ Tidy(chan'[b])
          /\ pc'[a] \notin SilentPcs => NoClose(chan'[b])
      <4>1. CASE chan'[b] = chan[b]
        BY <2>1, <4>1 DEF Control
      <4>2. CASE /\ pc[a] = "close" /\ pc'[a] \in SilentPcs
                 /\ chan'[b] = Append(chan[b], CLOSE_NOTIFY)
        <5>1. NoClose(chan[b])
          BY <2>1, <4>2 DEF SilentPcs
        <5> QED
          BY <1>1, <4>2, <5>1, DataAppend
      <4> QED
        BY <2>3, <4>1, <4>2
    <3>3. fills'[a] - Waiting(a)' = delivered[b] + Data(chan[b])
      BY <1>1, <1>2, <1>4, <2>1, <3>1
    <3>4. fills'[a] = delivered[b] + Data(chan[b]) + Waiting(a)'
      BY <1>1, <1>2, <1>4, <3>1, <3>3
    <3> QED
      BY <3>2, <3>4
  <2> QED
    BY <2>2, <2>3 DEF Outgoing
<1>8. Closed(b, a)'
  <2> SUFFICES ASSUME why[b] = "close_req"
               PROVE  pc'[a] \in SilentPcs /\ fills'[a] = delivered[b] + Waiting(a)'
    BY DEF Closed, Untouched
  <2>1. pc[a] \in SilentPcs /\ fills[a] = delivered[b] + Waiting(a)
    BY <1>0 DEF Closed
  <2>2. fills'[a] = fills[a] /\ sendOff'[a] = sendOff[a]
    BY <2>1 DEF Outgoing, SilentPcs
  <2> QED
    BY <2>1, <2>2 DEF Control, Waiting
<1>9. \A e \in Ends : e = a \/ e = b
  BY PeerFacts
<1>10. Peer(a) = b /\ Peer(b) = a
  BY <1>0
<1> QED
  BY <1>3, <1>5, <1>6, <1>7, <1>8, <1>9, <1>10 DEF FlowInv

\* The operations that several actions share.
LEMMA SharedFlow ==
    ASSUME TypeOK, NEW a \in Ends, NEW b \in Ends, b = Peer(a)
    PROVE  /\ TmmTouchesQueues(a) =>
                 /\ sendOff'[b] = sendOff[b] /\ fills'[b] = fills[b]
                 /\ \/ fills'[a] = fills[a] /\ sendOff'[a] = sendOff[a]
                    \/ sendOff[a] = 0 /\ sendOff'[a] > 0 /\ fills'[a] = fills[a] + 1
           /\ \A r : Leave(a, r) => /\ pc'[a] = "stop" /\ pc'[b] = pc[b]
                                    /\ why'[a] = r /\ why'[b] = why[b]
           /\ LeaveClosing(a) => /\ pc'[a] = "close" /\ pc'[b] = pc[b]
                                 /\ why'[a] = "other" /\ why'[b] = why[b]
           /\ \A next : send_queue_data(a, next) =>
                 /\ pc'[a] = next /\ pc'[b] = pc[b] /\ why' = why
                 /\ chan'[a] = chan[a] /\ sendOff'[b] = sendOff[b]
                 /\ \/ sendOff'[a] = sendOff[a] /\ chan'[b] = chan[b]
                    \/ /\ sendOff[a] > 0 /\ sendOff'[a] = 0
                       /\ chan'[b] = Append(chan[b], sendOff[a])
<1> USE PeerFacts
<1>1. ASSUME TmmTouchesQueues(a)
      PROVE  /\ sendOff'[b] = sendOff[b] /\ fills'[b] = fills[b]
             /\ \/ fills'[a] = fills[a] /\ sendOff'[a] = sendOff[a]
                \/ sendOff[a] = 0 /\ sendOff'[a] > 0 /\ fills'[a] = fills[a] + 1
  <2>1. CASE UNCHANGED <<sendOff, fills>>
    BY <2>1
  <2>2. CASE /\ sendOff[a] = 0 /\ fills[a] < MaxFills[a]
             /\ \E n \in Fills : sendOff' = [sendOff EXCEPT ![a] = n]
             /\ fills' = [fills EXCEPT ![a] = @ + 1]
    <3>1. PICK n \in Fills : sendOff' = [sendOff EXCEPT ![a] = n]
      BY <2>2
    <3>2. n > 0
      BY ICAssumption
    <3>3. sendOff'[a] = n /\ sendOff'[b] = sendOff[b]
      BY <3>1 DEF TypeOK
    <3>4. fills'[a] = fills[a] + 1 /\ fills'[b] = fills[b]
      BY <2>2 DEF TypeOK
    <3> QED
      BY <2>2, <3>2, <3>3, <3>4
  <2> QED
    BY <1>1, <2>1, <2>2 DEF TmmTouchesQueues
<1>2. ASSUME LeaveClosing(a)
      PROVE  pc'[a] = "close" /\ pc'[b] = pc[b] /\ why'[a] = "other" /\ why'[b] = why[b]
  BY <1>2 DEF LeaveClosing, TypeOK
<1>3. ASSUME NEW r, Leave(a, r)
      PROVE  pc'[a] = "stop" /\ pc'[b] = pc[b] /\ why'[a] = r /\ why'[b] = why[b]
  BY <1>3 DEF Leave, TypeOK
<1>4. ASSUME NEW next, send_queue_data(a, next)
      PROVE  /\ pc'[a] = next /\ pc'[b] = pc[b] /\ why' = why
             /\ chan'[a] = chan[a] /\ sendOff'[b] = sendOff[b]
             /\ \/ sendOff'[a] = sendOff[a] /\ chan'[b] = chan[b]
                \/ sendOff[a] > 0 /\ sendOff'[a] = 0 /\ chan'[b] = Append(chan[b], sendOff[a])
  BY <1>4 DEF send_queue_data, TypeOK
<1> QED
  BY <1>1, <1>2, <1>3, <1>4

\* An end that leaves its main loop.
LEMMA LeavesFlow ==
    ASSUME IInv, FlowInv, NEW a \in Ends, NEW b \in Ends, b = Peer(a), pc[a] \notin EndedPcs,
           Leave(a, "other") \/ LeaveClosing(a), UNCHANGED <<chan, delivered>>,
           headless[a] => headless'[a], headless'[b] = headless[b],
           UNCHANGED <<sendOff, fills>> \/ TmmTouchesQueues(a)
    PROVE  FlowInv'
<1>1. TypeOK
  BY DEF IInv
<1>2. pc'[a] \in {"stop", "close"} /\ pc'[b] = pc[b] /\ why'[a] = "other" /\ why'[b] = why[b]
  BY <1>1, SharedFlow
<1>4. /\ sendOff'[b] = sendOff[b] /\ fills'[b] = fills[b]
      /\ \/ fills'[a] = fills[a] /\ sendOff'[a] = sendOff[a]
         \/ sendOff[a] = 0 /\ sendOff'[a] > 0 /\ fills'[a] = fills[a] + 1
  BY <1>1, SharedFlow
<1>5. /\ pc'[a] \in EndedPcs /\ pc'[a] \notin FullPcs \cup {"payload"}
      /\ pc[a] \notin SilentPcs
  BY <1>2 DEF EndedPcs, FullPcs, SilentPcs
<1>6. Outgoing(a, b)
  BY <1>4 DEF Outgoing
<1>7. Incoming(a)
  BY <1>2 DEF Incoming
<1>8. Control(a)
  BY <1>2, <1>5 DEF Control, Astray
<1>9. Untouched(b)
  BY <1>2, <1>4 DEF Untouched
<1> QED
  BY <1>6, <1>7, <1>8, <1>9, FlowStep

\* Its close notification is the last it sends.
LEMMA CloseFlow ==
    ASSUME IInv, FlowInv, NEW a \in Ends, NEW b \in Ends, b = Peer(a), send_close_notification(a)
    PROVE  FlowInv'
<1>1. TypeOK /\ b # a
  BY PeerFacts DEF IInv
<1>2. /\ pc[a] = "close" /\ pc'[a] = "stop" /\ pc'[b] = pc[b]
      /\ UNCHANGED <<why, headless, delivered, sendOff, fills>>
  BY <1>1 DEF send_close_notification, TypeOK, queueVars
<1>3. chan'[a] = chan[a] /\ (chan'[b] = chan[b] \/ chan'[b] = Append(chan[b], CLOSE_NOTIFY))
  BY <1>1 DEF send_close_notification, TypeOK
<1>4. /\ pc[a] \in EndedPcs /\ pc'[a] \in EndedPcs /\ pc'[a] \in SilentPcs
      /\ pc'[a] \notin FullPcs \cup {"payload"}
  BY <1>2 DEF EndedPcs, SilentPcs, FullPcs
<1>5. Outgoing(a, b) /\ Incoming(a)
  BY <1>2, <1>3, <1>4 DEF Outgoing, Incoming
<1>6. Control(a) /\ Untouched(b)
  BY <1>2, <1>4 DEF Control, Astray, Untouched
<1> QED
  BY <1>5, <1>6, FlowStep

\* An end that goes on, and may have sent data.
LEMMA GoesOnFlow ==
    ASSUME IInv, FlowInv, NEW a \in Ends, NEW b \in Ends, b = Peer(a), pc[a] \notin EndedPcs,
           pc'[a] \notin EndedPcs, pc'[b] = pc[b], why' = why, UNCHANGED delivered,
           headless'[b] = headless[b], Astray(a) => Astray(a)',
           chan'[a] = chan[a], sendOff'[b] = sendOff[b], fills'[b] = fills[b],
           \/ /\ sendOff[a] > 0 /\ sendOff'[a] = 0 /\ fills'[a] = fills[a]
              /\ chan'[b] = Append(chan[b], sendOff[a])
           \/ /\ chan'[b] = chan[b]
              /\ \/ fills'[a] = fills[a] /\ sendOff'[a] = sendOff[a]
                 \/ sendOff[a] = 0 /\ sendOff'[a] > 0 /\ fills'[a] = fills[a] + 1
    PROVE  FlowInv'
<1>1. why[a] = "none"
  BY DEF FlowInv, Left
<1>2. Outgoing(a, b) /\ Incoming(a) /\ Control(a) /\ Untouched(b)
  BY <1>1 DEF Outgoing, Incoming, Control, Untouched, SilentPcs
<1> QED
  BY <1>2, FlowStep

\* An end that has left its loop.
LEMMA ShutdownFlow ==
    ASSUME IInv, FlowInv, NEW a \in Ends, NEW b \in Ends, b = Peer(a),
           pc[a] \in SilentPcs, pc'[a] \in SilentPcs, pc'[b] = pc[b], chan'[b] = chan[b],
           UNCHANGED <<why, headless, delivered, sendOff, fills>>
    PROVE  FlowInv'
<1>1. Outgoing(a, b) /\ Incoming(a) /\ Untouched(b)
  BY DEF Outgoing, Incoming, Untouched, SilentPcs
<1>2. pc'[a] \notin FullPcs \cup {"payload"} /\ pc[a] \in EndedPcs /\ pc'[a] \in EndedPcs
  BY DEF EndedPcs, SilentPcs, FullPcs
<1>3. Control(a)
  BY <1>2 DEF Control, Astray
<1> QED
  BY <1>1, <1>3, FlowStep

\* An end that takes a payload.
LEMMA PayloadFlow ==
    ASSUME IInv, FlowInv, NEW a \in Ends, NEW b \in Ends, b = Peer(a), recv_payload(a)
    PROVE  FlowInv'
<1> USE PeerFacts
<1>0. TypeOK
  BY DEF IInv
<1>1. /\ pc[a] = "payload" /\ UNCHANGED <<sendOff, fills>>
      /\ headless' = [headless EXCEPT ![a] = FALSE] /\ chan' = [chan EXCEPT ![a] = Tail(@)]
  BY DEF recv_payload
<1>2. headless'[b] = headless[b] /\ chan'[a] = Tail(chan[a]) /\ chan'[b] = chan[b]
  BY <1>0, <1>1 DEF TypeOK
<1>3. ~ Astray(a) /\ pc[a] \notin EndedPcs /\ pc[a] \notin SilentPcs
  BY <1>1 DEF Astray, EndedPcs, SilentPcs
<1>4. why[a] = "none"
  BY <1>3 DEF FlowInv, Left
<1>5. Outgoing(a, b)
  BY <1>1, <1>2 DEF Outgoing
<1>6. \/ Head(chan[a]) = CLOSE_NOTIFY /\ Leave(a, "close_req") /\ UNCHANGED delivered
      \/ /\ Head(chan[a]) # CLOSE_NOTIFY /\ delivered' = [delivered EXCEPT ![a] = @ + 1]
         /\ \/ LeaveClosing(a)
            \/ pc' = [pc EXCEPT ![a] = "ioctl"] /\ UNCHANGED why
  BY DEF recv_payload
<1>7. CASE Head(chan[a]) = CLOSE_NOTIFY /\ Leave(a, "close_req") /\ UNCHANGED delivered
  <2>1. pc'[a] = "stop" /\ pc'[b] = pc[b] /\ why'[a] = "close_req" /\ why'[b] = why[b]
    BY <1>0, <1>7, SharedFlow
  <2>2. pc'[a] \in EndedPcs
    BY <2>1 DEF EndedPcs
  <2>3. Incoming(a) /\ Control(a) /\ Untouched(b)
    BY <1>1, <1>2, <1>3, <1>7, <2>1, <2>2 DEF Incoming, Control, Untouched
  <2> QED
    BY <1>5, <2>3, FlowStep
<1>8. CASE /\ Head(chan[a]) # CLOSE_NOTIFY /\ delivered' = [delivered EXCEPT ![a] = @ + 1]
           /\ \/ LeaveClosing(a)
              \/ pc' = [pc EXCEPT ![a] = "ioctl"] /\ UNCHANGED why
  <2>1. /\ pc'[b] = pc[b] /\ why'[b] = why[b]
        /\ \/ pc'[a] = "close" /\ why'[a] = "other"
           \/ pc'[a] = "ioctl" /\ why'[a] = why[a]
    <3>1. CASE LeaveClosing(a)
      BY <1>0, <3>1, SharedFlow
    <3>2. CASE pc' = [pc EXCEPT ![a] = "ioctl"] /\ UNCHANGED why
      BY <1>0, <3>2 DEF TypeOK
    <3> QED
      BY <1>8, <3>1, <3>2
  <2>2. pc'[a] \in EndedPcs <=> why'[a] # "none"
    BY <1>4, <2>1 DEF EndedPcs
  <2>3. delivered'[a] = delivered[a] + 1 /\ delivered'[b] = delivered[b]
    BY <1>0, <1>8 DEF TypeOK
  <2>4. Incoming(a)
    BY <1>1, <1>2, <1>8, <2>1, <2>3 DEF Incoming
  <2>5. Control(a) /\ Untouched(b)
    BY <1>1, <1>2, <1>3, <2>1, <2>2, <2>3 DEF Control, Untouched
  <2> QED
    BY <1>5, <2>4, <2>5, FlowStep
<1> QED
  BY <1>6, <1>7, <1>8

\* Every step of a master thread keeps the account.
LEMMA MasterFlow ==
    ASSUME IInv, FlowInv, NEW a \in Ends, NEW b \in Ends, b = Peer(a), io_thread(a)
    PROVE  FlowInv'
<1> USE PeerFacts
<1>0. TypeOK /\ MidFrame /\ Fresh
  BY DEF IInv
<1>p. \A p \in {"ioctl", "send", "poll", "full_send", "full_ioctl", "payload", "setup"} : p \notin EndedPcs
  BY DEF EndedPcs
<1>q. \A p \in {"ioctl", "send", "poll"} : p \notin FullPcs \cup {"payload"}
  BY DEF FullPcs
<1>1. CASE setup_done(a)
  <2>1. /\ pc[a] = "setup" /\ pc'[a] = "ioctl" /\ pc'[b] = pc[b]
        /\ UNCHANGED <<why, headless, delivered, chan, sendOff, fills>>
    BY <1>0, <1>1 DEF setup_done, TypeOK, queueVars
  <2>2. ~ Astray(a)
    BY <1>0, <2>1 DEF Fresh, Astray
  <2> QED
    BY <1>p, <2>1, <2>2, GoesOnFlow
<1>2. CASE setup_fails(a)
  <2>1. pc[a] = "setup" /\ UNCHANGED <<headless, delivered, chan, sendOff, fills>>
    BY <1>2 DEF setup_fails, queueVars
  <2>2. CASE Leave(a, "other")
    BY <1>p, <2>1, <2>2, LeavesFlow
  <2>3. CASE pc' = [pc EXCEPT ![a] = "crashed"] /\ why' = [why EXCEPT ![a] = "other"]
    <3>1. pc'[a] = "crashed" /\ pc'[b] = pc[b] /\ why'[a] = "other" /\ why'[b] = why[b]
      BY <1>0, <2>3 DEF TypeOK
    <3>2. pc'[a] \in EndedPcs /\ pc[a] \notin EndedPcs /\ pc[a] \notin SilentPcs
      BY <1>p, <2>1, <3>1 DEF EndedPcs, SilentPcs
    <3>3. ~ Astray(a)
      BY <1>0, <2>1 DEF Fresh, Astray
    <3>4. Outgoing(a, b) /\ Incoming(a) /\ Control(a) /\ Untouched(b)
      BY <2>1, <3>1, <3>2, <3>3 DEF Outgoing, Incoming, Control, Untouched
    <3> QED
      BY <3>4, FlowStep
  <2> QED
    BY <1>2, <2>2, <2>3 DEF setup_fails
<1>3. CASE master_ioctl(a)
  <2>1. pc[a] = "ioctl" /\ TmmTouchesQueues(a) /\ UNCHANGED <<chan, headless, delivered>>
    BY <1>3 DEF master_ioctl
  <2>2. CASE LeaveClosing(a)
    BY <1>p, <2>1, <2>2, LeavesFlow
  <2>3. CASE pc' = [pc EXCEPT ![a] = "send"] /\ UNCHANGED why
    <3>1. pc'[a] = "send" /\ pc'[b] = pc[b]
      BY <1>0, <2>3 DEF TypeOK
    <3>2. /\ sendOff'[b] = sendOff[b] /\ fills'[b] = fills[b]
          /\ \/ fills'[a] = fills[a] /\ sendOff'[a] = sendOff[a]
             \/ sendOff[a] = 0 /\ sendOff'[a] > 0 /\ fills'[a] = fills[a] + 1
      BY <1>0, <2>1, SharedFlow
    <3>3. Astray(a) => Astray(a)'
      BY <1>q, <2>1, <3>1 DEF Astray
    <3> QED
      BY <1>p, <2>1, <2>3, <3>1, <3>2, <3>3, GoesOnFlow
  <2> QED
    BY <1>3, <2>2, <2>3 DEF master_ioctl
<1>4. CASE handle_send_event(a)
  <2>1. pc[a] = "send" /\ UNCHANGED <<headless, delivered, fills>>
    BY <1>4 DEF handle_send_event
  <2>2. CASE send_queue_data(a, "poll")
    <3>1. /\ pc'[a] = "poll" /\ pc'[b] = pc[b] /\ why' = why
          /\ chan'[a] = chan[a] /\ sendOff'[b] = sendOff[b]
          /\ \/ sendOff'[a] = sendOff[a] /\ chan'[b] = chan[b]
             \/ sendOff[a] > 0 /\ sendOff'[a] = 0 /\ chan'[b] = Append(chan[b], sendOff[a])
      BY <1>0, <2>2, SharedFlow
    <3>2. Astray(a) => Astray(a)'
      BY <1>q, <2>1, <3>1 DEF Astray
    <3> QED
      BY <1>p, <2>1, <3>1, <3>2, GoesOnFlow
  <2>3. CASE Leave(a, "other") /\ UNCHANGED <<chan, sendOff>>
    BY <1>p, <2>1, <2>3, LeavesFlow
  <2> QED
    BY <1>4, <2>2, <2>3 DEF handle_send_event
<1>5. CASE poll_nothing(a)
  <2>1. /\ pc[a] = "poll" /\ pc'[a] = "ioctl" /\ pc'[b] = pc[b]
        /\ UNCHANGED <<why, headless, delivered, chan, sendOff, fills>>
    BY <1>0, <1>5 DEF poll_nothing, TypeOK, queueVars
  <2>2. Astray(a) => Astray(a)'
    BY <1>q, <2>1 DEF Astray
  <2> QED
    BY <1>p, <2>1, <2>2, GoesOnFlow
<1>6. CASE poll_hangup(a)
  <2>1. pc[a] = "poll" /\ Leave(a, "other") /\ UNCHANGED <<headless, delivered, chan, sendOff, fills>>
    BY <1>6 DEF poll_hangup, queueVars
  <2> QED
    BY <1>p, <2>1, LeavesFlow
<1>7. CASE recv_header(a)
  <2>1. pc[a] = "poll" /\ UNCHANGED <<delivered, sendOff, fills>>
    BY <1>7 DEF recv_header, queueVars
  <2>2. CASE LeaveClosing(a) /\ UNCHANGED <<chan, headless>>
    BY <1>p, <2>1, <2>2, LeavesFlow
  <2>5. CASE LeaveClosing(a) /\ UNCHANGED chan /\ headless' = [headless EXCEPT ![a] = TRUE]
    <3>1. headless'[a] /\ headless'[b] = headless[b]
      BY <1>0, <2>5 DEF TypeOK
    <3> QED
      BY <1>p, <2>1, <2>5, <3>1, LeavesFlow
  <2>3. CASE /\ headless[a] /\ pc' = [pc EXCEPT ![a] = "ioctl"]
             /\ chan' = [chan EXCEPT ![a] = Tail(@)] /\ UNCHANGED <<why, headless>>
    <3>1. pc'[a] = "ioctl" /\ pc'[b] = pc[b] /\ chan'[b] = chan[b]
      BY <1>0, <2>3 DEF TypeOK
    <3>2. Astray(a) /\ Astray(a)'
      BY <1>q, <2>1, <2>3, <3>1 DEF Astray
    <3>3. why[a] = "none"
      BY <1>p, <2>1 DEF FlowInv, Left
    <3>4. Outgoing(a, b) /\ Incoming(a) /\ Control(a) /\ Untouched(b)
      BY <1>p, <2>1, <2>3, <3>1, <3>2, <3>3 DEF Outgoing, Incoming, Control, Untouched, SilentPcs
    <3> QED
      BY <3>4, FlowStep
  <2>4. CASE /\ ~ headless[a] /\ headless' = [headless EXCEPT ![a] = TRUE]
             /\ \E p \in {"full_send", "payload"} : pc' = [pc EXCEPT ![a] = p]
             /\ UNCHANGED <<why, chan>>
    <3>1. pc'[a] \in {"full_send", "payload"} /\ pc'[b] = pc[b]
      BY <1>0, <2>4 DEF TypeOK
    <3>2. headless'[b] = headless[b] /\ ~ Astray(a)
      BY <1>0, <2>4 DEF TypeOK, Astray
    <3>3. pc[a] \notin EndedPcs /\ pc'[a] \notin EndedPcs
      BY <1>p, <2>1, <3>1
    <3>4. /\ why' = why /\ delivered' = delivered /\ chan'[a] = chan[a] /\ chan'[b] = chan[b]
          /\ sendOff' = sendOff /\ fills' = fills
      BY <2>1, <2>4
    <3> HIDE <2>4
    <3> QED
      BY <3>1, <3>2, <3>3, <3>4, GoesOnFlow
  <2> QED
    BY <1>7, <2>2, <2>3, <2>4, <2>5 DEF recv_header
<1>8. CASE full_send(a)
  <2>1. pc[a] = "full_send" /\ UNCHANGED <<headless, delivered, fills>>
    BY <1>8 DEF full_send
  <2>2. CASE send_queue_data(a, "full_ioctl")
    <3>1. /\ pc'[a] = "full_ioctl" /\ pc'[b] = pc[b] /\ why' = why
          /\ chan'[a] = chan[a] /\ sendOff'[b] = sendOff[b]
          /\ \/ sendOff'[a] = sendOff[a] /\ chan'[b] = chan[b]
             \/ sendOff[a] > 0 /\ sendOff'[a] = 0 /\ chan'[b] = Append(chan[b], sendOff[a])
      BY <1>0, <2>2, SharedFlow
    <3>2. ~ Astray(a)
      BY <2>1 DEF Astray, FullPcs
    <3> QED
      BY <1>p, <2>1, <3>1, <3>2, GoesOnFlow
  <2>3. CASE LeaveClosing(a) /\ UNCHANGED <<chan, sendOff>>
    BY <1>p, <2>1, <2>3, LeavesFlow
  <2> QED
    BY <1>8, <2>2, <2>3 DEF full_send
<1>9. CASE full_ioctl(a)
  <2>1. pc[a] = "full_ioctl" /\ TmmTouchesQueues(a) /\ UNCHANGED <<chan, headless, delivered>>
    BY <1>9 DEF full_ioctl
  <2>2. CASE LeaveClosing(a)
    BY <1>p, <2>1, <2>2, LeavesFlow
  <2>3. CASE /\ \E p \in {"ioctl", "full_send", "payload"} : pc' = [pc EXCEPT ![a] = p]
             /\ UNCHANGED why
    <3>1. pc'[a] \in {"ioctl", "full_send", "payload"} /\ pc'[b] = pc[b]
      BY <1>0, <2>3 DEF TypeOK
    <3>2. /\ sendOff'[b] = sendOff[b] /\ fills'[b] = fills[b]
          /\ \/ fills'[a] = fills[a] /\ sendOff'[a] = sendOff[a]
             \/ sendOff[a] = 0 /\ sendOff'[a] > 0 /\ fills'[a] = fills[a] + 1
      BY <1>0, <2>1, SharedFlow
    <3>3. ~ Astray(a)
      BY <2>1 DEF Astray, FullPcs
    <3> QED
      BY <1>p, <2>1, <2>3, <3>1, <3>2, <3>3, GoesOnFlow
  <2> QED
    BY <1>9, <2>2, <2>3 DEF full_ioctl, AfterFailed
<1>10. CASE recv_payload(a)
  BY <1>10, PayloadFlow
<1>12. CASE recv_payload_fails(a)
  <2>1. /\ pc[a] = "payload" /\ LeaveClosing(a)
        /\ UNCHANGED <<headless, delivered, chan, sendOff, fills>>
    BY <1>12 DEF recv_payload_fails, queueVars
  <2> QED
    BY <1>p, <2>1, LeavesFlow
<1>13. CASE send_close_notification(a)
  BY <1>13, CloseFlow
<1>11. CASE stop_all_slave_threads(a) \/ join_slaves(a) \/ cleanup_resources(a)
  <2>1. /\ pc[a] \in {"stop", "join", "cleanup"}
        /\ \E p \in {"join", "cleanup", "done"} : pc' = [pc EXCEPT ![a] = p]
        /\ UNCHANGED <<why, headless, delivered, sendOff, fills>>
    BY <1>11 DEF stop_all_slave_threads, join_slaves, cleanup_resources, queueVars
  <2>2. pc'[a] \in {"join", "cleanup", "done"} /\ pc'[b] = pc[b]
    BY <1>0, <2>1 DEF TypeOK
  <2>3. pc[a] \in SilentPcs /\ pc'[a] \in SilentPcs
    BY <2>1, <2>2 DEF EndedPcs, SilentPcs
  <2>4. chan'[b] = chan[b]
    BY <1>0, <1>11 DEF stop_all_slave_threads, join_slaves, cleanup_resources, TypeOK
  <2> QED
    BY <2>1, <2>2, <2>3, <2>4, ShutdownFlow
<1> QED
  BY <1>1, <1>2, <1>3, <1>4, <1>5, <1>6, <1>7, <1>8, <1>9, <1>10, <1>11, <1>12, <1>13 DEF io_thread

LEMMA InitFlow == Init => FlowInv
<1> SUFFICES ASSUME Init, NEW e \in Ends
             PROVE  Left(e) /\ Flowing(e, Peer(e)) /\ Closed(e, Peer(e))
  BY DEF FlowInv
<1> DEFINE d == Peer(e)
<1>1. d \in Ends
  BY PeerFacts
<1>2. /\ pc[e] = "setup" /\ why[e] = "none" /\ chan[e] = <<>> /\ delivered[e] = 0
      /\ sendOff[d] = 0 /\ fills[d] = 0
  BY <1>1 DEF Init
<1>3. Len(<<>>) = 0 /\ Data(<<>>) = 0 /\ Waiting(d) = 0
  BY <1>2, EmptySeq DEF Data, Waiting
<1>4. Tidy(<<>>) /\ NoClose(<<>>)
  BY <1>3 DEF Tidy, NoClose
<1> HIDE DEF d
<1>5. Left(e) /\ Closed(e, d)
  BY <1>2 DEF Left, Closed, EndedPcs
<1>6. Flowing(e, d)
  BY <1>2, <1>3, <1>4 DEF Flowing
<1> QED
  BY <1>5, <1>6 DEF d

LEMMA NextFlow == IInv /\ FlowInv /\ [Next]_vars => FlowInv'
<1> SUFFICES ASSUME IInv, FlowInv, [Next]_vars PROVE FlowInv'
  OBVIOUS
<1>1. ASSUME NEW e \in Ends, io_thread(e) PROVE FlowInv'
  <2>1. Peer(e) \in Ends
    BY PeerFacts
  <2> QED
    BY <1>1, <2>1, MasterFlow
<1>2. ASSUME UNCHANGED <<pc, why, headless, delivered, chan, sendOff, fills>> PROVE FlowInv'
  BY <1>2 DEF FlowInv, Left, Flowing, Closed, Astray, Waiting
<1>3. ASSUME NEW e \in Ends, NEW i \in Slaves, slave_io_thread(e, i) PROVE FlowInv'
  <2>1. UNCHANGED <<pc, why, headless, delivered, chan, sendOff, fills>>
    BY <1>3 DEF slave_io_thread, slave_wakes, slave_calls, slave_dies, queueVars
  <2> QED
    BY <1>2, <2>1
<1>4. CASE UNCHANGED vars
  <2>1. UNCHANGED <<pc, why, headless, delivered, chan, sendOff, fills>>
    BY <1>4 DEF vars
  <2> QED
    BY <1>2, <2>1
<1> QED
  BY <1>1, <1>3, <1>4 DEF Next

\* A session that ends with a received close notification has delivered every
\* frame the TMM of the peer produced (handle_recv_event, send_queue_data),
\* but for one that still waits in the peer's send queue.
THEOREM CloseAfterDataHolds == Spec => []CloseAfterData
<1>1. IInv /\ FlowInv => CloseAfterData
  <2> SUFFICES ASSUME IInv, FlowInv, NEW e \in Ends, why[e] = "close_req"
               PROVE  delivered[e] + (IF sendOff[Peer(e)] > 0 THEN 1 ELSE 0) = fills[Peer(e)]
    BY DEF CloseAfterData
  <2>1. fills[Peer(e)] = delivered[e] + Waiting(Peer(e))
    BY DEF FlowInv, Closed
  <2> QED
    BY <2>1 DEF Waiting
<1> QED
  BY <1>1, InitIInv, NextIInv, InitFlow, NextFlow, PTL DEF Spec
=============================================================================
