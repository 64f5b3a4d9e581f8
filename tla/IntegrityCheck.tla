---------------------------- MODULE IntegrityCheck ----------------------------
(***************************************************************************)
(* The memory-integrity session of a live migration: io_thread and its     *)
(* slave threads at the two ends of one established TLS session.           *)
(*                                                                         *)
(* The code exists twice, in virtcca-mig-agent (variant "host", TMI device *)
(* /dev/tmi) and in migcvm-agent (variant "guest", TSI device /dev/tsi);   *)
(* both ends of a session run the same variant.  The client end runs next  *)
(* to the source VM, the server end next to the destination VM.            *)
(*                                                                         *)
(* Each end shares two linear queues with the TMM (external).  The TMM     *)
(* acts only inside the checksum ioctl: it may fill the send queue, drain  *)
(* the receive queue, and it returns one of the TSI codes.                 *)
(***************************************************************************)
EXTENDS Naturals, Sequences

CONSTANTS QSize,       \* QUEUE_SIZE, in units of sizeof(uint64_t)
          Fills,       \* the amounts of data the TMM may put in a send queue
          ChanCap,     \* frames the TLS/TCP buffers of one direction hold
          MaxFills,    \* bound: how often the TMM fills the send queue of each end
          MaxNotify,   \* bound: how often the TMM returns TSI_NOTIFY to an end
          Slaves,      \* the slave threads ...
          SlavesOf     \* ... and those of each end (SLAVE_THREAD_NUM of them)

ASSUME ICAssumption ==
    /\ QSize \in Nat /\ QSize > 1
    /\ Fills \subseteq 1 .. QSize
    /\ ChanCap \in Nat \ {0}
    /\ MaxFills \in [{"client", "server"} -> Nat] /\ MaxNotify \in Nat
    /\ SlavesOf \in [{"client", "server"} -> SUBSET Slaves]

Ends == {"client", "server"}
Peer(e) == IF e = "client" THEN "server" ELSE "client"
Variants == {"host", "guest"}

\* TSI_ERROR_STATE is nowhere told apart from TSI_INCOMPLETE.
TsiRet == {"SUCCESS", "ERROR_INPUT", "INCOMPLETE", "ERROR_FAILED", "NOTIFY"}

\* A frame on the wire is a length header and that many units of data; frame 0
\* stands for the close notification, whose payload is CLOSE_LENGTH bytes.
HdrLen == 1
CLOSE_NOTIFY == 0
CLOSE_LENGTH == 1
Frames == 0 .. QSize
FrameLen(f) == IF f = CLOSE_NOTIFY THEN CLOSE_LENGTH ELSE f

FullPcs == {"full_send", "full_ioctl"}
EndedPcs == {"close", "stop", "join", "cleanup", "done", "crashed"}
Pcs == {"setup", "ioctl", "send", "poll", "payload"} \cup FullPcs \cup EndedPcs
SlavePcs == {"none", "wait", "call", "exited"}

\* Why an end left its loop: on the peer's close notification, or on a TSI code,
\* a failed read or write, a hang-up, a bad length or an exactly full queue.
Reasons == {"none", "close_req", "other"}

VARIABLES
    variant,     \* which of the two programs runs the session
    pc,          \* control point of each end's io_thread
    why,         \* why an end left its loop
    lastRet,     \* handle_recv_event's ret_val / tsi_ret
    sendOff,     \* *send_offset: units waiting in the send queue
    recvOff,     \* *recv_offset: units in the receive queue
    chan,        \* chan[e]: the frames travelling to end e
    headless,    \* the header of the frame at the head of chan[e] is gone
    open,        \* the end's socket is not closed
    slavePc,     \* control point of each slave thread
    sem,         \* its wake_sem
    slaveOk,     \* its local variable ret is TSI_SUCCESS
    shouldExit,  \* ctx->should_exit
    cancelled,   \* pthread_timedjoin_np gave up on the slave
    delivered,   \* data frames end e has put in its receive queue
    fills, notifies

vars == <<variant, pc, why, lastRet, sendOff, recvOff, chan, headless, open,
          slavePc, sem, slaveOk, shouldExit, cancelled, delivered, fills,
          notifies>>
slaveVars == <<slavePc, sem, slaveOk, cancelled>>
queueVars == <<sendOff, recvOff, fills>>

TypeOK ==
    /\ variant \in Variants
    /\ pc \in [Ends -> Pcs]
    /\ why \in [Ends -> Reasons]
    /\ lastRet \in [Ends -> TsiRet]
    /\ sendOff \in [Ends -> 0 .. QSize]
    /\ recvOff \in [Ends -> 0 .. QSize]
    /\ chan \in [Ends -> Seq(Frames)]
    /\ headless \in [Ends -> BOOLEAN]
    /\ open \in [Ends -> BOOLEAN]
    /\ slavePc \in [Ends -> [Slaves -> SlavePcs]]
    /\ sem \in [Ends -> [Slaves -> Nat]]
    /\ slaveOk \in [Ends -> [Slaves -> BOOLEAN]]
    /\ shouldExit \in [Ends -> BOOLEAN]
    /\ cancelled \in [Ends -> [Slaves -> BOOLEAN]]
    /\ delivered \in [Ends -> Nat]
    /\ fills \in [Ends -> Nat] /\ \A e \in Ends : fills[e] <= MaxFills[e]
    /\ notifies \in [Ends -> 0 .. MaxNotify]

Init ==
    /\ variant \in Variants
    /\ pc = [e \in Ends |-> "setup"]
    /\ why = [e \in Ends |-> "none"]
    /\ lastRet = [e \in Ends |-> "INCOMPLETE"]
    /\ sendOff = [e \in Ends |-> 0]
    /\ recvOff = [e \in Ends |-> 0]
    /\ chan = [e \in Ends |-> <<>>]
    /\ headless = [e \in Ends |-> FALSE]
    /\ open = [e \in Ends |-> TRUE]
    /\ slavePc = [e \in Ends |-> [i \in Slaves |-> "none"]]
    /\ sem = [e \in Ends |-> [i \in Slaves |-> 0]]
    /\ slaveOk = [e \in Ends |-> [i \in Slaves |-> FALSE]]
    /\ shouldExit = [e \in Ends |-> FALSE]
    /\ cancelled = [e \in Ends |-> [i \in Slaves |-> FALSE]]
    /\ delivered = [e \in Ends |-> 0]
    /\ fills = [e \in Ends |-> 0]
    /\ notifies = [e \in Ends |-> 0]

-----------------------------------------------------------------------------
(* The queues. *)

is_recv_queue_fullOffByOne(used, len) == len > QSize - used + HdrLen
is_recv_queue_full(used, len) == len > QSize - used

\* enqueue_recv_data stores the data and then reports -1 when the queue has
\* become exactly full.
enqueue_recv_data_fails(used, len) == used + len >= QSize

\* handle_recv_event refuses lengths above QUEUE_SIZE - sizeof(uint64_t),
\* send_queue_data only those above QUEUE_SIZE.
recv_len_invalid(len) == len > QSize - HdrLen
send_len_invalid(len) == len > QSize

\* External: the checksum call lets the TMM drain the receive queue of end e
\* and put data in its empty send queue.
TmmTouchesQueues(e) ==
    /\ \E r \in {0, recvOff[e]} : recvOff' = [recvOff EXCEPT ![e] = r]
    /\ \/ UNCHANGED <<sendOff, fills>>
       \/ /\ sendOff[e] = 0 /\ fills[e] < MaxFills[e]
          /\ \E n \in Fills : sendOff' = [sendOff EXCEPT ![e] = n]
          /\ fills' = [fills EXCEPT ![e] = @ + 1]

\* Leaving the loop, at once or by way of a close notification.
Leave(e, reason) ==
    /\ pc' = [pc EXCEPT ![e] = "stop"]
    /\ why' = [why EXCEPT ![e] = reason]
LeaveClosing(e) ==
    /\ pc' = [pc EXCEPT ![e] = "close"]
    /\ why' = [why EXCEPT ![e] = "other"]

\* The notification waits for room in the connection like any frame; it is lost
\* when the peer is gone.
send_close_notification(e) ==
    /\ pc[e] = "close"
    /\ \/ ~open[Peer(e)] /\ UNCHANGED chan
       \/ /\ open[Peer(e)] /\ Len(chan[Peer(e)]) < ChanCap
          /\ chan' = [chan EXCEPT ![Peer(e)] = Append(@, CLOSE_NOTIFY)]
    /\ pc' = [pc EXCEPT ![e] = "stop"]
    /\ UNCHANGED <<variant, why, lastRet, queueVars, headless, open, slaveVars,
                   shouldExit, notifies, delivered>>

\* The codes at which io_thread ends the session of end e.
EndsSession(e, rv) ==
    \/ e = "client" /\ rv \in {"ERROR_FAILED", "SUCCESS"}
    \/ rv = "ERROR_INPUT"

\* handle_recv_event came back with TSI_ERROR_FAILED and the payload unread:
\* the client ends the session, the server goes on with its main loop.
AfterFailedGoesOn(e) ==
    pc' = [pc EXCEPT ![e] = "ioctl"] /\ UNCHANGED why
AfterFailed(e) ==
    IF e = "client" THEN LeaveClosing(e)
    ELSE pc' = [pc EXCEPT ![e] = "ioctl"] /\ UNCHANGED why

-----------------------------------------------------------------------------
(* Slave threads. *)

Created(e) == {i \in Slaves : slavePc[e][i] # "none"}

notify_all_slave_thread(e) ==
    sem' = [sem EXCEPT ![e] = [i \in Slaves |->
               IF i \in Created(e) THEN @[i] + 1 ELSE @[i]]]

\* A wake-up is consumed.  In the guest ret is reset for every wake-up; in the
\* host agent it keeps its value, so a slave that once succeeded only goes back
\* to waiting.
slave_wakes(e, i) ==
    /\ slavePc[e][i] = "wait" /\ sem[e][i] > 0
    /\ sem' = [sem EXCEPT ![e][i] = @ - 1]
    /\ LET skip == variant = "host" /\ slaveOk[e][i]
       IN  slavePc' = [slavePc EXCEPT ![e][i] =
                         IF ~skip THEN "call"
                         ELSE IF shouldExit[e] THEN "exited" ELSE "wait"]
    /\ UNCHANGED <<variant, pc, why, lastRet, queueVars, chan, headless, open,
                   slaveOk, shouldExit, cancelled, notifies, delivered>>

\* One checksum call of slave i.  In the host agent ret is the status of the
\* ioctl, in the guest it is the TSI code: the guest repeats the call until
\* TSI_SUCCESS.  Neither looks at should_exit between two calls.
slave_calls(e, i) ==
    /\ slavePc[e][i] = "call"
    /\ \E rv \in TsiRet, status \in BOOLEAN :
         LET bad  == rv \in {"ERROR_INPUT", "ERROR_FAILED"}
             ok   == IF variant = "host" THEN status ELSE rv = "SUCCESS"
             exit == shouldExit[e] \/ bad
         IN  /\ slaveOk' = [slaveOk EXCEPT ![e][i] = ok]
             /\ shouldExit' = [shouldExit EXCEPT ![e] = exit]
             /\ slavePc' = [slavePc EXCEPT ![e][i] =
                              IF ~(ok \/ bad) THEN "call"
                              ELSE IF exit THEN "exited" ELSE "wait"]
    /\ UNCHANGED <<variant, pc, why, lastRet, queueVars, chan, headless, open,
                   sem, cancelled, notifies, delivered>>

-----------------------------------------------------------------------------
(* The master thread. *)

\* Queue, mappings, device, epoll and all slaves are there.  ret of a host
\* slave is an uninitialised local; a guest slave ends at once when its CPU
\* affinity cannot be set.
setup_done(e) ==
    /\ pc[e] = "setup"
    /\ pc' = [pc EXCEPT ![e] = "ioctl"]
    /\ \E ok \in SUBSET SlavesOf[e] : \E gone \in SUBSET SlavesOf[e] :
         /\ variant = "guest" => ok = {}
         /\ variant = "host" => gone = {}
         /\ slaveOk' = [slaveOk EXCEPT ![e] = [i \in Slaves |-> i \in ok]]
         /\ slavePc' = [slavePc EXCEPT ![e] = [i \in Slaves |->
                          IF i \notin SlavesOf[e] THEN "none"
                          ELSE IF i \in gone THEN "exited" ELSE "wait"]]
    /\ UNCHANGED <<variant, why, lastRet, queueVars, chan, headless, open, sem,
                   shouldExit, cancelled, notifies, delivered>>

\* A step of the setup fails.  The host's cleanup frees virtcca_client_ctx,
\* which is uninitialised when the failure came before tmi_new_ctx: the process
\* may die there.
setup_fails(e) ==
    /\ pc[e] = "setup"
    /\ \/ Leave(e, "other") /\ UNCHANGED open
       \/ /\ variant = "host"
          /\ pc' = [pc EXCEPT ![e] = "crashed"]
          /\ why' = [why EXCEPT ![e] = "other"]
          /\ open' = [open EXCEPT ![e] = FALSE]
    /\ UNCHANGED <<variant, lastRet, queueVars, chan, headless, slaveVars,
                   shouldExit, notifies, delivered>>

\* The checksum call of the main loop.
master_ioctl(e) ==
    /\ pc[e] = "ioctl"
    /\ TmmTouchesQueues(e)
    /\ \E rv \in TsiRet :
         /\ rv = "NOTIFY" => notifies[e] < MaxNotify
         /\ notifies' = [notifies EXCEPT ![e] = IF rv = "NOTIFY" THEN @ + 1 ELSE @]
         /\ IF EndsSession(e, rv)
            THEN LeaveClosing(e) /\ UNCHANGED sem
            ELSE /\ pc' = [pc EXCEPT ![e] = "send"]
                 /\ IF rv = "NOTIFY" THEN notify_all_slave_thread(e)
                    ELSE UNCHANGED sem
                 /\ UNCHANGED why
    /\ UNCHANGED <<variant, lastRet, chan, headless, open, slavePc, slaveOk,
                   shouldExit, cancelled, delivered>>

send_queue_dataDropping(e, next) ==
    /\ pc' = [pc EXCEPT ![e] = next]
    /\ chan' = IF sendOff[e] > 0 /\ Len(chan[Peer(e)]) < ChanCap
               THEN [chan EXCEPT ![Peer(e)] = Append(@, sendOff[e])] ELSE chan
    /\ sendOff' = [sendOff EXCEPT ![e] = 0]
    /\ UNCHANGED why

\* send_queue_data: the whole queue as one frame.  The write blocks while the
\* peer does not read and fails once the peer is gone.
send_queue_data(e, next) ==
    \/ /\ sendOff[e] = 0
       /\ pc' = [pc EXCEPT ![e] = next]
       /\ UNCHANGED <<why, chan, sendOff>>
    \/ /\ sendOff[e] > 0 /\ ~send_len_invalid(sendOff[e])
       /\ open[Peer(e)] /\ Len(chan[Peer(e)]) < ChanCap
       /\ chan' = [chan EXCEPT ![Peer(e)] = Append(@, sendOff[e])]
       /\ sendOff' = [sendOff EXCEPT ![e] = 0]
       /\ pc' = [pc EXCEPT ![e] = next]
       /\ UNCHANGED why

\* The end waits for its peer to read before it can write a frame or its close
\* notification.
SendBlocked(e) ==
    /\ (pc[e] \in {"send", "full_send"} /\ sendOff[e] > 0) \/ pc[e] = "close"
    /\ open[Peer(e)] /\ Len(chan[Peer(e)]) >= ChanCap

handle_send_event(e) ==
    /\ pc[e] = "send"
    /\ \/ send_queue_data(e, "poll")
       \/ /\ sendOff[e] > 0 /\ ~open[Peer(e)]
          /\ Leave(e, "other")
          /\ UNCHANGED <<chan, sendOff>>
    /\ UNCHANGED <<variant, lastRet, recvOff, fills, headless, open, slaveVars,
                   shouldExit, notifies, delivered>>

poll_nothingEager(e) ==
    /\ pc[e] = "poll" /\ open[Peer(e)]
    /\ pc' = [pc EXCEPT ![e] = "ioctl"]
    /\ UNCHANGED <<variant, why, lastRet, queueVars, chan, headless, open,
                   slaveVars, shouldExit, notifies, delivered>>

\* epoll_wait reports nothing, or an error or hang-up of a closed peer, which
\* is looked at before any data that is still to be read.
poll_nothing(e) ==
    /\ pc[e] = "poll" /\ chan[e] = <<>> /\ open[Peer(e)]
    /\ pc' = [pc EXCEPT ![e] = "ioctl"]
    /\ UNCHANGED <<variant, why, lastRet, queueVars, chan, headless, open,
                   slaveVars, shouldExit, notifies, delivered>>

poll_hangup(e) ==
    /\ pc[e] = "poll" /\ ~open[Peer(e)]
    /\ Leave(e, "other")
    /\ UNCHANGED <<variant, lastRet, queueVars, chan, headless, open, slaveVars,
                   shouldExit, notifies, delivered>>

\* handle_recv_event reads a length.  At the end of the stream, or for a length
\* it refuses, it returns -1.  The bytes of a payload whose header is gone
\* are taken for a length: it is refused, or the stream stays misread.
recv_header(e) ==
    /\ pc[e] = "poll"
    /\ \/ /\ \/ chan[e] = <<>> /\ ~open[Peer(e)]
             \/ chan[e] # <<>> /\ headless[e]
          /\ LeaveClosing(e)
          /\ UNCHANGED <<chan, headless, lastRet>>
       \/ /\ chan[e] # <<>> /\ headless[e]
          /\ pc' = [pc EXCEPT ![e] = "ioctl"]
          /\ chan' = [chan EXCEPT ![e] = Tail(@)]
          /\ UNCHANGED <<why, headless, lastRet>>
       \/ /\ chan[e] # <<>> /\ ~headless[e]
          /\ recv_len_invalid(FrameLen(Head(chan[e])))
          /\ LeaveClosing(e)
          /\ headless' = [headless EXCEPT ![e] = TRUE]
          /\ UNCHANGED <<chan, lastRet>>
       \/ /\ chan[e] # <<>> /\ ~headless[e]
          /\ ~recv_len_invalid(FrameLen(Head(chan[e])))
          /\ headless' = [headless EXCEPT ![e] = TRUE]
          /\ lastRet' = [lastRet EXCEPT ![e] = "INCOMPLETE"]
          /\ pc' = [pc EXCEPT ![e] =
                      IF is_recv_queue_full(recvOff[e], FrameLen(Head(chan[e])))
                      THEN "full_send" ELSE "payload"]
          /\ UNCHANGED <<why, chan>>
    /\ UNCHANGED <<variant, queueVars, open, slaveVars, shouldExit, notifies, delivered>>

\* The loop of handle_recv_event while the receive queue has no room: what
\* waits is sent, then the TMM is called.
full_send(e) ==
    /\ pc[e] = "full_send"
    /\ \/ send_queue_data(e, "full_ioctl")
       \/ /\ sendOff[e] > 0 /\ ~open[Peer(e)]
          /\ LeaveClosing(e)
          /\ UNCHANGED <<chan, sendOff>>
    /\ UNCHANGED <<variant, lastRet, recvOff, fills, headless, open, slaveVars,
                   shouldExit, notifies, delivered>>

\* Only TSI_ERROR_FAILED leaves the loop early, with the payload still unread.
full_ioctl(e) ==
    /\ pc[e] = "full_ioctl"
    /\ TmmTouchesQueues(e)
    /\ \E rv \in TsiRet :
         /\ rv = "NOTIFY" => notifies[e] < MaxNotify
         /\ notifies' = [notifies EXCEPT ![e] = IF rv = "NOTIFY" THEN @ + 1 ELSE @]
         /\ lastRet' = [lastRet EXCEPT ![e] = rv]
         /\ \/ rv = "ERROR_FAILED" /\ AfterFailed(e)
            \/ /\ rv # "ERROR_FAILED"
               /\ pc' = [pc EXCEPT ![e] =
                    IF is_recv_queue_full(recvOff'[e], FrameLen(Head(chan[e])))
                    THEN "full_send" ELSE "payload"]
               /\ UNCHANGED why
    /\ UNCHANGED <<variant, chan, headless, open, slaveVars, shouldExit, delivered>>

\* malloc or the read of the payload fails.
recv_payload_fails(e) ==
    /\ pc[e] = "payload"
    /\ LeaveClosing(e)
    /\ UNCHANGED <<variant, lastRet, queueVars, chan, headless, open, slaveVars,
                   shouldExit, notifies, delivered>>

\* The payload is read and either ends the session, or is put in the queue and
\* the last TSI code is acted upon.
recv_payload(e) ==
    /\ pc[e] = "payload"
    /\ headless' = [headless EXCEPT ![e] = FALSE]
    /\ chan' = [chan EXCEPT ![e] = Tail(@)]
    /\ LET f    == Head(chan[e])
           full == enqueue_recv_data_fails(recvOff[e], f)
       IN  \/ /\ f = CLOSE_NOTIFY
              /\ Leave(e, "close_req") /\ UNCHANGED <<recvOff, sem, delivered>>
           \/ /\ f # CLOSE_NOTIFY
              /\ recvOff' = [recvOff EXCEPT ![e] = @ + f]
              /\ delivered' = [delivered EXCEPT ![e] = @ + 1]
              /\ IF full \/ EndsSession(e, lastRet[e])
                 THEN LeaveClosing(e) /\ UNCHANGED sem
                 ELSE /\ pc' = [pc EXCEPT ![e] = "ioctl"]
                      /\ IF lastRet[e] = "NOTIFY" THEN notify_all_slave_thread(e)
                         ELSE UNCHANGED sem
                      /\ UNCHANGED why
    /\ lastRet' = [lastRet EXCEPT ![e] = "INCOMPLETE"]
    /\ UNCHANGED <<variant, sendOff, fills, open, slavePc, slaveOk, shouldExit,
                   cancelled, notifies>>

-----------------------------------------------------------------------------
(* Shutdown. *)

stop_all_slave_threadsNoPost(e) ==
    /\ pc[e] = "stop"
    /\ pc' = [pc EXCEPT ![e] = "cleanup"]
    /\ shouldExit' = [shouldExit EXCEPT ![e] = TRUE]
    /\ UNCHANGED <<variant, why, lastRet, queueVars, chan, headless, open,
                   slaveVars, notifies, delivered>>

\* stop_all_slave_threads posts every slave ...
stop_all_slave_threads(e) ==
    /\ pc[e] = "stop"
    /\ pc' = [pc EXCEPT ![e] = "join"]
    /\ shouldExit' = [shouldExit EXCEPT ![e] = TRUE]
    /\ notify_all_slave_thread(e)
    /\ UNCHANGED <<variant, why, lastRet, queueVars, chan, headless, open,
                   slavePc, slaveOk, cancelled, notifies, delivered>>

\* ... and waits SLAVE_QUIT_TIME_S for them; one that has not ended is
\* cancelled, which is not waited for, and its semaphore destroyed.
join_slaves(e) ==
    /\ pc[e] = "join"
    /\ pc' = [pc EXCEPT ![e] = "cleanup"]
    /\ cancelled' = [cancelled EXCEPT ![e] =
                       [i \in Slaves |-> slavePc[e][i] \notin {"none", "exited"}]]
    /\ UNCHANGED <<variant, why, lastRet, queueVars, chan, headless, open,
                   slavePc, sem, slaveOk, shouldExit, notifies, delivered>>

cleanup_resourcesKeepsSocket(e) ==
    /\ pc[e] = "cleanup"
    /\ pc' = [pc EXCEPT ![e] = "done"]
    /\ UNCHANGED <<variant, why, lastRet, queueVars, chan, headless, open,
                   slaveVars, shouldExit, delivered, notifies>>

\* cleanup_resources: queues unmapped, devices and sockets closed.
cleanup_resources(e) ==
    /\ pc[e] = "cleanup"
    /\ pc' = [pc EXCEPT ![e] = "done"]
    /\ open' = [open EXCEPT ![e] = FALSE]
    /\ chan' = [chan EXCEPT ![e] = <<>>]
    /\ UNCHANGED <<variant, why, lastRet, queueVars, headless, slaveVars,
                   shouldExit, delivered, notifies>>

\* sem_wait is a cancellation point, the ioctl is not.
slave_dies(e, i) ==
    /\ cancelled[e][i] /\ slavePc[e][i] = "wait"
    /\ slavePc' = [slavePc EXCEPT ![e][i] = "exited"]
    /\ UNCHANGED <<variant, pc, why, lastRet, queueVars, chan, headless, open,
                   sem, slaveOk, shouldExit, cancelled, notifies, delivered>>

-----------------------------------------------------------------------------
io_thread(e) ==
    \/ setup_done(e) \/ setup_fails(e)
    \/ master_ioctl(e) \/ handle_send_event(e)
    \/ poll_nothing(e) \/ poll_hangup(e)
    \/ recv_header(e) \/ full_send(e) \/ full_ioctl(e)
    \/ recv_payload_fails(e) \/ recv_payload(e) \/ send_close_notification(e)
    \/ stop_all_slave_threads(e) \/ join_slaves(e) \/ cleanup_resources(e)

slave_io_thread(e, i) ==
    slave_wakes(e, i) \/ slave_calls(e, i) \/ slave_dies(e, i)

Next == \E e \in Ends : io_thread(e) \/ \E i \in Slaves : slave_io_thread(e, i)

Spec == Init /\ [][Next]_vars

\* Every thread that can run does run; nothing is assumed of the TMM.
FairSpec ==
    Spec /\ \A e \in Ends : /\ WF_vars(io_thread(e))
                            /\ \A i \in Slaves : WF_vars(slave_io_thread(e, i))

-----------------------------------------------------------------------------
(* Properties. *)

\* When handle_recv_event copies a payload, the room that the full-queue loop
\* established before the (blocking) read is still there, so the memcpy of
\* enqueue_recv_data stays inside the shared queue.
RoomWhenCopied ==
    \A e \in Ends : (pc[e] = "payload" /\ chan[e] # <<>>) =>
        recvOff[e] + FrameLen(Head(chan[e])) <= QSize

\* An end that is back in io_thread's main loop is at a frame boundary of its
\* stream, except a server whose TMM reported TSI_ERROR_FAILED in the full-queue
\* loop: handle_recv_event then returns with the payload unread and the server
\* goes on.
FramingKept ==
    \A e \in Ends : (pc[e] \in {"ioctl", "send", "poll"} /\ headless[e]) =>
        e = "server" /\ lastRet[e] = "ERROR_FAILED"

\* A session that ends with a received close notification has delivered every
\* frame the peer's TMM produced, but for one the peer never sent because its
\* last checksum call ended the session.  (An end that misreads its stream is
\* not taken to find a close notification in it.)
CloseAfterData ==
    \A e \in Ends : why[e] = "close_req" =>
        delivered[e] + (IF sendOff[Peer(e)] > 0 THEN 1 ELSE 0) = fills[Peer(e)]

\* Both ends blocked in a write, of data or of the close notification, each
\* waiting for the other to read, happens only when one of them holds a frame of
\* which it has read the length and not the payload: in the full-queue loop of
\* handle_recv_event, or after that function gave up on the frame.  The main loop
\* alone, which reads after each write, cannot lock up.
MutualBlockOnlyMidFrame ==
    (\A e \in Ends : SendBlocked(e)) => \E e \in Ends : headless[e]

\* When one end has finished, the other finishes too (close notification, end
\* of stream, hang-up or failed write), unless it spins for ever in the
\* full-queue loop, which looks at neither the socket nor TSI_ERROR_INPUT.
PeerEnds ==
    \A e \in Ends : (pc[e] = "done") ~>
        (pc[Peer(e)] \in {"done", "crashed"} \/ [](pc[Peer(e)] \in FullPcs))

\* Once an end has cleaned up, its slave threads end as well, by should_exit or
\* by cancellation, except one that keeps repeating a checksum call that does
\* not succeed.
SlavesEnd ==
    \A e \in Ends : (pc[e] = "done") ~>
        ((\A i \in Slaves : slavePc[e][i] \in {"none", "exited"})
         \/ [](\E i \in Slaves : slavePc[e][i] = "call" /\ ~slaveOk[e][i]))
=============================================================================
