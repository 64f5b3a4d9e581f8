----------------------------- MODULE AttestSession -----------------------------
(***************************************************************************)
(* One attestation session between a verifying client and the server of    *)
(* the confidential VM it verifies, message by message, for the two        *)
(* protocols of the repository:                                            *)
(*                                                                         *)
(*  "rats"     rats_tls_client_startup and deal_client_req of              *)
(*             migcvm-agent, over TLS records.  The options are the fields *)
(*             of mig_agent_args (mig_agent_init leaves them off, so the   *)
(*             agent itself only exchanges the migration session key).     *)
(*  "samples"  handle_connect of attestation/samples client.c and          *)
(*             server.c, over a plain TCP stream.                          *)
(*                                                                         *)
(* A chunk is what one receive can return: a message, or, where the        *)
(* receiver's buffer or TCP splits it, its head and its tail.  What the    *)
(* client verifies is module Verifier; here it passes or fails.            *)
(***************************************************************************)
EXTENDS Naturals, Sequences

CONSTANTS Options,   \* the sets of options a session may be run with
          ImaFiles,  \* the server's IMA log: "absent", "empty", "ok" or "big"
          LogFiles,  \* the server's CCEL event log, likewise
          KeyFiles   \* the client's rootfs key file: "absent", "ok" or "long" (> MAX)

ASSUME ASAssumption ==
    /\ Options \subseteq SUBSET {"ima", "firmware", "dump", "fde"}
    /\ ImaFiles \subseteq {"absent", "empty", "ok", "big"}
    /\ LogFiles \subseteq {"absent", "empty", "ok", "big"}
    /\ KeyFiles \subseteq {"absent", "ok", "long"}

Variants == {"rats", "samples"}
Parts == {"whole", "head", "tail"}
Chunk(m) == <<m, "whole">>
NoKey == Chunk("none")
Halves(m) == << <<m, "head">>, <<m, "tail">> >>

\* The requests of the samples protocol (enum MSG_ID); "unknown" is any other value.
SampleIds == {"DEVICE_CERT", "ATTEST", "CCEL_TABLE", "EVENT_LOG",
              "SUCCESS", "FAILED", "REM", "USE_FDE", "unknown"}
Msgs == SampleIds \cup {"REQUEST_IMA", "ENABLE_FDE", "MSK_SEND", "MSK_ACK", "REFUSED",
    "cert", "token", "table", "size", "ima", "log", "key", "package", "frame"}

RecvPcs == {"ima_size", "ima_data", "table", "log_size", "log_data", "reply", "cert", "token"}
SendPcs == {"ima", "firmware", "fde", "msk", "start"}
CPcs == RecvPcs \cup SendPcs \cup {"verify", "session", "done"}
SPcs == {"start", "recv", "key", "package", "fde_info", "session", "done"}
Rets == {"none", "ok", "error"}

VARIABLES
    variant, opt, ima, log, keyfile,  \* the program, its options and the files on both sides
    oldLog,     \* an event log saved by an earlier verification of this peer matches its REMs
    cpc, spc,   \* control points; "done" has closed the connection
    c2s, s2c,   \* chunks sent and not yet received
    msgId,      \* server.c handle_connect: msg_id, kept over a failed read
    got,        \* what the client took for the token, the table and the event log
    verified,   \* the client's verification passed
    pkgSent,    \* the client transmitted the migration key package
    cRet, sRet, \* what the two sides return
    rootKey,    \* what the server saved as the rootfs key
    slot        \* the server's migration slot is SLOT_IS_READY

world == <<variant, opt, ima, log, keyfile, oldLog>>
client == <<cpc, got, verified, pkgSent, cRet>>
server == <<spc, msgId, sRet, rootKey, slot>>
vars == <<world, client, server, c2s, s2c>>

TypeOK ==
    /\ variant \in Variants /\ opt \in Options
    /\ ima \in ImaFiles /\ log \in LogFiles /\ keyfile \in KeyFiles /\ oldLog \in BOOLEAN
    /\ cpc \in CPcs /\ spc \in SPcs
    /\ c2s \in Seq(Msgs \X Parts) /\ s2c \in Seq(Msgs \X Parts)
    /\ msgId \in SampleIds \cup {"uninitialised"}
    /\ got \in [token : Parts \cup {"none"}, log : {"none", "old", "new"}]
    /\ verified \in BOOLEAN /\ pkgSent \in BOOLEAN /\ slot \in BOOLEAN
    /\ cRet \in Rets /\ sRet \in Rets
    /\ rootKey = NoKey \/ rootKey \in Msgs \X Parts

Init ==
    /\ variant \in Variants /\ opt \in Options
    /\ ima \in ImaFiles /\ log \in LogFiles /\ keyfile \in KeyFiles /\ oldLog \in BOOLEAN
    /\ ~ {"firmware", "dump"} \subseteq opt
    /\ variant = "samples" => "ima" \notin opt
    /\ cpc = IF variant = "rats" THEN "ima" ELSE "start"
    /\ spc = IF variant = "rats" THEN "recv" ELSE "start"
    /\ c2s = <<>> /\ s2c = <<>>
    /\ msgId = "uninitialised"
    /\ got = [token |-> "none", log |-> IF oldLog THEN "old" ELSE "none"]
    /\ verified = FALSE /\ pkgSent = FALSE /\ slot = FALSE
    /\ cRet = "none" /\ sRet = "none" /\ rootKey = NoKey

WantsFirmware == opt \cap {"firmware", "dump"} # {}

\* A write to a connection the peer has closed is lost (or fails: see write_fails).
ToServer(chunks) == c2s' = IF spc = "done" THEN c2s ELSE c2s \o chunks
ToClient(chunks) == s2c' = IF cpc = "done" THEN s2c ELSE s2c \o chunks

\* Close the connection and return.
ClientEnds(ret) == cpc' = "done" /\ cRet' = ret
ServerEnds(ret) == spc' = "done" /\ sRet' = ret

Kept(e) == IF e = "client" THEN UNCHANGED <<got, verified, pkgSent>>
                           ELSE UNCHANGED <<msgId, rootKey, slot>>
---------------------------------------------------------------------------
(* The rats-tls client.                                                    *)

\* deal_ima: ask for the IMA log when a digest file is given.
deal_ima ==
    /\ cpc = "ima"
    /\ IF "ima" \in opt THEN cpc' = "ima_size" /\ ToServer(<<Chunk("REQUEST_IMA")>>)
                        ELSE cpc' = "firmware" /\ UNCHANGED c2s
    /\ UNCHANGED <<world, server, s2c, cRet>> /\ Kept("client")

\* A receive that finds the connection closed (or a failed write of what it received).
client_receive_fails ==
    /\ variant = "rats" /\ cpc \in RecvPcs /\ s2c = <<>> /\ spc = "done"
    /\ ClientEnds("error")
    /\ UNCHANGED <<world, server, c2s, s2c>> /\ Kept("client")

\* verify_ima_log: the size is received first; 0 or more than MAX_IMA_LOG_SIZE is an error.
ima_log_size ==
    /\ cpc = "ima_size" /\ s2c # <<>>
    /\ s2c' = Tail(s2c)
    /\ IF ima = "big" THEN ClientEnds("error") ELSE cpc' = "ima_data" /\ UNCHANGED cRet
    /\ UNCHANGED <<world, server, c2s>> /\ Kept("client")

\* verify_ima_log: receive until the log is complete, save it and verify it.
ima_log_data ==
    /\ cpc = "ima_data" /\ s2c # <<>>
    /\ s2c' = Tail(s2c)
    /\ (cpc' = "firmware" /\ UNCHANGED cRet) \/ ClientEnds("error")
    /\ UNCHANGED <<world, server, c2s>> /\ Kept("client")

\* request_and_save_firmware_data, up to the request of the CCEL table.
request_table ==
    /\ cpc = "firmware"
    /\ IF WantsFirmware THEN cpc' = "table" /\ ToServer(<<Chunk("CCEL_TABLE")>>)
                        ELSE cpc' = "fde" /\ verified' = TRUE /\ UNCHANGED c2s
    /\ WantsFirmware => UNCHANGED verified
    /\ UNCHANGED <<world, server, s2c, cRet, got, pkgSent>>

\* ... the table is received and saved, the event log requested ...
receive_table ==
    /\ variant = "rats" /\ cpc = "table" /\ s2c # <<>>
    /\ s2c' = Tail(s2c)
    /\ \/ cpc' = "log_size" /\ ToServer(<<Chunk("EVENT_LOG")>>) /\ UNCHANGED cRet
       \/ ClientEnds("error") /\ UNCHANGED c2s     \* the file cannot be written
    /\ UNCHANGED <<world, server>> /\ Kept("client")

\* Mutant: the largest log the code accepts is refused as well.
LogSizeRefusedAtLimit == log \in {"empty", "ok", "big"}

\* ... its size received: a size of 0 or above MAX_LOG returns ret, which is 0 ...
LogSizeRefused == log \in {"empty", "big"}

receive_log_size ==
    /\ variant = "rats" /\ cpc = "log_size" /\ s2c # <<>>
    /\ s2c' = Tail(s2c)
    /\ cpc' = IF LogSizeRefused THEN "verify" ELSE "log_data"
    /\ UNCHANGED <<world, server, c2s, cRet>> /\ Kept("client")

\* ... and then its data, which are saved.
receive_log_data ==
    /\ variant = "rats" /\ cpc = "log_data" /\ s2c # <<>>
    /\ s2c' = Tail(s2c)
    /\ \/ cpc' = "verify" /\ got' = [token |-> got.token, log |-> "new"] /\ UNCHANGED cRet
       \/ ClientEnds("error") /\ UNCHANGED got
    /\ UNCHANGED <<world, server, c2s, verified, pkgSent>>

\* handle_eventlogs_command fails when the saved table or log cannot be read.
handle_eventlogs_command == {"ok", "error"}

\* rats_tls_client_startup: with dump_eventlog the log is printed and the session over;
\* otherwise the saved log is replayed and compared.
firmware_verdict ==
    /\ variant = "rats" /\ cpc = "verify"
    /\ \/ "dump" \in opt /\ \E ret \in handle_eventlogs_command : ClientEnds(ret) /\ UNCHANGED verified
       \/ /\ "dump" \notin opt /\ got.log # "none"
          /\ cpc' = "fde" /\ verified' = TRUE /\ UNCHANGED cRet
       \/ "dump" \notin opt /\ ClientEnds("error") /\ UNCHANGED verified
    /\ UNCHANGED <<world, server, c2s, s2c, got, pkgSent>>

\* Mutant: the receiver's buffer is smaller than an ordinary key file.
KeyChunksSmallBuffer == IF keyfile = "absent" THEN <<>> ELSE Halves("key")

\* The rootfs key file as the receiver gets it: one chunk of at most MAX bytes at a time.
KeyChunks == CASE keyfile = "absent" -> <<>>
               [] keyfile = "ok"     -> <<Chunk("key")>>
               [] keyfile = "long"   -> Halves("key")

\* deal_fde_key: an unreadable key file returns ret, which is 0, after ENABLE_FDE was sent.
deal_fde_key ==
    /\ cpc = "fde"
    /\ cpc' = "msk"
    /\ IF "fde" \in opt THEN ToServer(<<Chunk("ENABLE_FDE")>> \o KeyChunks) ELSE UNCHANGED c2s
    /\ UNCHANGED <<world, server, s2c, cRet>> /\ Kept("client")

\* rats_tls_client_startup: announce the migration session key.
send_msk ==
    /\ cpc = "msk"
    /\ cpc' = "reply" /\ ToServer(<<Chunk("MSK_SEND")>>)
    /\ UNCHANGED <<world, server, s2c, cRet>> /\ Kept("client")

\* The reply is received into 256 bytes; the package is sent only for MIG_MSK_ACK.
\* io_thread is started and success returned whatever the reply was.
receive_reply ==
    /\ cpc = "reply" /\ s2c # <<>>
    /\ s2c' = Tail(s2c)
    /\ IF Head(s2c) = Chunk("MSK_ACK") THEN pkgSent' = TRUE /\ ToServer(<<Chunk("package")>>)
                                       ELSE UNCHANGED <<pkgSent, c2s>>
    /\ cpc' = "session" /\ cRet' = "ok"
    /\ UNCHANGED <<world, server, got, verified>>

\* io_thread of a client whose session has begun sends a frame (module IntegrityCheck).
session_frame ==
    /\ variant = "rats" /\ cpc = "session" /\ Chunk("frame") \notin {c2s[i] : i \in DOMAIN c2s}
    /\ spc \notin {"session", "done"}
    /\ ToServer(<<Chunk("frame")>>)
    /\ UNCHANGED <<world, client, server, s2c>>
---------------------------------------------------------------------------
(* The rats-tls server.                                                    *)

\* send_ima_log: an unreadable log is an error; of an empty one nothing is sent, and
\* the 0 that read_ima_measurements returned is success.
send_ima_log ==
    IF ima = "absent" THEN ServerEnds("error") /\ UNCHANGED s2c
    ELSE /\ ToClient(IF ima = "empty" THEN <<>> ELSE <<Chunk("size"), Chunk("ima")>>)
         /\ UNCHANGED <<spc, sRet>>

\* send_ccel_data
send_ccel_data ==
    \/ ToClient(<<Chunk("table")>>) /\ UNCHANGED <<spc, sRet>>
    \/ ServerEnds("error") /\ UNCHANGED s2c

\* Mutant: an unreadable log is not reported as an error.
send_event_logNoError ==
    IF log = "absent" THEN UNCHANGED <<s2c, spc, sRet>>
    ELSE /\ ToClient(<<Chunk("size")>> \o (IF log = "empty" THEN <<>> ELSE <<Chunk("log")>>))
         /\ UNCHANGED <<spc, sRet>>

\* send_event_log: the size and then the data, if any.
send_event_log ==
    IF log = "absent" THEN ServerEnds("error") /\ UNCHANGED s2c
    ELSE /\ ToClient(<<Chunk("size")>> \o (IF log = "empty" THEN <<>> ELSE <<Chunk("log")>>))
         /\ UNCHANGED <<spc, sRet>>

\* deal_client_req: one request, then (by recursion) the next.  No client of the
\* repository sends the PASS token.
deal_client_req ==
    /\ variant = "rats" /\ spc = "recv" /\ c2s # <<>>
    /\ c2s' = Tail(c2s)
    /\ LET m == Head(c2s) IN
       \/ m = Chunk("REQUEST_IMA") /\ send_ima_log
       \/ m = Chunk("CCEL_TABLE") /\ send_ccel_data
       \/ m = Chunk("EVENT_LOG") /\ send_event_log
       \/ m = Chunk("ENABLE_FDE") /\ spc' = "key" /\ UNCHANGED <<s2c, sRet>>
       \/ m = Chunk("MSK_SEND") /\ spc' = "package" /\ ToClient(<<Chunk("MSK_ACK")>>) /\ UNCHANGED sRet
       \/ /\ m[1] \in {"key", "frame"}
          /\ ToClient(<<Chunk("REFUSED")>>) /\ ServerEnds("error")
    /\ UNCHANGED <<world, client>> /\ Kept("server")

\* deal_rootfs_key: whatever is received next, up to MAX bytes, is saved as the key.
deal_rootfs_key ==
    /\ variant = "rats" /\ spc = "key" /\ c2s # <<>>
    /\ c2s' = Tail(c2s)
    /\ \/ rootKey' = Head(c2s) /\ spc' = "recv" /\ UNCHANGED sRet
       \/ ServerEnds("error") /\ UNCHANGED rootKey      \* the file cannot be written
    /\ UNCHANGED <<world, client, s2c, msgId, slot>>

\* receive_and_save_msk: the package must have its exact length; the guest's rd must be
\* bound and the TMM must take the key.
receive_and_save_msk ==
    /\ spc = "package" /\ c2s # <<>>
    /\ c2s' = Tail(c2s)
    /\ \/ /\ Head(c2s) = Chunk("package")
          /\ slot' = TRUE /\ spc' = "session" /\ sRet' = "ok"
       \/ ServerEnds("error") /\ UNCHANGED slot
    /\ UNCHANGED <<world, client, s2c, msgId, rootKey>>

\* Without a TSI context it returns before it receives anything, with MIG_MSK_ACK sent.
msk_without_context ==
    /\ spc = "package"
    /\ ServerEnds("error")
    /\ UNCHANGED <<world, client, c2s, s2c>> /\ Kept("server")

\* Mutant: the length of the FDE information read is not looked at.
server_receive_failsUnchecked ==
    /\ \/ variant = "rats" /\ spc \in {"recv", "key", "package"}
       \/ variant = "samples" /\ spc \in {"fde_info", "key"}
    /\ c2s = <<>> /\ cpc = "done"
    /\ ServerEnds(IF spc = "fde_info" THEN "ok" ELSE "error")
    /\ UNCHANGED <<world, client, c2s, s2c>> /\ Kept("server")

\* A receive of the server that finds the connection closed.
server_receive_fails ==
    /\ \/ variant = "rats" /\ spc \in {"recv", "key", "package"}
       \/ variant = "samples" /\ spc \in {"fde_info", "key"}
    /\ c2s = <<>> /\ cpc = "done"
    /\ ServerEnds("error")
    /\ UNCHANGED <<world, client, c2s, s2c>> /\ Kept("server")
---------------------------------------------------------------------------
(* The samples client (handle_connect of client.c).                        *)

\* A message over plain TCP arrives whole or in two reads.
Segments(m) == {<<Chunk(m)>>, Halves(m)}

\* read() of up to MAX bytes returns what has arrived: one chunk or all of them, or
\* nothing when the peer has closed.
Reads ==
    IF s2c = <<>> THEN IF spc = "done" THEN {[data |-> <<>>, rest |-> <<>>]} ELSE {}
    ELSE {[data |-> SubSeq(s2c, 1, n), rest |-> SubSeq(s2c, n + 1, Len(s2c))] : n \in 1 .. Len(s2c)}
IsExactly(data, m) == data = <<Chunk(m)>> \/ data = Halves(m)

\* Step 1: the device certificate is requested ...
request_cert ==
    /\ cpc = "start"
    /\ cpc' = "cert" /\ ToServer(<<Chunk("DEVICE_CERT")>>)
    /\ UNCHANGED <<world, server, s2c, cRet>> /\ Kept("client")

\* ... read once and saved; what does not parse as a certificate ends the session.
\* Step 2: the token is requested.
save_dev_cert ==
    /\ cpc = "cert"
    /\ \E r \in Reads :
        /\ s2c' = r.rest
        /\ \/ IsExactly(r.data, "cert") /\ cpc' = "token" /\ ToServer(<<Chunk("ATTEST")>>) /\ UNCHANGED cRet
           \/ ClientEnds("error") /\ UNCHANGED c2s
    /\ UNCHANGED <<world, server>> /\ Kept("client")

\* The token is read once; its length is not looked at here.  Step 3: the table.
read_token ==
    /\ cpc = "token"
    /\ \E r \in Reads :
        /\ s2c' = r.rest
        /\ got' = [token |-> IF IsExactly(r.data, "token") THEN "whole"
                             ELSE IF r.data = <<>> THEN "none" ELSE "head", log |-> got.log]
    /\ IF WantsFirmware THEN cpc' = "table" /\ ToServer(<<Chunk("CCEL_TABLE")>>)
                        ELSE cpc' = "verify" /\ UNCHANGED c2s
    /\ UNCHANGED <<world, server, cRet, verified, pkgSent>>

\* The table is whatever is read next, if anything is.
read_table ==
    /\ variant = "samples" /\ cpc = "table"
    /\ \E r \in Reads :
        /\ s2c' = r.rest
        /\ \/ r.data # <<>> /\ cpc' = "log_size" /\ ToServer(<<Chunk("EVENT_LOG")>>) /\ UNCHANGED cRet
           \/ ClientEnds("error") /\ UNCHANGED c2s
    /\ UNCHANGED <<world, server>> /\ Kept("client")

\* The size is read once; 0, more than MAX_LOG and bytes that are no size are refused
\* (the first bytes of a table or of the rest of a token read as a size exceed MAX_LOG).
read_log_size ==
    /\ variant = "samples" /\ cpc = "log_size"
    /\ s2c # <<>> \/ spc = "done"
    /\ IF s2c # <<>> /\ Head(s2c) = Chunk("size") /\ ~ LogSizeRefused
       THEN cpc' = "log_data" /\ s2c' = Tail(s2c) /\ UNCHANGED cRet
       ELSE ClientEnds("error") /\ UNCHANGED s2c
    /\ UNCHANGED <<world, server, c2s>> /\ Kept("client")

\* The data are read in a loop and saved; with dump_eventlog this is the end.
read_log_data ==
    /\ variant = "samples" /\ cpc = "log_data"
    /\ s2c # <<>> \/ spc = "done"
    /\ \/ /\ s2c # <<>>
          /\ s2c' = Tail(s2c) /\ got' = [token |-> got.token, log |-> "new"]
          /\ IF "dump" \in opt THEN \E ret \in handle_eventlogs_command : ClientEnds(ret)
                               ELSE cpc' = "verify" /\ UNCHANGED cRet
       \/ ClientEnds("error") /\ UNCHANGED <<s2c, got>>
    /\ UNCHANGED <<world, server, c2s, verified, pkgSent>>

\* verify_token: a token cut short does not parse.
verify_token_can_pass == got.token = "whole" /\ ("firmware" \in opt => got.log = "new")

\* Steps 4 and 5: verify, tell the server the result and, on success, how the rootfs is
\* decrypted; the key may arrive in two reads.
send_verdict ==
    /\ variant = "samples" /\ cpc = "verify"
    /\ \/ /\ verify_token_can_pass
          /\ verified' = TRUE
          /\ IF "fde" \notin opt THEN ToServer(<<Chunk("SUCCESS"), Chunk("REM")>>) /\ ClientEnds("ok")
             ELSE IF keyfile = "absent"
             THEN ToServer(<<Chunk("SUCCESS"), Chunk("USE_FDE")>>) /\ ClientEnds("error")
             ELSE \E k \in (IF keyfile = "ok" THEN Segments("key") ELSE {Halves("key")}) :
                    ToServer(<<Chunk("SUCCESS"), Chunk("USE_FDE")>> \o k) /\ ClientEnds("ok")
       \/ verified' = FALSE /\ ToServer(<<Chunk("FAILED")>>) /\ ClientEnds("error")
    /\ UNCHANGED <<world, server, s2c, got, pkgSent>>

\* The client process may be stopped at any time (also by SIGPIPE, which nobody handles).
client_dies ==
    /\ cpc \notin {"session", "done"}
    /\ ClientEnds("error")
    /\ UNCHANGED <<world, server, c2s, s2c>> /\ Kept("client")
---------------------------------------------------------------------------
(* The samples server (handle_connect of server.c).                        *)

get_version ==
    /\ spc = "start"
    /\ (spc' = "recv" /\ UNCHANGED sRet) \/ ServerEnds("error")
    /\ UNCHANGED <<world, client, c2s, s2c>> /\ Kept("server")

\* The result of read() is not looked at: when the client has closed, msg_id is still
\* the last request (or, before the first one, whatever the stack held).
NextId == IF c2s # <<>> THEN {Head(c2s)[1]}
          ELSE IF cpc # "done" THEN {}
          ELSE IF msgId = "uninitialised" THEN SampleIds ELSE {msgId}

\* What the server answers a request with.
SampleReplies(id) ==
    CASE id = "DEVICE_CERT" -> Segments("cert")
      [] id = "ATTEST"      -> Segments("token")
      [] id = "CCEL_TABLE"  -> Segments("table")
      [] id = "EVENT_LOG"   -> IF log = "absent" THEN {}
                               ELSE {<<Chunk("size")>> \o (IF log = "empty" THEN <<>> ELSE <<Chunk("log")>>)}

SampleRequests == {"DEVICE_CERT", "ATTEST", "CCEL_TABLE", "EVENT_LOG"}

handle_request ==
    /\ variant = "samples" /\ spc = "recv"
    /\ \E id \in NextId \cap SampleRequests :
        /\ msgId' = id
        /\ \E chunks \in SampleReplies(id) : ToClient(chunks)
    /\ c2s' = IF c2s = <<>> THEN <<>> ELSE Tail(c2s)
    /\ UNCHANGED <<world, client, spc, sRet, rootKey, slot>>

\* An error of the TSI or an unreadable file ends the session.
request_fails ==
    /\ variant = "samples" /\ spc = "recv"
    /\ \E id \in NextId \cap SampleRequests : msgId' = id
    /\ c2s' = IF c2s = <<>> THEN <<>> ELSE Tail(c2s)
    /\ ServerEnds("error")
    /\ UNCHANGED <<world, client, s2c, rootKey, slot>>

\* A verdict; anything that is no request ends the session as failed.
handle_verdict ==
    /\ variant = "samples" /\ spc = "recv"
    /\ \E id \in NextId \ SampleRequests :
        /\ msgId' = id
        /\ IF id = "SUCCESS" THEN spc' = "fde_info" /\ UNCHANGED sRet ELSE ServerEnds("error")
    /\ c2s' = IF c2s = <<>> THEN <<>> ELSE Tail(c2s)
    /\ UNCHANGED <<world, client, s2c, rootKey, slot>>

receive_fde_info ==
    /\ spc = "fde_info" /\ c2s # <<>>
    /\ c2s' = Tail(c2s)
    /\ msgId' = Head(c2s)[1]
    /\ IF msgId' = "USE_FDE" THEN spc' = "key" /\ UNCHANGED sRet ELSE ServerEnds("ok")
    /\ UNCHANGED <<world, client, s2c, rootKey, slot>>

\* The key file is read once and saved.
receive_key_file ==
    /\ variant = "samples" /\ spc = "key" /\ c2s # <<>>
    /\ c2s' = Tail(c2s)
    /\ \/ rootKey' = Head(c2s) /\ ServerEnds("ok")
       \/ ServerEnds("error") /\ UNCHANGED rootKey
    /\ UNCHANGED <<world, client, s2c, msgId, slot>>

\* Mutant: SIGPIPE is ignored, and the result of write() too.
write_failsIgnored ==
    /\ variant = "rats" /\ spc = "recv" /\ cpc = "done" /\ c2s # <<>>
    /\ ServerEnds("error")
    /\ UNCHANGED <<world, client, c2s, s2c>> /\ Kept("server")

\* Writing to a client that has gone fails at the latest when its reset has arrived:
\* SIGPIPE ends the samples server, rats_tls_transmit returns an error.
write_fails ==
    /\ spc = "recv" /\ cpc = "done"
    /\ IF variant = "rats" THEN c2s # <<>> ELSE NextId \cap SampleRequests # {}
    /\ ServerEnds("error")
    /\ UNCHANGED <<world, client, c2s, s2c>> /\ Kept("server")
---------------------------------------------------------------------------
rats_tls_client_startup ==
    \/ deal_ima \/ client_receive_fails \/ ima_log_size \/ ima_log_data
    \/ request_table \/ receive_table \/ receive_log_size \/ receive_log_data
    \/ firmware_verdict \/ deal_fde_key \/ send_msk \/ receive_reply

rats_tls_server ==
    deal_client_req \/ deal_rootfs_key \/ receive_and_save_msk \/ server_receive_fails

client_handle_connect ==
    \/ request_cert \/ save_dev_cert \/ read_token \/ read_table
    \/ read_log_size \/ read_log_data \/ send_verdict

server_handle_connect ==
    get_version \/ handle_request \/ handle_verdict \/ receive_fde_info \/ receive_key_file

Next ==
    \/ rats_tls_client_startup \/ session_frame \/ rats_tls_server \/ msk_without_context
    \/ client_handle_connect \/ client_dies
    \/ server_handle_connect \/ request_fails \/ write_fails

Spec == Init /\ [][Next]_vars

\* Each side's thread runs whenever it can; a write to a peer that has gone eventually
\* fails.  Nobody is obliged to die or to lack a TSI context, and the integrity session need not send anything.
FairSpec ==
    /\ Spec
    /\ WF_vars(rats_tls_client_startup) /\ WF_vars(client_handle_connect)
    /\ WF_vars(rats_tls_server) /\ WF_vars(server_handle_connect) /\ WF_vars(write_fails)
    /\ WF_vars(request_fails /\ log = "absent" /\ msgId' = "EVENT_LOG")
---------------------------------------------------------------------------
Ended == cpc \in {"session", "done"} /\ spc \in {"session", "done"}

ClientWaits == cpc \in RecvPcs /\ s2c = <<>> /\ spc # "done"
ServerWaits == spc \in {"recv", "key", "package", "fde_info"} /\ c2s = <<>> /\ cpc # "done"

\* The server ends well, or makes its slot READY, only in a session whose client verified
\* it: a verdict is never taken from a repeated msg_id, from an uninitialised one or from
\* bytes of another message, and the slot only from the package sent after MIG_MSK_ACK
\* (server.c handle_connect, receive_and_save_msk).
ServerTrustsVerdict ==
    /\ sRet = "ok" => verified
    /\ slot => pkgSent /\ verified

\* A rats-tls client that returns success has sent the key package, except in dump mode
\* and where the code is out of step with its peer: the data of an event log refused for
\* its size are still in the stream and are taken for the reply, or the rest of a key file
\* larger than MAX is taken by the server for a request.
SuccessSendsKey ==
    variant = "rats" /\ cRet = "ok" =>
        \/ pkgSent
        \/ "dump" \in opt
        \/ "firmware" \in opt /\ log = "big" /\ oldLog
        \/ "fde" \in opt /\ keyfile = "long"

\* Client and server wait for each other only where one side returned success without
\* having sent what the other expects: an empty IMA log, an unreadable key file after
\* ENABLE_FDE, or a server that waits for a package its client will not send.
MutualWaitExplained ==
    ServerWaits /\ (ClientWaits \/ cpc = "session") =>
        \/ variant = "rats" /\ "ima" \in opt /\ ima = "empty"
        \/ variant = "rats" /\ "fde" \in opt /\ keyfile = "absent"
        \/ spc = "package" /\ cpc = "session" /\ log = "big"

\* What the server stores as the rootfs key is the client's key file, unless the file was
\* unreadable, or longer than the MAX bytes that are read, or TCP delivered it in two parts.
StoredKeyExplained ==
    rootKey # NoKey =>
        \/ rootKey = Chunk("key")
        \/ variant = "rats" /\ keyfile = "absent" /\ rootKey = Chunk("MSK_SEND")
        \/ rootKey = <<"key", "head">> /\ (variant = "samples" \/ keyfile = "long")

\* Every session ends on both sides, whatever dies, fails or is refused on the way, unless
\* the two sides come to wait for each other as MutualWaitExplained allows.
SessionEnds == <>(Ended \/ (ServerWaits /\ (ClientWaits \/ cpc = "session")))
=============================================================================
