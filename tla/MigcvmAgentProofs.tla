--------------------------- MODULE MigcvmAgentProofs ---------------------------
(***************************************************************************)
(* What TLAPS proves of the agents at both grains: of the two agents, for  *)
(* any migrations and any number of commands, and of the session that one  *)
(* connection between them (or between the two samples programs) carries;  *)
(* and that the second is what the first takes a connection to be.         *)
(***************************************************************************)
EXTENDS MigcvmAgent, AttestSession, SequenceTheorems, TLAPS

-----------------------------------------------------------------------------
(***************************************************************************)
(* The two agents (module MigcvmAgent).                                    *)
(***************************************************************************)

\* Whoever is on its way to the server was acknowledged.
Acknowledged ==
    /\ acked \subseteq Migs
    /\ cQ \in Seq(acked \X Ips)
    /\ cM \in acked \cup {NoMig} /\ (cAt \in {"connect", "negotiate", "bind_slot"} => cM \in acked)
    /\ pend \in acked \cup {NoMig}
    /\ exch = NoConn \/ exch \in [m : acked, st : {"negotiate", "package", "closed", "acked"}]

\* An acknowledged server has returned, unless it is the one that runs.
Running ==
    /\ sAt \in {"accept", "startup", "listen", "attest"}
    /\ sQ \in Seq(Migs) /\ sRd \in Migs \cup {NoMig} /\ (sAt # "accept" => sRd \in Migs)
    /\ acked \subseteq over \cup (IF sAt = "accept" THEN {} ELSE {sRd})

\* The listening socket has one holder.
Holder ==
    /\ session # NoMig => listener = "io"
    /\ sAt \in {"listen", "attest"} => listener = "thread"

Keys == dstKey \in [Migs -> Migs \cup {NoMig}] /\ ForeignKeyExplained

\* The inductive invariant.
AgentsInv == Acknowledged /\ Running /\ Holder /\ Keys

LEMMA QueueFacts ==
    ASSUME NEW S, NEW q \in Seq(S)
    PROVE  /\ \A x \in S : Append(q, x) \in Seq(S)
           /\ q # <<>> => Head(q) \in S /\ Tail(q) \in Seq(S)
BY AppendProperties, HeadTailProperties

LEMMA AgentsInvInit == AgentsInit => AgentsInv
<1> SUFFICES ASSUME AgentsInit PROVE AgentsInv
  OBVIOUS
<1> USE MAAssumption DEF AgentsInit
<1>1. Acknowledged /\ Running
  BY EmptySeq DEF Acknowledged, Running
<1>2. Holder /\ Keys
  BY DEF Holder, Keys, ForeignKeyExplained
<1> QED
  BY <1>1, <1>2 DEF AgentsInv

LEMMA AgentsInvNext == AgentsInv /\ [AgentsNext]_agentVars => AgentsInv'
<1> SUFFICES ASSUME AgentsInv, [AgentsNext]_agentVars PROVE AgentsInv'
  OBVIOUS
<1> USE MAAssumption DEF AgentsInv, net, sVars, cVars
<1>1. ASSUME NEW m \in Migs, host_start_server(m) PROVE AgentsInv'
  <2>1. Running'
    BY <1>1, QueueFacts DEF host_start_server, Running
  <2>2. Acknowledged' /\ Holder' /\ Keys'
    BY <1>1 DEF host_start_server, Acknowledged, Holder, Keys, ForeignKeyExplained
  <2> QED
    BY <2>1, <2>2
<1>2. ASSUME NEW m \in Migs, NEW ip \in Ips, host_start_client(m, ip) PROVE AgentsInv'
  <2>1. <<m, ip>> \in acked \X Ips
    BY <1>2 DEF host_start_client
  <2>2. Append(cQ, <<m, ip>>) \in Seq(acked \X Ips)
    BY <2>1, QueueFacts DEF Acknowledged
  <2>3. Acknowledged'
    BY <1>2, <2>2 DEF host_start_client, Acknowledged
  <2>4. Running' /\ Holder' /\ Keys'
    BY <1>2 DEF host_start_client, Running, Holder, Keys, ForeignKeyExplained
  <2> QED
    BY <2>3, <2>4
<1>3. CASE ras_tls_handler_server
  <2>1. Head(sQ) \in Migs /\ Tail(sQ) \in Seq(Migs)
    BY <1>3, QueueFacts DEF ras_tls_handler_server, Running
  <2>2. Running' /\ Holder' /\ Keys'
    BY <1>3, <2>1 DEF ras_tls_handler_server, Running, Holder, Keys, ForeignKeyExplained
  <2>3. acked \subseteq acked' /\ acked' \subseteq Migs
    BY <1>3, <2>1 DEF ras_tls_handler_server, Acknowledged
  <2>4. Seq(acked \X Ips) \subseteq Seq(acked' \X Ips)
    <3>1. acked \X Ips \subseteq acked' \X Ips
      BY <2>3
    <3> QED
      BY <3>1, SeqMonotonic
  <2>5. Acknowledged'
    BY <1>3, <2>3, <2>4 DEF ras_tls_handler_server, Acknowledged
  <2> QED
    BY <2>2, <2>5
<1>4. CASE server_listens
  BY <1>4 DEF server_listens, StartupReturns, Acknowledged, Running, Holder, Keys, ForeignKeyExplained
<1>5. CASE server_accepts
  BY <1>5 DEF server_accepts, Acknowledged, Running, Holder, Keys, ForeignKeyExplained, NoConn
<1>6. CASE server_saves_msk
  <2>1. /\ exch.m \in acked /\ sRd \in Migs
        /\ exch.m \in over \cup {sRd}
    BY <1>6 DEF server_saves_msk, Acknowledged, Running, NoConn
  <2>2. Acknowledged' /\ Running' /\ Holder'
    BY <1>6 DEF server_saves_msk, StartupReturns, Served, Acknowledged, Running, Holder, NoConn
  <2>3. Keys'
    BY <1>6, <2>1 DEF server_saves_msk, StartupReturns, Keys, ForeignKeyExplained, Acknowledged
  <2> QED
    BY <2>2, <2>3
<1>7. CASE server_fails
  BY <1>7 DEF server_fails, StartupReturns, Acknowledged, Running, Holder, Keys, ForeignKeyExplained, NoConn
<1>8. CASE session_ends
  BY <1>8 DEF session_ends, Acknowledged, Running, Holder, Keys, ForeignKeyExplained
<1>9. CASE ras_tls_handler_client
  <2>1. Head(cQ) \in acked \X Ips /\ Tail(cQ) \in Seq(acked \X Ips)
    BY <1>9, QueueFacts DEF ras_tls_handler_client, Acknowledged
  <2>2. Head(cQ)[1] \in acked
    BY <2>1
  <2>3. Acknowledged'
    BY <1>9, <2>1, <2>2 DEF ras_tls_handler_client, ClientAnswers, Acknowledged
  <2>4. Running' /\ Holder' /\ Keys'
    BY <1>9 DEF ras_tls_handler_client, Running, Holder, Keys, ForeignKeyExplained
  <2> QED
    BY <2>3, <2>4
<1>10. CASE no_tsi_context
  <2>1. Tail(cQ) \in Seq(acked \X Ips)
    BY <1>10, QueueFacts DEF no_tsi_context, Acknowledged
  <2>2. Acknowledged'
    BY <1>10, <2>1 DEF no_tsi_context, ClientAnswers, Acknowledged
  <2>3. Running' /\ Holder' /\ Keys'
    BY <1>10 DEF no_tsi_context, Running, Holder, Keys, ForeignKeyExplained
  <2> QED
    BY <2>2, <2>3
<1>11. CASE client_connects
  BY <1>11 DEF client_connects, ClientAnswers, Acknowledged, Running, Holder, Keys, ForeignKeyExplained
<1>12. CASE client_exchanges
  BY <1>12 DEF client_exchanges, Left, ClientAnswers, Acknowledged, Running, Holder, Keys, ForeignKeyExplained
<1>13. CASE client_reset
  BY <1>13 DEF client_reset, ClientAnswers, Acknowledged, Running, Holder, Keys, ForeignKeyExplained
<1>14. CASE client_binds_slot
  BY <1>14 DEF client_binds_slot, ClientAnswers, Acknowledged, Running, Holder, Keys, ForeignKeyExplained
<1>15. CASE UNCHANGED agentVars
  BY <1>15 DEF agentVars, Acknowledged, Running, Holder, Keys, ForeignKeyExplained
<1> QED
  BY <1>1, <1>2, <1>3, <1>4, <1>5, <1>6, <1>7, <1>8, <1>9, <1>10, <1>11, <1>12, <1>13, <1>14, <1>15
  DEF AgentsNext, server_thread_func, client_thread_func

LEMMA AgentsInvAlways == AgentsSpec => []AgentsInv
BY AgentsInvInit, AgentsInvNext, PTL DEF AgentsSpec

\* receive_and_save_msk stores a key of another migration only after the server
\* of that migration was acknowledged and had returned.
THEOREM ForeignKeyHolds == AgentsSpec => []ForeignKeyExplained
<1>1. AgentsInv => ForeignKeyExplained
  BY DEF AgentsInv, Keys
<1> QED
  BY <1>1, AgentsInvAlways, PTL

\* The listening socket handed to io_thread keeps every other key and session
\* away until the session ends.
THEOREM SessionExclusiveHolds == AgentsSpec => SessionExclusive
<1>1. AgentsInv /\ [AgentsNext]_agentVars => [session # NoMig => dstKey' = dstKey /\ session' \in {session, NoMig}]_agentVars
  <2> SUFFICES ASSUME AgentsInv, AgentsNext, session # NoMig
               PROVE  dstKey' = dstKey /\ session' \in {session, NoMig}
    OBVIOUS
  <2>1. ~ server_saves_msk
    BY DEF AgentsInv, Holder, server_saves_msk
  <2> QED
    BY <2>1 DEF AgentsNext, host_start_server, host_start_client, server_thread_func, client_thread_func,
        ras_tls_handler_server, server_listens, server_accepts, server_fails, session_ends,
        ras_tls_handler_client, client_connects, client_exchanges, client_reset, client_binds_slot,
        no_tsi_context
<1> QED
  BY <1>1, AgentsInvAlways, PTL DEF AgentsSpec, SessionExclusive

-----------------------------------------------------------------------------
(***************************************************************************)
(* One session (module AttestSession).  The inductive invariant follows    *)
(* the two programs: what the control points allow (Control), who may be   *)
(* told of a verdict (Verdicts), which single request of a rats-tls client *)
(* is under way and with which reply (Requests), what can be in the stream *)
(* when MIG_MSK_ACK is awaited (Replies), where the rootfs key stands in   *)
(* the stream (KeyOrder), that the announcement of the session key is not  *)
(* lost (Announced), and what a samples session has in transit (Samples).  *)
(***************************************************************************)
Has(q, c) == \E i \in 1 .. Len(q) : q[i] = c

\* The control points of each protocol, and the flags that follow them.
Control ==
    /\ variant \in Variants /\ keyfile \in {"absent", "ok", "long"}
    /\ c2s \in Seq(Msgs \X Parts) /\ s2c \in Seq(Msgs \X Parts)
    /\ variant = "rats" =>
            /\ cpc \in CPcs \ {"start", "cert", "token"}
            /\ spc \in {"recv", "key", "package", "session", "done"}
    /\ variant = "samples" =>
            /\ cpc \in {"start", "cert", "token", "table", "log_size", "log_data", "verify", "done"}
            /\ spc \in {"start", "recv", "fde_info", "key", "done"}
    /\ verified => cpc \in {"fde", "msk", "reply", "session", "done"}
    /\ cpc \in {"fde", "msk", "reply", "session"} => verified
    /\ pkgSent => verified /\ cpc \in {"session", "done"}
    /\ cRet = "ok" => cpc \in {"session", "done"}

\* A verdict or a package in transit, or acted upon, is that of a client that verified.
\* A repeated msg_id is never SUCCESS: the server left its loop with the first one.  A
\* SUCCESS the server took from an uninitialised msg_id leaves it with an empty stream.
Verdicts ==
    /\ Has(c2s, Chunk("package")) => pkgSent
    /\ spc = "session" => pkgSent
    /\ \A i \in 1 .. Len(c2s) : c2s[i][1] = "SUCCESS" => verified
    /\ variant = "samples" /\ spc \in {"start", "recv"} => msgId # "SUCCESS"
    /\ spc = "fde_info" => cpc = "done" /\ (verified \/ c2s = <<>>)
    /\ variant = "samples" /\ spc = "key" => verified
    /\ ServerTrustsVerdict

\* A request is on its way, or its reply is, or the server has gone.
Quiet == c2s = <<>> /\ s2c = <<>>
Asks(req, reply) ==
    \/ c2s = <<Chunk(req)>> /\ s2c = <<>>
    \/ c2s = <<>> /\ s2c = reply
    \/ Quiet /\ spc = "done"
ImaReply == IF ima = "empty" THEN <<>> ELSE <<Chunk("size"), Chunk("ima")>>
LogReply == IF log = "empty" THEN <<Chunk("size")>> ELSE <<Chunk("size"), Chunk("log")>>

\* The event log on the client's disk is still that of an earlier verification.
NotNew == got.log = IF oldLog THEN "old" ELSE "none"

\* Up to its verdict a rats-tls client asks one thing at a time; the one chunk left over is
\* the data of an event log refused for its size.
Requests == variant = "rats" =>
    /\ cpc \in {"ima", "firmware"} => Quiet
    /\ cpc = "ima_size" => "ima" \in opt /\ Asks("REQUEST_IMA", ImaReply)
    /\ cpc = "ima_data" => c2s = <<>> /\ s2c = <<Chunk("ima")>>
    /\ cpc = "table" => Asks("CCEL_TABLE", <<Chunk("table")>>)
    /\ cpc = "log_size" => Asks("EVENT_LOG", LogReply)
    /\ cpc = "log_data" => c2s = <<>> /\ s2c = <<Chunk("log")>>
    /\ cpc = "verify" => /\ c2s = <<>>
                         /\ s2c = <<>> \/ (s2c = <<Chunk("log")>> /\ log = "big" /\ NotNew)
    /\ cpc \in {"table", "log_size", "log_data", "verify"} => WantsFirmware
    /\ cpc \in {"ima", "ima_size", "ima_data", "firmware", "table", "log_size", "log_data"} => NotNew
    /\ cpc = "fde" => c2s = <<>>
    /\ cpc \notin {"msk", "reply", "session", "done"} => spc \in {"recv", "done"}

\* What a client that waits for MIG_MSK_ACK can find in the stream.
Stale == "firmware" \in opt /\ log = "big" /\ oldLog
Replies == variant = "rats" /\ cpc \in {"fde", "msk", "reply"} =>
    \A i \in 1 .. Len(s2c) :
        \/ s2c[i] = Chunk("log") /\ Stale
        \/ s2c[i] = Chunk("MSK_ACK") /\ spc \in {"package", "done"}
        \/ s2c[i] = Chunk("REFUSED") /\ spc = "done" /\ "fde" \in opt /\ keyfile = "long"

\* What the server receives after ENABLE_FDE: the key, or, where the key file is
\* unreadable, the next request, which may not have been sent yet.
KeyFirst == IF keyfile = "absent" THEN Chunk("MSK_SEND")
            ELSE IF keyfile = "ok" THEN Chunk("key") ELSE <<"key", "head">>
KeyAt(i) == \/ keyfile = "absent" /\ i = Len(c2s) + 1 /\ cpc \in {"msk", "done"}
            \/ i \in 1 .. Len(c2s) /\ c2s[i] = KeyFirst

\* Nothing comes between ENABLE_FDE and what the server takes for the key, and a key that
\* is not so preceded is the rest of a file that is too long.
KeyOrder == variant = "rats" /\ spc # "done" =>
    /\ \A i \in 1 .. Len(c2s) :
        /\ cpc \in {"msk", "reply", "session"} =>
                c2s[i] \in {Chunk(m) : m \in {"ENABLE_FDE", "MSK_SEND", "package", "frame"}}
                           \cup {"key"} \X Parts
        /\ c2s[i] = Chunk("ENABLE_FDE") => "fde" \in opt /\ KeyAt(i + 1)
        /\ c2s[i][1] = "key" =>
                /\ "fde" \in opt
                /\ \/ keyfile = "long"
                   \/ IF i = 1 THEN spc = "key" ELSE c2s[i - 1] = Chunk("ENABLE_FDE")
        /\ c2s[i][1] = "frame" => cpc \in {"session", "done"}
        /\ c2s[i][1] = "MSK_SEND" => cpc \in {"reply", "session", "done"}
    /\ spc = "key" => "fde" \in opt /\ KeyAt(1)

\* The announcement, its acknowledgement and the package are in transit as long as the
\* peer waits for them, except where MutualWaitExplained says otherwise.
Announced == variant = "rats" =>
    /\ spc = "package" => cpc \in {"reply", "session", "done"}
    /\ cpc \in {"reply", "session"} /\ spc \in {"recv", "key"} =>
            Has(c2s, Chunk("MSK_SEND")) \/ ("fde" \in opt /\ keyfile = "absent")
    /\ cpc = "reply" /\ spc = "package" => Has(s2c, Chunk("MSK_ACK"))
    /\ cpc = "session" /\ spc = "package" => Has(c2s, Chunk("package")) \/ log = "big"
    /\ cpc = "session" /\ spc \in {"recv", "key"} => log = "big"

\* A samples client that reads has a request or a reply in transit, and a size is followed
\* by its log; USE_FDE is followed by the key file, if anything.
Samples == variant = "samples" =>
    /\ cpc # "done" => /\ spc \in {"start", "recv", "done"}
                       /\ \A i \in 1 .. Len(c2s) : c2s[i][1] \in SampleRequests
    /\ cpc \in RecvPcs => c2s # <<>> \/ s2c # <<>> \/ spc = "done"
    /\ cpc # "done" =>
            \A i \in 1 .. Len(s2c) : s2c[i] = Chunk("size") => log = "empty" \/ i < Len(s2c)
    /\ spc # "done" =>
            \A i \in 1 .. Len(c2s) : c2s[i][1] = "USE_FDE" =>
                i = Len(c2s) \/ c2s[i + 1] \in {Chunk("key"), <<"key", "head">>}
    /\ spc = "key" => cpc = "done" /\ (c2s = <<>> \/ c2s[1] \in {Chunk("key"), <<"key", "head">>})

\* The inductive invariant.
SessionInv ==
    /\ Control /\ Verdicts /\ Requests /\ Replies /\ KeyOrder /\ Announced /\ Samples
    /\ SuccessSendsKey /\ StoredKeyExplained

-----------------------------------------------------------------------------
\* What Head, Tail and Len do to a sequence.
LEMMA SeqFacts ==
    ASSUME NEW S, NEW q \in Seq(S)
    PROVE  /\ Len(q) \in Nat /\ (q = <<>> <=> Len(q) = 0)
           /\ \A i \in 1 .. Len(q) : q[i] \in S
           /\ q # <<>> => /\ Head(q) = q[1] /\ q[1] \in S /\ 1 \in 1 .. Len(q)
                          /\ Tail(q) \in Seq(S) /\ Len(Tail(q)) = Len(q) - 1
                          /\ \A i \in 1 .. Len(Tail(q)) : i + 1 \in 1 .. Len(q) /\ Tail(q)[i] = q[i + 1]
<1>1. Len(q) \in Nat /\ (q = <<>> <=> Len(q) = 0) /\ \A i \in 1 .. Len(q) : q[i] \in S
  BY LenProperties, ElementOfSeq, EmptySeq
<1>2. q # <<>> => /\ Head(q) = q[1] /\ q[1] \in S /\ Tail(q) \in Seq(S) /\ Len(Tail(q)) = Len(q) - 1
                  /\ \A i \in 1 .. Len(Tail(q)) : Tail(q)[i] = q[i + 1]
  BY <1>1, HeadTailProperties
<1> QED
  BY <1>1, <1>2

\* What a concatenation holds.
LEMMA CatFacts ==
    ASSUME NEW S, NEW q \in Seq(S), NEW r \in Seq(S)
    PROVE  /\ q \o r \in Seq(S) /\ Len(q \o r) = Len(q) + Len(r)
           /\ \A i \in 1 .. Len(q) : i \in 1 .. Len(q \o r) /\ (q \o r)[i] = q[i]
           /\ \A i \in 1 .. Len(r) : Len(q) + i \in 1 .. Len(q \o r) /\ (q \o r)[Len(q) + i] = r[i]
           /\ \A i \in 1 .. Len(q \o r) : i \in 1 .. Len(q) \/ (i - Len(q) \in 1 .. Len(r) /\ (q \o r)[i] = r[i - Len(q)])
<1>1. Len(q) \in Nat /\ Len(r) \in Nat
  BY SeqFacts
<1>2. q \o r \in Seq(S) /\ Len(q \o r) = Len(q) + Len(r)
      /\ \A i \in 1 .. Len(q) + Len(r) : (q \o r)[i] = IF i <= Len(q) THEN q[i] ELSE r[i - Len(q)]
  BY ConcatProperties
<1> QED
  BY <1>1, <1>2

\* The same for one more element.
LEMMA OneMore ==
    ASSUME NEW S, NEW q \in Seq(S), NEW x \in S
    PROVE  /\ q \o <<x>> \in Seq(S) /\ Len(q \o <<x>>) = Len(q) + 1 /\ (q \o <<x>>)[Len(q) + 1] = x
           /\ \A i \in 1 .. Len(q) : (q \o <<x>>)[i] = q[i]
<1>1. <<x>> \in Seq(S) /\ Len(<<x>>) = 1 /\ <<x>>[1] = x
  OBVIOUS
<1>2. Len(q) \in Nat
  BY SeqFacts
<1> QED
  BY <1>1, <1>2, ConcatProperties

\* Sequences of one and of two elements.
LEMMA Shorts ==
    ASSUME NEW a, NEW b
    PROVE  /\ Tail(<<a>>) = <<>> /\ Head(<<a>>) = a /\ Tail(<<a, b>>) = <<b>> /\ Head(<<a, b>>) = a
           /\ <<a>> # <<>> /\ <<a, b>> # <<>>
           /\ <<>> \o <<a>> = <<a>> /\ <<>> \o <<a, b>> = <<a, b>> /\ <<a>> \o <<>> = <<a>>
OBVIOUS

\* A sequence of length 2 is a pair.
LEMMA PairSeq == ASSUME NEW S, NEW q \in Seq(S), Len(q) = 2 PROVE q = <<q[1], q[2]>>
OBVIOUS

\* Two single chunks make a pair.
LEMMA OneOne == ASSUME NEW a, NEW b PROVE <<a>> \o <<b>> = <<a, b>>
<1>1. <<a>> \in Seq({a, b}) /\ <<b>> \in Seq({a, b})
  OBVIOUS
<1>2. Len(<<a>>) = 1 /\ Len(<<b>>) = 1 /\ <<a>>[1] = a /\ <<b>>[1] = b
  OBVIOUS
<1>3. /\ <<a>> \o <<b>> \in Seq({a, b}) /\ Len(<<a>> \o <<b>>) = 2
      /\ (<<a>> \o <<b>>)[1] = a /\ (<<a>> \o <<b>>)[2] = b
  BY <1>1, <1>2, ConcatProperties
<1> QED
  BY <1>3, PairSeq

\* The chunks that are sent have the type of the two streams.
LEMMA ShortSeqs ==
    /\ \A m \in Msgs : Chunk(m) \in Msgs \X Parts /\ <<Chunk(m)>> \in Seq(Msgs \X Parts)
    /\ \A m \in Msgs : Halves(m) \in Seq(Msgs \X Parts)
    /\ \A m, n \in Msgs : <<Chunk(m), Chunk(n)>> \in Seq(Msgs \X Parts)
<1>1. \A m \in Msgs : Chunk(m) \in Msgs \X Parts /\ <<m, "head">> \in Msgs \X Parts /\ <<m, "tail">> \in Msgs \X Parts
  BY DEF Chunk, Parts
<1>2. \A a, b \in Msgs \X Parts : <<a>> \in Seq(Msgs \X Parts) /\ <<a, b>> \in Seq(Msgs \X Parts)
  OBVIOUS
<1> QED
  BY <1>1, <1>2 DEF Halves

\* The control points of a rats-tls client before its verdict.
EarlyPcs == {"ima", "ima_size", "ima_data", "firmware", "table", "log_size", "log_data", "verify"}

\* A client that closes the connection keeps the invariant, whatever it has read.
LEMMA ClientStops ==
    ASSUME SessionInv, cpc \notin {"session", "done"}, cpc' = "done",
           cRet' = "ok" => variant = "samples" \/ "dump" \in opt,
           s2c' \in Seq(Msgs \X Parts),
           UNCHANGED <<world, server, c2s, verified, pkgSent>>
    PROVE  SessionInv'
<1> USE DEF world, server
<1>1. Control'
  BY DEF SessionInv, Control, CPcs
<1>2. Verdicts'
  BY DEF SessionInv, Verdicts, Has, ServerTrustsVerdict
<1>3. Requests' /\ Replies'
  BY DEF Requests, Replies
<1>4. KeyOrder' /\ Announced'
  BY DEF SessionInv, KeyOrder, Announced, KeyAt, KeyFirst, Has
<1>5. Samples'
  BY DEF SessionInv, Samples, RecvPcs
<1>6. SuccessSendsKey' /\ StoredKeyExplained'
  BY DEF SessionInv, SuccessSendsKey, StoredKeyExplained, Control
<1> QED
  BY <1>1, <1>2, <1>3, <1>4, <1>5, <1>6 DEF SessionInv

\* So does a server that returns, with success only after a verdict.
LEMMA ServerStops ==
    ASSUME SessionInv, spc' = "done", sRet' = "ok" => verified,
           c2s' = c2s \/ (c2s # <<>> /\ c2s' = Tail(c2s)),
           s2c' = s2c \/ (variant = "rats" /\ cpc \notin EarlyPcs /\ s2c' \in Seq(Msgs \X Parts) /\ Replies'),
           rootKey' = rootKey \/ StoredKeyExplained',
           UNCHANGED <<world, client, slot>>
    PROVE  SessionInv'
<1> USE DEF world, client
<1>0. c2s \in Seq(Msgs \X Parts) /\ s2c' \in Seq(Msgs \X Parts)
  BY DEF SessionInv, Control
<1>1. /\ c2s' \in Seq(Msgs \X Parts)
      /\ \A i \in 1 .. Len(c2s') : \E j \in 1 .. Len(c2s) : c2s'[i] = c2s[j]
  <2>1. CASE c2s' = c2s
    BY <1>0, <2>1
  <2>2. CASE c2s # <<>> /\ c2s' = Tail(c2s)
    BY <1>0, <2>2, SeqFacts
  <2> QED
    BY <2>1, <2>2
<1>2. Control'
  BY <1>0, <1>1 DEF SessionInv, Control
<1>3. Verdicts'
  BY <1>1 DEF SessionInv, Verdicts, Has, ServerTrustsVerdict
<1>4. Requests'
  <2>1. \A r : c2s = <<r>> => c2s' = c2s \/ c2s' = <<>>
    BY Shorts
  <2>2. c2s = <<>> => c2s' = <<>>
    OBVIOUS
  <2> QED
    BY <2>1, <2>2 DEF SessionInv, Requests, Asks, Quiet, ImaReply, LogReply, NotNew, WantsFirmware, EarlyPcs
<1>5. Replies'
  BY DEF SessionInv, Replies, Stale
<1>6. KeyOrder' /\ Announced'
  BY DEF KeyOrder, Announced
<1>7. Samples'
  BY <1>1 DEF SessionInv, Samples
<1>8. SuccessSendsKey' /\ StoredKeyExplained'
  BY DEF SessionInv, SuccessSendsKey, StoredKeyExplained
<1> QED
  BY <1>2, <1>3, <1>4, <1>5, <1>6, <1>7, <1>8 DEF SessionInv

\* A step of a rats-tls client before its verdict need only keep Requests.
LEMMA EarlyStep ==
    ASSUME SessionInv, variant = "rats", cpc \in EarlyPcs, cpc' \in EarlyPcs,
           \/ c2s' = <<>>
           \/ \E m \in {"REQUEST_IMA", "CCEL_TABLE", "EVENT_LOG"} : c2s' = <<Chunk(m)>>,
           s2c' \in Seq(Msgs \X Parts),
           UNCHANGED <<world, server, verified, pkgSent, cRet>>, Requests'
    PROVE  SessionInv'
<1> USE DEF world, server, EarlyPcs
<1>1. \A i \in 1 .. Len(c2s') : \E m \in {"REQUEST_IMA", "CCEL_TABLE", "EVENT_LOG"} : c2s'[i] = <<m, "whole">>
  BY DEF Chunk
<1>2. c2s' \in Seq(Msgs \X Parts)
  BY ShortSeqs, EmptySeq DEF Msgs, SampleIds
<1>3. Control'
  BY <1>2 DEF SessionInv, Control, CPcs, RecvPcs, SendPcs
<1>4. ~ verified /\ ~ pkgSent /\ spc \in {"recv", "done"} /\ cRet # "ok"
  BY DEF SessionInv, Control, Requests
<1>5. Verdicts'
  BY <1>1, <1>4 DEF SessionInv, Verdicts, Has, Chunk, ServerTrustsVerdict
<1>6. KeyOrder' /\ Announced' /\ Replies'
  BY <1>1, <1>4 DEF KeyOrder, Announced, Replies, Chunk
<1>7. Samples' /\ SuccessSendsKey' /\ StoredKeyExplained'
  BY <1>4 DEF SessionInv, Samples, SuccessSendsKey, StoredKeyExplained
<1> QED
  BY <1>3, <1>5, <1>6, <1>7 DEF SessionInv

\* The step that ends the verification with success.
LEMMA FdeStep ==
    ASSUME SessionInv, variant = "rats", cpc \in {"firmware", "verify"}, cpc' = "fde", verified' = TRUE,
           s2c = <<>> \/ (s2c = <<Chunk("log")>> /\ Stale),
           UNCHANGED <<world, server, c2s, s2c, got, pkgSent, cRet>>
    PROVE  SessionInv'
<1> USE DEF world, server
<1>1. c2s = <<>> /\ spc \in {"recv", "done"} /\ ~ pkgSent /\ cRet # "ok"
  BY DEF SessionInv, Control, Requests, Quiet
<1>2. Control'
  BY DEF SessionInv, Control, CPcs, RecvPcs, SendPcs
<1>3. Verdicts'
  BY <1>1 DEF SessionInv, Verdicts, Has, ServerTrustsVerdict
<1>4. Requests'
  BY <1>1 DEF Requests
<1>5. Replies'
  BY DEF Replies, Stale
<1>6. KeyOrder' /\ Announced'
  BY <1>1 DEF KeyOrder, Announced
<1>7. Samples' /\ SuccessSendsKey' /\ StoredKeyExplained'
  BY <1>1 DEF SessionInv, Samples, SuccessSendsKey, StoredKeyExplained
<1> QED
  BY <1>2, <1>3, <1>4, <1>5, <1>6, <1>7 DEF SessionInv

\* The steps of rats_tls_client_startup up to its verdict.
LEMMA RatsClientEarly ==
    ASSUME SessionInv, deal_ima \/ ima_log_size \/ ima_log_data \/ request_table \/ receive_table
                 \/ receive_log_size \/ receive_log_data \/ firmware_verdict \/ client_receive_fails
    PROVE  SessionInv'
<1> USE DEF Kept, server
<1>0. c2s \in Seq(Msgs \X Parts) /\ s2c \in Seq(Msgs \X Parts) /\ <<>> \in Seq(Msgs \X Parts)
  BY EmptySeq DEF SessionInv, Control
<1>1. s2c # <<>> => Tail(s2c) \in Seq(Msgs \X Parts)
  BY <1>0, SeqFacts
<1>2. cpc \in {"ima", "ima_size", "ima_data", "firmware"} => variant = "rats"
  BY DEF SessionInv, Control, Variants
<1>3. CASE deal_ima
  <2>1. variant = "rats" /\ Quiet /\ spc \in {"recv", "done"} /\ NotNew
    BY <1>2, <1>3 DEF deal_ima, SessionInv, Requests
  <2>2. /\ cpc' \in EarlyPcs /\ cpc \in EarlyPcs
        /\ c2s' = <<>> \/ c2s' = <<Chunk("REQUEST_IMA")>>
        /\ s2c' \in Seq(Msgs \X Parts)
        /\ UNCHANGED <<world, server, verified, pkgSent, cRet>>
    BY <1>0, <1>3, <2>1, Shorts DEF deal_ima, ToServer, EarlyPcs, Quiet
  <2>3. Requests'
    BY <1>3, <2>1, Shorts DEF deal_ima, Requests, ToServer, Quiet, Asks, NotNew, world
  <2> QED
    BY <2>1, <2>2, <2>3, EarlyStep
<1>4. CASE ima_log_size
  <2>1. variant = "rats" /\ s2c = <<Chunk("size"), Chunk("ima")>> /\ c2s = <<>> /\ spc \in {"recv", "done"} /\ NotNew
    BY <1>2, <1>4 DEF ima_log_size, SessionInv, Requests, Asks, Quiet, ImaReply
  <2>2. CASE ima = "big"
    BY <1>0, <1>1, <1>4, <2>2, ClientStops DEF ima_log_size, ClientEnds
  <2>3. CASE ima # "big"
    <3>1. /\ cpc' \in EarlyPcs /\ cpc \in EarlyPcs /\ c2s' = <<>> /\ s2c' \in Seq(Msgs \X Parts)
          /\ UNCHANGED <<world, server, verified, pkgSent, cRet>>
      BY <1>1, <1>4, <2>1, <2>3 DEF ima_log_size, EarlyPcs
    <3>2. Requests'
      BY <1>4, <2>1, <2>3, Shorts DEF ima_log_size, Requests, NotNew, world
    <3> QED
      BY <2>1, <3>1, <3>2, EarlyStep
  <2> QED
    BY <2>2, <2>3
<1>5. CASE ima_log_data
  <2>1. variant = "rats" /\ s2c = <<Chunk("ima")>> /\ c2s = <<>> /\ spc \in {"recv", "done"} /\ NotNew
    BY <1>2, <1>5 DEF ima_log_data, SessionInv, Requests
  <2>2. CASE ClientEnds("error")
    BY <1>1, <1>5, <2>2, ClientStops DEF ima_log_data, ClientEnds
  <2>3. CASE cpc' = "firmware" /\ UNCHANGED cRet
    <3>1. /\ cpc' \in EarlyPcs /\ cpc \in EarlyPcs /\ c2s' = <<>> /\ s2c' \in Seq(Msgs \X Parts)
          /\ UNCHANGED <<world, server, verified, pkgSent, cRet>>
      BY <1>1, <1>5, <2>1, <2>3 DEF ima_log_data, EarlyPcs
    <3>2. Requests'
      BY <1>5, <2>1, <2>3, Shorts DEF ima_log_data, Requests, Quiet, NotNew, world
    <3> QED
      BY <2>1, <3>1, <3>2, EarlyStep
  <2> QED
    BY <1>5, <2>2, <2>3 DEF ima_log_data
<1>6. CASE request_table
  <2>1. variant = "rats" /\ s2c = <<>> /\ c2s = <<>> /\ spc \in {"recv", "done"} /\ NotNew
    BY <1>2, <1>6 DEF request_table, SessionInv, Requests, Quiet
  <2>2. CASE WantsFirmware
    <3>1. /\ cpc' \in EarlyPcs /\ cpc \in EarlyPcs
          /\ c2s' = <<>> \/ c2s' = <<Chunk("CCEL_TABLE")>>
          /\ s2c' \in Seq(Msgs \X Parts)
          /\ UNCHANGED <<world, server, verified, pkgSent, cRet>>
      BY <1>0, <1>6, <2>1, <2>2, Shorts DEF request_table, ToServer, EarlyPcs
    <3>2. Requests'
      BY <1>6, <2>1, <2>2, Shorts DEF request_table, Requests, ToServer, Quiet, Asks, NotNew, WantsFirmware, world
    <3> QED
      BY <2>1, <3>1, <3>2, EarlyStep
  <2>3. CASE ~ WantsFirmware
    BY <1>6, <2>1, <2>3, FdeStep DEF request_table
  <2> QED
    BY <2>2, <2>3
<1>7. CASE receive_table
  <2>1. s2c = <<Chunk("table")>> /\ c2s = <<>> /\ spc \in {"recv", "done"} /\ NotNew /\ WantsFirmware
    BY <1>7 DEF receive_table, SessionInv, Requests, Asks, Quiet
  <2>2. CASE ClientEnds("error") /\ UNCHANGED c2s
    BY <1>1, <1>7, <2>2, ClientStops DEF receive_table, ClientEnds
  <2>3. CASE cpc' = "log_size" /\ ToServer(<<Chunk("EVENT_LOG")>>) /\ UNCHANGED cRet
    <3>1. /\ cpc' \in EarlyPcs /\ cpc \in EarlyPcs
          /\ c2s' = <<>> \/ c2s' = <<Chunk("EVENT_LOG")>>
          /\ s2c' \in Seq(Msgs \X Parts)
          /\ UNCHANGED <<world, server, verified, pkgSent, cRet>>
      BY <1>1, <1>7, <2>1, <2>3, Shorts DEF receive_table, ToServer, EarlyPcs
    <3>2. Requests'
      BY <1>7, <2>1, <2>3, Shorts DEF receive_table, Requests, ToServer, Quiet, Asks, NotNew, WantsFirmware, world
    <3> QED
      BY <1>7, <3>1, <3>2, EarlyStep DEF receive_table
  <2> QED
    BY <1>7, <2>2, <2>3 DEF receive_table
<1>8. CASE receive_log_size
  <2>1. /\ c2s = <<>> /\ spc \in {"recv", "done"} /\ NotNew /\ WantsFirmware
        /\ IF log = "empty" THEN s2c = <<Chunk("size")>> ELSE s2c = <<Chunk("size"), Chunk("log")>>
    BY <1>8 DEF receive_log_size, SessionInv, Requests, Asks, Quiet, LogReply
  <2>2. /\ cpc' \in EarlyPcs /\ cpc \in EarlyPcs /\ c2s' = <<>> /\ s2c' \in Seq(Msgs \X Parts)
        /\ UNCHANGED <<world, server, verified, pkgSent, cRet>>
    BY <1>1, <1>8, <2>1 DEF receive_log_size, EarlyPcs
  <2>3. s2c' = IF log = "empty" THEN <<>> ELSE <<Chunk("log")>>
    <3>1. s2c' = Tail(s2c)
      BY <1>8 DEF receive_log_size
    <3>2. CASE log = "empty"
      BY <2>1, <3>1, <3>2, Shorts
    <3>3. CASE log # "empty"
      <4>1. s2c = <<Chunk("size"), Chunk("log")>>
        BY <2>1, <3>3
      <4>2. Tail(<<Chunk("size"), Chunk("log")>>) = <<Chunk("log")>>
        OBVIOUS
      <4> QED
        BY <3>1, <3>3, <4>1, <4>2
    <3> QED
      BY <3>2, <3>3
  <2>4. /\ NotNew' /\ WantsFirmware' /\ spc' = spc /\ c2s' = <<>> /\ log' = log
        /\ cpc' = IF log \in {"empty", "big"} THEN "verify" ELSE "log_data"
    BY <1>8, <2>1 DEF receive_log_size, LogSizeRefused, NotNew, WantsFirmware, world
  <2>5. Requests'
    BY <2>1, <2>3, <2>4 DEF Requests
  <2> QED
    BY <1>8, <2>2, <2>5, EarlyStep DEF receive_log_size
<1>9. CASE receive_log_data
  <2>1. s2c = <<Chunk("log")>> /\ c2s = <<>> /\ spc \in {"recv", "done"} /\ WantsFirmware
    BY <1>9 DEF receive_log_data, SessionInv, Requests
  <2>2. CASE ClientEnds("error") /\ UNCHANGED got
    BY <1>1, <1>9, <2>2, ClientStops DEF receive_log_data, ClientEnds
  <2>3. CASE cpc' = "verify" /\ got' = [token |-> got.token, log |-> "new"] /\ UNCHANGED cRet
    <3>1. /\ cpc' \in EarlyPcs /\ cpc \in EarlyPcs /\ c2s' = <<>> /\ s2c' \in Seq(Msgs \X Parts)
          /\ UNCHANGED <<world, server, verified, pkgSent, cRet>>
      BY <1>1, <1>9, <2>1, <2>3 DEF receive_log_data, EarlyPcs
    <3>2. Requests'
      BY <1>9, <2>1, <2>3, Shorts DEF receive_log_data, Requests, WantsFirmware, world
    <3> QED
      BY <1>9, <3>1, <3>2, EarlyStep DEF receive_log_data
  <2> QED
    BY <1>9, <2>2, <2>3 DEF receive_log_data
<1>10. CASE firmware_verdict
  <2>1. /\ c2s = <<>> /\ spc \in {"recv", "done"} /\ WantsFirmware
        /\ s2c = <<>> \/ (s2c = <<Chunk("log")>> /\ log = "big" /\ NotNew)
    BY <1>10 DEF firmware_verdict, SessionInv, Requests
  <2>2. CASE cpc' = "done" /\ UNCHANGED verified /\ (cRet' = "ok" => "dump" \in opt)
    BY <1>0, <1>10, <2>2, ClientStops DEF firmware_verdict
  <2>3. CASE "dump" \notin opt /\ got.log # "none" /\ cpc' = "fde" /\ verified' = TRUE /\ UNCHANGED cRet
    <3>1. s2c = <<>> \/ (s2c = <<Chunk("log")>> /\ Stale)
      BY <2>1, <2>3 DEF Stale, NotNew, WantsFirmware
    <3> QED
      BY <1>10, <2>3, <3>1, FdeStep DEF firmware_verdict
  <2> QED
    BY <1>10, <2>2, <2>3 DEF firmware_verdict, ClientEnds
<1>11. CASE client_receive_fails
  BY <1>0, <1>11, ClientStops DEF client_receive_fails, ClientEnds, RecvPcs
<1> QED
  BY <1>3, <1>4, <1>5, <1>6, <1>7, <1>8, <1>9, <1>10, <1>11

\* What deal_fde_key sends.
LEMMA KeySent ==
    ASSUME Control, NEW q, q = <<Chunk("ENABLE_FDE")>> \o KeyChunks
    PROVE  /\ q \in Seq(Msgs \X Parts) /\ q[1] = Chunk("ENABLE_FDE")
           /\ keyfile = "absent" => Len(q) = 1
           /\ keyfile = "ok" => Len(q) = 2 /\ q[2] = Chunk("key")
           /\ keyfile = "long" => Len(q) = 3 /\ q[2] = <<"key", "head">> /\ q[3] = <<"key", "tail">>
<1>1. /\ <<Chunk("ENABLE_FDE")>> \in Seq(Msgs \X Parts) /\ Len(<<Chunk("ENABLE_FDE")>>) = 1
      /\ <<Chunk("ENABLE_FDE")>>[1] = Chunk("ENABLE_FDE")
  BY ShortSeqs DEF Msgs
<1>2. /\ KeyChunks \in Seq(Msgs \X Parts)
      /\ keyfile = "absent" => Len(KeyChunks) = 0
      /\ keyfile = "ok" => Len(KeyChunks) = 1 /\ KeyChunks[1] = Chunk("key")
      /\ keyfile = "long" => Len(KeyChunks) = 2 /\ KeyChunks[1] = <<"key", "head">> /\ KeyChunks[2] = <<"key", "tail">>
  <2>1. CASE keyfile = "absent"
    BY <2>1, EmptySeq DEF KeyChunks
  <2>2. CASE keyfile = "ok"
    <3>1. KeyChunks = <<Chunk("key")>>
      BY <2>2 DEF KeyChunks
    <3> QED
      BY <2>2, <3>1, ShortSeqs DEF Msgs
  <2>3. CASE keyfile = "long"
    <3>1. KeyChunks = << <<"key", "head">>, <<"key", "tail">> >> /\ KeyChunks = Halves("key")
      BY <2>3 DEF KeyChunks, Halves
    <3>2. KeyChunks \in Seq(Msgs \X Parts)
      BY <3>1, ShortSeqs DEF Msgs
    <3> QED
      BY <2>3, <3>1, <3>2
  <2> QED
    BY <2>1, <2>2, <2>3 DEF Control
<1>3. Len(KeyChunks) \in Nat
  BY <1>2, SeqFacts
<1>4. /\ q \in Seq(Msgs \X Parts) /\ Len(q) = 1 + Len(KeyChunks) /\ q[1] = Chunk("ENABLE_FDE")
      /\ \A i \in 1 .. Len(KeyChunks) : q[1 + i] = KeyChunks[i]
  BY <1>1, <1>2, <1>3, ConcatProperties
<1> QED
  BY <1>2, <1>3, <1>4

\* deal_fde_key keeps the invariant.
LEMMA FdeKeySent == ASSUME SessionInv, deal_fde_key PROVE SessionInv'
<1> USE DEF deal_fde_key, Kept, world, server
<1>1. /\ variant = "rats" /\ c2s = <<>> /\ spc \in {"recv", "done"} /\ verified /\ ~ pkgSent
      /\ cRet # "ok" /\ s2c \in Seq(Msgs \X Parts) /\ Control
      /\ keyfile \in {"absent", "ok", "long"}
  BY DEF SessionInv, Control, Requests, Variants
<1>2. \/ c2s' = <<>>
      \/ spc = "recv" /\ "fde" \in opt /\ c2s' = <<Chunk("ENABLE_FDE")>> \o KeyChunks
  <2>1. CASE "fde" \in opt /\ spc = "recv"
    <3>1. <<Chunk("ENABLE_FDE")>> \o KeyChunks \in Seq(Msgs \X Parts)
      BY <1>1, KeySent
    <3> QED
      BY <1>1, <2>1, <3>1, ConcatEmptySeq DEF ToServer
  <2>2. CASE ~ ("fde" \in opt /\ spc = "recv")
    BY <1>1, <2>2 DEF ToServer
  <2> QED
    BY <2>1, <2>2
<1>3. c2s' # <<>> =>
      /\ spc = "recv" /\ "fde" \in opt /\ c2s'[1] = Chunk("ENABLE_FDE")
      /\ keyfile = "ok" => c2s'[2] = Chunk("key")
      /\ keyfile = "long" => c2s'[2] = <<"key", "head">> /\ c2s'[3] = <<"key", "tail">>
  BY <1>1, <1>2, KeySent
<1>30. c2s' # <<>> => \/ keyfile = "absent" /\ Len(c2s') = 1
                      \/ keyfile = "ok" /\ Len(c2s') = 2
                      \/ keyfile = "long" /\ Len(c2s') = 3
  BY <1>1, <1>2, KeySent
<1>4. c2s' \in Seq(Msgs \X Parts)
  BY <1>1, <1>2, KeySent, EmptySeq
<1>5. Control'
  BY <1>1, <1>4 DEF Control, CPcs, SendPcs
<1>6. \A i \in 1 .. Len(c2s') :
         /\ c2s'[i] \in {Chunk("ENABLE_FDE")} \cup {"key"} \X Parts
         /\ spc = "recv" /\ "fde" \in opt
         /\ i = 1 => c2s'[i] = Chunk("ENABLE_FDE")
         /\ i # 1 => \/ keyfile = "ok" /\ i = 2 /\ Len(c2s') = 2 /\ c2s'[2] = Chunk("key")
                     \/ keyfile = "long" /\ c2s'[i] # Chunk("ENABLE_FDE")
  <2> SUFFICES ASSUME NEW i \in 1 .. Len(c2s')
               PROVE /\ c2s'[i] \in {Chunk("ENABLE_FDE")} \cup {"key"} \X Parts
                     /\ spc = "recv" /\ "fde" \in opt
                     /\ i = 1 => c2s'[i] = Chunk("ENABLE_FDE")
                     /\ i # 1 => \/ keyfile = "ok" /\ i = 2 /\ Len(c2s') = 2 /\ c2s'[2] = Chunk("key")
                                 \/ keyfile = "long" /\ c2s'[i] # Chunk("ENABLE_FDE")
    OBVIOUS
  <2>1. c2s' # <<>> /\ Len(c2s') \in Nat
    BY <1>4, SeqFacts
  <2>2. i = 1 \/ (i = 2 /\ keyfile = "ok") \/ (i \in {2, 3} /\ keyfile = "long")
    <3> HIDE DEF deal_fde_key, Kept, world, server
    <3> DEFINE n == Len(c2s')
    <3>1. i \in 1 .. n /\ (n = 1 \/ (n = 2 /\ keyfile = "ok") \/ (n = 3 /\ keyfile = "long"))
      BY <1>30, <2>1
    <3> HIDE DEF n
    <3> QED
      BY <3>1
  <2>3. Chunk("ENABLE_FDE") # <<"key", "head">> /\ Chunk("ENABLE_FDE") # <<"key", "tail">>
        /\ Chunk("key") \in {"key"} \X Parts /\ <<"key", "head">> \in {"key"} \X Parts /\ <<"key", "tail">> \in {"key"} \X Parts
    BY DEF Chunk, Parts
  <2> QED
    BY <1>1, <1>3, <1>30, <2>1, <2>2, <2>3
<1>7. Verdicts'
  <2>1. \A i \in 1 .. Len(c2s') : c2s'[i] # Chunk("package") /\ c2s'[i][1] # "SUCCESS"
    BY <1>6 DEF Chunk
  <2> QED
    BY <1>1, <2>1 DEF SessionInv, Verdicts, Has, ServerTrustsVerdict
<1>8. Requests' /\ Announced'
  BY <1>1 DEF Requests, Announced
<1>9. Replies'
  BY <1>1 DEF SessionInv, Replies, Stale
<1>10. KeyOrder'
  <2> SUFFICES ASSUME NEW i \in 1 .. Len(c2s')
               PROVE  /\ c2s'[i] \in {Chunk(m) : m \in {"ENABLE_FDE", "MSK_SEND", "package", "frame"}} \cup {"key"} \X Parts
                      /\ c2s'[i] = Chunk("ENABLE_FDE") => "fde" \in opt /\ KeyAt(i + 1)'
                      /\ c2s'[i][1] = "key" =>
                          "fde" \in opt /\ (keyfile = "long" \/ IF i = 1 THEN spc' = "key" ELSE c2s'[i - 1] = Chunk("ENABLE_FDE"))
                      /\ c2s'[i][1] # "frame" /\ c2s'[i][1] # "MSK_SEND"
    BY <1>1 DEF KeyOrder
  <2>1. c2s'[i] \in {Chunk(m) : m \in {"ENABLE_FDE", "MSK_SEND", "package", "frame"}} \cup {"key"} \X Parts
    BY <1>6
  <2>2. c2s'[i][1] # "frame" /\ c2s'[i][1] # "MSK_SEND" /\ (c2s'[i] = Chunk("ENABLE_FDE") => c2s'[i][1] # "key")
    BY <1>6 DEF Chunk
  <2>3. c2s'[i] = Chunk("ENABLE_FDE") => "fde" \in opt /\ KeyAt(i + 1)'
    <3> SUFFICES ASSUME c2s'[i] = Chunk("ENABLE_FDE") PROVE KeyAt(i + 1)'
      BY <1>6
    <3>1. i = 1 /\ c2s' # <<>>
      BY <1>4, <1>6, SeqFacts DEF Chunk
    <3>2. keyfile' = keyfile /\ cpc' = "msk"
      OBVIOUS
    <3>3. CASE keyfile = "absent"
      BY <1>30, <3>1, <3>2, <3>3 DEF KeyAt
    <3>4. CASE keyfile # "absent"
      <4>1. c2s'[2] = KeyFirst' /\ 2 \in 1 .. Len(c2s')
        <5> HIDE DEF deal_fde_key, Kept, world, server
        <5>1. (keyfile = "ok" /\ Len(c2s') = 2) \/ (keyfile = "long" /\ Len(c2s') = 3)
          BY <1>30, <3>1, <3>4
        <5>2. 2 \in 1 .. Len(c2s')
          BY <5>1
        <5> QED
          BY <1>3, <3>1, <3>2, <5>1, <5>2 DEF KeyFirst
      <4> QED
        BY <3>1, <4>1 DEF KeyAt
    <3> QED
      BY <3>3, <3>4
  <2>4. c2s'[i][1] = "key" => i # 1 /\ "fde" \in opt /\ (keyfile = "long" \/ c2s'[i - 1] = Chunk("ENABLE_FDE"))
    BY <1>4, <1>6, <2>2
  <2> QED
    BY <2>1, <2>2, <2>3, <2>4
<1>11. Samples' /\ SuccessSendsKey' /\ StoredKeyExplained'
  BY <1>1 DEF SessionInv, Samples, SuccessSendsKey, StoredKeyExplained
<1> QED
  BY <1>5, <1>7, <1>8, <1>9, <1>10, <1>11 DEF SessionInv

\* A message sent after the key leaves the key where it is.
LEMMA KeyOrderSend ==
    ASSUME SessionInv, variant = "rats", spc # "done", cpc \in {"msk", "reply", "session"}, cpc' \in {"reply", "session"},
           NEW m \in {"MSK_SEND", "package", "frame"}, c2s' = c2s \o <<Chunk(m)>>,
           cpc = "msk" => m = "MSK_SEND", m = "frame" => cpc' = "session",
           cpc = "session" => cpc' = "session",
           UNCHANGED <<world, spc>>
    PROVE  KeyOrder'
<1> USE DEF world
<1> DEFINE n == Len(c2s)
<1>1. c2s \in Seq(Msgs \X Parts) /\ n \in Nat /\ Chunk(m) \in Msgs \X Parts
  BY SeqFacts, ShortSeqs DEF SessionInv, Control, Msgs, SampleIds
<1>2. Len(c2s') = n + 1 /\ c2s'[n + 1] = Chunk(m) /\ \A i \in 1 .. n : c2s'[i] = c2s[i]
  BY <1>1, OneMore
<1>3. KeyOrder /\ keyfile' = keyfile /\ opt' = opt /\ spc' = spc
  BY DEF SessionInv
<1>4. ASSUME NEW i \in 1 .. n + 1, KeyAt(i) PROVE KeyAt(i)'
  <2>1. CASE keyfile = "absent" /\ i = n + 1 /\ cpc = "msk"
    <3>1. c2s'[i] = KeyFirst'
      BY <1>2, <1>3, <2>1 DEF KeyFirst
    <3>2. i \in 1 .. Len(c2s')
      BY <1>1, <1>2
    <3> QED
      BY <3>1, <3>2 DEF KeyAt
  <2>2. CASE i \in 1 .. n /\ c2s[i] = KeyFirst
    <3>1. c2s'[i] = KeyFirst'
      BY <1>2, <1>3, <2>2 DEF KeyFirst
    <3>2. i \in 1 .. Len(c2s')
      BY <1>1, <1>2
    <3> QED
      BY <3>1, <3>2 DEF KeyAt
  <2> QED
    BY <1>4, <2>1, <2>2 DEF KeyAt
<1>5. spc' = "key" => "fde" \in opt' /\ KeyAt(1)'
  BY <1>1, <1>3, <1>4 DEF KeyOrder
<1>6. ASSUME NEW i \in 1 .. Len(c2s')
      PROVE  /\ c2s'[i] \in {Chunk(k) : k \in {"ENABLE_FDE", "MSK_SEND", "package", "frame"}} \cup {"key"} \X Parts
             /\ c2s'[i] = Chunk("ENABLE_FDE") => "fde" \in opt' /\ KeyAt(i + 1)'
             /\ c2s'[i][1] = "key" =>
                  "fde" \in opt' /\ (keyfile' = "long" \/ IF i = 1 THEN spc' = "key" ELSE c2s'[i - 1] = Chunk("ENABLE_FDE"))
             /\ c2s'[i][1] = "frame" => cpc' \in {"session", "done"}
             /\ c2s'[i][1] = "MSK_SEND" => cpc' \in {"reply", "session", "done"}
  <2>1. CASE i = n + 1
    <3>1. c2s'[i] = Chunk(m) /\ Chunk(m)[1] = m /\ Chunk("ENABLE_FDE") # Chunk(m)
      BY <1>2, <2>1 DEF Chunk
    <3> QED
      BY <3>1
  <2>2. CASE i \in 1 .. n
    <3>1. c2s'[i] = c2s[i] /\ (i # 1 => c2s'[i - 1] = c2s[i - 1]) /\ i + 1 \in 1 .. n + 1
      BY <1>1, <1>2, <2>2
    <3>2. /\ c2s[i] \in {Chunk(k) : k \in {"ENABLE_FDE", "MSK_SEND", "package", "frame"}} \cup {"key"} \X Parts
          /\ c2s[i] = Chunk("ENABLE_FDE") => "fde" \in opt /\ KeyAt(i + 1)
          /\ c2s[i][1] = "key" =>
               "fde" \in opt /\ (keyfile = "long" \/ IF i = 1 THEN spc = "key" ELSE c2s[i - 1] = Chunk("ENABLE_FDE"))
          /\ c2s[i][1] = "frame" => cpc \in {"session", "done"}
      BY <1>3, <2>2 DEF KeyOrder
    <3> QED
      BY <1>3, <1>4, <3>1, <3>2
  <2> QED
    BY <1>1, <1>2, <2>1, <2>2
<1> QED
  BY <1>3, <1>5, <1>6 DEF KeyOrder

\* What a stream holds after one more chunk.
LEMMA HasSend ==
    ASSUME NEW S, NEW q \in Seq(S), NEW x \in S
    PROVE  /\ Has(q \o <<x>>, x)
           /\ \A y : Has(q, y) => Has(q \o <<x>>, y)
           /\ \A y : Has(q \o <<x>>, y) => Has(q, y) \/ y = x
<1>1. Len(q) \in Nat
  BY SeqFacts
<1> QED
  BY <1>1, OneMore DEF Has

\* What a stream holds after its head was received.
LEMMA HasTail ==
    ASSUME NEW S, NEW q \in Seq(S), q # <<>>
    PROVE  /\ \A y : Has(q, y) => Head(q) = y \/ Has(Tail(q), y)
           /\ \A y : Has(Tail(q), y) => Has(q, y)
<1>1. Len(q) \in Nat /\ Head(q) = q[1] /\ Len(Tail(q)) = Len(q) - 1
      /\ \A i \in 1 .. Len(Tail(q)) : i + 1 \in 1 .. Len(q) /\ Tail(q)[i] = q[i + 1]
  BY SeqFacts
<1>2. \A i \in 1 .. Len(q) : i = 1 \/ (i - 1 \in 1 .. Len(Tail(q)) /\ Tail(q)[i - 1] = q[i])
  BY <1>1
<1> QED
  BY <1>1, <1>2 DEF Has

\* One more chunk in the stream to the server.
LEMMA SendFacts ==
    ASSUME Control, NEW m \in Msgs, c2s' = c2s \o <<Chunk(m)>>
    PROVE  /\ c2s' \in Seq(Msgs \X Parts) /\ Has(c2s', Chunk(m))
           /\ \A y : Has(c2s, y) => Has(c2s', y)
           /\ \A i \in 1 .. Len(c2s') : c2s'[i] = Chunk(m) \/ \E j \in 1 .. Len(c2s) : c2s'[i] = c2s[j]
<1> DEFINE q == c2s \o <<Chunk(m)>>
<1>1. c2s \in Seq(Msgs \X Parts) /\ Chunk(m) \in Msgs \X Parts
  BY ShortSeqs DEF Control
<1>2. q \in Seq(Msgs \X Parts) /\ Has(q, Chunk(m)) /\ \A y : Has(c2s, y) => Has(q, y)
  BY <1>1, OneMore, HasSend
<1>3. \A i \in 1 .. Len(q) : q[i] = Chunk(m) \/ \E j \in 1 .. Len(c2s) : q[i] = c2s[j]
  <2>1. Len(c2s) \in Nat
    BY <1>1, SeqFacts
  <2>2. Len(q) = Len(c2s) + 1 /\ q[Len(c2s) + 1] = Chunk(m) /\ \A i \in 1 .. Len(c2s) : q[i] = c2s[i]
    BY <1>1, OneMore
  <2> HIDE DEF q
  <2> QED
    BY <2>1, <2>2
<1> HIDE DEF q
<1>4. c2s' = q
  BY DEF q
<1> QED
  BY <1>2, <1>3, <1>4

\* The announcement of the session key keeps the invariant.
LEMMA MskSent == ASSUME SessionInv, send_msk PROVE SessionInv'
<1> USE DEF send_msk, Kept, world, server
<1>1. /\ variant = "rats" /\ verified /\ ~ pkgSent /\ cRet # "ok" /\ Control
      /\ c2s \in Seq(Msgs \X Parts) /\ Chunk("MSK_SEND") \in Msgs \X Parts
      /\ spc \notin {"package", "session"}
  BY ShortSeqs DEF SessionInv, Control, Variants, Announced, Verdicts, Msgs
<1>2. \/ spc = "done" /\ c2s' = c2s
      \/ spc # "done" /\ c2s' = c2s \o <<Chunk("MSK_SEND")>>
  BY DEF ToServer
<1>3. /\ c2s' \in Seq(Msgs \X Parts) /\ (spc # "done" => Has(c2s', Chunk("MSK_SEND")))
      /\ \A i \in 1 .. Len(c2s') : c2s'[i] = Chunk("MSK_SEND") \/ \E j \in 1 .. Len(c2s) : c2s'[i] = c2s[j]
  <2>1. CASE spc = "done"
    BY <1>1, <1>2, <2>1
  <2>2. CASE spc # "done"
    BY <1>1, <1>2, <2>2, SendFacts DEF Msgs
  <2> QED
    BY <2>1, <2>2
<1>4. Control'
  BY <1>1, <1>3 DEF Control, CPcs, RecvPcs
<1>5. Verdicts'
  <2>1. \A i \in 1 .. Len(c2s') : /\ c2s'[i] = Chunk("package") => Has(c2s, Chunk("package"))
                                  /\ c2s'[i][1] = "SUCCESS" => verified
    <3>1. Chunk("MSK_SEND") # Chunk("package") /\ Chunk("MSK_SEND")[1] # "SUCCESS"
      BY DEF Chunk
    <3> QED
      BY <1>3, <3>1 DEF SessionInv, Verdicts, Has
  <2>2. Has(c2s', Chunk("package")) => Has(c2s, Chunk("package"))
    BY <2>1 DEF Has
  <2> QED
    BY <1>1, <2>1, <2>2 DEF SessionInv, Verdicts, ServerTrustsVerdict
<1>6. Requests'
  BY <1>1 DEF Requests
<1>7. Replies'
  BY <1>1 DEF SessionInv, Replies, Stale
<1>8. KeyOrder'
  <2>1. CASE spc = "done"
    BY <2>1 DEF KeyOrder
  <2>2. CASE spc # "done"
    BY <1>1, <1>2, <2>2, KeyOrderSend
  <2> QED
    BY <2>1, <2>2
<1>9. Announced'
  BY <1>1, <1>3 DEF Announced
<1>10. Samples' /\ SuccessSendsKey' /\ StoredKeyExplained'
  BY <1>1 DEF SessionInv, Samples, SuccessSendsKey, StoredKeyExplained
<1> QED
  BY <1>4, <1>5, <1>6, <1>7, <1>8, <1>9, <1>10 DEF SessionInv

\* So does the reply, whatever it is.
LEMMA ReplyReceived == ASSUME SessionInv, receive_reply PROVE SessionInv'
<1> USE DEF receive_reply, world, server
<1>1. /\ variant = "rats" /\ verified /\ ~ pkgSent /\ cRet # "ok" /\ Control /\ spc # "session" /\ "package" \in Msgs
      /\ c2s \in Seq(Msgs \X Parts) /\ s2c \in Seq(Msgs \X Parts) /\ s2c # <<>>
  BY DEF SessionInv, Control, Variants, Verdicts, Msgs
<1>2. Tail(s2c) \in Seq(Msgs \X Parts) /\ Head(s2c) = s2c[1] /\ 1 \in 1 .. Len(s2c)
  BY <1>1, SeqFacts
<1>3. \/ Head(s2c) = Chunk("log") /\ Stale
      \/ Head(s2c) = Chunk("MSK_ACK") /\ spc \in {"package", "done"}
      \/ Head(s2c) = Chunk("REFUSED") /\ spc = "done" /\ "fde" \in opt /\ keyfile = "long"
  BY <1>1, <1>2 DEF SessionInv, Replies
<1>4. \/ Head(s2c) = Chunk("MSK_ACK") /\ pkgSent' = TRUE /\ spc = "done" /\ c2s' = c2s
      \/ Head(s2c) = Chunk("MSK_ACK") /\ pkgSent' = TRUE /\ spc = "package" /\ c2s' = c2s \o <<Chunk("package")>>
      \/ Head(s2c) # Chunk("MSK_ACK") /\ pkgSent' = pkgSent /\ c2s' = c2s /\ (Stale \/ ("fde" \in opt /\ keyfile = "long" /\ spc = "done"))
  <2>1. CASE Head(s2c) = Chunk("MSK_ACK")
    <3>1. pkgSent' = TRUE /\ c2s' = IF spc = "done" THEN c2s ELSE c2s \o <<Chunk("package")>>
      BY <2>1 DEF ToServer
    <3>2. spc \in {"package", "done"}
      BY <1>3, <2>1 DEF Chunk
    <3> QED
      BY <2>1, <3>1, <3>2
  <2>2. CASE Head(s2c) # Chunk("MSK_ACK")
    <3>1. pkgSent' = pkgSent /\ c2s' = c2s
      BY <2>2
    <3> QED
      BY <1>3, <2>2, <3>1
  <2> QED
    BY <2>1, <2>2
<1>5. /\ c2s' \in Seq(Msgs \X Parts) /\ (c2s' # c2s => Has(c2s', Chunk("package")) /\ pkgSent')
      /\ \A y : Has(c2s, y) => Has(c2s', y)
      /\ \A i \in 1 .. Len(c2s') : (c2s'[i] = Chunk("package") /\ pkgSent') \/ \E j \in 1 .. Len(c2s) : c2s'[i] = c2s[j]
  <2>1. CASE c2s' = c2s
    BY <1>1, <2>1
  <2>2. CASE pkgSent' = TRUE /\ c2s' = c2s \o <<Chunk("package")>>
    BY <1>1, <2>2, SendFacts
  <2> QED
    BY <1>4, <2>1, <2>2
<1>6. Control'
  BY <1>1, <1>2, <1>5 DEF Control, CPcs
<1>7. Verdicts'
  <2>1. pkgSent => pkgSent'
    BY <1>1
  <2>2. ASSUME NEW i \in 1 .. Len(c2s'), c2s'[i] = Chunk("package") PROVE pkgSent'
    BY <1>5, <2>1, <2>2 DEF SessionInv, Verdicts, Has
  <2>3. Has(c2s', Chunk("package")) => pkgSent'
    BY <2>2 DEF Has
  <2>4. verified' = verified /\ verified /\ (spc = "fde_info" => FALSE) /\ spc' = spc /\ msgId' = msgId /\ sRet' = sRet /\ slot' = slot
    BY <1>1 DEF Control
  <2> QED
    BY <1>1, <2>1, <2>3, <2>4 DEF SessionInv, Verdicts, ServerTrustsVerdict
<1>8. Requests' /\ Replies'
  BY DEF Requests, Replies
<1>9. KeyOrder'
  <2>1. CASE spc = "done"
    BY <2>1 DEF KeyOrder
  <2>2. CASE spc # "done" /\ c2s' = c2s \o <<Chunk("package")>>
    BY <1>1, <2>2, KeyOrderSend
  <2>3. CASE c2s' = c2s
    BY <1>1, <2>3 DEF SessionInv, KeyOrder, KeyAt, KeyFirst
  <2> QED
    BY <1>4, <2>1, <2>2, <2>3
<1>10. Announced'
  <2>1. spc \in {"recv", "key"} => Has(c2s', Chunk("MSK_SEND")) \/ ("fde" \in opt /\ keyfile = "absent")
    BY <1>1, <1>5 DEF SessionInv, Announced
  <2>2. /\ spc = "package" => Has(c2s', Chunk("package")) \/ log = "big"
        /\ spc \in {"recv", "key"} => log = "big"
    BY <1>1, <1>4, SendFacts DEF Stale
  <2> QED
    BY <2>1, <2>2 DEF Announced
<1>11. Samples' /\ StoredKeyExplained'
  BY <1>1 DEF SessionInv, Samples, StoredKeyExplained
<1>12. SuccessSendsKey'
  BY <1>4 DEF SuccessSendsKey, Stale
<1> QED
  BY <1>6, <1>7, <1>8, <1>9, <1>10, <1>11, <1>12 DEF SessionInv

\* So does a frame of the integrity session.
LEMMA FrameSent == ASSUME SessionInv, session_frame PROVE SessionInv'
<1> USE DEF session_frame, world, client, server
<1>1. /\ c2s \in Seq(Msgs \X Parts) /\ Control /\ verified /\ "frame" \in Msgs
      /\ c2s' = c2s \o <<Chunk("frame")>>
  BY DEF SessionInv, Control, Msgs, ToServer
<1>2. /\ c2s' \in Seq(Msgs \X Parts)
      /\ \A y : Has(c2s, y) => Has(c2s', y)
      /\ \A i \in 1 .. Len(c2s') : c2s'[i] = Chunk("frame") \/ \E j \in 1 .. Len(c2s) : c2s'[i] = c2s[j]
  BY <1>1, SendFacts
<1>3. Control'
  BY <1>1, <1>2 DEF Control
<1>4. Verdicts'
  <2>1. Chunk("frame") # Chunk("package")
    BY DEF Chunk
  <2>2. Has(c2s', Chunk("package")) => Has(c2s, Chunk("package"))
    BY <1>2, <2>1 DEF Has
  <2>3. spc # "fde_info"
    BY <1>1 DEF Control
  <2> QED
    BY <1>1, <2>2, <2>3 DEF SessionInv, Verdicts, ServerTrustsVerdict
<1>5. Requests' /\ Replies'
  BY DEF Requests, Replies
<1>6. KeyOrder'
  BY <1>1, KeyOrderSend
<1>7. Announced'
  BY <1>2 DEF SessionInv, Announced
<1>8. Samples' /\ StoredKeyExplained' /\ SuccessSendsKey'
  BY <1>1 DEF SessionInv, Samples, StoredKeyExplained, SuccessSendsKey
<1> QED
  BY <1>3, <1>4, <1>5, <1>6, <1>7, <1>8 DEF SessionInv

\* One chunk fewer in the stream to the server.
LEMMA TailFacts ==
    ASSUME Control, c2s # <<>>, c2s' = Tail(c2s)
    PROVE  /\ c2s' \in Seq(Msgs \X Parts) /\ Head(c2s) = c2s[1] /\ 1 \in 1 .. Len(c2s)
           /\ Len(c2s) \in Nat /\ Len(c2s') = Len(c2s) - 1
           /\ \A i \in 1 .. Len(c2s') : i + 1 \in 1 .. Len(c2s) /\ c2s'[i] = c2s[i + 1]
           /\ \A y : Has(c2s, y) => Head(c2s) = y \/ Has(c2s', y)
           /\ \A y : Has(c2s', y) => Has(c2s, y)
<1>1. c2s \in Seq(Msgs \X Parts)
  BY DEF Control
<1>2. /\ Tail(c2s) \in Seq(Msgs \X Parts) /\ Head(c2s) = c2s[1] /\ 1 \in 1 .. Len(c2s)
      /\ Len(c2s) \in Nat /\ Len(Tail(c2s)) = Len(c2s) - 1
      /\ \A i \in 1 .. Len(Tail(c2s)) : i + 1 \in 1 .. Len(c2s) /\ Tail(c2s)[i] = c2s[i + 1]
  BY <1>1, SeqFacts
<1>3. /\ \A y : Has(c2s, y) => Head(c2s) = y \/ Has(Tail(c2s), y)
      /\ \A y : Has(Tail(c2s), y) => Has(c2s, y)
  BY <1>1, HasTail
<1> QED
  BY <1>2, <1>3

\* A request received moves the key one place forward.
LEMMA KeyOrderTail ==
    ASSUME SessionInv, variant = "rats", spc \in {"recv", "key", "package"}, c2s # <<>>, c2s' = Tail(c2s),
           IF Head(c2s) = Chunk("ENABLE_FDE") THEN spc' = "key" ELSE spc' # "key",
           UNCHANGED <<world, cpc>>
    PROVE  KeyOrder'
<1> USE DEF world
<1>1. /\ Head(c2s) = c2s[1] /\ 1 \in 1 .. Len(c2s) /\ Len(c2s) \in Nat /\ Len(c2s') = Len(c2s) - 1
      /\ \A i \in 1 .. Len(c2s') : i + 1 \in 1 .. Len(c2s) /\ c2s'[i] = c2s[i + 1]
  BY TailFacts DEF SessionInv
<1>2. KeyOrder /\ spc # "done" /\ keyfile' = keyfile /\ opt' = opt /\ cpc' = cpc
  BY DEF SessionInv
<1>3. ASSUME NEW i \in Nat, i # 0, KeyAt(i + 1) PROVE KeyAt(i)'
  <2>1. CASE keyfile = "absent" /\ i + 1 = Len(c2s) + 1 /\ cpc \in {"msk", "done"}
    <3>1. i = Len(c2s') + 1
      <4> DEFINE n == Len(c2s) k == Len(c2s')
      <4>1. n \in Nat /\ k = n - 1
        BY <1>1
      <4>2. i + 1 = n + 1
        BY <2>1
      <4> HIDE DEF n, k
      <4>3. i = k + 1
        BY <4>1, <4>2
      <4> QED
        BY <4>3 DEF k
    <3> QED
      BY <1>2, <2>1, <3>1 DEF KeyAt
  <2>2. CASE i + 1 \in 1 .. Len(c2s) /\ c2s[i + 1] = KeyFirst
    <3>1. i \in 1 .. Len(c2s')
      BY <1>1, <1>3, <2>2
    <3>2. c2s'[i] = KeyFirst'
      BY <1>1, <1>2, <2>2, <3>1 DEF KeyFirst
    <3> QED
      BY <3>1, <3>2 DEF KeyAt
  <2> QED
    BY <1>3, <2>1, <2>2 DEF KeyAt
<1>4. spc' = "key" => "fde" \in opt' /\ KeyAt(1)'
  <2> SUFFICES ASSUME spc' = "key" PROVE "fde" \in opt /\ KeyAt(1 + 1)
    BY <1>2, <1>3
  <2>1. c2s[1] = Chunk("ENABLE_FDE")
    BY <1>1
  <2> QED
    BY <1>1, <1>2, <2>1 DEF KeyOrder
<1>5. ASSUME NEW i \in 1 .. Len(c2s')
      PROVE  /\ cpc' \in {"msk", "reply", "session"} =>
                 c2s'[i] \in {Chunk(k) : k \in {"ENABLE_FDE", "MSK_SEND", "package", "frame"}} \cup {"key"} \X Parts
             /\ c2s'[i] = Chunk("ENABLE_FDE") => "fde" \in opt' /\ KeyAt(i + 1)'
             /\ c2s'[i][1] = "key" =>
                  "fde" \in opt' /\ (keyfile' = "long" \/ IF i = 1 THEN spc' = "key" ELSE c2s'[i - 1] = Chunk("ENABLE_FDE"))
             /\ c2s'[i][1] = "frame" => cpc' \in {"session", "done"}
             /\ c2s'[i][1] = "MSK_SEND" => cpc' \in {"reply", "session", "done"}
  <2>1. i + 1 \in 1 .. Len(c2s) /\ c2s'[i] = c2s[i + 1] /\ i + 1 \in Nat /\ i + 1 # 0 /\ i + 1 # 1 /\ (i + 1) - 1 = i /\ i \in Nat
    BY <1>1
  <2>2. /\ cpc \in {"msk", "reply", "session"} =>
             c2s[i + 1] \in {Chunk(k) : k \in {"ENABLE_FDE", "MSK_SEND", "package", "frame"}} \cup {"key"} \X Parts
        /\ c2s[i + 1] = Chunk("ENABLE_FDE") => "fde" \in opt /\ KeyAt((i + 1) + 1)
        /\ c2s[i + 1][1] = "key" =>
             "fde" \in opt /\ (keyfile = "long" \/ c2s[(i + 1) - 1] = Chunk("ENABLE_FDE"))
        /\ c2s[i + 1][1] = "frame" => cpc \in {"session", "done"}
        /\ c2s[i + 1][1] = "MSK_SEND" => cpc \in {"reply", "session", "done"}
    BY <1>2, <2>1 DEF KeyOrder
  <2>3. c2s[i] = Chunk("ENABLE_FDE") => IF i = 1 THEN spc' = "key" ELSE c2s'[i - 1] = Chunk("ENABLE_FDE")
    <3>1. CASE i = 1
      BY <1>1, <3>1
    <3>2. CASE i # 1
      <4>1. i - 1 \in 1 .. Len(c2s') /\ (i - 1) + 1 = i
        BY <1>1, <3>2
      <4>2. c2s'[i - 1] = c2s[(i - 1) + 1]
        BY <1>1, <4>1
      <4> QED
        BY <3>2, <4>1, <4>2
    <3> QED
      BY <3>1, <3>2
  <2>4. c2s[i + 1] = Chunk("ENABLE_FDE") => KeyAt(i + 1)'
    BY <1>3, <2>1, <2>2
  <2> QED
    BY <1>2, <2>1, <2>2, <2>3, <2>4
<1> QED
  BY <1>4, <1>5 DEF KeyOrder

\* A step of the rats-tls server after the verdict need only keep the stream.
LEMMA LateServer ==
    ASSUME SessionInv, variant = "rats", spc \in {"recv", "key", "package"}, spc' \in {"recv", "key", "package"},
           c2s # <<>>, c2s' = Tail(c2s), cpc \notin EarlyPcs \cup {"fde"}, s2c' \in Seq(Msgs \X Parts),
           UNCHANGED <<world, client, msgId, sRet, slot>>,
           KeyOrder', Announced', Replies', StoredKeyExplained'
    PROVE  SessionInv'
<1> USE DEF world, client
<1>1. /\ c2s' \in Seq(Msgs \X Parts) /\ \A y : Has(c2s', y) => Has(c2s, y)
      /\ \A i \in 1 .. Len(c2s') : i + 1 \in 1 .. Len(c2s) /\ c2s'[i] = c2s[i + 1]
  BY TailFacts DEF SessionInv
<1>2. Control'
  BY <1>1 DEF SessionInv, Control
<1>3. Verdicts'
  BY <1>1 DEF SessionInv, Verdicts, ServerTrustsVerdict
<1>4. Requests'
  BY DEF SessionInv, Requests, EarlyPcs, Control, CPcs, RecvPcs, SendPcs
<1>5. Samples' /\ SuccessSendsKey'
  BY DEF SessionInv, Samples, SuccessSendsKey
<1> QED
  BY <1>2, <1>3, <1>4, <1>5 DEF SessionInv

\* The reply to a request before the verdict.
LEMMA RequestAnswered ==
    ASSUME SessionInv, variant = "rats", spc = "recv", c2s # <<>>, c2s' = Tail(c2s),
           \/ Head(c2s) = Chunk("REQUEST_IMA") /\ ToClient(ImaReply)
           \/ Head(c2s) = Chunk("CCEL_TABLE") /\ ToClient(<<Chunk("table")>>)
           \/ Head(c2s) = Chunk("EVENT_LOG") /\ ToClient(LogReply),
           UNCHANGED <<world, client, server>>
    PROVE  SessionInv'
<1> USE DEF world, client, server
<1>1. /\ c2s' \in Seq(Msgs \X Parts) /\ Head(c2s) = c2s[1] /\ 1 \in 1 .. Len(c2s) /\ s2c \in Seq(Msgs \X Parts)
  BY TailFacts DEF SessionInv, Control
<1>2. Head(c2s) # Chunk("ENABLE_FDE") /\ Head(c2s)[1] \notin {"ENABLE_FDE", "MSK_SEND", "package", "frame", "key"}
  BY DEF Chunk
<1>3. CASE cpc = "done"
  <2>1. s2c' = s2c
    BY <1>3 DEF ToClient
  <2>2. KeyOrder'
    BY <1>2, KeyOrderTail
  <2>3. Announced' /\ Replies' /\ StoredKeyExplained'
    BY <1>3 DEF SessionInv, Announced, Replies, StoredKeyExplained
  <2> QED
    BY <1>1, <1>3, <2>1, <2>2, <2>3, LateServer DEF EarlyPcs
<1>4. CASE cpc \in {"fde", "msk", "reply", "session"}
  <2>1. cpc # "fde"
    BY DEF SessionInv, Requests
  <2>2. c2s[1] \in {Chunk(k) : k \in {"ENABLE_FDE", "MSK_SEND", "package", "frame"}} \cup {"key"} \X Parts
    BY <1>1, <1>4, <2>1 DEF SessionInv, KeyOrder
  <2> QED
    BY <1>1, <1>2, <2>2 DEF Chunk
<1>5. CASE cpc \in EarlyPcs
  <2>1. s2c' = s2c \o (IF Head(c2s) = Chunk("REQUEST_IMA") THEN ImaReply
                       ELSE IF Head(c2s) = Chunk("CCEL_TABLE") THEN <<Chunk("table")>> ELSE LogReply)
    BY <1>5 DEF ToClient, EarlyPcs, Chunk
  <2>2. /\ s2c = <<>> /\ cpc \in {"ima_size", "table", "log_size"}
        /\ c2s = << Chunk(IF cpc = "ima_size" THEN "REQUEST_IMA" ELSE IF cpc = "table" THEN "CCEL_TABLE" ELSE "EVENT_LOG") >>
    BY <1>5 DEF SessionInv, Requests, EarlyPcs, Quiet, Asks
  <2>3. /\ c2s' = <<>>
        /\ Head(c2s) = Chunk(IF cpc = "ima_size" THEN "REQUEST_IMA" ELSE IF cpc = "table" THEN "CCEL_TABLE" ELSE "EVENT_LOG")
    BY <2>2, Shorts
  <2>4. ImaReply \in Seq(Msgs \X Parts) /\ <<Chunk("table")>> \in Seq(Msgs \X Parts) /\ LogReply \in Seq(Msgs \X Parts)
    BY ShortSeqs, EmptySeq DEF ImaReply, LogReply, Msgs
  <2>5. s2c' = IF cpc = "ima_size" THEN ImaReply ELSE IF cpc = "table" THEN <<Chunk("table")>> ELSE LogReply
    BY <2>1, <2>2, <2>3, <2>4, ConcatEmptySeq DEF Chunk
  <2>6. s2c' \in Seq(Msgs \X Parts)
    BY <2>4, <2>5
  <2>7. Requests'
    BY <2>2, <2>3, <2>5 DEF SessionInv, Requests, Asks, ImaReply, LogReply, NotNew, WantsFirmware
  <2> QED
    BY <1>5, <2>3, <2>6, <2>7, EarlyStep
<1> QED
  BY <1>3, <1>4, <1>5 DEF SessionInv, Control, CPcs, RecvPcs, SendPcs, EarlyPcs

\* deal_client_req keeps the invariant.
LEMMA ClientReqDealt == ASSUME SessionInv, deal_client_req PROVE SessionInv'
<1> USE DEF deal_client_req, Kept
<1>1. /\ variant = "rats" /\ spc = "recv" /\ c2s # <<>> /\ c2s' = Tail(c2s) /\ Control
      /\ UNCHANGED <<world, client, msgId, rootKey, slot>>
  BY DEF SessionInv
<1>2. /\ c2s' \in Seq(Msgs \X Parts) /\ Head(c2s) = c2s[1] /\ 1 \in 1 .. Len(c2s)
      /\ s2c \in Seq(Msgs \X Parts) /\ \A y : Has(c2s, y) => Head(c2s) = y \/ Has(c2s', y)
  BY <1>1, TailFacts DEF Control
<1>3. cpc \in EarlyPcs \cup {"fde"} => Head(c2s)[1] \in {"REQUEST_IMA", "CCEL_TABLE", "EVENT_LOG"}
  BY <1>1, Shorts DEF SessionInv, Requests, EarlyPcs, Quiet, Asks, Chunk
<1> HIDE DEF deal_client_req
<1>4. CASE ServerEnds("error") /\ UNCHANGED s2c
  BY <1>1, <1>4, ServerStops DEF ServerEnds
<1>5. CASE Head(c2s) = Chunk("REQUEST_IMA") /\ send_ima_log
  BY <1>1, <1>4, <1>5, RequestAnswered DEF send_ima_log, ImaReply, server
<1>6. CASE Head(c2s) = Chunk("CCEL_TABLE") /\ send_ccel_data
  BY <1>1, <1>4, <1>6, RequestAnswered DEF send_ccel_data, server
<1>7. CASE Head(c2s) = Chunk("EVENT_LOG") /\ send_event_log
  <2>1. <<Chunk("size")>> \o (IF log = "empty" THEN <<>> ELSE <<Chunk("log")>>) = LogReply
    BY Shorts, OneOne DEF LogReply
  <2> QED
    BY <1>1, <1>4, <1>7, <2>1, RequestAnswered DEF send_event_log, server
<1>8. CASE Head(c2s) = Chunk("ENABLE_FDE") /\ spc' = "key" /\ UNCHANGED <<s2c, sRet>>
  <2>1. Head(c2s)[1] = "ENABLE_FDE" /\ Head(c2s) # Chunk("MSK_SEND")
    BY <1>8 DEF Chunk
  <2>2. KeyOrder'
    BY <1>1, <1>8, KeyOrderTail DEF client
  <2>3. Announced'
    BY <1>1, <1>2, <1>8, <2>1 DEF SessionInv, Announced, world, client
  <2>4. Replies' /\ StoredKeyExplained'
    BY <1>1, <1>8 DEF SessionInv, Replies, Stale, StoredKeyExplained, world, client
  <2> QED
    BY <1>1, <1>2, <1>3, <1>8, <2>1, <2>2, <2>3, <2>4, LateServer
<1>9. CASE Head(c2s) = Chunk("MSK_SEND") /\ spc' = "package" /\ ToClient(<<Chunk("MSK_ACK")>>) /\ UNCHANGED sRet
  <2>1. Head(c2s)[1] = "MSK_SEND" /\ Head(c2s) # Chunk("ENABLE_FDE")
    BY <1>9 DEF Chunk
  <2>2. KeyOrder'
    BY <1>1, <1>9, <2>1, KeyOrderTail DEF client
  <2>3. cpc \in {"reply", "session", "done"}
    BY <1>1, <1>2, <2>1 DEF SessionInv, KeyOrder
  <2>4. Chunk("MSK_ACK") \in Msgs \X Parts
    BY ShortSeqs DEF Msgs
  <2>5. IF cpc = "done" THEN s2c' = s2c ELSE s2c' = s2c \o <<Chunk("MSK_ACK")>>
    BY <1>9 DEF ToClient
  <2>6. /\ s2c \o <<Chunk("MSK_ACK")>> \in Seq(Msgs \X Parts) /\ Has(s2c \o <<Chunk("MSK_ACK")>>, Chunk("MSK_ACK"))
        /\ \A y : Has(s2c \o <<Chunk("MSK_ACK")>>, y) => Has(s2c, y) \/ y = Chunk("MSK_ACK")
    BY <1>2, <2>4, OneMore, HasSend
  <2>7. /\ s2c' \in Seq(Msgs \X Parts) /\ (cpc = "reply" => Has(s2c', Chunk("MSK_ACK")))
        /\ \A y : Has(s2c', y) => Has(s2c, y) \/ y = Chunk("MSK_ACK")
    BY <1>2, <2>5, <2>6
  <2>8. Announced'
    BY <1>1, <1>9, <2>3, <2>7 DEF SessionInv, Announced, world, client
  <2>9. Replies'
    <3> SUFFICES ASSUME cpc = "reply", NEW i \in 1 .. Len(s2c')
                 PROVE  \/ s2c'[i] = Chunk("log") /\ Stale'
                        \/ s2c'[i] = Chunk("MSK_ACK")
      BY <1>1, <1>9, <2>3 DEF Replies, client
    <3>1. Has(s2c, s2c'[i]) \/ s2c'[i] = Chunk("MSK_ACK")
      BY <2>7 DEF Has
    <3> QED
      BY <1>1, <3>1 DEF SessionInv, Replies, Has, Stale, world
  <2>10. StoredKeyExplained'
    BY <1>1 DEF SessionInv, StoredKeyExplained, world
  <2> QED
    BY <1>1, <1>3, <1>9, <2>1, <2>2, <2>7, <2>8, <2>9, <2>10, LateServer
<1>10. CASE Head(c2s)[1] \in {"key", "frame"} /\ ToClient(<<Chunk("REFUSED")>>) /\ ServerEnds("error")
  <2>1. cpc \notin EarlyPcs \cup {"fde"} /\ c2s[1][1] \in {"key", "frame"}
    BY <1>2, <1>3, <1>10
  <2>2. cpc \in {"msk", "reply"} => "fde" \in opt /\ keyfile = "long"
    BY <1>1, <1>2, <2>1 DEF SessionInv, KeyOrder
  <2>3. Chunk("REFUSED") \in Msgs \X Parts
    BY ShortSeqs DEF Msgs
  <2>4. IF cpc = "done" THEN s2c' = s2c ELSE s2c' = s2c \o <<Chunk("REFUSED")>>
    BY <1>10 DEF ToClient
  <2>5. /\ s2c \o <<Chunk("REFUSED")>> \in Seq(Msgs \X Parts)
        /\ \A y : Has(s2c \o <<Chunk("REFUSED")>>, y) => Has(s2c, y) \/ y = Chunk("REFUSED")
    BY <1>2, <2>3, OneMore, HasSend
  <2>6. /\ s2c' \in Seq(Msgs \X Parts)
        /\ \A y : Has(s2c', y) => Has(s2c, y) \/ y = Chunk("REFUSED")
    BY <1>2, <2>4, <2>5
  <2>7. Replies'
    <3> SUFFICES ASSUME cpc \in {"msk", "reply"}, NEW i \in 1 .. Len(s2c')
                 PROVE  \/ s2c'[i] = Chunk("log") /\ Stale'
                        \/ s2c'[i] = Chunk("MSK_ACK")
                        \/ s2c'[i] = Chunk("REFUSED") /\ "fde" \in opt' /\ keyfile' = "long"
      BY <1>1, <1>10, <2>1 DEF Replies, ServerEnds, client
    <3>1. Has(s2c, s2c'[i]) \/ s2c'[i] = Chunk("REFUSED")
      BY <2>6 DEF Has
    <3> QED
      BY <1>1, <2>2, <3>1 DEF SessionInv, Replies, Has, Stale, world
  <2> QED
    BY <1>1, <1>10, <2>1, <2>6, <2>7, ServerStops DEF ServerEnds
<1> QED
  BY <1>5, <1>6, <1>7, <1>8, <1>9, <1>10 DEF deal_client_req

\* deal_rootfs_key keeps the invariant: what it stores is explained.
LEMMA RootfsKeyDealt == ASSUME SessionInv, deal_rootfs_key PROVE SessionInv'
<1>1. /\ variant = "rats" /\ spc = "key" /\ c2s # <<>> /\ c2s' = Tail(c2s) /\ Control /\ s2c' = s2c
      /\ s2c \in Seq(Msgs \X Parts) /\ UNCHANGED <<world, client, msgId, slot>>
  BY DEF SessionInv, Control, deal_rootfs_key
<1>2. /\ Head(c2s) = c2s[1] /\ \A y : Has(c2s, y) => Head(c2s) = y \/ Has(c2s', y)
  BY <1>1, TailFacts
<1>3. Head(c2s) = KeyFirst /\ "fde" \in opt /\ cpc \notin EarlyPcs \cup {"fde"} /\ keyfile \in {"absent", "ok", "long"}
  <2>1. KeyAt(1) /\ "fde" \in opt
    BY <1>1 DEF SessionInv, KeyOrder
  <2>2. 1 # Len(c2s) + 1
    BY <1>1, SeqFacts DEF Control
  <2>3. cpc \notin EarlyPcs \cup {"fde"}
    BY <1>1 DEF SessionInv, Requests, EarlyPcs
  <2> QED
    BY <1>1, <1>2, <2>1, <2>2, <2>3 DEF KeyAt, Control
<1>4. CASE rootKey' = Head(c2s) /\ spc' = "recv" /\ UNCHANGED sRet
  <2>1. Head(c2s) # Chunk("ENABLE_FDE") /\ (Head(c2s) = Chunk("MSK_SEND") => keyfile = "absent")
    BY <1>3 DEF KeyFirst, Chunk
  <2>2. KeyOrder'
    BY <1>1, <1>4, <2>1, KeyOrderTail DEF client
  <2>3. Announced'
    BY <1>1, <1>2, <1>3, <1>4, <2>1 DEF SessionInv, Announced, world, client
  <2>4. Replies'
    BY <1>1, <1>4 DEF SessionInv, Replies, Stale, world, client
  <2>5. StoredKeyExplained'
    BY <1>1, <1>3, <1>4 DEF StoredKeyExplained, KeyFirst, world
  <2> QED
    BY <1>1, <1>3, <1>4, <2>2, <2>3, <2>4, <2>5, LateServer
<1>5. CASE ServerEnds("error") /\ UNCHANGED rootKey
  BY <1>1, <1>5, ServerStops DEF ServerEnds
<1> QED
  BY <1>4, <1>5 DEF deal_rootfs_key

\* receive_and_save_msk keeps the invariant: a package is from a client that verified.
LEMMA MskSaved == ASSUME SessionInv, receive_and_save_msk PROVE SessionInv'
<1>1. /\ variant = "rats" /\ spc = "package" /\ c2s # <<>> /\ c2s' = Tail(c2s) /\ Control /\ s2c' = s2c
      /\ s2c \in Seq(Msgs \X Parts) /\ UNCHANGED <<world, client, msgId, rootKey>>
  BY DEF SessionInv, Control, receive_and_save_msk, Variants
<1>2. CASE Head(c2s) = Chunk("package") /\ slot' = TRUE /\ spc' = "session" /\ sRet' = "ok"
  <2>1. /\ c2s' \in Seq(Msgs \X Parts) /\ Head(c2s) = c2s[1] /\ 1 \in 1 .. Len(c2s)
        /\ \A y : Has(c2s', y) => Has(c2s, y)
    BY <1>1, TailFacts
  <2>2. pkgSent /\ verified /\ cpc \in {"session", "done"}
    BY <1>2, <2>1 DEF SessionInv, Verdicts, Control, Has
  <2>3. Control'
    BY <1>1, <1>2, <2>1 DEF Control, world, client
  <2>4. Verdicts'
    BY <1>1, <1>2, <2>2 DEF Verdicts, ServerTrustsVerdict, world, client
  <2>5. Requests' /\ Replies'
    BY <1>1, <2>2 DEF Requests, Replies, client
  <2>6. KeyOrder'
    BY <1>1, <1>2, KeyOrderTail DEF client, Chunk
  <2>7. Announced'
    BY <1>2 DEF Announced
  <2>8. Samples' /\ SuccessSendsKey' /\ StoredKeyExplained'
    BY <1>1, <1>2 DEF SessionInv, Samples, SuccessSendsKey, StoredKeyExplained, world, client
  <2> QED
    BY <2>3, <2>4, <2>5, <2>6, <2>7, <2>8 DEF SessionInv
<1>3. CASE ServerEnds("error") /\ UNCHANGED slot
  BY <1>1, <1>3, ServerStops DEF ServerEnds
<1> QED
  BY <1>2, <1>3 DEF receive_and_save_msk

\* So does its return before it received anything.
LEMMA MskNotReceived == ASSUME SessionInv, msk_without_context PROVE SessionInv'
BY ServerStops DEF msk_without_context, ServerEnds, Kept

\* What a read() of the samples client leaves in the stream.
LEMMA ReadsFacts ==
    ASSUME Control, NEW r \in Reads
    PROVE  /\ r.rest \in Seq(Msgs \X Parts)
           /\ r.data = <<>> => spc = "done"
           /\ \A i \in 1 .. Len(r.rest) : \E j \in 1 .. Len(s2c) :
                 r.rest[i] = s2c[j] /\ (j < Len(s2c) => i < Len(r.rest))
<1>1. s2c \in Seq(Msgs \X Parts) /\ Len(s2c) \in Nat /\ (s2c = <<>> <=> Len(s2c) = 0)
  BY SeqFacts DEF Control
<1>2. CASE s2c = <<>>
  <2>1. spc = "done" /\ r = [data |-> <<>>, rest |-> <<>>]
    BY <1>2 DEF Reads
  <2>2. r.rest = <<>>
    BY <2>1
  <2>3. Len(<<>>) = 0 /\ <<>> \in Seq(Msgs \X Parts)
    BY EmptySeq
  <2> QED
    BY <2>1, <2>2, <2>3
<1>3. CASE s2c # <<>>
  <2>1. PICK n \in 1 .. Len(s2c) : r = [data |-> SubSeq(s2c, 1, n), rest |-> SubSeq(s2c, n + 1, Len(s2c))]
    BY <1>3 DEF Reads
  <2>2. r.rest = SubSeq(s2c, n + 1, Len(s2c)) /\ r.data = SubSeq(s2c, 1, n)
    BY <2>1
  <2>3. Len(SubSeq(s2c, 1, n)) = n /\ Len(SubSeq(s2c, n + 1, Len(s2c))) = Len(s2c) - n
    BY <1>1, SubSeqProperties
  <2>4. /\ r.rest \in Seq(Msgs \X Parts)
        /\ \A i \in 1 .. Len(s2c) - n : r.rest[i] = s2c[i + n]
    BY <1>1, <2>2, SubSeqProperties
  <2>5. r.data # <<>>
    <3>1. Len(r.data) = n /\ n # 0 /\ Len(<<>>) = 0
      BY <1>1, <2>2, <2>3
    <3> QED
      BY <3>1
  <2>6. ASSUME NEW i \in 1 .. Len(r.rest) PROVE \E j \in 1 .. Len(s2c) : r.rest[i] = s2c[j] /\ (j < Len(s2c) => i < Len(r.rest))
    <3> DEFINE k == Len(s2c) l == Len(r.rest)
    <3>1. k \in Nat /\ l = k - n /\ i \in 1 .. l
      BY <1>1, <2>2, <2>3
    <3> HIDE DEF k, l
    <3>2. i + n \in 1 .. k /\ i \in 1 .. k - n /\ (i + n < k => i < l)
      BY <3>1
    <3> QED
      BY <2>4, <3>2 DEF k, l
  <2> QED
    BY <2>4, <2>5, <2>6
<1> QED
  BY <1>2, <1>3

\* A step of the samples client before its verdict.
LEMMA SampleStep ==
    ASSUME SessionInv, variant = "samples", cpc # "done", cpc' \in {"cert", "token", "table", "log_size", "log_data", "verify"},
           c2s' = c2s \/ \E m \in SampleRequests : c2s' = c2s \o <<Chunk(m)>>,
           s2c' \in Seq(Msgs \X Parts),
           \A i \in 1 .. Len(s2c') : \E j \in 1 .. Len(s2c) : s2c'[i] = s2c[j] /\ (j < Len(s2c) => i < Len(s2c')),
           cpc' \in RecvPcs => c2s' # <<>> \/ s2c' # <<>> \/ spc = "done",
           UNCHANGED <<world, server, verified, pkgSent, cRet>>
    PROVE  SessionInv'
<1> USE DEF world, server
<1>1. /\ ~ verified /\ ~ pkgSent /\ cRet # "ok" /\ spc \in {"start", "recv", "done"} /\ Control
      /\ \A i \in 1 .. Len(c2s) : c2s[i][1] \in SampleRequests
  BY DEF SessionInv, Control, Samples
<1>2. c2s' \in Seq(Msgs \X Parts) /\ \A i \in 1 .. Len(c2s') : c2s'[i][1] \in SampleRequests
  <2>1. CASE c2s' = c2s
    BY <1>1, <2>1 DEF Control
  <2>2. ASSUME NEW m \in SampleRequests, c2s' = c2s \o <<Chunk(m)>>
        PROVE  c2s' \in Seq(Msgs \X Parts) /\ \A i \in 1 .. Len(c2s') : c2s'[i][1] \in SampleRequests
    <3>1. m \in Msgs /\ Chunk(m)[1] = m
      BY DEF SampleRequests, Msgs, SampleIds, Chunk
    <3>2. /\ c2s' \in Seq(Msgs \X Parts)
          /\ \A i \in 1 .. Len(c2s') : c2s'[i] = Chunk(m) \/ \E j \in 1 .. Len(c2s) : c2s'[i] = c2s[j]
      BY <1>1, <2>2, <3>1, SendFacts
    <3> QED
      BY <1>1, <3>1, <3>2
  <2> QED
    BY <2>1, <2>2
<1>3. Control'
  BY <1>1, <1>2 DEF Control
<1>4. Verdicts'
  <2>1. \A i \in 1 .. Len(c2s') : c2s'[i] # Chunk("package") /\ c2s'[i][1] # "SUCCESS"
    <3>1. Chunk("package")[1] \notin SampleRequests /\ "SUCCESS" \notin SampleRequests
      BY DEF SampleRequests, Chunk
    <3> QED
      BY <1>2, <3>1
  <2> QED
    BY <1>1, <2>1 DEF SessionInv, Verdicts, Has, ServerTrustsVerdict
<1>5. Requests' /\ Replies' /\ KeyOrder' /\ Announced' /\ SuccessSendsKey'
  BY DEF Requests, Replies, KeyOrder, Announced, SuccessSendsKey
<1>6. Samples'
  <2>1. \A i \in 1 .. Len(s2c') : s2c'[i] = Chunk("size") => log = "empty" \/ i < Len(s2c')
    BY DEF SessionInv, Samples
  <2>2. \A i \in 1 .. Len(c2s') : c2s'[i][1] # "USE_FDE"
    BY <1>2 DEF SampleRequests
  <2> QED
    BY <1>1, <1>2, <2>1, <2>2 DEF Samples
<1>7. StoredKeyExplained'
  BY DEF SessionInv, StoredKeyExplained
<1> QED
  BY <1>3, <1>4, <1>5, <1>6, <1>7 DEF SessionInv

\* A samples client that sends its verdict and returns.
LEMMA VerdictSent ==
    ASSUME SessionInv, variant = "samples", cpc = "verify", cpc' = "done", NEW t \in Seq(Msgs \X Parts),
           c2s' = IF spc = "done" THEN c2s ELSE c2s \o t,
           \A i \in 1 .. Len(t) : t[i] # Chunk("package") /\ (t[i][1] = "SUCCESS" => verified'),
           \A i \in 1 .. Len(t) : t[i][1] = "USE_FDE" => i = Len(t) \/ t[i + 1] \in {Chunk("key"), <<"key", "head">>},
           UNCHANGED <<world, server, s2c, pkgSent>>
    PROVE  SessionInv'
<1> USE DEF world, server
<1> DEFINE n == Len(c2s) q == c2s \o t
<1>1. /\ ~ verified /\ ~ pkgSent /\ spc \in {"start", "recv", "done"} /\ Control /\ c2s \in Seq(Msgs \X Parts)
      /\ \A i \in 1 .. n : c2s[i][1] \in SampleRequests
  BY DEF SessionInv, Control, Samples
<1>2. /\ q \in Seq(Msgs \X Parts) /\ Len(q) = n + Len(t) /\ n \in Nat /\ Len(t) \in Nat
      /\ \A i \in 1 .. n : q[i] = c2s[i]
      /\ \A i \in 1 .. Len(t) : q[n + i] = t[i]
      /\ \A i \in 1 .. Len(q) : i \in 1 .. n \/ (i - n \in 1 .. Len(t) /\ q[i] = t[i - n])
  BY <1>1, CatFacts, SeqFacts
<1>3. c2s' = c2s \/ c2s' = q
  OBVIOUS
<1>4. \A i \in 1 .. n : c2s[i] # Chunk("package") /\ c2s[i][1] \notin {"SUCCESS", "USE_FDE"}
  BY <1>1 DEF SampleRequests, Chunk
<1>5. /\ c2s' \in Seq(Msgs \X Parts)
      /\ \A i \in 1 .. Len(c2s') : c2s'[i] # Chunk("package") /\ (c2s'[i][1] = "SUCCESS" => verified')
  <2> HIDE DEF q, n
  <2>1. \A i \in 1 .. Len(t) : t[i] # Chunk("package") /\ (t[i][1] = "SUCCESS" => verified')
    OBVIOUS
  <2>2. ASSUME NEW i \in 1 .. Len(q)
        PROVE  q[i] # Chunk("package") /\ (q[i][1] = "SUCCESS" => verified')
    <3>1. CASE i \in 1 .. n
      <4>1. q[i] = c2s[i]
        BY <1>2, <3>1
      <4> QED
        BY <1>4, <3>1, <4>1
    <3>2. CASE i - n \in 1 .. Len(t) /\ q[i] = t[i - n]
      BY <2>1, <3>2
    <3> QED
      BY <1>2, <3>1, <3>2
  <2>3. q \in Seq(Msgs \X Parts)
    BY <1>2
  <2>4. CASE c2s' = q
    BY <2>2, <2>3, <2>4
  <2>5. CASE c2s' = c2s
    BY <1>1, <1>4, <2>5 DEF n
  <2> QED
    BY <1>3, <2>4, <2>5
<1>6. spc # "done" => \A i \in 1 .. Len(c2s') : c2s'[i][1] = "USE_FDE" =>
                          i = Len(c2s') \/ c2s'[i + 1] \in {Chunk("key"), <<"key", "head">>}
  <2> SUFFICES ASSUME NEW i \in 1 .. Len(q), q[i][1] = "USE_FDE"
               PROVE  i = Len(q) \/ q[i + 1] \in {Chunk("key"), <<"key", "head">>}
    OBVIOUS
  <2> HIDE DEF q, n
  <2> DEFINE k == i - n l == Len(t) z == Len(q)
  <2>1. k \in 1 .. l /\ q[i] = t[k]
    BY <1>2, <1>4
  <2>2. z = n + l /\ n \in Nat /\ l \in Nat /\ i \in 1 .. z
    BY <1>2
  <2>3. k = l \/ t[k + 1] \in {Chunk("key"), <<"key", "head">>}
    BY <2>1
  <2> HIDE DEF l, z
  <2>4. (k = l => i = z) /\ (k # l => k + 1 \in 1 .. l) /\ n + (k + 1) = i + 1
    BY <2>1, <2>2
  <2>5. k # l => q[i + 1] = t[k + 1]
    <3> SUFFICES ASSUME k # l PROVE q[n + (k + 1)] = t[k + 1]
      BY <2>4
    <3>1. k + 1 \in 1 .. Len(t)
      BY <2>4 DEF l
    <3> HIDE DEF k
    <3> QED
      BY <1>2, <3>1
  <2> QED
    BY <2>3, <2>4, <2>5 DEF l, z
<1>7. Control'
  BY <1>1, <1>5 DEF Control
<1>8. Verdicts'
  BY <1>1, <1>5 DEF SessionInv, Verdicts, Has, ServerTrustsVerdict
<1>9. Requests' /\ Replies' /\ KeyOrder' /\ Announced' /\ SuccessSendsKey'
  BY DEF Requests, Replies, KeyOrder, Announced, SuccessSendsKey
<1>10. Samples'
  BY <1>1, <1>6 DEF Samples, RecvPcs
<1>11. StoredKeyExplained'
  BY DEF SessionInv, StoredKeyExplained
<1> QED
  BY <1>7, <1>8, <1>9, <1>10, <1>11 DEF SessionInv

\* The steps of the samples client up to its verdict.
LEMMA SampleClient ==
    ASSUME SessionInv, request_cert \/ save_dev_cert \/ read_token \/ read_table \/ read_log_size \/ read_log_data
    PROVE  SessionInv'
<1> USE DEF Kept
<1>0. /\ Control /\ c2s \in Seq(Msgs \X Parts) /\ s2c \in Seq(Msgs \X Parts)
      /\ \A m \in SampleRequests : m \in Msgs
      /\ \A m \in {"DEVICE_CERT", "ATTEST", "CCEL_TABLE", "EVENT_LOG"} : m \in SampleRequests
  BY DEF SessionInv, Control, SampleRequests, Msgs, SampleIds
<1>1. variant = "samples"
  BY DEF SessionInv, Control, Variants, request_cert, save_dev_cert, read_token, read_table, read_log_size, read_log_data
<1>2. \A m \in SampleRequests : c2s \o <<Chunk(m)>> # <<>>
  <2> SUFFICES ASSUME NEW m \in SampleRequests PROVE c2s \o <<Chunk(m)>> # <<>>
    OBVIOUS
  <2>1. Len(c2s) \in Nat /\ Chunk(m) \in Msgs \X Parts
    BY <1>0, ShortSeqs, SeqFacts
  <2>2. Len(c2s \o <<Chunk(m)>>) = Len(c2s) + 1 /\ c2s \o <<Chunk(m)>> \in Seq(Msgs \X Parts)
    BY <1>0, <2>1, OneMore
  <2> DEFINE q == c2s \o <<Chunk(m)>>
  <2>3. Len(q) # 0
    BY <2>1, <2>2
  <2> QED
    BY <2>2, <2>3, SeqFacts
<1>3. ASSUME NEW m \in SampleRequests, ToServer(<<Chunk(m)>>)
      PROVE  /\ c2s' = c2s \/ \E k \in SampleRequests : c2s' = c2s \o <<Chunk(k)>>
             /\ c2s' # <<>> \/ spc = "done"
  BY <1>2, <1>3 DEF ToServer
<1>4. \A i \in 1 .. Len(s2c) : \E j \in 1 .. Len(s2c) : s2c[i] = s2c[j] /\ (j < Len(s2c) => i < Len(s2c))
  OBVIOUS
<1>5. ASSUME NEW r \in Reads
      PROVE  /\ r.rest \in Seq(Msgs \X Parts)
             /\ \A i \in 1 .. Len(r.rest) : \E j \in 1 .. Len(s2c) : r.rest[i] = s2c[j] /\ (j < Len(s2c) => i < Len(r.rest))
  BY <1>0, ReadsFacts
<1>6. CASE request_cert
  <2>1. ToServer(<<Chunk("DEVICE_CERT")>>) /\ "DEVICE_CERT" \in SampleRequests
    BY <1>0, <1>6 DEF request_cert
  <2> QED
    BY <1>0, <1>1, <1>3, <1>4, <1>6, <2>1, SampleStep DEF request_cert
<1>7. CASE save_dev_cert
  <2>1. PICK r \in Reads : /\ s2c' = r.rest
                           /\ \/ cpc' = "token" /\ ToServer(<<Chunk("ATTEST")>>) /\ UNCHANGED cRet
                              \/ ClientEnds("error") /\ UNCHANGED c2s
    BY <1>7 DEF save_dev_cert
  <2>2. CASE cpc' = "token" /\ ToServer(<<Chunk("ATTEST")>>) /\ UNCHANGED cRet
    BY <1>0, <1>1, <1>3, <1>5, <1>7, <2>1, <2>2, SampleStep DEF save_dev_cert
  <2>3. CASE ClientEnds("error") /\ UNCHANGED c2s
    BY <1>5, <1>7, <2>1, <2>3, ClientStops DEF save_dev_cert, ClientEnds
  <2> QED
    BY <2>1, <2>2, <2>3
<1>8. CASE read_token
  <2>1. PICK r \in Reads : s2c' = r.rest
    BY <1>8 DEF read_token
  <2>2. CASE cpc' = "table" /\ ToServer(<<Chunk("CCEL_TABLE")>>)
    BY <1>0, <1>1, <1>3, <1>5, <1>8, <2>1, <2>2, SampleStep DEF read_token
  <2>3. CASE cpc' = "verify" /\ UNCHANGED c2s
    BY <1>0, <1>1, <1>5, <1>8, <2>1, <2>3, SampleStep DEF read_token, RecvPcs
  <2> QED
    BY <1>8, <2>2, <2>3 DEF read_token
<1>9. CASE read_table
  <2>1. PICK r \in Reads : /\ s2c' = r.rest
                           /\ \/ cpc' = "log_size" /\ ToServer(<<Chunk("EVENT_LOG")>>) /\ UNCHANGED cRet
                              \/ ClientEnds("error") /\ UNCHANGED c2s
    BY <1>9 DEF read_table
  <2>2. CASE cpc' = "log_size" /\ ToServer(<<Chunk("EVENT_LOG")>>) /\ UNCHANGED cRet
    BY <1>0, <1>1, <1>3, <1>5, <1>9, <2>1, <2>2, SampleStep DEF read_table
  <2>3. CASE ClientEnds("error") /\ UNCHANGED c2s
    BY <1>5, <1>9, <2>1, <2>3, ClientStops DEF read_table, ClientEnds
  <2> QED
    BY <2>1, <2>2, <2>3
<1>10. s2c # <<>> =>
         /\ Tail(s2c) \in Seq(Msgs \X Parts) /\ Head(s2c) = s2c[1] /\ 1 \in 1 .. Len(s2c)
         /\ 1 < Len(s2c) => Tail(s2c) # <<>>
         /\ \A i \in 1 .. Len(Tail(s2c)) : \E j \in 1 .. Len(s2c) : Tail(s2c)[i] = s2c[j] /\ (j < Len(s2c) => i < Len(Tail(s2c)))
  <2> SUFFICES ASSUME s2c # <<>>
               PROVE /\ Tail(s2c) \in Seq(Msgs \X Parts) /\ Head(s2c) = s2c[1] /\ 1 \in 1 .. Len(s2c)
                     /\ 1 < Len(s2c) => Tail(s2c) # <<>>
                     /\ \A i \in 1 .. Len(Tail(s2c)) : \E j \in 1 .. Len(s2c) : Tail(s2c)[i] = s2c[j] /\ (j < Len(s2c) => i < Len(Tail(s2c)))
    OBVIOUS
  <2>1. /\ Tail(s2c) \in Seq(Msgs \X Parts) /\ Head(s2c) = s2c[1] /\ 1 \in 1 .. Len(s2c)
        /\ Len(s2c) \in Nat /\ Len(Tail(s2c)) = Len(s2c) - 1
        /\ \A i \in 1 .. Len(Tail(s2c)) : i + 1 \in 1 .. Len(s2c) /\ Tail(s2c)[i] = s2c[i + 1]
    BY <1>0, SeqFacts
  <2> DEFINE q == Tail(s2c) k == Len(q) n == Len(s2c)
  <2> HIDE DEF q, k, n
  <2>2. n \in Nat /\ k = n - 1 /\ \A i \in 1 .. k : i + 1 \in 1 .. n /\ q[i] = s2c[i + 1]
    BY <2>1 DEF q, k, n
  <2>3. \A i \in 1 .. k : \E j \in 1 .. n : q[i] = s2c[j] /\ (j < n => i < k)
    BY <2>2
  <2>4. 1 < n => q # <<>>
    <3>1. Len(<<>>) = 0
      OBVIOUS
    <3>2. 1 < n => k # 0
      BY <2>2
    <3> QED
      BY <3>1, <3>2 DEF k
  <2> QED
    BY <2>1, <2>3, <2>4 DEF q, k, n
<1>11. CASE read_log_size
  <2>1. CASE s2c # <<>> /\ Head(s2c) = Chunk("size") /\ ~ LogSizeRefused
    <3>1. 1 < Len(s2c)
      BY <1>1, <1>10, <1>11, <2>1 DEF SessionInv, Samples, LogSizeRefused, read_log_size
    <3>2. s2c' = Tail(s2c) /\ s2c' # <<>> /\ cpc' = "log_data" /\ UNCHANGED cRet
      BY <1>10, <1>11, <2>1, <3>1 DEF read_log_size
    <3> QED
      BY <1>1, <1>10, <1>11, <2>1, <3>2, SampleStep DEF read_log_size
  <2>2. CASE ~ (s2c # <<>> /\ Head(s2c) = Chunk("size") /\ ~ LogSizeRefused)
    BY <1>0, <1>11, <2>2, ClientStops DEF read_log_size, ClientEnds
  <2> QED
    BY <2>1, <2>2
<1>12. CASE read_log_data
  <2>1. CASE s2c # <<>> /\ s2c' = Tail(s2c) /\ cpc' = "verify" /\ UNCHANGED cRet
    BY <1>1, <1>10, <1>12, <2>1, SampleStep DEF read_log_data, RecvPcs
  <2>2. CASE cpc' = "done" /\ s2c' \in Seq(Msgs \X Parts)
    BY <1>12, <2>2, ClientStops DEF read_log_data
  <2> QED
    BY <1>0, <1>10, <1>12, <2>1, <2>2 DEF read_log_data, ClientEnds
<1> QED
  BY <1>6, <1>7, <1>8, <1>9, <1>11, <1>12

\* What a verdict consists of.
LEMMA VerdictChunks ==
    ASSUME NEW t, \/ t = <<Chunk("SUCCESS"), Chunk("REM")>>
                  \/ t = <<Chunk("SUCCESS"), Chunk("USE_FDE")>>
                  \/ \E k \in Segments("key") : t = <<Chunk("SUCCESS"), Chunk("USE_FDE")>> \o k
                  \/ t = <<Chunk("FAILED")>>
    PROVE  /\ t \in Seq(Msgs \X Parts)
           /\ \A i \in 1 .. Len(t) : t[i] # Chunk("package") /\ (t[i][1] = "SUCCESS" => t # <<Chunk("FAILED")>>)
           /\ \A i \in 1 .. Len(t) : t[i][1] = "USE_FDE" => i = Len(t) \/ t[i + 1] \in {Chunk("key"), <<"key", "head">>}
<1> DEFINE a == Chunk("SUCCESS") b == Chunk("USE_FDE") h == <<"key", "head">> e == <<"key", "tail">>
<1>1. /\ \A m \in {"SUCCESS", "REM", "USE_FDE", "FAILED", "key"} : m \in Msgs
      /\ a[1] = "SUCCESS" /\ b[1] = "USE_FDE" /\ Chunk("REM")[1] = "REM" /\ Chunk("FAILED")[1] = "FAILED"
      /\ Chunk("key")[1] = "key" /\ h[1] = "key" /\ e[1] = "key" /\ Chunk("package")[1] = "package"
  BY DEF Msgs, SampleIds, Chunk
<1>2. CASE t = <<a, Chunk("REM")>>
  <2>1. Len(t) = 2 /\ t[1] = a /\ t[2] = Chunk("REM") /\ t \in Seq(Msgs \X Parts)
    BY <1>1, <1>2, ShortSeqs
  <2>2. Len(<<Chunk("FAILED")>>) = 1
    OBVIOUS
  <2> HIDE DEF a
  <2> QED
    BY <1>1, <2>1, <2>2
<1>3. CASE t = <<a, b>>
  <2>1. Len(t) = 2 /\ t[1] = a /\ t[2] = b /\ t \in Seq(Msgs \X Parts)
    BY <1>1, <1>3, ShortSeqs
  <2>2. Len(<<Chunk("FAILED")>>) = 1
    OBVIOUS
  <2> HIDE DEF a, b
  <2> QED
    BY <1>1, <2>1, <2>2
<1>4. ASSUME NEW k \in Segments("key"), t = <<a, b>> \o k PROVE
           /\ t \in Seq(Msgs \X Parts)
           /\ \A i \in 1 .. Len(t) : t[i] # Chunk("package") /\ (t[i][1] = "SUCCESS" => t # <<Chunk("FAILED")>>)
           /\ \A i \in 1 .. Len(t) : t[i][1] = "USE_FDE" => i = Len(t) \/ t[i + 1] \in {Chunk("key"), <<"key", "head">>}
  <2>1. /\ k \in Seq(Msgs \X Parts) /\ (Len(k) = 1 \/ Len(k) = 2) /\ k[1] \in {Chunk("key"), h}
        /\ \A i \in 1 .. Len(k) : k[i][1] = "key"
    <3>1. CASE k = <<Chunk("key")>>
      <4>1. Len(k) = 1 /\ k[1] = Chunk("key") /\ k \in Seq(Msgs \X Parts)
        BY <1>1, <3>1, ShortSeqs
      <4> QED
        BY <1>1, <4>1
    <3>2. CASE k = <<h, e>>
      <4>1. Len(k) = 2 /\ k[1] = h /\ k[2] = e /\ k \in Seq(Msgs \X Parts)
        BY <1>1, <3>2, ShortSeqs DEF Halves
      <4> HIDE DEF h, e
      <4> QED
        BY <1>1, <4>1
    <3> QED
      BY <3>1, <3>2 DEF Segments, Halves
  <2>2. <<a, b>> \in Seq(Msgs \X Parts) /\ Len(<<a, b>>) = 2 /\ <<a, b>>[1] = a /\ <<a, b>>[2] = b
    BY <1>1, ShortSeqs
  <2>3. /\ t \in Seq(Msgs \X Parts) /\ Len(t) = 2 + Len(k) /\ t[1] = a /\ t[2] = b
        /\ \A i \in 1 .. Len(k) : t[2 + i] = k[i]
        /\ \A i \in 1 .. Len(t) : i \in 1 .. 2 \/ (i - 2 \in 1 .. Len(k) /\ t[i] = k[i - 2])
    <3> DEFINE p == <<a, b>>
    <3>1. p \in Seq(Msgs \X Parts) /\ Len(p) = 2 /\ p[1] = a /\ p[2] = b
      BY <2>2
    <3> HIDE DEF p
    <3>2. t = p \o k
      BY <1>4 DEF p
    <3>3. /\ t \in Seq(Msgs \X Parts) /\ Len(t) = Len(p) + Len(k)
          /\ \A i \in 1 .. Len(p) : t[i] = p[i]
          /\ \A i \in 1 .. Len(k) : t[Len(p) + i] = k[i]
          /\ \A i \in 1 .. Len(t) : i \in 1 .. Len(p) \/ (i - Len(p) \in 1 .. Len(k) /\ t[i] = k[i - Len(p)])
      <4>1. p \in Seq(Msgs \X Parts) /\ k \in Seq(Msgs \X Parts)
        BY <2>1, <3>1
      <4> HIDE DEF a, b, h, e
      <4>2. /\ p \o k \in Seq(Msgs \X Parts) /\ Len(p \o k) = Len(p) + Len(k)
            /\ \A i \in 1 .. Len(p) : (p \o k)[i] = p[i]
            /\ \A i \in 1 .. Len(k) : (p \o k)[Len(p) + i] = k[i]
            /\ \A i \in 1 .. Len(p \o k) :
                  i \in 1 .. Len(p) \/ (i - Len(p) \in 1 .. Len(k) /\ (p \o k)[i] = k[i - Len(p)])
        BY <4>1, CatFacts
      <4> QED
        BY <3>2, <4>2
    <3> HIDE DEF a, b
    <3>4. 1 \in 1 .. Len(p) /\ 2 \in 1 .. Len(p)
      BY <3>1
    <3>5. t[1] = a /\ t[2] = b
      BY <3>1, <3>3, <3>4
    <3> QED
      BY <3>1, <3>3, <3>5
  <2> HIDE DEF a, b, h
  <2>4. \A i \in 1 .. Len(t) : i = 1 \/ i = 2 \/ t[i][1] = "key"
    BY <2>1, <2>3
  <2>5. t[3] = k[1]
    BY <2>1, <2>3
  <2>6. Len(t) # 1 /\ Len(<<Chunk("FAILED")>>) = 1
    BY <2>1, <2>3
  <2>7. \A i \in 1 .. Len(t) : t[i] # Chunk("package") /\ (t[i][1] = "SUCCESS" => t # <<Chunk("FAILED")>>)
    BY <1>1, <2>3, <2>4, <2>6
  <2>8. \A i \in 1 .. Len(t) : t[i][1] = "USE_FDE" => i = Len(t) \/ t[i + 1] \in {Chunk("key"), h}
    BY <1>1, <2>1, <2>3, <2>4, <2>5
  <2> QED
    BY <2>3, <2>7, <2>8 DEF h
<1>5. CASE t = <<Chunk("FAILED")>>
  <2>1. Len(t) = 1 /\ t[1] = Chunk("FAILED") /\ t \in Seq(Msgs \X Parts)
    BY <1>1, <1>5, ShortSeqs
  <2> QED
    BY <1>1, <2>1
<1> QED
  BY <1>2, <1>3, <1>4, <1>5

\* send_verdict keeps the invariant.
LEMMA VerdictStep == ASSUME SessionInv, send_verdict PROVE SessionInv'
<1> DEFINE Good(t) == \/ t = <<Chunk("SUCCESS"), Chunk("REM")>>
                      \/ t = <<Chunk("SUCCESS"), Chunk("USE_FDE")>>
                      \/ \E k \in Segments("key") : t = <<Chunk("SUCCESS"), Chunk("USE_FDE")>> \o k
<1>1. /\ variant = "samples" /\ cpc = "verify" /\ UNCHANGED <<world, server, s2c, pkgSent>>
  BY DEF send_verdict
<1>2. /\ cpc' = "done"
      /\ \/ verified' = TRUE /\ \E t : Good(t) /\ ToServer(t)
         \/ verified' = FALSE /\ ToServer(<<Chunk("FAILED")>>)
  <2>1. Halves("key") \in Segments("key")
    BY DEF Segments
  <2> QED
    BY <2>1 DEF send_verdict, ClientEnds
<1>3. ASSUME NEW t, Good(t), ToServer(t), verified' = TRUE PROVE SessionInv'
  <2>1. /\ t \in Seq(Msgs \X Parts)
        /\ \A i \in 1 .. Len(t) : t[i] # Chunk("package")
        /\ \A i \in 1 .. Len(t) : t[i][1] = "USE_FDE" => i = Len(t) \/ t[i + 1] \in {Chunk("key"), <<"key", "head">>}
    BY <1>3, VerdictChunks
  <2> QED
    BY <1>1, <1>2, <1>3, <2>1, VerdictSent DEF ToServer
<1>4. CASE verified' = FALSE /\ ToServer(<<Chunk("FAILED")>>)
  <2> DEFINE t == <<Chunk("FAILED")>>
  <2>1. /\ t \in Seq(Msgs \X Parts)
        /\ \A i \in 1 .. Len(t) : t[i] # Chunk("package") /\ t[i][1] # "SUCCESS"
        /\ \A i \in 1 .. Len(t) : t[i][1] = "USE_FDE" => i = Len(t) \/ t[i + 1] \in {Chunk("key"), <<"key", "head">>}
    BY VerdictChunks
  <2>2. c2s' = IF spc = "done" THEN c2s ELSE c2s \o t
    BY <1>4 DEF ToServer
  <2> HIDE DEF t
  <2> QED
    BY <1>1, <1>2, <2>1, <2>2, VerdictSent
<1> QED
  BY <1>2, <1>3, <1>4

\* A client that dies keeps the invariant.
LEMMA ClientDies == ASSUME SessionInv, client_dies PROVE SessionInv'
<1>1. s2c \in Seq(Msgs \X Parts)
  BY DEF SessionInv, Control
<1> QED
  BY <1>1, ClientStops DEF client_dies, ClientEnds, Kept

\* The failures of the two servers keep the invariant.
LEMMA SampleServerStops ==
    ASSUME SessionInv, \/ write_fails \/ request_fails \/ server_receive_fails
    PROVE  SessionInv'
<1>1. CASE write_fails
  BY <1>1, ServerStops DEF write_fails, ServerEnds, Kept
<1>2. CASE request_fails
  BY <1>2, ServerStops DEF request_fails, ServerEnds
<1>3. CASE server_receive_fails
  BY <1>3, ServerStops DEF server_receive_fails, ServerEnds, Kept
<1> QED
  BY <1>1, <1>2, <1>3

\* get_version keeps the invariant.
LEMMA VersionRead == ASSUME SessionInv, get_version PROVE SessionInv'
<1>1. variant = "samples" /\ spc = "start"
  BY DEF SessionInv, Control, Variants, get_version
<1>2. CASE ServerEnds("error")
  BY <1>2, ServerStops DEF get_version, ServerEnds, Kept
<1>3. CASE spc' = "recv" /\ UNCHANGED sRet
  <2> USE <1>1, <1>3 DEF get_version, Kept, world, client
  <2>1. Control'
    BY DEF SessionInv, Control
  <2>2. Verdicts'
    BY DEF SessionInv, Verdicts, ServerTrustsVerdict
  <2>3. Requests' /\ Replies' /\ KeyOrder' /\ Announced' /\ SuccessSendsKey'
    BY DEF Requests, Replies, KeyOrder, Announced, SuccessSendsKey
  <2>4. Samples' /\ StoredKeyExplained'
    BY DEF SessionInv, Samples, StoredKeyExplained
  <2> QED
    BY <2>1, <2>2, <2>3, <2>4 DEF SessionInv
<1> QED
  BY <1>2, <1>3 DEF get_version

\* What a read() of the samples server leaves in the stream.
LEMMA SamplesConsume ==
    ASSUME SessionInv, variant = "samples", c2s' = IF c2s = <<>> THEN <<>> ELSE Tail(c2s)
    PROVE  /\ c2s' \in Seq(Msgs \X Parts)
           /\ \A i \in 1 .. Len(c2s') : \E j \in 1 .. Len(c2s) : c2s'[i] = c2s[j]
           /\ spc # "done" => \A i \in 1 .. Len(c2s') : c2s'[i][1] = "USE_FDE" =>
                                i = Len(c2s') \/ c2s'[i + 1] \in {Chunk("key"), <<"key", "head">>}
           /\ c2s # <<>> => Head(c2s) = c2s[1] /\ 1 \in 1 .. Len(c2s)
           /\ spc # "done" /\ c2s # <<>> /\ Head(c2s)[1] = "USE_FDE" =>
                 c2s' = <<>> \/ c2s'[1] \in {Chunk("key"), <<"key", "head">>}
<1>1. CASE c2s = <<>>
  BY <1>1, EmptySeq
<1>2. CASE c2s # <<>>
  <2> DEFINE n == Len(c2s) k == Len(c2s')
  <2>1. /\ c2s' \in Seq(Msgs \X Parts) /\ Head(c2s) = c2s[1] /\ 1 \in 1 .. n /\ n \in Nat /\ k = n - 1
        /\ \A i \in 1 .. k : i + 1 \in 1 .. n /\ c2s'[i] = c2s[i + 1]
    BY <1>2, TailFacts DEF SessionInv
  <2>2. spc # "done" => \A i \in 1 .. n : c2s[i][1] = "USE_FDE" => i = n \/ c2s[i + 1] \in {Chunk("key"), <<"key", "head">>}
    BY DEF SessionInv, Samples
  <2>3. k = 0 => c2s' = <<>>
    BY <2>1, SeqFacts
  <2> HIDE DEF n, k
  <2>4. ASSUME spc # "done", NEW i \in 1 .. k, c2s'[i][1] = "USE_FDE"
        PROVE  i = k \/ c2s'[i + 1] \in {Chunk("key"), <<"key", "head">>}
    <3>1. i + 1 = n \/ c2s[(i + 1) + 1] \in {Chunk("key"), <<"key", "head">>}
      BY <2>1, <2>2, <2>4
    <3>2. (i + 1 = n => i = k) /\ (i # k => i + 1 \in 1 .. k)
      <4>1. n \in Nat /\ k = n - 1
        BY <2>1
      <4> QED
        BY <4>1
    <3>3. i # k => c2s'[i + 1] = c2s[(i + 1) + 1]
      BY <2>1, <3>2
    <3> QED
      BY <3>1, <3>2, <3>3
  <2>5. spc # "done" /\ c2s[1][1] = "USE_FDE" => c2s' = <<>> \/ c2s'[1] \in {Chunk("key"), <<"key", "head">>}
    <3> SUFFICES ASSUME spc # "done", c2s[1][1] = "USE_FDE", k # 0 PROVE c2s'[1] \in {Chunk("key"), <<"key", "head">>}
      BY <2>3
    <3>1. 1 \in 1 .. k /\ 1 # n
      <4>1. n \in Nat /\ k = n - 1 /\ 1 \in 1 .. n
        BY <2>1
      <4> QED
        BY <4>1
    <3>2. c2s'[1] = c2s[1 + 1]
      BY <2>1, <3>1
    <3> QED
      BY <2>1, <2>2, <3>1, <3>2
  <2> QED
    BY <2>1, <2>4, <2>5 DEF n, k
<1> QED
  BY <1>1, <1>2

\* What the samples server answers.
LEMMA ReplyFacts ==
    ASSUME NEW id \in SampleRequests, NEW t \in SampleReplies(id)
    PROVE  /\ t \in Seq(Msgs \X Parts) /\ Len(t) # 0
           /\ \A i \in 1 .. Len(t) : t[i] = Chunk("size") => log = "empty" \/ i < Len(t)
<1>1. /\ \A m \in {"cert", "token", "table", "size", "log"} : m \in Msgs
      /\ \A m \in {"cert", "token", "table", "log"} : /\ Chunk(m) # Chunk("size") /\ <<m, "head">> # Chunk("size")
                                                      /\ <<m, "tail">> # Chunk("size")
  BY DEF Msgs, Chunk
<1>2. ASSUME NEW m \in {"cert", "token", "table"}, t \in Segments(m)
      PROVE  t \in Seq(Msgs \X Parts) /\ Len(t) # 0 /\ \A i \in 1 .. Len(t) : t[i] # Chunk("size")
  <2>1. CASE t = <<Chunk(m)>>
    <3>1. Len(t) = 1 /\ t[1] = Chunk(m) /\ t \in Seq(Msgs \X Parts)
      BY <1>1, <2>1, ShortSeqs
    <3> QED
      BY <1>1, <3>1
  <2>2. CASE t = Halves(m)
    <3>1. t \in Seq(Msgs \X Parts)
      BY <1>1, <2>2, ShortSeqs
    <3>2. Len(t) = 2 /\ t[1] = <<m, "head">> /\ t[2] = <<m, "tail">>
      BY <2>2 DEF Halves
    <3>3. t[1] # Chunk("size") /\ t[2] # Chunk("size")
      BY <1>1, <3>2
    <3>4. \A i \in 1 .. Len(t) : i = 1 \/ i = 2
      BY <3>2
    <3> QED
      BY <3>1, <3>2, <3>3, <3>4
  <2> QED
    BY <1>2, <2>1, <2>2 DEF Segments
<1>3. CASE id = "EVENT_LOG"
  <2>1. t = LogReply
    BY <1>3, Shorts, OneOne DEF SampleReplies, LogReply
  <2>2. t \in Seq(Msgs \X Parts)
    BY <1>1, <2>1, ShortSeqs DEF LogReply
  <2>3. CASE log = "empty"
    <3>1. Len(t) = 1
      BY <2>1, <2>3 DEF LogReply
    <3> QED
      BY <2>2, <2>3, <3>1
  <2>4. CASE log # "empty"
    <3>1. Len(t) = 2 /\ t[2] = Chunk("log")
      BY <2>1, <2>4 DEF LogReply
    <3>2. \A i \in 1 .. Len(t) : t[i] = Chunk("size") => i < Len(t)
      BY <1>1, <3>1
    <3> QED
      BY <2>2, <3>1, <3>2
  <2> QED
    BY <2>3, <2>4
<1>4. CASE id # "EVENT_LOG"
  <2>1. \E m \in {"cert", "token", "table"} : t \in Segments(m)
    BY <1>4 DEF SampleReplies, SampleRequests
  <2> QED
    BY <1>2, <2>1
<1> QED
  BY <1>3, <1>4

\* handle_request keeps the invariant.
LEMMA RequestHandled == ASSUME SessionInv, handle_request PROVE SessionInv'
<1> USE DEF handle_request, world, client
<1>1. PICK id \in NextId \cap SampleRequests : msgId' = id /\ \E t \in SampleReplies(id) : ToClient(t)
  OBVIOUS
<1>2. PICK t \in SampleReplies(id) : ToClient(t)
  BY <1>1
<1>3. /\ t \in Seq(Msgs \X Parts) /\ Len(t) # 0
      /\ \A i \in 1 .. Len(t) : t[i] = Chunk("size") => log = "empty" \/ i < Len(t)
  BY <1>1, ReplyFacts
<1>4. /\ c2s' \in Seq(Msgs \X Parts)
      /\ \A i \in 1 .. Len(c2s') : \E j \in 1 .. Len(c2s) : c2s'[i] = c2s[j]
      /\ \A i \in 1 .. Len(c2s') : c2s'[i][1] = "USE_FDE" => i = Len(c2s') \/ c2s'[i + 1] \in {Chunk("key"), <<"key", "head">>}
  BY SamplesConsume
<1> DEFINE q == s2c \o t n == Len(s2c) l == Len(t)
<1>5. /\ s2c \in Seq(Msgs \X Parts) /\ Control /\ q \in Seq(Msgs \X Parts) /\ Len(q) = n + l /\ n \in Nat /\ l \in Nat
      /\ \A i \in 1 .. n : q[i] = s2c[i]
      /\ \A i \in 1 .. Len(q) : i \in 1 .. n \/ (i - n \in 1 .. l /\ q[i] = t[i - n])
  BY <1>3, CatFacts, SeqFacts DEF SessionInv, Control
<1>6. s2c' = IF cpc = "done" THEN s2c ELSE q
  BY <1>2 DEF ToClient
<1>7. q # <<>>
  <2>1. l # 0 /\ n \in Nat /\ l \in Nat /\ Len(q) = n + l
    BY <1>3, <1>5
  <2> HIDE DEF q, n, l
  <2>2. Len(q) # 0
    BY <2>1
  <2> QED
    BY <2>2
<1>8. cpc # "done" => \A i \in 1 .. Len(q) : q[i] = Chunk("size") => log = "empty" \/ i < Len(q)
  <2> SUFFICES ASSUME cpc # "done", NEW i \in 1 .. Len(q), q[i] = Chunk("size"), log # "empty" PROVE i < Len(q)
    OBVIOUS
  <2>1. \A j \in 1 .. n : s2c[j] = Chunk("size") => j < n
    BY DEF SessionInv, Samples
  <2>2. \A j \in 1 .. l : t[j] = Chunk("size") => j < l
    BY <1>3
  <2> HIDE DEF q, n, l
  <2>3. n \in Nat /\ l \in Nat /\ Len(q) = n + l
    BY <1>5
  <2>4. (i \in 1 .. n /\ i < n) \/ (i - n \in 1 .. l /\ i - n < l)
    BY <1>5, <2>1, <2>2
  <2> QED
    BY <2>3, <2>4
<1>9. Control'
  BY <1>4, <1>5, <1>6 DEF Control
<1>10. Verdicts'
  <2>1. id # "SUCCESS"
    BY <1>1 DEF SampleRequests
  <2> QED
    BY <1>1, <1>4, <2>1 DEF SessionInv, Verdicts, Has, ServerTrustsVerdict
<1>11. Requests' /\ Replies' /\ KeyOrder' /\ Announced' /\ SuccessSendsKey'
  BY DEF Requests, Replies, KeyOrder, Announced, SuccessSendsKey
<1>12. Samples'
  <2> HIDE DEF q
  <2>1. cpc \in RecvPcs => cpc # "done"
    BY DEF RecvPcs
  <2> QED
    BY <1>4, <1>6, <1>7, <1>8, <2>1 DEF SessionInv, Samples
<1>13. StoredKeyExplained'
  BY DEF SessionInv, StoredKeyExplained
<1> QED
  BY <1>9, <1>10, <1>11, <1>12, <1>13 DEF SessionInv

\* handle_verdict and receive_fde_info keep the invariant: a SUCCESS with more to read
\* after it is one that a client sent.
LEMMA VerdictHandled == ASSUME SessionInv, handle_verdict \/ receive_fde_info PROVE SessionInv'
<1>1. variant = "samples" /\ UNCHANGED <<world, client, s2c, rootKey, slot>> /\ spc # "done" /\ Control
      /\ c2s' = IF c2s = <<>> THEN <<>> ELSE Tail(c2s)
  BY DEF SessionInv, Control, Variants, handle_verdict, receive_fde_info
<1>2. /\ c2s' \in Seq(Msgs \X Parts)
      /\ \A i \in 1 .. Len(c2s') : \E j \in 1 .. Len(c2s) : c2s'[i] = c2s[j]
      /\ \A i \in 1 .. Len(c2s') : c2s'[i][1] = "USE_FDE" => i = Len(c2s') \/ c2s'[i + 1] \in {Chunk("key"), <<"key", "head">>}
      /\ c2s # <<>> => Head(c2s) = c2s[1] /\ 1 \in 1 .. Len(c2s)
      /\ c2s # <<>> /\ Head(c2s)[1] = "USE_FDE" => c2s' = <<>> \/ c2s'[1] \in {Chunk("key"), <<"key", "head">>}
  BY <1>1, SamplesConsume
<1>3. CASE spc' = "done" /\ (sRet' = "ok" => verified)
  BY <1>1, <1>3, ServerStops
<1>4. ASSUME cpc = "done", UNCHANGED sRet,
             \/ spc' = "fde_info" /\ (verified \/ c2s' = <<>>)
             \/ spc' = "key" /\ verified /\ (c2s' = <<>> \/ c2s'[1] \in {Chunk("key"), <<"key", "head">>})
      PROVE  SessionInv'
  <2> USE <1>1, <1>4 DEF world, client
  <2>1. Control'
    BY <1>2 DEF Control
  <2>2. Verdicts'
    BY <1>2 DEF SessionInv, Verdicts, Has, ServerTrustsVerdict
  <2>3. Requests' /\ Replies' /\ KeyOrder' /\ Announced' /\ SuccessSendsKey'
    BY DEF Requests, Replies, KeyOrder, Announced, SuccessSendsKey
  <2>4. Samples' /\ StoredKeyExplained'
    BY <1>2 DEF SessionInv, Samples, StoredKeyExplained, RecvPcs
  <2> QED
    BY <2>1, <2>2, <2>3, <2>4 DEF SessionInv
<1>5. CASE handle_verdict
  <2>1. PICK id \in NextId \ SampleRequests : IF id = "SUCCESS" THEN spc' = "fde_info" /\ UNCHANGED sRet ELSE ServerEnds("error")
    BY <1>5 DEF handle_verdict
  <2>2. CASE id = "SUCCESS"
    <3>1. cpc = "done"
      <4> SUFFICES ASSUME cpc # "done" PROVE FALSE
        OBVIOUS
      <4>1. c2s # <<>> /\ id = c2s[1][1]
        BY <1>2, <2>1 DEF NextId
      <4>2. c2s[1][1] \in SampleRequests
        BY <1>1, <1>2, <4>1 DEF SessionInv, Samples
      <4> QED
        BY <2>1, <4>1, <4>2
    <3>2. verified \/ c2s' = <<>>
      <4>1. CASE c2s = <<>>
        BY <1>1, <4>1
      <4>2. CASE c2s # <<>>
        <5>1. c2s[1][1] = "SUCCESS" /\ 1 \in 1 .. Len(c2s)
          BY <1>2, <2>2, <4>2 DEF NextId
        <5> QED
          BY <5>1 DEF SessionInv, Verdicts
      <4> QED
        BY <4>1, <4>2
    <3> QED
      BY <1>4, <2>1, <2>2, <3>1, <3>2
  <2>3. CASE id # "SUCCESS"
    BY <1>3, <2>1, <2>3 DEF ServerEnds
  <2> QED
    BY <2>2, <2>3
<1>6. CASE receive_fde_info
  <2>1. cpc = "done" /\ verified /\ c2s # <<>>
    BY <1>6 DEF SessionInv, Verdicts, receive_fde_info
  <2> QED
    BY <1>2, <1>3, <1>4, <1>6, <2>1 DEF receive_fde_info, ServerEnds
<1> QED
  BY <1>5, <1>6

\* receive_key_file keeps the invariant.
LEMMA KeyFileReceived == ASSUME SessionInv, receive_key_file PROVE SessionInv'
<1>1. /\ variant = "samples" /\ spc = "key" /\ c2s # <<>> /\ c2s' = Tail(c2s)
      /\ UNCHANGED <<world, client, s2c, msgId, slot>>
  BY DEF receive_key_file
<1>2. verified /\ Head(c2s) \in {Chunk("key"), <<"key", "head">>}
  <2>1. Head(c2s) = c2s[1]
    BY <1>1, TailFacts DEF SessionInv
  <2> QED
    BY <1>1, <2>1 DEF SessionInv, Verdicts, Samples
<1>3. CASE rootKey' = Head(c2s) /\ ServerEnds("ok")
  <2>1. StoredKeyExplained'
    BY <1>1, <1>2, <1>3 DEF StoredKeyExplained, world
  <2> QED
    BY <1>1, <1>2, <1>3, <2>1, ServerStops DEF ServerEnds
<1>4. CASE ServerEnds("error") /\ UNCHANGED rootKey
  BY <1>1, <1>4, ServerStops DEF ServerEnds
<1> QED
  BY <1>3, <1>4 DEF receive_key_file

\* The invariant holds initially,
LEMMA SessionInvInit == Init => SessionInv
<1> SUFFICES ASSUME Init PROVE SessionInv
  OBVIOUS
<1> USE DEF Init
<1>1. Control
  BY ASAssumption, EmptySeq DEF Control, CPcs, SendPcs, Variants
<1>2. Verdicts /\ KeyOrder /\ Announced
  BY DEF Verdicts, Has, ServerTrustsVerdict, KeyOrder, Announced
<1>3. Requests /\ Replies
  BY DEF Requests, Replies, Quiet, NotNew
<1>4. Samples /\ SuccessSendsKey /\ StoredKeyExplained
  BY DEF Samples, RecvPcs, SuccessSendsKey, StoredKeyExplained
<1> QED
  BY <1>1, <1>2, <1>3, <1>4 DEF SessionInv

\* every step keeps it,
LEMMA SessionInvNext == SessionInv /\ [Next]_vars => SessionInv'
<1> SUFFICES ASSUME SessionInv, [Next]_vars PROVE SessionInv'
  OBVIOUS
<1>1. CASE UNCHANGED vars
  <2> USE <1>1 DEF vars, world, client, server
  <2>1. Control' /\ Verdicts'
    BY DEF SessionInv, Control, Verdicts, Has, ServerTrustsVerdict
  <2>2. Requests' /\ Replies'
    BY DEF SessionInv, Requests, Replies, Quiet, Asks, ImaReply, LogReply, NotNew, WantsFirmware, Stale
  <2>3. KeyOrder' /\ Announced'
    BY DEF SessionInv, KeyOrder, KeyAt, KeyFirst, Announced, Has
  <2>4. Samples' /\ SuccessSendsKey' /\ StoredKeyExplained'
    BY DEF SessionInv, Samples, SuccessSendsKey, StoredKeyExplained
  <2> QED
    BY <2>1, <2>2, <2>3, <2>4 DEF SessionInv
<1>2. CASE rats_tls_client_startup \/ session_frame
  BY <1>2, RatsClientEarly, FdeKeySent, MskSent, ReplyReceived, FrameSent DEF rats_tls_client_startup
<1>3. CASE rats_tls_server \/ msk_without_context
  BY <1>3, ClientReqDealt, RootfsKeyDealt, MskSaved, MskNotReceived, SampleServerStops DEF rats_tls_server
<1>4. CASE client_handle_connect \/ client_dies
  BY <1>4, SampleClient, VerdictStep, ClientDies DEF client_handle_connect
<1>5. CASE server_handle_connect \/ request_fails \/ write_fails
  BY <1>5, VersionRead, RequestHandled, VerdictHandled, KeyFileReceived, SampleServerStops DEF server_handle_connect
<1> QED
  BY <1>1, <1>2, <1>3, <1>4, <1>5 DEF Next

\* and so it always holds.
LEMMA SessionInvAlways == Spec => []SessionInv
BY SessionInvInit, SessionInvNext, PTL DEF Spec

\* Where both sides wait, the stream to the server is empty: what each control point
\* then allows is one of the three explained waits.
LEMMA WaitsExplained == SessionInv => MutualWaitExplained
<1> SUFFICES ASSUME SessionInv, ServerWaits, ClientWaits \/ cpc = "session"
             PROVE  \/ variant = "rats" /\ "ima" \in opt /\ ima = "empty"
                    \/ variant = "rats" /\ "fde" \in opt /\ keyfile = "absent"
                    \/ spc = "package" /\ cpc = "session" /\ log = "big"
  BY DEF MutualWaitExplained
<1>1. c2s = <<>> /\ cpc # "done" /\ spc \in {"recv", "key", "package", "fde_info"}
  BY DEF ServerWaits
<1>2. \A y : ~ Has(c2s, y)
  BY <1>1 DEF Has
<1>3. CASE variant = "samples"
  BY <1>1, <1>3 DEF SessionInv, Samples, ClientWaits, Verdicts, Control
<1>4. CASE variant = "rats" /\ cpc = "session"
  BY <1>1, <1>2, <1>4 DEF SessionInv, Announced, Control
<1>5. CASE variant = "rats" /\ cpc = "reply"
  <2>1. s2c = <<>>
    BY <1>5 DEF ClientWaits
  <2>2. \A y : ~ Has(s2c, y)
    BY <2>1 DEF Has
  <2> QED
    BY <1>1, <1>2, <1>5, <2>2 DEF SessionInv, Announced, Control
<1>6. CASE variant = "rats" /\ cpc \notin {"session", "reply"}
  <2>1. s2c = <<>> /\ cpc \in RecvPcs /\ spc # "done"
    BY <1>6 DEF ClientWaits
  <2>2. cpc \in {"ima_size", "ima_data", "table", "log_size", "log_data"}
    BY <1>6, <2>1 DEF SessionInv, Control, RecvPcs
  <2>3. cpc = "ima_size"
    BY <1>1, <1>6, <2>1, <2>2, Shorts DEF SessionInv, Requests, Asks, LogReply, Quiet
  <2> QED
    BY <1>1, <1>6, <2>1, <2>3, Shorts DEF SessionInv, Requests, Asks, ImaReply, Quiet
<1> QED
  BY <1>3, <1>4, <1>5, <1>6 DEF SessionInv, Control, Variants

\* The server ends well, or makes its slot READY, only in a session whose client verified
\* it: server.c takes no verdict from a repeated or an uninitialised msg_id, and
\* receive_and_save_msk no package but the one sent after MIG_MSK_ACK.
THEOREM ServerTrustsVerdictHolds == Spec => []ServerTrustsVerdict
<1>1. SessionInv => ServerTrustsVerdict
  BY DEF SessionInv, Verdicts
<1> QED
  BY <1>1, SessionInvAlways, PTL

\* A rats_tls_client_startup that returns success has sent the key package, but for the dump
\* mode, a refused event log left in the stream, and a key file longer than MAX.
THEOREM SuccessSendsKeyHolds == Spec => []SuccessSendsKey
<1>1. SessionInv => SuccessSendsKey
  BY DEF SessionInv
<1> QED
  BY <1>1, SessionInvAlways, PTL

\* Client and server wait for each other only after an empty IMA log, an unreadable key
\* file, or a reply that was none, which leaves the server without its package.
THEOREM MutualWaitExplainedHolds == Spec => []MutualWaitExplained
BY WaitsExplained, SessionInvAlways, PTL

\* What deal_rootfs_key and server.c store as the rootfs key is the client's key file, or
\* its head, or the request that followed an unreadable one.
THEOREM StoredKeyExplainedHolds == Spec => []StoredKeyExplained
<1>1. SessionInv => StoredKeyExplained
  BY DEF SessionInv
<1> QED
  BY <1>1, SessionInvAlways, PTL

-----------------------------------------------------------------------------
(***************************************************************************)
(* The session of one connection as MigcvmAgent sees it.  mig_agent_init   *)
(* sets no option, so the agents run the session with none (AgentRun).     *)
(* The connection of a migration "m" has just been accepted when the       *)
(* session begins; the hosts send no further command.                      *)
(***************************************************************************)
AgentRun == variant = "rats" /\ opt = {}

\* exch.st: the client works, has sent the package, or has closed.
Seen == IF pkgSent THEN "package" ELSE IF cpc = "done" THEN "closed" ELSE "negotiate"

Serving == spc \in {"recv", "key", "package"}

Connection == INSTANCE MigcvmAgent WITH
    Migs <- {"m"}, NoMig <- "none", MaxTries <- 1, ClientIps <- {"dst"},
    sQ <- <<>>, cQ <- <<>>, srvIp <- "dst", srcReady <- {}, acked <- {"m"}, pend <- "none",
    tries <- [k \in {"server", "client"} \X {"m"} |-> 1],
    sAt <- IF Serving THEN "attest" ELSE "accept",
    sRd <- IF Serving THEN "m" ELSE "none",
    over <- IF Serving THEN {} ELSE {"m"},
    listener <- IF Serving THEN "thread" ELSE IF spc = "session" THEN "io" ELSE "none",
    session <- IF spc = "session" THEN "m" ELSE "none",
    exch <- IF Serving THEN [m |-> "m", st |-> Seen]
            ELSE IF cpc = "reply" THEN [m |-> "m", st |-> "acked"] ELSE [m |-> "none", st |-> "none"],
    dstKey <- [k \in {"m"} |-> IF slot THEN "m" ELSE "none"],
    cAt <- IF cpc = "session" THEN "bind_slot" ELSE IF cpc = "done" THEN "accept" ELSE "negotiate",
    cM <- IF cpc = "done" THEN "none" ELSE "m"

\* The exchange of such a session, step by step: the announcement, its acknowledgement, the
\* package.  Before the client's part of it is over the server can only leave without a TSI
\* context, with its acknowledgement behind it; a client that returns success has sent the
\* package.
Exchange == AgentRun =>
    /\ cpc \in {"ima", "firmware", "fde", "msk", "reply", "session", "done"}
    /\ spc \in {"recv", "package", "session", "done"}
    /\ cpc \in {"ima", "firmware", "fde", "msk"} => spc = "recv" /\ Quiet
    /\ cpc = "reply" => \/ spc = "recv" /\ c2s = <<Chunk("MSK_SEND")>> /\ s2c = <<>>
                        \/ spc \in {"package", "done"} /\ c2s = <<>> /\ s2c = <<Chunk("MSK_ACK")>>
    /\ cpc = "session" => /\ cRet = "ok" /\ pkgSent /\ spc # "recv"
                          /\ spc = "package" => c2s # <<>> /\ Head(c2s) = Chunk("package")
    /\ cpc = "done" => /\ cRet = "error" /\ ~ pkgSent /\ spc # "session"
                       /\ c2s = <<>> \/ (c2s = <<Chunk("MSK_SEND")>> /\ spc # "package")
    /\ cpc # "session" => ~ pkgSent
    /\ slot <=> spc = "session"

\* What a step of a session without options does to the connection.
AgentStep ==
    \/ \* the client goes on without a request
       /\ cpc \in {"ima", "firmware", "fde"} /\ cpc' \in {"firmware", "fde", "msk"}
       /\ UNCHANGED <<spc, c2s, s2c, cRet, pkgSent, slot>>
    \/ \* MIG_MSK_SEND
       /\ cpc = "msk" /\ cpc' = "reply" /\ c2s' = <<Chunk("MSK_SEND")>>
       /\ UNCHANGED <<spc, s2c, cRet, pkgSent, slot>>
    \/ \* MIG_MSK_ACK
       /\ spc = "recv" /\ spc' = "package" /\ cpc \in {"reply", "done"} /\ c2s' = <<>>
       /\ cpc = "reply" => s2c' = <<Chunk("MSK_ACK")>>
       /\ UNCHANGED <<cpc, cRet, pkgSent, slot>>
    \/ \* the package
       /\ cpc = "reply" /\ spc \in {"package", "done"} /\ cpc' = "session" /\ cRet' = "ok" /\ pkgSent'
       /\ spc = "package" => c2s' = <<Chunk("package")>>
       /\ UNCHANGED <<spc, slot>>
    \/ \* a frame behind the package
       /\ cpc = "session" /\ spc = "package" /\ c2s' = c2s \o <<Chunk("frame")>>
       /\ UNCHANGED <<cpc, spc, s2c, cRet, pkgSent, slot>>
    \/ \* the key is stored
       /\ spc = "package" /\ spc' = "session" /\ cpc = "session" /\ slot'
       /\ UNCHANGED <<cpc, cRet, pkgSent>>
    \/ \* the server fails, after the client's part
       /\ spc \in {"recv", "package"} /\ spc' = "done" /\ cpc \in {"session", "done"}
       /\ cpc = "done" => c2s' = c2s
       /\ UNCHANGED <<cpc, cRet, pkgSent, slot>>
    \/ \* the server leaves, with the acknowledgement behind it
       /\ spc = "package" /\ spc' = "done" /\ cpc = "reply"
       /\ UNCHANGED <<cpc, c2s, s2c, cRet, pkgSent, slot>>
    \/ \* the client fails, before the package
       /\ cpc \notin {"session", "done"} /\ cpc' = "done" /\ cRet' = "error"
       /\ UNCHANGED <<spc, c2s, pkgSent, slot>>

\* The program, its options and the files never change.
LEMMA WorldStays == Next => UNCHANGED world
BY DEF Next, rats_tls_client_startup, rats_tls_server, client_handle_connect, server_handle_connect,
   deal_ima, client_receive_fails, ima_log_size, ima_log_data, request_table, receive_table,
   receive_log_size, receive_log_data, firmware_verdict, deal_fde_key, send_msk, receive_reply,
   session_frame, deal_client_req, deal_rootfs_key, receive_and_save_msk, msk_without_context,
   server_receive_fails, request_cert, save_dev_cert, read_token, read_table, read_log_size, read_log_data, send_verdict,
   client_dies, get_version, handle_request, handle_verdict, receive_fde_info, receive_key_file,
   request_fails, write_fails

\* A frame goes behind what is in the stream.
LEMMA FrameBehind ==
    ASSUME Control, c2s # <<>>
    PROVE  (c2s \o <<Chunk("frame")>>) # <<>> /\ Head(c2s \o <<Chunk("frame")>>) = Head(c2s)
<1> DEFINE q == c2s \o <<Chunk("frame")>>
<1>1. c2s \in Seq(Msgs \X Parts) /\ Chunk("frame") \in Msgs \X Parts
  BY DEF Control, Chunk, Msgs, Parts
<1>2. Len(c2s) \in Nat /\ Len(c2s) # 0 /\ Head(c2s) = c2s[1] /\ 1 \in 1 .. Len(c2s)
  BY <1>1, SeqFacts
<1>3. q \in Seq(Msgs \X Parts) /\ Len(q) = Len(c2s) + 1 /\ q[1] = c2s[1]
  BY <1>1, <1>2, OneMore
<1>4. q # <<>>
  BY <1>2, <1>3, SeqFacts
<1>5. Head(q) = q[1]
  BY <1>3, <1>4, SeqFacts
<1> QED
  BY <1>2, <1>3, <1>4, <1>5

\* Without options only these steps are left of the two programs.
LEMMA AgentSteps ==
    ASSUME Exchange, AgentRun, Next
    PROVE  AgentStep /\ AgentRun'
<1> USE DEF AgentRun
<1>1. AgentRun'
  BY WorldStays DEF world
<1>2. /\ cpc \in {"ima", "firmware", "fde", "msk", "reply", "session", "done"}
      /\ spc \in {"recv", "package", "session", "done"}
  BY DEF Exchange
<1>3. CASE rats_tls_client_startup
  <2> USE DEF server, Kept, ToServer, ClientEnds
  <2>1. ~ ima_log_size /\ ~ ima_log_data /\ ~ receive_table /\ ~ receive_log_size
        /\ ~ receive_log_data /\ ~ firmware_verdict
    BY <1>2 DEF ima_log_size, ima_log_data, receive_table, receive_log_size, receive_log_data, firmware_verdict
  <2>2. CASE deal_ima \/ request_table \/ deal_fde_key
    BY <1>1, <2>2 DEF deal_ima, request_table, deal_fde_key, WantsFirmware, AgentStep
  <2>3. CASE client_receive_fails
    BY <1>1, <1>2, <2>3 DEF client_receive_fails, RecvPcs, AgentStep
  <2>4. CASE send_msk
    <3>1. cpc = "msk" /\ spc = "recv" /\ c2s = <<>>
      BY <2>4 DEF send_msk, Exchange, Quiet
    <3>2. c2s' = <<Chunk("MSK_SEND")>>
      BY <2>4, <3>1, Shorts DEF send_msk
    <3> QED
      BY <1>1, <2>4, <3>1, <3>2 DEF send_msk, AgentStep
  <2>5. CASE receive_reply
    <3>1. cpc = "reply" /\ spc \in {"package", "done"} /\ c2s = <<>> /\ s2c = <<Chunk("MSK_ACK")>>
      BY <2>5 DEF receive_reply, Exchange
    <3>2. Head(s2c) = Chunk("MSK_ACK") /\ <<>> \o <<Chunk("package")>> = <<Chunk("package")>>
      BY <3>1, Shorts
    <3> QED
      BY <1>1, <2>5, <3>1, <3>2 DEF receive_reply, AgentStep
  <2> QED
    BY <1>1, <1>3, <2>1, <2>2, <2>3, <2>4, <2>5 DEF rats_tls_client_startup
<1>4. CASE session_frame
  <2>1. spc = "package" /\ cpc = "session"
    BY <1>4 DEF session_frame, Exchange
  <2> QED
    BY <1>1, <1>4, <2>1 DEF session_frame, ToServer, client, server, AgentStep
<1>5. CASE deal_client_req
  <2> USE DEF client, Kept
  <2>1. cpc \in {"reply", "done"} /\ spc = "recv" /\ c2s = <<Chunk("MSK_SEND")>> /\ (cpc = "reply" => s2c = <<>>)
    BY <1>2, <1>5 DEF deal_client_req, Exchange, Quiet
  <2>2. Head(c2s) = Chunk("MSK_SEND") /\ Tail(c2s) = <<>> /\ <<>> \o <<Chunk("MSK_ACK")>> = <<Chunk("MSK_ACK")>>
    BY <2>1, Shorts
  <2>3. spc' = "package" /\ ToClient(<<Chunk("MSK_ACK")>>) /\ c2s' = <<>> /\ UNCHANGED <<client, slot>>
    BY <1>5, <2>2 DEF deal_client_req, Chunk
  <2> QED
    BY <1>1, <2>1, <2>2, <2>3 DEF ToClient, AgentStep
<1>6. CASE receive_and_save_msk
  <2>1. spc = "package" /\ c2s # <<>> /\ cpc = "session"
    BY <1>2, <1>6 DEF receive_and_save_msk, Exchange, Quiet
  <2> QED
    BY <1>1, <1>6, <2>1 DEF receive_and_save_msk, ServerEnds, client, AgentStep
<1>7. CASE server_receive_fails \/ write_fails
  BY <1>1, <1>2, <1>7 DEF server_receive_fails, write_fails, ServerEnds, Kept, client, AgentStep
<1>11. CASE msk_without_context
  <2>1. spc = "package" /\ cpc \in {"reply", "session", "done"}
    BY <1>2, <1>11 DEF msk_without_context, Exchange
  <2> QED
    BY <1>1, <1>11, <2>1 DEF msk_without_context, ServerEnds, Kept, client, AgentStep
<1>8. CASE client_dies
  BY <1>1, <1>8 DEF client_dies, ClientEnds, Kept, server, AgentStep
<1>9. ~ deal_rootfs_key /\ ~ request_cert /\ ~ save_dev_cert /\ ~ read_token /\ ~ read_table
      /\ ~ read_log_size /\ ~ read_log_data /\ ~ send_verdict
  BY <1>2 DEF deal_rootfs_key, request_cert, save_dev_cert, read_token, read_table, read_log_size,
     read_log_data, send_verdict
<1>10. ~ get_version /\ ~ handle_request /\ ~ handle_verdict /\ ~ receive_fde_info /\ ~ receive_key_file
       /\ ~ request_fails
  BY <1>2 DEF get_version, handle_request, handle_verdict, receive_fde_info, receive_key_file, request_fails
<1> QED
  BY <1>3, <1>4, <1>5, <1>6, <1>7, <1>8, <1>9, <1>10, <1>11
  DEF Next, rats_tls_server, client_handle_connect, server_handle_connect

\* The exchange is kept by every step,
LEMMA ExchangeNext == SessionInv /\ Exchange /\ [Next]_vars => Exchange'
<1> SUFFICES ASSUME SessionInv, Exchange, [Next]_vars, AgentRun' PROVE Exchange'
  BY DEF Exchange
<1>1. CASE UNCHANGED vars
  BY <1>1 DEF vars, world, client, server, Exchange, AgentRun, Quiet
<1>2. CASE Next
  <2>1. AgentRun
    BY <1>2, WorldStays DEF AgentRun, world
  <2>2. AgentStep
    BY <1>2, <2>1, AgentSteps
  <2>3. c2s # <<>> => (c2s \o <<Chunk("frame")>>) # <<>> /\ Head(c2s \o <<Chunk("frame")>>) = Head(c2s)
    BY FrameBehind DEF SessionInv
  <2>4. Tail(<<Chunk("MSK_SEND")>>) = <<>> /\ <<Chunk("package")>> # <<>> /\ Head(<<Chunk("package")>>) = Chunk("package")
    BY Shorts
  <2> QED
    BY <2>1, <2>2, <2>3, <2>4 DEF AgentStep, Exchange, Quiet
<1> QED
  BY <1>1, <1>2

\* and so it always holds.
LEMMA ExchangeAlways == Spec => []Exchange
<1>1. Init => Exchange
  BY DEF Init, Exchange, AgentRun, Quiet
<1> QED
  BY <1>1, ExchangeNext, SessionInvAlways, PTL DEF Spec

\* Every step of a session of the agents is a step of MigcvmAgent: client_exchanges,
\* server_saves_msk or server_fails, or one it does not see, also where receive_and_save_msk
\* returns before the package and the client still sends it.  So the agents' connection that
\* ends with the package sent, with the client's success, or is closed, is what
\* rats_tls_client_startup and deal_client_req make of it message by message.
THEOREM SessionIsConnection ==
    Spec => [][AgentRun => Connection!AgentsNext]_(Connection!agentVars)
<1> USE DEF Connection!agentVars, Connection!sVars, Connection!cVars, Connection!net
<1>1. ASSUME Exchange, [Next]_vars
      PROVE  [AgentRun => Connection!AgentsNext]_(Connection!agentVars)
  <2>1. CASE UNCHANGED vars
    BY <2>1 DEF vars, client, server, Serving, Seen
  <2>2. CASE ~ AgentRun
    BY <2>2
  <2>3. CASE AgentRun /\ Next
    <3>1. AgentStep
      BY <1>1, <2>3, AgentSteps
    <3> USE <1>1, <2>3 DEF Serving, Seen
    <3>2. ASSUME UNCHANGED <<pkgSent, slot>>, Serving' = Serving, Serving \/ cpc' = cpc, cpc' # "session" \/ cpc = "session",
                 (cpc' = "done") = (cpc = "done"), (cpc' = "session") = (cpc = "session"),
                 (spc' = "session") = (spc = "session")
          PROVE  UNCHANGED Connection!agentVars
      BY <3>2
    <3>3. ASSUME cpc \notin {"session", "done"}, UNCHANGED <<spc, slot>>,
                 \/ cpc' = "session" /\ pkgSent'
                 \/ cpc' = "done" /\ UNCHANGED pkgSent
          PROVE  Connection!AgentsNext
      <4>1. ~ pkgSent /\ (Serving \/ cpc = "reply")
        BY <3>3 DEF Exchange
      <4>2. Connection!client_exchanges
        BY <3>3, <4>1 DEF Connection!client_exchanges, Connection!ClientAnswers, Connection!Left,
           Connection!NoConn
      <4> QED
        BY <4>2 DEF Connection!AgentsNext, Connection!client_thread_func
    <3>4. ASSUME spc = "package", spc' = "session", cpc = "session", slot', UNCHANGED <<cpc, pkgSent>>
          PROVE  Connection!AgentsNext
      <4>1. pkgSent
        BY <3>4 DEF Exchange
      <4>2. Connection!server_saves_msk
        BY <3>4, <4>1 DEF Connection!server_saves_msk, Connection!Served, Connection!StartupReturns,
           Connection!NoConn
      <4> QED
        BY <4>2 DEF Connection!AgentsNext, Connection!server_thread_func
    <3>5. ASSUME spc \in {"recv", "package"}, spc' = "done", cpc \in {"session", "done"},
                 UNCHANGED <<cpc, pkgSent, slot>>
          PROVE  Connection!AgentsNext
      <4>1. Seen # "negotiate"
        BY <3>5 DEF Exchange
      <4>2. Connection!server_fails
        BY <3>5, <4>1 DEF Connection!server_fails, Connection!StartupReturns, Connection!NoConn
      <4> QED
        BY <4>2 DEF Connection!AgentsNext
    <3>6. ASSUME spc = "package", spc' = "done", cpc = "reply", UNCHANGED <<cpc, pkgSent, slot>>
          PROVE  Connection!AgentsNext
      <4>1. ~ pkgSent
        BY <3>6 DEF Exchange
      <4>2. Connection!server_fails
        BY <3>6, <4>1 DEF Connection!server_fails, Connection!StartupReturns
      <4> QED
        BY <4>2 DEF Connection!AgentsNext
    <3>7. cpc \in {"ima", "firmware", "fde", "msk"} => Serving
      BY DEF Exchange
    <3> QED
      BY <3>1, <3>2, <3>3, <3>4, <3>5, <3>6, <3>7 DEF AgentStep
  <2> QED
    BY <1>1, <2>1, <2>2, <2>3
<1> QED
  BY <1>1, ExchangeAlways, PTL DEF Spec
=============================================================================
