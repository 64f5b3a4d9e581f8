------------------------------ MODULE MigcvmAgent ------------------------------
(***************************************************************************)
(* The two migration CVM agents of a live migration: the client thread of  *)
(* the agent next to the source VM and the server thread of the agent next *)
(* to the destination VM.  Each thread takes commands of its host over     *)
(* vsock, one at a time (socket_agent_start_with_handler); the server      *)
(* thread acknowledges START_SERVER before it listens.                     *)
(*                                                                         *)
(* A migration stands for its guest_rd and for its migration session key.  *)
(* The attestation and key exchange of one connection is module            *)
(* AttestSession, the integrity session after it module IntegrityCheck;    *)
(* here a connection ends with the key package sent or is closed.  No name *)
(* is one of AttestSession, so that MigcvmAgentProofs can relate the two.  *)
(***************************************************************************)
EXTENDS Naturals, Sequences, FiniteSets

CONSTANTS Migs,      \* the migrations
          NoMig,
          MaxTries,  \* bound: commands of each kind a host sends for a migration
          ClientIps  \* -c, the peer's IP address before any command

ASSUME MAAssumption ==
    /\ NoMig \notin Migs /\ MaxTries \in Nat \ {0}
    /\ ClientIps \subseteq {"127.0.0.1", "dst"}

\* The addresses a START_CLIENT may carry: the destination, none, or the loopback
\* address, which stands for "the one you have".
Ips == {"dst", "", "127.0.0.1"}

VARIABLES
    sQ,        \* START_SERVER commands in the backlog of the server agent's vsock port
    sAt,       \* server thread: "accept", "startup", "listen", "attest"
    sRd,       \* server args->guest_rd
    listener,  \* who holds the listening TCP socket: nobody, the thread or an io_thread
    pend,      \* the connection waiting in the listener's backlog
    exch,      \* the accepted connection: the client's migration and how far it got;
               \* "acked" once the server has gone and left its MIG_MSK_ACK behind
    cQ,        \* START_CLIENT commands in the backlog of the client agent's vsock port
    cAt,       \* client thread: "accept", "connect", "negotiate", "bind_slot", "crashed"
    cM,        \* client args->guest_rd
    srvIp,     \* client args->srv_ip, kept from command to command
    srcReady,  \* migrations whose source slot is SLOT_IS_READY with set_key
    dstKey,    \* the key in the destination slot of each migration
    session,   \* the slot whose integrity session the server's io_thread runs
    acked,     \* migrations whose START_SERVER was acknowledged with success
    over,      \* migrations whose acknowledged rats_tls_server_startup has returned
    tries      \* commands sent, by kind and migration

sVars == <<sQ, sAt, sRd, acked, over>>
cVars == <<cQ, cAt, cM, srvIp, srcReady>>
net == <<listener, pend, exch>>
agentVars == <<sVars, cVars, net, dstKey, session, tries>>

NoConn == [m |-> NoMig, st |-> "none"]

AgentsTypeOK ==
    /\ sQ \in Seq(Migs) /\ cQ \in Seq(Migs \X Ips)
    /\ sAt \in {"accept", "startup", "listen", "attest"}
    /\ cAt \in {"accept", "connect", "negotiate", "bind_slot", "crashed"}
    /\ sRd \in Migs \cup {NoMig} /\ cM \in Migs \cup {NoMig} /\ pend \in Migs \cup {NoMig}
    /\ listener \in {"none", "thread", "io"}
    /\ exch = NoConn \/ exch \in [m : Migs, st : {"negotiate", "package", "closed", "acked"}]
    /\ srvIp \in Ips /\ srcReady \subseteq Migs /\ acked \subseteq Migs /\ over \subseteq Migs
    /\ dstKey \in [Migs -> Migs \cup {NoMig}] /\ session \in Migs \cup {NoMig}
    /\ tries \in [{"server", "client"} \X Migs -> 0 .. MaxTries]

AgentsInit ==
    /\ sQ = <<>> /\ sAt = "accept" /\ sRd = NoMig
    /\ listener = "none" /\ pend = NoMig /\ exch = NoConn
    /\ cQ = <<>> /\ cAt = "accept" /\ cM = NoMig /\ srvIp \in ClientIps
    /\ srcReady = {} /\ dstKey = [m \in Migs |-> NoMig] /\ session = NoMig
    /\ acked = {} /\ over = {} /\ tries = [k \in {"server", "client"} \X Migs |-> 0]
---------------------------------------------------------------------------
(* The hosts (external).  A host starts the client of a migration after    *)
(* the server was acknowledged, and may repeat either command.             *)

Sends(kind, m) ==
    /\ tries[<<kind, m>>] < MaxTries
    /\ tries' = [tries EXCEPT ![<<kind, m>>] = @ + 1]

host_start_server(m) ==
    /\ Sends("server", m)
    /\ sQ' = Append(sQ, m)
    /\ UNCHANGED <<sAt, sRd, acked, over, cVars, net, dstKey, session>>

host_start_client(m, ip) ==
    /\ m \in acked /\ Sends("client", m)
    /\ cQ' = Append(cQ, <<m, ip>>)
    /\ UNCHANGED <<sVars, cAt, cM, srvIp, srcReady, net, dstKey, session>>
---------------------------------------------------------------------------
(* The server thread of the destination's agent.                           *)

\* Mutant: the handler returns before the server it started, so that the next command
\* is taken while the thread still waits for a client.
ras_tls_handler_serverEager ==
    /\ sAt \in {"accept", "listen"} /\ sQ # <<>>
    /\ sQ' = Tail(sQ)
    /\ sRd' = Head(sQ)
    /\ acked' = acked \cup {Head(sQ)}
    /\ sAt' = IF sAt = "listen" THEN "listen" ELSE "startup"
    /\ UNCHANGED <<over, cVars, net, dstKey, session, tries>>

\* calling_handler and ras_tls_handler_server: take a command and acknowledge it; only an
\* acknowledgement that was written starts the server.
ras_tls_handler_server ==
    /\ sAt = "accept" /\ sQ # <<>>
    /\ sQ' = Tail(sQ)
    /\ sRd' = Head(sQ)
    /\ \/ acked' = acked \cup {Head(sQ)} /\ sAt' = "startup"
       \/ UNCHANGED <<acked, sAt>>
    /\ UNCHANGED <<over, cVars, net, dstKey, session, tries>>

\* rats_tls_server_startup returns and the thread takes the next command.
StartupReturns == sAt' = "accept" /\ over' = over \cup {sRd}

\* socket, bind, listen and rats_tls_init.  The address is taken while another socket
\* listens on it, also one that was handed to an io_thread.
server_listens ==
    /\ sAt = "startup"
    /\ \/ listener = "none" /\ listener' = "thread" /\ sAt' = "listen" /\ UNCHANGED over
       \/ UNCHANGED listener /\ StartupReturns
    /\ UNCHANGED <<sQ, sRd, acked, cVars, pend, exch, dstKey, session, tries>>

\* accept, with no timeout.
server_accepts ==
    /\ sAt = "listen" /\ pend # NoMig
    /\ exch' = [m |-> pend, st |-> "negotiate"] /\ pend' = NoMig
    /\ sAt' = "attest"
    /\ UNCHANGED <<sQ, sRd, acked, over, cVars, listener, dstKey, session, tries>>

\* Mutant: the listening socket is closed once the client is served.
ServedReleasing == listener' = "none"

\* After success the listening socket belongs to io_thread.
Served == listener' = "io"

\* receive_and_save_msk: the key that arrived goes to the slot of args->guest_rd, which is
\* cleared; the integrity session starts.
server_saves_msk ==
    /\ sAt = "attest" /\ exch.st = "package"
    /\ dstKey' = [dstKey EXCEPT ![sRd] = exch.m]
    /\ session' = sRd /\ Served /\ exch' = NoConn
    /\ StartupReturns /\ sRd' = NoMig
    /\ UNCHANGED <<sQ, acked, cVars, pend, tries>>

\* The negotiation, a request, the check of the bound rds or a TSI call fails, or the
\* client has closed: both sockets are closed, and with the listener its backlog.  Once in
\* receive_and_save_msk args->guest_rd is cleared; without a TSI context that is before
\* the package was received, while the client may still be about to send it.
server_fails ==
    /\ sAt = "attest"
    /\ listener' = "none" /\ pend' = NoMig
    /\ StartupReturns
    /\ \/ exch.st # "package" /\ exch' = NoConn /\ UNCHANGED sRd
       \/ exch.st # "negotiate" /\ exch' = NoConn /\ sRd' = NoMig
       \/ exch.st = "negotiate" /\ exch' = [m |-> exch.m, st |-> "acked"] /\ sRd' = NoMig
    /\ UNCHANGED <<sQ, acked, cVars, dstKey, session, tries>>

\* Mutant: the listening socket is not closed with the session.
session_endsKeepsListener ==
    /\ session # NoMig
    /\ session' = NoMig
    /\ UNCHANGED <<sVars, cVars, net, dstKey, tries>>

\* io_thread ends (module IntegrityCheck): cleanup_resources closes both sockets.
session_ends ==
    /\ session # NoMig
    /\ session' = NoMig /\ listener' = "none" /\ pend' = NoMig
    /\ UNCHANGED <<sVars, cVars, exch, dstKey, tries>>
---------------------------------------------------------------------------
(* The client thread of the source's agent.                                *)

\* The acknowledgement is written, args cleared and the next command taken.
ClientAnswers == cAt' = "accept" /\ cM' = NoMig

IpAfter(ip) == IF ip # "127.0.0.1" THEN ip ELSE srvIp

\* ras_tls_handler_client up to rats_tls_client_startup: the address is kept, the rd must
\* be bound and its key readable.
ras_tls_handler_client ==
    /\ cAt = "accept" /\ cQ # <<>>
    /\ cQ' = Tail(cQ)
    /\ srvIp' = IpAfter(Head(cQ)[2])
    /\ \/ srvIp' # "127.0.0.1" /\ cAt' = "connect" /\ cM' = Head(cQ)[1]
       \/ ClientAnswers
    /\ UNCHANGED <<sVars, net, srcReady, dstKey, session, tries>>

\* Without a TSI context the handler frees host_srv_ip, which it never set: the agent
\* answers, or is gone.
no_tsi_context ==
    /\ cAt = "accept" /\ cQ # <<>>
    /\ cQ' = Tail(cQ)
    /\ ClientAnswers \/ (cAt' = "crashed" /\ UNCHANGED cM)
    /\ UNCHANGED <<sVars, srvIp, net, srcReady, dstKey, session, tries>>

\* rats_tls_client_startup: connect reaches whoever listens, and waits in the backlog.
client_connects ==
    /\ cAt = "connect"
    /\ IF srvIp = "dst" /\ listener # "none"
       THEN pend' = cM /\ cAt' = "negotiate" /\ UNCHANGED cM
       ELSE ClientAnswers /\ UNCHANGED pend
    /\ UNCHANGED <<sVars, cQ, srvIp, srcReady, listener, exch, dstKey, session, tries>>

\* What is left of the connection when the client has done its part.
Left(st) == IF exch.st = "acked" THEN NoConn ELSE [m |-> cM, st |-> st]

\* The connection is negotiated once accepted; then the peer is verified and the package
\* sent (module AttestSession), or the connection closed.  With MIG_MSK_ACK received the
\* package is sent, and success returned, also when the server has gone.
client_exchanges ==
    /\ cAt = "negotiate" /\ exch.m = cM /\ exch.st \in {"negotiate", "acked"}
    /\ \/ exch' = Left("package") /\ cAt' = "bind_slot" /\ UNCHANGED cM
       \/ exch' = Left("closed") /\ ClientAnswers
    /\ UNCHANGED <<sVars, cQ, srvIp, srcReady, listener, pend, dstKey, session, tries>>

\* The connection was reset before or during the negotiation.
client_reset ==
    /\ cAt = "negotiate" /\ pend = NoMig /\ exch.m # cM
    /\ ClientAnswers
    /\ UNCHANGED <<sVars, cQ, srvIp, srcReady, net, dstKey, session, tries>>

\* set_migration_bind_slot_and_mask, with the io_thread of the client already running;
\* nothing the server did with the package is waited for.
client_binds_slot ==
    /\ cAt = "bind_slot"
    /\ srcReady' = srcReady \cup {cM} \/ UNCHANGED srcReady
    /\ ClientAnswers
    /\ UNCHANGED <<sVars, cQ, srvIp, net, dstKey, session, tries>>
---------------------------------------------------------------------------
server_thread_func == ras_tls_handler_server \/ server_listens \/ server_accepts \/ server_saves_msk

client_thread_func == ras_tls_handler_client \/ client_connects \/ client_exchanges
                      \/ client_reset \/ client_binds_slot

AgentsNext ==
    \/ \E m \in Migs : host_start_server(m) \/ \E ip \in Ips : host_start_client(m, ip)
    \/ server_thread_func \/ server_fails \/ session_ends
    \/ client_thread_func \/ no_tsi_context

AgentsSpec == AgentsInit /\ [][AgentsNext]_agentVars

\* Both threads run and a peer that closed is noticed.  Hosts and faults are free, and an
\* integrity session may last for ever.
FairAgentsSpec ==
    /\ AgentsSpec
    /\ WF_agentVars(server_thread_func) /\ WF_agentVars(client_thread_func)
    /\ WF_agentVars(server_fails /\ exch.st = "closed")
---------------------------------------------------------------------------
\* A destination slot holds the key of another migration only if that migration's own
\* server was started, acknowledged, and had returned: the packages carry no rd, so a
\* client that comes late is served for whatever migration the thread waits for now
\* (receive_and_save_msk), but never for one that overtook it.
ForeignKeyExplained ==
    \A m \in Migs : dstKey[m] \in {NoMig, m} \cup over

\* While the server's io_thread runs an integrity session no key is stored and no other
\* session starts: the listening socket the session holds keeps the port taken.
SessionExclusive == [][session # NoMig => dstKey' = dstKey /\ session' \in {session, NoMig}]_agentVars

\* Every START_CLIENT is answered, also one whose connection waits in the backlog of a
\* socket nobody accepts on, unless the agent itself is gone or the integrity session
\* that holds that socket never ends.
ClientsAnswered == (cAt # "accept") ~> (cAt \in {"accept", "crashed"} \/ [](session # NoMig))
=============================================================================
