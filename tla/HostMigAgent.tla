----------------------------- MODULE HostMigAgent -----------------------------
(***************************************************************************)
(* virtcca-mig-agent: the client thread of the agent on the source host    *)
(* and the server thread of the agent on the destination host.             *)
(*                                                                         *)
(* The client thread polls the TMI for VMs to migrate, connects, sends the *)
(* VM's name and its migration key and starts a detached io_thread (module *)
(* IntegrityCheck).  All io_threads of an agent use one TLS handle: that   *)
(* of the client thread, or the server thread's local variable.            *)
(*                                                                         *)
(* A migration stands for the VM, its rd and its key.  Connections are     *)
(* numbered in the order in which the client opens them.                   *)
(***************************************************************************)
EXTENDS Naturals, Sequences, SequencesExt

CONSTANTS Migs,     \* the VMs to migrate; all of them exist at the destination
          NoMig,
          NameOf,   \* the VMs' names, as sequences of characters (positive numbers)
          MaxLen,   \* sizeof(cvm_name)
          MaxConns  \* bound: how often the TMI notifies the agent of a migration

ASSUME HMAssumption ==
    /\ NoMig \notin Migs /\ MaxLen \in Nat /\ MaxConns \in Nat
    /\ NameOf \in [Migs -> Seq(Nat \ {0})]
    /\ \A m \in Migs : Len(NameOf[m]) \in 1 .. MaxLen

NUL == 0
Junk == 99
Conns == 1 .. MaxConns

\* A TLS object: that of a connection, one that was allocated and not yet set, or freed.
Unset == 0
Freed == MaxConns + 1
Ssls == 0 .. MaxConns + 1

\* Who holds file descriptor 0 of the client agent: nobody, a connection, or something
\* else (at first the standard input).
FdFree == 0
FdOther == MaxConns + 1
Fds == 0 .. MaxConns + 1

VARIABLES
    cpc,       \* client thread: "poll", "connect", "negotiate", "name", "key", "ended", "exited"
    cM,        \* data[0]: the VM being migrated
    conns,     \* connections opened so far; the newest one is the client thread's
    cSsl,      \* (*handle)->ssl of the client
    cSess,     \* connections whose io_thread runs at the client
    fd0,       \* who holds descriptor 0 of the client
    spc,       \* server thread: "accept", "negotiate", "name", "key", "ended", or "crashed" with its agent
    sConn,     \* the connection being served
    sSsl,      \* handle->ssl of the server
    sSess,     \* connections whose io_thread runs at the server
    sRd,       \* rd, as virtcca_tmi_ioctl left it
    buf,       \* cvm_name, which the loop reuses and nobody clears
    wire,      \* what each connection carries to the server, and whether it is open
    dstKey     \* the migration key set for each destination VM

cVars == <<cpc, cM, conns, cSsl, cSess, fd0>>
sVars == <<spc, sConn, sSsl, sSess, sRd, buf, dstKey>>
vars == <<cVars, sVars, wire>>

\* pending: in the listener's backlog; gone: there, but closed by the client; open:
\* accepted; closed: by either side.
Wires == [st : {"unused", "pending", "gone", "open", "closed"}, data : {"", "name", "both"}, m : Migs \cup {NoMig}]

TypeOK ==
    /\ cpc \in {"poll", "connect", "negotiate", "name", "key", "ended", "exited"}
    /\ spc \in {"accept", "negotiate", "name", "key", "ended", "crashed"}
    /\ cM \in Migs \cup {NoMig} /\ sRd \in Migs \cup {NoMig}
    /\ conns \in 0 .. MaxConns /\ sConn \in 0 .. MaxConns
    /\ cSsl \in Ssls /\ sSsl \in Ssls /\ fd0 \in Fds
    /\ cSess \subseteq Conns /\ sSess \subseteq Conns
    /\ buf \in [1 .. MaxLen -> Nat]
    /\ wire \in [Conns -> Wires]
    /\ dstKey \in [Migs -> Migs \cup {NoMig}]

\* The server thread has bound its socket; cvm_name holds whatever the stack held.
Init ==
    /\ cpc = "poll" /\ cM = NoMig /\ conns = 0 /\ cSsl = Unset /\ cSess = {} /\ fd0 = FdOther
    /\ spc = "accept" /\ sConn = 0 /\ sSsl = Unset /\ sSess = {} /\ sRd = NoMig
    /\ \E c \in {NUL, Junk} : buf = [i \in 1 .. MaxLen |-> c]
    /\ wire = [k \in Conns |-> [st |-> "unused", data |-> "", m |-> NoMig]]
    /\ dstKey = [m \in Migs |-> NoMig]

Listening == spc \notin {"ended", "crashed"}
Wire(k, st, data) == [st |-> st, data |-> data, m |-> wire[k].m]
Closed(K) == [k \in Conns |-> IF k \notin K THEN wire[k]
                ELSE Wire(k, IF wire[k].st \in {"pending", "gone"} THEN "gone" ELSE "closed", wire[k].data)]
---------------------------------------------------------------------------
(* The client thread.                                                      *)

\* virtcca_mig_client returned -1: the loop ends and virtcca_tls_cleanup frees the handle
\* and its ssl, whoever uses it.
ClientThreadEnds == cpc' = "ended" /\ cSsl' = Freed

\* The agent's process ends, by exit or by a fault, and its connections with it.
ClientAgentDies ==
    cpc' = "exited" /\ cSess' = {} /\ wire' = Closed(1 .. conns)

\* get_virtcca_mig_info: at most MAX_MIG_THREADS (one) VM is taken; an error ends the
\* process.
get_virtcca_mig_info ==
    /\ cpc = "poll" /\ conns < MaxConns
    /\ \/ \E m \in Migs : cM' = m /\ cpc' = "connect" /\ UNCHANGED <<cSess, wire>>
       \/ ClientAgentDies /\ UNCHANGED cM
    /\ UNCHANGED <<conns, cSsl, fd0, sVars>>

\* socket takes the lowest free descriptor.  connect, and SSL_new in virtcca_tls_negotiate:
\* the handle's ssl is replaced at once.  When the very first connect fails,
\* virtcca_tls_cleanup frees an ssl that was never set, which the process may not survive.
client_connects ==
    /\ cpc = "connect"
    /\ IF Listening
       THEN /\ conns' = conns + 1 /\ cpc' = "negotiate" /\ cSsl' = conns + 1
            /\ fd0' = IF fd0 = FdFree THEN conns + 1 ELSE fd0
            /\ wire' = [wire EXCEPT ![conns + 1] = [st |-> "pending", data |-> "", m |-> cM]]
            /\ UNCHANGED cSess
       ELSE /\ \/ ClientThreadEnds /\ UNCHANGED <<cSess, wire>>
               \/ cSsl = Unset /\ ClientAgentDies /\ UNCHANGED cSsl
            /\ UNCHANGED <<conns, fd0>>
    /\ UNCHANGED <<cM, sVars>>

\* The negotiation succeeds once the server takes part in it.
client_negotiates ==
    /\ cpc = "negotiate" /\ wire[conns].st = "open" /\ spc = "name" /\ sConn = conns
    /\ cpc' = "name"
    /\ UNCHANGED <<cM, conns, cSsl, cSess, fd0, sVars, wire>>

\* strlen(name) bytes are sent, without the terminating NUL.
client_sends_name ==
    /\ cpc = "name" /\ wire[conns].st = "open"
    /\ wire' = [wire EXCEPT ![conns] = Wire(conns, "open", "name")]
    /\ cpc' = "key"
    /\ UNCHANGED <<cM, conns, cSsl, cSess, fd0, sVars>>

\* virtcca_transfer_mig_key, and the io_thread of this connection, whose devices take the
\* lowest free descriptors.
virtcca_transfer_mig_key ==
    /\ cpc = "key" /\ wire[conns].st = "open"
    /\ wire' = [wire EXCEPT ![conns] = Wire(conns, "open", "both")]
    /\ cSess' = cSess \cup {conns}
    /\ cpc' = "poll" /\ cM' = NoMig
    /\ fd0' = IF fd0 = FdFree THEN FdOther ELSE fd0
    /\ UNCHANGED <<conns, cSsl, sVars>>

\* The connection is closed by the server, or a step fails (a certificate that
\* verify_callback refuses, the TMI without a key): the thread ends.  A failed negotiation
\* has freed ssl already: virtcca_tls_cleanup frees it again, which the process may not
\* survive.
client_fails ==
    /\ \/ /\ cpc \in {"negotiate", "name", "key"}
          /\ ClientThreadEnds /\ wire' = Closed({conns}) /\ UNCHANGED cSess
       \/ cpc = "negotiate" /\ ClientAgentDies /\ cSsl' = Freed
    /\ fd0' = IF fd0 = conns THEN FdFree ELSE fd0
    /\ UNCHANGED <<cM, conns, sVars>>
---------------------------------------------------------------------------
(* The server thread.                                                      *)

\* The backlog, in the order of the connections.
Waiting == {k \in Conns : wire[k].st \in {"pending", "gone"}}
AcceptFirst(k) ==
    /\ k \in Waiting /\ \A j \in Waiting : k <= j
    /\ wire' = [wire EXCEPT ![k] = Wire(k, IF @.st = "pending" THEN "open" ELSE "closed", @.data)]

\* Mutant: the handle of the next connection is prepared before it is accepted.
server_acceptsInitFirst ==
    /\ spc = "accept"
    /\ \/ \E k \in Conns : AcceptFirst(k) /\ sConn' = k /\ spc' = "negotiate" /\ sSsl' = Unset
       \/ sSsl' = Unset /\ UNCHANGED <<wire, sConn, spc>>
    /\ UNCHANGED <<cVars, sSess, sRd, buf, dstKey>>

\* accept and virtcca_tls_init: handle is a new context, its ssl not yet set.
server_accepts ==
    /\ spc = "accept"
    /\ \E k \in Conns : AcceptFirst(k) /\ sConn' = k
    /\ spc' = "negotiate" /\ sSsl' = Unset
    /\ UNCHANGED <<cVars, sSess, sRd, buf, dstKey>>

\* virtcca_tls_negotiate
server_negotiates ==
    /\ spc = "negotiate" /\ wire[sConn].st = "open"
    /\ spc' = "name" /\ sSsl' = sConn
    /\ UNCHANGED <<cVars, sConn, sSess, sRd, buf, wire, dstKey>>

\* The name overwrites the beginning of cvm_name; the TMI looks for the VM whose name is
\* what cvm_name holds up to its first NUL.
Received(name) == [i \in 1 .. MaxLen |-> IF i <= Len(name) THEN name[i] ELSE buf[i]]
VmNamed(b) == {v \in Migs : LET len == Len(NameOf[v]) IN
                 SubSeq(b, 1, len) = NameOf[v] /\ (len = MaxLen \/ b[len + 1] = NUL)}

\* Mutant: a VM the TMI does not know is not an error, and rd keeps its value.
get_dstvm_rdUnchecked ==
    /\ spc = "name" /\ wire[sConn].data # ""
    /\ buf' = Received(NameOf[wire[sConn].m])
    /\ spc' = "key"
    /\ sRd' = IF VmNamed(buf') = {} /\ sRd # NoMig THEN sRd
              ELSE IF VmNamed(buf') = {} THEN CHOOSE v \in Migs : TRUE
              ELSE CHOOSE v \in VmNamed(buf') : TRUE
    /\ UNCHANGED <<cVars, sConn, sSsl, sSess, wire, dstKey>>

\* virtcca_tls_receive of the name and VIRTCCA_GET_DSTVM_RD, which fails if no VM has it.
get_dstvm_rd ==
    /\ spc = "name" /\ wire[sConn].data # ""
    /\ buf' = Received(NameOf[wire[sConn].m])
    /\ sRd' \in VmNamed(buf')
    /\ spc' = "key"
    /\ UNCHANGED <<cVars, sConn, sSsl, sSess, wire, dstKey>>

\* virtcca_receive_mig_key, and the io_thread of this connection.
virtcca_receive_mig_key ==
    /\ spc = "key" /\ wire[sConn].data = "both"
    /\ dstKey' = [dstKey EXCEPT ![sRd] = wire[sConn].m]
    /\ sSess' = sSess \cup {sConn}
    /\ spc' = "accept"
    /\ UNCHANGED <<cVars, sConn, sSsl, sRd, buf, wire>>

\* Mutant: the thread ends without closing its sockets.
server_failsKeepsSockets ==
    /\ spc \in {"accept", "negotiate", "name", "key"}
    /\ spc' = "ended" /\ sSsl' = Freed
    /\ UNCHANGED <<cVars, sConn, sSess, sRd, buf, dstKey, wire>>

ServerCloses(K) ==
    wire' = [k \in Conns |-> IF k \in K THEN Wire(k, "closed", wire[k].data) ELSE wire[k]]

\* Any failure of one connection, or of accept, leaves the loop for good: the connection,
\* the listening socket and with it the backlog are closed, and the handle is freed.  As at
\* the client, ssl is freed twice after a failed negotiation: the agent may die of it.
server_fails ==
    /\ \/ /\ spc \in {"accept", "negotiate", "name", "key"}
          /\ spc' = "ended" /\ UNCHANGED sSess
          /\ ServerCloses(IF spc = "accept" THEN Waiting ELSE Waiting \cup {sConn})
       \/ /\ spc = "negotiate"
          /\ spc' = "crashed" /\ sSess' = {}
          /\ ServerCloses({k \in Conns : wire[k].st # "unused"})
    /\ sSsl' = Freed
    /\ UNCHANGED <<cVars, sConn, sRd, buf, dstKey>>

\* The connection ended before what is expected next, or no VM has the name.
ServerStuck ==
    LET data == wire[sConn].data IN
    \/ spc = "negotiate" /\ wire[sConn].st = "closed"
    \/ spc = "name" /\ data = "" /\ wire[sConn].st = "closed"
    \/ spc = "name" /\ data # "" /\ VmNamed(Received(NameOf[wire[sConn].m])) = {}
    \/ spc = "key" /\ data # "both" /\ wire[sConn].st = "closed"
---------------------------------------------------------------------------
\* io_thread ends at one side and closes its connection (module IntegrityCheck); the TLS
\* handle stays.  At the client params->connd_fd is 0, as calloc left it, and
\* cleanup_client closes that descriptor first, whoever holds it.

\* Mutant: the socket of the newest connection is closed with the session's own.
client_session_endsNewest ==
    /\ \E k \in cSess : cSess' = cSess \ {k} /\ wire' = Closed({k, conns})
    /\ UNCHANGED <<cpc, cM, conns, cSsl, fd0, sVars>>

client_session_ends ==
    /\ \E k \in cSess : cSess' = cSess \ {k} /\ wire' = Closed({k, fd0})
    /\ fd0' = FdFree
    /\ UNCHANGED <<cpc, cM, conns, cSsl, sVars>>

server_session_ends ==
    /\ \E k \in sSess : sSess' = sSess \ {k} /\ wire' = Closed({k})
    /\ UNCHANGED <<cVars, spc, sConn, sSsl, sRd, buf, dstKey>>

ClientSteps == client_connects \/ client_negotiates \/ client_sends_name \/ virtcca_transfer_mig_key
ServerSteps == server_accepts \/ server_negotiates \/ get_dstvm_rd \/ virtcca_receive_mig_key

Next ==
    \/ get_virtcca_mig_info \/ ClientSteps \/ client_fails
    \/ ServerSteps \/ server_fails
    \/ client_session_ends \/ server_session_ends

Spec == Init /\ [][Next]_vars

\* Both threads run and notice a peer that closed.  Whether a migration is announced, a
\* step fails or a session ends is up to the environment.
FairSpec ==
    /\ Spec
    /\ WF_vars(ClientSteps) /\ WF_vars(client_fails /\ wire[conns].st \in {"closed", "gone"})
    /\ WF_vars(ServerSteps) /\ WF_vars(server_fails /\ ServerStuck)
---------------------------------------------------------------------------
\* A migration key is only ever set for a VM whose name begins with the name that was sent
\* with it: the name arrives without its NUL, so that a longer name left in cvm_name by an
\* earlier connection may complete it to that of another VM, but to no other.
KeyForNamedVm ==
    \A v \in Migs : dstKey[v] # NoMig => IsPrefix(NameOf[dstKey[v]], NameOf[v])

\* The io_thread of an agent's newest connection uses that connection's TLS object as long
\* as the thread that owns the handle runs; older sessions are the ones whose object is
\* replaced by virtcca_tls_negotiate or virtcca_tls_init.
NewestSessionIntact ==
    /\ conns \in cSess /\ cpc \in {"poll", "connect"} => cSsl = conns
    /\ sConn \in sSess /\ spc = "accept" => sSsl = sConn

\* A client's io_thread loses its connection to the cleanup of another one only when an
\* earlier session had already ended and freed descriptor 0 for this connection
\* (cleanup_client closes a connd_fd that was never set).
ForeignCloseExplained ==
    [][\A k \in cSess \cap cSess' :
         wire[k].st = "open" /\ wire'[k].st = "closed" /\ sSess' = sSess /\ spc' = spc
            => \E j \in 1 .. k - 1 : j \notin cSess]_vars

\* The client thread always comes back to polling, unless it or the agent ends: a server
\* thread that gives up takes its backlog with it.
ClientReturns == (cpc # "poll") ~> (cpc \in {"poll", "ended", "exited"})
=============================================================================
