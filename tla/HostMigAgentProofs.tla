-------------------------- MODULE HostMigAgentProofs --------------------------
(***************************************************************************)
(* What TLAPS proves of the host migration agents, for any VMs, any names  *)
(* and any number of connections.                                          *)
(***************************************************************************)
EXTENDS HostMigAgent, SequenceTheorems, TLAPS

\* Connections that were opened belong to a migration, and the server serves one
\* of them.
Opened ==
    /\ conns \in 0 .. MaxConns /\ sConn \in 0 .. MaxConns
    /\ cM \in Migs \cup {NoMig} /\ (cpc = "connect" => cM \in Migs /\ conns < MaxConns)
    /\ cpc \in {"negotiate", "name", "key"} => conns \in Conns
    /\ wire \in [Conns -> Wires]
    /\ \A k \in Conns : wire[k].st # "unused" => k <= conns /\ wire[k].m \in Migs
    /\ spc \in {"negotiate", "name", "key"} => sConn \in Conns /\ wire[sConn].st # "unused"

\* What the server holds while it serves a connection.
Held ==
    /\ buf \in [1 .. MaxLen -> Nat] /\ sRd \in Migs \cup {NoMig}
    /\ dstKey \in [Migs -> Migs \cup {NoMig}]
    /\ spc = "key" => sRd \in Migs /\ IsPrefix(NameOf[wire[sConn].m], NameOf[sRd])

\* Whose TLS object the handles hold while a connection is set up.
Handles ==
    /\ cSess \subseteq 1 .. conns /\ sSess \subseteq 1 .. conns
    /\ \A k \in 1 .. conns : wire[k].st # "unused"
    /\ cpc \in {"negotiate", "name", "key"} => cSsl = conns
    /\ spc \in {"name", "key"} => sSsl = sConn

\* Descriptor 0 is free, or a connection's, only after an earlier session has ended;
\* the connection being set up has no session yet.
SettingUp == cpc \in {"negotiate", "name", "key"}
Descriptor ==
    /\ SettingUp => conns \notin cSess
    /\ fd0 \in Conns => fd0 <= conns /\ \E j \in 1 .. fd0 - 1 : j \notin cSess
    /\ fd0 = FdFree => \E j \in 1 .. conns : j \notin cSess /\ (SettingUp => j # conns)

\* The inductive invariant.
IInv == Opened /\ Held /\ Handles /\ Descriptor /\ KeyForNamedVm /\ NewestSessionIntact

\* A name written over the beginning of cvm_name is the beginning of the name of
\* every VM that is found with it.
LEMMA NameIsRead ==
    ASSUME NEW m \in Migs, buf \in [1 .. MaxLen -> Nat], NEW v \in VmNamed(Received(NameOf[m]))
    PROVE  IsPrefix(NameOf[m], NameOf[v])
<1> DEFINE n == NameOf[m]
           w == NameOf[v]
           b == Received(n)
<1>1. /\ v \in Migs /\ MaxLen \in Nat
      /\ n \in Seq(Nat \ {0}) /\ w \in Seq(Nat \ {0})
      /\ Len(n) \in 1 .. MaxLen /\ Len(w) \in 1 .. MaxLen
  BY HMAssumption DEF VmNamed
<1>2. SubSeq(b, 1, Len(w)) = w /\ (Len(w) = MaxLen \/ b[Len(w) + 1] = NUL)
  BY DEF VmNamed
<1>3. \A i \in 1 .. Len(n) : n[i] \in Nat \ {0}
  BY <1>1, ElementOfSeq
<1>4. b \in [1 .. MaxLen -> Nat] /\ \A i \in 1 .. Len(n) : b[i] = n[i] /\ b[i] # NUL
  <2>1. b = [i \in 1 .. MaxLen |-> IF i <= Len(n) THEN n[i] ELSE buf[i]]
    BY DEF Received
  <2> HIDE DEF b, n
  <2>2. \A i \in 1 .. MaxLen : i <= Len(n) => i \in 1 .. Len(n)
    BY <1>1
  <2>3. \A i \in 1 .. Len(n) : i \in 1 .. MaxLen /\ i <= Len(n)
    BY <1>1
  <2>4. \A i \in 1 .. MaxLen : b[i] \in Nat
    BY <1>3, <2>1, <2>2
  <2> QED
    BY <1>3, <2>1, <2>3, <2>4 DEF NUL
<1>6. b \in Seq(Nat) /\ Len(b) = MaxLen
  BY <1>1, <1>4
<1> HIDE DEF b, n, w
<1>5. Len(n) <= Len(w)
  <2> SUFFICES ASSUME Len(w) < Len(n) PROVE FALSE
    BY <1>1
  <2>1. Len(w) + 1 \in 1 .. Len(n) /\ Len(w) # MaxLen
    BY <1>1
  <2> QED
    BY <1>2, <1>4, <2>1
<1>7. \A i \in 1 .. Len(w) : w[i] = b[i]
  <2>1. 1 \in 1 .. (Len(b) + 1) /\ Len(w) \in 0 .. Len(b)
    BY <1>1, <1>6
  <2>2. \A i \in 1 .. Len(w) - 1 + 1 : SubSeq(b, 1, Len(w))[i] = b[1 + i - 1]
    BY <1>1, <1>6, <2>1, SubSeqProperties
  <2>3. \A i \in 1 .. Len(w) : i \in 1 .. Len(w) - 1 + 1 /\ 1 + i - 1 = i
    BY <1>1
  <2> QED
    BY <1>2, <2>2, <2>3
<1>8. SubSeq(w, 1, Len(n)) = SubSeq(n, 1, Len(n))
  <2>1. n \in Seq(Nat) /\ w \in Seq(Nat)
    BY <1>1, SeqMonotonic
  <2>2. ASSUME NEW s \in Seq(Nat), Len(n) <= Len(s)
        PROVE  /\ SubSeq(s, 1, Len(n)) \in Seq(Nat) /\ Len(SubSeq(s, 1, Len(n))) = Len(n)
               /\ \A i \in 1 .. Len(n) : SubSeq(s, 1, Len(n))[i] = s[i]
    <3>1. Len(n) \in Nat /\ Len(s) \in Nat /\ \A i \in 1 .. Len(n) : i \in 1 .. Len(s)
      BY <1>1, <2>2, LenProperties
    <3>0. \A i \in 1 .. Len(n) : s[i] \in Nat
      BY <2>2, <3>1, ElementOfSeq
    <3>2. /\ SubSeq(s, 1, Len(n)) \in Seq(Nat)
          /\ Len(SubSeq(s, 1, Len(n))) = IF 1 <= Len(n) THEN Len(n) - 1 + 1 ELSE 0
          /\ \A i \in 1 .. Len(n) - 1 + 1 : SubSeq(s, 1, Len(n))[i] = s[1 + i - 1]
      BY <3>1, <3>0, SubSeqProperties
    <3>3. \A i \in 1 .. Len(n) : i \in 1 .. Len(n) - 1 + 1 /\ 1 + i - 1 = i
      BY <3>1
    <3>4. \A i \in 1 .. Len(n) : SubSeq(s, 1, Len(n))[i] = s[i]
      BY <3>2, <3>3
    <3> QED
      BY <3>1, <3>2, <3>4
  <2>3. \A i \in 1 .. Len(n) : w[i] = n[i]
    BY <1>1, <1>4, <1>5, <1>7
  <2>4. /\ SubSeq(w, 1, Len(n)) \in Seq(Nat) /\ SubSeq(n, 1, Len(n)) \in Seq(Nat)
        /\ Len(SubSeq(w, 1, Len(n))) = Len(n) /\ Len(SubSeq(n, 1, Len(n))) = Len(n)
        /\ \A i \in 1 .. Len(n) : SubSeq(w, 1, Len(n))[i] = w[i] /\ SubSeq(n, 1, Len(n))[i] = n[i]
    <3>1. Len(n) <= Len(n)
      BY <1>1
    <3> QED
      BY <1>5, <2>1, <2>2, <3>1
  <2> QED
    BY <2>3, <2>4, SeqEqual
<1>9. IsPrefix(n, w)
  BY <1>5, <1>8 DEF IsPrefix
<1> QED
  BY <1>9 DEF n, w

\* Nothing is connected and cvm_name holds what the stack held.
LEMMA InitIInv == Init => IInv
<1> SUFFICES ASSUME Init PROVE IInv
  OBVIOUS
<1>1. wire \in [Conns -> Wires] /\ \A k \in Conns : wire[k].st = "unused"
  BY DEF Init, Wires
<1>2. Opened
  <2>0. conns = 0 /\ sConn = 0
    BY Zenon DEF Init
  <2>1. conns \in 0 .. MaxConns /\ sConn \in 0 .. MaxConns
    BY <2>0, HMAssumption
  <2>2. cM = NoMig /\ cpc = "poll" /\ spc = "accept"
    BY DEF Init
  <2> QED
    BY <1>1, <2>1, <2>2 DEF Opened
<1>3. buf \in [1 .. MaxLen -> Nat]
  <2>1. PICK c \in {NUL, Junk} : buf = [i \in 1 .. MaxLen |-> c]
    BY DEF Init
  <2>2. c \in Nat
    BY DEF NUL, Junk
  <2> QED
    BY <2>1, <2>2
<1>4. Held /\ KeyForNamedVm
  BY <1>3 DEF Init, Held, KeyForNamedVm
<1>5. Handles /\ NewestSessionIntact
  <2>0. cSess = {} /\ sSess = {} /\ cpc = "poll" /\ spc = "accept" /\ conns = 0
    BY Zenon DEF Init
  <2>1. 1 .. conns = {}
    BY <2>0
  <2> QED
    BY <2>0, <2>1 DEF Handles, NewestSessionIntact
<1>6. Descriptor
  <2>1. cpc = "poll" /\ fd0 = FdOther
    BY Zenon DEF Init
  <2>2. fd0 \notin Conns /\ fd0 # FdFree
    BY <2>1, HMAssumption DEF FdOther, FdFree, Conns
  <2> QED
    BY <2>1, <2>2 DEF Descriptor, SettingUp
<1> QED
  BY <1>2, <1>4, <1>5, <1>6 DEF IInv

\* Closing connections, or sending on them, changes neither their migration nor
\* which of them are in use.
WireStep ==
    /\ wire' \in [Conns -> Wires]
    /\ \A k \in Conns : /\ wire'[k].m = wire[k].m
                        /\ (wire'[k].st = "unused") <=> (wire[k].st = "unused")

\* A connection in use that is closed, or that carries more, keeps its migration.
LEMMA OneWire ==
    ASSUME wire \in [Conns -> Wires], NEW k \in Conns, wire[k].st # "unused",
           NEW st \in {"open", "closed"}, NEW data \in {"", "name", "both"},
           wire' = [wire EXCEPT ![k] = Wire(k, st, data)]
    PROVE  WireStep
<1>1. wire[k] \in Wires
  OBVIOUS
<1>2. Wire(k, st, data) \in Wires
  BY <1>1 DEF Wire, Wires
<1>3. Wire(k, st, data).m = wire[k].m /\ Wire(k, st, data).st # "unused"
  BY DEF Wire
<1>4. wire' \in [Conns -> Wires]
  BY <1>2
<1>5. \A j \in Conns : wire'[j] = IF j = k THEN Wire(k, st, data) ELSE wire[j]
  BY <1>2
<1> QED
  BY <1>3, <1>4, <1>5 DEF WireStep

\* So do several connections that are closed at once, in use or not.
LEMMA ManyWires ==
    ASSUME wire \in [Conns -> Wires], NEW K,
           \A k \in K \cap Conns : wire[k].st # "unused",
           \/ wire' = Closed(K)
           \/ wire' = [k \in Conns |-> IF k \in K THEN Wire(k, "closed", wire[k].data) ELSE wire[k]]
    PROVE  WireStep
<1> SUFFICES ASSUME NEW k \in Conns
             PROVE  wire'[k] \in Wires /\ wire'[k].m = wire[k].m /\ ((wire'[k].st = "unused") <=> (wire[k].st = "unused"))
  <2>1. DOMAIN wire' = Conns /\ wire' = [k \in Conns |-> wire'[k]]
    BY DEF Closed
  <2> QED
    BY <2>1 DEF WireStep
<1>1. wire[k] \in Wires
  OBVIOUS
<1>2. CASE k \in K
  <2>1. PICK st \in {"gone", "closed"} : wire'[k] = Wire(k, st, wire[k].data)
    BY <1>2 DEF Closed
  <2>2. wire[k].st # "unused"
    BY <1>2
  <2>3. /\ Wire(k, st, wire[k].data) \in Wires
        /\ Wire(k, st, wire[k].data).m = wire[k].m /\ Wire(k, st, wire[k].data).st = st
    BY <1>1 DEF Wire, Wires
  <2> QED
    BY <2>1, <2>2, <2>3
<1>3. CASE k \notin K
  BY <1>1, <1>3 DEF Closed
<1> QED
  BY <1>2, <1>3

\* The facts about connections survive a step that changes no more of the wires
\* than WireStep allows and opens none.
LEMMA OpenedKept ==
    ASSUME Opened, Handles, WireStep, UNCHANGED conns
    PROVE  /\ conns' \in 0 .. MaxConns /\ wire' \in [Conns -> Wires]
           /\ \A k \in Conns : wire'[k].st # "unused" => k <= conns' /\ wire'[k].m \in Migs
           /\ \A k \in 1 .. conns' : wire'[k].st # "unused"
           /\ \A k \in Conns : wire'[k].m = wire[k].m
           /\ \A k \in Conns : wire[k].st # "unused" => wire'[k].st # "unused"
<1>1. 1 .. conns \subseteq Conns
  BY HMAssumption DEF Opened, Conns
<1> QED
  BY <1>1 DEF Opened, Handles, WireStep

\* Every step of the two agents preserves the invariant.
LEMMA NextIInv == IInv /\ [Next]_vars => IInv'
<1> SUFFICES ASSUME IInv, [Next]_vars PROVE IInv'
  OBVIOUS
<1>t. /\ Opened /\ Held /\ Handles /\ Descriptor /\ KeyForNamedVm /\ NewestSessionIntact
      /\ MaxConns \in Nat /\ conns \in 0 .. MaxConns /\ wire \in [Conns -> Wires]
      /\ 1 .. conns \subseteq Conns
  BY HMAssumption DEF IInv, Opened, Conns
<1>u. \A k \in Conns : wire[k].st # "unused" => wire[k].data \in {"", "name", "both"}
  BY <1>t DEF Wires
<1>e. ASSUME WireStep, Descriptor', UNCHANGED <<conns, sVars>>,
             cM' \in Migs \cup {NoMig}, cpc' # "connect", cSess' \subseteq 1 .. conns,
             cpc' \in {"negotiate", "name", "key"} => conns \in Conns /\ cSsl' = conns,
             conns' \in cSess' /\ cpc' \in {"poll", "connect"} => cSsl' = conns'
      PROVE  IInv'
  <2>1. Opened'
    BY <1>t, <1>e, OpenedKept DEF Opened, sVars
  <2>2. Held'
    BY <1>t, <1>e, OpenedKept DEF Opened, Held, sVars
  <2>3. Handles'
    BY <1>t, <1>e, OpenedKept DEF Handles, sVars
  <2>4. KeyForNamedVm' /\ NewestSessionIntact'
    BY <1>t, <1>e DEF KeyForNamedVm, NewestSessionIntact, sVars
  <2> QED
    BY <1>e, <2>1, <2>2, <2>3, <2>4 DEF IInv
<1>s. ASSUME WireStep, UNCHANGED <<cVars, dstKey>>,
             buf' \in [1 .. MaxLen -> Nat], sRd' \in Migs \cup {NoMig},
             sConn' \in 0 .. MaxConns, sSess' \subseteq 1 .. conns,
             spc' \in {"negotiate", "name", "key"} => sConn' \in Conns /\ wire[sConn'].st # "unused",
             spc' = "key" => sRd' \in Migs /\ IsPrefix(NameOf[wire[sConn'].m], NameOf[sRd']),
             spc' \in {"name", "key"} => sSsl' = sConn',
             sConn' \in sSess' /\ spc' = "accept" => sSsl' = sConn'
      PROVE  IInv'
  <2>1. Opened'
    BY <1>t, <1>s, OpenedKept DEF Opened, cVars
  <2>2. Held'
    BY <1>t, <1>s, OpenedKept DEF Held, cVars
  <2>3. Handles'
    BY <1>t, <1>s, OpenedKept DEF Handles, cVars
  <2>4. KeyForNamedVm' /\ NewestSessionIntact'
    BY <1>t, <1>s DEF KeyForNamedVm, NewestSessionIntact, cVars
  <2>5. Descriptor'
    BY <1>t, <1>s DEF Descriptor, SettingUp, cVars
  <2> QED
    BY <2>1, <2>2, <2>3, <2>4, <2>5 DEF IInv
<1>w. UNCHANGED wire => WireStep
  BY <1>t DEF WireStep
<1>c. cpc \in {"negotiate", "name", "key"} => conns \in Conns /\ wire[conns].st # "unused"
  BY <1>t DEF Opened, Handles, Conns
<1>f. \A k \in 1 .. conns : \A f \in {k, fd0} : wire' = Closed({k, f}) => WireStep
  <2> SUFFICES ASSUME NEW k \in 1 .. conns, NEW f \in {k, fd0}, wire' = Closed({k, f})
               PROVE  WireStep
    OBVIOUS
  <2>1. \A j \in {k, f} \cap Conns : j \in 1 .. conns
    BY <1>t DEF Descriptor, Conns
  <2>2. \A j \in {k, f} \cap Conns : wire[j].st # "unused"
    BY <1>t, <2>1 DEF Handles
  <2> QED
    BY <1>t, <2>2, ManyWires
<1>g. \A k : {k, k} = {k}
  OBVIOUS
<1>d. conns \in Nat /\ FdOther # FdFree /\ FdOther \notin Conns /\ FdFree \notin Conns
  BY <1>t DEF FdOther, FdFree, Conns
<1>x. ASSUME ClientAgentDies, Descriptor', UNCHANGED <<cM, conns, sVars>>
      PROVE  IInv'
  <2>1. cpc' = "exited" /\ cSess' = {} /\ wire' = Closed(1 .. conns)
    BY <1>x DEF ClientAgentDies
  <2>2. WireStep
    BY <1>t, <2>1, ManyWires DEF Handles
  <2>3. cM' \in Migs \cup {NoMig}
    BY <1>t, <1>x DEF Opened
  <2> QED
    BY <1>e, <1>x, <2>1, <2>2, <2>3
<1>1. CASE get_virtcca_mig_info
  <2>1. cpc = "poll" /\ conns < MaxConns /\ UNCHANGED <<conns, cSsl, fd0, sVars>>
    BY <1>1 DEF get_virtcca_mig_info
  <2>2. ASSUME NEW m \in Migs, cM' = m, cpc' = "connect", UNCHANGED <<cSess, wire>>
        PROVE  IInv'
    <3>1. Opened'
      BY <1>t, <2>1, <2>2 DEF Opened, sVars
    <3>2. Held' /\ Handles' /\ KeyForNamedVm'
      BY <1>t, <2>1, <2>2 DEF Held, Handles, KeyForNamedVm, sVars
    <3>3. NewestSessionIntact'
      BY <1>t, <2>1, <2>2 DEF NewestSessionIntact, sVars
    <3>4. Descriptor'
      BY <1>t, <2>1, <2>2 DEF Descriptor, SettingUp
    <3> QED
      BY <3>1, <3>2, <3>3, <3>4 DEF IInv
  <2>3. ASSUME ClientAgentDies, UNCHANGED cM
        PROVE  IInv'
    <3>1. Descriptor'
      BY <1>t, <2>1, <2>3 DEF Descriptor, SettingUp, ClientAgentDies
    <3> QED
      BY <1>x, <2>1, <2>3, <3>1
  <2> QED
    BY <1>1, <2>2, <2>3 DEF get_virtcca_mig_info
<1>2. CASE client_connects
  <2>1. CASE Listening
    <3> DEFINE c == conns + 1
    <3>1. /\ cpc = "connect" /\ conns' = c /\ cpc' = "negotiate" /\ cSsl' = c
          /\ wire' = [wire EXCEPT ![c] = [st |-> "pending", data |-> "", m |-> cM]]
          /\ fd0' = (IF fd0 = FdFree THEN c ELSE fd0) /\ UNCHANGED <<cM, cSess, sVars>>
      BY <1>2, <2>1 DEF client_connects
    <3>2. c \in Conns /\ cM \in Migs /\ conns \in Nat /\ c \in 0 .. MaxConns
      <4>1. cM \in Migs /\ conns < MaxConns
        BY <1>t, <3>1 DEF Opened
      <4> QED
        BY <1>t, <4>1 DEF Conns
    <3>3. wire' \in [Conns -> Wires] /\ wire'[c].st = "pending" /\ wire'[c].m = cM
          /\ \A k \in Conns : k # c => wire'[k] = wire[k]
      BY <1>t, <3>1, <3>2 DEF Wires
    <3>4. \A k \in Conns : wire'[k].st # "unused" => k <= c /\ wire'[k].m \in Migs
      BY <1>t, <3>2, <3>3 DEF Opened, Conns
    <3>5. wire[c].st = "unused"
      BY <1>t, <3>2 DEF Opened, Conns
    <3>6. \A k \in 1 .. c : wire'[k].st # "unused"
      BY <1>t, <3>2, <3>3 DEF Handles, Conns
    <3>7. spc \in {"negotiate", "name", "key"} => wire'[sConn] = wire[sConn]
      BY <1>t, <3>3, <3>5 DEF Opened
    <3>8. Opened'
      BY <1>t, <3>1, <3>2, <3>3, <3>4, <3>7 DEF Opened, sVars
    <3>9. Held' /\ KeyForNamedVm'
      BY <1>t, <3>1, <3>7 DEF Held, KeyForNamedVm, sVars
    <3>10. cSess \subseteq 1 .. c /\ sSess \subseteq 1 .. c
      BY <1>t, <3>2 DEF Handles
    <3>11. Handles'
      BY <1>t, <3>1, <3>6, <3>10 DEF Handles, sVars
    <3>12. NewestSessionIntact'
      BY <1>t, <3>1 DEF NewestSessionIntact, sVars
    <3>13. Descriptor'
      <4>1. c \notin cSess
        BY <1>t, <1>d DEF Handles
      <4>2. fd0' \in Conns => fd0' <= c /\ \E j \in 1 .. fd0' - 1 : j \notin cSess
        <5>1. CASE fd0 = FdFree
          <6>1. PICK j \in 1 .. conns : j \notin cSess
            BY <1>t, <5>1 DEF Descriptor
          <6>2. fd0' = c
            BY <3>1, <5>1
          <6>3. j \in 1 .. c - 1
            BY <1>d
          <6> QED
            BY <1>d, <6>1, <6>2, <6>3
        <5>2. CASE fd0 # FdFree
          <6>1. fd0' = fd0
            BY <3>1, <5>2
          <6> QED
            BY <1>t, <1>d, <6>1 DEF Descriptor, Conns
        <5> QED
          BY <5>1, <5>2
      <4>3. fd0' # FdFree
        BY <1>d, <3>1, <3>2 DEF FdFree
      <4> QED
        BY <3>1, <4>1, <4>2, <4>3 DEF Descriptor, SettingUp
    <3> QED
      BY <3>8, <3>9, <3>11, <3>12, <3>13 DEF IInv
  <2>2. CASE ~Listening
    <3>0. UNCHANGED <<conns, fd0, cM, sVars>> /\ cpc = "connect"
      BY <1>2, <2>2 DEF client_connects
    <3>1. CASE ClientThreadEnds /\ UNCHANGED <<cSess, wire>>
      <4>1. cpc' = "ended"
        BY <3>1 DEF ClientThreadEnds
      <4>2. Descriptor'
        BY <1>t, <3>0, <3>1, <4>1 DEF Descriptor, SettingUp
      <4> QED
        BY <1>t, <1>e, <1>w, <3>0, <3>1, <4>1, <4>2 DEF Opened, Handles
    <3>2. CASE ClientAgentDies
      <4>1. Descriptor'
        BY <1>t, <3>0, <3>2 DEF Descriptor, SettingUp, ClientAgentDies
      <4> QED
        BY <1>x, <3>0, <3>2, <4>1
    <3> QED
      BY <1>2, <2>2, <3>1, <3>2 DEF client_connects
  <2> QED
    BY <2>1, <2>2
<1>3. CASE client_negotiates
  <2>1. cpc = "negotiate" /\ cpc' = "name" /\ UNCHANGED <<cM, conns, cSsl, cSess, fd0, sVars, wire>>
    BY <1>3 DEF client_negotiates
  <2>2. Descriptor'
    BY <1>t, <2>1 DEF Descriptor, SettingUp
  <2> QED
    BY <1>t, <1>c, <1>e, <1>w, <2>1, <2>2 DEF Opened, Handles
<1>4. CASE client_sends_name
  <2>1. /\ cpc = "name" /\ cpc' = "key" /\ UNCHANGED <<cM, conns, cSsl, cSess, fd0, sVars>>
        /\ wire' = [wire EXCEPT ![conns] = Wire(conns, "open", "name")]
    BY <1>4 DEF client_sends_name
  <2>2. WireStep
    BY <1>t, <1>c, <2>1, OneWire
  <2>3. Descriptor'
    BY <1>t, <2>1 DEF Descriptor, SettingUp
  <2> QED
    BY <1>t, <1>c, <1>e, <2>1, <2>2, <2>3 DEF Opened, Handles
<1>5. CASE virtcca_transfer_mig_key
  <2>1. /\ cpc = "key" /\ cpc' = "poll" /\ cM' = NoMig /\ cSess' = cSess \cup {conns}
        /\ fd0' = (IF fd0 = FdFree THEN FdOther ELSE fd0) /\ UNCHANGED <<conns, cSsl, sVars>>
        /\ wire' = [wire EXCEPT ![conns] = Wire(conns, "open", "both")]
    BY <1>5 DEF virtcca_transfer_mig_key
  <2>2. WireStep
    BY <1>t, <1>c, <2>1, OneWire
  <2>3. cSess' \subseteq 1 .. conns /\ cSsl' = conns
    BY <1>t, <1>c, <2>1 DEF Handles, Conns
  <2>4. Descriptor'
    <3>1. ~SettingUp' /\ fd0' # FdFree
      BY <1>d, <2>1 DEF SettingUp
    <3>2. ASSUME fd0' \in Conns
          PROVE  fd0' <= conns' /\ \E j \in 1 .. fd0' - 1 : j \notin cSess'
      <4>1. fd0' = fd0 /\ fd0 \in Conns
        BY <1>d, <2>1, <3>2
      <4>2. PICK j \in 1 .. fd0 - 1 : j \notin cSess /\ fd0 <= conns
        BY <1>t, <4>1 DEF Descriptor
      <4>3. j # conns /\ j \notin cSess'
        BY <1>d, <2>1, <4>1, <4>2 DEF Conns
      <4> QED
        BY <2>1, <4>1, <4>2, <4>3
    <3> QED
      BY <3>1, <3>2 DEF Descriptor
  <2> QED
    BY <1>e, <2>1, <2>2, <2>3, <2>4
<1>6. CASE client_fails
  <2>1. /\ cpc \in {"negotiate", "name", "key"} /\ cpc' \in {"ended", "exited"}
        /\ cSess' \subseteq cSess
        /\ fd0' = (IF fd0 = conns THEN FdFree ELSE fd0) /\ UNCHANGED <<cM, conns, sVars>>
    BY <1>6 DEF client_fails, ClientThreadEnds, ClientAgentDies
  <2>2. conns \in 1 .. conns /\ conns \notin cSess
    BY <1>t, <1>c, <1>d, <2>1 DEF Descriptor, SettingUp, Conns
  <2>4. Descriptor'
    <3>1. CASE fd0 = conns
      BY <1>d, <2>1, <2>2, <3>1 DEF Descriptor, SettingUp
    <3>2. CASE fd0 # conns
      BY <1>t, <2>1, <3>2 DEF Descriptor, SettingUp
    <3> QED
      BY <3>1, <3>2
  <2>5. CASE ClientThreadEnds /\ wire' = Closed({conns})
    <3>1. WireStep
      BY <1>f, <1>g, <2>2, <2>5
    <3>2. cpc' = "ended" /\ cSess' \subseteq 1 .. conns
      BY <1>t, <2>1, <2>5 DEF ClientThreadEnds, Handles
    <3> QED
      BY <1>t, <1>e, <2>1, <2>4, <3>1, <3>2 DEF Opened
  <2>6. CASE ClientAgentDies
    BY <1>x, <2>1, <2>4, <2>6
  <2> QED
    BY <1>6, <2>5, <2>6 DEF client_fails
<1>7. CASE server_accepts
  <2>1. PICK k \in Conns : AcceptFirst(k) /\ sConn' = k
    BY <1>7 DEF server_accepts
  <2>2. spc' = "negotiate" /\ UNCHANGED <<cVars, sSess, sRd, buf, dstKey>>
    BY <1>7 DEF server_accepts
  <2>3. wire[k].st \in {"pending", "gone"}
    BY <2>1 DEF AcceptFirst, Waiting
  <2>4. PICK st \in {"open", "closed"} : wire' = [wire EXCEPT ![k] = Wire(k, st, wire[k].data)]
    BY <2>1, <2>3 DEF AcceptFirst
  <2>5. WireStep
    BY <1>t, <1>u, <2>3, <2>4, OneWire
  <2>6. k \in 0 .. MaxConns
    BY <1>t DEF Conns
  <2> QED
    BY <1>t, <1>s, <2>1, <2>2, <2>3, <2>5, <2>6 DEF Held, Handles
<1>8. CASE server_negotiates
  <2>1. /\ spc = "negotiate" /\ spc' = "name" /\ sSsl' = sConn
        /\ UNCHANGED <<cVars, sConn, sSess, sRd, buf, wire, dstKey>>
    BY <1>8 DEF server_negotiates
  <2> QED
    BY <1>t, <1>s, <1>w, <2>1 DEF Opened, Held, Handles
<1>9. CASE get_dstvm_rd
  <2> DEFINE m == wire[sConn].m
  <2>1. /\ spc = "name" /\ spc' = "key" /\ buf' = Received(NameOf[m]) /\ sRd' \in VmNamed(Received(NameOf[m]))
        /\ UNCHANGED <<cVars, sConn, sSsl, sSess, wire, dstKey>>
    BY <1>9 DEF get_dstvm_rd
  <2>2. sConn \in Conns /\ wire[sConn].st # "unused" /\ m \in Migs /\ sConn \in 0 .. MaxConns
    BY <1>t, <2>1 DEF Opened
  <2>3. sRd' \in Migs /\ IsPrefix(NameOf[m], NameOf[sRd'])
    <3>1. buf \in [1 .. MaxLen -> Nat]
      BY <1>t DEF Held
    <3>2. PICK v \in VmNamed(Received(NameOf[m])) : sRd' = v
      BY <2>1
    <3>3. IsPrefix(NameOf[m], NameOf[v])
      BY <2>2, <3>1, NameIsRead
    <3>4. v \in Migs
      BY DEF VmNamed
    <3> QED
      BY <3>2, <3>3, <3>4
  <2>4. buf' \in [1 .. MaxLen -> Nat]
    <3>1. NameOf[m] \in Seq(Nat \ {0}) /\ Len(NameOf[m]) \in Nat
      BY <2>2, HMAssumption
    <3>2. \A i \in 1 .. MaxLen : i <= Len(NameOf[m]) => NameOf[m][i] \in Nat
      BY <3>1, HMAssumption
    <3>3. \A i \in 1 .. MaxLen : buf[i] \in Nat
      BY <1>t DEF Held
    <3> QED
      BY <2>1, <3>2, <3>3 DEF Received
  <2>5. sSess \subseteq 1 .. conns /\ sSsl = sConn
    BY <1>t, <2>1 DEF Handles
  <2> HIDE DEF m
  <2>6. IsPrefix(NameOf[wire[sConn'].m], NameOf[sRd'])
    BY <2>1, <2>3 DEF m
  <2> QED
    BY <1>s, <1>w, <2>1, <2>2, <2>3, <2>4, <2>5, <2>6
<1>10. CASE virtcca_receive_mig_key
  <2>1. /\ spc = "key" /\ spc' = "accept" /\ dstKey' = [dstKey EXCEPT ![sRd] = wire[sConn].m]
        /\ sSess' = sSess \cup {sConn} /\ UNCHANGED <<cVars, sConn, sSsl, sRd, buf, wire>>
    BY <1>10 DEF virtcca_receive_mig_key
  <2>2. /\ sConn \in Conns /\ wire[sConn].m \in Migs /\ sConn <= conns /\ sSsl = sConn
        /\ sRd \in Migs /\ IsPrefix(NameOf[wire[sConn].m], NameOf[sRd]) /\ dstKey \in [Migs -> Migs \cup {NoMig}]
    BY <1>t, <2>1 DEF Opened, Held, Handles
  <2>3. Opened'
    BY <1>t, <2>1 DEF Opened, cVars
  <2>4. Held'
    BY <1>t, <2>1, <2>2 DEF Held
  <2>5. Handles' /\ NewestSessionIntact' /\ Descriptor'
    <3>1. sSess' \subseteq 1 .. conns
      <4>1. sSess \subseteq 1 .. conns /\ sSess' = sSess \cup {sConn}
        BY <1>t, <2>1 DEF Handles
      <4>2. sConn \in 1 .. conns
        BY <1>t, <2>2 DEF Conns
      <4> QED
        BY <4>1, <4>2
    <3> QED
      BY <1>t, <2>1, <2>2, <3>1 DEF Handles, NewestSessionIntact, Descriptor, SettingUp, cVars
  <2>6. KeyForNamedVm'
    <3> SUFFICES ASSUME NEW v \in Migs, dstKey'[v] # NoMig
                 PROVE  IsPrefix(NameOf[dstKey'[v]], NameOf[v])
      BY DEF KeyForNamedVm
    <3>1. dstKey'[v] = IF v = sRd THEN wire[sConn].m ELSE dstKey[v]
      BY <2>1, <2>2
    <3> QED
      BY <1>t, <2>2, <3>1 DEF KeyForNamedVm
  <2> QED
    BY <2>3, <2>4, <2>5, <2>6 DEF IInv
<1>11. CASE server_fails
  <2>1. /\ spc' \in {"ended", "crashed"} /\ sSess' \subseteq sSess
        /\ UNCHANGED <<cVars, sConn, sRd, buf, dstKey>>
    BY <1>11 DEF server_fails
  <2>2. PICK K : ServerCloses(K) /\ \A k \in K \cap Conns : wire[k].st # "unused"
    <3>1. \A k \in Waiting : wire[k].st # "unused"
      BY DEF Waiting
    <3>2. spc \in {"negotiate", "name", "key"} => wire[sConn].st # "unused"
      BY <1>t DEF Opened
    <3>3. CASE spc \in {"accept", "negotiate", "name", "key"}
               /\ ServerCloses(IF spc = "accept" THEN Waiting ELSE Waiting \cup {sConn})
      BY <3>1, <3>2, <3>3
    <3>4. CASE ServerCloses({k \in Conns : wire[k].st # "unused"})
      BY <3>4
    <3> QED
      BY <1>11, <3>3, <3>4 DEF server_fails
  <2>3. WireStep
    <3>1. wire' = [k \in Conns |-> IF k \in K THEN Wire(k, "closed", wire[k].data) ELSE wire[k]]
      BY <2>2 DEF ServerCloses
    <3> QED
      BY <1>t, <2>2, <3>1, ManyWires
  <2>4. sSess' \subseteq 1 .. conns
    BY <1>t, <2>1 DEF Handles
  <2> QED
    BY <1>t, <1>s, <2>1, <2>3, <2>4 DEF Opened, Held
<1>12. CASE client_session_ends
  <2>1. PICK k \in cSess : cSess' = cSess \ {k} /\ wire' = Closed({k, fd0})
    BY <1>12 DEF client_session_ends
  <2>2. fd0' = FdFree /\ UNCHANGED <<cpc, cM, conns, cSsl, sVars>>
    BY <1>12 DEF client_session_ends
  <2>3. k \in 1 .. conns
    BY <1>t DEF Handles
  <2>4. WireStep
    BY <1>f, <2>1, <2>3
  <2>5. Opened'
    BY <1>t, <2>2, <2>4, OpenedKept DEF Opened, sVars
  <2>6. Held'
    BY <1>t, <2>2, <2>4, OpenedKept DEF Opened, Held, sVars
  <2>7. Handles'
    BY <1>t, <2>1, <2>2, <2>4, OpenedKept DEF Handles, sVars
  <2>8. KeyForNamedVm' /\ NewestSessionIntact'
    BY <1>t, <2>1, <2>2 DEF KeyForNamedVm, NewestSessionIntact, sVars
  <2>9. Descriptor'
    BY <1>t, <1>d, <2>1, <2>2, <2>3 DEF Descriptor, SettingUp
  <2> QED
    BY <2>5, <2>6, <2>7, <2>8, <2>9 DEF IInv
<1>13. CASE server_session_ends
  <2>1. PICK k \in sSess : sSess' = sSess \ {k} /\ wire' = Closed({k})
    BY <1>13 DEF server_session_ends
  <2>2. UNCHANGED <<cVars, spc, sConn, sSsl, sRd, buf, dstKey>>
    BY <1>13 DEF server_session_ends
  <2>3. WireStep
    BY <1>t, <1>f, <1>g, <2>1 DEF Handles
  <2>4. sSess' \subseteq 1 .. conns /\ (sConn' \in sSess' /\ spc' = "accept" => sSsl' = sConn')
    BY <1>t, <2>1, <2>2 DEF Handles, NewestSessionIntact
  <2> QED
    BY <1>t, <1>s, <2>2, <2>3, <2>4 DEF Opened, Held, Handles
<1>14. CASE UNCHANGED vars
  BY <1>t, <1>14 DEF IInv, Opened, Held, Handles, Descriptor, SettingUp, KeyForNamedVm, NewestSessionIntact, vars, cVars, sVars
<1> QED
  BY <1>1, <1>2, <1>3, <1>4, <1>5, <1>6, <1>7, <1>8, <1>9, <1>10, <1>11, <1>12, <1>13, <1>14
     DEF Next, ClientSteps, ServerSteps

LEMMA AlwaysIInv == Spec => []IInv
BY InitIInv, NextIInv, PTL DEF Spec

\* A migration key is set only for a VM whose name begins with the name that came
\* with it, whatever an earlier connection left in cvm_name and whenever either
\* thread fails.
THEOREM KeyForNamedVmHolds == Spec => []KeyForNamedVm
<1>1. IInv => KeyForNamedVm
  BY DEF IInv
<1> QED
  BY <1>1, AlwaysIInv, PTL

\* The newest session of each agent has the TLS object of its own connection.
THEOREM NewestSessionIntactHolds == Spec => []NewestSessionIntact
<1>1. IInv => NewestSessionIntact
  BY DEF IInv
<1> QED
  BY <1>1, AlwaysIInv, PTL

\* Another session's cleanup takes a client's connection only if it got descriptor 0,
\* which is free only once an earlier session has ended.
THEOREM ForeignCloseHolds == Spec => ForeignCloseExplained
<1> DEFINE Explained ==
      \A k \in cSess \cap cSess' :
         wire[k].st = "open" /\ wire'[k].st = "closed" /\ sSess' = sSess /\ spc' = spc
            => \E j \in 1 .. k - 1 : j \notin cSess
<1>1. IInv /\ [Next]_vars => [Explained]_vars
  <2> SUFFICES ASSUME IInv, Next, NEW k \in cSess \cap cSess', wire[k].st = "open", wire'[k].st = "closed",
                      sSess' = sSess, spc' = spc
               PROVE  \E j \in 1 .. k - 1 : j \notin cSess
    OBVIOUS
  <2>1. /\ wire \in [Conns -> Wires] /\ k \in Conns /\ Descriptor /\ k \in 1 .. conns
        /\ SettingUp => conns \notin cSess
    BY HMAssumption DEF IInv, Opened, Handles, Descriptor, Conns
  <2>2. \A K : wire' = Closed(K) => k \in K
    BY <2>1 DEF Closed
  <2>3. \A c, v : wire' = [wire EXCEPT ![c] = v] => k = c /\ v.st = "closed"
    BY <2>1
  <2>4. CASE get_virtcca_mig_info
    BY <2>4 DEF get_virtcca_mig_info, ClientAgentDies
  <2>5. CASE client_connects
    <3>1. \/ wire' = wire
          \/ wire' = [wire EXCEPT ![conns + 1] = [st |-> "pending", data |-> "", m |-> cM]]
      BY <2>5 DEF client_connects, ClientAgentDies
    <3>2. [st |-> "pending", data |-> "", m |-> cM].st = "pending"
      OBVIOUS
    <3> QED
      BY <2>3, <3>1, <3>2
  <2>6. CASE client_negotiates \/ client_sends_name \/ virtcca_transfer_mig_key
    <3>1. \/ wire' = wire
          \/ wire' = [wire EXCEPT ![conns] = Wire(conns, "open", "name")]
          \/ wire' = [wire EXCEPT ![conns] = Wire(conns, "open", "both")]
      BY <2>6 DEF client_negotiates, client_sends_name, virtcca_transfer_mig_key
    <3>2. \A data : Wire(conns, "open", data).st = "open"
      BY DEF Wire
    <3> QED
      BY <2>3, <3>1, <3>2
  <2>7. CASE client_fails
    BY <2>1, <2>2, <2>7 DEF client_fails, ClientAgentDies, SettingUp
  <2>8. CASE server_accepts
    BY <2>3, <2>8 DEF server_accepts, AcceptFirst, Waiting
  <2>9. CASE server_negotiates \/ get_dstvm_rd \/ virtcca_receive_mig_key
    BY <2>9 DEF server_negotiates, get_dstvm_rd, virtcca_receive_mig_key
  <2>10. CASE server_fails \/ server_session_ends
    BY <2>10 DEF server_fails, server_session_ends
  <2>11. CASE client_session_ends
    <3>1. PICK e \in cSess : cSess' = cSess \ {e} /\ wire' = Closed({e, fd0})
      BY <2>11 DEF client_session_ends
    <3>2. k = fd0
      BY <2>2, <3>1
    <3> QED
      BY <2>1, <3>2 DEF Descriptor
  <2> QED
    BY <2>4, <2>5, <2>6, <2>7, <2>8, <2>9, <2>10, <2>11 DEF Next, ClientSteps, ServerSteps
<1> QED
  BY <1>1, AlwaysIInv, PTL DEF Spec, ForeignCloseExplained
=============================================================================
