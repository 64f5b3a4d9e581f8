---------------------------- MODULE VerifierProofs ----------------------------
(***************************************************************************)
(* What TLAPS proves of the verification of a peer's evidence, for every   *)
(* set of claims, component and reference lists, events and IMA entries,   *)
(* and for logs and lists of any length.                                   *)
(***************************************************************************)
EXTENDS Verifier, SequenceTheorems, TLAPS

LogInputs == [log : Logs, tail : Tails]
CompInputs == [comps : Comps, refs : Refs]

\* What the stages that look at their input are given.
InputOK ==
    /\ pc \in {"replay", "state", "extract"} => input \in LogInputs
    /\ pc = "accepted" => input = <<>> \/ input \in LogInputs
    /\ pc \in {"ima", "challenge"} => input = <<>> \/ input \in CompInputs
    /\ pc \in {"replay", "extract"} => pos <= Len(input.log)
    /\ pc = "state" => pos = 0

\* VerdictFromClaims with the stages before those it is about.
ClaimsRead ==
    /\ pc = "challenge" => prog = "samples"
    /\ (prog = "rats" /\ token.plat /\ pc \in {"rim", "platform", "ima", "ima_entries", "firmware"})
           => "pub_key" \notin token.unset
    /\ (prog = "rats" /\ pc \in {"platform", "ima", "ima_entries", "firmware"})
           => "rim" \notin token.unset
    /\ (prog = "rats" /\ pc \in {"ima_entries", "state"}) => "rem" \notin token.unset

\* No entry is kept whose own digest is not listed.
EntriesListed == \A i \in DOMAIN seen : seen[i].dig = "listed" \/ KeepsDigest(seen[i])

\* The first pass finds nothing to fold, and the second folds what comes next.
Quiet(e) == e.kind = "no_action" => ~ (rem_index(e.reg) < REM_COUNT /\ e.dig > 0)
QuietUpto(log, n) == \A p \in 1 .. n : Quiet(log[p])
Replayed ==
    pc = "replay" =>
        /\ pass = 1 => /\ QuietUpto(input.log, pos)
                       /\ \A i \in 0 .. 3 : rems[i] = <<>>
        /\ pass = 2 => /\ QuietUpto(input.log, Len(input.log))
                       /\ \A i \in 0 .. 3 : FoldOf(rems[i], input.log, pos, i)

\* The event at position i is of a kind and has a digest; it is the first one
\* of its kind after position p.
Is(log, i, kind) == log[i].kind = kind /\ log[i].dig # 0
NoneIn(log, p, q, kind) == \A i \in p + 1 .. q : ~ Is(log, i, kind)
FirstIs(log, p, i, kind) == Is(log, i, kind) /\ NoneIn(log, p, i - 1, kind)

\* What a firmware state holds of the first n events.
ExtractedEfi(st, log, n) ==
    /\ \A k \in DOMAIN st.efi : \E i \in 1 .. n : Is(log, i, "efi") /\ log[i].dig = st.efi[k]
    /\ \A i \in 1 .. n : Is(log, i, "efi") => st.efi # <<>>
ExtractedInitrd(st, log, n, k) ==
    \/ st.initrd = 0 /\ NoneIn(log, k, n, "initrd")
    \/ \E m \in k + 1 .. n : FirstIs(log, k, m, "initrd") /\ st.initrd = log[m].dig
ExtractedKernel(st, log, n, c) ==
    \/ st.kernel = 0 /\ st.initrd = 0 /\ NoneIn(log, c, n, "kernel")
    \/ \E k \in c + 1 .. n : /\ FirstIs(log, c, k, "kernel") /\ st.kernel = log[k].dig
                             /\ ExtractedInitrd(st, log, n, k)
ExtractedCfg(st, log, n) ==
    \/ st.cfg = 0 /\ st.kernel = 0 /\ st.initrd = 0 /\ NoneIn(log, 0, n, "grub_cfg")
    \/ \E c \in 1 .. n : /\ FirstIs(log, 0, c, "grub_cfg") /\ st.cfg = log[c].dig
                         /\ ExtractedKernel(st, log, n, c)
Extracted(st, log, n) == ExtractedEfi(st, log, n) /\ ExtractedCfg(st, log, n)

FirmwareRead ==
    /\ pc # "extract" => fw = NoFirmware
    /\ pc = "extract" => Extracted(fw, input.log, pos)

\* The inductive invariant.
IInv == /\ TypeOK /\ InputOK /\ FullTokenSound /\ ClaimsRead /\ ComponentsVouched
        /\ EntriesListed /\ Replayed /\ ReplayInOrder /\ FirmwareRead /\ FirmwareVouched

-----------------------------------------------------------------------------
(* Lemmas on logs. *)

\* The events of a log, as event_log_init accepts it, have their fields.
LEMMA LogFacts ==
    ASSUME NEW log \in Logs
    PROVE  /\ log \in Seq(Events) /\ Len(log) \in 0 .. MaxEvents
           /\ \A p \in 1 .. Len(log) : log[p].reg \in Nat /\ log[p].dig \in Nat
<1>1. PICK n \in 0 .. MaxEvents : log \in [1 .. n -> Events]
  BY DEF Logs
<1>2. n \in Nat /\ MaxEvents \in Nat
  BY VerifierAssumption
<1>3. log \in Seq(Events) /\ Len(log) = n
  BY <1>1, <1>2
<1>4. \A p \in 1 .. Len(log) : log[p] \in Events
  BY <1>1, <1>3
<1>5. QED
  BY <1>1, <1>2, <1>3, <1>4, VerifierAssumption

\* An event that update_rem does not fold into REM[i] leaves the fold as it is.
LEMMA FoldSkip ==
    ASSUME NEW s, NEW log, NEW n \in Nat, NEW i,
           FoldOf(s, log, n, i), ~ (rem_index(log[n + 1].reg) = i /\ log[n + 1].dig > 0)
    PROVE  FoldOf(s, log, n + 1, i)
<1>1. Folded(log, n + 1, i) = Folded(log, n, i)
  BY DEF Folded
<1>2. QED
  BY <1>1 DEF FoldOf

\* One that it folds extends the fold by its digest.
LEMMA FoldAppend ==
    ASSUME NEW s \in Seq(Nat), NEW log, NEW n \in Nat, NEW i,
           FoldOf(s, log, n, i), rem_index(log[n + 1].reg) = i, log[n + 1].dig > 0,
           log[n + 1].dig \in Nat
    PROVE  FoldOf(Append(s, log[n + 1].dig), log, n + 1, i)
<1> DEFINE t == Append(s, log[n + 1].dig)
           F == Folded(log, n, i)
<1>1. PICK f \in [DOMAIN s -> F] :
        /\ \A p \in F : \E k \in DOMAIN s : f[k] = p
        /\ \A k \in DOMAIN s : /\ s[k] = log[f[k]].dig
                                /\ \A l \in DOMAIN s : k < l => f[k] < f[l]
  BY DEF FoldOf
<1>2. Len(s) \in Nat /\ DOMAIN s = 1 .. Len(s) /\ DOMAIN t = 1 .. Len(s) + 1
      /\ t[Len(s) + 1] = log[n + 1].dig /\ \A k \in DOMAIN s : t[k] = s[k]
  OBVIOUS
<1>3. F \subseteq 1 .. n /\ Folded(log, n + 1, i) = F \cup {n + 1}
  BY DEF Folded
<1> DEFINE g == [k \in DOMAIN t |-> IF k = Len(s) + 1 THEN n + 1 ELSE f[k]]
<1>4. g \in [DOMAIN t -> F \cup {n + 1}]
  BY <1>1, <1>2
<1>5. \A k \in DOMAIN s : g[k] = f[k] /\ f[k] \in 1 .. n
  BY <1>1, <1>2, <1>3
<1>6. g[Len(s) + 1] = n + 1
  BY <1>2
<1> HIDE DEF g, t, F
<1>7. \A p \in F \cup {n + 1} : \E k \in DOMAIN t : g[k] = p
  <2>1. \A p \in F : \E k \in DOMAIN t : g[k] = p
    BY <1>1, <1>2, <1>5
  <2>2. QED
    BY <2>1, <1>2, <1>6
<1>8. ASSUME NEW k \in DOMAIN t PROVE t[k] = log[g[k]].dig
  <2>1. CASE k \in DOMAIN s
    BY <1>1, <1>2, <1>5, <2>1
  <2>2. CASE k = Len(s) + 1
    BY <1>2, <1>6, <2>2
  <2>3. QED
    BY <1>2, <2>1, <2>2
<1>9. ASSUME NEW k \in DOMAIN t, NEW l \in DOMAIN t, k < l PROVE g[k] < g[l]
  <2>1. k \in DOMAIN s
    BY <1>2, <1>9
  <2>2. CASE l \in DOMAIN s
    BY <2>1, <2>2, <1>1, <1>5, <1>9
  <2>3. CASE l \notin DOMAIN s
    <3>1. l = Len(s) + 1
      BY <2>3, <1>2
    <3>2. QED
      BY <2>1, <3>1, <1>5, <1>6
  <2>4. QED
    BY <2>2, <2>3
<1>10. FoldOf(t, log, n + 1, i)
  BY <1>3, <1>4, <1>7, <1>8, <1>9 DEF FoldOf
<1>11. QED
  BY <1>10 DEF t

\* The least element of a set of positions is the one First chooses.
LEMMA FirstLeast ==
    ASSUME NEW S \in SUBSET Nat, NEW i \in S, \A j \in S : i <= j
    PROVE  First(S) = i
<1>1. First(S) \in S /\ \A j \in S : First(S) <= j
  BY DEF First
<1>2. First(S) \in Nat /\ i \in Nat /\ First(S) <= i /\ i <= First(S)
  BY <1>1
<1>3. QED
  BY <1>2

\* extract_event changes the component of the state its event is about.
LEMMA ExtractType ==
    ASSUME NEW st \in FirmwareTypes, NEW e, e.dig \in Nat
    PROVE  /\ extract_event(st, e) \in FirmwareTypes
           /\ extract_event(st, e).efi = IF e.kind = "efi" /\ e.dig # 0 THEN Append(st.efi, e.dig)
                                         ELSE st.efi
<1>1. /\ st.efi \in Seq(Nat) /\ st.cfg \in Nat /\ st.kernel \in Nat /\ st.initrd \in Nat
      /\ Append(st.efi, e.dig) \in Seq(Nat)
  BY DEF FirmwareTypes
<1> DEFINE grown == Append(st.efi, e.dig)
<1> HIDE DEF grown
<1>2. CASE e.kind = "efi" /\ e.dig # 0
  <2>1. extract_event(st, e) = [st EXCEPT !.efi = grown]
    BY <1>2 DEF extract_event, grown
  <2>2. grown \in Seq(Nat)
    BY <1>1 DEF grown
  <2>3. QED
    BY <1>1, <1>2, <2>1, <2>2 DEF FirmwareTypes, grown
<1>3. CASE ~ (e.kind = "efi" /\ e.dig # 0)
  BY <1>1, <1>3 DEF FirmwareTypes, extract_event, Ipl
<1>4. QED
  BY <1>2, <1>3

\* Of grub.cfg, kernel and initramfs it sets the one that is still missing.
LEMMA ExtractCfg ==
    ASSUME NEW st \in FirmwareTypes, NEW e, e.dig \in Nat
    PROVE  LET new == extract_event(st, e)
           IN  /\ new.cfg = IF st.cfg = 0 /\ e.kind = "grub_cfg" THEN e.dig ELSE st.cfg
               /\ new.kernel = IF st.cfg # 0 /\ st.kernel = 0 /\ e.kind = "kernel" THEN e.dig
                               ELSE st.kernel
               /\ new.initrd = IF st.cfg # 0 /\ st.kernel # 0 /\ st.initrd = 0 /\ e.kind = "initrd"
                               THEN e.dig ELSE st.initrd
BY DEF FirmwareTypes, extract_event, Ipl

\* One turn of the loop of firmware_log_state_extract.
LEMMA ExtractStep ==
    ASSUME NEW st \in FirmwareTypes, NEW log, NEW n \in Nat, Extracted(st, log, n),
           \A i \in 1 .. n + 1 : log[i].dig \in Nat
    PROVE  Extracted(extract_event(st, log[n + 1]), log, n + 1)
<1> DEFINE e == log[n + 1]
           new == extract_event(st, e)
<1>1. e.dig \in Nat
  OBVIOUS
<1>2. ExtractedEfi(new, log, n + 1)
  <2>1. new.efi = IF Is(log, n + 1, "efi") THEN Append(st.efi, e.dig) ELSE st.efi
    BY <1>1, ExtractType DEF Is
  <2>2. st.efi \in Seq(Nat)
    BY DEF FirmwareTypes
  <2>3. CASE Is(log, n + 1, "efi")
    <3>1. /\ new.efi # <<>> /\ DOMAIN new.efi = 1 .. Len(st.efi) + 1 /\ Len(st.efi) \in Nat
          /\ new.efi[Len(st.efi) + 1] = e.dig
          /\ \A k \in 1 .. Len(st.efi) : new.efi[k] = st.efi[k]
      <4>1. new.efi = Append(st.efi, e.dig)
        BY <2>1, <2>3
      <4>2. \A q \in Seq(Nat), d \in Nat :
              /\ Append(q, d) # <<>> /\ Len(q) \in Nat /\ DOMAIN Append(q, d) = 1 .. Len(q) + 1
              /\ Append(q, d)[Len(q) + 1] = d /\ \A k \in 1 .. Len(q) : Append(q, d)[k] = q[k]
        OBVIOUS
      <4>3. QED
        BY ONLY <1>1, <2>2, <4>1, <4>2
    <3>2. ASSUME NEW k \in DOMAIN new.efi
          PROVE  \E i \in 1 .. n + 1 : Is(log, i, "efi") /\ log[i].dig = new.efi[k]
      <4>1. CASE k = Len(st.efi) + 1
        BY <4>1, <3>1, <2>3
      <4>2. CASE k \in 1 .. Len(st.efi)
        <5>1. \E i \in 1 .. n : Is(log, i, "efi") /\ log[i].dig = st.efi[k]
          BY <4>2, <2>2 DEF Extracted, ExtractedEfi
        <5>2. QED
          BY <5>1, <4>2, <3>1
      <4>3. QED
        BY <4>1, <4>2, <3>1
    <3>3. QED
      BY <3>1, <3>2 DEF ExtractedEfi
  <2>4. CASE ~ Is(log, n + 1, "efi")
    <3>1. new.efi = st.efi
      BY <2>1, <2>4
    <3>2. \A i \in 1 .. n + 1 : Is(log, i, "efi") => i \in 1 .. n
      BY <2>4
    <3>3. QED
      BY <3>1, <3>2 DEF Extracted, ExtractedEfi
  <2>5. QED
    BY <2>3, <2>4
<1>3. /\ new.cfg = IF st.cfg = 0 /\ e.kind = "grub_cfg" THEN e.dig ELSE st.cfg
      /\ new.kernel = IF st.cfg # 0 /\ st.kernel = 0 /\ e.kind = "kernel" THEN e.dig
                      ELSE st.kernel
      /\ new.initrd = IF st.cfg # 0 /\ st.kernel # 0 /\ st.initrd = 0 /\ e.kind = "initrd"
                      THEN e.dig ELSE st.initrd
  BY <1>1, ExtractCfg
<1>4. SUFFICES ExtractedCfg(new, log, n + 1)
  BY <1>2 DEF Extracted
<1> HIDE DEF new
<1>5. CASE st.cfg = 0
  <2>1. st.kernel = 0 /\ st.initrd = 0 /\ NoneIn(log, 0, n, "grub_cfg")
    BY <1>5 DEF Extracted, ExtractedCfg, FirstIs, Is
  <2>2. CASE Is(log, n + 1, "grub_cfg")
    <3>1. new.cfg = e.dig /\ new.kernel = 0 /\ new.initrd = 0
      BY <1>3, <1>5, <2>1, <2>2 DEF Is
    <3>2. FirstIs(log, 0, n + 1, "grub_cfg") /\ NoneIn(log, n + 1, n + 1, "kernel")
      BY <2>1, <2>2 DEF FirstIs, NoneIn
    <3>3. QED
      BY <3>1, <3>2 DEF ExtractedCfg, ExtractedKernel
  <2>3. CASE ~ Is(log, n + 1, "grub_cfg")
    <3>1. new.cfg = 0 /\ new.kernel = 0 /\ new.initrd = 0
      BY <1>3, <1>5, <2>1, <2>3 DEF Is
    <3>2. NoneIn(log, 0, n + 1, "grub_cfg")
      BY <2>1, <2>3 DEF NoneIn
    <3>3. QED
      BY <3>1, <3>2 DEF ExtractedCfg
  <2>4. QED
    BY <2>2, <2>3
<1>6. CASE st.cfg # 0
  <2>1. PICK c \in 1 .. n : /\ FirstIs(log, 0, c, "grub_cfg") /\ st.cfg = log[c].dig
                            /\ ExtractedKernel(st, log, n, c)
    BY <1>6 DEF Extracted, ExtractedCfg
  <2>2. new.cfg = log[c].dig
    BY <1>3, <1>6, <2>1
  <2>3. SUFFICES ExtractedKernel(new, log, n + 1, c)
    BY <2>1, <2>2 DEF ExtractedCfg
  <2>4. CASE st.kernel = 0
    <3>1. st.initrd = 0 /\ NoneIn(log, c, n, "kernel")
      BY <2>1, <2>4 DEF ExtractedKernel, FirstIs, Is
    <3>2. CASE Is(log, n + 1, "kernel")
      <4>1. new.kernel = e.dig /\ new.initrd = 0
        BY <1>3, <1>6, <2>4, <3>1, <3>2 DEF Is
      <4>2. FirstIs(log, c, n + 1, "kernel") /\ NoneIn(log, n + 1, n + 1, "initrd")
        BY <3>1, <3>2 DEF FirstIs, NoneIn
      <4>3. QED
        BY <4>1, <4>2 DEF ExtractedKernel, ExtractedInitrd
    <3>3. CASE ~ Is(log, n + 1, "kernel")
      <4>1. new.kernel = 0 /\ new.initrd = 0
        BY <1>3, <2>4, <3>1, <3>3 DEF Is
      <4>2. NoneIn(log, c, n + 1, "kernel")
        BY <3>1, <3>3 DEF NoneIn
      <4>3. QED
        BY <4>1, <4>2 DEF ExtractedKernel
    <3>4. QED
      BY <3>2, <3>3
  <2>5. CASE st.kernel # 0
    <3>1. PICK k \in c + 1 .. n : /\ FirstIs(log, c, k, "kernel") /\ st.kernel = log[k].dig
                                  /\ ExtractedInitrd(st, log, n, k)
      BY <2>1, <2>5 DEF ExtractedKernel
    <3>2. new.kernel = log[k].dig
      BY <1>3, <2>5, <3>1
    <3>3. SUFFICES ExtractedInitrd(new, log, n + 1, k)
      BY <2>1, <3>1, <3>2 DEF ExtractedKernel
    <3>4. CASE st.initrd = 0
      <4>1. NoneIn(log, k, n, "initrd")
        BY <3>1, <3>4 DEF ExtractedInitrd, FirstIs, Is
      <4>2. CASE Is(log, n + 1, "initrd")
        <5>1. new.initrd = e.dig
          BY <1>3, <1>6, <2>5, <3>4, <4>2 DEF Is
        <5>2. FirstIs(log, k, n + 1, "initrd")
          BY <4>1, <4>2 DEF FirstIs, NoneIn
        <5>3. QED
          BY <5>1, <5>2 DEF ExtractedInitrd
      <4>3. CASE ~ Is(log, n + 1, "initrd")
        <5>1. new.initrd = 0
          BY <1>3, <3>4, <4>3 DEF Is
        <5>2. NoneIn(log, k, n + 1, "initrd")
          BY <4>1, <4>3 DEF NoneIn
        <5>3. QED
          BY <5>1, <5>2 DEF ExtractedInitrd
      <4>4. QED
        BY <4>2, <4>3
    <3>5. CASE st.initrd # 0
      <4>1. PICK m \in k + 1 .. n : FirstIs(log, k, m, "initrd") /\ st.initrd = log[m].dig
        BY <3>1, <3>5 DEF ExtractedInitrd
      <4>2. new.initrd = log[m].dig
        BY <1>3, <3>5, <4>1
      <4>3. QED
        BY <4>1, <4>2 DEF ExtractedInitrd
    <3>6. QED
      BY <3>4, <3>5
  <2>6. QED
    BY <2>4, <2>5
<1>7. QED
  BY <1>5, <1>6

\* The first event of a kind after a position is the one First chooses.
LEMMA FirstAfter ==
    ASSUME NEW log \in Logs, NEW p \in Nat, NEW kind, NEW c \in p + 1 .. Len(log),
           FirstIs(log, p, c, kind)
    PROVE  First(After(log, p, kind)) = c
<1>1. Len(log) \in Nat
  BY LogFacts, VerifierAssumption
<1>2. After(log, p, kind) \in SUBSET Nat /\ c \in After(log, p, kind)
  BY <1>1 DEF After, FirstIs, Is
<1>3. ASSUME NEW j \in After(log, p, kind) PROVE c <= j
  <2>1. j \in p + 1 .. Len(log) /\ Is(log, j, kind)
    BY DEF After, Is
  <2>2. j \notin p + 1 .. c - 1
    BY <2>1 DEF FirstIs, NoneIn
  <2>3. QED
    BY <1>1, <2>1, <2>2
<1>4. QED
  BY <1>2, <1>3, FirstLeast

\* A firmware state that verify_firmware_state accepts vouches for its log.
LEMMA ExtractedVouches ==
    ASSUME NEW st \in FirmwareTypes, NEW log \in Logs, Extracted(st, log, Len(log)),
           verify_firmware_state(st, parse_json_file)
    PROVE  LogVouched(log)
<1> DEFINE ref == parse_json_file
           C == Cfgs(log)
           K == Kernels(log)
           I == Initrds(log)
           E == Efis(log)
<1>1. Len(log) \in Nat
  BY LogFacts, VerifierAssumption
<1>2. /\ st.efi # <<>> => \E i \in DOMAIN st.efi : st.efi[i] = ref.grub
      /\ st.cfg # 0 => st.cfg = ref.cfg
  BY DEF verify_firmware_state, compare_and_print_hash
<1>3. E # {} => \E i \in E : log[i].dig = ref.grub
  <2>1. SUFFICES ASSUME NEW i \in E PROVE \E j \in E : log[j].dig = ref.grub
    OBVIOUS
  <2>2. st.efi # <<>>
    BY <2>1 DEF Extracted, ExtractedEfi, Efis, After, Is
  <2>3. PICK k \in DOMAIN st.efi : st.efi[k] = ref.grub
    BY <1>2, <2>2
  <2>4. PICK j \in 1 .. Len(log) : Is(log, j, "efi") /\ log[j].dig = st.efi[k]
    BY DEF Extracted, ExtractedEfi
  <2>5. QED
    BY <2>3, <2>4 DEF Efis, After, Is
<1>4. CASE C = {}
  BY <1>3, <1>4 DEF Kernels, LogVouched
<1>5. CASE C # {}
  <2>1. PICK c \in 1 .. Len(log) : /\ FirstIs(log, 0, c, "grub_cfg") /\ st.cfg = log[c].dig
                                   /\ ExtractedKernel(st, log, Len(log), c)
    <3>1. ~ NoneIn(log, 0, Len(log), "grub_cfg")
      BY <1>5 DEF NoneIn, Cfgs, After, Is
    <3>2. QED
      BY <3>1 DEF Extracted, ExtractedCfg
  <2>2. First(C) = c /\ c \in Nat
    BY <1>1, <2>1, FirstAfter DEF Cfgs
  <2>3. log[First(C)].dig = ref.cfg
    BY <1>2, <2>1, <2>2 DEF FirstIs, Is
  <2>4. K = After(log, c, "kernel")
    BY <1>5, <2>2 DEF Kernels
  <2>5. CASE K = {}
    BY <1>3, <2>3, <2>5 DEF LogVouched
  <2>6. CASE K # {}
    <3>1. PICK k \in c + 1 .. Len(log) : /\ FirstIs(log, c, k, "kernel") /\ st.kernel = log[k].dig
                                         /\ ExtractedInitrd(st, log, Len(log), k)
      <4>1. ~ NoneIn(log, c, Len(log), "kernel")
        BY <2>4, <2>6 DEF NoneIn, After, Is
      <4>2. QED
        BY <4>1, <2>1 DEF ExtractedKernel
    <3>2. First(K) = k /\ k \in Nat
      <4>1. First(After(log, c, "kernel")) = k
        BY <2>2, <3>1, FirstAfter
      <4>2. QED
        BY <1>1, <2>2, <2>4, <3>1, <4>1
    <3>3. I = After(log, k, "initrd")
      BY <2>6, <3>2 DEF Initrds
    <3>4. st.kernel # 0
      BY <3>1 DEF FirstIs, Is
    <3>5. I # {} => st.initrd # 0 /\ st.initrd = log[First(I)].dig
      <4>1. HAVE I # {}
      <4>2. ~ NoneIn(log, k, Len(log), "initrd")
        BY <3>3, <4>1 DEF NoneIn, After, Is
      <4>3. PICK m \in k + 1 .. Len(log) : FirstIs(log, k, m, "initrd") /\ st.initrd = log[m].dig
        BY <4>2, <3>1 DEF ExtractedInitrd
      <4>4. First(I) = m
        BY <3>2, <3>3, <4>3, FirstAfter
      <4>5. QED
        BY <4>3, <4>4 DEF FirstIs, Is
    <3>6. \E v \in ref.kernels : KernelVouched(log, v)
      <4>1. PICK v \in ref.kernels : /\ st.kernel # 0 => st.kernel = v.kernel
                                     /\ st.initrd # 0 => st.initrd = v.initrd
        BY DEF verify_firmware_state, compare_and_print_hash
      <4>2. v.kernel = log[First(K)].dig
        BY <3>1, <3>2, <3>4, <4>1
      <4>3. I # {} => v.initrd = log[First(I)].dig
        BY <3>5, <4>1
      <4>4. KernelVouched(log, v)
        BY <4>2, <4>3 DEF KernelVouched
      <4>5. QED
        BY <4>4
    <3>7. QED
      BY <1>3, <2>3, <3>6 DEF LogVouched
  <2>7. QED
    BY <2>5, <2>6
<1>6. QED
  BY <1>4, <1>5

\* update_rem appends the digest of an event to the register it is for.
LEMMA UpdateRem ==
    ASSUME NEW r \in RemTypes, NEW e, e.reg \in Nat, e.dig \in Nat
    PROVE  /\ update_rem(r, e) \in RemTypes
           /\ \A i \in 0 .. 3 : update_rem(r, e)[i] =
                 IF rem_index(e.reg) = i /\ e.dig > 0 THEN Append(r[i], e.dig) ELSE r[i]
<1>1. rem_index(e.reg) \in Nat
  BY DEF rem_index
<1>2. CASE rem_index(e.reg) < 4 /\ e.dig > 0
  <2>1. rem_index(e.reg) \in 0 .. 3
    BY <1>1, <1>2
  <2>2. update_rem(r, e) = [r EXCEPT ![rem_index(e.reg)] = Append(r[rem_index(e.reg)], e.dig)]
    BY <1>2 DEF update_rem, REM_COUNT
  <2>3. Append(r[rem_index(e.reg)], e.dig) \in Seq(Nat)
    BY <2>1 DEF RemTypes
  <2>4. QED
    BY <1>2, <2>1, <2>2, <2>3 DEF RemTypes
<1>3. CASE ~ (rem_index(e.reg) < 4 /\ e.dig > 0)
  BY <1>1, <1>3 DEF update_rem, REM_COUNT
<1>4. QED
  BY <1>2, <1>3

\* Only the seven steps of the code are recorded as holding.
LEMMA HeldSteps ==
    ASSUME NEW aik, NEW issuer, NEW code, NEW some \in SUBSET MayHold(aik)
    PROVE  HeldWith(some, aik, issuer, code) \subseteq {"chal", "cvm", "aik", "plat", "root", "sub", "chain"}
<1>1. some \subseteq {"chal", "cvm", "plat", "root", "sub"}
  BY DEF MayHold
<1>2. QED
  BY <1>1 DEF HeldWith

\* With a platform token the rats client looks at the bits of all seven steps.
LEMMA CriticalRats ==
    ASSUME prog = "rats", token.plat, NEW held, CriticalPassed(held)
    PROVE  {"chal", "cvm", "aik", "plat", "root", "sub", "chain"} \subseteq held
<1> DEFINE steps == <<"chal", "cvm", "aik", "plat", "root", "sub", "chain">>
<1>1. \A b \in {0, 3, 1, 2, 4, 5, 6} : steps[b + 1] \in held \/ steps[b + 1] = "rel"
  BY DEF CriticalPassed, RatsSteps, RatsCritical
<1>2. /\ steps[0 + 1] \in held \/ steps[0 + 1] = "rel"
      /\ steps[1 + 1] \in held \/ steps[1 + 1] = "rel"
      /\ steps[2 + 1] \in held \/ steps[2 + 1] = "rel"
      /\ steps[3 + 1] \in held \/ steps[3 + 1] = "rel"
      /\ steps[4 + 1] \in held \/ steps[4 + 1] = "rel"
      /\ steps[5 + 1] \in held \/ steps[5 + 1] = "rel"
      /\ steps[6 + 1] \in held \/ steps[6 + 1] = "rel"
  BY ONLY <1>1
<1>3. QED
  BY <1>2

\* The CVM signature cannot hold with a key that is not a claim of the token.
LEMMA KeyPresent ==
    ASSUME prog = "rats", NEW aik, "cvm" \in MayHold(aik)
    PROVE  "pub_key" \notin token.unset
BY DEF MayHold, KeysRead, verify_cvm_cose_sign, init_signing_key_ok

-----------------------------------------------------------------------------
(* The inductive steps. *)

\* The invariant holds when a verification begins.
LEMMA InitIInv == Init => IInv
<1> SUFFICES ASSUME Init PROVE IInv
  OBVIOUS
<1>1. TypeOK
  <2>1. token \in TokenTypes
    BY DEF Init, NoToken, TokenTypes
  <2>2. claims \in ClaimTypes
    BY VerifierAssumption DEF Init, NoClaims, ClaimTypes
  <2>3. rems \in RemTypes /\ fw \in FirmwareTypes
    BY DEF Init, NoFirmware, FirmwareTypes, RemTypes
  <2>4. pos \in 0 .. MaxEvents /\ pass \in {1, 2}
    BY VerifierAssumption DEF Init
  <2>5. seen \in Seq(ImaEntries) /\ Len(seen) <= MaxIma
    BY VerifierAssumption DEF Init
  <2>6. QED
    BY <2>1, <2>2, <2>3, <2>4, <2>5 DEF Init, TypeOK, Verdicts
<1>2. QED
  BY <1>1 DEF Init, IInv, InputOK, FullTokenSound, ClaimsRead, ComponentsVouched, EntriesListed,
              Replayed, ReplayInOrder, FirmwareRead, FirmwareVouched

\* The type invariant and the shape of the inputs.
LEMMA TypeStep == TypeOK /\ InputOK /\ Next => TypeOK' /\ InputOK'
<1> SUFFICES ASSUME TypeOK, InputOK, Next PROVE TypeOK' /\ InputOK'
  OBVIOUS
<1>0. MaxItems \in Nat /\ MaxEvents \in Nat /\ MaxIma \in Nat
  BY VerifierAssumption
<1>1. CASE parse_token_head
  <2>1. token' \in TokenTypes
    BY <1>1 DEF parse_token_head, NoToken, TokenTypes
  <2>2. QED
    BY <1>1, <2>1 DEF parse_token_head, TypeOK, InputOK, Verdicts, replayVars, imaVars
<1>2. CASE read_claim
  <2>1. claims' \in ClaimTypes
    BY <1>0, <1>2 DEF read_claim, TypeOK, ClaimTypes, NoClaims, Counted, Items, ItemRefused, Mandatory
  <2>2. QED
    BY <1>2, <2>1 DEF read_claim, TypeOK, InputOK, Verdicts, replayVars, imaVars
<1>3. CASE claims_end
  <2>1. claims' \in ClaimTypes
    BY <1>0, <1>3 DEF claims_end, NoClaims, ClaimTypes
  <2>2. token' \in TokenTypes
    BY <1>3 DEF claims_end, TypeOK, TokenTypes
  <2>3. QED
    BY <1>3, <2>1, <2>2 DEF claims_end, TypeOK, InputOK, Verdicts, replayVars, imaVars
<1>4. CASE parse_token_tail
  BY <1>4 DEF parse_token_tail, TypeOK, InputOK, Verdicts, parseVars, replayVars, imaVars
<1>5. CASE verify_cca_token_signatures
  <2>1. pc' \in {"crashed", "rejected", "rim", "platform"}
    BY <1>5 DEF verify_cca_token_signatures
  <2>2. truth' \subseteq {"chal", "cvm", "aik", "plat", "rel", "root", "sub", "chain", "liberr"}
    <3>1. \A aik, issuer, code : \A some \in SUBSET MayHold(aik) :
            HeldWith(some, aik, issuer, code) \subseteq {"chal", "cvm", "aik", "plat", "root", "sub", "chain"}
      BY HeldSteps
    <3>2. \/ truth' = truth
          \/ \E aik, issuer, code : \E some \in SUBSET MayHold(aik) :
               truth' \subseteq HeldWith(some, aik, issuer, code) \cup {"liberr"}
      BY <1>5 DEF verify_cca_token_signatures
    <3>3. QED
      BY <3>1, <3>2 DEF TypeOK
  <2>3. QED
    BY <1>5, <2>1, <2>2 DEF verify_cca_token_signatures, TypeOK, InputOK, Verdicts, parseVars, replayVars, imaVars
<1>6. CASE verify_rim
  BY <1>6 DEF verify_rim, TypeOK, InputOK, Verdicts, parseVars, replayVars, imaVars
<1>7. CASE verify_challenge
  BY <1>7 DEF verify_challenge, TypeOK, InputOK, Verdicts, parseVars, replayVars, imaVars
<1>8. CASE verify_platform
  <2>1. pc' \in {"rejected", "crashed", "ima", "challenge"} /\ (input' = <<>> \/ input' \in CompInputs)
    <3>1. CASE pc' = platform_next /\ input' = <<>>
      BY <3>1 DEF platform_next
    <3>2. CASE \E comps \in Comps, refs \in Refs : /\ pc' \in {platform_next, "rejected", "crashed"}
                                                  /\ input' \in {<<>>, [comps |-> comps, refs |-> refs]}
      BY <3>2 DEF platform_next, CompInputs
    <3>3. QED
      BY <1>8, <3>1, <3>2 DEF verify_platform
  <2>2. QED
    BY <1>8, <2>1 DEF verify_platform, TypeOK, InputOK, Verdicts, parseVars, replayVars, imaVars
<1>9. CASE deal_ima
  BY <1>0, <1>9 DEF deal_ima, TypeOK, InputOK, Verdicts, parseVars, replayVars
<1>10. CASE check_one_template
  <2>1. seen' \in Seq(ImaEntries) /\ Len(seen') <= MaxIma
    <3>1. PICK e \in ImaEntries : seen' = Append(seen, e) \/ seen' = <<>>
      BY <1>10 DEF check_one_template
    <3>2. seen \in Seq(ImaEntries) /\ Len(seen) < MaxIma
      BY <1>10 DEF check_one_template, TypeOK
    <3>3. CASE seen' = Append(seen, e)
      BY <1>0, <3>2, <3>3
    <3>4. CASE seen' = <<>>
      BY <1>0, <3>4
    <3>5. QED
      BY <3>1, <3>3, <3>4
  <2>2. digest' \in {"uninit", "listed", "unlisted"}
    BY <1>10 DEF check_one_template, TypeOK, grep_digest_list
  <2>3. pc' \in {"ima_entries", "rejected"} /\ sigFmt' \in {"own", "name", "dangling"}
    BY <1>10 DEF check_one_template, TypeOK, FormatAfter
  <2>4. QED
    BY <1>10, <2>1, <2>2, <2>3 DEF check_one_template, TypeOK, InputOK, Verdicts, parseVars, replayVars
<1>11. CASE ima_measure_end
  <2>1. seen' \in Seq(ImaEntries) /\ Len(seen') <= MaxIma /\ digest' \in {"uninit", "listed", "unlisted"}
    <3>1. (seen' = seen /\ digest' = digest) \/ (seen' = <<>> /\ digest' = "uninit")
      BY <1>11 DEF ima_measure_end
    <3>2. <<>> \in Seq(ImaEntries) /\ Len(<<>>) <= MaxIma
      BY <1>0
    <3>3. QED
      BY <3>1, <3>2 DEF TypeOK
  <2>2. pc' \in {"firmware", "rejected"} /\ sigFmt' \in {"own", "name", "dangling"}
    BY <1>11 DEF ima_measure_end, TypeOK
  <2>3. QED
    BY <1>11, <2>1, <2>2 DEF ima_measure_end, TypeOK, InputOK, Verdicts, parseVars, replayVars
<1>12. CASE request_and_save_firmware_data
  <2>1. token' \in TokenTypes
    BY <1>12 DEF request_and_save_firmware_data, TypeOK, NoToken, TokenTypes
  <2>2. QED
    BY <1>0, <1>12, <2>1 DEF request_and_save_firmware_data, TypeOK, InputOK, Verdicts, replayVars
<1>13. CASE event_log_init
  <2>1. rems' \in RemTypes
        /\ fw' \in FirmwareTypes
    BY <1>13 DEF event_log_init, NoFirmware, FirmwareTypes, RemTypes
  <2>2. pc' = "rejected" \/ (pc' = "replay" /\ input' \in LogInputs /\ 0 <= Len(input'.log))
    BY <1>0, <1>13, LogFacts DEF event_log_init, LogInputs
  <2>3. QED
    BY <1>0, <1>13, <2>1, <2>2 DEF event_log_init, TypeOK, InputOK, Verdicts, parseVars, imaVars
<1>14. CASE replay_entry
  <2>1. input \in LogInputs /\ input.log \in Logs
    BY <1>14 DEF replay_entry, InputOK, LogInputs
  <2>2. Len(input.log) \in 0 .. MaxEvents /\ pos + 1 \in 1 .. Len(input.log)
        /\ input.log[pos + 1].dig \in Nat /\ input.log[pos + 1].reg \in Nat
    BY <1>0, <1>14, <2>1, LogFacts DEF replay_entry, TypeOK
  <2>3. rems' \in RemTypes
    <3>1. rems' = rems \/ rems' = update_rem(rems, input.log[pos + 1])
      BY <1>14 DEF replay_entry, replayVars
    <3>2. update_rem(rems, input.log[pos + 1]) \in RemTypes
      BY <2>2, UpdateRem DEF TypeOK
    <3>3. QED
      BY <3>1, <3>2 DEF TypeOK
  <2>4. QED
    BY <1>0, <1>14, <2>1, <2>2, <2>3 DEF replay_entry, TypeOK, InputOK, Verdicts, parseVars, imaVars, replayVars
<1>15. CASE replay_pass_end
  <2>1. input \in LogInputs /\ input.log \in Logs
    BY <1>15 DEF replay_pass_end, InputOK, LogInputs
  <2>2. Len(input.log) \in Nat
    BY <1>0, <2>1, LogFacts
  <2>3. pc' \in {"replay", "state", "rejected"}
    BY <1>15 DEF replay_pass_end
  <2>4. QED
    BY <1>0, <1>15, <2>1, <2>2, <2>3 DEF replay_pass_end, TypeOK, InputOK, Verdicts, parseVars, imaVars
<1>16. CASE verify_state
  <2>1. pc' = "extract" => 0 <= Len(input.log)
    BY <1>0, <1>16, LogFacts DEF verify_state, InputOK, LogInputs
  <2>2. QED
    BY <1>16, <2>1 DEF verify_state, TypeOK, InputOK, Verdicts, parseVars, imaVars, replayVars
<1>17. CASE firmware_log_state_extract
  <2>1. input \in LogInputs /\ input.log \in Logs
    BY <1>17 DEF firmware_log_state_extract, InputOK, LogInputs
  <2>2. Len(input.log) \in 0 .. MaxEvents /\ pos + 1 \in 1 .. Len(input.log)
        /\ input.log[pos + 1].dig \in Nat
    BY <1>0, <1>17, <2>1, LogFacts DEF firmware_log_state_extract, TypeOK
  <2>3. fw' \in FirmwareTypes
    BY <1>17, <2>2, ExtractType DEF firmware_log_state_extract, TypeOK, FirmwareTypes
  <2>4. QED
    BY <1>0, <1>17, <2>1, <2>2, <2>3 DEF firmware_log_state_extract, TypeOK, InputOK, Verdicts, parseVars, imaVars
<1>18. CASE verify_state_end
  <2>1. input \in LogInputs
    BY <1>18 DEF verify_state_end, InputOK
  <2>2. fw' \in FirmwareTypes
    BY <1>18 DEF verify_state_end, NoFirmware, FirmwareTypes
  <2>3. QED
    BY <1>0, <1>18, <2>1, <2>2 DEF verify_state_end, TypeOK, InputOK, Verdicts, parseVars, imaVars
<1>19. CASE next_verification
  <2>1. rems' \in RemTypes
        /\ fw' \in FirmwareTypes
    BY <1>19 DEF next_verification, NoFirmware, FirmwareTypes, RemTypes
  <2>2. token' \in TokenTypes /\ claims' \in ClaimTypes
    BY <1>0, <1>19 DEF next_verification, NoToken, NoClaims, TokenTypes, ClaimTypes
  <2>3. QED
    BY <1>0, <1>19, <2>1, <2>2 DEF next_verification, TypeOK, InputOK
<1>20. QED
  BY <1>1, <1>2, <1>3, <1>4, <1>5, <1>6, <1>7, <1>8, <1>9, <1>10, <1>11, <1>12, <1>13, <1>14,
     <1>15, <1>16, <1>17, <1>18, <1>19 DEF Next, Verify

\* Soundness of the signature stage, and the claims that later stages rest on.
LEMMA ClaimsStep ==
    TypeOK /\ ClaimsRead /\ Next => FullTokenSound' /\ ClaimsRead'
<1> SUFFICES ASSUME TypeOK, ClaimsRead, Next PROVE FullTokenSound' /\ ClaimsRead'
  OBVIOUS
<1>1. CASE parse_token_head
  BY <1>1 DEF parse_token_head, FullTokenSound, ClaimsRead
<1>2. CASE read_claim
  BY <1>2 DEF read_claim, FullTokenSound, ClaimsRead
<1>3. CASE claims_end
  BY <1>3 DEF claims_end, FullTokenSound, ClaimsRead
<1>4. CASE parse_token_tail
  BY <1>4 DEF parse_token_tail, FullTokenSound, ClaimsRead
<1>5. CASE verify_cca_token_signatures
  <2>1. CASE pc' = "crashed"
    BY <2>1 DEF FullTokenSound, ClaimsRead
  <2>2. CASE pc' # "crashed"
    <3>1. PICK aik \in {"rsa", "p521", "p384", "none"}, issuer \in {"rsa", "p521"},
               code \in {"1", "0", "-1"} :
            \E some \in SUBSET MayHold(aik) :
              LET held == HeldWith(some, aik, issuer, code)
              IN  /\ pc' = IF CriticalPassed(held)
                           THEN IF prog = "rats" THEN "rim" ELSE "platform"
                           ELSE "rejected"
                  /\ truth' = IF "chain" \in held /\ code = "-1"
                              THEN (held \ {"chain"}) \cup {"liberr"} ELSE held
      BY <1>5, <2>2 DEF verify_cca_token_signatures
    <3>2. PICK some \in SUBSET MayHold(aik) :
              LET held == HeldWith(some, aik, issuer, code)
              IN  /\ pc' = IF CriticalPassed(held)
                           THEN IF prog = "rats" THEN "rim" ELSE "platform"
                           ELSE "rejected"
                  /\ truth' = IF "chain" \in held /\ code = "-1"
                              THEN (held \ {"chain"}) \cup {"liberr"} ELSE held
      BY <3>1
    <3> DEFINE held == HeldWith(some, aik, issuer, code)
    <3> HIDE DEF held
    <3>3. /\ pc' = IF CriticalPassed(held)
                   THEN IF prog = "rats" THEN "rim" ELSE "platform"
                   ELSE "rejected"
          /\ truth' = IF "chain" \in held /\ code = "-1"
                      THEN (held \ {"chain"}) \cup {"liberr"} ELSE held
      BY <3>2 DEF held
    <3>4. prog' = prog /\ token' = token
      BY <1>5 DEF verify_cca_token_signatures, parseVars
    <3>5. CASE prog = "rats" /\ token.plat /\ pc' = "rim"
      <4>1. {"chal", "cvm", "aik", "plat", "root", "sub", "chain"} \subseteq held
        BY <3>3, <3>5, CriticalRats
      <4>2. "pub_key" \notin token.unset
        <5>1. "cvm" \in MayHold(aik)
          BY <4>1 DEF held, HeldWith
        <5>2. QED
          BY <3>5, <5>1, KeyPresent
      <4>3. FullTokenSound'
        BY <3>3, <4>1 DEF FullTokenSound
      <4>4. QED
        BY <3>4, <3>5, <4>2, <4>3 DEF ClaimsRead
    <3>6. CASE ~ (prog = "rats" /\ token.plat /\ pc' = "rim")
      BY <3>3, <3>4, <3>6 DEF FullTokenSound, ClaimsRead
    <3>7. QED
      BY <3>5, <3>6
  <2>3. QED
    BY <2>1, <2>2
<1>6. CASE verify_rim
  BY <1>6 DEF verify_rim, claim_matches, parseVars, FullTokenSound, ClaimsRead
<1>7. CASE verify_challenge
  BY <1>7 DEF verify_challenge, parseVars, FullTokenSound, ClaimsRead
<1>8. CASE verify_platform
  BY <1>8 DEF verify_platform, platform_next, parseVars, FullTokenSound, ClaimsRead, TypeOK, Programs
<1>9. CASE deal_ima
  BY <1>9 DEF deal_ima, parseVars, FullTokenSound, ClaimsRead
<1>10. CASE check_one_template
  <2>1. pc = "ima_entries" /\ pc' \in {"ima_entries", "rejected"} /\ prog' = prog /\ token' = token
    BY <1>10 DEF check_one_template, parseVars
  <2>2. QED
    BY <2>1 DEF FullTokenSound, ClaimsRead
<1>11. CASE ima_measure_end
  BY <1>11 DEF ima_measure_end, parseVars, FullTokenSound, ClaimsRead
<1>12. CASE request_and_save_firmware_data
  BY <1>12 DEF request_and_save_firmware_data, FullTokenSound, ClaimsRead
<1>13. CASE event_log_init
  BY <1>13 DEF event_log_init, FullTokenSound, ClaimsRead
<1>14. CASE replay_entry
  <2>1. pc' \in {"replay", "crashed"}
    BY <1>14 DEF replay_entry
  <2>2. QED
    BY <2>1 DEF FullTokenSound, ClaimsRead
<1>15. CASE replay_pass_end
  BY <1>15 DEF replay_pass_end, claim_matches, parseVars, FullTokenSound, ClaimsRead
<1>16. CASE verify_state
  BY <1>16 DEF verify_state, FullTokenSound, ClaimsRead
<1>17. CASE firmware_log_state_extract
  BY <1>17 DEF firmware_log_state_extract, FullTokenSound, ClaimsRead
<1>18. CASE verify_state_end
  BY <1>18 DEF verify_state_end, FullTokenSound, ClaimsRead
<1>19. CASE next_verification
  BY <1>19 DEF next_verification, FullTokenSound, ClaimsRead
<1>20. QED
  BY <1>1, <1>2, <1>3, <1>4, <1>5, <1>6, <1>7, <1>8, <1>9, <1>10, <1>11, <1>12, <1>13, <1>14,
     <1>15, <1>16, <1>17, <1>18, <1>19 DEF Next, Verify

\* verify_platform lets only components pass of which the reference file says
\* what the token does, whatever is read where the token says nothing.
LEMMA PlatformVouches ==
    ASSUME NEW comps \in Comps, NEW refs \in Refs, NEW remains,
           verify_platform_sw_components([i \in DOMAIN comps |-> parse_claims_sw_comp(comps[i], i, remains)],
                                         load_platform_ref_values(refs))
    PROVE  \A i \in DOMAIN comps : \E j \in DOMAIN refs :
               \A f \in SwFields : comps[i][f] \in {"unset", refs[j][f]}
<1> DEFINE read == [i \in DOMAIN comps |-> parse_claims_sw_comp(comps[i], i, remains)]
           kept == load_platform_ref_values(refs)
<1>1. DOMAIN kept \subseteq DOMAIN refs /\ \A j \in DOMAIN kept : kept[j] = refs[j]
  BY DEF load_platform_ref_values, Restrict
<1>2. SUFFICES ASSUME NEW i \in DOMAIN comps
               PROVE  \E j \in DOMAIN refs : \A f \in SwFields : comps[i][f] \in {"unset", refs[j][f]}
  OBVIOUS
<1>3. i \in DOMAIN read /\ \A f \in SwFields : comps[i][f] \in {"unset", read[i][f]}
  BY <1>2 DEF parse_claims_sw_comp
<1> HIDE DEF read, kept
<1>4. PICK j \in DOMAIN kept : \A f \in SwFields : read[i][f] = kept[j][f]
  BY <1>3 DEF verify_platform_sw_components, verify_single_sw_component, read, kept
<1>5. QED
  BY <1>1, <1>3, <1>4

\* Components get to the next stage through verify_platform only.
LEMMA ComponentsStep == InputOK /\ ComponentsVouched /\ Next => ComponentsVouched'
<1> SUFFICES ASSUME InputOK, ComponentsVouched, Next, pc' \in {"ima", "challenge"}, input' # <<>>
             PROVE  ComponentsVouched'
  BY DEF ComponentsVouched
<1>1. verify_platform
  BY DEF Next, Verify, parse_token_head, read_claim, claims_end, parse_token_tail,
         verify_cca_token_signatures, verify_rim, verify_challenge, deal_ima, check_one_template,
         ima_measure_end, request_and_save_firmware_data, event_log_init, replay_entry,
         replay_pass_end, verify_state, firmware_log_state_extract, verify_state_end, next_verification
<1>2. PICK comps \in Comps, refs \in Refs : \E remains \in [Unset(comps) -> Readings(refs)] :
         /\ verify_platform_sw_components([i \in DOMAIN comps |-> parse_claims_sw_comp(comps[i], i, remains)],
                                          load_platform_ref_values(refs))
         /\ input' = [comps |-> comps, refs |-> refs]
  BY <1>1 DEF verify_platform
<1>3. \A i \in DOMAIN comps : \E j \in DOMAIN refs :
         \A f \in SwFields : comps[i][f] \in {"unset", refs[j][f]}
  BY <1>2, PlatformVouches
<1>4. input'.comps = comps /\ input'.refs = refs
  BY <1>2
<1>5. QED
  BY <1>3, <1>4 DEF ComponentsVouched

\* check_one_template keeps no entry whose own digest is not listed.
LEMMA EntriesStep == TypeOK /\ EntriesListed /\ Next => EntriesListed'
<1> SUFFICES ASSUME TypeOK, EntriesListed, Next PROVE EntriesListed'
  OBVIOUS
<1>1. CASE check_one_template
  <2>1. PICK e \in ImaEntries, uninit \in {"listed", "unlisted"} :
          \/ seen' = <<>>
          \/ /\ seen' = Append(seen, e)
             /\ (IF parse_template_digest(e) = "uninit" THEN uninit ELSE parse_template_digest(e)) = "listed"
    BY <1>1 DEF check_one_template, grep_digest_list
  <2>2. CASE seen' = <<>>
    BY <2>2 DEF EntriesListed
  <2>3. CASE seen' # <<>>
    <3>1. e.dig \in {"listed", "unlisted", "cut", "bad"}
      BY VerifierAssumption
    <3>2. e.dig = "listed" \/ KeepsDigest(e)
      BY <2>1, <2>3, <3>1 DEF parse_template_digest
    <3>3. seen' = Append(seen, e) /\ seen \in Seq(ImaEntries)
      BY <2>1, <2>3 DEF TypeOK
    <3>4. Len(seen) \in Nat /\ DOMAIN seen = 1 .. Len(seen) /\ DOMAIN seen' = 1 .. Len(seen) + 1
          /\ seen'[Len(seen) + 1] = e /\ \A i \in 1 .. Len(seen) : seen'[i] = seen[i]
      BY <3>3
    <3>5. ASSUME NEW i \in DOMAIN seen' PROVE seen'[i].dig = "listed" \/ KeepsDigest(seen'[i])
      <4>1. CASE i = Len(seen) + 1
        BY <3>2, <3>4, <4>1
      <4>2. CASE i \in 1 .. Len(seen)
        BY <3>4, <4>2 DEF EntriesListed
      <4>3. QED
        BY <3>4, <4>1, <4>2
    <3>6. QED
      BY <3>5 DEF EntriesListed, KeepsDigest
  <2>4. QED
    BY <2>2, <2>3
<1>2. CASE ~ check_one_template
  <2>1. seen' = seen \/ seen' = <<>>
    BY <1>2 DEF Next, Verify, parse_token_head, read_claim, claims_end, parse_token_tail,
         verify_cca_token_signatures, verify_rim, verify_challenge, verify_platform, deal_ima,
         ima_measure_end, request_and_save_firmware_data, event_log_init, replay_entry,
         replay_pass_end, verify_state, firmware_log_state_extract, verify_state_end,
         next_verification, imaVars
  <2>2. QED
    BY <2>1 DEF EntriesListed, KeepsDigest
<1>3. QED
  BY <1>1, <1>2

\* event_log_replay folds the digests in the order of the log.
LEMMA ReplayStep ==
    TypeOK /\ InputOK /\ Replayed /\ Next => Replayed' /\ ReplayInOrder'
<1> SUFFICES ASSUME TypeOK, InputOK, Replayed, Next, pc' \in {"replay", "state"}
             PROVE  Replayed' /\ ReplayInOrder'
  BY DEF Replayed, ReplayInOrder
<1>1. event_log_init \/ replay_entry \/ replay_pass_end
  BY DEF Next, Verify, parse_token_head, read_claim, claims_end, parse_token_tail,
         verify_cca_token_signatures, verify_rim, verify_challenge, verify_platform, platform_next,
         deal_ima, check_one_template, ima_measure_end, request_and_save_firmware_data,
         verify_state, firmware_log_state_extract, verify_state_end, next_verification
<1>2. CASE event_log_init
  BY <1>2 DEF event_log_init, Replayed, ReplayInOrder, QuietUpto
<1>3. CASE replay_entry
  <2> DEFINE log == input.log
             e == log[pos + 1]
  <2>1. /\ log \in Logs /\ pos \in Nat /\ Len(log) \in Nat /\ pos + 1 \in 1 .. Len(log)
        /\ e.reg \in Nat /\ e.dig \in Nat /\ rems \in RemTypes
    <3>1. log \in Logs
      BY <1>3 DEF replay_entry, InputOK, LogInputs
    <3>2. pos < Len(log) /\ pos \in Nat /\ rems \in RemTypes
      BY <1>3, VerifierAssumption DEF replay_entry, TypeOK
    <3>3. QED
      BY <3>1, <3>2, LogFacts
  <2>2. /\ InPass(e) => Quiet(e)
        /\ rems' = IF InPass(e) THEN update_rem(rems, e) ELSE rems
        /\ pos' = pos + 1 /\ pc' = "replay" /\ pass' = pass /\ input' = input
    BY <1>3 DEF replay_entry, Quiet
  <2>3. pc = "replay"
    BY <1>3 DEF replay_entry
  <2>4. \A i \in 0 .. 3 : update_rem(rems, e)[i] =
           IF rem_index(e.reg) = i /\ e.dig > 0 THEN Append(rems[i], e.dig) ELSE rems[i]
    BY <2>1, UpdateRem
  <2>5. CASE pass = 1
    <3>1. Quiet(e)
      BY <2>2, <2>5 DEF InPass, Quiet
    <3>2. QuietUpto(log, pos + 1)
      BY <2>1, <2>3, <2>5, <3>1 DEF Replayed, QuietUpto
    <3>3. \A i \in 0 .. 3 : rems'[i] = <<>>
      <4>1. \A i \in 0 .. 3 : rems[i] = <<>>
        BY <2>3, <2>5 DEF Replayed
      <4>2. CASE InPass(e)
        <5>1. \A i \in 0 .. 3 : ~ (rem_index(e.reg) = i /\ e.dig > 0)
          BY <2>1, <2>5, <3>1, <4>2 DEF InPass, Quiet, REM_COUNT
        <5>2. QED
          BY <2>2, <2>4, <4>1, <4>2, <5>1
      <4>3. CASE ~ InPass(e)
        BY <2>2, <4>1, <4>3
      <4>4. QED
        BY <4>2, <4>3
    <3>4. QED
      BY <2>2, <2>5, <3>2, <3>3 DEF Replayed, ReplayInOrder
  <2>6. CASE pass = 2
    <3>1. QuietUpto(log, Len(log)) /\ \A i \in 0 .. 3 : FoldOf(rems[i], log, pos, i)
      BY <2>3, <2>6 DEF Replayed
    <3>2. Quiet(e)
      BY <2>1, <3>1 DEF QuietUpto
    <3>3. ASSUME NEW i \in 0 .. 3 PROVE FoldOf(rems'[i], log, pos + 1, i)
      <4>1. FoldOf(rems[i], log, pos, i) /\ rems[i] \in Seq(Nat)
        BY <2>1, <3>1 DEF RemTypes
      <4>2. CASE rem_index(e.reg) = i /\ e.dig > 0
        <5>1. rems'[i] = Append(rems[i], e.dig)
          <6>1. InPass(e)
            BY <2>1, <2>6, <3>2, <4>2 DEF InPass, Quiet, REM_COUNT
          <6>2. rems' = update_rem(rems, e)
            BY <2>2, <6>1
          <6>3. update_rem(rems, e)[i] = Append(rems[i], e.dig)
            BY <2>4, <4>2
          <6>4. QED
            BY <6>2, <6>3
        <5>2. FoldOf(Append(rems[i], e.dig), log, pos + 1, i)
          BY <2>1, <4>1, <4>2, FoldAppend
        <5>3. QED
          BY <5>1, <5>2
      <4>3. CASE ~ (rem_index(e.reg) = i /\ e.dig > 0)
        <5>1. rems'[i] = rems[i]
          BY <2>2, <2>4, <4>3
        <5>2. QED
          BY <2>1, <4>1, <4>3, <5>1, FoldSkip
      <4>4. QED
        BY <4>2, <4>3
    <3>4. QED
      BY <2>2, <2>6, <3>1, <3>3 DEF Replayed, ReplayInOrder
  <2>7. QED
    BY <2>5, <2>6 DEF TypeOK
<1>4. CASE replay_pass_end
  <2> DEFINE log == input.log
  <2>1. pc = "replay" /\ pos = Len(log) /\ rems' = rems /\ input' = input /\ pos' = 0
    BY <1>4 DEF replay_pass_end
  <2>2. CASE pass = 1
    <3>1. pc' = "replay" /\ pass' = 2
      BY <1>4, <2>2 DEF replay_pass_end
    <3>2. QuietUpto(log, Len(log)) /\ \A i \in 0 .. 3 : rems[i] = <<>>
      BY <2>1, <2>2 DEF Replayed
    <3>3. \A i : Folded(log, 0, i) = {}
      BY DEF Folded
    <3>4. ASSUME NEW i PROVE FoldOf(<<>>, log, 0, i)
      <4>1. DOMAIN <<>> = {} /\ [k \in {} |-> 0] \in [{} -> Folded(log, 0, i)]
        OBVIOUS
      <4>2. QED
        BY <3>3, <4>1 DEF FoldOf
    <3>5. QED
      BY <2>1, <3>1, <3>2, <3>4 DEF Replayed, ReplayInOrder
  <2>3. CASE pass = 2
    <3>1. pc' = "state"
      BY <1>4, <2>3 DEF replay_pass_end
    <3>2. \A i \in 0 .. 3 : FoldOf(rems[i], log, Len(log), i)
      BY <2>1, <2>3 DEF Replayed
    <3>3. QED
      BY <2>1, <3>1, <3>2 DEF Replayed, ReplayInOrder
  <2>4. QED
    BY <2>2, <2>3 DEF TypeOK
<1>5. QED
  BY <1>1, <1>2, <1>3, <1>4

\* What firmware_log_state_extract has taken of the log, and the verdict on it.
LEMMA FirmwareStep ==
    TypeOK /\ InputOK /\ FirmwareRead /\ FirmwareVouched /\ Next => FirmwareRead' /\ FirmwareVouched'
<1> SUFFICES ASSUME TypeOK, InputOK, FirmwareRead, FirmwareVouched, Next
             PROVE  FirmwareRead' /\ FirmwareVouched'
  OBVIOUS
<1>1. CASE verify_state
  <2>1. pc' = "extract" => Extracted(NoFirmware, input.log, 0)
    BY DEF Extracted, ExtractedEfi, ExtractedCfg, NoneIn, NoFirmware
  <2>2. fw' = NoFirmware /\ pos' = 0
    BY <1>1 DEF verify_state, replayVars, FirmwareRead, InputOK
  <2>3. QED
    BY <1>1, <2>1, <2>2 DEF verify_state, FirmwareRead, FirmwareVouched
<1>2. CASE firmware_log_state_extract
  <2> DEFINE log == input.log
  <2>1. /\ pc = "extract" /\ pc' = "extract" /\ pos < Len(log) /\ input' = input
        /\ fw' = extract_event(fw, log[pos + 1]) /\ pos' = pos + 1
    BY <1>2 DEF firmware_log_state_extract
  <2>2. log \in Logs /\ pos \in Nat /\ fw \in FirmwareTypes
    BY <2>1 DEF InputOK, LogInputs, TypeOK
  <2>3. \A i \in 1 .. pos + 1 : log[i].dig \in Nat
    <3>1. Len(log) \in Nat /\ \A p \in 1 .. Len(log) : log[p].dig \in Nat
      BY <2>2, LogFacts, VerifierAssumption
    <3>2. QED
      BY <2>1, <2>2, <3>1
  <2>4. Extracted(fw, log, pos)
    BY <2>1 DEF FirmwareRead
  <2>5. Extracted(extract_event(fw, log[pos + 1]), log, pos + 1)
    BY <2>2, <2>3, <2>4, ExtractStep
  <2>6. QED
    BY <2>1, <2>5 DEF FirmwareRead, FirmwareVouched
<1>3. CASE verify_state_end
  <2>1. /\ pc = "extract" /\ pc' \in {"accepted", "rejected"} /\ pos = Len(input.log)
        /\ fw' = NoFirmware
    BY <1>3 DEF verify_state_end
  <2>2. input.log \in Logs /\ fw \in FirmwareTypes /\ Extracted(fw, input.log, Len(input.log))
    BY <2>1 DEF InputOK, LogInputs, TypeOK, FirmwareRead
  <2>3. (pc' = "accepted" /\ input' # <<>>) =>
          verify_firmware_state(fw, parse_json_file) /\ input' = input
    BY <1>3 DEF verify_state_end
  <2>4. QED
    BY <2>1, <2>2, <2>3, ExtractedVouches DEF FirmwareRead, FirmwareVouched
<1>4. CASE ~ (verify_state \/ firmware_log_state_extract \/ verify_state_end)
  <2>1. pc # "extract" /\ pc' # "extract" /\ (fw' = fw \/ fw' = NoFirmware)
        /\ (pc' = "accepted" => input' = <<>>)
    BY <1>4 DEF Next, Verify, parse_token_head, read_claim, claims_end, parse_token_tail,
         verify_cca_token_signatures, verify_rim, verify_challenge, verify_platform, platform_next,
         deal_ima, check_one_template, ima_measure_end, request_and_save_firmware_data,
         event_log_init, replay_entry, replay_pass_end, next_verification, replayVars
  <2>2. QED
    BY <2>1 DEF FirmwareRead, FirmwareVouched
<1>5. QED
  BY <1>1, <1>2, <1>3, <1>4

\* Every step of the verification keeps the invariant.
LEMMA NextIInv == IInv /\ [Next]_vars => IInv'
<1>1. IInv /\ Next => IInv'
  BY TypeStep, ClaimsStep, ComponentsStep, EntriesStep, ReplayStep, FirmwareStep DEF IInv
<1>2. IInv /\ UNCHANGED vars => IInv'
  BY DEF IInv, vars, TypeOK, InputOK, FullTokenSound, ClaimsRead, ComponentsVouched, EntriesListed,
         KeepsDigest, Replayed, ReplayInOrder, FirmwareRead, FirmwareVouched
<1>3. QED
  BY <1>1, <1>2

-----------------------------------------------------------------------------
(* Theorems. *)

\* The inductive invariant of the verification of token, lists and logs.
THEOREM Invariance == Spec => []IInv
BY InitIInv, NextIInv, PTL DEF Spec

\* Every variable of the verification keeps its type: rems are four sequences
\* of digests, positions stay inside the log, the IMA list inside its bound.
THEOREM Typing == Spec => []TypeOK
<1>1. IInv => TypeOK
  BY DEF IInv
<1>2. QED
  BY <1>1, Invariance, PTL

\* In migcvm-agent a token with a platform part passes
\* verify_cca_token_signatures only when all seven steps hold, a library error
\* of X509_verify_cert counted as a valid chain.
THEOREM FullTokenTheorem == Spec => []FullTokenSound
<1>1. IInv => FullTokenSound
  BY DEF IInv
<1>2. QED
  BY <1>1, Invariance, PTL

\* What the rats client's verdict rests on are claims of the token at hand,
\* whatever the claims are and however many items a map has.
THEOREM ClaimsTheorem == Spec => []VerdictFromClaims
<1>1. IInv => VerdictFromClaims
  BY DEF IInv, ClaimsRead, VerdictFromClaims
<1>2. QED
  BY <1>1, Invariance, PTL

\* verify_platform_sw_components accepts a component only when one entry of the
\* reference file has each field that the token sets, whatever the fields that
\* parse_claims_sw_comp left unset read as, for all component and reference lists.
THEOREM ComponentsTheorem == Spec => []ComponentsVouched
<1>1. IInv => ComponentsVouched
  BY DEF IInv
<1>2. QED
  BY <1>1, Invariance, PTL

\* ima_measure accepts an entry only by a listed digest: its own, or, when it
\* has none to parse, that of the entries before it; for lists of any length.
THEOREM ImaTheorem == Spec => []ImaSound
<1>1. IInv => ImaSound
  <2> SUFFICES ASSUME IInv, NEW i \in DOMAIN seen
               PROVE  \/ seen[i].dig = "listed" /\ ~ KeepsDigest(seen[i])
                      \/ /\ KeepsDigest(seen[i])
                         /\ \A j \in 1 .. i - 1 : seen[j].dig # "unlisted" \/ KeepsDigest(seen[j])
    BY DEF ImaSound
  <2>1. seen \in Seq(ImaEntries) /\ EntriesListed
    BY DEF IInv, TypeOK
  <2>2. \A j \in 1 .. i - 1 : j \in DOMAIN seen
    BY <2>1
  <2>3. \A j \in DOMAIN seen : seen[j].dig # "unlisted" \/ KeepsDigest(seen[j])
    BY <2>1 DEF EntriesListed
  <2>4. QED
    BY <2>1, <2>2, <2>3 DEF EntriesListed
<1>2. QED
  BY <1>1, Invariance, PTL

\* The two passes of event_log_replay leave in every REM the digests of its
\* events, each once and in the order of the log, for logs of any length.
THEOREM ReplayTheorem == Spec => []ReplayInOrder
<1>1. IInv => ReplayInOrder
  BY DEF IInv
<1>2. QED
  BY <1>1, Invariance, PTL

\* A log that is accepted against the reference file has its grub.cfg, its first
\* kernel and its first initramfs in that file, the latter two in one version.
THEOREM FirmwareTheorem == Spec => []FirmwareVouched
<1>1. IInv => FirmwareVouched
  BY DEF IInv
<1>2. QED
  BY <1>1, Invariance, PTL
=============================================================================
