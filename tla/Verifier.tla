------------------------------- MODULE Verifier -------------------------------
(***************************************************************************)
(* The verification of a peer's evidence: parsing and signatures of the    *)
(* CCA token, reference values of firmware components, the IMA log and the *)
(* boot event log.  Two programs contain it: the client of migcvm-agent    *)
(* ("rats") and the samples client ("samples").  They share most functions *)
(* and differ in the order of the stages and in the signature steps.       *)
(*                                                                         *)
(* Hashes are ideal: a register is the sequence of what was folded into    *)
(* it.  What a certificate, a signature or an optional stage looks like is *)
(* an input, chosen where the program reads it.                            *)
(***************************************************************************)
EXTENDS Naturals, Sequences, FiniteSets, SequencesExt

CONSTANTS CvmClaims,    \* the mandatory claims of a CVM token
          PlatClaims,   \* the mandatory claims of a platform token
          MaxItems,     \* bound: items of one claim map
          Comps, Refs,  \* software component lists and reference lists tried
          Events,       \* the boot events tried ...
          MaxEvents,    \* ... and the bound on the length of a log
          ImaEntries,   \* the IMA entries tried ...
          MaxIma        \* ... and the bound on the length of a list

\* What is compared of a software component: component_type, measurement, version.
SwFields == {"type", "measurement", "version"}

ASSUME VerifierAssumption ==
    /\ {"challenge", "rim", "rem", "pub_key"} \subseteq CvmClaims
    /\ {"challenge", "sw"} \subseteq PlatClaims
    /\ IsFiniteSet(CvmClaims) /\ IsFiniteSet(PlatClaims)
    /\ MaxItems \in Nat /\ MaxEvents \in Nat /\ MaxIma \in Nat
    /\ Comps \subseteq Seq([SwFields -> STRING]) /\ Refs \subseteq Seq([SwFields -> STRING])
    /\ Events \subseteq [reg : Nat, kind : STRING, dig : Nat]
    /\ ImaEntries \subseteq [tmpl : STRING, dig : {"listed", "unlisted", "cut", "bad"}, target : BOOLEAN]

Programs == {"rats", "samples"}
Verdicts == {"accepted", "rejected", "crashed"}

VARIABLES
    prog,      \* which program verifies
    pc,        \* the stage it is at
    token,     \* cca_token_t: is there a platform token, which claims are unset
    claims,    \* the claim map being parsed: claim_cnt, labels seen
    truth,     \* the signature steps that really hold
    input,     \* what the current stage is given
    rems,      \* log->rems
    pos,       \* entries of the event log read in the current pass
    pass,      \* 1: EV_NO_ACTION events, 2: the others
    fw,        \* firmware_log_state_t
    seen,      \* IMA entries checked so far
    digest,    \* template->file_digest: "listed" in the digest list or not
    sigFmt     \* the global format of "ima-sig": its own, or a pointer to
               \* template->name of this or of an earlier ima_measure call

vars == <<prog, pc, token, claims, truth, input, rems, pos, pass, fw, seen, digest, sigFmt>>
parseVars == <<token, claims>>
replayVars == <<rems, pos, pass, fw>>
imaVars == <<seen, digest, sigFmt>>

-----------------------------------------------------------------------------
(* Token parsing. *)

\* check_item_type_size: the value of a claim has the type and one of the
\* lengths its label asks for.  A label is a mandatory claim, an optional or
\* unknown one, or not an integer at all.
Items(mandatory) == [label : mandatory \cup {"optional", "noint"}, wellFormed : BOOLEAN]
ItemRefused(item) == item.label = "noint" \/ ~item.wellFormed

NoClaims == [cnt |-> 0, have |-> {}]

\* Optional and unknown labels are taken back from claim_cnt.
Counted(c, item) ==
    [cnt |-> c.cnt + (IF item.label = "optional" THEN 0 ELSE 1),
     have |-> c.have \cup ({item.label} \ {"optional"})]

\* The verdict counts items: a label that comes twice stands in for one that
\* is missing.
parse_platform_claims_ok(c) == c.cnt = Cardinality(PlatClaims)
parse_cvm_claims_ok(c) == c.cnt = Cardinality(CvmClaims)

NoToken == [plat |-> FALSE, unset |-> {}, platUnset |-> {}]

\* firmware_log_state_create; 0 stands for no digest.
NoFirmware == [efi |-> <<>>, cfg |-> 0, kernel |-> 0, initrd |-> 0]

TokenTypes == [plat : BOOLEAN, unset : SUBSET CvmClaims, platUnset : SUBSET PlatClaims]
ClaimTypes == [cnt : 0 .. MaxItems, have : SUBSET (CvmClaims \cup PlatClaims)]
RemTypes == [0 .. 3 -> Seq(Nat)]
FirmwareTypes == [efi : Seq(Nat), cfg : Nat, kernel : Nat, initrd : Nat]

TypeOK ==
    /\ prog \in Programs
    /\ pc \in {"idle", "plat_claims", "cvm_claims", "trailer", "signatures",
               "rim", "challenge", "platform", "ima", "ima_entries",
               "firmware", "log", "replay", "state", "extract"} \cup Verdicts
    /\ token \in TokenTypes /\ claims \in ClaimTypes
    /\ truth \subseteq {"chal", "cvm", "aik", "plat", "rel", "root", "sub", "chain", "liberr"}
    /\ rems \in RemTypes /\ fw \in FirmwareTypes
    /\ pos \in 0 .. MaxEvents /\ pass \in {1, 2}
    /\ seen \in Seq(ImaEntries) /\ Len(seen) <= MaxIma
    /\ digest \in {"uninit", "listed", "unlisted"}
    /\ sigFmt \in {"own", "name", "dangling"}

\* The whole of a verification starts afresh; only the table of IMA templates is
\* global.  cca_token_t is zeroed by the rats client and not by the samples.
Init ==
    /\ prog \in Programs
    /\ pc = "idle" /\ token = NoToken /\ claims = NoClaims
    /\ truth = {} /\ input = <<>>
    /\ rems = [i \in 0 .. 3 |-> <<>>] /\ pos = 0 /\ pass = 1 /\ fw = NoFirmware
    /\ seen = <<>> /\ digest = "uninit" /\ sigFmt = "own"

\* parse_cca_attestation_token, head: tag, item count and the first item; the
\* envelopes are COSE_Sign1 arrays of four (parse_cose_sign1) or refused.
parse_token_head ==
    /\ pc = "idle"
    /\ \E next \in {"rejected", "plat_claims", "cvm_claims"} :
         /\ pc' = next
         /\ token' = [NoToken EXCEPT !.plat = next = "plat_claims"]
    /\ UNCHANGED <<prog, claims, truth, input, replayVars, imaVars>>

Mandatory == IF pc = "plat_claims" THEN PlatClaims ELSE CvmClaims

\* One turn of the loop of parse_platform_claims or parse_cvm_claims.
read_claim ==
    /\ pc \in {"plat_claims", "cvm_claims"}
    /\ \E item \in Items(Mandatory) :
         \/ /\ ItemRefused(item)
            /\ pc' = "rejected" /\ claims' = NoClaims
         \/ /\ ~ItemRefused(item) /\ claims.cnt < MaxItems
            /\ claims' = Counted(claims, item) /\ UNCHANGED pc
    /\ UNCHANGED <<prog, token, truth, input, replayVars, imaVars>>

\* The map ends.  After the platform claims the CVM envelope follows.
claims_end ==
    /\ claims' = NoClaims
    /\ \/ /\ pc = "plat_claims"
          /\ token' = [token EXCEPT !.platUnset = PlatClaims \ claims.have]
          /\ pc' \in (IF parse_platform_claims_ok(claims) THEN {"cvm_claims"} ELSE {}) \cup {"rejected"}
       \/ /\ pc = "cvm_claims"
          /\ token' = [token EXCEPT !.unset = CvmClaims \ claims.have]
          /\ pc' = IF parse_cvm_claims_ok(claims) THEN "trailer" ELSE "rejected"
    /\ UNCHANGED <<prog, truth, input, replayVars, imaVars>>

\* parse_cca_attestation_token, tail: QCBORDecode_Finish reports NO_MORE_ITEMS
\* when nothing follows and QCBOR_SUCCESS, which is VIRTCCA_SUCCESS, when
\* exactly one further item does.
parse_token_tail ==
    /\ pc = "trailer"
    /\ \E extra \in 0 .. 2 : pc' = IF extra <= 1 THEN "signatures" ELSE "rejected"
    /\ UNCHANGED <<prog, parseVars, truth, input, replayVars, imaVars>>

-----------------------------------------------------------------------------
(* Signatures. *)

Keys == {"rsa", "p256", "p384", "p521", "p521raw", "otherCurve", "bad"}
Sigs == [good : BOOLEAN, der : BOOLEAN]

HashAlgos == {"sha-256", "sha-512", "prefix", "unsupported"}

\* d2i_PUBKEY, or the 133 bytes of an uncompressed P-521 point.
init_signing_key_ok(key) == key # "bad"
get_curve_nid_from_key(key) == IF key = "p521raw" THEN "p521" ELSE key
ecdsa_signature_der_to_cose_ok(curve) == curve \in {"p521", "p384", "p256"}

\* A DER signature of an EC key is rewritten as r||s before t_cose sees it.
t_cose_sign1_verify(key, sig) ==
    sig.good /\ (sig.der /\ key # "rsa" =>
                   ecdsa_signature_der_to_cose_ok(get_curve_nid_from_key(key)))
verify_cvm_cose_sign(key, sig) == init_signing_key_ok(key) /\ t_cose_sign1_verify(key, sig)
verify_plat_cose_sign(key, sig) == t_cose_sign1_verify(key, sig)

\* strncmp over the length of the claim: every prefix of "sha-256", the empty
\* one included, selects SHA-256.
verify_pubkhash_challenge(algo, sameHash) == algo # "unsupported" /\ sameHash

\* X509_verify_cert returns 1, 0 or a negative code; the bool it is assigned to
\* is true for a negative one.
x509_validate_signature(code) == code # "0"
validate_aik_cert_chain(codes) == \A i \in DOMAIN codes : x509_validate_signature(codes[i])

\* The certificate chain that configure_cert_info_by_type selects for the kind
\* of AIK that detect_aik_cert_type found.
detect_aik_cert_type(aik) == IF aik \in {"rsa", "p521"} THEN aik ELSE "unknown"
configure_cert_info_by_type(type) == IF type = "p521" THEN "p521" ELSE "rsa"

\* A certificate file is there, or downloaded, or missing.
download_cert_pem_ok(present, downloaded) == present \/ downloaded

\* The relation of the CVM key to the AIK is logged only (samples).
verify_cvm_pubkey(same, key) == same \/ get_curve_nid_from_key(key) = "p521"

\* The steps in the order in which they use up the bits of ret_bits.
RatsSteps(plat) ==
    IF plat THEN <<"chal", "cvm", "aik", "plat", "root", "sub", "chain">>
    ELSE <<"cvm", "aik", "root", "sub", "chain">>
SamplesSteps(plat) ==
    IF plat THEN <<"chal", "cvm", "aik", "plat", "rel", "root", "sub", "chain">>
    ELSE <<"cvm", "aik", "rel", "root", "sub", "chain">>

\* The bits (from 0) that must still be set for critical_verifications_passed.
RatsCriticalNoChain(plat) == IF plat THEN {0, 3, 1, 2, 4, 5} ELSE {1, 2, 3}
RatsCritical(plat) == IF plat THEN {0, 3, 1, 2, 4, 5, 6} ELSE {1, 2, 3, 4}
\* index is not advanced after the last step, and bit index - 1 is looked at.
SamplesCritical(plat) ==
    {1, Len(SamplesSteps(plat)) - 2} \cup (IF plat THEN {0, 3} ELSE {})

CriticalPassed(held) ==
    LET steps == IF prog = "rats" THEN RatsSteps(token.plat) ELSE SamplesSteps(token.plat)
        bits  == IF prog = "rats" THEN RatsCritical(token.plat) ELSE SamplesCritical(token.plat)
    IN  \A b \in bits : steps[b + 1] \in held \/ steps[b + 1] = "rel"

\* The public key claim: unset, it is zero in the rats client, which cannot be
\* loaded, and whatever the stack held in the samples.
KeysRead == IF prog = "rats" /\ "pub_key" \in token.unset THEN {"bad"} ELSE Keys

\* The steps, other than those about the AIK and its chain, that can hold.
MayHold(aik) ==
    {step \in {"chal", "cvm", "plat", "root", "sub"} :
        CASE step = "chal" -> \E algo \in HashAlgos, same \in BOOLEAN : verify_pubkhash_challenge(algo, same)
          [] step = "cvm"  -> \E key \in KeysRead, sig \in Sigs : verify_cvm_cose_sign(key, sig)
          [] step = "plat" -> aik # "none" /\ \E sig \in Sigs : verify_plat_cose_sign(aik, sig)
          [] OTHER         -> \E there, got \in BOOLEAN : download_cert_pem_ok(there, got)}

\* With these, the AIK certificate is there, and its chain is valid when all of
\* it was loaded, of the right kind, and X509_verify_cert returned the code.
HeldWith(some, aik, issuer, code) ==
    some \cup (IF aik = "none" THEN {} ELSE {"aik"})
         \cup (IF /\ aik # "none" /\ {"root", "sub"} \subseteq some
                  /\ issuer = configure_cert_info_by_type(detect_aik_cert_type(aik))
                  /\ validate_aik_cert_chain(<<"1", "1", code>>)
               THEN {"chain"} ELSE {})

\* An unset platform challenge is a null pointer.
verify_cca_token_signatures ==
    /\ pc = "signatures"
    /\ \/ /\ token.plat /\ "challenge" \in token.platUnset
          /\ pc' = "crashed" /\ UNCHANGED truth
       \/ \E aik \in {"rsa", "p521", "p384", "none"}, issuer \in {"rsa", "p521"},
             code \in {"1", "0", "-1"} :
          \E some \in SUBSET MayHold(aik) :
            LET held == HeldWith(some, aik, issuer, code)
            IN  /\ pc' = IF CriticalPassed(held)
                         THEN IF prog = "rats" THEN "rim" ELSE "platform"
                         ELSE "rejected"
                /\ truth' = IF "chain" \in held /\ code = "-1"
                            THEN (held \ {"chain"}) \cup {"liberr"} ELSE held
    /\ UNCHANGED <<prog, parseVars, input, replayVars, imaVars>>

-----------------------------------------------------------------------------
(* Reference values of the token and of the firmware components. *)

\* Lengths are compared first: an unset claim has length 0 in the rats client,
\* and any length and content in the samples.
claim_matchesPrefix(name, same) == same \/ name \in token.unset
claim_matches(name, same) == same /\ (name \in token.unset => prog = "samples")

verify_rim ==
    /\ pc = "rim"
    /\ \E same \in BOOLEAN :
         pc' = IF ~claim_matches("rim", same) THEN "rejected"
               ELSE IF prog = "rats" THEN "platform" ELSE "firmware"
    /\ truth' = {}
    /\ UNCHANGED <<prog, parseVars, input, replayVars, imaVars>>

\* Only the samples compare the CVM challenge with the one they sent.
verify_challenge ==
    /\ pc = "challenge"
    /\ \E same \in BOOLEAN :
         pc' = IF claim_matches("challenge", same) THEN "rim" ELSE "rejected"
    /\ input' = <<>>
    /\ UNCHANGED <<prog, parseVars, truth, replayVars, imaVars>>

verify_single_sw_component(comp, ref) == \A f \in SwFields : comp[f] = ref[f]

\* Each component of the token is compared with the first reference of its type.
verify_platform_sw_componentsLenient(comps, refs) ==
    \A i \in DOMAIN comps : \A j \in DOMAIN refs :
        refs[j]["type"] = comps[i]["type"] => verify_single_sw_component(comps[i], refs[j])
verify_platform_sw_components(comps, refs) ==
    /\ comps # <<>> /\ DOMAIN refs # {}
    /\ \A i \in DOMAIN comps : \E j \in DOMAIN refs :
         /\ refs[j]["type"] = comps[i]["type"]
         /\ \A k \in DOMAIN refs : k < j => refs[k]["type"] # comps[i]["type"]
         /\ verify_single_sw_component(comps[i], refs[j])

\* The list is malloc'ed and not cleared, and parse_claims_sw_comp sets the
\* fields that it meets: type and version may be left out, a second signer id
\* makes up for the measurement, and a component that does not parse is only
\* reported on the console.  A field left "unset" reads as what the memory held.
Unset(comps) == {p \in (DOMAIN comps) \X SwFields : comps[p[1]][p[2]] = "unset"}
parse_claims_sw_comp(comp, i, remains) ==
    [f \in SwFields |-> IF comp[f] = "unset" THEN remains[<<i, f>>] ELSE comp[f]]

\* Of remains only the equality with a reference matters.
Readings(refs) == {"other"} \cup {refs[j][f] : j \in DOMAIN refs, f \in SwFields}

\* parse_measure_values leaves out the objects that lack a field and fails when
\* none is left; the others keep their order.
load_platform_ref_values(refs) ==
    Restrict(refs, {j \in DOMAIN refs : \A f \in SwFields : refs[j][f] # "missing"})

platform_next == IF prog = "rats" THEN "ima" ELSE "challenge"

\* Without a platform token the request to check it is a warning.  An unset
\* field holds a length and a pointer: following it may be the end.
verify_platform ==
    /\ pc = "platform"
    /\ \/ pc' = platform_next /\ input' = <<>>
       \/ /\ token.plat
          /\ \E comps \in Comps, refs \in Refs :
               \/ Unset(comps) # {} /\ pc' = "crashed" /\ input' = <<>>
               \/ \E remains \in [Unset(comps) -> Readings(refs)] :
                    LET read == [i \in DOMAIN comps |-> parse_claims_sw_comp(comps[i], i, remains)]
                        ok   == /\ "sw" \notin token.platUnset
                                /\ verify_platform_sw_components(read, load_platform_ref_values(refs))
                    IN  /\ pc' = IF ok THEN platform_next ELSE "rejected"
                        /\ input' = IF ok THEN [comps |-> comps, refs |-> refs] ELSE <<>>
    /\ truth' = {}
    /\ UNCHANGED <<prog, parseVars, replayVars, imaVars>>

-----------------------------------------------------------------------------
(* The IMA list.  An entry is [tmpl, dig, target]: its template name, what its
   digest field holds, and whether its PCR is the one being verified. *)

\* deal_ima: nothing to do, or a list and a 32-byte REM that is not zero.
deal_ima ==
    /\ pc = "ima"
    /\ \/ pc' = "firmware"
       \/ pc' = "rejected"
       \/ "rem" \notin token.unset /\ pc' = "ima_entries"
    /\ input' = <<>> /\ seen' = <<>> /\ digest' = "uninit"
    /\ UNCHANGED <<prog, parseVars, truth, replayVars, sigFmt>>

\* parse_ima_pcr_index takes the PCR of the second entry, whose place it
\* misjudges when the first one uses the old "ima" template.
parse_ima_pcr_index_allows(e) ==
    Len(seen) = 1 => (e.target \/ seen[1].tmpl = "ima")

\* A field of the old template, or one whose length does not fit, leaves
\* file_digest as it was.
KeepsDigest(e) == e.tmpl = "ima" \/ e.dig = "cut"
parse_template_digest(e) == IF KeepsDigest(e) THEN digest ELSE e.dig

\* A template name that is not in the table replaces the format of the last
\* table entry, "ima-sig", by a pointer to template->name: a later "ima-sig"
\* entry is parsed with its own name, or after ima_measure has returned with
\* what is left on the stack.
parse_template_fails(e, stack) ==
    \/ e.tmpl = "unknown" \/ e.dig = "bad"
    \/ e.tmpl = "ima-sig" /\ (sigFmt = "name" \/ (sigFmt = "dangling" /\ stack))
FormatAfter(e) == IF e.tmpl \in {"custom", "unknown"} THEN "name" ELSE sigFmt

\* The search for the digest in the list.
grep_digest_listTarget(e, held) == e.target => held = "listed"
grep_digest_list(e, held) == held = "listed"

\* One turn of the loop of ima_measure.
check_one_template ==
    /\ pc = "ima_entries" /\ Len(seen) < MaxIma
    /\ \E e \in ImaEntries, stack \in BOOLEAN, uninit \in {"listed", "unlisted"} :
         LET dig  == parse_template_digest(e)
             held == IF dig = "uninit" THEN uninit ELSE dig
             ok   == ~parse_template_fails(e, stack) /\ grep_digest_list(e, held)
         IN  /\ parse_ima_pcr_index_allows(e)
             /\ IF ok THEN /\ seen' = Append(seen, e) /\ digest' = dig
                           /\ sigFmt' = FormatAfter(e) /\ UNCHANGED pc
                ELSE /\ pc' = "rejected" /\ seen' = <<>> /\ digest' = "uninit"
                     /\ sigFmt' = IF FormatAfter(e) = "name" THEN "dangling" ELSE sigFmt
    /\ UNCHANGED <<prog, parseVars, truth, input, replayVars>>

\* The list ends: what was folded for the target PCR is compared with the REM.
ima_measure_end ==
    /\ pc = "ima_entries"
    /\ Len(seen) >= 2 \/ (seen # <<>> /\ seen[1].tmpl = "ima")
    /\ sigFmt' = IF sigFmt = "name" THEN "dangling" ELSE sigFmt
    /\ \/ /\ \E i \in DOMAIN seen : seen[i].target
          /\ pc' = "firmware" /\ UNCHANGED <<seen, digest>>
       \/ pc' = "rejected" /\ seen' = <<>> /\ digest' = "uninit"
    /\ UNCHANGED <<prog, parseVars, truth, input, replayVars>>

-----------------------------------------------------------------------------
(* The boot event log.  An event is [reg, kind, dig]; dig 0 stands for no
   digest.  The log ends at its last byte, at an entry that is not read (the
   terminator, or data above 10240 bytes), or with one to three stray bytes. *)

Logs == UNION {[1 .. n -> Events] : n \in 0 .. MaxEvents}
Tails == {"end", "fragment"}
REM_COUNT == 4
rem_index(reg) == IF reg > 0 THEN reg - 1 ELSE 0

\* Not asked for, or the log is there (fetched just now by the rats client); of
\* the token only the REMs are still looked at.
request_and_save_firmware_data ==
    /\ pc = "firmware"
    /\ pc' \in {"accepted", "rejected", "log"}
    /\ token' = [NoToken EXCEPT !.unset = token.unset \cap {"rem"}]
    /\ seen' = <<>> /\ digest' = "uninit" /\ input' = <<>>
    /\ UNCHANGED <<prog, claims, truth, replayVars, sigFmt>>

event_log_init ==
    /\ pc = "log"
    /\ \/ pc' = "rejected" /\ UNCHANGED input
       \/ /\ pc' = "replay"
          /\ \E log \in Logs, tail \in Tails : input' = [log |-> log, tail |-> tail]
    /\ rems' = [i \in 0 .. 3 |-> <<>>] /\ pos' = 0 /\ pass' = 1 /\ fw' = NoFirmware
    /\ UNCHANGED <<prog, parseVars, truth, imaVars>>

update_rem(r, e) ==
    IF rem_index(e.reg) < REM_COUNT /\ e.dig > 0
    THEN [r EXCEPT ![rem_index(e.reg)] = Append(@, e.dig)] ELSE r

InPassBoth(e) == TRUE
InPass(e) == (e.kind = "no_action") <=> (pass = 1)

replay_entryStuck ==
    /\ pc = "replay" /\ pos < Len(input.log)
    /\ rem_index(input.log[pos + 1].reg) < REM_COUNT
    /\ pos' = pos + 1
    /\ UNCHANGED <<prog, pc, pass, rems, fw, parseVars, truth, input, imaVars>>

\* An EV_NO_ACTION entry has no digests in memory: folding one into a register
\* reads a null pointer.
replay_entry ==
    /\ pc = "replay" /\ pos < Len(input.log)
    /\ LET e == input.log[pos + 1]
       IN  IF /\ InPass(e) /\ e.kind = "no_action"
              /\ rem_index(e.reg) < REM_COUNT /\ e.dig > 0
           THEN pc' = "crashed" /\ UNCHANGED replayVars
           ELSE /\ rems' = IF InPass(e) THEN update_rem(rems, e) ELSE rems
                /\ pos' = pos + 1
                /\ UNCHANGED <<pc, pass, fw>>
    /\ UNCHANGED <<prog, parseVars, truth, input, imaVars>>

\* At the end of a pass.  A fragment is read as an entry of no bytes, so the
\* position stays below the length of the log for ever.
replay_pass_end ==
    /\ pc = "replay" /\ pos = Len(input.log) /\ input.tail # "fragment"
    /\ pos' = 0
    /\ \/ pass = 1 /\ pass' = 2 /\ UNCHANGED <<pc, rems>>
       \/ /\ pass = 2 /\ pass' = 1 /\ UNCHANGED rems
          /\ \E same \in BOOLEAN :
               pc' = IF claim_matches("rem", same) THEN "state" ELSE "rejected"
    /\ UNCHANGED <<prog, parseVars, truth, input, fw, imaVars>>

\* What firmware_log_state_extract takes of one event: every EFI image, the
\* first grub.cfg, the first kernel after it, the first initramfs after that.
Ipl == {"grub_cfg", "kernel", "initrd", "ipl"}
extract_event(st, e) ==
    IF e.dig = 0 THEN st
    ELSE IF e.kind = "efi" THEN [st EXCEPT !.efi = Append(@, e.dig)]
    ELSE IF e.kind \notin Ipl THEN st
    ELSE IF st.cfg = 0 THEN IF e.kind = "grub_cfg" THEN [st EXCEPT !.cfg = e.dig] ELSE st
    ELSE IF st.kernel = 0 THEN IF e.kind = "kernel" THEN [st EXCEPT !.kernel = e.dig] ELSE st
    ELSE IF st.initrd = 0 /\ e.kind = "initrd" THEN [st EXCEPT !.initrd = e.dig] ELSE st

\* One turn of its second loop; the first only counts.
firmware_log_state_extract ==
    /\ pc = "extract" /\ pos < Len(input.log)
    /\ fw' = extract_event(fw, input.log[pos + 1]) /\ pos' = pos + 1
    /\ UNCHANGED <<prog, pc, parseVars, truth, input, rems, pass, imaVars>>

\* The reference file: digests of grub, grub.cfg and of the kernel versions, of
\* which the second has no initramfs (0).
parse_json_file == [grub |-> 1, cfg |-> 1,
                    kernels |-> {[kernel |-> 1, initrd |-> 1], [kernel |-> 2, initrd |-> 0]}]
compare_and_print_hash(ref, actual) == ref # 0 /\ ref = actual

verify_firmware_stateAnyVersion(st, ref) ==
    /\ st.efi # <<>> => \E i \in DOMAIN st.efi : compare_and_print_hash(ref.grub, st.efi[i])
    /\ st.cfg # 0 => compare_and_print_hash(ref.cfg, st.cfg)
    /\ st.kernel # 0 => \E v \in ref.kernels : compare_and_print_hash(v.kernel, st.kernel)
    /\ st.initrd # 0 => \E v \in ref.kernels : compare_and_print_hash(v.initrd, st.initrd)
\* Only what the log contains is compared.
verify_firmware_state(st, ref) ==
    /\ st.efi # <<>> => \E i \in DOMAIN st.efi : compare_and_print_hash(ref.grub, st.efi[i])
    /\ st.cfg # 0 => compare_and_print_hash(ref.cfg, st.cfg)
    /\ \E v \in ref.kernels :
         /\ st.kernel # 0 => compare_and_print_hash(v.kernel, st.kernel)
         /\ st.initrd # 0 => compare_and_print_hash(v.initrd, st.initrd)

\* The samples skip the reference file when none was given.
verify_state ==
    /\ pc = "state"
    /\ \/ prog = "samples" /\ pc' = "accepted" /\ input' = <<>>
       \/ pc' = "extract" /\ UNCHANGED input
    /\ UNCHANGED <<prog, parseVars, truth, replayVars, imaVars>>

\* The log ends.  An unreadable file or an unsupported hash algorithm is a failure.
verify_state_end ==
    /\ pc = "extract" /\ pos = Len(input.log)
    /\ \/ pc' = "rejected" /\ input' = <<>>
       \/ /\ pc' = IF verify_firmware_state(fw, parse_json_file) THEN "accepted" ELSE "rejected"
          /\ UNCHANGED input
    /\ fw' = NoFirmware /\ pos' = 0
    /\ UNCHANGED <<prog, parseVars, truth, rems, pass, imaVars>>

\* The agent goes on to the next peer; the samples client ends.
next_verification ==
    /\ pc \in {"accepted", "rejected"} /\ prog = "rats"
    /\ pc' = "idle" /\ token' = NoToken /\ claims' = NoClaims
    /\ truth' = {} /\ input' = <<>>
    /\ rems' = [i \in 0 .. 3 |-> <<>>] /\ pos' = 0 /\ pass' = 1 /\ fw' = NoFirmware
    /\ seen' = <<>> /\ digest' = "uninit"
    /\ UNCHANGED <<prog, sigFmt>>

Verify ==
    \/ read_claim \/ claims_end \/ parse_token_tail
    \/ verify_cca_token_signatures \/ verify_rim \/ verify_challenge \/ verify_platform
    \/ deal_ima \/ check_one_template \/ ima_measure_end
    \/ request_and_save_firmware_data \/ event_log_init \/ replay_entry \/ replay_pass_end
    \/ verify_state \/ firmware_log_state_extract \/ verify_state_end

Next == parse_token_head \/ Verify \/ next_verification

Spec == Init /\ [][Next]_vars

\* The verification runs in one thread, on files, and waits for nobody.
FairSpec == Spec /\ WF_vars(Verify)

-----------------------------------------------------------------------------
(* Properties. *)

\* In migcvm-agent a token with a platform part gets past
\* verify_cca_token_signatures only when each of its seven steps holds, or when
\* the X509 library reported an internal error.
FullTokenSound ==
    (prog = "rats" /\ token.plat /\ pc = "rim") =>
        \/ {"chal", "cvm", "aik", "plat", "root", "sub", "chain"} \subseteq truth
        \/ {"chal", "cvm", "aik", "plat", "root", "sub", "liberr"} \subseteq truth

\* As the comment in token_validate.c puts it, verification is successful if
\* the critical components pass: the CVM token signature, the platform token
\* signature and the challenge binding where there is a platform token, and
\* the certificate chain.
CriticalStepsHold ==
    (pc = IF prog = "rats" THEN "rim" ELSE "platform") =>
        {"cvm", "chain"} \cup (IF token.plat THEN {"plat", "chal"} ELSE {}) \subseteq truth

\* A claim that the verdict rests on is a claim of this token: a duplicate that
\* takes the place of a missing claim in claim_cnt is noticed later, by the
\* length checks, in the program that zeroes cca_token_t.
VerdictFromClaims ==
    prog = "rats" =>
        /\ pc \in {"platform", "ima", "ima_entries", "firmware"} =>
             "rim" \notin token.unset /\ (token.plat => "pub_key" \notin token.unset)
        /\ pc \in {"ima_entries", "state"} => "rem" \notin token.unset

\* What the token says of an accepted software component, all of it or the
\* fields it sets, is what one entry of the reference file says.
ComponentsVouched ==
    (pc \in {"ima", "challenge"} /\ input # <<>>) =>
        \A i \in DOMAIN input.comps : \E j \in DOMAIN input.refs :
            \A f \in SwFields : input.comps[i][f] \in {"unset", input.refs[j][f]}

\* Every IMA entry of an accepted list has its own digest in the digest list,
\* except one that has none to parse: it is judged by the last digest before it.
ImaSound ==
    (pc = "firmware" /\ seen # <<>>) =>
        \A i \in DOMAIN seen : \/ seen[i].dig = "listed" /\ ~KeepsDigest(seen[i])
                               \/ /\ KeepsDigest(seen[i])
                                  /\ \A j \in 1 .. i - 1 : seen[j].dig # "unlisted" \/ KeepsDigest(seen[j])

\* The positions in the first n events of a log whose digests belong to REM[i].
Folded(log, n, i) == {p \in 1 .. n : rem_index(log[p].reg) = i /\ log[p].dig > 0}

\* The digests s are those of these positions, each one once, in their order.
FoldOf(s, log, n, i) ==
    \E f \in [DOMAIN s -> Folded(log, n, i)] :
        /\ \A p \in Folded(log, n, i) : \E k \in DOMAIN s : f[k] = p
        /\ \A k \in DOMAIN s : /\ s[k] = log[f[k]].dig
                                /\ \A l \in DOMAIN s : k < l => f[k] < f[l]

\* The two passes of event_log_replay compute, for every register, the fold of
\* its digests in the order of the log; register 0 and register 1 share REM[0].
ReplayInOrder ==
    pc = "state" => \A i \in 0 .. 3 : FoldOf(rems[i], input.log, Len(input.log), i)

First(S) == CHOOSE i \in S : \A j \in S : i <= j

\* The events of one kind, with a digest, in the part of a log after position p.
After(log, p, kind) == {i \in p + 1 .. Len(log) : log[i].kind = kind /\ log[i].dig # 0}

Cfgs(log) == After(log, 0, "grub_cfg")
Kernels(log) == IF Cfgs(log) = {} THEN {} ELSE After(log, First(Cfgs(log)), "kernel")
Initrds(log) == IF Kernels(log) = {} THEN {} ELSE After(log, First(Kernels(log)), "initrd")
Efis(log) == After(log, 0, "efi")

KernelVouched(log, v) ==
    /\ v.kernel = log[First(Kernels(log))].dig
    /\ Initrds(log) # {} => v.initrd = log[First(Initrds(log))].dig
LogVouched(log) ==
    /\ Cfgs(log) # {} => log[First(Cfgs(log))].dig = parse_json_file.cfg
    /\ Kernels(log) # {} => \E v \in parse_json_file.kernels : KernelVouched(log, v)
    /\ Efis(log) # {} => \E i \in Efis(log) : log[i].dig = parse_json_file.grub

\* When a log is accepted against the reference file, the grub.cfg, the kernel
\* measured first after it and the initramfs measured first after the kernel
\* are of the reference file, the latter two of one and the same version, and
\* of the EFI images one is its grub.
FirmwareVouched == (pc = "accepted" /\ input # <<>>) => LogVouched(input.log)

\* Every verification reaches a verdict, unless the event log ends in a fragment.
VerdictReached ==
    (pc = "signatures") ~> (pc \in Verdicts \/ (pc = "replay" /\ input.tail = "fragment"))
=============================================================================
