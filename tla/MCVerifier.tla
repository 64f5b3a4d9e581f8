------------------------------ MODULE MCVerifier ------------------------------
(* Verifier for TLC: four CVM and two platform claims stand for the seven and  *)
(* eight of the code, which are treated alike.                                 *)
EXTENDS Verifier

MCCvmClaims == {"challenge", "rim", "rem", "pub_key"}
MCPlatClaims == {"challenge", "sw"}

Comp(t, m, v) == [type |-> t, measurement |-> m, version |-> v]
MCComps == {<<>>, <<Comp("a", "m1", "v1")>>, <<Comp("a", "m2", "v1"), Comp("b", "m1", "v1")>>,
            <<Comp("a", "m1", "v1"), Comp("a", "m1", "v1")>>,
            <<Comp("b", "m1", "unset")>>, <<Comp("unset", "m2", "v1")>>,
            <<Comp("b", "m1", "v1"), Comp("a", "unset", "unset")>>}
MCRefs == {<<>>, <<Comp("a", "m1", "v1"), Comp("a", "m2", "v1")>>,
           <<Comp("a", "m1", "v1"), Comp("b", "m1", "v2")>>,
           <<Comp("a", "m2", "missing"), Comp("b", "m1", "v1")>>}

Ev(r, k, d) == [reg |-> r, kind |-> k, dig |-> d]
MCEvents == {Ev(1, "no_action", 0), Ev(1, "no_action", 1), Ev(0, "other", 3), Ev(5, "other", 3), Ev(5, "no_action", 1),
             Ev(2, "efi", 1), Ev(2, "efi", 3), Ev(4, "grub_cfg", 1), Ev(4, "grub_cfg", 3),
             Ev(3, "kernel", 1), Ev(3, "kernel", 2), Ev(3, "initrd", 1), Ev(1, "ipl", 0)}

Ima(t, d, b) == [tmpl |-> t, dig |-> d, target |-> b]
MCImaEntries == {Ima(t, d, b) : t \in {"ima-ng", "ima-sig"}, d \in {"listed", "unlisted", "cut", "bad"},
                                b \in BOOLEAN}
                \cup {Ima(t, "listed", TRUE) : t \in {"ima", "custom", "unknown"}}
=============================================================================
