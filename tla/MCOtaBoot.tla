----------------------------- MODULE MCOtaBoot -----------------------------
(* Finite instances of OtaBoot for TLC.                                    *)
EXTENDS OtaBootInv

OkOrMissing == {"ok", "missing"}
OnlyOk == {"ok"}
BothDtbs == {EmmcDtb, EvkDtb}
OnlyEvk == {EvkDtb}

=============================================================================
