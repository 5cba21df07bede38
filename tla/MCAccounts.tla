------------------------------ MODULE MCAccounts ------------------------------
(* Accounts with the names a and ab, of which one contains the other.         *)
EXTENDS Accounts

CONSTANTS a, b, r, h, empty, up

MCROOT      == <<r>>
MCHOME      == <<h>>
MCUP        == <<up>>
MCNOBODY    == <<empty>>
MCUsers     == {<<a>>, <<a, b>>}
MCCreated   == {<<a>>}
MCChmods    == {"private", "group"}
MCPasswords == {<<b>>}
===============================================================================
