---------------------------- MODULE MCIssuance -----------------------------
(***************************************************************************)
(* The two X.create calls every test launcher starts for one library:     *)
(* NonBlinded and Blinded (e.g. testRevealedAC2C_BBS, AppTest.ts:27-30).  *)
(***************************************************************************)
EXTENDS Issuance

MCLaunches == {<<"AC2C_BBS", "NonBlinded">>, <<"AC2C_BBS", "Blinded">>}
=============================================================================
