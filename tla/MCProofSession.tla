--------------------------- MODULE MCProofSession ---------------------------
(* Instantiation of ProofSession for TLC: the three zkpLibs of api.ts, the  *)
(* two encryptable indices of the fixtures and two revealable indices.     *)
EXTENDS ProofSession

MCLibs == {"AC2C_BBS", "AC2C_PS", "DNC"}
MCAC2CLibs == {"AC2C_BBS", "AC2C_PS"}
\* Every session the test functions of AppTest.ts launch.
MCAllSessions == MCLibs \X Scenarios
\* All but the verifiable-encryption test on DNC.
MCSessionsButDNCVE == MCAllSessions \ {<<"DNC", "ve">>}
MCDNCVE == {<<"DNC", "ve">>}
MCRevealedSessions == MCLibs \X {"revealed"}
MCVESessions == {<<"AC2C_BBS", "ve">>}
MCAccSessions == {<<"DNC", "accumulators">>}
MCEncIdx == {2, 3}
MCRevealIdx == {0, 1}
=============================================================================
