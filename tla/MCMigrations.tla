--------------------------- MODULE MCMigrations ---------------------------
(***************************************************************************)
(* Two submissions of one contract and one of another for TLC.             *)
(***************************************************************************)
EXTENDS MigrationProperties

CONSTANTS s1, s2, s3, c1, c2

MCContractOf == [s \in SubmissionIds |-> IF s = s3 THEN c2 ELSE c1]
=============================================================================
