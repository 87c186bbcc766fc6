----------------------------- MODULE MCWriterGate -----------------------------
(* Four writers of one ledger, two gate identities, at most two waiters: a   *)
(* holder with a full queue behind it refuses the fourth.                    *)
EXTENDS WriterGate

CONSTANTS t1, t2, t3, t4, g1, g2

MCThread == {t1, t2, t3, t4}
MCGate == {g1, g2}
===============================================================================
