---------------------------- MODULE MCTxPoolData ----------------------------
(* Instances of TxPoolData for TLC.  Later and early transactions, two of the
   same second, and blocks of other nodes that repeat some of them.            *)
EXTENDS TxPoolData

CONSTANTS t1, t2, t3, b1, b2

Two == {t1, t2}
Three == {t1, t2, t3}
Stamps == [t \in Tx |-> IF t = t3 THEN 0 ELSE 1]
Payloads == [b \in External |-> IF b = b1 THEN {t1} ELSE {t1, t2}]
\* A batch that is proposed again is subtracted from curSize again, in an unlucky
\* run without end.
Drift == curSize >= -1
=============================================================================
