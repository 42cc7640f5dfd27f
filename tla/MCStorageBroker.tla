--------------------------- MODULE MCStorageBroker --------------------------
(* Model-checking instance of StorageBroker: two records, contents of size   *)
(* one and two, a quota that one large record and one small one exhaust.     *)
EXTENDS StorageBroker

SmallAndLarge == {"small", "large"}
SizeOf(v) == IF v = "small" THEN 1 ELSE 2
=============================================================================
