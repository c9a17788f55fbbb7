----------------------------- MODULE MCThreadLock -----------------------------
(* ThreadLock on small instances; a .cfg cannot write -1.                  *)
EXTENDS ThreadLock

WithNoLimit == {1, 2, -1}
=============================================================================
