--------------------------- MODULE MCLiveStoreAPI ---------------------------
(* Bounds for LiveStoreAPI: two turns of one step, histories of up to two   *)
(* messages (one of which the validator refuses), a caller's id that        *)
(* collides with a default one (2) and one that never does (9), an answer   *)
(* that confirms at most one term.                                          *)
EXTENDS LiveStoreAPI

MCInitialLedgers ==
  {<<>>, <<"user">>, <<"user", "assistant">>, <<"assistant", "user">>}

MCCallerIds == {2, 9}
=============================================================================
