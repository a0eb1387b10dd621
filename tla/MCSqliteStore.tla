---------------------------- MODULE MCSqliteStore ----------------------------
(* Two record ids: a batch of one, and a batch of both. *)
EXTENDS SqliteStore

MCBatches == {<<"r1">>, <<"r2", "r1">>}
=============================================================================
