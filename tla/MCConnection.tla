---------------------------- MODULE MCConnection ----------------------------
(* Small instances of Connection for TLC: commands of up to three requests.*)
EXTENDS Connection

AllSecrets == {"right", "wrong", "empty", "oversized"}

SomePrograms ==
    {<<"status", "change", "status">>, <<"shutdown">>, <<"change", "shutdown", "status">>,
     <<"status", "follow", "status">>, <<"status", "unknown">>, <<"broken">>}
=============================================================================
