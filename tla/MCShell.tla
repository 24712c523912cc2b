------------------------------ MODULE MCShell ------------------------------
EXTENDS Shell

MCCommands == {"read_kv", "write_kv", "delete_kv", "echo", "exit"}
MCStale    == {0, 1, 2}
=============================================================================
