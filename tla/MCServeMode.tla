----------------------------- MODULE MCServeMode -----------------------------
(* Instances of ServeMode for TLC.                                          *)
EXTENDS ServeMode

CONSTANTS u1, u2, t1

\* Both processes are started to enroll, with the same token; to serve what
\* the state file holds, at the right or another server; with a key of the
\* operator's own; with a URL that is refused.
Options == {
    [url |-> u1, key |-> None, token |-> t1],
    [url |-> u2, key |-> None, token |-> None],
    [url |-> u1, key |-> [server |-> u1, device |-> Given], token |-> None],
    [url |-> BadUrl, key |-> None, token |-> t1]}

\* No file, one that cannot be decoded, another server's.
Files == {
    None,
    Garbage,
    [url |-> u2, key |-> [server |-> u2, device |-> Given]]}
=============================================================================
