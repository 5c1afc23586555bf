---------------------------- MODULE MCReadPipeline ----------------------------
(* Small instances of ReadPipeline for TLC.                                 *)
EXTENDS ReadPipeline

Request(cmd, size) == [cmd |-> cmd, size |-> size]

\* Requests as a client of the protocol sends them; "other" is a command that is
\* listed as not implemented; GET_ALL is read like PING.
MCRequests ==
    {Request("ping", 0), Request("other", 0), Request("get", 1), Request("set", 2)}
==============================================================================
