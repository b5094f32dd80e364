-------------------------- MODULE MCConnectionPool --------------------------
(* Two detail requests for a drill that was returned twice, one command.   *)
EXTENDS ConnectionPool
MCRounds == [r \in Readers |-> 2]
=============================================================================
