--------------------------- MODULE MCRateLimiter ---------------------------
(***************************************************************************)
(* Instances of RateLimiter for TLC: a client with an API key, whose       *)
(* requests arrive from two connections, and an anonymous one.             *)
(***************************************************************************)
EXTENDS RateLimiter

From(apiKey, xff, remoteAddr) ==
  [apiKey |-> apiKey, xff |-> xff, remoteAddr |-> remoteAddr]

MCRequests == { From("key1", None, "10.0.0.1:1"),
                From("key1", "10.9.9.9", "10.0.0.1:2"),
                From(None, None, "10.0.0.2:1") }

=============================================================================
