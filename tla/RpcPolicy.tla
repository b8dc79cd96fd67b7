------------------------------ MODULE RpcPolicy ------------------------------
(***************************************************************************)
(* The policy of an RPC method (policy.rs of moonlight-bridge-codegen): a  *)
(* method carries the numeric options and the scopes its declaration       *)
(* gives, and the rest takes its default.  Enumerations are their numbers: *)
(* idempotency 0 is "unspecified".                                         *)
(***************************************************************************)
EXTENDS Integers, Sequences

CONSTANTS ValidScopes   \* scopes made of the permitted characters

\* RpcPolicy::defaults and RetryPolicy::default
Defaults(server_streaming) ==
  [timeout_ms |-> 2000,
   idle_timeout_ms |-> IF server_streaming THEN 30000 ELSE 0,
   max_attempts |-> 1, initial_backoff_ms |-> 25, max_backoff_ms |-> 1000,
   multiplier_milli |-> 2000, idempotency |-> 0,
   max_request_bytes |-> 16777216, max_response_bytes |-> 16777216,
   compression |-> 0, trace_sample_per_million |-> 0]

\* parse_policy / parse_retry: what is not given takes its default.
ParsePolicy(method) ==
  LET default == Defaults(method.server_streaming)
  IN  [options |-> [k \in DOMAIN default |->
                      IF k \in DOMAIN method.options THEN method.options[k]
                      ELSE default[k]],
       scopes  |-> {method.scopes[i] : i \in DOMAIN method.scopes}]

\* validate_policy, and what parse_policy refuses: a scope given twice and an
\* unknown enumeration value.
ValidPolicy(method) ==
  LET o      == ParsePolicy(method).options
      scopes == method.scopes
  IN  /\ \A i, j \in DOMAIN scopes : i # j => scopes[i] # scopes[j]
      /\ o.idempotency \in 0 .. 3 /\ o.compression \in 0 .. 3
      /\ o.timeout_ms \in 1 .. 600000
      /\ IF method.server_streaming THEN o.idle_timeout_ms \in 1 .. 600000
         ELSE o.idle_timeout_ms = 0
      /\ o.max_attempts \in 1 .. 8
      /\ o.initial_backoff_ms \in 1 .. 60000
      /\ o.max_backoff_ms \in o.initial_backoff_ms .. 300000
      /\ o.multiplier_milli \in 1000 .. 10000
      /\ o.max_attempts > 1 => o.idempotency # 0
      /\ method.client_streaming \/ method.server_streaming => o.max_attempts <= 1
      /\ \A k \in {"max_request_bytes", "max_response_bytes"} :
           o[k] \in 1 .. 67108864
      /\ Len(scopes) <= 32
      /\ \A i \in DOMAIN scopes : scopes[i] \in ValidScopes
      /\ o.trace_sample_per_million <= 1000000

=============================================================================
