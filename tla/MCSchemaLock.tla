----------------------------- MODULE MCSchemaLock -----------------------------
(* A small contract for TLC: a Rust struct, two Rust enums and one hand      *)
(* written message, three field names, four variant names of which two are   *)
(* one value name, and numbers up to 6 of which 3 stands for the range       *)
(* Protobuf keeps for itself.                                                *)
EXTENDS SchemaLock, TLC

CONSTANTS Msg, Kind, Mode, Event, alpha, beta, gamma, Get, Watch, Clash, sig, read

Plain == [wrap |-> <<>>, name |-> "i32", qualified |-> FALSE]
Optional == [Plain EXCEPT !.wrap = <<"Option">>]
MCTypes == {Plain, Optional,
            [Plain EXCEPT !.name = "Other", !.qualified = TRUE]}

MCUpperSnake == [Alpha |-> "ALPHA", alpha |-> "ALPHA", Beta |-> "BETA", Gamma |-> "GAMMA"]

Field(name) == [name |-> name, type |-> <<"", "int32">>, oneof |-> None]
Span(i, j) == [start |-> i, end |-> j]
MCProtos == {
  None,
  [fields |-> 1 :> Field(alpha) @@ 4 :> Field(beta), ranges |-> {Span(2, 3)}, names |-> {}],
  [fields |-> 4 :> Field(beta), ranges |-> {Span(1, 3)}, names |-> {alpha}],
  [fields |-> <<>>, ranges |-> {Span(1, 2), Span(2, 6)}, names |-> {alpha, beta}],
  [fields |-> <<>>, ranges |-> {Span(1, 3), Span(4, 5)}, names |-> {alpha, beta}],
  [fields |-> <<>>, ranges |-> {Span(1, 6)}, names |-> {beta}],
  [fields |-> 2 :> Field(alpha), ranges |-> {Span(1, 2), Span(4, 5)}, names |-> {beta}]}

Rpc == [signature |-> sig, client_streaming |-> FALSE, server_streaming |-> FALSE,
        options |-> <<>>, scopes |-> <<>>]
MCRpcs == {None, Rpc,
           [Rpc EXCEPT !.server_streaming = TRUE, !.scopes = <<read>>],
           [Rpc EXCEPT !.options = [max_attempts |-> 3]],
           [Rpc EXCEPT !.client_streaming = TRUE],
           [Rpc EXCEPT !.signature = Unsupported]}

MCWireId == Get :> 7 @@ Watch :> 8 @@ Clash :> 7 @@ Event :> 8
MCRawRoutes == {[id |-> i, stream |-> s] : i \in {7}, s \in BOOLEAN}
                 \cup {[id |-> None, stream |-> FALSE]}

Member(name) == [name |-> name, type |-> Plain]
Given(decls) == [d \in Decls |-> IF d \in DOMAIN decls THEN decls[d] ELSE None]
Edits(members, protos, rpcs) == [members |-> members, protos |-> protos, rpcs |-> rpcs]
MCPlans == {
  [source |-> Given(Msg :> <<Member(alpha), Member(beta)>>), edits |-> Edits(3, 0, 0)],
  [source |-> Given(Msg :> <<Member(alpha), [Member(beta) EXCEPT !.type = Optional]>>),
   edits |-> Edits(3, 0, 0)],
  [source |-> Given(Kind :> <<Member("Alpha")>>), edits |-> Edits(5, 0, 0)],
  [source |-> Given(Kind :> <<Member("Alpha")>> @@ Mode :> <<Member("Beta")>>),
   edits |-> Edits(3, 0, 0)],
  [source |-> Given(<<>>), edits |-> Edits(0, 3, 1)],
  [source |-> Given(Msg :> <<Member(alpha)>>), edits |-> Edits(0, 1, 2)]}

=============================================================================
