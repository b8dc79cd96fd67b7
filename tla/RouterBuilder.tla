---------------------------- MODULE RouterBuilder ----------------------------
(***************************************************************************)
(* Router registration in moonlight-bridge-server (RouterBuilder).  A      *)
(* builder maps method ids to handlers; registration consumes and returns  *)
(* it, and an assertion that fails is a panic, after which no call is made. *)
(***************************************************************************)
EXTENDS Integers

\* Router::builder.  A handler stands for the method it was registered for.
NewBuilder ==
  [handlers |-> <<>>, stream_handlers |-> <<>>, method_names |-> <<>>,
   required_scopes |-> <<>>, authorization_configured |-> FALSE,
   unsecured_scopes_allowed |-> FALSE, panicked |-> FALSE]

Require(b, condition) == IF condition THEN b ELSE [b EXCEPT !.panicked = TRUE]

\* HashMap::insert
Insert(map, key, value) ==
  [k \in DOMAIN map \cup {key} |-> IF k = key THEN value ELSE map[k]]

\* route
Route(b, id, handler) ==
  Require([b EXCEPT !.handlers = Insert(@, id, handler)],
         id \notin DOMAIN b.stream_handlers \cup DOMAIN b.handlers)

\* route_stream
RouteStream(b, id, handler) ==
  Require([b EXCEPT !.stream_handlers = Insert(@, id, handler)],
         id \notin DOMAIN b.stream_handlers \cup DOMAIN b.handlers)

\* route_scoped and route_stream_scoped
RouteScoped(b, id, scopes, handler) ==
  [Route(b, id, handler) EXCEPT !.required_scopes = Insert(@, id, scopes)]

RouteStreamScoped(b, id, scopes, handler) ==
  [RouteStream(b, id, handler) EXCEPT !.required_scopes = Insert(@, id, scopes)]

\* method_name
MethodName(b, id, name) ==
  Require([b EXCEPT !.method_names = Insert(@, id, name)],
         /\ id \in DOMAIN b.handlers \cup DOMAIN b.stream_handlers
         /\ id \notin DOMAIN b.method_names)

\* authorization_layer and allow_unsecured_scopes
AuthorizationLayer(b) == [b EXCEPT !.authorization_configured = TRUE]

AllowUnsecuredScopes(b) == [b EXCEPT !.unsecured_scopes_allowed = TRUE]

\* build
BuildRouter(b) ==
  Require(b, \/ \A id \in DOMAIN b.required_scopes : b.required_scopes[id] = {}
            \/ b.authorization_configured
            \/ b.unsecured_scopes_allowed)

=============================================================================
