---------------------------- MODULE MCFramePath ----------------------------
(***************************************************************************)
(* Two connections: the peer of "slow" may stop reading, that of "quick"   *)
(* reads.  The scenes are the clients' scripts, each with a hazard in mind. *)
(***************************************************************************)
EXTENDS FramePath

CONSTANTS slow, quick

MCConns == {slow, quick}
MCStalled == {slow}
MCNames == {1, 2}

MCServer == [max_body |-> 75, max_decoded |-> 100, max_metadata |-> 48, max_in_flight |-> 2,
             none |-> TRUE, zstd |-> TRUE, events |-> TRUE]
Client == MCServer
Small == [MCServer EXCEPT !.max_body = 40, !.max_decoded = 300, !.max_in_flight = 3]
NoZstd == [MCServer EXCEPT !.zstd = FALSE, !.max_decoded = 90, !.events = FALSE]
Narrow == [MCServer EXCEPT !.max_metadata = 16]
Tiny == [MCServer EXCEPT !.max_body = 1, !.max_decoded = 1]
Bad == [MCServer EXCEPT !.none = FALSE]

P(len, zip) == [len |-> len, zip |-> zip]
Sparse == P(80, "sparse")
Regular == P(96, "regular")
MCEvents == {P(6, "dense"), P(96, "regular"), P(110, "sparse")}

In(kind, id, len) ==
  [kind |-> kind, id |-> id, known |-> TRUE, block |-> Nothing,
   payload |-> [len |-> len, decoded |-> len], outcomes |-> {}]
Req(id, len, outcomes) == [In("REQUEST", id, len) EXCEPT !.outcomes = outcomes]
With(entries, announced, frame) ==
  [frame EXCEPT !.block = [announced |-> announced, entries |-> entries]]
E(id, critical, name, len, value) ==
  [id |-> id, critical |-> critical, name |-> name, len |-> len, value |-> value]

Scene(hello1, script1, hello2, script2, events) ==
  [hello |-> (slow :> hello1 @@ quick :> hello2),
   script |-> (slow :> script1 @@ quick :> script2), events |-> events]
Alone(hello, script, events) == Scene(Nothing, <<>>, hello, script, events)

\* A peer that does not read fills its budget and has frames waiting.
Stall == {Scene([Client EXCEPT !.max_in_flight = 1],
                <<Req(1, 0, {Regular}), Req(2, 0, {Regular}), In("PING", 3, 45)>>,
                Client, <<Req(1, 0, {P(6, "dense")})>>, 0)}

\* Bodies that do not fit the request budget together.
Contend == {Scene(Client, <<Req(1, 50, {Nothing}), In("CANCEL", 1, 0)>>,
                  Client, <<Req(1, 50, {P(6, "dense")}), In("PING", 2, 40)>>, 0)}

\* An id that is used again while the task of its first request may still run.
Reuse == {Alone(Client, <<Req(1, 4, {P(6, "dense")}), In("CANCEL", 1, 0),
                          Req(1, 4, {P(6, "dense")})>>, 0)}

\* Batches, and what the negotiated limits do to responses and events.
Batches ==
  {Alone(Client, <<Req(1, 0, {P(0, "dense")}), Req(2, 0, {Regular, P(96, "dense")}), In("PING", 3, 0)>>, 1)}
  \cup {Alone(hello, <<Req(1, 0, {Regular, Sparse, P(96, "zeros"), P(110, "sparse"), Nothing})>>, 1) :
          hello \in {Client, Small, NoZstd, Narrow, Tiny, Bad}}
  \cup {Alone(Client, <<Req(1, 0, {Regular})>>, 2)}

\* Frames the loop does not accept.
Broken ==
  {Alone(Client, <<f, In("PING", 9, 0)>>, 0) :
     f \in {In("REQUEST", 0, 0), In("PING", 0, 0), In("HEALTH", 1, 1), In("RESPONSE", 1, 0),
            In("GOODBYE", 0, 0), In("PING", 2, 76), In("CANCEL", 7, 3), In("HEALTH", 1, 0), Req(1, 0, {}),
            [In("PING", 2, 0) EXCEPT !.known = FALSE]}}
  \cup {Alone(Client, <<Req(1, 4, {P(6, "dense")}), Req(1, 4, {P(6, "dense")})>>, 0)}

\* Metadata blocks of up to two entries, and the compression of a request.
Entries == {E(1, TRUE, 0, 4, 5), E(1, TRUE, 0, 4, 0), E(1, TRUE, 0, 3, 5), E(2, FALSE, 0, 25, 1),
            E(2, TRUE, 0, 25, 2), E(4, TRUE, 1, 0, 0), E(14, FALSE, 0, 1, 0), E(14, TRUE, 0, 1, 0),
            E(99, FALSE, 1, 2, 0), E(99, FALSE, 2, 2, 0), E(99, FALSE, 0, 2, 0), E(99, FALSE, 3, 2, 0),
            E(5, TRUE, 0, 30, 0), E(6, TRUE, 0, 1, 1)}
Total(es) == End(es, Len(es))
Holding(es, d) == Alone(Client, <<With(es, Total(es) + d, Req(1, 3, {P(6, "dense")}))>>, 0)
Blocks == {Holding(<<x>>, d) : x \in Entries, d \in {-1, 0, 2, 9}}
          \cup {Holding(<<x, y>>, 0) : x, y \in Entries}
          \cup {Holding(<<x, x, x>>, -2 * EntryLen(x)) : x \in Entries}
          \cup {Holding(<<E(1, TRUE, 0, 4, 5), E(5, TRUE, 0, 1, 0), E(99, FALSE, 1, 0, 0)>>, 0)}
Zipped(codec, original, len, decoded) ==
  [With(<<E(6, TRUE, 0, 1, codec), E(7, TRUE, 0, 4, original)>>, 19, Req(1, len, {P(6, "dense")}))
     EXCEPT !.payload.decoded = decoded]
Compressed ==
  {Alone(hello, <<Zipped(codec, original, 10, decoded)>>, 0) :
     hello \in {Client, NoZstd}, codec \in {0, 1, 2}, original \in {0, 40, 41, 101}, decoded \in {40, 41}}
  \cup {Alone(Client, <<Zipped(1, 40, 10, 40), [Zipped(1, 40, 10, 40) EXCEPT !.id = 2]>>, 0)}

MCScenes == Stall \cup Contend \cup Reuse \cup Batches \cup Broken \cup Blocks \cup Compressed

=============================================================================
