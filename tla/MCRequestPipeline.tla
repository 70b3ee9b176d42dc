-------------------------- MODULE MCRequestPipeline --------------------------
(* RequestPipeline with one resource of every kind and two clients: one    *)
(* sends every method to every resource, and what changes its resource     *)
(* with headers and body wrong in up to two respects; the other one writes *)
(* samples.                                                                *)
EXTENDS RequestPipeline, TLC

CONSTANTS c1, c2, robot

Route(kind, allow, supported, component) ==
  [kind |-> kind, allow |-> allow, supported |-> supported,
   writable |-> allow \cap {"PUT", "POST"} # {}, component |-> component]

MCResources ==
  [root      |-> Route("description", {"GET"}, TRUE, None),
   value     |-> Route("value", {"GET", "PUT"}, TRUE, robot),
   constant  |-> Route("value", {"GET"}, TRUE, robot),
   opaque    |-> Route("value", {"GET", "PUT"}, FALSE, robot),
   latest    |-> Route("latest", {"GET"}, TRUE, robot),
   samples   |-> Route("samples", {"POST"}, TRUE, robot),
   operation |-> Route("operation", {"POST"}, TRUE, robot)]

Paths == DOMAIN MCResources \cup {"noncanonical", "unknown"}
Methods == {"GET", "HEAD", "PUT", "POST", "OPTIONS", "DELETE"}

Usual == [encoded |-> FALSE, types |-> 1, media |-> "json", length |-> "fits",
          expect |-> FALSE, body |-> "good"]
Unusual ==
  [encoded |-> {TRUE}, types |-> {0, 2}, media |-> {"json utf-8", "json other", "text"},
   length |-> {"absent", "unparsable", "huge"}, expect |-> {TRUE},
   body |-> {"none", "huge", "malformed", "costly", "duplicate", "misshapen", "mistyped"}]

Varied(r) == UNION {{[r EXCEPT ![f] = v] : v \in Unusual[f]} : f \in DOMAIN Unusual}
Headers(S) == S \cup UNION {Varied(r) : r \in S}

(* The library reads no more than Content-Length says.                     *)
Possible(S) == {h \in S : h.body = "huge" => h.length # "fits"}

To(path, method, headers) == {h @@ [path |-> path, method |-> method] : h \in Possible(headers)}

Various ==
  UNION {To(p, m, {Usual}) : p \in Paths, m \in Methods}
    \cup To("value", "GET", Headers({Usual}))
    \cup UNION {To(p, m, Headers(Headers({Usual}))) :
                <<p, m>> \in {<<"value", "PUT">>, <<"samples", "POST">>, <<"operation", "POST">>}}
Samples == To("samples", "POST", {Usual})

MCRequests == [c \in {c1, c2} |-> IF c = c1 THEN Various ELSE Samples]
=============================================================================
