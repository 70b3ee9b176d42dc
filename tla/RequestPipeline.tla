--------------------------- MODULE RequestPipeline ---------------------------
(***************************************************************************)
(* A request's way through the server (src/src/server.cpp): preflight,     *)
(* which runs for the expect handler, for the pre-routing handler and      *)
(* again inside handle, and handle itself, on concurrent connections while *)
(* components are published and the server stops.                          *)
(*                                                                         *)
(* Requests and resources are records of what the code asks of them.  A    *)
(* step is a critical section, a live access, or the local work between.   *)
(* cpp-httplib is external: it calls the expect handler when the client    *)
(* asks for it, then the pre-routing handler, reads the body, calls        *)
(* handle, and ends the connection after "Connection: close", after a      *)
(* refused expectation and after a body it could not read.                 *)
(***************************************************************************)
EXTENDS Naturals, FiniteSets

CONSTANTS Conns,       \* connections that have been accepted
          Requests,    \* requests the client of a connection may send
          Resources,   \* the routes, by path
          Components,  \* components that may be published
          MaxRequests, \* keepAliveMaxRequests
          None         \* no request, no component

ASSUME PipelineAssumption ==
  /\ MaxRequests \in Nat \ {0}
  /\ \A p \in DOMAIN Resources : Resources[p].component \in Components \cup {None}

(* The routes that describeService makes: values, samples and operations   *)
(* may be written, and samples and operations only be posted.              *)
ASSUME RouteAssumption ==
  \A p \in DOMAIN Resources :
    LET route == Resources[p]
    IN  /\ route.supported \in BOOLEAN
        /\ route.allow \in {{"GET"}, {"GET", "PUT"}, {"POST"}}
        /\ route.allow = {"GET", "PUT"} => route.kind = "value"
        /\ route.allow = {"POST"} <=> route.kind \in {"samples", "operation"}
        /\ route.writable <=> route.allow # {"GET"}

(* What the code tells apart of a request's headers and body.              *)
ASSUME RequestAssumption ==
  \A c \in Conns : \A r \in Requests[c] :
    /\ r # None /\ r.expect \in BOOLEAN /\ r.encoded \in BOOLEAN
    /\ r.length \in {"absent", "fits", "unparsable", "huge"}
    /\ r.body \in {"none", "good", "huge", "malformed", "costly", "duplicate",
                   "misshapen", "mistyped"}

VARIABLES
  open,      \* state == running && !finalShutdown
  published, \* publications_
  pc,        \* each connection: where its request is
  site,      \* who called preflight: expect, route or handle
  req,       \* its request
  unread,    \* bytes of the request's body are still in the stream
  reply,     \* response.status, 0 before there is one
  keep,      \* the connection survives the response
  effect,    \* what the request did to RTT
  served     \* requests answered on the connection

connVars == <<pc, site, req, unread, reply, keep, effect, served>>
vars == <<open, published, connVars>>

Init ==
  /\ open = TRUE /\ published = {}
  /\ pc = [c \in Conns |-> "idle"] /\ site = [c \in Conns |-> "route"]
  /\ req = [c \in Conns |-> None] /\ unread = [c \in Conns |-> FALSE]
  /\ reply = [c \in Conns |-> 0] /\ keep = [c \in Conns |-> TRUE]
  /\ effect = [c \in Conns |-> "none"] /\ served = [c \in Conns |-> 0]

----------------------------------------------------------------------------
(* What the code asks of a request.                                        *)

Mutation(r) == r.method \in {"PUT", "POST"}
HasBody(r) == r.body # "none"

(* ObjectModel::resolve: the root exists without any component.            *)
Resolves(r) ==
  /\ r.path \in DOMAIN Resources
  /\ Resources[r.path].component \in published \cup {None}
Resource(r) == Resources[r.path]

(* methodAllowed: a prefix or a substring of the Allow header.             *)
MethodAllowed(resource, method) ==
  \/ method = "OPTIONS"
  \/ method \in {"GET", "HEAD"} /\ "GET" \in resource.allow
  \/ method = "PUT" /\ "PUT" \in resource.allow
  \/ method = "POST" /\ "POST" \in resource.allow

(* One Content-Type, application/json, at most a charset and that UTF-8.   *)
JsonMediaType(r) ==
  /\ r.types = 1 /\ ~r.encoded
  /\ r.media \in {"json", "json utf-8"}

(* The status of parseJson and of the shape of the document in handle, 0   *)
(* when both are accepted.                                                 *)
BodyStatus(r) ==
  CASE r.body \in {"none", "malformed"}       -> 400
    [] r.body = "costly"                      -> 413
    [] r.body \in {"duplicate", "misshapen"}  -> 422
    [] OTHER                                  -> 0

----------------------------------------------------------------------------
(* The library reads a request line and headers.                           *)
Receive(c) ==
  /\ pc[c] = "idle"
  /\ \E r \in Requests[c] :
       /\ req' = [req EXCEPT ![c] = r]
       /\ unread' = [unread EXCEPT ![c] = HasBody(r)]
       /\ site' = [site EXCEPT ![c] = IF r.expect THEN "expect" ELSE "route"]
  /\ pc' = [pc EXCEPT ![c] = "gate"]
  /\ UNCHANGED <<open, published, reply, keep, effect, served>>

Goto(c, label) ==
  /\ pc' = [pc EXCEPT ![c] = label]
  /\ UNCHANGED <<site, reply, keep>>

(* problem(): the status is set and the handler returns.                   *)
Answer(c, status) ==
  /\ reply' = [reply EXCEPT ![c] = status]
  /\ pc' = [pc EXCEPT ![c] = "reply"]
  /\ UNCHANGED <<site, keep>>

RejectKeeps(c, status) ==
  /\ reply' = [reply EXCEPT ![c] = status]
  /\ pc' = [pc EXCEPT ![c] = "reply"]
  /\ keep' = [keep EXCEPT ![c] = site[c] # "expect"]
  /\ UNCHANGED site

(* preflight returned false: the pre-routing handler and the library's     *)
(* handling of a refused expectation end the connection, handle does not.  *)
Reject(c, status) ==
  /\ reply' = [reply EXCEPT ![c] = status]
  /\ pc' = [pc EXCEPT ![c] = "reply"]
  /\ keep' = [keep EXCEPT ![c] = site[c] = "handle"]
  /\ UNCHANGED site

(* preflight returned true.                                                *)
Pass(c) ==
  /\ site' = [site EXCEPT ![c] = IF site[c] = "expect" THEN "route" ELSE site[c]]
  /\ pc' = [pc EXCEPT ![c] = CASE site[c] = "expect" -> "gate"
                               [] site[c] = "route"  -> "read"
                               [] OTHER              -> "validate"]
  /\ UNCHANGED <<reply, keep>>

(* preflight: the target, then the state under Impl::mutex.                *)
Gate(c) ==
  /\ pc[c] = "gate"
  /\ IF req[c].path = "noncanonical" THEN Reject(c, 400)
     ELSE IF ~open THEN Reject(c, 503) ELSE Goto(c, "check")
  /\ UNCHANGED <<open, published, req, unread, effect, served>>

CheckStatusNoMedia(r) ==
  IF ~Resolves(r) THEN 404
  ELSE IF ~MethodAllowed(Resource(r), r.method) THEN 405
  ELSE IF r.method = "OPTIONS" THEN 204
  ELSE IF r.length = "unparsable" THEN 400
  ELSE IF r.length = "huge" THEN 413 ELSE 0

(* preflight after the state, its early returns in order: the status it    *)
(* sets, 0 when it returns true.                                           *)
CheckStatus(r) ==
  IF ~Resolves(r) THEN 404
  ELSE IF ~MethodAllowed(Resource(r), r.method) THEN 405
  ELSE IF r.method = "OPTIONS" THEN 204
  ELSE IF r.encoded \/ (Mutation(r) /\ ~JsonMediaType(r)) THEN 415
  ELSE IF r.length = "unparsable" THEN 400
  ELSE IF r.length = "huge" THEN 413 ELSE 0

Check(c) ==
  /\ pc[c] = "check"
  /\ IF CheckStatus(req[c]) = 0 THEN Pass(c) ELSE Reject(c, CheckStatus(req[c]))
  /\ UNCHANGED <<open, published, req, unread, effect, served>>

(* The library reads the body of a request that pre-routing let through: a *)
(* chunked one may turn out too long, the client may be too slow.          *)
ReadBody(c) ==
  /\ pc[c] = "read"
  /\ IF req[c].body = "huge"
     THEN /\ keep' = [keep EXCEPT ![c] = FALSE] /\ reply' = [reply EXCEPT ![c] = 413]
          /\ pc' = [pc EXCEPT ![c] = "reply"] /\ UNCHANGED <<site, unread>>
     ELSE /\ site' = [site EXCEPT ![c] = "handle"]
          /\ unread' = [unread EXCEPT ![c] = FALSE]
          /\ pc' = [pc EXCEPT ![c] = "gate"] /\ UNCHANGED <<keep, reply>>
  /\ UNCHANGED <<open, published, req, effect, served>>

(* A timeout or a client that goes away before or while it is read.        *)
Lost(c) ==
  /\ pc[c] = "read" /\ HasBody(req[c])
  /\ pc' = [pc EXCEPT ![c] = "ended"]
  /\ UNCHANGED <<open, published, site, req, unread, reply, keep, effect, served>>

(* handle before the admission: the route again, the document, the support *)
(* of the resource, the conversion of the value or of the arguments, for   *)
(* an operation also whether RTT can make the call.                        *)
Validate(c) ==
  /\ pc[c] = "validate"
  /\ LET r == req[c]
     IN  IF ~Resolves(r) THEN Answer(c, 404)
         ELSE IF Mutation(r) /\ BodyStatus(r) # 0 THEN Answer(c, BodyStatus(r))
         ELSE IF ~Resource(r).supported THEN Answer(c, 501)
         ELSE IF Mutation(r) /\ r.body = "mistyped" THEN Answer(c, 422)
         ELSE \/ Goto(c, "admit")
              \/ Resource(r).kind = "operation" /\ Answer(c, 503)
  /\ UNCHANGED <<open, published, req, unread, effect, served>>

(* Where handle goes from the admission: samples are written under the     *)
(* bridge's lock, an operation waits for its call.                         *)
Access(r) == CASE Resource(r).kind = "samples"   -> "lock"
               [] Resource(r).kind = "operation" -> "wait"
               [] OTHER                          -> "live"

(* The admission under Impl::mutex; the executor may be full, or throw.    *)
Admit(c) ==
  /\ pc[c] = "admit"
  /\ IF ~open THEN Answer(c, 503) /\ UNCHANGED effect
     ELSE \/ /\ Goto(c, Access(req[c]))
             /\ effect' = [effect EXCEPT ![c] =
                  IF Resource(req[c]).kind = "operation" THEN "called" ELSE "none"]
          \/ Resource(req[c]).kind = "operation" /\ Answer(c, 503) /\ UNCHANGED effect
  /\ UNCHANGED <<open, published, req, unread, served>>

(* A value is assigned or read, a description or a sample is read.         *)
Live(c) ==
  /\ pc[c] = "live"
  /\ \/ Mutation(req[c]) /\ Answer(c, 204) /\ effect' = [effect EXCEPT ![c] = "done"]
     \/ ~Mutation(req[c]) /\ Answer(c, 200) /\ UNCHANGED effect
     \/ Answer(c, 500) /\ UNCHANGED effect
  /\ UNCHANGED <<open, published, req, unread, served>>

(* The bridge's writer mutex is free while nobody writes to its port.      *)
Free(path) == \A d \in Conns : pc[d] = "write" => req[d].path # path

Lock(c) ==
  /\ pc[c] = "lock" /\ Free(req[c].path) /\ Goto(c, "write")
  /\ UNCHANGED <<open, published, req, unread, effect, served>>

(* port->write(staged) and the end of the lock.                            *)
Write(c) ==
  /\ pc[c] = "write"
  /\ \/ Answer(c, 204) /\ effect' = [effect EXCEPT ![c] = "done"]
     \/ \E status \in {500, 503} : Answer(c, status) /\ UNCHANGED effect
  /\ UNCHANGED <<open, published, req, unread, served>>

WaitWhileOpen(c) ==
  /\ pc[c] = "wait" /\ open
  /\ \E status \in {200, 500, 503} : Answer(c, status)
  /\ UNCHANGED <<open, published, req, unread, effect, served>>

(* The wait for a call and the encoding of its result: completed, refused  *)
(* by RTT, past its deadline, or not representable.                        *)
Wait(c) ==
  /\ pc[c] = "wait"
  /\ \E status \in {200, 500, 503, 504} : Answer(c, status)
  /\ UNCHANGED <<open, published, req, unread, effect, served>>

(* An exception: handle and the pre-routing handler turn it into a 500, in *)
(* the expect handler it ends the task and with it the connection.  A live *)
(* write may have happened before it.                                      *)
Throw(c) ==
  /\ pc[c] \in {"gate", "check", "validate", "admit", "live", "write", "wait"}
  /\ IF site[c] = "expect"
     THEN Goto(c, "ended") /\ UNCHANGED effect
     ELSE /\ Reject(c, 500)
          /\ \/ UNCHANGED effect
             \/ /\ Mutation(req[c]) /\ pc[c] \in {"live", "write"}
                /\ effect' = [effect EXCEPT ![c] = "done"]
  /\ UNCHANGED <<open, published, req, unread, served>>

(* The library writes the response and reads on, or ends the connection.   *)
Deliver(c) ==
  /\ pc[c] = "reply"
  /\ LET more == keep[c] /\ served[c] + 1 < MaxRequests
     IN  pc' = [pc EXCEPT ![c] = IF more THEN "idle" ELSE "ended"]
  /\ served' = [served EXCEPT ![c] = @ + 1]
  /\ req' = [req EXCEPT ![c] = None] /\ reply' = [reply EXCEPT ![c] = 0]
  /\ site' = [site EXCEPT ![c] = "route"] /\ effect' = [effect EXCEPT ![c] = "none"]
  /\ UNCHANGED <<open, published, unread, keep>>

----------------------------------------------------------------------------
(* Server::publishComponent, as far as resolve sees it.                    *)
Publish(component) ==
  /\ open /\ component \notin published
  /\ published' = published \cup {component}
  /\ UNCHANGED <<open, connVars>>

(* requestStop, stop or beginShutdown.                                     *)
Close ==
  /\ open /\ open' = FALSE
  /\ UNCHANGED <<published, connVars>>

Serve(c) ==
  \/ Gate(c) \/ Check(c) \/ ReadBody(c) \/ Lost(c) \/ Validate(c) \/ Admit(c)
  \/ Live(c) \/ Lock(c) \/ Write(c) \/ Wait(c) \/ Deliver(c)

Next ==
  \/ Close \/ \E component \in Components : Publish(component)
  \/ \E c \in Conns : Receive(c) \/ Serve(c) \/ Throw(c)

Spec == Init /\ [][Next]_vars

(* Workers run, reads and waits end by a timeout; clients owe nothing, and *)
(* no answer relies on an exception.                                       *)
FairSpec == Spec /\ \A c \in Conns : WF_vars(Serve(c))

----------------------------------------------------------------------------
(* Properties.                                                             *)

(* Every variable has its type; a connection has a request unless it is    *)
(* fresh, and a status exactly from problem() or the end of handle on.     *)
TypeOK ==
  /\ open \in BOOLEAN /\ published \subseteq Components
  /\ pc \in [Conns -> {"idle", "gate", "check", "read", "validate", "admit",
                       "live", "lock", "write", "wait", "reply", "ended"}]
  /\ site \in [Conns -> {"expect", "route", "handle"}]
  /\ unread \in [Conns -> BOOLEAN] /\ keep \in [Conns -> BOOLEAN]
  /\ reply \in [Conns -> {0, 200, 204, 400, 404, 405, 413, 415, 422, 500, 501, 503, 504}]
  /\ effect \in [Conns -> {"none", "called", "done"}]
  /\ served \in [Conns -> 0..MaxRequests]
  /\ \A c \in Conns :
       /\ pc[c] \notin {"idle", "ended"} => req[c] # None
       /\ pc[c] = "reply" <=> reply[c] # 0

(* A request that may change something, said without the order of checks.  *)
Legitimate(r) ==
  /\ Resolves(r) /\ Resource(r).supported
  /\ r.method = (IF Resource(r).kind = "value" THEN "PUT" ELSE "POST")
  /\ Resource(r).kind \in {"value", "samples", "operation"} /\ Resource(r).writable
  /\ ~r.encoded /\ r.types = 1 /\ r.media \in {"json", "json utf-8"}
  /\ r.body = "good" /\ r.length \in {"absent", "fits"}

(* Only a request that passes every check reaches RTT with an effect, one  *)
(* that is answered as the client's fault, as unsupported or with the      *)
(* answer to a query has had none, and 204 to a write is never given for   *)
(* a write that did not happen.                                            *)
EffectsJustified ==
  \A c \in Conns :
    /\ effect[c] # "none" => Legitimate(req[c])
    /\ reply[c] \in {400, 404, 405, 413, 415, 422, 501} => effect[c] = "none"
    /\ reply[c] = 204 /\ req[c].method # "OPTIONS" => effect[c] = "done"

(* What was accepted before its body was read is not rejected afterwards   *)
(* for its target, its method, its headers: the second preflight finds at  *)
(* most that the server stops, although components are published meanwhile.*)
AcceptedStays ==
  \A c \in Conns : site[c] = "handle" => reply[c] \notin {404, 405, 415}

(* No bytes of an unread body are ever taken for the next request.         *)
NoSmuggling == \A c \in Conns : pc[c] = "idle" => ~unread[c]

(* One sample at a time is written to a port, whatever connections do.     *)
OneWriter ==
  \A c, d \in Conns : pc[c] = "write" /\ pc[d] = "write" /\ c # d => req[c].path # req[d].path

(* What requests do to RTT is justified, not revoked half way and done by  *)
(* one writer of a port at a time.                                         *)
AccessJustified == TypeOK /\ EffectsJustified /\ AcceptedStays /\ OneWriter

(* Every request that was received is answered or loses its connection.    *)
EveryRequestAnswered ==
  \A c \in Conns : pc[c] \notin {"idle", "ended"} ~> pc[c] \in {"idle", "ended"}
=============================================================================
