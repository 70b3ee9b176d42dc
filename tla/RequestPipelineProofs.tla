------------------------ MODULE RequestPipelineProofs ------------------------
(***************************************************************************)
(* Proofs about RequestPipeline, for any connections, requests, routes and *)
(* components.                                                             *)
(***************************************************************************)
EXTENDS RequestPipeline, TLAPS

----------------------------------------------------------------------------
(* What the checks establish of a request r while the components pub are   *)
(* published.                                                              *)

Known(pub, r) == r.path \in DOMAIN Resources /\ Resource(r).component \in pub \cup {None}

(* preflight accepts it.                                                   *)
Accepted(pub, r) ==
  /\ Known(pub, r) /\ MethodAllowed(Resource(r), r.method) /\ r.method # "OPTIONS"
  /\ ~(r.encoded \/ (Mutation(r) /\ ~JsonMediaType(r)))
  /\ r.length \notin {"unparsable", "huge"}

(* handle admits it.                                                       *)
Vetted(pub, r) ==
  /\ Accepted(pub, r) /\ Resource(r).supported
  /\ Mutation(r) => r.body = "good"

(* It may change what it names.                                            *)
Lawful(pub, r) ==
  /\ Known(pub, r) /\ Resource(r).supported
  /\ r.method = (IF Resource(r).kind = "value" THEN "PUT" ELSE "POST")
  /\ Resource(r).kind \in {"value", "samples", "operation"} /\ Resource(r).writable
  /\ ~r.encoded /\ r.types = 1 /\ r.media \in {"json", "json utf-8"}
  /\ r.body = "good" /\ r.length \in {"absent", "fits"}

(* The early returns of preflight are these conditions.                    *)
LEMMA CheckStatusMeaning ==
  ASSUME NEW r
  PROVE  /\ CheckStatus(r) = 0 <=> Accepted(published, r)
         /\ CheckStatus(r) \in {0, 204, 400, 404, 405, 413, 415}
         /\ CheckStatus(r) = 204 => r.method = "OPTIONS"
BY DEF CheckStatus, Accepted, Known, Resolves, Resource

(* Resolves, as a function of what is published,                           *)
LEMMA ResolvesMeaning ==
  ASSUME NEW r
  PROVE  Resolves(r) <=> Known(published, r)
BY DEF Resolves, Known, Resource

(* and Legitimate.                                                         *)
LEMMA LegitimateMeaning ==
  ASSUME NEW r
  PROVE  Legitimate(r) <=> Lawful(published, r)
BY DEF Legitimate, Lawful, Resolves, Known, Resource

(* Components that are published meanwhile take nothing away.              *)
LEMMA PublishingKeeps ==
  ASSUME NEW pub, NEW more, pub \subseteq more, NEW r
  PROVE  /\ Accepted(pub, r) => Accepted(more, r)
         /\ Vetted(pub, r) => Vetted(more, r)
         /\ Lawful(pub, r) => Lawful(more, r)
<1>1. Known(pub, r) => Known(more, r)
  BY DEF Known
<1> QED
  BY <1>1 DEF Accepted, Vetted, Lawful

(* A request that handle admits changes only what it may: a value by PUT,  *)
(* samples and operations by POST.                                         *)
LEMMA VettedIsLawful ==
  ASSUME NEW c \in Conns, NEW r \in Requests[c], NEW pub, Vetted(pub, r)
  PROVE  /\ Resource(r).kind \in {"samples", "operation"} => Mutation(r)
         /\ Mutation(r) => Lawful(pub, r)
<1> DEFINE route == Resource(r)
<1>1. /\ route.allow \in {{"GET"}, {"GET", "PUT"}, {"POST"}}
      /\ route.allow = {"GET", "PUT"} => route.kind = "value"
      /\ route.allow = {"POST"} <=> route.kind \in {"samples", "operation"}
      /\ route.writable <=> route.allow # {"GET"}
  BY RouteAssumption DEF Vetted, Accepted, Known, Resource
<1>2. MethodAllowed(route, r.method) /\ r.method # "OPTIONS"
  BY DEF Vetted, Accepted
<1>3. r.length \in {"absent", "fits"}
  BY RequestAssumption DEF Vetted, Accepted
<1> HIDE DEF route
<1>4. /\ r.method = "PUT" => route.kind = "value" /\ route.writable
      /\ r.method = "POST" => route.kind \in {"samples", "operation"} /\ route.writable
      /\ route.kind \in {"samples", "operation"} => r.method = "POST"
  BY <1>1, <1>2 DEF MethodAllowed
<1> QED
  BY <1>3, <1>4 DEF Vetted, Accepted, Lawful, Mutation, JsonMediaType, route

(* What parseJson and the shape of the document leave.                     *)
LEMMA BodyStatusMeaning ==
  ASSUME NEW c \in Conns, NEW r \in Requests[c]
  PROVE  /\ BodyStatus(r) \in {0, 400, 413, 422}
         /\ BodyStatus(r) = 0 => r.body \in {"good", "mistyped", "huge"}
BY RequestAssumption DEF BodyStatus

----------------------------------------------------------------------------
(* The inductive invariant.                                                *)

(* Where a request may be for each caller of preflight; once its body has  *)
(* been read it is accepted, and nothing of it is left in the stream.      *)
SiteInv ==
  \A c \in Conns :
    /\ site[c] = "expect" => pc[c] \in {"gate", "check", "reply", "ended"}
    /\ site[c] = "route" => pc[c] \in {"idle", "gate", "check", "read", "reply", "ended"}
    /\ site[c] = "handle" =>
         /\ pc[c] \in {"gate", "check", "validate", "admit", "live", "lock", "write", "wait", "reply"}
         /\ Accepted(published, req[c]) /\ req[c].body # "huge" /\ ~unread[c]
    /\ pc[c] = "read" => Accepted(published, req[c])

(* A connection survives a response only when the body was read.           *)
BodyInv == \A c \in Conns : pc[c] = "idle" \/ (pc[c] = "reply" /\ keep[c]) => ~unread[c]

(* What has been checked where the request is; requests are counted.       *)
StageInv ==
  /\ DOMAIN req = Conns
  /\ \A c \in Conns :
       /\ pc[c] \notin {"idle", "ended"} => req[c] \in Requests[c]
       /\ pc[c] # "ended" => served[c] < MaxRequests
       /\ pc[c] \in {"admit", "live", "lock", "write", "wait"} => Vetted(published, req[c])
       /\ pc[c] = "live" => Resource(req[c]).kind \notin {"samples", "operation"}
       /\ pc[c] \in {"lock", "write"} => Resource(req[c]).kind = "samples"
       /\ pc[c] = "wait" => Resource(req[c]).kind = "operation"

(* Effects are lawful, belong to calls and answers, and the answers fit.   *)
EffectInv ==
  \A c \in Conns :
    /\ effect[c] # "none" => pc[c] \in {"wait", "reply"} /\ Lawful(published, req[c])
    /\ reply[c] \in {400, 404, 405, 413, 415, 422, 501} => effect[c] = "none"
    /\ reply[c] = 204 /\ req[c].method # "OPTIONS" => effect[c] = "done"

IInv == TypeOK /\ SiteInv /\ BodyInv /\ StageInv /\ EffectInv /\ AcceptedStays /\ OneWriter

(* Every connection is fresh.                                              *)
LEMMA InitInv == Init => IInv
<1> SUFFICES ASSUME Init PROVE IInv
  OBVIOUS
<1>1. TypeOK
  BY PipelineAssumption DEF Init, TypeOK
<1>2. SiteInv /\ BodyInv /\ StageInv /\ EffectInv /\ AcceptedStays /\ OneWriter
  BY PipelineAssumption DEF Init, SiteInv, BodyInv, StageInv, EffectInv, AcceptedStays, OneWriter
<1> QED
  BY <1>1, <1>2 DEF IInv

(* A rejected request ends its connection unless handle rejected it, which *)
(* has read the body.                                                      *)
LEMMA RejectCloses ==
  ASSUME TypeOK, NEW c \in Conns, NEW status, Reject(c, status)
  PROVE  /\ keep' \in [Conns -> BOOLEAN]
         /\ keep'[c] => site[c] = "handle"
         /\ \A d \in Conns \ {c} : keep'[d] = keep[d]
<1>1. keep \in [Conns -> BOOLEAN] /\ keep' = [keep EXCEPT ![c] = (site[c] = "handle")]
  BY ZenonT(40) DEF TypeOK, Reject
<1>2. (site[c] = "handle") \in BOOLEAN
  OBVIOUS
<1>3. keep'[c] = (site[c] = "handle")
  BY <1>1, Zenon
<1> QED
  BY <1>1, <1>2, <1>3, Zenon

(* A rejection that leaves the body unread ends the connection.            *)
LEMMA RejectClean ==
  ASSUME IInv, NEW c \in Conns, NEW status, Reject(c, status), UNCHANGED unread
  PROVE  BodyInv'
<1>1. /\ keep'[c] => site[c] = "handle"
      /\ \A d \in Conns \ {c} : keep'[d] = keep[d]
  BY RejectCloses DEF IInv
<1>2. pc'[c] = "reply" /\ \A d \in Conns \ {c} : pc'[d] = pc[d]
  BY DEF Reject, IInv, TypeOK
<1>3. site[c] = "handle" => ~unread[c]
  BY DEF IInv, SiteInv
<1> QED
  BY <1>1, <1>2, <1>3 DEF IInv, BodyInv

(* Every step of a connection keeps it, also while others are served.      *)
LEMMA StepInv == IInv /\ [Next]_vars => IInv'
<1> SUFFICES ASSUME IInv, [Next]_vars PROVE IInv'
  OBVIOUS
<1> USE DEF IInv, Goto, Answer, Reject
<1>1. ASSUME NEW c \in Conns, Receive(c) PROVE IInv'
  <2>1. TypeOK'
    <3>1. PICK r \in Requests[c] :
            /\ req' = [req EXCEPT ![c] = r] /\ unread' = [unread EXCEPT ![c] = HasBody(r)]
            /\ site' = [site EXCEPT ![c] = IF r.expect THEN "expect" ELSE "route"]
      BY <1>1, Zenon DEF Receive
    <3>2. unread' \in [Conns -> BOOLEAN]
      BY <3>1, ZenonT(40) DEF TypeOK, HasBody
    <3>3. /\ site' \in [Conns -> {"expect", "route", "handle"}]
          /\ req'[c] = r /\ r # None /\ \A d \in Conns \ {c} : req'[d] = req[d]
      BY <3>1, RequestAssumption DEF TypeOK, StageInv
    <3> QED
      BY <1>1, <3>2, <3>3 DEF TypeOK, Receive
  <2>2. SiteInv'
    BY <1>1, RequestAssumption, PipelineAssumption DEF SiteInv, TypeOK, StageInv, Receive, HasBody
  <2>3. BodyInv'
    BY <1>1, RequestAssumption, PipelineAssumption DEF BodyInv, TypeOK, SiteInv, Receive, HasBody
  <2>4. StageInv'
    <3>1. /\ DOMAIN req' = Conns /\ req'[c] \in Requests[c]
          /\ \A d \in Conns \ {c} : req'[d] = req[d]
      BY <1>1 DEF Receive, StageInv
    <3> QED
      BY <1>1, <3>1 DEF StageInv, TypeOK, Receive
  <2>5. EffectInv'
    BY <1>1, RequestAssumption, PipelineAssumption DEF EffectInv, TypeOK, SiteInv, StageInv, Receive, HasBody
  <2>6. AcceptedStays'
    BY <1>1, RequestAssumption, PipelineAssumption DEF AcceptedStays, TypeOK, SiteInv, Receive, HasBody
  <2>7. OneWriter'
    BY <1>1, RequestAssumption, PipelineAssumption DEF OneWriter, TypeOK, Receive, HasBody
  <2> QED
    BY <2>1, <2>2, <2>3, <2>4, <2>5, <2>6, <2>7
<1>2. ASSUME NEW c \in Conns, Gate(c) PROVE IInv'
  <2>1. TypeOK'
    <3>1. CASE req[c].path = "noncanonical" \/ ~open
      <4>1. PICK status \in {400, 503} : Reject(c, status)
        BY <1>2, <3>1 DEF Gate
      <4>2. keep' \in [Conns -> BOOLEAN]
        BY <4>1, RejectCloses, ZenonT(40)
      <4> QED
        BY <1>2, <4>1, <4>2 DEF TypeOK, Gate, Reject
    <3>2. CASE ~(req[c].path = "noncanonical" \/ ~open)
      BY <1>2, <3>2 DEF TypeOK, Gate
    <3> QED
      BY <3>1, <3>2
  <2>2. SiteInv'
    BY <1>2, RequestAssumption DEF SiteInv, TypeOK, StageInv, Gate
  <2>3. BodyInv'
    <3>1. CASE req[c].path = "noncanonical" \/ ~open
      <4>1. PICK status \in {400, 503} : Reject(c, status)
        BY <1>2, <3>1 DEF Gate
      <4> QED
        BY <1>2, <4>1, RejectClean, ZenonT(40) DEF Gate
    <3>2. CASE ~(req[c].path = "noncanonical" \/ ~open)
      BY <1>2, <3>2 DEF BodyInv, TypeOK, Gate
    <3> QED
      BY <3>1, <3>2
  <2>4. StageInv'
    BY <1>2, RequestAssumption DEF StageInv, TypeOK, SiteInv, Gate
  <2>5. EffectInv'
    BY <1>2, RequestAssumption DEF EffectInv, TypeOK, SiteInv, StageInv, Gate
  <2>6. AcceptedStays'
    BY <1>2, RequestAssumption DEF AcceptedStays, TypeOK, SiteInv, Gate
  <2>7. OneWriter'
    BY <1>2, RequestAssumption DEF OneWriter, TypeOK, Gate
  <2> QED
    BY <2>1, <2>2, <2>3, <2>4, <2>5, <2>6, <2>7
<1>3. ASSUME NEW c \in Conns, Check(c) PROVE IInv'
  <2>1. TypeOK'
    <3>1. CASE CheckStatus(req[c]) = 0
      BY <1>3, <3>1 DEF TypeOK, Check, Pass
    <3>2. CASE CheckStatus(req[c]) # 0
      <4>1. Reject(c, CheckStatus(req[c]))
        BY <1>3, <3>2 DEF Check
      <4>2. keep' \in [Conns -> BOOLEAN]
        BY <4>1, RejectCloses
      <4> QED
        BY <1>3, <3>2, <4>1, <4>2, CheckStatusMeaning DEF TypeOK, Check, Reject
    <3> QED
      BY <3>1, <3>2
  <2>2. SiteInv'
    BY <1>3, CheckStatusMeaning DEF SiteInv, TypeOK, StageInv, Check, Pass
  <2>3. BodyInv'
    <3>1. CASE CheckStatus(req[c]) = 0
      BY <1>3, <3>1 DEF BodyInv, TypeOK, SiteInv, Check, Pass
    <3>2. CASE CheckStatus(req[c]) # 0
      <4>1. Reject(c, CheckStatus(req[c]))
        BY <1>3, <3>2 DEF Check
      <4> QED
        BY <1>3, <4>1, RejectClean DEF Check
    <3> QED
      BY <3>1, <3>2
  <2>4. StageInv'
    BY <1>3, CheckStatusMeaning DEF StageInv, TypeOK, SiteInv, Check, Pass
  <2>5. EffectInv'
    BY <1>3, CheckStatusMeaning DEF EffectInv, TypeOK, SiteInv, StageInv, Check, Pass
  <2>6. AcceptedStays'
    BY <1>3, CheckStatusMeaning DEF AcceptedStays, TypeOK, SiteInv, Check, Pass
  <2>7. OneWriter'
    BY <1>3, CheckStatusMeaning DEF OneWriter, TypeOK, Check, Pass
  <2> QED
    BY <2>1, <2>2, <2>3, <2>4, <2>5, <2>6, <2>7
<1>4. ASSUME NEW c \in Conns, ReadBody(c) PROVE IInv'
  <2>1. TypeOK'
    <3>1. CASE req[c].body = "huge"
      <4>1. keep \in [Conns -> BOOLEAN] /\ keep' = [keep EXCEPT ![c] = FALSE]
        BY <1>4, <3>1 DEF TypeOK, ReadBody
      <4>2. keep' \in [Conns -> BOOLEAN]
        BY <4>1, Zenon
      <4> QED
        BY <1>4, <3>1, <4>2 DEF TypeOK, ReadBody
    <3>2. CASE req[c].body # "huge"
      <4>1. unread \in [Conns -> BOOLEAN] /\ unread' = [unread EXCEPT ![c] = FALSE]
        BY <1>4, <3>2 DEF TypeOK, ReadBody
      <4>2. unread' \in [Conns -> BOOLEAN]
        BY <4>1, Zenon
      <4> QED
        BY <1>4, <3>2, <4>2 DEF TypeOK, ReadBody
    <3> QED
      BY <3>1, <3>2
  <2>2. SiteInv'
    BY <1>4 DEF SiteInv, TypeOK, StageInv, ReadBody
  <2>3. BodyInv'
    BY <1>4 DEF BodyInv, TypeOK, SiteInv, ReadBody
  <2>4. StageInv'
    BY <1>4 DEF StageInv, TypeOK, SiteInv, ReadBody
  <2>5. EffectInv'
    BY <1>4 DEF EffectInv, TypeOK, SiteInv, StageInv, ReadBody
  <2>6. AcceptedStays'
    BY <1>4 DEF AcceptedStays, TypeOK, SiteInv, ReadBody
  <2>7. OneWriter'
    BY <1>4 DEF OneWriter, TypeOK, ReadBody
  <2> QED
    BY <2>1, <2>2, <2>3, <2>4, <2>5, <2>6, <2>7
<1>5. ASSUME NEW c \in Conns, Lost(c) PROVE IInv'
  <2>1. TypeOK'
    BY <1>5 DEF TypeOK, SiteInv, StageInv, Lost, HasBody
  <2>2. SiteInv'
    BY <1>5 DEF SiteInv, TypeOK, StageInv, Lost, HasBody
  <2>3. BodyInv'
    BY <1>5 DEF BodyInv, TypeOK, SiteInv, Lost, HasBody
  <2>4. StageInv'
    BY <1>5 DEF StageInv, TypeOK, SiteInv, Lost, HasBody
  <2>5. EffectInv'
    BY <1>5 DEF EffectInv, TypeOK, SiteInv, StageInv, Lost, HasBody
  <2>6. AcceptedStays'
    BY <1>5 DEF AcceptedStays, TypeOK, SiteInv, Lost, HasBody
  <2>7. OneWriter'
    BY <1>5 DEF OneWriter, TypeOK, Lost, HasBody
  <2> QED
    BY <2>1, <2>2, <2>3, <2>4, <2>5, <2>6, <2>7
<1>6. ASSUME NEW c \in Conns, Validate(c) PROVE IInv'
  <2>1. TypeOK'
    BY <1>6, BodyStatusMeaning, ResolvesMeaning DEF TypeOK, SiteInv, StageInv, Validate, Vetted
  <2>2. SiteInv'
    BY <1>6, BodyStatusMeaning, ResolvesMeaning DEF SiteInv, TypeOK, StageInv, Validate, Vetted
  <2>3. BodyInv'
    BY <1>6, BodyStatusMeaning, ResolvesMeaning DEF BodyInv, TypeOK, SiteInv, Validate, Vetted
  <2>4. StageInv'
    BY <1>6, BodyStatusMeaning, ResolvesMeaning DEF StageInv, TypeOK, SiteInv, Validate, Vetted
  <2>5. EffectInv'
    BY <1>6, BodyStatusMeaning, ResolvesMeaning DEF EffectInv, TypeOK, SiteInv, StageInv, Validate, Vetted
  <2>6. AcceptedStays'
    BY <1>6, BodyStatusMeaning, ResolvesMeaning DEF AcceptedStays, TypeOK, SiteInv, StageInv, Accepted, Validate
  <2>7. OneWriter'
    BY <1>6, BodyStatusMeaning, ResolvesMeaning DEF OneWriter, TypeOK, Validate, Vetted
  <2> QED
    BY <2>1, <2>2, <2>3, <2>4, <2>5, <2>6, <2>7
<1>7. ASSUME NEW c \in Conns, Admit(c) PROVE IInv'
  <2>1. TypeOK'
    BY <1>7, VettedIsLawful DEF TypeOK, SiteInv, StageInv, Admit, Access
  <2>2. SiteInv'
    BY <1>7, VettedIsLawful DEF SiteInv, TypeOK, StageInv, Admit, Access
  <2>3. BodyInv'
    BY <1>7, VettedIsLawful DEF BodyInv, TypeOK, SiteInv, Admit, Access
  <2>4. StageInv'
    BY <1>7, VettedIsLawful DEF StageInv, TypeOK, SiteInv, Admit, Access
  <2>5. EffectInv'
    BY <1>7, VettedIsLawful DEF EffectInv, TypeOK, SiteInv, StageInv, Admit, Access
  <2>6. AcceptedStays'
    BY <1>7, VettedIsLawful DEF AcceptedStays, TypeOK, SiteInv, Admit, Access
  <2>7. OneWriter'
    BY <1>7, VettedIsLawful DEF OneWriter, TypeOK, Admit, Access
  <2> QED
    BY <2>1, <2>2, <2>3, <2>4, <2>5, <2>6, <2>7
<1>8. ASSUME NEW c \in Conns, Live(c) PROVE IInv'
  <2>1. TypeOK'
    BY <1>8, VettedIsLawful DEF TypeOK, SiteInv, StageInv, Live
  <2>2. SiteInv'
    BY <1>8, VettedIsLawful DEF SiteInv, TypeOK, StageInv, Live
  <2>3. BodyInv'
    BY <1>8, VettedIsLawful DEF BodyInv, TypeOK, SiteInv, Live
  <2>4. StageInv'
    BY <1>8, VettedIsLawful DEF StageInv, TypeOK, SiteInv, Live
  <2>5. EffectInv'
    BY <1>8, VettedIsLawful DEF EffectInv, TypeOK, SiteInv, StageInv, Live
  <2>6. AcceptedStays'
    BY <1>8, VettedIsLawful DEF AcceptedStays, TypeOK, SiteInv, Live
  <2>7. OneWriter'
    BY <1>8, VettedIsLawful DEF OneWriter, TypeOK, Live
  <2> QED
    BY <2>1, <2>2, <2>3, <2>4, <2>5, <2>6, <2>7
<1>9. ASSUME NEW c \in Conns, Lock(c) PROVE IInv'
  <2>1. TypeOK'
    BY <1>9 DEF TypeOK, SiteInv, StageInv, Lock, Free
  <2>2. SiteInv'
    BY <1>9 DEF SiteInv, TypeOK, StageInv, Lock, Free
  <2>3. BodyInv'
    BY <1>9 DEF BodyInv, TypeOK, SiteInv, Lock, Free
  <2>4. StageInv'
    BY <1>9 DEF StageInv, TypeOK, SiteInv, Lock, Free
  <2>5. EffectInv'
    BY <1>9 DEF EffectInv, TypeOK, SiteInv, StageInv, Lock, Free
  <2>6. AcceptedStays'
    BY <1>9 DEF AcceptedStays, TypeOK, SiteInv, Lock, Free
  <2>7. OneWriter'
    BY <1>9 DEF OneWriter, TypeOK, Lock, Free
  <2> QED
    BY <2>1, <2>2, <2>3, <2>4, <2>5, <2>6, <2>7
<1>10. ASSUME NEW c \in Conns, Write(c) PROVE IInv'
  <2>1. TypeOK'
    BY <1>10, VettedIsLawful DEF TypeOK, SiteInv, StageInv, Write
  <2>2. SiteInv'
    BY <1>10, VettedIsLawful DEF SiteInv, TypeOK, StageInv, Write
  <2>3. BodyInv'
    BY <1>10, VettedIsLawful DEF BodyInv, TypeOK, SiteInv, Write
  <2>4. StageInv'
    BY <1>10, VettedIsLawful DEF StageInv, TypeOK, SiteInv, Write
  <2>5. EffectInv'
    BY <1>10, VettedIsLawful DEF EffectInv, TypeOK, SiteInv, StageInv, Write
  <2>6. AcceptedStays'
    BY <1>10, VettedIsLawful DEF AcceptedStays, TypeOK, SiteInv, Write
  <2>7. OneWriter'
    BY <1>10, VettedIsLawful DEF OneWriter, TypeOK, Write
  <2> QED
    BY <2>1, <2>2, <2>3, <2>4, <2>5, <2>6, <2>7
<1>11. ASSUME NEW c \in Conns, Wait(c) PROVE IInv'
  <2>1. TypeOK'
    BY <1>11 DEF TypeOK, SiteInv, StageInv, Wait
  <2>2. SiteInv'
    BY <1>11 DEF SiteInv, TypeOK, StageInv, Wait
  <2>3. BodyInv'
    BY <1>11 DEF BodyInv, TypeOK, SiteInv, Wait
  <2>4. StageInv'
    BY <1>11 DEF StageInv, TypeOK, SiteInv, Wait
  <2>5. EffectInv'
    BY <1>11 DEF EffectInv, TypeOK, SiteInv, StageInv, Wait
  <2>6. AcceptedStays'
    BY <1>11 DEF AcceptedStays, TypeOK, SiteInv, Wait
  <2>7. OneWriter'
    BY <1>11 DEF OneWriter, TypeOK, Wait
  <2> QED
    BY <2>1, <2>2, <2>3, <2>4, <2>5, <2>6, <2>7
<1>12. ASSUME NEW c \in Conns, Throw(c) PROVE IInv'
  <2>1. TypeOK'
    <3>1. CASE site[c] = "expect"
      BY <1>12, <3>1 DEF TypeOK, Throw
    <3>2. CASE site[c] # "expect"
      <4>1. Reject(c, 500)
        BY <1>12, <3>2 DEF Throw
      <4>2. keep' \in [Conns -> BOOLEAN]
        BY <4>1, RejectCloses, ZenonT(40)
      <4> QED
        BY <1>12, <3>2, <4>1, <4>2 DEF TypeOK, Throw, Reject
    <3> QED
      BY <3>1, <3>2
  <2>2. SiteInv'
    BY <1>12, VettedIsLawful DEF SiteInv, TypeOK, StageInv, Throw
  <2>3. BodyInv'
    <3>1. CASE site[c] = "expect"
      BY <1>12, <3>1 DEF BodyInv, TypeOK, Throw
    <3>2. CASE site[c] # "expect"
      <4>1. Reject(c, 500)
        BY <1>12, <3>2 DEF Throw
      <4> QED
        BY <1>12, <4>1, RejectClean, ZenonT(40) DEF Throw
    <3> QED
      BY <3>1, <3>2
  <2>4. StageInv'
    BY <1>12, VettedIsLawful DEF StageInv, TypeOK, SiteInv, Throw
  <2>5. EffectInv'
    BY <1>12, VettedIsLawful DEF EffectInv, TypeOK, SiteInv, StageInv, Throw
  <2>6. AcceptedStays'
    BY <1>12, VettedIsLawful DEF AcceptedStays, TypeOK, SiteInv, Throw
  <2>7. OneWriter'
    BY <1>12, VettedIsLawful DEF OneWriter, TypeOK, Throw
  <2> QED
    BY <2>1, <2>2, <2>3, <2>4, <2>5, <2>6, <2>7
<1>13. ASSUME NEW c \in Conns, Deliver(c) PROVE IInv'
  <2>1. TypeOK'
    <3>1. served[c] + 1 \in 0 .. MaxRequests
      BY <1>13, PipelineAssumption DEF TypeOK, StageInv, Deliver
    <3>2. served' \in [Conns -> 0 .. MaxRequests]
      BY <1>13, <3>1 DEF TypeOK, Deliver
    <3> QED
      BY <1>13, <3>2 DEF TypeOK, Deliver
  <2>2. SiteInv'
    BY <1>13 DEF SiteInv, TypeOK, StageInv, Deliver
  <2>3. BodyInv'
    BY <1>13 DEF BodyInv, TypeOK, SiteInv, Deliver
  <2>4. StageInv'
    BY <1>13 DEF StageInv, TypeOK, SiteInv, Deliver
  <2>5. EffectInv'
    BY <1>13 DEF EffectInv, TypeOK, SiteInv, StageInv, Deliver
  <2>6. AcceptedStays'
    BY <1>13 DEF AcceptedStays, TypeOK, SiteInv, Deliver
  <2>7. OneWriter'
    BY <1>13 DEF OneWriter, TypeOK, Deliver
  <2> QED
    BY <2>1, <2>2, <2>3, <2>4, <2>5, <2>6, <2>7
<1>14. ASSUME NEW component \in Components, Publish(component) PROVE IInv'
  <2>1. published \subseteq published' /\ UNCHANGED connVars
    BY <1>14 DEF Publish
  <2>2. /\ \A r : Accepted(published, r) => Accepted(published', r)
        /\ \A r : Vetted(published, r) => Vetted(published', r)
        /\ \A r : Lawful(published, r) => Lawful(published', r)
    BY <2>1, PublishingKeeps
  <2>3. TypeOK'
    BY <1>14 DEF Publish, connVars, TypeOK
  <2>4. SiteInv'
    BY <2>1, <2>2 DEF connVars, SiteInv
  <2>5. StageInv'
    BY <2>1, <2>2 DEF connVars, StageInv
  <2>6. EffectInv'
    BY <2>1, <2>2 DEF connVars, EffectInv
  <2>7. BodyInv' /\ AcceptedStays' /\ OneWriter'
    BY <2>1 DEF connVars, BodyInv, AcceptedStays, OneWriter
  <2> QED
    BY <2>3, <2>4, <2>5, <2>6, <2>7
<1>15. CASE Close \/ UNCHANGED vars
  <2>1. UNCHANGED <<published, connVars>>
    BY <1>15 DEF Close, vars
  <2>2. open' \in BOOLEAN
    BY <1>15, ZenonT(40) DEF Close, vars, TypeOK
  <2>3. TypeOK'
    BY <2>1, <2>2 DEF connVars, TypeOK
  <2>4. SiteInv' /\ BodyInv' /\ StageInv' /\ EffectInv' /\ AcceptedStays' /\ OneWriter'
    BY <2>1 DEF connVars, SiteInv, BodyInv, StageInv, EffectInv, AcceptedStays, OneWriter
  <2> QED
    BY <2>3, <2>4
<1> QED
  BY <1>1, <1>2, <1>3, <1>4, <1>5, <1>6, <1>7, <1>8, <1>9, <1>10, <1>11, <1>12, <1>13, <1>14, <1>15 DEF Next, Serve

(* The invariant holds of every connection in every run of the server.     *)
THEOREM InvariantHolds == Spec => []IInv
BY InitInv, StepInv, PTL DEF Spec

(* What requests do to RTT is justified: only a request that passes every  *)
(* check has an effect, no answer contradicts its effect, what was         *)
(* accepted before its body was read stays accepted, and a port has one    *)
(* writer at a time.                                                       *)
THEOREM AccessIsJustified == Spec => []AccessJustified
<1>1. IInv => AccessJustified
  BY LegitimateMeaning DEF IInv, EffectInv, EffectsJustified, AccessJustified
<1> QED
  BY <1>1, InvariantHolds, PTL

(* A connection that reads its next request has nothing of the last body   *)
(* in its stream, whichever check rejected it.                             *)
THEOREM NothingSmuggled == Spec => []NoSmuggling
<1>1. IInv => NoSmuggling
  BY DEF IInv, BodyInv, NoSmuggling
<1> QED
  BY <1>1, InvariantHolds, PTL
=============================================================================
