----------------------------- MODULE ObjectModel -----------------------------
(***************************************************************************)
(* The publication of components (src/src/object_model.cpp): stage() walks *)
(* a component's service graph and connects a peer to each of its ports,   *)
(* commit() enters the finished publication, and whatever fails before     *)
(* leaves nothing behind; Server::publishComponent around it, and the end  *)
(* of the model in Server::finishShutdown.                                 *)
(*                                                                         *)
(* A step of the walk is a sub-service entered, a port connected or a      *)
(* service finished; a publication in the making is private to the call    *)
(* that stages it, its port connections are visible to RTT.  A service has *)
(* at most one port, a sub-service is named by itself, and the resources   *)
(* of a service are one route, the path to it from the component.          *)
(***************************************************************************)
EXTENDS Naturals, Sequences, SequencesExt

CONSTANTS Components, \* TaskContext objects
          Name,       \* the name of each
          Root,       \* the service each provides
          Services,   \* RTT services
          WithPort,   \* those with a port
          Graphs,     \* the service graphs: each service's sub-services
          MaxDepth,   \* the deepest nesting that is described; 64 in the code
          Calls,      \* calls of publishComponent
          None        \* no publication, no component

ASSUME ModelAssumption ==
  /\ Root \in [Components -> Services]
  /\ WithPort \subseteq Services
  /\ Graphs \subseteq [Services -> SUBSET Services]
  /\ MaxDepth \in Nat
  /\ None \notin Calls \cup Components

VARIABLES
  children,  \* each service's sub-services; never changes
  published, \* publications_: the call that published a name, or None
  pc,        \* each call of publishComponent
  comp,      \* its component
  routes,    \* Publication::routes of the publication it stages or staged
  links,     \* RTT's connections with a PortBridge: the call and the path
  stack,     \* the activations of describeService, outermost first
  closed     \* finishShutdown has released the model

vars == <<children, published, pc, comp, routes, links, stack, closed>>

Names == {Name[k] : k \in Components}

Init ==
  /\ children \in Graphs
  /\ published = [n \in Names |-> None]
  /\ pc = [c \in Calls |-> "new"]
  /\ comp = [c \in Calls |-> None]
  /\ routes = [c \in Calls |-> {}]
  /\ links = {} /\ stack = <<>> /\ closed = FALSE

(* Impl::control admits one call at a time.                                *)
Idle == \A c \in Calls : pc[c] \notin {"walk", "staged"}

(* contains: the component itself is published, under whatever name.        *)
IsPublished(k) ==
  \E n \in Names : published[n] # None /\ comp[published[n]] = k

Frame(s, path) == [service |-> s, path |-> path, todo |-> children[s]]

----------------------------------------------------------------------------
(* publishComponent begins: nothing to do for a published component.       *)
Begin(c) ==
  /\ pc[c] = "new" /\ Idle /\ ~closed
  /\ \E k \in Components :
       /\ comp' = [comp EXCEPT ![c] = k]
       /\ IF IsPublished(k)
          THEN pc' = [pc EXCEPT ![c] = "done"] /\ UNCHANGED stack
          ELSE /\ pc' = [pc EXCEPT ![c] = "walk"]
               /\ stack' = <<Frame(Root[k], <<>>)>>
  /\ UNCHANGED <<children, published, routes, links, closed>>

(* The service is not running when the call looks.                         *)
NotRunning(c) ==
  /\ pc[c] = "new" /\ Idle
  /\ pc' = [pc EXCEPT ![c] = "failed"]
  /\ UNCHANGED <<children, published, comp, routes, links, stack, closed>>

DropKeepsLinks(c, outcome) ==
  /\ pc' = [pc EXCEPT ![c] = outcome]
  /\ routes' = [routes EXCEPT ![c] = {}]
  /\ stack' = <<>>
  /\ UNCHANGED links

(* The staged publication is destroyed; PortBridge disconnects its peers.  *)
Drop(c, outcome) ==
  /\ pc' = [pc EXCEPT ![c] = outcome]
  /\ routes' = [routes EXCEPT ![c] = {}]
  /\ links' = {l \in links : l[1] # c}
  /\ stack' = <<>>

Top == Last(stack)

AncestryKept ==
  {f.service : f \in ToSet(stack)}
    \cup {Last(p) : p \in UNION {routes[c] : c \in {d \in Calls : pc[d] = "walk"}}}

(* describeService erases a service from ancestry when it is finished.     *)
Ancestry == {f.service : f \in ToSet(stack)}

(* The nesting of a sub-service is the number of services around it.       *)
TooDeep(t) == t \in Ancestry \/ Len(stack) > MaxDepth

(* describeService for the next sub-service, before the members.           *)
Enter(c) ==
  /\ pc[c] = "walk" /\ Top.todo # {}
  /\ \E t \in Top.todo :
       IF TooDeep(t)
       THEN Drop(c, "malformed")
       ELSE /\ stack' = Append([stack EXCEPT ![Len(stack)].todo = @ \ {t}],
                               Frame(t, Append(Top.path, t)))
            /\ UNCHANGED <<pc, routes, links>>
  /\ UNCHANGED <<children, published, comp, closed>>

Connected(c) == Top.service \in WithPort => <<c, Top.path>> \in links

(* A port: a peer is made and connected to it, ...                         *)
Connect(c) ==
  /\ pc[c] = "walk" /\ Top.todo = {} /\ ~Connected(c)
  /\ links' = links \cup {<<c, Top.path>>}
  /\ UNCHANGED <<children, published, pc, comp, routes, stack, closed>>

(* ... or that fails, as anything else may: a name no URL can hold, a      *)
(* member that disappeared, a text that is not UTF-8.                      *)
Throw(c) ==
  /\ pc[c] = "walk"
  /\ Drop(c, "failed")
  /\ UNCHANGED <<children, published, comp, closed>>

(* The service's routes; with the component's own service the walk ends.   *)
Finish(c) ==
  /\ pc[c] = "walk" /\ Top.todo = {} /\ Connected(c)
  /\ routes' = [routes EXCEPT ![c] = @ \cup {Top.path}]
  /\ stack' = Front(stack)
  /\ pc' = [pc EXCEPT ![c] = IF Len(stack) = 1 THEN "staged" ELSE "walk"]
  /\ UNCHANGED <<children, published, comp, links, closed>>

----------------------------------------------------------------------------
CommitReplaces(c) ==
  /\ pc[c] = "staged"
  /\ published' = [published EXCEPT ![Name[comp[c]]] = c]
  /\ pc' = [pc EXCEPT ![c] = "done"]
  /\ UNCHANGED <<children, comp, routes, links, stack, closed>>

(* commit: publications_.emplace under the name.                           *)
Commit(c) ==
  /\ pc[c] = "staged"
  /\ published[Name[comp[c]]] = None
  /\ published' = [published EXCEPT ![Name[comp[c]]] = c]
  /\ pc' = [pc EXCEPT ![c] = "done"]
  /\ UNCHANGED <<children, comp, routes, links, stack, closed>>

(* The name is taken: by the component itself, or by another one.          *)
CommitRefused(c) ==
  /\ pc[c] = "staged"
  /\ LET owner == published[Name[comp[c]]]
     IN  /\ owner # None
         /\ Drop(c, IF comp[owner] = comp[c] THEN "done" ELSE "conflict")
  /\ UNCHANGED <<children, published, comp, closed>>

(* publishComponent finds that HTTP was stopped during the staging.        *)
Stopped(c) ==
  /\ pc[c] = "staged"
  /\ Drop(c, "failed")
  /\ UNCHANGED <<children, published, comp, closed>>

(* finishShutdown: no call is inside; the model and its publications go.   *)
ReleaseModel ==
  /\ Idle /\ ~closed
  /\ closed' = TRUE
  /\ published' = [n \in Names |-> None]
  /\ links' = {}
  /\ UNCHANGED <<children, pc, comp, routes, stack>>

Publish(c) ==
  \/ Begin(c) \/ NotRunning(c) \/ Enter(c) \/ Connect(c) \/ Throw(c) \/ Finish(c)
  \/ Commit(c) \/ CommitRefused(c) \/ Stopped(c)

Next == ReleaseModel \/ \E c \in Calls : Publish(c)

Spec == Init /\ [][Next]_vars

----------------------------------------------------------------------------
(* Properties.                                                             *)

Paths == UNION {[1..n -> Services] : n \in 0..MaxDepth}

(* The state's types; no activation of describeService is deeper than the  *)
(* limit, and there is one only while a call walks.                        *)
TypeOK ==
  /\ published \in [Names -> Calls \cup {None}]
  /\ pc \in [Calls -> {"new", "walk", "staged", "done", "malformed",
                       "conflict", "failed"}]
  /\ comp \in [Calls -> Components \cup {None}]
  /\ routes \in [Calls -> SUBSET Paths]
  /\ links \subseteq Calls \X Paths
  /\ Len(stack) <= MaxDepth + 1
  /\ \A f \in ToSet(stack) : /\ f.service \in Services /\ f.path \in Paths
                             /\ f.todo \subseteq children[f.service]
  /\ stack # <<>> <=> \E c \in Calls : pc[c] = "walk"

(* The sequences of sub-services that exist below a component.             *)
Below(k, n) ==
  {p \in [1..n -> Services] :
     \A i \in 1..n : p[i] \in children[IF i = 1 THEN Root[k] ELSE p[i - 1]]}

(* No chain of sub-services is longer than the walk follows; there is such *)
(* a chain below every cycle.                                              *)
WellFormed(k) == Below(k, MaxDepth + 1) = {}

AllPaths(k) == UNION {Below(k, n) : n \in 0..MaxDepth}

Target(k, p) == IF p = <<>> THEN Root[k] ELSE Last(p)

Live(c) == pc[c] \in {"walk", "staged"} \/ \E n \in Names : published[n] = c

(* Every connection on a component's port belongs to a publication that is *)
(* being staged or has been committed, whatever failed before: the data    *)
(* flow of a component never passes through an abandoned peer.             *)
NoLeakedLink == \A l \in links : Live(l[1])

(* What a client can resolve is complete: a published component has a      *)
(* well-formed service graph, a route for each of its services, also those *)
(* reached on two ways, and a live connection for each port.               *)
PublishedWhole ==
  \A n \in Names :
    LET c == published[n]
    IN  c # None =>
          /\ Name[comp[c]] = n /\ pc[c] = "done"
          /\ WellFormed(comp[c]) /\ routes[c] = AllPaths(comp[c])
          /\ \A p \in routes[c] :
               Target(comp[c], p) \in WithPort => <<c, p>> \in links

(* The walk calls a graph malformed only when it is, and never finishes    *)
(* one that is.                                                            *)
WalkVerdict ==
  \A c \in Calls : /\ pc[c] = "malformed" => ~WellFormed(comp[c])
                   /\ pc[c] = "staged" => WellFormed(comp[c])

(* Exactly the well-formed graphs are published, and each of them whole.   *)
PublishedExactly == TypeOK /\ PublishedWhole /\ WalkVerdict

(* A publication stays as it is until the model is released: a second      *)
(* component of the name, or the same one again, does not disturb it.      *)
PublicationStable ==
  [][\A n \in Names : published[n] # None /\ ~closed' =>
       /\ published'[n] = published[n]
       /\ routes'[published[n]] = routes[published[n]]
       /\ {l \in links : l[1] = published[n]} \subseteq links']_vars
=============================================================================
