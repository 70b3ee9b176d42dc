---------------------------- MODULE TypeRegistry ----------------------------
(***************************************************************************)
(* The process-wide registry of HTTP type protocols                        *)
(* (src/src/type_protocol.cpp), the registration of canonical and of       *)
(* reflected types (canonical_types.cpp, reflected_codec.cpp), and the     *)
(* part of Server::start that fills and freezes the catalog, run by        *)
(* several servers at once next to plugins that register their own codecs. *)
(*                                                                         *)
(* A step is one critical section of the registry's mutex.  A registration *)
(* is its provider and its definition: the descriptor's kind and the types *)
(* it depends on; the fingerprints of two registrations of a type agree    *)
(* when these agree.  The search in freezeTypeCatalog is in CatalogFreeze; *)
(* here it is its verdict.  RTT's own typekit has every canonical type.    *)
(***************************************************************************)
EXTENDS Naturals, Sequences, SequencesExt

CONSTANTS Types,         \* RTT::types::TypeInfo objects
          Canonical,     \* the canonical types, in registration order
          CanonicalDefs, \* their definitions
          Members,       \* the member types RTT's reflection reports
          Custom,        \* <<type, definition>> of the plugins' own codecs
          Foreign,       \* types whose protocol slot others may occupy
          Servers,       \* servers in start() without an object model
          None           \* an empty protocol slot; no catalog

(* validateRegistration: an integer refers to nothing and an enum to one   *)
(* type; what the other kinds are tells the freeze nothing.                *)
Definitions ==
  [kind : {"integer"}, deps : {{}}] \cup [kind : {"enum"}, deps : {{t} : t \in Types}]
  \cup [kind : {"other"}, deps : SUBSET Types]

(* What a registration is, and what the registry maps types to.            *)
Registrations == [provider : {"canonical", "reflected", "custom"}, def : Definitions]
Registries == [Types -> {None} \cup Registrations]

(* A null pointer is no type, no protocol and no catalog.                  *)
ASSUME NoneAssumption == None \notin Types \cup Registrations \cup Registries

ASSUME RegistryAssumption ==
  /\ Canonical \in Seq(Types)
  /\ CanonicalDefs \in [ToSet(Canonical) -> Definitions]
  /\ Members \in [Types -> SUBSET Types]
  /\ Custom \subseteq Types \X Definitions
  /\ Foreign \subseteq Types

VARIABLES
  registrations, \* each type's registration, or None
  foreign,       \* types whose slot does not hold our registration
  frozen,        \* Registry::frozen
  freezeError,   \* Registry::freezeError; "none" when it is empty
  catalog,       \* Registry::catalog, or None
  pc,            \* where each server is in start()
  next,          \* the next canonical type each server registers
  pending,       \* `pending` of registerReflectedTypeProtocols
  todo,          \* those it has not looked at in this pass
  current,       \* the type it is registering
  progress,      \* `progress`
  skipped        \* a reflection threw before the freeze (history)

freezeVars == <<frozen, freezeError, catalog>>
regVars == <<registrations, foreign, freezeVars, skipped>>
passVars == <<pending, todo, current, progress>>
vars == <<regVars, pc, next, passVars>>

Registration(provider, def) == [provider |-> provider, def |-> def]

Init ==
  /\ registrations = [t \in Types |-> None]
  /\ foreign = {} /\ frozen = FALSE /\ freezeError = "none" /\ catalog = None
  /\ skipped = FALSE
  /\ pc = [s \in Servers |-> "begin"]
  /\ next = [s \in Servers |-> 1]
  /\ pending = [s \in Servers |-> {}] /\ todo = [s \in Servers |-> {}]
  /\ current = [s \in Servers |-> None]
  /\ progress = [s \in Servers |-> FALSE]

Registered == {t \in Types : registrations[t] # None}

(* registeredTypeCodec finds a codec while the slot holds the registration.*)
Coded == Registered \ foreign

----------------------------------------------------------------------------
(* registerTypeProtocol(type, protocol).                                   *)

AcceptedUnlessFrozen(t, r) ==
  ~frozen /\ t \notin foreign /\ registrations[t] \in {None, r}

(* Registering the same definition again succeeds, in a frozen catalog     *)
(* too; another one, or a protocol that is not ours, conflicts; a new type *)
(* needs an open catalog.                                                  *)
Accepted(t, r) ==
  /\ t \notin foreign
  /\ IF registrations[t] # None THEN registrations[t] = r ELSE ~frozen

StoredAlways(t, r) ==
  registrations' = IF registrations[t] = None
                   THEN [registrations EXCEPT ![t] = r] ELSE registrations

Stored(t, r) ==
  registrations' = IF Accepted(t, r) THEN [registrations EXCEPT ![t] = r]
                   ELSE registrations

(* A plugin registers its own codec at any time.                           *)
PluginRegister ==
  /\ \E c \in Custom : Stored(c[1], Registration("custom", c[2]))
  /\ UNCHANGED <<foreign, freezeVars, skipped, pc, next, passVars>>

(* HttpTransportPlugin::registerTransport, called when RTT loads the       *)
(* plugin or meets a canonical type.                                       *)
TransportRegister ==
  /\ \E t \in ToSet(Canonical) : Stored(t, Registration("canonical", CanonicalDefs[t]))
  /\ UNCHANGED <<foreign, freezeVars, skipped, pc, next, passVars>>

(* Someone fills a slot without registerTypeProtocol, or changes one that  *)
(* a registered type has, and leaves it so.                                *)
ForeignProtocol ==
  /\ \E t \in Foreign \ foreign : foreign' = foreign \cup {t}
  /\ UNCHANGED <<registrations, freezeVars, skipped, pc, next, passVars>>

----------------------------------------------------------------------------
(* Server::start, the object model's block.                                *)

Begin(s) ==
  /\ pc[s] = "begin"
  /\ pc' = [pc EXCEPT ![s] = IF frozen THEN "freeze" ELSE "canonical"]
  /\ UNCHANGED <<regVars, next, passVars>>

(* registerCanonicalTypeProtocols, one type; the first failure throws.     *)
RegisterCanonical(s) ==
  /\ pc[s] = "canonical" /\ next[s] <= Len(Canonical)
  /\ LET t == Canonical[next[s]]
         r == Registration("canonical", CanonicalDefs[t])
     IN  /\ Stored(t, r)
         /\ IF Accepted(t, r)
            THEN next' = [next EXCEPT ![s] = @ + 1] /\ UNCHANGED pc
            ELSE pc' = [pc EXCEPT ![s] = "failed"] /\ UNCHANGED next
  /\ UNCHANGED <<foreign, freezeVars, skipped, passVars>>

CanonicalDone(s) ==
  /\ pc[s] = "canonical" /\ next[s] > Len(Canonical)
  /\ pc' = [pc EXCEPT ![s] = IF frozen THEN "freeze" ELSE "collect"]
  /\ UNCHANGED <<regVars, next, passVars>>

(* registerReflectedTypeProtocols: the types without a codec.  They are    *)
(* read one by one; a type registered in between is merely tried below.    *)
Collect(s) ==
  /\ pc[s] = "collect"
  /\ pending' = [pending EXCEPT ![s] = Types \ Coded]
  /\ todo' = [todo EXCEPT ![s] = Types \ Coded]
  /\ progress' = [progress EXCEPT ![s] = FALSE]
  /\ pc' = [pc EXCEPT ![s] = "reflect"]
  /\ UNCHANGED <<regVars, next, current>>

(* makeReflectedTypeProtocol: RTT knows the members and each has a codec.  *)
Reflectable(t) == Members[t] # {} /\ Members[t] \subseteq Coded

(* std::set orders the types by address, an order nobody chooses.          *)
Reflect(s) ==
  /\ pc[s] = "reflect"
  /\ \E t \in todo[s] :
       /\ todo' = [todo EXCEPT ![s] = @ \ {t}]
       /\ IF Reflectable(t)
          THEN current' = [current EXCEPT ![s] = t] /\ pc' = [pc EXCEPT ![s] = "register"]
          ELSE UNCHANGED <<current, pc>>
  /\ UNCHANGED <<regVars, next, pending, progress>>

(* makeReflectedTypeProtocol catches an exception: the type is left out of *)
(* this pass.                                                              *)
ReflectThrows(s) ==
  /\ pc[s] = "reflect"
  /\ \E t \in todo[s] :
       Members[t] # {} /\ todo' = [todo EXCEPT ![s] = @ \ {t}]
  /\ skipped' = (skipped \/ ~frozen)
  /\ UNCHANGED <<registrations, foreign, freezeVars, pc, next, pending, current, progress>>

RegisterReflected(s) ==
  /\ pc[s] = "register"
  /\ LET t == current[s]
         r == Registration("reflected", [kind |-> "other", deps |-> Members[t]])
     IN  /\ Stored(t, r)
         /\ IF Accepted(t, r)
            THEN /\ pending' = [pending EXCEPT ![s] = @ \ {t}]
                 /\ progress' = [progress EXCEPT ![s] = TRUE]
            ELSE UNCHANGED <<pending, progress>>
  /\ pc' = [pc EXCEPT ![s] = "reflect"]
  /\ current' = [current EXCEPT ![s] = None]
  /\ UNCHANGED <<foreign, freezeVars, skipped, next, todo>>

PassEndsOnce(s) ==
  /\ pc[s] = "reflect" /\ todo[s] = {}
  /\ pc' = [pc EXCEPT ![s] = "freeze"]
  /\ UNCHANGED <<regVars, next, passVars>>

PassEndsNever(s) ==
  /\ pc[s] = "reflect" /\ todo[s] = {}
  /\ IF pending[s] # {}
     THEN todo' = [todo EXCEPT ![s] = pending[s]] /\ UNCHANGED pc
     ELSE pc' = [pc EXCEPT ![s] = "freeze"] /\ UNCHANGED todo
  /\ UNCHANGED <<regVars, next, pending, current, progress>>

(* Passes are repeated while they register something.                      *)
PassEnds(s) ==
  /\ pc[s] = "reflect" /\ todo[s] = {}
  /\ IF progress[s]
     THEN /\ todo' = [todo EXCEPT ![s] = pending[s]]
          /\ progress' = [progress EXCEPT ![s] = FALSE]
          /\ UNCHANGED <<pc, pending>>
     ELSE /\ pc' = [pc EXCEPT ![s] = "freeze"]
          /\ pending' = [pending EXCEPT ![s] = {}]
          /\ UNCHANGED <<todo, progress>>
  /\ UNCHANGED <<regVars, next, current>>

(* What CatalogFreeze's search decides: every dependency is registered, an *)
(* enum's is an integer, and none leads back to where it started.          *)
Sound(reg) ==
  LET named == {t \in Types : reg[t] # None}
  IN  /\ \A t \in named : reg[t].def.deps \subseteq named
      /\ \A t \in named : reg[t].def.kind = "enum" =>
           \A u \in reg[t].def.deps : reg[u].def.kind = "integer"
      /\ \A S \in SUBSET named : S # {} => \E t \in S : reg[t].def.deps \cap S = {}

(* The slots are compared with the registrations before the search.        *)
Verdict ==
  IF Registered \cap foreign # {} THEN "changed"
  ELSE IF ~Sound(registrations) THEN "unsound" ELSE "none"

(* freezeTypeCatalog: the first call decides for good, the others get its  *)
(* outcome.  start() throws the stored error if there is no catalog.       *)
Freeze(s) ==
  /\ pc[s] = "freeze"
  /\ IF frozen THEN UNCHANGED freezeVars
     ELSE /\ frozen' = TRUE /\ freezeError' = Verdict
          /\ catalog' = IF Verdict = "none" THEN registrations ELSE None
  /\ pc' = [pc EXCEPT ![s] = IF catalog' = None THEN "failed" ELSE "done"]
  /\ UNCHANGED <<registrations, foreign, skipped, next, passVars>>

(* Any other exception ends start(): std::bad_alloc, above all.  A         *)
(* registration is undone and the locals are gone; freezeTypeCatalog has   *)
(* set frozen already, and its error is still empty, the provisional       *)
(* "could not be frozen" ("unfrozen"), or the verdict's.                   *)
Throw(s) ==
  /\ pc[s] \in {"canonical", "collect", "reflect", "register", "freeze"}
  /\ pc' = [pc EXCEPT ![s] = "threw"]
  /\ IF pc[s] = "freeze" /\ ~frozen
     THEN frozen' = TRUE /\ freezeError' \in {"none", "unfrozen", Verdict}
     ELSE UNCHANGED <<frozen, freezeError>>
  /\ pending' = [pending EXCEPT ![s] = {}] /\ todo' = [todo EXCEPT ![s] = {}]
  /\ current' = [current EXCEPT ![s] = None] /\ progress' = [progress EXCEPT ![s] = FALSE]
  /\ UNCHANGED <<registrations, foreign, catalog, skipped, next>>

Server(s) ==
  \/ Begin(s) \/ RegisterCanonical(s) \/ CanonicalDone(s) \/ Collect(s)
  \/ Reflect(s) \/ RegisterReflected(s) \/ PassEnds(s) \/ Freeze(s)

Next ==
  \/ PluginRegister \/ TransportRegister \/ ForeignProtocol
  \/ \E s \in Servers : Server(s) \/ ReflectThrows(s) \/ Throw(s)

Spec == Init /\ [][Next]_vars

FairSpec == Spec /\ \A s \in Servers : WF_vars(Server(s))

----------------------------------------------------------------------------
(* Properties.                                                             *)

(* Every variable has its type.                                            *)
TypeOK ==
  /\ registrations \in Registries /\ catalog \in {None} \cup Registries
  /\ foreign \subseteq Foreign /\ frozen \in BOOLEAN /\ skipped \in BOOLEAN
  /\ freezeError \in {"none", "unfrozen", "changed", "unsound"}
  /\ pc \in [Servers -> {"begin", "canonical", "collect", "reflect", "register",
                         "freeze", "done", "failed", "threw"}]
  /\ next \in [Servers -> 1..(Len(Canonical) + 1)]
  /\ pending \in [Servers -> SUBSET Types] /\ todo \in [Servers -> SUBSET Types]
  /\ \A s \in Servers : todo[s] \subseteq pending[s]
  /\ current \in [Servers -> Types \cup {None}]
  /\ progress \in [Servers -> BOOLEAN]

(* The catalog a server holds is what the registry still contains: no      *)
(* plugin or slower server adds a type after the freeze, so two servers    *)
(* never publish different sets of types.                                  *)
CatalogCurrent == catalog # None => frozen /\ catalog = registrations

(* The registry is what every server reads from it.                        *)
RegistrySound == TypeOK /\ CatalogCurrent

(* The least set of types that canonical and custom codecs give and        *)
(* reflection closes under members; a foreign protocol keeps a type out.   *)
Resolvable ==
  LET given == {t \in Registered : registrations[t].provider # "reflected"}
      closed == {S \in SUBSET Types :
                   given \subseteq S /\ \A t \in Types \ (foreign \ Registered) :
                     Members[t] # {} /\ Members[t] \subseteq S => t \in S}
  IN  {t \in Types : \A S \in closed : t \in S}

(* The registry never has a reflected type whose members do not lead down  *)
(* to given codecs, and unless a plugin registered a codec meanwhile or a  *)
(* reflection threw, the catalog has every type that reflection can        *)
(* resolve, in whatever order the types are tried and however the servers' *)
(* passes interleave.                                                      *)
ReflectionComplete ==
  /\ Registered \subseteq Resolvable
  /\ catalog # None /\ ~skipped /\ (\A t \in Registered : registrations[t].provider # "custom")
     => Resolvable \subseteq Registered

(* Why there is no catalog although the registry is frozen: an exception   *)
(* ended the freeze, the slot of a registered type was changed, or the     *)
(* definitions are unsound.                                                *)
NoCatalogCause ==
  \/ freezeError \in {"none", "unfrozen"} /\ \E u \in Servers : pc[u] = "threw"
  \/ freezeError = "changed" /\ Registered \cap foreign # {}
  \/ freezeError = "unsound" /\ ~Sound(registrations)

(* start() is refused here only when the freeze had a cause to fail, which *)
(* still holds and is the one that is reported, or a plugin or a foreign   *)
(* protocol took a canonical type, never because another server was        *)
(* faster.                                                                 *)
FailsOnlyForCause ==
  \A s \in Servers : pc[s] = "failed" =>
    \/ frozen /\ catalog = None /\ NoCatalogCause
    \/ \E t \in ToSet(Canonical) :
         t \in foreign \/ (t \in Registered /\ registrations[t].provider = "custom")

(* Discovery ends for every server.                                        *)
DiscoveryEnds == \A s \in Servers : <>(pc[s] \in {"done", "failed", "threw"})
=============================================================================
