------------------------- MODULE TypeRegistryProofs -------------------------
(***************************************************************************)
(* Proofs about TypeRegistry, for any types, members, codecs and servers.  *)
(***************************************************************************)
EXTENDS TypeRegistry, SequenceTheorems, TLAPS

----------------------------------------------------------------------------
(* The inductive invariant.                                                *)

CanonicalTypes == ToSet(Canonical)

(* The types with a registration of a provider.                            *)
By(reg, provider) == {t \in Types : reg[t] # None /\ reg[t].provider = provider}
Known(reg) == {t \in Types : reg[t] # None}

(* The definition that reflection gives a type.                            *)
Reflected(t) == [kind |-> "other", deps |-> Members[t]]

(* A registration says where it comes from: a canonical one is the         *)
(* canonical definition, a reflected one names members that had a codec    *)
(* before it.                                                              *)
RegInv ==
  /\ \A t \in By(registrations, "canonical") :
       t \in CanonicalTypes /\ registrations[t].def = CanonicalDefs[t]
  /\ \A t \in By(registrations, "reflected") :
       /\ t \notin CanonicalTypes /\ registrations[t].def = Reflected(t)
       /\ Members[t] # {} /\ Members[t] \subseteq Known(registrations)

(* Reflected types were registered one after the other.                    *)
OrderInv ==
  \A X \in SUBSET By(registrations, "reflected") :
    X # {} => \E t \in X : Members[t] \cap X = {}

(* The catalog is the frozen registry, or there is a cause for its absence.*)
CatalogInv ==
  /\ CatalogCurrent
  /\ frozen /\ catalog = None => NoCatalogCause

(* Nobody reflects or freezes before the canonical types are registered.   *)
CanonicalAt(s) ==
  /\ pc[s] \in {"collect", "reflect", "register", "freeze"} =>
       CanonicalTypes \subseteq Known(registrations)
  /\ pc[s] \in {"begin", "canonical"} =>
       \A i \in 1..(next[s] - 1) : Canonical[i] \in Known(registrations)

CanonicalInv ==
  /\ frozen => CanonicalTypes \subseteq Known(registrations)
  /\ \A s \in Servers : CanonicalAt(s)

(* What a server has yet to reflect.                                       *)
PassAt(s) ==
  /\ pc[s] \in {"reflect", "register"} =>
       /\ Types \ pending[s] \subseteq Known(registrations)
       /\ pending[s] \cap CanonicalTypes \subseteq foreign
  /\ pc[s] = "register" =>
       /\ current[s] \in pending[s] \ todo[s]
       /\ Members[current[s]] # {} /\ Members[current[s]] \subseteq Known(registrations)

PassInv == \A s \in Servers : PassAt(s)

(* Plugins have registered nothing of their own and no reflection threw,   *)
(* and in addition no registered type has lost its slot.                   *)
NoCustom(reg) == By(reg, "custom") = {}
Quiet == NoCustom(registrations) /\ ~skipped
Spoiled == Known(registrations) \cap foreign # {}
Undisturbed == Quiet /\ ~Spoiled

(* In a pass without progress every type that was tried lacks a member     *)
(* that had a codec before the pass.                                       *)
Hopeless(t, left, taken) ==
  t \in taken \/ Members[t] = {} \/ ~(Members[t] \subseteq Types \ left)

TriedAt(s) ==
  /\ pc[s] \in {"reflect", "register"} /\ ~progress[s]
  /\ ~frozen /\ Undisturbed
  => \A t \in pending[s] \ todo[s] :
       (pc[s] = "register" /\ t = current[s]) \/ Hopeless(t, pending[s], foreign)

TriedInv == \A s \in Servers : TriedAt(s)

(* Nothing is left to reflect.                                             *)
Complete(reg, taken) ==
  \A t \in Types \ taken : Members[t] # {} /\ Members[t] \subseteq Known(reg) => t \in Known(reg)

(* A pass is over that would have registered what was left.                *)
Frozen == frozen \/ \E s \in Servers : pc[s] = "freeze"

CompleteInv ==
  Quiet /\ (catalog # None \/ (~Spoiled /\ Frozen)) => Complete(registrations, foreign)

IInv ==
  /\ TypeOK /\ RegInv /\ OrderInv /\ CatalogInv /\ CanonicalInv /\ PassInv
  /\ TriedInv /\ CompleteInv /\ FailsOnlyForCause

----------------------------------------------------------------------------
(* How the registry changes.                                               *)

(* One new registration, as registerTypeProtocol makes it.                 *)
Added(t, r) ==
  /\ t \in Types /\ r \in Registrations
  /\ registrations[t] = None /\ t \notin foreign /\ ~frozen
  /\ registrations' = [registrations EXCEPT ![t] = r]

(* Whose registrations there are.                                          *)
Origin(t, r) ==
  \/ r.provider = "custom"
  \/ /\ r.provider = "canonical" /\ t \in CanonicalTypes /\ r.def = CanonicalDefs[t]
  \/ /\ r.provider = "reflected" /\ t \notin CanonicalTypes /\ r.def = Reflected(t)
     /\ Members[t] # {} /\ Members[t] \subseteq Known(registrations)

Grows == registrations' = registrations \/ \E t, r : Added(t, r) /\ Origin(t, r)

(* Registered, as a function of the registrations.                         *)
LEMMA KnownIsRegistered == Registered = Known(registrations)
BY DEF Registered, Known

(* The canonical types and their order of registration.                    *)
LEMMA CanonicalFacts ==
  /\ CanonicalTypes \subseteq Types /\ Len(Canonical) \in Nat
  /\ \A i \in 1..Len(Canonical) : Canonical[i] \in CanonicalTypes
  /\ \A t \in CanonicalTypes : \E i \in 1..Len(Canonical) : t = Canonical[i]
<1>1. Canonical \in Seq(Types)
  BY RegistryAssumption
<1>2. CanonicalTypes = {Canonical[i] : i \in DOMAIN Canonical}
  BY DEF CanonicalTypes, ToSet
<1>3. /\ Len(Canonical) \in Nat /\ DOMAIN Canonical = 1..Len(Canonical)
      /\ \A i \in 1..Len(Canonical) : Canonical[i] \in Types
  BY <1>1
<1>4. /\ CanonicalTypes \subseteq Types
      /\ \A i \in 1..Len(Canonical) : Canonical[i] \in CanonicalTypes
      /\ \A t \in CanonicalTypes : \E i \in 1..Len(Canonical) : t = Canonical[i]
  BY <1>2, <1>3
<1> QED
  BY <1>3, <1>4

(* and their definitions.                                                  *)
LEMMA CanonicalDefinitions == \A t \in CanonicalTypes : CanonicalDefs[t] \in Definitions
BY RegistryAssumption DEF CanonicalTypes

(* What is in a registration.                                              *)
LEMMA RegistrationTypes ==
  ASSUME NEW p \in {"canonical", "reflected", "custom"}, NEW d \in Definitions
  PROVE  /\ Registration(p, d) \in Registrations
         /\ Registration(p, d).provider = p /\ Registration(p, d).def = d
BY DEF Registration, Registrations

(* Reflection gives a valid definition.                                    *)
LEMMA ReflectedTypes == ASSUME NEW t \in Types PROVE Reflected(t) \in Definitions
BY RegistryAssumption DEF Reflected, Definitions

(* A registration is refused, agrees with what is there, or is new.        *)
LEMMA StoredCases ==
  ASSUME TypeOK, NEW t \in Types, NEW r \in Registrations, Stored(t, r)
  PROVE  /\ registrations' = registrations \/ Added(t, r)
         /\ Accepted(t, r) => registrations'[t] = r
         /\ Accepted(t, r) => t \in Known(registrations')
<1>1. registrations \in Registries /\ r # None
  BY NoneAssumption DEF TypeOK
<1>2. CASE registrations[t] # None
  <2>1. Accepted(t, r) => registrations[t] = r
    BY <1>2 DEF Accepted
  <2>2. registrations[t] = r => [registrations EXCEPT ![t] = r] = registrations
    BY <1>1 DEF Registries
  <2>3. registrations' = registrations
    BY <2>1, <2>2 DEF Stored
  <2> QED
    BY <1>1, <1>2, <2>1, <2>3 DEF Known
<1>3. CASE registrations[t] = None
  <2>1. CASE Accepted(t, r)
    <3>1. registrations' = [registrations EXCEPT ![t] = r] /\ registrations'[t] = r
      BY <1>1, <2>1 DEF Stored, Registries
    <3>2. t \notin foreign /\ ~frozen
      BY <1>3, <2>1 DEF Accepted
    <3> QED
      BY <1>1, <1>3, <3>1, <3>2 DEF Added, Known
  <2>2. CASE ~Accepted(t, r)
    BY <2>2 DEF Stored
  <2> QED
    BY <2>1, <2>2
<1> QED
  BY <1>2, <1>3

(* The registry after one registration more.                               *)
LEMMA AddedFacts ==
  ASSUME TypeOK, NEW t, NEW r, Added(t, r)
  PROVE  /\ registrations' \in Registries
         /\ t \in Types \ Known(registrations)
         /\ registrations'[t] = r /\ \A u \in Types \ {t} : registrations'[u] = registrations[u]
         /\ Known(registrations') = Known(registrations) \cup {t}
         /\ \A p : By(registrations', p) = By(registrations, p) \cup {u \in {t} : r.provider = p}
<1>1. /\ registrations \in Registries /\ t \in Types /\ r \in Registrations /\ r # None
      /\ registrations[t] = None /\ registrations' = [registrations EXCEPT ![t] = r]
  BY NoneAssumption DEF TypeOK, Added
<1>2. /\ registrations' \in Registries
      /\ registrations'[t] = r /\ \A u \in Types \ {t} : registrations'[u] = registrations[u]
  BY <1>1 DEF Registries
<1>3. Known(registrations') = Known(registrations) \cup {t}
  BY <1>1, <1>2 DEF Known
<1>4. ASSUME NEW p
      PROVE  By(registrations', p) = By(registrations, p) \cup {u \in {t} : r.provider = p}
  BY <1>1, <1>2 DEF By
<1>5. t \notin Known(registrations)
  BY <1>1 DEF Known
<1> QED
  BY <1>1, <1>2, <1>3, <1>4, <1>5

(* A growing registry keeps what it has and stays well founded; nothing    *)
(* but a custom codec is new once everything that can be is registered.    *)
LEMMA GrowthKeeps ==
  ASSUME IInv, Grows, foreign' = foreign, skipped' = skipped
  PROVE  /\ registrations' \in Registries
         /\ Known(registrations) \subseteq Known(registrations')
         /\ \A t \in Known(registrations) : registrations'[t] = registrations[t]
         /\ frozen => registrations' = registrations
         /\ NoCustom(registrations') => NoCustom(registrations)
         /\ Undisturbed' /\ Frozen => registrations' = registrations
         /\ RegInv' /\ OrderInv'
<1>1. CASE registrations' = registrations
  <2>1. registrations' \in Registries
    BY <1>1 DEF IInv, TypeOK
  <2> QED
    BY <1>1, <2>1 DEF IInv, RegInv, OrderInv
<1>2. ASSUME NEW t, NEW r, Added(t, r), Origin(t, r)
      PROVE  /\ registrations' \in Registries
             /\ Known(registrations) \subseteq Known(registrations')
             /\ \A u \in Known(registrations) : registrations'[u] = registrations[u]
             /\ ~frozen
             /\ NoCustom(registrations') => NoCustom(registrations)
             /\ ~(Undisturbed' /\ Frozen)
             /\ RegInv' /\ OrderInv'
  <2>1. /\ registrations' \in Registries
        /\ t \in Types /\ t \notin Known(registrations)
        /\ registrations'[t] = r /\ \A u \in Types \ {t} : registrations'[u] = registrations[u]
        /\ Known(registrations') = Known(registrations) \cup {t}
    BY <1>2, AddedFacts DEF IInv
  <2>2. \A p : By(registrations', p) = By(registrations, p) \cup {u \in {t} : r.provider = p}
    BY <1>2, AddedFacts DEF IInv
  <2>3. ~frozen /\ t \notin foreign
    BY <1>2 DEF Added
  <2>4. \A u \in Known(registrations) : u # t /\ u \in Types
    BY <2>1 DEF Known
  <2>5. \A u \in Known(registrations) : registrations'[u] = registrations[u]
    BY <2>1, <2>4
  <2>6. NoCustom(registrations') => NoCustom(registrations) /\ r.provider # "custom"
    BY <2>2 DEF NoCustom
  <2>7. \A p : By(registrations, p) \subseteq Known(registrations)
    BY DEF By, Known
  <2>8. ~(Undisturbed' /\ Frozen)
    <3> SUFFICES ASSUME Undisturbed', Frozen PROVE FALSE
      OBVIOUS
    <3>0. NoCustom(registrations') /\ Undisturbed
      BY <2>1, <2>6 DEF Undisturbed, Quiet, Spoiled
    <3>1. CanonicalTypes \subseteq Known(registrations) /\ Complete(registrations, foreign)
      BY <3>0 DEF IInv, CanonicalInv, CanonicalAt, CompleteInv, Undisturbed, Frozen
    <3>2. t \notin CanonicalTypes
      BY <2>1, <3>1
    <3>3. Members[t] # {} /\ Members[t] \subseteq Known(registrations)
      BY <1>2, <2>6, <3>0, <3>2 DEF Origin
    <3> QED
      BY <2>1, <2>3, <3>1, <3>3 DEF Complete
  <2>9. RegInv'
    <3>1. ASSUME NEW u \in By(registrations', "canonical")
          PROVE  u \in CanonicalTypes /\ registrations'[u].def = CanonicalDefs[u]
      <4>1. CASE u = t
        <5>1. r.provider = "canonical"
          BY <2>2, <2>7, <2>1, <4>1
        <5> QED
          BY <1>2, <2>1, <4>1, <5>1 DEF Origin
      <4>2. CASE u # t
        <5>1. u \in By(registrations, "canonical")
          BY <2>2, <4>2
        <5> QED
          BY <2>5, <2>7, <5>1 DEF IInv, RegInv
      <4> QED
        BY <4>1, <4>2
    <3>2. ASSUME NEW u \in By(registrations', "reflected")
          PROVE  /\ u \notin CanonicalTypes /\ registrations'[u].def = Reflected(u)
                 /\ Members[u] # {} /\ Members[u] \subseteq Known(registrations')
      <4>1. CASE u = t
        <5>1. r.provider = "reflected"
          BY <2>2, <2>7, <2>1, <4>1
        <5> QED
          BY <1>2, <2>1, <4>1, <5>1 DEF Origin
      <4>2. CASE u # t
        <5>1. u \in By(registrations, "reflected")
          BY <2>2, <4>2
        <5> QED
          BY <2>1, <2>5, <2>7, <5>1 DEF IInv, RegInv
      <4> QED
        BY <4>1, <4>2
    <3> QED
      BY <3>1, <3>2 DEF RegInv
  <2>10. OrderInv'
    <3> SUFFICES ASSUME NEW X \in SUBSET By(registrations', "reflected"), X # {}
                 PROVE  \E u \in X : Members[u] \cap X = {}
      BY DEF OrderInv
    <3>1. \A u \in By(registrations, "reflected") : Members[u] \subseteq Known(registrations)
      BY DEF IInv, RegInv
    <3>2. X \ {t} \in SUBSET By(registrations, "reflected")
      BY <2>2
    <3>3. CASE X \ {t} # {}
      <4>1. PICK u \in X \ {t} : Members[u] \cap (X \ {t}) = {}
        BY <3>2, <3>3 DEF IInv, OrderInv
      <4>2. t \notin Members[u]
        BY <2>1, <3>1, <3>2
      <4> QED
        BY <4>1, <4>2
    <3>4. CASE X \ {t} = {}
      <4>1. X = {t}
        BY <3>4
      <4>2. r.provider = "reflected"
        BY <2>1, <2>2, <2>7, <4>1
      <4>3. t \notin Members[t]
        BY <1>2, <2>1, <4>2 DEF Origin
      <4> QED
        BY <4>1, <4>3
    <3> QED
      BY <3>3, <3>4
  <2> QED
    BY <2>1, <2>3, <2>5, <2>6, <2>8, <2>9, <2>10
<1> QED
  BY <1>1, <1>2 DEF Grows

----------------------------------------------------------------------------
(* What the others do to a server that does not move.                      *)

Kept ==
  /\ Known(registrations) \subseteq Known(registrations')
  /\ \A t \in Known(registrations) : registrations'[t] = registrations[t]
  /\ foreign \subseteq foreign' /\ (skipped => skipped')
  /\ frozen => registrations' = registrations /\ UNCHANGED freezeVars
  /\ \A u \in Servers : pc[u] = "threw" => pc'[u] = "threw"

(* A disturbance stays one.                                                *)
LEMMA DisturbanceKept ==
  ASSUME Kept
  PROVE  (Quiet' => Quiet) /\ (Undisturbed' => Undisturbed) /\ (Spoiled => Spoiled')
<1>1. By(registrations, "custom") \subseteq By(registrations', "custom")
  BY DEF Kept, By, Known
<1>2. Quiet' => Quiet
  BY <1>1 DEF Quiet, Kept, NoCustom
<1>3. Spoiled => Spoiled'
  BY DEF Spoiled, Kept
<1> QED
  BY <1>2, <1>3 DEF Undisturbed

(* A server that takes no step keeps what it knows of the registry.        *)
LEMMA BystanderKeeps ==
  ASSUME IInv, Kept, NEW s \in Servers, pc'[s] = pc[s], next'[s] = next[s],
         pending'[s] = pending[s], todo'[s] = todo[s], current'[s] = current[s],
         progress'[s] = progress[s]
  PROVE  CanonicalAt(s)' /\ PassAt(s)' /\ TriedAt(s)'
<1>1. CanonicalAt(s) /\ PassAt(s) /\ TriedAt(s)
  BY DEF IInv, CanonicalInv, PassInv, TriedInv
<1>2. CanonicalAt(s)'
  BY <1>1 DEF CanonicalAt, Kept
<1>3. PassAt(s)'
  BY <1>1 DEF PassAt, Kept
<1>4. TriedAt(s)'
  <2>1. foreign \subseteq foreign' /\ (~frozen' => ~frozen) /\ (Undisturbed' => Undisturbed)
    BY DisturbanceKept DEF Kept, freezeVars
  <2>2. \A t : Hopeless(t, pending[s], foreign) => Hopeless(t, pending'[s], foreign')
    BY <2>1 DEF Hopeless
  <2> QED
    BY <1>1, <2>1, <2>2 DEF TriedAt
<1> QED
  BY <1>2, <1>3, <1>4

(* A cause of a failed start stays one.                                    *)
Cause ==
  \/ frozen /\ catalog = None /\ NoCatalogCause
  \/ \E t \in CanonicalTypes : t \in foreign \/ t \in By(registrations, "custom")

(* The property FailsOnlyForCause, in terms of a cause.                    *)
LEMMA CauseMeaning == FailsOnlyForCause <=> \A s \in Servers : pc[s] = "failed" => Cause
<1>1. \A t : t \in By(registrations, "custom")
             <=> t \in Registered /\ registrations[t].provider = "custom"
  BY DEF By, Registered
<1> QED
  BY <1>1 DEF FailsOnlyForCause, Cause, CanonicalTypes

(* What made a freeze fail stays so.                                       *)
LEMMA NoCatalogCauseKept ==
  ASSUME Kept, frozen, NoCatalogCause
  PROVE  NoCatalogCause'
<1>1. UNCHANGED <<registrations, freezeError>> /\ foreign \subseteq foreign'
  BY DEF Kept, freezeVars
<1>2. (\E u \in Servers : pc[u] = "threw") => \E u \in Servers : pc'[u] = "threw"
  BY DEF Kept
<1>3. Sound(registrations') = Sound(registrations)
  BY <1>1
<1> QED
  BY <1>1, <1>2, <1>3 DEF NoCatalogCause, Registered

(* A cause does not go away,                                               *)
LEMMA CauseKept ==
  ASSUME Kept, Cause
  PROVE  Cause'
<1>1. By(registrations, "custom") \subseteq By(registrations', "custom")
  BY DEF Kept, By, Known
<1>2. CASE frozen /\ catalog = None /\ NoCatalogCause
  BY <1>2, NoCatalogCauseKept DEF Kept, Cause, freezeVars
<1>3. CASE \E t \in CanonicalTypes : t \in foreign \/ t \in By(registrations, "custom")
  BY <1>1, <1>3 DEF Kept, Cause
<1> QED
  BY <1>2, <1>3 DEF Cause

(* so failures keep theirs.                                                *)
LEMMA FailuresKept ==
  ASSUME IInv, Kept, \A s \in Servers : pc'[s] = "failed" => pc[s] = "failed" \/ Cause'
  PROVE  FailsOnlyForCause'
<1>1. \A s \in Servers : pc'[s] = "failed" => Cause'
  BY CauseMeaning, CauseKept DEF IInv
<1>2. (FailsOnlyForCause)' <=> (\A s \in Servers : pc[s] = "failed" => Cause)'
  BY CauseMeaning, PTL
<1> QED
  BY <1>1, <1>2

(* The global parts, when no server freezes.                               *)
LEMMA CatalogKept ==
  ASSUME IInv, Kept, UNCHANGED freezeVars
  PROVE  CatalogInv' /\ (frozen' => CanonicalTypes \subseteq Known(registrations'))
<1>1. CASE frozen
  BY <1>1, NoCatalogCauseKept DEF IInv, Kept, CatalogInv, CatalogCurrent, CanonicalInv, freezeVars
<1>2. CASE ~frozen
  BY <1>2 DEF IInv, CatalogInv, CatalogCurrent, freezeVars
<1> QED
  BY <1>1, <1>2

(* Reflection stays complete if nothing that it needs is registered.       *)
LEMMA CompleteKept ==
  ASSUME IInv, Kept, UNCHANGED freezeVars, Frozen' => Frozen,
         Undisturbed' /\ Frozen => registrations' = registrations
  PROVE  CompleteInv'
<1> SUFFICES ASSUME Quiet', catalog' # None \/ (~Spoiled' /\ Frozen')
             PROVE  Complete(registrations', foreign')
  BY DEF CompleteInv
<1>1. Quiet /\ (~Spoiled' => ~Spoiled)
  BY DisturbanceKept
<1>2. catalog # None \/ (~Spoiled /\ Frozen)
  BY <1>1 DEF freezeVars
<1>3. registrations' = registrations
  <2>1. CASE catalog # None
    BY <2>1 DEF IInv, CatalogInv, CatalogCurrent, Kept
  <2>2. CASE catalog = None
    BY <2>2 DEF Undisturbed, freezeVars
  <2> QED
    BY <2>1, <2>2
<1>4. Complete(registrations, foreign)
  BY <1>1, <1>2 DEF IInv, CompleteInv
<1> QED
  BY <1>3, <1>4 DEF Complete, Kept

(* Someone else registers or occupies a slot.                              *)
LEMMA OutsideKeeps ==
  ASSUME IInv, Kept, TypeOK', RegInv', OrderInv', UNCHANGED freezeVars,
         Undisturbed' /\ Frozen => registrations' = registrations,
         UNCHANGED <<pc, next, pending, todo, current, progress>>
  PROVE  IInv'
<1>1. CatalogInv' /\ (frozen' => CanonicalTypes \subseteq Known(registrations'))
  BY CatalogKept
<1>2. \A s \in Servers : CanonicalAt(s)' /\ PassAt(s)' /\ TriedAt(s)'
  BY BystanderKeeps
<1>3. CompleteInv'
  BY CompleteKept DEF Frozen, freezeVars
<1>4. FailsOnlyForCause'
  BY FailuresKept
<1> QED
  BY <1>1, <1>2, <1>3, <1>4 DEF IInv, CanonicalInv, PassInv, TriedInv

(* An action of a server, the others standing by.                          *)
LEMMA ServerKeeps ==
  ASSUME IInv, Kept, TypeOK', RegInv', OrderInv', NEW s \in Servers,
         CatalogInv', frozen' => CanonicalTypes \subseteq Known(registrations'), CompleteInv',
         \A u \in Servers \ {s} :
           /\ pc'[u] = pc[u] /\ next'[u] = next[u] /\ pending'[u] = pending[u]
           /\ todo'[u] = todo[u] /\ current'[u] = current[u] /\ progress'[u] = progress[u],
         CanonicalAt(s)' /\ PassAt(s)' /\ TriedAt(s)',
         pc'[s] = "failed" => Cause'
  PROVE  IInv'
<1>1. \A u \in Servers \ {s} : CanonicalAt(u)' /\ PassAt(u)' /\ TriedAt(u)'
  BY BystanderKeeps
<1>2. \A u \in Servers : CanonicalAt(u)' /\ PassAt(u)' /\ TriedAt(u)'
  BY <1>1
<1>3. \A u \in Servers : pc'[u] = "failed" => pc[u] = "failed" \/ Cause'
  OBVIOUS
<1>4. FailsOnlyForCause'
  BY <1>3, FailuresKept
<1> QED
  BY <1>2, <1>4 DEF IInv, CanonicalInv, PassInv, TriedInv

(* A registration that grows the registry keeps what servers rely on.      *)
LEMMA GrowthIsKept ==
  ASSUME IInv, Grows, UNCHANGED <<foreign, freezeVars, skipped>>,
         \A u \in Servers : pc[u] = "threw" => pc'[u] = "threw"
  PROVE  Kept
BY GrowthKeeps DEF Kept

(* A step that registers nothing keeps what is said of the registry.       *)
LEMMA StandstillIsKept ==
  ASSUME IInv, UNCHANGED <<registrations, foreign, freezeVars>>, skipped => skipped',
         \A u \in Servers : pc[u] = "threw" => pc'[u] = "threw"
  PROVE  Kept /\ RegInv' /\ OrderInv'
BY DEF Kept, IInv, RegInv, OrderInv

----------------------------------------------------------------------------
(* The invariant holds before anything is registered.                      *)
LEMMA InitInv == Init => IInv
<1> SUFFICES ASSUME Init PROVE IInv
  OBVIOUS
<1>1. TypeOK
  <2>1. registrations \in Registries
    BY DEF Init, Registries
  <2>2. \A s \in Servers : next[s] \in 1..(Len(Canonical) + 1)
    BY CanonicalFacts DEF Init
  <2>3. next \in [Servers -> 1..(Len(Canonical) + 1)]
    BY <2>2 DEF Init
  <2> QED
    BY <2>1, <2>3 DEF Init, TypeOK
<1>2. Known(registrations) = {} /\ \A p : By(registrations, p) = {}
  BY DEF Init, Known, By
<1>3. RegInv /\ OrderInv
  BY <1>2 DEF RegInv, OrderInv
<1>4. CatalogInv /\ CanonicalInv
  BY CanonicalFacts DEF Init, CatalogInv, CatalogCurrent, CanonicalInv, CanonicalAt
<1>5. PassInv /\ TriedInv /\ CompleteInv /\ FailsOnlyForCause
  BY DEF Init, PassInv, PassAt, TriedInv, TriedAt, CompleteInv, Frozen, FailsOnlyForCause
<1> QED
  BY <1>1, <1>3, <1>4, <1>5 DEF IInv

(* Plugins register their own codecs and the canonical types.              *)
LEMMA PluginKeeps ==
  ASSUME IInv, PluginRegister \/ TransportRegister
  PROVE  IInv'
<1>1. /\ UNCHANGED <<foreign, freezeVars, skipped>>
      /\ UNCHANGED <<pc, next, pending, todo, current, progress>>
  BY DEF PluginRegister, TransportRegister, passVars
<1>2. Grows
  <2>1. ASSUME PluginRegister PROVE Grows
    <3>1. PICK c \in Custom : Stored(c[1], Registration("custom", c[2]))
      BY <2>1 DEF PluginRegister
    <3>2. c[1] \in Types /\ c[2] \in Definitions
      BY RegistryAssumption
    <3>3. /\ Registration("custom", c[2]) \in Registrations
          /\ Registration("custom", c[2]).provider = "custom"
      BY <3>2, RegistrationTypes
    <3>4. registrations' = registrations \/ Added(c[1], Registration("custom", c[2]))
      BY <3>1, <3>2, <3>3, StoredCases DEF IInv
    <3> QED
      BY <3>3, <3>4 DEF Grows, Origin
  <2>2. ASSUME TransportRegister PROVE Grows
    <3>1. PICK t \in CanonicalTypes : Stored(t, Registration("canonical", CanonicalDefs[t]))
      BY <2>2 DEF TransportRegister, CanonicalTypes
    <3> DEFINE r == Registration("canonical", CanonicalDefs[t])
    <3>2. t \in Types /\ CanonicalDefs[t] \in Definitions
      BY CanonicalFacts, CanonicalDefinitions
    <3>3. r \in Registrations /\ r.provider = "canonical" /\ r.def = CanonicalDefs[t]
      BY <3>2, RegistrationTypes
    <3>4. registrations' = registrations \/ Added(t, r)
      BY <3>1, <3>2, <3>3, StoredCases DEF IInv
    <3> QED
      BY <3>3, <3>4 DEF Grows, Origin
  <2> QED
    BY <2>1, <2>2
<1>3. /\ registrations' \in Registries /\ RegInv' /\ OrderInv'
      /\ Undisturbed' /\ Frozen => registrations' = registrations
  BY <1>1, <1>2, GrowthKeeps
<1>4. Kept
  BY <1>1, <1>2, GrowthIsKept
<1>5. TypeOK'
  BY <1>1, <1>3 DEF IInv, TypeOK, freezeVars
<1> QED
  BY <1>1, <1>3, <1>4, <1>5, OutsideKeeps

(* A foreign protocol takes a slot.                                        *)
LEMMA ForeignKeeps ==
  ASSUME IInv, ForeignProtocol
  PROVE  IInv'
<1>1. /\ UNCHANGED <<registrations, freezeVars, skipped>>
      /\ UNCHANGED <<pc, next, pending, todo, current, progress>>
  BY DEF ForeignProtocol, passVars
<1>2. PICK t \in Foreign \ foreign : foreign' = foreign \cup {t}
  BY DEF ForeignProtocol
<1>3. TypeOK'
  BY <1>1, <1>2 DEF IInv, TypeOK, freezeVars
<1>4. RegInv' /\ OrderInv'
  BY <1>1 DEF IInv, RegInv, OrderInv
<1>5. Kept
  BY <1>1, <1>2 DEF Kept
<1> QED
  BY <1>1, <1>3, <1>4, <1>5, OutsideKeeps

(* A server that leaves the registry alone.                                *)
LEMMA QuietServerKeeps ==
  ASSUME IInv, UNCHANGED <<registrations, foreign, freezeVars>>, skipped => skipped',
         NEW s \in Servers, TypeOK',
         \A u \in Servers \ {s} :
           /\ pc'[u] = pc[u] /\ next'[u] = next[u] /\ pending'[u] = pending[u]
           /\ todo'[u] = todo[u] /\ current'[u] = current[u] /\ progress'[u] = progress[u],
         CanonicalAt(s)' /\ PassAt(s)' /\ TriedAt(s)',
         pc[s] # "threw", pc'[s] # "failed",
         pc'[s] = "freeze" => frozen \/ (Undisturbed => Complete(registrations, foreign))
  PROVE  IInv'
<1>1. Kept /\ RegInv' /\ OrderInv' /\ UNCHANGED <<registrations, foreign, frozen, catalog>>
  BY StandstillIsKept DEF freezeVars
<1>2. CatalogInv' /\ (frozen' => CanonicalTypes \subseteq Known(registrations'))
  BY <1>1, CatalogKept
<1>3. CompleteInv'
  <2> SUFFICES ASSUME Quiet', catalog' # None \/ (~Spoiled' /\ Frozen')
               PROVE  Complete(registrations, foreign)
    BY <1>1 DEF CompleteInv
  <2>1. Quiet /\ (~Spoiled' => ~Spoiled)
    BY <1>1, DisturbanceKept
  <2>2. CASE catalog # None \/ (~Spoiled /\ Frozen)
    BY <2>1, <2>2 DEF IInv, CompleteInv
  <2>3. CASE ~Spoiled /\ ~Frozen /\ Frozen'
    <3>1. ~frozen /\ pc'[s] = "freeze"
      BY <1>1, <2>3 DEF Frozen
    <3> QED
      BY <2>1, <2>3, <3>1 DEF Undisturbed
  <2> QED
    BY <1>1, <2>1, <2>2, <2>3
<1> QED
  BY <1>1, <1>2, <1>3, ServerKeeps

(* Variables of a server that moves.                                       *)
LEMMA PcFacts ==
  ASSUME TypeOK, NEW s \in Servers, NEW l, pc' = [pc EXCEPT ![s] = l]
  PROVE  pc'[s] = l /\ \A u \in Servers \ {s} : pc'[u] = pc[u]
BY DEF TypeOK

(* A start begins, or is done with the canonical types.                    *)
LEMMA BeginKeeps ==
  ASSUME IInv, NEW s \in Servers, Begin(s) \/ CanonicalDone(s)
  PROVE  IInv'
<1>1. /\ UNCHANGED <<registrations, foreign, freezeVars, skipped>>
      /\ UNCHANGED <<next, pending, todo, current, progress>> /\ TypeOK
      /\ pc[s] # "threw"
  BY DEF Begin, CanonicalDone, IInv, regVars, passVars
<1>2. PICK l \in {"freeze", "canonical", "collect"} : pc' = [pc EXCEPT ![s] = l]
  BY DEF Begin, CanonicalDone
<1>3. pc'[s] = l /\ \A u \in Servers \ {s} : pc'[u] = pc[u]
  BY <1>1, <1>2, PcFacts
<1>4. /\ l = "freeze" => frozen
      /\ l = "canonical" => pc[s] = "begin"
      /\ l = "collect" => pc[s] = "canonical" /\ next[s] > Len(Canonical)
  BY <1>1, <1>3 DEF Begin, CanonicalDone, TypeOK
<1>5. TypeOK'
  BY <1>1, <1>2 DEF TypeOK, freezeVars
<1>6. next[s] \in Nat /\ CanonicalAt(s) /\ (frozen => CanonicalTypes \subseteq Known(registrations))
  BY CanonicalFacts DEF IInv, TypeOK, CanonicalInv
<1>7. l = "collect" => CanonicalTypes \subseteq Known(registrations)
  <2> SUFFICES ASSUME l = "collect", NEW t \in CanonicalTypes PROVE t \in Known(registrations)
    OBVIOUS
  <2>1. PICK i \in 1..Len(Canonical) : t = Canonical[i]
    BY CanonicalFacts
  <2>2. i \in 1..(next[s] - 1)
    BY <1>4, <1>6, CanonicalFacts
  <2> QED
    BY <1>4, <1>6, <2>1, <2>2 DEF CanonicalAt
<1>8. CanonicalAt(s)'
  BY <1>1, <1>3, <1>4, <1>6, <1>7 DEF CanonicalAt
<1>9. PassAt(s)' /\ TriedAt(s)'
  BY <1>3 DEF PassAt, TriedAt
<1> QED
  BY <1>1, <1>3, <1>4, <1>5, <1>8, <1>9, QuietServerKeeps

(* A start collects the types to reflect.                                  *)
LEMMA CollectKeeps ==
  ASSUME IInv, NEW s \in Servers, Collect(s)
  PROVE  IInv'
<1> DEFINE rest == Types \ Coded
<1>1. /\ UNCHANGED <<registrations, foreign, freezeVars, skipped>> /\ UNCHANGED <<next, current>> /\ pc[s] = "collect" /\ TypeOK
      /\ pc' = [pc EXCEPT ![s] = "reflect"] /\ pending' = [pending EXCEPT ![s] = rest]
      /\ todo' = [todo EXCEPT ![s] = rest]
  BY DEF Collect, IInv, regVars
<1>2. progress \in [Servers -> BOOLEAN] /\ progress' = [progress EXCEPT ![s] = FALSE]
  BY DEF Collect, IInv, TypeOK
<1>3. progress' \in [Servers -> BOOLEAN] /\ \A u \in Servers \ {s} : progress'[u] = progress[u]
  BY <1>2, Zenon
<1>4. rest = Types \ (Known(registrations) \ foreign)
  BY KnownIsRegistered DEF Coded
<1> HIDE DEF rest
<1>5. /\ pc'[s] = "reflect" /\ pending'[s] = rest /\ todo'[s] = rest
      /\ \A u \in Servers \ {s} : pc'[u] = pc[u] /\ pending'[u] = pending[u] /\ todo'[u] = todo[u]
  BY <1>1 DEF TypeOK
<1>6. TypeOK'
  <2>1. rest \in SUBSET Types
    BY <1>4
  <2>2. \A u \in Servers : todo'[u] \subseteq pending'[u]
    BY <1>1, <1>5 DEF TypeOK
  <2> QED
    BY <1>1, <1>3, <2>1, <2>2 DEF TypeOK, freezeVars
<1>7. CanonicalTypes \subseteq Known(registrations)
  BY <1>1 DEF IInv, CanonicalInv, CanonicalAt
<1>8. CanonicalAt(s)' /\ PassAt(s)'
  BY <1>1, <1>4, <1>5, <1>7, CanonicalFacts DEF CanonicalAt, PassAt
<1>9. TriedAt(s)'
  BY <1>5 DEF TriedAt
<1> QED
  BY <1>1, <1>3, <1>5, <1>6, <1>8, <1>9, QuietServerKeeps

(* A pass looks at one type.                                               *)
LEMMA ReflectKeeps ==
  ASSUME IInv, NEW s \in Servers, Reflect(s)
  PROVE  IInv'
<1>1. PICK t \in todo[s] :
        /\ todo' = [todo EXCEPT ![s] = @ \ {t}]
        /\ IF Reflectable(t)
           THEN current' = [current EXCEPT ![s] = t] /\ pc' = [pc EXCEPT ![s] = "register"]
           ELSE UNCHANGED <<current, pc>>
  BY DEF Reflect
<1>2. /\ UNCHANGED <<registrations, foreign, freezeVars, skipped>>
      /\ UNCHANGED <<next, pending, progress>> /\ pc[s] = "reflect" /\ TypeOK
  BY DEF Reflect, IInv, regVars
<1>3. /\ todo'[s] = todo[s] \ {t} /\ \A u \in Servers \ {s} : todo'[u] = todo[u]
      /\ t \in pending[s] /\ t \in Types
  BY <1>1, <1>2 DEF TypeOK
<1>4. /\ Reflectable(t) => pc'[s] = "register" /\ current'[s] = t
      /\ ~Reflectable(t) => pc'[s] = "reflect"
      /\ \A u \in Servers \ {s} : pc'[u] = pc[u] /\ current'[u] = current[u]
  BY <1>1, <1>2 DEF TypeOK
<1>5. TypeOK'
  <2>1. \A u \in Servers : todo'[u] \subseteq pending'[u]
    BY <1>2, <1>3 DEF TypeOK
  <2>2. todo' \in [Servers -> SUBSET Types]
    BY <1>1, <1>2 DEF TypeOK
  <2>3. current' \in [Servers -> Types \cup {None}]
    <3>1. t \in Types \cup {None} /\ current \in [Servers -> Types \cup {None}]
      BY <1>2, <1>3 DEF TypeOK
    <3>2. current' = current \/ current' = [current EXCEPT ![s] = t]
      BY <1>1
    <3> QED
      BY <3>1, <3>2
  <2>4. pc' = pc \/ pc' = [pc EXCEPT ![s] = "register"]
    BY <1>1
  <2> QED
    BY <1>2, <2>1, <2>2, <2>3, <2>4 DEF TypeOK, freezeVars
<1>6. CanonicalAt(s) /\ PassAt(s) /\ TriedAt(s)
  BY DEF IInv, CanonicalInv, PassInv, TriedInv
<1>7. Reflectable(t) <=> Members[t] # {} /\ Members[t] \subseteq Known(registrations) \ foreign
  BY KnownIsRegistered DEF Reflectable, Coded
<1>8. CanonicalAt(s)'
  BY <1>2, <1>4, <1>6 DEF CanonicalAt
<1>9. PassAt(s)'
  BY <1>2, <1>3, <1>4, <1>6, <1>7 DEF PassAt
<1>10. TriedAt(s)'
  <2>0. Undisturbed' => Undisturbed
    BY <1>2 DEF Undisturbed, Quiet, Spoiled
  <2>1. Undisturbed /\ ~Reflectable(t) => Hopeless(t, pending[s], foreign)
    BY <1>2, <1>6, <1>7 DEF Hopeless, PassAt, Undisturbed, Spoiled
  <2>2. \A u \in pending[s] \ todo'[s] : u = t \/ u \in pending[s] \ todo[s]
    BY <1>3
  <2> QED
    BY <1>2, <1>4, <1>6, <2>0, <2>1, <2>2 DEF TriedAt, freezeVars
<1> QED
  BY <1>2, <1>3, <1>4, <1>5, <1>8, <1>9, <1>10, QuietServerKeeps

(* A reflection throws, which disturbs.                                    *)
LEMMA ReflectThrowsKeeps ==
  ASSUME IInv, NEW s \in Servers, ReflectThrows(s)
  PROVE  IInv'
<1>1. PICK t \in todo[s] : todo' = [todo EXCEPT ![s] = @ \ {t}]
  BY DEF ReflectThrows
<1>2. /\ UNCHANGED <<registrations, foreign, freezeVars>>
      /\ UNCHANGED <<pc, next, pending, current, progress>> /\ pc[s] = "reflect" /\ TypeOK
  BY DEF ReflectThrows, IInv
<1>3. skipped \in BOOLEAN /\ skipped' = (skipped \/ ~frozen)
  BY DEF ReflectThrows, IInv, TypeOK
<1>4. skipped' \in BOOLEAN /\ (skipped => skipped') /\ (~frozen => skipped')
  BY <1>3
<1>5. todo'[s] = todo[s] \ {t} /\ \A u \in Servers \ {s} : todo'[u] = todo[u]
  BY <1>1, <1>2 DEF TypeOK
<1>6. TypeOK'
  <2>1. \A u \in Servers : todo'[u] \subseteq pending'[u]
    BY <1>2, <1>5 DEF TypeOK
  <2>2. todo' \in [Servers -> SUBSET Types]
    BY <1>1, <1>2 DEF TypeOK
  <2> QED
    BY <1>2, <1>4, <2>1, <2>2 DEF TypeOK, freezeVars
<1>7. CanonicalAt(s)' /\ PassAt(s)'
  BY <1>2 DEF IInv, CanonicalInv, CanonicalAt, PassInv, PassAt
<1>8. TriedAt(s)'
  BY <1>2, <1>4 DEF TriedAt, Undisturbed, Quiet, freezeVars
<1> QED
  BY <1>2, <1>4, <1>5, <1>6, <1>7, <1>8, QuietServerKeeps

(* A pass without progress leaves nothing to reflect, although others      *)
(* register meanwhile: the first of their types would have been progress.  *)
LEMMA PassComplete ==
  ASSUME IInv, NEW s \in Servers, pc[s] = "reflect", todo[s] = {}, ~progress[s], ~frozen,
         Undisturbed
  PROVE  Complete(registrations, foreign)
<1> DEFINE X == Known(registrations) \cap pending[s]
<1>1. PassAt(s) /\ TriedAt(s)
  BY DEF IInv, PassInv, TriedInv
<1>2. \A t \in pending[s] : Hopeless(t, pending[s], foreign)
  BY <1>1 DEF TriedAt
<1>3. /\ Types \ pending[s] \subseteq Known(registrations)
      /\ pending[s] \cap CanonicalTypes \subseteq foreign
      /\ Known(registrations) \cap foreign = {} /\ NoCustom(registrations)
  BY <1>1 DEF PassAt, Undisturbed, Quiet, Spoiled
<1>4. X \in SUBSET By(registrations, "reflected")
  <2> SUFFICES ASSUME NEW t \in X PROVE t \in By(registrations, "reflected")
    OBVIOUS
  <2>1. t \in Types /\ registrations[t] # None /\ registrations[t] \in Registrations
    BY DEF Known, IInv, TypeOK, Registries
  <2>2. registrations[t].provider \in {"canonical", "reflected", "custom"}
    BY <2>1 DEF Registrations
  <2>3. registrations[t].provider # "custom"
    BY <1>3, <2>1 DEF NoCustom, By
  <2>4. registrations[t].provider # "canonical"
    BY <1>3, <2>1 DEF IInv, RegInv, By
  <2> QED
    BY <2>1, <2>2, <2>3, <2>4 DEF By
<1>5. X = {}
  <2> SUFFICES ASSUME X # {} PROVE FALSE
    OBVIOUS
  <2> HIDE DEF X
  <2>1. PICK t \in X : Members[t] \cap X = {}
    BY <1>4 DEF IInv, OrderInv
  <2>2. Members[t] # {} /\ Members[t] \subseteq Known(registrations) /\ t \notin foreign
    BY <1>3, <1>4, <2>1 DEF IInv, RegInv, X
  <2>3. Members[t] \subseteq Types \ pending[s]
    BY <2>1, <2>2 DEF X, Known
  <2> QED
    BY <1>2, <2>1, <2>2, <2>3 DEF Hopeless, X
<1>6. Known(registrations) = Types \ pending[s]
  BY <1>3, <1>5 DEF Known
<1> QED
  BY <1>2, <1>6 DEF Complete, Hopeless

(* A pass ends, with progress or without.                                  *)
LEMMA PassEndsKeeps ==
  ASSUME IInv, NEW s \in Servers, PassEnds(s)
  PROVE  IInv'
<1>1. /\ UNCHANGED <<registrations, foreign, freezeVars, skipped>> /\ UNCHANGED <<next, current>>
      /\ TypeOK /\ pc[s] = "reflect" /\ todo[s] = {}
  BY DEF PassEnds, IInv, regVars
<1>2. CanonicalAt(s) /\ PassAt(s) /\ TriedAt(s)
  BY DEF IInv, CanonicalInv, PassInv, TriedInv
<1>3. CASE progress[s]
  <2>1. /\ todo' = [todo EXCEPT ![s] = pending[s]] /\ UNCHANGED <<pc, pending>>
        /\ progress \in [Servers -> BOOLEAN] /\ progress' = [progress EXCEPT ![s] = FALSE]
    BY <1>1, <1>3 DEF PassEnds, TypeOK
  <2>2. progress' \in [Servers -> BOOLEAN] /\ \A u \in Servers \ {s} : progress'[u] = progress[u]
    BY <2>1, Zenon
  <2>3. todo'[s] = pending[s] /\ \A u \in Servers \ {s} : todo'[u] = todo[u]
    BY <1>1, <2>1 DEF TypeOK
  <2>4. TypeOK'
    <3>1. \A u \in Servers : todo'[u] \subseteq pending'[u]
      BY <1>1, <2>1, <2>3 DEF TypeOK
    <3> QED
      BY <1>1, <2>1, <2>2, <3>1 DEF TypeOK, freezeVars
  <2>5. CanonicalAt(s)' /\ PassAt(s)'
    BY <1>1, <1>2, <2>1 DEF CanonicalAt, PassAt
  <2>6. TriedAt(s)'
    BY <1>1, <2>1, <2>3 DEF TriedAt
  <2> QED
    BY <1>1, <2>1, <2>2, <2>3, <2>4, <2>5, <2>6, QuietServerKeeps
<1>4. CASE ~progress[s]
  <2>1. /\ pc' = [pc EXCEPT ![s] = "freeze"] /\ UNCHANGED <<todo, progress>>
        /\ pending' = [pending EXCEPT ![s] = {}]
    BY <1>4 DEF PassEnds
  <2>2. /\ pc'[s] = "freeze" /\ \A u \in Servers \ {s} : pc'[u] = pc[u]
        /\ \A u \in Servers \ {s} : pending'[u] = pending[u]
    BY <1>1, <2>1 DEF TypeOK
  <2>3. TypeOK'
    <3>1. \A u \in Servers : todo'[u] \subseteq pending'[u]
      BY <1>1, <2>1, <2>2 DEF TypeOK
    <3>2. pending' \in [Servers -> SUBSET Types]
      BY <1>1, <2>1 DEF TypeOK
    <3> QED
      BY <1>1, <2>1, <3>1, <3>2 DEF TypeOK, freezeVars
  <2>4. CanonicalAt(s)' /\ PassAt(s)' /\ TriedAt(s)'
    BY <1>1, <1>2, <2>2 DEF CanonicalAt, PassAt, TriedAt
  <2>5. frozen \/ (Undisturbed => Complete(registrations, foreign))
    BY <1>1, <1>4, PassComplete
  <2> QED
    BY <1>1, <2>1, <2>2, <2>3, <2>4, <2>5, QuietServerKeeps
<1> QED
  BY <1>3, <1>4

(* A server that registers, the others standing by.                        *)
LEMMA RegisteringServerKeeps ==
  ASSUME IInv, Grows, UNCHANGED <<foreign, freezeVars, skipped>>, NEW s \in Servers, TypeOK',
         \A u \in Servers \ {s} :
           /\ pc'[u] = pc[u] /\ next'[u] = next[u] /\ pending'[u] = pending[u]
           /\ todo'[u] = todo[u] /\ current'[u] = current[u] /\ progress'[u] = progress[u],
         CanonicalAt(s)' /\ PassAt(s)' /\ TriedAt(s)',
         pc[s] # "threw", pc'[s] # "freeze", pc'[s] = "failed" => Cause'
  PROVE  IInv'
<1>1. /\ Kept /\ RegInv' /\ OrderInv'
      /\ Undisturbed' /\ Frozen => registrations' = registrations
  BY GrowthKeeps, GrowthIsKept
<1>2. CatalogInv' /\ (frozen' => CanonicalTypes \subseteq Known(registrations'))
  BY <1>1, CatalogKept
<1>3. Frozen' => Frozen
  BY DEF Frozen, freezeVars
<1>4. CompleteInv'
  BY <1>1, <1>3, CompleteKept
<1> QED
  BY <1>1, <1>2, <1>4, ServerKeeps

(* A registration is refused to a canonical or reflected codec only by a   *)
(* plugin's codec, a foreign protocol or the freeze.                       *)
LEMMA RefusedCases ==
  ASSUME IInv, NEW t \in Types, NEW p \in {"canonical", "reflected"}, NEW d \in Definitions,
         p = "canonical" => t \in CanonicalTypes /\ d = CanonicalDefs[t],
         p = "reflected" => t \in foreign \/ (t \notin CanonicalTypes /\ d = Reflected(t)),
         ~Accepted(t, Registration(p, d))
  PROVE  \/ t \in By(registrations, "custom")
         \/ t \in foreign
         \/ registrations[t] = None /\ frozen
<1>1. CASE registrations[t] = None \/ t \in foreign
  BY <1>1 DEF Accepted
<1>2. CASE registrations[t] # None /\ t \notin foreign
  <2>1. registrations[t] \in Registrations
    BY <1>2 DEF IInv, TypeOK, Registries
  <2>2. /\ registrations[t] = [provider |-> registrations[t].provider, def |-> registrations[t].def]
        /\ registrations[t].provider \in {"canonical", "reflected", "custom"}
    BY <2>1 DEF Registrations
  <2>3. registrations[t] # Registration(p, d)
    BY <1>2 DEF Accepted
  <2>4. \A q : registrations[t].provider = q => t \in By(registrations, q)
    BY <1>2 DEF By
  <2>5. CASE registrations[t].provider = "canonical"
    <3>1. t \in CanonicalTypes /\ registrations[t].def = CanonicalDefs[t]
      BY <2>4, <2>5 DEF IInv, RegInv
    <3>2. p = "canonical" /\ registrations[t].def = d
      BY <1>2, <3>1
    <3> QED
      BY <2>2, <2>3, <2>5, <3>2 DEF Registration
  <2>6. CASE registrations[t].provider = "reflected"
    <3>1. t \notin CanonicalTypes /\ registrations[t].def = Reflected(t)
      BY <2>4, <2>6 DEF IInv, RegInv
    <3>2. p = "reflected" /\ registrations[t].def = d
      BY <1>2, <3>1
    <3> QED
      BY <2>2, <2>3, <2>6, <3>2 DEF Registration
  <2> QED
    BY <2>2, <2>4, <2>5, <2>6
<1> QED
  BY <1>1, <1>2

(* A start registers a canonical type.                                     *)
LEMMA RegisterCanonicalKeeps ==
  ASSUME IInv, NEW s \in Servers, RegisterCanonical(s)
  PROVE  IInv'
<1> DEFINE t == Canonical[next[s]]
           d == CanonicalDefs[t]
           r == Registration("canonical", d)
<1>1. /\ pc[s] = "canonical" /\ next[s] <= Len(Canonical) /\ Stored(t, r)
      /\ Accepted(t, r) => next' = [next EXCEPT ![s] = @ + 1] /\ UNCHANGED pc
      /\ ~Accepted(t, r) => pc' = [pc EXCEPT ![s] = "failed"] /\ UNCHANGED next
  BY DEF RegisterCanonical
<1>2. /\ UNCHANGED <<foreign, freezeVars, skipped>>
      /\ UNCHANGED <<pending, todo, current, progress>> /\ TypeOK
  BY DEF RegisterCanonical, IInv, passVars
<1>3. next[s] \in 1..Len(Canonical) /\ Len(Canonical) \in Nat /\ next[s] \in Nat
  BY <1>1, <1>2, CanonicalFacts DEF TypeOK
<1>4. t \in CanonicalTypes /\ t \in Types /\ d \in Definitions
  BY <1>3, CanonicalFacts, CanonicalDefinitions
<1>5. r \in Registrations /\ r.provider = "canonical" /\ r.def = d
  BY <1>4, RegistrationTypes
<1>6. ~Accepted(t, r) => \/ t \in By(registrations, "custom")
                         \/ t \in foreign
                         \/ registrations[t] = None /\ frozen
  BY <1>4, RefusedCases
<1>7. /\ registrations' = registrations \/ Added(t, r)
      /\ Accepted(t, r) => t \in Known(registrations')
  BY <1>1, <1>2, <1>4, <1>5, StoredCases
<1> HIDE DEF r, d
<1>8. Grows
  BY <1>4, <1>5, <1>7 DEF Grows, Origin, d
<1>10. \A u \in Servers \ {s} : pc'[u] = pc[u] /\ next'[u] = next[u]
  BY <1>1, <1>2 DEF TypeOK
<1>9. /\ registrations' \in Registries /\ Known(registrations) \subseteq Known(registrations') /\ Kept
  BY <1>1, <1>2, <1>8, <1>10, GrowthKeeps, GrowthIsKept
<1>11. CanonicalAt(s)
  BY DEF IInv, CanonicalInv
<1>12. CASE Accepted(t, r)
  <2>1. UNCHANGED pc /\ next' = [next EXCEPT ![s] = @ + 1] /\ t \in Known(registrations')
    BY <1>1, <1>7, <1>12
  <2>2. next'[s] = next[s] + 1
    BY <1>2, <2>1 DEF TypeOK
  <2>3. next' \in [Servers -> 1..(Len(Canonical) + 1)]
    BY <1>2, <1>3, <2>1 DEF TypeOK
  <2>4. TypeOK'
    BY <1>2, <1>9, <2>1, <2>3 DEF TypeOK, freezeVars
  <2>5. \A i \in 1..(next'[s] - 1) : Canonical[i] \in Known(registrations')
    <3> SUFFICES ASSUME NEW i \in 1..(next'[s] - 1) PROVE Canonical[i] \in Known(registrations')
      OBVIOUS
    <3>1. CASE i = next[s]
      BY <2>1, <3>1
    <3>2. CASE i # next[s]
      <4>1. i \in 1..(next[s] - 1)
        BY <1>3, <2>2, <3>2
      <4> QED
        BY <1>1, <1>9, <1>11, <4>1 DEF CanonicalAt
    <3> QED
      BY <3>1, <3>2
  <2>6. CanonicalAt(s)' /\ PassAt(s)' /\ TriedAt(s)'
    BY <1>1, <2>1, <2>5 DEF CanonicalAt, PassAt, TriedAt
  <2> QED
    BY <1>1, <1>2, <1>8, <1>10, <2>1, <2>4, <2>6, RegisteringServerKeeps
<1>13. CASE ~Accepted(t, r)
  <2>1. pc' = [pc EXCEPT ![s] = "failed"] /\ UNCHANGED next
    BY <1>1, <1>13
  <2>2. pc'[s] = "failed"
    BY <1>2, <2>1, PcFacts
  <2>3. TypeOK'
    BY <1>2, <1>9, <2>1 DEF TypeOK, freezeVars
  <2>4. CanonicalAt(s)' /\ PassAt(s)' /\ TriedAt(s)'
    BY <2>2 DEF CanonicalAt, PassAt, TriedAt
  <2>5. ~(registrations[t] = None /\ frozen)
    BY <1>4 DEF IInv, CanonicalInv, Known
  <2>6. Cause
    BY <1>4, <1>6, <1>13, <2>5 DEF Cause
  <2>7. Cause'
    BY <1>9, <2>6, CauseKept
  <2> QED
    BY <1>1, <1>2, <1>8, <1>10, <2>1, <2>2, <2>3, <2>4, <2>7, RegisteringServerKeeps
<1> QED
  BY <1>12, <1>13

(* A pass registers a type all of whose members have codecs.               *)
LEMMA RegisterReflectedKeeps ==
  ASSUME IInv, NEW s \in Servers, RegisterReflected(s)
  PROVE  IInv'
<1> DEFINE t == current[s]
           d == Reflected(t)
           r == Registration("reflected", d)
<1>1. /\ pc[s] = "register" /\ Stored(t, r)
      /\ Accepted(t, r) => pending' = [pending EXCEPT ![s] = @ \ {t}]
      /\ ~Accepted(t, r) => UNCHANGED pending
      /\ pc' = [pc EXCEPT ![s] = "reflect"] /\ current' = [current EXCEPT ![s] = None]
      /\ UNCHANGED <<foreign, freezeVars, skipped>> /\ UNCHANGED <<next, todo>> /\ TypeOK
  BY DEF RegisterReflected, IInv, Reflected
<1>2. /\ Accepted(t, r) => progress' = [progress EXCEPT ![s] = TRUE]
      /\ ~Accepted(t, r) => progress' = progress
  BY DEF RegisterReflected, Reflected
<1>3. CanonicalAt(s) /\ PassAt(s) /\ TriedAt(s)
  BY DEF IInv, CanonicalInv, PassInv, TriedInv
<1>4. /\ t \in pending[s] \ todo[s] /\ t \in Types
      /\ t \in foreign \/ t \notin CanonicalTypes
      /\ Types \ pending[s] \subseteq Known(registrations)
      /\ Members[t] # {} /\ Members[t] \subseteq Known(registrations) /\ d \in Definitions
  BY <1>1, <1>3, ReflectedTypes DEF PassAt, TypeOK
<1>5. r \in Registrations /\ r.provider = "reflected" /\ r.def = d
  BY <1>4, RegistrationTypes
<1>6. ~Accepted(t, r) => \/ t \in By(registrations, "custom")
                         \/ t \in foreign
                         \/ registrations[t] = None /\ frozen
  BY <1>4, RefusedCases
<1>7. /\ registrations' = registrations \/ Added(t, r)
      /\ Accepted(t, r) => t \in Known(registrations')
  BY <1>1, <1>4, <1>5, StoredCases
<1>8. progress \in [Servers -> BOOLEAN]
  BY <1>1 DEF TypeOK
<1>9. /\ progress' \in [Servers -> BOOLEAN]
      /\ \A u \in Servers \ {s} : progress'[u] = progress[u]
      /\ Accepted(t, r) => progress'[s]
  <2>1. CASE Accepted(t, r)
    <3>1. progress' = [progress EXCEPT ![s] = TRUE]
      BY <1>2, <2>1
    <3> HIDE DEF t, r
    <3> QED
      BY <1>8, <3>1, Zenon
  <2>2. CASE ~Accepted(t, r)
    BY <1>2, <1>8, <2>2
  <2> QED
    BY <2>1, <2>2
<1> HIDE DEF r, d
<1>10. Grows
  BY <1>4, <1>5, <1>7 DEF Grows, Origin, Added, d
<1>11. /\ registrations' \in Registries /\ Known(registrations) \subseteq Known(registrations') /\ Kept
  <2>1. \A u \in Servers : pc[u] = "threw" => pc'[u] = "threw"
    BY <1>1 DEF TypeOK
  <2> QED
    BY <1>1, <1>10, <2>1, GrowthKeeps, GrowthIsKept
<1>12. /\ pc'[s] = "reflect" /\ todo'[s] = todo[s]
       /\ \A u \in Servers \ {s} : pc'[u] = pc[u] /\ current'[u] = current[u] /\ pending'[u] = pending[u]
       /\ Accepted(t, r) => pending'[s] = pending[s] \ {t}
       /\ ~Accepted(t, r) => pending'[s] = pending[s]
  <2>1. pc'[s] = "reflect" /\ todo'[s] = todo[s]
    BY <1>1 DEF TypeOK
  <2>2. \A u \in Servers \ {s} : pc'[u] = pc[u] /\ current'[u] = current[u]
    BY <1>1 DEF TypeOK
  <2>3. CASE Accepted(t, r)
    BY <1>1, <2>1, <2>2, <2>3 DEF TypeOK
  <2>4. CASE ~Accepted(t, r)
    BY <1>1, <2>1, <2>2, <2>4
  <2> QED
    BY <2>3, <2>4
<1>13. TypeOK'
  <2>1. \A u \in Servers : todo'[u] \subseteq pending'[u]
    BY <1>1, <1>4, <1>12 DEF TypeOK
  <2>2. pending' \in [Servers -> SUBSET Types]
    BY <1>1 DEF TypeOK
  <2>3. current' \in [Servers -> Types \cup {None}]
    BY <1>1 DEF TypeOK
  <2> QED
    BY <1>1, <1>9, <1>11, <2>1, <2>2, <2>3 DEF TypeOK, freezeVars
<1>14. CanonicalAt(s)'
  BY <1>1, <1>3, <1>11, <1>12 DEF CanonicalAt
<1>15. PassAt(s)'
  <2>1. pending[s] \cap CanonicalTypes \subseteq foreign
    BY <1>1, <1>3 DEF PassAt
  <2>2. Types \ pending'[s] \subseteq Known(registrations')
    BY <1>4, <1>7, <1>11, <1>12
  <2>3. pending'[s] \cap CanonicalTypes \subseteq foreign'
    BY <1>1, <1>12, <2>1
  <2> QED
    BY <1>12, <2>2, <2>3 DEF PassAt
<1>16. TriedAt(s)'
  <2> SUFFICES ASSUME ~progress'[s], ~frozen', Undisturbed',
                      NEW u \in pending'[s] \ todo'[s]
               PROVE  Hopeless(u, pending'[s], foreign')
    BY DEF TriedAt
  <2>1. ~Accepted(t, r)
    BY <1>9
  <2>2. progress' = progress
    BY <1>2, <2>1 DEF r, d
  <2>3. ~frozen /\ Undisturbed /\ pending'[s] = pending[s] /\ foreign' = foreign
    BY <1>1, <1>11, <1>12, <2>1, DisturbanceKept DEF freezeVars
  <2>4. CASE u = t
    <3>1. t \in foreign
      BY <1>6, <2>1, <2>3 DEF NoCustom, Undisturbed, Quiet
    <3> QED
      BY <2>3, <2>4, <3>1 DEF Hopeless
  <2>5. CASE u # t
    <3>1. u \in pending[s] \ todo[s] /\ ~progress[s]
      BY <1>12, <2>2, <2>3
    <3> QED
      BY <1>1, <1>3, <2>3, <2>5, <3>1 DEF TriedAt
  <2> QED
    BY <2>4, <2>5
<1> QED
  BY <1>1, <1>9, <1>10, <1>12, <1>13, <1>14, <1>15, <1>16, RegisteringServerKeeps

(* What the freeze decides and why.                                        *)
LEMMA VerdictCases ==
  /\ Verdict \in {"none", "changed", "unsound"}
  /\ Verdict = "none" => ~Spoiled
  /\ Verdict = "changed" => Registered \cap foreign # {}
  /\ Verdict = "unsound" => ~Sound(registrations)
<1>1. Spoiled <=> Registered \cap foreign # {}
  BY KnownIsRegistered DEF Spoiled
<1> QED
  BY <1>1 DEF Verdict

(* A start freezes the registry, with a catalog or a cause for its         *)
(* absence, and ends; the others stand by.                                 *)
LEMMA FreezingServerKeeps ==
  ASSUME IInv, NEW s \in Servers, pc[s] = "freeze", ~frozen, frozen' = TRUE,
         UNCHANGED <<registrations, foreign, skipped, next>>, TypeOK',
         \A u \in Servers \ {s} :
           /\ pc'[u] = pc[u] /\ pending'[u] = pending[u] /\ todo'[u] = todo[u]
           /\ current'[u] = current[u] /\ progress'[u] = progress[u],
         pc'[s] \in {"done", "failed", "threw"}, pc'[s] = "failed" => catalog' = None,
         \/ catalog' = registrations /\ ~Spoiled
         \/ catalog' = None /\ NoCatalogCause'
  PROVE  IInv'
<1>1. Kept
  BY DEF Kept
<1>2. RegInv' /\ OrderInv'
  BY DEF IInv, RegInv, OrderInv
<1>3. registrations # None
  BY NoneAssumption DEF IInv, TypeOK
<1>4. CatalogInv'
  BY <1>3 DEF CatalogInv, CatalogCurrent
<1>5. CanonicalTypes \subseteq Known(registrations')
  BY DEF IInv, CanonicalInv, CanonicalAt
<1>6. CompleteInv'
  <2> SUFFICES ASSUME Quiet', catalog' # None \/ ~Spoiled' PROVE Complete(registrations, foreign)
    BY DEF CompleteInv
  <2>1. Quiet /\ ~Spoiled /\ Frozen
    BY <1>3 DEF Quiet, Spoiled, Frozen
  <2> QED
    BY <2>1 DEF IInv, CompleteInv
<1>7. CanonicalAt(s)' /\ PassAt(s)' /\ TriedAt(s)'
  BY DEF CanonicalAt, PassAt, TriedAt
<1>8. pc'[s] = "failed" => Cause'
  BY <1>4 DEF CatalogInv, Cause
<1> QED
  BY <1>1, <1>2, <1>4, <1>5, <1>6, <1>7, <1>8, ServerKeeps

(* A start freezes the catalog, or finds it frozen.                        *)
LEMMA FreezeKeeps ==
  ASSUME IInv, NEW s \in Servers, Freeze(s)
  PROVE  IInv'
<1>1. /\ pc[s] = "freeze" /\ TypeOK /\ UNCHANGED <<registrations, foreign, skipped, next>>
      /\ UNCHANGED <<pending, todo, current, progress>>
  BY DEF Freeze, IInv, passVars
<1>2. PICK l \in {"failed", "done"} : pc' = [pc EXCEPT ![s] = l] /\ (l = "failed" <=> catalog' = None)
  BY DEF Freeze
<1>3. pc'[s] = l /\ \A u \in Servers \ {s} : pc'[u] = pc[u]
  BY <1>1, <1>2, PcFacts
<1>4. pc' \in [Servers -> {"begin", "canonical", "collect", "reflect", "register",
                            "freeze", "done", "failed", "threw"}]
  BY <1>1, <1>2 DEF TypeOK
<1>5. CASE frozen
  <2>1. UNCHANGED freezeVars
    BY <1>5 DEF Freeze
  <2>2. TypeOK'
    BY <1>1, <1>4, <2>1 DEF TypeOK, freezeVars
  <2>3. Kept /\ RegInv' /\ OrderInv'
    BY <1>1, <1>3, <2>1, StandstillIsKept
  <2>4. CatalogInv' /\ (frozen' => CanonicalTypes \subseteq Known(registrations'))
    BY <2>1, <2>3, CatalogKept
  <2>5. CompleteInv'
    BY <1>1, <1>5, <2>1, <2>3, CompleteKept DEF Frozen
  <2>6. CanonicalAt(s)' /\ PassAt(s)' /\ TriedAt(s)'
    BY <1>3 DEF CanonicalAt, PassAt, TriedAt
  <2>7. pc'[s] = "failed" => Cause'
    BY <1>2, <1>3, <1>5, <2>1, <2>4 DEF CatalogInv, Cause, freezeVars
  <2> QED
    BY <1>1, <1>3, <2>2, <2>3, <2>4, <2>5, <2>6, <2>7, ServerKeeps
<1>6. CASE ~frozen
  <2>1. /\ frozen' = TRUE /\ freezeError' = Verdict
        /\ Verdict = "none" => catalog' = registrations
        /\ Verdict # "none" => catalog' = None
    BY <1>6 DEF Freeze
  <2>2. registrations \in Registries
    BY <1>1 DEF TypeOK
  <2>3. TypeOK'
    <3>1. catalog' \in {None} \cup Registries /\ frozen' \in BOOLEAN
      BY <2>1, <2>2
    <3>2. freezeError' \in {"none", "unfrozen", "changed", "unsound"}
      BY <2>1, VerdictCases
    <3> QED
      BY <1>1, <1>4, <3>1, <3>2 DEF TypeOK
  <2>4. Sound(registrations') = Sound(registrations) /\ Registered' = Registered
    BY <1>1 DEF Registered
  <2>5. \/ catalog' = registrations /\ ~Spoiled
        \/ catalog' = None /\ NoCatalogCause'
    BY <1>1, <2>1, <2>4, VerdictCases DEF NoCatalogCause
  <2> QED
    BY <1>1, <1>2, <1>3, <1>6, <2>1, <2>3, <2>5, FreezingServerKeeps
<1> QED
  BY <1>5, <1>6

(* A start ends with an exception, in the middle of a freeze or elsewhere. *)
LEMMA ThrowKeeps ==
  ASSUME IInv, NEW s \in Servers, Throw(s)
  PROVE  IInv'
<1>1. /\ pc[s] \in {"canonical", "collect", "reflect", "register", "freeze"} /\ TypeOK
      /\ pc' = [pc EXCEPT ![s] = "threw"] /\ UNCHANGED <<registrations, foreign, catalog, skipped, next>>
      /\ pending' = [pending EXCEPT ![s] = {}] /\ todo' = [todo EXCEPT ![s] = {}]
      /\ current' = [current EXCEPT ![s] = None]
  BY DEF Throw, IInv
<1>2. progress \in [Servers -> BOOLEAN] /\ progress' = [progress EXCEPT ![s] = FALSE]
  BY DEF Throw, IInv, TypeOK
<1>3. progress' \in [Servers -> BOOLEAN] /\ \A u \in Servers \ {s} : progress'[u] = progress[u]
  BY <1>2, Zenon
<1>4. /\ pc'[s] = "threw" /\ \A u \in Servers \ {s} : pc'[u] = pc[u]
      /\ \A u \in Servers \ {s} : pending'[u] = pending[u] /\ todo'[u] = todo[u]
      /\ \A u \in Servers \ {s} : current'[u] = current[u]
      /\ \A u \in Servers : todo'[u] \subseteq pending'[u]
  BY <1>1 DEF TypeOK
<1>5. /\ pending' \in [Servers -> SUBSET Types] /\ todo' \in [Servers -> SUBSET Types]
      /\ pc' \in [Servers -> {"begin", "canonical", "collect", "reflect", "register",
                               "freeze", "done", "failed", "threw"}]
  BY <1>1 DEF TypeOK
<1>6. current' \in [Servers -> Types \cup {None}]
  BY <1>1 DEF TypeOK
<1>7. CASE pc[s] = "freeze" /\ ~frozen
  <2>1. frozen' = TRUE /\ freezeError' \in {"none", "unfrozen", Verdict}
    BY <1>7 DEF Throw
  <2>2. TypeOK'
    BY <1>1, <1>3, <1>4, <1>5, <1>6, <2>1, VerdictCases DEF TypeOK
  <2>3. catalog' = None
    BY <1>1, <1>7 DEF IInv, CatalogInv, CatalogCurrent
  <2>4. Sound(registrations') = Sound(registrations) /\ Registered' = Registered
    BY <1>1 DEF Registered
  <2>5. NoCatalogCause'
    BY <1>1, <1>4, <2>1, <2>4, VerdictCases DEF NoCatalogCause
  <2> QED
    BY <1>1, <1>3, <1>4, <1>7, <2>1, <2>2, <2>3, <2>5, FreezingServerKeeps
<1>8. CASE ~(pc[s] = "freeze" /\ ~frozen)
  <2>1. UNCHANGED freezeVars
    BY <1>1, <1>8 DEF Throw, freezeVars
  <2>2. TypeOK'
    BY <1>1, <1>3, <1>4, <1>5, <1>6, <2>1 DEF TypeOK, freezeVars
  <2>3. CanonicalAt(s)' /\ PassAt(s)' /\ TriedAt(s)'
    BY <1>4 DEF CanonicalAt, PassAt, TriedAt
  <2> QED
    BY <1>1, <1>3, <1>4, <2>1, <2>2, <2>3, QuietServerKeeps
<1> QED
  BY <1>7, <1>8

(* Every step keeps the invariant.                                         *)
LEMMA StepInv == IInv /\ [Next]_vars => IInv'
<1> SUFFICES ASSUME IInv, [Next]_vars PROVE IInv'
  OBVIOUS
<1>1. CASE PluginRegister \/ TransportRegister
  BY <1>1, PluginKeeps
<1>2. CASE ForeignProtocol
  BY <1>2, ForeignKeeps
<1>3. ASSUME NEW s \in Servers, Server(s) \/ ReflectThrows(s) \/ Throw(s) PROVE IInv'
  BY <1>3, ReflectThrowsKeeps, ThrowKeeps, BeginKeeps, RegisterCanonicalKeeps, CollectKeeps, ReflectKeeps, RegisterReflectedKeeps,
     PassEndsKeeps, FreezeKeeps DEF Server
<1>4. CASE UNCHANGED vars
  <2>1. /\ UNCHANGED <<registrations, foreign, freezeVars, skipped>>
        /\ UNCHANGED <<pc, next, pending, todo, current, progress>>
    BY <1>4 DEF vars, regVars, passVars
  <2>2. TypeOK'
    BY <2>1 DEF IInv, TypeOK, freezeVars
  <2>3. Kept /\ RegInv' /\ OrderInv'
    BY <2>1, StandstillIsKept
  <2> QED
    BY <2>1, <2>2, <2>3, OutsideKeeps
<1> QED
  BY <1>1, <1>2, <1>3, <1>4 DEF Next

(* The inductive invariant holds throughout, whatever the plugins, the     *)
(* foreign protocols and the servers do and in whatever order the          *)
(* reflected types are tried.                                              *)
THEOREM InvariantHolds == Spec => []IInv
BY InitInv, StepInv, PTL DEF Spec

(* A catalog is frozen, is what the registry still contains, and every     *)
(* variable of type_protocol.cpp's Registry keeps its type.                *)
THEOREM RegistryIsSound == Spec => []RegistrySound
<1>1. IInv => RegistrySound
  BY DEF IInv, RegistrySound, CatalogInv
<1> QED
  BY InvariantHolds, <1>1, PTL

(* Server::start is refused in the catalog's block only for a cause that   *)
(* still holds: an unsound catalog, the changed slot of a registered type, *)
(* a freeze that an exception ended, or a canonical type that a plugin or  *)
(* a foreign protocol took.                                                *)
THEOREM FailuresHaveCause == Spec => []FailsOnlyForCause
<1>1. IInv => FailsOnlyForCause
  BY DEF IInv
<1> QED
  BY InvariantHolds, <1>1, PTL

(* A registry leads down to what is given.                                 *)
LEMMA RegisteredIsResolvable ==
  ASSUME IInv
  PROVE  Registered \subseteq Resolvable
<1> DEFINE given == {t \in Registered : registrations[t].provider # "reflected"}
           Closed(S) == given \subseteq S /\ \A t \in Types \ (foreign \ Registered) :
                          Members[t] # {} /\ Members[t] \subseteq S => t \in S
<1>1. Resolvable = {t \in Types : \A S \in {X \in SUBSET Types : Closed(X)} : t \in S}
  BY DEF Resolvable
<1>2. Registered = Known(registrations) /\ Registered \subseteq Types
  BY KnownIsRegistered DEF Known
<1>3. ASSUME NEW S \in SUBSET Types, Closed(S) PROVE Registered \subseteq S
  <2> DEFINE X == Registered \ S
  <2>1. X \in SUBSET By(registrations, "reflected")
    BY <1>2, <1>3 DEF By, Registered
  <2>2. \A t \in By(registrations, "reflected") :
          Members[t] # {} /\ Members[t] \subseteq Registered /\ t \in Types
    BY <1>2 DEF IInv, RegInv, By, Known
  <2>3. ASSUME X # {} PROVE FALSE
    <3>1. PICK t \in X : Members[t] \cap X = {}
      BY <2>1, <2>3 DEF IInv, OrderInv
    <3>2. Members[t] # {} /\ Members[t] \subseteq Registered /\ t \in Types \ (foreign \ Registered)
      BY <2>1, <2>2, <3>1
    <3>3. Members[t] \subseteq S
      BY <3>1, <3>2
    <3> QED
      BY <1>3, <3>1, <3>2, <3>3
  <2> QED
    BY <2>3
<1> HIDE DEF Closed
<1> QED
  BY <1>1, <1>2, <1>3

(* A catalog without custom codecs has everything that reflection resolves.*)
LEMMA ResolvableIsRegistered ==
  ASSUME IInv, catalog # None, ~skipped,
         \A t \in Registered : registrations[t].provider # "custom"
  PROVE  Resolvable \subseteq Registered
<1> DEFINE given == {t \in Registered : registrations[t].provider # "reflected"}
           Closed(S) == given \subseteq S /\ \A t \in Types \ (foreign \ Registered) :
                          Members[t] # {} /\ Members[t] \subseteq S => t \in S
<1>1. Resolvable = {t \in Types : \A S \in {X \in SUBSET Types : Closed(X)} : t \in S}
  BY DEF Resolvable
<1>2. Registered = Known(registrations) /\ NoCustom(registrations) /\ Registered \subseteq Types
  BY KnownIsRegistered DEF NoCustom, By, Known
<1>3. Complete(registrations, foreign)
  BY <1>2 DEF IInv, CompleteInv, Quiet
<1>4. Registered \in SUBSET Types /\ Closed(Registered)
  BY <1>2, <1>3 DEF Complete
<1> HIDE DEF Closed
<1> QED
  BY <1>1, <1>4

(* Reflection registers nothing that does not lead down to given codecs,   *)
(* and everything it can, although several servers run its passes at once. *)
THEOREM ReflectionIsComplete == Spec => []ReflectionComplete
<1>1. IInv => ReflectionComplete
  BY RegisteredIsResolvable, ResolvableIsRegistered DEF ReflectionComplete
<1> QED
  BY InvariantHolds, <1>1, PTL
=============================================================================
