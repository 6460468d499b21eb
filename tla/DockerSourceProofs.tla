------------------------- MODULE DockerSourceProofs -------------------------
(***************************************************************************)
(* Proofs about the Docker source, for all labels, names, configurations   *)
(* and numbers of containers.  The lemmas on labels say that an alias      *)
(* implies an event worth a hint; with them, ChangesHinted is inductive.   *)
(***************************************************************************)
EXTENDS DockerSource, FiniteSetTheorems, SequenceTheorems, TLAPS

Canonical == {normalizeName[t] : t \in Texts}

IInv == TypeOK /\ ChangesHinted /\ NothingBlank /\ HostsOnce

-----------------------------------------------------------------------------
(* Lemmas about labels *)

\* A set of numbers has a least one: of the initial segments that end in its
\* members, take one that has no other inside.
LEMMA Least ==
  ASSUME NEW S, S \subseteq Nat, S # {}
  PROVE  \E m \in S : \A k \in S : m <= k
<1> DEFINE R == StrictSubsetOrdering(Nat)
           T == {1..k : k \in S}
<1>1. IsWellFoundedOn(R, FiniteSubsetsOf(Nat))
  BY FS_StrictSubsetOrderingWellFounded
<1>2. \A k \in S : 1..k \subseteq Nat /\ IsFiniteSet(1..k)
  <2> TAKE k \in S
  <2>1. 1 \in Int /\ k \in Int
    OBVIOUS
  <2>2. IsFiniteSet(1..k)
    BY <2>1, FS_Interval
  <2> QED
    BY <2>2
<1>3. T \subseteq FiniteSubsetsOf(Nat) /\ T # {}
  BY <1>2 DEF FiniteSubsetsOf
<1> HIDE DEF R, T
<1>4. PICK t \in T : \A u \in T : <<u, t>> \notin R
  BY <1>1, <1>3, WFMin
<1>5. PICK m \in S : t = 1..m
  BY DEF T
<1>6. ASSUME NEW k \in S, k < m
      PROVE  FALSE
  <2>1. 1..k \subseteq 1..m /\ m \in 1..m /\ m \notin 1..k
    BY <1>6
  <2>2. <<1..k, 1..m>> \in R
    BY <1>2, <2>1 DEF R, StrictSubsetOrdering
  <2> QED
    BY <1>4, <1>5, <2>2 DEF T
<1> QED
  BY <1>6

LEMMA CanonicalTexts ==
  /\ Canonical \subseteq Texts
  /\ \A n \in Canonical : normalizeName[n] \in Canonical
  /\ Bare = Canonical \ (Dotted \cup {""})
<1>1. \A t \in Texts : normalizeName[t] \in Texts
  BY TextsAssumption
<1> QED
  BY <1>1 DEF Canonical, Bare

\* The positions of proxy.aliases are those of a sequence of texts.
LEMMA Positions ==
  ASSUME NEW l \in LabelSets
  PROVE  /\ DOMAIN l.aliases \subseteq Nat \ {0}
         /\ \A i \in DOMAIN l.aliases : l.aliases[i] \in Texts
         /\ Supported(l) \subseteq Nat \ {0}
<1>1. l.aliases \in Seq(Texts)
  BY SourceAssumption DEF IsLabels
<1>2. /\ DOMAIN l.aliases \subseteq Nat \ {0}
      /\ \A i \in DOMAIN l.aliases : l.aliases[i] \in Texts
  BY <1>1
<1> QED
  BY <1>2 DEF Supported

LEMMA FirstPosition ==
  ASSUME NEW l \in LabelSets, Supported(l) # {}
  PROVE  ExplicitAliases(l) # {}
<1>1. PICK m \in Supported(l) : \A k \in Supported(l) : m <= k
  BY Positions, Least
<1>2. [name |-> normalizeName[l.aliases[m]], position |-> m] \in ExplicitAliases(l)
  BY <1>1 DEF ExplicitAliases
<1> QED
  BY <1>2

LEMMA NamedWhen ==
  ASSUME NEW l \in LabelSets
  PROVE  NamedAliases(l) # {} <=> Supported(l) # {} \/ DiscoveredNames(l) # {}
<1>1. ASSUME Supported(l) # {}
      PROVE  NamedAliases(l) # {}
  BY <1>1, FirstPosition DEF NamedAliases
<1>2. ASSUME Supported(l) = {}
      PROVE  ExplicitAliases(l) = {}
  BY <1>2 DEF ExplicitAliases
<1>3. ASSUME Supported(l) = {}
      PROVE  NamedAliases(l) # {} <=> DiscoveredNames(l) # {}
  BY <1>2, <1>3 DEF NamedAliases
<1> QED
  BY <1>1, <1>3

(***************************************************************************)
(* hasRelevantWatchLabels and collectAliases agree on every set of labels. *)
(***************************************************************************)
LEMMA AliasIffRelevant ==
  ASSUME NEW l \in LabelSets, NEW n \in Names
  PROVE  hasRelevantWatchLabels(l) <=> ~isExcluded(l) /\ collectAliases(l, n) # {}
<1>1. normalizeName[n] # ""
  BY SourceAssumption
<1>2. collectAliases(l, n) # {} <=> NamedAliases(l) # {} \/ hasWildcardOrIndexedPort(l)
  BY <1>1 DEF collectAliases
<1> QED
  BY <1>2, NamedWhen DEF hasRelevantWatchLabels

LEMMA DerivedIsRelevant ==
  ASSUME NEW s, NEW l \in LabelSets, NEW n \in Names, deriveDesiredRecords(s, l, n) # {}
  PROVE  hasRelevantWatchLabels(l)
<1>1. ~isExcluded(l) /\ collectAliases(l, n) # {}
  BY DEF deriveDesiredRecords
<1> QED
  BY <1>1, AliasIffRelevant

LEMMA AliasNames ==
  ASSUME NEW l \in LabelSets, NEW n \in Names, NEW a \in collectAliases(l, n)
  PROVE  a.name \in Canonical
<1>1. ASSUME a \in ExplicitAliases(l)
      PROVE  a.name \in Canonical
  <2>1. PICK i \in Supported(l) : a = [name |-> normalizeName[l.aliases[i]], position |-> i]
    BY <1>1 DEF ExplicitAliases
  <2>2. i \in DOMAIN l.aliases /\ l.aliases[i] \in Texts
    BY Positions DEF Supported
  <2> QED
    BY <2>1, <2>2 DEF Canonical
<1>2. DiscoveredNames(l) \subseteq Canonical
  <2>1. \A k : supportedNamedPortAlias(k) => k \in Texts
    BY DEF supportedNamedPortAlias
  <2> QED
    BY <2>1 DEF DiscoveredNames, Canonical
<1>3. normalizeName[n] \in Canonical
  BY SourceAssumption DEF Canonical
<1>4. a \in NamedAliases(l) \/ a.name = normalizeName[n]
  <2>1. \/ collectAliases(l, n) = {[name |-> normalizeName[n], position |-> 0]}
        \/ collectAliases(l, n) = NamedAliases(l)
    BY DEF collectAliases
  <2> QED
    BY <2>1
<1>5. ASSUME a \in NamedAliases(l), a \notin ExplicitAliases(l)
      PROVE  a.name \in DiscoveredNames(l)
  BY <1>5 DEF NamedAliases
<1> QED
  BY <1>1, <1>2, <1>3, <1>4, <1>5

\* An alias is listed once, however often and wherever it is given.
LEMMA AliasOnce ==
  ASSUME NEW l \in LabelSets, NEW n \in Names,
         NEW a \in collectAliases(l, n), NEW b \in collectAliases(l, n), a.name = b.name
  PROVE  a = b
<1>1. ASSUME NEW x \in ExplicitAliases(l), NEW y \in ExplicitAliases(l), x.name = y.name
      PROVE  x = y
  <2>1. PICK i \in Supported(l) :
          /\ x = [name |-> normalizeName[l.aliases[i]], position |-> i]
          /\ \A k \in Supported(l) :
               normalizeName[l.aliases[k]] = normalizeName[l.aliases[i]] => i <= k
    BY DEF ExplicitAliases
  <2>2. PICK j \in Supported(l) :
          /\ y = [name |-> normalizeName[l.aliases[j]], position |-> j]
          /\ \A k \in Supported(l) :
               normalizeName[l.aliases[k]] = normalizeName[l.aliases[j]] => j <= k
    BY DEF ExplicitAliases
  <2>3. normalizeName[l.aliases[i]] = normalizeName[l.aliases[j]]
    BY <1>1, <2>1, <2>2
  <2>4. i <= j /\ j <= i
    BY <2>1, <2>2, <2>3
  <2>5. i \in Nat /\ j \in Nat
    BY Positions
  <2>6. i = j
    BY <2>4, <2>5
  <2> QED
    BY <2>1, <2>2, <2>6
<1>2. ASSUME NEW x \in NamedAliases(l), x \notin ExplicitAliases(l)
      PROVE  /\ x = [name |-> x.name, position |-> 0]
             /\ \A y \in ExplicitAliases(l) : y.name # x.name
  BY <1>2 DEF NamedAliases
<1>3. CASE a \in NamedAliases(l) /\ b \in NamedAliases(l)
  BY <1>1, <1>2, <1>3
<1>4. CASE ~(a \in NamedAliases(l) /\ b \in NamedAliases(l))
  BY <1>4 DEF collectAliases
<1> QED
  BY <1>3, <1>4

\* The base domain of a source, normalised twice.
LEMMA BaseDomain ==
  ASSUME NEW s \in Settings
  PROVE  normalizeName[normalizeName[s.base_domain]] \in Domains \cup {""}
BY SourceAssumption, TextsAssumption

LEMMA QualifiedTexts ==
  ASSUME NEW h \in Canonical, NEW s \in Settings
  PROVE  qualifyHostname(h, s.base_domain) \in Texts
<1> DEFINE g == normalizeName[h]
           d == normalizeName[normalizeName[s.base_domain]]
<1>1. g \in Texts /\ g \in Canonical /\ d \in Domains \cup {""}
  BY CanonicalTexts, BaseDomain
<1>2. ASSUME g \in Bare, d \in Domains
      PROVE  Under[<<g, d>>] \in Texts
  BY <1>2, TextsAssumption
<1> QED
  BY <1>1, <1>2, CanonicalTexts DEF qualifyHostname

LEMMA QualifiedOnce ==
  ASSUME NEW g \in Canonical, NEW h \in Canonical, NEW s \in Settings,
         normalizeName[g] # normalizeName[h],
         qualifyHostname(g, s.base_domain) = qualifyHostname(h, s.base_domain)
  PROVE  qualifyHostname(g, s.base_domain) \in {normalizeName[g], normalizeName[h]}
<1> DEFINE d == normalizeName[normalizeName[s.base_domain]]
<1>1. \A x \in Canonical :
        \/ qualifyHostname(x, s.base_domain) = normalizeName[x]
        \/ /\ normalizeName[x] \in Bare /\ d \in Domains
           /\ qualifyHostname(x, s.base_domain) = Under[<<normalizeName[x], d>>]
  BY CanonicalTexts, BaseDomain DEF qualifyHostname
<1>2. \A x, y \in Bare, e \in Domains : Under[<<x, e>>] = Under[<<y, e>>] => x = y
  BY TextsAssumption
<1> HIDE DEF d
<1>3. CASE qualifyHostname(g, s.base_domain) = normalizeName[g]
  BY <1>3
<1>4. CASE qualifyHostname(h, s.base_domain) = normalizeName[h]
  BY <1>4
<1>5. CASE /\ normalizeName[g] \in Bare /\ normalizeName[h] \in Bare /\ d \in Domains
           /\ qualifyHostname(g, s.base_domain) = Under[<<normalizeName[g], d>>]
           /\ qualifyHostname(h, s.base_domain) = Under[<<normalizeName[h], d>>]
  <2>1. Under[<<normalizeName[g], d>>] = Under[<<normalizeName[h], d>>]
    BY <1>5
  <2> QED
    BY <1>2, <1>5, <2>1
<1> QED
  BY <1>1, <1>3, <1>4, <1>5

(***************************************************************************)
(* The target of a record is a text, normalised: of a label of the         *)
(* container or of the configuration of the source.  When normalising once *)
(* more empties it, that text was not settled.                             *)
(***************************************************************************)
LEMMA TargetNormal ==
  ASSUME NEW s \in Settings, NEW l \in LabelSets, NEW a, TargetOf(s, l, a) # ""
  PROVE  /\ normalizeName[TargetOf(s, l, a)] \in Texts
         /\ normalizeName[TargetOf(s, l, a)] = "" => \E t \in TargetTexts(s, l) : Unsettled(t)
<1>1. TargetTexts(s, l) \subseteq Texts /\ \A t \in Texts : normalizeName[t] \in Texts
  <2>1. \A t \in Texts : normalizeName[t] \in Texts
    BY TextsAssumption
  <2>2. IsLabels(l) /\ {s.host_ip, s.endpoint_host} \subseteq Texts
    BY SourceAssumption
  <2>3. {l.host[k] : k \in DOMAIN l.host} \subseteq Texts
    BY <2>2 DEF IsLabels
  <2> QED
    BY <2>1, <2>2, <2>3 DEF TargetTexts
<1>2. \A k : HostLabel(l, k) # "" => \E t \in TargetTexts(s, l) : HostLabel(l, k) = normalizeName[t]
  BY DEF HostLabel, TargetTexts
<1>3. explicitHostOverride(l, a) # "" =>
        \E t \in TargetTexts(s, l) : explicitHostOverride(l, a) = normalizeName[t]
  BY <1>2 DEF explicitHostOverride
<1>4. defaultAnswerTarget(s) # "" =>
        \E t \in TargetTexts(s, l) : defaultAnswerTarget(s) = normalizeName[t]
  BY DEF defaultAnswerTarget, TargetTexts
<1>5. normalizeName[""] = ""
  BY TextsAssumption
<1>6. PICK t \in TargetTexts(s, l) :
        TargetOf(s, l, a) \in {normalizeName[t], normalizeName[normalizeName[t]]}
  <2>1. CASE explicitHostOverride(l, a) # ""
    BY <1>3, <2>1 DEF TargetOf
  <2>2. CASE explicitHostOverride(l, a) = ""
    BY <1>4, <1>5, <2>2 DEF TargetOf
  <2> QED
    BY <2>1, <2>2
<1>7. normalizeName[TargetOf(s, l, a)] \in Texts
  BY <1>1, <1>6
<1>8. ASSUME normalizeName[TargetOf(s, l, a)] = ""
      PROVE  Unsettled(t)
  BY <1>6, <1>8 DEF Unsettled
<1> QED
  BY <1>7, <1>8

(***************************************************************************)
(* The records of a container: typed, with a hostname and, but for dots at *)
(* the end, an answer, and of one host only when an alias is the qualified *)
(* form of another or differs from it by a final dot.                      *)
(***************************************************************************)
LEMMA Derived ==
  ASSUME NEW s \in Settings, NEW l \in LabelSets, NEW n \in Names,
         NEW r \in deriveDesiredRecords(s, l, n)
  PROVE  \E a \in collectAliases(l, n) : r = RecordOf(s, l, a) /\ Publishable(s, l, a)
BY DEF deriveDesiredRecords

LEMMA DerivedTypes ==
  ASSUME NEW s \in Settings, NEW l \in LabelSets, NEW n \in Names,
         NEW r \in deriveDesiredRecords(s, l, n)
  PROVE  /\ r \in DesiredTypes /\ r.hostname # ""
         /\ r.answer = "" => \E t \in TargetTexts(s, l) : Unsettled(t)
<1>1. PICK a \in collectAliases(l, n) : r = RecordOf(s, l, a) /\ Publishable(s, l, a)
  BY Derived
<1>2. a.name \in Canonical /\ a.name \in Texts
  BY AliasNames, CanonicalTexts
<1>3. qualifyHostname(a.name, s.base_domain) \in Texts
  BY <1>2, QualifiedTexts
<1>4. /\ normalizeName[TargetOf(s, l, a)] \in Texts
      /\ normalizeName[TargetOf(s, l, a)] = "" => \E t \in TargetTexts(s, l) : Unsettled(t)
  BY <1>1, TargetNormal DEF Publishable
<1>5. dnsOutputType(l) \in Texts
  BY SourceAssumption, TextsAssumption DEF dnsOutputType, IsLabels
<1> QED
  BY <1>1, <1>2, <1>3, <1>4, <1>5 DEF RecordOf, Publishable, DesiredTypes

\* What HostsOnce says of two records.
OneHost(q, r) ==
  q.hostname = r.hostname /\ q # r =>
    /\ q.alias # r.alias
    /\ \/ normalizeName[q.alias] = normalizeName[r.alias]
       \/ q.hostname \in {normalizeName[q.alias], normalizeName[r.alias]}

LEMMA DerivedOnce ==
  ASSUME NEW s \in Settings, NEW l \in LabelSets, NEW n \in Names,
         NEW q \in deriveDesiredRecords(s, l, n), NEW r \in deriveDesiredRecords(s, l, n)
  PROVE  OneHost(q, r)
<1>1. PICK a \in collectAliases(l, n) : q = RecordOf(s, l, a)
  BY Derived
<1>2. PICK b \in collectAliases(l, n) : r = RecordOf(s, l, b)
  BY Derived
<1>3. a.name = b.name => q = r
  BY <1>1, <1>2, AliasOnce
<1>4. /\ q.alias = a.name /\ q.hostname = qualifyHostname(a.name, s.base_domain)
      /\ r.alias = b.name /\ r.hostname = qualifyHostname(b.name, s.base_domain)
  BY <1>1, <1>2 DEF RecordOf
<1>5. a.name \in Canonical /\ b.name \in Canonical
  BY AliasNames
<1>6. ASSUME q.hostname = r.hostname, normalizeName[a.name] # normalizeName[b.name]
      PROVE  q.hostname \in {normalizeName[a.name], normalizeName[b.name]}
  <2>1. qualifyHostname(a.name, s.base_domain) = qualifyHostname(b.name, s.base_domain)
    BY <1>4, <1>6
  <2>2. qualifyHostname(a.name, s.base_domain) \in {normalizeName[a.name], normalizeName[b.name]}
    BY <1>5, <1>6, <2>1, QualifiedOnce
  <2> QED
    BY <1>4, <2>2
<1> QED
  BY <1>3, <1>4, <1>6 DEF OneHost

-----------------------------------------------------------------------------
(* The invariant *)

LEMMA BoundIsNat == MaxStream \in Nat
BY SourceAssumption

THEOREM Starts == Init => IInv
<1> SUFFICES ASSUME Init PROVE IInv
  OBVIOUS
<1>1. \A c \in ContainerIds : listed[c] = {} /\ Published(c) = {}
  BY DEF Init, Published
<1>2. TypeOK
  <2>1. stream \in Seq(EventTypes) /\ Len(stream) <= MaxStream
    <3>1. stream = << >>
      BY DEF Init
    <3> QED
      BY <3>1, BoundIsNat
  <2>2. /\ state \in [ContainerIds -> States]
        /\ listed \in [ContainerIds -> SUBSET DesiredTypes]
    <3>1. "absent" \in States /\ {} \in SUBSET DesiredTypes
      BY DEF States
    <3> QED
      BY <3>1 DEF Init
  <2>3. /\ setting \in Settings /\ name \in [ContainerIds -> Names]
        /\ labels \in [ContainerIds -> LabelSets]
        /\ hint \in BOOLEAN /\ due \in BOOLEAN /\ suspended \subseteq ContainerIds
    BY DEF Init
  <2> QED
    BY <1>1, <2>1, <2>2, <2>3 DEF TypeOK
<1>3. ChangesHinted /\ NothingBlank /\ HostsOnce
  BY <1>1 DEF ChangesHinted, NothingBlank, HostsOnce
<1> QED
  BY <1>2, <1>3 DEF IInv

\* An event that Docker comes to owe leaves a pass that comes on its way.
LEMMA StillComes ==
  ASSUME TypeOK, NEW e \in EventTypes, stream' = Append(stream, e), UNCHANGED <<hint, due>>,
         PassComes \/ shouldTriggerWatchHint(e)
  PROVE  PassComes'
<1> DEFINE n == Len(stream)
<1>1. /\ n \in Nat /\ DOMAIN stream = 1..n /\ stream \in Seq(EventTypes)
  BY DEF TypeOK
<1>2. /\ n + 1 \in DOMAIN stream' /\ stream'[n + 1] = e
      /\ \A i \in DOMAIN stream : i \in DOMAIN stream' /\ stream'[i] = stream[i]
  BY <1>1, AppendProperties
<1>3. ASSUME shouldTriggerWatchHint(e)
      PROVE  PassComes'
  BY <1>2, <1>3 DEF PassComes
<1>4. ASSUME PassComes
      PROVE  PassComes'
  BY <1>2, <1>4 DEF PassComes
<1> QED
  BY <1>3, <1>4

LEMMA Kept ==
  ASSUME IInv, UNCHANGED <<setting, state, name, labels, listed, suspended>>,
         PassComes => PassComes',
         hint' \in BOOLEAN, due' \in BOOLEAN, stream' \in Seq(EventTypes),
         Len(stream') <= MaxStream
  PROVE  IInv'
<1>1. TypeOK'
  BY DEF IInv, TypeOK
<1>2. ChangesHinted'
  BY DEF IInv, ChangesHinted, Published
<1>3. NothingBlank' /\ HostsOnce'
  BY DEF IInv, NothingBlank, HostsOnce
<1> QED
  BY <1>1, <1>2, <1>3 DEF IInv

(***************************************************************************)
(* What happens to a container keeps the invariant, if the event is one    *)
(* that is heeded or the container is recorded as suspended.               *)
(***************************************************************************)
LEMMA EventKept ==
  ASSUME IInv, NEW c \in ContainerIds, NEW from, NEW to \in States, NEW action \in Actions,
         Happens(c, from, to, action),
         name' \in [ContainerIds -> Names],
         \A d \in ContainerIds \ {c} : name'[d] = name[d],
         suspended' \subseteq ContainerIds, suspended \subseteq suspended',
         action \in HintActions \/ c \in suspended',
         to \in {"absent", "created"} => state[c] \in {"absent", "created"}
  PROVE  IInv'
<1> DEFINE e == ContainerEvent(c, action)
<1>1. e \in EventTypes
  BY DEF IInv, TypeOK, ContainerEvent, EventTypes
<1>2. stream' \in Seq(EventTypes) /\ Len(stream') <= MaxStream
  <2>1. stream' = Append(stream, e) /\ Len(stream) < MaxStream /\ stream \in Seq(EventTypes)
    BY DEF Happens, IInv, TypeOK
  <2>2. Len(stream') = Len(stream) + 1 /\ stream' \in Seq(EventTypes)
    BY <1>1, <2>1, AppendProperties
  <2> QED
    <3>1. Len(stream) \in Nat
      BY <2>1, LenProperties
    <3> QED
      BY <2>1, <2>2, <3>1, BoundIsNat
<1>3. /\ state' = [state EXCEPT ![c] = to]
      /\ UNCHANGED <<setting, labels, hint, due, listed>>
  BY DEF Happens
<1>4. TypeOK'
  <2>1. state' \in [ContainerIds -> States]
    BY <1>3 DEF IInv, TypeOK
  <2>2. \A d \in ContainerIds : listed'[d] # {} => state'[d] \notin {"absent", "created"}
    BY <1>3 DEF IInv, TypeOK
  <2> QED
    BY <1>2, <1>3, <2>1, <2>2 DEF IInv, TypeOK
<1>5. NothingBlank' /\ HostsOnce'
  BY <1>3 DEF IInv, NothingBlank, HostsOnce
<1>6. PassComes \/ shouldTriggerWatchHint(e) => PassComes'
  BY <1>1, <1>3, StillComes DEF IInv, Happens
<1>7. ASSUME NEW d \in ContainerIds, Published(d)' = Published(d), Published(d)' # listed'[d]
      PROVE  PassComes' \/ d \in suspended'
  BY <1>3, <1>6, <1>7 DEF IInv, ChangesHinted
<1>8. ASSUME NEW d \in ContainerIds \ {c}
      PROVE  Published(d)' = Published(d)
  BY <1>3, <1>8 DEF IInv, TypeOK, Published
<1>9. ASSUME action \in HintActions, Published(c)' # Published(c)
      PROVE  PassComes'
  <2>1. labels[c] \in LabelSets /\ name[c] \in Names /\ name'[c] \in Names /\ labels'[c] = labels[c]
    BY <1>3 DEF IInv, TypeOK
  <2>2. \/ deriveDesiredRecords(setting, labels[c], name[c]) # {}
        \/ deriveDesiredRecords(setting, labels[c], name'[c]) # {}
    BY <1>3, <1>9, <2>1 DEF Published
  <2>3. hasRelevantWatchLabels(labels[c])
    BY <2>1, <2>2, DerivedIsRelevant
  <2>4. shouldTriggerWatchHint(e)
    BY <1>9, <2>3 DEF shouldTriggerWatchHint, shouldTriggerContainerWatchHint, ContainerEvent
  <2> QED
    BY <1>6, <2>4
<1>10. ChangesHinted'
  BY <1>7, <1>8, <1>9 DEF ChangesHinted
<1> QED
  BY <1>4, <1>5, <1>10 DEF IInv

LEMMA LifecycleKept ==
  ASSUME IInv, NEW c \in ContainerIds, Lifecycle(c)
  PROVE  IInv'
<1> /\ "created" \in States /\ "running" \in States /\ "exited" \in States /\ "gone" \in States
  BY DEF States
<1> /\ \A a \in HintActions : a \in Actions
    /\ {"create", "start", "die", "destroy", "stop", "update"} \subseteq HintActions
  BY DEF Actions, HintActions
<1>1. /\ name' \in [ContainerIds -> Names] /\ \A d \in ContainerIds : name'[d] = name[d]
      /\ suspended' = suspended /\ suspended \subseteq ContainerIds
  BY DEF IInv, TypeOK, Lifecycle
<1>2. CASE Happens(c, {"absent"}, "created", "create")
  <2>1. state[c] = "absent"
    BY <1>2 DEF Happens
  <2> QED
    BY <1>1, <1>2, <2>1, EventKept
<1>3. CASE Happens(c, {"created", "exited"}, "running", "start")
  BY <1>1, <1>3, EventKept
<1>4. CASE Happens(c, {"running", "paused"}, "exited", "die")
  BY <1>1, <1>4, EventKept
<1>5. CASE Happens(c, {"created", "exited"}, "gone", "destroy")
  BY <1>1, <1>5, EventKept
<1>6. CASE Happens(c, {"exited"}, "exited", "stop")
  BY <1>1, <1>6, EventKept
<1>7. CASE Happens(c, {"running"}, "running", "update")
  BY <1>1, <1>7, EventKept
<1> QED
  BY <1>2, <1>3, <1>4, <1>5, <1>6, <1>7 DEF Lifecycle

LEMMA PauseKept ==
  ASSUME IInv, NEW c \in ContainerIds, PauseOrResume(c)
  PROVE  IInv'
<1> "paused" \in States /\ "running" \in States /\ "pause" \in Actions /\ "unpause" \in Actions
  BY DEF States, Actions
<1>1. /\ name' \in [ContainerIds -> Names] /\ \A d \in ContainerIds : name'[d] = name[d]
      /\ suspended' \subseteq ContainerIds /\ suspended \subseteq suspended' /\ c \in suspended'
  BY DEF IInv, TypeOK, PauseOrResume
<1>2. CASE Happens(c, {"running"}, "paused", "pause")
  BY <1>1, <1>2, EventKept
<1>3. CASE Happens(c, {"paused"}, "running", "unpause")
  BY <1>1, <1>3, EventKept
<1> QED
  BY <1>2, <1>3 DEF PauseOrResume

LEMMA RenameKept ==
  ASSUME IInv, NEW c \in ContainerIds, Rename(c)
  PROVE  IInv'
<1>1. state[c] \in States /\ "rename" \in HintActions /\ "rename" \in Actions
  BY DEF IInv, TypeOK, HintActions, Actions
<1>2. /\ name' \in [ContainerIds -> Names] /\ \A d \in ContainerIds \ {c} : name'[d] = name[d]
      /\ suspended' = suspended /\ suspended \subseteq ContainerIds
  BY DEF IInv, TypeOK, Rename
<1>3. Happens(c, {"created", "running", "paused", "exited"}, state[c], "rename")
  BY DEF Rename
<1> QED
  BY <1>1, <1>2, <1>3, EventKept

LEMMA NetworkKept ==
  ASSUME IInv, Network
  PROVE  IInv'
<1>1. PICK e : /\ e \in EventTypes /\ stream' = Append(stream, e)
               /\ Len(stream) < MaxStream
  <2>1. PICK c \in ContainerIds, k \in {[action |-> "connect", attached |-> TRUE],
                                        [action |-> "create", attached |-> FALSE]} :
          stream' = Append(stream, [type |-> "network", action |-> k.action,
                                    labels |-> labels[c], attached |-> k.attached])
    BY DEF Network
  <2>2. k.action \in Actions /\ k.attached \in BOOLEAN /\ labels[c] \in LabelSets
    <3>1. labels \in [ContainerIds -> LabelSets]
      BY DEF IInv, TypeOK
    <3>2. k.action \in {"connect", "create"} /\ k.attached \in BOOLEAN
      <4>1. \/ k = [action |-> "connect", attached |-> TRUE]
            \/ k = [action |-> "create", attached |-> FALSE]
        BY <2>1
      <4>2. CASE k = [action |-> "connect", attached |-> TRUE]
        BY <4>2
      <4>3. CASE k = [action |-> "create", attached |-> FALSE]
        BY <4>3
      <4> QED
        BY <4>1, <4>2, <4>3
    <3>3. {"connect", "create"} \subseteq Actions
      BY DEF Actions, HintActions
    <3> QED
      BY <3>1, <3>2, <3>3
  <2> QED
    BY <2>1, <2>2 DEF EventTypes, Network
<1>2. UNCHANGED <<setting, state, name, labels, hint, due, listed, suspended>>
  BY DEF Network
<1>3. PassComes => PassComes'
  BY <1>1, <1>2, StillComes DEF IInv
<1>4. stream' \in Seq(EventTypes) /\ Len(stream') <= MaxStream
  <2>1. stream \in Seq(EventTypes)
    BY DEF IInv, TypeOK
  <2>2. Len(stream') = Len(stream) + 1 /\ stream' \in Seq(EventTypes)
    BY <1>1, <2>1, AppendProperties
  <2> QED
    <3>1. Len(stream) \in Nat
      BY <2>1, LenProperties
    <3> QED
      BY <1>1, <2>2, <3>1, BoundIsNat
<1>5. hint' \in BOOLEAN /\ due' \in BOOLEAN
  BY <1>2 DEF IInv, TypeOK
<1> QED
  BY <1>2, <1>3, <1>4, <1>5, Kept

LEMMA ReadKept ==
  ASSUME IInv, ReadEvent
  PROVE  IInv'
<1>1. /\ stream \in Seq(EventTypes) /\ stream # << >> /\ stream' = Tail(stream)
      /\ hint' = (hint \/ shouldTriggerWatchHint(Head(stream)))
      /\ UNCHANGED <<setting, state, name, labels, due, listed, suspended>>
  BY DEF ReadEvent, IInv, TypeOK
<1>2. /\ stream' \in Seq(EventTypes) /\ Len(stream') <= MaxStream
      /\ \A i \in DOMAIN stream : i # 1 => i - 1 \in DOMAIN stream' /\ stream'[i - 1] = stream[i]
      /\ Head(stream) = stream[1]
  <2>1. Len(stream) \in Nat /\ DOMAIN stream = 1..Len(stream) /\ Len(stream) <= MaxStream
    BY <1>1, LenProperties DEF IInv, TypeOK
  <2>2. /\ stream' \in Seq(EventTypes) /\ Len(stream') = Len(stream) - 1
        /\ \A i \in 1..Len(stream') : stream'[i] = stream[i + 1]
        /\ Head(stream) = stream[1]
    BY <1>1, HeadTailProperties
  <2>3. DOMAIN stream' = 1..Len(stream')
    BY <2>2, LenProperties
  <2>4. ASSUME NEW i \in DOMAIN stream, i # 1
        PROVE  i - 1 \in DOMAIN stream' /\ stream'[i - 1] = stream[i]
    BY <2>1, <2>2, <2>3, <2>4
  <2> QED
    BY <2>1, <2>2, <2>4, BoundIsNat
<1>3. PassComes => PassComes'
  <2>1. ASSUME NEW i \in DOMAIN stream, shouldTriggerWatchHint(stream[i])
        PROVE  PassComes'
    <3>1. CASE i = 1
      BY <1>1, <1>2, <2>1, <3>1 DEF PassComes
    <3>2. CASE i # 1
      BY <1>2, <2>1, <3>2 DEF PassComes
    <3> QED
      BY <3>1, <3>2
  <2> QED
    BY <1>1, <2>1 DEF PassComes
<1>4. hint' \in BOOLEAN /\ due' \in BOOLEAN
  BY <1>1 DEF IInv, TypeOK, shouldTriggerWatchHint, shouldTriggerContainerWatchHint,
              shouldTriggerNetworkWatchHint
<1> QED
  BY <1>1, <1>2, <1>3, <1>4, Kept

LEMMA TakeKept ==
  ASSUME IInv, TakeHint
  PROVE  IInv'
<1>1. /\ hint' = FALSE /\ due' = TRUE
      /\ UNCHANGED <<setting, state, name, labels, stream, listed, suspended>>
  BY DEF TakeHint, docker
<1>2. PassComes'
  BY <1>1 DEF PassComes
<1>3. stream' \in Seq(EventTypes) /\ Len(stream') <= MaxStream
  BY <1>1 DEF IInv, TypeOK
<1> QED
  BY <1>1, <1>2, <1>3, Kept

LEMMA ListKept ==
  ASSUME IInv, ListDesired
  PROVE  IInv'
<1>1. /\ listed' = [c \in ContainerIds |-> Published(c)] /\ due' = FALSE /\ suspended' = {}
      /\ UNCHANGED <<setting, state, name, labels, stream, hint>>
  BY DEF ListDesired, docker
<1>2. /\ \A c \in ContainerIds : labels[c] \in LabelSets /\ name[c] \in Names
      /\ setting \in Settings
  BY DEF IInv, TypeOK
<1>3. ASSUME NEW c \in ContainerIds, NEW r \in Published(c)
      PROVE  /\ r \in DesiredTypes /\ state[c] = "running" /\ r.hostname # ""
             /\ r.answer = "" => \E t \in TargetTexts(setting, labels[c]) : Unsettled(t)
  <2>1. state[c] = "running" /\ r \in deriveDesiredRecords(setting, labels[c], name[c])
    BY <1>3 DEF Published
  <2> QED
    BY <1>2, <2>1, DerivedTypes
<1>4. TypeOK'
  BY <1>1, <1>3 DEF IInv, TypeOK
<1>5. ChangesHinted'
  <2>1. \A c \in ContainerIds : Published(c)' = Published(c)
    BY <1>1 DEF Published
  <2> QED
    BY <1>1, <2>1 DEF ChangesHinted
<1>6. NothingBlank'
  BY <1>1, <1>3 DEF NothingBlank
<1>7. HostsOnce'
  <2>1. ASSUME NEW c \in ContainerIds, NEW q \in Published(c), NEW r \in Published(c)
        PROVE  OneHost(q, r)
    <3>1. /\ q \in deriveDesiredRecords(setting, labels[c], name[c])
          /\ r \in deriveDesiredRecords(setting, labels[c], name[c])
      BY <2>1 DEF Published
    <3> QED
      BY <1>2, <3>1, DerivedOnce
  <2> QED
    BY <1>1, <2>1 DEF HostsOnce, OneHost
<1> QED
  BY <1>4, <1>5, <1>6, <1>7 DEF IInv

-----------------------------------------------------------------------------
(* The theorems *)

THEOREM Preserved == IInv /\ [Next]_vars => IInv'
<1> SUFFICES ASSUME IInv, [Next]_vars PROVE IInv'
  OBVIOUS
<1>1. CASE UNCHANGED vars
  <2>1. UNCHANGED <<setting, state, name, labels, stream, hint, due, listed, suspended>>
    BY <1>1 DEF vars, docker
  <2>2. PassComes => PassComes'
    BY <2>1 DEF PassComes
  <2>3. /\ hint' \in BOOLEAN /\ due' \in BOOLEAN /\ stream' \in Seq(EventTypes)
        /\ Len(stream') <= MaxStream
    BY <2>1 DEF IInv, TypeOK
  <2> QED
    BY <2>1, <2>2, <2>3, Kept
<1>2. CASE \E c \in ContainerIds : Lifecycle(c) \/ PauseOrResume(c) \/ Rename(c)
  BY <1>2, LifecycleKept, PauseKept, RenameKept
<1>3. CASE Network \/ ReadEvent \/ TakeHint \/ ListDesired
  BY <1>3, NetworkKept, ReadKept, TakeKept, ListKept
<1> QED
  BY <1>1, <1>2, <1>3 DEF Next

\* The inductive invariant holds in every reachable state.
THEOREM Invariance == Spec => []IInv
BY Starts, Preserved, PTL DEF Spec

\* The types of the variables (TypeOK), for all labels and containers.
THEOREM TypeCorrect == Spec => []TypeOK
<1>1. IInv => TypeOK
  BY DEF IInv
<1> QED
  BY <1>1, Invariance, PTL

(***************************************************************************)
(* Whatever changes what a container publishes is hinted at, pausing and   *)
(* resuming excepted.                                                      *)
(***************************************************************************)
THEOREM EveryChangeHinted == Spec => []ChangesHinted
<1>1. IInv => ChangesHinted
  BY DEF IInv
<1> QED
  BY <1>1, Invariance, PTL

\* The filter of events agrees with the derivation of records.
THEOREM FilterIsRight == Spec => []FilterAgrees
<1>1. IInv => FilterAgrees
  BY AliasIffRelevant DEF IInv, TypeOK, FilterAgrees
<1> QED
  BY <1>1, Invariance, PTL

\* No record without a hostname is handed on, and none without an answer but
\* for a text that ends in two dots.
THEOREM NoBlanks == Spec => []NothingBlank
<1>1. IInv => NothingBlank
  BY DEF IInv
<1> QED
  BY <1>1, Invariance, PTL

\* A container asks for a host twice only by a name and its qualified form, or
\* by two spellings that differ in a final dot.
THEOREM OneAnswerPerAlias == Spec => []HostsOnce
<1>1. IInv => HostsOnce
  BY DEF IInv
<1> QED
  BY <1>1, Invariance, PTL
=============================================================================
