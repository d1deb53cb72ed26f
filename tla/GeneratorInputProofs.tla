------------------------- MODULE GeneratorInputProofs -------------------------
(* What the generator accepts as input, for every schema and every list of    *)
(* values.  Of the schema extensions, each accepted attribute has a set of    *)
(* suitable attributes that holds all its superiors, so that nothing of the   *)
(* generated entry is replaced or added to; the superiors of a class that has *)
(* passed the walk have passed it too or are pending, so that a lineage whose *)
(* walk has ended holds nothing that must not be inherited.  Each loop        *)
(* refuses exactly what is not admissible: what it has found is part of what  *)
(* the definition speaks of, and all of it when it ends.  Of the whole input, *)
(* what is read from the host stays what was checked, and the validation of   *)
(* an entry implements both of its parts, so that what is proved of each      *)
(* holds for the generator.                                                   *)
EXTENDS GeneratorInput, SequenceTheorems, FiniteSetTheorems, NaturalsInduction, TLAPS

(***************************************************************************)
(* Attributes.                                                             *)
(***************************************************************************)

\* A name that the catalog knows is looked up to what slapd takes it for.
LEMMA LookupMeans ==
  ASSUME NEW name \in Names, Lookup(name) # None
  PROVE  Lookup(name) = Means[name] /\ Means[name] \in Oids
BY AttributeExtensionsAssumption DEF Lookup

\* The parts of the invariant that concern the attributes of the request.
Judged ==
  pc # "refused" => \A i \in DOMAIN attributes :
    /\ i < index \/ (i = index /\ pc \in {"lineage", "check"}) =>
         ~Forbidden({Fold[attributes[i].name]})
    /\ i < index => /\ \E oids \in SUBSET Oids : Accepted(attributes[i], oids)
                    /\ Means[attributes[i].name] \in seen
                    /\ \A j \in DOMAIN attributes : j < i =>
                         Means[attributes[j].name] # Means[attributes[i].name]

LEMMA InvParts ==
  Inv <=> /\ TypeOK
          /\ pc \in {"lineage", "check"} => Chain
          /\ Judged
          /\ pc = "merged" => index > Len(attributes) /\ entry = Merged
BY DEF Inv, Judged

\* What does not depend on the place in the program keeps its value with the
\* input.
LEMMA InputFrame ==
  ASSUME UNCHANGED input
  PROVE  /\ Protected' = Protected /\ Merged' = Merged
         /\ \A names : Forbidden(names)' = Forbidden(names)
         /\ \A oids : Closed(oids)' = Closed(oids)
         /\ \A item, oids : Accepted(item, oids)' = Accepted(item, oids)
<1>1. UNCHANGED <<sup, kind, attributes>>
  BY DEF input
<1>2. Protected' = Protected
  BY <1>1 DEF Protected
<1>3. Merged' = Merged
  BY <1>1 DEF Merged
<1>4. \A names : Forbidden(names)' = Forbidden(names)
  BY <1>2 DEF Forbidden
<1>5. \A oids : Closed(oids)' = Closed(oids)
  BY <1>1 DEF Closed
<1>6. \A item, oids : Accepted(item, oids)' = Accepted(item, oids)
  BY <1>4, <1>5 DEF Accepted, Suitable
<1>7. QED
  BY <1>2, <1>3, <1>4, <1>5, <1>6

LEMMA RequestItem ==
  ASSUME TypeOK
  PROVE  /\ DOMAIN attributes = 1..Len(attributes) /\ Len(attributes) \in Nat
         /\ \A i \in DOMAIN attributes : attributes[i].name \in Names
<1>. DEFINE Item == [name : Names, values : Seq(STRING)]
<1>1. attributes \in Seq(Item)
  BY DEF TypeOK
<1>2. \A item \in Item : item.name \in Names
  OBVIOUS
<1>. HIDE DEF Item
<1>3. DOMAIN attributes = 1..Len(attributes) /\ Len(attributes) \in Nat
  BY <1>1
<1>4. \A i \in DOMAIN attributes : attributes[i] \in Item
  BY <1>1
<1>5. QED
  BY <1>2, <1>3, <1>4

LEMMA InitInv == Init => Inv
<1>. SUFFICES ASSUME Init PROVE Inv
  OBVIOUS
<1>1. TypeOK
  <2>1. sup \in [Oids -> Seq(Names)] /\ attributes \in Seq([name : Names, values : Seq(STRING)])
    BY AttributeExtensionsAssumption DEF Init
  <2>2. lineage \in Seq(Oids)
    BY DEF Init
  <2>3. QED
    BY <2>1, <2>2 DEF Init, TypeOK
<1>2. Judged
  BY <1>1 DEF Init, Judged, TypeOK
<1>3. QED
  BY <1>1, <1>2, InvParts DEF Init

LEMMA RefuseStep == Inv /\ Refuse => Inv'
<1>. SUFFICES ASSUME Inv, Refuse PROVE Inv'
  OBVIOUS
<1>1. pc' = "refused" /\ UNCHANGED <<sup, kind, attributes, index, seen, at, lineage, entry>>
  BY DEF Refuse, input
<1>2. TypeOK'
  BY <1>1 DEF Inv, TypeOK
<1>3. QED
  BY <1>1, <1>2 DEF Inv

LEMMA ParseStep == Inv /\ parse_extensions => Inv'
<1>. SUFFICES ASSUME Inv, parse_extensions, ~Refuse PROVE Inv'
  BY RefuseStep
<1>1. pc = "parse" /\ pc' = "next" /\ UNCHANGED <<input, index, seen, at, lineage, entry>>
  BY DEF parse_extensions
<1>2. TypeOK'
  BY <1>1 DEF Inv, TypeOK, input
<1>3. Judged'
  BY <1>1, InvParts, InputFrame DEF Judged, input
<1>4. QED
  BY <1>1, <1>2, <1>3 DEF Inv, Judged

LEMMA ValidateStep == Inv /\ validate => Inv'
<1>. SUFFICES ASSUME Inv, validate, ~Refuse PROVE Inv'
  BY RefuseStep
<1>1. /\ pc = "next" /\ index <= Len(attributes)
      /\ ~Forbidden({Fold[attributes[index].name]})
      /\ pc' = "lineage" /\ at' = attributes[index].name /\ lineage' = << >>
      /\ UNCHANGED <<input, index, seen, entry>>
  BY DEF validate
<1>2. TypeOK /\ index \in DOMAIN attributes /\ attributes[index].name \in Names
  BY <1>1, InvParts, RequestItem DEF TypeOK
<1>3. TypeOK'
  BY <1>1, <1>2 DEF TypeOK, input
<1>4. Chain'
  BY <1>1, <1>2 DEF Chain, input
<1>5. Judged'
  BY <1>1, <1>2, InvParts, InputFrame DEF Judged, input
<1>6. QED
  BY <1>1, <1>3, <1>4, <1>5 DEF Inv, Judged

\* What a longer chain consists of.
LEMMA AppendElements ==
  ASSUME NEW S, NEW list \in Seq(S), NEW x \in S
  PROVE  /\ Append(list, x) \in Seq(S) /\ Append(list, x) # << >>
         /\ \A k \in DOMAIN list : k \in DOMAIN Append(list, x) /\ Append(list, x)[k] = list[k]
         /\ Len(list) + 1 \in DOMAIN Append(list, x) /\ Append(list, x)[Len(list) + 1] = x
         /\ \A k \in DOMAIN Append(list, x) : k \in DOMAIN list \/ k = Len(list) + 1
         /\ list = << >> => Append(list, x)[1] = x
         /\ list # << >> => Append(list, x)[1] = list[1]
OBVIOUS

LEMMA LineageStep == Inv /\ attribute_lineage => Inv'
<1>. SUFFICES ASSUME Inv, attribute_lineage, ~Refuse PROVE Inv'
  BY RefuseStep
<1>. DEFINE oid == Lookup(at)
            new == Append(lineage, oid)
<1>1. /\ pc = "lineage" /\ oid # None /\ ~(Len(sup[oid]) > 1) /\ lineage' = new
      /\ IF sup[oid] = << >> THEN pc' = "check" /\ UNCHANGED at
                             ELSE at' = sup[oid][1] /\ UNCHANGED pc
      /\ UNCHANGED <<sup, kind, attributes, index, seen, entry>>
  BY DEF attribute_lineage, input
<1>2. TypeOK /\ Chain /\ Judged
  BY <1>1, InvParts
<1>3. at \in Names /\ oid = Means[at] /\ oid \in Oids /\ lineage \in Seq(Oids)
  BY <1>1, <1>2, LookupMeans DEF TypeOK
<1>4. sup[oid] \in Seq(Names) /\ \A i \in DOMAIN sup[oid] : i = 1 /\ sup[oid][1] \in Names
  BY <1>1, <1>2, <1>3 DEF TypeOK
<1>5. /\ new \in Seq(Oids) /\ new # << >>
      /\ \A k \in DOMAIN lineage : k \in DOMAIN new /\ new[k] = lineage[k]
      /\ Len(lineage) + 1 \in DOMAIN new /\ new[Len(lineage) + 1] = oid
      /\ \A k \in DOMAIN new : k \in DOMAIN lineage \/ k = Len(lineage) + 1
      /\ lineage = << >> => new[1] = oid
      /\ lineage # << >> => new[1] = lineage[1]
  BY <1>3, AppendElements
<1>. HIDE DEF new
<1>6. pc' \in {"lineage", "check"} /\ (pc' = "lineage" => sup[oid] # << >> /\ at' = sup[oid][1])
  BY <1>1
<1>7. sup[oid] # << >> => sup[oid][1] \in Names
  BY <1>4
<1>8. TypeOK'
  BY <1>1, <1>2, <1>5, <1>6, <1>7 DEF TypeOK
<1>9. Chain'
  <2>1. \A k \in DOMAIN new : \E name \in Names : Lookup(name) = new[k]
    BY <1>2, <1>3, <1>5 DEF Chain
  <2>2. new[1] = Means[attributes[index].name]
    BY <1>1, <1>2, <1>3, <1>5 DEF Chain
  <2>3. ASSUME NEW k \in DOMAIN new, NEW i \in DOMAIN sup[new[k]]
        PROVE  \/ \E m \in DOMAIN new : new[m] = Means[sup[new[k]][i]]
               \/ pc' = "lineage" /\ Means[at'] = Means[sup[new[k]][i]]
    <3>1. CASE k \in DOMAIN lineage
      <4>1. new[k] = lineage[k]
        BY <3>1, <1>5
      <4>2. \/ \E m \in DOMAIN lineage : lineage[m] = Means[sup[new[k]][i]]
            \/ Means[at] = Means[sup[new[k]][i]]
        BY <1>2, <2>3, <3>1, <4>1 DEF Chain
      <4>3. QED
        BY <4>2, <1>3, <1>5
    <3>2. CASE k = Len(lineage) + 1
      BY <2>3, <3>2, <1>1, <1>4, <1>5
    <3>3. QED
      BY <3>1, <3>2, <1>5
  <2>4. QED
    BY <1>1, <1>5, <2>1, <2>2, <2>3 DEF Chain
<1>10. Judged'
  BY <1>1, <1>2, <1>6, InputFrame DEF Judged, input
<1>11. QED
  BY <1>1, <1>6, <1>8, <1>9, <1>10 DEF Inv, Judged

LEMMA CheckStep == Inv /\ Check => Inv'
<1>. SUFFICES ASSUME Inv, Check, ~Refuse PROVE Inv'
  BY RefuseStep
<1>. DEFINE item == attributes[index]
<1>1. /\ pc = "check" /\ \A oid \in Elements(lineage) : Suitable(oid, item.values)
      /\ lineage[1] \notin seen /\ pc' = "next" /\ index' = index + 1
      /\ seen' = seen \cup {lineage[1]} /\ UNCHANGED <<input, at, lineage, entry>>
  BY DEF Check
<1>2. TypeOK /\ Chain /\ Judged
  BY <1>1, InvParts
<1>3. /\ index \in DOMAIN attributes /\ index \in Nat /\ lineage \in Seq(Oids)
      /\ lineage # << >> /\ 1 \in DOMAIN lineage /\ lineage[1] = Means[item.name]
  BY <1>1, <1>2 DEF TypeOK, Chain
<1>4. Elements(lineage) \subseteq Oids /\ lineage[1] \in Oids
  BY <1>3 DEF Elements
<1>5. Accepted(item, Elements(lineage))
  <2>1. Elements(lineage) \subseteq {Lookup(name) : name \in Names}
    BY <1>2 DEF Chain, Elements
  <2>2. Means[item.name] \in Elements(lineage)
    BY <1>3 DEF Elements
  <2>3. Closed(Elements(lineage))
    BY <1>1, <1>2 DEF Chain, Closed, Elements
  <2>4. QED
    BY <1>1, <1>4, <2>1, <2>2, <2>3 DEF Accepted
<1>6. TypeOK'
  BY <1>1, <1>2, <1>3, <1>4 DEF TypeOK, input
<1>7. Judged'
  <2>. SUFFICES ASSUME NEW i \in DOMAIN attributes, i < index + 1
                PROVE  /\ ~Forbidden({Fold[attributes[i].name]})
                       /\ \E oids \in SUBSET Oids : Accepted(attributes[i], oids)
                       /\ Means[attributes[i].name] \in seen'
                       /\ \A j \in DOMAIN attributes : j < i =>
                            Means[attributes[j].name] # Means[attributes[i].name]
    BY <1>1, InputFrame DEF Judged, input
  <2>1. CASE i < index
    BY <1>1, <1>2, <2>1 DEF Judged
  <2>2. CASE i = index
    BY <1>1, <1>2, <1>3, <1>4, <1>5, <2>2 DEF Judged
  <2>3. i < index \/ i = index
    BY <1>3, <1>2 DEF TypeOK
  <2>4. QED
    BY <2>1, <2>2, <2>3
<1>8. QED
  BY <1>1, <1>6, <1>7 DEF Inv, Judged

LEMMA MergeStep == Inv /\ merge => Inv'
<1>. SUFFICES ASSUME Inv, merge PROVE Inv'
  OBVIOUS
<1>1. /\ pc = "next" /\ index > Len(attributes) /\ pc' = "merged" /\ entry' = Merged
      /\ UNCHANGED <<input, index, seen, at, lineage>>
  BY DEF merge
<1>2. TypeOK'
  BY <1>1 DEF Inv, TypeOK, input
<1>3. Judged'
  BY <1>1, InvParts, InputFrame DEF Judged, input
<1>4. Merged' = Merged
  BY <1>1, InputFrame
<1>5. QED
  BY <1>1, <1>2, <1>3, <1>4 DEF Inv, Judged, input

LEMMA StutterStep == Inv /\ UNCHANGED vars => Inv'
<1>. SUFFICES ASSUME Inv, UNCHANGED vars PROVE Inv'
  OBVIOUS
<1>1. UNCHANGED <<input, pc, index, seen, at, lineage, entry>>
  BY DEF vars
<1>2. TypeOK'
  BY <1>1 DEF Inv, TypeOK, input
<1>3. pc' \in {"lineage", "check"} => Chain'
  BY <1>1 DEF Inv, Chain, input
<1>4. Judged'
  BY <1>1, InvParts, InputFrame DEF Judged, input
<1>5. Merged' = Merged
  BY <1>1, InputFrame
<1>6. QED
  BY <1>1, <1>2, <1>3, <1>4, <1>5 DEF Inv, Judged, input

\* Each accepted attribute has a closed set of suitable attributes.
THEOREM AcceptedClosed == Spec => []Inv
<1>1. Inv /\ [Next]_vars => Inv'
  BY ParseStep, ValidateStep, LineageStep, CheckStep, MergeStep, StutterStep DEF Next
<1>2. QED
  BY <1>1, InitInv, PTL DEF Spec

\* What the invariant says of a merged attribute.
LEMMA MergedAttribute ==
  ASSUME Inv, pc = "merged", NEW i \in DOMAIN attributes
  PROVE  /\ attributes[i].name \in Names /\ ~Forbidden({Fold[attributes[i].name]})
         /\ \E oids \in SUBSET Oids :
              /\ Accepted(attributes[i], oids)
              /\ Above(attributes[i].name) \subseteq oids
         /\ Means[attributes[i].name] \in Above(attributes[i].name)
         /\ \A j \in DOMAIN attributes : j # i => Means[attributes[j].name] # Means[attributes[i].name]
<1>1. TypeOK /\ Judged /\ index > Len(attributes)
  BY InvParts
<1>2. /\ attributes[i].name \in Names /\ i < index
      /\ \A j \in DOMAIN attributes : j < index /\ (j # i => j < i \/ i < j)
  <2>1. attributes[i].name \in Names
    BY <1>1, RequestItem
  <2>2. DOMAIN attributes = 1..Len(attributes) /\ Len(attributes) \in Nat /\ index \in Nat
    BY <1>1 DEF TypeOK
  <2>3. QED
    BY <1>1, <2>1, <2>2
<1>3. PICK oids \in SUBSET Oids : Accepted(attributes[i], oids)
  BY <1>1, <1>2 DEF Judged
<1>4. Above(attributes[i].name) \subseteq oids
  BY <1>3 DEF Accepted, Above
<1>5. Means[attributes[i].name] \in Above(attributes[i].name)
  BY <1>2, AttributeExtensionsAssumption DEF Above
<1>6. \A j \in DOMAIN attributes : j # i => Means[attributes[j].name] # Means[attributes[i].name]
  BY <1>1, <1>2 DEF Judged
<1>7. ~Forbidden({Fold[attributes[i].name]})
  BY <1>1, <1>2 DEF Judged
<1>8. QED
  BY <1>2, <1>3, <1>4, <1>5, <1>6, <1>7

\* An attribute of the catalog that slapd takes such a name for has an alias
\* that no extension may use.
LEMMA OwnIsForbidden ==
  ASSUME TypeOK, NEW own \in Olc \cup MANAGED_ATTRIBUTES \cup Generated[kind],
         NEW known \in Names, Lookup(known) = Means[own]
  PROVE  Forbidden(Aliases(Means[own]))
<1>. DEFINE oid == Means[own]
<1>1. /\ kind \in {"user", "group", "bind"} /\ Reserved[kind] \subseteq Catalog
      /\ own \in Names /\ oid \in Oids /\ oid # None
      /\ Fold[known] \in Catalog /\ Means[Fold[known]] = oid
  BY AttributeExtensionsAssumption DEF TypeOK, Lookup
<1>2. PICK name \in (Olc \cup MANAGED_ATTRIBUTES \cup Reserved[kind]) \cap Catalog : Means[name] = oid
  <2>1. CASE own \in Olc
    BY <1>1, <2>1, AttributeExtensionsAssumption
  <2>2. CASE own \in MANAGED_ATTRIBUTES
    BY <1>1, <2>2, AttributeExtensionsAssumption
  <2>3. CASE own \in Generated[kind]
    <3>1. Fold[own] \in MANAGED_ATTRIBUTES \cup Reserved[kind] /\ Means[Fold[own]] = oid
      BY <1>1, <2>3, AttributeExtensionsAssumption
    <3>2. CASE Fold[own] \in Reserved[kind]
      BY <1>1, <3>1, <3>2
    <3>3. CASE Fold[own] \in MANAGED_ATTRIBUTES
      BY <1>1, <3>1, <3>3, AttributeExtensionsAssumption
    <3>4. QED
      BY <3>1, <3>2, <3>3
  <2>4. QED
    BY <2>1, <2>2, <2>3
<1>3. name \in Names /\ Fold[name] = name /\ Lookup(name) = oid
  BY <1>2, AttributeExtensionsAssumption DEF Lookup
<1>4. name \in Aliases(oid)
  BY <1>3 DEF Aliases
<1>5. name \in Protected \cup Olc
  BY <1>2 DEF Protected
<1>6. QED
  BY <1>4, <1>5 DEF Forbidden

\* The names of a merged entry.
LEMMA MergedNames ==
  ASSUME Inv, pc = "merged"
  PROVE  /\ DOMAIN entry = Generated[kind] \cup {attributes[i].name : i \in DOMAIN attributes}
         /\ \A own \in Generated[kind] : \A i \in DOMAIN attributes : attributes[i].name # own
         /\ \A own \in Generated[kind] : entry[own] = <<"own">>
         /\ \A name \in DOMAIN entry \ Generated[kind] : \E i \in DOMAIN attributes :
              attributes[i].name = name /\ entry[name] = attributes[i].values
<1>1. TypeOK /\ entry = Merged
  BY DEF Inv
<1>2. DOMAIN entry = Generated[kind] \cup {attributes[i].name : i \in DOMAIN attributes}
  BY <1>1 DEF Merged
<1>3. ASSUME NEW own \in Generated[kind], NEW i \in DOMAIN attributes
      PROVE  attributes[i].name # own
  <2>1. Fold[own] \in Protected
    BY <1>1, AttributeExtensionsAssumption DEF TypeOK, Protected
  <2>2. QED
    BY <2>1, MergedAttribute DEF Forbidden
<1>4. \A own \in Generated[kind] : entry[own] = <<"own">>
  BY <1>1, <1>3 DEF Merged
<1>5. ASSUME NEW name \in DOMAIN entry \ Generated[kind]
      PROVE  \E i \in DOMAIN attributes : attributes[i].name = name /\ entry[name] = attributes[i].values
  <2>. DEFINE chosen == CHOOSE item \in Elements(attributes) : item.name = name
  <2>1. \E item \in Elements(attributes) : item.name = name
    BY <1>2, <1>5 DEF Elements
  <2>2. chosen \in Elements(attributes) /\ chosen.name = name
    BY <2>1
  <2>3. entry[name] = chosen.values
    BY <1>1, <1>2, <1>5 DEF Merged
  <2>. HIDE DEF chosen
  <2>4. QED
    BY <2>2, <2>3 DEF Elements
<1>6. QED
  BY <1>2, <1>3, <1>4, <1>5

LEMMA KeptByInv == Inv => GeneratedKept
<1>. SUFFICES ASSUME Inv, pc = "merged" PROVE GeneratedKept
  BY DEF GeneratedKept
<1>1. ASSUME NEW name \in DOMAIN entry \ Generated[kind], NEW oid \in Above(name),
             NEW own \in Generated[kind], Means[own] = oid
      PROVE  FALSE
  <2>1. PICK i \in DOMAIN attributes : attributes[i].name = name
    BY <1>1, MergedNames
  <2>2. PICK oids \in SUBSET Oids : Accepted(attributes[i], oids) /\ Above(name) \subseteq oids
    BY <2>1, MergedAttribute
  <2>3. PICK known \in Names : Lookup(known) = oid
    BY <1>1, <2>2 DEF Accepted
  <2>4. ~Forbidden(Aliases(oid))
    BY <1>1, <2>2 DEF Accepted, Suitable
  <2>5. QED
    BY <1>1, <2>3, <2>4, OwnIsForbidden DEF Inv
<1>2. QED
  BY <1>1, MergedNames DEF GeneratedKept

\* What is merged takes the place of nothing generated and adds nothing to it.
THEOREM NothingReplaced == Spec => []GeneratedKept
  BY AcceptedClosed, KeptByInv, PTL

\* What is merged can be stored.
THEOREM MergedIsStorable == Spec => []Storable
<1>1. Inv => Storable
  <2>. SUFFICES ASSUME Inv, pc = "merged", NEW name \in DOMAIN entry \ Generated[kind]
                PROVE  /\ Above(name) \subseteq Ordinary
                       /\ Above(name) \cap SingleValued # {} => Len(entry[name]) = 1
                       /\ \A other \in DOMAIN entry : other # name => Means[other] # Means[name]
    BY DEF Storable
  <2>1. PICK i \in DOMAIN attributes : attributes[i].name = name /\ entry[name] = attributes[i].values
    BY MergedNames
  <2>2. PICK oids \in SUBSET Oids : Accepted(attributes[i], oids) /\ Above(name) \subseteq oids
    BY <2>1, MergedAttribute
  <2>3. Above(name) \subseteq Ordinary
    BY <2>2 DEF Accepted, Suitable
  <2>4. Above(name) \cap SingleValued # {} => Len(entry[name]) = 1
    BY <2>1, <2>2 DEF Accepted, Suitable
  <2>5. ASSUME NEW other \in DOMAIN entry, other # name PROVE Means[other] # Means[name]
    <3>1. CASE other \in Generated[kind]
      BY <2>1, <3>1, MergedAttribute, KeptByInv DEF GeneratedKept
    <3>2. CASE other \notin Generated[kind]
      <4>1. PICK j \in DOMAIN attributes : attributes[j].name = other
        BY <2>5, <3>2, MergedNames
      <4>2. QED
        BY <2>1, <2>5, <4>1, MergedAttribute
    <3>3. QED
      BY <3>1, <3>2
  <2>6. QED
    BY <2>3, <2>4, <2>5
<1>2. QED
  BY <1>1, AcceptedClosed, PTL

\* Where the loop over the superiors of an attribute stands.
Followed ==
  LET item == attributes[index] IN
  /\ Elements(lineage) \subseteq Above(item.name)
  /\ IsFiniteSet(Elements(lineage)) /\ Cardinality(Elements(lineage)) = Len(lineage)
  /\ Len(lineage) <= MaxDepth
  /\ lineage # << >> => Lookup(item.name) # None
  /\ \A oid \in Elements(lineage) :
       /\ Len(sup[oid]) < 2
       /\ \A k \in DOMAIN sup[oid] : Lookup(sup[oid][k]) # None \/ (pc = "lineage" /\ at = sup[oid][k])
  /\ pc = "lineage" =>
       /\ \A oid \in Elements(lineage) : sup[oid] # << >>
       /\ IF lineage = << >> THEN at = item.name
          ELSE \E oid \in Elements(lineage) : \E k \in DOMAIN sup[oid] : at = sup[oid][k]
  /\ pc = "check" => \E oid \in Elements(lineage) : sup[oid] = << >>

AttributeVerdict ==
  /\ pc \in {"lineage", "check"} => Followed
  /\ pc \notin {"parse", "refused"} => WellFormed(attributes)
  /\ pc = "refused" => ~Admissible
  /\ pc # "refused" =>
       /\ seen = {Means[attributes[i].name] : i \in {j \in DOMAIN attributes : j < index}}
       /\ \A i \in DOMAIN attributes : i < index => Fitting(attributes[i])

\* What is above a name is the least closed set that holds it.
LEMMA AboveLeast ==
  ASSUME TypeOK, NEW name \in Names
  PROVE  /\ Above(name) \subseteq Oids /\ Means[name] \in Above(name) /\ Closed(Above(name))
         /\ \A oids \in SUBSET Oids : Means[name] \in oids /\ Closed(oids) => Above(name) \subseteq oids
<1>1. Above(name) \subseteq Oids /\ Means[name] \in Above(name)
  BY AttributeExtensionsAssumption DEF Above
<1>2. ASSUME NEW oid \in Above(name), NEW i \in DOMAIN sup[oid]
      PROVE  Means[sup[oid][i]] \in Above(name)
  <2>1. oid \in Oids
    BY <1>1
  <2>2. sup[oid][i] \in Names
    BY <2>1 DEF TypeOK
  <2>3. Means[sup[oid][i]] \in Oids
    BY <2>2, AttributeExtensionsAssumption
  <2>4. QED
    BY <1>2, <2>3 DEF Above, Closed
<1>3. QED
  BY <1>1, <1>2 DEF Above, Closed

\* The definition of what is admissible depends on the input alone.
LEMMA AdmissibleFrame ==
  ASSUME UNCHANGED input
  PROVE  /\ \A name : Above(name)' = Above(name)
         /\ \A item : Fitting(item)' = Fitting(item)
         /\ Admissible' = Admissible /\ WellFormed(attributes)' = WellFormed(attributes)
<1>1. UNCHANGED <<sup, kind, attributes>>
  BY DEF input
<1>2. \A name : Above(name)' = Above(name)
  BY <1>1, InputFrame DEF Above
<1>3. \A item : Fitting(item)' = Fitting(item)
  BY <1>1, <1>2 DEF Fitting
<1>4. WellFormed(attributes)' = WellFormed(attributes)
  BY <1>1
<1>5. QED
  BY <1>1, <1>2, <1>3, <1>4 DEF Admissible

\* Who is refused for a name means an attribute that it must not.
LEMMA ForbiddenMeans ==
  ASSUME TypeOK, NEW name \in Names, Forbidden({Fold[name]})
  PROVE  \E own \in Olc \cup MANAGED_ATTRIBUTES \cup Generated[kind] : Means[own] = Means[name]
<1>. DEFINE f == Fold[name]
<1>1. f \in Names /\ Means[f] = Means[name] /\ kind \in {"user", "group", "bind"}
  BY AttributeExtensionsAssumption DEF TypeOK
<1>2. ASSUME NEW n \in MANAGED_ATTRIBUTES \cup Reserved[kind]
      PROVE  \E own \in MANAGED_ATTRIBUTES \cup Generated[kind] : Means[own] = Means[n]
  <2>1. CASE n \in Reserved[kind]
    <3>1. PICK own \in Generated[kind] : Fold[own] = n /\ own \in Names
      BY <1>1, <2>1, AttributeExtensionsAssumption
    <3>2. Means[Fold[own]] = Means[own]
      BY <3>1, AttributeExtensionsAssumption
    <3>3. QED
      BY <3>1, <3>2
  <2>2. QED
    BY <1>2, <2>1
<1>3. CASE f \in Olc
  BY <1>1, <1>3
<1>4. CASE f \in MANAGED_ATTRIBUTES \cup Reserved[kind]
  BY <1>1, <1>2, <1>4
<1>5. CASE \E n \in MANAGED_ATTRIBUTES \cup Reserved[kind] : Lookup(n) # None /\ f \in Aliases(Lookup(n))
  <2>1. PICK n \in MANAGED_ATTRIBUTES \cup Reserved[kind] : Lookup(n) # None /\ f \in Aliases(Lookup(n))
    BY <1>5
  <2>2. PICK m \in Names : Lookup(m) = Lookup(n) /\ f = Fold[m]
    BY <2>1 DEF Aliases
  <2>3. n \in Names
    BY <1>1, <2>1, AttributeExtensionsAssumption
  <2>4. Means[m] = Means[n]
    BY <2>1, <2>2, <2>3, LookupMeans
  <2>5. Means[f] = Means[m]
    BY <2>2, AttributeExtensionsAssumption
  <2>6. QED
    BY <1>1, <1>2, <2>4, <2>5
<1>6. f \in Protected \cup Olc
  BY DEF Forbidden
<1>7. QED
  BY <1>3, <1>4, <1>5, <1>6 DEF Protected

\* The request whose superiors are followed.
LEMMA FollowedItem ==
  ASSUME Inv, pc \in {"lineage", "check"}
  PROVE  /\ TypeOK /\ Chain /\ index \in DOMAIN attributes /\ attributes[index].name \in Names
         /\ lineage \in Seq(Oids) /\ Elements(lineage) \subseteq Oids
<1>1. TypeOK /\ Chain
  BY InvParts
<1>2. index \in DOMAIN attributes /\ lineage \in Seq(Oids)
  BY <1>1 DEF TypeOK
<1>3. Elements(lineage) \subseteq Oids
  BY <1>2 DEF Elements
<1>4. QED
  BY <1>1, <1>2, <1>3, RequestItem

\* The lineage of an attribute that is at its end is what is above it.
LEMMA WholeLineage ==
  ASSUME Inv, AttributeVerdict, pc = "check"
  PROVE  /\ Elements(lineage) = Above(attributes[index].name)
         /\ Elements(lineage) \subseteq {Lookup(name) : name \in Names}
         /\ lineage[1] = Means[attributes[index].name]
<1>. DEFINE name == attributes[index].name
<1>1. /\ TypeOK /\ Chain /\ name \in Names /\ Elements(lineage) \subseteq Oids
      /\ lineage \in Seq(Oids) /\ Elements(lineage) \subseteq Above(name)
  BY FollowedItem DEF AttributeVerdict, Followed
<1>2. lineage # << >> /\ 1 \in DOMAIN lineage /\ lineage[1] = Means[name]
  BY <1>1 DEF Chain
<1>3. Means[name] \in Elements(lineage)
  BY <1>2 DEF Elements
<1>4. Closed(Elements(lineage))
  BY <1>1 DEF Chain, Closed, Elements
<1>5. Above(name) \subseteq Elements(lineage)
  BY <1>1, <1>3, <1>4, AboveLeast
<1>6. Elements(lineage) \subseteq {Lookup(n) : n \in Names}
  BY <1>1 DEF Chain, Elements
<1>7. QED
  BY <1>1, <1>2, <1>5, <1>6

\* An attribute whose lineage has passed every check fits.
LEMMA CheckedFits ==
  ASSUME Inv, AttributeVerdict, pc = "check",
         \A oid \in Elements(lineage) : Suitable(oid, attributes[index].values)
  PROVE  Fitting(attributes[index])
<1>. DEFINE item  == attributes[index]
            above == Above(item.name)
<1>1. /\ above = Elements(lineage) /\ above \subseteq {Lookup(name) : name \in Names}
      /\ TypeOK /\ Followed /\ lineage[1] = Means[item.name] /\ lineage # << >>
      /\ \A oid \in above : Suitable(oid, item.values)
  BY WholeLineage, FollowedItem DEF AttributeVerdict, Chain
<1>2. /\ Lookup(item.name) # None
      /\ \A oid \in above : Len(sup[oid]) < 2
      /\ \A oid \in above : \A k \in DOMAIN sup[oid] : Lookup(sup[oid][k]) # None
      /\ \E oid \in above : sup[oid] = << >>
      /\ Cardinality(above) <= MaxDepth
  BY <1>1 DEF Followed
<1>3. above \subseteq Ordinary /\ (above \cap SingleValued # {} => Len(item.values) = 1)
  BY <1>1 DEF Suitable
<1>4. ASSUME NEW own \in Olc \cup MANAGED_ATTRIBUTES \cup Generated[kind], Means[own] \in above
      PROVE  FALSE
  <2>1. PICK known \in Names : Lookup(known) = Means[own]
    BY <1>1, <1>4
  <2>2. Forbidden(Aliases(Means[own]))
    BY <1>1, <2>1, OwnIsForbidden
  <2>3. QED
    BY <1>1, <1>4, <2>2 DEF Suitable
<1>5. QED
  BY <1>2, <1>3, <1>4 DEF Fitting

\* A request is refused for a name on its way, or for the attribute itself.
LEMMA ForbiddenUnfit ==
  ASSUME TypeOK, NEW i \in DOMAIN attributes, NEW name \in Names,
         Means[name] \in Above(attributes[i].name), Forbidden({Fold[name]})
  PROVE  ~Admissible
<1>1. PICK own \in Olc \cup MANAGED_ATTRIBUTES \cup Generated[kind] : Means[own] = Means[name]
  BY ForbiddenMeans
<1>2. QED
  BY <1>1 DEF Admissible, Fitting

\* One that has not passed them does not.
LEMMA CheckRefusal ==
  ASSUME Inv, AttributeVerdict, Check, Refuse
  PROVE  ~Admissible
<1>. DEFINE item == attributes[index]
<1>1. /\ pc = "check" /\ index \in DOMAIN attributes /\ TypeOK
      /\ Elements(lineage) = Above(item.name) /\ lineage[1] = Means[item.name]
      /\ Elements(lineage) \subseteq Oids
  BY WholeLineage, FollowedItem DEF Check
<1>2. CASE lineage[1] \in seen
  <2>1. PICK j \in DOMAIN attributes : j < index /\ Means[attributes[j].name] = Means[item.name]
    BY <1>1, <1>2 DEF AttributeVerdict
  <2>2. j # index
    BY <1>1, <2>1 DEF TypeOK
  <2>3. QED
    BY <1>1, <2>1, <2>2 DEF Admissible
<1>3. CASE lineage[1] \notin seen
  <2>1. ~(\A oid \in Elements(lineage) : Suitable(oid, item.values))
    BY <1>1, <1>3 DEF Check, Refuse
  <2>2. PICK oid \in Above(item.name) : ~Suitable(oid, item.values)
    BY <1>1, <2>1
  <2>3. CASE Forbidden(Aliases(oid))
    <3>1. PICK name \in Names : Lookup(name) = oid /\ Forbidden({Fold[name]})
      BY <2>3 DEF Forbidden, Aliases
    <3>2. Means[name] = oid
      BY <1>1, <2>2, <3>1, LookupMeans, AttributeExtensionsAssumption
    <3>3. QED
      BY <1>1, <2>2, <3>1, <3>2, ForbiddenUnfit
  <2>4. CASE ~Forbidden(Aliases(oid))
    BY <1>1, <2>2, <2>4 DEF Suitable, Admissible, Fitting
  <2>5. QED
    BY <2>3, <2>4
<1>4. QED
  BY <1>2, <1>3

\* A loop that stops early has found a circle, too long a chain, an unknown superior or
\* several.
LEMMA LineageRefusal ==
  ASSUME Inv, AttributeVerdict, attribute_lineage, Refuse
  PROVE  ~Admissible
<1>. DEFINE item  == attributes[index]
            above == Above(item.name)
            oid   == Lookup(at)
            found == Elements(lineage)
<1>1. /\ pc = "lineage" /\ index \in DOMAIN attributes /\ TypeOK /\ Chain /\ Followed
      /\ item.name \in Names /\ found \subseteq Oids /\ at \in Names /\ found \subseteq above
      /\ lineage \in Seq(Oids)
  BY FollowedItem DEF attribute_lineage, AttributeVerdict, Followed, TypeOK
<1>2. Means[at] \in above /\ above \subseteq Oids /\ Closed(above)
  <2>1. CASE lineage = << >>
    BY <1>1, <2>1, AboveLeast DEF Followed
  <2>2. CASE lineage # << >>
    BY <1>1, <2>2, AboveLeast DEF Followed, Closed
  <2>3. QED
    BY <1>1, <2>1, <2>2, AboveLeast
<1>3. CASE oid = None
  <2>1. CASE lineage = << >>
    BY <1>1, <1>3, <2>1 DEF Followed, Admissible, Fitting
  <2>2. CASE lineage # << >>
    BY <1>1, <1>3, <2>2 DEF Followed, Admissible, Fitting
  <2>3. QED
    BY <2>1, <2>2
<1>4. CASE oid # None
  <2>1. oid = Means[at] /\ oid \in above
    BY <1>1, <1>2, <1>4, LookupMeans
  <2>2. CASE oid \in found
    <3>1. lineage # << >>
      BY <2>2 DEF Elements
    <3>2. Means[item.name] \in found
      BY <1>1, <3>1 DEF Chain, Elements
    <3>3. Closed(found)
      BY <1>1, <2>1, <2>2 DEF Chain, Closed, Elements
    <3>4. above \subseteq found
      BY <1>1, <3>2, <3>3, AboveLeast
    <3>5. \A other \in above : sup[other] # << >>
      BY <1>1, <3>4 DEF Followed
    <3>6. QED
      BY <1>1, <3>5 DEF Admissible, Fitting
  <2>3. CASE oid \notin found /\ Len(lineage) >= MaxDepth
    <3>1. IsFiniteSet(found) /\ Cardinality(found) = Len(lineage) /\ Len(lineage) \in Nat
      BY <1>1 DEF Followed
    <3>2. IsFiniteSet(found \cup {oid}) /\ Cardinality(found \cup {oid}) = Len(lineage) + 1
      BY <2>3, <3>1, FS_AddElement
    <3>3. IsFiniteSet(above)
      BY <1>2, FS_Subset, AttributeExtensionsAssumption
    <3>4. found \cup {oid} \in SUBSET above
      BY <1>1, <2>1
    <3>5. Cardinality(above) \in Nat /\ Cardinality(found \cup {oid}) <= Cardinality(above)
      BY <3>3, <3>4, FS_Subset, FS_CardinalityType
    <3>6. ~(Cardinality(above) <= MaxDepth)
      BY <2>3, <3>1, <3>2, <3>5, AttributeExtensionsAssumption
    <3>7. QED
      BY <1>1, <3>6 DEF Admissible, Fitting
  <2>4. CASE Len(sup[oid]) > 1
    <3>1. sup[oid] \in Seq(Names)
      BY <1>1, <1>2, <2>1 DEF TypeOK
    <3>2. ~(Len(sup[oid]) < 2)
      BY <2>4, <3>1
    <3>3. QED
      BY <1>1, <2>1, <3>2 DEF Admissible, Fitting
  <2>5. QED
    BY <1>1, <1>4, <2>2, <2>3, <2>4 DEF attribute_lineage, Refuse
<1>5. QED
  BY <1>3, <1>4

\* One round of the loop over the superiors.
LEMMA FollowStep ==
  ASSUME Inv, AttributeVerdict, attribute_lineage, ~Refuse
  PROVE  Followed'
<1>. DEFINE item  == attributes[index]
            oid   == Lookup(at)
            new   == Append(lineage, oid)
            found == Elements(lineage)
<1>1. /\ pc = "lineage" /\ oid # None /\ oid \notin found /\ ~(Len(lineage) >= MaxDepth)
      /\ ~(Len(sup[oid]) > 1) /\ lineage' = new
      /\ IF sup[oid] = << >> THEN pc' = "check" /\ UNCHANGED at
                             ELSE at' = sup[oid][1] /\ UNCHANGED pc
      /\ UNCHANGED <<sup, kind, attributes, index, seen, entry>> /\ UNCHANGED input
  BY DEF attribute_lineage, input
<1>2. /\ TypeOK /\ Chain /\ Followed /\ item.name \in Names /\ found \subseteq Oids
      /\ at \in Names /\ found \subseteq Above(item.name) /\ lineage \in Seq(Oids)
  BY <1>1, FollowedItem DEF AttributeVerdict, Followed, TypeOK
<1>3. oid = Means[at] /\ oid \in Oids
  BY <1>1, <1>2, LookupMeans
<1>4. oid \in Above(item.name)
  <2>1. CASE lineage = << >>
    BY <1>1, <1>2, <1>3, <2>1, AboveLeast DEF Followed
  <2>2. CASE lineage # << >>
    BY <1>1, <1>2, <1>3, <2>2, AboveLeast DEF Followed, Closed
  <2>3. QED
    BY <2>1, <2>2
<1>5. Elements(new) = found \cup {oid} /\ Len(new) = Len(lineage) + 1 /\ new # << >>
  <2>1. \A k \in DOMAIN lineage : k \in DOMAIN new /\ new[k] = lineage[k]
    BY <1>2, <1>3, AppendElements
  <2>2. Len(lineage) + 1 \in DOMAIN new /\ new[Len(lineage) + 1] = oid
    BY <1>2, <1>3, AppendElements
  <2>3. \A k \in DOMAIN new : k \in DOMAIN lineage \/ k = Len(lineage) + 1
    BY <1>2, <1>3, AppendElements
  <2>4. Len(new) = Len(lineage) + 1 /\ new # << >>
    BY <1>2, <1>3
  <2>. HIDE DEF new
  <2>5. QED
    BY <2>1, <2>2, <2>3, <2>4 DEF Elements
<1>6. IsFiniteSet(Elements(new)) /\ Cardinality(Elements(new)) = Len(new) /\ Len(new) <= MaxDepth
  <2>1. IsFiniteSet(found) /\ Cardinality(found) = Len(lineage) /\ Len(lineage) \in Nat
    BY <1>2 DEF Followed
  <2>2. IsFiniteSet(found \cup {oid}) /\ Cardinality(found \cup {oid}) = Len(lineage) + 1
    BY <1>1, <2>1, FS_AddElement
  <2>3. Len(lineage) + 1 <= MaxDepth
    BY <1>1, <2>1, AttributeExtensionsAssumption
  <2>. HIDE DEF new, found
  <2>4. QED
    BY <1>5, <2>2, <2>3
<1>. HIDE DEF new
<1>7. Lookup(item.name) # None
  BY <1>1, <1>2 DEF Followed
<1>8. sup[oid] \in Seq(Names) /\ Len(sup[oid]) < 2
      /\ \A k \in DOMAIN sup[oid] : k = 1 /\ sup[oid] # << >>
  BY <1>1, <1>2, <1>3 DEF TypeOK
<1>9. \A other \in Elements(new) :
        /\ Len(sup[other]) < 2
        /\ \A k \in DOMAIN sup[other] :
             Lookup(sup[other][k]) # None \/ (pc' = "lineage" /\ at' = sup[other][k])
  <2>1. ASSUME NEW other \in found, NEW k \in DOMAIN sup[other] PROVE Lookup(sup[other][k]) # None
    BY <1>1, <1>2, <2>1 DEF Followed
  <2>2. \A other \in found : Len(sup[other]) < 2
    BY <1>2 DEF Followed
  <2>3. ASSUME NEW k \in DOMAIN sup[oid] PROVE pc' = "lineage" /\ at' = sup[oid][k]
    BY <1>1, <1>8, <2>3
  <2>4. QED
    BY <1>5, <1>8, <2>1, <2>2, <2>3
<1>10. pc' = "lineage" => /\ \A other \in Elements(new) : sup[other] # << >>
                          /\ \E other \in Elements(new) : \E k \in DOMAIN sup[other] : at' = sup[other][k]
  <2>. SUFFICES ASSUME pc' = "lineage"
                PROVE  /\ \A other \in Elements(new) : sup[other] # << >>
                       /\ \E other \in Elements(new) : \E k \in DOMAIN sup[other] : at' = sup[other][k]
    OBVIOUS
  <2>1. sup[oid] # << >> /\ at' = sup[oid][1]
    BY <1>1
  <2>2. 1 \in DOMAIN sup[oid]
    BY <1>8, <2>1
  <2>3. QED
    BY <1>1, <1>2, <1>5, <2>1, <2>2 DEF Followed
<1>11. pc' = "check" => \E other \in Elements(new) : sup[other] = << >>
  BY <1>1, <1>5
<1>12. Elements(new) \subseteq Above(item.name)
  BY <1>2, <1>4, <1>5
<1>13. \A name : Above(name)' = Above(name)
  BY <1>1, AdmissibleFrame
<1>14. /\ item' = item /\ Elements(lineage)' = Elements(new) /\ Lookup(item.name)' = Lookup(item.name)
  BY <1>1 DEF Elements
<1>15. QED
  BY <1>1, <1>5, <1>6, <1>7, <1>9, <1>10, <1>11, <1>12, <1>13, <1>14 DEF Followed

\* Every refusal has a reason in the definition of what is admissible.
LEMMA AttributeRefusal ==
  ASSUME Inv, AttributeVerdict, Refuse, Next
  PROVE  ~Admissible
<1>1. CASE parse_extensions
  BY <1>1 DEF parse_extensions, Refuse, Admissible
<1>2. CASE validate
  <2>. DEFINE name == attributes[index].name
  <2>1. TypeOK /\ index \in DOMAIN attributes /\ Forbidden({Fold[name]})
    BY <1>2, InvParts, RequestItem DEF validate, Refuse, TypeOK
  <2>2. name \in Names /\ Means[name] \in Above(name)
    BY <2>1, RequestItem, AboveLeast
  <2>3. QED
    BY <2>1, <2>2, ForbiddenUnfit
<1>3. CASE merge
  BY <1>3 DEF merge, Refuse
<1>4. QED
  BY <1>1, <1>2, <1>3, LineageRefusal, CheckRefusal DEF Next

LEMMA AttributeVerdictInit == Init => AttributeVerdict
<1>. SUFFICES ASSUME Init PROVE AttributeVerdict
  OBVIOUS
<1>1. \A i \in DOMAIN attributes : ~(i < index)
  BY InitInv, InvParts, RequestItem DEF Init
<1>2. QED
  BY <1>1 DEF Init, AttributeVerdict

LEMMA AttributeVerdictStep == Inv /\ AttributeVerdict /\ [Next]_vars => AttributeVerdict'
<1>. SUFFICES ASSUME Inv, AttributeVerdict, [Next]_vars PROVE AttributeVerdict'
  OBVIOUS
<1>1. TypeOK /\ (UNCHANGED input => /\ Admissible' = Admissible
                                    /\ WellFormed(attributes)' = WellFormed(attributes)
                                    /\ \A item : Fitting(item)' = Fitting(item)
                                    /\ \A name : Above(name)' = Above(name))
  BY InvParts, AdmissibleFrame
<1>2. CASE UNCHANGED vars
  <2>1. UNCHANGED <<input, sup, kind, attributes, pc, index, seen, at, lineage, entry>>
    BY <1>2 DEF vars, input
  <2>2. Followed' = Followed
    BY <1>1, <2>1 DEF Followed, Elements
  <2>3. QED
    BY <1>1, <2>1, <2>2 DEF AttributeVerdict
<1>3. CASE Refuse /\ Next
  BY <1>1, <1>3, AttributeRefusal DEF Refuse, AttributeVerdict
<1>4. CASE parse_extensions /\ ~Refuse
  <2>1. /\ pc = "parse" /\ pc' = "next" /\ WellFormed(attributes)
        /\ UNCHANGED <<input, sup, kind, attributes, index, seen>>
    BY <1>4 DEF parse_extensions, input
  <2>2. QED
    BY <1>1, <2>1 DEF AttributeVerdict
<1>5. CASE validate /\ ~Refuse
  <2>1. /\ pc = "next" /\ index <= Len(attributes) /\ pc' = "lineage" /\ at' = attributes[index].name
        /\ lineage' = << >> /\ UNCHANGED <<input, sup, kind, attributes, index, seen>>
    BY <1>5 DEF validate, input
  <2>2. Elements(lineage)' = {} /\ lineage' = << >> /\ Len(lineage') = 0 /\ 0 <= MaxDepth
    BY <2>1, AttributeExtensionsAssumption DEF Elements
  <2>3. IsFiniteSet(Elements(lineage)') /\ Cardinality(Elements(lineage)') = Len(lineage')
    BY <2>2, FS_EmptySet
  <2>4. Followed'
    BY <2>1, <2>2, <2>3 DEF Followed
  <2>5. QED
    BY <1>1, <2>1, <2>4 DEF AttributeVerdict
<1>6. CASE attribute_lineage /\ ~Refuse
  <2>1. /\ pc = "lineage" /\ pc' \in {"lineage", "check"}
        /\ UNCHANGED <<input, sup, kind, attributes, index, seen>>
    BY <1>6 DEF attribute_lineage, input
  <2>2. QED
    BY <1>1, <1>6, <2>1, FollowStep DEF AttributeVerdict
<1>7. CASE Check /\ ~Refuse
  <2>1. /\ pc = "check" /\ \A oid \in Elements(lineage) : Suitable(oid, attributes[index].values)
        /\ pc' = "next" /\ index' = index + 1 /\ seen' = seen \cup {lineage[1]}
        /\ UNCHANGED <<input, sup, kind, attributes>>
    BY <1>7 DEF Check, input
  <2>2. Fitting(attributes[index]) /\ lineage[1] = Means[attributes[index].name]
    BY <2>1, CheckedFits, WholeLineage
  <2>3. index \in DOMAIN attributes /\ \A i \in DOMAIN attributes : i < index + 1 <=> i < index \/ i = index
    <3>1. index \in DOMAIN attributes /\ DOMAIN attributes = 1..Len(attributes) /\ Len(attributes) \in Nat
      BY <1>1, <2>1, RequestItem DEF TypeOK
    <3>2. QED
      BY <3>1
  <2>4. seen' = {Means[attributes[i].name] : i \in {j \in DOMAIN attributes : j < index + 1}}
    BY <2>1, <2>2, <2>3 DEF AttributeVerdict
  <2>5. QED
    BY <1>1, <2>1, <2>2, <2>3, <2>4 DEF AttributeVerdict
<1>8. CASE merge
  BY <1>1, <1>8 DEF merge, input, AttributeVerdict
<1>9. QED
  BY <1>2, <1>3, <1>4, <1>5, <1>6, <1>7, <1>8 DEF Next

\* The loop over the attributes refuses only lists that are not admissible, and what it
\* has passed so far fits.
THEOREM AttributesJudged == Spec => [](Inv /\ AttributeVerdict)
<1>1. Init => Inv /\ AttributeVerdict
  BY InitInv, AttributeVerdictInit
<1>2. Inv /\ AttributeVerdict /\ [Next]_vars => Inv' /\ AttributeVerdict'
  <2>1. Inv /\ [Next]_vars => Inv'
    BY ParseStep, ValidateStep, LineageStep, CheckStep, MergeStep, StutterStep DEF Next
  <2>2. QED
    BY <2>1, AttributeVerdictStep
<1>3. QED
  BY <1>1, <1>2, PTL DEF Spec

\* So what is merged is admissible.
LEMMA MergedAdmissible == Inv /\ AttributeVerdict /\ pc = "merged" => Admissible
<1>. SUFFICES ASSUME Inv, AttributeVerdict, pc = "merged" PROVE Admissible
  OBVIOUS
<1>1. TypeOK /\ index > Len(attributes) /\ WellFormed(attributes)
  BY InvParts DEF AttributeVerdict
<1>2. \A i \in DOMAIN attributes : i < index
  BY <1>1 DEF TypeOK
<1>3. QED
  BY <1>1, <1>2, MergedAttribute DEF AttributeVerdict, Admissible

(***************************************************************************)
(* Object classes.                                                         *)
(***************************************************************************)

\* Every set of natural numbers has a least one.
LEMMA LeastElement ==
  ASSUME NEW S \in SUBSET Nat, S # {}
  PROVE  \E n \in S : \A m \in S : n <= m
<1>1. IsWellFoundedOn(OpToRel(<, Nat), Nat)
  BY NatLessThanWellFounded
<1>2. PICK n \in S : \A m \in S : ~(<<m, n>> \in OpToRel(<, Nat))
  BY <1>1, WFMin
<1>3. ASSUME NEW m \in S PROVE n <= m
  <2>1. ~(m < n)
    BY <1>2 DEF OpToRel
  <2>2. QED
    BY <2>1
<1>4. QED
  BY <1>3

\* The levels of the tree are what their definition says.
LEMMA LevelDef ==
  /\ Level[0] = {[name |-> object_classes[i], branch |-> <<i>>] : i \in DOMAIN object_classes}
  /\ \A depth \in Nat : Level[depth + 1] = UNION {Raised(node) : node \in Level[depth]}
<1>. DEFINE Roots == {[name |-> object_classes[i], branch |-> <<i>>] : i \in DOMAIN object_classes}
            Up(nodes) == UNION {Raised(node) : node \in nodes}
            Upto(f, n) == /\ f = [k \in 0..n |-> f[k]] /\ f[0] = Roots
                          /\ \A k \in 1..n : f[k] = Up(f[k - 1])
            Defines(f) == f = [depth \in Nat |-> IF depth = 0 THEN Roots ELSE Up(f[depth - 1])]
<1>1. Level = CHOOSE f : Defines(f)
  BY DEF Level
<1>. HIDE DEF Roots, Up
<1>2. ASSUME NEW n \in Nat PROVE \E f : Upto(f, n)
  <2>. DEFINE S == {m \in Nat : ~\E f : Upto(f, m)}
  <2>. SUFFICES ASSUME S # {} PROVE FALSE
    OBVIOUS
  <2>1. PICK m \in S : \A l \in S : m <= l
    BY LeastElement
  <2>2. Upto([k \in 0..0 |-> Roots], 0)
    OBVIOUS
  <2>3. m \in Nat \ {0} /\ m - 1 \in Nat /\ m - 1 \notin S
    <3>1. m # 0
      BY <2>1, <2>2
    <3>. HIDE DEF Upto
    <3>2. m \in Nat /\ ~(m <= m - 1)
      BY <2>1
    <3>. HIDE DEF S
    <3>3. QED
      BY <2>1, <3>1, <3>2
  <2>4. PICK f : Upto(f, m - 1)
    BY <2>3
  <2>. DEFINE g == [k \in 0..m |-> IF k = m THEN Up(f[m - 1]) ELSE f[k]]
  <2>5. Upto(g, m)
    <3>1. m \in 0..m /\ 0 \in 0..m /\ 0 # m /\ g[m] = Up(f[m - 1]) /\ g[0] = f[0]
      BY <2>3
    <3>2. ASSUME NEW k \in 1..m PROVE g[k] = Up(g[k - 1])
      <4>1. k \in 0..m /\ k - 1 \in 0..m /\ k - 1 # m /\ g[k - 1] = f[k - 1]
        BY <2>3
      <4>2. CASE k = m
        BY <3>1, <4>1, <4>2
      <4>3. CASE k # m
        <5>1. k \in 1..(m - 1) /\ g[k] = f[k]
          BY <2>3, <4>1, <4>3
        <5>2. QED
          BY <2>4, <4>1, <5>1
      <4>4. QED
        BY <4>2, <4>3
    <3>3. g = [k \in 0..m |-> g[k]]
      OBVIOUS
    <3>4. QED
      BY <2>4, <3>1, <3>2, <3>3
  <2>6. QED
    BY <2>1, <2>5
<1>3. ASSUME NEW n \in Nat, NEW m \in Nat, NEW f, NEW g, Upto(f, n), Upto(g, m)
      PROVE  \A k \in 0..n : k <= m => f[k] = g[k]
  <2>. DEFINE S == {k \in 0..n : k <= m /\ f[k] # g[k]}
  <2>. SUFFICES ASSUME S # {} PROVE FALSE
    OBVIOUS
  <2>1. PICK k \in S : \A l \in S : k <= l
    <3>1. S \in SUBSET Nat
      OBVIOUS
    <3>. HIDE DEF S
    <3>2. QED
      BY <3>1, LeastElement
  <2>2. k # 0
    BY <1>3, <2>1
  <2>3. k \in 1..n /\ k \in 1..m /\ k - 1 \in 0..n /\ k - 1 <= m /\ k - 1 \notin S
    BY <2>1, <2>2
  <2>4. f[k - 1] = g[k - 1] /\ f[k] = Up(f[k - 1]) /\ g[k] = Up(g[k - 1])
    BY <1>3, <2>3
  <2>5. QED
    BY <2>1, <2>4
<1>. DEFINE Approx(n) == CHOOSE f : Upto(f, n)
            levels    == [n \in Nat |-> Approx(n)[n]]
<1>4. \A n \in Nat : Upto(Approx(n), n)
  BY <1>2
<1>. HIDE DEF Approx
<1>5. Defines(levels)
  <2>1. ASSUME NEW n \in Nat, n # 0 PROVE levels[n] = Up(levels[n - 1])
    <3>1. n - 1 \in Nat /\ n \in 1..n /\ n - 1 \in 0..n - 1 /\ n - 1 <= n
      BY <2>1
    <3>2. Approx(n - 1)[n - 1] = Approx(n)[n - 1]
      BY <1>3, <1>4, <3>1
    <3>3. Approx(n)[n] = Up(Approx(n)[n - 1])
      BY <1>4, <3>1
    <3>4. QED
      BY <3>1, <3>2, <3>3
  <2>2. levels[0] = Roots
    BY <1>4
  <2>3. QED
    BY <2>1, <2>2
<1>6. Defines(Level)
  BY <1>1, <1>5
<1>. HIDE DEF Upto
<1>7. Level[0] = Roots /\ \A depth \in Nat : Level[depth + 1] = Up(Level[depth])
  <2>1. ASSUME NEW depth \in Nat PROVE Level[depth + 1] = Up(Level[depth])
    <3>1. depth + 1 \in Nat /\ depth + 1 # 0 /\ depth + 1 - 1 = depth
      OBVIOUS
    <3>2. QED
      BY <1>6, <3>1
  <2>2. QED
    BY <1>6, <2>1
<1>8. QED
  BY <1>7 DEF Roots, Up

\* Taking the last element of a list off and appending another list to it: new has
\* the m others, and after them the elements of more.
PoppedAndExtended(list, more, m, new) ==
  /\ m \in Nat /\ DOMAIN list = 1..(m + 1) /\ Len(list) = m + 1
  /\ DOMAIN new = 1..(m + Len(more))
  /\ \A i \in 1..m : new[i] = list[i]
  /\ \A i \in DOMAIN more : new[m + i] = more[i]

LEMMA Worklist ==
  ASSUME NEW S, NEW list \in Seq(S), list # << >>, NEW more \in Seq(S),
         NEW m, m = Len(list) - 1, NEW new, new = PopExtend(list, more)
  PROVE  new \in Seq(S) /\ PoppedAndExtended(list, more, m, new)
<1>. DEFINE kept == SubSeq(list, 1, m)
<1>1. /\ Len(list) \in Nat \ {0} /\ m \in Nat /\ Len(list) = m + 1 /\ Len(more) \in Nat
      /\ DOMAIN list = 1..Len(list) /\ DOMAIN more = 1..Len(more)
  OBVIOUS
<1>2. /\ kept \in Seq(S) /\ Len(kept) = m
      /\ \A i \in 1..m : kept[i] = list[i]
  <2>1. m \in Nat /\ m <= Len(list)
    BY <1>1
  <2>2. kept \in Seq(S) /\ Len(kept) = m
    BY <2>1
  <2>3. ASSUME NEW i \in 1..m PROVE kept[i] = list[i]
    BY <2>1
  <2>4. QED
    BY <2>2, <2>3
<1>3. /\ new \in Seq(S) /\ Len(new) = Len(kept) + Len(more)
      /\ \A i \in 1..(Len(kept) + Len(more)) :
           new[i] = IF i <= Len(kept) THEN kept[i] ELSE more[i - Len(kept)]
  <2>1. new = kept \o more
    BY DEF PopExtend
  <2>. HIDE DEF kept
  <2>2. /\ kept \o more \in Seq(S) /\ Len(kept \o more) = Len(kept) + Len(more)
        /\ \A i \in 1..(Len(kept) + Len(more)) :
             (kept \o more)[i] = IF i <= Len(kept) THEN kept[i] ELSE more[i - Len(kept)]
    BY <1>2, ConcatProperties
  <2>3. QED
    BY <2>1, <2>2
<1>. HIDE DEF kept
<1>4. \A i \in 1..(m + Len(more)) : new[i] = IF i <= m THEN kept[i] ELSE more[i - m]
  BY <1>2, <1>3
<1>5. DOMAIN new = 1..(m + Len(more))
  BY <1>1, <1>2, <1>3
<1>6. ASSUME NEW i \in 1..m PROVE new[i] = list[i]
  <2>1. i \in 1..(m + Len(more)) /\ i <= m
    BY <1>1
  <2>2. QED
    BY <2>1, <1>2, <1>4
<1>7. ASSUME NEW i \in 1..Len(more) PROVE new[m + i] = more[i]
  <2>1. m + i \in 1..(m + Len(more)) /\ ~(m + i <= m) /\ m + i - m = i
    BY <1>1
  <2>2. new[m + i] = IF m + i <= m THEN kept[m + i] ELSE more[m + i - m]
    BY <2>1, <1>4
  <2>3. QED
    BY <2>1, <2>2
<1>8. QED
  BY <1>1, <1>3, <1>5, <1>6, <1>7 DEF PoppedAndExtended

\* The items that a class puts on the list.
LEMMA ParentItems ==
  ASSUME ClassTypeOK, NEW item \in Pending, Inheritable(item.name)
  PROVE  LET class == ClassOf[item.name] IN
         /\ class \in Classes /\ superiors[class] \in Seq(ClassNames)
         /\ Parents(item) \in Seq(Pending) /\ DOMAIN Parents(item) = DOMAIN superiors[class]
         /\ DOMAIN superiors[class] = 1..Len(superiors[class])
         /\ \A i \in DOMAIN superiors[class] :
              /\ Parents(item)[i].name = superiors[class][i] /\ superiors[class][i] \in ClassNames
              /\ Parents(item)[i].ancestors = item.ancestors \cup {class}
              /\ Parents(item)[i].branch = Append(item.branch, i)
              /\ i \in Nat
<1>. DEFINE class == ClassOf[item.name]
            n     == Len(superiors[class])
            parent(i) == [name |-> superiors[class][i], ancestors |-> item.ancestors \cup {class},
                          branch |-> Append(item.branch, i)]
<1>1. /\ class \in Classes /\ item.name \in ClassNames /\ item.ancestors \subseteq Classes
      /\ item.branch \in Seq(Nat)
  BY ClassExtensionsAssumption DEF Inheritable, Pending
<1>2. superiors[class] \in Seq(ClassNames)
  BY <1>1 DEF ClassTypeOK
<1>3. /\ n \in Nat /\ DOMAIN superiors[class] = 1..n
      /\ \A i \in 1..n : superiors[class][i] \in ClassNames /\ i \in Nat
  BY <1>2
<1>4. Parents(item) = [i \in 1..n |-> parent(i)]
  BY <1>3 DEF Parents
<1>. HIDE DEF class, n
<1>5. \A i \in 1..n : parent(i) \in Pending
  <2>1. ASSUME NEW i \in 1..n PROVE parent(i) \in Pending
    <3>1. Append(item.branch, i) \in Seq(Nat)
      BY <1>1, <1>3
    <3>2. QED
      BY <1>1, <1>3, <3>1 DEF Pending
  <2>2. QED
    BY <2>1
<1>6. \A i \in 1..n : Parents(item)[i] = parent(i)
  BY <1>4
<1>7. Parents(item) \in Seq(Pending) /\ DOMAIN Parents(item) = 1..n
  <2>. HIDE DEF parent
  <2>1. QED
    BY <1>3, <1>4, <1>5
<1>8. ASSUME NEW i \in 1..n
      PROVE  /\ Parents(item)[i].name = superiors[class][i]
             /\ Parents(item)[i].ancestors = item.ancestors \cup {class}
             /\ Parents(item)[i].branch = Append(item.branch, i)
  <2>1. Parents(item)[i] = parent(i)
    BY <1>6
  <2>2. /\ parent(i).name = superiors[class][i]
        /\ parent(i).ancestors = item.ancestors \cup {class}
    OBVIOUS
  <2>3. parent(i).branch = Append(item.branch, i)
    OBVIOUS
  <2>. HIDE DEF parent
  <2>4. QED
    BY <2>1, <2>2, <2>3
<1>. HIDE DEF parent
<1>9. QED
  BY <1>1, <1>2, <1>3, <1>7, <1>8 DEF class, n

\* What a round of the walk that goes on does to the list.
LEMMA VisitFacts ==
  ASSUME ClassTypeOK, Visit, Passes(pending[Len(pending)])
  PROVE  LET item  == pending[Len(pending)]
             class == ClassOf[item.name]
             m     == Len(pending) - 1
         IN  /\ item \in Pending /\ Inheritable(item.name) /\ class \in Classes
             /\ UNCHANGED <<class_input, superiors, object_classes, class_pc, class_index, seen_classes>>
             /\ class_pc = "ancestors" /\ count' = count + 1 /\ visited' = visited \cup {item}
             /\ pending' \in Seq(Pending) /\ m \in Nat /\ DOMAIN pending = 1..(m + 1)
             /\ Len(pending) = m + 1
             /\ \A k \in 1..m : k \in DOMAIN pending' /\ pending'[k] = pending[k]
             /\ \A i \in DOMAIN superiors[class] :
                  m + i \in DOMAIN pending' /\ pending'[m + i] = Parents(item)[i]
             /\ \A k \in DOMAIN pending' :
                  k \in 1..m \/ \E i \in DOMAIN superiors[class] : k = m + i
<1>. DEFINE item  == pending[Len(pending)]
            class == ClassOf[item.name]
            m     == Len(pending) - 1
            more  == Parents(item)
<1>1. pending \in Seq(Pending) /\ pending # << >> /\ class_pc = "ancestors"
  BY DEF ClassTypeOK, Visit
<1>2. item \in Pending
  BY <1>1
<1>3. /\ pending' = PopExtend(pending, more)
      /\ count' = count + 1 /\ visited' = visited \cup {item}
      /\ UNCHANGED <<class_input, superiors, object_classes, class_pc, class_index, seen_classes>>
  BY DEF Visit, class_input
<1>4. Inheritable(item.name)
  BY DEF Passes
<1>. HIDE DEF item
<1>5. /\ class \in Classes /\ more \in Seq(Pending) /\ DOMAIN more = DOMAIN superiors[class]
      /\ DOMAIN superiors[class] = 1..Len(superiors[class]) /\ Len(superiors[class]) \in Nat
      /\ Len(more) = Len(superiors[class])
  BY <1>2, <1>4, ParentItems
<1>. HIDE DEF more
<1>6. /\ pending' \in Seq(Pending) /\ m \in Nat /\ DOMAIN pending = 1..(m + 1) /\ Len(pending) = m + 1
      /\ DOMAIN pending' = 1..(m + Len(more))
      /\ \A i \in 1..m : pending'[i] = pending[i]
      /\ \A i \in DOMAIN more : pending'[m + i] = more[i]
  <2>. DEFINE new == PopExtend(pending, more)
  <2>1. new \in Seq(Pending) /\ PoppedAndExtended(pending, more, m, new)
    <3>. HIDE DEF new, m
    <3>1. new = PopExtend(pending, more) /\ m = Len(pending) - 1
      BY DEF new, m
    <3>2. pending \in Seq(Pending) /\ pending # << >> /\ more \in Seq(Pending)
      BY <1>1, <1>5
    <3>3. QED
      BY <3>1, <3>2, Worklist
  <2>2. pending' = new
    BY <1>3
  <2>. HIDE DEF new, m
  <2>3. QED
    BY <2>1, <2>2 DEF PoppedAndExtended
<1>. HIDE DEF m, class
<1>7. \A k \in 1..m : k \in 1..(m + Len(more))
  BY <1>5, <1>6
<1>8. \A i \in 1..Len(more) : m + i \in 1..(m + Len(more))
  BY <1>5, <1>6
<1>9. ASSUME NEW k \in 1..(m + Len(more)), k \notin 1..m PROVE \E i \in 1..Len(more) : k = m + i
  <2>1. k - m \in 1..Len(more) /\ k = m + (k - m)
    BY <1>5, <1>6, <1>9
  <2>2. QED
    BY <2>1
<1>10. QED
  BY <1>1, <1>2, <1>3, <1>4, <1>5, <1>6, <1>7, <1>8, <1>9 DEF item, class, m, more

\* So nothing that was reached is lost.
LEMMA VisitReaches ==
  ASSUME ClassTypeOK, Visit, Passes(pending[Len(pending)])
  PROVE  LET item == pending[Len(pending)] IN
         Reached' = Reached \cup {Parents(item)[i] : i \in DOMAIN superiors[ClassOf[item.name]]}
<1>. DEFINE item  == pending[Len(pending)]
            class == ClassOf[item.name]
            m     == Len(pending) - 1
            more  == {Parents(item)[i] : i \in DOMAIN superiors[class]}
<1>1. /\ visited' = visited \cup {item} /\ m \in Nat /\ DOMAIN pending = 1..(m + 1) /\ Len(pending) = m + 1
      /\ \A k \in 1..m : k \in DOMAIN pending' /\ pending'[k] = pending[k]
      /\ \A i \in DOMAIN superiors[class] : m + i \in DOMAIN pending' /\ pending'[m + i] = Parents(item)[i]
      /\ \A k \in DOMAIN pending' : k \in 1..m \/ \E i \in DOMAIN superiors[class] : k = m + i
  BY VisitFacts
<1>2. \A k \in DOMAIN pending : k \in 1..m \/ pending[k] = item
  <2>. HIDE DEF m
  <2>1. \A k \in 1..(m + 1) : k \in 1..m \/ k = m + 1
    BY <1>1
  <2>2. QED
    BY <1>1, <2>1
<1>3. \A k \in 1..m : k \in DOMAIN pending
  BY <1>1
<1>4. item \in Reached
  BY <1>1 DEF Reached
<1>. HIDE DEF m, item, class
<1>5. Reached \cup more \subseteq Reached'
  BY <1>1, <1>2 DEF Reached
<1>6. Reached' \subseteq Reached \cup more
  BY <1>1, <1>3, <1>4 DEF Reached
<1>7. QED
  BY <1>5, <1>6 DEF class, item

\* The hierarchy and what may be asked for depend on the input alone.
LEMMA ClassFrame ==
  ASSUME UNCHANGED <<superiors, object_classes>>
  PROVE  /\ \A node : Raised(node)' = Raised(node)
         /\ \A item : Parents(item)' = Parents(item)
         /\ \A i : Root(i)' = Root(i)
         /\ \A name : Lineage(name)' = Lineage(name) /\ Cyclic(name)' = Cyclic(name)
         /\ Level' = Level
         /\ \A i : Tree(i)' = Tree(i) /\ Askable(i)' = Askable(i) /\ Unfolds(i)' = Unfolds(i)
         /\ AdmissibleClasses' = AdmissibleClasses
<1>1. \A node : Raised(node)' = Raised(node)
  BY DEF Raised
<1>2. \A item : Parents(item)' = Parents(item)
  BY DEF Parents
<1>3. \A i : Root(i)' = Root(i)
  BY DEF Root
<1>4. \A names : ClosedUp(names)' = ClosedUp(names)
  BY DEF ClosedUp
<1>5. \A name : Lineage(name)' = Lineage(name)
  BY <1>4 DEF Lineage
<1>6. \A name : Cyclic(name)' = Cyclic(name)
  BY <1>5 DEF Cyclic
<1>7. Level' = Level
  BY DEF Level, Raised
<1>8. \A i : Tree(i)' = Tree(i)
  BY <1>7 DEF Tree
<1>9. \A i : Askable(i)' = Askable(i)
  BY DEF Askable
<1>10. \A i : Unfolds(i)' = Unfolds(i)
  BY <1>5, <1>6, <1>8 DEF Unfolds
<1>11. AdmissibleClasses' = AdmissibleClasses
  BY <1>9, <1>10 DEF AdmissibleClasses
<1>12. QED
  BY <1>1, <1>2, <1>3, <1>5, <1>6, <1>7, <1>8, <1>9, <1>10, <1>11

\* What changes when a round of the walk, or any check, refuses.
LEMMA RefusalFrame ==
  ASSUME ClassInv, RefuseClass, UNCHANGED class_input
  PROVE  /\ class_pc' = "refused" /\ UNCHANGED <<class_index, seen_classes, pending, count, visited>>
         /\ UNCHANGED <<superiors, object_classes>> /\ Reached' = Reached
  BY DEF RefuseClass, class_input, walk, Reached

LEMMA RefuseClassStep == ClassInv /\ RefuseClass /\ UNCHANGED class_input => ClassInv'
<1>. SUFFICES ASSUME ClassInv, RefuseClass, UNCHANGED class_input PROVE ClassInv'
  OBVIOUS
<1>1. ClassTypeOK' /\ class_pc' = "refused" /\ UNCHANGED visited
  BY RefusalFrame DEF ClassInv, ClassTypeOK
<1>2. QED
  BY <1>1 DEF ClassInv, Inheritable

\* One round of the walk.
LEMMA VisitStep == ClassInv /\ Visit => ClassInv'
<1>. SUFFICES ASSUME ClassInv, Visit PROVE ClassInv'
  OBVIOUS
<1>. DEFINE item  == pending[Len(pending)]
            class == ClassOf[item.name]
<1>1. ClassTypeOK
  BY DEF ClassInv
<1>2. CASE ~Passes(item)
  BY <1>2, RefuseClassStep DEF Visit
<1>3. CASE Passes(item)
  <2>1. /\ item \in Pending /\ Inheritable(item.name) /\ class \in Classes
        /\ UNCHANGED <<class_input, superiors, object_classes, class_pc, class_index, seen_classes>>
        /\ class_pc = "ancestors" /\ count' = count + 1 /\ visited' = visited \cup {item}
        /\ pending' \in Seq(Pending)
    BY <1>1, <1>3, VisitFacts
  <2>2. Reached' = Reached \cup {Parents(item)[i] : i \in DOMAIN superiors[class]}
    BY <1>1, <1>3, VisitReaches
  <2>3. class \notin item.ancestors
    BY <1>3 DEF Passes
  <2>. HIDE DEF item
  <2>4. ClassTypeOK'
    BY <1>1, <2>1 DEF ClassTypeOK
  <2>5. \A other \in visited' : Inheritable(other.name) /\ ClassOf[other.name] \notin other.ancestors
    BY <2>1, <2>3 DEF ClassInv
  <2>6. /\ \A other : Parents(other)' = Parents(other)
        /\ \A i : Root(i)' = Root(i)
    BY <2>1, ClassFrame
  <2>7. \A other \in visited' :
          \A i \in DOMAIN superiors'[ClassOf[other.name]] : Parents(other)[i] \in Reached'
    BY <2>1, <2>2 DEF ClassInv
  <2>8. QED
    BY <2>1, <2>2, <2>4, <2>5, <2>6, <2>7 DEF ClassInv, Inheritable
<1>4. QED
  BY <1>2, <1>3

LEMMA ValidateClassStep == ClassInv /\ validate_class => ClassInv'
<1>. SUFFICES ASSUME ClassInv, validate_class PROVE ClassInv'
  OBVIOUS
<1>. DEFINE name == object_classes[class_index]
<1>1. /\ class_index \in DOMAIN object_classes /\ name \in ClassNames /\ class_pc = "next"
      /\ UNCHANGED <<class_input, superiors, object_classes>> /\ pending = << >>
      /\ class_index \in Nat
  BY DEF validate_class, ClassInv, ClassTypeOK, class_input
<1>2. CASE ~Addable(ClassOf[name])
  BY <1>2, RefuseClassStep DEF validate_class
<1>3. CASE Addable(ClassOf[name])
  <2>1. /\ seen_classes' = seen_classes \cup {ClassOf[name]} /\ count' = 0 /\ class_pc' = "ancestors"
        /\ pending' = <<Root(class_index)>> /\ UNCHANGED <<class_index, visited>>
    BY <1>3 DEF validate_class
  <2>2. Root(class_index) \in Pending
    BY <1>1 DEF Root, Pending
  <2>3. ClassTypeOK'
    BY <1>1, <2>1, <2>2, ClassExtensionsAssumption DEF ClassInv, ClassTypeOK
  <2>4. Reached = visited
    BY <1>1 DEF Reached
  <2>5. Reached' = visited \cup {Root(class_index)}
    BY <2>1 DEF Reached
  <2>6. /\ \A other : Parents(other)' = Parents(other)
        /\ \A i : Root(i)' = Root(i)
    BY <1>1, ClassFrame
  <2>7. QED
    BY <1>1, <2>1, <2>3, <2>4, <2>5, <2>6 DEF ClassInv, Inheritable
<1>4. QED
  BY <1>2, <1>3

LEMMA ClassNextInv == ClassInv /\ [ClassNext]_class_vars => ClassInv'
<1>. SUFFICES ASSUME ClassInv, [ClassNext]_class_vars PROVE ClassInv'
  OBVIOUS
<1>1. UNCHANGED <<superiors, object_classes>> =>
        /\ \A other : Parents(other)' = Parents(other)
        /\ \A i : Root(i)' = Root(i)
  BY ClassFrame
<1>2. CASE UNCHANGED class_vars
  <2>1. /\ UNCHANGED <<superiors, object_classes, class_pc, class_index, seen_classes>>
        /\ UNCHANGED <<pending, count, visited>>
    BY <1>2 DEF class_vars, class_input, walk
  <2>2. ClassTypeOK' /\ Reached' = Reached
    BY <2>1 DEF ClassInv, ClassTypeOK, Reached
  <2>3. QED
    BY <1>1, <2>1, <2>2 DEF ClassInv, Inheritable
<1>3. CASE parse_classes
  <2>1. CASE RefuseClass
    BY <1>3, <2>1, RefuseClassStep DEF parse_classes
  <2>2. CASE ~RefuseClass
    <3>1. /\ UNCHANGED <<superiors, object_classes, class_index, seen_classes, pending, count, visited>>
          /\ class_pc' = "next" /\ class_pc = "parse"
      BY <1>3, <2>2 DEF parse_classes, class_input, walk
    <3>2. ClassTypeOK' /\ Reached' = Reached
      BY <3>1 DEF ClassInv, ClassTypeOK, Reached
    <3>3. QED
      BY <1>1, <3>1, <3>2 DEF ClassInv, Inheritable
  <2>3. QED
    BY <2>1, <2>2
<1>4. CASE AcceptClasses
  <2>1. /\ UNCHANGED <<superiors, object_classes, class_index, seen_classes, pending, count, visited>>
        /\ class_pc' = "accepted" /\ class_pc = "next" /\ class_index > Len(object_classes)
    BY <1>4 DEF AcceptClasses, class_input, walk
  <2>2. ClassTypeOK' /\ Reached' = Reached
    BY <2>1 DEF ClassInv, ClassTypeOK, Reached
  <2>3. QED
    BY <1>1, <2>1, <2>2 DEF ClassInv, Inheritable
<1>5. CASE WalkEnds
  <2>1. \A i \in DOMAIN object_classes : i < class_index + 1 => i < class_index \/ i = class_index
    BY DEF ClassInv, ClassTypeOK
  <2>2. /\ UNCHANGED <<superiors, object_classes, seen_classes, pending, count, visited>>
        /\ class_pc' = "next" /\ class_pc = "ancestors" /\ pending = << >>
        /\ class_index' = class_index + 1
    BY <1>5 DEF WalkEnds, class_input, walk
  <2>3. ClassTypeOK' /\ Reached' = Reached
    BY <2>2 DEF ClassInv, ClassTypeOK, Reached
  <2>4. QED
    BY <1>1, <2>1, <2>2, <2>3 DEF ClassInv, Inheritable
<1>6. QED
  BY <1>2, <1>3, <1>4, <1>5, VisitStep, ValidateClassStep DEF ClassNext

LEMMA ClassInitInv == ClassInit => ClassInv
<1>. SUFFICES ASSUME ClassInit PROVE ClassInv
  OBVIOUS
<1>1. ClassTypeOK
  BY ClassExtensionsAssumption DEF ClassInit, ClassTypeOK
<1>2. \A i \in DOMAIN object_classes : ~(i < 1)
  BY <1>1 DEF ClassTypeOK
<1>3. QED
  BY <1>1, <1>2 DEF ClassInit, ClassInv

\* What passed the walk inherits from what passed it or is pending.
THEOREM WalkCovers == ClassSpec => []ClassInv
  BY ClassInitInv, ClassNextInv, PTL DEF ClassSpec

\* The names that passed are closed once nothing is pending.
LEMMA PassedCovers ==
  ASSUME ClassInv, class_pc # "refused", pending = << >>, NEW item \in visited
  PROVE  Lineage(item.name) \subseteq {other.name : other \in visited}
<1>. DEFINE names == {other.name : other \in visited}
<1>1. ClassTypeOK /\ visited \subseteq Pending
  BY DEF ClassInv, ClassTypeOK
<1>2. Reached = visited
  BY DEF Reached
<1>3. names \in SUBSET ClassNames /\ item.name \in names
  BY <1>1 DEF Pending
<1>4. ASSUME NEW other \in visited, NEW i \in DOMAIN superiors[ClassOf[other.name]]
      PROVE  superiors[ClassOf[other.name]][i] \in names
  <2>1. other \in Pending /\ Inheritable(other.name)
    BY <1>1 DEF ClassInv
  <2>2. Parents(other)[i].name = superiors[ClassOf[other.name]][i]
    BY <1>1, <2>1, <1>4, ParentItems
  <2>3. Parents(other)[i] \in visited
    BY <1>2, <1>4 DEF ClassInv
  <2>4. QED
    BY <2>2, <2>3
<1>5. ClosedUp(names)
  BY <1>4 DEF ClosedUp
<1>. HIDE DEF names
<1>6. Lineage(item.name) \subseteq names
  BY <1>3, <1>5 DEF Lineage
<1>7. QED
  BY <1>6 DEF names

\* An accepted list inherits nothing that is structural, unknown or
\* extensibleObject: the names that passed form a closed set that holds it.
THEOREM NothingStructural == ClassSpec => []NothingStructuralInherited
<1>1. ClassInv => NothingStructuralInherited
  <2>. SUFFICES ASSUME ClassInv, class_pc = "accepted", NEW i \in DOMAIN object_classes,
                       NEW name \in Lineage(object_classes[i])
                PROVE  Inheritable(name)
    BY DEF NothingStructuralInherited
  <2>1. pending = << >> /\ ClassTypeOK
    BY DEF ClassInv
  <2>2. i < class_index
    BY <2>1 DEF ClassInv, ClassTypeOK
  <2>3. Root(i) \in visited
    BY <2>1, <2>2 DEF ClassInv, Reached
  <2>4. name \in {other.name : other \in visited}
    BY <2>1, <2>3, PassedCovers DEF Root
  <2>5. QED
    BY <2>4 DEF ClassInv
<1>2. QED
  BY <1>1, WalkCovers, PTL

\* What a class inherits from is the least closed set of names.
LEMMA LineageLeast ==
  ASSUME ClassTypeOK, NEW name \in ClassNames
  PROVE  /\ Lineage(name) \subseteq ClassNames /\ name \in Lineage(name) /\ ClosedUp(Lineage(name))
         /\ \A names \in SUBSET ClassNames :
              name \in names /\ ClosedUp(names) => Lineage(name) \subseteq names
         /\ \A other \in Lineage(name) : Lineage(other) \subseteq Lineage(name)
<1>1. Lineage(name) \subseteq ClassNames /\ name \in Lineage(name)
  BY DEF Lineage
<1>2. \A names \in SUBSET ClassNames :
        name \in names /\ ClosedUp(names) => Lineage(name) \subseteq names
  BY DEF Lineage
<1>3. ASSUME NEW other \in Lineage(name), ClassOf[other] # NoClass,
             NEW i \in DOMAIN superiors[ClassOf[other]]
      PROVE  superiors[ClassOf[other]][i] \in Lineage(name)
  <2>1. other \in ClassNames /\ ClassOf[other] \in Classes
    BY <1>1, <1>3, ClassExtensionsAssumption
  <2>2. superiors[ClassOf[other]][i] \in ClassNames
    BY <1>3, <2>1 DEF ClassTypeOK
  <2>3. \A names \in SUBSET ClassNames :
          name \in names /\ ClosedUp(names) => superiors[ClassOf[other]][i] \in names
    BY <1>2, <1>3 DEF ClosedUp
  <2>4. QED
    BY <2>2, <2>3 DEF Lineage
<1>4. ClosedUp(Lineage(name))
  BY <1>3 DEF ClosedUp
<1>5. ASSUME NEW other \in Lineage(name) PROVE Lineage(other) \subseteq Lineage(name)
  BY <1>1, <1>4, <1>5 DEF Lineage
<1>6. QED
  BY <1>1, <1>2, <1>4, <1>5

\* A function with a finite domain has finitely many values.
LEMMA FiniteValues ==
  ASSUME NEW S, IsFiniteSet(S), NEW f, f = [s \in S |-> f[s]]
  PROVE  IsFiniteSet({f[s] : s \in S})
<1>1. f \in Surjection(S, {f[s] : s \in S})
  BY DEF Surjection
<1>2. QED
  BY <1>1, FS_Surjection

\* A node of the tree: a name, and the branch from a request to it.
TreeNode(node) ==
  /\ node.name \in ClassNames /\ node.branch \in Seq(Nat) /\ node.branch # << >>
  /\ node.branch[1] \in DOMAIN object_classes

\* A node has finitely many nodes above it, all on its branch.
LEMMA RaisedFinite ==
  ASSUME ClassTypeOK, NEW node, TreeNode(node)
  PROVE  /\ IsFiniteSet(Raised(node))
         /\ \A other \in Raised(node) : TreeNode(other) /\ other.branch[1] = node.branch[1]
<1>. DEFINE class == ClassOf[node.name]
            n     == Len(superiors[class])
            up    == [i \in 1..n |-> [name |-> superiors[class][i], branch |-> Append(node.branch, i)]]
<1>1. CASE class = NoClass
  BY <1>1, FS_EmptySet DEF Raised
<1>2. CASE class # NoClass
  <2>1. superiors[class] \in Seq(ClassNames)
    BY <1>2, ClassExtensionsAssumption DEF TreeNode, ClassTypeOK
  <2>2. /\ n \in Nat /\ DOMAIN superiors[class] = 1..n
        /\ \A i \in 1..n : i \in Nat /\ superiors[class][i] \in ClassNames
    BY <2>1
  <2>3. Raised(node) = {up[i] : i \in 1..n}
    BY <1>2, <2>2 DEF Raised
  <2>. HIDE DEF n
  <2>4. IsFiniteSet(1..n)
    <3>. HIDE DEF up, class
    <3>1. 1 \in Int /\ n \in Int
      BY <2>2
    <3>2. QED
      BY <3>1, FS_Interval
  <2>5. up = [i \in 1..n |-> up[i]]
    OBVIOUS
  <2>6. ASSUME NEW i \in 1..n PROVE TreeNode(up[i]) /\ up[i].branch[1] = node.branch[1]
    <3>1. up[i].name = superiors[class][i] /\ up[i].branch = Append(node.branch, i)
      BY <2>6
    <3>2. /\ Append(node.branch, i) \in Seq(Nat) /\ Append(node.branch, i) # << >>
          /\ Append(node.branch, i)[1] = node.branch[1]
      <4>1. node.branch \in Seq(Nat) /\ node.branch # << >> /\ i \in Nat
        BY <2>2 DEF TreeNode
      <4>2. QED
        BY <4>1
    <3>. HIDE DEF up
    <3>3. QED
      BY <2>2, <3>1, <3>2 DEF TreeNode
  <2>. HIDE DEF up
  <2>7. IsFiniteSet({up[i] : i \in 1..n})
    BY <2>4, <2>5, FiniteValues
  <2>8. QED
    BY <2>3, <2>6, <2>7
<1>3. QED
  BY <1>1, <1>2

\* Every level is finite.
LEMMA LevelFinite ==
  ASSUME ClassTypeOK
  PROVE  \A depth \in Nat : IsFiniteSet(Level[depth]) /\ \A node \in Level[depth] : TreeNode(node)
<1>. DEFINE Fine(depth) == IsFiniteSet(Level[depth]) /\ \A node \in Level[depth] : TreeNode(node)
            S == {depth \in Nat : ~Fine(depth)}
<1>. SUFFICES ASSUME S # {} PROVE FALSE
  OBVIOUS
<1>1. PICK d \in S : \A e \in S : d <= e
  <2>1. S \in SUBSET Nat
    OBVIOUS
  <2>. HIDE DEF S
  <2>2. QED
    BY <2>1, LeastElement
<1>2. Fine(0)
  <2>. DEFINE n     == Len(object_classes)
              roots == [i \in 1..n |-> [name |-> object_classes[i], branch |-> <<i>>]]
  <2>1. /\ n \in Nat /\ DOMAIN object_classes = 1..n
        /\ \A i \in 1..n : i \in Nat /\ object_classes[i] \in ClassNames
    BY DEF ClassTypeOK
  <2>2. Level[0] = {roots[i] : i \in 1..n}
    BY <2>1, LevelDef
  <2>3. IsFiniteSet(1..n) /\ roots = [i \in 1..n |-> roots[i]]
    BY <2>1, FS_Interval
  <2>4. ASSUME NEW i \in 1..n PROVE TreeNode(roots[i])
    <3>1. roots[i].name = object_classes[i] /\ roots[i].branch = <<i>>
      OBVIOUS
    <3>2. <<i>> \in Seq(Nat) /\ <<i>> # << >> /\ <<i>>[1] = i
      BY <2>1
    <3>. HIDE DEF roots
    <3>3. QED
      BY <2>1, <3>1, <3>2 DEF TreeNode
  <2>. HIDE DEF roots
  <2>5. QED
    BY <2>2, <2>3, <2>4, FiniteValues
<1>3. ASSUME NEW depth \in Nat, Fine(depth) PROVE Fine(depth + 1)
  <2>. DEFINE up == [node \in Level[depth] |-> Raised(node)]
  <2>1. Level[depth + 1] = UNION {up[node] : node \in Level[depth]}
    <3>1. {up[node] : node \in Level[depth]} = {Raised(node) : node \in Level[depth]}
      OBVIOUS
    <3>2. QED
      BY <3>1, LevelDef
  <2>2. IsFiniteSet({up[node] : node \in Level[depth]})
    <3>1. up = [node \in Level[depth] |-> up[node]]
      OBVIOUS
    <3>. HIDE DEF up
    <3>2. QED
      BY <1>3, <3>1, FiniteValues
  <2>3. \A node \in Level[depth] :
          IsFiniteSet(up[node]) /\ \A other \in up[node] : TreeNode(other)
    BY <1>3, RaisedFinite
  <2>. HIDE DEF up
  <2>4. IsFiniteSet(Level[depth + 1])
    BY <2>1, <2>2, <2>3, FS_UNION
  <2>5. QED
    BY <2>1, <2>3, <2>4
<1>. HIDE DEF Fine
<1>4. d # 0 /\ d \in Nat /\ ~Fine(d)
  BY <1>1, <1>2
<1>5. d - 1 \in Nat /\ ~(d <= d - 1) /\ d - 1 + 1 = d
  BY <1>4
<1>6. Fine(d - 1)
  BY <1>1, <1>5
<1>7. Fine(d)
  BY <1>3, <1>5, <1>6
<1>8. QED
  BY <1>4, <1>7

\* So the tree is finite.
LEMMA TreeFinite ==
  ASSUME ClassTypeOK, NEW i
  PROVE  IsFiniteSet(Tree(i))
<1>. DEFINE depths == 0..Cardinality(Classes)
            level  == [depth \in depths |-> Level[depth]]
            nodes  == UNION {level[depth] : depth \in depths}
<1>1. Cardinality(Classes) \in Nat
  BY ClassExtensionsAssumption, FS_CardinalityType
<1>2. IsFiniteSet(depths) /\ level = [depth \in depths |-> level[depth]]
  BY <1>1, FS_Interval
<1>3. \A depth \in depths : IsFiniteSet(level[depth])
  BY <1>1, LevelFinite
<1>4. Tree(i) \in SUBSET nodes
  BY DEF Tree
<1>. HIDE DEF depths, level
<1>5. IsFiniteSet(nodes)
  <2>. DEFINE all == {level[depth] : depth \in depths}
  <2>1. IsFiniteSet(all)
    BY <1>2, FiniteValues
  <2>2. \A met \in all : IsFiniteSet(met)
    BY <1>3
  <2>. HIDE DEF all
  <2>3. IsFiniteSet(UNION all)
    BY <2>1, <2>2, FS_UNION
  <2>4. QED
    BY <2>3 DEF all
<1>6. QED
  BY <1>4, <1>5, FS_Subset

\* Where an item of the walk stands in the tree.
Node(item) == [name |-> item.name, branch |-> item.branch]
MetNodes(i) == {Node(item) : item \in {other \in visited : other.branch[1] = i}}

Placed(item) ==
  LET request == object_classes[item.branch[1]] IN
  /\ item.branch # << >> /\ item.branch[1] \in DOMAIN object_classes
  /\ Node(item) \in Level[Cardinality(item.ancestors)]
  /\ item.name \in Lineage(request)
  /\ \A class \in item.ancestors :
       /\ \E other \in Lineage(request) : ClassOf[other] = class
       /\ \E i \in DOMAIN superiors[class] : item.name \in Lineage(superiors[class][i])

\* No node of the tree is met twice.
MetOnce ==
  /\ \A item \in Reached :
       Len(item.branch) = 1 \/ \E other \in visited : \E i \in Nat : item.branch = Append(other.branch, i)
  /\ \A item \in visited :
       item.branch[1] < class_index
       \/ (item.branch[1] = class_index /\ class_pc \in {"ancestors", "refused"})
  /\ \A k \in DOMAIN pending :
       /\ pending[k].branch[1] = class_index
       /\ \A item \in visited : item.branch # pending[k].branch
       /\ \A m \in DOMAIN pending : m # k => pending[m].branch # pending[k].branch

Settled(i) == i < class_index \/ (i = class_index /\ class_pc = "ancestors")

ClassVerdict ==
  /\ \A item \in Reached : Placed(item)
  /\ MetOnce
  /\ class_pc = "ancestors" => /\ IsFiniteSet(MetNodes(class_index))
                               /\ Cardinality(MetNodes(class_index)) = count
                               /\ count <= MaxVisits
  /\ class_pc \notin {"parse", "refused"} => Len(object_classes) <= MaxClasses
  /\ class_pc = "refused" => ~AdmissibleClasses
  /\ class_pc # "refused" =>
       /\ seen_classes = {ClassOf[name] : name \in Base}
            \cup {ClassOf[object_classes[i]] : i \in {j \in DOMAIN object_classes : Settled(j)}}
       /\ \A i \in DOMAIN object_classes :
            /\ Settled(i) => /\ Askable(i)
                             /\ \A j \in DOMAIN object_classes : j < i =>
                                  ClassOf[object_classes[j]] # ClassOf[object_classes[i]]
            /\ i < class_index => Unfolds(i)

\* So does where an item stands.
LEMMA VerdictFrame ==
  ASSUME UNCHANGED <<superiors, object_classes>>
  PROVE  /\ \A item : Placed(item)' = Placed(item)
         /\ \A item : Node(item)' = Node(item)
  BY ClassFrame DEF Placed, Node

\* Sequences that one more element ends.
LEMMA Appended ==
  ASSUME NEW s \in Seq(Nat), NEW i \in Nat
  PROVE  /\ Append(s, i) \in Seq(Nat) /\ Append(s, i) # << >> /\ Append(s, i) # s
         /\ s # << >> => Append(s, i)[1] = s[1] /\ Len(Append(s, i)) # 1
         /\ \A t \in Seq(Nat), j \in Nat : Append(s, i) = Append(t, j) => s = t /\ i = j
<1>1. /\ Append(s, i) \in Seq(Nat) /\ Append(s, i) # << >> /\ Append(s, i) # s
      /\ s # << >> => Append(s, i)[1] = s[1] /\ Len(Append(s, i)) # 1
  OBVIOUS
<1>2. ASSUME NEW t \in Seq(Nat), NEW j \in Nat, Append(s, i) = Append(t, j) PROVE s = t /\ i = j
  BY <1>2, AppendInjective
<1>3. QED
  BY <1>1, <1>2

\* A request is a root of the tree.
LEMMA PlacedRoot ==
  ASSUME ClassTypeOK, NEW i \in DOMAIN object_classes
  PROVE  Placed(Root(i))
<1>1. object_classes[i] \in ClassNames
  BY DEF ClassTypeOK
<1>2. /\ Root(i).name = object_classes[i] /\ Root(i).ancestors = {} /\ Root(i).branch = <<i>>
      /\ <<i>>[1] = i /\ <<i>> # << >>
  BY DEF Root
<1>3. Node(Root(i)) \in Level[0]
  BY <1>2, LevelDef DEF Node
<1>4. Cardinality({}) = 0
  BY FS_EmptySet
<1>5. QED
  BY <1>1, <1>2, <1>3, <1>4, LineageLeast DEF Placed

\* What a class that has passed puts on the list has its place one level above.
LEMMA PlacedParent ==
  ASSUME ClassTypeOK, NEW item \in Pending, Placed(item), Inheritable(item.name),
         ClassOf[item.name] \notin item.ancestors,
         NEW i \in DOMAIN superiors[ClassOf[item.name]]
  PROVE  Placed(Parents(item)[i]) /\ Parents(item)[i].branch[1] = item.branch[1]
<1>. DEFINE class   == ClassOf[item.name]
            parent  == Parents(item)[i]
            request == object_classes[item.branch[1]]
            depth   == Cardinality(item.ancestors)
<1>1. /\ class \in Classes /\ parent.name = superiors[class][i] /\ parent.name \in ClassNames
      /\ parent.ancestors = item.ancestors \cup {class} /\ parent.branch = Append(item.branch, i)
      /\ i \in Nat
  BY ParentItems
<1>2. item.name \in ClassNames /\ item.ancestors \in SUBSET Classes /\ item.branch \in Seq(Nat)
  BY DEF Pending
<1>3. /\ item.branch # << >> /\ item.branch[1] \in DOMAIN object_classes
      /\ Node(item) \in Level[depth] /\ item.name \in Lineage(request)
      /\ \A c \in item.ancestors :
           /\ \E other \in Lineage(request) : ClassOf[other] = c
           /\ \E k \in DOMAIN superiors[c] : item.name \in Lineage(superiors[c][k])
  BY DEF Placed
<1>4. parent.branch # << >> /\ parent.branch[1] = item.branch[1]
  BY <1>1, <1>2, <1>3, Appended
<1>5. IsFiniteSet(item.ancestors) /\ depth \in Nat /\ Cardinality(parent.ancestors) = depth + 1
  <2>1. IsFiniteSet(item.ancestors)
    BY <1>2, ClassExtensionsAssumption, FS_Subset
  <2>2. QED
    BY <1>1, <2>1, FS_CardinalityType, FS_AddElement
<1>6. Node(parent) \in Level[depth + 1]
  <2>1. Node(parent) \in Raised(Node(item))
    BY <1>1, ClassExtensionsAssumption DEF Raised, Node
  <2>2. QED
    BY <1>3, <1>5, <2>1, LevelDef
<1>7. request \in ClassNames
  BY <1>3 DEF ClassTypeOK
<1>8. ASSUME NEW name \in ClassNames, item.name \in Lineage(name) PROVE parent.name \in Lineage(name)
  BY <1>1, <1>8, LineageLeast, ClassExtensionsAssumption DEF ClosedUp
<1>9. ASSUME NEW c \in parent.ancestors
      PROVE  /\ \E other \in Lineage(request) : ClassOf[other] = c
             /\ \E k \in DOMAIN superiors[c] : parent.name \in Lineage(superiors[c][k])
  <2>1. CASE c = class
    BY <1>1, <1>3, <2>1, LineageLeast
  <2>2. CASE c \in item.ancestors
    <3>1. PICK k \in DOMAIN superiors[c] : item.name \in Lineage(superiors[c][k])
      BY <1>3, <2>2
    <3>2. superiors[c][k] \in ClassNames
      BY <1>2, <2>2 DEF ClassTypeOK
    <3>3. QED
      BY <1>3, <1>8, <2>2, <3>1, <3>2
  <2>3. QED
    BY <1>1, <1>9, <2>1, <2>2
<1>. HIDE DEF class, parent
<1>10. QED
  BY <1>3, <1>4, <1>5, <1>6, <1>7, <1>8, <1>9 DEF Placed, parent

\* The branches of what is on the list or was met.
LEMMA BranchFacts ==
  ASSUME ClassTypeOK, \A item \in Reached : Placed(item)
  PROVE  \A item \in Reached :
           /\ item \in Pending /\ item.branch \in Seq(Nat) /\ item.branch # << >>
           /\ item.branch[1] \in DOMAIN object_classes
<1>1. Reached \subseteq Pending
  BY DEF Reached, ClassTypeOK
<1>2. QED
  BY <1>1 DEF Placed, Pending

\* One that has not been met yet has no superiors on the list, nor any that were met.
LEMMA FreshParents ==
  ASSUME ClassTypeOK, \A item \in Reached : Placed(item), MetOnce,
         NEW k \in DOMAIN pending, NEW item \in Reached, NEW i \in Nat
  PROVE  item.branch # Append(pending[k].branch, i)
<1>. SUFFICES ASSUME item.branch = Append(pending[k].branch, i) PROVE FALSE
  OBVIOUS
<1>1. pending[k] \in Reached
  BY DEF Reached
<1>2. pending[k].branch \in Seq(Nat) /\ pending[k].branch # << >>
  BY <1>1, BranchFacts
<1>3. Len(item.branch) # 1
  BY <1>2, Appended
<1>4. PICK other \in visited, j \in Nat : item.branch = Append(other.branch, j)
  BY <1>3 DEF MetOnce
<1>5. other.branch \in Seq(Nat)
  BY BranchFacts DEF Reached
<1>6. other.branch = pending[k].branch
  <2>1. \A t \in Seq(Nat), l \in Nat : Append(pending[k].branch, i) = Append(t, l) => pending[k].branch = t
    BY <1>2, Appended
  <2>2. QED
    BY <1>4, <1>5, <2>1
<1>7. QED
  BY <1>6 DEF MetOnce

\* One round of the walk meets a node that it has not met.
LEMMA VisitMetOnce ==
  ASSUME ClassInv, \A item \in Reached : Placed(item), MetOnce, Visit, Passes(pending[Len(pending)])
  PROVE  MetOnce'
<1>. DEFINE item  == pending[Len(pending)]
            class == ClassOf[item.name]
            m     == Len(pending) - 1
            parent(i) == Parents(item)[i]
<1>1. ClassTypeOK
  BY DEF ClassInv
<1>2. /\ item \in Pending /\ Inheritable(item.name) /\ class \in Classes
      /\ UNCHANGED <<superiors, object_classes, class_pc, class_index>>
      /\ class_pc = "ancestors" /\ visited' = visited \cup {item}
      /\ m \in Nat /\ DOMAIN pending = 1..(m + 1) /\ Len(pending) = m + 1
      /\ \A k \in 1..m : k \in DOMAIN pending' /\ pending'[k] = pending[k]
      /\ \A i \in DOMAIN superiors[class] : m + i \in DOMAIN pending' /\ pending'[m + i] = parent(i)
      /\ \A k \in DOMAIN pending' : k \in 1..m \/ \E i \in DOMAIN superiors[class] : k = m + i
  BY <1>1, VisitFacts
<1>3. Reached' = Reached \cup {parent(i) : i \in DOMAIN superiors[class]}
  BY <1>1, VisitReaches
<1>4. Len(pending) \in DOMAIN pending /\ m + 1 \in DOMAIN pending /\ pending[m + 1] = item
      /\ \A k \in 1..m : k \in DOMAIN pending /\ k # m + 1
  <2>. HIDE DEF m
  <2>1. m + 1 \in 1..(m + 1) /\ \A k \in 1..m : k \in 1..(m + 1) /\ k # m + 1
    BY <1>2
  <2>2. QED
    BY <1>2, <2>1
<1>5. \A i \in DOMAIN superiors[class] : parent(i).branch = Append(item.branch, i) /\ i \in Nat
  BY <1>1, <1>2, ParentItems
<1>6. item \in Reached /\ item.branch \in Seq(Nat) /\ item.branch # << >>
      /\ \A k \in DOMAIN pending : pending[k] \in Reached
  BY <1>1, <1>4, BranchFacts DEF Reached
<1>7. item.branch[1] = class_index /\ \A k \in 1..m : pending[k].branch # item.branch
  BY <1>4 DEF MetOnce
<1>8. \A i \in DOMAIN superiors[class] : \A other \in Reached : other.branch # parent(i).branch
  BY <1>1, <1>4, <1>5, FreshParents
<1>9. ASSUME NEW i \in DOMAIN superiors[class], NEW j \in DOMAIN superiors[class],
             parent(i).branch = parent(j).branch
      PROVE  i = j
  <2>. HIDE DEF item, class, parent
  <2>1. Append(item.branch, i) = Append(item.branch, j) /\ i \in Nat /\ j \in Nat
    BY <1>5, <1>9
  <2>2. QED
    BY <1>6, <2>1, Appended
<1>10. ASSUME NEW i \in DOMAIN superiors[class] PROVE parent(i).branch[1] = class_index
  <2>. HIDE DEF item, class, parent
  <2>1. i \in Nat /\ parent(i).branch = Append(item.branch, i)
    BY <1>5
  <2>2. Append(item.branch, i)[1] = item.branch[1]
    BY <1>6, <2>1, Appended
  <2>3. QED
    BY <1>7, <2>1, <2>2
<1>. HIDE DEF item, class, m, parent
<1>11. \A other \in Reached' :
         Len(other.branch) = 1 \/ \E one \in visited' : \E i \in Nat : other.branch = Append(one.branch, i)
  BY <1>2, <1>3, <1>5 DEF MetOnce
<1>12. \A other \in visited' :
         other.branch[1] < class_index
         \/ (other.branch[1] = class_index /\ class_pc \in {"ancestors", "refused"})
  BY <1>2, <1>7 DEF MetOnce
<1>13. ASSUME NEW k \in DOMAIN pending'
       PROVE  /\ pending'[k].branch[1] = class_index
              /\ \A other \in visited' : other.branch # pending'[k].branch
              /\ \A l \in DOMAIN pending' : l # k => pending'[l].branch # pending'[k].branch
  <2>1. CASE k \in 1..m
    <3>1. pending'[k] = pending[k] /\ k \in DOMAIN pending /\ pending[k] \in Reached
      BY <1>2, <1>4, <1>6, <2>1
    <3>2. \A l \in 1..m : l # k => pending'[l].branch # pending'[k].branch
      BY <1>2, <1>4, <3>1 DEF MetOnce
    <3>3. \A i \in DOMAIN superiors[class] : pending'[m + i].branch # pending'[k].branch
      BY <1>2, <1>8, <3>1
    <3>4. \A other \in visited' : other.branch # pending'[k].branch
      BY <1>2, <1>7, <2>1, <3>1 DEF MetOnce
    <3>5. QED
      BY <1>2, <3>1, <3>2, <3>3, <3>4 DEF MetOnce
  <2>2. CASE k \notin 1..m
    <3>1. PICK i \in DOMAIN superiors[class] : k = m + i /\ pending'[k] = parent(i)
      BY <1>2, <2>2
    <3>2. \A l \in 1..m : pending'[l].branch # pending'[k].branch
      BY <1>2, <1>4, <1>6, <1>8, <3>1
    <3>3. \A j \in DOMAIN superiors[class] : m + j # k => pending'[m + j].branch # pending'[k].branch
      BY <1>2, <1>9, <3>1
    <3>4. \A other \in visited' : other.branch # pending'[k].branch
      BY <1>2, <1>6, <1>8, <3>1 DEF Reached
    <3>5. QED
      BY <1>2, <1>10, <3>1, <3>2, <3>3, <3>4
  <2>3. QED
    BY <2>1, <2>2
<1>14. QED
  BY <1>2, <1>11, <1>12, <1>13 DEF MetOnce

\* The count is that of the nodes that were met.
LEMMA MetCount ==
  ASSUME ClassInv, \A item \in Reached : Placed(item), MetOnce, Visit, Passes(pending[Len(pending)]),
         IsFiniteSet(MetNodes(class_index)), Cardinality(MetNodes(class_index)) = count
  PROVE  /\ IsFiniteSet(MetNodes(class_index)') /\ Cardinality(MetNodes(class_index)') = count'
         /\ count' <= MaxVisits
<1>. DEFINE item == pending[Len(pending)]
<1>1. ClassTypeOK
  BY DEF ClassInv
<1>2. /\ UNCHANGED class_index /\ count' = count + 1 /\ visited' = visited \cup {item}
      /\ Len(pending) \in DOMAIN pending
  <2>1. /\ UNCHANGED class_index /\ count' = count + 1 /\ visited' = visited \cup {item}
        /\ Len(pending) - 1 \in Nat /\ DOMAIN pending = 1..(Len(pending) - 1 + 1)
    BY <1>1, VisitFacts
  <2>2. QED
    BY <2>1
<1>3. item.branch[1] = class_index /\ \A other \in visited : other.branch # item.branch
  BY <1>2 DEF MetOnce
<1>4. MetNodes(class_index)' = MetNodes(class_index) \cup {Node(item)}
  BY <1>2, <1>3 DEF MetNodes, Node
<1>5. Node(item) \notin MetNodes(class_index)
  BY <1>3 DEF MetNodes, Node
<1>6. count < MaxVisits /\ count \in Nat /\ MaxVisits \in Nat
  BY <1>1, ClassExtensionsAssumption DEF Passes, ClassTypeOK
<1>. DEFINE met == MetNodes(class_index)
<1>7. IsFiniteSet(met \cup {Node(item)}) /\ Cardinality(met \cup {Node(item)}) = Cardinality(met) + 1
  <2>. HIDE DEF met
  <2>1. IsFiniteSet(met) /\ Node(item) \notin met
    BY <1>5 DEF met
  <2>2. QED
    BY <2>1, FS_AddElement
<1>8. QED
  BY <1>2, <1>4, <1>6, <1>7

\* What was met is in the tree.
LEMMA MetInTree ==
  ASSUME ClassTypeOK, NEW item \in Pending, Placed(item)
  PROVE  Node(item) \in Tree(item.branch[1])
<1>1. item.ancestors \in SUBSET Classes /\ IsFiniteSet(Classes)
  BY ClassExtensionsAssumption DEF Pending
<1>2. /\ Cardinality(item.ancestors) \in Nat /\ Cardinality(Classes) \in Nat
      /\ Cardinality(item.ancestors) <= Cardinality(Classes)
  BY <1>1, FS_Subset, FS_CardinalityType
<1>3. Cardinality(item.ancestors) \in 0..Cardinality(Classes)
  BY <1>2
<1>4. Node(item) \in Level[Cardinality(item.ancestors)] /\ Node(item).branch = item.branch
  BY DEF Placed, Node
<1>5. QED
  BY <1>3, <1>4 DEF Tree

\* A walk that stops has a reason in the hierarchy above the request.
LEMMA VisitRefusal ==
  ASSUME ClassInv, ClassVerdict, Visit, ~Passes(pending[Len(pending)])
  PROVE  class_index \in DOMAIN object_classes /\ ~Unfolds(class_index)
<1>. DEFINE item    == pending[Len(pending)]
            request == object_classes[class_index]
            class   == ClassOf[item.name]
<1>1. /\ ClassTypeOK /\ class_pc = "ancestors" /\ Len(pending) \in DOMAIN pending
      /\ item \in Reached /\ item \in Pending
  BY DEF ClassInv, ClassTypeOK, Visit, Reached
<1>2. MetOnce /\ \A other \in Reached : Placed(other)
  BY DEF ClassVerdict
<1>3. item.branch[1] = class_index /\ \A other \in visited : other.branch # item.branch
  BY <1>1, <1>2 DEF MetOnce
<1>4. Placed(item)
  BY <1>1, <1>2
<1>5. class_index \in DOMAIN object_classes /\ item.name \in Lineage(request)
  BY <1>3, <1>4 DEF Placed
<1>6. CASE ~Inheritable(item.name)
  BY <1>5, <1>6 DEF Unfolds
<1>7. CASE class \in item.ancestors
  <2>1. class # NoClass
    BY <1>1, <1>7, ClassExtensionsAssumption DEF Pending
  <2>2. PICK other \in Lineage(request) : ClassOf[other] = class
    BY <1>3, <1>4, <1>7 DEF Placed
  <2>3. PICK i \in DOMAIN superiors[class] : item.name \in Lineage(superiors[class][i])
    BY <1>4, <1>7 DEF Placed
  <2>4. Cyclic(request)
    BY <2>1, <2>2, <2>3 DEF Cyclic
  <2>5. QED
    BY <1>5, <2>4 DEF Unfolds
<1>8. CASE ~(count < MaxVisits)
  <2>. DEFINE met == MetNodes(class_index)
  <2>1. count \in Nat /\ MaxVisits \in Nat /\ IsFiniteSet(met) /\ Cardinality(met) = count
    BY <1>1, ClassExtensionsAssumption DEF ClassTypeOK, ClassVerdict
  <2>2. Node(item) \notin met
    BY <1>3 DEF MetNodes, Node
  <2>3. Cardinality(met \cup {Node(item)}) = count + 1
    BY <2>1, <2>2, FS_AddElement
  <2>4. ASSUME NEW other \in Reached, other.branch[1] = class_index
        PROVE  Node(other) \in Tree(class_index)
    <3>1. other \in Pending /\ Placed(other)
      BY <1>1, <1>2, BranchFacts
    <3>2. QED
      BY <1>1, <2>4, <3>1, MetInTree
  <2>5. met \cup {Node(item)} \in SUBSET Tree(class_index)
    BY <1>1, <1>3, <2>4 DEF MetNodes, Reached
  <2>6. IsFiniteSet(Tree(class_index)) /\ Cardinality(Tree(class_index)) \in Nat
    BY <1>1, TreeFinite, FS_CardinalityType
  <2>. HIDE DEF met
  <2>7. count + 1 <= Cardinality(Tree(class_index))
    BY <2>3, <2>5, <2>6, FS_Subset
  <2>8. ~(Cardinality(Tree(class_index)) <= MaxVisits)
    BY <1>8, <2>1, <2>6, <2>7
  <2>9. QED
    BY <1>5, <2>8 DEF Unfolds
<1>9. QED
  BY <1>6, <1>7, <1>8 DEF Passes

\* Once nothing is pending, what was met has all its superiors among what was met.
LEMMA MetParents ==
  ASSUME ClassInv, class_pc # "refused", pending = << >>,
         NEW item \in visited, NEW i \in DOMAIN superiors[ClassOf[item.name]]
  PROVE  /\ Parents(item)[i] \in visited /\ item \in Pending /\ Inheritable(item.name)
         /\ ClassOf[item.name] \in Classes /\ ClassOf[item.name] \notin item.ancestors
         /\ Parents(item)[i].name = superiors[ClassOf[item.name]][i]
         /\ Parents(item)[i].ancestors = item.ancestors \cup {ClassOf[item.name]}
         /\ Parents(item)[i].branch = Append(item.branch, i)
<1>1. ClassTypeOK /\ item \in Pending /\ Inheritable(item.name) /\ ClassOf[item.name] \notin item.ancestors
  BY DEF ClassInv, ClassTypeOK
<1>2. Parents(item)[i] \in visited
  BY DEF ClassInv, Reached
<1>3. QED
  BY <1>1, <1>2, ParentItems

\* A complete walk has met no circle.
LEMMA WalkNotCyclic ==
  ASSUME ClassInv, class_pc # "refused", pending = << >>, NEW start \in visited
  PROVE  ~Cyclic(start.name)
<1>. SUFFICES ASSUME NEW other \in Lineage(start.name), ClassOf[other] # NoClass,
                     NEW i \in DOMAIN superiors[ClassOf[other]],
                     NEW again \in Lineage(superiors[ClassOf[other]][i]),
                     ClassOf[again] = ClassOf[other]
              PROVE  FALSE
  BY DEF Cyclic
<1>. DEFINE class == ClassOf[other]
            below == {item \in visited : class \in item.ancestors}
            names == {item.name : item \in below}
<1>1. PICK first \in visited : first.name = other
  BY PassedCovers
<1>2. /\ Parents(first)[i] \in visited /\ Parents(first)[i].name = superiors[class][i]
      /\ class \in Parents(first)[i].ancestors
  BY <1>1, MetParents
<1>3. superiors[class][i] \in names
  BY <1>2
<1>4. ASSUME NEW item \in below, NEW k \in DOMAIN superiors[ClassOf[item.name]]
      PROVE  superiors[ClassOf[item.name]][k] \in names
  <2>1. /\ Parents(item)[k] \in visited /\ Parents(item)[k].name = superiors[ClassOf[item.name]][k]
        /\ Parents(item)[k].ancestors = item.ancestors \cup {ClassOf[item.name]}
    BY <1>4, MetParents
  <2>2. Parents(item)[k] \in below
    BY <1>4, <2>1
  <2>3. QED
    BY <2>1, <2>2
<1>5. ClosedUp(names)
  BY <1>4 DEF ClosedUp
<1>6. names \in SUBSET ClassNames
  BY DEF ClassInv, ClassTypeOK, Pending
<1>7. superiors[class][i] \in ClassNames
  BY <1>3, <1>6
<1>. HIDE DEF names
<1>8. Lineage(superiors[class][i]) \subseteq names
  BY <1>3, <1>5, <1>6, <1>7, LineageLeast DEF ClassInv
<1>9. PICK item \in below : item.name = again
  BY <1>8 DEF names
<1>10. ClassOf[item.name] \notin item.ancestors
  BY <1>9 DEF ClassInv
<1>11. QED
  BY <1>9, <1>10

\* A complete walk has met the whole tree.
LEMMA WalkMeetsTree ==
  ASSUME ClassInv, class_pc # "refused", pending = << >>, Root(class_index) \in visited
  PROVE  Tree(class_index) \subseteq MetNodes(class_index)
<1>. DEFINE Met(depth) == \A node \in Level[depth] :
              node.branch[1] = class_index => node \in MetNodes(class_index)
            S == {depth \in Nat : ~Met(depth)}
<1>1. ClassTypeOK
  BY DEF ClassInv
<1>2. \A depth \in Nat : Met(depth)
  <2>. SUFFICES ASSUME S # {} PROVE FALSE
    OBVIOUS
  <2>1. PICK d \in S : \A e \in S : d <= e
    <3>1. S \in SUBSET Nat
      OBVIOUS
    <3>. HIDE DEF S
    <3>2. QED
      BY <3>1, LeastElement
  <2>2. Met(0)
    <3>. SUFFICES ASSUME NEW node \in Level[0], node.branch[1] = class_index
                  PROVE  node \in MetNodes(class_index)
      OBVIOUS
    <3>1. PICK i \in DOMAIN object_classes : node = [name |-> object_classes[i], branch |-> <<i>>]
      BY LevelDef
    <3>2. i = class_index /\ node = Node(Root(class_index)) /\ Root(class_index).branch[1] = class_index
      BY <3>1 DEF Node, Root
    <3>3. QED
      BY <3>2 DEF MetNodes
  <2>3. ASSUME NEW depth \in Nat, Met(depth) PROVE Met(depth + 1)
    <3>. SUFFICES ASSUME NEW node \in Level[depth + 1], node.branch[1] = class_index
                  PROVE  node \in MetNodes(class_index)
      OBVIOUS
    <3>1. PICK below \in Level[depth] : node \in Raised(below)
      BY LevelDef
    <3>2. below.branch[1] = class_index
      BY <1>1, <3>1, LevelFinite, RaisedFinite
    <3>3. PICK item \in visited : below = Node(item)
      BY <2>3, <3>2 DEF MetNodes
    <3>4. below.name = item.name /\ below.branch = item.branch
      BY <3>3 DEF Node
    <3>5. PICK i \in DOMAIN superiors[ClassOf[item.name]] :
            node = [name |-> superiors[ClassOf[item.name]][i], branch |-> Append(item.branch, i)]
      BY <3>1, <3>4 DEF Raised
    <3>6. Parents(item)[i] \in visited /\ node = Node(Parents(item)[i])
      <4>1. /\ Parents(item)[i] \in visited
            /\ Parents(item)[i].name = superiors[ClassOf[item.name]][i]
            /\ Parents(item)[i].branch = Append(item.branch, i)
        BY MetParents
      <4>2. QED
        BY <3>5, <4>1 DEF Node
    <3>7. node.branch = Parents(item)[i].branch
      BY <3>6 DEF Node
    <3>8. QED
      BY <3>6, <3>7 DEF MetNodes
  <2>. HIDE DEF Met
  <2>4. d # 0 /\ d \in Nat /\ ~Met(d)
    BY <2>1, <2>2
  <2>5. d - 1 \in Nat /\ ~(d <= d - 1) /\ d - 1 + 1 = d
    BY <2>4
  <2>6. Met(d - 1)
    BY <2>1, <2>5
  <2>7. Met(d)
    BY <2>3, <2>5, <2>6
  <2>8. QED
    BY <2>4, <2>7
<1>3. \A depth \in 0..Cardinality(Classes) : depth \in Nat
  BY ClassExtensionsAssumption, FS_CardinalityType
<1>4. QED
  BY <1>2, <1>3 DEF Tree

\* A walk that ends has found the request to unfold.
LEMMA WalkUnfolds ==
  ASSUME ClassInv, ClassVerdict, class_pc = "ancestors", pending = << >>,
         class_index \in DOMAIN object_classes
  PROVE  Unfolds(class_index)
<1>1. ClassTypeOK /\ Root(class_index) \in visited /\ Root(class_index).name = object_classes[class_index]
  BY DEF ClassInv, Reached, Root
<1>2. \A name \in Lineage(object_classes[class_index]) : Inheritable(name)
  BY <1>1, PassedCovers DEF ClassInv
<1>3. ~Cyclic(object_classes[class_index])
  BY <1>1, WalkNotCyclic
<1>4. /\ IsFiniteSet(MetNodes(class_index)) /\ Cardinality(MetNodes(class_index)) = count
      /\ count <= MaxVisits /\ count \in Nat /\ MaxVisits \in Nat
  BY <1>1, ClassExtensionsAssumption DEF ClassVerdict, ClassTypeOK
<1>5. Tree(class_index) \in SUBSET MetNodes(class_index)
  BY <1>1, WalkMeetsTree
<1>6. /\ Cardinality(Tree(class_index)) \in Nat
      /\ Cardinality(Tree(class_index)) <= Cardinality(MetNodes(class_index))
  BY <1>1, <1>4, <1>5, TreeFinite, FS_Subset, FS_CardinalityType
<1>7. QED
  BY <1>2, <1>3, <1>4, <1>6 DEF Unfolds

\* The verdict when a check refuses.
LEMMA RefusalVerdict ==
  ASSUME ClassInv, ClassVerdict, RefuseClass, UNCHANGED class_input, ~AdmissibleClasses
  PROVE  ClassVerdict'
<1>1. /\ class_pc' = "refused" /\ UNCHANGED <<class_index, seen_classes, pending, count, visited>>
      /\ UNCHANGED <<superiors, object_classes>> /\ Reached' = Reached
  BY RefusalFrame
<1>2. AdmissibleClasses' = AdmissibleClasses /\ \A item : Placed(item)' = Placed(item)
  BY <1>1, ClassFrame, VerdictFrame
<1>3. MetOnce'
  BY <1>1 DEF ClassVerdict, MetOnce
<1>4. QED
  BY <1>1, <1>2, <1>3 DEF ClassVerdict

\* One round of the walk.
LEMMA VerdictVisit == ClassInv /\ ClassVerdict /\ Visit => ClassVerdict'
<1>. SUFFICES ASSUME ClassInv, ClassVerdict, Visit PROVE ClassVerdict'
  OBVIOUS
<1>. DEFINE item  == pending[Len(pending)]
            class == ClassOf[item.name]
<1>1. CASE ~Passes(item)
  <2>1. RefuseClass /\ UNCHANGED class_input
    BY <1>1 DEF Visit
  <2>2. ~AdmissibleClasses
    BY <1>1, VisitRefusal DEF AdmissibleClasses
  <2>3. QED
    BY <2>1, <2>2, RefusalVerdict
<1>2. CASE Passes(item)
  <2>1. ClassTypeOK
    BY DEF ClassInv
  <2>2. /\ item \in Pending /\ Inheritable(item.name) /\ class_pc = "ancestors"
        /\ UNCHANGED <<superiors, object_classes, class_pc, class_index, seen_classes>>
        /\ pending # << >>
    BY <1>2, <2>1, VisitFacts DEF Visit
  <2>3. Reached' = Reached \cup {Parents(item)[i] : i \in DOMAIN superiors[class]}
    BY <1>2, <2>1, VisitReaches
  <2>4. item \in Reached /\ class \notin item.ancestors
    BY <1>2, <2>1, <2>2 DEF Reached, Passes, ClassTypeOK
  <2>5. \A other \in Reached : Placed(other)
    BY DEF ClassVerdict
  <2>6. \A i \in DOMAIN superiors[class] : Placed(Parents(item)[i])
    BY <2>1, <2>2, <2>4, <2>5, PlacedParent
  <2>7. \A other : Placed(other)' = Placed(other)
    BY <2>2, VerdictFrame
  <2>8. \A other \in Reached' : Placed(other)'
    BY <2>3, <2>5, <2>6, <2>7
  <2>9. MetOnce'
    BY <1>2, VisitMetOnce DEF ClassVerdict
  <2>10. /\ IsFiniteSet(MetNodes(class_index)') /\ Cardinality(MetNodes(class_index)') = count'
         /\ count' <= MaxVisits
    BY <1>2, <2>2, MetCount DEF ClassVerdict
  <2>11. /\ \A i : Askable(i)' = Askable(i)
         /\ \A i : Unfolds(i)' = Unfolds(i)
    BY <2>2, ClassFrame
  <2>. HIDE DEF item
  <2>12. QED
    BY <2>2, <2>8, <2>9, <2>10, <2>11 DEF ClassVerdict, Settled
<1>3. QED
  BY <1>1, <1>2

\* A class that the definition asks for.
LEMMA VerdictValidate == ClassInv /\ ClassVerdict /\ validate_class => ClassVerdict'
<1>. SUFFICES ASSUME ClassInv, ClassVerdict, validate_class PROVE ClassVerdict'
  OBVIOUS
<1>. DEFINE class == ClassOf[object_classes[class_index]]
<1>1. /\ class_index \in DOMAIN object_classes /\ class_pc = "next" /\ class_index \in Nat
      /\ UNCHANGED <<class_input, superiors, object_classes>> /\ pending = << >> /\ ClassTypeOK
      /\ DOMAIN object_classes \subseteq Nat
  BY DEF validate_class, ClassInv, ClassTypeOK, class_input
<1>2. seen_classes = {ClassOf[name] : name \in Base}
        \cup {ClassOf[object_classes[i]] : i \in {j \in DOMAIN object_classes : j < class_index}}
  BY <1>1 DEF ClassVerdict, Settled
<1>3. CASE ~Addable(class)
  <2>1. ~Askable(class_index) \/ \E i \in DOMAIN object_classes :
          i # class_index /\ ClassOf[object_classes[i]] = class
    BY <1>1, <1>2, <1>3 DEF Addable, Askable
  <2>2. ~AdmissibleClasses
    BY <1>1, <2>1 DEF AdmissibleClasses
  <2>3. QED
    BY <1>3, <2>2, RefusalVerdict DEF validate_class
<1>4. CASE Addable(class)
  <2>1. /\ seen_classes' = seen_classes \cup {class} /\ count' = 0 /\ class_pc' = "ancestors"
        /\ pending' = <<Root(class_index)>> /\ UNCHANGED <<class_index, visited>>
    BY <1>4 DEF validate_class
  <2>2. Reached = visited /\ Reached' = visited \cup {Root(class_index)}
    BY <1>1, <2>1 DEF Reached
  <2>3. /\ \A other \in visited : Placed(other)
        /\ \A other \in visited : other.branch[1] < class_index
        /\ \A other \in visited :
             Len(other.branch) = 1 \/ \E one \in visited : \E i \in Nat : other.branch = Append(one.branch, i)
    BY <1>1, <2>2 DEF ClassVerdict, MetOnce
  <2>4. /\ \A other : Placed(other)' = Placed(other)
        /\ \A i : Askable(i)' = Askable(i)
        /\ \A i : Unfolds(i)' = Unfolds(i)
    BY <1>1, ClassFrame, VerdictFrame
  <2>5. \A other \in Reached' : Placed(other)'
    BY <1>1, <2>2, <2>3, <2>4, PlacedRoot
  <2>6. /\ Root(class_index).branch = <<class_index>> /\ <<class_index>>[1] = class_index
        /\ Len(<<class_index>>) = 1
    BY DEF Root
  <2>7. \A other \in visited : ~(other.branch[1] = class_index)
    BY <1>1, <2>3, BranchFacts, <2>2 DEF ClassVerdict
  <2>8. MetOnce'
    <3>1. \A other \in Reached' :
            Len(other.branch) = 1 \/ \E one \in visited' : \E i \in Nat : other.branch = Append(one.branch, i)
      BY <2>1, <2>2, <2>3, <2>6
    <3>2. DOMAIN pending' = {1} /\ pending'[1] = Root(class_index)
      BY <2>1
    <3>3. QED
      BY <2>1, <2>3, <2>6, <2>7, <3>1, <3>2 DEF MetOnce
  <2>9. MetNodes(class_index)' = {}
    BY <2>1, <2>7 DEF MetNodes
  <2>10. /\ IsFiniteSet(MetNodes(class_index)') /\ Cardinality(MetNodes(class_index)') = count'
         /\ count' <= MaxVisits
    BY <2>1, <2>9, FS_EmptySet, ClassExtensionsAssumption
  <2>11. {j \in DOMAIN object_classes : j < class_index \/ j = class_index}
           = {j \in DOMAIN object_classes : j < class_index} \cup {class_index}
    BY <1>1
  <2>12. seen_classes' = {ClassOf[name] : name \in Base}
           \cup {ClassOf[object_classes[i]] :
                   i \in {j \in DOMAIN object_classes : j < class_index \/ j = class_index}}
    BY <1>2, <2>1, <2>11
  <2>13. Askable(class_index) /\ \A j \in DOMAIN object_classes :
           j < class_index => ClassOf[object_classes[j]] # class
    BY <1>2, <1>4 DEF Addable, Askable
  <2>14. QED
    BY <1>1, <2>1, <2>4, <2>5, <2>8, <2>10, <2>12, <2>13 DEF ClassVerdict, Settled
<1>5. QED
  BY <1>3, <1>4

\* A list that cannot be parsed asks for too much, or twice.
LEMMA ParseRefusal ==
  ASSUME ClassInv, class_pc = "parse", Len(object_classes) > MaxClasses \/ RepeatsClass(object_classes)
  PROVE  ~AdmissibleClasses
<1>1. Len(object_classes) \in Nat /\ MaxClasses \in Nat /\ DOMAIN object_classes \subseteq Nat
  BY ClassExtensionsAssumption DEF ClassInv, ClassTypeOK
<1>2. CASE Len(object_classes) > MaxClasses
  BY <1>1, <1>2 DEF AdmissibleClasses
<1>3. CASE RepeatsClass(object_classes)
  <2>1. PICK i, j \in DOMAIN object_classes : i < j /\ object_classes[i] = object_classes[j]
    BY <1>3 DEF RepeatsClass
  <2>2. i # j
    BY <1>1, <2>1
  <2>3. QED
    BY <2>1, <2>2 DEF AdmissibleClasses
<1>4. QED
  BY <1>2, <1>3

LEMMA VerdictParse == ClassInv /\ ClassVerdict /\ parse_classes => ClassVerdict'
<1>. SUFFICES ASSUME ClassInv, ClassVerdict, parse_classes PROVE ClassVerdict'
  OBVIOUS
<1>1. class_pc = "parse" /\ UNCHANGED <<class_input, superiors, object_classes>>
  BY DEF parse_classes, class_input
<1>2. CASE Len(object_classes) > MaxClasses \/ RepeatsClass(object_classes)
  BY <1>1, <1>2, ParseRefusal, RefusalVerdict DEF parse_classes
<1>3. CASE ~(Len(object_classes) > MaxClasses \/ RepeatsClass(object_classes))
  <2>1. class_pc' = "next" /\ UNCHANGED <<class_index, seen_classes, pending, count, visited>>
    BY <1>3 DEF parse_classes, walk
  <2>2. Len(object_classes) <= MaxClasses
    BY <1>3, ClassExtensionsAssumption DEF ClassInv, ClassTypeOK
  <2>3. Reached' = Reached
    BY <2>1 DEF Reached
  <2>4. /\ \A other : Placed(other)' = Placed(other)
        /\ \A i : Askable(i)' = Askable(i)
        /\ \A i : Unfolds(i)' = Unfolds(i)
    BY <1>1, ClassFrame, VerdictFrame
  <2>5. MetOnce'
    BY <1>1, <2>1, <2>3 DEF ClassVerdict, MetOnce
  <2>6. QED
    BY <1>1, <2>1, <2>2, <2>3, <2>4, <2>5 DEF ClassVerdict, Settled
<1>4. QED
  BY <1>2, <1>3

LEMMA VerdictAccept == ClassInv /\ ClassVerdict /\ AcceptClasses => ClassVerdict'
<1>. SUFFICES ASSUME ClassInv, ClassVerdict, AcceptClasses PROVE ClassVerdict'
  OBVIOUS
<1>1. /\ UNCHANGED <<superiors, object_classes, class_index, seen_classes, pending, count, visited>>
      /\ class_pc' = "accepted" /\ class_pc = "next"
  BY DEF AcceptClasses, class_input, walk
<1>2. Reached' = Reached
  BY <1>1 DEF Reached
<1>3. /\ \A other : Placed(other)' = Placed(other)
      /\ \A i : Askable(i)' = Askable(i)
      /\ \A i : Unfolds(i)' = Unfolds(i)
  BY <1>1, ClassFrame, VerdictFrame
<1>4. MetOnce'
  BY <1>1, <1>2 DEF ClassVerdict, MetOnce
<1>5. QED
  BY <1>1, <1>2, <1>3, <1>4 DEF ClassVerdict, Settled

LEMMA VerdictWalkEnds == ClassInv /\ ClassVerdict /\ WalkEnds => ClassVerdict'
<1>. SUFFICES ASSUME ClassInv, ClassVerdict, WalkEnds PROVE ClassVerdict'
  OBVIOUS
<1>1. /\ UNCHANGED <<superiors, object_classes, seen_classes, pending, count, visited>>
      /\ class_pc' = "next" /\ class_pc = "ancestors" /\ pending = << >> /\ class_index' = class_index + 1
  BY DEF WalkEnds, class_input, walk
<1>2. ClassTypeOK /\ class_index \in Nat /\ DOMAIN object_classes \subseteq Nat
  BY DEF ClassInv, ClassTypeOK
<1>3. Reached' = Reached /\ Reached = visited
  BY <1>1 DEF Reached
<1>4. /\ \A other : Placed(other)' = Placed(other)
      /\ \A i : Askable(i)' = Askable(i)
      /\ \A i : Unfolds(i)' = Unfolds(i)
  BY <1>1, ClassFrame, VerdictFrame
<1>5. \A n \in Nat : n < class_index + 1 <=> n < class_index \/ n = class_index
  BY <1>2
<1>6. \A other \in visited : other.branch[1] \in Nat
  BY <1>2, <1>3, BranchFacts DEF ClassVerdict
<1>7. MetOnce'
  <2>1. \A other \in visited : other.branch[1] < class_index + 1
    BY <1>1, <1>5, <1>6 DEF ClassVerdict, MetOnce
  <2>2. QED
    BY <1>1, <1>3, <2>1 DEF ClassVerdict, MetOnce
<1>8. class_index \in DOMAIN object_classes => Unfolds(class_index)
  BY <1>1, WalkUnfolds
<1>9. \A i \in DOMAIN object_classes : Settled(i)' <=> Settled(i)
  BY <1>1, <1>2, <1>5 DEF Settled
<1>10. \A i \in DOMAIN object_classes : i < class_index + 1 => Unfolds(i)
  BY <1>1, <1>2, <1>5, <1>8 DEF ClassVerdict
<1>11. QED
  BY <1>1, <1>3, <1>4, <1>7, <1>9, <1>10 DEF ClassVerdict

LEMMA ClassVerdictInit == ClassInit => ClassVerdict
<1>. SUFFICES ASSUME ClassInit PROVE ClassVerdict
  OBVIOUS
<1>1. \A i \in DOMAIN object_classes : ~Settled(i) /\ ~(i < class_index)
  BY ClassInitInv DEF ClassInit, ClassInv, ClassTypeOK, Settled
<1>2. Reached = {}
  BY DEF ClassInit, Reached
<1>3. MetOnce
  BY <1>2 DEF ClassInit, MetOnce
<1>4. QED
  BY <1>1, <1>2, <1>3 DEF ClassInit, ClassVerdict

LEMMA ClassVerdictStep == ClassInv /\ ClassVerdict /\ [ClassNext]_class_vars => ClassVerdict'
<1>. SUFFICES ASSUME ClassInv, ClassVerdict, UNCHANGED class_vars PROVE ClassVerdict'
  BY VerdictParse, VerdictValidate, VerdictAccept, VerdictVisit, VerdictWalkEnds DEF ClassNext
<1>1. UNCHANGED <<superiors, object_classes, class_pc, class_index, seen_classes, pending, count, visited>>
  BY DEF class_vars, class_input, walk
<1>2. Reached' = Reached
  BY <1>1 DEF Reached
<1>3. /\ \A other : Placed(other)' = Placed(other)
      /\ \A i : Askable(i)' = Askable(i)
      /\ \A i : Unfolds(i)' = Unfolds(i)
      /\ AdmissibleClasses' = AdmissibleClasses
  BY <1>1, ClassFrame, VerdictFrame
<1>4. MetOnce' /\ MetNodes(class_index)' = MetNodes(class_index)
  BY <1>1, <1>2 DEF ClassVerdict, MetOnce, MetNodes, Node
<1>5. QED
  BY <1>1, <1>2, <1>3, <1>4 DEF ClassVerdict, Settled

\* The loop over the classes refuses only lists that are not admissible, and each walk
\* that has ended has unfolded its request.
THEOREM ClassesJudged == ClassSpec => [](ClassInv /\ ClassVerdict)
<1>1. ClassInit => ClassInv /\ ClassVerdict
  BY ClassInitInv, ClassVerdictInit
<1>2. ClassInv /\ ClassVerdict /\ [ClassNext]_class_vars => ClassInv' /\ ClassVerdict'
  BY ClassNextInv, ClassVerdictStep
<1>3. QED
  BY <1>1, <1>2, PTL DEF ClassSpec

\* So what is accepted is admissible.
LEMMA AcceptedAdmissible == ClassInv /\ ClassVerdict /\ class_pc = "accepted" => AdmissibleClasses
<1>. SUFFICES ASSUME ClassInv, ClassVerdict, class_pc = "accepted" PROVE AdmissibleClasses
  OBVIOUS
<1>1. Len(object_classes) <= MaxClasses
  BY DEF ClassVerdict
<1>2. \A i \in DOMAIN object_classes : i \in Nat /\ i < class_index
  BY DEF ClassInv, ClassTypeOK
<1>3. \A i \in DOMAIN object_classes : /\ Askable(i) /\ Unfolds(i)
        /\ \A j \in DOMAIN object_classes : j < i => ClassOf[object_classes[j]] # ClassOf[object_classes[i]]
  BY <1>2 DEF ClassVerdict, Settled
<1>4. \A i, j \in DOMAIN object_classes : i # j => i < j \/ j < i
  BY <1>2
<1>5. QED
  BY <1>1, <1>3, <1>4 DEF AdmissibleClasses

(***************************************************************************)
(* Reading the definition and the Vault passwords.                         *)
(***************************************************************************)

\* What accounts for the values so far accounts for them when more are decrypted.
LEMMA AccountedStays ==
  ASSUME NEW n, items' = items, decrypted \subseteq decrypted', Accounted(n)
  PROVE  Accounted(n)'
  BY DEF Accounted, EncryptedUpTo

\* One more value.
LEMMA CountNext ==
  ASSUME NEW n \in Nat \ {0}
  PROVE  /\ Cardinality(EncryptedUpTo(n - 1)) \in Nat
         /\ items[n].key = NotEncrypted => EncryptedUpTo(n) = EncryptedUpTo(n - 1)
         /\ items[n].key # NotEncrypted =>
              /\ EncryptedUpTo(n) = EncryptedUpTo(n - 1) \cup {n}
              /\ Cardinality(EncryptedUpTo(n)) = Cardinality(EncryptedUpTo(n - 1)) + 1
<1>1. IsFiniteSet(EncryptedUpTo(n - 1))
  <2>1. IsFiniteSet(1..n - 1)
    BY FS_Interval
  <2> QED
    BY <2>1, FS_Subset DEF EncryptedUpTo
<1>2. n \notin EncryptedUpTo(n - 1)
  BY DEF EncryptedUpTo
<1>3. items[n].key = NotEncrypted => EncryptedUpTo(n) = EncryptedUpTo(n - 1)
  BY DEF EncryptedUpTo
<1>4. items[n].key # NotEncrypted => EncryptedUpTo(n) = EncryptedUpTo(n - 1) \cup {n}
  BY DEF EncryptedUpTo
<1> QED
  BY <1>1, <1>2, <1>3, <1>4, FS_CardinalityType, FS_AddElement

\* What the commands of read_regular before the read leave alone.
LEMMA CountedStays ==
  ASSUME Counted, Reading, Reading', UNCHANGED <<items, decrypted, turn, vault_count, path>>
  PROVE  Counted'
<1>1. \A n : EncryptedUpTo(n)' = EncryptedUpTo(n)
  BY DEF EncryptedUpTo
<1>2. \A n : Accounted(n)' = Accounted(n)
  BY <1>1 DEF Accounted
<1> QED
  BY <1>1, <1>2 DEF Counted, Reading

LEMMA InitialInput == InputInit => InputInv
<1>. SUFFICES ASSUME InputInit PROVE InputInv
  OBVIOUS
<1>1. InputTypeOK
  BY DEF InputInit, InputTypeOK, Paths
<1> QED
  BY <1>1 DEF InputInit, InputInv, PrivateSoFar, Keyed, Counted, Reading

\* A refusal leaves everything but the next command as it is.
LEMMA FailKeeps == InputInv /\ Fail => InputInv'
<1>. SUFFICES ASSUME InputInv, Fail PROVE InputInv'
  OBVIOUS
<1>1. InputTypeOK'
  BY DEF InputInv, InputTypeOK, Fail, reader, vault, Versions, Files, Texts, Paths
<1>2. PrivateSoFar' /\ Keyed' /\ Counted'
  BY DEF InputInv, PrivateSoFar, Keyed, Counted, Reading, Fail, reader, vault
<1> QED
  BY <1>1, <1>2 DEF InputInv

LEMMA LstatKeeps == InputInv /\ Lstat => InputInv'
<1>. SUFFICES ASSUME InputInv, Lstat, ~Fail PROVE InputInv'
  BY FailKeeps
<1>. USE DEF Lstat, Then, vault
<1>1. InputTypeOK'
  BY DEF InputInv, InputTypeOK, Versions, Files, Texts, Paths
<1>2. PrivateSoFar' /\ Keyed'
  BY DEF InputInv, PrivateSoFar, Keyed, Reading, Acceptable
<1>3. Counted'
  BY CountedStays DEF InputInv, Reading
<1> QED
  BY <1>1, <1>2, <1>3 DEF InputInv

LEMMA OpenKeeps == InputInv /\ Open => InputInv'
<1>. SUFFICES ASSUME InputInv, Open, ~Fail PROVE InputInv'
  BY FailKeeps
<1>. USE DEF Open, Then, vault
<1>1. InputTypeOK'
  BY DEF InputInv, InputTypeOK, Versions, Files, Texts, Paths
<1>2. PrivateSoFar' /\ Keyed'
  BY DEF InputInv, PrivateSoFar, Keyed, Reading
<1>3. Counted'
  BY CountedStays DEF InputInv, Reading
<1> QED
  BY <1>1, <1>2, <1>3 DEF InputInv

\* The descriptor has the mode that lstat found acceptable.
LEMMA FstatKeeps == InputInv /\ Fstat => InputInv'
<1>. SUFFICES ASSUME InputInv, Fstat, ~Fail PROVE InputInv'
  BY FailKeeps
<1>. USE DEF Fstat, Then, vault, reader
<1>1. InputTypeOK'
  BY DEF InputInv, InputTypeOK, Versions, Files, Texts, Paths
<1>2. PrivateSoFar' /\ Keyed'
  BY DEF InputInv, PrivateSoFar, Keyed, Reading
<1>3. Counted'
  BY CountedStays DEF InputInv, Reading
<1> QED
  BY <1>1, <1>2, <1>3 DEF InputInv

LEMMA ReadDefinitionKeeps == InputInv /\ ReadDefinition => InputInv'
<1>. SUFFICES ASSUME InputInv, ReadDefinition, ~Fail PROVE InputInv'
  BY FailKeeps
<1>. USE DEF ReadDefinition, Then, vault, Close
<1>1. opened.text \in Definitions
  BY DEF InputInv, InputTypeOK, Versions, Files, Texts
<1>2. InputTypeOK'
  BY <1>1, GeneratorInputAssumption DEF InputInv, InputTypeOK, Versions, Files, Texts, Paths
<1>3. PrivateSoFar' /\ Keyed'
  BY DEF InputInv, PrivateSoFar, Keyed, Reading
<1>4. turn' = 1 /\ vault_count' = 0
  BY DEF InputInv, Counted, Reading
<1>5. EncryptedUpTo(0)' = {} /\ Cardinality(EncryptedUpTo(0)') = 0
  <2>1. EncryptedUpTo(0)' = {}
    BY DEF EncryptedUpTo
  <2> QED
    BY <2>1, FS_EmptySet
<1>6. Accounted(0)'
  BY <1>5, GeneratorInputAssumption DEF Accounted
<1>7. Counted'
  BY <1>2, <1>4, <1>5, <1>6, GeneratorInputAssumption DEF Counted, Reading, InputTypeOK
<1> QED
  BY <1>2, <1>3, <1>7 DEF InputInv

\* A password is read once, so that what was decrypted agrees with it.
LEMMA ReadPasswordKeeps == InputInv /\ ReadPassword => InputInv'
<1>. SUFFICES ASSUME InputInv, ReadPassword, ~Fail PROVE InputInv'
  BY FailKeeps
<1>. USE DEF ReadPassword, Then, Close
<1>1. path \in Sources /\ opened # NoPassword /\ opened.mode = "private"
  BY GeneratorInputAssumption DEF InputInv, InputTypeOK, PrivateSoFar, Paths
<1>2. InputTypeOK'
  BY DEF InputInv, InputTypeOK, Versions, Files, Texts, Paths
<1>3. PrivateSoFar'
  BY DEF PrivateSoFar
<1>4. Keyed'
  BY <1>1 DEF InputInv, InputTypeOK, Keyed, Reading
<1>5. Counted'
  BY DEF InputInv, Counted, Reading, Accounted, EncryptedUpTo
<1> QED
  BY <1>2, <1>3, <1>4, <1>5 DEF InputInv

LEMMA ResolveKeeps == InputInv /\ Resolve => InputInv'
<1>. SUFFICES ASSUME InputInv, Resolve, ~Fail PROVE InputInv'
  BY FailKeeps
<1>. DEFINE key == items[turn].key
<1>. turn \in Nat \ {0} /\ vault_count \in Nat
  BY DEF InputInv, InputTypeOK
<1>1. CASE /\ key = NotEncrypted
           /\ Then("resolve") /\ turn' = turn + 1 /\ UNCHANGED <<reader, items, vault>>
  <2>. USE <1>1 DEF Then, vault, reader
  <2>1. InputTypeOK'
    BY DEF InputInv, InputTypeOK, Versions, Files, Texts, Paths
  <2>2. PrivateSoFar' /\ Keyed'
    BY DEF Resolve, InputInv, PrivateSoFar, Keyed, Reading
  <2>3. EncryptedUpTo(turn) = EncryptedUpTo(turn - 1) /\ turn' - 1 = turn
    BY CountNext
  <2>4. \A n : EncryptedUpTo(n)' = EncryptedUpTo(n)
    BY DEF EncryptedUpTo
  <2>5. \A n : Accounted(n)' = Accounted(n)
    BY <2>4 DEF Accounted
  <2>6. /\ doing = "resolve" /\ turn <= Len(items) /\ vault_count <= MaxVaultValues
        /\ Accounted(turn - 1) /\ vault_count = Cardinality(EncryptedUpTo(turn - 1))
    BY DEF Resolve, InputInv, Counted
  <2>7. Accounted(turn) /\ vault_count = Cardinality(EncryptedUpTo(turn))
    BY <2>3, <2>6 DEF Accounted
  <2>8. (turn - 1)' = turn
    BY <2>3
  <2>9. Accounted(turn - 1)' /\ vault_count' = Cardinality(EncryptedUpTo(turn - 1))'
    BY <2>4, <2>5, <2>7, <2>8 DEF Accounted, EncryptedUpTo
  <2>10. turn' <= Len(items') + 1 /\ doing' = "resolve" /\ vault_count' <= MaxVaultValues
    BY <2>6 DEF InputInv, InputTypeOK
  <2>11. Counted'
    BY <2>9, <2>10 DEF Counted, Reading
  <2> QED
    BY <2>1, <2>2, <2>11 DEF InputInv
<1>2. CASE /\ key # NotEncrypted /\ vault_count < MaxVaultValues /\ key \in Sources
           /\ vault_count' = vault_count + 1
           /\ UNCHANGED <<info, opened, items, turn, passwords, decrypted>>
           /\ IF passwords[key] = NoPassword THEN Then("lstat") /\ path' = key
                                             ELSE Then("decrypt") /\ UNCHANGED path
  <2>. USE <1>2 DEF Then
  <2>1. InputTypeOK'
    BY GeneratorInputAssumption DEF InputInv, InputTypeOK, Paths
  <2>2. PrivateSoFar'
    BY DEF PrivateSoFar
  <2>3. Keyed'
    BY GeneratorInputAssumption DEF Resolve, InputInv, Keyed, Reading
  <2>4. Accounted(turn - 1)' /\ EncryptedUpTo(turn - 1)' = EncryptedUpTo(turn - 1)
    BY DEF Resolve, InputInv, Counted, Accounted, EncryptedUpTo
  <2>5. Counted'
    BY <2>4, GeneratorInputAssumption DEF Resolve, InputInv, Counted, Reading
  <2> QED
    BY <2>1, <2>2, <2>3, <2>5 DEF InputInv
<1> QED
  BY <1>1, <1>2 DEF Resolve

\* Whether it has been decrypted before or is now, the password is the one that
\* its key ID has.
LEMMA DecryptKeeps == InputInv /\ Decrypt => InputInv'
<1>. SUFFICES ASSUME InputInv, Decrypt, ~Fail PROVE InputInv'
  BY FailKeeps
<1>. DEFINE item == items[turn]
<1>1. /\ doing = "decrypt" /\ (item \in decrypted \/ passwords[item.key].text = item.under)
      /\ Then("resolve") /\ turn' = turn + 1 /\ decrypted' = decrypted \cup {item}
      /\ UNCHANGED <<reader, items, passwords, vault_count>>
  BY DEF Decrypt
<1>2. /\ turn \in Nat \ {0} /\ turn <= Len(items) /\ vault_count <= MaxVaultValues
      /\ item.key \in Sources /\ passwords[item.key] # NoPassword
      /\ Accounted(turn - 1) /\ vault_count = Cardinality(EncryptedUpTo(turn - 1)) + 1
  BY <1>1 DEF InputInv, InputTypeOK, Keyed, Counted
<1>3. item.key # NotEncrypted
  BY <1>2, GeneratorInputAssumption
<1>4. InputTypeOK'
  BY <1>1 DEF InputInv, InputTypeOK, Then, reader, Versions, Files, Texts, Paths
<1>5. PrivateSoFar'
  BY <1>1 DEF PrivateSoFar, Then
<1>6. Keyed'
  BY <1>1, <1>2 DEF InputInv, Keyed, Reading, Then
<1>7. Counted'
  <2>1. /\ EncryptedUpTo(turn) = EncryptedUpTo(turn - 1) \cup {turn}
        /\ Cardinality(EncryptedUpTo(turn)) = vault_count
    BY <1>2, <1>3, CountNext
  <2>2. \A n : EncryptedUpTo(n)' = EncryptedUpTo(n)
    BY <1>1 DEF EncryptedUpTo
  <2>3. (turn - 1)' = turn
    BY <1>1, <1>2
  <2>4. /\ Cardinality(EncryptedUpTo(turn)) <= MaxVaultValues
        /\ \A i \in EncryptedUpTo(turn) : items[i].key \in Sources /\ items[i] \in decrypted'
    BY <1>1, <1>2, <2>1 DEF Accounted
  <2>5. EncryptedUpTo(turn - 1)' = EncryptedUpTo(turn)
    BY <2>3, <2>2 DEF EncryptedUpTo
  <2>6. Accounted(turn - 1)' /\ vault_count' = Cardinality(EncryptedUpTo(turn - 1))'
    BY <1>1, <2>1, <2>4, <2>5 DEF Accounted
  <2>7. doing' = "resolve" /\ turn' <= Len(items') + 1 /\ vault_count' <= MaxVaultValues
    BY <1>1, <1>2 DEF InputInv, InputTypeOK, Then
  <2> QED
    BY <2>6, <2>7 DEF Counted, Reading
<1> QED
  BY <1>4, <1>5, <1>6, <1>7 DEF InputInv

LEMMA ResolvedKeeps == InputInv /\ Resolved => InputInv'
<1>. SUFFICES ASSUME InputInv, Resolved PROVE InputInv'
  OBVIOUS
<1>. USE DEF Resolved, Then, vault, reader
<1>1. InputTypeOK'
  BY DEF InputInv, InputTypeOK, Versions, Files, Texts, Paths
<1>2. PrivateSoFar' /\ Keyed'
  BY DEF InputInv, PrivateSoFar, Keyed, Reading
<1>3. turn - 1 = Len(items) /\ Accounted(turn - 1)
  BY DEF InputInv, InputTypeOK, Counted
<1>4. Accounted(Len(items))'
  BY <1>3, AccountedStays DEF Accounted, EncryptedUpTo
<1>5. Counted'
  BY <1>4 DEF Counted, Reading
<1> QED
  BY <1>1, <1>2, <1>5 DEF InputInv

\* Once everything is decrypted.
LEMMA AfterResolution ==
  ASSUME InputInv, doing \in {"inline", "loaded"}, doing' \in {"inline", "loaded"},
         turn' \in Nat \ {0}, UNCHANGED <<file, reader, items, vault>>
  PROVE  InputInv'
<1>1. InputTypeOK'
  BY DEF InputInv, InputTypeOK, Versions, Files, Texts, Paths, reader, vault
<1>2. PrivateSoFar' /\ Keyed'
  BY DEF InputInv, PrivateSoFar, Keyed, Reading, reader, vault
<1>3. Accounted(Len(items))'
  BY DEF InputInv, Counted, Accounted, EncryptedUpTo, vault
<1>4. Counted'
  BY <1>3 DEF Counted, Reading
<1> QED
  BY <1>1, <1>2, <1>4 DEF InputInv

LEMMA InlineCredentialKeeps == InputInv /\ InlineCredential => InputInv'
<1>. SUFFICES ASSUME InputInv, InlineCredential, ~Fail PROVE InputInv'
  BY FailKeeps
<1>1. /\ doing = "inline" /\ Then("inline") /\ turn' = turn + 1
      /\ UNCHANGED <<reader, items, vault>>
  BY DEF InlineCredential
<1>2. turn' \in Nat \ {0}
  BY <1>1 DEF InputInv, InputTypeOK
<1> QED
  BY <1>1, <1>2, AfterResolution DEF Then

LEMMA LoadedKeeps == InputInv /\ Loaded => InputInv'
<1>. SUFFICES ASSUME InputInv, Loaded PROVE InputInv'
  OBVIOUS
<1>1. turn' \in Nat \ {0}
  BY DEF Loaded, InputInv, InputTypeOK
<1> QED
  BY <1>1, AfterResolution DEF Loaded, Then

\* The host can change the descriptor's mode only before fstat looks at it.
LEMMA HostKeeps == InputInv /\ Host => InputInv'
<1>. SUFFICES ASSUME InputInv, Host PROVE InputInv'
  OBVIOUS
<1>1. UNCHANGED <<doing, path, info, items, turn, vault>>
  BY DEF Host
<1>2. PICK p \in Paths : ReplaceFile(p) \/ EditFile(p)
  BY DEF Host
<1>3. /\ DOMAIN file' = Paths /\ \A q \in Paths : file'[q] \in Versions(q)
      /\ doing \in {"fstat", "read"} =>
           /\ opened' \in Files(path)
           /\ doing = "read" => opened'.mode = opened.mode
  <2>1. CASE ReplaceFile(p)
    <3>1. PICK version \in Versions(p) : file' = [file EXCEPT ![p] = version]
      BY <2>1 DEF ReplaceFile, Versions
    <3>2. opened' = opened
      BY <2>1 DEF ReplaceFile
    <3> QED
      BY <3>1, <3>2 DEF InputInv, InputTypeOK
  <2>2. CASE EditFile(p)
    <3>1. PICK version \in Files(p) :
            /\ file' = [file EXCEPT ![p] = version]
            /\ opened' = IF p # path \/ opened = Absent \/ opened.node # version.node THEN opened
                         ELSE IF doing = "fstat" THEN version
                         ELSE [opened EXCEPT !.text = version.text]
      BY <2>2 DEF EditFile
    <3>2. DOMAIN file' = Paths /\ \A q \in Paths : file'[q] \in Versions(q)
      BY <3>1 DEF InputInv, InputTypeOK, Versions
    <3>3. ASSUME doing \in {"fstat", "read"}
          PROVE  /\ opened' \in Files(path)
                 /\ doing = "read" => opened'.mode = opened.mode
      <4>1. opened \in Files(path)
        BY <3>3 DEF InputInv, InputTypeOK
      <4>2. CASE opened' = opened
        BY <4>1, <4>2
      <4>3. CASE p = path /\ doing = "fstat" /\ opened' = version
        BY <3>1, <4>3
      <4>4. CASE p = path /\ doing = "read" /\ opened' = [opened EXCEPT !.text = version.text]
        <5>1. version.text \in Texts(path)
          BY <3>1, <4>4 DEF Files
        <5> QED
          BY <4>1, <4>4, <5>1 DEF Files
      <4> QED
        BY <3>1, <3>3, <4>2, <4>3, <4>4
    <3> QED
      BY <3>2, <3>3
  <2> QED
    BY <1>2, <2>1, <2>2
<1>4. InputTypeOK'
  BY <1>1, <1>3 DEF InputInv, InputTypeOK, vault, Versions, Files, Texts, Paths
<1>5. PrivateSoFar' /\ Keyed'
  BY <1>1, <1>3 DEF InputInv, PrivateSoFar, Keyed, Reading, vault
<1>6. Counted'
  <2>1. \A n : EncryptedUpTo(n)' = EncryptedUpTo(n)
    BY <1>1 DEF EncryptedUpTo
  <2>2. \A n : Accounted(n)' = Accounted(n)
    BY <1>1, <2>1 DEF Accounted, vault
  <2> QED
    BY <1>1, <2>1, <2>2 DEF InputInv, Counted, Reading, vault
<1> QED
  BY <1>4, <1>5, <1>6 DEF InputInv

(***************************************************************************)
(* The steps of the whole.                                                 *)
(***************************************************************************)

\* A step of the validation, in which the host and the reader do nothing.
LEMMA ValidationKeeps == InputInv /\ UNCHANGED input_vars => InputInv'
<1>. SUFFICES ASSUME InputInv, UNCHANGED input_vars PROVE InputInv'
  OBVIOUS
<1>. USE DEF input_vars, reader, vault
<1>1. InputTypeOK'
  BY DEF InputInv, InputTypeOK, Versions, Files, Texts, Paths
<1>2. PrivateSoFar' /\ Keyed'
  BY DEF InputInv, PrivateSoFar, Keyed, Reading
<1>3. Counted'
  <2>1. \A n : EncryptedUpTo(n)' = EncryptedUpTo(n)
    BY DEF EncryptedUpTo
  <2>2. \A n : Accounted(n)' = Accounted(n)
    BY <2>1 DEF Accounted
  <2> QED
    BY <2>1, <2>2 DEF InputInv, Counted, Reading
<1> QED
  BY <1>1, <1>2, <1>3 DEF InputInv

LEMMA InputSteps == InputInv /\ [InputNext]_all_vars => InputInv'
<1>. SUFFICES ASSUME InputInv, [InputNext]_all_vars PROVE InputInv'
  OBVIOUS
<1>1. CASE ReadInput
  BY <1>1, LstatKeeps, OpenKeeps, FstatKeeps, ReadDefinitionKeeps, ReadPasswordKeeps,
     ResolveKeeps, DecryptKeeps, ResolvedKeeps, InlineCredentialKeeps, LoadedKeeps DEF ReadInput
<1>2. CASE Host
  BY <1>2, HostKeeps
<1>3. CASE UNCHANGED input_vars
  BY <1>3, ValidationKeeps
<1> QED
  BY <1>1, <1>2, <1>3 DEF InputNext, Generator, InputRest, all_vars

\* What was checked of a file before it is read, and what has been decrypted and
\* counted, is still so when it is relied upon, whatever the host does.
THEOREM InputAsChecked == InputSpec => []InputInv
  BY InitialInput, InputSteps, PTL DEF InputSpec

\* Vault passwords come from private files, one for each key ID.
THEOREM PasswordsPrivate == InputSpec => []OnePrivatePassword
<1>1. InputInv => OnePrivatePassword
  BY DEF InputInv, Keyed, OnePrivatePassword
<1> QED
  BY InputAsChecked, <1>1, PTL

\* Input that is used keeps to the limit of encrypted values.
THEOREM VaultLimited == InputSpec => []VaultLimits
<1>1. InputInv => VaultLimits
  BY DEF InputInv, Counted, VaultLimits
<1> QED
  BY InputAsChecked, <1>1, PTL

\* A step of the generator is one of each loop, or leaves it alone.
LEMMA StepOfParts == [InputNext]_all_vars => [Next]_vars /\ [ClassNext]_class_vars
<1>. SUFFICES ASSUME [InputNext]_all_vars PROVE [Next]_vars /\ [ClassNext]_class_vars
  OBVIOUS
<1>1. CASE ParseExtensions
  BY <1>1 DEF ParseExtensions, Next, ClassNext
<1>2. CASE ValidateAttributes
  BY <1>2 DEF ValidateAttributes, Next
<1>3. CASE ValidateClasses
  BY <1>3 DEF ValidateClasses, ClassNext
<1>4. CASE MergeValidated
  BY <1>4 DEF MergeValidated, Next
<1>5. CASE UNCHANGED extension_vars
  BY <1>5 DEF extension_vars
<1>6. QED
  BY <1>1, <1>2, <1>3, <1>4, <1>5
     DEF InputNext, Generator, InputRest, all_vars, ExtensionNext, Rest

\* The steps of the generator are steps of the loop over the attributes or leave
\* it alone.
THEOREM ImplementsAttributes == InputSpec => Spec
  BY StepOfParts, PTL DEF InputSpec, ExtensionInit, Spec

\* The steps of the generator are steps of the loop over the classes or leave
\* it alone.
THEOREM ImplementsClasses == InputSpec => ClassSpec
  BY StepOfParts, PTL DEF InputSpec, ExtensionInit, ClassSpec

\* No generated attribute is replaced in an entry that is merged.
THEOREM ExtensionKeepsGenerated == InputSpec => []GeneratedKept
  BY ImplementsAttributes, NothingReplaced, PTL

\* What is merged can be stored.
THEOREM ExtensionIsStorable == InputSpec => []Storable
  BY ImplementsAttributes, MergedIsStorable, PTL

\* Nothing structural, unknown or extensibleObject is inherited.
THEOREM ExtensionInheritsNothingStructural == InputSpec => []NothingStructuralInherited
  BY ImplementsClasses, NothingStructural, PTL

\* Only what both loops have accepted is merged, and what they have accepted stays so.
LEMMA MergedLast ==
  (pc = "merged" => class_pc = "accepted") /\ [InputNext]_all_vars
    => (pc = "merged" => class_pc = "accepted")'
<1>. SUFFICES ASSUME pc = "merged" => class_pc = "accepted", [InputNext]_all_vars, pc' = "merged"
              PROVE  class_pc' = "accepted"
  OBVIOUS
<1>1. CASE pc = "merged"
  <2>1. class_pc = "accepted"
    BY <1>1
  <2>2. [ClassNext]_class_vars
    BY StepOfParts
  <2>3. CASE UNCHANGED class_vars
    BY <2>1, <2>3 DEF class_vars
  <2>4. CASE ClassNext
    BY <2>1, <2>4 DEF ClassNext, parse_classes, validate_class, AcceptClasses, Visit, WalkEnds
  <2>5. QED
    BY <2>2, <2>3, <2>4
<1>2. CASE pc # "merged"
  <2>1. ~UNCHANGED pc
    BY <1>2
  <2>2. ~UNCHANGED vars /\ ~UNCHANGED extension_vars /\ ~UNCHANGED all_vars
    BY <2>1 DEF vars, extension_vars, all_vars
  <2>3. ExtensionNext
    BY <2>2 DEF InputNext, Generator, InputRest
  <2>4. CASE MergeValidated
    BY <2>4 DEF MergeValidated, class_vars
  <2>5. ~parse_extensions /\ ~validate /\ ~attribute_lineage /\ ~Check
    BY DEF parse_extensions, validate, attribute_lineage, Check, Refuse
  <2>6. QED
    BY <2>2, <2>3, <2>4, <2>5 DEF ExtensionNext, ParseExtensions, ValidateAttributes, ValidateClasses, Rest
<1>3. QED
  BY <1>1, <1>2

\* The verdict of the loops is that of the definition: an entry is merged exactly
\* if both of its lists are admissible, for every schema and every list.
THEOREM VerdictIsDefinition == InputSpec => []MergedIfAdmissible
<1>1. InputSpec => [](pc = "merged" => class_pc = "accepted")
  <2>1. Init => (pc = "merged" => class_pc = "accepted")
    BY DEF Init
  <2>2. QED
    BY <2>1, MergedLast, PTL DEF InputSpec, ExtensionInit
<1>2. /\ Inv /\ AttributeVerdict /\ ClassInv /\ ClassVerdict
      /\ pc = "merged" => class_pc = "accepted"
      => MergedIfAdmissible
  <2>. SUFFICES ASSUME Inv, AttributeVerdict, ClassInv, ClassVerdict,
                       pc = "merged" => class_pc = "accepted", Ended
                PROVE  pc = "merged" <=> Admissible /\ AdmissibleClasses
    BY DEF MergedIfAdmissible
  <2>1. CASE pc = "merged"
    BY <2>1, MergedAdmissible, AcceptedAdmissible
  <2>2. CASE pc = "refused"
    BY <2>2 DEF AttributeVerdict
  <2>3. CASE class_pc = "refused"
    BY <2>3 DEF ClassVerdict
  <2>4. QED
    BY <2>1, <2>2, <2>3 DEF Ended
<1>3. QED
  BY <1>1, <1>2, ImplementsAttributes, ImplementsClasses, AttributesJudged, ClassesJudged, PTL
=============================================================================
