------------------------- MODULE AttributeExtensions -------------------------
(***************************************************************************)
(* generator/extensions.py: the attributes that a definition adds to an    *)
(* entry.  Each name is followed through its superiors in the catalog read *)
(* from the schema files, every step of it compared with the attributes    *)
(* that the generator writes itself; then the values are merged.  Names    *)
(* include numeric OIDs.  slapd knows some attributes, and names of them,  *)
(* that no schema file defines.                                            *)
(***************************************************************************)
EXTENDS Integers, Sequences, FiniteSets

CONSTANTS Names,     \* names of attributes as a definition spells them
          Fold,      \* str.casefold
          Oids, None,
          Means,     \* the attribute that slapd takes a name for
          Catalog,   \* names that the schema files define, case-folded
          Olc,       \* names of slapd's own configuration
          Ordinary,  \* user attributes that users may change and that are not collective
          SingleValued,
          Schemas,   \* what schema files may say: the superiors of each attribute
          Requests,  \* lists of attributes with their values
          MaxDepth,      \* 128
          MaxAttributes, \* 128
          MaxValues      \* 64

MANAGED_ATTRIBUTES ==
  {"objectclass", "2.5.4.0", "entryuuid", "1.3.6.1.1.16.4", "userpassword", "2.5.4.35",
   "member", "2.5.4.31", "memberof", "1.2.840.113556.1.2.102"}

\* Per kind of entry; "mail" stands for the optional text fields of a user.
Reserved == [user  |-> {"uid", "cn", "sn", "proxyaddresses", "mail"},
             group |-> {"cn"},
             bind  |-> {"uid", "cn", "displayname"}]
Generated == [user  |-> {"objectClass", "uid", "cn", "sn", "entryUUID", "userPassword",
                         "mail", "proxyAddresses", "memberOf"},
              group |-> {"objectClass", "cn", "entryUUID", "member"},
              bind  |-> {"objectClass", "uid", "cn", "displayName", "entryUUID", "userPassword"}]

ASSUME AttributeExtensionsAssumption ==
  /\ Fold \in [Names -> Names] /\ \A name \in Names : Fold[Fold[name]] = Fold[name]
  /\ Means \in [Names -> Oids] /\ None \notin Oids /\ IsFiniteSet(Oids) /\ Catalog \subseteq Names
  /\ \A name \in Names : Means[Fold[name]] = Means[name]
  /\ \A known \in Catalog : Fold[known] = known
  /\ MANAGED_ATTRIBUTES \subseteq Names /\ Olc \subseteq Names
  /\ \A entity \in {"user", "group", "bind"} :
       /\ Reserved[entity] \subseteq Catalog /\ Generated[entity] \subseteq Names
       /\ \A own \in Generated[entity] : Fold[own] \in MANAGED_ATTRIBUTES \cup Reserved[entity]
       /\ \A name \in Reserved[entity] : \E own \in Generated[entity] : Fold[own] = name
  \* a managed attribute that the catalog defines is listed there by its OID too,
  \* and one of the configuration as slapd names it: no OID is defined twice
  /\ \A known \in Catalog : \A managed \in MANAGED_ATTRIBUTES : Means[managed] = Means[known] =>
       \E name \in MANAGED_ATTRIBUTES \cap Catalog : Means[name] = Means[known]
  /\ \A known \in Catalog : \A name \in Olc : Means[name] = Means[known] =>
       \E listed \in Olc \cap Catalog : Means[listed] = Means[known]
  /\ \A schema \in Schemas : schema \in [Oids -> Seq(Names)]
  /\ \A list \in Requests : list \in Seq([name : Names, values : Seq(STRING)])
  /\ Ordinary \subseteq Oids /\ SingleValued \subseteq Oids
  /\ MaxDepth \in Nat /\ MaxAttributes \in Nat /\ MaxValues \in Nat

VARIABLES
  sup, kind, attributes,  \* schema, kind of entry and request
  pc, index,
  seen,                   \* attributes accepted so far
  at, lineage,            \* attribute_lineage: next name, attributes found
  entry                   \* the merged entry: values by name

input == <<sup, kind, attributes>>
vars  == <<input, pc, index, seen, at, lineage, entry>>

\* schema.get_obj: spelling does not matter, slapd's built-in names are unknown.
Lookup(name) == IF Fold[name] \in Catalog THEN Means[name] ELSE None

Aliases(oid) == {Fold[name] : name \in {n \in Names : Lookup(n) = oid}}

\* getoid leaves a name alone that the catalog lacks.
Protected ==
  LET names == MANAGED_ATTRIBUTES \cup Reserved[kind]
      oids  == {Lookup(name) : name \in names} \ {None}
  IN  names \cup UNION {Aliases(oid) : oid \in oids}

Init ==
  /\ sup \in Schemas /\ kind \in {"user", "group", "bind"} /\ attributes \in Requests
  /\ pc = "parse" /\ index = 1 /\ seen = {} /\ at = None /\ lineage = << >> /\ entry = << >>

-----------------------------------------------------------------------------
Refuse == pc' = "refused" /\ UNCHANGED <<input, index, seen, at, lineage, entry>>

Elements(list) == {list[i] : i \in DOMAIN list}
Repeats(list) == Cardinality(Elements(list)) # Len(list)

\* Each name and each value by itself is one that identifier and the limits of
\* its length and characters let pass.
WellFormed(list) ==
  /\ Len(list) <= MaxAttributes
  /\ ~Repeats([i \in DOMAIN list |-> Fold[list[i].name]])
  /\ \A i \in DOMAIN list : Len(list[i].values) \in 1..MaxValues /\ ~Repeats(list[i].values)

parse_extensions ==
  /\ pc = "parse"
  /\ IF WellFormed(attributes)
       THEN pc' = "next" /\ UNCHANGED <<input, index, seen, at, lineage, entry>>
       ELSE Refuse

Forbidden(names) == names \cap (Protected \cup Olc) # {}

validate ==
  /\ pc = "next" /\ index <= Len(attributes)
  /\ IF Forbidden({Fold[attributes[index].name]}) THEN Refuse
     ELSE /\ pc' = "lineage" /\ at' = attributes[index].name /\ lineage' = << >>
          /\ UNCHANGED <<input, index, seen, entry>>

\* Variant: the loop does not remember where it has been.
LineageForgotten ==
  /\ pc = "lineage"
  /\ LET oid == Lookup(at) IN
     IF oid = None \/ Len(sup[oid]) > 1
       THEN Refuse
       ELSE /\ lineage' = IF lineage = << >> THEN <<oid>> ELSE lineage
            /\ IF sup[oid] = << >> THEN pc' = "check" /\ UNCHANGED at
                                   ELSE at' = sup[oid][1] /\ UNCHANGED pc
            /\ UNCHANGED <<input, index, seen, entry>>

\* One round of the loop of attribute_lineage.
attribute_lineage ==
  /\ pc = "lineage"
  /\ LET oid == Lookup(at) IN
     IF oid = None \/ oid \in Elements(lineage) \/ Len(lineage) >= MaxDepth \/ Len(sup[oid]) > 1
       THEN Refuse
       ELSE /\ lineage' = Append(lineage, oid)
            /\ IF sup[oid] = << >> THEN pc' = "check" /\ UNCHANGED at
                                   ELSE at' = sup[oid][1] /\ UNCHANGED pc
            /\ UNCHANGED <<input, index, seen, entry>>

\* Variant: only the attribute itself is looked at.
SuitableItself(oid, values) ==
  /\ ~Forbidden(IF oid = lineage[1] THEN Aliases(oid) ELSE {}) /\ oid \in Ordinary
  /\ oid \in SingleValued => Len(values) = 1

Suitable(oid, values) ==
  /\ ~Forbidden(Aliases(oid)) /\ oid \in Ordinary
  /\ oid \in SingleValued => Len(values) = 1

\* Variant: an alias is a new attribute.
CheckByName ==
  /\ pc = "check"
  /\ IF \A oid \in Elements(lineage) : Suitable(oid, attributes[index].values)
       THEN /\ pc' = "next" /\ index' = index + 1 /\ seen' = seen \cup {lineage[1]}
            /\ UNCHANGED <<input, at, lineage, entry>>
       ELSE Refuse

Check ==
  /\ pc = "check"
  /\ IF /\ \A oid \in Elements(lineage) : Suitable(oid, attributes[index].values)
        /\ lineage[1] \notin seen
       THEN /\ pc' = "next" /\ index' = index + 1 /\ seen' = seen \cup {lineage[1]}
            /\ UNCHANGED <<input, at, lineage, entry>>
       ELSE Refuse

\* Extensions.merge: what the definition adds takes the place of a generated
\* attribute of the same name.  "own" stands for generated values.
Merged ==
  LET added == {attributes[i].name : i \in DOMAIN attributes} IN
  [name \in Generated[kind] \cup added |->
     IF name \in added
       THEN (CHOOSE item \in Elements(attributes) : item.name = name).values
       ELSE <<"own">>]

merge ==
  /\ pc = "next" /\ index > Len(attributes)
  /\ pc' = "merged" /\ entry' = Merged /\ UNCHANGED <<input, index, seen, at, lineage>>

Next == parse_extensions \/ validate \/ attribute_lineage \/ Check \/ merge
Spec == Init /\ [][Next]_vars

-----------------------------------------------------------------------------
(* Properties.                                                             *)

\* The attribute a name means and those it is a subtype of.
Closed(oids) == \A oid \in oids : \A i \in DOMAIN sup[oid] : Means[sup[oid][i]] \in oids
Above(name) ==
  LET closed == {oids \in SUBSET Oids : Means[name] \in oids /\ Closed(oids)}
  IN  {oid \in Oids : \A oids \in closed : oid \in oids}

\* No added attribute takes the place of a generated one, or adds values to it,
\* by another spelling, an alias, a numeric OID or a subtype: neither those of
\* the catalog nor those that only slapd knows ("Attribute subtypes MUST NOT
\* bypass reserved-field", ARCHITECTURE.md).
GeneratedKept ==
  pc = "merged" =>
    /\ \A own \in Generated[kind] : entry[own] = <<"own">>
    /\ \A name \in DOMAIN entry \ Generated[kind] :
         \A oid \in Above(name) : \A own \in Generated[kind] : Means[own] # oid

\* What is merged can be stored: every attribute once, with the number of
\* values that it and its superiors allow, and nothing that slapd maintains.
Storable ==
  pc = "merged" => \A name \in DOMAIN entry \ Generated[kind] :
    /\ Above(name) \subseteq Ordinary
    /\ Above(name) \cap SingleValued # {} => Len(entry[name]) = 1
    /\ \A other \in DOMAIN entry : other # name => Means[other] # Means[name]

\* What a definition may ask for: attributes that are known with all their
\* superiors, ordinary, not generated on this kind of entry, no two the same, each
\* with a fitting number of values.
Fitting(item) ==
  LET above == Above(item.name)
  IN  /\ Lookup(item.name) # None /\ above \subseteq Ordinary
      /\ \A oid \in above : Len(sup[oid]) < 2
      /\ \A oid \in above : \A k \in DOMAIN sup[oid] : Lookup(sup[oid][k]) # None
      /\ \E oid \in above : sup[oid] = << >>
      /\ above \cap SingleValued # {} => Len(item.values) = 1
      /\ \A name \in Olc \cup MANAGED_ATTRIBUTES \cup Generated[kind] : Means[name] \notin above
      /\ Cardinality(above) <= MaxDepth

Admissible ==
  /\ WellFormed(attributes)
  /\ \A i \in DOMAIN attributes :
       /\ Fitting(attributes[i])
       /\ \A j \in DOMAIN attributes : i # j => Means[attributes[j].name] # Means[attributes[i].name]

\* Why the first two hold: the lineage is a chain that begins with the name of
\* the request and ends without superior, and each request that has been
\* accepted has such a chain of suitable attributes, so one that is closed.
TypeOK ==
  /\ sup \in [Oids -> Seq(Names)] /\ kind \in {"user", "group", "bind"}
  /\ attributes \in Seq([name : Names, values : Seq(STRING)])
  /\ pc \in {"parse", "next", "lineage", "check", "merged", "refused"}
  /\ index \in Nat \ {0} /\ seen \subseteq Oids
  /\ pc \in {"lineage", "check"} => index \in DOMAIN attributes
  /\ pc = "lineage" => at \in Names
  /\ lineage \in Seq(Oids)

Chain ==
  /\ \A k \in DOMAIN lineage : \E name \in Names : Lookup(name) = lineage[k]
  /\ lineage # << >> => lineage[1] = Means[attributes[index].name]
  /\ pc = "lineage" => at = attributes[index].name \/ lineage # << >>
  /\ \A k \in DOMAIN lineage : \A i \in DOMAIN sup[lineage[k]] :
       \/ \E m \in DOMAIN lineage : lineage[m] = Means[sup[lineage[k]][i]]
       \/ pc = "lineage" /\ Means[at] = Means[sup[lineage[k]][i]]
  /\ pc = "check" => lineage # << >>

Accepted(item, oids) ==
  /\ oids \subseteq {Lookup(name) : name \in Names} \cap Oids
  /\ Means[item.name] \in oids /\ Closed(oids)
  /\ \A oid \in oids : Suitable(oid, item.values)

Inv ==
  /\ TypeOK
  /\ pc \in {"lineage", "check"} => Chain
  /\ pc # "refused" => \A i \in DOMAIN attributes :
       /\ i < index \/ (i = index /\ pc \in {"lineage", "check"}) =>
            ~Forbidden({Fold[attributes[i].name]})
       /\ i < index => /\ \E oids \in SUBSET Oids : Accepted(attributes[i], oids)
                       /\ Means[attributes[i].name] \in seen
                       /\ \A j \in DOMAIN attributes : j < i =>
                            Means[attributes[j].name] # Means[attributes[i].name]
  /\ pc = "merged" => index > Len(attributes) /\ entry = Merged
=============================================================================
